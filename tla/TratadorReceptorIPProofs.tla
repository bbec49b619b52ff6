---------------------- MODULE TratadorReceptorIPProofs ----------------------
(***************************************************************************)
(* Proofs about the Go receiver session, for any depth of its queues, any  *)
(* segments and any bounds on reads and timeouts.                          *)
(***************************************************************************)
EXTENDS TratadorReceptorIP, TLAPS

-----------------------------------------------------------------------------
(***************************************************************************)
(* Type correctness.                                                       *)
(***************************************************************************)
\* Posting an event of the right kind keeps Events within its capacity.
LEMMA PostaTipo ==
  ASSUME TypeOK, NEW e \in Evento, Posta(e)
  PROVE  /\ Events' \in Seq(Evento)
         /\ Len(Events') <= send_queue_depth + queue_depth
         /\ panico' \in BOOLEAN
  <1>1. CASE ~ev_fechado /\ Cabe /\ Events' = Append(Events, e) /\ UNCHANGED panico
    <2>1. /\ Events' \in Seq(Evento) /\ Len(Events') = Len(Events) + 1
          /\ Len(Events) \in Nat
      BY <1>1 DEF TypeOK
    <2>2. panico' \in BOOLEAN
      BY <1>1 DEF TypeOK
    <2> QED
      BY <1>1, <2>1, <2>2, FilasAssumption DEF Cabe
  <1>2. CASE ev_fechado /\ panico' = TRUE /\ UNCHANGED Events
    BY <1>2 DEF TypeOK
  <1> QED
    BY <1>1, <1>2 DEF Posta

\* Taking an event leaves fewer of them.
LEMMA PegaTipo ==
  ASSUME TypeOK, NEW N, Pega(N)
  PROVE  /\ Events' \in Seq(Evento)
         /\ Len(Events') <= send_queue_depth + queue_depth
         /\ Head(Events) \in Evento
  BY FilasAssumption DEF TypeOK, Pega

\* A plain event is an event.
LEMMA SimplesTipo ==
  ASSUME NEW nome \in Nomes
  PROVE  Simples(nome) \in Evento /\ Simples(nome).nome = nome
  BY DEF Simples, Evento

\* What a read returns, or nothing, is a segment.
LEMMA CargaTipo ==
  ASSUME NEW e \in Evento
  PROVE  e.carga \in Segmento
  <1>1. SegVazio \in Segmento
    <2>1. <<>> \in Seq(Quadro)
      OBVIOUS
    <2> QED
      BY <2>1 DEF Segmento, SegVazio
  <1>2. e.carga \in Segmentos \cup {SegVazio}
    BY DEF Evento
  <1> QED
    BY <1>1, <1>2, SegmentosAssumption

\* Every step of the session keeps every variable of its type.
LEMMA SessaoTipo ==
  ASSUME TypeOK, DaSessao
  PROVE  TypeOK'
  <1> USE DEF DaSessao, canais
  <1>n. Nenhum \in Evento
    BY SimplesTipo DEF Nenhum, Nomes
  <1>1. CASE \E como \in {"fin", "rst"} : RedeCai(como)
    BY <1>1 DEF TypeOK, RedeCai
  <1>2. ASSUME NEW seg \in Segmentos, LeDados(seg) PROVE TypeOK'
    <2>1. [nome |-> "Recv", carga |-> seg] \in Evento
      BY DEF Evento, Nomes
    <2> QED
      BY <1>2, <2>1 DEF TypeOK, LeDados, Le
  <1>3. CASE LeFim
    <2>1. Simples("RecvEof") \in Evento /\ Simples("Err") \in Evento
      BY SimplesTipo DEF Nomes
    <2> QED
      BY <1>3, <2>1 DEF TypeOK, LeFim, Le
  <1>4. CASE PostaRecv
    <2>1. recv_ev \in Evento /\ Posta(recv_ev)
      BY <1>4 DEF TypeOK, PostaRecv
    <2> QED
      BY <1>4, <1>n, <2>1, PostaTipo DEF TypeOK, PostaRecv
  <1>5. CASE TiraMensagem
    BY <1>5, FilasAssumption DEF TypeOK, TiraMensagem
  <1>6. CASE Escreve
    <2>1. Simples("Sent") \in Evento
      BY SimplesTipo DEF Nomes
    <2> QED
      BY <1>6, <2>1 DEF TypeOK, Escreve
  <1>7. ASSUME NEW nome \in {"Err", "SendEof"}, EscreveFalha(nome) PROVE TypeOK'
    <2>1. Simples(nome) \in Evento
      BY SimplesTipo DEF Nomes
    <2> QED
      BY <1>7, <2>1 DEF TypeOK, EscreveFalha
  <1>8. CASE PostaSend
    <2>1. send_ev \in Evento /\ Posta(send_ev)
      BY <1>8 DEF TypeOK, PostaSend
    <2> QED
      BY <1>8, <1>n, <2>1, PostaTipo DEF TypeOK, PostaSend, AposPostar
  <1>9. CASE Drena
    BY <1>9, FilasAssumption DEF TypeOK, Drena
  <1>10. CASE FimSend
    BY <1>10 DEF TypeOK, FimSend
  <1>11. ASSUME NEW t \in Timeouts, Dispara(t) PROVE TypeOK'
    BY <1>11 DEF TypeOK, Dispara
  <1>12. ASSUME NEW t \in Timeouts, PostaTimeout(t) PROVE TypeOK'
    <2>1. Simples(t) \in Evento /\ Posta(Simples(t))
      BY <1>12, SimplesTipo DEF Nomes, PostaTimeout
    <2>2. voo' \in [Timeouts -> Nat]
      BY <1>12 DEF TypeOK, PostaTimeout
    <2> QED
      BY <1>12, <2>1, <2>2, PostaTipo DEF TypeOK, PostaTimeout
  <1>13. ASSUME NEW t \in Timeouts, Disown(t) PROVE TypeOK'
    BY <1>13 DEF TypeOK, Disown
  <1>14. CASE DisownAll
    BY <1>14 DEF TypeOK, DisownAll
  <1>15. CASE FechaEvents
    BY <1>15 DEF TypeOK, FechaEvents
  <1>16. CASE Died
    BY <1>16 DEF TypeOK, Died
  <1> QED
    BY <1>1, <1>2, <1>3, <1>4, <1>5, <1>6, <1>7, <1>8, <1>9, <1>10, <1>11,
       <1>12, <1>13, <1>14, <1>15, <1>16 DEF Sessao

\* Every step of the handler keeps every variable of its type.
LEMMA TratadorTipo ==
  ASSUME TypeOK, Tratador
  PROVE  TypeOK'
  <1> USE DEF resto_da_sessao, canais
  <1>1. CASE NewTratadorReceptorIP
    BY <1>1, NomesAssumption DEF TypeOK, NewTratadorReceptorIP
  <1>2. CASE EventoRecv
    <2>1. Pega({"Recv"})
      BY <1>2 DEF EventoRecv
    <2>2. Head(Events).carga \in Segmento
      BY <2>1, PegaTipo, CargaTipo
    <2> DEFINE c == Head(Events).carga
               qs == buffer.quadros \o c.quadros
    <2>a. buffer.quadros \in Seq(Quadro) /\ c.quadros \in Seq(Quadro)
          /\ c.resto \in BOOLEAN
      BY <2>2 DEF TypeOK, Segmento
    <2>b. qs \in Seq(Quadro)
      BY <2>a
    <2>3. buffer' \in Segmento
      <3>1. buffer' = [quadros |-> qs, resto |-> c.resto]
        BY <1>2 DEF EventoRecv
      <3> HIDE DEF c, qs
      <3> QED
        BY <3>1, <2>a, <2>b DEF Segmento
    <2>4. timers' \in [Timeouts -> {"nil", "armado", "parado"}]
      BY <1>2 DEF EventoRecv, TypeOK
    <2>5. /\ Events' \in Seq(Evento)
          /\ Len(Events') <= send_queue_depth + queue_depth
      BY <2>1, PegaTipo
    <2>6. trat' = "parse"
          /\ UNCHANGED <<resto_da_sessao, voo, central_identificada, perguntas,
                         ev_fechado, to_send, ts_fechado, panico>>
      BY <1>2 DEF EventoRecv, Pega
    <2> QED
      BY <2>3, <2>4, <2>5, <2>6 DEF TypeOK
  <1>3. CASE EventoIgnorado
    <2>1. Pega(Nomes \ ({"Recv"} \cup Encerra))
      BY <1>3 DEF EventoIgnorado
    <2> QED
      BY <1>3, <2>1, PegaTipo DEF TypeOK, EventoIgnorado, Pega
  <1>4. CASE EventoEncerra
    <2>1. Pega(Encerra)
      BY <1>4 DEF EventoEncerra
    <2> QED
      BY <1>4, <2>1, PegaTipo DEF TypeOK, EventoEncerra, Pega
  <1>5. CASE trata_pacote
    <2>1. buffer' \in Segmento
      <3>1. buffer.quadros \in Seq(Quadro) /\ buffer.quadros # <<>>
        BY <1>5 DEF TypeOK, trata_pacote, Segmento
      <3>2. Tail(buffer.quadros) \in Seq(Quadro)
        BY <3>1
      <3> QED
        BY <1>5, <3>2 DEF TypeOK, trata_pacote, Segmento
    <2>2. timers' \in [Timeouts -> {"nil", "armado", "parado"}]
      BY <1>5 DEF TypeOK, trata_pacote
    <2>3. central_identificada' \in BOOLEAN
      BY <1>5 DEF trata_pacote
    <2> QED
      BY <1>5, <2>1, <2>2, <2>3 DEF TypeOK, trata_pacote
  <1>6. CASE enviar
    BY <1>6, FilasAssumption DEF TypeOK, enviar, Send
  <1>7. CASE FimParse
    <2>1. timers' \in [Timeouts -> {"nil", "armado", "parado"}] /\ trat' = "range"
      BY <1>7 DEF TypeOK, FimParse
    <2>2. UNCHANGED <<resto_da_sessao, canais, voo, panico, buffer, central_identificada,
                      perguntas>>
      BY <1>7 DEF FimParse
    <2> QED
      BY <2>1, <2>2 DEF TypeOK, resto_da_sessao, canais
  <1>8. CASE Fecha1
    BY <1>8 DEF TypeOK, Fecha1, CloseConn
  <1>9. CASE Fecha2
    BY <1>9 DEF TypeOK, Fecha2, CloseToSend
  <1>10. CASE DrenaEvents
    <2>1. Pega(Nomes)
      BY <1>10 DEF DrenaEvents
    <2> QED
      BY <1>10, <2>1, PegaTipo DEF TypeOK, DrenaEvents, Pega
  <1>11. CASE FimClose
    BY <1>11 DEF TypeOK, FimClose, svars
  <1> QED
    BY <1>1, <1>2, <1>3, <1>4, <1>5, <1>6, <1>7, <1>8, <1>9, <1>10, <1>11
       DEF Tratador

\* Type correctness: the channels never hold more than their capacity and
\* every program counter, timer and buffer is well formed.
THEOREM TipoSessao == Spec => []TypeOK
  <1>1. Init => TypeOK
    <2>1. Simples("Connected") \in Evento
      BY SimplesTipo DEF Nomes
    <2>2. SegVazio \in Segmento
      BY <2>1, CargaTipo DEF Simples
    <2>3. /\ <<Simples("Connected")>> \in Seq(Evento)
          /\ Len(<<Simples("Connected")>>) = 1
      BY <2>1
    <2>4. ASSUME Init
          PROVE  /\ Events \in Seq(Evento)
                 /\ Len(Events) <= send_queue_depth + queue_depth
                 /\ to_send \in 0 .. send_queue_depth
      BY <2>3, <2>4, FilasAssumption DEF Init, SInit
    <2>5. ASSUME Init
          PROVE  recv_ev \in Evento /\ send_ev \in Evento /\ buffer \in Segmento
      BY <2>1, <2>2, <2>5 DEF Init, SInit, Nenhum
    <2>6. ASSUME Init
          PROVE  /\ timers \in [Timeouts -> {"nil", "armado", "parado"}]
                 /\ voo \in [Timeouts -> Nat]
                 /\ lidos \in Nat /\ disparos \in Nat /\ escritas \in Nat
                 /\ perguntas \in Nat
      BY <2>6 DEF Init, SInit
    <2>7. ASSUME Init
          PROVE  /\ conn_fechada \in BOOLEAN /\ ev_fechado \in BOOLEAN
                 /\ ts_fechado \in BOOLEAN /\ panico \in BOOLEAN
                 /\ central_identificada \in BOOLEAN
      BY <2>7 DEF Init, SInit
    <2>8. ASSUME Init
          PROVE  /\ rede \in {"aberta", "fin", "rst"}
                 /\ recv \in {"le", "posta", "fim"}
                 /\ send \in {"espera", "escreve", "posta", "drena", "fim"}
                 /\ fim \in {"nao", "disown", "espera", "died", "fim"}
                 /\ trat \in {"inicio", "range", "parse", "send", "close",
                              "drena", "fim"}
      BY <2>8 DEF Init, SInit
    <2> QED
      BY <2>4, <2>5, <2>6, <2>7, <2>8 DEF TypeOK
  <1>2. TypeOK /\ [Next]_vars => TypeOK'
    <2> SUFFICES ASSUME TypeOK, [Next]_vars PROVE TypeOK'
      OBVIOUS
    <2>1. CASE UNCHANGED vars
      BY <2>1 DEF vars, svars, canais, TypeOK
    <2> QED
      BY <2>1, SessaoTipo, TratadorTipo DEF Next
  <1> QED
    BY <1>1, <1>2, PTL DEF Spec

-----------------------------------------------------------------------------
(***************************************************************************)
(* The order of closing.  Close() is called by the handler, which from     *)
(* then on only drains: fim follows trat, and Events is closed when the    *)
(* goroutine of Close() has passed DisownAll and the wait group.           *)
(***************************************************************************)
InvFecho ==
  /\ fim # "nao" <=> trat \in {"drena", "fim"}
  /\ fim # "nao" => ts_fechado /\ conn_fechada
  /\ fim \in {"espera", "died", "fim"} => \A t \in Timeouts : timers[t] # "armado"
  /\ ev_fechado <=> fim \in {"died", "fim"}
  /\ ev_fechado => recv = "fim" /\ send = "fim"
  /\ panico => ev_fechado

\* A step of the session keeps the order of closing.
LEMMA SessaoFecho ==
  ASSUME TypeOK, InvFecho, DaSessao
  PROVE  InvFecho'
  <1> USE DEF DaSessao, canais, InvFecho
  <1>1. CASE \E como \in {"fin", "rst"} : RedeCai(como)
    BY <1>1 DEF RedeCai
  <1>2. CASE \E seg \in Segmentos : LeDados(seg)
    BY <1>2 DEF LeDados, Le
  <1>3. CASE LeFim
    BY <1>3 DEF LeFim, Le
  <1>4. CASE PostaRecv
    BY <1>4 DEF PostaRecv, Posta
  <1>5. CASE TiraMensagem \/ Escreve \/ Drena \/ FimSend
    BY <1>5 DEF TiraMensagem, Escreve, Drena, FimSend
  <1>6. CASE \E nome \in {"Err", "SendEof"} : EscreveFalha(nome)
    BY <1>6 DEF EscreveFalha
  <1>7. CASE PostaSend
    BY <1>7 DEF PostaSend, Posta
  <1>8. ASSUME NEW t \in Timeouts, Dispara(t) PROVE InvFecho'
    BY <1>8 DEF Dispara, TypeOK
  <1>9. ASSUME NEW t \in Timeouts, PostaTimeout(t) PROVE InvFecho'
    BY <1>9 DEF PostaTimeout, Posta
  <1>10. ASSUME NEW t \in Timeouts, Disown(t) PROVE InvFecho'
    BY <1>10 DEF Disown, TypeOK
  <1>11. CASE DisownAll
    BY <1>11 DEF DisownAll
  <1>12. CASE FechaEvents
    BY <1>12 DEF FechaEvents, Terminaram
  <1>13. CASE Died
    BY <1>13 DEF Died
  <1> QED
    BY <1>1, <1>2, <1>3, <1>4, <1>5, <1>6, <1>7, <1>8, <1>9, <1>10, <1>11,
       <1>12, <1>13 DEF Sessao

\* A step of the handler keeps the order of closing: it arms no timeout once
\* Close() was called.
LEMMA TratadorFecho ==
  ASSUME TypeOK, InvFecho, Tratador
  PROVE  InvFecho'
  <1> USE DEF resto_da_sessao, canais, InvFecho
  <1>1. CASE NewTratadorReceptorIP
    BY <1>1 DEF NewTratadorReceptorIP
  <1>2. CASE EventoRecv
    BY <1>2 DEF EventoRecv, Pega
  <1>3. CASE EventoIgnorado \/ EventoEncerra \/ DrenaEvents
    BY <1>3 DEF EventoIgnorado, EventoEncerra, DrenaEvents, Pega
  <1>4. CASE trata_pacote
    BY <1>4 DEF trata_pacote
  <1>5. CASE enviar
    BY <1>5 DEF enviar, Send
  <1>6. CASE FimParse
    BY <1>6 DEF FimParse
  <1>7. CASE Fecha1
    BY <1>7 DEF Fecha1, CloseConn
  <1>8. CASE Fecha2
    BY <1>8 DEF Fecha2, CloseToSend
  <1>9. CASE FimClose
    BY <1>9 DEF FimClose, svars
  <1> QED
    BY <1>1, <1>2, <1>3, <1>4, <1>5, <1>6, <1>7, <1>8, <1>9 DEF Tratador

\* The order of closing holds always.
LEMMA FechoSempre == Spec => []InvFecho
  <1>1. Init => InvFecho
    BY DEF Init, SInit, InvFecho
  <1>2. TypeOK /\ InvFecho /\ [Next]_vars => InvFecho'
    <2> SUFFICES ASSUME TypeOK, InvFecho, [Next]_vars PROVE InvFecho'
      OBVIOUS
    <2>1. CASE UNCHANGED vars
      BY <2>1 DEF vars, svars, canais, InvFecho
    <2> QED
      BY <2>1, SessaoFecho, TratadorFecho DEF Next
  <1> QED
    BY <1>1, <1>2, TipoSessao, PTL DEF Spec

\* Whatever the interleaving of the goroutines and the timers, Events is closed
\* last, and only a late timeout may find it closed.
THEOREM FechamentoSempreOrdenado == Spec => []FechamentoOrdenado
  <1>1. InvFecho => FechamentoOrdenado
    BY DEF InvFecho, FechamentoOrdenado
  <1> QED
    BY <1>1, FechoSempre, PTL

-----------------------------------------------------------------------------
(***************************************************************************)
(* Answers.  The count is inductive as it stands: a question moves from    *)
(* the handler to the queue, to the goroutine that writes and to the       *)
(* socket, and the goroutine never leaves "drena" for "espera".            *)
(***************************************************************************)
\* A step of the session loses no answer while the connection works.
LEMMA SessaoRespostas ==
  ASSUME TypeOK, RespostasConferem, DaSessao
  PROVE  RespostasConferem'
  <1> USE DEF DaSessao, canais, RespostasConferem
  <1>1. CASE \E como \in {"fin", "rst"} : RedeCai(como)
    BY <1>1 DEF RedeCai
  <1>2. CASE \E seg \in Segmentos : LeDados(seg)
    BY <1>2 DEF LeDados, Le
  <1>3. CASE LeFim
    BY <1>3 DEF LeFim, Le
  <1>4. CASE PostaRecv
    BY <1>4 DEF PostaRecv
  <1>5. CASE TiraMensagem
    BY <1>5, FilasAssumption DEF TiraMensagem, TypeOK
  <1>6. CASE Escreve
    BY <1>6, FilasAssumption DEF Escreve, TypeOK, Simples
  <1>7. ASSUME NEW nome \in {"Err", "SendEof"}, EscreveFalha(nome)
        PROVE  RespostasConferem'
    BY <1>7 DEF EscreveFalha, Simples
  <1>8. CASE PostaSend
    BY <1>8 DEF PostaSend, AposPostar
  <1>9. CASE Drena \/ FimSend
    BY <1>9 DEF Drena, FimSend
  <1>10. ASSUME NEW t \in Timeouts, Dispara(t) \/ PostaTimeout(t) \/ Disown(t)
         PROVE  RespostasConferem'
    BY <1>10 DEF Dispara, PostaTimeout, Disown
  <1>11. CASE DisownAll \/ FechaEvents \/ Died
    BY <1>11 DEF DisownAll, FechaEvents, Died
  <1> QED
    BY <1>1, <1>2, <1>3, <1>4, <1>5, <1>6, <1>7, <1>8, <1>9, <1>10, <1>11
       DEF Sessao

\* A step of the handler counts each question once.
LEMMA TratadorRespostas ==
  ASSUME TypeOK, RespostasConferem, Tratador
  PROVE  RespostasConferem'
  <1> USE DEF resto_da_sessao, canais, RespostasConferem
  <1>1. CASE NewTratadorReceptorIP
    BY <1>1 DEF NewTratadorReceptorIP
  <1>2. CASE EventoRecv \/ EventoIgnorado \/ EventoEncerra \/ DrenaEvents
    BY <1>2 DEF EventoRecv, EventoIgnorado, EventoEncerra, DrenaEvents, Pega
  <1>3. CASE trata_pacote
    BY <1>3, FilasAssumption DEF trata_pacote, TypeOK
  <1>4. CASE enviar
    BY <1>4, FilasAssumption DEF enviar, Send, TypeOK
  <1>5. CASE FimParse
    BY <1>5 DEF FimParse
  <1>6. CASE Fecha1 \/ Fecha2
    BY <1>6 DEF Fecha1, Fecha2, CloseConn, CloseToSend
  <1>7. CASE FimClose
    BY <1>7 DEF FimClose, svars
  <1> QED
    BY <1>1, <1>2, <1>3, <1>4, <1>5, <1>6, <1>7 DEF Tratador

\* While the connection works each question has exactly one answer, in Send, in
\* the queue, being written or written, for any depth of the queues.
THEOREM RespostasSempreConferem == Spec => []RespostasConferem
  <1>1. Init => RespostasConferem
    BY DEF Init, SInit, RespostasConferem
  <1>2. TypeOK /\ RespostasConferem /\ [Next]_vars => RespostasConferem'
    <2> SUFFICES ASSUME TypeOK, RespostasConferem, [Next]_vars
                 PROVE  RespostasConferem'
      OBVIOUS
    <2>1. CASE UNCHANGED vars
      BY <2>1 DEF vars, svars, canais, RespostasConferem
    <2> QED
      BY <2>1, SessaoRespostas, TratadorRespostas DEF Next
  <1> QED
    BY <1>1, <1>2, TipoSessao, PTL DEF Spec

-----------------------------------------------------------------------------
(***************************************************************************)
(* Supervision.  While the handler lives a timeout that was armed and not  *)
(* freed stays armed, in flight or in Events.  to_incompleta is also freed *)
(* by every frame, and parse() arms it again only at its end, so the       *)
(* invariant says what holds in between; it rests on every read bringing   *)
(* a frame or a part of one.                                               *)
(***************************************************************************)
Vive == trat \in {"range", "parse", "send"}

\* Events "Recv" carry what a read returned.
RecvComDados ==
  /\ recv_ev.nome = "Recv" => recv_ev.carga \in Segmentos
  /\ send_ev.nome # "Recv"
  /\ \A i \in 1 .. Len(Events) :
       Events[i].nome = "Recv" => Events[i].carga \in Segmentos

InvVigia ==
  /\ RecvComDados
  /\ trat = "inicio" => /\ \A t \in Timeouts : timers[t] = "nil"
                        /\ ~buffer.resto
  /\ Vive =>
       /\ Vigia("to_comm")
       /\ ~central_identificada => Vigia("to_ident")
       /\ timers["to_incompleta"] # "nil" => Vigia("to_incompleta")
  /\ trat = "range" =>
       (buffer.resto <=> timers["to_incompleta"] # "nil")
  /\ trat \in {"parse", "send"} /\ ~buffer.resto /\ buffer.quadros = <<>> =>
       timers["to_incompleta"] = "nil"

\* An event stays in Events while others are posted or taken.
LEMMA EventoFica ==
  ASSUME TypeOK, NEW t, NEW i \in DOMAIN Events, Events[i].nome = t,
         \/ Events' = Events
         \/ \E e \in Evento : Events' = Append(Events, e)
         \/ Events # <<>> /\ Events' = Tail(Events) /\ Head(Events).nome # t
  PROVE  \E j \in DOMAIN Events' : Events'[j].nome = t
  <1>1. Events \in Seq(Evento) /\ i \in 1 .. Len(Events)
    BY DEF TypeOK
  <1>2. CASE Events' = Events
    BY <1>2
  <1>3. CASE \E e \in Evento : Events' = Append(Events, e)
    <2>1. i \in DOMAIN Events' /\ Events'[i] = Events[i]
      BY <1>1, <1>3
    <2> QED
      BY <2>1
  <1>4. CASE Events # <<>> /\ Events' = Tail(Events) /\ Head(Events).nome # t
    <2>1. i # 1
      BY <1>1, <1>4
    <2>2. i - 1 \in 1 .. Len(Tail(Events)) /\ Tail(Events)[i - 1] = Events[i]
      BY <1>1, <1>4, <2>1
    <2>3. i - 1 \in DOMAIN Events' /\ Events'[i - 1] = Events[i]
      BY <1>1, <1>4, <2>2
    <2> QED
      BY <2>3
  <1> QED
    BY <1>2, <1>3, <1>4

\* A new event is in Events.
LEMMA EventoEntra ==
  ASSUME TypeOK, NEW e \in Evento, Events' = Append(Events, e)
  PROVE  \E j \in DOMAIN Events' : Events'[j].nome = e.nome
  <1>1. Len(Events) + 1 \in DOMAIN Events' /\ Events'[Len(Events) + 1] = e
    BY DEF TypeOK
  <1> QED
    BY <1>1

\* While the handler lives no step of the session loses a timeout: firing moves
\* it to the callback, and the callback to Events.
LEMMA SessaoNaoPerde ==
  ASSUME TypeOK, InvFecho, Vive, DaSessao, NEW t \in Timeouts
  PROVE  /\ Vigia(t) => Vigia(t)'
         /\ timers'[t] = "nil" <=> timers[t] = "nil"
  <1> USE DEF DaSessao, canais
  <1>a. ~ev_fechado /\ fim = "nao"
    BY DEF InvFecho, Vive, TypeOK
  <1>b. ASSUME timers' = timers, voo' = voo,
               Events' = Events \/ \E e \in Evento : Events' = Append(Events, e)
        PROVE  /\ Vigia(t) => Vigia(t)'
               /\ timers'[t] = "nil" <=> timers[t] = "nil"
    BY <1>b, EventoFica DEF Vigia
  <1>1. CASE \E como \in {"fin", "rst"} : RedeCai(como)
    BY <1>1, <1>b DEF RedeCai
  <1>2. CASE \E seg \in Segmentos : LeDados(seg)
    BY <1>2, <1>b DEF LeDados, Le
  <1>3. CASE LeFim
    BY <1>3, <1>b DEF LeFim, Le
  <1>4. CASE PostaRecv
    BY <1>4, <1>a, <1>b DEF PostaRecv, Posta, TypeOK
  <1>5. CASE TiraMensagem \/ Escreve \/ Drena \/ FimSend
    BY <1>5, <1>b DEF TiraMensagem, Escreve, Drena, FimSend
  <1>6. CASE \E nome \in {"Err", "SendEof"} : EscreveFalha(nome)
    BY <1>6, <1>b DEF EscreveFalha
  <1>7. CASE PostaSend
    BY <1>7, <1>a, <1>b DEF PostaSend, Posta, TypeOK
  <1>8. ASSUME NEW u \in Timeouts, Dispara(u)
        PROVE  /\ Vigia(t) => Vigia(t)'
               /\ timers'[t] = "nil" <=> timers[t] = "nil"
    <2>1. Events' = Events
      BY <1>8 DEF Dispara
    <2>2. CASE u = t
      BY <1>8, <2>1, <2>2 DEF Dispara, Vigia, TypeOK
    <2>3. CASE u # t
      BY <1>8, <2>1, <2>3 DEF Dispara, Vigia, TypeOK
    <2> QED
      BY <2>2, <2>3
  <1>9. ASSUME NEW u \in Timeouts, PostaTimeout(u)
        PROVE  /\ Vigia(t) => Vigia(t)'
               /\ timers'[t] = "nil" <=> timers[t] = "nil"
    <2>1. Simples(u) \in Evento /\ Simples(u).nome = u
      BY SimplesTipo DEF Nomes
    <2>2. Events' = Append(Events, Simples(u)) /\ timers' = timers
      BY <1>9, <1>a DEF PostaTimeout, Posta
    <2>3. CASE u = t
      <3>1. Vigia(t)'
        BY <2>1, <2>2, <2>3, EventoEntra DEF Vigia
      <3> QED
        BY <2>2, <3>1
    <2>4. CASE u # t
      <3>1. voo'[t] = voo[t]
        BY <1>9, <2>4 DEF PostaTimeout, TypeOK
      <3> QED
        BY <2>1, <2>2, <3>1, EventoFica DEF Vigia
    <2> QED
      BY <2>3, <2>4
  <1>10. CASE (\E u \in Timeouts : Disown(u)) \/ DisownAll \/ FechaEvents \/ Died
    BY <1>10, <1>a DEF Disown, DisownAll, FechaEvents, Died
  <1> QED
    BY <1>1, <1>2, <1>3, <1>4, <1>5, <1>6, <1>7, <1>8, <1>9, <1>10 DEF Sessao

\* Posting an event other than "Recv", or one that a read filled, and taking
\* events keep the payload of "Recv".
LEMMA RecvEmEvents ==
  ASSUME TypeOK,
         \A i \in 1 .. Len(Events) :
           Events[i].nome = "Recv" => Events[i].carga \in Segmentos,
         \/ Events' = Events
         \/ \E e \in Evento : /\ Events' = Append(Events, e)
                              /\ e.nome = "Recv" => e.carga \in Segmentos
         \/ Events # <<>> /\ Events' = Tail(Events)
  PROVE  \A i \in 1 .. Len(Events') :
           Events'[i].nome = "Recv" => Events'[i].carga \in Segmentos
  <1>1. Events \in Seq(Evento)
    BY DEF TypeOK
  <1> SUFFICES ASSUME NEW i \in 1 .. Len(Events'), Events'[i].nome = "Recv"
               PROVE  Events'[i].carga \in Segmentos
    OBVIOUS
  <1>2. CASE Events' = Events
    BY <1>2
  <1>3. CASE \E e \in Evento : /\ Events' = Append(Events, e)
                               /\ e.nome = "Recv" => e.carga \in Segmentos
    <2>1. PICK e \in Evento : /\ Events' = Append(Events, e)
                              /\ e.nome = "Recv" => e.carga \in Segmentos
      BY <1>3
    <2>2. Len(Events') = Len(Events) + 1 /\ Len(Events) \in Nat
      BY <1>1, <2>1
    <2>3. CASE i = Len(Events) + 1
      BY <1>1, <2>1, <2>3
    <2>4. CASE i \in 1 .. Len(Events)
      BY <1>1, <2>1, <2>4
    <2> QED
      BY <2>2, <2>3, <2>4
  <1>4. CASE Events # <<>> /\ Events' = Tail(Events)
    <2>1. /\ Len(Events') = Len(Events) - 1 /\ Len(Events) \in Nat
          /\ Events'[i] = Events[i + 1]
      BY <1>1, <1>4
    <2> QED
      BY <2>1
  <1> QED
    BY <1>2, <1>3, <1>4

\* A step of the session posts "Recv" only with what a read returned.
LEMMA SessaoRecv ==
  ASSUME TypeOK, RecvComDados, DaSessao
  PROVE  RecvComDados'
  <1> USE DEF DaSessao, canais, RecvComDados
  <1>a. Nenhum.nome # "Recv"
    BY DEF Nenhum, Simples
  <1>b. ASSUME UNCHANGED <<Events, recv_ev, send_ev>> PROVE RecvComDados'
    BY <1>b
  <1>1. CASE \E como \in {"fin", "rst"} : RedeCai(como)
    BY <1>1, <1>b DEF RedeCai
  <1>2. ASSUME NEW seg \in Segmentos, LeDados(seg) PROVE RecvComDados'
    BY <1>2 DEF LeDados, Le
  <1>3. CASE LeFim
    BY <1>3 DEF LeFim, Le, Simples
  <1>4. CASE PostaRecv
    <2>1. recv_ev' = Nenhum /\ send_ev' = send_ev
      BY <1>4 DEF PostaRecv
    <2>2. Events' = Events \/ Events' = Append(Events, recv_ev)
      BY <1>4 DEF PostaRecv, Posta
    <2>3. recv_ev \in Evento
      BY DEF TypeOK
    <2>4. \A i \in 1 .. Len(Events') :
            Events'[i].nome = "Recv" => Events'[i].carga \in Segmentos
      BY <2>2, <2>3, RecvEmEvents
    <2> QED
      BY <1>a, <2>1, <2>4
  <1>5. CASE TiraMensagem \/ Drena \/ FimSend
    BY <1>5, <1>b DEF TiraMensagem, Drena, FimSend
  <1>6. CASE Escreve
    BY <1>6 DEF Escreve, Simples
  <1>7. ASSUME NEW nome \in {"Err", "SendEof"}, EscreveFalha(nome)
        PROVE  RecvComDados'
    BY <1>7 DEF EscreveFalha, Simples
  <1>8. CASE PostaSend
    <2>1. send_ev' = Nenhum /\ recv_ev' = recv_ev
      BY <1>8 DEF PostaSend
    <2>2. Events' = Events \/ Events' = Append(Events, send_ev)
      BY <1>8 DEF PostaSend, Posta
    <2>3. send_ev \in Evento
      BY DEF TypeOK
    <2>4. \A i \in 1 .. Len(Events') :
            Events'[i].nome = "Recv" => Events'[i].carga \in Segmentos
      BY <2>2, <2>3, RecvEmEvents
    <2> QED
      BY <1>a, <2>1, <2>4
  <1>9. ASSUME NEW t \in Timeouts, PostaTimeout(t) PROVE RecvComDados'
    <2>1. Simples(t) \in Evento /\ Simples(t).nome # "Recv"
      BY SimplesTipo, TimeoutsAssumption DEF Nomes
    <2>2. Events' = Events \/ Events' = Append(Events, Simples(t))
      BY <1>9 DEF PostaTimeout, Posta
    <2>3. \A i \in 1 .. Len(Events') :
            Events'[i].nome = "Recv" => Events'[i].carga \in Segmentos
      BY <2>1, <2>2, RecvEmEvents
    <2> QED
      BY <1>9, <2>3 DEF PostaTimeout
  <1>10. CASE \E t \in Timeouts : Dispara(t) \/ Disown(t)
    BY <1>10, <1>b DEF Dispara, Disown
  <1>11. CASE DisownAll \/ FechaEvents \/ Died
    BY <1>11, <1>b DEF DisownAll, FechaEvents, Died
  <1> QED
    BY <1>1, <1>2, <1>3, <1>4, <1>5, <1>6, <1>7, <1>8, <1>9, <1>10, <1>11
       DEF Sessao

\* A step of the session keeps the supervision.
LEMMA SessaoVigia ==
  ASSUME TypeOK, InvFecho, InvVigia, DaSessao
  PROVE  InvVigia'
  <1>1. RecvComDados'
    BY SessaoRecv DEF InvVigia
  <1>2. UNCHANGED <<trat, buffer, central_identificada>>
    BY DEF DaSessao
  <1>3. ASSUME trat = "inicio"
        PROVE  \A t \in Timeouts : timers'[t] = "nil"
    <2>1. \A t \in Timeouts : timers[t] = "nil"
      BY <1>3 DEF InvVigia
    <2>2. timers' = timers
      BY <2>1 DEF DaSessao, Sessao, RedeCai, LeDados, LeFim, Le, PostaRecv,
         TiraMensagem, Escreve, EscreveFalha, PostaSend, Drena, FimSend,
         Dispara, PostaTimeout, Disown, DisownAll, FechaEvents, Died
    <2> QED
      BY <2>1, <2>2
  <1>4. ASSUME Vive, NEW t \in Timeouts
        PROVE  /\ Vigia(t) => Vigia(t)'
               /\ timers'[t] = "nil" <=> timers[t] = "nil"
    BY <1>4, SessaoNaoPerde
  <1>5. {"to_ident", "to_comm", "to_incompleta"} \subseteq Timeouts
    BY NomesAssumption
  <1> HIDE DEF Vigia
  <1> QED
    BY <1>1, <1>2, <1>3, <1>4, <1>5 DEF InvVigia, Vive

\* Taking an event that is not timeout t keeps t, if it is not rearmed either.
LEMMA PegaVigia ==
  ASSUME TypeOK, NEW N, Pega(N), NEW t \in Timeouts, t \notin N,
         voo' = voo, timers'[t] \in {timers[t], "armado"}, Vigia(t)
  PROVE  Vigia(t)'
  <1>1. Events # <<>> /\ Events' = Tail(Events) /\ Head(Events).nome # t
    BY DEF Pega
  <1> QED
    BY <1>1, EventoFica DEF Vigia

\* A step of the handler keeps the supervision: a frame frees to_ident only
\* with the identification, and parse() ends with to_incompleta as it must be.
LEMMA TratadorVigia ==
  ASSUME TypeOK, InvFecho, InvVigia, Tratador
  PROVE  InvVigia'
  <1> USE DEF resto_da_sessao, canais
  <1>t. /\ "to_ident" \in Timeouts /\ "to_comm" \in Timeouts
        /\ "to_incompleta" \in Timeouts
    BY NomesAssumption
  <1>a. ASSUME Events' = Events, UNCHANGED <<recv_ev, send_ev>>
        PROVE  RecvComDados'
    BY <1>a DEF InvVigia, RecvComDados
  <1>b. ASSUME NEW N, Pega(N), UNCHANGED <<recv_ev, send_ev>>
        PROVE  RecvComDados'
    <2>1. Events # <<>> /\ Events' = Tail(Events)
      BY <1>b DEF Pega
    <2> QED
      BY <1>b, <2>1, RecvEmEvents DEF InvVigia, RecvComDados
  <1>1. CASE NewTratadorReceptorIP
    <2>1. RecvComDados'
      BY <1>1, <1>a DEF NewTratadorReceptorIP
    <2>2. /\ timers'["to_ident"] = "armado" /\ timers'["to_comm"] = "armado"
          /\ timers'["to_incompleta"] = "nil"
      BY <1>1, <1>t DEF NewTratadorReceptorIP, TypeOK, InvVigia
    <2> QED
      BY <1>1, <2>1, <2>2 DEF NewTratadorReceptorIP, InvVigia, Vigia, Vive
  <1>2. CASE EventoRecv
    <2>1. Pega({"Recv"}) /\ trat = "range" /\ trat' = "parse"
          /\ UNCHANGED <<recv_ev, send_ev, voo, central_identificada>>
      BY <1>2 DEF EventoRecv
    <2>2. RecvComDados'
      BY <2>1, <1>b
    <2>3. timers'["to_comm"] = "armado" /\ \A t \in Timeouts \ {"to_comm"} :
            timers'[t] = timers[t]
      BY <1>2, <1>t DEF EventoRecv, TypeOK
    <2>4. \A t \in Timeouts : t \notin {"Recv"}
      BY TimeoutsAssumption
    <2>5. \A t \in {"to_ident", "to_incompleta"} : Vigia(t) => Vigia(t)'
      BY <1>t, <2>1, <2>3, <2>4, PegaVigia
    <2>6. Vigia("to_comm")'
      BY <2>3 DEF Vigia
    <2>7. Head(Events).carga \in Segmentos
      <3>1. /\ Events \in Seq(Evento) /\ Events # <<>>
            /\ Head(Events).nome = "Recv"
        BY <2>1 DEF TypeOK, Pega
      <3>2. 1 \in 1 .. Len(Events) /\ Head(Events) = Events[1]
        BY <3>1
      <3> QED
        BY <3>1, <3>2 DEF InvVigia, RecvComDados
    <2>8. ~buffer'.resto => buffer'.quadros # <<>>
      <3> DEFINE c == Head(Events).carga
      <3>1. buffer' = [quadros |-> buffer.quadros \o c.quadros, resto |-> c.resto]
        BY <1>2 DEF EventoRecv
      <3>2. c.quadros # <<>> \/ c.resto
        BY <2>7, SegmentosAssumption
      <3>3. c.quadros \in Seq(Quadro) /\ buffer.quadros \in Seq(Quadro)
        BY <2>7, SegmentosAssumption DEF TypeOK, Segmento
      <3>4. c.quadros # <<>> => buffer.quadros \o c.quadros # <<>>
        BY <3>3
      <3> HIDE DEF c
      <3> QED
        BY <3>1, <3>2, <3>4
    <2> QED
      BY <1>t, <2>1, <2>2, <2>3, <2>5, <2>6, <2>8 DEF InvVigia, Vive
  <1>3. CASE EventoIgnorado
    <2> DEFINE N == Nomes \ ({"Recv"} \cup Encerra)
    <2>1. Pega(N) /\ UNCHANGED <<recv_ev, send_ev, voo, timers, trat, buffer,
                                 central_identificada>>
      BY <1>3 DEF EventoIgnorado
    <2>2. RecvComDados'
      BY <2>1, <1>b
    <2>3. \A t \in Timeouts : t \notin N
      BY DEF Encerra
    <2> HIDE DEF N
    <2>4. \A t \in Timeouts : Vigia(t) => Vigia(t)'
      BY <2>1, <2>3, PegaVigia
    <2> QED
      BY <1>t, <2>1, <2>2, <2>4 DEF InvVigia, Vive
  <1>4. CASE EventoEncerra \/ DrenaEvents
    <2>1. /\ Pega(Encerra) \/ Pega(Nomes)
          /\ UNCHANGED <<recv_ev, send_ev>>
          /\ trat' \in {"close", "drena"}
      BY <1>4 DEF EventoEncerra, DrenaEvents
    <2>2. RecvComDados'
      BY <2>1, <1>b
    <2> QED
      BY <2>1, <2>2 DEF InvVigia, Vive
  <1>5. CASE trata_pacote
    <2> DEFINE q == Head(buffer.quadros)
    <2>1. RecvComDados'
      BY <1>5, <1>a DEF trata_pacote
    <2>2. /\ trat = "parse" /\ trat' \in {"parse", "send"}
          /\ Events' = Events /\ voo' = voo
          /\ timers' = [t \in Timeouts |-> IF t \in Libera(q) THEN "nil" ELSE timers[t]]
          /\ central_identificada' = (central_identificada \/ q = "identifica")
      BY <1>5 DEF trata_pacote
    <2> HIDE DEF q
    <2>3. timers'["to_incompleta"] = "nil" /\ timers'["to_comm"] = timers["to_comm"]
      BY <1>t, <2>2 DEF Libera
    <2>4. ~central_identificada' => /\ ~central_identificada
                                    /\ timers'["to_ident"] = timers["to_ident"]
      BY <1>t, <2>2 DEF Libera
    <2>5. Vigia("to_comm")' /\ (~central_identificada' => Vigia("to_ident")')
      BY <2>2, <2>3, <2>4 DEF InvVigia, Vive, Vigia
    <2> QED
      BY <2>1, <2>2, <2>3, <2>5 DEF InvVigia
  <1>6. CASE enviar
    <2>1. /\ trat = "send" /\ trat' = "parse"
          /\ UNCHANGED <<Events, recv_ev, send_ev, timers, voo, buffer,
                         central_identificada>>
      BY <1>6 DEF enviar, Send
    <2>2. RecvComDados'
      BY <2>1, <1>a
    <2> QED
      BY <2>1, <2>2 DEF InvVigia, Vive, Vigia
  <1>7. CASE FimParse
    <2>1. /\ trat = "parse" /\ trat' = "range" /\ buffer.quadros = <<>>
          /\ UNCHANGED <<Events, recv_ev, send_ev, voo, buffer,
                         central_identificada>>
          /\ timers'["to_incompleta"] =
               IF ArmaIncompleta THEN "armado" ELSE timers["to_incompleta"]
          /\ timers'["to_comm"] = timers["to_comm"]
          /\ timers'["to_ident"] = timers["to_ident"]
      BY <1>7, <1>t DEF FimParse, TypeOK
    <2>2. RecvComDados'
      BY <2>1, <1>a
    <2>3. Vigia("to_comm")' /\ (~central_identificada' => Vigia("to_ident")')
      BY <2>1 DEF InvVigia, Vive, Vigia
    <2>4. buffer.resto <=> timers'["to_incompleta"] # "nil"
      BY <2>1 DEF InvVigia, ArmaIncompleta
    <2>5. timers'["to_incompleta"] # "nil" => Vigia("to_incompleta")'
      BY <2>1 DEF InvVigia, Vive, Vigia
    <2> QED
      BY <2>1, <2>2, <2>3, <2>4, <2>5 DEF InvVigia
  <1>8. CASE Fecha1 \/ Fecha2 \/ FimClose
    <2>1. UNCHANGED <<Events, recv_ev, send_ev>> /\ trat' \in {"close", "drena", "fim"}
      BY <1>8 DEF Fecha1, Fecha2, FimClose, CloseConn, CloseToSend, svars
    <2>2. RecvComDados'
      BY <2>1, <1>a
    <2> QED
      BY <2>1, <2>2 DEF InvVigia, Vive
  <1> QED
    BY <1>1, <1>2, <1>3, <1>4, <1>5, <1>6, <1>7, <1>8 DEF Tratador

\* The supervision holds always.
LEMMA VigiaSempre == Spec => []InvVigia
  <1>1. Init => InvVigia
    <2> SUFFICES ASSUME Init PROVE InvVigia
      OBVIOUS
    <2>1. /\ Events = <<Simples("Connected")>>
          /\ recv_ev = Simples("Connected") /\ send_ev = Simples("Connected")
      BY DEF Init, SInit, Nenhum
    <2>2. Simples("Connected").nome # "Recv"
      BY DEF Simples
    <2>3. RecvComDados
      <3>1. \A i \in 1 .. Len(Events) : Events[i] = Simples("Connected")
        BY <2>1
      <3> QED
        BY <2>1, <2>2, <3>1 DEF RecvComDados
    <2>4. ~buffer.resto /\ trat = "inicio" /\ \A t \in Timeouts : timers[t] = "nil"
      BY DEF Init, SInit, SegVazio
    <2> QED
      BY <2>3, <2>4 DEF InvVigia, Vive
  <1>2. TypeOK /\ InvFecho /\ InvVigia /\ [Next]_vars => InvVigia'
    <2> SUFFICES ASSUME TypeOK, InvFecho, InvVigia, [Next]_vars PROVE InvVigia'
      OBVIOUS
    <2>1. CASE UNCHANGED vars
      BY <2>1 DEF vars, svars, canais, InvVigia, RecvComDados, Vive, Vigia
    <2> QED
      BY <2>1, SessaoVigia, TratadorVigia DEF Next
  <1> QED
    BY <1>1, <1>2, TipoSessao, FechoSempre, PTL DEF Spec

\* Between two events an open connection is always watched, although its
\* timeouts may fire at any moment while they are restarted or freed.
THEOREM SessaoSempreVigiada == Spec => []SessaoVigiada
  <1>1. InvVigia => SessaoVigiada
    BY DEF InvVigia, SessaoVigiada, Vive
  <1> QED
    BY <1>1, VigiaSempre, PTL
=============================================================================
