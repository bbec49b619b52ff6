--------------------------- MODULE TratadorProofs ---------------------------
(***************************************************************************)
(* Proofs about Tratador, for any finite set of connections, any limit and *)
(* any set of frames.                                                      *)
(***************************************************************************)
EXTENDS Tratador, FiniteSetTheorems, TLAPS

-----------------------------------------------------------------------------
\* Destroying any set of connections keeps every variable of its type.
LEMMA DestroiTipo ==
  ASSUME TypeOK, NEW D \in SUBSET Conns, Destroi(D),
         processo' \in {"rodando", "morto"}
  PROVE  TypeOK'
  BY DEF TypeOK, Destroi

\* What consuming a frame leaves of the type invariant to show.
ConsomeTipado ==
  /\ recv_buf' \in [Conns -> Seq(Pedaco)]
  /\ atrib' \in [Conns -> SUBSET Timers]
  /\ pend' \in [Conns -> SUBSET Timers]
  /\ backoff' \in [Conns -> Nat]
  /\ send_buf' \in [Conns -> Nat]
  /\ consumidos' \in [Conns -> Nat]
  /\ UNCHANGED <<processo, estado, recebidos, enviadas, eventos>>

\* Consuming a whole frame keeps the variables it changes of their type.
LEMMA ConsomeTipo ==
  ASSUME TypeOK, NEW c \in Conns, NEW r \in Nat, NEW T \in SUBSET Timers,
         recv_buf[c] # <<>>, ConsomeMsg(c, r, T)
  PROVE  ConsomeTipado
  <1>1. Tail(recv_buf[c]) \in Seq(Pedaco)
    BY DEF TypeOK
  <1>2. recv_buf' \in [Conns -> Seq(Pedaco)]
    BY <1>1 DEF TypeOK, ConsomeMsg, Resto
  <1>3. Reagenda(Resto(recv_buf[c])) \in SUBSET Timers
    BY DEF Reagenda, Timers
  <1>4. atrib' \in [Conns -> SUBSET Timers] /\ pend' \in [Conns -> SUBSET Timers]
    BY <1>3 DEF TypeOK, ConsomeMsg, Cancela, Timers
  <1>5. /\ backoff' \in [Conns -> Nat]
        /\ send_buf' \in [Conns -> Nat]
        /\ consumidos' \in [Conns -> Nat]
    BY SMTT(30) DEF TypeOK, ConsomeMsg
  <1> QED
    BY <1>2, <1>4, <1>5 DEF ConsomeMsg, ConsomeTipado

\* recv_callback keeps the timer sets of their type.
LEMMA RecvTipo ==
  ASSUME TypeOK, NEW c \in Conns, recv_callback(c)
  PROVE  /\ atrib' \in [Conns -> SUBSET Timers]
         /\ pend' \in [Conns -> SUBSET Timers]
         /\ UNCHANGED <<processo, estado, ignorar, central_identificada,
                        send_buf, backoff, consumidos, enviadas, avisos,
                        fotos_pedidas>>
  BY DEF TypeOK, recv_callback, Timers

\* A frame taken from the buffer is one of the frames.
LEMMA ProximoTipo ==
  ASSUME TypeOK, NEW c \in Conns, recv_buf[c] # <<>>
  PROVE  ProximoQuadro(c) \in Quadro
  <1>1. Head(recv_buf[c]) \in Pedaco
    BY DEF TypeOK
  <1> QED
    BY <1>1, QuadrosAssumption DEF Pedaco, ProximoQuadro

\* Every callback of a connection keeps every variable of its type.
LEMMA PassoTipo ==
  ASSUME TypeOK, NEW c \in Conns, Passo(c)
  PROVE  TypeOK'
  <1>1. CASE Aceita(c)
    BY <1>1 DEF TypeOK, Aceita, Timers, valida_maxconn
  <1>2. CASE Recebe(c)
    <2>1. ASSUME NEW q \in Quadros, NEW inteiro \in BOOLEAN,
                 RecebeQuadro(c, q, inteiro)
          PROVE  TypeOK'
      <3>1. [quadro |-> q, completa |-> inteiro] \in Pedaco
        BY DEF Pedaco
      <3>2. recv_buf' \in [Conns -> Seq(Pedaco)]
        BY <2>1, <3>1 DEF TypeOK, RecebeQuadro
      <3>3. recebidos' \in [Conns -> Nat] /\ eventos' \in [Conns -> Nat]
        BY <2>1, SMTT(30) DEF TypeOK, RecebeQuadro
      <3>4. /\ atrib' \in [Conns -> SUBSET Timers]
            /\ pend' \in [Conns -> SUBSET Timers]
            /\ UNCHANGED <<processo, estado, ignorar, central_identificada,
                           send_buf, backoff, consumidos, enviadas, avisos,
                           fotos_pedidas>>
        BY <2>1, RecvTipo DEF RecebeQuadro
      <3> QED
        BY <2>1, <3>2, <3>3, <3>4 DEF TypeOK
    <2>2. ASSUME NEW fim \in BOOLEAN, RecebeContinuacao(c, fim)
          PROVE  TypeOK'
      <3> DEFINE n == Len(recv_buf[c])
                 p == [quadro |-> recv_buf[c][n].quadro, completa |-> fim]
      <3>1. recv_buf[c] \in Seq(Pedaco) /\ n \in 1 .. Len(recv_buf[c])
        BY <2>2 DEF TypeOK, RecebeContinuacao, Cortado
      <3>2. p \in Pedaco
        <4>1. recv_buf[c][n] \in Pedaco
          BY <3>1
        <4> QED
          BY <4>1 DEF Pedaco
      <3>3. [recv_buf[c] EXCEPT ![n] = p] \in Seq(Pedaco)
        BY <3>1, <3>2
      <3>4. recv_buf' \in [Conns -> Seq(Pedaco)]
        BY <2>2, <3>3 DEF TypeOK, RecebeContinuacao
      <3>5. eventos' \in [Conns -> Nat] /\ recebidos' = recebidos
        BY <2>2 DEF TypeOK, RecebeContinuacao
      <3> QED
        BY <2>2, <3>4, <3>5, RecvTipo DEF TypeOK, RecebeContinuacao
    <2>3. CASE RecebeIgnorada(c)
      BY <2>3, SMTT(30) DEF TypeOK, RecebeIgnorada
    <2> QED
      BY <1>2, <2>1, <2>2, <2>3 DEF Recebe
  <1>3. CASE shutdown_callback(c)
    BY <1>3, DestroiTipo DEF shutdown_callback, TypeOK
  <1>4. ASSUME NEW n \in 1 .. send_buf[c], send_callback(c, n)
        PROVE  TypeOK'
    <2>1. send_buf[c] - n \in Nat /\ enviadas[c] + n \in Nat
      BY <1>4 DEF TypeOK
    <2>2. send_buf' \in [Conns -> Nat] /\ enviadas' \in [Conns -> Nat]
      BY <1>4, <2>1 DEF TypeOK, send_callback
    <2> QED
      BY <1>4, <2>2 DEF TypeOK, send_callback
  <1>5. CASE timeout_identificacao(c) \/ timeout_comunicacao(c) \/ timeout_msgincompleta(c)
    BY <1>5, DestroiTipo
       DEF timeout_identificacao, timeout_comunicacao, timeout_msgincompleta, Desiste, TypeOK
  <1>6. CASE processar_msg(c)
    <2>1. CASE SemMensagem(c)
      BY <2>1 DEF TypeOK, SemMensagem, Timers
    <2>2. CASE RespostaSimples(c)
      <3>1. ConsomeMsg(c, 1, {}) /\ recv_buf[c] # <<>>
        BY <2>2 DEF RespostaSimples, HaMensagem
      <3>2. UNCHANGED <<ignorar, central_identificada, avisos, fotos_pedidas>>
        BY <2>2 DEF RespostaSimples
      <3>3. ConsomeTipado
        BY <3>1, 1 \in Nat, {} \in SUBSET Timers, ConsomeTipo
      <3> QED
        BY <3>2, <3>3 DEF TypeOK, ConsomeTipado
    <2>3. CASE evento_alarme(c)
      <3>1. ProximoQuadro(c).nr_fotos \in Nat
        BY <2>3, ProximoTipo DEF evento_alarme, HaMensagem, Quadro
      <3>2. avisos' \in [Conns -> Nat] /\ fotos_pedidas' \in [Conns -> Nat]
        BY <2>3, <3>1, SMTT(30) DEF TypeOK, evento_alarme
      <3>3. ConsomeMsg(c, 1, {}) /\ recv_buf[c] # <<>>
        BY <2>3 DEF evento_alarme, HaMensagem
      <3>4. UNCHANGED <<ignorar, central_identificada>>
        BY <2>3 DEF evento_alarme
      <3>5. ConsomeTipado
        BY <3>3, 1 \in Nat, {} \in SUBSET Timers, ConsomeTipo
      <3> QED
        BY <3>2, <3>4, <3>5 DEF TypeOK, ConsomeTipado
    <2>4. CASE identificacao_central(c)
      <3> DEFINE q == ProximoQuadro(c)
                 aceita == valida_central(q) /\ valida_maxconn
      <3>1. RespostasIdent(q, aceita) \in Nat
        BY DEF RespostasIdent
      <3>2. DesarmaIdent(aceita) \in SUBSET Timers
        BY DEF DesarmaIdent, Timers
      <3>3. ignorar' \in [Conns -> BOOLEAN]
        BY <2>4 DEF TypeOK, identificacao_central
      <3>4. central_identificada' \in [Conns -> BOOLEAN]
        BY <2>4 DEF TypeOK, identificacao_central
      <3>5. /\ ConsomeMsg(c, RespostasIdent(q, aceita), DesarmaIdent(aceita))
            /\ recv_buf[c] # <<>>
            /\ UNCHANGED <<avisos, fotos_pedidas>>
        BY <2>4 DEF identificacao_central, HaMensagem
      <3> HIDE DEF q, aceita
      <3>6. ConsomeTipado
        BY <3>1, <3>2, <3>5, ConsomeTipo
      <3> QED
        BY <3>3, <3>4, <3>5, <3>6 DEF TypeOK, ConsomeTipado
    <2>5. CASE FalhaProcesso(c)
      BY <2>5, DestroiTipo DEF FalhaProcesso
    <2> QED
      BY <1>6, <2>1, <2>2, <2>3, <2>4, <2>5 DEF processar_msg
  <1>7. CASE recuar_backoff(c)
    BY <1>7, SMTT(30) DEF TypeOK, recuar_backoff, ArmaRecuo, Recuo, Timers
  <1> QED
    BY <1>1, <1>2, <1>3, <1>4, <1>5, <1>6, <1>7 DEF Passo

\* Type correctness: every reachable state of the connections is well formed.
THEOREM TipoCorreto == Spec => []TypeOK
  <1>1. Init => TypeOK
    BY DEF Init, TypeOK
  <1>2. TypeOK /\ [Next]_vars => TypeOK'
    <2> SUFFICES ASSUME TypeOK, [Next]_vars PROVE TypeOK'
      OBVIOUS
    <2>1. CASE Reinicia
      BY <2>1 DEF Reinicia, TypeOK, conexao
    <2>2. CASE \E c \in Conns : Passo(c)
      BY <2>2, PassoTipo
    <2>3. CASE UNCHANGED vars
      BY <2>3 DEF vars, conexao, TypeOK
    <2> QED
      BY <2>1, <2>2, <2>3 DEF Next
  <1> QED
    BY <1>1, <1>2, PTL DEF Spec

-----------------------------------------------------------------------------
(***************************************************************************)
(* Supervision.  The invariants about timers are proved together: each one *)
(* needs that attributes and pending timers agree, and that a closed slot  *)
(* keeps nothing of the object that used it.                               *)
(***************************************************************************)
FechadaLimpa(c) ==
  /\ pend[c] = {}
  /\ recv_buf[c] = <<>>
  /\ backoff[c] = 0
  /\ ~central_identificada[c]

InvConexao(c) ==
  /\ atrib[c] = pend[c]
  /\ recv_buf[c] # <<>> =>
       \/ "processa" \in pend[c]
       \/ "incompleta" \in pend[c] /\ ~Head(recv_buf[c]).completa
  /\ "incompleta" \in pend[c] => recv_buf[c] # <<>> \/ ignorar[c]
  /\ backoff[c] > 0 <=> "backoff" \in pend[c]
  /\ estado[c] = "aberta" =>
       /\ "comm" \in pend[c]
       /\ "ident" \in pend[c] <=> ~central_identificada[c]
  /\ estado[c] = "fechada" => FechadaLimpa(c)

\* What InvConexao(d) depends on is left alone.
Intacta(d) ==
  /\ estado'[d] = estado[d]
  /\ ignorar'[d] = ignorar[d]
  /\ central_identificada'[d] = central_identificada[d]
  /\ atrib'[d] = atrib[d]
  /\ pend'[d] = pend[d]
  /\ recv_buf'[d] = recv_buf[d]
  /\ backoff'[d] = backoff[d]

\* What the counts of connection d depend on is left alone.
IntactaConta(d) ==
  /\ estado'[d] = estado[d]
  /\ ignorar'[d] = ignorar[d]
  /\ recv_buf'[d] = recv_buf[d]
  /\ send_buf'[d] = send_buf[d]
  /\ consumidos'[d] = consumidos[d]
  /\ enviadas'[d] = enviadas[d]
  /\ eventos'[d] = eventos[d]
  /\ avisos'[d] = avisos[d]

\* A connection that a step leaves alone keeps its invariant.
LEMMA IntactaInv ==
  ASSUME NEW d \in Conns, InvConexao(d), Intacta(d)
  PROVE  InvConexao(d)'
  BY DEF InvConexao, Intacta, FechadaLimpa

\* A destroyed connection satisfies the invariant and the others keep it.
LEMMA DestroiInv ==
  ASSUME TypeOK, NEW D \in SUBSET Conns, Destroi(D),
         NEW d \in Conns, InvConexao(d)
  PROVE  InvConexao(d)'
  <1>1. CASE d \in D
    <2>1. /\ estado'[d] = "fechada"
          /\ atrib'[d] = {} /\ pend'[d] = {}
          /\ recv_buf'[d] = <<>>
          /\ backoff'[d] = 0
      BY <1>1 DEF Destroi
    <2>2. ~central_identificada'[d]
      BY <1>1 DEF Destroi
    <2> QED
      BY <2>1, <2>2 DEF InvConexao, FechadaLimpa
  <1>2. CASE d \notin D
    <2>1. Intacta(d)
      BY <1>2 DEF Destroi, Intacta, TypeOK
    <2> QED
      BY <2>1, IntactaInv
  <1> QED
    BY <1>1, <1>2

\* A callback of connection c that does not destroy it touches no other.
LEMMA OutraIntacta ==
  ASSUME TypeOK, NEW c \in Conns, NEW d \in Conns, d # c,
         \/ Aceita(c)
         \/ Recebe(c)
         \/ \E n \in 1 .. send_buf[c] : send_callback(c, n)
         \/ SemMensagem(c)
         \/ RespostaSimples(c)
         \/ evento_alarme(c)
         \/ identificacao_central(c)
         \/ recuar_backoff(c)
  PROVE  Intacta(d) /\ IntactaConta(d)
  <1>1. CASE Aceita(c)
    BY <1>1 DEF Aceita, Intacta, IntactaConta, TypeOK
  <1>2. CASE Recebe(c)
    BY <1>2 DEF Recebe, RecebeQuadro, RecebeContinuacao, RecebeIgnorada,
                recv_callback, Intacta, IntactaConta, TypeOK
  <1>3. CASE \E n \in 1 .. send_buf[c] : send_callback(c, n)
    BY <1>3 DEF send_callback, Intacta, IntactaConta, TypeOK
  <1>4. CASE SemMensagem(c)
    BY <1>4 DEF SemMensagem, Intacta, IntactaConta, TypeOK
  <1>5. CASE RespostaSimples(c)
    BY <1>5 DEF RespostaSimples, ConsomeMsg, Intacta, IntactaConta, TypeOK
  <1>6. CASE evento_alarme(c)
    BY <1>6 DEF evento_alarme, ConsomeMsg, Intacta, IntactaConta, TypeOK
  <1>7. CASE identificacao_central(c)
    BY <1>7 DEF identificacao_central, ConsomeMsg, Intacta, IntactaConta, TypeOK
  <1>8. CASE recuar_backoff(c)
    BY <1>8 DEF recuar_backoff, Intacta, IntactaConta, TypeOK
  <1> QED
    BY <1>1, <1>2, <1>3, <1>4, <1>5, <1>6, <1>7, <1>8

\* Consuming a frame re-establishes the invariant of its connection, if the
\* timer to_ident is cancelled exactly when the panel becomes identified.
LEMMA ConsomeInv ==
  ASSUME TypeOK, NEW c \in Conns, InvConexao(c), Viva(c),
         NEW r, NEW ok \in BOOLEAN,
         ConsomeMsg(c, r, DesarmaIdent(ok)),
         central_identificada'[c] = (central_identificada[c] \/ ok)
  PROVE  InvConexao(c)'
  <1> DEFINE resto == Tail(recv_buf[c])
             armados == {"backoff"} \cup Reagenda(resto)
  <1>1. /\ atrib[c] = pend[c] /\ pend[c] \in SUBSET Timers
        /\ estado[c] = "aberta"
        /\ "comm" \in pend[c]
        /\ "ident" \in pend[c] <=> ~central_identificada[c]
    BY DEF InvConexao, Viva, TypeOK
  <1>2. /\ recv_buf'[c] = resto
        /\ estado'[c] = "aberta"
        /\ backoff'[c] = backoff[c] + 1
    BY <1>1 DEF ConsomeMsg, Resto, TypeOK
  <1>3. /\ pend'[c] = (pend[c] \ ({"processa", "incompleta", "backoff"} \cup DesarmaIdent(ok)))
                        \cup armados
        /\ atrib'[c] = pend'[c]
    BY <1>1 DEF ConsomeMsg, Cancela, Resto, TypeOK
  <1>4. backoff'[c] > 0 /\ "backoff" \in pend'[c]
    BY <1>2, <1>3 DEF TypeOK
  <1>5. resto # <<>> => "processa" \in pend'[c]
    BY <1>3 DEF Reagenda
  <1>6. "comm" \in pend'[c]
    BY <1>1, <1>3 DEF DesarmaIdent
  <1>7. "ident" \in pend'[c] <=> ~central_identificada'[c]
    BY <1>1, <1>3 DEF DesarmaIdent, Reagenda
  <1>8. "incompleta" \notin pend'[c]
    BY <1>3 DEF Reagenda
  <1> QED
    BY <1>2, <1>3, <1>4, <1>5, <1>6, <1>7, <1>8 DEF InvConexao

\* Every callback keeps the invariant of its own connection.
LEMMA PassoInvPropria ==
  ASSUME TypeOK, NEW c \in Conns, InvConexao(c), Passo(c)
  PROVE  InvConexao(c)'
  <1>1. CASE Aceita(c)
    BY <1>1 DEF Aceita, InvConexao, FechadaLimpa, TypeOK
  <1>2. CASE Recebe(c)
    <2>1. ASSUME recv_callback(c), Viva(c), recv_buf'[c] # <<>> PROVE InvConexao(c)'
      BY <2>1 DEF recv_callback, Viva, InvConexao, TypeOK
    <2>2. CASE RecebeIgnorada(c)
      BY <2>2 DEF RecebeIgnorada, Viva, InvConexao, TypeOK
    <2>3. ASSUME NEW q \in Quadros, NEW inteiro \in BOOLEAN, RecebeQuadro(c, q, inteiro)
          PROVE  recv_callback(c) /\ Viva(c) /\ recv_buf'[c] # <<>>
      <3>1. [quadro |-> q, completa |-> inteiro] \in Pedaco
        BY DEF Pedaco
      <3>2. recv_buf'[c] = Append(recv_buf[c], [quadro |-> q, completa |-> inteiro])
            /\ recv_buf[c] \in Seq(Pedaco)
        BY <2>3 DEF RecebeQuadro, TypeOK
      <3>3. recv_buf'[c] # <<>>
        BY <3>1, <3>2
      <3> QED
        BY <2>3, <3>3 DEF RecebeQuadro
    <2>4. ASSUME NEW fim, RecebeContinuacao(c, fim)
          PROVE  recv_callback(c) /\ Viva(c) /\ recv_buf'[c] # <<>>
      BY <2>4 DEF RecebeContinuacao, Cortado, TypeOK
    <2> QED
      BY <1>2, <2>1, <2>2, <2>3, <2>4 DEF Recebe
  <1>3. CASE shutdown_callback(c)
    BY <1>3, DestroiInv DEF shutdown_callback
  <1>4. CASE \E n \in 1 .. send_buf[c] : send_callback(c, n)
    <2>1. Intacta(c)
      BY <1>4 DEF send_callback, Intacta
    <2> QED
      BY <2>1, IntactaInv
  <1>5. CASE timeout_identificacao(c) \/ timeout_comunicacao(c) \/ timeout_msgincompleta(c)
    BY <1>5, DestroiInv
       DEF timeout_identificacao, timeout_comunicacao, timeout_msgincompleta, Desiste
  <1>6. CASE processar_msg(c)
    <2>1. CASE SemMensagem(c)
      BY <2>1 DEF SemMensagem, Viva, InvConexao, TypeOK
    <2>2. CASE RespostaSimples(c)
      <3>1. ConsomeMsg(c, 1, DesarmaIdent(FALSE)) /\ Viva(c)
        BY <2>2 DEF RespostaSimples, HaMensagem, DesarmaIdent
      <3>2. central_identificada'[c] = (central_identificada[c] \/ FALSE)
        BY <2>2 DEF RespostaSimples, TypeOK
      <3> QED
        BY <3>1, <3>2, ConsomeInv
    <2>3. CASE evento_alarme(c)
      <3>1. ConsomeMsg(c, 1, DesarmaIdent(FALSE)) /\ Viva(c)
        BY <2>3 DEF evento_alarme, HaMensagem, DesarmaIdent
      <3>2. central_identificada'[c] = (central_identificada[c] \/ FALSE)
        BY <2>3 DEF evento_alarme, TypeOK
      <3> QED
        BY <3>1, <3>2, ConsomeInv
    <2>4. CASE identificacao_central(c)
      <3> DEFINE q == ProximoQuadro(c)
                 aceita == valida_central(q) /\ valida_maxconn
      <3>1. aceita \in BOOLEAN
        OBVIOUS
      <3>2. ConsomeMsg(c, RespostasIdent(q, aceita), DesarmaIdent(aceita)) /\ Viva(c)
        BY <2>4 DEF identificacao_central, HaMensagem
      <3>3. central_identificada'[c] = (central_identificada[c] \/ aceita)
        BY <2>4 DEF identificacao_central, TypeOK
      <3> HIDE DEF q, aceita
      <3> QED
        BY <3>1, <3>2, <3>3, ConsomeInv
    <2>5. CASE FalhaProcesso(c)
      BY <2>5, DestroiInv DEF FalhaProcesso
    <2> QED
      BY <1>6, <2>1, <2>2, <2>3, <2>4, <2>5 DEF processar_msg
  <1>7. CASE recuar_backoff(c)
    BY <1>7 DEF recuar_backoff, ArmaRecuo, Recuo, Viva, InvConexao, TypeOK
  <1> QED
    BY <1>1, <1>2, <1>3, <1>4, <1>5, <1>6, <1>7 DEF Passo

\* The connections' invariants and, with no process, no connection.
InvSupervisao ==
  /\ \A c \in Conns : InvConexao(c)
  /\ processo = "morto" => \A c \in Conns : estado[c] = "fechada"

\* Every callback keeps the invariant of every connection.
LEMMA PassoSupervisao ==
  ASSUME TypeOK, InvSupervisao, NEW c \in Conns, Passo(c)
  PROVE  InvSupervisao'
  <1>1. ASSUME NEW d \in Conns PROVE InvConexao(d)'
    <2>1. CASE d = c
      BY <2>1, PassoInvPropria DEF InvSupervisao
    <2>2. CASE d # c /\ \E D \in SUBSET Conns : Destroi(D)
      BY <2>2, DestroiInv DEF InvSupervisao
    <2>3. CASE d # c /\ ~\E D \in SUBSET Conns : Destroi(D)
      <3>1. Intacta(d)
        BY <2>3, OutraIntacta
           DEF Passo, processar_msg, FalhaProcesso, shutdown_callback, Desiste,
               timeout_identificacao, timeout_comunicacao, timeout_msgincompleta
      <3> QED
        BY <3>1, IntactaInv DEF InvSupervisao
    <2> QED
      BY <2>1, <2>2, <2>3
  <1>2. ASSUME processo' = "morto" PROVE \A d \in Conns : estado'[d] = "fechada"
    <2>1. FalhaProcesso(c)
      BY <1>2 DEF Passo, Aceita, Recebe, RecebeQuadro, RecebeContinuacao,
         RecebeIgnorada, recv_callback, shutdown_callback, send_callback,
         timeout_identificacao, timeout_comunicacao, timeout_msgincompleta,
         Desiste, processar_msg, SemMensagem, RespostaSimples, evento_alarme,
         identificacao_central, HaMensagem, ConsomeMsg, recuar_backoff, Viva
    <2> QED
      BY <2>1 DEF FalhaProcesso, Destroi
  <1> QED
    BY <1>1, <1>2 DEF InvSupervisao

\* The inductive invariant behind the supervision theorems holds always.
LEMMA InvarianteSupervisao == Spec => []InvSupervisao
  <1>1. Init => InvSupervisao
    BY DEF Init, InvSupervisao, InvConexao, FechadaLimpa
  <1>2. TypeOK /\ InvSupervisao /\ [Next]_vars => InvSupervisao'
    <2> SUFFICES ASSUME TypeOK, InvSupervisao, [Next]_vars PROVE InvSupervisao'
      OBVIOUS
    <2>1. CASE Reinicia
      BY <2>1 DEF Reinicia, conexao, InvSupervisao, InvConexao, FechadaLimpa
    <2>2. CASE \E c \in Conns : Passo(c)
      BY <2>2, PassoSupervisao
    <2>3. CASE UNCHANGED vars
      BY <2>3 DEF vars, conexao, InvSupervisao, InvConexao, FechadaLimpa
    <2> QED
      BY <2>1, <2>2, <2>3 DEF Next
  <1> QED
    BY <1>1, <1>2, TipoCorreto, PTL DEF Spec

\* Timer attributes and the backoff agree with the pending timers, whatever the
\* order of callbacks: no test of the code sees a spent timer.
THEOREM TimersSempreCoerentes == Spec => []TimersCoerentes
  <1>1. InvSupervisao => TimersCoerentes
    BY DEF InvSupervisao, InvConexao, TimersCoerentes
  <1> QED
    BY <1>1, InvarianteSupervisao, PTL

\* Data in a buffer always has a timer that will look at it or give it up.
THEOREM BufferSempreSupervisionado == Spec => []BufferSupervisionado
  <1>1. InvSupervisao => BufferSupervisionado
    BY DEF InvSupervisao, InvConexao, BufferSupervisionado
  <1> QED
    BY <1>1, InvarianteSupervisao, PTL

\* No connection without its deadlines, no timer without its connection.
THEOREM ConexaoSempreSupervisionada == Spec => []ConexaoSupervisionada
  <1>1. InvSupervisao => ConexaoSupervisionada
    BY DEF InvSupervisao, InvConexao, FechadaLimpa, ConexaoSupervisionada
  <1> QED
    BY <1>1, InvarianteSupervisao, PTL

-----------------------------------------------------------------------------
(***************************************************************************)
(* The limit.  The set of identified connections grows only by a step that *)
(* found it below the limit, and by one element.                           *)
(***************************************************************************)
\* The identified connections are finitely many, so they can be counted.
LEMMA IdentificadasFinito ==
  /\ IsFiniteSet(identificadas)
  /\ centrais_conectadas \in Nat
  BY ConnsAssumption, FS_Subset, FS_CardinalityType
     DEF identificadas, centrais_conectadas

\* A step that identifies no new connection keeps the limit.
LEMMA MenosIdentificadas ==
  ASSUME MaxConnRespeitado, identificadas' \subseteq identificadas
  PROVE  MaxConnRespeitado'
  <1>1. Cardinality(identificadas') <= Cardinality(identificadas)
    BY IdentificadasFinito, FS_Subset
  <1>2. Cardinality(identificadas') \in Nat
    BY IdentificadasFinito, FS_Subset, FS_CardinalityType
  <1> QED
    BY <1>1, <1>2, IdentificadasFinito, MaxconnAssumption
       DEF MaxConnRespeitado, centrais_conectadas

\* A callback either identifies its own connection, having found room, or
\* adds nothing to the identified ones.
LEMMA PassoIdentificadas ==
  ASSUME TypeOK, InvSupervisao, NEW c \in Conns, Passo(c)
  PROVE  \/ identificadas' \subseteq identificadas
         \/ valida_maxconn /\ identificadas' \subseteq identificadas \cup {c}
  <1>1. CASE \E D \in SUBSET Conns : Destroi(D)
    <2>1. PICK D \in SUBSET Conns : Destroi(D)
      BY <1>1
    <2>2. ASSUME NEW d \in Conns, estado'[d] = "aberta", central_identificada'[d]
          PROVE  estado[d] = "aberta" /\ central_identificada[d]
      <3>1. d \notin D /\ estado[d] = "aberta"
        BY <2>1, <2>2 DEF Destroi
      <3>2. central_identificada[d]
        BY <2>1, <2>2 DEF Destroi
      <3> QED
        BY <3>1, <3>2
    <2> QED
      BY <2>2 DEF identificadas
  <1>2. CASE Aceita(c)
    <2>1. ~central_identificada[c]
      BY <1>2 DEF Aceita, InvSupervisao, InvConexao, FechadaLimpa
    <2> QED
      BY <1>2, <2>1 DEF Aceita, identificadas, TypeOK
  <1>3. CASE identificacao_central(c)
    <2> DEFINE aceita == valida_central(ProximoQuadro(c)) /\ valida_maxconn
    <2>1. /\ estado' = estado
          /\ central_identificada' =
               [central_identificada EXCEPT ![c] = @ \/ aceita]
      BY <1>3 DEF identificacao_central, ConsomeMsg
    <2>2. CASE aceita
      BY <2>1, <2>2 DEF identificadas, TypeOK
    <2>3. CASE ~aceita
      BY <2>1, <2>3 DEF identificadas, TypeOK
    <2> QED
      BY <2>2, <2>3
  <1>4. CASE UNCHANGED <<estado, central_identificada>>
    BY <1>4 DEF identificadas
  <1> QED
    BY <1>1, <1>2, <1>3, <1>4
       DEF Passo, processar_msg, FalhaProcesso, shutdown_callback, Desiste,
           timeout_identificacao, timeout_comunicacao, timeout_msgincompleta,
           Recebe, RecebeQuadro, RecebeContinuacao, RecebeIgnorada,
           recv_callback, send_callback, SemMensagem, RespostaSimples,
           evento_alarme, ConsomeMsg, recuar_backoff

\* Every callback keeps the limit of identified panels.
LEMMA PassoLimite ==
  ASSUME TypeOK, InvSupervisao, MaxConnRespeitado, NEW c \in Conns, Passo(c)
  PROVE  MaxConnRespeitado'
  <1>1. CASE identificadas' \subseteq identificadas
    BY <1>1, MenosIdentificadas
  <1>2. CASE valida_maxconn /\ identificadas' \subseteq identificadas \cup {c}
    <2> DEFINE S == identificadas \cup {c}
    <2>1. IsFiniteSet(S) /\ Cardinality(S) <= Cardinality(identificadas) + 1
      <3>1. IsFiniteSet(identificadas) /\ Cardinality(identificadas) \in Nat
        BY IdentificadasFinito DEF centrais_conectadas
      <3>2. /\ IsFiniteSet(S)
            /\ Cardinality(S) = IF c \in identificadas
                                THEN Cardinality(identificadas)
                                ELSE Cardinality(identificadas) + 1
        BY <3>1, FS_AddElement
      <3> HIDE DEF S
      <3> QED
        BY <3>1, <3>2
    <2>2. Cardinality(identificadas') <= Cardinality(S) /\ IsFiniteSet(identificadas')
      BY <1>2, <2>1, FS_Subset
    <2>3. Cardinality(identificadas') \in Nat /\ Cardinality(S) \in Nat
      BY <2>1, <2>2, FS_CardinalityType
    <2> QED
      BY <1>2, <2>1, <2>2, <2>3, IdentificadasFinito, MaxconnAssumption
         DEF MaxConnRespeitado, centrais_conectadas, valida_maxconn
  <1> QED
    BY <1>1, <1>2, PassoIdentificadas

\* The configured limit of identified panels is never exceeded, however the
\* acceptances and identifications of the connections interleave.
THEOREM LimiteRespeitado == Spec => []MaxConnRespeitado
  <1>1. Init => MaxConnRespeitado
    <2>1. Init => identificadas = {}
      BY DEF Init, identificadas
    <2> QED
      BY <2>1, FS_EmptySet, MaxconnAssumption
         DEF MaxConnRespeitado, centrais_conectadas
  <1>2. TypeOK /\ InvSupervisao /\ MaxConnRespeitado /\ [Next]_vars
          => MaxConnRespeitado'
    <2> SUFFICES ASSUME TypeOK, InvSupervisao, MaxConnRespeitado, [Next]_vars
                 PROVE  MaxConnRespeitado'
      OBVIOUS
    <2>1. CASE Reinicia \/ UNCHANGED vars
      BY <2>1, MenosIdentificadas DEF Reinicia, vars, conexao, identificadas
    <2>2. CASE \E c \in Conns : Passo(c)
      BY <2>2, PassoLimite
    <2> QED
      BY <2>1, <2>2 DEF Next
  <1> QED
    BY <1>1, <1>2, TipoCorreto, InvarianteSupervisao, PTL DEF Spec

-----------------------------------------------------------------------------
(***************************************************************************)
(* Alarm events.  EventosEm counts positions of a buffer, so what the      *)
(* actions do to a buffer (append, complete the last frame, take the       *)
(* first) is turned into what it does to a set of positions.               *)
(***************************************************************************)
\* A piece of the buffer that evento_alarme will deliver.
Contado(p) == p.completa /\ EventoBemFormado(p.quadro)

\* The positions that EventosEm counts.
Posicoes(buf) == {i \in DOMAIN buf : Contado(buf[i])}

\* Those positions can be counted.
LEMMA PosicoesFinito ==
  ASSUME NEW S, NEW buf \in Seq(S)
  PROVE  /\ IsFiniteSet(Posicoes(buf))
         /\ EventosEm(buf) = Cardinality(Posicoes(buf))
         /\ EventosEm(buf) \in Nat
  <1>1. DOMAIN buf = 1 .. Len(buf) /\ Len(buf) \in Nat
    OBVIOUS
  <1>2. IsFiniteSet(1 .. Len(buf))
    BY <1>1, FS_Interval
  <1>3. IsFiniteSet(Posicoes(buf))
    BY <1>1, <1>2, FS_Subset DEF Posicoes
  <1>4. EventosEm(buf) = Cardinality(Posicoes(buf))
    BY DEF EventosEm, Posicoes, Contado
  <1> QED
    BY <1>3, <1>4, FS_CardinalityType

\* An empty buffer holds no event.
LEMMA EventosVazio == EventosEm(<<>>) = 0
  <1>1. <<>> \in Seq({}) /\ Posicoes(<<>>) = {}
    BY DEF Posicoes
  <1> QED
    BY <1>1, PosicoesFinito, FS_EmptySet

\* A received piece adds the event that it completes.
LEMMA EventosAppend ==
  ASSUME NEW S, NEW buf \in Seq(S), NEW p \in S
  PROVE  EventosEm(Append(buf, p)) = EventosEm(buf) + IF Contado(p) THEN 1 ELSE 0
  <1> DEFINE n == Len(buf) + 1
             nova == Append(buf, p)
  <1>1. /\ nova \in Seq(S) /\ Len(buf) \in Nat
        /\ DOMAIN buf = 1 .. Len(buf) /\ DOMAIN nova = 1 .. n
        /\ nova[n] = p
        /\ \A i \in 1 .. Len(buf) : nova[i] = buf[i]
    OBVIOUS
  <1>2. n \notin Posicoes(buf)
    BY <1>1 DEF Posicoes
  <1>3. Posicoes(nova) = Posicoes(buf) \cup (IF Contado(p) THEN {n} ELSE {})
    BY <1>1 DEF Posicoes
  <1> HIDE DEF n, nova
  <1>c. /\ EventosEm(buf) \in Nat
        /\ EventosEm(buf) = Cardinality(Posicoes(buf))
        /\ EventosEm(nova) = Cardinality(Posicoes(nova))
    BY <1>1, PosicoesFinito
  <1>4. CASE Contado(p)
    <2>1. Posicoes(nova) = Posicoes(buf) \cup {n}
      BY <1>3, <1>4
    <2>2. Cardinality(Posicoes(nova)) = Cardinality(Posicoes(buf)) + 1
      BY <1>2, <2>1, PosicoesFinito, FS_AddElement, ZenonT(30)
    <2> QED
      BY <1>c, <1>4, <2>2 DEF nova
  <1>5. CASE ~Contado(p)
    <2>1. Posicoes(nova) = Posicoes(buf)
      BY <1>3, <1>5
    <2> QED
      BY <1>c, <1>5, <2>1 DEF nova
  <1> QED
    BY <1>4, <1>5

\* Completing the last piece adds the event that it completes.
LEMMA EventosCompleta ==
  ASSUME NEW S, NEW buf \in Seq(S), buf # <<>>, NEW p \in S,
         ~Contado(buf[Len(buf)])
  PROVE  EventosEm([buf EXCEPT ![Len(buf)] = p])
           = EventosEm(buf) + IF Contado(p) THEN 1 ELSE 0
  <1> DEFINE n == Len(buf)
             nova == [buf EXCEPT ![n] = p]
  <1>1. /\ nova \in Seq(S) /\ n \in 1 .. n
        /\ DOMAIN buf = 1 .. n /\ DOMAIN nova = 1 .. n
        /\ nova[n] = p
        /\ \A i \in 1 .. n : i # n => nova[i] = buf[i]
    OBVIOUS
  <1>2. n \notin Posicoes(buf)
    BY <1>1 DEF Posicoes
  <1>3. Posicoes(nova) = Posicoes(buf) \cup (IF Contado(p) THEN {n} ELSE {})
    BY <1>1, <1>2 DEF Posicoes
  <1> HIDE DEF n, nova
  <1>c. /\ EventosEm(buf) \in Nat
        /\ EventosEm(buf) = Cardinality(Posicoes(buf))
        /\ EventosEm(nova) = Cardinality(Posicoes(nova))
    BY <1>1, PosicoesFinito
  <1>4. CASE Contado(p)
    <2>1. Posicoes(nova) = Posicoes(buf) \cup {n}
      BY <1>3, <1>4
    <2>2. Cardinality(Posicoes(nova)) = Cardinality(Posicoes(buf)) + 1
      BY <1>2, <2>1, PosicoesFinito, FS_AddElement
    <2> QED
      BY <1>c, <1>4, <2>2 DEF nova, n
  <1>5. CASE ~Contado(p)
    <2>1. Posicoes(nova) = Posicoes(buf)
      BY <1>3, <1>5
    <2> QED
      BY <1>c, <1>5, <2>1 DEF nova, n
  <1> QED
    BY <1>4, <1>5

\* Taking the first piece takes its event, if it is one.
LEMMA EventosTail ==
  ASSUME NEW S, NEW buf \in Seq(S), buf # <<>>
  PROVE  EventosEm(buf) = EventosEm(Tail(buf)) + IF Contado(Head(buf)) THEN 1 ELSE 0
  <1> DEFINE cauda == Tail(buf)
             P == Posicoes(cauda)
             Q == Posicoes(buf) \ {1}
             f == [i \in P |-> i + 1]
  <1>1. /\ cauda \in Seq(S) /\ Len(buf) \in Nat \ {0}
        /\ DOMAIN buf = 1 .. Len(buf)
        /\ DOMAIN cauda = 1 .. (Len(buf) - 1)
        /\ \A i \in 1 .. (Len(buf) - 1) : cauda[i] = buf[i + 1]
        /\ Head(buf) = buf[1]
    OBVIOUS
  <1>2. f \in Bijection(P, Q)
    <2>1. \A i \in P : i \in Nat /\ i + 1 \in Q
      BY <1>1 DEF Posicoes
    <2>2. \A j \in Q : j - 1 \in P /\ j = (j - 1) + 1
      BY <1>1 DEF Posicoes
    <2> HIDE DEF P, Q
    <2>3. f \in [P -> Q]
      BY <2>1
    <2>4. \A i, j \in P : f[i] = f[j] => i = j
      BY <2>1
    <2>5. \A j \in Q : \E i \in P : f[i] = j
      BY <2>1, <2>2
    <2>6. DOMAIN f = P
      OBVIOUS
    <2> HIDE DEF f
    <2> QED
      BY <2>3, <2>4, <2>5, <2>6 DEF Bijection, Injection, Surjection, IsInjective
  <1>3. IsFiniteSet(P) /\ EventosEm(cauda) = Cardinality(P)
    BY <1>1, PosicoesFinito
  <1>4. Cardinality(Q) = Cardinality(P)
    <2>1. ExistsBijection(P, Q)
      BY <1>2 DEF ExistsBijection
    <2> HIDE DEF P, Q
    <2> QED
      BY <1>3, <2>1, FS_Bijection
  <1>5. 1 \in Posicoes(buf) <=> Contado(Head(buf))
    BY <1>1 DEF Posicoes
  <1>6. Cardinality(Q) = IF 1 \in Posicoes(buf) THEN Cardinality(Posicoes(buf)) - 1
                         ELSE Cardinality(Posicoes(buf))
    BY PosicoesFinito, FS_RemoveElement
  <1>7. EventosEm(buf) = Cardinality(Posicoes(buf)) /\ EventosEm(buf) \in Nat
    BY PosicoesFinito
  <1> HIDE DEF P, Q
  <1> QED
    BY <1>3, <1>4, <1>5, <1>6, <1>7

\* The counts of one connection, those of a closed slot being those of a
\* connection to come.
InvConta(c) ==
  /\ estado[c] = "fechada" =>
       /\ recv_buf[c] = <<>> /\ eventos[c] = 0 /\ avisos[c] = 0
       /\ send_buf[c] = 0 /\ enviadas[c] = 0 /\ consumidos[c] = 0
  /\ estado[c] = "aberta" /\ ~ignorar[c] =>
       eventos[c] = avisos[c] + EventosEm(recv_buf[c])

\* A connection that a step leaves alone keeps its counts.
LEMMA IntactaContaInv ==
  ASSUME NEW d \in Conns, InvConta(d), IntactaConta(d)
  PROVE  InvConta(d)'
  BY DEF InvConta, IntactaConta, EventosEm

\* Destroying connections keeps the counts of all.
LEMMA DestroiConta ==
  ASSUME TypeOK, NEW D \in SUBSET Conns, Destroi(D),
         NEW d \in Conns, InvConta(d)
  PROVE  InvConta(d)'
  <1>1. CASE d \in D
    <2>1. /\ estado'[d] = "fechada" /\ recv_buf'[d] = <<>>
          /\ eventos'[d] = 0 /\ avisos'[d] = 0
          /\ send_buf'[d] = 0 /\ enviadas'[d] = 0 /\ consumidos'[d] = 0
      BY <1>1 DEF Destroi
    <2> QED
      BY <2>1 DEF InvConta
  <1>2. CASE d \notin D
    <2>1. IntactaConta(d)
      BY <1>2 DEF Destroi, IntactaConta, TypeOK
    <2> QED
      BY <2>1, IntactaContaInv
  <1> QED
    BY <1>1, <1>2

\* Consuming a frame keeps the count of events, if the frame was delivered
\* exactly when it is a whole event.
LEMMA ConsomeConta ==
  ASSUME TypeOK, NEW c \in Conns, InvConta(c), HaMensagem(c),
         NEW r, NEW T, ConsomeMsg(c, r, T),
         ignorar'[c] = FALSE => ignorar[c] = FALSE,
         ignorar'[c] \in BOOLEAN,
         avisos'[c] = avisos[c] +
           IF EventoBemFormado(ProximoQuadro(c)) THEN 1 ELSE 0
  PROVE  InvConta(c)'
  <1>1. /\ recv_buf[c] \in Seq(Pedaco) /\ recv_buf[c] # <<>>
        /\ Head(recv_buf[c]).completa
        /\ estado[c] = "aberta"
    BY DEF TypeOK, HaMensagem, Viva
  <1>2. /\ recv_buf'[c] = Tail(recv_buf[c])
        /\ estado'[c] = "aberta" /\ eventos'[c] = eventos[c]
    BY <1>1 DEF ConsomeMsg, Resto, TypeOK
  <1>3. Contado(Head(recv_buf[c])) <=> EventoBemFormado(ProximoQuadro(c))
    BY <1>1 DEF Contado, ProximoQuadro
  <1>4. EventosEm(recv_buf[c]) = EventosEm(Tail(recv_buf[c])) +
          IF EventoBemFormado(ProximoQuadro(c)) THEN 1 ELSE 0
    BY <1>1, <1>3, EventosTail
  <1>5. /\ EventosEm(Tail(recv_buf[c])) \in Nat
        /\ avisos[c] \in Nat
    <2>1. Tail(recv_buf[c]) \in Seq(Pedaco)
      BY <1>1
    <2> QED
      BY <2>1, PosicoesFinito DEF TypeOK
  <1>6. EventosEm(recv_buf[c])' = EventosEm(Tail(recv_buf[c]))
    BY <1>2 DEF EventosEm
  <1>7. ignorar'[c] = FALSE => eventos[c] = avisos[c] + EventosEm(recv_buf[c])
    BY <1>1 DEF InvConta
  <1>8. ignorar'[c] = FALSE => eventos'[c] = avisos'[c] + EventosEm(recv_buf[c])'
    BY <1>2, <1>4, <1>5, <1>6, <1>7
  <1> QED
    BY <1>2, <1>8 DEF InvConta

\* Every callback keeps the count of events of its own connection.
LEMMA PassoContaPropria ==
  ASSUME TypeOK, NEW c \in Conns, InvConta(c), Passo(c)
  PROVE  InvConta(c)'
  <1>t. recv_buf[c] \in Seq(Pedaco) /\ eventos[c] \in Nat /\ avisos[c] \in Nat
    BY DEF TypeOK
  <1>e. EventosEm(recv_buf[c]) \in Nat
    BY <1>t, PosicoesFinito
  <1>i. ASSUME IntactaConta(c) PROVE InvConta(c)'
    BY <1>i, IntactaContaInv
  <1>1. CASE Aceita(c)
    <2>1. /\ estado'[c] = "aberta" /\ recv_buf' = recv_buf
          /\ eventos' = eventos /\ avisos' = avisos
          /\ recv_buf[c] = <<>> /\ eventos[c] = 0 /\ avisos[c] = 0
      BY <1>1 DEF Aceita, TypeOK, InvConta
    <2>2. EventosEm(recv_buf[c])' = 0
      BY <2>1, EventosVazio DEF EventosEm
    <2> QED
      BY <2>1, <2>2 DEF InvConta
  <1>2. ASSUME NEW q \in Quadros, NEW inteiro \in BOOLEAN,
               RecebeQuadro(c, q, inteiro)
        PROVE  InvConta(c)'
    <2> DEFINE p == [quadro |-> q, completa |-> inteiro]
    <2>1. p \in Pedaco /\ (Contado(p) <=> inteiro /\ EventoBemFormado(q))
      BY DEF Pedaco, Contado
    <2>2. /\ recv_buf'[c] = Append(recv_buf[c], p)
          /\ eventos'[c] = eventos[c] + IF Contado(p) THEN 1 ELSE 0
          /\ avisos' = avisos /\ estado' = estado /\ ignorar' = ignorar
          /\ estado[c] = "aberta" /\ ~ignorar[c]
      <3>1. eventos'[c] = IF inteiro /\ EventoBemFormado(q)
                          THEN eventos[c] + 1 ELSE eventos[c]
        BY <1>2 DEF RecebeQuadro, TypeOK
      <3>2. eventos'[c] = eventos[c] + IF Contado(p) THEN 1 ELSE 0
        BY <1>t, <2>1, <3>1
      <3> QED
        BY <1>2, <3>2 DEF RecebeQuadro, recv_callback, Viva, TypeOK
    <2>3. EventosEm(recv_buf[c])' = EventosEm(recv_buf[c]) +
            IF Contado(p) THEN 1 ELSE 0
      <3>1. EventosEm(recv_buf[c])' = EventosEm(Append(recv_buf[c], p))
        BY <2>2 DEF EventosEm
      <3> QED
        BY <1>t, <2>1, <3>1, EventosAppend
    <2> HIDE DEF p
    <2> QED
      BY <1>t, <1>e, <2>2, <2>3 DEF InvConta
  <1>3. ASSUME NEW fim \in BOOLEAN, RecebeContinuacao(c, fim)
        PROVE  InvConta(c)'
    <2> DEFINE n == Len(recv_buf[c])
               q == recv_buf[c][n].quadro
               p == [quadro |-> q, completa |-> fim]
    <2>1. /\ recv_buf[c] # <<>> /\ ~recv_buf[c][n].completa
          /\ estado[c] = "aberta" /\ ~ignorar[c]
      BY <1>3 DEF RecebeContinuacao, Cortado, Viva
    <2>2. p \in Pedaco /\ (Contado(p) <=> fim /\ EventoBemFormado(q))
      <3>1. recv_buf[c][n] \in Pedaco
        BY <1>t, <2>1
      <3> QED
        BY <3>1 DEF Pedaco, Contado
    <2>3. /\ recv_buf'[c] = [recv_buf[c] EXCEPT ![n] = p]
          /\ avisos' = avisos /\ estado' = estado /\ ignorar' = ignorar
      BY <1>3 DEF RecebeContinuacao, recv_callback, TypeOK
    <2>4. eventos'[c] = eventos[c] + IF Contado(p) THEN 1 ELSE 0
      <3>1. eventos'[c] = IF fim /\ EventoBemFormado(q)
                          THEN eventos[c] + 1 ELSE eventos[c]
        BY <1>3 DEF RecebeContinuacao, TypeOK
      <3> HIDE DEF p, q
      <3> QED
        BY <1>t, <2>2, <3>1
    <2>5. EventosEm(recv_buf[c])' = EventosEm(recv_buf[c]) +
            IF Contado(p) THEN 1 ELSE 0
      <3>1. EventosEm(recv_buf[c])' = EventosEm([recv_buf[c] EXCEPT ![n] = p])
        BY <2>3 DEF EventosEm
      <3>2. ~Contado(recv_buf[c][n])
        BY <2>1 DEF Contado
      <3> HIDE DEF p
      <3> QED
        BY <1>t, <2>1, <2>2, <3>1, <3>2, EventosCompleta
    <2> HIDE DEF p
    <2> QED
      BY <1>t, <1>e, <2>1, <2>3, <2>4, <2>5 DEF InvConta
  <1>4. CASE RecebeIgnorada(c)
    BY <1>4 DEF RecebeIgnorada, Viva, InvConta, TypeOK
  <1>5. CASE shutdown_callback(c) \/ timeout_identificacao(c)
             \/ timeout_comunicacao(c) \/ timeout_msgincompleta(c) \/ FalhaProcesso(c)
    BY <1>5, DestroiConta
       DEF shutdown_callback, timeout_identificacao, timeout_comunicacao,
           timeout_msgincompleta, Desiste, FalhaProcesso
  <1>6. ASSUME NEW n \in 1 .. send_buf[c], send_callback(c, n)
        PROVE  InvConta(c)'
    <2>1. UNCHANGED <<estado, ignorar, recv_buf, eventos, avisos>> /\ estado[c] = "aberta"
      BY <1>6 DEF send_callback, Viva
    <2> QED
      BY <2>1 DEF InvConta, EventosEm
  <1>7. CASE SemMensagem(c)
    BY <1>7, <1>i DEF SemMensagem, IntactaConta
  <1>8. CASE RespostaSimples(c)
    <2>1. ~EventoBemFormado(ProximoQuadro(c))
      BY <1>8 DEF RespostaSimples, EventoBemFormado
    <2>2. HaMensagem(c) /\ ConsomeMsg(c, 1, {}) /\ ignorar' = ignorar
          /\ avisos' = avisos /\ ignorar[c] \in BOOLEAN
      BY <1>8 DEF RespostaSimples, TypeOK
    <2>3. avisos'[c] = avisos[c] + 0
      BY <1>t, <2>2
    <2> QED
      BY <2>1, <2>2, <2>3, ConsomeConta
  <1>9. CASE evento_alarme(c)
    <2>1. HaMensagem(c) /\ ConsomeMsg(c, 1, {}) /\ ignorar' = ignorar
          /\ ignorar[c] \in BOOLEAN
      BY <1>9 DEF evento_alarme, TypeOK
    <2>2. avisos'[c] = avisos[c] +
            IF EventoBemFormado(ProximoQuadro(c)) THEN 1 ELSE 0
      BY <1>9, <1>t DEF evento_alarme, TypeOK
    <2> QED
      BY <2>1, <2>2, ConsomeConta
  <1>10. CASE identificacao_central(c)
    <2> DEFINE q == ProximoQuadro(c)
               aceita == valida_central(q) /\ valida_maxconn
    <2>1. ~EventoBemFormado(q)
      BY <1>10 DEF identificacao_central, EventoBemFormado
    <2>2. /\ HaMensagem(c) /\ avisos' = avisos
          /\ ConsomeMsg(c, RespostasIdent(q, aceita), DesarmaIdent(aceita))
      BY <1>10 DEF identificacao_central
    <2>3. ignorar'[c] \in BOOLEAN /\ (ignorar'[c] = FALSE => ignorar[c] = FALSE)
      BY <1>10 DEF identificacao_central, TypeOK
    <2>4. avisos'[c] = avisos[c] + 0
      BY <1>t, <2>2
    <2> HIDE DEF aceita
    <2> QED
      BY <2>1, <2>2, <2>3, <2>4, ConsomeConta
  <1>11. CASE recuar_backoff(c)
    BY <1>11, <1>i DEF recuar_backoff, IntactaConta
  <1> QED
    BY <1>1, <1>2, <1>3, <1>4, <1>5, <1>6, <1>7, <1>8, <1>9, <1>10, <1>11
       DEF Passo, Recebe, processar_msg

\* A callback of connection c leaves the others alone or destroys some.
LEMMA PassoOutras ==
  ASSUME TypeOK, NEW c \in Conns, Passo(c), NEW d \in Conns, d # c
  PROVE  IntactaConta(d) \/ \E D \in SUBSET Conns : Destroi(D)
  BY OutraIntacta
     DEF Passo, processar_msg, FalhaProcesso, shutdown_callback, Desiste,
         timeout_identificacao, timeout_comunicacao, timeout_msgincompleta

\* Every callback keeps the counts of every connection.
LEMMA PassoConta ==
  ASSUME TypeOK, \A d \in Conns : InvConta(d), NEW c \in Conns, Passo(c)
  PROVE  \A d \in Conns : InvConta(d)'
  <1> SUFFICES ASSUME NEW d \in Conns PROVE InvConta(d)'
    OBVIOUS
  <1>1. CASE d = c
    BY <1>1, PassoContaPropria
  <1>2. CASE d # c
    BY <1>2, PassoOutras, IntactaContaInv, DestroiConta
  <1> QED
    BY <1>1, <1>2

\* The counts hold always.
LEMMA ContaSempre == Spec => [](\A c \in Conns : InvConta(c))
  <1> DEFINE Inv == \A c \in Conns : InvConta(c)
  <1>1. Init => Inv
    BY DEF Init, InvConta
  <1>2. TypeOK /\ Inv /\ [Next]_vars => Inv'
    <2> SUFFICES ASSUME TypeOK, Inv, [Next]_vars PROVE Inv'
      OBVIOUS
    <2>1. CASE Reinicia
      BY <2>1, IntactaContaInv DEF Reinicia, conexao, IntactaConta
    <2>2. CASE \E c \in Conns : Passo(c)
      BY <2>2, PassoConta
    <2>3. CASE UNCHANGED vars
      BY <2>3, IntactaContaInv DEF vars, conexao, IntactaConta
    <2> QED
      BY <2>1, <2>2, <2>3 DEF Next
  <1> QED
    BY <1>1, <1>2, TipoCorreto, PTL DEF Spec

\* No alarm event received whole by a treated connection is lost or delivered
\* twice, however frames are cut and whatever is consumed in between.
THEOREM EventosSempreConferem == Spec => []EventosConferem
  <1>1. (\A c \in Conns : InvConta(c)) => EventosConferem
    BY DEF InvConta, EventosConferem
  <1> QED
    BY <1>1, ContaSempre, PTL

-----------------------------------------------------------------------------
(***************************************************************************)
(* Answers.                                                                *)
(***************************************************************************)
\* No identification has an unexpected length.
IdentsCertas == \A q \in Quadros : q.tipo = "ident" => q.tam # "outro"

InvResposta(c) ==
  IdentsCertas /\ estado[c] = "aberta" =>
    /\ ~ignorar[c] => send_buf[c] + enviadas[c] = consumidos[c]
    /\ send_buf[c] + enviadas[c] <= consumidos[c]

\* A connection that a step leaves alone keeps its answers.
LEMMA IntactaResposta ==
  ASSUME NEW d \in Conns, InvResposta(d), IntactaConta(d)
  PROVE  InvResposta(d)'
  BY DEF InvResposta, IntactaConta

\* Destroying connections keeps the answers of the others.
LEMMA DestroiResposta ==
  ASSUME TypeOK, NEW D \in SUBSET Conns, Destroi(D),
         NEW d \in Conns, InvResposta(d)
  PROVE  InvResposta(d)'
  <1>1. CASE d \in D
    <2>1. estado'[d] = "fechada"
      BY <1>1 DEF Destroi
    <2> QED
      BY <2>1 DEF InvResposta
  <1>2. CASE d \notin D
    <2>1. IntactaConta(d)
      BY <1>2 DEF Destroi, IntactaConta, TypeOK
    <2> QED
      BY <2>1, IntactaResposta
  <1> QED
    BY <1>1, <1>2

\* Consuming a frame with one answer, or with none if the connection is ignored
\* from then on, keeps the count.
LEMMA ConsomeResposta ==
  ASSUME TypeOK, NEW c \in Conns, InvResposta(c), Viva(c),
         NEW r \in Nat, NEW T, ConsomeMsg(c, r, T),
         ignorar'[c] \in BOOLEAN, ~ignorar'[c] => ~ignorar[c],
         IdentsCertas => r \in {0, 1} /\ (r = 0 => ignorar'[c])
  PROVE  InvResposta(c)'
  <1>1. /\ send_buf[c] \in Nat /\ enviadas[c] \in Nat /\ consumidos[c] \in Nat
        /\ estado[c] = "aberta"
    BY DEF TypeOK, Viva
  <1>2. /\ send_buf'[c] = send_buf[c] + r /\ enviadas'[c] = enviadas[c]
        /\ consumidos'[c] = consumidos[c] + 1 /\ estado'[c] = estado[c]
    BY DEF ConsomeMsg, TypeOK
  <1> QED
    BY <1>1, <1>2 DEF InvResposta

\* Every callback keeps the count of answers of its own connection.
LEMMA PassoRespostaPropria ==
  ASSUME TypeOK, NEW c \in Conns, InvConta(c), InvResposta(c), Passo(c)
  PROVE  InvResposta(c)'
  <1>t. send_buf[c] \in Nat /\ enviadas[c] \in Nat /\ consumidos[c] \in Nat
    BY DEF TypeOK
  <1>i. ASSUME UNCHANGED <<estado, ignorar, send_buf, enviadas, consumidos>>
        PROVE  InvResposta(c)'
    BY <1>i DEF InvResposta
  <1>1. CASE Aceita(c)
    <2>1. /\ send_buf[c] = 0 /\ enviadas[c] = 0 /\ consumidos[c] = 0
          /\ UNCHANGED <<send_buf, enviadas, consumidos>>
      BY <1>1 DEF Aceita, InvConta
    <2> QED
      BY <2>1 DEF InvResposta
  <1>2. CASE Recebe(c)
    BY <1>2, <1>i DEF Recebe, RecebeQuadro, RecebeContinuacao, RecebeIgnorada,
                      recv_callback
  <1>3. CASE shutdown_callback(c) \/ timeout_identificacao(c)
             \/ timeout_comunicacao(c) \/ timeout_msgincompleta(c) \/ FalhaProcesso(c)
    BY <1>3, DestroiResposta
       DEF shutdown_callback, timeout_identificacao, timeout_comunicacao,
           timeout_msgincompleta, Desiste, FalhaProcesso
  <1>4. ASSUME NEW n \in 1 .. send_buf[c], send_callback(c, n)
        PROVE  InvResposta(c)'
    <2>1. /\ send_buf'[c] = send_buf[c] - n /\ enviadas'[c] = enviadas[c] + n
          /\ UNCHANGED <<estado, ignorar, consumidos>>
      BY <1>4 DEF send_callback, TypeOK
    <2> QED
      BY <1>t, <2>1 DEF InvResposta
  <1>5. CASE SemMensagem(c) \/ recuar_backoff(c)
    BY <1>5, <1>i DEF SemMensagem, recuar_backoff
  <1>6. CASE RespostaSimples(c) \/ evento_alarme(c)
    <2>1. /\ Viva(c) /\ ConsomeMsg(c, 1, {}) /\ ignorar' = ignorar
          /\ ignorar[c] \in BOOLEAN
      BY <1>6 DEF RespostaSimples, evento_alarme, HaMensagem, TypeOK
    <2>2. 1 \in Nat /\ 1 \in {0, 1} /\ 1 # 0
      OBVIOUS
    <2> QED
      BY <2>1, <2>2, ConsomeResposta
  <1>7. CASE identificacao_central(c)
    <2> DEFINE q == ProximoQuadro(c)
               aceita == valida_central(q) /\ valida_maxconn
               r == RespostasIdent(q, aceita)
    <2>1. /\ Viva(c) /\ ConsomeMsg(c, r, DesarmaIdent(aceita))
          /\ recv_buf[c] # <<>>
      BY <1>7 DEF identificacao_central, HaMensagem
    <2>2. ignorar'[c] = (ignorar[c] \/ ~aceita)
      BY <1>7 DEF identificacao_central, TypeOK
    <2>3. IdentsCertas => q.tam # "outro"
      <3>1. Head(recv_buf[c]) \in Pedaco
        BY <2>1 DEF TypeOK
      <3>2. q \in Quadros
        BY <3>1 DEF Pedaco, ProximoQuadro
      <3>3. q.tipo = "ident"
        BY <1>7 DEF identificacao_central
      <3> QED
        BY <3>2, <3>3 DEF IdentsCertas
    <2>4. r \in Nat /\ (IdentsCertas => r = IF aceita THEN 1 ELSE 0)
      BY <2>3 DEF RespostasIdent
    <2>5. ignorar'[c] \in BOOLEAN /\ (~ignorar'[c] => ~ignorar[c])
      BY <2>2
    <2> HIDE DEF q, aceita, r
    <2>6. IdentsCertas => r \in {0, 1} /\ (r = 0 => ignorar'[c])
      <3>1. ~aceita => ignorar'[c]
        BY <2>2
      <3> QED
        BY <2>4, <3>1
    <2> QED
      BY <2>1, <2>4, <2>5, <2>6, ConsomeResposta
  <1> QED
    BY <1>1, <1>2, <1>3, <1>4, <1>5, <1>6, <1>7 DEF Passo, processar_msg

\* Every callback keeps the count of answers of every connection.
LEMMA PassoResposta ==
  ASSUME TypeOK, \A d \in Conns : InvConta(d) /\ InvResposta(d),
         NEW c \in Conns, Passo(c)
  PROVE  \A d \in Conns : InvResposta(d)'
  <1> SUFFICES ASSUME NEW d \in Conns PROVE InvResposta(d)'
    OBVIOUS
  <1>1. CASE d = c
    BY <1>1, PassoRespostaPropria
  <1>2. CASE d # c
    BY <1>2, PassoOutras, IntactaResposta, DestroiResposta
  <1> QED
    BY <1>1, <1>2

\* Each frame that a treated connection consumes gets exactly one answer, so a
\* panel never pairs an answer with another request.
THEOREM RespostasSempreConferem == Spec => []RespostasConferem
  <1> DEFINE Inv == \A c \in Conns : InvResposta(c)
             Contas == \A c \in Conns : InvConta(c)
  <1>1. Init => Inv
    BY DEF Init, InvResposta
  <1>2. TypeOK /\ Contas /\ Inv /\ [Next]_vars => Inv'
    <2> SUFFICES ASSUME TypeOK, Contas, Inv, [Next]_vars PROVE Inv'
      OBVIOUS
    <2>1. CASE Reinicia
      BY <2>1, IntactaResposta DEF Reinicia, conexao, IntactaConta
    <2>2. CASE \E c \in Conns : Passo(c)
      BY <2>2, PassoResposta
    <2>3. CASE UNCHANGED vars
      BY <2>3, IntactaResposta DEF vars, conexao, IntactaConta
    <2> QED
      BY <2>1, <2>2, <2>3 DEF Next
  <1>3. Inv => RespostasConferem
    BY DEF InvResposta, RespostasConferem, IdentsCertas
  <1>4. Spec => []Contas
    BY ContaSempre
  <1> QED
    BY <1>1, <1>2, <1>3, <1>4, TipoCorreto, PTL DEF Spec
=============================================================================
