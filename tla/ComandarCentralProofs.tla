------------------------ MODULE ComandarCentralProofs -----------------------
(***************************************************************************)
(* Proofs about ComandarCentral, for any command lines and passwords, any  *)
(* cut of the answers and any panel that only acts as the module says.     *)
(***************************************************************************)
EXTENDS ComandarCentral, ProtocoloProofs

-----------------------------------------------------------------------------
(***************************************************************************)
(* The dialogue, question by question.                                     *)
(***************************************************************************)
Auth == pacote_isecnet2_auth(acesso.senha, acesso.tam_senha)
Cmd == pacote_isecnet2(Codigo[pedido.comando], Payload(pedido))
Bye == pacote_isecnet2_bye

\* What Auth carries: the digits of the password between two fixed octets.
CargaAuth == <<2>> \o contact_id_encode(acesso.senha, acesso.tam_senha) \o <<16>>

\* A question is queued or on its way, and nothing comes back yet.
EmTransito(p) ==
  /\ recv_buf = <<>> /\ rede = <<>>
  /\ \/ send_buf = <<p>> /\ chegada = <<>>
     \/ send_buf = <<>> /\ chegada = <<p>>

\* The panel has read it: what has come and what is to come of the answer is
\* one of R, as long as somebody reads it.
Lida(R) ==
  /\ send_buf = <<>> /\ chegada = <<>>
  /\ recv_buf \in Seq(Octeto) /\ rede \in Seq(Octeto)
  /\ conexao = "aberta" => recv_buf \o rede \in R

Negativas == Recusas \cup {<<>>}

RespostasAuth == {pacote_isecnet2(\hf0f0, <<0>>), pacote_isecnet2(\hf0f0, <<1>>)}

Confirmacoes ==
  {pacote_isecnet2(\hf0fe, <<>>), pacote_isecnet2(Codigo[pedido.comando], <<>>),
   pacote_isecnet2(Codigo[pedido.comando], Relatorio(1)),
   pacote_isecnet2(Codigo[pedido.comando], Relatorio(2))}

Antes ==
  /\ tratador = "nenhum" /\ status = 1 /\ executados = <<>>
  /\ recv_buf = <<>> /\ rede = <<>> /\ send_buf = <<>> /\ chegada = <<>>
  /\ conexao # "aberta"

Identifica ==
  /\ tratador = "autenticacao" /\ status = 1 /\ executados = <<>>
  /\ EmTransito(Auth) \/ Lida(RespostasAuth \cup Negativas)

Comanda ==
  /\ tratador = "comando" /\ status = 1
  /\ ~(DeZona(pedido) /\ pedido.alvo = <<>>)
  /\ \/ executados = <<>> /\ (EmTransito(Cmd) \/ Lida(Negativas))
     \/ executados = <<Efetivo>> /\ Lida(Confirmacoes)

Despede ==
  /\ tratador = "nenhum" /\ status = 0 /\ executados = <<Efetivo>>
  /\ EmTransito(Bye) \/ Lida(Negativas)

\* What does not depend on octets.
Controle ==
  /\ conexao \in {"nova", "conectando", "aberta", "destruida"}
  /\ saida \in {"rodando", "sucesso", "erro", "excecao", "uso"}
  /\ conn_timeout \in BOOLEAN
  /\ painel \in {"aberto", "fechado"}
  /\ autenticado \in {"nao", "sim", "recusado"}
  /\ tratador \in {"nenhum", "autenticacao", "comando"}
  /\ status \in {0, 1}
  /\ pedido \in Pedidos /\ acesso \in Acessos
  /\ conn_timeout => conexao \in {"conectando", "aberta"}
  /\ conexao # "destruida" => saida = "rodando"
  /\ saida = "sucesso" => status = 0
  /\ status = 0 => saida \in {"rodando", "sucesso"} /\ tratador = "nenhum"
  /\ conexao \in {"nova", "conectando"} => tratador = "nenhum" /\ status = 1
  /\ tratador # "nenhum" \/ status = 0 \/ conexao \in {"conectando", "aberta"} => PedidoValido

InvDialogo == Antes \/ Identifica \/ Comanda \/ Despede

-----------------------------------------------------------------------------
(***************************************************************************)
(* The part that does not depend on octets.                                *)
(***************************************************************************)
\* Every step keeps it.
LEMMA ControlePasso ==
  ASSUME Controle, [Next]_vars
  PROVE  Controle'
  <1> USE DEF entrada, cliente, externo
  <1>1. PedidoValido' <=> PedidoValido
    BY DEF Next, vars, Uso, Inicia, connection_callback, TrataTimeout, send_callback, Queda,
       PacoteIncompleto, PacoteRuim, resposta_autenticacao, resposta_comando, Recebe,
       PainelAutentica, PainelExecuta, PainelRecusa, PainelFecha, Responde, PedidoValido
  <1>2. CASE Uso
    BY <1>1, <1>2 DEF Controle, Uso, Encerra
  <1>3. CASE Inicia
    <2>1. PedidoValido'
      BY <1>1, <1>3 DEF Inicia
    <2>2. conn_timeout' \in BOOLEAN /\ (conn_timeout' => conexao' = "conectando")
      BY <1>3 DEF Inicia, Encerra
    <2> QED
      BY <1>3, <2>1, <2>2 DEF Controle, Inicia, Encerra
  <1>4. ASSUME NEW ok \in BOOLEAN, connection_callback(ok) PROVE Controle'
    <2>1. PedidoValido'
      BY <1>1, <1>4 DEF Controle, connection_callback
    <2>2. conn_timeout' \in BOOLEAN /\ (conn_timeout' => conexao' = "aberta")
      BY <1>4 DEF connection_callback, Envia, destroy, Encerra
    <2> QED
      BY <1>4, <2>1, <2>2 DEF Controle, connection_callback, Envia, destroy, Encerra
  <1>5. CASE TrataTimeout
    BY <1>1, <1>5 DEF Controle, TrataTimeout, StatusTimeout, destroy, Encerra
  <1>6. CASE send_callback
    BY <1>1, <1>6 DEF Controle, send_callback
  <1>7. CASE Queda
    BY <1>1, <1>7 DEF Controle, Queda, destroy, Encerra
  <1>8. ASSUME NEW k \in 1 .. Len(rede), PacoteIncompleto(k) PROVE Controle'
    BY <1>1, <1>8 DEF Controle, PacoteIncompleto, Recebe
  <1>9. ASSUME NEW k \in 1 .. Len(rede), PacoteRuim(k) PROVE Controle'
    BY <1>1, <1>9 DEF Controle, PacoteRuim, Recebe, destroy, Encerra
  <1>10. ASSUME NEW k \in 1 .. Len(rede), resposta_autenticacao(k) PROVE Controle'
    BY <1>1, <1>10 DEF Controle, resposta_autenticacao, Recebe, Envia, Encerra
  <1>11. ASSUME NEW k \in 1 .. Len(rede), resposta_comando(k) PROVE Controle'
    BY <1>1, <1>11 DEF Controle, resposta_comando, Recebe, Envia, Encerra
  <1>12. CASE PainelAutentica
    BY <1>1, <1>12 DEF Controle, PainelAutentica, Responde
  <1>13. CASE PainelExecuta
    BY <1>1, <1>13 DEF Controle, PainelExecuta, Responde
  <1>14. CASE PainelRecusa
    BY <1>1, <1>14 DEF Controle, PainelRecusa, Responde
  <1>15. CASE PainelFecha
    BY <1>1, <1>15 DEF Controle, PainelFecha
  <1>16. CASE UNCHANGED vars
    BY <1>1, <1>16 DEF Controle, vars
  <1> QED
    BY <1>2, <1>3, <1>4, <1>5, <1>6, <1>7, <1>8, <1>9, <1>10, <1>11, <1>12, <1>13,
       <1>14, <1>15, <1>16 DEF Next

\* It holds throughout.
LEMMA SempreControle == Spec => []Controle
  <1>1. ASSUME Init PROVE Controle
    <2>1. conn_timeout \in BOOLEAN /\ ~conn_timeout
      BY <1>1 DEF Init
    <2> QED
      BY <1>1, <2>1 DEF Init, Controle
  <1>2. Controle /\ [Next]_vars => Controle'
    BY ControlePasso
  <1> QED
    BY <1>1, <1>2, PTL DEF Spec

\* Once resposta_comando has confirmed the command, no answer to the goodbye,
\* no closing and no timeout lets destroyed_callback report an error.
THEOREM ConfirmadoSempreSucesso == Spec => ConfirmadoEhSucesso
  <1>1. ASSUME Controle, Controle', [Next]_vars
        PROVE  [status = 0 => saida' \in {"rodando", "sucesso"}]_vars
    <2>1. ASSUME status = 0 PROVE status' = 0 \/ saida' = "rodando"
      <3> USE DEF entrada, cliente, externo
      <3> QED
        BY <1>1, <2>1 DEF Controle, Next, vars, Uso, Inicia, connection_callback, TrataTimeout,
           StatusTimeout, send_callback, Queda, PacoteIncompleto, PacoteRuim,
           resposta_autenticacao, resposta_comando, Recebe, Envia, destroy, Encerra,
           PainelAutentica, PainelExecuta, PainelRecusa, PainelFecha, Responde
    <2> QED
      BY <1>1, <2>1 DEF Controle
  <1> QED
    BY <1>1, SempreControle, PTL DEF Spec, ConfirmadoEhSucesso

-----------------------------------------------------------------------------
(***************************************************************************)
(* The packets of the dialogue.                                            *)
(***************************************************************************)
\* Payloads of up to two octets.
LEMMA CargaCurta ==
  /\ <<>> \in Carga
  /\ \A x \in Octeto : <<x>> \in Carga
  /\ \A x, y \in Octeto : <<x, y>> \in Carga
  <1>1. <<>> \in Carga
    BY EmptySeq DEF Carga
  <1>2. ASSUME NEW x \in Octeto PROVE <<x>> \in Carga
    BY DEF Carga
  <1>3. ASSUME NEW x \in Octeto, NEW y \in Octeto PROVE <<x, y>> \in Carga
    BY Par DEF Carga
  <1> QED
    BY <1>1, <1>2, <1>3

\* Reports, for any general status.
LEMMA RelatorioCarga ==
  ASSUME NEW g \in 0 .. 3
  PROVE  Relatorio(g) \in Carga
  <1>1. \A i \in 1 .. 38 : (IF i = 21 THEN 32 * g ELSE 0) \in Octeto
    BY DEF Octeto
  <1>2. Relatorio(g) \in Seq(Octeto) /\ Len(Relatorio(g)) = 38
    BY <1>1 DEF Relatorio
  <1> DEFINE s == Relatorio(g)
  <1>3. s \in Seq(Octeto) /\ Len(s) = 38
    BY <1>2
  <1> HIDE DEF s
  <1>4. Len(s) <= 65533
    BY <1>3
  <1>5. s \in Carga
    <2>1. s \in Seq(Octeto)
      BY <1>3
    <2> QED
      BY <1>4, <2>1, SMT DEF Carga
  <1> QED
    BY <1>5 DEF s

\* The digits of a password, and what goes around them.
LEMMA AuthCarga ==
  ASSUME acesso \in Acessos
  PROVE  LET d == contact_id_encode(acesso.senha, acesso.tam_senha)
         IN  /\ d \in Seq(Octeto) /\ Len(d) = acesso.tam_senha
             /\ CargaAuth \in Carga
             /\ SubSeq(CargaAuth, 2, Len(CargaAuth) - 1) = d
  <1> DEFINE n == acesso.tam_senha
             d == contact_id_encode(acesso.senha, n)
             a == <<2>> \o d
             c == a \o <<16>>
  <1>1. acesso.senha \in Nat /\ n \in Nat /\ n <= 65531 /\ Potencias(n)
    BY AcessosAssumption, SenhaCabe, PotenciasAssumption
  <1>2. d \in Seq(1 .. 10) /\ Len(d) = n
    BY <1>1, Digitos
  <1> HIDE DEF d, n
  <1>3. d \in Seq(Octeto)
    BY <1>2 DEF Octeto
  <1>4. <<2>> \in Seq(Octeto) /\ <<16>> \in Seq(Octeto) /\ Len(<<2>>) = 1 /\ Len(<<16>>) = 1
    BY DEF Octeto
  <1>5. /\ a \in Seq(Octeto) /\ Len(a) = 1 + Len(d)
        /\ \A i \in 1 .. 1 + Len(d) : a[i] = IF i <= 1 THEN <<2>>[i] ELSE d[i - 1]
    BY <1>3, <1>4, ConcatProperties
  <1> HIDE DEF a
  <1>6. /\ c \in Seq(Octeto) /\ Len(c) = Len(a) + 1
        /\ \A i \in 1 .. Len(a) + 1 : c[i] = IF i <= Len(a) THEN a[i] ELSE <<16>>[i - Len(a)]
    BY <1>4, <1>5, ConcatProperties
  <1> HIDE DEF c
  <1>7. Len(d) \in Nat
    BY <1>1, <1>2
  <1>8. c \in Carga
    BY <1>1, <1>2, <1>5, <1>6 DEF Carga
  <1> DEFINE s == SubSeq(c, 2, Len(c) - 1)
  <1>9. s \in Seq(Octeto) /\ Len(s) = Len(d) /\ \A i \in 1 .. Len(d) : s[i] = c[i + 1]
    BY <1>5, <1>6, <1>7
  <1> HIDE DEF s
  <1>10. ASSUME NEW i \in 1 .. Len(d) PROVE s[i] = d[i]
    <2>1. i + 1 \in 1 .. 1 + Len(d) /\ i + 1 <= Len(a) /\ ~(i + 1 <= 1) /\ i + 1 - 1 = i
          /\ i + 1 \in 1 .. Len(a) + 1
      BY <1>5, <1>7
    <2>2. c[i + 1] = a[i + 1]
      BY <1>6, <2>1
    <2>3. a[i + 1] = d[i]
      BY <1>5, <2>1
    <2> QED
      BY <1>9, <2>2, <2>3
  <1>11. s = d
    BY <1>3, <1>9, <1>10, SeqEqual
  <1>12. c = CargaAuth
    BY DEF a, c, d, n, CargaAuth
  <1> QED
    BY <1>2, <1>3, <1>8, <1>11, <1>12 DEF s, d, n

\* No command has the code of an authentication, a goodbye, an ACK, a NAK, a
\* "busy" or a photograph.
LEMMA Codigos ==
  ASSUME pedido \in Pedidos
  PROVE  /\ Codigo[pedido.comando] \in Comando
         /\ Codigo[pedido.comando] \notin {\hf0f0, \hf0f1, \hf0fe, \hf0fd, \hf0f7, \h0bb0}
  <1>1. pedido.comando \in DOMAIN Codigo
    BY PedidosAssumption
  <1> QED
    BY <1>1 DEF Codigo, Comando

\* The panel understands the octets of a command as the command that was given.
LEMMA ComandoEntendido ==
  ASSUME pedido \in Pedidos, PedidoValido, ~(DeZona(pedido) /\ pedido.alvo = <<>>)
  PROVE  /\ Payload(pedido) \in Carga
         /\ Entende([cmd |-> Codigo[pedido.comando], payload |-> Payload(pedido)]) = Efetivo
  <1> DEFINE r == [cmd |-> Codigo[pedido.comando], payload |-> Payload(pedido)]
  <1>1. /\ pedido = [comando |-> pedido.comando, alvo |-> pedido.alvo]
        /\ pedido.comando \in DOMAIN Codigo
        /\ pedido.alvo \in Seq(Int) /\ Len(pedido.alvo) <= 1
    BY PedidosAssumption
  <1>2. \/ pedido.alvo = <<>> /\ Particao(pedido) = 255
        \/ \E n \in 1 .. 254 : pedido.alvo = <<n>> /\ pedido.alvo[1] = n /\ Particao(pedido) = n
    <2>1. CASE pedido.alvo = <<>>
      BY <2>1 DEF Particao
    <2>2. CASE pedido.alvo # <<>>
      <3>1. pedido.alvo[1] \in 1 .. 254
        BY <2>2 DEF PedidoValido, AlvoValido
      <3>2. Len(pedido.alvo) = 1
        <4>1. Len(pedido.alvo) \in Nat \ {0}
          BY <1>1, <2>2, EmptySeq, Zenon
        <4> DEFINE m == Len(pedido.alvo)
        <4>2. m \in Nat \ {0} /\ m <= 1
          BY <1>1, <4>1
        <4> HIDE DEF m
        <4>3. m = 1
          BY <4>2
        <4> QED
          BY <4>3 DEF m
      <3>3. pedido.alvo = <<pedido.alvo[1]>>
        BY <1>1, <3>2, SMTT(30)
      <3> QED
        BY <2>2, <3>1, <3>3 DEF Particao
    <2> QED
      BY <2>1, <2>2
  <1>3. Particao(pedido) \in Octeto /\ 0 \in Octeto /\ 1 \in Octeto
    <2>1. Particao(pedido) = 255 \/ \E n \in 1 .. 254 : Particao(pedido) = n
      BY <1>2, Zenon
    <2> QED
      BY <2>1 DEF Octeto
  <1> DEFINE alvo == IF Particao(pedido) = 255 THEN <<>> ELSE <<Particao(pedido)>>
  <1>4. alvo = pedido.alvo
    <2>1. CASE pedido.alvo = <<>> /\ Particao(pedido) = 255
      BY <2>1
    <2>2. ASSUME NEW n \in 1 .. 254, pedido.alvo = <<n>>, Particao(pedido) = n
          PROVE  alvo = pedido.alvo
      <3>1. n # 255
        OBVIOUS
      <3> QED
        BY <2>2, <3>1, Zenon
    <2> QED
      BY <1>2, <2>1, <2>2, Zenon
  <1>5. CASE pedido.comando = "desativar"
    <2>1. Payload(pedido) = <<Particao(pedido), 0>>
      BY <1>5 DEF Payload
    <2>2. r.cmd = \h401e
      BY <1>5 DEF Codigo
    <2>3. Entende(r) = [comando |-> "desativar", alvo |-> alvo]
      BY <2>1, <2>2 DEF Entende
    <2>4. Entende(r) = pedido
      BY <1>1, <1>4, <1>5, <2>3
    <2> QED
      BY <1>3, <1>5, <2>1, <2>4, CargaCurta DEF Efetivo
  <1>6. CASE pedido.comando = "ativar"
    <2>1. Payload(pedido) = <<Particao(pedido), 1>>
      BY <1>6 DEF Payload
    <2>2. r.cmd = \h401e
      BY <1>6 DEF Codigo
    <2>3. Entende(r) = [comando |-> "ativar", alvo |-> alvo]
      BY <2>1, <2>2 DEF Entende
    <2>4. Entende(r) = pedido
      BY <1>1, <1>4, <1>6, <2>3
    <2> QED
      BY <1>3, <1>6, <2>1, <2>4, CargaCurta DEF Efetivo
  <1>7. CASE pedido.comando = "desligarsirene"
    <2>1. Payload(pedido) = <<Particao(pedido)>>
      BY <1>7 DEF Payload
    <2>2. r.cmd = \h4019
      BY <1>7 DEF Codigo
    <2>3. Entende(r) = [comando |-> "desligarsirene", alvo |-> alvo]
      BY <2>1, <2>2 DEF Entende
    <2>4. Entende(r) = pedido
      BY <1>1, <1>4, <1>7, <2>3
    <2> QED
      BY <1>3, <1>7, <2>1, <2>4, CargaCurta DEF Efetivo
  <1>8. CASE DeZona(pedido)
    <2> PICK n \in 1 .. 254 : pedido.alvo = <<n>> /\ pedido.alvo[1] = n
      BY <1>2, <1>8, Zenon
    <2>1. n - 1 \in Octeto /\ n - 1 + 1 = n
      BY DEF Octeto
    <2>2. Payload(pedido) = <<n - 1, IF pedido.comando = "cancelarzona" THEN 1 ELSE 0>>
      BY <1>8 DEF Payload, DeZona
    <2>3. r.cmd = \h401f
      BY <1>8 DEF Codigo, DeZona
    <2>4. Entende(r) = pedido
      BY <1>1, <1>8, <2>1, <2>2, <2>3 DEF Entende, DeZona
    <2>5. (IF pedido.comando = "cancelarzona" THEN 1 ELSE 0) \in Octeto
      BY <1>3
    <2>6. Payload(pedido) \in Carga
      BY <2>1, <2>2, <2>5, CargaCurta, Zenon
    <2> QED
      BY <1>8, <2>4, <2>6 DEF Efetivo, DeZona
  <1>9. CASE pedido.comando \in {"limpardisparo", "status"}
    <2>1. Payload(pedido) = <<>>
      BY <1>9 DEF Payload
    <2>2. r.cmd = IF pedido.comando = "status" THEN \h0b4a ELSE \h4013
      BY <1>9 DEF Codigo
    <2>3. Entende(r) = [comando |-> pedido.comando, alvo |-> <<>>]
      BY <1>9, <2>2 DEF Entende
    <2>4. Efetivo = [comando |-> pedido.comando, alvo |-> <<>>]
      BY <1>1, <1>9 DEF Efetivo
    <2> QED
      BY <2>1, <2>3, <2>4, CargaCurta
  <1> QED
    BY <1>1, <1>5, <1>6, <1>7, <1>8, <1>9 DEF Codigo, DeZona

-----------------------------------------------------------------------------
(***************************************************************************)
(* Answers, read in pieces.                                                *)
(***************************************************************************)
\* A packet with the length that it declares.
Inteiro(p) == p \in Seq(Octeto) /\ Len(p) >= 9 /\ Len(p) = compr_liquido(p) + 7

\* pacote_isecnet2 builds such packets.
LEMMA PacoteInteiro ==
  ASSUME NEW cmd \in Comando, NEW payload \in Carga
  PROVE  Inteiro(pacote_isecnet2(cmd, payload))
  <1> DEFINE p == pacote_isecnet2(cmd, payload)
  <1>1. p \in Seq(Octeto) /\ Len(p) = Len(payload) + 9 /\ Len(payload) \in Nat
    BY PacoteCampos
  <1>2. Len(p) = compr_liquido(p) + 7
    BY PacoteCompr
  <1> HIDE DEF p
  <1>3. Inteiro(p)
    BY <1>1, <1>2 DEF Inteiro
  <1> QED
    BY <1>3 DEF p

\* When recv_callback finds a packet in what has arrived of such an answer, it
\* finds the whole answer, and nothing stays behind.
LEMMA LeituraInteira ==
  ASSUME NEW p, Inteiro(p), NEW b \in Seq(Octeto), NEW r \in Seq(Octeto), p = b \o r,
         pacote_isecnet2_completo(b) # 0
  PROVE  /\ r = <<>>
         /\ SubSeq(b, 1, pacote_isecnet2_completo(b)) = p
         /\ Resto(b, pacote_isecnet2_completo(b)) = <<>>
  <1>1. b = p /\ r = <<>> /\ pacote_isecnet2_completo(b) = Len(b)
    BY PrefixoNaoBasta DEF Inteiro
  <1>2. SubSeq(b, 1, Len(b)) = b
    BY SubSeqFull
  <1>3. Len(b) \in Int /\ Len(b) + 1 \in Int /\ Len(b) < Len(b) + 1
    BY LenProperties
  <1>4. SubSeq(b, Len(b) + 1, Len(b)) = <<>>
    BY <1>3, SubSeqEmpty
  <1> QED
    BY <1>1, <1>2, <1>4 DEF Resto

\* The octets of a plain ACK.
LEMMA Ack ==
  LET s == SemChecksum(\hf0fe, <<>>)
  IN  /\ s \in Seq(Octeto) /\ Len(s) = 8
      /\ s[1] = 0 /\ s[2] = 0 /\ s[3] = 143 /\ s[4] = 255
      /\ s[5] = 0 /\ s[6] = 2 /\ s[7] = 240 /\ s[8] = 254
      /\ pacote_isecnet2(\hf0fe, <<>>) = Append(s, checksum(s))
      /\ checksum(s) \in Octeto \ {0}
  <1> DEFINE s == SemChecksum(\hf0fe, <<>>)
  <1>1. \hf0fe \in Comando /\ <<>> \in Carga /\ Len(<<>>) = 0
    BY CargaCurta DEF Comando
  <1>2. /\ s \in Seq(Octeto) /\ Len(s) = 0 + 8
        /\ s[1] * 256 + s[2] = 0 /\ s[3] * 256 + s[4] = \h8fff
        /\ s[5] * 256 + s[6] = 0 + 2 /\ s[7] * 256 + s[8] = \hf0fe
    <2> DEFINE vazia == <<>>
               ack == \hf0fe
    <2>1. vazia \in Carga /\ ack \in Comando
      BY <1>1
    <2>2. Len(vazia) = 0
      BY <1>1
    <2> HIDE DEF vazia, ack
    <2> DEFINE t == SemChecksum(ack, vazia)
    <2>3. t \in Seq(Octeto)
      BY <2>1, Campos
    <2>4. Len(t) = Len(vazia) + 8
      BY <2>1, Campos
    <2>5. t[1] * 256 + t[2] = 0 /\ t[5] * 256 + t[6] = Len(vazia) + 2 /\ t[7] * 256 + t[8] = ack
      BY <2>1, Campos
    <2>6. t[3] * 256 + t[4] = \h8fff
      BY <2>1, Campos
    <2>7. s = t
      BY DEF vazia, ack
    <2> HIDE DEF s, t
    <2> QED
      BY <2>1, <2>3, <2>5, <2>6, <2>7, <2>4, <2>2 DEF ack
  <1>3. pacote_isecnet2(\hf0fe, <<>>) = Append(s, checksum(s))
    BY <1>1, PacoteCampos
  <1> HIDE DEF s
  <1>4. Len(s) = 8
    BY <1>2
  <1>5. \A i \in 1 .. 8 : s[i] \in Octeto
    <2>1. s \in Seq(Octeto)
      BY <1>2
    <2>2. \A i \in 1 .. Len(s) : s[i] \in Octeto
      BY <2>1, ElementOfSeq
    <2> QED
      BY <1>4, <2>2
  <1>6. /\ s[1] = 0 /\ s[2] = 0 /\ s[3] = 143 /\ s[4] = 255
        /\ s[5] = 0 /\ s[6] = 2 /\ s[7] = 240 /\ s[8] = 254
    <2>1. ASSUME NEW x \in Octeto, NEW y \in Octeto, NEW n \in Comando, x * 256 + y = n
          PROVE  x = n \div 256 /\ y = n % 256
      BY <2>1 DEF Octeto, Comando
    <2>2. 0 \in Comando /\ \h8fff \in Comando /\ 2 \in Comando /\ \hf0fe \in Comando
      BY DEF Comando
    <2>3. s[1] = 0 \div 256 /\ s[2] = 0 % 256
      BY <1>2, <1>5, <2>1, <2>2
    <2>4. s[3] = \h8fff \div 256 /\ s[4] = \h8fff % 256
      BY <1>2, <1>5, <2>1, <2>2
    <2>5. s[5] = 2 \div 256 /\ s[6] = 2 % 256
      BY <1>2, <1>5, <2>1, <2>2
    <2>6. s[7] = \hf0fe \div 256 /\ s[8] = \hf0fe % 256
      BY <1>2, <1>5, <2>1, <2>2
    <2> QED
      BY <2>3, <2>4, <2>5, <2>6
  <1>7. checksum(s) # 0
    <2>1. DOMAIN s = 1 .. 8
      BY <1>2, <1>4, LenProperties
    <2>2. ComBit(s, 1) = {3, 4}
      BY <1>6, <2>1 DEF ComBit
    <2>3. IsFiniteSet({3}) /\ Cardinality({3}) = 1
      BY FS_Singleton
    <2>4. Cardinality({3} \cup {4}) = Cardinality({3}) + 1
      BY <2>3, FS_AddElement
    <2>5. {3} \cup {4} = {3, 4}
      OBVIOUS
    <2>6. Cardinality(ComBit(s, 1)) = 2
      BY <2>2, <2>3, <2>4, <2>5
    <2>7. BitPar(s, 1) = 1
      BY <2>6 DEF BitPar
    <2> QED
      BY <2>7, ChecksumZero DEF Pesos
  <1> QED
    BY <1>2, <1>3, <1>4, <1>6, <1>7, ChecksumOcteto DEF s

\* A packet is read as it was built, however it was cut.
LEMMA LeituraPacote ==
  ASSUME NEW cmd \in Comando, NEW payload \in Carga,
         NEW b \in Seq(Octeto), NEW r \in Seq(Octeto),
         pacote_isecnet2(cmd, payload) = b \o r, pacote_isecnet2_completo(b) # 0
  PROVE  LET pct == SubSeq(b, 1, pacote_isecnet2_completo(b))
         IN  /\ pacote_isecnet2_parse(pct) = [cmd |-> cmd, payload |-> payload]
             /\ r = <<>>
             /\ Resto(b, pacote_isecnet2_completo(b)) = <<>>
  <1> DEFINE p == pacote_isecnet2(cmd, payload)
  <1>1. Inteiro(p)
    BY PacoteInteiro
  <1>2. pacote_isecnet2_parse(p) = [cmd |-> cmd, payload |-> payload]
    BY PacoteIdaEVolta
  <1>3. p = b \o r
    OBVIOUS
  <1> HIDE DEF p
  <1> QED
    BY <1>1, <1>2, <1>3, LeituraInteira

\* One more octet.
LEMMA MaisUm ==
  ASSUME NEW s \in Seq(Octeto), NEW x \in Octeto
  PROVE  /\ Append(s, x) \in Seq(Octeto) /\ Len(Append(s, x)) = Len(s) + 1
         /\ \A i \in 1 .. Len(s) : Append(s, x)[i] = s[i]
         /\ Append(s, x)[Len(s) + 1] = x
  OBVIOUS

\* One octet changed.
LEMMA Trocado ==
  ASSUME NEW s \in Seq(Octeto), NEW k \in 1 .. Len(s), NEW x \in Octeto
  PROVE  /\ [s EXCEPT ![k] = x] \in Seq(Octeto) /\ Len([s EXCEPT ![k] = x]) = Len(s)
         /\ \A j \in 1 .. Len(s) : [s EXCEPT ![k] = x][j] = IF j = k THEN x ELSE s[j]
  BY ExceptSeq

\* A packet without payload, before its checksum.
Oito(s) == s \in Seq(Octeto) /\ Len(s) = 8

\* Changes to a packet of nine octets: the last one, and the one that says how
\* long it is.
LEMMA Alterado ==
  ASSUME NEW s, Oito(s), NEW x \in Octeto, NEW n \in Octeto
  PROVE  /\ [Append(s, x) EXCEPT ![9] = n] = Append(s, n)
         /\ [Append(s, x) EXCEPT ![6] = n] \in Seq(Octeto)
         /\ Len([Append(s, x) EXCEPT ![6] = n]) = 9
         /\ [Append(s, x) EXCEPT ![6] = n][5] = s[5]
         /\ [Append(s, x) EXCEPT ![6] = n][6] = n
  <1> DEFINE a == Append(s, x)
             b == Append(s, n)
             p9 == [a EXCEPT ![9] = n]
             p6 == [a EXCEPT ![6] = n]
  <1>1. a \in Seq(Octeto) /\ Len(a) = Len(s) + 1
        /\ \A i \in 1 .. Len(s) : a[i] = s[i]
    BY MaisUm DEF Oito
  <1>2. b \in Seq(Octeto) /\ Len(b) = Len(s) + 1
        /\ (\A i \in 1 .. Len(s) : b[i] = s[i]) /\ b[Len(s) + 1] = n
    BY MaisUm, Zenon DEF Oito
  <1> HIDE DEF a, b
  <1>3. Len(a) = 9 /\ Len(b) = 9 /\ b[9] = n /\ a[5] = s[5]
    BY <1>1, <1>2 DEF Oito
  <1>4. \A i \in 1 .. 8 : a[i] = b[i]
    BY <1>1, <1>2 DEF Oito
  <1>5. /\ p9 \in Seq(Octeto) /\ Len(p9) = Len(a)
        /\ \A j \in 1 .. Len(a) : p9[j] = IF j = 9 THEN n ELSE a[j]
    <2>1. 9 \in 1 .. Len(a)
      BY <1>3
    <2> QED
      BY <1>1, <2>1, Trocado
  <1>6. /\ p6 \in Seq(Octeto) /\ Len(p6) = Len(a)
        /\ \A j \in 1 .. Len(a) : p6[j] = IF j = 6 THEN n ELSE a[j]
    <2>1. 6 \in 1 .. Len(a)
      BY <1>3
    <2> QED
      BY <1>1, <2>1, Trocado
  <1> HIDE DEF p9, p6
  <1>7. ASSUME NEW i \in 1 .. Len(p9) PROVE p9[i] = b[i]
    BY <1>3, <1>4, <1>5
  <1>8. p9 = b
    <2>1. Len(p9) = Len(b)
      BY <1>3, <1>5
    <2> QED
      BY <1>2, <1>5, <1>7, <2>1, SeqEqual, Zenon
  <1>9. p6[5] = s[5] /\ p6[6] = n /\ Len(p6) = 9
    BY <1>3, <1>6
  <1> QED
    BY <1>6, <1>8, <1>9 DEF a, b, p9, p6

\* A wrong checksum is noticed.
LEMMA ChecksumErrado ==
  ASSUME NEW s, Oito(s), s[5] = 0, s[6] = 2, checksum(s) # 0,
         NEW b \in Seq(Octeto), NEW r \in Seq(Octeto), Append(s, 0) = b \o r,
         pacote_isecnet2_completo(b) # 0
  PROVE  ~pacote_isecnet2_correto(SubSeq(b, 1, pacote_isecnet2_completo(b)))
  <1> DEFINE p == Append(s, 0)
  <1>1. 0 \in Octeto
    BY DEF Octeto
  <1>2. p \in Seq(Octeto) /\ Len(p) = Len(s) + 1
        /\ \A i \in 1 .. Len(s) : p[i] = s[i]
    BY <1>1, MaisUm DEF Oito
  <1>3. checksum(p) # 0
    BY <1>1, ChecksumDoSufixo DEF Oito
  <1>4. p = b \o r
    OBVIOUS
  <1> HIDE DEF p
  <1>5. Len(p) = 9 /\ p[5] = 0 /\ p[6] = 2
    BY <1>2 DEF Oito
  <1>6. compr_liquido(p) = p[5] * 256 + p[6]
    <2>1. Len(p) >= 6
      BY <1>5
    <2> QED
      BY <1>2, <2>1, ComprLiquido
  <1>7. Inteiro(p)
    <2> DEFINE m == Len(p)
               k == compr_liquido(p)
    <2>1. m = 9 /\ k = 0 * 256 + 2
      BY <1>5, <1>6
    <2> HIDE DEF m, k
    <2>2. m >= 9 /\ m = k + 7
      BY <2>1
    <2> QED
      BY <1>2, <2>2 DEF m, k, Inteiro
  <1>8. SubSeq(b, 1, pacote_isecnet2_completo(b)) = p
    BY <1>4, <1>7, LeituraInteira
  <1> QED
    BY <1>3, <1>8 DEF pacote_isecnet2_correto

\* A packet without payload that declares a wrong length.
Nove(p) == p \in Seq(Octeto) /\ Len(p) = 9 /\ p[5] = 0 /\ p[6] \in {0, 3}

\* So is a length that leaves no command; one that is too long is waited for.
LEMMA ComprErrado ==
  ASSUME NEW p, Nove(p),
         NEW b \in Seq(Octeto), NEW r \in Seq(Octeto), p = b \o r,
         pacote_isecnet2_completo(b) # 0
  PROVE  ~pacote_isecnet2_correto(SubSeq(b, 1, pacote_isecnet2_completo(b)))
  <1>1. /\ Len(p) = Len(b) + Len(r)
        /\ \A i \in 1 .. Len(b) + Len(r) : p[i] = IF i <= Len(b) THEN b[i] ELSE r[i - Len(b)]
    BY ConcatProperties
  <1>2. Len(b) \in Nat /\ Len(r) \in Nat
    BY LenProperties
  <1>3. Len(b) >= 9 /\ Len(b) >= compr_liquido(b) + 7
        /\ pacote_isecnet2_completo(b) = compr_liquido(b) + 7
        /\ compr_liquido(b) \in Nat
    <2>1. ~(Len(b) < 9 \/ Len(b) < compr_liquido(b) + 7)
      BY DEF pacote_isecnet2_completo
    <2>2. compr_liquido(b) \in Nat
      BY <1>2, <2>1, ComprLiquido
    <2> QED
      BY <1>2, <2>1, <2>2 DEF pacote_isecnet2_completo
  <1>4. Len(b) = 9
    <2> DEFINE m == Len(b)
               k == Len(r)
    <2>1. m + k = 9 /\ m >= 9 /\ m \in Nat /\ k \in Nat
      BY <1>1, <1>2, <1>3 DEF Nove
    <2> HIDE DEF m, k
    <2>2. m = 9
      BY <2>1
    <2> QED
      BY <2>2 DEF m
  <1>5. b[5] = p[5] /\ b[6] = p[6]
    BY <1>1, <1>2, <1>4
  <1>6. compr_liquido(b) = b[5] * 256 + b[6]
    <2>1. Len(b) >= 6
      BY <1>4
    <2> QED
      BY <2>1, ComprLiquido, Zenon
  <1>7. b[5] = 0 /\ b[6] = 0 /\ compr_liquido(b) = 0
    BY <1>3, <1>4, <1>5, <1>6 DEF Nove
  <1> DEFINE q == SubSeq(b, 1, 7)
  <1>8. ASSUME NEW i \in 1 .. 7 PROVE b[i] \in Octeto
    <2>1. i \in 1 .. Len(b)
      BY <1>4
    <2> QED
      BY <2>1, ElementOfSeq, Zenon
  <1>9. /\ q \in Seq(Octeto) /\ Len(q) = IF 1 <= 7 THEN 7 - 1 + 1 ELSE 0
        /\ \A i \in 1 .. 7 - 1 + 1 : q[i] = b[1 + i - 1]
    BY <1>8, 1 \in Int, 7 \in Int, SubSeqProperties
  <1>10. pacote_isecnet2_completo(b) = 7
    BY <1>3, <1>7
  <1> HIDE DEF q
  <1>11. Len(q) >= 6 /\ q[5] = 0 /\ q[6] = 0
    BY <1>7, <1>9
  <1>12. compr_liquido(q) = q[5] * 256 + q[6]
    BY <1>9, <1>11, ComprLiquido
  <1>13. ~pacote_isecnet2_correto(q)
    BY <1>11, <1>12 DEF pacote_isecnet2_correto
  <1> QED
    BY <1>10, <1>13 DEF q

\* The codes of the refusals that are well formed.
CodigosNega == {\hf0fd, \hf0f7, \h0bb0, \hf0f0}

Nega(cmd, payload) == cmd \in CodigosNega /\ (cmd = \hf0f0 => payload = <<>>)

PacoteNega(p) ==
  \E cmd \in Comando, payload \in Carga :
    Nega(cmd, payload) /\ p = pacote_isecnet2(cmd, payload)

AckErrado == Append(SemChecksum(\hf0fe, <<>>), 0)

\* The refusals of the panel: packets, and three malformed ones.
LEMMA NegativasCasos ==
  ASSUME NEW p \in Negativas
  PROVE  PacoteNega(p) \/ p = AckErrado \/ Nove(p) \/ p = <<>>
  <1> DEFINE s == SemChecksum(\hf0fe, <<>>)
             x == checksum(s)
             ack == pacote_isecnet2(\hf0fe, <<>>)
             Formadas == {pacote_isecnet2(\hf0fd, <<40>>), pacote_isecnet2(\hf0fd, <<>>),
                          pacote_isecnet2(\hf0f7, <<>>), pacote_isecnet2(\h0bb0, <<0>>),
                          pacote_isecnet2(\hf0f0, <<>>)}
  <1>1. /\ s \in Seq(Octeto) /\ Len(s) = 8 /\ s[5] = 0 /\ s[6] = 2
        /\ ack = Append(s, x) /\ x \in Octeto
    BY Ack
  <1>2. ASSUME p \in Formadas PROVE PacoteNega(p)
    <2>1. 0 \in Octeto /\ 40 \in Octeto
      BY DEF Octeto
    <2>2. <<40>> \in Carga /\ <<>> \in Carga /\ <<0>> \in Carga
      BY <2>1, CargaCurta
    <2>3. /\ \hf0fd \in Comando /\ \hf0f7 \in Comando /\ \h0bb0 \in Comando
          /\ \hf0f0 \in Comando
      BY DEF Comando
    <2>4. /\ Nega(\hf0fd, <<40>>) /\ Nega(\hf0fd, <<>>) /\ Nega(\hf0f7, <<>>)
          /\ Nega(\h0bb0, <<0>>) /\ Nega(\hf0f0, <<>>)
      BY DEF Nega, CodigosNega
    <2> QED
      BY <1>2, <2>2, <2>3, <2>4 DEF PacoteNega
  <1>3. \/ p \in Formadas
        \/ p = [ack EXCEPT ![9] = 0]
        \/ p = [ack EXCEPT ![6] = 0] \/ p = [ack EXCEPT ![6] = 3]
        \/ p = <<>>
    BY DEF Negativas, Recusas
  <1>4. Oito(s) /\ 0 \in Octeto /\ 3 \in Octeto
    BY <1>1 DEF Oito, Octeto
  <1> HIDE DEF s, x, ack, Formadas
  <1>5. [ack EXCEPT ![9] = 0] = AckErrado
    <2>1. [ack EXCEPT ![9] = 0] = Append(s, 0)
      BY <1>1, <1>4, Alterado
    <2> QED
      BY <2>1 DEF s, AckErrado
  <1>6. ASSUME NEW n \in {0, 3} PROVE Nove([ack EXCEPT ![6] = n])
    <2>1. n \in Octeto
      BY <1>4
    <2> DEFINE p6 == [ack EXCEPT ![6] = n]
    <2>2. p6 \in Seq(Octeto) /\ Len(p6) = 9 /\ p6[5] = s[5] /\ p6[6] = n
      BY <1>1, <1>4, <2>1, Alterado
    <2> HIDE DEF p6
    <2>3. Nove(p6)
      BY <1>1, <2>2 DEF Nove
    <2> QED
      BY <2>3 DEF p6
  <1>7. CASE p = [ack EXCEPT ![6] = 0] \/ p = [ack EXCEPT ![6] = 3]
    BY <1>6, <1>7
  <1>8. CASE p = [ack EXCEPT ![9] = 0]
    BY <1>5, <1>8, Zenon
  <1> QED
    BY <1>2, <1>3, <1>7, <1>8

\* Neither resposta_autenticacao nor resposta_comando goes on with a refusal.
LEMMA RecusaNaoServe ==
  ASSUME NEW p \in Negativas, NEW b \in Seq(Octeto), NEW r \in Seq(Octeto), p = b \o r,
         pacote_isecnet2_completo(b) # 0,
         pacote_isecnet2_correto(SubSeq(b, 1, pacote_isecnet2_completo(b)))
  PROVE  LET resp == pacote_isecnet2_parse(SubSeq(b, 1, pacote_isecnet2_completo(b)))
         IN  ~Aceita(resp) /\ resp.cmd \in CodigosNega
  <1> DEFINE pct == SubSeq(b, 1, pacote_isecnet2_completo(b))
             resp == pacote_isecnet2_parse(pct)
  <1>1. ASSUME NEW cmd \in Comando, NEW payload \in Carga, Nega(cmd, payload),
               p = pacote_isecnet2(cmd, payload)
        PROVE  ~Aceita(resp) /\ resp.cmd \in CodigosNega
    <2>1. resp = [cmd |-> cmd, payload |-> payload]
      BY <1>1, LeituraPacote
    <2> HIDE DEF resp
    <2>2. resp.cmd = cmd /\ resp.payload = payload
      BY <2>1
    <2>3. <<>> # <<0>>
      OBVIOUS
    <2>4. ~Aceita(resp)
      <3>1. ASSUME Aceita(resp) PROVE FALSE
        <4>1. payload = <<0>> /\ cmd = \hf0f0
          BY <2>2, <3>1 DEF Aceita
        <4>2. payload = <<>>
          BY <1>1, <4>1 DEF Nega
        <4> QED
          BY <2>3, <4>1, <4>2
      <3> QED
        BY <3>1
    <2> QED
      BY <1>1, <2>2, <2>4 DEF Nega
  <1>2. p # AckErrado
    <2> DEFINE s == SemChecksum(\hf0fe, <<>>)
    <2>1. Oito(s) /\ s[5] = 0 /\ s[6] = 2 /\ checksum(s) # 0
      BY Ack DEF Oito
    <2> HIDE DEF s
    <2>2. p # Append(s, 0)
      BY <2>1, ChecksumErrado
    <2> QED
      BY <2>2 DEF s, AckErrado
  <1>3. ~Nove(p)
    BY ComprErrado
  <1>4. p # <<>>
    <2>1. ASSUME p = <<>> PROVE FALSE
      <3>1. Len(p) = Len(b) + Len(r)
        BY ConcatProperties, Zenon
      <3>2. Len(b) = 0
        BY <2>1, <3>1, LenProperties
      <3>3. Len(b) < 9
        BY <3>2
      <3> QED
        BY <3>3 DEF pacote_isecnet2_completo
    <2> QED
      BY <2>1
  <1>5. ~Aceita(resp) /\ resp.cmd \in CodigosNega
    <2> HIDE DEF resp
    <2>1. PacoteNega(p)
      BY <1>2, <1>3, <1>4, NegativasCasos, Zenon
    <2> QED
      BY <1>1, <2>1 DEF PacoteNega
  <1> QED
    BY <1>5

\* Something that pacote_isecnet2 builds.
EhPacote(p) == \E cmd \in Comando, payload \in Carga : p = pacote_isecnet2(cmd, payload)

\* The other answers are packets.
LEMMA RespostasPacotes ==
  /\ \A p \in RespostasAuth : EhPacote(p)
  /\ pedido \in Pedidos => \A p \in Confirmacoes : EhPacote(p)
  <1>1. ASSUME NEW cmd \in Comando, NEW payload \in Carga
        PROVE  EhPacote(pacote_isecnet2(cmd, payload))
    BY DEF EhPacote
  <1>2. \A p \in RespostasAuth : EhPacote(p)
    <2>1. \hf0f0 \in Comando /\ 0 \in Octeto /\ 1 \in Octeto
      BY DEF Comando, Octeto
    <2> QED
      BY <1>1, <2>1, CargaCurta DEF RespostasAuth
  <1>3. ASSUME pedido \in Pedidos PROVE \A p \in Confirmacoes : EhPacote(p)
    <2>1. \hf0fe \in Comando /\ Codigo[pedido.comando] \in Comando
      BY <1>3, Codigos DEF Comando
    <2>2. <<>> \in Carga /\ Relatorio(1) \in Carga /\ Relatorio(2) \in Carga
      BY CargaCurta, RelatorioCarga
    <2> QED
      BY <1>1, <2>1, <2>2 DEF Confirmacoes
  <1> QED
    BY <1>2, <1>3

\* Whatever the panel answers is octets.
LEMMA RespostasOctetos ==
  /\ Negativas \subseteq Seq(Octeto)
  /\ RespostasAuth \subseteq Seq(Octeto)
  /\ pedido \in Pedidos => Confirmacoes \subseteq Seq(Octeto)
  <1>1. ASSUME NEW cmd \in Comando, NEW payload \in Carga
        PROVE  pacote_isecnet2(cmd, payload) \in Seq(Octeto)
    BY PacoteCampos
  <1>2. 0 \in Octeto /\ 1 \in Octeto /\ 40 \in Octeto
    BY DEF Octeto
  <1>3. ASSUME NEW p \in Negativas PROVE p \in Seq(Octeto)
    <2>1. AckErrado \in Seq(Octeto)
      BY <1>2, Ack, MaisUm DEF AckErrado
    <2>2. PacoteNega(p) => p \in Seq(Octeto)
      BY <1>1 DEF PacoteNega
    <2>3. Nove(p) => p \in Seq(Octeto)
      BY DEF Nove
    <2>4. <<>> \in Seq(Octeto)
      BY EmptySeq
    <2> QED
      BY <2>1, <2>2, <2>3, <2>4, NegativasCasos, Zenon
  <1>4. ASSUME NEW p, EhPacote(p) PROVE p \in Seq(Octeto)
    BY <1>1, <1>4 DEF EhPacote
  <1> QED
    BY <1>3, <1>4, RespostasPacotes

-----------------------------------------------------------------------------
(***************************************************************************)
(* The dialogue advances question by question.                             *)
(***************************************************************************)
\* What depends only on the command line.
LEMMA Fixos ==
  ASSUME UNCHANGED entrada
  PROVE  /\ Auth' = Auth /\ Cmd' = Cmd /\ Bye' = Bye
         /\ Efetivo' = Efetivo /\ Confirmacoes' = Confirmacoes
         /\ Negativas' = Negativas /\ RespostasAuth' = RespostasAuth
         /\ (DeZona(pedido) /\ pedido.alvo = <<>>)' <=> (DeZona(pedido) /\ pedido.alvo = <<>>)
  <1>1. pedido' = pedido /\ acesso' = acesso
    BY DEF entrada
  <1>2. Auth' = Auth /\ Cmd' = Cmd /\ Bye' = Bye
    BY <1>1 DEF Auth, Cmd, Bye
  <1>3. Efetivo' = Efetivo /\ Confirmacoes' = Confirmacoes
    BY <1>1 DEF Efetivo, Confirmacoes
  <1>4. Negativas' = Negativas /\ RespostasAuth' = RespostasAuth
    BY DEF Negativas, RespostasAuth
  <1>5. (DeZona(pedido) /\ pedido.alvo = <<>>)' <=> (DeZona(pedido) /\ pedido.alvo = <<>>)
    BY <1>1 DEF DeZona
  <1> QED
    BY <1>2, <1>3, <1>4, <1>5

\* Steps that touch no packet, and at most close the connection.
LEMMA Parado ==
  ASSUME InvDialogo, UNCHANGED entrada,
         UNCHANGED <<tratador, status, recv_buf, send_buf, chegada, rede, executados>>,
         conexao' = "aberta" => conexao = "aberta"
  PROVE  InvDialogo'
  <1>1. Antes => Antes'
    BY DEF Antes
  <1>2. Identifica => Identifica'
    BY Fixos DEF Identifica, EmTransito, Lida
  <1>3. Comanda => Comanda'
    BY Fixos DEF Comanda, EmTransito, Lida
  <1>4. Despede => Despede'
    BY Fixos DEF Despede, EmTransito, Lida
  <1> QED
    BY <1>1, <1>2, <1>3, <1>4 DEF InvDialogo

\* The panel has read a question.
EmLeitura ==
  \/ Identifica /\ Lida(RespostasAuth \cup Negativas)
  \/ Comanda /\ executados = <<>> /\ Lida(Negativas)
  \/ Comanda /\ executados = <<Efetivo>> /\ Lida(Confirmacoes)
  \/ Despede /\ Lida(Negativas)

\* Octets arrive only for a question that the panel has read.
LEMMA QuemRecebe ==
  ASSUME InvDialogo, NEW k \in 1 .. Len(rede)
  PROVE  /\ EmLeitura
         /\ recv_buf \in Seq(Octeto) /\ rede \in Seq(Octeto)
         /\ send_buf = <<>> /\ chegada = <<>>
  <1>1. rede # <<>>
    <2>1. ASSUME rede = <<>> PROVE FALSE
      <3>1. Len(rede) = 0
        BY <2>1
      <3> QED
        BY <3>1
    <2> QED
      BY <2>1
  <1>2. ~Antes /\ \A p : ~EmTransito(p)
    BY <1>1 DEF Antes, EmTransito
  <1>3. EmLeitura
    BY <1>2 DEF InvDialogo, EmLeitura, Identifica, Comanda, Despede
  <1> QED
    BY <1>3 DEF EmLeitura, Lida

\* What recv() takes is what was coming.
LEMMA Cortado ==
  ASSUME recv_buf \in Seq(Octeto), rede \in Seq(Octeto), NEW k \in 1 .. Len(rede)
  PROVE  /\ Buffer(k) \in Seq(Octeto)
         /\ SubSeq(rede, k + 1, Len(rede)) \in Seq(Octeto)
         /\ Buffer(k) \o SubSeq(rede, k + 1, Len(rede)) = recv_buf \o rede
  BY CorteJunta DEF Buffer

\* Part of an answer arrives, or the program ends while it does.
LEMMA RecebeSegue ==
  ASSUME InvDialogo, NEW k \in 1 .. Len(rede), Recebe(k),
         UNCHANGED <<tratador, status, send_buf>>,
         \/ conexao' # "aberta" /\ recv_buf' = recv_buf
         \/ conexao' = conexao /\ recv_buf' = Buffer(k)
  PROVE  InvDialogo'
  <1>1. /\ EmLeitura
        /\ recv_buf \in Seq(Octeto) /\ rede \in Seq(Octeto)
        /\ send_buf = <<>> /\ chegada = <<>>
    BY QuemRecebe
  <1>2. /\ UNCHANGED entrada /\ executados' = executados /\ chegada' = chegada
        /\ conexao = "aberta" /\ rede' = SubSeq(rede, k + 1, Len(rede))
    BY DEF Recebe
  <1>3. /\ recv_buf' \in Seq(Octeto) /\ rede' \in Seq(Octeto)
        /\ conexao' = "aberta" => recv_buf' \o rede' = recv_buf \o rede
    BY <1>1, <1>2, Cortado
  <1>4. /\ Lida(RespostasAuth \cup Negativas) => Lida(RespostasAuth \cup Negativas)'
        /\ Lida(Negativas) => Lida(Negativas)'
        /\ Lida(Confirmacoes) => Lida(Confirmacoes)'
    BY <1>1, <1>2, <1>3, Fixos DEF Lida
  <1> QED
    BY <1>1, <1>2, <1>4, Fixos DEF EmLeitura, InvDialogo, Identifica, Comanda, Despede

\* Accepted: the command follows, and nothing of the answer is left.
LEMMA RecebeAceite ==
  ASSUME InvDialogo, Controle, NEW k \in 1 .. Len(rede), resposta_autenticacao(k),
         ~(DeZona(pedido) /\ pedido.alvo = <<>>)
  PROVE  InvDialogo'
  <1> DEFINE resto == SubSeq(rede, k + 1, Len(rede))
             compr == pacote_isecnet2_completo(Buffer(k))
             resp == pacote_isecnet2_parse(SubSeq(Buffer(k), 1, compr))
  <1>1. /\ UNCHANGED entrada /\ executados' = executados /\ chegada' = chegada
        /\ conexao = "aberta" /\ rede' = resto
        /\ tratador = "autenticacao" /\ status' = status /\ tratador' = "comando"
        /\ recv_buf' = Resto(Buffer(k), compr) /\ send_buf' = Append(send_buf, Cmd)
    BY DEF resposta_autenticacao, Recebe, Compr, Envia, Cmd
  <1>2. compr # 0 /\ pacote_isecnet2_correto(SubSeq(Buffer(k), 1, compr)) /\ Aceita(resp)
    BY <1>1 DEF resposta_autenticacao, Serve, Compr, Pacote, Resposta
  <1>3. /\ EmLeitura
        /\ recv_buf \in Seq(Octeto) /\ rede \in Seq(Octeto)
        /\ send_buf = <<>> /\ chegada = <<>>
    BY QuemRecebe
  <1>4. /\ status = 1 /\ executados = <<>>
        /\ recv_buf \o rede \in RespostasAuth \cup Negativas
    BY <1>1, <1>3 DEF EmLeitura, Identifica, Comanda, Despede, Lida
  <1>5. /\ Buffer(k) \in Seq(Octeto) /\ resto \in Seq(Octeto)
        /\ Buffer(k) \o resto = recv_buf \o rede
    BY <1>3, Cortado
  <1> HIDE DEF resto
  <1>6. recv_buf \o rede \in RespostasAuth
    BY <1>2, <1>4, <1>5, RecusaNaoServe
  <1>7. resto = <<>> /\ Resto(Buffer(k), compr) = <<>>
    <2>1. PICK cmd \in Comando, payload \in Carga :
             recv_buf \o rede = pacote_isecnet2(cmd, payload)
      BY <1>6, RespostasPacotes DEF EhPacote
    <2> QED
      BY <1>2, <1>5, <2>1, LeituraPacote
  <1>8. send_buf' = <<Cmd>>
    BY <1>1, <1>3
  <1>9. Comanda'
    BY <1>1, <1>3, <1>4, <1>7, <1>8, Fixos DEF Comanda, EmTransito
  <1> QED
    BY <1>9 DEF InvDialogo

\* Confirmed: the command was carried out, and the goodbye follows.
LEMMA RecebeConfirmacao ==
  ASSUME InvDialogo, Controle, NEW k \in 1 .. Len(rede), resposta_comando(k),
         ~(pedido.comando = "status" /\ ~StatusLegivel(Resposta(k).payload))
  PROVE  InvDialogo'
  <1> DEFINE resto == SubSeq(rede, k + 1, Len(rede))
             compr == pacote_isecnet2_completo(Buffer(k))
             resp == pacote_isecnet2_parse(SubSeq(Buffer(k), 1, compr))
  <1>1. /\ UNCHANGED entrada /\ executados' = executados /\ chegada' = chegada
        /\ conexao = "aberta" /\ rede' = resto
        /\ tratador = "comando" /\ status' = 0 /\ tratador' = "nenhum"
        /\ recv_buf' = Resto(Buffer(k), compr) /\ send_buf' = Append(send_buf, Bye)
    BY DEF resposta_comando, Recebe, Compr, Envia, Bye
  <1>2. compr # 0 /\ pacote_isecnet2_correto(SubSeq(Buffer(k), 1, compr)) /\ Confirma(resp)
    BY <1>1 DEF resposta_comando, Serve, Compr, Pacote, Resposta
  <1>3. /\ EmLeitura
        /\ recv_buf \in Seq(Octeto) /\ rede \in Seq(Octeto)
        /\ send_buf = <<>> /\ chegada = <<>>
    BY QuemRecebe
  <1>4. \/ recv_buf \o rede \in Negativas
        \/ executados = <<Efetivo>> /\ recv_buf \o rede \in Confirmacoes
    BY <1>1, <1>3 DEF EmLeitura, Identifica, Comanda, Despede, Lida
  <1>5. /\ Buffer(k) \in Seq(Octeto) /\ resto \in Seq(Octeto)
        /\ Buffer(k) \o resto = recv_buf \o rede
    BY <1>3, Cortado
  <1>6. pedido \in Pedidos
    BY DEF Controle
  <1> HIDE DEF resto
  <1>7. executados = <<Efetivo>> /\ recv_buf \o rede \in Confirmacoes
    <2>1. resp.cmd \notin CodigosNega
      BY <1>2, <1>6, Codigos DEF Confirma, CodigosNega
    <2> QED
      BY <1>2, <1>4, <1>5, <2>1, RecusaNaoServe
  <1>8. resto = <<>> /\ Resto(Buffer(k), compr) = <<>>
    <2>1. PICK cmd \in Comando, payload \in Carga :
             recv_buf \o rede = pacote_isecnet2(cmd, payload)
      BY <1>6, <1>7, RespostasPacotes DEF EhPacote
    <2> QED
      BY <1>2, <1>5, <2>1, LeituraPacote
  <1>9. send_buf' = <<Bye>>
    BY <1>1, <1>3
  <1>10. Despede'
    BY <1>1, <1>3, <1>7, <1>8, <1>9, Fixos DEF Despede, EmTransito
  <1> QED
    BY <1>10 DEF InvDialogo

\* The authentication is the first question.
LEMMA Conectado ==
  ASSUME InvDialogo, Controle, connection_callback(TRUE)
  PROVE  InvDialogo'
  <1>1. /\ UNCHANGED <<entrada, chegada, rede, executados, recv_buf, status>>
        /\ send_buf' = Append(send_buf, Auth) /\ tratador' = "autenticacao"
        /\ conexao = "conectando"
    BY DEF connection_callback, Envia, Auth, externo
  <1>2. Antes
    BY <1>1 DEF Controle, InvDialogo, Identifica, Comanda, Despede
  <1>3. send_buf' = <<Auth>>
    BY <1>1, <1>2 DEF Antes
  <1>4. Identifica'
    BY <1>1, <1>2, <1>3, Fixos DEF Antes, Identifica, EmTransito
  <1> QED
    BY <1>4 DEF InvDialogo

\* A question leaves.
LEMMA Enviado ==
  ASSUME InvDialogo, send_callback
  PROVE  InvDialogo'
  <1>1. /\ UNCHANGED <<entrada, conexao, tratador, status, recv_buf, rede, executados>>
        /\ send_buf # <<>> /\ send_buf' = Tail(send_buf)
        /\ chegada' = Append(chegada, Head(send_buf))
    BY DEF send_callback
  <1>2. ASSUME NEW p, EmTransito(p)
        PROVE  recv_buf' = <<>> /\ rede' = <<>> /\ send_buf' = <<>> /\ chegada' = <<p>>
    <2>1. send_buf = <<p>> /\ chegada = <<>> /\ recv_buf = <<>> /\ rede = <<>>
      BY <1>1, <1>2 DEF EmTransito
    <2>2. Tail(<<p>>) = <<>> /\ Append(<<>>, Head(<<p>>)) = <<p>>
      OBVIOUS
    <2> QED
      BY <1>1, <2>1, <2>2
  <1>3. ASSUME NEW R PROVE ~Lida(R)
    BY <1>1 DEF Lida
  <1>4. ~Antes
    BY <1>1 DEF Antes
  <1>5. Identifica => Identifica'
    <2>1. EmTransito(Auth) => EmTransito(Auth)'
      BY <1>1, <1>2, Fixos DEF EmTransito
    <2> QED
      BY <1>1, <1>3, <2>1 DEF Identifica
  <1>6. Comanda => Comanda'
    <2>1. EmTransito(Cmd) => EmTransito(Cmd)'
      BY <1>1, <1>2, Fixos DEF EmTransito
    <2> QED
      BY <1>1, <1>3, <2>1, Fixos DEF Comanda
  <1>7. Despede => Despede'
    <2>1. EmTransito(Bye) => EmTransito(Bye)'
      BY <1>1, <1>2, Fixos DEF EmTransito
    <2> QED
      BY <1>1, <1>3, <2>1, Fixos DEF Despede
  <1> QED
    BY <1>4, <1>5, <1>6, <1>7 DEF InvDialogo

\* The panel reads the question that is on its way.
LEMMA Chegada ==
  ASSUME InvDialogo, Controle, chegada # <<>>
  PROVE  /\ \/ Identifica /\ Chegou.cmd = \hf0f0 /\ Chegou.payload = CargaAuth
            \/ /\ Comanda /\ executados = <<>>
               /\ Chegou = [cmd |-> Codigo[pedido.comando], payload |-> Payload(pedido)]
            \/ Despede /\ Chegou.cmd = \hf0f1
         /\ \E p : EmTransito(p) /\ chegada = <<p>>
  <1>1. ASSUME NEW p, EmTransito(p)
        PROVE  chegada = <<p>> /\ Chegou = pacote_isecnet2_parse(p)
    <2>1. chegada = <<p>>
      BY <1>1 DEF EmTransito
    <2>2. Head(<<p>>) = p
      OBVIOUS
    <2> QED
      BY <2>1, <2>2 DEF Chegou
  <1>2. ASSUME NEW R PROVE ~Lida(R)
    BY DEF Lida
  <1>3. \/ Identifica /\ EmTransito(Auth)
        \/ Comanda /\ executados = <<>> /\ EmTransito(Cmd)
        \/ Despede /\ EmTransito(Bye)
    BY <1>2 DEF InvDialogo, Antes, Identifica, Comanda, Despede
  <1>4. \E p : EmTransito(p) /\ chegada = <<p>>
    BY <1>1, <1>3
  <1>5. CASE Identifica /\ EmTransito(Auth)
    <2>1. \hf0f0 \in Comando /\ CargaAuth \in Carga
      BY AuthCarga DEF Controle, Comando
    <2>2. Auth = pacote_isecnet2(\hf0f0, CargaAuth)
      BY DEF Auth, pacote_isecnet2_auth, CargaAuth
    <2>3. pacote_isecnet2_parse(Auth) = [cmd |-> \hf0f0, payload |-> CargaAuth]
      BY <2>1, <2>2, PacoteIdaEVolta
    <2>4. Chegou = [cmd |-> \hf0f0, payload |-> CargaAuth]
      BY <1>1, <1>5, <2>3
    <2>5. Chegou.cmd = \hf0f0 /\ Chegou.payload = CargaAuth
      BY <2>4
    <2> QED
      BY <1>4, <1>5, <2>5
  <1>6. CASE Comanda /\ executados = <<>> /\ EmTransito(Cmd)
    <2>1. pedido \in Pedidos /\ PedidoValido
      BY <1>6 DEF Controle, Comanda
    <2>2. Payload(pedido) \in Carga /\ Codigo[pedido.comando] \in Comando
      BY <1>6, <2>1, ComandoEntendido, Codigos DEF Comanda
    <2>3. pacote_isecnet2_parse(Cmd) =
            [cmd |-> Codigo[pedido.comando], payload |-> Payload(pedido)]
      BY <2>2, PacoteIdaEVolta DEF Cmd
    <2>4. Chegou = [cmd |-> Codigo[pedido.comando], payload |-> Payload(pedido)]
      BY <1>1, <1>6, <2>3
    <2> QED
      BY <1>4, <1>6, <2>4
  <1>7. CASE Despede /\ EmTransito(Bye)
    <2>1. \hf0f1 \in Comando /\ <<>> \in Carga
      BY CargaCurta DEF Comando
    <2>2. pacote_isecnet2_parse(Bye) = [cmd |-> \hf0f1, payload |-> <<>>]
      BY <2>1, PacoteIdaEVolta DEF Bye, pacote_isecnet2_bye
    <2>3. Chegou = [cmd |-> \hf0f1, payload |-> <<>>]
      BY <1>1, <1>7, <2>2
    <2>4. Chegou.cmd = \hf0f1
      BY <2>3
    <2> QED
      BY <1>4, <1>7, <2>4
  <1> QED
    BY <1>3, <1>5, <1>6, <1>7

\* It answers once, and the answer is all that is on its way back.
LEMMA Respondido ==
  ASSUME NEW pct \in Seq(Octeto), Responde(pct), \E p : EmTransito(p) /\ chegada = <<p>>
  PROVE  /\ UNCHANGED <<entrada, conexao, tratador, status>>
         /\ send_buf' = <<>> /\ chegada' = <<>>
         /\ recv_buf' \in Seq(Octeto) /\ rede' \in Seq(Octeto) /\ recv_buf' \o rede' = pct
  <1>1. PICK p : EmTransito(p) /\ chegada = <<p>>
    OBVIOUS
  <1>2. /\ UNCHANGED <<entrada, conexao, tratador, status, recv_buf, send_buf>>
        /\ chegada' = Tail(chegada) /\ rede' = rede \o pct
    BY DEF Responde, cliente
  <1>3. send_buf = <<>> /\ recv_buf = <<>> /\ rede = <<>>
    BY <1>1 DEF EmTransito
  <1>4. Tail(<<p>>) = <<>>
    OBVIOUS
  <1>5. <<>> \o pct = pct
    BY ConcatEmptySeq
  <1>6. send_buf' = <<>> /\ chegada' = <<>> /\ recv_buf' = <<>> /\ rede' = pct
    BY <1>1, <1>2, <1>3, <1>4, <1>5
  <1> QED
    BY <1>2, <1>5, <1>6, EmptySeq

\* A password is answered.
LEMMA Autenticado ==
  ASSUME InvDialogo, Controle, PainelAutentica
  PROVE  InvDialogo'
  <1>1. chegada # <<>> /\ Chegou.cmd = \hf0f0 /\ executados' = executados
    BY DEF PainelAutentica
  <1>2. PICK pct \in RespostasAuth : Responde(pct)
    BY DEF PainelAutentica, RespostasAuth
  <1>3. Identifica /\ \E p : EmTransito(p) /\ chegada = <<p>>
    <2>1. Codigo[pedido.comando] # \hf0f0
      BY Codigos DEF Controle
    <2> QED
      BY <1>1, <2>1, Chegada
  <1>4. pct \in Seq(Octeto)
    BY <1>2, RespostasOctetos
  <1>5. /\ UNCHANGED <<entrada, conexao, tratador, status>>
        /\ send_buf' = <<>> /\ chegada' = <<>>
        /\ recv_buf' \in Seq(Octeto) /\ rede' \in Seq(Octeto) /\ recv_buf' \o rede' = pct
    BY <1>2, <1>3, <1>4, Respondido
  <1>6. Lida(RespostasAuth \cup Negativas)'
    BY <1>2, <1>5, Fixos DEF Lida
  <1>7. Identifica'
    BY <1>1, <1>3, <1>5, <1>6 DEF Identifica
  <1> QED
    BY <1>7 DEF InvDialogo

\* The command is carried out as it was given, and confirmed.
LEMMA Executado ==
  ASSUME InvDialogo, Controle, PainelExecuta
  PROVE  InvDialogo'
  <1>1. /\ chegada # <<>> /\ Chegou.cmd \notin {\hf0f0, \hf0f1}
        /\ executados' = Append(executados, Entende(Chegou))
    BY DEF PainelExecuta
  <1>2. /\ Comanda /\ executados = <<>>
        /\ Chegou = [cmd |-> Codigo[pedido.comando], payload |-> Payload(pedido)]
        /\ \E p : EmTransito(p) /\ chegada = <<p>>
    BY <1>1, Chegada
  <1>3. Chegou.cmd = Codigo[pedido.comando]
    BY <1>2
  <1>4. PICK pct \in Confirmacoes : Responde(pct)
    BY <1>3 DEF PainelExecuta, Confirmacoes
  <1>5. pedido \in Pedidos /\ PedidoValido
    BY <1>2 DEF Comanda, Controle
  <1>6. Entende(Chegou) = Efetivo
    BY <1>2, <1>5, ComandoEntendido DEF Comanda
  <1>7. executados' = <<Efetivo>>
    BY <1>1, <1>2, <1>6
  <1>8. pct \in Seq(Octeto)
    BY <1>4, <1>5, RespostasOctetos
  <1>9. /\ UNCHANGED <<entrada, conexao, tratador, status>>
        /\ send_buf' = <<>> /\ chegada' = <<>>
        /\ recv_buf' \in Seq(Octeto) /\ rede' \in Seq(Octeto) /\ recv_buf' \o rede' = pct
    BY <1>2, <1>4, <1>8, Respondido
  <1>10. Lida(Confirmacoes)'
    BY <1>4, <1>9, Fixos DEF Lida
  <1>11. Comanda'
    BY <1>2, <1>7, <1>9, <1>10, Fixos DEF Comanda
  <1> QED
    BY <1>11 DEF InvDialogo

\* A question is refused, or not answered.
LEMMA Recusado ==
  ASSUME InvDialogo, Controle, PainelRecusa
  PROVE  InvDialogo'
  <1>1. PICK pct \in Negativas : Responde(pct)
    BY DEF PainelRecusa, Negativas
  <1>2. chegada # <<>> /\ executados' = executados
    BY <1>1 DEF PainelRecusa, Responde
  <1>3. pct \in Seq(Octeto)
    BY <1>1, RespostasOctetos
  <1>4. /\ Identifica \/ (Comanda /\ executados = <<>>) \/ Despede
        /\ \E p : EmTransito(p) /\ chegada = <<p>>
    BY <1>2, Chegada
  <1>5. /\ UNCHANGED <<entrada, conexao, tratador, status>>
        /\ send_buf' = <<>> /\ chegada' = <<>>
        /\ recv_buf' \in Seq(Octeto) /\ rede' \in Seq(Octeto) /\ recv_buf' \o rede' = pct
    BY <1>1, <1>3, <1>4, Respondido
  <1>6. Lida(Negativas)' /\ Lida(RespostasAuth \cup Negativas)'
    BY <1>1, <1>5, Fixos DEF Lida
  <1> QED
    BY <1>2, <1>4, <1>5, <1>6, Fixos DEF InvDialogo, Identifica, Comanda, Despede

\* Every step keeps the dialogue in one of its four phases.
LEMMA DialogoPasso ==
  ASSUME InvDialogo, Controle, [Next]_vars
  PROVE  InvDialogo'
  <1> USE DEF externo
  <1>1. CASE Uso
    BY <1>1, Parado DEF Uso, Encerra
  <1>2. CASE Inicia
    BY <1>2, Parado DEF Inicia, Encerra
  <1>3. ASSUME NEW ok \in BOOLEAN, connection_callback(ok) PROVE InvDialogo'
    <2>1. CASE ok
      BY <1>3, <2>1, Conectado
    <2>2. CASE ~ok
      BY <1>3, <2>2, Parado DEF connection_callback, destroy, Encerra
    <2> QED
      BY <2>1, <2>2
  <1>4. CASE TrataTimeout
    BY <1>4, Parado DEF TrataTimeout, destroy, Encerra
  <1>5. CASE send_callback
    BY <1>5, Enviado
  <1>6. CASE Queda
    BY <1>6, Parado DEF Queda, destroy, Encerra
  <1>7. ASSUME NEW k \in 1 .. Len(rede), PacoteIncompleto(k) PROVE InvDialogo'
    BY <1>7, RecebeSegue DEF PacoteIncompleto
  <1>8. ASSUME NEW k \in 1 .. Len(rede), PacoteRuim(k) PROVE InvDialogo'
    BY <1>8, RecebeSegue DEF PacoteRuim, destroy, Encerra
  <1>9. ASSUME NEW k \in 1 .. Len(rede), resposta_autenticacao(k) PROVE InvDialogo'
    <2>1. CASE DeZona(pedido) /\ pedido.alvo = <<>>
      BY <1>9, <2>1, RecebeSegue DEF resposta_autenticacao, Encerra
    <2>2. CASE ~(DeZona(pedido) /\ pedido.alvo = <<>>)
      BY <1>9, <2>2, RecebeAceite
    <2> QED
      BY <2>1, <2>2
  <1>10. ASSUME NEW k \in 1 .. Len(rede), resposta_comando(k) PROVE InvDialogo'
    <2>1. CASE pedido.comando = "status" /\ ~StatusLegivel(Resposta(k).payload)
      BY <1>10, <2>1, RecebeSegue DEF resposta_comando, Encerra
    <2>2. CASE ~(pedido.comando = "status" /\ ~StatusLegivel(Resposta(k).payload))
      BY <1>10, <2>2, RecebeConfirmacao
    <2> QED
      BY <2>1, <2>2
  <1>11. CASE PainelAutentica
    BY <1>11, Autenticado
  <1>12. CASE PainelExecuta
    BY <1>12, Executado
  <1>13. CASE PainelRecusa
    BY <1>13, Recusado
  <1>14. CASE PainelFecha
    BY <1>14, Parado DEF PainelFecha, cliente
  <1>15. CASE UNCHANGED vars
    BY <1>15, Parado DEF vars, cliente
  <1> QED
    BY <1>1, <1>2, <1>3, <1>4, <1>5, <1>6, <1>7, <1>8, <1>9, <1>10, <1>11, <1>12,
       <1>13, <1>14, <1>15 DEF Next

\* The dialogue is always in one of its phases.
LEMMA SempreDialogo == Spec => [](Controle /\ InvDialogo)
  <1>1. Init => InvDialogo
    BY DEF Init, InvDialogo, Antes
  <1>2. InvDialogo /\ Controle /\ [Next]_vars => InvDialogo'
    BY DialogoPasso
  <1> QED
    BY <1>1, <1>2, SempreControle, PTL DEF Spec

-----------------------------------------------------------------------------
(***************************************************************************)
(* What the user and the panel can rely on.                                *)
(***************************************************************************)
\* Whatever comandar and the panel exchange is octets, cut anywhere, and every
\* variable keeps a value of its kind.
THEOREM TipoComando == Spec => []TypeOK
  <1>1. ASSUME Controle, InvDialogo PROVE TypeOK
    <2>1. ASSUME NEW p \in Seq(Octeto) PROVE <<p>> \in Seq(Seq(Octeto))
      OBVIOUS
    <2>2. <<>> \in Seq(Octeto) /\ <<>> \in Seq(Seq(Octeto))
      BY EmptySeq
    <2>3. Identifica => Auth \in Seq(Octeto)
      <3>1. \hf0f0 \in Comando /\ CargaAuth \in Carga
        BY <1>1, AuthCarga DEF Controle, Comando
      <3>2. Auth = pacote_isecnet2(\hf0f0, CargaAuth)
        BY DEF Auth, pacote_isecnet2_auth, CargaAuth
      <3> QED
        BY <3>1, <3>2, PacoteCampos
    <2>4. Comanda => Cmd \in Seq(Octeto)
      <3>1. ASSUME Comanda PROVE Payload(pedido) \in Carga /\ Codigo[pedido.comando] \in Comando
        BY <1>1, <3>1, ComandoEntendido, Codigos DEF Controle, Comanda
      <3> QED
        BY <3>1, PacoteCampos DEF Cmd
    <2>5. Bye \in Seq(Octeto)
      <3>1. \hf0f1 \in Comando /\ <<>> \in Carga
        BY CargaCurta DEF Comando
      <3> QED
        BY <3>1, PacoteCampos DEF Bye, pacote_isecnet2_bye
    <2>6. /\ recv_buf \in Seq(Octeto) /\ rede \in Seq(Octeto)
          /\ send_buf \in Seq(Seq(Octeto)) /\ chegada \in Seq(Seq(Octeto))
      <3>1. CASE Antes
        BY <2>2, <3>1 DEF Antes
      <3>2. ASSUME NEW p \in Seq(Octeto), EmTransito(p)
            PROVE  /\ recv_buf \in Seq(Octeto) /\ rede \in Seq(Octeto)
                   /\ send_buf \in Seq(Seq(Octeto)) /\ chegada \in Seq(Seq(Octeto))
        BY <2>1, <2>2, <3>2 DEF EmTransito
      <3>3. ASSUME NEW R, Lida(R)
            PROVE  /\ recv_buf \in Seq(Octeto) /\ rede \in Seq(Octeto)
                   /\ send_buf \in Seq(Seq(Octeto)) /\ chegada \in Seq(Seq(Octeto))
        BY <2>2, <3>3 DEF Lida
      <3> QED
        BY <1>1, <2>3, <2>4, <2>5, <3>1, <3>2, <3>3
           DEF InvDialogo, Identifica, Comanda, Despede
    <2> QED
      BY <1>1, <2>6 DEF Controle, TypeOK
  <1> QED
    BY <1>1, SempreDialogo, PTL

\* The panel carries out nothing but the command, partition or zone given on
\* the command line, and that at most once: envia_comando's payload means the
\* same to both.
THEOREM ExecutaSempreOPedido == Spec => []ExecutaSoOPedido
  <1>1. InvDialogo => ExecutaSoOPedido
    BY DEF InvDialogo, Antes, Identifica, Comanda, Despede, ExecutaSoOPedido
  <1> QED
    BY <1>1, SempreDialogo, PTL

\* "Resultado: sucesso" is the panel's word, however its answers were cut and
\* whatever else it answered.
THEOREM SucessoSempreConfirmado == Spec => []SucessoConfirmado
  <1>1. Controle /\ InvDialogo => SucessoConfirmado
    BY DEF Controle, InvDialogo, Antes, Identifica, Comanda, Despede, SucessoConfirmado
  <1> QED
    BY <1>1, SempreDialogo, PTL

\* recv_callback cuts packets at their ends: when the next question is sent
\* nothing of the last answer is left in recv_buf.
THEOREM SempreSemSobra == Spec => []SemSobra
  <1>1. ASSUME InvDialogo PROVE SemSobra
    <2>1. <<>> \o <<>> = <<>>
      OBVIOUS
    <2>2. Antes => SemSobra
      BY <2>1 DEF Antes, SemSobra
    <2>3. ASSUME NEW p, EmTransito(p) PROVE SemSobra
      BY <2>1, <2>3 DEF EmTransito, SemSobra
    <2>4. ASSUME NEW R, Lida(R) PROVE SemSobra
      BY <2>1, <2>4 DEF Lida, SemSobra
    <2> QED
      BY <1>1, <2>2, <2>3, <2>4 DEF InvDialogo, Identifica, Comanda, Despede
  <1> QED
    BY <1>1, SempreDialogo, PTL

\* A panel that understands the digits of PainelAutentica's packet as comandar
\* writes them accepts a password exactly when it is its own: same number of
\* digits, and the same number once cut to them, whatever its zeros.
THEOREM SenhaSempreExata == Spec => []SenhaExata
  <1>1. ASSUME Controle, InvDialogo, PainelAutentica PROVE SenhaExata'
    <2> DEFINE n == acesso.tam_senha
               d == contact_id_encode(acesso.senha, n)
    <2>1. acesso \in Acessos /\ acesso' = acesso
      BY <1>1 DEF Controle, PainelAutentica, Responde, entrada
    <2>2. Chegou.payload = CargaAuth
      <3>1. Codigo[pedido.comando] # \hf0f0 /\ Chegou.cmd = \hf0f0 /\ chegada # <<>>
        BY <1>1, Codigos DEF Controle, PainelAutentica
      <3> QED
        BY <1>1, <3>1, Chegada
    <2>3. Len(d) = n /\ SubSeq(Chegou.payload, 2, Len(Chegou.payload) - 1) = d
      BY <2>1, <2>2, AuthCarga
    <2>4. contact_id_decode(d) = acesso.senha % 10 ^ n
      <3>1. acesso.senha \in Nat /\ n \in Nat /\ Potencias(n)
        BY <2>1, AcessosAssumption, PotenciasAssumption
      <3> QED
        BY <3>1, ContactIdIdaEVolta
    <2> HIDE DEF d
    <2>5. autenticado' = IF n = AcessoPainel.tam_senha /\ acesso.senha % 10 ^ n = AcessoPainel.senha
                         THEN "sim" ELSE "recusado"
      <3> DEFINE digitos == SubSeq(Chegou.payload, 2, Len(Chegou.payload) - 1)
      <3>1. autenticado' = IF Len(digitos) = AcessoPainel.tam_senha
                              /\ contact_id_decode(digitos) = AcessoPainel.senha
                           THEN "sim" ELSE "recusado"
        BY <1>1 DEF PainelAutentica
      <3>2. digitos = d
        BY <2>3
      <3> HIDE DEF digitos
      <3> QED
        BY <3>1, <3>2, <2>3, <2>4, Zenon
    <2> QED
      BY <2>1, <2>5, Zenon DEF SenhaExata
  <1>2. ASSUME SenhaExata, [Next]_vars, ~PainelAutentica PROVE SenhaExata'
    <2>1. acesso' = acesso /\ autenticado' = autenticado
      BY <1>2 DEF Next, vars, entrada, externo, Uso, Inicia, connection_callback, TrataTimeout,
         send_callback, Queda, PacoteIncompleto, PacoteRuim, resposta_autenticacao,
         resposta_comando, Recebe, PainelExecuta, PainelRecusa, PainelFecha, Responde
    <2> QED
      BY <1>2, <2>1, Zenon DEF SenhaExata
  <1>3. Init => SenhaExata
    BY DEF Init, SenhaExata
  <1>4. Controle /\ InvDialogo /\ SenhaExata /\ [Next]_vars => SenhaExata'
    BY <1>1, <1>2
  <1> QED
    BY <1>3, <1>4, SempreDialogo, PTL DEF Spec
=============================================================================
