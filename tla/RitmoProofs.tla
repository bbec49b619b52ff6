----------------------------- MODULE RitmoProofs ----------------------------
(***************************************************************************)
(* Proofs about Ritmo, for any finite set of connections, any frames and   *)
(* any lengths of time.  Every step of Ritmo is a step of Tratador, so the *)
(* invariants of Tratador hold here too and are used below.                *)
(***************************************************************************)
EXTENDS Ritmo, TratadorProofs

-----------------------------------------------------------------------------
\* Adding durations takes nothing away from the receiver: a behaviour of the
\* timed connections is one of the untimed ones.
THEOREM RitmoImplementaTratador == TSpec => Spec
  <1>1. TInit => Init
    BY DEF TInit
  <1>2. [TNext]_tvars => [Next]_vars
    <2> SUFFICES ASSUME [TNext]_tvars PROVE [Next]_vars
      OBVIOUS
    <2>1. ASSUME NEW c \in Conns,
                 TAceita(c) \/ TRecebe(c) \/ TProcessa(c) \/ TRecua(c) \/ TFim(c)
          PROVE  Next
      <3>1. Passo(c)
        BY <2>1 DEF TAceita, TRecebe, TProcessa, TRecua, TFim, Passo, Recebe
      <3> QED
        BY <3>1 DEF Next
    <2>2. ASSUME NEW d, Passa(d) PROVE UNCHANGED vars
      BY <2>2 DEF Passa
    <2>3. CASE UNCHANGED tvars
      BY <2>3 DEF tvars
    <2> QED
      BY <2>1, <2>2, <2>3 DEF TNext, AteOPrazo
  <1> QED
    BY <1>1, <1>2, PTL DEF TSpec, Spec

\* What Tratador guarantees, of the timed connections.
LEMMA BaseTemporizada == TSpec => [](TypeOK /\ InvSupervisao)
  BY RitmoImplementaTratador, TipoCorreto, InvarianteSupervisao, PTL

-----------------------------------------------------------------------------
(***************************************************************************)
(* The delay is a number of doublings of the minimum.  A chain of          *)
(* doublings stands for the power of two, so that doubling extends the     *)
(* chain, halving shortens it, and no induction is needed.                 *)
(***************************************************************************)
Cadeia(f, n) ==
  /\ f \in [0 .. n -> Nat \ {0}]
  /\ f[0] = 1
  /\ \A i \in 0 .. n : i < n => f[i + 1] = 2 * f[i]
  /\ \A i, j \in 0 .. n : i <= j => f[i] <= f[j]

Potencia(n, a) == \E f \in [0 .. n -> Nat \ {0}] : Cadeia(f, n) /\ f[n] = a

\* A delay is positive.
LEMMA PotenciaTipo ==
  ASSUME NEW n \in Nat, NEW a, Potencia(n, a)
  PROVE  a \in Nat \ {0}
  BY DEF Potencia, Cadeia

\* No doubling: the minimum.
LEMMA PotenciaZero == Potencia(0, 1)
  <1> DEFINE f == [i \in 0 .. 0 |-> 1]
  <1>1. f \in [0 .. 0 -> Nat \ {0}] /\ f[0] = 1
    OBVIOUS
  <1>2. Cadeia(f, 0)
    BY <1>1 DEF Cadeia
  <1> QED
    BY <1>1, <1>2 DEF Potencia

\* One more doubling, as avancar_backoff does.
LEMMA PotenciaDobra ==
  ASSUME NEW n \in Nat, NEW a, Potencia(n, a)
  PROVE  Potencia(n + 1, 2 * a)
  <1>1. PICK f \in [0 .. n -> Nat \ {0}] : Cadeia(f, n) /\ f[n] = a
    BY DEF Potencia
  <1> DEFINE g == [i \in 0 .. n + 1 |-> IF i <= n THEN f[i] ELSE 2 * a]
  <1>2. a \in Nat \ {0}
    BY PotenciaTipo
  <1>3. g \in [0 .. n + 1 -> Nat \ {0}]
    BY <1>2
  <1>4. g[0] = 1 /\ g[n + 1] = 2 * a
    BY <1>1 DEF Cadeia
  <1>5. ASSUME NEW i \in 0 .. n + 1, i < n + 1 PROVE g[i + 1] = 2 * g[i]
    BY <1>1, <1>5 DEF Cadeia
  <1>6. ASSUME NEW i \in 0 .. n + 1, NEW j \in 0 .. n + 1, i <= j
        PROVE  g[i] <= g[j]
    <2>1. CASE j <= n
      BY <1>1, <1>6, <2>1 DEF Cadeia
    <2>2. CASE j = n + 1 /\ i <= n
      <3>1. f[i] <= f[n] /\ f[i] \in Nat
        BY <1>1, <2>2 DEF Cadeia
      <3> QED
        BY <1>1, <1>2, <2>2, <3>1
    <2>3. CASE i = n + 1
      BY <1>2, <1>6, <2>3
    <2> QED
      BY <2>1, <2>2, <2>3
  <1>7. Cadeia(g, n + 1)
    BY <1>3, <1>4, <1>5, <1>6 DEF Cadeia
  <1> QED
    BY <1>3, <1>4, <1>7 DEF Potencia

\* One doubling less, as recuar_backoff does above the minimum.
LEMMA PotenciaMetade ==
  ASSUME NEW n \in Nat \ {0}, NEW a, Potencia(n, a)
  PROVE  Metade(a) \in Nat \ {0} /\ a = 2 * Metade(a) /\ Potencia(n - 1, Metade(a))
  <1>1. PICK f \in [0 .. n -> Nat \ {0}] : Cadeia(f, n) /\ f[n] = a
    BY DEF Potencia
  <1> DEFINE g == [i \in 0 .. n - 1 |-> f[i]]
             b == f[n - 1]
  <1>2. b \in Nat \ {0} /\ a = 2 * b
    <2>1. n - 1 \in 0 .. n /\ n - 1 < n /\ (n - 1) + 1 = n
      OBVIOUS
    <2> QED
      BY <1>1, <2>1 DEF Cadeia
  <1>3. Metade(a) = b
    BY <1>2 DEF Metade, Maior
  <1>4. g \in [0 .. n - 1 -> Nat \ {0}] /\ g[0] = 1 /\ g[n - 1] = b
    BY <1>1 DEF Cadeia
  <1>5. ASSUME NEW i \in 0 .. n - 1, i < n - 1 PROVE g[i + 1] = 2 * g[i]
    BY <1>1, <1>5 DEF Cadeia
  <1>6. \A i, j \in 0 .. n - 1 : i <= j => g[i] <= g[j]
    BY <1>1 DEF Cadeia
  <1>7. Cadeia(g, n - 1)
    BY <1>4, <1>5, <1>6 DEF Cadeia
  <1>8. Potencia(n - 1, b)
    BY <1>4, <1>7 DEF Potencia
  <1> QED
    BY <1>2, <1>3, <1>8

\* The delays a connection goes through, in eighths of a second.
LEMMA PotenciaValores ==
  ASSUME NEW n \in Nat, NEW a, Potencia(n, a)
  PROVE  /\ n = 0 => a = 1
         /\ n = 1 => a = 2
         /\ n = 2 => a = 4
         /\ n = 3 => a = 8
         /\ n >= 4 => a >= 16
  <1>1. PICK f \in [0 .. n -> Nat \ {0}] : Cadeia(f, n) /\ f[n] = a
    BY DEF Potencia
  <1>2. f[0] = 1 /\ \A i \in 0 .. n : i < n => f[i + 1] = 2 * f[i]
    BY <1>1 DEF Cadeia
  <1>3. n >= 1 => f[1] = 2
    BY <1>2
  <1>4. n >= 2 => f[2] = 4
    BY <1>2, <1>3
  <1>5. n >= 3 => f[3] = 8
    BY <1>2, <1>4
  <1>6. n >= 4 => a >= 16
    <2> SUFFICES ASSUME n >= 4 PROVE a >= 16
      OBVIOUS
    <2>1. f[4] = 16
      BY <1>2, <1>5
    <2>2. f[4] <= f[n]
      BY <1>1 DEF Cadeia
    <2> QED
      BY <1>1, <2>1, <2>2
  <1> QED
    BY <1>1, <1>2, <1>3, <1>4, <1>5, <1>6

\* Eleven doublings at most make a delay of 256 seconds at most.
LEMMA PotenciaOnze ==
  ASSUME NEW n \in 0 .. 11, NEW a, Potencia(n, a)
  PROVE  a <= 2048
  <1>1. PICK f \in [0 .. n -> Nat \ {0}] : Cadeia(f, n) /\ f[n] = a
    BY DEF Potencia
  <1>2. f[0] = 1 /\ \A i \in 1 .. n : f[i] = 2 * f[i - 1]
    <2>1. ASSUME NEW i \in 1 .. n PROVE f[i] = 2 * f[i - 1]
      <3>1. i - 1 \in 0 .. n /\ i - 1 < n /\ (i - 1) + 1 = i
        OBVIOUS
      <3> QED
        BY <1>1, <3>1 DEF Cadeia
    <2> QED
      BY <1>1, <2>1 DEF Cadeia
  <1>3. n >= 1 => f[1] = 2
    BY <1>2
  <1>4. n >= 2 => f[2] = 4
    BY <1>2, <1>3
  <1>5. n >= 3 => f[3] = 8
    BY <1>2, <1>4
  <1>6. n >= 4 => f[4] = 16
    BY <1>2, <1>5
  <1>7. n >= 5 => f[5] = 32
    BY <1>2, <1>6
  <1>8. n >= 6 => f[6] = 64
    BY <1>2, <1>7
  <1>9. n >= 7 => f[7] = 128
    BY <1>2, <1>8
  <1>10. n >= 8 => f[8] = 256
    BY <1>2, <1>9
  <1>11. n >= 9 => f[9] = 512
    BY <1>2, <1>10
  <1>12. n >= 10 => f[10] = 1024
    BY <1>2, <1>11
  <1>13. n >= 11 => f[11] = 2048
    BY <1>2, <1>12
  <1>14. n \in {0, 1, 2, 3, 4, 5, 6, 7, 8, 9, 10, 11}
    OBVIOUS
  <1>15. f[0] = 1
    BY <1>2
  <1>16. f[n] = a
    BY <1>1
  <1> QED
    BY <1>14, <1>15, <1>16, <1>3, <1>4, <1>5, <1>6, <1>7, <1>8, <1>9,
       <1>10, <1>11, <1>12, <1>13, SMTT(60)

-----------------------------------------------------------------------------
(***************************************************************************)
(* What a step of the timed receiver does to the timers and measures of    *)
(* one connection d, whichever connection the step is about.               *)
(***************************************************************************)
TipoRitmo ==
  /\ resta \in [Conns -> [Timers -> Nat]]
  /\ atraso \in [Conns -> Nat \ {0}]
  /\ idade \in [Conns -> Nat]
  /\ folga \in [Conns -> Nat]

\* A closed slot keeps no count, delay or measure.
Zerada(d) ==
  /\ recebidos[d] = 0
  /\ consumidos[d] = 0
  /\ atraso[d] = 1
  /\ idade[d] = 0
  /\ folga[d] = 0

Fechou(d) == estado'[d] = "fechada" /\ Zerada(d)'

Abriu(d) ==
  /\ estado[d] = "fechada"
  /\ Zerada(d) /\ Zerada(d)'
  /\ pend'[d] = {"ident", "comm"}
  /\ resta'[d]["ident"] = 8 * 120
  /\ resta'[d]["comm"] = 8 * 600
  /\ UNCHANGED <<recv_buf[d], backoff[d]>>

\* The delay, the measures and the count of consumed messages stay.
MedidasIguais(d) ==
  UNCHANGED <<backoff[d], atraso[d], idade[d], folga[d], consumidos[d]>>

\* The timers in T that are still pending were pending, with the same deadline.
PrazosIguais(d, T) ==
  \A t \in T : t \in pend'[d] => t \in pend[d] /\ resta'[d][t] = resta[d][t]

\* The connection stays open, and identified if it was.
SegueAberta(d) ==
  /\ estado[d] = "aberta" /\ estado'[d] = "aberta"
  /\ central_identificada[d] => central_identificada'[d]

\* Nothing that matters changes: another connection's step, or processar_msg
\* that found no whole message.
Seguiu(d) ==
  /\ UNCHANGED <<estado[d], central_identificada[d], recv_buf[d], recebidos[d]>>
  /\ MedidasIguais(d)
  /\ PrazosIguais(d, Timers \ {"incompleta"})

Recebeu(d) ==
  /\ SegueAberta(d)
  /\ MedidasIguais(d)
  /\ PrazosIguais(d, {"ident", "backoff"})
  /\ resta'[d]["comm"] = 8 * 600
  /\ "processa" \in pend[d] => resta'[d]["processa"] = resta[d]["processa"]
  /\ "processa" \notin pend[d] => resta'[d]["processa"] = atraso[d]
  /\ recebidos'[d] + Len(recv_buf[d]) = recebidos[d] + Len(recv_buf'[d])
  /\ recebidos[d] <= MaxQuadros => recebidos'[d] <= MaxQuadros

Tratou(d) ==
  /\ SegueAberta(d)
  /\ "processa" \in pend[d] /\ resta[d]["processa"] = 0
  /\ PrazosIguais(d, {"ident", "comm"})
  /\ resta'[d]["backoff"] = PausaRecuo(2 * atraso[d])
  /\ "processa" \in pend'[d] => resta'[d]["processa"] = 2 * atraso[d]
  /\ backoff'[d] = backoff[d] + 1
  /\ atraso'[d] = 2 * atraso[d]
  /\ folga'[d] = folga[d] + 8
  /\ consumidos'[d] = consumidos[d] + 1
  /\ Len(recv_buf[d]) = Len(recv_buf'[d]) + 1
  /\ UNCHANGED <<idade[d], recebidos[d]>>

Recuou(d) ==
  /\ SegueAberta(d)
  /\ "backoff" \in pend[d] /\ resta[d]["backoff"] = 0
  /\ PrazosIguais(d, {"ident", "comm", "processa"})
  /\ backoff'[d] = Recuo(backoff[d])
  /\ atraso'[d] = Metade(atraso[d])
  /\ "backoff" \in pend'[d] => resta'[d]["backoff"] = PausaRecuo(atraso'[d])
  /\ UNCHANGED <<idade[d], folga[d], consumidos[d], recebidos[d], recv_buf[d]>>

Passou(d) ==
  /\ UNCHANGED <<estado[d], central_identificada[d], pend[d], recv_buf[d],
                 backoff[d], atraso[d], recebidos[d], consumidos[d]>>
  /\ \E m \in Nat :
       /\ \A t \in pend[d] : m <= resta[d][t] /\ resta'[d][t] = resta[d][t] - m
       /\ folga'[d] = IF folga[d] > m THEN folga[d] - m ELSE 0
       /\ idade'[d] = IF estado[d] = "aberta" /\ ~central_identificada[d]
                      THEN idade[d] + m ELSE 0

Efeito(d) ==
  \/ Fechou(d) \/ Abriu(d) \/ Seguiu(d) \/ Recebeu(d)
  \/ Tratou(d) \/ Recuou(d) \/ Passou(d)

\* The state in which a step is taken.
Base ==
  /\ TypeOK /\ InvSupervisao
  /\ TipoRitmo
  /\ \A d \in Conns : estado[d] = "fechada" => Zerada(d)

\* Timers that a step of c does not start keep their deadline.
LEMMA ArmaPrazos ==
  ASSUME NEW c \in Conns, NEW d \in Conns, NEW A, Arma(c, A),
         NEW t \in Timers, t \in pend'[d], d # c \/ t \notin A
  PROVE  resta'[d][t] = resta[d][t]
  BY DEF Arma

\* Timers that a step of c starts get their duration.
LEMMA ArmaNovos ==
  ASSUME NEW c \in Conns, NEW A, Arma(c, A), NEW t \in Timers, t \in A
  PROVE  resta'[c][t] = Duracao(t, atraso'[c])
  BY DEF Arma

\* The durations.
LEMMA Duracoes ==
  ASSUME NEW a
  PROVE  /\ Duracao("ident", a) = 8 * 120
         /\ Duracao("comm", a) = 8 * 600
         /\ Duracao("incompleta", a) = 8 * 60
         /\ Duracao("processa", a) = a
         /\ Duracao("backoff", a) = PausaRecuo(a)
  BY DEF Duracao

\* The acceptance of c, seen from any connection.
LEMMA EfeitoAceita ==
  ASSUME Base, NEW c \in Conns, TAceita(c), NEW d \in Conns
  PROVE  Efeito(d)
  <1>1. CASE d = c
    <2>1. Abriu(c)
      <3>1. /\ estado[c] = "fechada"
            /\ pend'[c] = {"ident", "comm"}
            /\ UNCHANGED <<recv_buf[c], backoff[c], recebidos[c], consumidos[c]>>
        BY DEF TAceita, Aceita, Base, TypeOK
      <3>2. Zerada(c)
        BY <3>1 DEF Base
      <3>3. atraso'[c] = 1 /\ idade'[c] = 0 /\ folga'[c] = 0
        BY DEF TAceita, Base, TipoRitmo
      <3>4. resta'[c]["ident"] = 8 * 120 /\ resta'[c]["comm"] = 8 * 600
        BY ArmaNovos, Duracoes DEF TAceita, Timers
      <3> QED
        BY <3>1, <3>2, <3>3, <3>4 DEF Abriu, Zerada
    <2> QED
      BY <1>1, <2>1 DEF Efeito
  <1>2. CASE d # c
    <2>1. Intacta(d) /\ IntactaConta(d) /\ UNCHANGED recebidos[d]
      BY <1>2, OutraIntacta DEF TAceita, Aceita, Base
    <2>2. UNCHANGED <<atraso[d], idade[d], folga[d]>>
      BY <1>2 DEF TAceita, Base, TipoRitmo
    <2>3. PrazosIguais(d, Timers \ {"incompleta"})
      BY <1>2, <2>1, ArmaPrazos DEF TAceita, PrazosIguais, Intacta
    <2> QED
      BY <2>1, <2>2, <2>3 DEF Efeito, Seguiu, MedidasIguais, Intacta, IntactaConta
  <1> QED
    BY <1>1, <1>2

\* A connection that the step of another leaves alone, measures included.
LEMMA EfeitoOutra ==
  ASSUME NEW c \in Conns, NEW d \in Conns, d # c,
         Intacta(d), IntactaConta(d), NEW A, Arma(c, A),
         UNCHANGED <<recebidos[d], atraso[d], idade[d], folga[d]>>
  PROVE  Efeito(d)
  <1>1. PrazosIguais(d, Timers \ {"incompleta"})
    BY ArmaPrazos DEF PrazosIguais, Intacta
  <1> QED
    BY <1>1 DEF Efeito, Seguiu, MedidasIguais, Intacta, IntactaConta

\* Data received by c, seen from any connection.
LEMMA EfeitoRecebe ==
  ASSUME Base, NEW c \in Conns, TRecebe(c), NEW d \in Conns
  PROVE  Efeito(d)
  <1>1. CASE d = c
    <2>1. /\ Viva(c)
          /\ recv_callback(c)
          /\ Arma(c, ArmaRecv(c))
          /\ UNCHANGED <<atraso, idade, folga>>
      BY DEF TRecebe, RecebeQuadro, RecebeContinuacao
    <2>2. atrib[c] = pend[c] /\ "comm" \in pend[c] /\ pend[c] \in SUBSET Timers
      BY <2>1 DEF Base, InvSupervisao, InvConexao, Viva, TypeOK
    <2>3. /\ pend'[c] = pend[c] \cup {"processa"}
          /\ estado[c] = "aberta" /\ estado'[c] = "aberta"
          /\ UNCHANGED <<central_identificada[c], backoff[c], consumidos[c]>>
      BY <2>1, <2>2 DEF recv_callback, Viva, Base, TypeOK
    <2>4. PrazosIguais(c, {"ident", "backoff"})
      BY <2>1, <2>3, ArmaPrazos DEF PrazosIguais, ArmaRecv, Timers
    <2>5. resta'[c]["comm"] = 8 * 600
      BY <2>1, ArmaNovos, Duracoes DEF ArmaRecv, Timers
    <2>6. "processa" \in pend[c] => resta'[c]["processa"] = resta[c]["processa"]
      BY <2>1, <2>2, <2>3, ArmaPrazos DEF ArmaRecv, Timers
    <2>7. "processa" \notin pend[c] => resta'[c]["processa"] = atraso[c]
      BY <2>1, <2>2, ArmaNovos, Duracoes DEF ArmaRecv, Timers
    <2>8. /\ recebidos'[c] + Len(recv_buf[c]) = recebidos[c] + Len(recv_buf'[c])
          /\ recebidos[c] <= MaxQuadros => recebidos'[c] <= MaxQuadros
      <3>1. /\ recv_buf[c] \in Seq(Pedaco)
            /\ recebidos[c] \in Nat
        BY DEF Base, TypeOK
      <3>2. ASSUME NEW q \in Quadros, NEW inteiro \in BOOLEAN,
                   RecebeQuadro(c, q, inteiro)
            PROVE  /\ recebidos[c] < MaxQuadros
                   /\ recebidos'[c] = recebidos[c] + 1
                   /\ Len(recv_buf'[c]) = Len(recv_buf[c]) + 1
        <4> DEFINE p == [quadro |-> q, completa |-> inteiro]
        <4>1. p \in Pedaco
          BY DEF Pedaco
        <4>2. recv_buf'[c] = Append(recv_buf[c], p)
          BY <3>2 DEF RecebeQuadro, Base, TypeOK
        <4>3. Len(Append(recv_buf[c], p)) = Len(recv_buf[c]) + 1
          BY <3>1, <4>1
        <4> QED
          BY <3>2, <4>2, <4>3 DEF RecebeQuadro, Base, TypeOK
      <3>3. ASSUME NEW fim \in BOOLEAN, RecebeContinuacao(c, fim)
            PROVE  /\ recebidos'[c] = recebidos[c]
                   /\ Len(recv_buf'[c]) = Len(recv_buf[c])
        <4> DEFINE n == Len(recv_buf[c])
                   p == [quadro |-> recv_buf[c][n].quadro, completa |-> fim]
        <4>1. recv_buf'[c] = [recv_buf[c] EXCEPT ![n] = p] /\ recebidos'[c] = recebidos[c]
          BY <3>3 DEF RecebeContinuacao, Base, TypeOK
        <4> HIDE DEF p
        <4>2. Len([recv_buf[c] EXCEPT ![n] = p]) = Len(recv_buf[c])
          BY <3>1
        <4> QED
          BY <4>1, <4>2
      <3>4. Len(recv_buf[c]) \in Nat
        BY <3>1
      <3>5. MaxQuadros \in Nat
        BY MaxQuadrosAssumption
      <3> QED
        BY <3>1, <3>2, <3>3, <3>4, <3>5 DEF TRecebe
    <2>9. Recebeu(c)
      BY <2>1, <2>3, <2>4, <2>5, <2>6, <2>7, <2>8
         DEF Recebeu, SegueAberta, MedidasIguais
    <2> QED
      BY <1>1, <2>9 DEF Efeito
  <1>2. CASE d # c
    <2>1. Recebe(c)
      BY DEF TRecebe, Recebe
    <2>2. Intacta(d) /\ IntactaConta(d)
      BY <1>2, <2>1, OutraIntacta DEF Base
    <2>3. UNCHANGED recebidos[d]
      BY <1>2 DEF TRecebe, RecebeQuadro, RecebeContinuacao, Base, TypeOK
    <2> QED
      BY <1>2, <2>2, <2>3, EfeitoOutra DEF TRecebe
  <1> QED
    BY <1>1, <1>2

\* The end of the pause of c, seen from any connection.
LEMMA EfeitoRecua ==
  ASSUME Base, NEW c \in Conns, TRecua(c), NEW d \in Conns
  PROVE  Efeito(d)
  <1>1. CASE d = c
    <2>1. /\ Viva(c)
          /\ "backoff" \in pend[c] /\ resta[c]["backoff"] = 0
          /\ Arma(c, pend'[c] \cap {"backoff"})
          /\ UNCHANGED <<idade, folga, estado, central_identificada, consumidos,
                         recebidos, recv_buf>>
      BY DEF TRecua, Vencido, recuar_backoff
    <2>2. /\ backoff'[c] = Recuo(backoff[c])
          /\ atraso'[c] = Metade(atraso[c])
          /\ pend'[c] = (pend[c] \ {"backoff"}) \cup ArmaRecuo(Recuo(backoff[c]))
      BY DEF TRecua, recuar_backoff, Base, TypeOK, TipoRitmo
    <2>3. PrazosIguais(c, {"ident", "comm", "processa"})
      BY <2>1, <2>2, ArmaPrazos DEF PrazosIguais, Timers, ArmaRecuo
    <2>4. "backoff" \in pend'[c] => resta'[c]["backoff"] = PausaRecuo(atraso'[c])
      BY <2>1, ArmaNovos, Duracoes DEF Timers
    <2>5. Recuou(c)
      BY <2>1, <2>2, <2>3, <2>4 DEF Recuou, SegueAberta, Viva
    <2> QED
      BY <1>1, <2>5 DEF Efeito
  <1>2. CASE d # c
    <2>1. Intacta(d) /\ IntactaConta(d)
      BY <1>2, OutraIntacta DEF Base, TRecua
    <2>2. UNCHANGED <<recebidos[d], atraso[d], idade[d], folga[d]>>
      BY <1>2 DEF TRecua, recuar_backoff, Base, TipoRitmo
    <2> QED
      BY <1>2, <2>1, <2>2, EfeitoOutra DEF TRecua
  <1> QED
    BY <1>1, <1>2

\* A step that destroys the connections in D and treats no message.
LEMMA EfeitoDestroi ==
  ASSUME Base, NEW c \in Conns, NEW D \in SUBSET Conns, c \in D, Destroi(D),
         NEW tratou \in BOOLEAN, Mede(c, tratou), NEW A, Arma(c, A),
         NEW d \in Conns
  PROVE  Efeito(d)
  <1>1. CASE estado'[d] = "fechada"
    <2>1. recebidos'[d] = 0 /\ consumidos'[d] = 0
      BY <1>1 DEF Destroi, Base, Zerada
    <2>2. Zerada(d)'
      BY <1>1, <2>1 DEF Mede, Zerada
    <2> QED
      BY <1>1, <2>2 DEF Efeito, Fechou
  <1>2. CASE estado'[d] # "fechada"
    <2>1. d \notin D /\ d # c
      BY <1>2 DEF Destroi
    <2>2. Intacta(d) /\ IntactaConta(d)
      BY <2>1 DEF Destroi, Intacta, IntactaConta, Base, TypeOK
    <2>3. UNCHANGED <<recebidos[d], atraso[d], idade[d], folga[d]>>
      BY <1>2, <2>1 DEF Destroi, Mede
    <2> QED
      BY <2>1, <2>2, <2>3, EfeitoOutra
  <1> QED
    BY <1>1, <1>2

\* The end of c, seen from any connection.
LEMMA EfeitoFim ==
  ASSUME Base, NEW c \in Conns, TFim(c), NEW d \in Conns
  PROVE  Efeito(d)
  <1>1. Destroi({c}) /\ Mede(c, FALSE) /\ Arma(c, {})
    BY DEF TFim, shutdown_callback, Desiste, timeout_identificacao,
           timeout_comunicacao, timeout_msgincompleta
  <1> QED
    BY <1>1, EfeitoDestroi

\* Time passes for every connection.
LEMMA EfeitoPassa ==
  ASSUME Base, NEW m \in Nat, Passa(m), NEW d \in Conns
  PROVE  Efeito(d)
  <1>1. UNCHANGED <<estado, central_identificada, pend, recv_buf, backoff, atraso,
                    recebidos, consumidos>>
    BY DEF Passa, vars, conexao
  <1>2. \A t \in pend[d] : m <= resta[d][t] /\ resta'[d][t] = resta[d][t] - m
    <2>1. pend[d] \in SUBSET Timers
      BY DEF Base, TypeOK
    <2> QED
      BY <2>1 DEF Passa
  <1>3. /\ folga'[d] = IF folga[d] > m THEN folga[d] - m ELSE 0
        /\ idade'[d] = IF estado[d] = "aberta" /\ ~central_identificada[d]
                       THEN idade[d] + m ELSE 0
    BY DEF Passa
  <1> QED
    BY <1>1, <1>2, <1>3 DEF Efeito, Passou

\* Whether processar_msg consumed a message of c, and the timers it starts.
Consumiu(c) == consumidos'[c] > consumidos[c]

ArmaProcessa(c) == IF Consumiu(c) THEN pend'[c] \cap {"processa", "backoff"}
                                  ELSE pend'[c] \ pend[c]

\* A consumed message of c, on c itself.
LEMMA EfeitoConsome ==
  ASSUME Base, NEW c \in Conns, Vencido(c, "processa"), HaMensagem(c),
         NEW r, NEW T \in SUBSET {"ident"}, ConsomeMsg(c, r, T),
         central_identificada[c] => central_identificada'[c],
         Mede(c, Consumiu(c)), Arma(c, ArmaProcessa(c))
  PROVE  Tratou(c)
  <1>1. /\ estado[c] = "aberta" /\ estado'[c] = "aberta"
        /\ backoff'[c] = backoff[c] + 1
        /\ consumidos'[c] = consumidos[c] + 1
        /\ UNCHANGED recebidos[c]
    BY DEF HaMensagem, Viva, ConsomeMsg, Base, TypeOK
  <1>2. Consumiu(c)
    BY <1>1 DEF Consumiu, Base, TypeOK
  <1>3. atraso'[c] = 2 * atraso[c] /\ folga'[c] = folga[c] + 8 /\ UNCHANGED idade[c]
    BY <1>1, <1>2 DEF Mede, Dobra
  <1>4. Len(recv_buf[c]) = Len(recv_buf'[c]) + 1
    <2>1. recv_buf[c] \in Seq(Pedaco) /\ recv_buf[c] # <<>>
      BY DEF Base, TypeOK, HaMensagem
    <2>2. Len(Tail(recv_buf[c])) = Len(recv_buf[c]) - 1 /\ Len(recv_buf[c]) \in Nat
      BY <2>1
    <2>3. recv_buf'[c] = Tail(recv_buf[c])
      BY DEF ConsomeMsg, Resto, Base, TypeOK
    <2> QED
      BY <2>2, <2>3
  <1>5. /\ "backoff" \in pend'[c]
        /\ \A t \in {"ident", "comm"} : t \in pend'[c] => t \in pend[c]
    BY DEF ConsomeMsg, Cancela, Reagenda, Base, TypeOK
  <1>6. PrazosIguais(c, {"ident", "comm"})
    BY <1>2, <1>5, ArmaPrazos DEF PrazosIguais, ArmaProcessa, Timers
  <1>7. /\ resta'[c]["backoff"] = PausaRecuo(2 * atraso[c])
        /\ "processa" \in pend'[c] => resta'[c]["processa"] = 2 * atraso[c]
    BY <1>2, <1>3, <1>5, ArmaNovos, Duracoes DEF ArmaProcessa, Timers
  <1> QED
    BY <1>1, <1>3, <1>4, <1>6, <1>7 DEF Tratou, SegueAberta, Vencido

\* processar_msg of c, seen from any connection.
LEMMA EfeitoProcessa ==
  ASSUME Base, NEW c \in Conns, TProcessa(c), NEW d \in Conns
  PROVE  Efeito(d)
  <1>1. /\ Vencido(c, "processa")
        /\ processar_msg(c)
        /\ Mede(c, Consumiu(c))
        /\ Arma(c, ArmaProcessa(c))
    BY DEF TProcessa, Consumiu, ArmaProcessa
  <1>2. CASE FalhaProcesso(c)
    <2>1. Consumiu(c) \in BOOLEAN
      BY DEF Consumiu
    <2>2. Destroi(Conns)
      BY <1>2 DEF FalhaProcesso
    <2> QED
      BY <1>1, <2>1, <2>2, EfeitoDestroi
  <1>3. CASE ~FalhaProcesso(c) /\ d # c
    <2>1. Intacta(d) /\ IntactaConta(d)
      BY <1>1, <1>3, OutraIntacta DEF processar_msg, Base
    <2>2. UNCHANGED recebidos[d]
      BY <1>1, <1>3 DEF processar_msg, SemMensagem, RespostaSimples, evento_alarme,
                        identificacao_central, ConsomeMsg
    <2>3. UNCHANGED <<atraso[d], idade[d], folga[d]>>
      BY <1>1, <1>3, <2>1 DEF Mede, Intacta, Base, Zerada
    <2> QED
      BY <1>1, <1>3, <2>1, <2>2, <2>3, EfeitoOutra
  <1>4. CASE SemMensagem(c) /\ d = c
    <2>1. /\ estado[c] = "aberta"
          /\ UNCHANGED <<estado, central_identificada, recv_buf, recebidos, backoff,
                         consumidos>>
      BY <1>4 DEF SemMensagem, Viva
    <2>2. ~Consumiu(c)
      BY <2>1 DEF Consumiu, Base, TypeOK
    <2>3. UNCHANGED <<atraso[c], idade[c], folga[c]>>
      BY <1>1, <2>1, <2>2 DEF Mede
    <2>4. pend'[c] \subseteq pend[c] \cup {"incompleta"}
      BY <1>4 DEF SemMensagem, Base, TypeOK
    <2>5. PrazosIguais(c, Timers \ {"incompleta"})
      BY <1>1, <2>2, <2>4, ArmaPrazos DEF PrazosIguais, ArmaProcessa
    <2> QED
      BY <1>4, <2>1, <2>3, <2>5 DEF Efeito, Seguiu, MedidasIguais
  <1>5. CASE ~FalhaProcesso(c) /\ ~SemMensagem(c) /\ d = c
    <2>1. HaMensagem(c)
      BY <1>1, <1>5 DEF processar_msg, RespostaSimples, evento_alarme, identificacao_central
    <2>2. \E r : \E T \in SUBSET {"ident"} : ConsomeMsg(c, r, T)
      <3>1. CASE RespostaSimples(c) \/ evento_alarme(c)
        BY <3>1, {} \in SUBSET {"ident"} DEF RespostaSimples, evento_alarme
      <3>2. CASE identificacao_central(c)
        <4> DEFINE q == ProximoQuadro(c)
                   ok == valida_central(q) /\ valida_maxconn
        <4>1. ConsomeMsg(c, RespostasIdent(q, ok), DesarmaIdent(ok))
          BY <3>2 DEF identificacao_central
        <4>2. DesarmaIdent(ok) \in SUBSET {"ident"}
          BY DEF DesarmaIdent
        <4> QED
          BY <4>1, <4>2
      <3> QED
        BY <1>1, <1>5, <3>1, <3>2 DEF processar_msg
    <2>3. central_identificada[c] => central_identificada'[c]
      BY <1>1, <1>5 DEF processar_msg, RespostaSimples, evento_alarme,
                        identificacao_central, Base, TypeOK
    <2>4. Tratou(c)
      BY <1>1, <2>1, <2>2, <2>3, EfeitoConsome
    <2> QED
      BY <1>5, <2>4 DEF Efeito
  <1> QED
    BY <1>1, <1>2, <1>3, <1>4, <1>5

\* Whatever the step, each connection sees one of the seven effects.
LEMMA PassoEfeito ==
  ASSUME Base, [TNext]_tvars, NEW d \in Conns
  PROVE  Efeito(d)
  <1>1. ASSUME NEW c \in Conns,
               TAceita(c) \/ TRecebe(c) \/ TProcessa(c) \/ TRecua(c) \/ TFim(c)
        PROVE  Efeito(d)
    BY <1>1, EfeitoAceita, EfeitoRecebe, EfeitoProcessa, EfeitoRecua, EfeitoFim
  <1>2. CASE AteOPrazo
    <2>1. PICK c \in Conns : \E t \in pend[c] : Passa(resta[c][t])
      BY <1>2 DEF AteOPrazo
    <2>2. \A t \in pend[c] : resta[c][t] \in Nat
      BY DEF Base, TypeOK, TipoRitmo
    <2> QED
      BY <2>1, <2>2, EfeitoPassa
  <1>3. CASE \E m \in Saltos : Passa(m)
    BY <1>3, SaltosAssumption, EfeitoPassa
  <1>4. CASE UNCHANGED tvars
    BY <1>4 DEF tvars, vars, conexao, Efeito, Seguiu, MedidasIguais, PrazosIguais
  <1> QED
    BY <1>1, <1>2, <1>3, <1>4 DEF TNext

-----------------------------------------------------------------------------
\* Durations are natural numbers.
LEMMA DuracaoTipo ==
  ASSUME NEW t \in Timers, NEW a \in Nat \ {0}
  PROVE  Duracao(t, a) \in Nat
  BY Duracoes DEF Timers, PausaRecuo, Maior

\* Starting timers keeps the deadlines of their type.
LEMMA ArmaTipo ==
  ASSUME TipoRitmo, NEW c \in Conns, NEW A, Arma(c, A), atraso' \in [Conns -> Nat \ {0}]
  PROVE  resta' \in [Conns -> [Timers -> Nat]]
  <1>1. ASSUME NEW d \in Conns, NEW t \in Timers
        PROVE  (IF d = c /\ t \in A THEN Duracao(t, atraso'[c])
                ELSE IF t \in pend'[d] THEN resta[d][t] ELSE 0) \in Nat
    <2>1. Duracao(t, atraso'[c]) \in Nat
      BY DuracaoTipo
    <2> QED
      BY <2>1 DEF TipoRitmo
  <1> QED
    BY <1>1 DEF Arma

\* A step keeps deadlines, delays and measures of their type.
LEMMA PassoTipoRitmo ==
  ASSUME TypeOK, TipoRitmo, [TNext]_tvars
  PROVE  TipoRitmo'
  <1>1. ASSUME NEW c \in Conns, NEW tratou, Mede(c, tratou), NEW A, Arma(c, A)
        PROVE  TipoRitmo'
    <2>1. \A d \in Conns : Dobra(atraso[d]) \in Nat \ {0} /\ folga[d] + 8 \in Nat
      BY DEF TipoRitmo, Dobra
    <2>2. /\ atraso' \in [Conns -> Nat \ {0}]
          /\ folga' \in [Conns -> Nat]
          /\ idade' \in [Conns -> Nat]
      BY <1>1, <2>1 DEF Mede, TipoRitmo
    <2> QED
      BY <1>1, <2>2, ArmaTipo DEF TipoRitmo
  <1>2. ASSUME NEW c \in Conns, TAceita(c) PROVE TipoRitmo'
    <2>1. /\ atraso' \in [Conns -> Nat \ {0}]
          /\ folga' \in [Conns -> Nat]
          /\ idade' \in [Conns -> Nat]
      BY <1>2 DEF TAceita, TipoRitmo
    <2> QED
      BY <1>2, <2>1, ArmaTipo DEF TAceita, TipoRitmo
  <1>3. ASSUME NEW c \in Conns, TRecebe(c) PROVE TipoRitmo'
    BY <1>3, ArmaTipo DEF TRecebe, TipoRitmo
  <1>4. ASSUME NEW c \in Conns, TRecua(c) PROVE TipoRitmo'
    <2>1. Metade(atraso[c]) \in Nat \ {0}
      BY DEF TipoRitmo, Metade, Maior
    <2>2. atraso' \in [Conns -> Nat \ {0}]
      BY <1>4, <2>1 DEF TRecua, TipoRitmo
    <2> QED
      BY <1>4, <2>2, ArmaTipo DEF TRecua, TipoRitmo
  <1>5. ASSUME NEW c \in Conns, TProcessa(c) \/ TFim(c) PROVE TipoRitmo'
    BY <1>5, <1>1 DEF TProcessa, TFim
  <1>6. ASSUME NEW m \in Nat, Passa(m) PROVE TipoRitmo'
    <2>1. ASSUME NEW c \in Conns, NEW t \in Timers
          PROVE  (IF t \in pend[c] THEN resta[c][t] - m ELSE 0) \in Nat
      BY <1>6 DEF Passa, TipoRitmo
    <2>2. resta' \in [Conns -> [Timers -> Nat]]
      BY <1>6, <2>1 DEF Passa
    <2>3. folga' \in [Conns -> Nat] /\ idade' \in [Conns -> Nat]
      BY <1>6 DEF Passa, TipoRitmo
    <2> QED
      BY <1>6, <2>2, <2>3 DEF Passa, TipoRitmo
  <1>7. CASE AteOPrazo
    <2>1. \A c \in Conns : \A t \in pend[c] : resta[c][t] \in Nat
      BY DEF TypeOK, TipoRitmo
    <2> QED
      BY <1>6, <1>7, <2>1 DEF AteOPrazo
  <1>8. CASE \E m \in Saltos : Passa(m)
    BY <1>6, <1>8, SaltosAssumption
  <1>9. CASE UNCHANGED tvars
    BY <1>9 DEF tvars, TipoRitmo
  <1> QED
    BY <1>2, <1>3, <1>4, <1>5, <1>7, <1>8, <1>9 DEF TNext

-----------------------------------------------------------------------------
(***************************************************************************)
(* The invariant of the measures.                                          *)
(***************************************************************************)

\* The age and what is left to to_ident make up its 120 seconds.
PrazoContido(c) ==
  estado[c] = "aberta" /\ ~central_identificada[c] =>
    idade[c] + resta[c]["ident"] <= 8 * 120

\* How far ahead of one message a second a connection may be, by the number
\* of doublings: the pauses still due, before the next halving and before the
\* next message, pay for what is above the bound of the delay below it.
FolgaContida(c) ==
  LET n == backoff[c]
      F == folga[c]
      b == resta[c]["backoff"]
      AntesDe(x) == "processa" \in pend[c] => F <= resta[c]["processa"] + x
  IN  /\ F <= 18
      /\ n = 0 => F = 0
      /\ n = 1 => F <= 8  /\ F <= b     /\ AntesDe(6)
      /\ n = 2 => F <= 14 /\ F <= b + 6 /\ AntesDe(10)
      /\ n = 3 =>            F <= b + 2 /\ AntesDe(10)
      /\ n >= 4 =>           F <= b     /\ AntesDe(2)

\* Frames received are in the buffer or consumed.
QuadrosContados(c) ==
  /\ recebidos[c] <= MaxQuadros
  /\ consumidos[c] + Len(recv_buf[c]) = recebidos[c]

\* With k messages consumed the delay is at most 2^k, and the time since the
\* last data together with the time to the next message is below 2^(k+1).
EsperaContida(c) ==
  \E b \in Nat \ {0} :
    /\ Potencia(consumidos[c], b)
    /\ atraso[c] <= b
    /\ estado[c] = "aberta" => resta[c]["comm"] <= 8 * 600
    /\ "processa" \in pend[c] =>
         8 * 600 + resta[c]["processa"] < 2 * b + resta[c]["comm"]

InvTempo(c) ==
  /\ estado[c] = "fechada" => Zerada(c)
  /\ Potencia(backoff[c], atraso[c])
  /\ PrazoContido(c)
  /\ FolgaContida(c)
  /\ QuadrosContados(c)
  /\ EsperaContida(c)

InvRitmo == TipoRitmo /\ \A c \in Conns : InvTempo(c)

\* What the invariants of Tratador say of one connection.
Supervisionada(c) ==
  /\ estado[c] \in {"aberta", "fechada"}
  /\ backoff[c] \in Nat /\ consumidos[c] \in Nat /\ recebidos[c] \in Nat
  /\ recv_buf[c] \in Seq(Pedaco) /\ Len(recv_buf[c]) \in Nat
  /\ backoff[c] > 0 <=> "backoff" \in pend[c]
  /\ estado[c] = "aberta" =>
       /\ "comm" \in pend[c]
       /\ "ident" \in pend[c] <=> ~central_identificada[c]
  /\ estado[c] = "fechada" =>
       /\ pend[c] = {}
       /\ recv_buf[c] = <<>>
       /\ backoff[c] = 0
  /\ recv_buf[c] # <<>> /\ Head(recv_buf[c]).completa => "processa" \in pend[c]
  /\ \A t \in Timers : resta[c][t] \in Nat
  /\ atraso[c] \in Nat \ {0} /\ idade[c] \in Nat /\ folga[c] \in Nat

\* Every connection is supervised in that sense.
LEMMA EhSupervisionada ==
  ASSUME TypeOK, InvSupervisao, TipoRitmo, NEW c \in Conns
  PROVE  Supervisionada(c)
  <1>1. recv_buf[c] \in Seq(Pedaco) /\ Len(recv_buf[c]) \in Nat
    BY DEF TypeOK
  <1> QED
    BY <1>1, SMTT(30) DEF Supervisionada, TypeOK, InvSupervisao, InvConexao, FechadaLimpa, TipoRitmo

\* The deadline of the identification is kept by every effect.
LEMMA PrazoMantido ==
  ASSUME NEW c \in Conns, Supervisionada(c), Supervisionada(c)',
         PrazoContido(c), Efeito(c)
  PROVE  PrazoContido(c)'
  <1> SUFFICES ASSUME estado'[c] = "aberta", ~central_identificada'[c]
               PROVE  idade'[c] + resta'[c]["ident"] <= 8 * 120
    BY DEF PrazoContido
  <1>1. "ident" \in pend'[c] /\ "ident" \in Timers
    BY DEF Supervisionada, Timers
  <1>2. CASE Fechou(c)
    BY <1>2 DEF Fechou
  <1>3. CASE Abriu(c)
    BY <1>3 DEF Abriu, Zerada
  <1>4. CASE Seguiu(c) \/ Recebeu(c) \/ Tratou(c) \/ Recuou(c)
    BY <1>1, <1>4 DEF Seguiu, Recebeu, Tratou, Recuou, SegueAberta, MedidasIguais,
                      PrazosIguais, PrazoContido
  <1>5. CASE Passou(c)
    <2>1. PICK m \in Nat :
            /\ \A t \in pend[c] : m <= resta[c][t] /\ resta'[c][t] = resta[c][t] - m
            /\ idade'[c] = IF estado[c] = "aberta" /\ ~central_identificada[c]
                           THEN idade[c] + m ELSE 0
      BY <1>5 DEF Passou
    <2>2. /\ estado[c] = "aberta" /\ ~central_identificada[c]
          /\ "ident" \in pend[c]
      BY <1>1, <1>5 DEF Passou
    <2> QED
      BY <1>1, <2>1, <2>2 DEF PrazoContido, Supervisionada
  <1> QED
    BY <1>2, <1>3, <1>4, <1>5 DEF Efeito

\* The delay stays the power of two that backoff counts.
LEMMA PotenciaMantida ==
  ASSUME NEW c \in Conns, Supervisionada(c), Supervisionada(c)',
         Potencia(backoff[c], atraso[c]), Efeito(c)
  PROVE  Potencia(backoff'[c], atraso'[c])
  <1>1. CASE Fechou(c)
    BY <1>1, PotenciaZero DEF Fechou, Zerada, Supervisionada
  <1>2. CASE Abriu(c)
    BY <1>2, PotenciaZero DEF Abriu, Zerada, Supervisionada
  <1>3. CASE Seguiu(c) \/ Recebeu(c) \/ Passou(c)
    BY <1>3 DEF Seguiu, Recebeu, Passou, MedidasIguais
  <1>4. CASE Tratou(c)
    BY <1>4, PotenciaDobra DEF Tratou, Supervisionada
  <1>5. CASE Recuou(c)
    <2>1. backoff[c] \in Nat \ {0}
      BY <1>5 DEF Recuou, Supervisionada
    <2>2. backoff'[c] = backoff[c] - 1 /\ atraso'[c] = Metade(atraso[c])
      BY <1>5, <2>1 DEF Recuou, Recuo
    <2> QED
      BY <2>1, <2>2, PotenciaMetade
  <1> QED
    BY <1>1, <1>2, <1>3, <1>4, <1>5 DEF Efeito

\* The frames stay accounted for.
LEMMA QuadrosMantidos ==
  ASSUME NEW c \in Conns, Supervisionada(c), Supervisionada(c)',
         QuadrosContados(c), Efeito(c)
  PROVE  QuadrosContados(c)'
  <1>1. CASE Fechou(c) \/ Abriu(c)
    BY <1>1, MaxQuadrosAssumption
       DEF Fechou, Abriu, Zerada, Supervisionada, QuadrosContados
  <1>2. CASE Seguiu(c) \/ Passou(c) \/ Recuou(c)
    BY <1>2 DEF Seguiu, Passou, Recuou, MedidasIguais, QuadrosContados
  <1>3. /\ consumidos[c] \in Nat /\ recebidos[c] \in Nat /\ Len(recv_buf[c]) \in Nat
        /\ recebidos'[c] \in Nat /\ Len(recv_buf'[c]) \in Nat
    BY DEF Supervisionada
  <1>4. CASE Recebeu(c)
    BY <1>3, <1>4, SMTT(30) DEF Recebeu, MedidasIguais, QuadrosContados
  <1>5. CASE Tratou(c)
    BY <1>3, <1>5, SMTT(30) DEF Tratou, QuadrosContados
  <1> QED
    BY <1>1, <1>2, <1>4, <1>5 DEF Efeito

\* The next message stays in time.
LEMMA EsperaMantida ==
  ASSUME NEW c \in Conns, Supervisionada(c), Supervisionada(c)',
         EsperaContida(c), Efeito(c)
  PROVE  EsperaContida(c)'
  <1>1. PICK b \in Nat \ {0} :
          /\ Potencia(consumidos[c], b)
          /\ atraso[c] <= b
          /\ estado[c] = "aberta" => resta[c]["comm"] <= 8 * 600
          /\ "processa" \in pend[c] =>
               8 * 600 + resta[c]["processa"] < 2 * b + resta[c]["comm"]
    BY DEF EsperaContida
  <1>2. /\ resta[c]["comm"] \in Nat /\ resta[c]["processa"] \in Nat
        /\ resta'[c]["comm"] \in Nat /\ resta'[c]["processa"] \in Nat
        /\ atraso[c] \in Nat \ {0}
    BY DEF Supervisionada, Timers
  <1>3. CASE Fechou(c)
    BY <1>3, PotenciaZero DEF Fechou, Zerada, Supervisionada, EsperaContida
  <1>4. CASE Abriu(c)
    <2>1. /\ consumidos'[c] = 0 /\ atraso'[c] = 1
          /\ resta'[c]["comm"] = 8 * 600
          /\ "processa" \notin pend'[c]
      BY <1>4 DEF Abriu, Zerada
    <2> QED
      BY <2>1, PotenciaZero DEF EsperaContida
  <1>5. CASE Seguiu(c)
    <2>1. /\ UNCHANGED <<consumidos[c], atraso[c], estado[c]>>
          /\ "processa" \in pend'[c] =>
               "processa" \in pend[c] /\ resta'[c]["processa"] = resta[c]["processa"]
      BY <1>5 DEF Seguiu, MedidasIguais, PrazosIguais, Timers
    <2>2. estado[c] = "aberta" => resta'[c]["comm"] = resta[c]["comm"]
      BY <1>5, <2>1 DEF Seguiu, PrazosIguais, Timers, Supervisionada
    <2>3. "processa" \in pend'[c] => estado[c] = "aberta"
      BY <2>1 DEF Supervisionada
    <2> QED
      BY <1>1, <2>1, <2>2, <2>3 DEF EsperaContida
  <1>6. CASE Recebeu(c)
    <2>1. /\ UNCHANGED <<consumidos[c], atraso[c]>>
          /\ estado[c] = "aberta"
          /\ resta'[c]["comm"] = 8 * 600
          /\ "processa" \in pend[c] => resta'[c]["processa"] = resta[c]["processa"]
          /\ "processa" \notin pend[c] => resta'[c]["processa"] = atraso[c]
      BY <1>6 DEF Recebeu, SegueAberta, MedidasIguais
    <2>2. resta'[c]["processa"] < 2 * b
      BY <1>1, <1>2, <2>1
    <2>3. 8 * 600 + resta'[c]["processa"] < 2 * b + resta'[c]["comm"]
      BY <1>2, <2>1, <2>2
    <2> QED
      BY <1>1, <2>1, <2>3 DEF EsperaContida
  <1>7. CASE Tratou(c)
    <2>1. Potencia(consumidos'[c], 2 * b) /\ 2 * b \in Nat \ {0}
      <3>1. consumidos'[c] = consumidos[c] + 1 /\ consumidos[c] \in Nat
        BY <1>7 DEF Tratou, Supervisionada
      <3>2. Potencia(consumidos[c] + 1, 2 * b)
        BY <1>1, <3>1, PotenciaDobra
      <3> QED
        BY <3>1, <3>2
    <2>2. resta'[c]["comm"] = resta[c]["comm"]
      BY <1>7 DEF Tratou, SegueAberta, PrazosIguais, Supervisionada
    <2>3. /\ "processa" \in pend[c] /\ resta[c]["processa"] = 0
          /\ estado[c] = "aberta"
          /\ atraso'[c] = 2 * atraso[c]
          /\ "processa" \in pend'[c] => resta'[c]["processa"] = 2 * atraso[c]
      BY <1>7 DEF Tratou, SegueAberta
    <2>4. 8 * 600 < 2 * b + resta[c]["comm"]
      BY <1>1, <1>2, <2>3
    <2>5. "processa" \in pend'[c] =>
            8 * 600 + resta'[c]["processa"] < 2 * (2 * b) + resta'[c]["comm"]
      BY <1>1, <1>2, <2>2, <2>3, <2>4
    <2>6. atraso'[c] <= 2 * b /\ resta'[c]["comm"] <= 8 * 600
      BY <1>1, <1>2, <2>2, <2>3
    <2> QED
      BY <2>1, <2>5, <2>6 DEF EsperaContida
  <1>8. CASE Recuou(c)
    <2>1. Metade(atraso[c]) <= b
      BY <1>1, <1>2 DEF Metade, Maior
    <2>2. /\ estado[c] = "aberta"
          /\ UNCHANGED consumidos[c]
          /\ atraso'[c] = Metade(atraso[c])
          /\ "processa" \in pend'[c] =>
               "processa" \in pend[c] /\ resta'[c]["processa"] = resta[c]["processa"]
      BY <1>8 DEF Recuou, SegueAberta, PrazosIguais
    <2>3. resta'[c]["comm"] = resta[c]["comm"]
      BY <1>8 DEF Recuou, SegueAberta, PrazosIguais, Supervisionada
    <2> QED
      BY <1>1, <2>1, <2>2, <2>3 DEF EsperaContida
  <1>9. CASE Passou(c)
    <2>1. PICK m \in Nat :
            \A t \in pend[c] : m <= resta[c][t] /\ resta'[c][t] = resta[c][t] - m
      BY <1>9 DEF Passou
    <2>2. UNCHANGED <<consumidos[c], atraso[c], estado[c], pend[c]>>
      BY <1>9 DEF Passou
    <2>3. CASE estado[c] = "aberta"
      <3>1. m <= resta[c]["comm"] /\ resta'[c]["comm"] = resta[c]["comm"] - m
        BY <2>1, <2>3 DEF Supervisionada
      <3>2. resta'[c]["comm"] <= 8 * 600
        BY <1>1, <1>2, <2>3, <3>1
      <3>3. "processa" \in pend[c] =>
              8 * 600 + resta'[c]["processa"] < 2 * b + resta'[c]["comm"]
        BY <1>1, <1>2, <2>1, <3>1
      <3> QED
        BY <1>1, <2>2, <3>2, <3>3 DEF EsperaContida
    <2>4. CASE estado[c] = "fechada"
      BY <1>1, <2>2, <2>4 DEF Supervisionada, EsperaContida
    <2> QED
      BY <2>3, <2>4 DEF Supervisionada
  <1> QED
    BY <1>3, <1>4, <1>5, <1>6, <1>7, <1>8, <1>9 DEF Efeito

\* What a connection is ahead stays covered by its pauses.
LEMMA FolgaMantida ==
  ASSUME NEW c \in Conns, Supervisionada(c), Supervisionada(c)',
         Potencia(backoff[c], atraso[c]), FolgaContida(c), Efeito(c)
  PROVE  FolgaContida(c)'
  <1>1. /\ resta[c]["backoff"] \in Nat /\ resta[c]["processa"] \in Nat
        /\ resta'[c]["backoff"] \in Nat /\ resta'[c]["processa"] \in Nat
        /\ atraso[c] \in Nat \ {0} /\ folga[c] \in Nat /\ backoff[c] \in Nat
    BY DEF Supervisionada, Timers
  <1>2. /\ backoff[c] = 0 => atraso[c] = 1
        /\ backoff[c] = 1 => atraso[c] = 2
        /\ backoff[c] = 2 => atraso[c] = 4
        /\ backoff[c] = 3 => atraso[c] = 8
        /\ backoff[c] >= 4 => atraso[c] >= 16
    BY <1>1, PotenciaValores
  <1>3. CASE Fechou(c)
    BY <1>3 DEF Fechou, Zerada, Supervisionada, FolgaContida
  <1>4. CASE Abriu(c)
    BY <1>4 DEF Abriu, Zerada, Supervisionada, FolgaContida
  <1>5. CASE Seguiu(c)
    <2>1. /\ UNCHANGED <<backoff[c], folga[c]>>
          /\ "processa" \in pend'[c] =>
               "processa" \in pend[c] /\ resta'[c]["processa"] = resta[c]["processa"]
      BY <1>5 DEF Seguiu, MedidasIguais, PrazosIguais, Timers
    <2>2. backoff[c] > 0 => resta'[c]["backoff"] = resta[c]["backoff"]
      BY <1>5, <2>1 DEF Seguiu, PrazosIguais, Timers, Supervisionada
    <2> QED
      BY <1>1, <2>1, <2>2 DEF FolgaContida
  <1>6. CASE Recebeu(c)
    <2>1. /\ UNCHANGED <<backoff[c], folga[c]>>
          /\ "processa" \in pend[c] => resta'[c]["processa"] = resta[c]["processa"]
          /\ "processa" \notin pend[c] => resta'[c]["processa"] = atraso[c]
      BY <1>6 DEF Recebeu, MedidasIguais
    <2>2. backoff[c] > 0 => resta'[c]["backoff"] = resta[c]["backoff"]
      BY <1>6, <2>1 DEF Recebeu, PrazosIguais, Supervisionada
    <2> QED
      BY <1>1, <1>2, <2>1, <2>2 DEF FolgaContida
  <1>7. CASE Tratou(c)
    <2>1. /\ "processa" \in pend[c] /\ resta[c]["processa"] = 0
          /\ resta'[c]["backoff"] = PausaRecuo(2 * atraso[c])
          /\ "processa" \in pend'[c] => resta'[c]["processa"] = 2 * atraso[c]
          /\ backoff'[c] = backoff[c] + 1
          /\ folga'[c] = folga[c] + 8
      BY <1>7 DEF Tratou
    <2>2. resta'[c]["backoff"] >= 8 /\ resta'[c]["backoff"] >= 4 * atraso[c]
      BY <1>1, <2>1 DEF PausaRecuo, Maior
    <2>3. /\ backoff[c] = 0 => folga[c] = 0
          /\ backoff[c] = 1 => folga[c] <= 6
          /\ backoff[c] \in {2, 3} => folga[c] <= 10
          /\ backoff[c] >= 4 => folga[c] <= 2
      BY <1>1, <2>1 DEF FolgaContida
    <2> QED
      BY <1>1, <1>2, <2>1, <2>2, <2>3 DEF FolgaContida
  <1>8. CASE Recuou(c)
    <2>1. /\ resta[c]["backoff"] = 0
          /\ "processa" \in pend'[c] =>
               "processa" \in pend[c] /\ resta'[c]["processa"] = resta[c]["processa"]
          /\ "backoff" \in pend'[c] => resta'[c]["backoff"] = PausaRecuo(atraso'[c])
          /\ UNCHANGED folga[c]
      BY <1>8 DEF Recuou, PrazosIguais
    <2>2. backoff[c] > 0 /\ backoff'[c] = backoff[c] - 1
      BY <1>8 DEF Recuou, Recuo, Supervisionada
    <2>3. backoff'[c] > 0 => resta'[c]["backoff"] >= 8
      BY <2>1, SMTT(30) DEF PausaRecuo, Maior, Supervisionada
    <2>4. /\ backoff[c] = 1 => folga[c] = 0
          /\ backoff[c] = 2 => folga[c] <= 6
          /\ backoff[c] = 3 => folga[c] <= 2
          /\ backoff[c] >= 4 => folga[c] = 0
      BY <1>1, <2>1 DEF FolgaContida
    <2> QED
      BY <1>1, <2>1, <2>2, <2>3, <2>4 DEF FolgaContida
  <1>9. CASE Passou(c)
    <2>1. PICK m \in Nat :
            /\ \A t \in pend[c] : m <= resta[c][t] /\ resta'[c][t] = resta[c][t] - m
            /\ folga'[c] = IF folga[c] > m THEN folga[c] - m ELSE 0
      BY <1>9 DEF Passou
    <2>2. UNCHANGED <<backoff[c], pend[c]>>
      BY <1>9 DEF Passou
    <2>3. backoff[c] > 0 =>
            m <= resta[c]["backoff"] /\ resta'[c]["backoff"] = resta[c]["backoff"] - m
      BY <2>1 DEF Supervisionada
    <2>4. "processa" \in pend[c] =>
            m <= resta[c]["processa"] /\ resta'[c]["processa"] = resta[c]["processa"] - m
      BY <2>1
    <2>5. folga'[c] \in Nat /\ folga'[c] <= folga[c]
          /\ (folga'[c] = 0 \/ folga'[c] = folga[c] - m)
      BY <1>1, <2>1
    <2> QED
      BY <1>1, <2>2, <2>3, <2>4, <2>5 DEF FolgaContida
  <1> QED
    BY <1>3, <1>4, <1>5, <1>6, <1>7, <1>8, <1>9 DEF Efeito

\* A closed slot stays clean.
LEMMA ZeradaMantida ==
  ASSUME NEW c \in Conns, estado[c] = "fechada" => Zerada(c), Efeito(c),
         Supervisionada(c), estado'[c] = "fechada"
  PROVE  Zerada(c)'
  <1>1. CASE Seguiu(c)
    BY <1>1 DEF Seguiu, MedidasIguais, Zerada
  <1>2. CASE Passou(c)
    BY <1>2 DEF Passou, Zerada
  <1>3. CASE ~Seguiu(c) /\ ~Passou(c)
    BY <1>3 DEF Efeito, Fechou, Abriu, Recebeu, Tratou, Recuou, SegueAberta
  <1> QED
    BY <1>1, <1>2, <1>3

\* The invariant of the measures holds in every state.
LEMMA RitmoSempre == TSpec => []InvRitmo
  <1>1. TInit => InvRitmo
    <2> SUFFICES ASSUME TInit PROVE InvRitmo
      OBVIOUS
    <2>1. TipoRitmo
      BY DEF TInit, TipoRitmo
    <2>2. ASSUME NEW c \in Conns PROVE InvTempo(c)
      <3>1. /\ estado[c] = "fechada" /\ pend[c] = {} /\ backoff[c] = 0
            /\ recebidos[c] = 0 /\ consumidos[c] = 0 /\ recv_buf[c] = <<>>
            /\ atraso[c] = 1 /\ idade[c] = 0 /\ folga[c] = 0
        BY DEF TInit, Init
      <3>2. QuadrosContados(c)
        BY <3>1, MaxQuadrosAssumption DEF QuadrosContados
      <3>3. EsperaContida(c)
        BY <3>1, PotenciaZero DEF EsperaContida
      <3> QED
        BY <3>1, <3>2, <3>3, PotenciaZero
           DEF InvTempo, Zerada, PrazoContido, FolgaContida
    <2> QED
      BY <2>1, <2>2 DEF InvRitmo
  <1>2. /\ TypeOK /\ InvSupervisao /\ (TypeOK /\ InvSupervisao)'
        /\ InvRitmo /\ [TNext]_tvars
        => InvRitmo'
    <2> SUFFICES ASSUME TypeOK, InvSupervisao, TypeOK', InvSupervisao',
                        InvRitmo, [TNext]_tvars
                 PROVE  InvRitmo'
      OBVIOUS
    <2>1. Base
      BY DEF Base, InvRitmo, InvTempo
    <2>2. TipoRitmo'
      BY PassoTipoRitmo DEF InvRitmo
    <2>3. ASSUME NEW c \in Conns PROVE InvTempo(c)'
      <3>1. InvTempo(c) /\ Efeito(c)
        BY <2>1, PassoEfeito DEF InvRitmo
      <3>2. Supervisionada(c)
        BY EhSupervisionada DEF InvRitmo
      <3>3. Supervisionada(c)'
        BY <2>2, EhSupervisionada, PTL
      <3>4. PrazoContido(c)' /\ QuadrosContados(c)' /\ EsperaContida(c)'
        BY <3>1, <3>2, <3>3, PrazoMantido, QuadrosMantidos, EsperaMantida DEF InvTempo
      <3>5. Potencia(backoff'[c], atraso'[c]) /\ FolgaContida(c)'
        BY <3>1, <3>2, <3>3, PotenciaMantida, FolgaMantida DEF InvTempo
      <3>6. estado'[c] = "fechada" => Zerada(c)'
        BY <3>1, <3>2, ZeradaMantida DEF InvTempo
      <3> QED
        BY <3>4, <3>5, <3>6 DEF InvTempo
    <2> QED
      BY <2>2, <2>3 DEF InvRitmo
  <1> QED
    BY <1>1, <1>2, BaseTemporizada, PTL DEF TSpec

\* The delay that a connection keeps is the minimum doubled as many times as
\* backoff counts, so the counter of Tratador says what self.backoff holds.
THEOREM AtrasoSempreConferido ==
  TSpec => [](\A c \in Conns : Potencia(backoff[c], atraso[c]))
  <1>1. InvRitmo => \A c \in Conns : Potencia(backoff[c], atraso[c])
    BY DEF InvRitmo, InvTempo
  <1> QED
    BY <1>1, RitmoSempre, PTL

\* A panel that never identifies itself is gone after 120 seconds.
THEOREM PrazoSempreCumprido == TSpec => []PrazoIdentificacao
  <1>1. TypeOK /\ InvSupervisao /\ InvRitmo => PrazoIdentificacao
    <2> SUFFICES ASSUME TypeOK, InvSupervisao, InvRitmo, NEW c \in Conns,
                        estado[c] = "aberta", ~central_identificada[c]
                 PROVE  idade[c] <= 8 * 120
      BY DEF PrazoIdentificacao
    <2>1. idade[c] + resta[c]["ident"] <= 8 * 120
      BY DEF InvRitmo, InvTempo, PrazoContido
    <2>2. idade[c] \in Nat /\ resta[c]["ident"] \in Nat
      BY DEF InvRitmo, TipoRitmo, Timers
    <2> QED
      BY <2>1, <2>2
  <1> QED
    BY <1>1, RitmoSempre, BaseTemporizada, PTL

\* The backoff holds a connection to one message a second and a burst of less
\* than three, whatever it sends and whenever.
THEOREM VazaoSempreLimitada == TSpec => []VazaoLimitada
  <1>1. InvRitmo => VazaoLimitada
    <2> SUFFICES ASSUME InvRitmo, NEW c \in Conns PROVE folga[c] < 8 * 3
      BY DEF VazaoLimitada
    <2>1. folga[c] \in Nat /\ folga[c] <= 18
      BY DEF InvRitmo, TipoRitmo, InvTempo, FolgaContida
    <2> QED
      BY <2>1
  <1> QED
    BY <1>1, RitmoSempre, PTL

\* With no more than twelve frames on a connection, to_comm never closes it
\* while a whole message waits: the eleven messages before it have not made
\* the delays add up to ten minutes.
THEOREM MensagemSempreAntes ==
  ASSUME MaxQuadros <= 12
  PROVE  TSpec => []MensagemAntesDoTimeout
  <1>1. TypeOK /\ InvSupervisao /\ InvRitmo => MensagemAntesDoTimeout
    <2> SUFFICES ASSUME TypeOK, InvSupervisao, InvRitmo, NEW c \in Conns,
                        recv_buf[c] # <<>>, Head(recv_buf[c]).completa
                 PROVE  resta[c]["processa"] < resta[c]["comm"]
      BY DEF MensagemAntesDoTimeout
    <2>1. /\ "processa" \in pend[c]
          /\ recv_buf[c] \in Seq(Pedaco)
          /\ consumidos[c] \in Nat /\ recebidos[c] \in Nat
      BY EhSupervisionada DEF Supervisionada, InvRitmo
    <2>2. Len(recv_buf[c]) \in Nat \ {0}
      BY <2>1
    <2>3. consumidos[c] \in 0 .. 11
      <3>1. /\ recebidos[c] <= MaxQuadros
            /\ consumidos[c] + Len(recv_buf[c]) = recebidos[c]
        BY DEF InvRitmo, InvTempo, QuadrosContados
      <3>2. consumidos[c] <= 11
        BY <2>1, <2>2, <3>1, MaxQuadrosAssumption
      <3> QED
        BY <2>1, <3>2, SMTT(30)
    <2>4. PICK b \in Nat \ {0} :
            /\ Potencia(consumidos[c], b)
            /\ 8 * 600 + resta[c]["processa"] < 2 * b + resta[c]["comm"]
      BY <2>1 DEF InvRitmo, InvTempo, EsperaContida
    <2>5. b <= 2048
      BY <2>3, <2>4, PotenciaOnze
    <2>6. resta[c]["processa"] \in Nat /\ resta[c]["comm"] \in Nat
      BY DEF InvRitmo, TipoRitmo, Timers
    <2> QED
      BY <2>4, <2>5, <2>6
  <1> QED
    BY <1>1, RitmoSempre, BaseTemporizada, PTL
=============================================================================
