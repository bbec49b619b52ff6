-------------------------- MODULE ReceptorIPProofs --------------------------
(***************************************************************************)
(* What is proved of the connections holds in the whole receptorip         *)
(* program, with its timers, its crashes and its restarts.                 *)
(***************************************************************************)
EXTENDS ReceptorIP, TratadorProofs

\* The invariants of the connections, together.
InvConexoes ==
  /\ TypeOK
  /\ InvSupervisao
  /\ MaxConnRespeitado
  /\ \A c \in Conns : InvConta(c) /\ InvResposta(c)

\* A callback of a connection keeps them, as shown for Tratador.
LEMMA PassoConexoes ==
  ASSUME InvConexoes, NEW c \in Conns, Passo(c)
  PROVE  InvConexoes'
  <1>1. TypeOK'
    BY PassoTipo DEF InvConexoes
  <1>2. InvSupervisao'
    BY PassoSupervisao DEF InvConexoes
  <1>3. MaxConnRespeitado'
    BY PassoLimite DEF InvConexoes
  <1>4. \A d \in Conns : InvConta(d)'
    BY PassoConta DEF InvConexoes
  <1>5. \A d \in Conns : InvResposta(d)'
    BY PassoResposta DEF InvConexoes
  <1> QED
    BY <1>1, <1>2, <1>3, <1>4, <1>5 DEF InvConexoes

\* The process stops and every connection with it.
LEMMA ParaConexoes ==
  ASSUME InvConexoes, Para
  PROVE  InvConexoes'
  <1>1. Destroi(Conns) /\ Conns \in SUBSET Conns /\ processo' = "morto"
    BY DEF Para
  <1>2. TypeOK'
    BY <1>1, DestroiTipo DEF InvConexoes
  <1>3. \A d \in Conns : estado'[d] = "fechada"
    BY <1>1 DEF Destroi
  <1>4. \A d \in Conns : InvConexao(d)'
    BY <1>1, DestroiInv DEF InvConexoes, InvSupervisao
  <1>5. MaxConnRespeitado'
    <2>1. identificadas' \subseteq identificadas
      BY <1>3 DEF identificadas
    <2> QED
      BY <2>1, MenosIdentificadas DEF InvConexoes
  <1>6. \A d \in Conns : InvConta(d)'
    BY <1>1, DestroiConta DEF InvConexoes
  <1>7. \A d \in Conns : InvResposta(d)'
    BY <1>1, DestroiResposta DEF InvConexoes
  <1> QED
    BY <1>2, <1>3, <1>4, <1>5, <1>6, <1>7 DEF InvConexoes, InvSupervisao

\* A step that leaves the connections alone and does not stop the process.
LEMMA ParadoConexoes ==
  ASSUME InvConexoes, UNCHANGED conexao,
         processo' = processo \/ processo' = "rodando"
  PROVE  InvConexoes'
  <1>1. TypeOK'
    BY DEF InvConexoes, TypeOK, conexao
  <1>2. \A d \in Conns : Intacta(d) /\ IntactaConta(d)
    BY DEF conexao, Intacta, IntactaConta
  <1>3. \A d \in Conns : InvConexao(d)'
    BY <1>2, IntactaInv DEF InvConexoes, InvSupervisao
  <1>4. InvSupervisao'
    BY <1>3 DEF InvConexoes, InvSupervisao, conexao
  <1>5. MaxConnRespeitado'
    BY MenosIdentificadas DEF InvConexoes, identificadas, conexao
  <1>6. \A d \in Conns : InvConta(d)' /\ InvResposta(d)'
    BY <1>2, IntactaContaInv, IntactaResposta DEF InvConexoes
  <1> QED
    BY <1>1, <1>4, <1>5, <1>6 DEF InvConexoes

\* The invariants of the connections hold in every state of the program.
LEMMA ConexoesSempre == RSpec => []InvConexoes
  <1>1. RInit => InvConexoes
    <2> SUFFICES ASSUME Init PROVE InvConexoes
      BY DEF RInit
    <2>1. TypeOK
      BY DEF Init, TypeOK
    <2>2. InvSupervisao
      BY DEF Init, InvSupervisao, InvConexao, FechadaLimpa
    <2>3. identificadas = {}
      BY DEF Init, identificadas
    <2>4. MaxConnRespeitado
      BY <2>3, FS_EmptySet, MaxconnAssumption
         DEF MaxConnRespeitado, centrais_conectadas
    <2>5. \A c \in Conns : InvConta(c) /\ InvResposta(c)
      BY DEF Init, InvConta, InvResposta
    <2> QED
      BY <2>1, <2>2, <2>4, <2>5 DEF InvConexoes
  <1>2. InvConexoes /\ [RNext]_rvars => InvConexoes'
    <2> SUFFICES ASSUME InvConexoes, [RNext]_rvars PROVE InvConexoes'
      OBVIOUS
    <2>1. CASE \E c \in Conns : Sessao(c)
      BY <2>1, PassoConexoes DEF Sessao
    <2>2. CASE Para
      BY <2>2, ParaConexoes
    <2>3. CASE Inicia
      BY <2>3, ParadoConexoes DEF Inicia, Reinicia
    <2>4. CASE watchdog \/ central_nao_conectada \/ UNCHANGED rvars
      BY <2>4, ParadoConexoes DEF watchdog, central_nao_conectada, rvars, vars
    <2> QED
      BY <2>1, <2>2, <2>3, <2>4 DEF RNext
  <1> QED
    BY <1>1, <1>2, PTL DEF RSpec

\* The limit of identified panels holds across crashes and restarts: what the
\* hourly alarm counts is never above it.
THEOREM LimiteNoPrograma == RSpec => []MaxConnRespeitado
  <1>1. InvConexoes => MaxConnRespeitado
    BY DEF InvConexoes
  <1> QED
    BY <1>1, ConexoesSempre, PTL

\* One answer for each consumed frame, also after a crash and a restart.
THEOREM RespostasNoPrograma == RSpec => []RespostasConferem
  <1>1. InvConexoes => RespostasConferem
    BY DEF InvConexoes, InvResposta, RespostasConferem, IdentsCertas
  <1> QED
    BY <1>1, ConexoesSempre, PTL

\* No connection without its deadlines and no timer without its connection,
\* wherever the process stopped and was started again.
THEOREM SupervisaoNoPrograma ==
  RSpec => [](TimersCoerentes /\ BufferSupervisionado /\ ConexaoSupervisionada)
  <1>1. InvConexoes =>
          TimersCoerentes /\ BufferSupervisionado /\ ConexaoSupervisionada
    BY DEF InvConexoes, InvSupervisao, InvConexao, FechadaLimpa,
           TimersCoerentes, BufferSupervisionado, ConexaoSupervisionada
  <1> QED
    BY <1>1, ConexoesSempre, PTL
=============================================================================
