---------------------------- MODULE FotosProofs -----------------------------
(***************************************************************************)
(* Proofs about Fotos, for any set of photos, number of attempts, bounds   *)
(* and object identities.                                                  *)
(***************************************************************************)
EXTENDS Fotos, TLAPS

Item == [foto : Fotos, tentativas : 1 .. Tentativas]

\* With no process there is nothing in memory.
MortoVazio ==
  processo = "morto" => fila = <<>> /\ task = "nenhuma" /\ Ativos = {}

\* The invariants are proved together: that results settle the right photo
\* (DownloadDaCabeca) rests on there being one download, which rests on the
\* timer being spent while it lasts.
Inv ==
  /\ TypeOK
  /\ UmDownloadPorVez
  /\ DownloadDaCabeca
  /\ FilaSupervisionada
  /\ JpegEmOrdem
  /\ MortoVazio

-----------------------------------------------------------------------------
\* The head of a queue that is not empty is an item of it.
LEMMA CabecaTipo ==
  ASSUME TypeOK, fila # <<>>
  PROVE  /\ Head(fila) \in Item /\ fila[1] = Head(fila)
         /\ Head(fila).foto \in Fotos
         /\ Head(fila).tentativas \in 1 .. Tentativas
         /\ Tail(fila) \in Seq(Item)
         /\ 1 \in 1 .. Len(fila)
  <1>1. fila \in Seq(Item)
    BY DEF TypeOK, Item
  <1>2. Head(fila) \in Item /\ Tail(fila) \in Seq(Item) /\ 1 \in 1 .. Len(fila)
        /\ fila[1] = Head(fila)
    BY <1>1
  <1> QED
    BY <1>2 DEF Item

\* What a result does to the queue and to the last outcome.
LEMMA ResultadoTipo ==
  ASSUME TypeOK, fila # <<>>, NEW d \in Ids, NEW s \in {0, 1, 2},
         foto[d] \in Fotos, resultado_foto(d, s)
  PROVE  /\ fila' \in Seq(Item)
         /\ ultimo' \in {<<>>} \cup (Fotos \X {"sucesso", "fatal", "esgotada"})
         /\ task' = "pendente"
  <1>1. task' = "pendente"
    BY DEF resultado_foto, TaskAposResultado
  <1>2. CASE s = 1 /\ ~Esgotou(Head(fila))
    <2> DEFINE novo == [foto |-> fila[1].foto, tentativas |-> fila[1].tentativas - 1]
    <2>1. novo \in Item
      BY <1>2, CabecaTipo, TentativasAssumption DEF Item, Esgotou
    <2>2. fila \in Seq(Item)
      BY DEF TypeOK, Item
    <2>3. fila' = [fila EXCEPT ![1] = novo] /\ ultimo' = ultimo
      BY <1>2 DEF resultado_foto
    <2> HIDE DEF novo
    <2>4. fila' \in Seq(Item)
      BY <2>1, <2>2, <2>3
    <2> QED
      BY <1>1, <2>3, <2>4 DEF TypeOK
  <1>3. CASE ~(s = 1 /\ ~Esgotou(Head(fila)))
    <2>1. fila' \in Seq(Item)
      BY <1>3, CabecaTipo DEF resultado_foto
    <2>2. ultimo' \in Fotos \X {"sucesso", "fatal", "esgotada"}
      <3>1. CASE s = 0
        BY <1>3, <3>1 DEF resultado_foto
      <3>2. CASE s = 1
        BY <1>3, <3>2 DEF resultado_foto
      <3>3. CASE s = 2
        BY <1>3, <3>3 DEF resultado_foto
      <3> QED
        BY <3>1, <3>2, <3>3
    <2> QED
      BY <1>1, <2>1, <2>2
  <1> QED
    BY <1>2, <1>3

\* Destroying the download, whatever its result, keeps the invariant.
LEMMA DestroyInv ==
  ASSUME Inv, NEW d \in Ids, fase[d] # "livre", processo = "rodando",
         NEW s \in {0, 1, 2}, destroy(d, s)
  PROVE  Inv'
  <1>1. d \in Ativos /\ fila # <<>> /\ foto[d] = Head(fila).foto
    BY DEF Inv, DownloadDaCabeca, Ativos
  <1>2. /\ fila' \in Seq(Item)
        /\ ultimo' \in {<<>>} \cup (Fotos \X {"sucesso", "fatal", "esgotada"})
        /\ task' = "pendente"
    BY <1>1, CabecaTipo, ResultadoTipo DEF Inv, destroy
  <1>3. TypeOK'
    BY <1>2 DEF Inv, TypeOK, Item, destroy, Fases
  <1>4. Ativos' = {}
    BY <1>1 DEF Inv, UmDownloadPorVez, TypeOK, Ativos, destroy
  <1>5. JpegEmOrdem'
    BY DEF Inv, JpegEmOrdem, TypeOK, destroy
  <1>6. processo' = "rodando"
    BY DEF destroy
  <1> QED
    BY <1>2, <1>3, <1>4, <1>5, <1>6
       DEF Inv, UmDownloadPorVez, DownloadDaCabeca, FilaSupervisionada, MortoVazio

\* A download that goes on to phase f, its deadline renewed, with the photo
\* and the queue untouched.
LEMMA EsperaInv ==
  ASSUME Inv, NEW d \in Ids, fase[d] # "livre", processo = "rodando",
         NEW f \in Fases \ {"livre"}, Espera(d, f),
         status' \in [Ids -> {0, 1, 2}], jpeg' \in [Ids -> Seq(Nat)], JpegEmOrdem'
  PROVE  Inv'
  <1>1. TypeOK'
    BY DEF Inv, TypeOK, Espera, Fases
  <1>2. Ativos' = Ativos
    BY DEF Inv, TypeOK, Ativos, Espera
  <1>3. \A e \in Ativos : conn_timeout'[e]
    BY DEF Inv, TypeOK, FilaSupervisionada, Ativos, Espera
  <1> QED
    BY <1>1, <1>2, <1>3
       DEF Inv, UmDownloadPorVez, DownloadDaCabeca, FilaSupervisionada,
           MortoVazio, Espera

\* The end of the process, which empties everything, keeps the invariant.
LEMMA MorreInv ==
  ASSUME Inv, Morre
  PROVE  Inv'
  <1>1. TypeOK'
    BY DEF Inv, TypeOK, Morre, SemDownloads, Vazio, Fases
  <1>2. Ativos' = {}
    BY DEF Morre, SemDownloads, Vazio, Ativos
  <1>3. JpegEmOrdem'
    BY DEF Morre, SemDownloads, Vazio, JpegEmOrdem
  <1> QED
    BY <1>1, <1>2, <1>3
       DEF Inv, UmDownloadPorVez, DownloadDaCabeca, FilaSupervisionada,
           MortoVazio, Morre

-----------------------------------------------------------------------------
\* Every step keeps the invariant.
LEMMA PassoInv ==
  ASSUME Inv, Next
  PROVE  Inv'
  <1> USE DEF Fases
  <1>1. CASE Reinicia
    BY <1>1 DEF Reinicia, download, Inv, TypeOK, UmDownloadPorVez,
       DownloadDaCabeca, FilaSupervisionada, JpegEmOrdem, MortoVazio, Ativos
  <1>2. ASSUME NEW f \in Fotos, enfileirar(f) PROVE Inv'
    <2> DEFINE novo == [foto |-> f, tentativas |-> Tentativas]
    <2>1. fila \in Seq(Item) /\ novo \in Item
      BY TentativasAssumption DEF Inv, TypeOK, Item
    <2>2. fila' = Append(fila, novo) /\ UNCHANGED <<processo, download, ultimo>>
      BY <1>2 DEF enfileirar
    <2> HIDE DEF novo
    <2>3. fila' \in Seq(Item) /\ fila' # <<>>
      BY <2>1, <2>2
    <2>4. fila # <<>> => Head(fila') = Head(fila)
      BY <2>1, <2>2
    <2>5. TypeOK'
      BY <1>2, <2>2, <2>3 DEF Inv, TypeOK, Item, enfileirar, TaskAoEnfileirar, download
    <2>6. Ativos' = Ativos /\ foto' = foto /\ conn_timeout' = conn_timeout
      BY <2>2 DEF Ativos, download
    <2>7. JpegEmOrdem'
      BY <2>2 DEF Inv, JpegEmOrdem, download
    <2>8. UmDownloadPorVez'
      BY <1>2, <2>6 DEF Inv, UmDownloadPorVez, enfileirar, TaskAoEnfileirar
    <2>9. DownloadDaCabeca'
      BY <2>3, <2>4, <2>6 DEF Inv, DownloadDaCabeca
    <2>10. FilaSupervisionada'
      BY <1>2, <2>6
         DEF Inv, FilaSupervisionada, TypeOK, enfileirar, TaskAoEnfileirar
    <2>11. MortoVazio'
      BY <1>2 DEF MortoVazio, enfileirar
    <2> QED
      BY <2>5, <2>7, <2>8, <2>9, <2>10, <2>11 DEF Inv
  <1>3. CASE SemFotos
    BY <1>3 DEF SemFotos, download, Inv, TypeOK, UmDownloadPorVez,
       DownloadDaCabeca, FilaSupervisionada, JpegEmOrdem, MortoVazio, Ativos
  <1>4. CASE ConexaoImpossivel
    BY <1>4, MorreInv DEF ConexaoImpossivel
  <1>5. ASSUME NEW d \in Ids, obtem_foto(d) PROVE Inv'
    <2>1. Ativos = {} /\ fila # <<>> /\ Head(fila).foto \in Fotos
      BY <1>5, CabecaTipo DEF obtem_foto, Inv, UmDownloadPorVez
    <2>2. TypeOK'
      BY <1>5, <2>1 DEF obtem_foto, ProximaFoto, Inv, TypeOK
    <2>3. Ativos' = {d}
      BY <1>5, <2>1 DEF obtem_foto, Ativos, Inv, TypeOK
    <2>4. JpegEmOrdem'
      BY <1>5 DEF obtem_foto, Inv, TypeOK, JpegEmOrdem
    <2> QED
      BY <1>5, <2>1, <2>2, <2>3, <2>4
         DEF obtem_foto, ProximaFoto, Inv, TypeOK, UmDownloadPorVez,
             DownloadDaCabeca, FilaSupervisionada, MortoVazio
  <1>6. ASSUME NEW d \in Ids, ConexaoFeita(d) PROVE Inv'
    <2>1. JpegEmOrdem'
      BY <1>6 DEF ConexaoFeita, Espera, Ativo, Inv, TypeOK, JpegEmOrdem
    <2> QED
      BY <1>6, <2>1, EsperaInv DEF ConexaoFeita, Ativo, Inv, TypeOK
  <1>7. ASSUME NEW d \in Ids, ConexaoFalhou(d) PROVE Inv'
    BY <1>7, DestroyInv DEF ConexaoFalhou, Ativo
  <1>8. ASSUME NEW d \in Ids, TrataTimeout(d) PROVE Inv'
    <2>1. StatusTimeout(status[d]) \in {0, 1, 2}
      BY DEF StatusTimeout, Inv, TypeOK
    <2> QED
      BY <1>8, <2>1, DestroyInv DEF TrataTimeout
  <1>9. ASSUME NEW d \in Ids, Queda(d) \/ RespostaRuim(d) PROVE Inv'
    <2>1. status[d] \in {0, 1, 2}
      BY DEF Inv, TypeOK
    <2> QED
      BY <1>9, <2>1, DestroyInv DEF Queda, RespostaRuim
  <1>10. ASSUME NEW d \in Ids, nak(d) PROVE Inv'
    BY <1>10, DestroyInv DEF nak
  <1>11. ASSUME NEW d \in Ids, resposta_autenticacao(d) PROVE Inv'
    <2>1. JpegEmOrdem' /\ jpeg' \in [Ids -> Seq(Nat)]
      BY <1>11 DEF resposta_autenticacao, Espera, Ativo, Inv, TypeOK, JpegEmOrdem
    <2> QED
      BY <1>11, <2>1, EsperaInv DEF resposta_autenticacao, Ativo, Inv, TypeOK
  <1>12. ASSUME NEW d \in Ids, NEW f \in Fotos,
                NEW n \in 0 .. MaxFragmentos, NEW total \in 0 .. MaxFragmentos,
                \/ FragmentoErrado(d, f, n)
                \/ FragmentoParcial(d, f, n, total)
                \/ UltimoFragmento(d, f, n, total)
                \/ FalhaAoSalvar(d, f, n, total)
         PROVE  Inv'
    <2>1. CASE FragmentoErrado(d, f, n)
      <3>1. status[d] \in {0, 1, 2}
        BY DEF Inv, TypeOK
      <3> QED
        BY <2>1, <3>1, DestroyInv DEF FragmentoErrado, Ativo
    <2>2. CASE FalhaAoSalvar(d, f, n, total)
      BY <2>2, MorreInv DEF FalhaAoSalvar
    <2>3. ASSUME FragmentoEsperado(d, f, n), jpeg' = [jpeg EXCEPT ![d] = Append(@, n)]
          PROVE  /\ jpeg' \in [Ids -> Seq(Nat)]
                 /\ \A e \in Ids : \A i \in 1 .. Len(jpeg'[e]) : jpeg'[e][i] = i
      <3>1. jpeg[d] \in Seq(Nat) /\ n \in Nat /\ n = Len(jpeg[d]) + 1
        BY <2>3, BoundsAssumption
           DEF Inv, TypeOK, FragmentoEsperado, fragmento_corrente
      <3>2. jpeg' \in [Ids -> Seq(Nat)]
        BY <2>3, <3>1 DEF Inv, TypeOK
      <3>3. \A i \in 1 .. Len(jpeg'[d]) : jpeg'[d][i] = i
        BY <2>3, <3>1 DEF Inv, TypeOK, JpegEmOrdem
      <3>4. \A e \in Ids \ {d} : jpeg'[e] = jpeg[e]
        BY <2>3 DEF Inv, TypeOK
      <3> QED
        BY <3>2, <3>3, <3>4 DEF Inv, JpegEmOrdem
    <2>4. CASE FragmentoParcial(d, f, n, total)
      <3>1. JpegEmOrdem' /\ jpeg' \in [Ids -> Seq(Nat)]
        BY <2>3, <2>4 DEF FragmentoParcial, Espera, Ativo, Inv, TypeOK, JpegEmOrdem
      <3> QED
        BY <2>4, <3>1, EsperaInv DEF FragmentoParcial, Ativo, Inv, TypeOK
    <2>5. CASE UltimoFragmento(d, f, n, total)
      <3>1. \A e \in Ids : status'[e] = 0 <=> fase'[e] = "despedindo"
        BY <2>5 DEF UltimoFragmento, Espera, Inv, TypeOK, JpegEmOrdem
      <3>2. JpegEmOrdem' /\ jpeg' \in [Ids -> Seq(Nat)]
        BY <2>3, <2>5, <3>1 DEF UltimoFragmento, JpegEmOrdem
      <3>3. status' \in [Ids -> {0, 1, 2}]
        BY <2>5 DEF UltimoFragmento, Inv, TypeOK
      <3> QED
        BY <2>5, <3>2, <3>3, EsperaInv DEF UltimoFragmento, Ativo
    <2> QED
      BY <1>12, <2>1, <2>2, <2>4, <2>5
  <1> QED
    BY <1>1, <1>2, <1>3, <1>4, <1>5, <1>6, <1>7, <1>8, <1>9, <1>10, <1>11, <1>12
       DEF Next, resposta_comando_in

\* The inductive invariant of the photo downloader holds always.
LEMMA InvarianteTotal == Spec => []Inv
  <1>1. Init => Inv
    BY DEF Init, Inv, TypeOK, UmDownloadPorVez, DownloadDaCabeca, Fases,
           FilaSupervisionada, JpegEmOrdem, MortoVazio, Ativos, Vazio
  <1>2. Inv /\ [Next]_vars => Inv'
    <2> SUFFICES ASSUME Inv, [Next]_vars PROVE Inv'
      OBVIOUS
    <2>1. CASE Next
      BY <2>1, PassoInv
    <2>2. CASE UNCHANGED vars
      BY <2>2 DEF vars, download, Inv, TypeOK, UmDownloadPorVez,
         DownloadDaCabeca, FilaSupervisionada, JpegEmOrdem, MortoVazio, Ativos
    <2> QED
      BY <2>1, <2>2
  <1> QED
    BY <1>1, <1>2, PTL DEF Spec

\* Type correctness: in particular, a queued photo has from 1 to Tentativas
\* attempts left.
THEOREM TipoFotos == Spec => []TypeOK
  <1>1. Inv => TypeOK
    BY DEF Inv
  <1> QED
    BY <1>1, InvarianteTotal, PTL

\* obtem_foto never starts a download while another one is alive.
THEOREM UmDeCadaVez == Spec => []UmDownloadPorVez
  <1>1. Inv => UmDownloadPorVez
    BY DEF Inv
  <1> QED
    BY <1>1, InvarianteTotal, PTL

\* resultado_foto always settles the photo that was downloaded.
THEOREM CabecaCerta == Spec => []DownloadDaCabeca
  <1>1. Inv => DownloadDaCabeca
    BY DEF Inv
  <1> QED
    BY <1>1, InvarianteTotal, PTL

\* A queued photo always has a timer or a download, and a download a deadline.
THEOREM FilaSempreSupervisionada == Spec => []FilaSupervisionada
  <1>1. Inv => FilaSupervisionada
    BY DEF Inv
  <1> QED
    BY <1>1, InvarianteTotal, PTL

\* Files hold the fragments in order, and only a written file is a success.
THEOREM JpegSempreEmOrdem == Spec => []JpegEmOrdem
  <1>1. Inv => JpegEmOrdem
    BY DEF Inv
  <1> QED
    BY <1>1, InvarianteTotal, PTL

-----------------------------------------------------------------------------
(***************************************************************************)
(* The detailed specification implements FilaFotos.  Only the steps that   *)
(* queue a photo, destroy a download or end the process change what the    *)
(* abstract queue shows.                                                   *)
(***************************************************************************)

\* A result changes the queue as FilaFotos allows.
LEMMA DestroyAbstrato ==
  ASSUME Inv, NEW d \in Ids, fase[d] # "livre", NEW s \in {0, 1, 2}, destroy(d, s)
  PROVE  Abstrata!FNext
  <1>1. fila # <<>> /\ foto[d] = Head(fila).foto
    BY DEF Inv, DownloadDaCabeca, Ativos
  <1>2. Head(fila).tentativas \in Nat
    BY <1>1, CabecaTipo, TentativasAssumption DEF Inv
  <1>3. CASE s = 0
    <2>1. Abstrata!Obtida
      BY <1>1, <1>3 DEF destroy, resultado_foto, Abstrata!Obtida, Abstrata!Sai
    <2> QED
      BY <2>1 DEF Abstrata!FNext
  <1>4. CASE s = 2
    <2>1. Abstrata!Recusada
      BY <1>1, <1>4 DEF destroy, resultado_foto, Abstrata!Recusada, Abstrata!Sai
    <2> QED
      BY <2>1 DEF Abstrata!FNext
  <1>5. CASE s = 1 /\ Esgotou(Head(fila))
    <2>1. Head(fila).tentativas <= 1
      BY <1>2, <1>5 DEF Esgotou
    <2>2. Abstrata!Esgotada
      BY <1>1, <1>5, <2>1
         DEF destroy, resultado_foto, Abstrata!Esgotada, Abstrata!Sai
    <2> QED
      BY <2>2 DEF Abstrata!FNext
  <1>6. CASE s = 1 /\ ~Esgotou(Head(fila))
    <2>1. Head(fila).tentativas > 1
      BY <1>2, <1>6 DEF Esgotou
    <2>2. Abstrata!TentaDepois
      BY <1>1, <1>6, <2>1 DEF destroy, resultado_foto, Abstrata!TentaDepois
    <2> QED
      BY <2>2 DEF Abstrata!FNext
  <1> QED
    BY <1>3, <1>4, <1>5, <1>6

\* A step that does not destroy a download queues a photo, loses the queue or
\* is invisible in the abstract one.
LEMMA PassoDestroi ==
  ASSUME Inv, Next
  PROVE  \/ \E d \in Ids : \E s \in {0, 1, 2} :
              /\ fase[d] # "livre"
              /\ fase[d] = "despedindo" => s = 0
              /\ destroy(d, s)
         \/ \E f \in Fotos : enfileirar(f)
         \/ Morre
         \/ UNCHANGED <<fila, ultimo>> /\ \A d \in Ids :
              fase[d] = "despedindo" => fase'[d] = "despedindo"
  <1> DEFINE Destroi(d) == \E s \in {0, 1, 2} :
                /\ fase[d] # "livre"
                /\ fase[d] = "despedindo" => s = 0
                /\ destroy(d, s)
             Invisivel == UNCHANGED <<fila, ultimo>> /\ \A d \in Ids :
                fase[d] = "despedindo" => fase'[d] = "despedindo"
  <1>1. CASE Reinicia \/ SemFotos
    BY <1>1 DEF Reinicia, SemFotos, download
  <1>2. CASE ConexaoImpossivel
    BY <1>2 DEF ConexaoImpossivel
  <1>3. ASSUME NEW d \in Ids, obtem_foto(d) PROVE Invisivel
    BY <1>3 DEF obtem_foto, Inv, TypeOK
  <1>4. ASSUME NEW d \in Ids, ConexaoFeita(d) \/ resposta_autenticacao(d) PROVE Invisivel
    BY <1>4 DEF ConexaoFeita, resposta_autenticacao, Espera, Ativo, Inv, TypeOK
  <1>5. ASSUME NEW d \in Ids, ConexaoFalhou(d) \/ nak(d) PROVE Destroi(d)
    BY <1>5 DEF ConexaoFalhou, nak, Ativo
  <1>6. ASSUME NEW d \in Ids, TrataTimeout(d) PROVE Destroi(d)
    <2>1. /\ StatusTimeout(status[d]) \in {0, 1, 2}
          /\ fase[d] = "despedindo" => StatusTimeout(status[d]) = 0
      BY DEF StatusTimeout, Inv, TypeOK, JpegEmOrdem
    <2> QED
      BY <1>6, <2>1 DEF TrataTimeout
  <1>7. ASSUME NEW d \in Ids PROVE /\ status[d] \in {0, 1, 2}
                                   /\ fase[d] = "despedindo" => status[d] = 0
    BY DEF Inv, TypeOK, JpegEmOrdem
  <1>8. ASSUME NEW d \in Ids, Queda(d) \/ RespostaRuim(d) PROVE Destroi(d)
    BY <1>7, <1>8 DEF Queda, RespostaRuim
  <1>9. ASSUME NEW d \in Ids, NEW f, NEW n, FragmentoErrado(d, f, n) PROVE Destroi(d)
    BY <1>7, <1>9 DEF FragmentoErrado, Ativo
  <1>10. ASSUME NEW d \in Ids, NEW f, NEW n, NEW total,
                FragmentoParcial(d, f, n, total) \/ UltimoFragmento(d, f, n, total)
         PROVE  Invisivel
    BY <1>10 DEF FragmentoParcial, UltimoFragmento, Espera, Ativo, Inv, TypeOK
  <1>11. ASSUME NEW d \in Ids, NEW f, NEW n, NEW total, FalhaAoSalvar(d, f, n, total)
         PROVE  Morre
    BY <1>11 DEF FalhaAoSalvar
  <1> QED
    BY <1>1, <1>2, <1>3, <1>4, <1>5, <1>6, <1>8, <1>9, <1>10, <1>11
       DEF Next, resposta_comando_in

\* The program implements the promised queue: first in first out, results only
\* for the head, a bounded number of attempts.
THEOREM FotosImplementaFila == Spec => ImplementaFila
  <1>1. Init => Abstrata!FInit
    BY DEF Init, Abstrata!FInit
  <1>2. Inv /\ [Next]_vars => [Abstrata!FNext]_<<fila, ultimo>>
    <2> SUFFICES ASSUME Inv, [Next]_vars
                 PROVE  Abstrata!FNext \/ UNCHANGED <<fila, ultimo>>
      OBVIOUS
    <2>1. CASE \E d \in Ids : \E s \in {0, 1, 2} : fase[d] # "livre" /\ destroy(d, s)
      BY <2>1, DestroyAbstrato
    <2>2. CASE \E f \in Fotos : enfileirar(f)
      BY <2>2 DEF enfileirar, Abstrata!FNext, Abstrata!Enfileira
    <2>3. CASE Morre
      BY <2>3 DEF Morre, Abstrata!FNext, Abstrata!Perde
    <2>4. CASE UNCHANGED vars
      BY <2>4 DEF vars
    <2> QED
      BY <2>1, <2>2, <2>3, <2>4, PassoDestroi
  <1> QED
    BY <1>1, <1>2, InvarianteTotal, PTL DEF Spec, ImplementaFila, Abstrata!FSpec

\* A photo whose file was written leaves the queue as a success.
THEOREM SalvaSai == Spec => SalvaEhSucesso
  <1> DEFINE A(d) == fase[d] = "despedindo" /\ fase'[d] # "despedindo" /\ processo' = "rodando"
                       => ultimo' = <<foto[d], "sucesso">> /\ fila' = Tail(fila)
  <1>1. Inv /\ [Next]_vars => [\A d \in Ids : A(d)]_vars
    <2> SUFFICES ASSUME Inv, Next, NEW d \in Ids PROVE A(d)
      BY DEF vars
    <2>1. ASSUME NEW e \in Ids, NEW s \in {0, 1, 2}, fase[e] # "livre",
                 fase[e] = "despedindo" => s = 0, destroy(e, s),
                 fase[d] = "despedindo"
          PROVE  ultimo' = <<foto[d], "sucesso">> /\ fila' = Tail(fila)
      <3>1. e = d
        BY <2>1 DEF Inv, UmDownloadPorVez, Ativos
      <3> QED
        BY <2>1, <3>1 DEF destroy, resultado_foto
    <2>2. CASE \E f \in Fotos : enfileirar(f)
      BY <2>2 DEF enfileirar, download
    <2>3. CASE Morre
      BY <2>3 DEF Morre
    <2> QED
      BY <2>1, <2>2, <2>3, PassoDestroi
  <1> QED
    BY <1>1, InvarianteTotal, PTL DEF Spec, SalvaEhSucesso
=============================================================================
