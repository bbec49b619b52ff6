------------------------- MODULE MCComandarCentral --------------------------
(* Command lines at the edges of what is accepted, and passwords with zeros, *)
(* reversed, too long and of another length.                                *)
EXTENDS ComandarCentral, Bitwise, SequencesExt

PedidosMC ==
  [comando : {"ativar", "cancelarzona"}, alvo : {<<>>, <<0>>, <<1>>, <<254>>, <<255>>, <<256>>}]
    \cup [comando : {"desativar", "desligarsirene", "reativarzona", "limpardisparo", "status"},
          alvo : {<<>>, <<7>>}]

Acesso(s, n) == [senha |-> s, tam_senha |-> n]

AcessosMC == {Acesso(1204, 4), Acesso(4021, 4), Acesso(91204, 4), Acesso(1204, 6)}
AcessoPainelMC == Acesso(1204, 4)

\* Checksums computed octet by octet, as the loop of checksum() does.
ChecksumXor(dados) == FoldLeft(LAMBDA soma, n : soma ^^ n, 0, dados) ^^ 255

Amostras ==
  {<<>>} \cup {<<n>> : n \in Octeto} \cup {<<m, n>> : m \in {0, 1, 143, 255}, n \in Octeto}
    \cup Recusas \cup {pacote_isecnet2_auth(a.senha, a.tam_senha) : a \in AcessosMC}
    \cup {pacote_isecnet2(\h0b4a, Relatorio(g)) : g \in 0 .. 3}

\* Counting bits gives the same checksums.
ASSUME ChecksumConfere == \A dados \in Amostras : checksum(dados) = ChecksumXor(dados)

\* Account numbers survive BCD, and what is no pair of digits becomes 0.
ASSUME BcdConfere ==
  /\ \A n \in 0 .. 9999 : from_bcd(<<bcd(n \div 100), bcd(n % 100)>>) = n
  /\ bcd(100) = 0 /\ bcd(-1) = 0
=============================================================================
