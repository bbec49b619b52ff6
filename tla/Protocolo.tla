----------------------------- MODULE Protocolo ------------------------------
(***************************************************************************)
(* The octets of the ISECNet2 protocol (alarmeitbl/utils_proto.py): packets *)
(* with length and checksum, 16-bit numbers, Contact ID and BCD digits.  An *)
(* octet is a number in 0 .. 255 and a buffer a sequence of octets.         *)
(***************************************************************************)
EXTENDS Integers, Sequences, FiniteSets

Octeto == 0 .. 255

\* The octets of dados in which the bit of weight p is set.
ComBit(dados, p) == {i \in DOMAIN dados : (dados[i] \div p) % 2 = 1}

\* Exclusive or of the octets and of 255: a bit of the result is set if an even
\* number of them has it.
BitPar(dados, p) == IF Cardinality(ComBit(dados, p)) % 2 = 0 THEN p ELSE 0

checksum(dados) ==
  BitPar(dados, 128) + BitPar(dados, 64) + BitPar(dados, 32) + BitPar(dados, 16)
    + BitPar(dados, 8) + BitPar(dados, 4) + BitPar(dados, 2) + BitPar(dados, 1)

be16(n) == <<n \div 256, n % 256>>
parse_be16(buf) == buf[1] * 256 + buf[2]

\* What ^ is, up to exponent n: proofs take it from here.
Potencias(n) ==
  /\ 10 ^ 0 = 1
  /\ \A i \in 0 .. n : 10 ^ i \in Nat \ {0}
  /\ \A i \in 0 .. n - 1 : 10 ^ (i + 1) = 10 * 10 ^ i

\* The last length decimal digits of number without its sign, 10 standing for
\* the digit zero.
Absoluto(number) == IF number < 0 THEN -number ELSE number

contact_id_encode_defeito(number, length) ==
  [i \in 1 .. length |-> LET d == (Absoluto(number) \div 10 ^ (i - 1)) % 10
                         IN  IF d = 0 THEN 10 ELSE d]

contact_id_encode(number, length) ==
  [i \in 1 .. length |-> LET d == (Absoluto(number) \div 10 ^ (length - i)) % 10
                         IN  IF d = 0 THEN 10 ELSE d]

\* The digits are added from the last one to the first; -1 when one is not a
\* digit.
contact_id_decode(dados) ==
  LET numero[k \in 0 .. Len(dados)] ==
        IF k = 0 THEN 0
        ELSE numero[k - 1] + 10 ^ (k - 1) * (dados[Len(dados) - k + 1] % 10)
  IN  IF \E i \in DOMAIN dados : dados[i] \notin 1 .. 10
      THEN -1 ELSE numero[Len(dados)]

\* Two decimal digits in an octet; other numbers become 0.
bcd(n) == IF n \in 0 .. 99 THEN (n \div 10) * 16 + (n % 10) ELSE 0

\* The octets are added from the last one to the first.
from_bcd(dados) ==
  LET laco[k \in 0 .. Len(dados)] ==
        IF k = 0 THEN [numero |-> 0, posicao |-> 1]
        ELSE LET nibbles == dados[Len(dados) - k + 1]
                 antes   == laco[k - 1]
             IN  [numero  |-> antes.numero + (nibbles \div 16) * 10 * antes.posicao
                                + (nibbles % 16) * antes.posicao,
                  posicao |-> antes.posicao * 100]
  IN  laco[Len(dados)].numero

\* Destination, source, length, command, payload and checksum.
pacote_isecnet2(cmd, payload) ==
  LET pacote == be16(0) \o be16(\h8fff) \o be16(Len(payload) + 2) \o be16(cmd)
                \o payload
  IN  Append(pacote, checksum(pacote))

pacote_isecnet2_auth(senha, tam_senha) ==
  pacote_isecnet2(\hf0f0, <<2>> \o contact_id_encode(senha, tam_senha) \o <<16>>)

pacote_isecnet2_bye == pacote_isecnet2(\hf0f1, <<>>)

\* The net length that a packet declares: command and payload.
compr_liquido(pct) == parse_be16(SubSeq(pct, 5, 6))

\* Length of the packet at the head of data, 0 while it is incomplete.
pacote_isecnet2_completo(data) ==
  IF Len(data) < 9 \/ Len(data) < compr_liquido(data) + 7
  THEN 0 ELSE compr_liquido(data) + 7

pacote_isecnet2_correto(pct) == compr_liquido(pct) >= 2 /\ checksum(pct) = 0

pacote_isecnet2_parse(pct) ==
  [cmd     |-> parse_be16(SubSeq(pct, 7, 8)),
   payload |-> SubSeq(pct, 9, 6 + compr_liquido(pct))]
=============================================================================
