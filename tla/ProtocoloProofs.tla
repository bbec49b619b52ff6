--------------------------- MODULE ProtocoloProofs --------------------------
(***************************************************************************)
(* Proofs about the packets of Protocolo, for any command and any payload. *)
(***************************************************************************)
EXTENDS Protocolo, FiniteSetTheorems, SequenceTheorems, WellFoundedInduction, TLAPS

-----------------------------------------------------------------------------
(***************************************************************************)
(* The checksum.                                                           *)
(***************************************************************************)
Pesos == {1, 2, 4, 8, 16, 32, 64, 128}

\* A bit of the checksum is a bit.
LEMMA BitTipo ==
  ASSUME NEW dados, NEW p \in Nat
  PROVE  BitPar(dados, p) \in {0, p}
  BY DEF BitPar

\* The checksum is an octet, whatever is summed.
LEMMA ChecksumOcteto ==
  ASSUME NEW dados
  PROVE  checksum(dados) \in Octeto
  BY BitTipo DEF checksum, Octeto

\* A sum of distinct weights has the bits it was put together from.
LEMMA SomaDeBits ==
  ASSUME NEW b1 \in {0, 1}, NEW b2 \in {0, 2}, NEW b4 \in {0, 4},
         NEW b8 \in {0, 8}, NEW b16 \in {0, 16}, NEW b32 \in {0, 32},
         NEW b64 \in {0, 64}, NEW b128 \in {0, 128}
  PROVE  LET soma == b128 + b64 + b32 + b16 + b8 + b4 + b2 + b1
         IN  /\ (soma \div 1) % 2 = 1 <=> b1 = 1
             /\ (soma \div 2) % 2 = 1 <=> b2 = 2
             /\ (soma \div 4) % 2 = 1 <=> b4 = 4
             /\ (soma \div 8) % 2 = 1 <=> b8 = 8
             /\ (soma \div 16) % 2 = 1 <=> b16 = 16
             /\ (soma \div 32) % 2 = 1 <=> b32 = 32
             /\ (soma \div 64) % 2 = 1 <=> b64 = 64
             /\ (soma \div 128) % 2 = 1 <=> b128 = 128
  <1> DEFINE soma == b128 + b64 + b32 + b16 + b8 + b4 + b2 + b1
  <1>1. (soma \div 1) % 2 = 1 <=> b1 = 1
    OBVIOUS
  <1>2. (soma \div 2) % 2 = 1 <=> b2 = 2
    OBVIOUS
  <1>3. (soma \div 4) % 2 = 1 <=> b4 = 4
    OBVIOUS
  <1>4. (soma \div 8) % 2 = 1 <=> b8 = 8
    OBVIOUS
  <1>5. (soma \div 16) % 2 = 1 <=> b16 = 16
    OBVIOUS
  <1>6. (soma \div 32) % 2 = 1 <=> b32 = 32
    OBVIOUS
  <1>7. (soma \div 64) % 2 = 1 <=> b64 = 64
    OBVIOUS
  <1>8. (soma \div 128) % 2 = 1 <=> b128 = 128
    OBVIOUS
  <1> QED
    BY <1>1, <1>2, <1>3, <1>4, <1>5, <1>6, <1>7, <1>8

\* The bits of the checksum are the ones it was put together from.
LEMMA ChecksumBits ==
  ASSUME NEW dados, NEW p \in Pesos
  PROVE  (checksum(dados) \div p) % 2 = 1 <=> BitPar(dados, p) = p
  <1>1. /\ BitPar(dados, 1) \in {0, 1} /\ BitPar(dados, 2) \in {0, 2}
        /\ BitPar(dados, 4) \in {0, 4} /\ BitPar(dados, 8) \in {0, 8}
        /\ BitPar(dados, 16) \in {0, 16} /\ BitPar(dados, 32) \in {0, 32}
        /\ BitPar(dados, 64) \in {0, 64} /\ BitPar(dados, 128) \in {0, 128}
    BY BitTipo
  <1>2. p \in {1, 2, 4, 8, 16, 32, 64, 128}
    BY DEF Pesos
  <1> QED
    BY <1>1, <1>2, SomaDeBits, SMTT(30) DEF checksum

\* The checksum is zero when none of its bits is set.
LEMMA ChecksumZero ==
  ASSUME NEW dados
  PROVE  checksum(dados) = 0 <=> \A p \in Pesos : BitPar(dados, p) # p
  <1>1. ASSUME \A p \in Pesos : BitPar(dados, p) # p PROVE checksum(dados) = 0
    <2>1. ASSUME NEW p \in Pesos PROVE BitPar(dados, p) = 0
      BY <1>1, BitTipo DEF Pesos
    <2> QED
      BY <2>1 DEF checksum, Pesos
  <1>2. ASSUME NEW p \in Pesos, BitPar(dados, p) = p PROVE checksum(dados) # 0
    <2>1. (checksum(dados) \div p) % 2 = 1
      BY <1>2, ChecksumBits
    <2>2. p \in Nat \ {0}
      BY DEF Pesos
    <2>3. (0 \div p) % 2 = 0
      BY <2>2
    <2> QED
      BY <2>1, <2>3
  <1> QED
    BY <1>1, <1>2

\* Octets with the same bits are the same.
LEMMA OctetoPorBits ==
  ASSUME NEW x \in Octeto, NEW y \in Octeto,
         \A p \in Pesos : (x \div p) % 2 = 1 <=> (y \div p) % 2 = 1
  PROVE  x = y
  <1>1. ASSUME NEW z \in Octeto
        PROVE  z = 1 * ((z \div 1) % 2) + 2 * ((z \div 2) % 2) + 4 * ((z \div 4) % 2) + 8 * ((z \div 8) % 2)
                   + 16 * ((z \div 16) % 2) + 32 * ((z \div 32) % 2) + 64 * ((z \div 64) % 2) + 128 * ((z \div 128) % 2)
    BY DEF Octeto
  <1>2. ASSUME NEW p \in Pesos PROVE (x \div p) % 2 = (y \div p) % 2
    <2>1. p \in Nat \ {0} /\ x \in Nat /\ y \in Nat
      BY DEF Pesos, Octeto
    <2>2. (x \div p) % 2 \in {0, 1} /\ (y \div p) % 2 \in {0, 1}
      BY <2>1
    <2> QED
      BY <2>2
  <1>3. /\ (x \div 1) % 2 = (y \div 1) % 2
        /\ (x \div 2) % 2 = (y \div 2) % 2
        /\ (x \div 4) % 2 = (y \div 4) % 2
        /\ (x \div 8) % 2 = (y \div 8) % 2
        /\ (x \div 16) % 2 = (y \div 16) % 2
        /\ (x \div 32) % 2 = (y \div 32) % 2
        /\ (x \div 64) % 2 = (y \div 64) % 2
        /\ (x \div 128) % 2 = (y \div 128) % 2
    BY <1>2 DEF Pesos
  <1> QED
    BY <1>1, <1>3

\* The number of octets with a bit, with one more octet at the end.
LEMMA ComBitAppend ==
  ASSUME NEW dados \in Seq(Octeto), NEW x \in Octeto, NEW p \in Pesos
  PROVE  /\ Cardinality(ComBit(dados, p)) \in Nat
         /\ Cardinality(ComBit(Append(dados, x), p)) =
              Cardinality(ComBit(dados, p)) + (IF (x \div p) % 2 = 1 THEN 1 ELSE 0)
  <1> DEFINE n == Len(dados)
             A == ComBit(dados, p)
             B == ComBit(Append(dados, x), p)
  <1>1. n \in Nat /\ DOMAIN dados = 1 .. n
    OBVIOUS
  <1>2. /\ DOMAIN Append(dados, x) = 1 .. n + 1
        /\ \A i \in 1 .. n : Append(dados, x)[i] = dados[i]
        /\ Append(dados, x)[n + 1] = x
    OBVIOUS
  <1>3. A \in SUBSET (1 .. n)
    BY <1>1 DEF ComBit
  <1>4. IsFiniteSet(A) /\ Cardinality(A) \in Nat
    <2>1. IsFiniteSet(1 .. n)
      BY <1>1, FS_Interval
    <2> QED
      BY <1>3, <2>1, FS_Subset, FS_CardinalityType
  <1>5. CASE (x \div p) % 2 = 1
    <2>1. B = A \cup {n + 1}
      BY <1>1, <1>2, <1>5 DEF ComBit
    <2>2. n + 1 \notin A
      BY <1>1, <1>3
    <2>3. Cardinality(B) = Cardinality(A) + 1
      BY <1>4, <2>1, <2>2, FS_AddElement
    <2> QED
      BY <1>4, <1>5, <2>3
  <1>6. CASE (x \div p) % 2 # 1
    <2>1. B = A
      BY <1>1, <1>2, <1>6 DEF ComBit
    <2> QED
      BY <1>4, <1>6, <2>1
  <1> QED
    BY <1>5, <1>6

\* Data followed by an octet checks to zero exactly if the octet is the
\* checksum of the data: what the comment in pacote_isecnet2_correto says, and
\* that no other last octet would pass.
THEOREM ChecksumDoSufixo ==
  ASSUME NEW dados \in Seq(Octeto), NEW x \in Octeto
  PROVE  checksum(Append(dados, x)) = 0 <=> x = checksum(dados)
  <1> DEFINE todos == Append(dados, x)
  <1>1. ASSUME NEW p \in Pesos
        PROVE  BitPar(todos, p) = p <=> ~((x \div p) % 2 = 1 <=> BitPar(dados, p) = p)
    <2> DEFINE a == Cardinality(ComBit(dados, p))
               b == Cardinality(ComBit(todos, p))
    <2>1. a \in Nat /\ b = a + (IF (x \div p) % 2 = 1 THEN 1 ELSE 0)
      BY ComBitAppend
    <2>2. (BitPar(dados, p) = p <=> a % 2 = 0) /\ (BitPar(todos, p) = p <=> b % 2 = 0)
      BY DEF BitPar, Pesos
    <2> HIDE DEF a, b
    <2> QED
      BY <2>1, <2>2
  <1>2. checksum(todos) = 0 <=> \A p \in Pesos : BitPar(todos, p) # p
    BY ChecksumZero
  <1>3. checksum(todos) = 0 <=>
          \A p \in Pesos : (x \div p) % 2 = 1 <=> (checksum(dados) \div p) % 2 = 1
    BY <1>1, <1>2, ChecksumBits
  <1> QED
    BY <1>3, ChecksumOcteto, OctetoPorBits

-----------------------------------------------------------------------------
(***************************************************************************)
(* Packets.                                                                *)
(***************************************************************************)
Comando == {n \in Nat : n < 65536}

\* Payloads that fit in the 16 bits of the length.
Carga == {p \in Seq(Octeto) : Len(p) <= 65533}

\* Two octets.
LEMMA Par ==
  ASSUME NEW x \in Octeto, NEW y \in Octeto
  PROVE  /\ <<x, y>> \in Seq(Octeto)
         /\ Len(<<x, y>>) = 2
         /\ <<x, y>>[1] = x /\ <<x, y>>[2] = y
  OBVIOUS

\* A number is what its two octets say.
LEMMA Be16 ==
  ASSUME NEW n \in Comando
  PROVE  /\ be16(n) \in Seq(Octeto)
         /\ Len(be16(n)) = 2
         /\ be16(n)[1] * 256 + be16(n)[2] = n
  <1>1. n \div 256 \in Octeto /\ n % 256 \in Octeto
    BY DEF Comando, Octeto
  <1>2. (n \div 256) * 256 + (n % 256) = n
    BY DEF Comando
  <1>3. be16(n) = <<n \div 256, n % 256>>
    BY DEF be16
  <1> DEFINE a == n \div 256
             b == n % 256
  <1> HIDE DEF a, b
  <1>4. be16(n) = <<a, b>> /\ a \in Octeto /\ b \in Octeto /\ a * 256 + b = n
    BY <1>1, <1>2, <1>3 DEF a, b
  <1> QED
    BY <1>4, Par

\* What pacote_isecnet2 puts before the checksum.
SemChecksum(cmd, payload) ==
  be16(0) \o be16(\h8fff) \o be16(Len(payload) + 2) \o be16(cmd) \o payload

\* Two octets appended to a buffer of n.
LEMMA JuntaPar ==
  ASSUME NEW s \in Seq(Octeto), NEW t \in Seq(Octeto), NEW n \in Nat,
         Len(s) = n, Len(t) = 2
  PROVE  /\ s \o t \in Seq(Octeto)
         /\ Len(s \o t) = n + 2
         /\ \A i \in 1 .. n : (s \o t)[i] = s[i]
         /\ (s \o t)[n + 1] = t[1]
         /\ (s \o t)[n + 2] = t[2]
  <1> DEFINE st == s \o t
  <1>1. /\ st \in Seq(Octeto)
        /\ Len(st) = Len(s) + Len(t)
        /\ \A i \in 1 .. Len(s) + Len(t) :
             st[i] = IF i <= Len(s) THEN s[i] ELSE t[i - Len(s)]
    BY ConcatProperties
  <1> HIDE DEF st
  <1>2. Len(st) = n + 2 /\ \A i \in 1 .. n : st[i] = s[i]
    BY <1>1
  <1>3. st[n + 1] = t[1] /\ st[n + 2] = t[2]
    BY <1>1
  <1> QED
    BY <1>1, <1>2, <1>3 DEF st

\* Where the fields of a packet are.
LEMMA Campos ==
  ASSUME NEW cmd \in Comando, NEW payload \in Carga
  PROVE  LET s == SemChecksum(cmd, payload)
         IN  /\ s \in Seq(Octeto)
             /\ Len(s) = Len(payload) + 8
             /\ s[1] * 256 + s[2] = 0 /\ s[3] * 256 + s[4] = \h8fff
             /\ s[5] * 256 + s[6] = Len(payload) + 2
             /\ s[7] * 256 + s[8] = cmd
             /\ \A i \in 1 .. Len(payload) : s[i + 8] = payload[i]
  <1> DEFINE n == Len(payload) + 2
             a == be16(0)
             b == be16(\h8fff)
             c == be16(n)
             d == be16(cmd)
             s == SemChecksum(cmd, payload)
  <1>1. payload \in Seq(Octeto) /\ Len(payload) \in Nat /\ Len(payload) <= 65533
    BY LenProperties DEF Carga
  <1>2. n \in Comando /\ 0 \in Comando /\ \h8fff \in Comando
    BY <1>1 DEF Comando
  <1>3. /\ a \in Seq(Octeto) /\ Len(a) = 2
        /\ b \in Seq(Octeto) /\ Len(b) = 2
    BY <1>2, Be16
  <1>4. a[1] * 256 + a[2] = 0 /\ b[1] * 256 + b[2] = \h8fff
    BY <1>2, Be16
  <1>5. c \in Seq(Octeto) /\ Len(c) = 2 /\ c[1] * 256 + c[2] = n
    BY <1>2, Be16
  <1>6. d \in Seq(Octeto) /\ Len(d) = 2 /\ d[1] * 256 + d[2] = cmd
    BY Be16
  <1>7. s = a \o b \o c \o d \o payload
    BY DEF SemChecksum
  <1> HIDE DEF a, b, c, d, s
  <1> DEFINE ab == a \o b
             abc == ab \o c
             abcd == abc \o d
  <1>8. /\ ab \in Seq(Octeto) /\ Len(ab) = 4
        /\ ab[1] = a[1] /\ ab[2] = a[2] /\ ab[3] = b[1] /\ ab[4] = b[2]
    <2>1. /\ ab \in Seq(Octeto) /\ Len(ab) = 2 + 2
          /\ \A i \in 1 .. 2 : ab[i] = a[i]
          /\ ab[2 + 1] = b[1] /\ ab[2 + 2] = b[2]
      BY <1>3, 2 \in Nat, JuntaPar, ZenonT(40)
    <2> HIDE DEF ab
    <2> QED
      BY <2>1
  <1> HIDE DEF ab
  <1>9. /\ abc \in Seq(Octeto) /\ Len(abc) = 6
        /\ \A i \in 1 .. 4 : abc[i] = ab[i]
        /\ abc[5] = c[1] /\ abc[6] = c[2]
    <2>1. /\ abc \in Seq(Octeto) /\ Len(abc) = 4 + 2
          /\ \A i \in 1 .. 4 : abc[i] = ab[i]
          /\ abc[4 + 1] = c[1] /\ abc[4 + 2] = c[2]
      BY <1>5, <1>8, 4 \in Nat, JuntaPar, ZenonT(40)
    <2> HIDE DEF abc
    <2> QED
      BY <2>1
  <1> HIDE DEF abc
  <1>10. /\ abcd \in Seq(Octeto) /\ Len(abcd) = 8
        /\ \A i \in 1 .. 6 : abcd[i] = abc[i]
        /\ abcd[7] = d[1] /\ abcd[8] = d[2]
    <2>1. /\ abcd \in Seq(Octeto) /\ Len(abcd) = 6 + 2
          /\ \A i \in 1 .. 6 : abcd[i] = abc[i]
          /\ abcd[6 + 1] = d[1] /\ abcd[6 + 2] = d[2]
      BY <1>6, <1>9, 6 \in Nat, JuntaPar, ZenonT(40)
    <2> HIDE DEF abcd
    <2> QED
      BY <2>1
  <1> HIDE DEF abcd
  <1>11. /\ abcd[1] = a[1] /\ abcd[2] = a[2] /\ abcd[3] = b[1] /\ abcd[4] = b[2]
         /\ abcd[5] = c[1] /\ abcd[6] = c[2]
    BY <1>8, <1>9, <1>10
  <1>12. s = abcd \o payload
    BY <1>7 DEF ab, abc, abcd
  <1>13. /\ s \in Seq(Octeto) /\ Len(s) = Len(payload) + 8
         /\ \A i \in 1 .. Len(payload) + 8 :
              s[i] = IF i <= 8 THEN abcd[i] ELSE payload[i - 8]
    <2> DEFINE t == abcd \o payload
    <2>1. abcd \in Seq(Octeto) /\ payload \in Seq(Octeto)
      BY <1>1, <1>10
    <2>2. /\ t \in Seq(Octeto) /\ Len(t) = Len(abcd) + Len(payload)
          /\ \A i \in 1 .. Len(abcd) + Len(payload) :
               t[i] = IF i <= Len(abcd) THEN abcd[i] ELSE payload[i - Len(abcd)]
      BY <2>1, ConcatProperties
    <2>3. s = t
      BY <1>12
    <2> HIDE DEF t
    <2>4. Len(abcd) = 8 /\ Len(payload) \in Nat
      BY <1>1, <1>10
    <2>5. t \in Seq(Octeto) /\ Len(t) = 8 + Len(payload)
      BY <2>2, <2>4
    <2>6. \A i \in 1 .. 8 + Len(payload) :
            t[i] = IF i <= 8 THEN abcd[i] ELSE payload[i - 8]
      BY <2>2, <2>4, Zenon
    <2> QED
      BY <2>3, <2>4, <2>5, <2>6
  <1>14. s[1] = a[1] /\ s[2] = a[2] /\ s[3] = b[1] /\ s[4] = b[2]
    BY <1>1, <1>11, <1>13
  <1>15. s[5] = c[1] /\ s[6] = c[2] /\ s[7] = d[1] /\ s[8] = d[2]
    BY <1>1, <1>10, <1>11, <1>13
  <1>16. ASSUME NEW i \in 1 .. Len(payload) PROVE s[i + 8] = payload[i]
    BY <1>1, <1>13
  <1>17. /\ s[5] * 256 + s[6] = Len(payload) + 2
         /\ s[7] * 256 + s[8] = cmd
    BY <1>5, <1>6, <1>15
  <1>18. s[1] * 256 + s[2] = 0 /\ s[3] * 256 + s[4] = \h8fff
    BY <1>14, <1>4
  <1> QED
    BY <1>13, <1>16, <1>17, <1>18 DEF s

\* A packet: its octets, its length and its fields.
LEMMA PacoteCampos ==
  ASSUME NEW cmd \in Comando, NEW payload \in Carga
  PROVE  LET pct == pacote_isecnet2(cmd, payload)
         IN  /\ pct \in Seq(Octeto)
             /\ Len(pct) = Len(payload) + 9 /\ Len(payload) \in Nat
             /\ pct[5] * 256 + pct[6] = Len(payload) + 2
             /\ pct[7] * 256 + pct[8] = cmd
             /\ \A i \in 1 .. Len(payload) : pct[i + 8] = payload[i]
             /\ pct = Append(SemChecksum(cmd, payload), checksum(SemChecksum(cmd, payload)))
  <1> DEFINE s == SemChecksum(cmd, payload)
             x == checksum(s)
             pct == pacote_isecnet2(cmd, payload)
  <1>1. pct = Append(s, x)
    BY DEF pacote_isecnet2, SemChecksum
  <1>2. /\ s \in Seq(Octeto) /\ Len(s) = Len(payload) + 8
        /\ s[5] * 256 + s[6] = Len(payload) + 2
        /\ s[7] * 256 + s[8] = cmd
        /\ \A i \in 1 .. Len(payload) : s[i + 8] = payload[i]
    BY Campos
  <1>3. x \in Octeto /\ Len(payload) \in Nat
    BY ChecksumOcteto, LenProperties DEF Carga
  <1> HIDE DEF s, x, pct
  <1>4. pct \in Seq(Octeto) /\ Len(pct) = Len(payload) + 9
    BY <1>1, <1>2, <1>3
  <1>5. \A i \in 1 .. Len(payload) + 8 : pct[i] = s[i]
    BY <1>1, <1>2, <1>3
  <1>6. pct[5] = s[5] /\ pct[6] = s[6] /\ pct[7] = s[7] /\ pct[8] = s[8]
    BY <1>3, <1>5
  <1>7. ASSUME NEW i \in 1 .. Len(payload) PROVE pct[i + 8] = payload[i]
    BY <1>2, <1>3, <1>5
  <1>8. pct[5] * 256 + pct[6] = Len(payload) + 2 /\ pct[7] * 256 + pct[8] = cmd
    BY <1>2, <1>6
  <1> QED
    BY <1>1, <1>3, <1>4, <1>7, <1>8 DEF s, x, pct

\* The length that a buffer of at least six octets declares.
LEMMA ComprLiquido ==
  ASSUME NEW buf \in Seq(Octeto), Len(buf) >= 6
  PROVE  compr_liquido(buf) = buf[5] * 256 + buf[6] /\ compr_liquido(buf) \in Nat
  <1> DEFINE s == SubSeq(buf, 5, 6)
  <1>1. \A i \in 5 .. 6 : buf[i] \in Octeto
    BY ElementOfSeq, LenProperties
  <1>2. \A i \in 1 .. 6 - 5 + 1 : s[i] = buf[5 + i - 1]
    BY <1>1, 5 \in Int, 6 \in Int, SubSeqProperties
  <1> HIDE DEF s
  <1>3. s[1] = buf[5] /\ s[2] = buf[6]
    BY <1>2
  <1>4. compr_liquido(buf) = s[1] * 256 + s[2]
    BY DEF compr_liquido, parse_be16, s
  <1>5. buf[5] \in Nat /\ buf[6] \in Nat
    <2>1. buf[5] \in Octeto /\ buf[6] \in Octeto
      BY <1>1
    <2>2. \A x \in Octeto : x \in Nat
      BY DEF Octeto
    <2> QED
      BY <2>1, <2>2, Zenon
  <1> QED
    BY <1>3, <1>4, <1>5

\* What a packet declares about itself, and how it is read.
LEMMA PacoteCompr ==
  ASSUME NEW cmd \in Comando, NEW payload \in Carga
  PROVE  LET pct == pacote_isecnet2(cmd, payload)
         IN  compr_liquido(pct) = Len(payload) + 2 /\ Len(pct) = compr_liquido(pct) + 7
  <1> DEFINE pct == pacote_isecnet2(cmd, payload)
  <1>1. /\ pct \in Seq(Octeto)
        /\ Len(pct) = Len(payload) + 9 /\ Len(payload) \in Nat
        /\ pct[5] * 256 + pct[6] = Len(payload) + 2
    BY PacoteCampos
  <1> HIDE DEF pct
  <1>2. compr_liquido(pct) = pct[5] * 256 + pct[6]
    BY <1>1, ComprLiquido
  <1> QED
    BY <1>1, <1>2 DEF pct

\* What pacote_isecnet2 builds, pacote_isecnet2_completo, _correto and _parse
\* take as one whole and correct packet with the same command and payload.
THEOREM PacoteIdaEVolta ==
  ASSUME NEW cmd \in Comando, NEW payload \in Carga
  PROVE  LET pct == pacote_isecnet2(cmd, payload)
         IN  /\ pacote_isecnet2_completo(pct) = Len(pct)
             /\ pacote_isecnet2_correto(pct)
             /\ pacote_isecnet2_parse(pct) = [cmd |-> cmd, payload |-> payload]
  <1> DEFINE pct == pacote_isecnet2(cmd, payload)
             s == SemChecksum(cmd, payload)
  <1>1. /\ pct \in Seq(Octeto)
        /\ Len(pct) = Len(payload) + 9 /\ Len(payload) \in Nat
        /\ pct[7] * 256 + pct[8] = cmd
        /\ \A i \in 1 .. Len(payload) : pct[i + 8] = payload[i]
        /\ pct = Append(s, checksum(s))
    BY PacoteCampos
  <1>2. compr_liquido(pct) = Len(payload) + 2 /\ Len(pct) = compr_liquido(pct) + 7
    BY PacoteCompr
  <1>3. s \in Seq(Octeto)
    BY Campos
  <1>4. payload \in Seq(Octeto)
    BY DEF Carga
  <1> HIDE DEF pct, s
  <1>5. pacote_isecnet2_completo(pct) = Len(pct)
    BY <1>1, <1>2 DEF pacote_isecnet2_completo
  <1>6. pacote_isecnet2_correto(pct)
    <2>1. checksum(pct) = 0
      BY <1>1, <1>3, ChecksumOcteto, ChecksumDoSufixo
    <2> QED
      BY <1>1, <1>2, <2>1 DEF pacote_isecnet2_correto
  <1>7. \A i \in 1 .. Len(payload) + 9 : pct[i] \in Octeto
    BY <1>1, ElementOfSeq
  <1>8. parse_be16(SubSeq(pct, 7, 8)) = cmd
    <2> DEFINE t == SubSeq(pct, 7, 8)
    <2>1. \A i \in 7 .. 8 : pct[i] \in Octeto
      BY <1>1, <1>7
    <2>2. \A i \in 1 .. 8 - 7 + 1 : t[i] = pct[7 + i - 1]
      BY <2>1, 7 \in Int, 8 \in Int, SubSeqProperties
    <2> HIDE DEF t
    <2>3. t[1] = pct[7] /\ t[2] = pct[8]
      BY <2>2
    <2> QED
      BY <1>1, <2>3 DEF parse_be16, t
  <1>9. SubSeq(pct, 9, 6 + compr_liquido(pct)) = payload
    <2> DEFINE m == 6 + compr_liquido(pct)
               t == SubSeq(pct, 9, m)
    <2>1. m = Len(payload) + 8
      BY <1>1, <1>2
    <2> HIDE DEF m
    <2>2. \A i \in 9 .. m : pct[i] \in Octeto
      BY <1>1, <1>7, <2>1
    <2>3. /\ t \in Seq(Octeto)
          /\ Len(t) = IF 9 <= m THEN m - 9 + 1 ELSE 0
          /\ \A i \in 1 .. m - 9 + 1 : t[i] = pct[9 + i - 1]
      BY <1>1, <2>1, <2>2, 9 \in Int, m \in Int, SubSeqProperties
    <2> HIDE DEF t
    <2>4. Len(t) = Len(payload)
      BY <1>1, <2>1, <2>3
    <2>5. ASSUME NEW i \in 1 .. Len(t) PROVE t[i] = payload[i]
      <3>1. t[i] = pct[9 + i - 1] /\ i \in Int /\ i \in 1 .. Len(payload)
        BY <1>1, <2>1, <2>3, <2>4
      <3>2. 9 + i - 1 = i + 8
        BY <3>1
      <3> QED
        BY <1>1, <3>1, <3>2
    <2>6. t = payload
      BY <1>4, <2>3, <2>4, <2>5, SeqEqual
    <2> QED
      BY <2>6 DEF t, m
  <1>10. pacote_isecnet2_parse(pct) = [cmd |-> cmd, payload |-> payload]
    BY <1>8, <1>9 DEF pacote_isecnet2_parse
  <1> QED
    BY <1>5, <1>6, <1>10 DEF pct

\* The beginning of a packet is not taken for a packet: however recv() cuts the
\* octets, pacote_isecnet2_completo waits for the last one.
THEOREM PrefixoNaoBasta ==
  ASSUME NEW pct \in Seq(Octeto), Len(pct) >= 9, Len(pct) = compr_liquido(pct) + 7,
         NEW b \in Seq(Octeto), NEW r \in Seq(Octeto), pct = b \o r,
         pacote_isecnet2_completo(b) # 0
  PROVE  b = pct /\ r = <<>> /\ pacote_isecnet2_completo(b) = Len(b)
  <1>1. /\ Len(pct) = Len(b) + Len(r)
        /\ \A i \in 1 .. Len(b) + Len(r) : pct[i] = IF i <= Len(b) THEN b[i] ELSE r[i - Len(b)]
    BY ConcatProperties
  <1>2. Len(b) \in Nat /\ Len(r) \in Nat
    BY LenProperties
  <1>3. Len(b) >= 9 /\ Len(b) >= compr_liquido(b) + 7
        /\ pacote_isecnet2_completo(b) = compr_liquido(b) + 7
    <2>1. ~(Len(b) < 9 \/ Len(b) < compr_liquido(b) + 7)
      BY DEF pacote_isecnet2_completo
    <2>2. compr_liquido(b) \in Nat
      BY <1>2, <2>1, ComprLiquido
    <2> QED
      BY <1>2, <2>1, <2>2 DEF pacote_isecnet2_completo
  <1>4. b[5] = pct[5] /\ b[6] = pct[6]
    BY <1>1, <1>2, <1>3
  <1>5. compr_liquido(b) = compr_liquido(pct) /\ compr_liquido(b) \in Nat
    <2>1. compr_liquido(b) = b[5] * 256 + b[6] /\ compr_liquido(b) \in Nat
      BY <1>2, <1>3, ComprLiquido
    <2>2. compr_liquido(pct) = pct[5] * 256 + pct[6]
      <3>1. Len(pct) >= 6
        BY <1>1, <1>2
      <3> QED
        BY <3>1, ComprLiquido, Zenon
    <2> QED
      BY <1>4, <2>1, <2>2
  <1>6. Len(r) = 0 /\ Len(b) = compr_liquido(b) + 7
    BY <1>1, <1>2, <1>3, <1>5
  <1>7. r = <<>>
    BY <1>6, EmptySeq
  <1>8. b = pct
    BY <1>7, ConcatEmptySeq, ZenonT(30)
  <1> QED
    BY <1>3, <1>6, <1>7, <1>8

\* Octets taken from the network are the ones put there, in order.
LEMMA CorteJunta ==
  ASSUME NEW a \in Seq(Octeto), NEW b \in Seq(Octeto), NEW k \in 1 .. Len(b)
  PROVE  /\ SubSeq(b, 1, k) \in Seq(Octeto)
         /\ SubSeq(b, k + 1, Len(b)) \in Seq(Octeto)
         /\ a \o SubSeq(b, 1, k) \in Seq(Octeto)
         /\ (a \o SubSeq(b, 1, k)) \o SubSeq(b, k + 1, Len(b)) = a \o b
  <1> DEFINE x == SubSeq(b, 1, k)
             y == SubSeq(b, k + 1, Len(b))
  <1>1. Len(b) \in Nat /\ k \in Int
    BY LenProperties
  <1>2. \A i \in 1 .. Len(b) : b[i] \in Octeto
    BY ElementOfSeq
  <1>3. x \in Seq(Octeto)
    BY <1>1, <1>2, 1 \in Int, SubSeqProperties
  <1>4. y \in Seq(Octeto)
    BY <1>1, <1>2, k + 1 \in Int, SubSeqProperties
  <1>5. x \o y = SubSeq(b, 1, Len(b))
    BY <1>1, ConcatAdjacentSubSeq
  <1>6. SubSeq(b, 1, Len(b)) = b
    BY SubSeqFull
  <1> HIDE DEF x, y
  <1>7. (a \o x) \o y = a \o (x \o y) /\ a \o x \in Seq(Octeto)
    BY <1>3, <1>4, ConcatAssociative, ConcatProperties, SMTT(30)
  <1> QED
    BY <1>3, <1>4, <1>5, <1>6, <1>7 DEF x, y

-----------------------------------------------------------------------------
(***************************************************************************)
(* Contact ID numbers.                                                     *)
(***************************************************************************)
\* Division has one quotient and one remainder.
LEMMA RestoUnico ==
  ASSUME NEW m \in Nat \ {0}, NEW t \in Int, NEW s \in 0 .. m - 1
  PROVE  (m * t + s) % m = s /\ (m * t + s) \div m = t
  <1> DEFINE N == m * t + s
             Q == N \div m
             S == N % m
  <1>1. N \in Int /\ Q \in Int /\ S \in 0 .. m - 1 /\ N = m * Q + S
    OBVIOUS
  <1>2. m * t + s = m * Q + S
    BY <1>1
  <1> HIDE DEF N, Q, S
  <1>3. ~(t > Q)
    <2> SUFFICES ASSUME t - Q >= 1 PROVE FALSE
      BY <1>1
    <2>1. m * (t - Q) >= m
      BY <1>1
    <2>2. m * (t - Q) = m * t - m * Q
      BY <1>1
    <2> QED
      BY <1>1, <1>2, <2>1, <2>2
  <1>4. ~(t < Q)
    <2> SUFFICES ASSUME Q - t >= 1 PROVE FALSE
      BY <1>1
    <2>1. m * (Q - t) >= m
      BY <1>1
    <2>2. m * (Q - t) = m * Q - m * t
      BY <1>1
    <2> QED
      BY <1>1, <1>2, <2>1, <2>2
  <1>5. t = Q
    BY <1>1, <1>3, <1>4
  <1>6. s = S
    BY <1>1, <1>2, <1>5
  <1> QED
    BY <1>5, <1>6 DEF N, Q, S

\* One more decimal digit: b is a power of ten.
LEMMA MaisUmDigito ==
  ASSUME NEW N \in Nat, NEW b \in Nat \ {0}
  PROVE  N % (10 * b) = (N % b) + b * ((N \div b) % 10)
  <1> DEFINE q == N \div b
             r == N % b
             t == q \div 10
             d == q % 10
  <1>1. q \in Int /\ r \in 0 .. b - 1 /\ N = b * q + r
    OBVIOUS
  <1>2. t \in Int /\ d \in 0 .. 9 /\ q = 10 * t + d
    BY <1>1
  <1> HIDE DEF q, r, t, d
  <1>3. b * q = (10 * b) * t + b * d
    BY <1>1, <1>2
  <1>4. b * d \in Nat /\ b * d <= b * 9
    BY <1>2
  <1> DEFINE s == r + b * d
             m == 10 * b
  <1>5. s \in 0 .. m - 1 /\ m \in Nat \ {0}
    BY <1>1, <1>4
  <1>6. N = m * t + s
    BY <1>1, <1>2, <1>3, <1>4
  <1> HIDE DEF s, m
  <1>7. N % m = s
    BY <1>2, <1>5, <1>6, RestoUnico
  <1> QED
    BY <1>7 DEF s, m, q, r, d

\* A set of naturals has a least element: what stands for induction here.
LEMMA MenorNatural ==
  ASSUME NEW N \in SUBSET Nat, N # {}
  PROVE  \E n \in N : \A k \in N : ~(k < n)
  <1> DEFINE R == OpToRel(<, Nat)
  <1>1. IsWellFoundedOn(R, Nat)
    BY NatLessThanWellFounded
  <1>2. \A k, n \in Nat : k < n => <<k, n>> \in R
    BY DEF OpToRel
  <1> HIDE DEF R
  <1>3. PICK n \in N : \A k \in N : ~(<<k, n>> \in R)
    BY <1>1, WFMin
  <1> QED
    BY <1>2, <1>3

\* The step of the loop of contact_id_decode: numero[k] from numero[k - 1].
Soma(numero, dados) ==
  [k \in 0 .. Len(dados) |->
     IF k = 0 THEN 0
     ELSE numero[k - 1] + 10 ^ (k - 1) * (dados[Len(dados) - k + 1] % 10)]

\* Any function that the loop could have run through tells its result.
LEMMA ResultadoDaSoma ==
  ASSUME NEW dados, Len(dados) \in Nat, \A i \in DOMAIN dados : dados[i] \in 1 .. 10,
         NEW g, g = Soma(g, dados)
  PROVE  contact_id_decode(dados) = g[Len(dados)]
  <1> DEFINE n == Len(dados)
  <1>1. PICK f : f = Soma(f, dados) /\ contact_id_decode(dados) = f[n]
    BY Zenon DEF contact_id_decode, Soma
  <1> DEFINE W == {k \in 0 .. n : f[k] # g[k]}
  <1>2. ASSUME W # {} PROVE FALSE
    <2>1. PICK w \in W : \A k \in W : ~(k < w)
      <3>1. W \in SUBSET Nat
        OBVIOUS
      <3> HIDE DEF W
      <3> QED
        BY <1>2, <3>1, MenorNatural
    <2>2. w \in 0 .. n /\ f[w] # g[w]
      OBVIOUS
    <2>3. w # 0
      BY <1>1, <2>2 DEF Soma
    <2>4. w - 1 \in 0 .. n /\ w - 1 < w
      BY <2>2, <2>3
    <2>5. f[w - 1] = g[w - 1]
      BY <2>1, <2>4
    <2>6. f[w] = f[w - 1] + 10 ^ (w - 1) * (dados[n - w + 1] % 10)
      BY <1>1, <2>2, <2>3 DEF Soma
    <2>7. g[w] = g[w - 1] + 10 ^ (w - 1) * (dados[n - w + 1] % 10)
      BY <2>2, <2>3 DEF Soma
    <2> QED
      BY <2>2, <2>5, <2>6, <2>7
  <1>3. n \in 0 .. n
    OBVIOUS
  <1>4. f[n] = g[n]
    BY <1>2, <1>3
  <1> QED
    BY <1>1, <1>4

\* The digits that contact_id_encode writes.
LEMMA Digitos ==
  ASSUME NEW number \in Nat, NEW length \in Nat, Potencias(length)
  PROVE  LET d == contact_id_encode(number, length)
         IN  /\ d \in Seq(1 .. 10) /\ Len(d) = length
             /\ \A k \in 1 .. length :
                  d[length - k + 1] % 10 = (number \div 10 ^ (k - 1)) % 10
  <1> DEFINE Alg(j) == (number \div 10 ^ j) % 10
             d == contact_id_encode(number, length)
  <1>1. ASSUME NEW j \in 0 .. length PROVE Alg(j) \in 0 .. 9
    <2> DEFINE q == 10 ^ j
    <2>1. q \in Nat \ {0}
      BY DEF Potencias
    <2> HIDE DEF q
    <2>2. (number \div q) % 10 \in 0 .. 9
      BY <2>1
    <2> QED
      BY <2>2 DEF q
  <1>2. d = [i \in 1 .. length |-> IF Alg(length - i) = 0 THEN 10 ELSE Alg(length - i)]
    <2>1. Absoluto(number) = number
      BY DEF Absoluto
    <2> QED
      BY <2>1 DEF contact_id_encode
  <1> HIDE DEF Alg, d
  <1>3. ASSUME NEW i \in 1 .. length
        PROVE  d[i] \in 1 .. 10 /\ d[i] % 10 = Alg(length - i)
    <2>1. length - i \in 0 .. length
      OBVIOUS
    <2>2. Alg(length - i) \in 0 .. 9
      BY <1>1, <2>1
    <2>3. d[i] = IF Alg(length - i) = 0 THEN 10 ELSE Alg(length - i)
      BY <1>2
    <2> QED
      BY <2>2, <2>3
  <1>4. d \in Seq(1 .. 10) /\ Len(d) = length
    BY <1>2, <1>3
  <1>5. ASSUME NEW k \in 1 .. length PROVE d[length - k + 1] % 10 = Alg(k - 1)
    <2>1. length - k + 1 \in 1 .. length /\ length - (length - k + 1) = k - 1
      OBVIOUS
    <2> QED
      BY <1>3, <2>1
  <1> QED
    BY <1>4, <1>5 DEF Alg, d

\* contact_id_decode gives back what contact_id_encode was given, cut to its
\* last length digits: zeros, written as 10, and leading zeros included.
THEOREM ContactIdIdaEVolta ==
  ASSUME NEW number \in Nat, NEW length \in Nat, Potencias(length)
  PROVE  contact_id_decode(contact_id_encode(number, length)) = number % 10 ^ length
  <1> DEFINE d == contact_id_encode(number, length)
             g == [k \in 0 .. length |-> number % 10 ^ k]
  <1>1. /\ d \in Seq(1 .. 10) /\ Len(d) = length
        /\ \A k \in 1 .. length : d[length - k + 1] % 10 = (number \div 10 ^ (k - 1)) % 10
    BY Digitos
  <1> HIDE DEF d
  <1>2. ASSUME NEW k \in 0 .. length
        PROVE  g[k] = IF k = 0 THEN 0
                      ELSE g[k - 1] + 10 ^ (k - 1) * (d[Len(d) - k + 1] % 10)
    <2>1. CASE k = 0
      <3>1. g[0] = number % 1
        BY <2>1 DEF Potencias
      <3> QED
        BY <2>1, <3>1
    <2>2. CASE k # 0
      <3> DEFINE b == 10 ^ (k - 1)
      <3>1. k - 1 \in 0 .. length - 1 /\ k - 1 \in 0 .. length /\ k - 1 + 1 = k
        BY <2>2
      <3>2. b \in Nat \ {0} /\ 10 ^ k = 10 * b
        BY <3>1 DEF Potencias
      <3>3. g[k] = number % 10 ^ k /\ g[k - 1] = number % b
        BY <3>1
      <3>4. d[Len(d) - k + 1] % 10 = (number \div b) % 10
        BY <1>1, <2>2
      <3> HIDE DEF b, g
      <3>5. number % (10 * b) = (number % b) + b * ((number \div b) % 10)
        BY <3>2, MaisUmDigito
      <3>6. g[k] = g[k - 1] + b * (d[Len(d) - k + 1] % 10)
        BY <3>2, <3>3, <3>4, <3>5
      <3> QED
        BY <2>2, <3>6 DEF b
    <2> QED
      BY <2>1, <2>2
  <1>3. g = Soma(g, d)
    BY <1>1, <1>2, Zenon DEF Soma
  <1>4. \A i \in DOMAIN d : d[i] \in 1 .. 10
    BY <1>1
  <1>5. contact_id_decode(d) = g[Len(d)]
    BY <1>1, <1>3, <1>4, ResultadoDaSoma
  <1>6. g[Len(d)] = number % 10 ^ length
    BY <1>1
  <1> QED
    BY <1>5, <1>6 DEF d

\* The step of the loop of from_bcd: its variables after k octets.
Laco(laco, dados) ==
  [k \in 0 .. Len(dados) |->
     IF k = 0 THEN [numero |-> 0, posicao |-> 1]
     ELSE LET nibbles == dados[Len(dados) - k + 1]
              antes   == laco[k - 1]
          IN  [numero  |-> antes.numero + (nibbles \div 16) * 10 * antes.posicao
                             + (nibbles % 16) * antes.posicao,
               posicao |-> antes.posicao * 100]]

\* What two octets are read as, whether their halves are decimal digits or not.
LEMMA DoisOctetos ==
  ASSUME NEW a \in Octeto, NEW b \in Octeto
  PROVE  from_bcd(<<a, b>>)
           = ((a \div 16) * 10 + (a % 16)) * 100 + (b \div 16) * 10 + (b % 16)
  <1> DEFINE dados == <<a, b>>
             v(x)  == (x \div 16) * 10 + (x % 16)
             e(k)  == IF k = 0 THEN [numero |-> 0, posicao |-> 1]
                      ELSE IF k = 1 THEN [numero |-> v(b), posicao |-> 100]
                      ELSE [numero |-> v(a) * 100 + v(b), posicao |-> 10000]
             g     == [k \in 0 .. 2 |-> e(k)]
  <1>1. Len(dados) = 2 /\ dados[1] = a /\ dados[2] = b
    OBVIOUS
  <1>2. v(a) \in Nat /\ v(b) \in Nat
    BY DEF Octeto
  <1> HIDE DEF dados
  <1>3. ASSUME NEW k \in 0 .. 2
        PROVE  e(k) = IF k = 0 THEN [numero |-> 0, posicao |-> 1]
                      ELSE LET nibbles == dados[2 - k + 1]
                               antes   == g[k - 1]
                           IN  [numero  |-> antes.numero + (nibbles \div 16) * 10 * antes.posicao
                                              + (nibbles % 16) * antes.posicao,
                                posicao |-> antes.posicao * 100]
    <2>1. CASE k = 0
      BY <2>1
    <2>2. CASE k = 1
      <3>1. g[0] = [numero |-> 0, posicao |-> 1] /\ dados[2 - k + 1] = b
        BY <1>1, <2>2
      <3> QED
        BY <2>2, <3>1 DEF Octeto
    <2>3. CASE k = 2
      <3>1. g[1] = [numero |-> v(b), posicao |-> 100] /\ dados[2 - k + 1] = a
        BY <1>1, <2>3
      <3> QED
        BY <1>2, <2>3, <3>1 DEF Octeto
    <2> QED
      BY <2>1, <2>2, <2>3
  <1>4. g = Laco(g, dados)
    BY <1>1, <1>3 DEF Laco
  <1>5. PICK f : f = Laco(f, dados) /\ from_bcd(dados) = f[Len(dados)].numero
    <2> HIDE DEF g
    <2> QED
      BY <1>4, Zenon DEF from_bcd, Laco
  <1>6. f[0] = g[0]
    BY <1>1, <1>4, <1>5 DEF Laco
  <1>7. f[1] = g[1]
    BY <1>1, <1>4, <1>5, <1>6 DEF Laco
  <1>8. f[2] = g[2]
    BY <1>1, <1>4, <1>5, <1>7 DEF Laco
  <1>9. g[2] = [numero |-> v(a) * 100 + v(b), posicao |-> 10000]
    OBVIOUS
  <1>10. from_bcd(dados) = v(a) * 100 + v(b)
    BY <1>1, <1>5, <1>8, <1>9
  <1> QED
    BY <1>2, <1>10 DEF dados, Octeto

\* The account number that identificacao_central reads with from_bcd from two
\* octets is the one of which bcd would have written them: leading zeros and
\* zeros in the middle included.
THEOREM BcdIdaEVolta ==
  ASSUME NEW a \in 0 .. 99, NEW b \in 0 .. 99
  PROVE  /\ bcd(a) \in Octeto /\ bcd(b) \in Octeto
         /\ from_bcd(<<bcd(a), bcd(b)>>) = 100 * a + b
  <1>1. ASSUME NEW n \in 0 .. 99
        PROVE  bcd(n) \in Octeto /\ (bcd(n) \div 16) * 10 + (bcd(n) % 16) = n
    <2> DEFINE q == n \div 10
               r == n % 10
    <2>1. q \in 0 .. 9 /\ r \in 0 .. 9 /\ n = 10 * q + r
      OBVIOUS
    <2>2. bcd(n) = q * 16 + r
      BY DEF bcd
    <2> HIDE DEF q, r
    <2>3. (q * 16 + r) \div 16 = q /\ (q * 16 + r) % 16 = r
      BY <2>1
    <2> QED
      BY <2>1, <2>2, <2>3 DEF Octeto
  <1>2. /\ bcd(a) \in Octeto /\ (bcd(a) \div 16) * 10 + (bcd(a) % 16) = a
        /\ bcd(b) \in Octeto /\ (bcd(b) \div 16) * 10 + (bcd(b) % 16) = b
    BY <1>1
  <1> DEFINE x == bcd(a)
             y == bcd(b)
  <1> HIDE DEF x, y
  <1>3. from_bcd(<<x, y>>) = ((x \div 16) * 10 + (x % 16)) * 100 + (y \div 16) * 10 + (y % 16)
    BY <1>2, DoisOctetos DEF x, y
  <1>4. /\ x \in Octeto /\ (x \div 16) * 10 + (x % 16) = a
        /\ y \in Octeto /\ (y \div 16) * 10 + (y % 16) = b
    BY <1>2 DEF x, y
  <1>5. from_bcd(<<x, y>>) = 100 * a + b
    BY <1>3, <1>4 DEF Octeto
  <1> QED
    BY <1>2, <1>5 DEF x, y
=============================================================================
