--------------------------- MODULE TransfersProofs ---------------------------
(* Proofs about Upload, for files and segments of every size, and about the   *)
(* download of Transfers, for variables of every size.                       *)
EXTENDS Transfers, NaturalsInduction, WellFoundedInduction, TLAPS

(* A function on 1..k is a sequence of length k.                             *)
LEMMA FunctionIsSequence ==
  ASSUME NEW k \in Nat, NEW S, NEW f \in [1..k -> S]
  PROVE  f \in Seq(S) /\ Len(f) = k
  OBVIOUS

(* Offer hands out what is left, at most a segment, and nothing only at the  *)
(* end (ftp_StorDataSource with a buffer).                                   *)
LEMMA OfferBounds ==
  ASSUME TypeOK, NEW off \in 0..txSize
  PROVE  /\ Offer(off) \in 0..(txSize - off)
         /\ Offer(off) = 0 <=> off = txSize
  <1>1. txSize \in Nat /\ mss \in Nat \ {0}
    BY UploadAssumption DEF TypeOK
  <1> QED BY <1>1 DEF Offer

(* Writing the block at the end of the stream keeps the stream a prefix of   *)
(* the file (tcp_write in lwftp_send_next_data).                             *)
LEMMA WriteExtends ==
  ASSUME TypeOK, StreamIsPrefix, NEW off \in 0..txSize, off = Len(stream)
  PROVE  /\ Write(off, Offer(off)) \in Seq(1..txSize)
         /\ Len(Write(off, Offer(off))) = off + Offer(off)
         /\ \A i \in 1..(off + Offer(off)) : Write(off, Offer(off))[i] = i
  <1> DEFINE w == Write(off, Offer(off))
  <1>1. txSize \in Nat /\ stream \in Seq(1..txSize) /\ Len(stream) \in Nat
    BY UploadAssumption DEF TypeOK
  <1>2. Offer(off) \in 0..(txSize - off)
    BY OfferBounds
  <1>3. off + Offer(off) \in 0..txSize
    BY <1>1, <1>2
  <1>4. w = [i \in 1..(off + Offer(off)) |-> IF i <= off THEN stream[i] ELSE off + i - off]
    BY DEF Write
  <1>5. \A i \in 1..(off + Offer(off)) : w[i] = i
    BY <1>1, <1>2, <1>3, <1>4 DEF StreamIsPrefix
  <1>6. w \in [1..(off + Offer(off)) -> 1..txSize]
    BY <1>1, <1>3, <1>4, <1>5
  <1>7. w \in Seq(1..txSize) /\ Len(w) = off + Offer(off)
    <2>1. off + Offer(off) \in Nat
      BY <1>3, <1>1
    <2> HIDE DEF w
    <2> QED BY <1>6, <2>1, FunctionIsSequence
  <1> QED BY <1>5, <1>7

(* One call of lwftp_send_next_data with the offset at the end of what has   *)
(* been written and acknowledged restores the invariant.                     *)
LEMMA SendKeepsIInv ==
  ASSUME TypeOK, StreamIsPrefix,
         NEW off \in 0..txSize, off = Len(stream), acked' = off,
         lwftp_send_next_data(off)
  PROVE  IInv'
  <1>1. txSize \in Nat /\ mss \in Nat \ {0} /\ Len(stream) \in Nat
    BY UploadAssumption DEF TypeOK
  <1>2. txOffset' = off /\ txSize' = txSize /\ mss' = mss
    BY DEF lwftp_send_next_data
  <1>3. Offer(off) \in 0..(txSize - off) /\ (Offer(off) = 0 <=> off = txSize)
    BY OfferBounds
  <1>4. Offer(txOffset)' = Offer(off)
    BY <1>2 DEF Offer
  <1>5. CASE Offer(off) > 0 /\ failed' = FALSE
    <2>1. stream' = Write(off, Offer(off)) /\ state' = "open"
      BY <1>5, <1>3 DEF lwftp_send_next_data
    <2>2. /\ stream' \in Seq(1..txSize) /\ Len(stream') = off + Offer(off)
          /\ \A i \in 1..(off + Offer(off)) : stream'[i] = i
      BY <2>1, WriteExtends
    <2>3. TypeOK'
      <3>1. failed' \in BOOLEAN
        BY <1>5
      <3>2. acked' \in 0..Len(stream') /\ txOffset' \in 0..txSize
        BY <1>1, <1>2, <1>3, <2>2
      <3> QED BY <1>2, <2>1, <2>2, <3>1, <3>2 DEF TypeOK
    <2>4. StreamIsPrefix'
      BY <1>1, <1>2, <1>3, <2>2 DEF StreamIsPrefix
    <2>5. OneBlock'
      BY <1>1, <1>2, <1>3, <1>4, <1>5, <2>1, <2>2 DEF OneBlock
    <2> QED BY <2>3, <2>4, <2>5 DEF IInv
  <1>6. CASE Offer(off) > 0 /\ failed' = TRUE
    <2>1. stream' = stream /\ state' = "open"
      BY <1>6, <1>3 DEF lwftp_send_next_data
    <2>2. TypeOK'
      BY <1>1, <1>2, <1>6, <2>1 DEF TypeOK
    <2>3. StreamIsPrefix'
      BY <1>2, <2>1 DEF StreamIsPrefix
    <2>4. OneBlock'
      BY <1>1, <1>2, <1>4, <1>6, <2>1 DEF OneBlock
    <2> QED BY <2>2, <2>3, <2>4 DEF IInv
  <1>7. CASE Offer(off) = 0
    <2>1. stream' = stream /\ state' = "closed" /\ off = txSize /\ failed' = FALSE
      BY <1>7, <1>3 DEF lwftp_send_next_data
    <2>2. TypeOK'
      BY <1>1, <1>2, <2>1 DEF TypeOK
    <2>3. StreamIsPrefix'
      BY <1>2, <2>1 DEF StreamIsPrefix
    <2>4. OneBlock'
      BY <1>1, <1>2, <2>1 DEF OneBlock
    <2> QED BY <2>2, <2>3, <2>4 DEF IInv
  <1>8. Offer(off) = 0 \/ (Offer(off) > 0 /\ (failed' = TRUE \/ failed' = FALSE))
    BY <1>3 DEF lwftp_send_next_data
  <1> QED BY <1>5, <1>6, <1>7, <1>8

(* The invariant holds always, for every size, if TCP acknowledges what is   *)
(* under way at once, whether or not tcp_write fails.                        *)
THEOREM UploadInvariant ==
  ASSUME WholeAcks
  PROVE  Spec => []IInv
  <1>1. Init => IInv
    <2> SUFFICES ASSUME Init PROVE IInv
      OBVIOUS
    <2>1. txSize \in Nat /\ stream = <<>> /\ Len(stream) = 0
      BY UploadAssumption DEF Init
    <2>2. failed = FALSE /\ failed \in BOOLEAN
      BY Zenon DEF Init
    <2>3. TypeOK
      <3>1. /\ acked \in 0..Len(stream) /\ txOffset \in 0..txSize /\ stream \in Seq(1..txSize)
            /\ state \in {"waiting", "open", "closed"}
        BY <2>1 DEF Init
      <3> QED BY <2>2, <3>1 DEF Init, TypeOK
    <2> QED BY <2>1, <2>3 DEF Init, IInv, StreamIsPrefix, OneBlock
  <1>2. IInv /\ [Next]_vars => IInv'
    <2> SUFFICES ASSUME IInv, [Next]_vars PROVE IInv'
      OBVIOUS
    <2>1. txSize \in Nat /\ mss \in Nat \ {0} /\ txOffset \in 0..txSize /\ Len(stream) \in Nat
      BY UploadAssumption DEF IInv, TypeOK
    <2>2. CASE Begin
      <3>1. stream = <<>> /\ txOffset = 0 /\ acked' = 0 /\ Len(stream) = 0
        BY <2>2 DEF Begin, IInv, OneBlock
      <3>2. Advanced(0) = 0
        BY <2>1, <3>1 DEF Advanced
      <3>3. lwftp_send_next_data(0)
        BY <2>2, <3>2 DEF Begin
      <3> QED BY <2>1, <3>1, <3>3, SendKeepsIInv DEF IInv
    <2>3. CASE lwftp_data_sent
      <3>1. PICK len \in 1..(Len(stream) - acked) :
              /\ len = Len(stream) - acked /\ acked' = acked + len
              /\ lwftp_send_next_data(Advanced(len))
        BY <2>3 DEF lwftp_data_sent
      <3>2. state = "open"
        BY <2>3 DEF lwftp_data_sent
      <3>3. acked = txOffset /\ Len(stream) <= txSize
        BY DEF IInv, OneBlock, StreamIsPrefix
      <3>4. Advanced(len) = Len(stream) /\ acked' = Len(stream) /\ Len(stream) \in 0..txSize
        BY <2>1, <3>1, <3>3 DEF Advanced
      <3>5. lwftp_send_next_data(Len(stream))
        BY <3>1, <3>4
      <3> QED BY <3>4, <3>5, SendKeepsIInv DEF IInv
    <2>4. CASE UNCHANGED vars
      BY <2>4 DEF vars, IInv, TypeOK, StreamIsPrefix, OneBlock, Offer
    <2> QED BY <2>2, <2>3, <2>4 DEF Next
  <1> QED BY <1>1, <1>2, PTL DEF Spec

(* Under the same conditions the server receives the file byte by byte and,  *)
(* when the client closes the connection, all of it.                         *)
THEOREM WholeUpload ==
  ASSUME WholeAcks
  PROVE  Spec => [](StreamIsPrefix /\ ClosedWhole)
  <1>1. IInv => StreamIsPrefix /\ ClosedWhole
    BY DEF IInv, OneBlock, ClosedWhole
  <1> QED BY <1>1, UploadInvariant, PTL

-----------------------------------------------------------------------------
(* Induction and recursion.                                                 *)

(* Induction up to n, with the property given by the set Q of the numbers    *)
(* that have it.                                                             *)
LEMMA UpTo ==
  ASSUME NEW n \in Nat, NEW Q, 0 \in Q, \A i \in 0..n : i < n /\ i \in Q => i + 1 \in Q
  PROVE  \A i \in 0..n : i \in Q
<1> DEFINE B == {i \in Nat : i <= n /\ i \notin Q}
<1> SUFFICES ASSUME B # {} PROVE FALSE
  OBVIOUS
<1>1. PICK x \in B : \A y \in B : ~(<<y, x>> \in OpToRel(<, Nat))
  BY NatLessThanWellFounded, WFMin, Zenon
<1>2. x \in Nat /\ x <= n /\ x \notin Q /\ x # 0
  BY <1>1
<1> DEFINE y == x - 1
<1>3. y \in Nat /\ y < n /\ y < x
  BY <1>2
<1>4. y \in Q
  <2>1. y \notin B
    <3>1. y \in Nat /\ x \in Nat /\ y < x => <<y, x>> \in OpToRel(<, Nat)
      BY DEF OpToRel
    <3> QED BY <1>1, <1>2, <1>3, <3>1
  <2> QED BY <1>3, <2>1
<1>5. y + 1 \in Q
  <2> HIDE DEF y
  <2> QED BY <1>3, <1>4
<1> QED BY <1>2, <1>5

(* There is a function f with f[0] = b whose next value g computes.          *)
Computes(f, n, b, g) == f[0] = b /\ \A i \in 1..n : f[i] = g[<<i, f[i - 1]>>]

(* A function that is computed from the one before, with its step g given    *)
(* as a function, exists.                                                    *)
LEMMA Recursion ==
  ASSUME NEW n \in Nat, NEW S, NEW b \in S, NEW g \in [(1..n) \X S -> S]
  PROVE  \E f \in [0..n -> S] : Computes(f, n, b, g)
<1> DEFINE Is(f, k) == f[0] = b /\ \A i \in 1..k : f[i] = g[<<i, f[i - 1]>>]
           Q == {k \in 0..n : \E f \in [0..k -> S] : Is(f, k)}
<1>1. 0 \in Q
  <2> DEFINE f == [i \in 0..0 |-> b]
  <2>1. f \in [0..0 -> S] /\ f[0] = b
    OBVIOUS
  <2>2. Is(f, 0)
    BY <2>1
  <2> HIDE DEF f, Is
  <2> QED BY <2>1, <2>2
<1>2. ASSUME NEW k \in 0..n, k < n, k \in Q PROVE k + 1 \in Q
  <2>1. PICK f \in [0..k -> S] : Is(f, k)
    BY <1>2
  <2>2. f[k] \in S /\ k + 1 \in 1..n /\ f[0] = b
    BY <1>2, <2>1
  <2>3. g[<<k + 1, f[k]>>] \in S
    BY <2>2
  <2> DEFINE h == [i \in 0..(k + 1) |-> IF i <= k THEN f[i] ELSE g[<<k + 1, f[k]>>]]
  <2>4. h \in [0..(k + 1) -> S]
    BY <2>3
  <2>5. ASSUME NEW i \in 1..(k + 1) PROVE h[i] = g[<<i, h[i - 1]>>]
    <3>1. i - 1 \in 0..k /\ h[i - 1] = f[i - 1]
      BY <2>5
    <3>2. CASE i <= k
      <4>1. h[i] = f[i] /\ i \in 1..k
        BY <3>2
      <4> QED BY <2>1, <3>1, <4>1
    <3>3. CASE i = k + 1
      <4>1. h[i] = g[<<k + 1, f[k]>>] /\ i - 1 = k
        BY <3>3
      <4> QED BY <3>1, <3>3, <4>1
    <3> QED BY <3>2, <3>3
  <2>6. h[0] = b
    BY <2>2
  <2>7. Is(h, k + 1)
    BY <2>5, <2>6
  <2> HIDE DEF h, Is
  <2> QED BY <1>2, <2>4, <2>7
<1> HIDE DEF Q
<1>3. n \in Q
  BY <1>1, <1>2, UpTo
<1> QED BY <1>3 DEF Q, Computes

-----------------------------------------------------------------------------
(* Bytes and words.                                                         *)

Short == {n \in Nat : n < 65536}

(* A byte in numbers.                                                        *)
LEMMA ByteIs == \A x : x \in Byte <=> x \in Nat /\ x < 256
BY DEF Byte

(* A conversion to uint16_t gives one.                                       *)
LEMMA uint16Short == \A n \in Nat : uint16_t(n) \in Short
BY DEF uint16_t, Short

(* A number and its quotient and remainder.                                  *)
LEMMA Division ==
  ASSUME NEW n \in Nat
  PROVE  /\ n % 256 \in Nat /\ n % 256 < 256 /\ n \div 256 \in Nat
         /\ n = 256 * (n \div 256) + (n % 256)
         /\ n < 256 => n % 256 = n
<1>1. n % 256 \in Nat /\ n % 256 < 256
  OBVIOUS
<1>2. n \div 256 \in Nat
  OBVIOUS
<1>3. n = 256 * (n \div 256) + (n % 256)
  OBVIOUS
<1>4. n < 256 => n % 256 = n
  OBVIOUS
<1> QED BY <1>1, <1>2, <1>3, <1>4

(* A sequence of two.                                                        *)
LEMMA Pair ==
  ASSUME NEW S, NEW a \in S, NEW b \in S
  PROVE  <<a, b>> \in Seq(S) /\ Len(<<a, b>>) = 2 /\ <<a, b>>[1] = a /\ <<a, b>>[2] = b
OBVIOUS

(* A word is two bytes ...                                                   *)
LEMMA WordBytes ==
  ASSUME NEW n \in Nat
  PROVE  Word(n) \in Seq(Byte) /\ Len(Word(n)) = 2
<1> DEFINE q == n \div 256
<1>1. q \in Nat /\ n % 256 \in Nat /\ n % 256 < 256
  BY Division
<1>2. q % 256 \in Nat /\ q % 256 < 256
  BY <1>1, Division
<1>3. n % 256 \in Byte /\ q % 256 \in Byte
  BY <1>1, <1>2, ByteIs
<1> QED BY <1>3, Pair DEF Word

(* ... and they make it up.                                                  *)
LEMMA WordValue ==
  ASSUME NEW n \in Short
  PROVE  Word(n)[1] + 256 * Word(n)[2] = n
<1> DEFINE q == n \div 256
           r == n % 256
<1>1. n \in Nat /\ n < 65536
  BY DEF Short
<1>2. q \in Nat /\ r \in Nat /\ r < 256 /\ n = 256 * q + r
  BY <1>1, Division
<1>3. Word(n) = <<r, q % 256>>
  BY DEF Word
<1> HIDE DEF q, r
<1>4. q < 256
  BY <1>1, <1>2
<1>5. q % 256 = q
  BY <1>2, <1>4, Division
<1>6. r \in Byte /\ q \in Byte
  BY <1>2, <1>4, ByteIs
<1>7. Word(n) = <<r, q>>
  BY <1>3, <1>5
<1>8. Word(n)[1] = r /\ Word(n)[2] = q
  BY <1>6, <1>7, Pair
<1>9. r + 256 * q = n
  BY <1>2
<1> QED BY <1>8, <1>9

-----------------------------------------------------------------------------
(* Files.                                                                   *)

(* g stands in f behind the first off bytes.                                 *)
Has(f, off, g) == off + Len(g) <= Len(f) /\ \A i \in 1..Len(g) : f[off + i] = g[i]

(* h is s with t behind it, and what stood in s is still there.              *)
Keeps(s, h) == \A off \in Nat, g \in Seq(Byte) : Has(s, off, g) => Has(h, off, g)
Cat(h, s, t) == /\ h \in Seq(Byte) /\ Len(h) = Len(s) + Len(t)
                /\ Has(h, Len(s), t) /\ Keeps(s, h)

(* What s \o t is.                                                           *)
LEMMA Follows ==
  ASSUME NEW s \in Seq(Byte), NEW t \in Seq(Byte)
  PROVE  /\ s \o t \in Seq(Byte) /\ Len(s \o t) = Len(s) + Len(t)
         /\ Has(s \o t, Len(s), t)
         /\ \A i \in 1..Len(s) : (s \o t)[i] = s[i]
<1>1. /\ s \o t \in Seq(Byte) /\ Len(s \o t) = Len(s) + Len(t) /\ Len(s) \in Nat /\ Len(t) \in Nat
  OBVIOUS
<1>2. \A i \in 1..Len(s) : (s \o t)[i] = s[i]
  OBVIOUS
<1>3. \A i \in 1..Len(t) : (s \o t)[Len(s) + i] = t[i]
  OBVIOUS
<1> QED BY <1>1, <1>2, <1>3 DEF Has

(* What stands in s stands in s \o t.                                        *)
LEMMA Stays ==
  ASSUME NEW s \in Seq(Byte), NEW t \in Seq(Byte), NEW off \in Nat, NEW g \in Seq(Byte),
         Has(s, off, g)
  PROVE  Has(s \o t, off, g)
<1>1. /\ Len(s \o t) = Len(s) + Len(t) /\ \A i \in 1..Len(s) : (s \o t)[i] = s[i]
      /\ Len(s) \in Nat /\ Len(t) \in Nat /\ Len(g) \in Nat
  BY Follows
<1>2. \A i \in 1..Len(g) : off + i \in 1..Len(s) /\ s[off + i] = g[i]
  BY <1>1 DEF Has
<1> HIDE DEF Has
<1>3. off + Len(g) <= Len(s)
  BY DEF Has
<1> QED BY <1>1, <1>2, <1>3 DEF Has

(* Both in one.                                                              *)
LEMMA CatIs ==
  ASSUME NEW s \in Seq(Byte), NEW t \in Seq(Byte)
  PROVE  Cat(s \o t, s, t)
BY Follows, Stays, Zenon DEF Cat, Keeps

(* ByteAt and WordAt find what stands there: the bytes of a sequence, a byte, *)
(* a word.                                                                   *)
LEMMA HasBytes ==
  ASSUME NEW f \in Seq(Byte), NEW off \in Nat, NEW g \in Seq(Byte), Has(f, off, g)
  PROVE  \A i \in 1..Len(g) : ByteAt(f, off + i - 1) = g[i]
<1> SUFFICES ASSUME NEW i \in 1..Len(g) PROVE ByteAt(f, off + i - 1) = g[i]
  OBVIOUS
<1>1. off + i <= Len(f) /\ f[off + i] = g[i] /\ Len(f) \in Nat /\ i \in Nat
  BY DEF Has
<1>2. off + i - 1 < Len(f) /\ (off + i - 1) + 1 = off + i
  BY <1>1
<1> QED BY <1>1, <1>2 DEF ByteAt

(* A single byte.                                                            *)
LEMMA HasByte ==
  ASSUME NEW f \in Seq(Byte), NEW off \in Nat, NEW x \in Byte, Has(f, off, <<x>>)
  PROVE  ByteAt(f, off) = x
<1>1. Len(<<x>>) = 1 /\ <<x>>[1] = x /\ Len(f) \in Nat
  OBVIOUS
<1>2. off + 1 <= Len(f) /\ f[off + 1] = x
  BY <1>1 DEF Has
<1> QED BY <1>1, <1>2 DEF ByteAt

(* A word.                                                                   *)
LEMMA HasWord ==
  ASSUME NEW f \in Seq(Byte), NEW off \in Nat, NEW n \in Short, Has(f, off, Word(n))
  PROVE  WordAt(f, off) = n
<1>1. /\ Word(n) \in Seq(Byte) /\ Len(Word(n)) = 2
      /\ Word(n)[1] + 256 * Word(n)[2] = n
  BY WordBytes, WordValue DEF Short
<1>2. \A i \in 1..2 : ByteAt(f, off + i - 1) = Word(n)[i]
  <2>1. \A i \in 1..Len(Word(n)) : ByteAt(f, off + i - 1) = Word(n)[i]
    BY <1>1, HasBytes, Zenon
  <2> QED BY <1>1, <2>1
<1>3. off + 1 - 1 = off /\ off + 2 - 1 = off + 1 /\ 1 \in 1..2 /\ 2 \in 1..2
  OBVIOUS
<1>4. ByteAt(f, off) = Word(n)[1] /\ ByteAt(f, off + 1) = Word(n)[2]
  BY <1>2, <1>3
<1> QED BY <1>1, <1>4 DEF WordAt

(* The variables of the calculator.                                          *)
Variables == [type : Byte, name : [1..8 -> Byte], archived : BOOLEAN, data : Seq(Byte)]

(* A name is eight bytes.                                                    *)
LEMMA NameIs ==
  ASSUME NEW v \in Variables
  PROVE  v.name \in Seq(Byte) /\ Len(v.name) = 8
<1>1. v.name \in [1..8 -> Byte]
  BY DEF Variables
<1>2. 8 \in Nat
  OBVIOUS
<1> QED BY <1>1, <1>2, FunctionIsSequence

(* Where the parts of a variable's file stand.                               *)
LEMMA Layout ==
  ASSUME NEW v \in Variables, NEW flag \in Byte
  PROVE  LET n == Len(v.data)
             f == Laid(v, <<flag>>)
         IN /\ f \in Seq(Byte) /\ Len(f) = 74 + n
            /\ Has(f, 53, Word(n + 19)) /\ Has(f, 59, <<v.type>>) /\ Has(f, 60, v.name)
            /\ Has(f, 69, <<flag>>) /\ Has(f, 70, Word(n + 2)) /\ Has(f, 74, v.data)
<1> DEFINE n == Len(v.data)
           f == Laid(v, <<flag>>)
<1>1. v.data \in Seq(Byte) /\ n \in Nat /\ v.type \in Byte
  BY DEF Variables
<1>2. v.name \in Seq(Byte) /\ Len(v.name) = 8
  BY NameIs
<1>3. n + 19 \in Nat /\ n + 2 \in Nat /\ n \in Nat /\ 13 \in Nat
  BY <1>1
<1>4. /\ Word(n + 19) \in Seq(Byte) /\ Len(Word(n + 19)) = 2
      /\ Word(n + 2) \in Seq(Byte) /\ Len(Word(n + 2)) = 2
      /\ Word(n) \in Seq(Byte) /\ Len(Word(n)) = 2
      /\ Word(13) \in Seq(Byte) /\ Len(Word(13)) = 2
  BY <1>3, WordBytes
<1>5. 0 \in Byte
  BY ByteIs
<1>6. /\ <<v.type>> \in Seq(Byte) /\ Len(<<v.type>>) = 1
      /\ <<flag>> \in Seq(Byte) /\ Len(<<flag>>) = 1
      /\ <<0>> \in Seq(Byte) /\ Len(<<0>>) = 1
  BY <1>1, <1>5
<1>7. Preamble \in Seq(Byte) /\ Len(Preamble) = 53
  BY <1>5 DEF Preamble, Zeros
<1> DEFINE a == <<v.type>>
           b == <<0>>
           c == <<flag>>
           x == Word(n + 19)
           y == Word(13)
           z == Word(n + 2)
           w == Word(n)
<1>9. f = Preamble \o x \o y \o z \o a
            \o v.name \o b \o c \o z \o w \o v.data
  BY DEF Laid
<1>10. /\ a \in Seq(Byte) /\ Len(a) = 1 /\ b \in Seq(Byte) /\ Len(b) = 1
       /\ c \in Seq(Byte) /\ Len(c) = 1 /\ x \in Seq(Byte) /\ Len(x) = 2
       /\ y \in Seq(Byte) /\ Len(y) = 2 /\ z \in Seq(Byte) /\ Len(z) = 2
       /\ w \in Seq(Byte) /\ Len(w) = 2
  BY <1>4, <1>6
<1> HIDE DEF n, f, a, b, c, x, y, z, w
<1>8. /\ Preamble \in Seq(Byte) /\ x \in Seq(Byte) /\ y \in Seq(Byte)
      /\ z \in Seq(Byte) /\ a \in Seq(Byte) /\ v.name \in Seq(Byte)
      /\ b \in Seq(Byte) /\ c \in Seq(Byte) /\ w \in Seq(Byte) /\ v.data \in Seq(Byte)
  BY <1>1, <1>2, <1>7, <1>10
<1>11. PICK f1, f2, f3, f4, f5, f6, f7, f8, f9 :
         /\ f1 = Preamble \o x /\ f2 = f1 \o y /\ f3 = f2 \o z /\ f4 = f3 \o a
         /\ f5 = f4 \o v.name /\ f6 = f5 \o b /\ f7 = f6 \o c /\ f8 = f7 \o z
         /\ f9 = f8 \o w /\ f = f9 \o v.data
  BY <1>9, Zenon
<1>12. /\ Cat(f1, Preamble, x) /\ Cat(f2, f1, y) /\ Cat(f3, f2, z)
       /\ Cat(f4, f3, a) /\ Cat(f5, f4, v.name) /\ Cat(f6, f5, b) /\ Cat(f7, f6, c)
       /\ Cat(f8, f7, z) /\ Cat(f9, f8, w) /\ Cat(f, f9, v.data)
  <2>1. Cat(f1, Preamble, x)
    BY <1>8, <1>11, CatIs, ZenonT(60) DEF Cat
  <2>2. Cat(f2, f1, y)
    BY <1>8, <1>11, <2>1, CatIs, ZenonT(60) DEF Cat
  <2>3. Cat(f3, f2, z)
    BY <1>8, <1>11, <2>2, CatIs, ZenonT(60) DEF Cat
  <2>4. Cat(f4, f3, a)
    BY <1>8, <1>11, <2>3, CatIs, ZenonT(60) DEF Cat
  <2>5. Cat(f5, f4, v.name)
    BY <1>8, <1>11, <2>4, CatIs, ZenonT(60) DEF Cat
  <2>6. Cat(f6, f5, b)
    BY <1>8, <1>11, <2>5, CatIs, ZenonT(60) DEF Cat
  <2>7. Cat(f7, f6, c)
    BY <1>8, <1>11, <2>6, CatIs, ZenonT(60) DEF Cat
  <2>8. Cat(f8, f7, z)
    BY <1>8, <1>11, <2>7, CatIs, ZenonT(60) DEF Cat
  <2>9. Cat(f9, f8, w)
    BY <1>8, <1>11, <2>8, CatIs, ZenonT(60) DEF Cat
  <2>10. Cat(f, f9, v.data)
    <3>1. f9 \in Seq(Byte)
      BY <2>9, Zenon DEF Cat
    <3>2. Cat(f9 \o v.data, f9, v.data)
      BY <1>8, <3>1, CatIs, Zenon
    <3>3. f = f9 \o v.data
      BY <1>11
    <3> QED BY <3>2, <3>3, Zenon
  <2> QED BY <2>1, <2>2, <2>3, <2>4, <2>5, <2>6, <2>7, <2>8, <2>9, <2>10
<1>13. /\ Len(f1) = 55 /\ Len(f2) = 57 /\ Len(f3) = 59 /\ Len(f4) = 60 /\ Len(f5) = 68
       /\ Len(f6) = 69 /\ Len(f7) = 70 /\ Len(f8) = 72 /\ Len(f9) = 74 /\ Len(f) = 74 + n
  <2>1. /\ Len(f1) = Len(Preamble) + Len(x) /\ Len(f2) = Len(f1) + Len(y)
        /\ Len(f3) = Len(f2) + Len(z) /\ Len(f4) = Len(f3) + Len(a)
        /\ Len(f5) = Len(f4) + Len(v.name) /\ Len(f6) = Len(f5) + Len(b)
        /\ Len(f7) = Len(f6) + Len(c) /\ Len(f8) = Len(f7) + Len(z)
        /\ Len(f9) = Len(f8) + Len(w) /\ Len(f) = Len(f9) + Len(v.data)
    BY <1>12, Zenon DEF Cat
  <2>2. Len(v.data) = n
    BY DEF n
  <2>7. /\ Len(Preamble) = 53 /\ Len(x) = 2 /\ Len(y) = 2 /\ Len(w) = 2
        /\ Len(z) = 2 /\ Len(a) = 1 /\ Len(b) = 1 /\ Len(c) = 1 /\ Len(v.name) = 8
    BY <1>2, <1>7, <1>10
  <2>3. Len(f1) = 55 /\ Len(f2) = 57 /\ Len(f3) = 59 /\ Len(f4) = 60
    BY <2>1, <2>7
  <2>4. Len(f5) = 68 /\ Len(f6) = 69 /\ Len(f7) = 70
    BY <2>1, <2>3, <2>7
  <2>5. Len(f8) = 72 /\ Len(f9) = 74
    BY <2>1, <2>4, <2>7
  <2>6. Len(f) = 74 + n
    BY <2>1, <2>2, <2>5
  <2> QED BY <2>3, <2>4, <2>5, <2>6
<1>19. /\ Has(f1, 53, x) /\ Has(f4, 59, a) /\ Has(f5, 60, v.name)
       /\ Has(f7, 69, c) /\ Has(f8, 70, z) /\ Has(f, 74, v.data)
  <2>1. /\ Has(f1, Len(Preamble), x) /\ Has(f4, Len(f3), a) /\ Has(f5, Len(f4), v.name)
        /\ Has(f7, Len(f6), c) /\ Has(f8, Len(f7), z) /\ Has(f, Len(f9), v.data)
    BY <1>12, Zenon DEF Cat
  <2> QED BY <1>7, <1>13, <2>1
<1>14. /\ Keeps(f1, f2) /\ Keeps(f2, f3) /\ Keeps(f3, f4) /\ Keeps(f4, f5) /\ Keeps(f5, f6)
       /\ Keeps(f6, f7) /\ Keeps(f7, f8) /\ Keeps(f8, f9) /\ Keeps(f9, f)
  BY <1>12, Zenon DEF Cat
<1>15. /\ Keeps(f8, f) /\ Keeps(f7, f) /\ Keeps(f5, f) /\ Keeps(f4, f) /\ Keeps(f1, f)
  BY <1>14, Zenon DEF Keeps
<1>16. 53 \in Nat /\ 59 \in Nat /\ 60 \in Nat /\ 69 \in Nat /\ 70 \in Nat
  OBVIOUS
<1>17. /\ Has(f, 53, x) /\ Has(f, 59, a) /\ Has(f, 60, v.name)
       /\ Has(f, 69, c) /\ Has(f, 70, z)
  BY <1>2, <1>10, <1>19, <1>15, <1>16 DEF Keeps
<1>18. f \in Seq(Byte)
  BY <1>12 DEF Cat
<1> QED BY <1>13, <1>19, <1>17, <1>18 DEF n, f, a, c, x, z

-----------------------------------------------------------------------------
(* The checksum.                                                            *)

(* An addition to a uint16_t.                                                *)
Add(x, y) == uint16_t(x + y)

(* ... is one.                                                               *)
LEMMA AddShort ==
  ASSUME NEW x \in Short, NEW y \in Byte
  PROVE  Add(x, y) \in Short
<1>1. x \in Nat /\ y \in Nat
  BY ByteIs DEF Short
<1>2. x + y \in Nat
  BY <1>1
<1> QED BY <1>2, uint16Short DEF Add

(* f holds the partial sums of the bytes b[1], b[2], ... in 16 bits.         *)
Sums(f, n, b) == /\ f \in [0..n -> Short] /\ f[0] = 0
                 /\ \A i \in 1..n : f[i] = Add(f[i - 1], b[i])

(* There is one such function.                                              *)
LEMMA SumsUnique ==
  ASSUME NEW n \in Nat, NEW b, NEW f, NEW h, Sums(f, n, b), Sums(h, n, b)
  PROVE  f[n] = h[n]
<1> DEFINE Q == {i \in 0..n : f[i] = h[i]}
<1>1. 0 \in Q
  BY DEF Sums
<1>2. ASSUME NEW i \in 0..n, i < n, i \in Q PROVE i + 1 \in Q
  <2>1. i + 1 \in 1..n /\ i + 1 \in 0..n /\ (i + 1) - 1 = i
    BY <1>2
  <2>2. f[i + 1] = Add(f[i], b[i + 1]) /\ h[i + 1] = Add(h[i], b[i + 1])
    BY <2>1 DEF Sums
  <2>3. f[i] = h[i]
    BY <1>2
  <2> QED BY <2>1, <2>2, <2>3
<1> HIDE DEF Q
<1>3. n \in 0..n /\ \A i \in 0..n : i \in Q
  BY <1>1, <1>2, UpTo
<1> QED BY <1>3 DEF Q

(* util_ComputeChecksum is the last of the sums.                             *)
LEMMA ChecksumIs ==
  ASSUME NEW f, NEW from \in Nat, NEW n \in Nat, NEW b \in [1..n -> Byte],
         \A i \in 1..n : b[i] = ByteAt(f, from + i - 1)
  PROVE  \E sum : Sums(sum, n, b) /\ util_ComputeChecksum(f, from, n) = sum[n]
<1> DEFINE g == [x \in (1..n) \X Short |-> Add(x[2], b[x[1]])]
           Rec(c) == c = [i \in 0..n |->
                            IF i = 0 THEN 0 ELSE uint16_t(c[i - 1] + ByteAt(f, from + i - 1))]
<1>1. util_ComputeChecksum(f, from, n) = (CHOOSE c : Rec(c))[n]
  BY Zenon DEF util_ComputeChecksum
<1>2. g \in [(1..n) \X Short -> Short]
  <2>1. \A x \in (1..n) \X Short : b[x[1]] \in Byte /\ x[2] \in Short
    OBVIOUS
  <2>2. \A x \in (1..n) \X Short : Add(x[2], b[x[1]]) \in Short
    BY <2>1, AddShort
  <2> QED BY <2>2
<1>3. \A i \in 1..n, x \in Short : g[<<i, x>>] = Add(x, b[i])
  OBVIOUS
<1>4. 0 \in Short
  BY DEF Short
<1> HIDE DEF g
<1>5. PICK s \in [0..n -> Short] : Computes(s, n, 0, g)
  <2> HIDE DEF Rec
  <2> QED BY <1>2, <1>4, Recursion, Zenon
<1>6. Rec(s)
  <2>1. s[0] = 0 /\ \A i \in 1..n : s[i] = Add(s[i - 1], b[i])
    <3> HIDE DEF Rec
    <3>1. s[0] = 0 /\ \A i \in 1..n : s[i] = g[<<i, s[i - 1]>>]
      BY <1>5 DEF Computes
    <3>2. \A i \in 1..n : s[i - 1] \in Short
      OBVIOUS
    <3> QED BY <1>3, <3>1, <3>2
  <2>2. s = [i \in 0..n |-> IF i = 0 THEN 0 ELSE Add(s[i - 1], ByteAt(f, from + i - 1))]
    BY <2>1
  <2> QED BY <2>2, Zenon DEF Add
<1> HIDE DEF Rec
<1>7. Rec(CHOOSE h : Rec(h))
  BY <1>6, Zenon
<1> DEFINE c == CHOOSE h : Rec(h)
<1>8. Sums(c, n, b)
  <2> HIDE DEF c
  <2>1. c = [i \in 0..n |-> IF i = 0 THEN 0 ELSE Add(c[i - 1], ByteAt(f, from + i - 1))]
    BY <1>7, Zenon DEF c, Rec, Add
  <2>2. c[0] = 0 /\ \A i \in 1..n : c[i] = Add(c[i - 1], b[i])
    BY <2>1
  <2> DEFINE Q == {i \in 0..n : c[i] \in Short}
  <2>3. 0 \in Q
    BY <1>4, <2>2
  <2>4. ASSUME NEW i \in 0..n, i < n, i \in Q PROVE i + 1 \in Q
    <3>1. i + 1 \in 1..n /\ i + 1 \in 0..n /\ (i + 1) - 1 = i
      BY <2>4
    <3>2. c[i + 1] = Add(c[i], b[i + 1]) /\ c[i] \in Short /\ b[i + 1] \in Byte
      BY <2>2, <2>4, <3>1
    <3>3. c[i + 1] \in Short
      BY <3>2, AddShort
    <3> QED BY <3>1, <3>3
  <2> HIDE DEF Q
  <2>5. \A i \in 0..n : i \in Q
    BY <2>3, <2>4, UpTo
  <2>6. \A i \in 0..n : c[i] \in Short
    BY <2>5 DEF Q
  <2> QED BY <2>1, <2>2, <2>6 DEF Sums
<1> QED BY <1>1, <1>8

(* The checksum of the same bytes is the same, and fits into a word.         *)
LEMMA SameChecksum ==
  ASSUME NEW f, NEW g, NEW from \in Nat, NEW n \in Nat,
         \A i \in 1..n : /\ ByteAt(f, from + i - 1) = ByteAt(g, from + i - 1)
                         /\ ByteAt(f, from + i - 1) \in Byte
  PROVE  /\ util_ComputeChecksum(f, from, n) = util_ComputeChecksum(g, from, n)
         /\ util_ComputeChecksum(f, from, n) \in Short
<1> DEFINE b == [i \in 1..n |-> ByteAt(f, from + i - 1)]
<1>1. /\ b \in [1..n -> Byte] /\ \A i \in 1..n : b[i] = ByteAt(f, from + i - 1)
      /\ \A i \in 1..n : b[i] = ByteAt(g, from + i - 1)
  OBVIOUS
<1> HIDE DEF b
<1>2. PICK s : Sums(s, n, b) /\ util_ComputeChecksum(f, from, n) = s[n]
  BY <1>1, ChecksumIs
<1>3. PICK t : Sums(t, n, b) /\ util_ComputeChecksum(g, from, n) = t[n]
  BY <1>1, ChecksumIs
<1>4. s[n] = t[n]
  BY <1>2, <1>3, SumsUnique
<1> QED BY <1>2, <1>3, <1>4 DEF Sums

-----------------------------------------------------------------------------
(* The download.                                                            *)

(* The file of a variable, byte by byte as ftp_RetrCallback reads it.        *)
LEMMA WholeFile ==
  ASSUME NEW v \in Variables
  PROVE  LET n == Len(v.data)
             f == WellFormedFile(v)
         IN /\ f \in Seq(Byte) /\ Len(f) = 76 + n
            /\ Has(f, 53, Word(n + 19)) /\ Has(f, 59, <<v.type>>) /\ Has(f, 60, v.name)
            /\ Has(f, 69, <<IF v.archived THEN 128 ELSE 0>>)
            /\ Has(f, 70, Word(n + 2)) /\ Has(f, 74, v.data)
            /\ util_ComputeChecksum(f, 55, n + 19) \in Short
            /\ Has(f, 74 + n, Word(util_ComputeChecksum(f, 55, n + 19)))
<1> DEFINE n == Len(v.data)
           flag == IF v.archived THEN 128 ELSE 0
           g == Laid(v, <<flag>>)
           sum == util_ComputeChecksum(g, 55, n + 19)
           f == g \o Word(sum)
<1>1. n \in Nat /\ v.type \in Byte /\ v.data \in Seq(Byte)
  BY DEF Variables
<1>2. flag \in Byte
  BY ByteIs
<1>f. WellFormedFile(v) = f
  BY DEF WellFormedFile
<1> HIDE DEF flag
<1>3. /\ g \in Seq(Byte) /\ Len(g) = 74 + n
      /\ Has(g, 53, Word(n + 19)) /\ Has(g, 59, <<v.type>>) /\ Has(g, 60, v.name)
      /\ Has(g, 69, <<flag>>) /\ Has(g, 70, Word(n + 2)) /\ Has(g, 74, v.data)
  BY <1>2, Layout
<1> HIDE DEF g, n
<1>4. n + 19 \in Nat /\ 55 \in Nat /\ 53 \in Nat /\ 59 \in Nat /\ 60 \in Nat
      /\ 69 \in Nat /\ 70 \in Nat /\ 74 \in Nat /\ n + 2 \in Nat
  BY <1>1
<1>5. ASSUME NEW i \in 1..(n + 19)
      PROVE  ByteAt(g, 55 + i - 1) = g[55 + i] /\ g[55 + i] \in Byte /\ 55 + i \in 1..Len(g)
  <2>1. 55 + i - 1 < Len(g) /\ (55 + i - 1) + 1 = 55 + i /\ 55 + i \in 1..Len(g)
    BY <1>1, <1>3
  <2>2. g[55 + i] \in Byte
    BY <1>3, <2>1
  <2> QED BY <2>1, <2>2 DEF ByteAt
<1>6. sum \in Short
  <2>1. \A i \in 1..(n + 19) : ByteAt(g, 55 + i - 1) = ByteAt(g, 55 + i - 1)
                               /\ ByteAt(g, 55 + i - 1) \in Byte
    BY <1>5
  <2> QED BY <1>4, <2>1, SameChecksum
<1> HIDE DEF sum
<1>7. sum \in Nat
  BY <1>6 DEF Short
<1>8. Word(sum) \in Seq(Byte) /\ Len(Word(sum)) = 2
  BY <1>7, WordBytes
<1>9. Cat(f, g, Word(sum)) /\ \A i \in 1..Len(g) : f[i] = g[i]
  BY <1>3, <1>8, CatIs, Follows
<1> HIDE DEF f
<1>10. f \in Seq(Byte) /\ Len(f) = 76 + n /\ Has(f, 74 + n, Word(sum)) /\ Keeps(g, f)
  BY <1>1, <1>3, <1>8, <1>9 DEF Cat
<1>11. \A i \in 1..(n + 19) : ByteAt(f, 55 + i - 1) = ByteAt(g, 55 + i - 1)
  <2> SUFFICES ASSUME NEW i \in 1..(n + 19)
               PROVE  ByteAt(f, 55 + i - 1) = ByteAt(g, 55 + i - 1)
    OBVIOUS
  <2>1. f[55 + i] = g[55 + i] /\ ByteAt(g, 55 + i - 1) = g[55 + i]
    BY <1>5, <1>9
  <2>2. 55 + i - 1 < Len(f) /\ (55 + i - 1) + 1 = 55 + i
    BY <1>1, <1>10
  <2> QED BY <2>1, <2>2 DEF ByteAt
<1>12. util_ComputeChecksum(f, 55, n + 19) = sum
  <2>1. \A i \in 1..(n + 19) : ByteAt(g, 55 + i - 1) = ByteAt(f, 55 + i - 1)
                               /\ ByteAt(g, 55 + i - 1) \in Byte
    BY <1>5, <1>11
  <2> QED BY <1>4, <2>1, SameChecksum DEF sum
<1>13. /\ Word(n + 19) \in Seq(Byte) /\ Word(n + 2) \in Seq(Byte) /\ <<v.type>> \in Seq(Byte)
       /\ v.name \in Seq(Byte) /\ <<flag>> \in Seq(Byte)
  BY <1>1, <1>2, <1>4, WordBytes, NameIs
<1>14. /\ Has(f, 53, Word(n + 19)) /\ Has(f, 59, <<v.type>>) /\ Has(f, 60, v.name)
       /\ Has(f, 69, <<flag>>) /\ Has(f, 70, Word(n + 2)) /\ Has(f, 74, v.data)
  BY <1>1, <1>3, <1>4, <1>10, <1>13 DEF Keeps
<1> QED BY <1>f, <1>6, <1>10, <1>12, <1>14 DEF n, flag

(* A file as linking programs write it is read back as its variable, if its  *)
(* length fits into a word.                                                  *)
LEMMA ReadsBack ==
  ASSUME NEW v \in Variables, Len(WellFormedFile(v)) \in Short
  PROVE  ReadVar(WellFormedFile(v)) = [ok |-> TRUE, var |-> v]
<1> DEFINE n == Len(v.data)
           f == WellFormedFile(v)
           flag == IF v.archived THEN 128 ELSE 0
           sum == util_ComputeChecksum(f, 55, n + 19)
<1>1. n \in Nat /\ v.type \in Byte /\ v.data \in Seq(Byte)
  BY DEF Variables
<1>2. /\ f \in Seq(Byte) /\ Len(f) = 76 + n
      /\ Has(f, 53, Word(n + 19)) /\ Has(f, 59, <<v.type>>) /\ Has(f, 60, v.name)
      /\ Has(f, 69, <<flag>>) /\ Has(f, 70, Word(n + 2)) /\ Has(f, 74, v.data)
      /\ sum \in Short /\ Has(f, 74 + n, Word(sum))
  BY WholeFile
<1>r. ReadVar(f).ok = (util_ComputeChecksum(f, 55, WordAt(f, 53)) = WordAt(f, 72 + WordAt(f, 70)))
  BY DEF ReadVar
<1>v. ReadVar(f) = [ok |-> util_ComputeChecksum(f, 55, WordAt(f, 53)) = WordAt(f, 72 + WordAt(f, 70)),
                    var |-> [type |-> ByteAt(f, 59),
                             name |-> [i \in 1..8 |-> ByteAt(f, 59 + i)],
                             archived |-> ByteAt(f, 69) = 128,
                             data |-> [i \in 1..(WordAt(f, 70) - 2) |-> ByteAt(f, 73 + i)]]]
  BY DEF ReadVar
<1>3. f \in Seq(Byte) /\ Len(f) \in Short
  BY <1>2
<1> HIDE DEF f, sum
<1>4. n + 19 \in Short /\ n + 2 \in Short /\ 74 + n \in Nat /\ 72 + (n + 2) = 74 + n /\ (n + 2) - 2 = n
  <2>1. Len(f) \in Nat /\ Len(f) < 65536
    BY <1>3 DEF Short
  <2>2. n + 76 < 65536
    BY <1>1, <1>2, <2>1
  <2>3. n + 19 \in Nat /\ n + 19 < 65536 /\ n + 2 \in Nat /\ n + 2 < 65536
    BY <1>1, <2>2
  <2> QED BY <1>1, <2>3 DEF Short
<1> HIDE DEF n, flag
<1>5. 53 \in Nat /\ 59 \in Nat /\ 60 \in Nat /\ 69 \in Nat /\ 70 \in Nat /\ 74 \in Nat
  OBVIOUS
<1>6. WordAt(f, 53) = n + 19 /\ WordAt(f, 70) = n + 2 /\ WordAt(f, 74 + n) = sum
  BY <1>2, <1>4, <1>5, HasWord
<1>7. (util_ComputeChecksum(f, 55, WordAt(f, 53)) = WordAt(f, 72 + WordAt(f, 70))) = TRUE
  <2>1. util_ComputeChecksum(f, 55, WordAt(f, 53)) = sum
    BY <1>6 DEF sum
  <2>2. WordAt(f, 72 + WordAt(f, 70)) = sum
    BY <1>4, <1>6
  <2> QED BY <2>1, <2>2
<1>8. ByteAt(f, 59) = v.type
  BY <1>1, <1>2, <1>5, HasByte
<1>9. (ByteAt(f, 69) = 128) = v.archived
  <2>1. v.archived \in BOOLEAN
    BY DEF Variables
  <2>2. flag \in Byte
    BY ByteIs DEF flag
  <2>3. ByteAt(f, 69) = flag
    BY <1>2, <1>5, <2>2, HasByte
  <2>4. CASE v.archived = TRUE
    BY <2>3, <2>4 DEF flag
  <2>5. CASE v.archived = FALSE
    <3>1. ~(ByteAt(f, 69) = 128)
      BY <2>3, <2>5 DEF flag
    <3> QED BY <2>5, <3>1
  <2> QED BY <2>1, <2>4, <2>5
<1>10. [i \in 1..8 |-> ByteAt(f, 59 + i)] = v.name
  <2>1. v.name \in Seq(Byte) /\ Len(v.name) = 8
    BY NameIs
  <2>6. \A i \in 1..Len(v.name) : ByteAt(f, 60 + i - 1) = v.name[i]
    BY <1>2, <1>5, <2>1, HasBytes, Zenon
  <2>2. \A i \in 1..8 : ByteAt(f, 60 + i - 1) = v.name[i]
    BY <2>1, <2>6
  <2>3. \A i \in 1..8 : 60 + i - 1 = 59 + i
    OBVIOUS
  <2>4. \A i \in 1..8 : ByteAt(f, 59 + i) = v.name[i]
    BY <2>2, <2>3
  <2>5. v.name = [i \in 1..8 |-> v.name[i]]
    BY DEF Variables
  <2> QED BY <2>4, <2>5
<1>11. [i \in 1..(WordAt(f, 70) - 2) |-> ByteAt(f, 73 + i)] = v.data
  <2>1. v.data \in Seq(Byte) /\ Len(v.data) = n
    BY <1>1 DEF n
  <2>2. \A i \in 1..n : ByteAt(f, 74 + i - 1) = v.data[i]
    BY <1>2, <1>5, <2>1, HasBytes
  <2>3. \A i \in 1..n : 74 + i - 1 = 73 + i
    BY <1>1
  <2>4. \A i \in 1..n : ByteAt(f, 73 + i) = v.data[i]
    BY <2>2, <2>3
  <2>5. v.data = [i \in 1..n |-> v.data[i]]
    BY <2>1
  <2> QED BY <1>4, <1>6, <2>4, <2>5
<1>12. v = [type |-> v.type, name |-> v.name, archived |-> v.archived, data |-> v.data]
  BY DEF Variables
<1>13. ReadVar(f) = [ok |-> TRUE, var |-> [type |-> v.type, name |-> v.name,
                                           archived |-> v.archived, data |-> v.data]]
  BY <1>v, <1>7, <1>8, <1>9, <1>10, <1>11
<1> QED BY <1>12, <1>13 DEF f

(* Two parts of a sequence, one behind the other.                            *)
LEMMA SubSeqCat ==
  ASSUME NEW S, NEW s \in Seq(S), NEW i \in 0..Len(s), NEW j \in i..Len(s)
  PROVE  /\ SubSeq(s, 1, i) \o SubSeq(s, i + 1, j) = SubSeq(s, 1, j)
         /\ Len(SubSeq(s, 1, i)) = i /\ Len(SubSeq(s, i + 1, j)) = j - i
         /\ SubSeq(s, i + 1, j) \in Seq(S)
<1>1. i \in Nat /\ j \in Nat /\ i <= j /\ j <= Len(s) /\ Len(s) \in Nat
  OBVIOUS
<1> DEFINE a == SubSeq(s, 1, i)
           b == SubSeq(s, i + 1, j)
           c == SubSeq(s, 1, j)
<1>2. /\ a \in Seq(S) /\ Len(a) = i /\ \A k \in 1..i : a[k] = s[k]
  BY <1>1
<1>3. /\ b \in Seq(S) /\ Len(b) = j - i /\ \A k \in 1..(j - i) : b[k] = s[i + k]
  BY <1>1
<1>4. /\ c \in Seq(S) /\ Len(c) = j /\ \A k \in 1..j : c[k] = s[k]
  BY <1>1
<1> HIDE DEF a, b, c
<1>5. a \o b \in Seq(S) /\ Len(a \o b) = j
  BY <1>1, <1>2, <1>3
<1>6. ASSUME NEW k \in 1..j PROVE (a \o b)[k] = c[k]
  <2>1. CASE k <= i
    <3>1. k \in 1..Len(a)
      BY <1>2, <2>1
    <3>2. (a \o b)[k] = a[k]
      BY <1>2, <1>3, <3>1
    <3> QED BY <1>2, <1>4, <3>1, <3>2
  <2>2. CASE ~(k <= i)
    <3>1. k - i \in 1..Len(b) /\ i + (k - i) = k
      BY <1>1, <1>3, <2>2
    <3>2. (a \o b)[k] = b[k - i]
      BY <1>1, <1>2, <1>3, <2>2, <3>1
    <3>3. b[k - i] = s[k]
      BY <1>3, <3>1
    <3> QED BY <1>4, <3>2, <3>3
  <2> QED BY <2>1, <2>2
<1>7. a \o b = c
  BY <1>1, <1>4, <1>5, <1>6
<1> QED BY <1>2, <1>3, <1>7 DEF a, b, c

(* What is in FILE_BUFFER is the file as far as it was received, if all of   *)
(* it has room there.                                                        *)
Received ==
  phase \in {"retr", "done"} =>
    /\ var \in Vars /\ sent \in 0..Len(File)
    /\ Len(File) <= FileMax => buffer = SubSeq(File, 1, sent)

(* ftp_RetrCallback has read all that was received.                          *)
ReadWhole == phase = "done" => sent = Len(File) /\ written = ReadVar(buffer)

DInv == Received /\ ReadWhole

(* The file that is downloaded.                                              *)
LEMMA FileIs ==
  ASSUME ~Uploaded, var \in Vars
  PROVE  /\ File = WellFormedFile(var) /\ File \in Seq(Byte) /\ Len(File) \in Nat
         /\ var \in Variables
<1>1. File = WellFormedFile(var)
  BY DEF File
<1>2. var \in Variables
  BY TransfersAssumption DEF Variables
<1>3. WellFormedFile(var) \in Seq(Byte)
  BY <1>2, WholeFile
<1> QED BY <1>1, <1>2, <1>3

(* A segment more: ftp_RetrDataSink adds what TCP delivers next.             *)
LEMMA SinkReceives ==
  ASSUME ~Uploaded, DInv, NEW n \in Cuts, ftp_RetrDataSink(n)
  PROVE  DInv'
<1>1. phase = "retr" /\ phase' = "retr" /\ var' = var /\ sent < Len(File)
  BY DEF ftp_RetrDataSink
<1>2. /\ var \in Vars /\ sent \in 0..Len(File)
      /\ Len(File) <= FileMax => buffer = SubSeq(File, 1, sent)
  BY <1>1 DEF DInv, Received
<1>3. File' = File
  BY <1>1 DEF File
<1>4. File \in Seq(Byte) /\ Len(File) \in Nat
  BY <1>2, FileIs
<1>5. n \in Nat \ {0} /\ FileMax \in Nat
  BY TransfersAssumption
<1>6. /\ sent' = IF sent + n > Len(File) THEN Len(File) ELSE sent + n
      /\ buffer' = Taken(SubSeq(File, sent + 1, sent'))
  BY DEF ftp_RetrDataSink
<1>7. sent' \in sent..Len(File) /\ sent' \in 0..Len(File)
  BY <1>1, <1>2, <1>4, <1>5, <1>6
<1>8. ASSUME Len(File) <= FileMax PROVE buffer' = SubSeq(File, 1, sent')
  <2> DEFINE seg == SubSeq(File, sent + 1, sent')
  <2>1. buffer = SubSeq(File, 1, sent)
    BY <1>2, <1>8
  <2>2. /\ SubSeq(File, 1, sent) \o seg = SubSeq(File, 1, sent')
        /\ Len(SubSeq(File, 1, sent)) = sent /\ Len(seg) = sent' - sent /\ seg \in Seq(Byte)
    BY <1>2, <1>4, <1>7, SubSeqCat
  <2>3. Taken(seg) = buffer \o SubSeq(seg, 1, IF Len(buffer) + Len(seg) > FileMax
                                              THEN FileMax - Len(buffer) ELSE Len(seg))
    BY DEF Taken
  <2>4. buffer' = Taken(seg)
    BY <1>6
  <2> HIDE DEF seg
  <2>5. ~(Len(buffer) + Len(seg) > FileMax)
    <3>1. Len(buffer) = sent /\ Len(seg) = sent' - sent
      BY <2>1, <2>2
    <3>2. sent \in Nat /\ sent' \in Nat /\ sent' <= Len(File)
      BY <1>2, <1>4, <1>7
    <3>3. \A a, b, c, m \in Nat : b <= c /\ c <= m => ~(a + (b - a) > m)
      OBVIOUS
    <3>4. ~(sent + (sent' - sent) > FileMax)
      BY <1>4, <1>5, <1>8, <3>2, <3>3
    <3> QED BY <3>1, <3>4
  <2>6. SubSeq(seg, 1, Len(seg)) = seg
    BY <2>2
  <2>7. Taken(seg) = buffer \o seg
    BY <2>3, <2>5, <2>6
  <2> QED BY <2>1, <2>2, <2>4, <2>7
<1> QED BY <1>1, <1>2, <1>3, <1>7, <1>8 DEF DInv, Received, ReadWhole

(* The download's invariant: the buffer follows the file.                    *)
LEMMA DownloadInv ==
  ASSUME ~Uploaded
  PROVE  TSpec => []DInv
<1>1. TInit => DInv
  BY DEF TInit, DInv, Received, ReadWhole
<1>2. DInv /\ [TNext]_tvars => DInv'
  <2> SUFFICES ASSUME DInv, [TNext]_tvars PROVE DInv'
    OBVIOUS
  <2>1. ASSUME UNCHANGED svars PROVE DInv'
    BY <2>1 DEF svars, DInv, Received, ReadWhole, File
  <2>2. ASSUME NEW lines \in Listings, BeginList(lines) PROVE DInv'
    BY <2>2 DEF BeginList, DInv, Received, ReadWhole
  <2>3. ASSUME NEW n \in 1..Len(Chars), ftp_ListDataSink(n) PROVE DInv'
    BY <2>3 DEF ftp_ListDataSink, DInv, Received, ReadWhole
  <2>4. ASSUME NEW v \in Vars, BeginRetr(v) PROVE DInv'
    <3>1. phase' = "retr" /\ sent' = 0 /\ buffer' = <<>> /\ var' = v
      BY <2>4 DEF BeginRetr
    <3>2. File' = WellFormedFile(v)
      BY <3>1 DEF File
    <3>3. WellFormedFile(v) \in Seq(Byte)
      <4>1. v \in Variables
        BY TransfersAssumption DEF Variables
      <4> QED BY <4>1, WholeFile
    <3>4. SubSeq(WellFormedFile(v), 1, 0) = <<>> /\ Len(WellFormedFile(v)) \in Nat
      BY <3>3
    <3> QED BY <3>1, <3>2, <3>4 DEF DInv, Received, ReadWhole
  <2>5. ASSUME NEW n \in Cuts, ftp_RetrDataSink(n) PROVE DInv'
    BY <2>5, SinkReceives
  <2>6. ASSUME ftp_RetrCallback PROVE DInv'
    BY <2>6 DEF ftp_RetrCallback, DInv, Received, ReadWhole, File
  <2> QED BY <2>1, <2>2, <2>3, <2>4, <2>5, <2>6 DEF TNext, tvars
<1> QED BY <1>1, <1>2, PTL DEF TSpec

(* However TCP cuts it, a file of a linking program that fits into           *)
(* FILE_BUFFER becomes the variable it was made of: for variables of any     *)
(* length and bytes (ftp_RetrDataSink, then ftp_RetrCallback).               *)
THEOREM DownloadAlwaysExact ==
  ASSUME ~Uploaded
  PROVE  TSpec => []DownloadExact
<1>1. DInv => DownloadExact
  <2> SUFFICES ASSUME DInv, phase = "done", Len(File) <= FileMax
               PROVE  written = [ok |-> TRUE, var |-> var]
    BY DEF DownloadExact
  <2>1. /\ var \in Vars /\ sent = Len(File) /\ written = ReadVar(buffer)
        /\ buffer = SubSeq(File, 1, sent)
    BY DEF DInv, Received, ReadWhole
  <2>2. File = WellFormedFile(var) /\ File \in Seq(Byte) /\ Len(File) \in Nat /\ var \in Variables
    BY <2>1, FileIs
  <2>3. buffer = File
    BY <2>1, <2>2
  <2>4. Len(File) < 65536
    BY <2>2, TransfersAssumption
  <2>5. Len(WellFormedFile(var)) \in Short
    BY <2>2, <2>4 DEF Short
  <2> QED BY <2>1, <2>2, <2>3, <2>5, ReadsBack
<1> QED BY <1>1, DownloadInv, PTL
==============================================================================
