-------------------------- MODULE LogManager_proofs ---------------------------
(***************************************************************************)
(* What holds of LogManager for any records and any number of appends,     *)
(* failures, stops and power losses: a flushed number is on disk, numbers  *)
(* do not repeat as long as few appends fail, and recovery returns the     *)
(* records up to the first torn one.                                       *)
(***************************************************************************)
EXTENDS LogManager, SequenceTheorems, WellFoundedInduction, TLAPS

-----------------------------------------------------------------------------
(* Sequences *)

\* Every set of numbers has a least one.
Below == {p \in Nat \X Nat : p[1] < p[2]}

LEMMA LeastNumber ==
    ASSUME NEW T \in SUBSET Nat, T # {}
    PROVE  \E x \in T : \A y \in T : x <= y
<1>1. IsWellFoundedOn(Below, Nat)
  BY NatLessThanWellFounded DEF OpToRel, Below
<1>2. PICK x \in T : \A y \in T : <<y, x>> \notin Below
  BY <1>1, WFMin
<1>3. \A y \in T : ~(y < x)
  BY <1>2 DEF Below
<1> QED BY <1>2, <1>3

LEMMA FunctionIsSequence ==
    ASSUME NEW S, NEW n \in Nat, NEW f \in [1 .. n -> S]
    PROVE  f \in Seq(S) /\ Len(f) = n
OBVIOUS

LEMMA ConcatFacts ==
    ASSUME NEW S, NEW s \in Seq(S), NEW t \in Seq(S)
    PROVE  /\ s \o t \in Seq(S) /\ Len(s \o t) = Len(s) + Len(t)
           /\ \A k \in 1 .. Len(s) : (s \o t)[k] = s[k]
           /\ \A k \in 1 .. Len(t) : (s \o t)[Len(s) + k] = t[k]
<1>1. Len(s) \in Nat /\ Len(t) \in Nat
  BY LenProperties
<1>2. /\ s \o t \in Seq(S) /\ Len(s \o t) = Len(s) + Len(t)
      /\ \A k \in 1 .. Len(s) + Len(t) :
             (s \o t)[k] = IF k <= Len(s) THEN s[k] ELSE t[k - Len(s)]
  BY ConcatProperties
<1>3. \A k \in 1 .. Len(s) : (s \o t)[k] = s[k]
  BY <1>1, <1>2
<1>4. ASSUME NEW k \in 1 .. Len(t)
      PROVE  (s \o t)[Len(s) + k] = t[k]
  <2> DEFINE i == Len(s) + k
  <2>1. i \in 1 .. Len(s) + Len(t) /\ ~(i <= Len(s)) /\ i - Len(s) = k
    BY <1>1
  <2> HIDE DEF i
  <2>2. (s \o t)[i] = t[i - Len(s)]
    BY <1>2, <2>1
  <2> QED BY <2>1, <2>2 DEF i
<1> QED BY <1>2, <1>3, <1>4

\* The n elements of s behind its first m.
LEMMA CutOutFacts ==
    ASSUME NEW S, NEW s \in Seq(S), NEW m \in Nat, NEW n \in Nat, m + n <= Len(s)
    PROVE  /\ SubSeq(s, m + 1, m + n) \in Seq(S)
           /\ Len(SubSeq(s, m + 1, m + n)) = n
           /\ \A k \in 1 .. n : SubSeq(s, m + 1, m + n)[k] = s[m + k]
<1> DEFINE lo == m + 1
           hi == m + n
<1>1. Len(s) \in Nat
  BY LenProperties
<1>2. /\ lo \in Int /\ hi \in Int /\ hi - lo + 1 = n
      /\ (IF lo <= hi THEN hi - lo + 1 ELSE 0) = n
      /\ \A k \in 1 .. n : lo + k - 1 = m + k
  OBVIOUS
<1>3. \A i \in lo .. hi : s[i] \in S
  <2>1. \A i \in lo .. hi : i \in 1 .. Len(s)
    BY <1>1
  <2> QED BY <2>1, ElementOfSeq
<1> HIDE DEF lo, hi
<1>4. /\ SubSeq(s, lo, hi) \in Seq(S)
      /\ Len(SubSeq(s, lo, hi)) = IF lo <= hi THEN hi - lo + 1 ELSE 0
      /\ \A k \in 1 .. hi - lo + 1 : SubSeq(s, lo, hi)[k] = s[lo + k - 1]
  BY <1>2, <1>3, SubSeqProperties
<1>5. /\ SubSeq(s, lo, hi) \in Seq(S) /\ Len(SubSeq(s, lo, hi)) = n
      /\ \A k \in 1 .. n : SubSeq(s, lo, hi)[k] = s[m + k]
  BY <1>2, <1>4
<1> QED BY <1>5 DEF lo, hi

\* A sequence is found where its elements are.
LEMMA FoundAt ==
    ASSUME NEW S, NEW s \in Seq(S), NEW t \in Seq(S), NEW m \in Nat, m + Len(t) <= Len(s),
           \A k \in 1 .. Len(t) : s[m + k] = t[k]
    PROVE  SubSeq(s, m + 1, m + Len(t)) = t
<1>1. Len(t) \in Nat
  BY LenProperties
<1>2. /\ SubSeq(s, m + 1, m + Len(t)) \in Seq(S)
      /\ Len(SubSeq(s, m + 1, m + Len(t))) = Len(t)
      /\ \A k \in 1 .. Len(t) : SubSeq(s, m + 1, m + Len(t))[k] = s[m + k]
  BY <1>1, CutOutFacts
<1> QED BY <1>2, SeqEqual

LEMMA SecondPart ==
    ASSUME NEW S, NEW s \in Seq(S), NEW t \in Seq(S)
    PROVE  SubSeq(s \o t, Len(s) + 1, Len(s) + Len(t)) = t
<1>1. Len(s) \in Nat /\ Len(t) \in Nat
  BY LenProperties
<1> QED BY <1>1, ConcatFacts, FoundAt

\* A part of the first of two sequences, or of the second, is one of both.
LEMMA PartOfFirst ==
    ASSUME NEW S, NEW s \in Seq(S), NEW t \in Seq(S), NEW m \in Nat, NEW n \in Nat,
           m + n <= Len(s)
    PROVE  SubSeq(s \o t, m + 1, m + n) = SubSeq(s, m + 1, m + n)
<1> DEFINE c == SubSeq(s, m + 1, m + n)
<1>1. Len(s) \in Nat /\ Len(t) \in Nat
  BY LenProperties
<1>2. c \in Seq(S) /\ Len(c) = n /\ \A k \in 1 .. n : c[k] = s[m + k]
  BY CutOutFacts
<1>3. s \o t \in Seq(S) /\ Len(s \o t) = Len(s) + Len(t)
      /\ \A k \in 1 .. Len(s) : (s \o t)[k] = s[k]
  BY ConcatFacts
<1>4. \A k \in 1 .. n : m + k \in 1 .. Len(s)
  BY <1>1
<1> HIDE DEF c
<1>5. m + Len(c) <= Len(s \o t) /\ \A k \in 1 .. Len(c) : (s \o t)[m + k] = c[k]
  BY <1>1, <1>2, <1>3, <1>4
<1>6. SubSeq(s \o t, m + 1, m + Len(c)) = c
  BY <1>2, <1>3, <1>5, FoundAt
<1> QED BY <1>2, <1>6 DEF c

LEMMA Regroup ==
    ASSUME NEW S, NEW s \in Seq(S), NEW t \in Seq(S), NEW u \in Seq(S)
    PROVE  s \o (t \o u) = (s \o t) \o u
BY ConcatAssociative

LEMMA PrefixOfConcat ==
    ASSUME NEW S, NEW s \in Seq(S), NEW t \in Seq(S)
    PROVE  IsPrefix(s, s \o t)
<1>1. Len(s) \in Nat /\ Len(t) \in Nat /\ Len(s \o t) = Len(s) + Len(t)
  BY LenProperties, ConcatFacts
<1>2. SubSeq(s \o t, 1, Len(s)) = SubSeq(s, 1, Len(s))
  BY <1>1, PartOfFirst
<1> QED BY <1>1, <1>2 DEF IsPrefix

-----------------------------------------------------------------------------
(* Functions that are defined from the back *)

\* What is gathered from c on, in steps from c to next[c], up to a c in stop.
Gathers(f, a, b, stop, head, next) ==
    f = [c \in a .. b |-> IF c \in stop THEN <<>> ELSE head[c] \o f[next[c]]]

LEMMA GathererExists ==
    ASSUME NEW S, NEW a \in Nat, NEW b \in Nat, a <= b, NEW stop, NEW head, NEW next,
           \A c \in (a .. b) \ stop : head[c] \in Seq(S) /\ next[c] \in c + 1 .. b
    PROVE  \E f : Gathers(f, a, b, stop, head, next)
<1> DEFINE at(f, c) == IF c \in stop THEN <<>> ELSE head[c] \o f[next[c]]
           Good(n) == \E f \in [a .. b -> Seq(S)] :
                          \A c \in a .. b : b + 1 - n <= c => f[c] = at(f, c)
           T == {n \in 0 .. b + 1 - a : ~Good(n)}
<1>1. T = {}
  <2> SUFFICES ASSUME T # {}
               PROVE  FALSE
    OBVIOUS
  <2>1. T \in SUBSET Nat
    OBVIOUS
  <2>2. PICK n \in T : \A m \in T : n <= m
    BY <2>1, LeastNumber
  <2>3. n \in 0 .. b + 1 - a /\ ~Good(n)
    OBVIOUS
  <2>4. Good(0)
    <3> DEFINE f == [c \in a .. b |-> <<>>]
    <3>1. f \in [a .. b -> Seq(S)]
      BY EmptySeq
    <3>2. \A c \in a .. b : ~(b + 1 - 0 <= c)
      OBVIOUS
    <3> HIDE DEF f
    <3> QED BY <3>1, <3>2
  <2>5. n # 0
    BY <2>3, <2>4
  <2>6. n - 1 \in 0 .. b + 1 - a /\ ~(n <= n - 1)
    BY <2>3, <2>5
  <2>7. Good(n - 1)
    BY <2>2, <2>6
  <2>8. PICK f \in [a .. b -> Seq(S)] :
            \A c \in a .. b : b + 1 - (n - 1) <= c => f[c] = at(f, c)
    BY <2>7
  <2> DEFINE c0 == b + 1 - n
             g == [f EXCEPT ![c0] = at(f, c0)]
  <2>9. c0 \in a .. b /\ \A c \in a .. b : c0 < c => b + 1 - (n - 1) <= c
    BY <2>3, <2>5
  <2>10. \A c \in (a .. b) \ stop : next[c] \in a .. b /\ c < next[c]
    OBVIOUS
  <2>11. at(f, c0) \in Seq(S)
    <3>1. CASE c0 \in stop
      BY <3>1, EmptySeq
    <3>2. CASE c0 \notin stop
      <4>1. head[c0] \in Seq(S) /\ f[next[c0]] \in Seq(S)
        BY <2>9, <2>10, <3>2
      <4> QED BY <3>2, <4>1, ConcatProperties
    <3> QED BY <3>1, <3>2
  <2>12. /\ g \in [a .. b -> Seq(S)] /\ g[c0] = at(f, c0)
         /\ \A c \in a .. b : c # c0 => g[c] = f[c]
    BY <2>9, <2>11
  <2> HIDE DEF c0, g
  <2>13. ASSUME NEW c \in a .. b, c0 <= c
         PROVE  g[c] = at(g, c)
    <3>1. g[c] = at(f, c)
      <4>1. CASE c = c0
        BY <2>12, <4>1
      <4>2. CASE c # c0
        <5>1. c0 < c
          BY <2>9, <2>13, <4>2
        <5> QED BY <2>8, <2>9, <2>12, <4>2, <5>1
      <4> QED BY <4>1, <4>2
    <3>2. c \notin stop => g[next[c]] = f[next[c]]
      BY <2>9, <2>10, <2>12, <2>13
    <3> QED BY <3>1, <3>2
  <2>14. Good(n)
    BY <2>12, <2>13 DEF c0
  <2> QED BY <2>3, <2>14
<1>2. Good(b + 1 - a)
  <2>1. b + 1 - a \in 0 .. b + 1 - a
    OBVIOUS
  <2> QED BY <1>1, <2>1
<1>3. PICK f \in [a .. b -> Seq(S)] :
          \A c \in a .. b : b + 1 - (b + 1 - a) <= c => f[c] = at(f, c)
  BY <1>2
<1>4. \A c \in a .. b : f[c] = at(f, c)
  <2>1. \A c \in a .. b : b + 1 - (b + 1 - a) <= c
    OBVIOUS
  <2> HIDE DEF at
  <2> QED BY <1>3, <2>1
<1>5. Gathers(f, a, b, stop, head, next)
  BY <1>3, <1>4 DEF Gathers
<1> QED BY <1>5

LEMMA GathererType ==
    ASSUME NEW S, NEW a \in Nat, NEW b \in Nat, a <= b, NEW stop, NEW head, NEW next,
           \A c \in (a .. b) \ stop : head[c] \in Seq(S) /\ next[c] \in c + 1 .. b,
           NEW f, Gathers(f, a, b, stop, head, next)
    PROVE  f \in [a .. b -> Seq(S)]
<1> DEFINE T == {n \in 0 .. b - a : f[b - n] \notin Seq(S)}
<1>1. \A c \in a .. b : f[c] = IF c \in stop THEN <<>> ELSE head[c] \o f[next[c]]
  BY DEF Gathers
<1>2. T = {}
  <2> SUFFICES ASSUME T # {}
               PROVE  FALSE
    OBVIOUS
  <2>1. T \in SUBSET Nat
    OBVIOUS
  <2>2. PICK n \in T : \A m \in T : n <= m
    BY <2>1, LeastNumber
  <2> DEFINE c == b - n
  <2>3. c \in a .. b /\ f[c] \notin Seq(S) /\ n = b - c
    OBVIOUS
  <2> HIDE DEF c
  <2>4. c \notin stop
    BY <1>1, <2>3, EmptySeq
  <2>5. head[c] \in Seq(S) /\ next[c] \in c + 1 .. b
    BY <2>3, <2>4
  <2>6. b - next[c] \in 0 .. b - a /\ ~(n <= b - next[c]) /\ b - (b - next[c]) = next[c]
    BY <2>3, <2>5
  <2>7. f[next[c]] \in Seq(S)
    BY <2>2, <2>6
  <2>8. f[c] = head[c] \o f[next[c]]
    BY <1>1, <2>3, <2>4
  <2>9. head[c] \o f[next[c]] \in Seq(S)
    BY <2>5, <2>7, ConcatProperties
  <2> QED BY <2>3, <2>8, <2>9
<1>3. ASSUME NEW c \in a .. b
      PROVE  f[c] \in Seq(S)
  <2>1. b - c \in 0 .. b - a /\ b - (b - c) = c
    OBVIOUS
  <2> QED BY <1>2, <2>1
<1>4. f \in [a .. b -> Seq(S)]
  <2>1. f = [c \in a .. b |-> f[c]]
    BY DEF Gathers
  <2> QED BY <1>3, <2>1
<1> QED BY <1>4

-----------------------------------------------------------------------------
(* Numbers as bytes *)

LEMMA UpTo ==
    ASSUME NEW n \in Nat
    PROVE  \A i : i \in 0 .. n <=> i \in Nat /\ i <= n
OBVIOUS

LEMMA ByteFacts == \A b : b \in Byte <=> b \in Nat /\ b < 256
<1>1. PICK n \in Nat : n = 255
  OBVIOUS
<1>2. \A b : b \in 0 .. n <=> b \in Nat /\ b < 256
  BY <1>1
<1>3. Byte = 0 .. n
  BY ONLY <1>1 DEF Byte
<1> QED BY <1>2, <1>3

LEMMA WideIs == Wide = 1073741824
BY DEF Wide

LEMMA WideIsNat == Wide \in Nat
BY DEF Wide

LEMMA NumberFacts == \A n : n \in 0 .. Wide - 1 <=> n \in Nat /\ n < Wide
BY WideIsNat

\* The four bytes of a number that are not zero, and the number they make.
LEMMA FourBytes ==
    ASSUME NEW n \in Nat, n < 1073741824
    PROVE  /\ (n \div 16777216) % 256 < 64
           /\ (n % 256) + 256 * ((n \div 256) % 256) + 65536 * ((n \div 65536) % 256)
                  + 16777216 * ((n \div 16777216) % 256) = n
OBVIOUS

LEMMA WeightsAre ==
    Weights[1] = 1 /\ Weights[2] = 256 /\ Weights[3] = 65536 /\ Weights[4] = 16777216
BY SMT DEF Weights

LEMMA ToBytesFacts ==
    ASSUME NEW n \in Nat, NEW width \in Nat
    PROVE  ToBytes(n, width) \in Seq(Byte) /\ Len(ToBytes(n, width)) = width
<1>1. \A i \in 1 .. 4 : Weights[i] \in Nat \ {0}
  BY WeightsAre
<1>2. \A i \in 1 .. 4 : n \div Weights[i] \in Nat
  BY <1>1
<1>3. \A i \in 1 .. 4 : (n \div Weights[i]) % 256 \in Byte
  BY <1>2, ByteFacts
<1>4. \A i \in 1 .. width : (IF i <= 4 THEN (n \div Weights[i]) % 256 ELSE 0) \in Byte
  BY <1>3, ByteFacts
<1>5. ToBytes(n, width) \in [1 .. width -> Byte]
  BY <1>4 DEF ToBytes
<1> QED BY <1>5, FunctionIsSequence

LEMMA RoundTrip ==
    ASSUME NEW n \in Nat, n < Wide, NEW width \in {4, 8}
    PROVE  FromBytes(ToBytes(n, width)) = n
<1> DEFINE b == ToBytes(n, width)
<1>1. Len(b) = width
  BY ToBytesFacts
<1>2. /\ b[1] = (n \div Weights[1]) % 256 /\ b[2] = (n \div Weights[2]) % 256
      /\ b[3] = (n \div Weights[3]) % 256 /\ b[4] = (n \div Weights[4]) % 256
  BY DEF ToBytes
<1>3. \A i \in 5 .. width : b[i] = 0
  BY DEF ToBytes
<1> HIDE DEF b
<1>4. /\ b[1] = n % 256 /\ b[2] = (n \div 256) % 256 /\ b[3] = (n \div 65536) % 256
      /\ b[4] = (n \div 16777216) % 256
  <2>1. n \div 1 = n
    OBVIOUS
  <2> QED BY <1>2, <2>1, WeightsAre, SMT
<1>5. n < 1073741824
  BY WideIs
<1>6. b[4] < 64 /\ b[1] + 256 * b[2] + 65536 * b[3] + 16777216 * b[4] = n
  BY <1>4, <1>5, FourBytes, SMT
<1>7. b[4] \in Nat
  BY <1>4, SMT
<1> QED BY <1>1, <1>3, <1>6, <1>7, SMT DEF FromBytes, b

LEMMA SumOfBytes ==
    ASSUME NEW a \in Nat, NEW b \in Nat, NEW c \in Nat, NEW d \in Nat
    PROVE  a + 256 * b + 65536 * c + 16777216 * d \in Nat
BY SMT

LEMMA FromBytesFacts ==
    ASSUME NEW bytes \in Seq(Byte), Len(bytes) >= 4
    PROVE  FromBytes(bytes) \in Nat
<1>1. Len(bytes) \in Nat
  BY LenProperties
<1>2. bytes[1] \in Byte /\ bytes[2] \in Byte /\ bytes[3] \in Byte /\ bytes[4] \in Byte
  BY <1>1, ElementOfSeq
<1>3. bytes[1] \in Nat /\ bytes[2] \in Nat /\ bytes[3] \in Nat /\ bytes[4] \in Nat
  BY <1>2, ByteFacts
<1> DEFINE sum == bytes[1] + 256 * bytes[2] + 65536 * bytes[3] + 16777216 * bytes[4]
<1>4. sum \in Nat
  BY <1>3, SumOfBytes, SMTT(30)
<1>5. FromBytes(bytes) = Wide \/ FromBytes(bytes) = sum
  BY SMT DEF FromBytes
<1> HIDE DEF sum
<1> QED BY <1>4, <1>5, WideIsNat

-----------------------------------------------------------------------------
(* Records as bytes *)

Types == {Insert, Commit, Abort}
LogRecord == [type : Types, txn_id : Nat, data : Seq(Byte)]

LEMMA RecordFacts ==
    ASSUME NEW r \in Records
    PROVE  /\ r.type \in Types /\ r.type \in Byte
           /\ r.txn_id \in Nat /\ r.txn_id < Wide
           /\ r.data \in Seq(Byte) /\ Len(r.data) \in Nat /\ Len(r.data) < Wide - 23
           /\ r.type # Insert => r.data = <<>>
           /\ r = [type |-> r.type, txn_id |-> r.txn_id, data |-> r.data]
<1>1. r \in [type : {Insert, Commit, Abort}, txn_id : 0 .. Wide - 1, data : Seq(Byte)]
  BY RecordsAssumption
<1>2. r.txn_id \in Nat /\ r.txn_id < Wide
  BY <1>1, NumberFacts
<1>3. r.type \in Types /\ r.data \in Seq(Byte)
      /\ r = [type |-> r.type, txn_id |-> r.txn_id, data |-> r.data]
  BY <1>1 DEF Types
<1>4. r.type \in Byte
  BY <1>3, ByteFacts DEF Types, Insert, Commit, Abort
<1>5. Len(r.data) \in Nat
  BY <1>3, LenProperties
<1> QED BY <1>2, <1>3, <1>4, <1>5, RecordsAssumption

\* Two parts: the bytes of both, and where each is found.
LEMMA Joined ==
    ASSUME NEW s \in Seq(Byte), NEW t \in Seq(Byte)
    PROVE  s \o t \in Seq(Byte) /\ Len(s \o t) = Len(s) + Len(t)
BY ConcatFacts

LEMMA FirstOfJoined ==
    ASSUME NEW s \in Seq(Byte), NEW t \in Seq(Byte), Len(s) > 0
    PROVE  (s \o t)[1] = s[1]
<1>1. 1 \in 1 .. Len(s)
  BY LenProperties
<1> QED BY <1>1, ConcatFacts

LEMMA FrontOfJoined ==
    ASSUME NEW s \in Seq(Byte), NEW t \in Seq(Byte), NEW i \in Nat \ {0}, NEW j \in Nat \ {0},
           i <= Len(s), j <= Len(s)
    PROVE  SubSeq(s \o t, i, j) = SubSeq(s, i, j)
<1>1. i \in 1 .. Len(s) /\ j \in 1 .. Len(s)
  BY LenProperties
<1> QED BY <1>1, SubSeqOfConcat1

Header(r) == <<r.type>> \o ToBytes(r.txn_id, 8)

LEMMA HeaderFacts ==
    ASSUME NEW r \in Records
    PROVE  /\ Header(r) \in Seq(Byte) /\ Len(Header(r)) = 9
           /\ Header(r)[1] = r.type
           /\ SubSeq(Header(r), 2, 9) = ToBytes(r.txn_id, 8)
<1> DEFINE type == <<r.type>>
           txn == ToBytes(r.txn_id, 8)
<1>1. type \in Seq(Byte) /\ Len(type) = 1 /\ type[1] = r.type
  BY RecordFacts
<1>2. txn \in Seq(Byte) /\ Len(txn) = 8
  BY RecordFacts, ToBytesFacts
<1> DEFINE two == 2
           nine == 9
<1> HIDE DEF type, txn
<1>3. two = Len(type) + 1 /\ nine = Len(type) + Len(txn) /\ Len(type) > 0
  BY <1>1, <1>2
<1> HIDE DEF two, nine
<1>4. type \o txn \in Seq(Byte) /\ Len(type \o txn) = nine
  BY <1>1, <1>2, <1>3, Joined
<1>5. (type \o txn)[1] = r.type
  BY <1>1, <1>2, <1>3, FirstOfJoined
<1>6. SubSeq(type \o txn, two, nine) = txn
  <2>1. SubSeq(type \o txn, Len(type) + 1, Len(type) + Len(txn)) = txn
    BY <1>1, <1>2, SecondPart
  <2> QED BY <1>3, <2>1
<1> QED BY <1>4, <1>5, <1>6 DEF Header, type, txn, two, nine

\* The bytes of an insert up to the length of its data, and with it.
PlaceHeader(r) == Header(r) \o Zeros(10)
InsertHeader(r) == PlaceHeader(r) \o ToBytes(Len(r.data), 4)

LEMMA PlaceHeaderFacts ==
    ASSUME NEW r \in Records
    PROVE  /\ PlaceHeader(r) \in Seq(Byte) /\ Len(PlaceHeader(r)) = 19
           /\ PlaceHeader(r)[1] = r.type
           /\ SubSeq(PlaceHeader(r), 2, 9) = ToBytes(r.txn_id, 8)
<1> DEFINE h == Header(r)
           z == Zeros(10)
<1>1. h \in Seq(Byte) /\ Len(h) = 9 /\ h[1] = r.type /\ SubSeq(h, 2, 9) = ToBytes(r.txn_id, 8)
  BY HeaderFacts
<1>2. z \in Seq(Byte) /\ Len(z) = 10
  <2>1. z \in [1 .. 10 -> Byte]
    BY ByteFacts DEF Zeros
  <2> QED BY <2>1, FunctionIsSequence
<1> DEFINE two == 2
           nine == 9
<1> HIDE DEF h, z
<1>3. /\ Len(h) > 0 /\ two <= Len(h) /\ nine <= Len(h) /\ two \in Nat \ {0}
      /\ nine \in Nat \ {0} /\ Len(h) + Len(z) = 19
  BY <1>1, <1>2
<1> HIDE DEF two, nine
<1>4. h \o z \in Seq(Byte) /\ Len(h \o z) = Len(h) + Len(z)
  BY <1>1, <1>2, Joined
<1>5. (h \o z)[1] = r.type
  BY <1>1, <1>2, <1>3, FirstOfJoined
<1>6. SubSeq(h \o z, two, nine) = SubSeq(h, two, nine)
  BY <1>1, <1>2, <1>3, FrontOfJoined
<1> QED BY <1>1, <1>3, <1>4, <1>5, <1>6 DEF PlaceHeader, h, z, two, nine

LEMMA InsertHeaderFacts ==
    ASSUME NEW r \in Records
    PROVE  /\ InsertHeader(r) \in Seq(Byte) /\ Len(InsertHeader(r)) = 23
           /\ InsertHeader(r)[1] = r.type
           /\ SubSeq(InsertHeader(r), 2, 9) = ToBytes(r.txn_id, 8)
           /\ SubSeq(InsertHeader(r), 20, 23) = ToBytes(Len(r.data), 4)
<1> DEFINE h == PlaceHeader(r)
           l == ToBytes(Len(r.data), 4)
<1>1. /\ h \in Seq(Byte) /\ Len(h) = 19 /\ h[1] = r.type
      /\ SubSeq(h, 2, 9) = ToBytes(r.txn_id, 8)
  BY PlaceHeaderFacts
<1>2. l \in Seq(Byte) /\ Len(l) = 4
  BY RecordFacts, ToBytesFacts
<1> DEFINE two == 2
           nine == 9
           lo == 20
           hi == 23
<1> HIDE DEF h, l
<1>3. /\ Len(h) > 0 /\ two <= Len(h) /\ nine <= Len(h) /\ two \in Nat \ {0}
      /\ nine \in Nat \ {0} /\ lo = Len(h) + 1 /\ hi = Len(h) + Len(l)
  BY <1>1, <1>2
<1> HIDE DEF two, nine, lo, hi
<1>4. h \o l \in Seq(Byte) /\ Len(h \o l) = hi
  BY <1>1, <1>2, <1>3, Joined
<1>5. (h \o l)[1] = r.type
  BY <1>1, <1>2, <1>3, FirstOfJoined
<1>6. SubSeq(h \o l, two, nine) = SubSeq(h, two, nine)
  BY <1>1, <1>2, <1>3, FrontOfJoined
<1>7. SubSeq(h \o l, lo, hi) = l
  <2>1. SubSeq(h \o l, Len(h) + 1, Len(h) + Len(l)) = l
    BY <1>1, <1>2, SecondPart
  <2> QED BY <1>3, <2>1
<1> QED BY <1>1, <1>4, <1>5, <1>6, <1>7 DEF InsertHeader, h, l, two, nine, lo, hi

LEMMA InsertIs ==
    ASSUME NEW r \in Records, r.type = Insert
    PROVE  Serialize(r) = InsertHeader(r) \o r.data
<1> DEFINE h == Header(r)
           z == Zeros(10)
           l == ToBytes(Len(r.data), 4)
           d == r.data
<1>1. h \in Seq(Byte)
  BY HeaderFacts
<1>2. z \in Seq(Byte)
  <2>1. z \in [1 .. 10 -> Byte]
    BY ByteFacts DEF Zeros
  <2> QED BY <2>1, FunctionIsSequence
<1>3. l \in Seq(Byte)
  BY RecordFacts, ToBytesFacts
<1>4. d \in Seq(Byte)
  BY RecordFacts
<1> DEFINE zl == z \o l
<1>5. Serialize(r) = h \o (zl \o d)
  BY DEF Serialize, Header
<1>6. InsertHeader(r) = (h \o z) \o l
  BY DEF InsertHeader, PlaceHeader
<1> HIDE DEF h, z, l, d
<1>7. zl \in Seq(Byte)
  BY <1>2, <1>3, ConcatProperties
<1>8. h \o zl = (h \o z) \o l
  BY <1>1, <1>2, <1>3, Regroup
<1> HIDE DEF zl
<1>9. h \o (zl \o d) = (h \o zl) \o d
  BY <1>1, <1>4, <1>7, Regroup
<1> QED BY <1>5, <1>6, <1>8, <1>9 DEF d

LEMMA EndOfTransactionIs ==
    ASSUME NEW r \in Records, r.type # Insert
    PROVE  Serialize(r) = Header(r)
<1>1. Serialize(r) = Header(r) \o <<>>
  BY DEF Serialize, Header
<1> QED BY <1>1, HeaderFacts, ConcatEmptySeq

LEMMA SerializeFacts ==
    ASSUME NEW r \in Records
    PROVE  /\ Serialize(r) \in Seq(Byte)
           /\ Len(Serialize(r)) = IF r.type = Insert THEN 23 + Len(r.data) ELSE 9
           /\ Len(Serialize(r)) \in Nat /\ Len(Serialize(r)) >= 9 /\ Len(Serialize(r)) < Wide
<1>1. CASE r.type = Insert
  <2>1. Serialize(r) = InsertHeader(r) \o r.data
    BY <1>1, InsertIs
  <2>2. Serialize(r) \in Seq(Byte) /\ Len(Serialize(r)) = 23 + Len(r.data)
    <3> DEFINE h == InsertHeader(r)
               d == r.data
    <3>1. h \in Seq(Byte) /\ d \in Seq(Byte) /\ Len(h) = 23
      BY RecordFacts, InsertHeaderFacts
    <3> HIDE DEF h, d
    <3>2. h \o d \in Seq(Byte) /\ Len(h \o d) = Len(h) + Len(d)
      BY <3>1, Joined
    <3> QED BY <2>1, <3>1, <3>2 DEF h, d
  <2> QED BY <1>1, <2>2, RecordFacts, WideIsNat
<1>2. CASE r.type # Insert
  <2>1. 9 < Wide
    BY WideIs
  <2>2. Serialize(r) \in Seq(Byte) /\ Len(Serialize(r)) = 9
    BY <1>2, EndOfTransactionIs, HeaderFacts
  <2> QED BY <1>2, <2>1, <2>2
<1> QED BY <1>1, <1>2

\* deserialize reads what serialize wrote, or nothing.
LEMMA ReadOrSkipped ==
    ASSUME NEW r \in Records
    PROVE  Deserialize(Serialize(r)) = IF Readable(r) THEN <<r>> ELSE <<>>
<1> DEFINE s == Serialize(r)
<1>1. s \in Seq(Byte) /\ Len(s) \in Nat
  BY SerializeFacts
<1>2. FromBytes(ToBytes(r.txn_id, 8)) = r.txn_id
  BY RecordFacts, RoundTrip
<1>3. CASE r.type = Insert
  <2> DEFINE h == InsertHeader(r)
  <2>1. s = h \o r.data /\ Len(s) = 23 + Len(r.data)
    BY <1>3, InsertIs, SerializeFacts
  <2>2. /\ h \in Seq(Byte) /\ Len(h) = 23 /\ h[1] = Insert
        /\ SubSeq(h, 2, 9) = ToBytes(r.txn_id, 8)
        /\ SubSeq(h, 20, 23) = ToBytes(Len(r.data), 4)
    BY <1>3, InsertHeaderFacts
  <2>3. r.data \in Seq(Byte) /\ Len(r.data) \in Nat
    BY RecordFacts
  <2> HIDE DEF s, h
  <2>4. s[1] = Insert
    <3>1. Len(h) > 0
      BY <2>2
    <3> QED BY <2>1, <2>2, <2>3, <3>1, FirstOfJoined
  <2>5. SubSeq(s, 2, 9) = SubSeq(h, 2, 9)
    <3>1. 2 <= Len(h) /\ 9 <= Len(h)
      BY <2>2
    <3> QED BY <2>1, <2>2, <2>3, <3>1, FrontOfJoined
  <2>6. SubSeq(s, 20, 23) = SubSeq(h, 20, 23)
    <3>1. 20 <= Len(h) /\ 23 <= Len(h)
      BY <2>2
    <3> QED BY <2>1, <2>2, <2>3, <3>1, FrontOfJoined
  <2>7. FromBytes(SubSeq(s, 20, 23)) = Len(r.data)
    <3>1. Len(r.data) < Wide
      BY RecordFacts, WideIsNat
    <3> QED BY <2>2, <2>3, <2>6, <3>1, RoundTrip
  <2>8. SubSeq(s, 24, 23 + Len(r.data)) = r.data
    <3> DEFINE d == r.data
               lo == 24
               hi == 23 + Len(d)
    <3>1. lo = Len(h) + 1 /\ hi = Len(h) + Len(d) /\ d \in Seq(Byte) /\ s = h \o d
      BY <2>1, <2>2, <2>3
    <3> HIDE DEF d, lo, hi
    <3>2. SubSeq(h \o d, Len(h) + 1, Len(h) + Len(d)) = d
      BY <2>2, <3>1, SecondPart
    <3>3. SubSeq(s, lo, hi) = d
      BY <3>1, <3>2
    <3> QED BY <3>3 DEF d, lo, hi
  <2>9. CASE Len(s) >= 25
    <3>1. Len(s) >= 23 + FromBytes(SubSeq(s, 20, 23))
      BY <2>1, <2>3, <2>7
    <3>2. Deserialize(s) = <<[type |-> Insert, txn_id |-> FromBytes(SubSeq(s, 2, 9)),
                              data |-> SubSeq(s, 24, 23 + FromBytes(SubSeq(s, 20, 23)))]>>
      BY <2>4, <2>9, <3>1 DEF Deserialize
    <3>3. Deserialize(s) = <<[type |-> Insert, txn_id |-> r.txn_id, data |-> r.data]>>
      BY <1>2, <2>2, <2>5, <2>7, <2>8, <3>2
    <3> QED BY <1>3, <3>3, RecordFacts DEF Readable, s
  <2>10. CASE ~(Len(s) >= 25)
    <3>1. Deserialize(s) = <<>>
      BY <2>4, <2>10 DEF Deserialize, Insert, Commit, Abort
    <3> QED BY <3>1 DEF Readable, s
  <2> QED BY <2>9, <2>10
<1>4. CASE r.type # Insert
  <2>1. s = Header(r) /\ Len(s) = 9
    BY <1>4, EndOfTransactionIs, SerializeFacts
  <2>2. s[1] = r.type /\ SubSeq(s, 2, 9) = ToBytes(r.txn_id, 8)
    BY <2>1, HeaderFacts
  <2>3. r.type \in {Commit, Abort} /\ r.data = <<>>
    BY <1>4, RecordFacts DEF Types
  <2> HIDE DEF s
  <2>4. Deserialize(s) = <<[type |-> s[1], txn_id |-> FromBytes(SubSeq(s, 2, 9)),
                            data |-> <<>>]>>
    BY <1>4, <2>1, <2>2, <2>3 DEF Deserialize
  <2>5. Deserialize(s) = <<[type |-> r.type, txn_id |-> r.txn_id, data |-> r.data]>>
    BY <1>2, <2>2, <2>3, <2>4
  <2> QED BY <2>5, RecordFacts DEF Readable, s
<1> QED BY <1>3, <1>4

LEMMA DeserializeFacts ==
    ASSUME NEW buf \in Seq(Byte)
    PROVE  Deserialize(buf) \in Seq(LogRecord)
<1> DEFINE txnId == FromBytes(SubSeq(buf, 2, 9))
           len == FromBytes(SubSeq(buf, 20, 23))
<1>1. Len(buf) \in Nat
  BY LenProperties
<1>2. \A i, j \in Nat \ {0} : i <= j /\ j <= Len(buf) =>
          SubSeq(buf, i, j) \in Seq(Byte) /\ Len(SubSeq(buf, i, j)) = j - i + 1
  <2> SUFFICES ASSUME NEW i \in Nat \ {0}, NEW j \in Nat \ {0}, i <= j, j <= Len(buf)
               PROVE  SubSeq(buf, i, j) \in Seq(Byte) /\ Len(SubSeq(buf, i, j)) = j - i + 1
    OBVIOUS
  <2>1. \A k \in i .. j : k \in 1 .. Len(buf)
    BY <1>1
  <2>2. \A k \in i .. j : buf[k] \in Byte
    BY <2>1, ElementOfSeq
  <2> QED BY <2>2, SubSeqProperties
<1>3. Len(buf) >= 9 => txnId \in Nat
  <2> DEFINE lo == 2
             hi == 9
  <2>1. lo \in Nat \ {0} /\ hi \in Nat \ {0} /\ lo <= hi /\ hi - lo + 1 >= 4
    OBVIOUS
  <2> HIDE DEF lo, hi
  <2>2. Len(buf) >= hi =>
            SubSeq(buf, lo, hi) \in Seq(Byte) /\ Len(SubSeq(buf, lo, hi)) = hi - lo + 1
    BY <1>1, <1>2, <2>1
  <2>3. Len(buf) >= hi => FromBytes(SubSeq(buf, lo, hi)) \in Nat
    BY <2>1, <2>2, FromBytesFacts
  <2> QED BY <2>3 DEF lo, hi
<1>4. Len(buf) >= 25 => len \in Nat
  <2> DEFINE lo == 20
             hi == 23
  <2>1. /\ lo \in Nat \ {0} /\ hi \in Nat \ {0} /\ lo <= hi /\ hi - lo + 1 >= 4
        /\ Len(buf) >= 25 => Len(buf) >= hi
    BY <1>1
  <2> HIDE DEF lo, hi
  <2>2. Len(buf) >= hi =>
            SubSeq(buf, lo, hi) \in Seq(Byte) /\ Len(SubSeq(buf, lo, hi)) = hi - lo + 1
    BY <1>1, <1>2, <2>1
  <2>3. Len(buf) >= hi => FromBytes(SubSeq(buf, lo, hi)) \in Nat
    BY <2>1, <2>2, FromBytesFacts
  <2> QED BY <2>1, <2>3 DEF lo, hi
<1> HIDE DEF txnId, len
<1>5. Len(buf) >= 25 /\ Len(buf) >= 23 + len => SubSeq(buf, 24, 23 + len) \in Seq(Byte)
  <2>1. CASE len = 0
    <3>1. SubSeq(buf, 24, 23 + len) = <<>>
      BY <2>1, SubSeqEmpty
    <3> QED BY <3>1, EmptySeq
  <2>2. CASE len # 0
    BY <1>1, <1>2, <1>4, <2>2
  <2> QED BY <2>1, <2>2
<1>6. CASE Len(buf) >= 25 /\ buf[1] = Insert
  <2>1. CASE Len(buf) >= 23 + len
    <3> DEFINE r == [type |-> Insert, txn_id |-> txnId, data |-> SubSeq(buf, 24, 23 + len)]
    <3>1. Deserialize(buf) = <<r>>
      BY <1>6, <2>1 DEF Deserialize, len, txnId
    <3>2. r \in LogRecord
      <4>1. txnId \in Nat /\ SubSeq(buf, 24, 23 + len) \in Seq(Byte)
        BY <1>1, <1>3, <1>5, <1>6, <2>1
      <4> QED BY <4>1 DEF LogRecord, Types
    <3> HIDE DEF r
    <3> QED BY <3>1, <3>2
  <2>2. CASE ~(Len(buf) >= 23 + len)
    <3>1. Deserialize(buf) = <<>>
      BY <1>6, <2>2 DEF Deserialize, len
    <3> QED BY <3>1, EmptySeq
  <2> QED BY <2>1, <2>2
<1>7. CASE ~(Len(buf) >= 25 /\ buf[1] = Insert)
  <2>1. CASE Len(buf) >= 9 /\ buf[1] \in {Commit, Abort}
    <3> DEFINE r == [type |-> buf[1], txn_id |-> txnId, data |-> <<>>]
    <3>1. Deserialize(buf) = <<r>>
      BY <1>7, <2>1 DEF Deserialize, txnId
    <3>2. r \in LogRecord
      BY <1>3, <2>1, EmptySeq DEF LogRecord, Types
    <3> HIDE DEF r
    <3> QED BY <3>1, <3>2
  <2>2. CASE ~(Len(buf) >= 9 /\ buf[1] \in {Commit, Abort})
    <3>1. Deserialize(buf) = <<>>
      BY <1>7, <2>2 DEF Deserialize
    <3> QED BY <3>1, EmptySeq
  <2> QED BY <2>1, <2>2
<1> QED BY <1>6, <1>7

-----------------------------------------------------------------------------
(* The bytes of an entry *)

LEMMA FrameFacts ==
    ASSUME NEW r \in Records, NEW lsn \in Nat
    PROVE  LET size == ToBytes(Len(Serialize(r)), 4)
               f == Framed(r, lsn)
           IN  /\ f \in Seq(Byte) /\ size \in Seq(Byte) /\ Len(size) = 4
               /\ Len(f) \in Nat /\ Len(f) = 12 + Len(Serialize(r)) /\ Len(f) >= 21
               /\ \A k \in 1 .. 4 : f[k] = size[k]
               /\ \A k \in 1 .. Len(Serialize(r)) : f[12 + k] = Serialize(r)[k]
<1> DEFINE size == ToBytes(Len(Serialize(r)), 4)
           number == ToBytes(lsn, 8)
           s == Serialize(r)
           head == size \o number
<1>1. s \in Seq(Byte) /\ Len(s) \in Nat /\ Len(s) >= 9
  BY SerializeFacts
<1>2. size \in Seq(Byte) /\ Len(size) = 4
  BY <1>1, ToBytesFacts
<1>3. number \in Seq(Byte) /\ Len(number) = 8
  BY ToBytesFacts
<1>4. Framed(r, lsn) = head \o s
  BY DEF Framed
<1> HIDE DEF size, number, s
<1>5. head \in Seq(Byte) /\ Len(head) = Len(size) + Len(number)
      /\ \A k \in 1 .. Len(size) : head[k] = size[k]
  <2>1. size \in Seq(Byte) /\ number \in Seq(Byte)
    BY <1>2, <1>3
  <2> QED BY <2>1, ConcatFacts
<1> HIDE DEF head
<1>6. /\ head \o s \in Seq(Byte) /\ Len(head \o s) = Len(head) + Len(s)
      /\ \A k \in 1 .. Len(head) : (head \o s)[k] = head[k]
      /\ \A k \in 1 .. Len(s) : (head \o s)[Len(head) + k] = s[k]
  <2>1. head \in Seq(Byte) /\ s \in Seq(Byte)
    BY <1>1, <1>5
  <2> QED BY <2>1, ConcatFacts
<1>7. Len(head) = 12 /\ \A k \in 1 .. 4 : k \in 1 .. Len(head) /\ k \in 1 .. Len(size)
  BY <1>2, <1>3, <1>5
<1>8. \A k \in 1 .. 4 : (head \o s)[k] = size[k]
  BY <1>5, <1>6, <1>7
<1>9. \A k \in 1 .. Len(s) : (head \o s)[12 + k] = s[k]
  BY <1>6, <1>7
<1>10. Len(head \o s) \in Nat /\ Len(head \o s) = 12 + Len(s) /\ Len(head \o s) >= 21
  BY <1>1, <1>6, <1>7
<1> QED BY <1>2, <1>4, <1>6, <1>8, <1>9, <1>10 DEF size, s

-----------------------------------------------------------------------------
(* The invariant: the file is its entries, one after the other, and the     *)
(* sequence numbers keep up with its length.                                *)

EndOf(i) == IF i = 0 THEN 0 ELSE written[i].end
FrameOf(w) == Framed(w.record, w.lsn)

IsWritten(w) ==
    /\ w.start < w.end /\ w.end <= w.start + Len(FrameOf(w)) /\ w.end <= Len(file)
    /\ w.whole <=> w.end = w.start + Len(FrameOf(w))
    /\ \A k \in 1 .. w.end - w.start : file[w.start + k] = FrameOf(w)[k]

FileIsWritten ==
    /\ Len(file) = EndOf(Len(written))
    /\ \A i \in DOMAIN written : written[i].start = EndOf(i - 1) /\ IsWritten(written[i])
    /\ \A i, j \in DOMAIN written : i < j => written[i].end <= written[j].start

\* The numbers given out since the log was opened are above the length it had.
NumbersFollow ==
    /\ openedAt < nextLsn
    /\ \A j \in DOMAIN written :
           written[j].start >= openedAt =>
               /\ openedAt < written[j].lsn /\ written[j].lsn < nextLsn
               /\ \A i \in 1 .. j - 1 :
                      written[i].start >= openedAt => written[i].lsn < written[j].lsn

\* A number runs ahead of the file only where an append failed.
NumbersFit ==
    /\ nextLsn <= Len(file) + 1 + failures
    /\ \A i \in DOMAIN written : written[i].lsn <= written[i].start + 1 + failures

\* The shortest record takes 21 bytes.
NumbersGrow == failures <= 20 => LsnsGrowAlongTheFile

LogInv ==
    /\ TypeOK /\ failures \in Nat
    /\ FileIsWritten
    /\ NumbersFollow
    /\ NumbersFit
    /\ NumbersGrow
    /\ FlushedLsnIsOnDisk

Entry == [record : Records, lsn : Nat, start : Nat, end : Nat, whole : BOOLEAN]

LEMMA TypeFacts ==
    ASSUME LogInv
    PROVE  /\ file \in Seq(Byte) /\ Len(file) \in Nat
           /\ synced \in Nat /\ synced <= Len(file)
           /\ nextLsn \in Nat /\ nextLsn > 0
           /\ flushedLsn \in Nat /\ flushedLsn < nextLsn
           /\ openedAt \in Nat /\ openedAt <= Len(file)
           /\ written \in Seq(Entry) /\ Len(written) \in Nat
           /\ DOMAIN written = 1 .. Len(written)
           /\ failures \in Nat
<1>1. TypeOK /\ failures \in Nat
  BY DEF LogInv
<1>2. file \in Seq(Byte) /\ written \in Seq(Entry)
  BY <1>1 DEF TypeOK, Entry
<1>3. Len(file) \in Nat /\ Len(written) \in Nat /\ DOMAIN written = 1 .. Len(written)
  BY <1>2, LenProperties
<1> QED BY <1>1, <1>2, <1>3 DEF TypeOK

LEMMA EntryFacts ==
    ASSUME LogInv, NEW i \in 1 .. Len(written)
    PROVE  /\ written[i] \in Entry
           /\ written[i].record \in Records /\ written[i].lsn \in Nat
           /\ written[i].start \in Nat /\ written[i].end \in Nat
           /\ written[i].whole \in BOOLEAN
           /\ written[i] = [record |-> written[i].record, lsn |-> written[i].lsn,
                            start |-> written[i].start, end |-> written[i].end,
                            whole |-> written[i].whole]
           /\ FrameOf(written[i]) \in Seq(Byte) /\ Len(FrameOf(written[i])) \in Nat
           /\ Len(FrameOf(written[i])) >= 21
           /\ IsWritten(written[i]) /\ written[i].start = EndOf(i - 1)
<1>1. written \in Seq(Entry) /\ DOMAIN written = 1 .. Len(written)
  BY TypeFacts
<1>2. written[i] \in Entry
  BY <1>1, ElementOfSeq
<1>3. /\ written[i].record \in Records /\ written[i].lsn \in Nat
      /\ written[i].start \in Nat /\ written[i].end \in Nat
      /\ written[i].whole \in BOOLEAN
      /\ written[i] = [record |-> written[i].record, lsn |-> written[i].lsn,
                       start |-> written[i].start, end |-> written[i].end,
                       whole |-> written[i].whole]
  BY <1>2 DEF Entry
<1>4. /\ FrameOf(written[i]) \in Seq(Byte) /\ Len(FrameOf(written[i])) \in Nat
      /\ Len(FrameOf(written[i])) >= 21
  BY <1>3, FrameFacts DEF FrameOf
<1>5. IsWritten(written[i]) /\ written[i].start = EndOf(i - 1)
  BY <1>1 DEF LogInv, FileIsWritten
<1> QED BY <1>2, <1>3, <1>4, <1>5

-----------------------------------------------------------------------------
(* An append *)

LEMMA PartOfFrame ==
    ASSUME NEW f \in Seq(Byte), NEW k \in Nat, k <= Len(f)
    PROVE  /\ SubSeq(f, 1, k) \in Seq(Byte) /\ Len(SubSeq(f, 1, k)) = k
           /\ \A j \in 1 .. k : SubSeq(f, 1, k)[j] = f[j]
<1> DEFINE none == 0
           lo == none + 1
           hi == none + k
<1>1. none \in Nat /\ none + k <= Len(f) /\ lo = 1 /\ hi = k
  OBVIOUS
<1>2. \A j \in 1 .. k : none + j = j
  OBVIOUS
<1> HIDE DEF none
<1>3. /\ SubSeq(f, lo, hi) \in Seq(Byte) /\ Len(SubSeq(f, lo, hi)) = k
      /\ \A j \in 1 .. k : SubSeq(f, lo, hi)[j] = f[none + j]
  BY <1>1, CutOutFacts
<1> HIDE DEF lo, hi
<1> QED BY <1>1, <1>2, <1>3

New(r, k) == [record |-> r, lsn |-> nextLsn, start |-> Len(file), end |-> Len(file) + k,
              whole |-> k = Len(Framed(r, nextLsn))]

LEMMA WriteFacts ==
    ASSUME LogInv, NEW r \in Records, NEW k \in Nat, k <= Len(Framed(r, nextLsn)), Write(r, k)
    PROVE  /\ file' \in Seq(Byte) /\ Len(file') = Len(file) + k
           /\ \A j \in 1 .. Len(file) : file'[j] = file[j]
           /\ \A j \in 1 .. k : file'[Len(file) + j] = Framed(r, nextLsn)[j]
           /\ written' \in Seq(Entry) /\ Len(written') \in Nat
           /\ DOMAIN written' = 1 .. Len(written')
           /\ \A i \in 1 .. Len(written) : written'[i] = written[i]
           /\ k = 0 => Len(written') = Len(written)
           /\ k # 0 => Len(written') = Len(written) + 1
                       /\ written'[Len(written) + 1] = New(r, k)
<1> DEFINE f == Framed(r, nextLsn)
           b == SubSeq(f, 1, k)
           n == Len(written)
<1>1. /\ file \in Seq(Byte) /\ Len(file) \in Nat /\ nextLsn \in Nat
      /\ written \in Seq(Entry) /\ n \in Nat
  BY TypeFacts
<1>2. f \in Seq(Byte)
  BY <1>1, FrameFacts
<1> HIDE DEF f
<1>3. b \in Seq(Byte) /\ Len(b) = k /\ \A j \in 1 .. k : b[j] = f[j]
  BY <1>2, PartOfFrame DEF f
<1>4. file' = file \o b
  BY DEF Write, f
<1> HIDE DEF b
<1>5. b \in Seq(Byte)
  BY <1>3
<1>6. /\ file \o b \in Seq(Byte) /\ Len(file \o b) = Len(file) + Len(b)
      /\ \A j \in 1 .. Len(file) : (file \o b)[j] = file[j]
      /\ \A j \in 1 .. Len(b) : (file \o b)[Len(file) + j] = b[j]
  BY <1>1, <1>5, ConcatFacts
<1>7. /\ file' \in Seq(Byte) /\ Len(file') = Len(file) + k
      /\ \A j \in 1 .. Len(file) : file'[j] = file[j]
      /\ \A j \in 1 .. k : file'[Len(file) + j] = f[j]
  BY <1>3, <1>4, <1>6
<1>8. CASE k = 0
  <2>1. written' = written
    BY <1>8 DEF Write
  <2> QED BY <1>1, <1>7, <1>8, <2>1, LenProperties DEF f
<1>9. CASE k # 0
  <2> DEFINE w == New(r, k)
  <2>1. written' = Append(written, w)
    BY <1>9 DEF Write, New
  <2>2. w \in Entry
    BY <1>1 DEF New, Entry
  <2> HIDE DEF w
  <2>3. /\ Append(written, w) \in Seq(Entry) /\ Len(Append(written, w)) = n + 1
        /\ \A i \in 1 .. n : Append(written, w)[i] = written[i]
        /\ Append(written, w)[n + 1] = w
    BY <1>1, <2>2, AppendProperties
  <2>4. n + 1 \in Nat /\ DOMAIN written' = 1 .. Len(written')
    BY <1>1, <2>1, <2>3, LenProperties
  <2> QED BY <1>7, <1>9, <2>1, <2>3, <2>4 DEF f, w
<1> QED BY <1>8, <1>9

\* The file stays its entries.
LEMMA WriteKeepsFile ==
    ASSUME LogInv, NEW r \in Records, NEW k \in Nat, k <= Len(Framed(r, nextLsn)), Write(r, k)
    PROVE  FileIsWritten'
<1> DEFINE n == Len(written)
           f == Framed(r, nextLsn)
           x == New(r, k)
<1>1. Len(file) \in Nat /\ n \in Nat
  BY TypeFacts
<1>2. /\ Len(file') = Len(file) + k
      /\ \A j \in 1 .. Len(file) : file'[j] = file[j]
      /\ \A j \in 1 .. k : file'[Len(file) + j] = f[j]
  BY WriteFacts
<1>3. \A i \in 1 .. n : written'[i] = written[i]
  BY WriteFacts
<1>4. /\ Len(written') \in Nat /\ DOMAIN written' = 1 .. Len(written')
      /\ k = 0 => Len(written') = n
      /\ k # 0 => Len(written') = n + 1 /\ written'[n + 1] = x
  BY WriteFacts
<1>5. Len(file) = EndOf(n)
  BY DEF LogInv, FileIsWritten
<1>6. f \in Seq(Byte) /\ Len(f) \in Nat /\ k <= Len(f)
  BY FrameFacts, TypeFacts
<1>7. /\ x.start = Len(file) /\ x.end = Len(file) + k /\ x.record = r /\ x.lsn = nextLsn
      /\ x.whole <=> k = Len(f)
  BY DEF New
<1>8. FrameOf(x) = f
  BY <1>7 DEF FrameOf
<1> HIDE DEF n, f, x
<1>9. \A i \in 0 .. n : EndOf(i)' = EndOf(i)
  <2>1. \A i \in 0 .. n : i # 0 => i \in 1 .. n
    BY <1>1
  <2> QED BY <1>3, <2>1 DEF EndOf
<1>10. ASSUME NEW i \in 1 .. n
       PROVE  (written[i].start = EndOf(i - 1) /\ IsWritten(written[i]))'
  <2> DEFINE w == written[i]
             g == FrameOf(w)
  <2>1. w.start \in Nat /\ w.end \in Nat /\ Len(g) \in Nat
    BY EntryFacts DEF n
  <2>2. IsWritten(w) /\ w.start = EndOf(i - 1)
    BY EntryFacts DEF n
  <2>3. /\ w.start < w.end /\ w.end <= w.start + Len(g) /\ w.end <= Len(file)
        /\ w.whole <=> w.end = w.start + Len(g)
        /\ \A j \in 1 .. w.end - w.start : file[w.start + j] = g[j]
    BY <2>2 DEF IsWritten
  <2>4. written'[i] = w
    BY <1>3
  <2>5. i - 1 \in 0 .. n
    BY <1>1
  <2>6. EndOf(i - 1)' = EndOf(i - 1)
    BY <1>9, <2>5
  <2>7. \A j \in 1 .. w.end - w.start : w.start + j \in 1 .. Len(file)
    BY <1>1, <2>1, <2>3
  <2>8. \A j \in 1 .. w.end - w.start : file'[w.start + j] = g[j]
    BY <1>2, <2>3, <2>7
  <2>9. w.end <= Len(file')
    BY <1>1, <1>2, <2>1, <2>3
  <2>10. FrameOf(written'[i]) = g
    BY <2>4 DEF FrameOf
  <2>11. FrameOf(written[i])' = FrameOf(written'[i])
    BY DEF FrameOf
  <2> HIDE DEF g
  <2>12. IsWritten(written[i])'
    BY <2>3, <2>4, <2>8, <2>9, <2>10, <2>11 DEF IsWritten
  <2> QED BY <2>2, <2>4, <2>6, <2>12
<1>11. ASSUME NEW m \in Nat, m = n + 1, k # 0
       PROVE  (written[m].start = EndOf(m - 1) /\ IsWritten(written[m]))'
  <2>1. /\ x.start < x.end /\ x.end <= x.start + Len(f) /\ x.end <= Len(file')
        /\ x.whole <=> x.end = x.start + Len(f)
        /\ x.end - x.start = k
    <3>1. /\ x.start < x.end /\ x.end <= x.start + Len(f) /\ x.end <= Len(file')
          /\ k = Len(f) <=> x.end = x.start + Len(f)
          /\ x.end - x.start = k
      <4>1. x.start = Len(file) /\ x.end = Len(file) + k
        BY <1>7
      <4> QED BY <1>1, <1>2, <1>6, <1>11, <4>1
    <3> QED BY <1>7, <3>1, Zenon
  <2>2. \A j \in 1 .. x.end - x.start : file'[x.start + j] = f[j]
    BY <1>2, <1>7, <2>1
  <2>3. written'[m] = x
    BY <1>4, <1>11
  <2>4. EndOf(m - 1)' = EndOf(n)
    <3>1. m - 1 \in 0 .. n /\ m - 1 = n
      BY <1>1, <1>11
    <3> QED BY <1>9, <3>1
  <2>5. FrameOf(written[m])' = f
    BY <1>7, <2>3 DEF FrameOf, f
  <2>6. IsWritten(written[m])'
    BY <2>1, <2>2, <2>3, <2>5 DEF IsWritten
  <2> QED BY <1>5, <1>7, <2>3, <2>4, <2>6
<1>12. \A i \in 1 .. Len(written') : i \in 1 .. n \/ (k # 0 /\ i \in Nat /\ i = n + 1)
  <2>1. Len(written') = n \/ (k # 0 /\ Len(written') = n + 1)
    BY <1>4
  <2> QED BY <1>1, <2>1
<1>13. \A i \in DOMAIN written' : (written[i].start = EndOf(i - 1) /\ IsWritten(written[i]))'
  BY <1>4, <1>10, <1>11, <1>12
<1>14. Len(file') = EndOf(Len(written))'
  <2>1. CASE k = 0
    <3>1. n \in 0 .. n
      BY <1>1
    <3> QED BY <1>1, <1>2, <1>4, <1>5, <1>9, <2>1, <3>1
  <2>2. CASE k # 0
    <3>1. EndOf(Len(written))' = x.end
      BY <1>1, <1>4, <2>2 DEF EndOf
    <3> QED BY <1>2, <1>7, <3>1
  <2> QED BY <2>1, <2>2
<1>15. \A i, j \in DOMAIN written' : i < j => written'[i].end <= written'[j].start
  <2> SUFFICES ASSUME NEW i \in 1 .. Len(written'), NEW j \in 1 .. Len(written'), i < j
               PROVE  written'[i].end <= written'[j].start
    BY <1>4
  <2>1. i \in 1 .. n /\ written'[i] = written[i]
    BY <1>1, <1>3, <1>12
  <2>2. CASE j \in 1 .. n
    <3>1. i \in DOMAIN written /\ j \in DOMAIN written
      BY <2>1, <2>2, TypeFacts DEF n
    <3>2. written[i].end <= written[j].start
      BY <3>1 DEF LogInv, FileIsWritten
    <3> QED BY <1>3, <2>1, <2>2, <3>2
  <2>3. CASE j \notin 1 .. n
    <3>1. written'[j] = x
      BY <1>4, <1>12, <2>3
    <3>2. written[i].end <= Len(file)
      BY <2>1, EntryFacts DEF n, IsWritten
    <3> QED BY <1>7, <2>1, <3>1, <3>2
  <2> QED BY <2>2, <2>3
<1> QED BY <1>13, <1>14, <1>15 DEF FileIsWritten

-----------------------------------------------------------------------------
(* The steps *)

LEMMA AppendKeepsInv ==
    ASSUME LogInv, NEW r \in Records, NEW k \in Nat, k <= Len(Framed(r, nextLsn)), Write(r, k),
           nextLsn' = nextLsn + 1, UNCHANGED <<synced, flushedLsn, openedAt>>,
           failures' \in {failures, failures + 1},
           k = Len(Framed(r, nextLsn)) \/ failures' = failures + 1
    PROVE  LogInv'
<1> DEFINE n == Len(written)
           f == Framed(r, nextLsn)
           x == New(r, k)
<1>1. /\ Len(file) \in Nat /\ n \in Nat /\ nextLsn \in Nat /\ failures \in Nat
      /\ synced \in Nat /\ synced <= Len(file) /\ flushedLsn \in Nat /\ flushedLsn < nextLsn
      /\ openedAt \in Nat /\ openedAt <= Len(file) /\ nextLsn > 0
  BY TypeFacts
<1>2. /\ file' \in Seq(Byte) /\ Len(file') = Len(file) + k /\ written' \in Seq(Entry)
      /\ \A i \in 1 .. n : written'[i] = written[i]
  BY WriteFacts
<1>3. /\ Len(written') \in Nat /\ DOMAIN written' = 1 .. Len(written')
      /\ k = 0 => Len(written') = n
      /\ k # 0 => Len(written') = n + 1 /\ written'[n + 1] = x
  BY WriteFacts
<1>4. Len(f) \in Nat /\ Len(f) >= 21 /\ k <= Len(f) /\ (k = Len(f) \/ failures' = failures + 1)
  BY FrameFacts, TypeFacts
<1>5. x.start = Len(file) /\ x.end = Len(file) + k /\ x.lsn = nextLsn
  BY DEF New
<1>6. /\ nextLsn' = nextLsn + 1 /\ synced' = synced /\ flushedLsn' = flushedLsn
      /\ openedAt' = openedAt /\ failures' \in Nat /\ failures <= failures'
  BY <1>1
<1> HIDE DEF n, f, x
<1>7. \A i \in 1 .. Len(written') : i \in 1 .. n \/ (i \in Nat /\ i = n + 1 /\ written'[i] = x)
  <2>1. Len(written') = n \/ (Len(written') = n + 1 /\ written'[n + 1] = x)
    BY <1>3
  <2> QED BY <1>1, <2>1
<1>8. \A i \in 1 .. n : /\ i \in DOMAIN written /\ written'[i] = written[i]
                        /\ written[i].lsn \in Nat /\ written[i].start \in Nat
  BY <1>2, EntryFacts, TypeFacts DEF n
<1>9. TypeOK'
  BY <1>1, <1>2, <1>6 DEF TypeOK, Entry
<1>10. FileIsWritten'
  BY WriteKeepsFile
<1>11. NumbersFollow /\ NumbersFit /\ NumbersGrow /\ FlushedLsnIsOnDisk
  BY DEF LogInv
<1>12. NumbersFollow'
  <2>1. openedAt < nextLsn + 1
    BY <1>1, <1>11 DEF NumbersFollow
  <2>2. ASSUME NEW j \in 1 .. Len(written'), written'[j].start >= openedAt
        PROVE  /\ openedAt < written'[j].lsn /\ written'[j].lsn < nextLsn + 1
               /\ \A i \in 1 .. j - 1 :
                      written'[i].start >= openedAt => written'[i].lsn < written'[j].lsn
    <3>1. \A i \in 1 .. j - 1 : i \in 1 .. n
      BY <1>1, <1>7
    <3>2. CASE j \in 1 .. n
      <4>1. openedAt < written[j].lsn /\ written[j].lsn < nextLsn
        BY <1>8, <1>11, <2>2, <3>2 DEF NumbersFollow
      <4>2. \A i \in 1 .. j - 1 : written[i].start >= openedAt => written[i].lsn < written[j].lsn
        BY <1>8, <1>11, <2>2, <3>2 DEF NumbersFollow
      <4>3. written[j].lsn < nextLsn + 1
        BY <1>1, <1>8, <3>2, <4>1
      <4> QED BY <1>8, <3>1, <3>2, <4>1, <4>2, <4>3
    <3>3. CASE j \notin 1 .. n
      <4>1. written'[j] = x
        BY <1>7, <3>3
      <4>2. openedAt < nextLsn /\ nextLsn < nextLsn + 1
        BY <1>1, <1>11 DEF NumbersFollow
      <4>3. \A i \in 1 .. n : written[i].start >= openedAt => written[i].lsn < nextLsn
        BY <1>8, <1>11 DEF NumbersFollow
      <4> QED BY <1>5, <1>8, <3>1, <4>1, <4>2, <4>3
    <3> QED BY <3>2, <3>3
  <2> QED BY <1>3, <1>6, <2>1, <2>2 DEF NumbersFollow
<1>13. NumbersFit'
  <2>1. nextLsn + 1 <= Len(file) + k + 1 + failures'
    BY <1>1, <1>4, <1>11 DEF NumbersFit
  <2>2. ASSUME NEW i \in 1 .. Len(written')
        PROVE  written'[i].lsn <= written'[i].start + 1 + failures'
    <3>1. CASE i \in 1 .. n
      <4>1. written[i].lsn <= written[i].start + 1 + failures
        BY <1>8, <1>11, <3>1 DEF NumbersFit
      <4>2. /\ written'[i] = written[i]
            /\ written[i].lsn \in Nat /\ written[i].start \in Nat
        BY <1>8, <3>1
      <4>3. failures \in Nat /\ failures' \in Nat /\ failures <= failures'
        BY <1>1, <1>6
      <4>4. written[i].lsn <= written[i].start + 1 + failures'
        BY <4>1, <4>2, <4>3
      <4> QED BY <4>2, <4>4
    <3>2. CASE i \notin 1 .. n
      <4>1. written'[i] = x
        BY <1>7, <3>2
      <4>2. nextLsn <= Len(file) + 1 + failures'
        BY <1>1, <1>6, <1>11 DEF NumbersFit
      <4> QED BY <1>5, <4>1, <4>2
    <3> QED BY <3>1, <3>2
  <2> QED BY <1>2, <1>3, <1>6, <2>1, <2>2 DEF NumbersFit
<1>14. NumbersGrow'
  <2> SUFFICES ASSUME failures' <= 20
               PROVE  LsnsGrowAlongTheFile'
    BY DEF NumbersGrow
  <2>1. LsnsGrowAlongTheFile
    BY <1>1, <1>6, <1>11 DEF NumbersGrow
  <2>2. ASSUME NEW j \in 1 .. Len(written'), written'[j].whole
        PROVE  /\ written'[j].lsn < nextLsn + 1
               /\ \A i \in 1 .. j - 1 : written'[i].whole => written'[i].lsn < written'[j].lsn
    <3>1. \A i \in 1 .. j - 1 : i \in 1 .. n
      BY <1>1, <1>7
    <3>2. CASE j \in 1 .. n
      <4>1. /\ written[j].lsn < nextLsn
            /\ \A i \in 1 .. j - 1 : written[i].whole => written[i].lsn < written[j].lsn
        BY <1>8, <2>1, <2>2, <3>2 DEF LsnsGrowAlongTheFile
      <4>2. written[j].lsn < nextLsn + 1
        BY <1>1, <1>8, <3>2, <4>1
      <4> QED BY <1>8, <3>1, <3>2, <4>1, <4>2
    <3>3. CASE j \notin 1 .. n
      <4>1. written'[j] = x
        BY <1>7, <3>3
      <4>2. \A i \in 1 .. n : written[i].whole => written[i].lsn < nextLsn
        BY <1>8, <2>1 DEF LsnsGrowAlongTheFile
      <4>3. nextLsn < nextLsn + 1
        BY <1>1
      <4> QED BY <1>5, <1>8, <3>1, <4>1, <4>2, <4>3
    <3> QED BY <3>2, <3>3
  <2> QED BY <1>3, <1>6, <2>2 DEF LsnsGrowAlongTheFile
<1>15. FlushedLsnIsOnDisk'
  <2>1. ASSUME NEW i \in 1 .. Len(written'),
               written'[i].start >= openedAt, written'[i].lsn <= flushedLsn
        PROVE  written'[i].end <= synced
    <3>1. i \in 1 .. n
      <4>1. ~(nextLsn <= flushedLsn)
        BY <1>1
      <4> QED BY <1>5, <1>7, <2>1, <4>1
    <3> QED BY <1>8, <1>11, <2>1, <3>1 DEF FlushedLsnIsOnDisk
  <2> QED BY <1>3, <1>6, <2>1 DEF FlushedLsnIsOnDisk
<1> QED BY <1>6, <1>9, <1>10, <1>12, <1>13, <1>14, <1>15 DEF LogInv

LEMMA FlushKeepsInv ==
    ASSUME LogInv, Flush
    PROVE  LogInv'
<1>1. /\ synced' = Len(file) /\ flushedLsn' = nextLsn - 1
      /\ file' = file /\ nextLsn' = nextLsn /\ written' = written /\ openedAt' = openedAt
      /\ failures' = failures
  BY DEF Flush
<1>2. TypeOK'
  <2>1. TypeOK /\ Len(file) \in Nat /\ nextLsn \in Nat \ {0}
    BY TypeFacts DEF LogInv
  <2>2. synced' \in 0 .. Len(file') /\ flushedLsn' \in 0 .. nextLsn' - 1
    BY <1>1, <2>1
  <2> QED BY <1>1, <2>1, <2>2 DEF TypeOK
<1>3. FileIsWritten'
  BY <1>1 DEF LogInv, FileIsWritten, IsWritten, EndOf, FrameOf
<1>4. NumbersFollow' /\ NumbersFit'
  BY <1>1 DEF LogInv, NumbersFollow, NumbersFit
<1>5. NumbersGrow'
  BY <1>1 DEF LogInv, NumbersGrow, LsnsGrowAlongTheFile
<1>6. FlushedLsnIsOnDisk'
  BY <1>1, TypeFacts, EntryFacts DEF FlushedLsnIsOnDisk, IsWritten
<1> QED BY <1>1, <1>2, <1>3, <1>4, <1>5, <1>6 DEF LogInv

-----------------------------------------------------------------------------
(* What a stop leaves *)

LEMMA EntriesFollow ==
    ASSUME LogInv, NEW i \in 1 .. Len(written), NEW j \in 1 .. Len(written), i < j
    PROVE  written[i].end <= written[j].start /\ written[i].start < written[j].start
<1>1. i \in DOMAIN written /\ j \in DOMAIN written
  BY TypeFacts
<1>2. written[i].end <= written[j].start
  BY <1>1 DEF LogInv, FileIsWritten
<1>3. /\ written[i].start \in Nat /\ written[i].end \in Nat /\ written[j].start \in Nat
      /\ written[i].start < written[i].end
  BY EntryFacts DEF IsWritten
<1> QED BY <1>2, <1>3

\* The entries of which something is left are the first ones, and all but the
\* last of them are left as they were.
LEMMA LeftAreFirst ==
    ASSUME LogInv, NEW n \in Nat, n <= Len(file)
    PROVE  \E m \in 0 .. Len(written) :
               /\ {i \in DOMAIN written : written[i].start < n} = 1 .. m
               /\ m = 0 => n = 0
               /\ m # 0 => n <= written[m].end
<1> DEFINE l == Len(written)
           T == {i \in 1 .. l + 1 : i = l + 1 \/ ~(written[i].start < n)}
<1>1. l \in Nat /\ DOMAIN written = 1 .. l /\ Len(file) = EndOf(l)
  BY TypeFacts DEF LogInv, FileIsWritten
<1>2. \A i \in 1 .. l : /\ written[i].start \in Nat /\ written[i].end \in Nat
                        /\ written[i].start = EndOf(i - 1)
  BY EntryFacts
<1>3. \A i, j \in 1 .. l : i < j => written[i].start < written[j].start
  BY EntriesFollow
<1> HIDE DEF l
<1>4. T \in SUBSET Nat /\ l + 1 \in T
  BY <1>1
<1>5. PICK p \in T : \A i \in T : p <= i
  BY <1>4, LeastNumber
<1>6. p \in 1 .. l + 1 /\ (p # l + 1 => ~(written[p].start < n))
  OBVIOUS
<1>7. \A i \in 1 .. l : i < p => written[i].start < n
  BY <1>1, <1>5, <1>6
<1>8. \A i \in 1 .. l : ~(i < p) => ~(written[i].start < n)
  <2> SUFFICES ASSUME NEW i \in 1 .. l, ~(i < p)
               PROVE  ~(written[i].start < n)
    OBVIOUS
  <2>1. p \in 1 .. l /\ p # l + 1
    BY <1>1, <1>6
  <2>2. p = i \/ written[p].start < written[i].start
    BY <1>1, <1>3, <2>1
  <2> QED BY <1>2, <1>6, <2>1, <2>2
<1> HIDE DEF T
<1> DEFINE m == p - 1
<1>9. m \in 0 .. l /\ \A i : i \in 1 .. m <=> i \in 1 .. l /\ i < p
  BY <1>1, <1>6
<1>10. {i \in DOMAIN written : written[i].start < n} = 1 .. m
  BY <1>1, <1>7, <1>8, <1>9
<1>11. n <= EndOf(m)
  <2>1. CASE p = l + 1
    <3>1. m = l
      BY <1>1, <2>1
    <3> QED BY <1>1, <3>1
  <2>2. CASE p # l + 1
    <3>1. p \in 1 .. l /\ written[p].start = EndOf(m) /\ written[p].start \in Nat
      BY <1>1, <1>2, <1>6, <2>2
    <3> QED BY <1>6, <2>2, <3>1
  <2> QED BY <2>1, <2>2
<1> HIDE DEF m
<1>12. (m = 0 => n = 0) /\ (m # 0 => n <= written[m].end)
  BY <1>11 DEF EndOf
<1> QED BY <1>9, <1>10, <1>12 DEF l

\* v is what is left of w, the i-th of the m entries that n bytes hold.
IsLeft(i, m, n, w, v) ==
    /\ v.record = w.record /\ v.lsn = w.lsn /\ v.start = w.start
    /\ v.end \in Nat /\ v.end <= w.end /\ v.end <= n
    /\ v.start < n
    /\ v.start < v.end
    /\ v.whole <=> w.whole /\ v.end = w.end
    /\ i < m => v.end = w.end
    /\ i = m => v.end = n

LEMMA CutFacts ==
    ASSUME LogInv, NEW n \in Nat, n <= Len(file), file' = SubSeq(file, 1, n),
           NEW m \in 0 .. Len(written), 1 .. m = {i \in DOMAIN written : written[i].start < n},
           m # 0 => n <= written[m].end,
           written' = [i \in 1 .. m |-> CutAt(written[i], n)]
    PROVE  /\ file' \in Seq(Byte) /\ Len(file') = n
           /\ \A j \in 1 .. n : file'[j] = file[j]
           /\ written' \in Seq(Entry) /\ Len(written') = m /\ DOMAIN written' = 1 .. m
           /\ \A i \in 1 .. m : IsLeft(i, m, n, written[i], written'[i])
<1>1. file \in Seq(Byte) /\ Len(file) \in Nat /\ Len(written) \in Nat
  BY TypeFacts
<1>2. /\ file' \in Seq(Byte) /\ Len(file') = n
      /\ \A j \in 1 .. n : file'[j] = file[j]
  BY <1>1, PartOfFrame
<1>3. \A i \in 1 .. m : i \in 1 .. Len(written) /\ written[i].start < n
  BY <1>1
<1>4. ASSUME NEW i \in 1 .. m
      PROVE  written'[i] \in Entry /\ IsLeft(i, m, n, written[i], written'[i])
  <2> DEFINE w == written[i]
             v == written'[i]
  <2>1. /\ w \in Entry /\ w.end \in Nat /\ w.start \in Nat /\ w.start < w.end /\ w.start < n
        /\ w.whole \in BOOLEAN
    BY <1>3, EntryFacts DEF IsWritten
  <2>2. v = CutAt(w, n)
    OBVIOUS
  <2>3. i < m => w.end <= n
    <3> SUFFICES ASSUME i < m
                 PROVE  w.end <= n
      OBVIOUS
    <3>1. m \in 1 .. m /\ i \in 1 .. Len(written) /\ m \in 1 .. Len(written)
      BY <1>3
    <3>2. w.end <= written[m].start /\ written[m].start < n /\ written[m].start \in Nat
      BY <1>3, <3>1, EntriesFollow, EntryFacts
    <3> QED BY <2>1, <3>2
  <2>4. i = m => n <= w.end
    OBVIOUS
  <2> HIDE DEF w, v, IsLeft
  <2>5. CASE w.end <= n
    <3>1. v = w
      BY <2>2, <2>5 DEF CutAt
    <3>2. w.whole <=> w.whole /\ w.end = w.end
      OBVIOUS
    <3>3. i = m => w.end = n
      BY <2>1, <2>4, <2>5
    <3> QED BY <2>1, <2>5, <3>1, <3>2, <3>3 DEF w, v, IsLeft
  <2>6. CASE ~(w.end <= n)
    <3>1. v = [w EXCEPT !.end = n, !.whole = FALSE]
      BY <2>2, <2>6 DEF CutAt
    <3>2. /\ v \in Entry /\ v.record = w.record /\ v.lsn = w.lsn /\ v.start = w.start
          /\ v.end = n /\ v.whole = FALSE
      BY <2>1, <3>1 DEF Entry
    <3>3. n <= w.end /\ n # w.end
      BY <2>1, <2>6
    <3>4. v.whole <=> w.whole /\ v.end = w.end
      BY <3>2, <3>3
    <3> QED BY <2>1, <2>3, <2>6, <3>2, <3>3, <3>4 DEF w, v, IsLeft
  <2> QED BY <2>5, <2>6
<1>5. written' \in [1 .. m -> Entry]
  BY <1>4
<1>6. m \in Nat
  BY <1>1
<1>7. written' \in Seq(Entry) /\ Len(written') = m /\ DOMAIN written' = 1 .. m
  BY <1>5, <1>6, FunctionIsSequence
<1> QED BY <1>2, <1>4, <1>7

-----------------------------------------------------------------------------
(* The log is opened again *)

LEMMA ReopenKeepsInv ==
    ASSUME LogInv, NEW n \in synced .. Len(file), NEW powerLoss \in BOOLEAN,
           Reopen(n, powerLoss)
    PROVE  LogInv'
<1>1. /\ Len(file) \in Nat /\ synced \in Nat /\ synced <= Len(file) /\ failures \in Nat
      /\ n \in Nat /\ n <= Len(file) /\ synced <= n
  BY TypeFacts
<1>2. /\ file' = SubSeq(file, 1, n) /\ nextLsn' = n + 1 /\ flushedLsn' = n /\ openedAt' = n
      /\ synced' = IF powerLoss THEN n ELSE synced
      /\ written' = [i \in {i \in DOMAIN written : written[i].start < n} |->
                         CutAt(written[i], n)]
      /\ failures' = failures
  BY DEF Reopen, FirstLsn
<1>3. PICK m \in 0 .. Len(written) :
          /\ {i \in DOMAIN written : written[i].start < n} = 1 .. m
          /\ m = 0 => n = 0
          /\ m # 0 => n <= written[m].end
  BY <1>1, LeftAreFirst
<1>4. written' = [i \in 1 .. m |-> CutAt(written[i], n)]
  BY <1>2, <1>3
<1>5. /\ file' \in Seq(Byte) /\ Len(file') = n
      /\ \A j \in 1 .. n : file'[j] = file[j]
      /\ written' \in Seq(Entry) /\ Len(written') = m /\ DOMAIN written' = 1 .. m
  BY <1>1, <1>2, <1>3, <1>4, CutFacts
<1>6. \A i \in 1 .. m : IsLeft(i, m, n, written[i], written'[i])
  BY <1>1, <1>2, <1>3, <1>4, CutFacts
<1>7. m \in Nat /\ \A i \in 1 .. m : i \in 1 .. Len(written) /\ i \in DOMAIN written
  BY <1>3, TypeFacts
<1>8. TypeOK'
  BY <1>1, <1>2, <1>5 DEF TypeOK, Entry
<1>9. ASSUME NEW i \in 1 .. m
      PROVE  (written[i].start = EndOf(i - 1) /\ IsWritten(written[i]))'
  <2> DEFINE w == written[i]
             g == FrameOf(w)
  <2>1. w.start \in Nat /\ w.end \in Nat /\ Len(g) \in Nat
    BY <1>7, EntryFacts
  <2>2. /\ w.start < w.end /\ w.end <= w.start + Len(g)
        /\ w.whole <=> w.end = w.start + Len(g)
        /\ \A j \in 1 .. w.end - w.start : file[w.start + j] = g[j]
    BY <1>7, EntryFacts DEF IsWritten
  <2>3. w.start = EndOf(i - 1)
    BY <1>7, EntryFacts
  <2>4. EndOf(i - 1)' = EndOf(i - 1)
    <3>1. i - 1 = 0 \/ (i - 1 \in 1 .. m /\ i - 1 < m)
      OBVIOUS
    <3> QED BY <1>6, <3>1 DEF EndOf, IsLeft
  <2> DEFINE v == written'[i]
  <2>5. /\ v.record = w.record /\ v.lsn = w.lsn /\ v.start = w.start
        /\ v.end \in Nat /\ v.end <= w.end /\ v.end <= n /\ v.start < v.end
    BY <1>6 DEF IsLeft
  <2>6. v.whole <=> w.whole /\ v.end = w.end
    BY <1>6 DEF IsLeft
  <2>7. FrameOf(written[i])' = g
    BY <2>5 DEF FrameOf
  <2> HIDE DEF v, w, g
  <2>8. v.end = w.start + Len(g) <=> w.end = w.start + Len(g) /\ v.end = w.end
    BY <2>1, <2>2, <2>5
  <2>9. v.whole <=> v.end = w.start + Len(g)
    BY <2>2, <2>6, <2>8, Zenon
  <2>10. \A j \in 1 .. v.end - w.start : file'[w.start + j] = g[j]
    <3> SUFFICES ASSUME NEW j \in 1 .. v.end - w.start
                 PROVE  file'[w.start + j] = g[j]
      OBVIOUS
    <3>1. j \in 1 .. w.end - w.start /\ w.start + j \in 1 .. n
      BY <1>1, <2>1, <2>5
    <3> QED BY <1>5, <2>2, <3>1
  <2>11. v.end <= w.start + Len(g) /\ v.end <= Len(file')
    BY <1>5, <2>1, <2>2, <2>5
  <2>12. IsWritten(written[i])'
    BY <2>5, <2>7, <2>9, <2>10, <2>11 DEF IsWritten, v
  <2> QED BY <2>3, <2>4, <2>5, <2>12 DEF v, w
<1>10. FileIsWritten'
  <2>1. Len(file') = EndOf(Len(written))'
    <3>1. CASE m = 0
      BY <1>3, <1>5, <3>1 DEF EndOf
    <3>2. CASE m # 0
      <4>1. m \in 1 .. m
        BY <1>7, <3>2
      <4> QED BY <1>5, <1>6, <3>2, <4>1 DEF EndOf, IsLeft
    <3> QED BY <3>1, <3>2
  <2>2. \A i, j \in 1 .. m : i < j => written'[i].end <= written'[j].start
    <3> SUFFICES ASSUME NEW i \in 1 .. m, NEW j \in 1 .. m, i < j
                 PROVE  written'[i].end <= written'[j].start
      OBVIOUS
    <3>1. i < m
      BY <1>7
    <3>2. written[i].end <= written[j].start
      BY <1>7, EntriesFollow
    <3> QED BY <1>6, <3>1, <3>2 DEF IsLeft
  <2> QED BY <1>5, <1>9, <2>1, <2>2 DEF FileIsWritten
<1>11. \A i \in 1 .. m : ~(written'[i].start >= n)
  <2>1. \A i \in 1 .. m : written[i].start \in Nat
    BY <1>7, EntryFacts
  <2> QED BY <1>1, <1>6, <2>1 DEF IsLeft
<1>12. NumbersFollow' /\ FlushedLsnIsOnDisk'
  <2>1. n < n + 1
    BY <1>1
  <2> QED BY <1>2, <1>5, <1>11, <2>1 DEF NumbersFollow, FlushedLsnIsOnDisk
<1>13. NumbersFit'
  <2>1. n + 1 <= n + 1 + failures
    BY <1>1
  <2>2. \A i \in 1 .. m : written[i].lsn <= written[i].start + 1 + failures
    BY <1>7 DEF LogInv, NumbersFit
  <2> QED BY <1>2, <1>5, <1>6, <2>1, <2>2 DEF NumbersFit, IsLeft
<1>14. NumbersGrow'
  <2> SUFFICES ASSUME failures <= 20
               PROVE  LsnsGrowAlongTheFile'
    BY <1>2 DEF NumbersGrow
  <2>1. LsnsGrowAlongTheFile
    BY DEF LogInv, NumbersGrow
  <2>2. ASSUME NEW j \in 1 .. m, written'[j].whole
        PROVE  /\ written'[j].lsn < n + 1
               /\ \A i \in 1 .. j - 1 : written'[i].whole => written'[i].lsn < written'[j].lsn
    <3>1. written[j].whole /\ written'[j].end = written[j].end /\ written'[j].lsn = written[j].lsn
          /\ written'[j].end <= n
      BY <1>6, <2>2 DEF IsLeft
    <3>2. /\ written[j].lsn \in Nat /\ written[j].start \in Nat /\ written[j].end \in Nat
          /\ Len(FrameOf(written[j])) \in Nat /\ Len(FrameOf(written[j])) >= 21
      BY <1>7, EntryFacts
    <3>3. written[j].end = written[j].start + Len(FrameOf(written[j]))
      BY <1>7, <3>1, EntryFacts DEF IsWritten
    <3>4. written[j].lsn <= written[j].start + 1 + failures
      BY <1>7 DEF LogInv, NumbersFit
    <3>5. written'[j].lsn < n + 1
      BY <1>1, <3>1, <3>2, <3>3, <3>4
    <3>6. \A i \in 1 .. j - 1 : written[i].whole => written[i].lsn < written[j].lsn
      BY <1>7, <2>1, <3>1 DEF LsnsGrowAlongTheFile
    <3>7. \A i \in 1 .. j - 1 : i \in 1 .. m
      BY <1>7
    <3>8. \A i \in 1 .. j - 1 : (written'[i].whole => written[i].whole)
                                /\ written'[i].lsn = written[i].lsn
      BY <1>6, <3>7 DEF IsLeft
    <3> QED BY <3>1, <3>5, <3>6, <3>8
  <2> QED BY <1>2, <1>5, <2>2 DEF LsnsGrowAlongTheFile
<1> QED BY <1>1, <1>2, <1>8, <1>10, <1>12, <1>13, <1>14 DEF LogInv

-----------------------------------------------------------------------------
(* The invariant holds throughout *)

\* The file is its entries one after the other, cut or not, and the sequence
\* numbers keep up with its length, whatever fails and wherever the process
\* stops (LogManager::new, append_record, flush).
THEOREM LogInvariance == Spec => []LogInv
<1>1. Init => LogInv
  <2> SUFFICES ASSUME Init
               PROVE  LogInv
    OBVIOUS
  <2>1. /\ file = <<>> /\ Len(file) = 0 /\ nextLsn = 1 /\ flushedLsn = 0 /\ openedAt = 0
        /\ synced = 0 /\ written = <<>> /\ Len(written) = 0 /\ failures = 0
    BY DEF Init, Opened, FirstLsn
  <2>2. file \in Seq(Byte) /\ written \in Seq(Entry) /\ DOMAIN written = {}
    BY <2>1, EmptySeq
  <2>3. TypeOK
    BY <2>1, <2>2 DEF TypeOK, Entry
  <2>4. FileIsWritten
    BY <2>1, <2>2 DEF FileIsWritten, EndOf
  <2> QED BY <2>1, <2>2, <2>3, <2>4
          DEF LogInv, NumbersFollow, NumbersFit, NumbersGrow, LsnsGrowAlongTheFile,
              FlushedLsnIsOnDisk
<1>2. LogInv /\ [Next]_vars => LogInv'
  <2> SUFFICES ASSUME LogInv, [Next]_vars
               PROVE  LogInv'
    OBVIOUS
  <2>1. ASSUME NEW r \in Records, AppendRecord(r)
        PROVE  LogInv'
    <3>1. Len(Framed(r, nextLsn)) \in Nat
      BY FrameFacts, TypeFacts
    <3>2. /\ Write(r, Len(Framed(r, nextLsn))) /\ nextLsn' = nextLsn + 1
          /\ UNCHANGED <<synced, flushedLsn, openedAt>> /\ failures' = failures
      BY <2>1 DEF AppendRecord
    <3> QED BY <3>1, <3>2, AppendKeepsInv
  <2>2. ASSUME NEW r \in Records, NEW k \in 0 .. Len(Framed(r, nextLsn)) - 1, AppendFails(r, k)
        PROVE  LogInv'
    <3>1. k \in Nat /\ k <= Len(Framed(r, nextLsn))
      BY FrameFacts, TypeFacts
    <3>2. /\ Write(r, k) /\ nextLsn' = nextLsn + 1
          /\ UNCHANGED <<synced, flushedLsn, openedAt>> /\ failures' = failures + 1
      BY <2>2 DEF AppendFails
    <3> QED BY <3>1, <3>2, AppendKeepsInv
  <2>3. CASE Flush
    BY <2>3, FlushKeepsInv
  <2>4. ASSUME NEW n \in synced .. Len(file), NEW powerLoss \in BOOLEAN, Reopen(n, powerLoss)
        PROVE  LogInv'
    BY <2>4, ReopenKeepsInv
  <2>5. CASE UNCHANGED vars
    <3>1. TypeOK' /\ FileIsWritten' /\ NumbersFollow' /\ NumbersFit'
      BY <2>5 DEF LogInv, vars, TypeOK, FileIsWritten, IsWritten, FrameOf, EndOf,
                  NumbersFollow, NumbersFit
    <3> QED BY <2>5, <3>1 DEF LogInv, vars, NumbersGrow, LsnsGrowAlongTheFile,
                              FlushedLsnIsOnDisk
  <2> QED BY <2>1, <2>2, <2>3, <2>4, <2>5 DEF Next
<1> QED BY <1>1, <1>2, PTL DEF Spec

\* The lengths and numbers of the log stay where their types say: no more of the
\* file is on disk than there is of it, and flushed_lsn stays behind next_lsn.
THEOREM LogTypes == Spec => []TypeOK
<1>1. LogInv => TypeOK
  BY DEF LogInv
<1> QED BY <1>1, LogInvariance, PTL

\* A record whose number flushed_lsn covers is on disk (flush, and what the pool
\* relies on before it writes a page).
THEOREM FlushedIsOnDisk == Spec => []FlushedLsnIsOnDisk
<1>1. LogInv => FlushedLsnIsOnDisk
  BY DEF LogInv
<1> QED BY <1>1, LogInvariance, PTL

\* Sequence numbers do not repeat along the file, as long as at most 20 appends
\* failed: each of them uses up a number, perhaps without a byte, and the count
\* that starts again from the length of the file has 21 bytes for each record.
THEOREM LsnsGrow == Spec => [](failures <= 20 => LsnsGrowAlongTheFile)
<1>1. LogInv => (failures <= 20 => LsnsGrowAlongTheFile)
  BY DEF LogInv, NumbersGrow
<1> QED BY <1>1, LogInvariance, PTL

-----------------------------------------------------------------------------
(* Recovery as a function of where it starts *)

NextAt(buf, c) == c + 12 + FromBytes(SubSeq(buf, c + 1, c + 4))
FrontAt(buf, c) == Deserialize(SubSeq(buf, c + 13, NextAt(buf, c)))
StopsAt(buf) == {c \in 0 .. Len(buf) : c + 12 > Len(buf) \/ Incomplete(NextAt(buf, c), buf)}

\* One turn of recover's loop, given what the later ones return.
Turn(buf, f) ==
    [cursor \in 0 .. Len(buf) |->
        IF cursor + 12 > Len(buf) THEN <<>>
        ELSE IF Incomplete(NextAt(buf, cursor), buf) THEN <<>>
        ELSE FrontAt(buf, cursor) \o f[NextAt(buf, cursor)]]

IsRecovery(buf, f) ==
    /\ f \in [0 .. Len(buf) -> Seq(LogRecord)]
    /\ \A c \in 0 .. Len(buf) :
           f[c] = IF c \in StopsAt(buf) THEN <<>> ELSE FrontAt(buf, c) \o f[NextAt(buf, c)]

LEMMA PartIsBytes ==
    ASSUME NEW buf \in Seq(Byte), NEW m \in Nat, NEW n \in Nat, m + n <= Len(buf)
    PROVE  SubSeq(buf, m + 1, m + n) \in Seq(Byte) /\ Len(SubSeq(buf, m + 1, m + n)) = n
BY CutOutFacts

LEMMA TurnFacts ==
    ASSUME NEW buf \in Seq(Byte), NEW c \in (0 .. Len(buf)) \ StopsAt(buf)
    PROVE  /\ FrontAt(buf, c) \in Seq(LogRecord)
           /\ NextAt(buf, c) \in c + 1 .. Len(buf)
<1> DEFINE size == FromBytes(SubSeq(buf, c + 1, c + 4))
<1>1. Len(buf) \in Nat /\ c \in Nat
  BY LenProperties
<1>2. c + 12 <= Len(buf) /\ ~(NextAt(buf, c) > Len(buf))
  BY <1>1 DEF StopsAt, Incomplete
<1>3. size \in Nat
  <2> DEFINE four == 4
  <2>1. four \in Nat /\ c + four <= Len(buf) /\ four >= 4
    BY <1>1, <1>2
  <2> HIDE DEF four
  <2>2. /\ SubSeq(buf, c + 1, c + four) \in Seq(Byte)
        /\ Len(SubSeq(buf, c + 1, c + four)) = four
    BY <1>1, <2>1, PartIsBytes
  <2>3. FromBytes(SubSeq(buf, c + 1, c + four)) \in Nat
    BY <2>1, <2>2, FromBytesFacts
  <2> QED BY <2>3 DEF four
<1>4. NextAt(buf, c) = c + 12 + size
  BY DEF NextAt
<1> HIDE DEF size
<1>5. NextAt(buf, c) \in c + 1 .. Len(buf)
  BY <1>1, <1>2, <1>3, <1>4
<1>6. SubSeq(buf, c + 13, NextAt(buf, c)) \in Seq(Byte)
  <2> DEFINE m == c + 12
             lo == c + 13
  <2>1. m \in Nat /\ m + size <= Len(buf) /\ lo = m + 1 /\ NextAt(buf, c) = m + size
    BY <1>1, <1>2, <1>3, <1>4
  <2> HIDE DEF m, lo
  <2>2. SubSeq(buf, m + 1, m + size) \in Seq(Byte)
    BY <1>3, <2>1, PartIsBytes
  <2> QED BY <2>1, <2>2 DEF lo
<1>7. FrontAt(buf, c) \in Seq(LogRecord)
  BY <1>6, DeserializeFacts DEF FrontAt
<1> QED BY <1>5, <1>7

LEMMA RecoverIs ==
    ASSUME NEW buf \in Seq(Byte)
    PROVE  \E f : IsRecovery(buf, f) /\ Recover(buf) = f[0]
<1> DEFINE n == Len(buf)
           stop == StopsAt(buf)
           head == [c \in 0 .. n |-> FrontAt(buf, c)]
           next == [c \in 0 .. n |-> NextAt(buf, c)]
           g == CHOOSE f : f = Turn(buf, f)
<1>1. n \in Nat
  BY LenProperties
<1>2. Recover(buf) = g[0]
  BY DEF Recover, Turn, NextAt, FrontAt
<1>3. ASSUME NEW f
      PROVE  f = Turn(buf, f) <=> Gathers(f, 0, n, stop, head, next)
  <2> DEFINE t == [c \in 0 .. n |-> IF c \in stop THEN <<>> ELSE head[c] \o f[next[c]]]
  <2>1. ASSUME NEW c \in 0 .. n
        PROVE  Turn(buf, f)[c] = t[c]
    <3>1. c \in stop <=> c + 12 > n \/ Incomplete(NextAt(buf, c), buf)
      BY DEF StopsAt
    <3>2. head[c] = FrontAt(buf, c) /\ next[c] = NextAt(buf, c)
      OBVIOUS
    <3>3. Turn(buf, f)[c] = IF c + 12 > n THEN <<>>
                            ELSE IF Incomplete(NextAt(buf, c), buf) THEN <<>>
                            ELSE FrontAt(buf, c) \o f[NextAt(buf, c)]
      BY DEF Turn
    <3>4. t[c] = IF c \in stop THEN <<>> ELSE head[c] \o f[next[c]]
      OBVIOUS
    <3> HIDE DEF stop, head, next, t, n
    <3> QED BY <3>1, <3>2, <3>3, <3>4
  <2>2. Turn(buf, f) = t
    BY <2>1 DEF Turn
  <2> QED BY <2>2 DEF Gathers
<1>4. \A c \in (0 .. n) \ stop : head[c] \in Seq(LogRecord) /\ next[c] \in c + 1 .. n
  BY TurnFacts
<1> DEFINE none == 0
<1>5. none \in Nat /\ none <= n
  BY <1>1
<1> HIDE DEF n, stop, head, next, none, g
<1>6. /\ \A c \in (none .. n) \ stop : head[c] \in Seq(LogRecord) /\ next[c] \in c + 1 .. n
      /\ \A f : f = Turn(buf, f) <=> Gathers(f, none, n, stop, head, next)
  BY <1>3, <1>4 DEF none
<1>7. \E f : Gathers(f, none, n, stop, head, next)
  BY <1>1, <1>5, <1>6, GathererExists
<1>8. g = Turn(buf, g)
  <2>1. \E f : f = Turn(buf, f)
    BY <1>6, <1>7
  <2> QED BY <2>1 DEF g
<1>9. Gathers(g, none, n, stop, head, next)
  BY <1>6, <1>8
<1>10. /\ g \in [none .. n -> Seq(LogRecord)]
       /\ \A c \in none .. n : g[c] = IF c \in stop THEN <<>> ELSE head[c] \o g[next[c]]
  <2>1. \A c \in (none .. n) \ stop : head[c] \in Seq(LogRecord) /\ next[c] \in c + 1 .. n
    BY <1>6
  <2>2. g \in [none .. n -> Seq(LogRecord)]
    BY <1>1, <1>5, <1>9, <2>1, GathererType
  <2>3. g = [c \in none .. n |-> IF c \in stop THEN <<>> ELSE head[c] \o g[next[c]]]
    BY <1>9 DEF Gathers
  <2> QED BY <2>2, <2>3
<1>11. \A c \in 0 .. n : head[c] = FrontAt(buf, c) /\ next[c] = NextAt(buf, c)
  BY DEF head, next
<1>12. IsRecovery(buf, g)
  BY <1>10, <1>11 DEF IsRecovery, stop, none, n
<1> QED BY <1>2, <1>12

\* What ReadableIn gathers from the i-th entry on.
One(w) == IF Readable(w.record) THEN <<w.record>> ELSE <<>>

IsGathered(s, f) ==
    /\ f \in [1 .. Len(s) + 1 -> Seq(LogRecord)]
    /\ f[Len(s) + 1] = <<>>
    /\ \A i \in 1 .. Len(s) : f[i] = One(s[i]) \o f[i + 1]

LEMMA RecordIsLogRecord == Records \subseteq LogRecord
BY RecordFacts DEF LogRecord

LEMMA OneFacts ==
    ASSUME NEW w \in Entry
    PROVE  One(w) \in Seq(LogRecord)
<1>1. w.record \in LogRecord
  BY RecordIsLogRecord DEF Entry
<1>2. <<w.record>> \in Seq(LogRecord) /\ <<>> \in Seq(LogRecord)
  BY <1>1
<1> QED BY <1>2 DEF One

LEMMA ReadableInIs ==
    ASSUME NEW s \in Seq(Entry)
    PROVE  \E f : IsGathered(s, f) /\ ReadableIn(s) = f[1]
<1> DEFINE n == Len(s) + 1
           stop == {n}
           head == [i \in 1 .. n |-> One(s[i])]
           next == [i \in 1 .. n |-> i + 1]
           turn(f) == [i \in 1 .. Len(s) + 1 |->
                          IF i > Len(s) THEN <<>>
                          ELSE (IF Readable(s[i].record) THEN <<s[i].record>> ELSE <<>>)
                                   \o f[i + 1]]
           g == CHOOSE f : f = turn(f)
<1>1. Len(s) \in Nat /\ n \in Nat /\ 1 <= n
  BY LenProperties
<1>2. ReadableIn(s) = g[1]
  BY DEF ReadableIn
<1>3. ASSUME NEW f
      PROVE  f = turn(f) <=> Gathers(f, 1, n, stop, head, next)
  <2> DEFINE t == [i \in 1 .. n |-> IF i \in stop THEN <<>> ELSE head[i] \o f[next[i]]]
  <2>1. ASSUME NEW i \in 1 .. n
        PROVE  turn(f)[i] = t[i]
    <3>1. i \in stop <=> i > Len(s)
      BY <1>1
    <3>2. head[i] = One(s[i]) /\ next[i] = i + 1
      OBVIOUS
    <3>3. turn(f)[i] = IF i > Len(s) THEN <<>> ELSE One(s[i]) \o f[i + 1]
      BY DEF One
    <3>4. t[i] = IF i \in stop THEN <<>> ELSE head[i] \o f[next[i]]
      OBVIOUS
    <3> HIDE DEF stop, head, next, t, n, turn
    <3> QED BY <3>1, <3>2, <3>3, <3>4
  <2>2. turn(f) = t
    BY <2>1
  <2> QED BY <2>2 DEF Gathers
<1>4. \A i \in (1 .. n) \ stop : head[i] \in Seq(LogRecord) /\ next[i] \in i + 1 .. n
  <2>1. \A i \in (1 .. n) \ stop : i \in 1 .. Len(s)
    BY <1>1
  <2>2. \A i \in 1 .. Len(s) : One(s[i]) \in Seq(LogRecord)
    BY ElementOfSeq, OneFacts
  <2>3. \A i \in 1 .. Len(s) : i + 1 \in i + 1 .. n
    BY <1>1
  <2> QED BY <2>1, <2>2, <2>3
<1> DEFINE first == 1
<1>5. first \in Nat /\ first <= n
  BY <1>1
<1>6. \A i \in 1 .. Len(s) : i \in 1 .. n /\ i \notin stop
                             /\ head[i] = One(s[i]) /\ next[i] = i + 1
  BY <1>1
<1>7. n \in 1 .. n /\ n \in stop
  BY <1>1
<1> HIDE DEF n, stop, head, next, turn, first, g
<1>8. /\ \A i \in (first .. n) \ stop : head[i] \in Seq(LogRecord) /\ next[i] \in i + 1 .. n
      /\ \A f : f = turn(f) <=> Gathers(f, first, n, stop, head, next)
  BY <1>3, <1>4 DEF first
<1>9. \E f : Gathers(f, first, n, stop, head, next)
  BY <1>1, <1>5, <1>8, GathererExists
<1>10. g = turn(g)
  <2>1. \E f : f = turn(f)
    BY <1>8, <1>9
  <2> QED BY <2>1 DEF g
<1>11. Gathers(g, first, n, stop, head, next)
  BY <1>8, <1>10
<1>12. /\ g \in [first .. n -> Seq(LogRecord)]
       /\ \A i \in first .. n : g[i] = IF i \in stop THEN <<>> ELSE head[i] \o g[next[i]]
  <2>1. \A i \in (first .. n) \ stop : head[i] \in Seq(LogRecord) /\ next[i] \in i + 1 .. n
    BY <1>8
  <2>2. g \in [first .. n -> Seq(LogRecord)]
    BY <1>1, <1>5, <1>11, <2>1, GathererType
  <2>3. g = [c \in first .. n |-> IF c \in stop THEN <<>> ELSE head[c] \o g[next[c]]]
    BY <1>11 DEF Gathers
  <2> QED BY <2>2, <2>3
<1>13. IsGathered(s, g)
  BY <1>6, <1>7, <1>12 DEF IsGathered, first, n
<1> QED BY <1>2, <1>13

-----------------------------------------------------------------------------
(* What recovery returns *)

\* The size at the front of an entry, when it is all there.
LEMMA SizeIsRead ==
    ASSUME LogInv, NEW i \in 1 .. Len(written), written[i].start + 12 <= written[i].end
    PROVE  NextAt(file, written[i].start) = written[i].start + Len(FrameOf(written[i]))
<1> DEFINE w == written[i]
           m == w.start
           f == FrameOf(w)
           s == Serialize(w.record)
           size == ToBytes(Len(s), 4)
<1>1. m \in Nat /\ w.end \in Nat /\ w.record \in Records /\ w.lsn \in Nat
  BY EntryFacts
<1>2. w.end <= Len(file) /\ \A k \in 1 .. w.end - m : file[m + k] = f[k]
  BY EntryFacts DEF IsWritten
<1>3. file \in Seq(Byte) /\ Len(file) \in Nat
  BY TypeFacts
<1>4. /\ size \in Seq(Byte) /\ Len(size) = 4 /\ Len(f) = 12 + Len(s)
      /\ \A k \in 1 .. 4 : f[k] = size[k]
  BY <1>1, FrameFacts DEF FrameOf
<1>5. Len(s) \in Nat /\ Len(s) < Wide
  BY <1>1, SerializeFacts
<1>6. FromBytes(size) = Len(s)
  BY <1>5, RoundTrip
<1>7. NextAt(file, m) = m + 12 + FromBytes(SubSeq(file, m + 1, m + 4))
  BY DEF NextAt
<1>8. m + 12 <= w.end
  OBVIOUS
<1> DEFINE four == 4
<1> HIDE DEF w, m, f, s, size, four
<1>9. four \in Nat /\ four <= 4 /\ m + four <= Len(file)
      /\ \A k \in 1 .. four : k \in 1 .. w.end - m /\ k \in 1 .. 4
  BY <1>1, <1>2, <1>3, <1>8 DEF four
<1>10. Len(size) = four /\ size \in Seq(Byte)
  BY <1>4 DEF four
<1>11. \A k \in 1 .. Len(size) : file[m + k] = size[k]
  BY <1>2, <1>4, <1>9, <1>10
<1>12. SubSeq(file, m + 1, m + Len(size)) = size
  <2>1. m + Len(size) <= Len(file)
    BY <1>9, <1>10
  <2> QED BY <1>1, <1>3, <1>10, <1>11, <2>1, FoundAt
<1>13. SubSeq(file, m + 1, m + 4) = size
  BY <1>10, <1>12 DEF four
<1>14. NextAt(file, m) = m + Len(f)
  <2>1. FromBytes(SubSeq(file, m + 1, m + 4)) = Len(s)
    BY <1>6, <1>13
  <2>2. NextAt(file, m) = m + 12 + Len(s)
    BY <1>7, <2>1
  <2>3. Len(f) = 12 + Len(s)
    BY <1>4
  <2> QED BY <1>1, <1>5, <2>2, <2>3
<1> QED BY <1>14 DEF m, f, w

\* A whole entry is read as its record, or skipped, and recovery goes on at its end.
LEMMA WholeIsRead ==
    ASSUME LogInv, NEW i \in 1 .. Len(written), written[i].whole
    PROVE  /\ written[i].start \in (0 .. Len(file)) \ StopsAt(file)
           /\ FrontAt(file, written[i].start) = One(written[i])
           /\ NextAt(file, written[i].start) = written[i].end
<1> DEFINE w == written[i]
           c == w.start
           f == FrameOf(w)
           s == Serialize(w.record)
<1>1. c \in Nat /\ w.end \in Nat /\ w.record \in Records /\ w.lsn \in Nat
  BY EntryFacts
<1>2. /\ w.end <= Len(file) /\ w.end = c + Len(f)
      /\ \A k \in 1 .. w.end - c : file[c + k] = f[k]
  BY EntryFacts DEF IsWritten
<1>3. file \in Seq(Byte) /\ Len(file) \in Nat
  BY TypeFacts
<1>4. s \in Seq(Byte) /\ Len(s) \in Nat
  BY <1>1, SerializeFacts
<1>5. Len(f) \in Nat /\ Len(f) = 12 + Len(s) /\ \A k \in 1 .. Len(s) : f[12 + k] = s[k]
  BY <1>1, FrameFacts DEF FrameOf
<1>6. c + 12 <= w.end
  BY <1>1, <1>2, <1>4, <1>5
<1>7. NextAt(file, c) = w.end
  BY <1>2, <1>6, SizeIsRead
<1>8. Deserialize(s) = One(w)
  BY <1>1, ReadOrSkipped DEF One
<1>9. FrontAt(file, c) = Deserialize(SubSeq(file, c + 13, w.end))
  BY <1>7 DEF FrontAt
<1> HIDE DEF w, c, f, s
<1>10. c \in (0 .. Len(file)) \ StopsAt(file)
  BY <1>1, <1>2, <1>3, <1>6, <1>7 DEF StopsAt, Incomplete
<1>11. SubSeq(file, c + 13, w.end) = s
  <2> DEFINE m == c + 12
             lo == c + 13
  <2>1. m \in Nat /\ m + Len(s) <= Len(file) /\ lo = m + 1 /\ w.end = m + Len(s)
    BY <1>1, <1>2, <1>3, <1>4, <1>5
  <2>2. ASSUME NEW k \in 1 .. Len(s)
        PROVE  file[m + k] = s[k]
    <3>1. 12 + k \in 1 .. w.end - c /\ c + (12 + k) = m + k
      BY <1>1, <1>2, <1>4, <1>5
    <3> QED BY <1>2, <1>5, <3>1
  <2> HIDE DEF m, lo
  <2>3. SubSeq(file, m + 1, m + Len(s)) = s
    BY <1>3, <1>4, <2>1, <2>2, FoundAt
  <2> QED BY <2>1, <2>3 DEF lo
<1> QED BY <1>7, <1>8, <1>9, <1>10, <1>11 DEF c, w

LEMMA IntactFacts ==
    ASSUME LogInv
    PROVE  \E m \in 0 .. Len(written) :
               /\ Intact \in Seq(Entry) /\ Len(Intact) = m
               /\ \A i \in 1 .. m : Intact[i] = written[i] /\ written[i].whole
               /\ m # Len(written) => ~written[m + 1].whole
<1> DEFINE l == Len(written)
           good == {j \in DOMAIN written : \A k \in 1 .. j : written[k].whole}
           T == {i \in 1 .. l + 1 : i = l + 1 \/ ~written[i].whole}
<1>1. l \in Nat /\ DOMAIN written = 1 .. l
  BY TypeFacts
<1>2. \A i \in 1 .. l : written[i] \in Entry
  BY EntryFacts
<1>3. Intact = [i \in good |-> written[i]]
  BY DEF Intact
<1> HIDE DEF l
<1>4. T \in SUBSET Nat /\ l + 1 \in T
  BY <1>1
<1>5. PICK p \in T : \A i \in T : p <= i
  BY <1>4, LeastNumber
<1>6. p \in 1 .. l + 1 /\ (p # l + 1 => ~written[p].whole)
  OBVIOUS
<1>7. \A i \in 1 .. l : i < p => written[i].whole
  BY <1>1, <1>5, <1>6
<1> HIDE DEF T
<1> DEFINE m == p - 1
<1>8. m \in 0 .. l /\ m \in Nat /\ m + 1 = p /\ \A i : i \in 1 .. m <=> i \in 1 .. l /\ i < p
  BY <1>1, <1>6
<1>9. good = 1 .. m
  <2>1. ASSUME NEW j \in 1 .. m
        PROVE  j \in good
    <3>1. \A k \in 1 .. j : k \in 1 .. l /\ k < p
      BY <1>1, <1>6
    <3> QED BY <1>1, <1>7, <1>8, <3>1
  <2>2. ASSUME NEW j \in good
        PROVE  j \in 1 .. m
    <3>1. j \in 1 .. l /\ \A k \in 1 .. j : written[k].whole
      BY <1>1
    <3>2. ~(p <= j)
      BY <1>1, <1>6, <3>1
    <3> QED BY <1>1, <1>6, <3>1, <3>2
  <2> QED BY <2>1, <2>2
<1> HIDE DEF good, m
<1>10. Intact \in [1 .. m -> Entry] /\ \A i \in 1 .. m : Intact[i] = written[i]
  BY <1>2, <1>3, <1>8, <1>9
<1>11. Intact \in Seq(Entry) /\ Len(Intact) = m
  BY <1>8, <1>10, FunctionIsSequence
<1>12. m # l => ~written[m + 1].whole
  BY <1>1, <1>6, <1>8
<1> QED BY <1>7, <1>8, <1>10, <1>11, <1>12 DEF l

-----------------------------------------------------------------------------
(* The records up to the first torn one *)

\* From the i-th of the whole entries on, recovery returns what is readable of
\* them, and then what it finds behind them.
LEMMA WholeAreRecovered ==
    ASSUME LogInv, NEW f, IsRecovery(file, f), NEW s \in Seq(Entry), NEW g, IsGathered(s, g),
           NEW m \in 0 .. Len(written), Len(s) = m,
           \A i \in 1 .. m : s[i] = written[i] /\ written[i].whole
    PROVE  f[0] = g[1] \o f[EndOf(m)]
<1> DEFINE Missed(n) == f[EndOf(m - n)] # g[m + 1 - n] \o f[EndOf(m)]
           T == {n \in 0 .. m : Missed(n)}
<1>1. m \in Nat /\ \A i \in 1 .. m : i \in 1 .. Len(written)
  BY TypeFacts
<1>2. \A i \in 0 .. m : EndOf(i) \in 0 .. Len(file)
  <2>1. \A i \in 1 .. m : written[i].end \in Nat /\ written[i].end <= Len(file)
    BY <1>1, EntryFacts DEF IsWritten
  <2>2. Len(file) \in Nat /\ \A i \in 0 .. m : i # 0 => i \in 1 .. m
    BY <1>1, TypeFacts
  <2> QED BY <2>1, <2>2 DEF EndOf
<1>3. \A i \in 0 .. m : f[EndOf(i)] \in Seq(LogRecord)
  BY <1>2 DEF IsRecovery
<1>4. \A i \in 1 .. m + 1 : g[i] \in Seq(LogRecord)
  BY DEF IsGathered
<1>5. g[m + 1] = <<>>
  BY DEF IsGathered
<1>6. ASSUME NEW i \in 1 .. m
      PROVE  f[EndOf(i - 1)] = One(written[i]) \o f[EndOf(i)]
  <2> DEFINE c == written[i].start
  <2>1. /\ c \in (0 .. Len(file)) \ StopsAt(file)
        /\ FrontAt(file, c) = One(written[i]) /\ NextAt(file, c) = written[i].end
    BY <1>1, WholeIsRead
  <2>2. c = EndOf(i - 1) /\ written[i].end = EndOf(i)
    <3>1. i \in 1 .. Len(written) /\ i # 0
      BY <1>1
    <3>2. c = EndOf(i - 1)
      BY <3>1, EntryFacts
    <3> QED BY <3>1, <3>2 DEF EndOf
  <2> HIDE DEF c
  <2>3. f[c] = FrontAt(file, c) \o f[NextAt(file, c)]
    BY <2>1 DEF IsRecovery
  <2> QED BY <2>1, <2>2, <2>3
<1>7. ASSUME NEW i \in 1 .. m
      PROVE  g[i] = One(written[i]) \o g[i + 1]
  BY DEF IsGathered
<1> HIDE DEF Missed
<1>8. \A n \in 0 .. m : ~Missed(n)
  <2> SUFFICES ASSUME T # {}
               PROVE  FALSE
    OBVIOUS
  <2>1. T \in SUBSET Nat
    BY <1>1
  <2>2. PICK n \in T : \A k \in T : n <= k
    BY <2>1, LeastNumber
  <2>3. n \in 0 .. m /\ f[EndOf(m - n)] # g[m + 1 - n] \o f[EndOf(m)]
    BY DEF Missed
  <2>4. n # 0
    <3>1. <<>> \o f[EndOf(m)] = f[EndOf(m)]
      <4>1. m \in 0 .. m
        BY <1>1
      <4> QED BY <1>3, <4>1, ConcatEmptySeq
    <3>2. m - 0 = m /\ m + 1 - 0 = m + 1
      BY <1>1
    <3> QED BY <1>5, <2>3, <3>1, <3>2
  <2> DEFINE i == m + 1 - n
  <2>5. /\ i \in 1 .. m /\ i + 1 \in 1 .. m + 1 /\ m \in 0 .. m /\ i \in 0 .. m
        /\ m - n = i - 1 /\ m - (n - 1) = i /\ m + 1 - (n - 1) = i + 1
        /\ n - 1 \in 0 .. m /\ ~(n <= n - 1)
    BY <1>1, <2>3, <2>4
  <2>6. f[EndOf(i)] = g[i + 1] \o f[EndOf(m)]
    <3>1. ~Missed(n - 1)
      BY <2>2, <2>5
    <3> QED BY <2>5, <3>1 DEF Missed
  <2> HIDE DEF i, T
  <2> DEFINE one == One(written[i])
             rest == g[i + 1]
             last == f[EndOf(m)]
  <2>7. f[EndOf(i - 1)] = one \o (rest \o last) /\ g[i] = one \o rest
    BY <1>6, <1>7, <2>5, <2>6
  <2>8. one \in Seq(LogRecord)
    BY <1>1, <2>5, EntryFacts, OneFacts
  <2>9. rest \in Seq(LogRecord) /\ last \in Seq(LogRecord)
    BY <1>3, <1>4, <2>5
  <2> HIDE DEF one, rest, last
  <2>10. one \o (rest \o last) = (one \o rest) \o last
    BY <2>8, <2>9, Regroup
  <2>11. f[EndOf(i - 1)] = g[i] \o f[EndOf(m)]
    BY <2>7, <2>10 DEF last
  <2> QED BY <2>3, <2>5, <2>11 DEF i
<1>9. m \in 0 .. m /\ m - m = 0 /\ m + 1 - m = 1
  BY <1>1
<1>10. f[EndOf(0)] = g[1] \o f[EndOf(m)]
  <2>1. ~Missed(m)
    BY <1>8, <1>9
  <2> QED BY <1>9, <2>1 DEF Missed
<1> QED BY <1>10 DEF EndOf

\* Nothing is read from a torn record at the end of the file, nor behind the end.
LEMMA NothingBehind ==
    ASSUME LogInv, NEW f, IsRecovery(file, f), NEW m \in 0 .. Len(written),
           m = Len(written) \/ (m = Len(written) - 1 /\ ~written[m + 1].whole)
    PROVE  f[EndOf(m)] = <<>>
<1>1. Len(file) \in Nat /\ Len(written) \in Nat /\ Len(file) = EndOf(Len(written))
  BY TypeFacts DEF LogInv, FileIsWritten
<1>2. CASE m = Len(written)
  <2>1. EndOf(m) \in StopsAt(file) /\ EndOf(m) \in 0 .. Len(file)
    BY <1>1, <1>2 DEF StopsAt
  <2> QED BY <2>1 DEF IsRecovery
<1>3. CASE m # Len(written)
  <2>1. m + 1 \in 1 .. Len(written) /\ m + 1 = Len(written) /\ m + 1 - 1 = m /\ m + 1 # 0
    BY <1>1, <1>3
  <2> DEFINE i == m + 1
             w == written[i]
             c == w.start
  <2>2. i \in 1 .. Len(written) /\ i = Len(written) /\ i - 1 = m /\ i # 0
    BY <2>1
  <2> HIDE DEF i
  <2>3. /\ c \in Nat /\ w.end \in Nat /\ Len(FrameOf(w)) \in Nat
        /\ c = EndOf(m) /\ IsWritten(w)
    BY <2>2, EntryFacts
  <2>4. ~w.whole
    BY <1>3 DEF i
  <2>5. c < w.end /\ w.end <= c + Len(FrameOf(w)) /\ w.end # c + Len(FrameOf(w))
    BY <2>3, <2>4 DEF IsWritten
  <2>6. Len(file) = w.end
    BY <1>1, <2>2 DEF EndOf
  <2>7. c + 12 <= w.end => NextAt(file, c) = c + Len(FrameOf(w))
    BY <2>2, SizeIsRead
  <2> HIDE DEF w, c
  <2>8. c \in StopsAt(file) /\ c \in 0 .. Len(file)
    BY <1>1, <2>3, <2>5, <2>6, <2>7 DEF StopsAt, Incomplete
  <2> QED BY <2>3, <2>8 DEF IsRecovery
<1> QED BY <1>2, <1>3

\* Recovery returns the records appended before the first torn one, in order and
\* with nothing before, between or in place of them, whatever fails and wherever
\* the process stops; and only those while nothing was appended behind a torn one
\* (RecoveryManager::recover on what append_record wrote).
THEOREM RecoversIntact == Spec => []RecoversIntactRecords
<1>1. LogInv => RecoversIntactRecords
  <2> SUFFICES ASSUME LogInv
               PROVE  RecoversIntactRecords
    OBVIOUS
  <2>1. file \in Seq(Byte) /\ Len(file) \in Nat /\ Len(written) \in Nat
    BY TypeFacts
  <2>2. PICK f : IsRecovery(file, f) /\ Recover(file) = f[0]
    BY <2>1, RecoverIs
  <2>3. PICK m \in 0 .. Len(written) :
            /\ Intact \in Seq(Entry) /\ Len(Intact) = m
            /\ \A i \in 1 .. m : Intact[i] = written[i] /\ written[i].whole
            /\ m # Len(written) => ~written[m + 1].whole
    BY IntactFacts
  <2>4. PICK g : IsGathered(Intact, g) /\ ReadableIn(Intact) = g[1]
    BY <2>3, ReadableInIs
  <2>5. f[0] = g[1] \o f[EndOf(m)]
    <3>1. IsRecovery(file, f) /\ IsGathered(Intact, g)
      BY <2>2, <2>4
    <3>2. Intact \in Seq(Entry) /\ Len(Intact) = m
      BY <2>3
    <3>3. \A i \in 1 .. m : Intact[i] = written[i] /\ written[i].whole
      BY <2>3
    <3> QED BY <3>1, <3>2, <3>3, WholeAreRecovered
  <2>6. g[1] \in Seq(LogRecord)
    <3>1. 1 \in 1 .. Len(Intact) + 1
      BY <2>1, <2>3
    <3> QED BY <2>4, <3>1 DEF IsGathered
  <2>7. f[EndOf(m)] \in Seq(LogRecord)
    <3>1. EndOf(m) \in 0 .. Len(file)
      <4>1. CASE m = 0
        BY <2>1, <4>1 DEF EndOf
      <4>2. CASE m # 0
        <5>1. m \in 1 .. Len(written)
          BY <2>1, <4>2
        <5>2. written[m].end \in Nat /\ written[m].end <= Len(file)
          BY <5>1, EntryFacts DEF IsWritten
        <5> QED BY <2>1, <4>2, <5>2 DEF EndOf
      <4> QED BY <4>1, <4>2
    <3> QED BY <2>2, <3>1 DEF IsRecovery
  <2>8. IsPrefix(ReadableIn(Intact), Recover(file))
    BY <2>2, <2>4, <2>5, <2>6, <2>7, PrefixOfConcat
  <2>9. ASSUME \A i \in 1 .. Len(written) - 1 : written[i].whole
        PROVE  Recover(file) = ReadableIn(Intact)
    <3>1. m = Len(written) \/ (m = Len(written) - 1 /\ ~written[m + 1].whole)
      <4>1. CASE m = Len(written)
        BY <4>1
      <4>2. CASE m # Len(written)
        <5>1. ~written[m + 1].whole
          BY <2>3, <4>2
        <5>2. m + 1 \notin 1 .. Len(written) - 1
          BY <2>9, <5>1
        <5>3. m = Len(written) - 1
          BY <2>1, <4>2, <5>2
        <5> QED BY <5>1, <5>3
      <4> QED BY <4>1, <4>2
    <3>2. f[EndOf(m)] = <<>>
      BY <2>2, <3>1, NothingBehind
    <3>3. g[1] \o <<>> = g[1]
      BY <2>6, ConcatEmptySeq
    <3> QED BY <2>2, <2>4, <2>5, <3>2, <3>3
  <2> QED BY <2>8, <2>9 DEF RecoversIntactRecords
<1> QED BY <1>1, LogInvariance, PTL
=============================================================================
