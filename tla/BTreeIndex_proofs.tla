-------------------------- MODULE BTreeIndex_proofs --------------------------
(***************************************************************************)
(* What holds of BTreeIndex for all keys and values, any number of threads *)
(* and any length of the arrays: the keys ascend, pins are accounted for,  *)
(* and the tree implements Index.                                          *)
(***************************************************************************)
EXTENDS BTreeIndex, FiniteSetTheorems, SequenceTheorems, TLAPS

\* A thread in a call has one that fits the place it is at.
CallsFit ==
    \A t \in Threads :
        /\ pc[t] = "idle" <=> call[t] = Idle
        /\ pc[t] = "root" => call[t].op = "insert"
        /\ pc[t] = "scan" => call[t].op = "range_search"

\* Nobody is in the leaf, and no insert looks for it, before there is one.
RootComesFirst ==
    ~root => /\ entries = <<>>
             /\ \A t \in Threads :
                    /\ pc[t] \notin {"leaf", "scan"}
                    /\ pc[t] = "find" => call[t].op # "insert"

\* A call in the leaf has it pinned.
UsersHavePins == LeftBehind >= 0

IInv == TypeOK /\ KeysAscend /\ CallsFit /\ RootComesFirst /\ UsersHavePins

-----------------------------------------------------------------------------
(* Sequences. *)

LEMMA InsertAtFacts ==
    ASSUME NEW S, NEW s \in Seq(S), NEW i \in 1 .. Len(s) + 1, NEW e \in S
    PROVE  LET r == InsertAt(s, i, e) IN
           /\ r \in Seq(S)
           /\ Len(r) = Len(s) + 1
           /\ \A j \in 1 .. i - 1 : r[j] = s[j]
           /\ r[i] = e
           /\ \A j \in i + 1 .. Len(s) + 1 : r[j] = s[j - 1]
<1> DEFINE front == SubSeq(s, 1, i - 1)
           back == SubSeq(s, i, Len(s))
           mid == front \o <<e>>
<1>1. /\ front \in Seq(S) /\ Len(front) = i - 1
      /\ \A j \in 1 .. i - 1 : front[j] = s[j]
  BY SubSeqProperties
<1>2. /\ back \in Seq(S) /\ Len(back) = Len(s) - i + 1
      /\ \A j \in 1 .. Len(s) - i + 1 : back[j] = s[i + j - 1]
  BY SubSeqProperties
<1>3. <<e>> \in Seq(S) /\ Len(<<e>>) = 1 /\ <<e>>[1] = e
  OBVIOUS
<1> HIDE DEF front, back
<1>4. /\ mid \in Seq(S) /\ Len(mid) = i
      /\ \A j \in 1 .. i - 1 : mid[j] = s[j]
      /\ mid[i] = e
  BY <1>1, <1>3, ConcatProperties
<1> HIDE DEF mid
<1>5. /\ mid \o back \in Seq(S) /\ Len(mid \o back) = Len(s) + 1
      /\ \A j \in 1 .. i : (mid \o back)[j] = mid[j]
      /\ \A j \in i + 1 .. Len(s) + 1 : (mid \o back)[j] = back[j - i]
  BY <1>2, <1>4, ConcatProperties
<1>6. InsertAt(s, i, e) = mid \o back
  BY DEF InsertAt, mid, front, back
<1> QED BY <1>2, <1>4, <1>5, <1>6

LEMMA RemoveAtFacts ==
    ASSUME NEW S, NEW s \in Seq(S), NEW i \in 1 .. Len(s)
    PROVE  LET r == RemoveAt(s, i) IN
           /\ r \in Seq(S)
           /\ Len(r) = Len(s) - 1
           /\ \A j \in 1 .. i - 1 : r[j] = s[j]
           /\ \A j \in i .. Len(s) - 1 : r[j] = s[j + 1]
<1> DEFINE front == SubSeq(s, 1, i - 1)
           back == SubSeq(s, i + 1, Len(s))
<1>1. /\ front \in Seq(S) /\ Len(front) = i - 1
      /\ \A j \in 1 .. i - 1 : front[j] = s[j]
  BY SubSeqProperties
<1>2. /\ back \in Seq(S) /\ Len(back) = Len(s) - i
      /\ \A j \in 1 .. Len(s) - i : back[j] = s[i + j]
  BY SubSeqProperties
<1> HIDE DEF front, back
<1>3. /\ front \o back \in Seq(S) /\ Len(front \o back) = Len(s) - 1
      /\ \A j \in 1 .. i - 1 : (front \o back)[j] = front[j]
      /\ \A j \in i .. Len(s) - 1 : (front \o back)[j] = back[j - i + 1]
  BY <1>1, <1>2, ConcatProperties
<1>4. RemoveAt(s, i) = front \o back
  BY DEF RemoveAt, front, back
<1>5. ASSUME NEW j \in i .. Len(s) - 1
      PROVE  back[j - i + 1] = s[j + 1]
  <2>1. j - i + 1 \in 1 .. Len(s) - i /\ i + (j - i + 1) = j + 1
    BY LenProperties
  <2>2. \A m \in 1 .. Len(s) - i : back[m] = s[i + m]
    BY <1>2
  <2>3. back[j - i + 1] = s[i + (j - i + 1)]
    BY <2>1, <2>2, Zenon
  <2> QED BY <2>1, <2>3
<1> QED BY <1>1, <1>3, <1>4, <1>5

-----------------------------------------------------------------------------
(* The map that an ascending sequence of entries stands for. *)

Ascends(s) == \A i \in DOMAIN s : \A j \in 1 .. i - 1 : s[j].key < s[i].key
Has(s, k) == \E i \in DOMAIN s : s[i].key = k
KeyMap(s) ==
    [k \in Keys |-> IF Has(s, k) THEN s[CHOOSE i \in DOMAIN s : s[i].key = k].ctid ELSE NoCtid]

LEMMA EntryFacts ==
    ASSUME NEW s \in Seq(Entries)
    PROVE  /\ Len(s) \in Nat
           /\ DOMAIN s = 1 .. Len(s)
           /\ \A i \in 1 .. Len(s) : /\ s[i] \in Entries
                                    /\ s[i].key \in Keys /\ s[i].key \in Int
                                    /\ s[i].ctid \in Ctids
<1>1. Len(s) \in Nat /\ DOMAIN s = 1 .. Len(s)
  BY LenProperties
<1>2. \A e \in Entries : e.key \in Keys /\ e.key \in Int /\ e.ctid \in Ctids
  BY IndexAssumption DEF Entries
<1>3. \A i \in 1 .. Len(s) : s[i] \in Entries
  BY ElementOfSeq
<1> QED BY <1>1, <1>2, <1>3

LEMMA ContentsIsKeyMap == Contents = KeyMap(entries) /\ (KeysAscend <=> Ascends(entries))
BY DEF Contents, KeyMap, Present, IsAt, Has, KeysAscend, Ascends

LEMMA KeyMapFacts ==
    ASSUME NEW s \in Seq(Entries), Ascends(s)
    PROVE  /\ KeyMap(s) \in [Keys -> Ctids \cup {NoCtid}]
           /\ \A i \in DOMAIN s : s[i].key \in Keys /\ KeyMap(s)[s[i].key] = s[i].ctid
           /\ \A k \in Keys : KeyMap(s)[k] # NoCtid <=> Has(s, k)
<1>1. \A i \in DOMAIN s : i \in Nat /\ i > 0 /\ s[i].key \in Keys /\ s[i].key \in Int
                               /\ s[i].ctid \in Ctids
  BY EntryFacts
<1>2. \A i, j \in DOMAIN s : s[i].key = s[j].key => i = j
  <2> SUFFICES ASSUME NEW i \in DOMAIN s, NEW j \in DOMAIN s, s[i].key = s[j].key
               PROVE  i = j
    OBVIOUS
  <2>1. i \in Nat /\ j \in Nat /\ i > 0 /\ j > 0 /\ s[i].key \in Int /\ s[j].key \in Int
    BY <1>1
  <2>2. ~(i < j) /\ ~(j < i)
    BY <2>1 DEF Ascends
  <2> QED BY <2>1, <2>2
<1>3. ASSUME NEW k \in Keys, Has(s, k)
      PROVE  \E i \in DOMAIN s : s[i].key = k /\ KeyMap(s)[k] = s[i].ctid
  <2>1. \E i \in DOMAIN s : s[i].key = k
    BY <1>3 DEF Has
  <2> DEFINE at == CHOOSE i \in DOMAIN s : s[i].key = k
  <2>2. at \in DOMAIN s /\ s[at].key = k
    BY <2>1
  <2>3. KeyMap(s)[k] = s[at].ctid
    BY <1>3 DEF KeyMap
  <2> QED BY <2>2, <2>3
<1>4. ASSUME NEW k \in Keys, ~Has(s, k)
      PROVE  KeyMap(s)[k] = NoCtid
  BY <1>4 DEF KeyMap
<1>5. ASSUME NEW i \in DOMAIN s
      PROVE  KeyMap(s)[s[i].key] = s[i].ctid
  BY <1>1, <1>2, <1>3 DEF Has
<1>6. \A k \in Keys : KeyMap(s)[k] # NoCtid <=> Has(s, k)
  BY <1>1, <1>3, <1>4, IndexAssumption
<1>7. \A k \in Keys : KeyMap(s)[k] \in Ctids \cup {NoCtid}
  BY <1>1, <1>3, <1>4
<1>8. KeyMap(s) \in [Keys -> Ctids \cup {NoCtid}]
  BY <1>7 DEF KeyMap
<1> QED BY <1>1, <1>5, <1>6, <1>8

LEMMA InsertedMap ==
    ASSUME entries \in Seq(Entries), KeysAscend, NEW e \in Entries, ~Present(e.key),
           NEW i, FirstAbove(e.key, i)
    PROVE  LET r == InsertAt(entries, i, e) IN
           /\ r \in Seq(Entries) /\ Len(r) = Len(entries) + 1
           /\ Ascends(r)
           /\ KeyMap(r) = [KeyMap(entries) EXCEPT ![e.key] = e.ctid]
<1> DEFINE s == entries
           n == Len(entries)
           r == InsertAt(entries, i, e)
<1>1. i \in 1 .. n + 1 /\ n \in Nat /\ e.key \in Keys /\ e.ctid \in Ctids /\ e.key \in Int
  <2>1. e.key \in Keys /\ e.ctid \in Ctids
    BY DEF Entries
  <2> QED BY <2>1, EntryFacts, IndexAssumption DEF FirstAbove
<1>2. /\ r \in Seq(Entries) /\ Len(r) = n + 1
      /\ \A j \in 1 .. i - 1 : r[j] = s[j]
      /\ r[i] = e
      /\ \A j \in i + 1 .. n + 1 : r[j] = s[j - 1]
  BY <1>1, InsertAtFacts, EntryFacts
<1>3. DOMAIN r = 1 .. n + 1 /\ DOMAIN s = 1 .. n
  BY <1>2
<1> HIDE DEF r, n
<1>4. \A j \in 1 .. n : s[j] \in Entries /\ s[j].key \in Int /\ s[j].key \in Keys
  BY EntryFacts DEF n
<1>5. \A j \in 1 .. n : \A m \in 1 .. j - 1 : s[m].key < s[j].key
  BY <1>3 DEF KeysAscend
<1>6. \A j \in 1 .. i - 1 : s[j].key < e.key
  <2>1. \A j \in 1 .. i - 1 : s[j].key <= e.key
    BY DEF FirstAbove
  <2>2. \A j \in 1 .. n : s[j].key # e.key
    BY <1>3 DEF Present, IsAt
  <2> QED BY <1>1, <1>4, <2>1, <2>2
<1>7. \A j \in i .. n : s[j].key > e.key
  <2>1. i <= n => s[i].key > e.key
    BY DEF FirstAbove, n
  <2> QED BY <1>1, <1>4, <1>5, <2>1
<1>8. Ascends(r)
  <2> SUFFICES ASSUME NEW j \in 1 .. n + 1, NEW m \in 1 .. j - 1
               PROVE  r[m].key < r[j].key
    BY <1>3 DEF Ascends
  <2>1. CASE j < i
    BY <2>1, <1>1, <1>2, <1>5
  <2>2. CASE j = i
    BY <2>2, <1>1, <1>2, <1>6
  <2>3. CASE j > i /\ m < i
    <3>1. r[j] = s[j - 1] /\ r[m] = s[m] /\ j - 1 \in 1 .. n /\ m \in 1 .. (j - 1) - 1
      BY <2>3, <1>1, <1>2
    <3> QED BY <3>1, <1>5
  <2>4. CASE j > i /\ m = i
    <3>1. r[j] = s[j - 1] /\ r[m] = e /\ j - 1 \in i .. n
      BY <2>4, <1>1, <1>2
    <3> QED BY <3>1, <1>1, <1>4, <1>7
  <2>5. CASE j > i /\ m > i
    <3>1. /\ r[j] = s[j - 1] /\ r[m] = s[m - 1]
          /\ j - 1 \in 1 .. n /\ m - 1 \in 1 .. (j - 1) - 1
      BY <2>5, <1>1, <1>2
    <3> QED BY <3>1, <1>5
  <2> QED BY <1>1, <2>1, <2>2, <2>3, <2>4, <2>5
<1>9. ASSUME NEW k \in Keys
      PROVE  KeyMap(r)[k] = IF k = e.key THEN e.ctid ELSE KeyMap(s)[k]
  <2>1. /\ \A j \in 1 .. n + 1 : KeyMap(r)[r[j].key] = r[j].ctid
        /\ \A j \in 1 .. n : KeyMap(s)[s[j].key] = s[j].ctid
        /\ KeyMap(r)[k] # NoCtid <=> Has(r, k)
        /\ KeyMap(s)[k] # NoCtid <=> Has(s, k)
    BY <1>2, <1>3, <1>8, KeyMapFacts, ContentsIsKeyMap
  <2>2. CASE k = e.key
    BY <2>1, <2>2, <1>1, <1>2
  <2>3. CASE k # e.key /\ Has(s, k)
    <3>1. PICK j \in 1 .. n : s[j].key = k
      BY <2>3, <1>3 DEF Has
    <3>2. \E m \in 1 .. n + 1 : r[m] = s[j]
      <4>1. CASE j < i
        BY <4>1, <1>1, <1>2
      <4>2. CASE j >= i
        <5>1. j + 1 \in i + 1 .. n + 1 /\ r[j + 1] = s[(j + 1) - 1] /\ (j + 1) - 1 = j
          BY <4>2, <1>1, <1>2
        <5> QED BY <5>1, <1>1
      <4> QED BY <4>1, <4>2, <1>1
    <3> QED BY <2>1, <2>3, <3>1, <3>2
  <2>4. CASE k # e.key /\ ~Has(s, k)
    <3>1. \A j \in 1 .. n + 1 : r[j].key # k
      <4> SUFFICES ASSUME NEW j \in 1 .. n + 1
                   PROVE  r[j].key # k
        OBVIOUS
      <4>1. j = i \/ (j < i /\ r[j] = s[j] /\ j \in 1 .. n)
                  \/ (j > i /\ r[j] = s[j - 1] /\ j - 1 \in 1 .. n)
        BY <1>1, <1>2
      <4> QED BY <4>1, <1>2, <1>3, <2>4 DEF Has
    <3> QED BY <2>1, <2>4, <3>1, <1>3 DEF Has
  <2> QED BY <2>2, <2>3, <2>4
<1>10. KeyMap(r) = [KeyMap(s) EXCEPT ![e.key] = e.ctid]
  <2>1. KeyMap(r) = [k \in Keys |-> KeyMap(r)[k]] /\ KeyMap(s) = [k \in Keys |-> KeyMap(s)[k]]
    BY DEF KeyMap
  <2> QED BY <1>9, <2>1
<1> QED BY <1>2, <1>8, <1>10 DEF r, n

LEMMA RemovedMap ==
    ASSUME entries \in Seq(Entries), KeysAscend, NEW i \in DOMAIN entries
    PROVE  LET r == RemoveAt(entries, i) IN
           /\ r \in Seq(Entries) /\ Len(r) = Len(entries) - 1
           /\ Ascends(r)
           /\ KeyMap(r) = [KeyMap(entries) EXCEPT ![entries[i].key] = NoCtid]
<1> DEFINE s == entries
           n == Len(entries)
           r == RemoveAt(entries, i)
<1>1. i \in 1 .. n /\ n \in Nat
  OBVIOUS
<1>2. /\ r \in Seq(Entries) /\ Len(r) = n - 1
      /\ \A j \in 1 .. i - 1 : r[j] = s[j]
      /\ \A j \in i .. n - 1 : r[j] = s[j + 1]
  BY <1>1, RemoveAtFacts
<1>3. DOMAIN r = 1 .. n - 1 /\ DOMAIN s = 1 .. n
  BY <1>2
<1> HIDE DEF r, n
<1>4. \A j \in 1 .. n : s[j] \in Entries /\ s[j].key \in Int /\ s[j].key \in Keys
  BY EntryFacts DEF n
<1>5. \A j \in 1 .. n : \A m \in 1 .. j - 1 : s[m].key < s[j].key
  BY <1>3 DEF KeysAscend
<1> DEFINE old(j) == IF j < i THEN j ELSE j + 1
<1>6. ASSUME NEW j \in 1 .. n - 1
      PROVE  old(j) \in 1 .. n /\ old(j) # i /\ r[j] = s[old(j)]
  <2>1. j \in 1 .. i - 1 \/ j \in i .. n - 1
    BY <1>1
  <2>2. CASE j \in 1 .. i - 1
    BY <2>2, <1>1, <1>2
  <2>3. CASE j \in i .. n - 1
    BY <2>3, <1>1, <1>2
  <2> QED BY <2>1, <2>2, <2>3
<1>7. \A j \in 1 .. n - 1 : \A m \in 1 .. j - 1 : m \in 1 .. n - 1 /\ old(m) \in 1 .. old(j) - 1
  BY <1>1
<1>8. Ascends(r)
  <2> SUFFICES ASSUME NEW j \in 1 .. n - 1, NEW m \in 1 .. j - 1
               PROVE  r[m].key < r[j].key
    BY <1>3 DEF Ascends
  <2> HIDE DEF old
  <2> QED BY <1>5, <1>6, <1>7
<1>9. ASSUME NEW k \in Keys
      PROVE  KeyMap(r)[k] = IF k = s[i].key THEN NoCtid ELSE KeyMap(s)[k]
  <2>1. /\ \A j \in 1 .. n - 1 : KeyMap(r)[r[j].key] = r[j].ctid
        /\ \A j \in 1 .. n : KeyMap(s)[s[j].key] = s[j].ctid
        /\ KeyMap(r)[k] # NoCtid <=> Has(r, k)
        /\ KeyMap(s)[k] # NoCtid <=> Has(s, k)
    BY <1>2, <1>3, <1>8, KeyMapFacts, ContentsIsKeyMap
  <2>2. \A j \in 1 .. n : j # i => s[j].key # s[i].key
    BY <1>1, <1>4, <1>5
  <2>3. CASE k = s[i].key
    <3>1. \A j \in 1 .. n - 1 : r[j].key # k
      <4> HIDE DEF old
      <4> QED BY <1>6, <2>2, <2>3
    <3> QED BY <2>1, <2>3, <3>1, <1>3 DEF Has
  <2>4. CASE k # s[i].key /\ Has(s, k)
    <3>1. PICK j \in 1 .. n : s[j].key = k
      BY <2>4, <1>3 DEF Has
    <3>2. \E m \in 1 .. n - 1 : r[m] = s[j]
      <4>1. CASE j < i
        <5>1. j \in 1 .. i - 1 /\ j \in 1 .. n - 1
          BY <4>1, <1>1
        <5> QED BY <5>1, <1>2
      <4>2. CASE j > i
        <5>1. j - 1 \in i .. n - 1 /\ r[j - 1] = s[(j - 1) + 1] /\ (j - 1) + 1 = j
          BY <4>2, <1>1, <1>2
        <5> QED BY <5>1, <1>1
      <4> QED BY <4>1, <4>2, <3>1, <2>4, <1>1
    <3> QED BY <2>1, <2>4, <3>1, <3>2
  <2>5. CASE k # s[i].key /\ ~Has(s, k)
    <3>1. \A j \in 1 .. n - 1 : r[j].key # k
      <4> HIDE DEF old
      <4> QED BY <1>6, <1>3, <2>5 DEF Has
    <3> QED BY <2>1, <2>5, <3>1, <1>3 DEF Has
  <2> QED BY <2>3, <2>4, <2>5
<1>10. KeyMap(r) = [KeyMap(s) EXCEPT ![s[i].key] = NoCtid]
  <2>1. KeyMap(r) = [k \in Keys |-> KeyMap(r)[k]] /\ KeyMap(s) = [k \in Keys |-> KeyMap(s)[k]]
    BY DEF KeyMap
  <2> QED BY <1>9, <2>1
<1> QED BY <1>2, <1>8, <1>10 DEF r, n

-----------------------------------------------------------------------------
(* Pins. *)

Weight(point) == IF point = "leaf" THEN 1 ELSE IF point = "scan" THEN 2 ELSE 0

LEMMA AtIsNat == \A point : At(point) \in Nat
<1> SUFFICES ASSUME NEW point
             PROVE  At(point) \in Nat
  OBVIOUS
<1>1. IsFiniteSet({t \in Threads : pc[t] = point})
  BY IndexAssumption, FS_Subset
<1> QED BY <1>1, FS_CardinalityType DEF At

LEMMA AtMoves ==
    ASSUME pc \in [Threads -> Points], NEW t \in Threads, NEW to,
           pc' = [pc EXCEPT ![t] = to], NEW point
    PROVE  At(point)' = At(point) + (IF to = point THEN 1 ELSE 0)
                                  - (IF pc[t] = point THEN 1 ELSE 0)
<1> DEFINE A == {u \in Threads : pc[u] = point}
           B == {u \in Threads : pc'[u] = point}
<1>1. IsFiniteSet(A) /\ At(point) = Cardinality(A) /\ At(point)' = Cardinality(B)
  BY IndexAssumption, FS_Subset DEF At
<1>2. Cardinality(A) \in Nat
  BY <1>1, FS_CardinalityType
<1>3. CASE to = point /\ pc[t] = point
  <2>1. A = B
    BY <1>3
  <2> HIDE DEF A, B
  <2> QED BY <1>1, <1>2, <1>3, <2>1
<1>4. CASE to = point /\ pc[t] # point
  <2>1. B = A \cup {t} /\ t \notin A
    BY <1>4
  <2>2. Cardinality(B) = Cardinality(A) + 1
    BY <1>1, <2>1, FS_AddElement
  <2> QED BY <1>1, <1>2, <1>4, <2>2
<1>5. CASE to # point /\ pc[t] = point
  <2>1. B = A \ {t} /\ t \in A
    BY <1>5
  <2>2. Cardinality(B) = Cardinality(A) - 1
    BY <1>1, <2>1, FS_RemoveElement
  <2> QED BY <1>1, <1>2, <1>5, <2>2
<1>6. CASE to # point /\ pc[t] # point
  <2>1. A = B
    BY <1>6
  <2> HIDE DEF A, B
  <2> QED BY <1>1, <1>2, <1>6, <2>1
<1> QED BY <1>3, <1>4, <1>5, <1>6

LEMMA PinsMove ==
    ASSUME TypeOK, NEW t \in Threads, NEW to, pc' = [pc EXCEPT ![t] = to], pins' \in Int
    PROVE  /\ LeftBehind \in Int /\ LeftBehind' \in Int
           /\ LeftBehind' = LeftBehind + (pins' - pins) + Weight(pc[t]) - Weight(to)
<1>1. pc \in [Threads -> Points] /\ pins \in Nat
  BY DEF TypeOK
<1>2. /\ At("leaf")' = At("leaf") + (IF to = "leaf" THEN 1 ELSE 0)
                                 - (IF pc[t] = "leaf" THEN 1 ELSE 0)
      /\ At("scan")' = At("scan") + (IF to = "scan" THEN 1 ELSE 0)
                                 - (IF pc[t] = "scan" THEN 1 ELSE 0)
  BY <1>1, AtMoves
<1>3. At("leaf") \in Nat /\ At("scan") \in Nat
  BY AtIsNat
<1>4. /\ LeftBehind = pins - At("leaf") - 2 * At("scan")
      /\ LeftBehind' = pins' - At("leaf")' - 2 * At("scan")'
  BY DEF LeftBehind
<1> QED BY <1>1, <1>2, <1>3, <1>4 DEF Weight

\* What a thread may do.
Moves(t) == Continue(t) \/ \E c \in Calls : Begin(t, c)

LEMMA NextMoves ==
    ASSUME [Next]_vars
    PROVE  (\E t \in Threads : Moves(t)) \/ UNCHANGED vars
BY DEF Next, Moves

\* A step of one thread leaves a pin only where RangeSearch and InsertOutOfBounds do.
LeaksOnPurpose(t) ==
    /\ LeftBehind' >= LeftBehind
    /\ LeftBehind' > LeftBehind =>
           /\ pc[t] # "idle" /\ pc'[t] = "idle"
           /\ call[t].op = "range_search" \/ answer'[t].outcome = "panic"

LEMMA MovesPins ==
    ASSUME IInv, NEW t \in Threads, Moves(t)
    PROVE  pins' \in Nat /\ LeaksOnPurpose(t)
<1>0. /\ TypeOK /\ pins \in Nat /\ t \in DOMAIN pc /\ t \in DOMAIN answer
      /\ LeftBehind >= 0 /\ CallsFit
  BY DEF IInv, TypeOK, UsersHavePins
<1> SUFFICES pins' \in Int /\ LeaksOnPurpose(t)
  <2>1. /\ IsFiniteSet({u \in Threads : pc'[u] = "leaf"})
        /\ IsFiniteSet({u \in Threads : pc'[u] = "scan"})
    BY IndexAssumption, FS_Subset
  <2>2. At("leaf")' \in Nat /\ At("scan")' \in Nat
    BY <2>1, FS_CardinalityType DEF At
  <2>3. At("leaf") \in Nat /\ At("scan") \in Nat
    BY AtIsNat
  <2>4. LeftBehind' = pins' - At("leaf")' - 2 * At("scan")' /\ LeftBehind \in Int
    BY <1>0, <2>3 DEF LeftBehind
  <2> QED BY <1>0, <2>2, <2>4 DEF LeaksOnPurpose
<1>1. ASSUME NEW to, pc' = [pc EXCEPT ![t] = to], pins' \in Int,
             pins' - pins + Weight(pc[t]) - Weight(to) = 0
      PROVE  LeftBehind' = LeftBehind /\ LeftBehind \in Int /\ pins' \in Int
  <2>1. /\ LeftBehind \in Int /\ LeftBehind' \in Int
        /\ LeftBehind' = LeftBehind + (pins' - pins) + Weight(pc[t]) - Weight(to)
    BY <1>0, <1>1, PinsMove
  <2>2. Weight(pc[t]) \in Int /\ Weight(to) \in Int
    BY DEF Weight
  <2> QED BY <1>0, <1>1, <2>1, <2>2
<1>2. ASSUME pins' \in Int /\ LeftBehind \in Int /\ LeftBehind' = LeftBehind
      PROVE  pins' \in Int /\ LeaksOnPurpose(t)
  BY <1>2 DEF LeaksOnPurpose
<1>3. CASE \E c \in Calls : Begin(t, c)
  <2>1. PICK c \in Calls : Begin(t, c)
    BY <1>3
  <2> DEFINE to == IF c.op = "insert" THEN "root" ELSE "find"
  <2>2. pc' = [pc EXCEPT ![t] = to] /\ pc[t] = "idle" /\ pins' = pins
    BY <2>1 DEF Begin
  <2>3. Weight(to) = 0 /\ Weight(pc[t]) = 0
    BY <2>2 DEF Weight
  <2>4. pins' \in Int /\ pins' - pins + Weight(pc[t]) - Weight(to) = 0
    BY <1>0, <2>2, <2>3
  <2> QED BY <1>0, <1>1, <1>2, <2>2, <2>4
<1>4. CASE CreateRoot(t) \/ CreateRootFails(t) \/ FindNothing(t) \/ FetchFails(t)
  <2>1. pc' = [pc EXCEPT ![t] = "idle"] /\ pc[t] \in {"root", "find"} /\ pins' = pins
    BY <1>4 DEF CreateRoot, CreateRootFails, FindNothing, FetchFails, Returns
  <2>2. pins' \in Int /\ pins' - pins + Weight(pc[t]) - Weight("idle") = 0
    BY <1>0, <2>1 DEF Weight
  <2>3. LeftBehind' = LeftBehind /\ LeftBehind \in Int
    BY <1>1, <2>1, <2>2, Zenon
  <2> QED BY <1>2, <2>2, <2>3
<1>5. CASE RootExists(t)
  <2>1. pc' = [pc EXCEPT ![t] = "find"] /\ pc[t] = "root" /\ pins' = pins
    BY <1>5 DEF RootExists, Goes
  <2>2. pins' \in Int /\ pins' - pins + Weight(pc[t]) - Weight("find") = 0
    BY <1>0, <2>1 DEF Weight
  <2>3. LeftBehind' = LeftBehind /\ LeftBehind \in Int
    BY <1>1, <2>1, <2>2, Zenon
  <2> QED BY <1>2, <2>2, <2>3
<1>6. CASE FindLeaf(t)
  <2>1. pc' = [pc EXCEPT ![t] = "leaf"] /\ pc[t] = "find" /\ pins' = pins + 1
    BY <1>6 DEF FindLeaf, Goes, Pin
  <2>2. pins' \in Int /\ pins' - pins + Weight(pc[t]) - Weight("leaf") = 0
    BY <1>0, <2>1 DEF Weight
  <2>3. LeftBehind' = LeftBehind /\ LeftBehind \in Int
    BY <1>1, <2>1, <2>2, Zenon
  <2> QED BY <1>2, <2>2, <2>3
<1>7. CASE RangeFetch(t)
  <2>1. pc' = [pc EXCEPT ![t] = "scan"] /\ pc[t] = "leaf" /\ pins' = pins + 1
    BY <1>7 DEF RangeFetch, Goes, Pin
  <2>2. pins' \in Int /\ pins' - pins + Weight(pc[t]) - Weight("scan") = 0
    BY <1>0, <2>1 DEF Weight
  <2>3. LeftBehind' = LeftBehind /\ LeftBehind \in Int
    BY <1>1, <2>1, <2>2, Zenon
  <2> QED BY <1>2, <2>2, <2>3
<1>8. CASE InsertDuplicate(t) \/ InsertEntry(t) \/ InsertNeedsSplit(t) \/ Search(t) \/ Delete(t)
  <2>1. pc' = [pc EXCEPT ![t] = "idle"] /\ pc[t] = "leaf" /\ pins' = pins - 1
    BY <1>8 DEF InsertDuplicate, InsertEntry, InsertNeedsSplit, Search, Delete, Returns, Unpin
  <2>2. pins' \in Int /\ pins' - pins + Weight(pc[t]) - Weight("idle") = 0
    BY <1>0, <2>1 DEF Weight
  <2>3. LeftBehind' = LeftBehind /\ LeftBehind \in Int
    BY <1>1, <2>1, <2>2, Zenon
  <2> QED BY <1>2, <2>2, <2>3
<1>9. CASE InsertOutOfBounds(t)
  <2>1. /\ pc' = [pc EXCEPT ![t] = "idle"] /\ pc[t] = "leaf" /\ pins' = pins
        /\ answer'[t].outcome = "panic"
    BY <1>0, <1>9 DEF InsertOutOfBounds, Returns
  <2>2. /\ LeftBehind \in Int
        /\ LeftBehind' = LeftBehind + (pins' - pins) + Weight(pc[t]) - Weight("idle")
    <3>1. pins' \in Int
      BY <1>0, <2>1
    <3> QED BY <1>0, <2>1, <3>1, PinsMove, Zenon
  <2>3. LeftBehind' = LeftBehind + 1 /\ pc'[t] = "idle" /\ pins' \in Int
    BY <1>0, <2>1, <2>2 DEF Weight
  <2> QED BY <2>1, <2>2, <2>3 DEF LeaksOnPurpose
<1>10. CASE RangeSearch(t)
  <2>1. pc' = [pc EXCEPT ![t] = "idle"] /\ pc[t] = "scan" /\ pins' = pins - 1
    BY <1>10 DEF RangeSearch, Returns, Unpin
  <2>2. /\ LeftBehind \in Int
        /\ LeftBehind' = LeftBehind + (pins' - pins) + Weight(pc[t]) - Weight("idle")
    <3>1. pins' \in Int
      BY <1>0, <2>1
    <3> QED BY <1>0, <2>1, <3>1, PinsMove, Zenon
  <2>3. call[t].op = "range_search"
    BY <1>0, <2>1 DEF CallsFit
  <2>4. LeftBehind' = LeftBehind + 1 /\ pc'[t] = "idle" /\ pins' \in Int
    BY <1>0, <2>1, <2>2 DEF Weight
  <2> QED BY <2>1, <2>2, <2>3, <2>4 DEF LeaksOnPurpose
<1> QED BY <1>3, <1>4, <1>5, <1>6, <1>7, <1>8, <1>9, <1>10 DEF Moves, Continue
-----------------------------------------------------------------------------
(* The invariant. *)

LEMMA MovesEntries ==
    ASSUME IInv, NEW t \in Threads, Moves(t)
    PROVE  entries' \in Seq(Entries) /\ Len(entries') <= Capacity /\ KeysAscend'
<1>1. /\ TypeOK /\ KeysAscend /\ call \in [Threads -> Calls \cup {Idle}]
      /\ entries \in Seq(Entries) /\ Len(entries) <= Capacity /\ Capacity \in Nat \ {0}
      /\ CallsFit
  BY IndexAssumption DEF IInv, TypeOK
<1>2. \A c \in Calls : c.op = "insert" => [key |-> c.key, ctid |-> c.ctid] \in Entries
  BY DEF Calls, Entries
<1>3. pc[t] # "idle" => call[t] \in Calls
  BY <1>1 DEF CallsFit
<1>4. KeysAscend' <=> Ascends(entries')
  BY DEF KeysAscend, Ascends
<1>5. CASE CreateRoot(t)
  <2> DEFINE e == [key |-> call[t].key, ctid |-> call[t].ctid]
  <2>1. pc[t] = "root" /\ entries' = <<e>>
    BY <1>5 DEF CreateRoot
  <2>2. e \in Entries
    BY <1>1, <1>2, <1>3, <2>1 DEF CallsFit
  <2> HIDE DEF e
  <2>3. <<e>> \in Seq(Entries) /\ Len(<<e>>) = 1 /\ DOMAIN <<e>> = 1 .. 1
    BY <2>2
  <2>4. Ascends(<<e>>)
    BY <2>3 DEF Ascends
  <2> QED BY <1>1, <1>4, <2>1, <2>3, <2>4
<1>6. CASE InsertEntry(t)
  <2> DEFINE e == [key |-> call[t].key, ctid |-> call[t].ctid]
  <2>1. /\ pc[t] = "leaf" /\ call[t].op = "insert" /\ e.key = call[t].key
        /\ ~Present(call[t].key) /\ Len(entries) < Capacity
    BY <1>6 DEF InsertEntry
  <2>2. PICK i : FirstAbove(call[t].key, i) /\ entries' = InsertAt(entries, i, e)
    BY <1>6 DEF InsertEntry
  <2>3. e \in Entries
    BY <1>2, <1>3, <2>1
  <2> HIDE DEF e
  <2>4. /\ entries' \in Seq(Entries) /\ Len(entries') = Len(entries) + 1
        /\ Ascends(entries')
    BY <1>1, <2>1, <2>2, <2>3, InsertedMap
  <2> QED BY <1>1, <1>4, <2>1, <2>4
<1>7. CASE Delete(t)
  <2>1. entries' = entries \/ \E i \in DOMAIN entries : entries' = RemoveAt(entries, i)
    BY <1>7 DEF Delete
  <2>2. CASE entries' = entries
    BY <1>1, <1>4, <2>2, ContentsIsKeyMap
  <2>3. CASE \E i \in DOMAIN entries : entries' = RemoveAt(entries, i)
    <3>1. PICK i \in DOMAIN entries : entries' = RemoveAt(entries, i)
      BY <2>3
    <3>2. /\ entries' \in Seq(Entries) /\ Len(entries') = Len(entries) - 1
          /\ Ascends(entries')
      BY <1>1, <3>1, RemovedMap
    <3> QED BY <1>1, <1>4, <3>2
  <2> QED BY <2>1, <2>2, <2>3
<1>8. CASE entries' = entries
  BY <1>1, <1>4, <1>8, ContentsIsKeyMap
<1> QED BY <1>5, <1>6, <1>7, <1>8
        DEF Moves, Continue, Begin, CreateRootFails, RootExists, FindNothing, FindLeaf,
            FetchFails, InsertDuplicate, InsertOutOfBounds, InsertNeedsSplit, Search,
            RangeFetch, RangeSearch

\* The values from one position up to another.
Slice(s, from, upto) == [i \in 1 .. upto - from |-> s[from + i - 1].ctid]

LEMMA SliceFacts ==
    ASSUME NEW s \in Seq(Entries), NEW from \in 1 .. Len(s) + 1, NEW upto \in 1 .. Len(s) + 1
    PROVE  /\ Slice(s, from, upto) \in Seq(Ctids)
           /\ DOMAIN Slice(s, from, upto) = 1 .. upto - from
           /\ Len(Slice(s, from, upto)) = IF from <= upto THEN upto - from ELSE 0
<1> DEFINE n == IF from <= upto THEN upto - from ELSE 0
<1>1. n \in Nat /\ 1 .. upto - from = 1 .. n
  BY EntryFacts
<1>2. \A i \in 1 .. n : from + i - 1 \in 1 .. Len(s)
  BY EntryFacts
<1>3. \A i \in 1 .. n : s[from + i - 1].ctid \in Ctids
  BY <1>2, EntryFacts
<1> HIDE DEF n
<1>4. Slice(s, from, upto) = [i \in 1 .. n |-> s[from + i - 1].ctid]
  BY <1>1 DEF Slice
<1> DEFINE r == [i \in 1 .. n |-> s[from + i - 1].ctid]
<1>5. r \in [1 .. n -> Ctids] /\ DOMAIN r = 1 .. n
  BY <1>3
<1> HIDE DEF r
<1>6. r \in Seq(Ctids) /\ DOMAIN r = 1 .. n
  BY <1>1, <1>5, SeqDef
<1>7. Len(r) = n
  BY <1>1, <1>6, LenProperties
<1> QED BY <1>1, <1>4, <1>6, <1>7 DEF n, r

\* A step takes the thread to this point, with a call that fits it and this answer.
AnswerSet == [outcome : Outcomes, ctids : Seq(Ctids)]
TakesTo(t, to, c, a) ==
    /\ pc' = [pc EXCEPT ![t] = to]
    /\ call' = [call EXCEPT ![t] = c]
    /\ answer' = [answer EXCEPT ![t] = a]
    /\ to = "idle" <=> c = Idle
    /\ to = "root" => c.op = "insert"
    /\ to = "scan" => c.op = "range_search"
    /\ to \in {"leaf", "scan"} => root'
    /\ to = "find" /\ c.op = "insert" => root'

LEMMA MovesThread ==
    ASSUME IInv, NEW t \in Threads, Moves(t)
    PROVE  \E to \in Points, c \in Calls \cup {Idle}, a \in AnswerSet : TakesTo(t, to, c, a)
<1>1. /\ pc \in [Threads -> Points] /\ call \in [Threads -> Calls \cup {Idle}]
      /\ answer \in [Threads -> AnswerSet] /\ entries \in Seq(Entries) /\ CallsFit
      /\ RootComesFirst
  BY DEF IInv, TypeOK, AnswerSet
<1>2. \A c \in Calls : c # Idle
  BY DEF Calls, Idle
<1>3. ASSUME NEW outcome \in Outcomes, NEW ctids \in Seq(Ctids), Returns(t, outcome, ctids)
      PROVE  \E to \in Points, c \in Calls \cup {Idle}, a \in AnswerSet : TakesTo(t, to, c, a)
  <2>1. TakesTo(t, "idle", Idle, [outcome |-> outcome, ctids |-> ctids])
    BY <1>3 DEF Returns, TakesTo
  <2>2. "idle" \in Points /\ [outcome |-> outcome, ctids |-> ctids] \in AnswerSet
    BY DEF Points, AnswerSet
  <2> QED BY <2>1, <2>2
<1>4. ASSUME NEW to \in {"find", "leaf", "scan"}, Goes(t, to), pc[t] # "idle", root',
             to = "scan" => call[t].op = "range_search"
      PROVE  \E p \in Points, c \in Calls \cup {Idle}, a \in AnswerSet : TakesTo(t, p, c, a)
  <2>1. call[t] \in Calls /\ call[t] # Idle
    BY <1>1, <1>2, <1>4 DEF CallsFit
  <2>2. TakesTo(t, to, call[t], answer[t])
    BY <1>1, <1>4, <2>1 DEF Goes, TakesTo
  <2>3. to \in Points /\ call[t] \in Calls \cup {Idle} /\ answer[t] \in AnswerSet
    BY <1>1, <2>1 DEF Points
  <2> QED BY <2>2, <2>3
<1>5. CASE \E c \in Calls : Begin(t, c)
  <2>1. PICK c \in Calls : Begin(t, c)
    BY <1>5
  <2> DEFINE to == IF c.op = "insert" THEN "root" ELSE "find"
  <2>2. TakesTo(t, to, c, NoAnswer)
    BY <1>2, <2>1 DEF Begin, TakesTo
  <2>3. to \in Points /\ c \in Calls \cup {Idle}
    BY DEF Points
  <2>4. NoAnswer \in AnswerSet
    BY DEF NoAnswer, Outcomes, AnswerSet
  <2> HIDE DEF to
  <2> QED BY <2>2, <2>3, <2>4
<1>6. CASE RootExists(t) \/ FindLeaf(t) \/ RangeFetch(t)
  <2>1. PICK to \in {"find", "leaf", "scan"} :
            /\ Goes(t, to) /\ pc[t] # "idle" /\ root' = root
            /\ to = "scan" => call[t].op = "range_search"
            /\ root \/ pc[t] = "leaf"
    BY <1>6 DEF RootExists, FindLeaf, RangeFetch, NoRoot
  <2>2. root'
    BY <1>1, <2>1 DEF RootComesFirst
  <2> QED BY <1>4, <2>1, <2>2
<1>7. CASE RangeSearch(t)
  <2>1. PICK from \in 1 .. Len(entries) + 1, upto \in 1 .. Len(entries) + 1 :
            Returns(t, "Ok", Slice(entries, from, upto))
    BY <1>7 DEF RangeSearch, Slice
  <2>2. Slice(entries, from, upto) \in Seq(Ctids) /\ "Ok" \in Outcomes
    BY <1>1, SliceFacts DEF Outcomes
  <2> QED BY <1>3, <2>1, <2>2
<1>8. CASE Search(t)
  <2>1. \/ \E i \in DOMAIN entries : Returns(t, "Ok", <<entries[i].ctid>>)
        \/ Returns(t, "KeyNotFound", <<>>)
    BY <1>8 DEF Search
  <2>2. \A i \in DOMAIN entries : entries[i].ctid \in Ctids
    BY <1>1, EntryFacts
  <2>3. \A i \in DOMAIN entries : <<entries[i].ctid>> \in Seq(Ctids)
    BY <2>2
  <2>4. <<>> \in Seq(Ctids) /\ {"Ok", "KeyNotFound"} \subseteq Outcomes
    BY DEF Outcomes
  <2> QED BY <1>3, <2>1, <2>3, <2>4
<1>9. CASE \/ CreateRoot(t) \/ CreateRootFails(t) \/ FindNothing(t) \/ FetchFails(t)
           \/ InsertDuplicate(t) \/ InsertEntry(t) \/ InsertOutOfBounds(t)
           \/ InsertNeedsSplit(t) \/ Delete(t)
  <2>1. \E outcome \in Outcomes : Returns(t, outcome, <<>>)
    BY <1>9 DEF CreateRoot, CreateRootFails, FindNothing, FetchFails, InsertDuplicate,
                InsertEntry, InsertOutOfBounds, InsertNeedsSplit, Delete, Outcomes
  <2>2. <<>> \in Seq(Ctids)
    OBVIOUS
  <2> QED BY <1>3, <2>1, <2>2
<1> QED BY <1>5, <1>6, <1>7, <1>8, <1>9 DEF Moves, Continue
LEMMA MovesRoot ==
    ASSUME IInv, NEW t \in Threads, Moves(t)
    PROVE  /\ root' \in BOOLEAN /\ maxKeys' = maxKeys
           /\ root => root'
           /\ ~root' => entries' = entries
<1>1. root \in BOOLEAN /\ RootComesFirst
  BY DEF IInv, TypeOK
<1> QED BY <1>1
        DEF Moves, Continue, Begin, CreateRoot, CreateRootFails, RootExists, FindNothing,
            FindLeaf, FetchFails, InsertDuplicate, InsertEntry, InsertOutOfBounds,
            InsertNeedsSplit, Search, Delete, RangeFetch, RangeSearch, RootComesFirst

LEMMA InitIInv == Init => IInv
<1> SUFFICES ASSUME Init
             PROVE  IInv
  OBVIOUS
<1>1. TypeOK
  <2>1. <<>> \in Seq(Entries) /\ Len(<<>>) = 0 /\ <<>> \in Seq(Ctids)
    OBVIOUS
  <2>2. NoAnswer \in AnswerSet /\ "idle" \in Points
    BY <2>1 DEF NoAnswer, AnswerSet, Outcomes, Points
  <2>3. /\ pc \in [Threads -> Points] /\ call \in [Threads -> Calls \cup {Idle}]
        /\ answer \in [Threads -> AnswerSet]
    BY <2>2 DEF Init
  <2>4. root \in BOOLEAN /\ maxKeys \in LeafSizes /\ pins \in Nat
    BY DEF Init
  <2>5. entries \in Seq(Entries) /\ Len(entries) <= Capacity
    BY <2>1, IndexAssumption DEF Init
  <2> QED BY <2>3, <2>4, <2>5 DEF TypeOK, AnswerSet
<1>2. KeysAscend
  BY DEF Init, KeysAscend
<1>3. CallsFit /\ RootComesFirst
  BY DEF Init, CallsFit, RootComesFirst
<1>4. UsersHavePins
  <2>1. {t \in Threads : pc[t] = "leaf"} = {} /\ {t \in Threads : pc[t] = "scan"} = {}
    BY DEF Init
  <2>2. At("leaf") = 0 /\ At("scan") = 0
    BY <2>1, FS_EmptySet DEF At
  <2> QED BY <2>2 DEF Init, UsersHavePins, LeftBehind
<1> QED BY <1>1, <1>2, <1>3, <1>4 DEF IInv

LEMMA MovesIInv ==
    ASSUME IInv, NEW t \in Threads, Moves(t)
    PROVE  IInv'
<1>1. /\ entries' \in Seq(Entries) /\ Len(entries') <= Capacity /\ KeysAscend'
      /\ pins' \in Nat /\ LeaksOnPurpose(t)
      /\ root' \in BOOLEAN /\ maxKeys' = maxKeys
      /\ root => root'
      /\ ~root' => entries' = entries
  BY MovesEntries, MovesPins, MovesRoot
<1>2. /\ maxKeys \in LeafSizes /\ pc \in [Threads -> Points]
      /\ call \in [Threads -> Calls \cup {Idle}] /\ answer \in [Threads -> AnswerSet]
      /\ CallsFit /\ RootComesFirst
  BY DEF IInv, TypeOK, AnswerSet
<1>3. PICK to \in Points, c \in Calls \cup {Idle}, a \in AnswerSet : TakesTo(t, to, c, a)
  BY MovesThread
<1>4. /\ pc' \in [Threads -> Points] /\ call' \in [Threads -> Calls \cup {Idle}]
      /\ answer' \in [Threads -> AnswerSet]
      /\ pc'[t] = to /\ call'[t] = c
      /\ \A u \in Threads : u # t => pc'[u] = pc[u] /\ call'[u] = call[u]
  BY <1>2, <1>3 DEF TakesTo
<1>5. TypeOK'
  <2>1. maxKeys' \in LeafSizes
    BY <1>1, <1>2
  <2> QED BY <1>1, <1>4, <2>1, Zenon DEF TypeOK, AnswerSet
<1>6. CallsFit'
  BY <1>2, <1>3, <1>4 DEF CallsFit, TakesTo
<1>7. RootComesFirst'
  <2> SUFFICES ASSUME ~root'
               PROVE  /\ entries' = <<>>
                      /\ \A u \in Threads :
                             /\ pc'[u] \notin {"leaf", "scan"}
                             /\ pc'[u] = "find" => call'[u].op # "insert"
    BY DEF RootComesFirst
  <2>1. ~root
    BY <1>1
  <2>3. entries' = <<>>
    BY <1>1, <1>2, <2>1, Zenon DEF RootComesFirst
  <2>2. to \notin {"leaf", "scan"} /\ (to = "find" => c.op # "insert")
    BY <1>3 DEF TakesTo
  <2> QED BY <1>2, <1>4, <2>1, <2>2, <2>3 DEF RootComesFirst
<1>8. UsersHavePins'
  <2>1. LeftBehind >= 0 /\ LeftBehind' >= LeftBehind
    BY <1>1 DEF IInv, UsersHavePins, LeaksOnPurpose
  <2>2. LeftBehind \in Int /\ LeftBehind' \in Int
    <3>1. /\ IsFiniteSet({u \in Threads : pc'[u] = "leaf"})
          /\ IsFiniteSet({u \in Threads : pc'[u] = "scan"})
      BY IndexAssumption, FS_Subset
    <3>2. At("leaf")' \in Nat /\ At("scan")' \in Nat /\ At("leaf") \in Nat /\ At("scan") \in Nat
      BY <3>1, FS_CardinalityType, AtIsNat DEF At
    <3> QED BY <1>1, <3>2 DEF IInv, TypeOK, LeftBehind
  <2> QED BY <2>1, <2>2 DEF UsersHavePins
<1> QED BY <1>1, <1>5, <1>6, <1>7, <1>8 DEF IInv

LEMMA NextIInv == IInv /\ [Next]_vars => IInv'
<1> SUFFICES ASSUME IInv, [Next]_vars
             PROVE  IInv'
  OBVIOUS
<1>1. CASE \E t \in Threads : Moves(t)
  BY <1>1, MovesIInv
<1>2. CASE UNCHANGED vars
  <2>1. UNCHANGED <<root, maxKeys, entries, pins, pc, call, answer>>
    BY <1>2 DEF vars
  <2> QED BY <2>1 DEF IInv, TypeOK, KeysAscend, CallsFit, RootComesFirst, UsersHavePins,
                      LeftBehind, At
<1> QED BY <1>1, <1>2, NextMoves

\* The invariant, for every choice of the constants.
THEOREM BTreeInvariance == Spec => []IInv
BY InitIInv, NextIInv, PTL DEF Spec

\* The tree's state and every answer have their types: the leaf never holds more
\* than the arrays of insert_into_leaf, tree.rs, have room for.
THEOREM BTreeTypes == Spec => []TypeOK
<1>1. IInv => TypeOK
  BY DEF IInv
<1> QED BY <1>1, BTreeInvariance, PTL

\* However the calls of insert and delete interleave, the keys of the leaf ascend
\* strictly: the inserts' test for a duplicate is under the latch of the insertion.
THEOREM KeysStayInOrder == Spec => []KeysAscend
<1>1. IInv => KeysAscend
  BY DEF IInv
<1> QED BY <1>1, BTreeInvariance, PTL

\* Of the returns of insert, search, delete and range_search, only those of
\* range_search and of a panic leave the leaf pinned.
THEOREM PinsLeakOnPurpose == Spec => OnlyRangesAndPanicsLeakPins
<1> DEFINE Leak == /\ LeftBehind' >= LeftBehind
                   /\ LeftBehind' > LeftBehind =>
                          \E t \in Threads :
                              /\ pc[t] # "idle" /\ pc'[t] = "idle"
                              /\ call[t].op = "range_search" \/ answer'[t].outcome = "panic"
<1>1. IInv /\ [Next]_vars => [Leak]_vars
  BY NextMoves, MovesPins DEF LeaksOnPurpose
<1> QED BY <1>1, BTreeInvariance, PTL DEF Spec, OnlyRangesAndPanicsLeakPins
-----------------------------------------------------------------------------
(* The tree implements Index, whose map is Contents. *)

LEMMA ContentsFacts ==
    ASSUME IInv
    PROVE  /\ Contents \in [Keys -> Ctids \cup {NoCtid}]
           /\ \A i \in DOMAIN entries :
                  entries[i].key \in Keys /\ Contents[entries[i].key] = entries[i].ctid
           /\ \A k \in Keys : Contents[k] # NoCtid <=> Present(k)
<1>1. entries \in Seq(Entries) /\ KeysAscend
  BY DEF IInv, TypeOK
<1>2. /\ KeyMap(entries) \in [Keys -> Ctids \cup {NoCtid}]
      /\ \A i \in DOMAIN entries :
             entries[i].key \in Keys /\ KeyMap(entries)[entries[i].key] = entries[i].ctid
      /\ \A k \in Keys : KeyMap(entries)[k] # NoCtid <=> Has(entries, k)
  BY <1>1, KeyMapFacts, ContentsIsKeyMap
<1>3. \A k \in Keys : Has(entries, k) <=> Present(k)
  BY DEF Has, Present, IsAt
<1> QED BY <1>2, <1>3, ContentsIsKeyMap

LEMMA NextContents ==
    /\ Contents' = KeyMap(entries')
    /\ entries' = entries => Contents' = Contents
<1>1. Contents' = KeyMap(entries')
  BY DEF Contents, KeyMap, Present, IsAt, Has
<1> QED BY <1>1, ContentsIsKeyMap

\* A call in progress has arguments of its own kind.
LEMMA CallFacts ==
    ASSUME IInv, NEW t \in Threads
    PROVE  /\ pc[t] = "idle" => call[t] = Idle
           /\ pc[t] # "idle" =>
                  /\ call[t] # Idle /\ call[t] \in Calls
                  /\ call[t].op \in {"insert", "search", "delete", "range_search"}
                  /\ call[t].key \in Keys
                  /\ call[t].op = "insert" => call[t].ctid \in Ctids
                  /\ call[t].op = "range_search" => call[t].end \in Keys
<1>1. call[t] \in Calls \cup {Idle} /\ CallsFit
  BY DEF IInv, TypeOK
<1>2. \A c \in Calls : /\ c.op \in {"insert", "search", "delete", "range_search"}
                       /\ c.key \in Keys
                       /\ c.op = "insert" => c.ctid \in Ctids
                       /\ c.op = "range_search" => c.end \in Keys
  BY DEF Calls
<1> QED BY <1>1, <1>2 DEF CallsFit

LEMMA ReturnsAnswers ==
    ASSUME NEW t, NEW outcome, NEW ctids, Returns(t, outcome, ctids)
    PROVE  Map!Answers(t, outcome, ctids)
BY DEF Returns, Map!Answers, Idle, Map!Idle

LEMMA RangeLists ==
    ASSUME IInv, NEW lo \in Keys, NEW hi \in Keys, NEW from, NEW upto,
           FirstAbove(lo - 1, from), FirstAbove(hi, upto)
    PROVE  Map!Lists(Slice(entries, from, upto), lo, hi)
<1> DEFINE n == Len(entries)
           s == Slice(entries, from, upto)
           ks == [i \in 1 .. Len(s) |-> entries[from + i - 1].key]
<1>1. /\ entries \in Seq(Entries) /\ KeysAscend /\ n \in Nat /\ DOMAIN entries = 1 .. n
      /\ \A i \in 1 .. n : entries[i].key \in Keys /\ entries[i].key \in Int
      /\ lo \in Int /\ hi \in Int
  <2>1. entries \in Seq(Entries) /\ KeysAscend
    BY DEF IInv, TypeOK
  <2> QED BY <2>1, EntryFacts, IndexAssumption
<1>2. from \in 1 .. n + 1 /\ upto \in 1 .. n + 1
  BY DEF FirstAbove
<1>3. /\ Len(s) = IF from <= upto THEN upto - from ELSE 0
      /\ \A i \in 1 .. Len(s) : s[i] = entries[from + i - 1].ctid
  <2>1. /\ DOMAIN s = 1 .. upto - from
        /\ Len(s) = IF from <= upto THEN upto - from ELSE 0
    BY <1>1, <1>2, SliceFacts
  <2>2. \A i \in 1 .. upto - from : s[i] = entries[from + i - 1].ctid
    BY DEF Slice
  <2> QED BY <1>2, <2>1, <2>2
<1>4. \A j \in 1 .. n : j < from <=> entries[j].key < lo
  <2>1. /\ \A j \in 1 .. from - 1 : entries[j].key <= lo - 1
        /\ from <= n => entries[from].key > lo - 1
    BY DEF FirstAbove
  <2>2. \A j \in 1 .. n : \A m \in 1 .. j - 1 : entries[m].key < entries[j].key
    BY <1>1 DEF KeysAscend
  <2> SUFFICES ASSUME NEW j \in 1 .. n
               PROVE  j < from <=> entries[j].key < lo
    OBVIOUS
  <2>3. CASE j < from
    BY <2>1, <2>3, <1>1, <1>2
  <2>4. CASE j = from
    BY <2>1, <2>4, <1>1, <1>2
  <2>5. CASE j > from
    <3>1. from \in 1 .. j - 1 /\ from <= n
      BY <2>5, <1>1, <1>2
    <3>2. entries[from].key < entries[j].key
      BY <2>2, <3>1
    <3>3. from \in 1 .. n
      BY <3>1, <1>2
    <3> QED BY <2>1, <2>5, <3>1, <3>2, <3>3, <1>1
  <2> QED BY <2>3, <2>4, <2>5, <1>1, <1>2
<1>5. \A j \in 1 .. n : j < upto <=> entries[j].key <= hi
  <2>1. /\ \A j \in 1 .. upto - 1 : entries[j].key <= hi
        /\ upto <= n => entries[upto].key > hi
    BY DEF FirstAbove
  <2>2. \A j \in 1 .. n : \A m \in 1 .. j - 1 : entries[m].key < entries[j].key
    BY <1>1 DEF KeysAscend
  <2> SUFFICES ASSUME NEW j \in 1 .. n
               PROVE  j < upto <=> entries[j].key <= hi
    OBVIOUS
  <2>3. CASE j < upto
    BY <2>1, <2>3, <1>1, <1>2
  <2>4. CASE j = upto
    BY <2>1, <2>4, <1>1, <1>2
  <2>5. CASE j > upto
    <3>1. upto \in 1 .. j - 1 /\ upto <= n
      BY <2>5, <1>1, <1>2
    <3>2. entries[upto].key < entries[j].key
      BY <2>2, <3>1
    <3>3. upto \in 1 .. n
      BY <3>1, <1>2
    <3> QED BY <2>1, <2>5, <3>1, <3>2, <3>3, <1>1
  <2> QED BY <2>3, <2>4, <2>5, <1>1, <1>2
<1> HIDE DEF s, n
<1>6. \A i \in 1 .. Len(s) : from + i - 1 \in 1 .. n /\ from + i - 1 >= from /\ from + i - 1 < upto
  BY <1>1, <1>2, <1>3
<1>7. ks \in [1 .. Len(s) -> Keys] /\ DOMAIN ks = 1 .. Len(s)
  BY <1>1, <1>6
<1>8. ASSUME NEW i \in 1 .. Len(s), NEW j \in 1 .. i - 1
      PROVE  ks[j] < ks[i]
  <2>1. /\ j \in 1 .. Len(s) /\ from + i - 1 \in 1 .. n
        /\ from + j - 1 \in 1 .. (from + i - 1) - 1
    <3>1. Len(s) \in Nat /\ from \in Int /\ from > 0
      BY <1>1, <1>2, <1>3
    <3> QED BY <1>6, <3>1
  <2>2. entries[from + j - 1].key < entries[from + i - 1].key
    BY <1>1, <2>1 DEF KeysAscend
  <2> QED BY <2>1, <2>2
<1>9. ASSUME NEW i \in 1 .. Len(s)
      PROVE  ks[i] \in lo .. hi /\ s[i] = Contents[ks[i]]
  <2>1. from + i - 1 \in 1 .. n /\ from + i - 1 >= from /\ from + i - 1 < upto
    BY <1>6
  <2>2. ks[i] = entries[from + i - 1].key
    OBVIOUS
  <2>3. ~(entries[from + i - 1].key < lo) /\ entries[from + i - 1].key <= hi
    BY <1>2, <1>4, <1>5, <2>1
  <2>4. Contents[entries[from + i - 1].key] = entries[from + i - 1].ctid
    BY <1>1, <2>1, ContentsFacts
  <2> QED BY <1>1, <1>3, <2>1, <2>2, <2>3, <2>4
<1>10. ASSUME NEW k \in Keys, k \in lo .. hi, Contents[k] # NoCtid
       PROVE  \E i \in 1 .. Len(s) : ks[i] = k
  <2>1. Present(k)
    BY <1>10, ContentsFacts
  <2>2. PICK j \in 1 .. n : entries[j].key = k
    BY <1>1, <2>1 DEF Present, IsAt
  <2>3. ~(entries[j].key < lo) /\ entries[j].key <= hi
    BY <1>1, <1>10, <2>2
  <2>4. from <= j /\ j < upto
    BY <1>2, <1>4, <1>5, <2>3
  <2>5. j - from + 1 \in 1 .. Len(s) /\ from + (j - from + 1) - 1 = j
    BY <1>2, <1>3, <2>4
  <2>6. ks[j - from + 1] = entries[j].key
    BY <2>5
  <2> QED BY <2>2, <2>5, <2>6
<1> HIDE DEF ks
<1> QED BY <1>7, <1>8, <1>9, <1>10 DEF Map!Lists, s
\* One step of a thread is one step of its call in Index, or none.
Simulates == Map!Next \/ UNCHANGED <<Contents, call, answer>>

LEMMA ChangesNothing ==
    ASSUME IInv, NEW t \in Threads, pc[t] # "idle", entries' = entries,
           NEW outcome \in {"error", "panic"}, Returns(t, outcome, <<>>)
    PROVE  Map!Next
<1>1. call[t] # Map!Idle
  BY CallFacts DEF Idle, Map!Idle
<1>2. Contents' = Contents /\ Map!Answers(t, outcome, <<>>)
  BY NextContents, ReturnsAnswers
<1>3. Map!Fails(t)
  BY <1>1, <1>2 DEF Map!Fails
<1> QED BY <1>3 DEF Map!Next

LEMMA MissSimulated ==
    ASSUME IInv, NEW t \in Threads, pc[t] # "idle", ~Present(call[t].key), entries' = entries,
           call[t].op \in {"search", "delete"}, Returns(t, "KeyNotFound", <<>>)
    PROVE  Map!Next
<1>1. Contents[call[t].key] = NoCtid
  BY ContentsFacts, CallFacts
<1>2. Contents' = Contents /\ Map!Answers(t, "KeyNotFound", <<>>)
  BY NextContents, ReturnsAnswers
<1>3. Map!Search(t) \/ Map!Delete(t)
  BY <1>1, <1>2 DEF Map!Search, Map!Delete
<1> QED BY <1>3 DEF Map!Next

LEMMA RangeSimulated ==
    ASSUME IInv, NEW t \in Threads, pc[t] # "idle", call[t].op = "range_search",
           entries' = entries, NEW ctids \in Seq(Ctids),
           Map!Lists(ctids, call[t].key, call[t].end), Returns(t, "Ok", ctids)
    PROVE  Map!Next
<1>1. answer'[t].ctids = ctids
  BY DEF Returns, IInv, TypeOK
<1>2. Contents' = Contents /\ Map!Answers(t, "Ok", ctids)
  BY NextContents, ReturnsAnswers
<1>3. Map!RangeSearch(t)
  BY <1>1, <1>2 DEF Map!RangeSearch
<1> QED BY <1>3 DEF Map!Next

LEMMA BeginSimulated ==
    ASSUME IInv, NEW t \in Threads, NEW c \in Calls, Begin(t, c)
    PROVE  Map!Next
<1>1. call[t] = Map!Idle /\ c \in Map!Calls
  BY CallFacts DEF Begin, Idle, Map!Idle, Calls, Map!Calls
<1>2. Contents' = Contents
  BY NextContents DEF Begin
<1>3. Map!Begin(t, c)
  BY <1>1, <1>2 DEF Begin, Map!Begin, NoAnswer, Map!NoAnswer
<1> QED BY <1>1, <1>3 DEF Map!Next

\* An insert that adds its entry, whether or not there was a leaf.
LEMMA InsertSimulated ==
    ASSUME IInv, NEW t \in Threads, pc[t] # "idle", call[t].op = "insert",
           ~Present(call[t].key), Returns(t, "Ok", <<>>),
           Contents' = [Contents EXCEPT ![call[t].key] = call[t].ctid]
    PROVE  Map!Next
<1>1. Contents[call[t].key] = NoCtid
  BY ContentsFacts, CallFacts
<1>2. Map!Answers(t, "Ok", <<>>)
  BY ReturnsAnswers
<1>3. Map!Insert(t)
  BY <1>1, <1>2 DEF Map!Insert
<1> QED BY <1>3 DEF Map!Next

LEMMA CreateRootSimulated ==
    ASSUME IInv, NEW t \in Threads, CreateRoot(t)
    PROVE  Map!Next
<1> DEFINE e == [key |-> call[t].key, ctid |-> call[t].ctid]
           s == <<e>>
<1>1. /\ pc[t] = "root" /\ entries' = s /\ ~root /\ Returns(t, "Ok", <<>>)
      /\ call[t].op = "insert" /\ call[t].key \in Keys /\ call[t].ctid \in Ctids
  BY CallFacts DEF CreateRoot, NoRoot, IInv, CallsFit
<1>2. entries = <<>>
  BY <1>1 DEF IInv, RootComesFirst
<1>3. ~Present(call[t].key) /\ Contents = [k \in Keys |-> NoCtid]
  BY <1>2 DEF Contents, Present, IsAt
<1>4. e \in Entries /\ e.key = call[t].key /\ e.ctid = call[t].ctid
  BY <1>1 DEF Entries
<1> HIDE DEF e
<1>5. s \in Seq(Entries) /\ DOMAIN s = 1 .. 1 /\ s[1] = e
  BY <1>4
<1> HIDE DEF s
<1>6. Ascends(s)
  BY <1>5 DEF Ascends
<1>7. /\ KeyMap(s)[e.key] = e.ctid
      /\ \A k \in Keys : KeyMap(s)[k] # NoCtid <=> k = e.key
  BY <1>5, <1>6, KeyMapFacts DEF Has
<1>8. KeyMap(s) = [k \in Keys |-> IF k = e.key THEN e.ctid ELSE NoCtid]
  <2>1. KeyMap(s) = [k \in Keys |-> KeyMap(s)[k]]
    BY DEF KeyMap
  <2> QED BY <1>7, <2>1
<1>9. Contents' = [Contents EXCEPT ![call[t].key] = call[t].ctid]
  BY <1>1, <1>3, <1>4, <1>8, NextContents
<1> QED BY <1>1, <1>3, <1>9, InsertSimulated

LEMMA InsertEntrySimulated ==
    ASSUME IInv, NEW t \in Threads, InsertEntry(t)
    PROVE  Map!Next
<1> DEFINE e == [key |-> call[t].key, ctid |-> call[t].ctid]
<1>1. /\ pc[t] = "leaf" /\ call[t].op = "insert" /\ ~Present(call[t].key)
      /\ Returns(t, "Ok", <<>>)
      /\ e.key = call[t].key /\ e.ctid = call[t].ctid
  BY DEF InsertEntry
<1>2. PICK i : FirstAbove(call[t].key, i) /\ entries' = InsertAt(entries, i, e)
  BY DEF InsertEntry
<1>3. e \in Entries
  BY <1>1, CallFacts DEF Entries
<1> HIDE DEF e
<1>4. KeyMap(entries') = [KeyMap(entries) EXCEPT ![e.key] = e.ctid]
  BY <1>1, <1>2, <1>3, InsertedMap DEF IInv, TypeOK
<1>5. Contents' = [Contents EXCEPT ![call[t].key] = call[t].ctid]
  BY <1>1, <1>4, NextContents, ContentsIsKeyMap
<1> QED BY <1>1, <1>5, InsertSimulated

LEMMA InsertDuplicateSimulated ==
    ASSUME IInv, NEW t \in Threads, InsertDuplicate(t)
    PROVE  Map!Next
<1>1. /\ pc[t] = "leaf" /\ call[t].op = "insert" /\ Present(call[t].key)
      /\ Returns(t, "DuplicateKey", <<>>) /\ entries' = entries
  BY DEF InsertDuplicate
<1>2. Contents[call[t].key] # NoCtid
  BY <1>1, ContentsFacts, CallFacts
<1>3. Contents' = Contents /\ Map!Answers(t, "DuplicateKey", <<>>)
  BY <1>1, NextContents, ReturnsAnswers
<1>4. Map!Insert(t)
  BY <1>1, <1>2, <1>3 DEF Map!Insert
<1> QED BY <1>4 DEF Map!Next

LEMMA SearchSimulated ==
    ASSUME IInv, NEW t \in Threads, Search(t)
    PROVE  Map!Next
<1>1. pc[t] = "leaf" /\ call[t].op = "search" /\ entries' = entries
  BY DEF Search
<1>2. CASE ~Present(call[t].key) /\ Returns(t, "KeyNotFound", <<>>)
  BY <1>1, <1>2, MissSimulated
<1>3. CASE \E i \in DOMAIN entries :
              IsAt(call[t].key, i) /\ Returns(t, "Ok", <<entries[i].ctid>>)
  <2>1. PICK i \in DOMAIN entries :
            IsAt(call[t].key, i) /\ Returns(t, "Ok", <<entries[i].ctid>>)
    BY <1>3
  <2>2. /\ Contents[call[t].key] = entries[i].ctid
        /\ Contents[call[t].key] # NoCtid
    BY <1>1, <2>1, ContentsFacts, CallFacts DEF IsAt, Present
  <2>3. Contents' = Contents /\ Map!Answers(t, "Ok", <<Contents[call[t].key]>>)
    BY <1>1, <2>1, <2>2, NextContents, ReturnsAnswers
  <2>4. Map!Search(t)
    BY <1>1, <2>2, <2>3 DEF Map!Search
  <2> QED BY <2>4 DEF Map!Next
<1> QED BY <1>2, <1>3 DEF Search

LEMMA DeleteSimulated ==
    ASSUME IInv, NEW t \in Threads, Delete(t)
    PROVE  Map!Next
<1>1. pc[t] = "leaf" /\ call[t].op = "delete"
  BY DEF Delete
<1>2. CASE ~Present(call[t].key) /\ Returns(t, "KeyNotFound", <<>>) /\ entries' = entries
  BY <1>1, <1>2, MissSimulated
<1>3. CASE \E i \in DOMAIN entries :
              /\ IsAt(call[t].key, i) /\ entries' = RemoveAt(entries, i)
              /\ Returns(t, "Ok", <<>>)
  <2>1. PICK i \in DOMAIN entries :
            /\ IsAt(call[t].key, i) /\ entries' = RemoveAt(entries, i)
            /\ Returns(t, "Ok", <<>>)
    BY <1>3
  <2>2. Contents[call[t].key] # NoCtid /\ entries[i].key = call[t].key
    BY <1>1, <2>1, ContentsFacts, CallFacts DEF IsAt, Present
  <2>3. KeyMap(entries') = [KeyMap(entries) EXCEPT ![entries[i].key] = NoCtid]
    BY <2>1, RemovedMap DEF IInv, TypeOK
  <2>4. Contents' = [Contents EXCEPT ![call[t].key] = NoCtid]
    BY <2>2, <2>3, NextContents, ContentsIsKeyMap
  <2>5. Map!Answers(t, "Ok", <<>>)
    BY <2>1, ReturnsAnswers
  <2>6. Map!Delete(t)
    BY <1>1, <2>2, <2>4, <2>5 DEF Map!Delete
  <2> QED BY <2>6 DEF Map!Next
<1> QED BY <1>2, <1>3 DEF Delete

LEMMA RangeSearchSimulated ==
    ASSUME IInv, NEW t \in Threads, RangeSearch(t)
    PROVE  Map!Next
<1>1. pc[t] = "scan" /\ call[t].op = "range_search" /\ entries' = entries
  BY DEF RangeSearch, IInv, CallsFit
<1>2. PICK from \in 1 .. Len(entries) + 1, upto \in 1 .. Len(entries) + 1 :
          /\ FirstAbove(call[t].key - 1, from)
          /\ FirstAbove(call[t].end, upto)
          /\ Returns(t, "Ok", Slice(entries, from, upto))
  BY DEF RangeSearch, Slice
<1>3. call[t].key \in Keys /\ call[t].end \in Keys
  BY <1>1, CallFacts
<1>4. Map!Lists(Slice(entries, from, upto), call[t].key, call[t].end)
  BY <1>2, <1>3, RangeLists
<1>5. Slice(entries, from, upto) \in Seq(Ctids)
  BY <1>2, SliceFacts DEF IInv, TypeOK
<1> QED BY <1>1, <1>2, <1>4, <1>5, RangeSimulated

LEMMA FindNothingSimulated ==
    ASSUME IInv, NEW t \in Threads, FindNothing(t)
    PROVE  Map!Next
<1>1. /\ pc[t] = "find" /\ entries' = entries /\ ~root
      /\ Returns(t, IF call[t].op = "range_search" THEN "Ok" ELSE "KeyNotFound", <<>>)
  BY DEF FindNothing
<1>2. entries = <<>> /\ call[t].op \in {"search", "delete", "range_search"}
  BY <1>1, CallFacts DEF IInv, RootComesFirst
<1>3. ~Present(call[t].key) /\ \A k \in Keys : Contents[k] = NoCtid
  BY <1>2 DEF Contents, Present
<1>4. CASE call[t].op = "range_search"
  <2>1. <<>> \in Seq(Ctids) /\ Len(<<>>) = 0 /\ DOMAIN <<>> = {}
        /\ <<>> \in [1 .. 0 -> Keys]
    OBVIOUS
  <2>2. Map!Lists(<<>>, call[t].key, call[t].end)
    BY <1>3, <2>1 DEF Map!Lists
  <2> QED BY <1>1, <1>4, <2>1, <2>2, RangeSimulated
<1>5. CASE call[t].op \in {"search", "delete"}
  BY <1>1, <1>3, <1>5, MissSimulated
<1> QED BY <1>2, <1>4, <1>5

LEMMA MovesSimulated ==
    ASSUME IInv, NEW t \in Threads, Moves(t)
    PROVE  Simulates
<1>1. CASE \E c \in Calls : Begin(t, c)
  BY <1>1, BeginSimulated DEF Simulates
<1>2. CASE RootExists(t) \/ FindLeaf(t) \/ RangeFetch(t)
  BY <1>2, NextContents DEF RootExists, FindLeaf, RangeFetch, Goes, Simulates
<1>3. CASE CreateRootFails(t) \/ FetchFails(t) \/ InsertOutOfBounds(t) \/ InsertNeedsSplit(t)
  <2>1. \E outcome \in {"error", "panic"} : Returns(t, outcome, <<>>)
    BY <1>3 DEF CreateRootFails, FetchFails, InsertOutOfBounds, InsertNeedsSplit
  <2>2. pc[t] # "idle" /\ entries' = entries
    BY <1>3 DEF CreateRootFails, FetchFails, InsertOutOfBounds, InsertNeedsSplit
  <2> QED BY <2>1, <2>2, ChangesNothing DEF Simulates
<1> QED BY <1>1, <1>2, <1>3, CreateRootSimulated, InsertEntrySimulated,
           InsertDuplicateSimulated, SearchSimulated, DeleteSimulated, RangeSearchSimulated,
           FindNothingSimulated DEF Moves, Continue, Simulates

\* Whatever the threads do, every call of the tree takes effect at one moment on
\* one map from keys to CTIDs and answers with what that map says then.
THEOREM BTreeIsAnIndex == Spec => ImplementsIndex
<1>1. Init => Map!Init
  <2> SUFFICES ASSUME Init
               PROVE  Map!Init
    OBVIOUS
  <2>1. Contents = [k \in Keys |-> NoCtid]
    BY DEF Init, Contents, Present, IsAt
  <2> QED BY <2>1 DEF Init, Map!Init, Idle, Map!Idle, NoAnswer, Map!NoAnswer
<1>2. IInv /\ [Next]_vars => [Map!Next]_(Map!indexVars)
  <2> SUFFICES ASSUME IInv, [Next]_vars
               PROVE  [Map!Next]_(Map!indexVars)
    OBVIOUS
  <2>1. CASE \E t \in Threads : Moves(t)
    BY <2>1, MovesSimulated DEF Simulates, Map!indexVars
  <2>2. CASE UNCHANGED vars
    BY <2>2, NextContents DEF vars, Map!indexVars
  <2> QED BY <2>1, <2>2, NextMoves
<1> QED BY <1>1, <1>2, BTreeInvariance, PTL DEF Spec, ImplementsIndex, Map!Spec
=============================================================================
