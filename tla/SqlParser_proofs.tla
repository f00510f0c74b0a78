-------------------------- MODULE SqlParser_proofs ---------------------------
(***************************************************************************)
(* What holds of the parser for any names and statements of any length: it *)
(* takes the statements of the grammar and no others, for what they say.   *)
(***************************************************************************)
EXTENDS SqlParser, SequenceTheorems, WellFoundedInduction, TLAPS

-----------------------------------------------------------------------------
(* Numbers *)

Below == {p \in Nat \X Nat : p[1] < p[2]}

\* Every set of numbers has a least one.
LEMMA LeastNumber ==
    ASSUME NEW T \in SUBSET Nat, T # {}
    PROVE  \E x \in T : \A y \in T : x <= y
<1>1. IsWellFoundedOn(Below, Nat)
  BY NatLessThanWellFounded DEF OpToRel, Below
<1>2. PICK x \in T : \A y \in T : <<y, x>> \notin Below
  BY <1>1, WFMin
<1>3. \A y \in T : ~(y < x)
  BY <1>2 DEF Below
<1> QED BY <1>2, <1>3

\* Induction, over a set of numbers.
LEMMA AllNumbers ==
    ASSUME NEW G \in SUBSET Nat, 0 \in G, \A n \in G : n + 1 \in G
    PROVE  G = Nat
<1> SUFFICES ASSUME Nat \ G # {}
             PROVE  FALSE
  OBVIOUS
<1>1. PICK n \in Nat \ G : \A m \in Nat \ G : n <= m
  BY LeastNumber
<1>2. n # 0
  BY <1>1
<1>3. n - 1 \in Nat /\ ~(n <= n - 1) /\ n = (n - 1) + 1
  BY <1>2
<1>4. n - 1 \in G
  BY <1>1, <1>3
<1> QED BY <1>1, <1>3, <1>4

-----------------------------------------------------------------------------
(* Tokens and lists *)

Words == {"SELECT", "INSERT", "CREATE", "DELETE"}

\* A word or a mark is told by its kind.
LEMMA TokenFacts ==
    /\ \A t \in Tokens :
           t.kind = "Identifier" => t.text \in Names /\ t = Token("Identifier", t.text)
    /\ \A t \in Tokens : t.kind \in Keywords \cup Marks => t = Token(t.kind, t.kind)
    /\ \A k \in Keywords \cup Marks : Token(k, k) \in Tokens
    /\ \A n \in Names : Token("Identifier", n) \in Tokens
    /\ \A t \in Tokens : t.kind # "Eof"
    /\ \A k, x : Token(k, x).kind = k /\ Token(k, x).text = x
    /\ Eof.kind = "Eof"
<1>1. ASSUME NEW t \in Tokens
      PROVE  \/ t.kind \in Keywords \cup Marks /\ t = Token(t.kind, t.kind)
             \/ t.kind = "Identifier" /\ t.text \in Names /\ t = Token("Identifier", t.text)
             \/ t.kind \in {"Number", "StringLiteral"}
  <2>1. CASE \E k \in Keywords \cup Marks : t = Token(k, k)
    BY <2>1 DEF Token
  <2>2. CASE \E n \in Names : t = Token("Identifier", n)
    BY <2>2 DEF Token
  <2>3. CASE t \in {Token("Number", "1"), Token("StringLiteral", "s")}
    BY <2>3 DEF Token
  <2> QED BY <2>1, <2>2, <2>3 DEF Tokens
<1>2. /\ "Identifier" \notin Keywords \cup Marks /\ "Eof" \notin Keywords \cup Marks
      /\ "Number" \notin Keywords \cup Marks /\ "StringLiteral" \notin Keywords \cup Marks
  BY DEF Keywords, Marks
<1>3. /\ \A k \in Keywords \cup Marks : Token(k, k) \in Tokens
      /\ \A n \in Names : Token("Identifier", n) \in Tokens
  BY DEF Tokens
<1> QED BY <1>1, <1>2, <1>3 DEF Token, Eof

\* The token t can go on behind the list, as an item, a comma or a type.
GoesOn(list, t, s) ==
    LET n == Len(list) IN
    \/ (n = 0 \/ list[n].kind = "Comma") /\ t.kind \in ItemKinds(s)
    \/ n # 0 /\ list[n].kind # "Comma" /\ t.kind = "Comma"
    \/ /\ n # 0 /\ list[n].kind # "Comma" /\ Begins(list, n)
       /\ s = "CREATE" /\ t.kind = "Identifier"

LEMMA AppendFacts ==
    ASSUME NEW list \in Seq(Tokens), NEW t \in Tokens
    PROVE  /\ Append(list, t) \in Seq(Tokens)
           /\ Len(list) \in Nat /\ Len(Append(list, t)) = Len(list) + 1
           /\ \A i \in 1 .. Len(list) : Append(list, t)[i] = list[i]
           /\ Append(list, t)[Len(list) + 1] = t
           /\ DOMAIN list = 1 .. Len(list) /\ DOMAIN Append(list, t) = 1 .. Len(list) + 1
BY AppendProperties, LenProperties

LEMMA ListGrows ==
    ASSUME NEW list \in Seq(Tokens), NEW t \in Tokens, NEW s
    PROVE  IsList(Append(list, t), s) <=> IsList(list, s) /\ GoesOn(list, t, s)
<1> DEFINE n == Len(list)
           m == Append(list, t)
           At(l, i) == \/ Begins(l, i) /\ l[i].kind \in ItemKinds(s)
                       \/ ~Begins(l, i) /\ l[i].kind = "Comma"
                       \/ /\ ~Begins(l, i) /\ Begins(l, i - 1)
                          /\ s = "CREATE" /\ l[i].kind = "Identifier"
<1>1. /\ n \in Nat /\ m \in Seq(Tokens) /\ m[n + 1] = t
      /\ \A i \in 1 .. n : m[i] = list[i]
      /\ DOMAIN list = 1 .. n /\ DOMAIN m = 1 .. n + 1
  BY AppendFacts
<1>2. /\ IsList(list, s) <=> \A i \in 1 .. n : At(list, i)
      /\ IsList(m, s) <=> \A i \in 1 .. n + 1 : At(m, i)
  BY <1>1 DEF IsList
<1> HIDE DEF n, m
<1>3. \A i \in 1 .. n : Begins(m, i) <=> Begins(list, i)
  BY <1>1 DEF Begins
<1>4. \A i \in 1 .. n : ~Begins(list, i) => (Begins(m, i - 1) <=> Begins(list, i - 1))
  <2>1. \A i \in 1 .. n : ~Begins(list, i) => i - 1 \in 1 .. n
    BY <1>1 DEF Begins
  <2> QED BY <1>3, <2>1
<1>5. \A i \in 1 .. n : At(m, i) <=> At(list, i)
  BY <1>1, <1>3, <1>4
<1>6. At(m, n + 1) <=> GoesOn(list, t, s)
  <2>1. n + 1 - 1 = n /\ (n # 0 => n \in 1 .. n) /\ (n + 1 = 1 <=> n = 0)
    BY <1>1
  <2>2. Begins(m, n + 1) <=> n = 0 \/ list[n].kind = "Comma"
    BY <1>1, <2>1 DEF Begins
  <2>3. n # 0 => (Begins(m, n) <=> Begins(list, n))
    BY <1>3, <2>1
  <2> QED BY <1>1, <2>1, <2>2, <2>3 DEF GoesOn, n
<1>7. (\A i \in 1 .. n + 1 : At(m, i)) <=> (\A i \in 1 .. n : At(m, i)) /\ At(m, n + 1)
  <2>1. \A i : i \in 1 .. n + 1 <=> i \in 1 .. n \/ i = n + 1
    BY <1>1
  <2> HIDE DEF At
  <2> QED BY <2>1
<1> HIDE DEF At
<1> QED BY <1>2, <1>5, <1>6, <1>7 DEF m

\* What begins a list is one.
LEMMA PrefixIsList ==
    ASSUME NEW list \in Seq(Tokens), NEW m \in Seq(Tokens), NEW s, IsList(m, s),
           Len(list) <= Len(m), \A i \in 1 .. Len(list) : list[i] = m[i]
    PROVE  IsList(list, s)
<1>1. /\ DOMAIN list = 1 .. Len(list) /\ DOMAIN m = 1 .. Len(m)
      /\ Len(list) \in Nat /\ Len(m) \in Nat
  BY LenProperties
<1>2. \A i \in 1 .. Len(list) : i \in 1 .. Len(m) /\ (Begins(m, i) <=> Begins(list, i))
  BY <1>1 DEF Begins
<1>3. \A i \in 1 .. Len(list) :
          ~Begins(list, i) => (Begins(m, i - 1) <=> Begins(list, i - 1))
  <2>1. \A i \in 1 .. Len(list) : ~Begins(list, i) => i - 1 \in 1 .. Len(list)
    BY <1>1 DEF Begins
  <2> QED BY <1>2, <2>1
<1> QED BY <1>1, <1>2, <1>3 DEF IsList

\* A list is made of items and commas.
LEMMA ListTokens ==
    ASSUME NEW list, NEW s, IsList(list, s), NEW i \in DOMAIN list
    PROVE  list[i].kind \in {"Comma"} \cup ItemKinds(s)
BY DEF IsList, ItemKinds

-----------------------------------------------------------------------------
(* The items of a list *)

\* What ItemsOf gathers from the first n tokens.
Gather(list, n, f) ==
    [i \in 0 .. n |->
        IF i = 0 THEN <<>>
        ELSE IF Begins(list, i) THEN Append(f[i - 1], list[i].text)
        ELSE f[i - 1]]

LEMMA GatherExists ==
    ASSUME NEW list
    PROVE  \A n \in Nat : \E f : f = Gather(list, n, f)
<1> DEFINE G == {n \in Nat : \E f : f = Gather(list, n, f)}
<1>1. 0 \in G
  <2> DEFINE f == [i \in 0 .. 0 |-> <<>>]
  <2>1. f = Gather(list, 0, f)
    BY DEF Gather
  <2> QED BY <2>1
<1>2. ASSUME NEW n \in G
      PROVE  n + 1 \in G
  <2>1. PICK f : f = Gather(list, n, f)
    OBVIOUS
  <2> DEFINE next == IF Begins(list, n + 1) THEN Append(f[n], list[n + 1].text) ELSE f[n]
             g == [i \in 0 .. n + 1 |-> IF i = n + 1 THEN next ELSE f[i]]
  <2>2. ASSUME NEW i \in 0 .. n + 1
        PROVE  g[i] = Gather(list, n + 1, g)[i]
    <3>1. CASE i = n + 1
      <4>1. n \in 0 .. n + 1 /\ n # n + 1 /\ n + 1 # 0 /\ i - 1 = n
        BY <3>1
      <4> QED BY <3>1, <4>1 DEF Gather
    <3>2. CASE i # n + 1
      <4>1. i \in 0 .. n /\ (i # 0 => i - 1 \in 0 .. n + 1 /\ i - 1 # n + 1)
        BY <3>2
      <4>2. g[i] = f[i] /\ (i # 0 => g[i - 1] = f[i - 1])
        BY <3>2, <4>1
      <4>3. f[i] = Gather(list, n, f)[i]
        BY <2>1
      <4> HIDE DEF g
      <4> QED BY <4>1, <4>2, <4>3 DEF Gather
    <3> QED BY <3>1, <3>2
  <2>3. g = Gather(list, n + 1, g)
    BY <2>2 DEF Gather
  <2> QED BY <2>3
<1> HIDE DEF G
<1>3. G = Nat
  <2>1. G \in SUBSET Nat
    BY DEF G
  <2> QED BY <1>1, <1>2, <2>1, AllNumbers
<1> QED BY <1>3 DEF G

\* It depends on these tokens only.
LEMMA GatherAgrees ==
    ASSUME NEW list, NEW m, NEW n \in Nat, NEW k \in Nat, n <= k,
           \A i \in 1 .. n : list[i] = m[i],
           NEW f, f = Gather(list, n, f), NEW g, g = Gather(m, k, g)
    PROVE  f[n] = g[n]
<1> DEFINE G == {i \in Nat : i <= n => f[i] = g[i]}
<1>1. 0 \in G
  BY DEF Gather
<1>2. ASSUME NEW i \in G, i + 1 <= n
      PROVE  f[i + 1] = g[i + 1]
  <2>1. /\ i + 1 \in 0 .. n /\ i + 1 \in 0 .. k /\ i + 1 # 0 /\ i + 1 - 1 = i /\ i <= n
        /\ i + 1 \in 1 .. n /\ (i + 1 # 1 => i \in 1 .. n)
    BY <1>2
  <2>2. list[i + 1] = m[i + 1] /\ (Begins(list, i + 1) <=> Begins(m, i + 1)) /\ f[i] = g[i]
    BY <2>1 DEF Begins
  <2>3. /\ f[i + 1] = Gather(list, n, f)[i + 1]
        /\ g[i + 1] = Gather(m, k, g)[i + 1]
    OBVIOUS
  <2> QED BY <2>1, <2>2, <2>3 DEF Gather
<1>3. G = Nat
  <2>1. G \in SUBSET Nat /\ \A i \in G : i + 1 \in G
    BY <1>2
  <2> HIDE DEF G
  <2> QED BY <1>1, <2>1, AllNumbers
<1> QED BY <1>3

LEMMA ItemsAreGathered ==
    ASSUME NEW list, Len(list) \in Nat
    PROVE  \E f : f = Gather(list, Len(list), f) /\ ItemsOf(list) = f[Len(list)]
<1> DEFINE g == CHOOSE f : f = Gather(list, Len(list), f)
<1>1. g = Gather(list, Len(list), g)
  BY GatherExists
<1>2. ItemsOf(list) = g[Len(list)]
  BY DEF ItemsOf, Gather
<1> QED BY <1>1, <1>2

\* A token that begins an item adds it.
LEMMA ItemsGrow ==
    /\ ItemsOf(<<>>) = <<>>
    /\ \A list \in Seq(Tokens), t \in Tokens :
           ItemsOf(Append(list, t)) =
               IF Len(list) = 0 \/ list[Len(list)].kind = "Comma"
               THEN Append(ItemsOf(list), t.text)
               ELSE ItemsOf(list)
<1>1. ItemsOf(<<>>) = <<>>
  <2>1. Len(<<>>) = 0
    OBVIOUS
  <2>2. PICK f : f = Gather(<<>>, 0, f) /\ ItemsOf(<<>>) = f[0]
    BY <2>1, ItemsAreGathered
  <2> QED BY <2>2 DEF Gather
<1>2. ASSUME NEW list \in Seq(Tokens), NEW t \in Tokens
      PROVE  ItemsOf(Append(list, t)) =
                 IF Len(list) = 0 \/ list[Len(list)].kind = "Comma"
                 THEN Append(ItemsOf(list), t.text)
                 ELSE ItemsOf(list)
  <2> DEFINE n == Len(list)
             m == Append(list, t)
  <2>1. /\ n \in Nat /\ n + 1 \in Nat /\ Len(m) = n + 1 /\ m[n + 1] = t
        /\ \A i \in 1 .. n : m[i] = list[i]
    BY AppendFacts
  <2>2. PICK f : f = Gather(list, n, f) /\ ItemsOf(list) = f[n]
    BY <2>1, ItemsAreGathered
  <2>3. PICK g : g = Gather(m, n + 1, g) /\ ItemsOf(m) = g[n + 1]
    BY <2>1, ItemsAreGathered
  <2> HIDE DEF n, m
  <2>4. f[n] = g[n]
    <3>1. n <= n + 1 /\ \A i \in 1 .. n : list[i] = m[i]
      BY <2>1
    <3> QED BY <2>1, <2>2, <2>3, <3>1, GatherAgrees
  <2>5. Begins(m, n + 1) <=> n = 0 \/ list[n].kind = "Comma"
    <3>1. (n + 1 = 1 <=> n = 0) /\ n + 1 - 1 = n /\ (n # 0 => n \in 1 .. n)
      BY <2>1
    <3> QED BY <2>1, <3>1 DEF Begins
  <2>6. g[n + 1] = IF Begins(m, n + 1) THEN Append(g[n], m[n + 1].text) ELSE g[n]
    <3> DEFINE k == n + 1
    <3>1. k \in 0 .. k /\ k # 0 /\ k - 1 = n
      BY <2>1
    <3>2. g = Gather(m, k, g)
      BY <2>3
    <3> HIDE DEF k
    <3>3. g[k] = Gather(m, k, g)[k]
      BY <3>2
    <3>4. g[k] = IF Begins(m, k) THEN Append(g[k - 1], m[k].text) ELSE g[k - 1]
      BY <3>1, <3>3 DEF Gather
    <3>5. g[k] = IF Begins(m, k) THEN Append(g[n], m[k].text) ELSE g[n]
      BY <3>1, <3>4
    <3> QED BY <3>5 DEF k
  <2> QED BY <2>1, <2>2, <2>3, <2>4, <2>5, <2>6 DEF n, m
<1> QED BY <1>1, <1>2
-----------------------------------------------------------------------------
(* Statements *)

Goals == Keywords \cup Marks \cup {"table", "items"}

\* What a statement is made of, where its list is, and where its table.
Pattern(s) ==
    CASE s = "SELECT" -> parse_select
      [] s = "INSERT" -> parse_insert
      [] s = "CREATE" -> parse_create
      [] s = "DELETE" -> parse_delete
ListAt(s) ==
    CASE s = "SELECT" -> 2 [] s = "INSERT" -> 6 [] s = "CREATE" -> 5 [] s = "DELETE" -> 4
TableAt(s) == IF s = "SELECT" THEN 4 ELSE 3

\* The token that meets a goal.
Wanted(goal, table) ==
    IF goal = "table" THEN Token("Identifier", table) ELSE Token(goal, goal)

LEMMA StatementsAreWords ==
    /\ {Head(p) : p \in Statements} = Words
    /\ \A p \in Statements : Head(p) \in Words /\ p = Pattern(Head(p))
    /\ \A w \in Words : Pattern(w) \in Statements /\ Head(Pattern(w)) = w
<1>1. /\ Head(parse_select) = "SELECT" /\ Head(parse_insert) = "INSERT"
      /\ Head(parse_create) = "CREATE" /\ Head(parse_delete) = "DELETE"
  BY DEF parse_select, parse_insert, parse_create, parse_delete
<1>2. \A p : p \in Statements <=> \/ p = parse_select \/ p = parse_insert
                                  \/ p = parse_create \/ p = parse_delete
  BY DEF Statements
<1> QED BY <1>1, <1>2 DEF Words, Pattern

LEMMA PatternFacts ==
    ASSUME NEW s \in Words
    PROVE  /\ Pattern(s) \in Seq(Goals) /\ Len(Pattern(s)) \in Nat
           /\ ListAt(s) \in Nat /\ 2 <= ListAt(s) /\ ListAt(s) <= Len(Pattern(s)) + 1
           /\ s = "DELETE" <=> ListAt(s) = Len(Pattern(s)) + 1
           /\ s # "DELETE" => /\ ListAt(s) < Len(Pattern(s))
                              /\ Pattern(s)[ListAt(s)] = "items"
                              /\ Pattern(s)[ListAt(s) + 1] \in {"FROM", "CloseParen"}
           /\ Pattern(s)[1] = s
           /\ TableAt(s) \in Nat /\ 2 <= TableAt(s) /\ TableAt(s) <= Len(Pattern(s))
           /\ TableAt(s) # ListAt(s)
           /\ \A k \in 1 .. Len(Pattern(s)) :
                  /\ Pattern(s)[k] = "table" <=> k = TableAt(s)
                  /\ Pattern(s)[k] = "items" <=> k = ListAt(s)
                  /\ Pattern(s)[k] \in Goals \ {"Comma", "Other"}
<1>1. CASE s = "SELECT"
  <2>1. Pattern(s) = <<"SELECT", "items", "FROM", "table">>
    BY <1>1 DEF Pattern, parse_select
  <2>2. Pattern(s) \in Seq(Goals)
    BY <2>1 DEF Goals, Keywords, Marks
  <2>3. /\ Len(Pattern(s)) = 4
        /\ Pattern(s)[1] = "SELECT" /\ Pattern(s)[2] = "items" /\ Pattern(s)[3] = "FROM"
        /\ Pattern(s)[4] = "table"
    BY <2>1
  <2>4. ListAt(s) = 2 /\ TableAt(s) = 4
    BY <1>1 DEF ListAt, TableAt
  <2>5. 1 .. 4 = {1, 2, 3, 4}
    OBVIOUS
  <2> QED BY <1>1, <2>2, <2>3, <2>4, <2>5 DEF Goals, Keywords, Marks
<1>2. CASE s = "INSERT"
  <2>1. Pattern(s) =
            <<"INSERT", "INTO", "table", "VALUES", "OpenParen", "items", "CloseParen">>
    BY <1>2 DEF Pattern, parse_insert
  <2>2. Pattern(s) \in Seq(Goals)
    BY <2>1 DEF Goals, Keywords, Marks
  <2>3. /\ Len(Pattern(s)) = 7
        /\ Pattern(s)[1] = "INSERT" /\ Pattern(s)[2] = "INTO" /\ Pattern(s)[3] = "table"
        /\ Pattern(s)[4] = "VALUES" /\ Pattern(s)[5] = "OpenParen" /\ Pattern(s)[6] = "items"
        /\ Pattern(s)[7] = "CloseParen"
    BY <2>1
  <2>4. ListAt(s) = 6 /\ TableAt(s) = 3
    BY <1>2 DEF ListAt, TableAt
  <2>5. 1 .. 7 = {1, 2, 3, 4, 5, 6, 7}
    OBVIOUS
  <2> QED BY <1>2, <2>2, <2>3, <2>4, <2>5 DEF Goals, Keywords, Marks
<1>3. CASE s = "CREATE"
  <2>1. Pattern(s) = <<"CREATE", "TABLE", "table", "OpenParen", "items", "CloseParen">>
    BY <1>3 DEF Pattern, parse_create
  <2>2. Pattern(s) \in Seq(Goals)
    BY <2>1 DEF Goals, Keywords, Marks
  <2>3. /\ Len(Pattern(s)) = 6
        /\ Pattern(s)[1] = "CREATE" /\ Pattern(s)[2] = "TABLE" /\ Pattern(s)[3] = "table"
        /\ Pattern(s)[4] = "OpenParen" /\ Pattern(s)[5] = "items"
        /\ Pattern(s)[6] = "CloseParen"
    BY <2>1
  <2>4. ListAt(s) = 5 /\ TableAt(s) = 3
    BY <1>3 DEF ListAt, TableAt
  <2>5. 1 .. 6 = {1, 2, 3, 4, 5, 6}
    OBVIOUS
  <2> QED BY <1>3, <2>2, <2>3, <2>4, <2>5 DEF Goals, Keywords, Marks
<1>4. CASE s = "DELETE"
  <2>1. Pattern(s) = <<"DELETE", "FROM", "table">>
    BY <1>4 DEF Pattern, parse_delete
  <2>2. Pattern(s) \in Seq(Goals)
    BY <2>1 DEF Goals, Keywords, Marks
  <2>3. /\ Len(Pattern(s)) = 3
        /\ Pattern(s)[1] = "DELETE" /\ Pattern(s)[2] = "FROM" /\ Pattern(s)[3] = "table"
    BY <2>1
  <2>4. ListAt(s) = 4 /\ TableAt(s) = 3
    BY <1>4 DEF ListAt, TableAt
  <2>5. 1 .. 3 = {1, 2, 3}
    OBVIOUS
  <2>6. \A k \in 1 .. Len(Pattern(s)) :
            /\ Pattern(s)[k] = "table" <=> k = TableAt(s)
            /\ Pattern(s)[k] = "items" <=> k = ListAt(s)
            /\ Pattern(s)[k] \in Goals \ {"Comma", "Other"}
    BY <2>3, <2>4, <2>5 DEF Goals, Keywords, Marks
  <2> QED BY <1>4, <2>2, <2>3, <2>4, <2>6
<1> QED BY <1>1, <1>2, <1>3, <1>4 DEF Words

LEMMA WantedFacts ==
    /\ \A g \in Goals \ {"items", "table"} : \A n : Wanted(g, n) = Token(g, g)
    /\ \A g \in Goals \ {"items"}, n \in Names : Wanted(g, n) \in Tokens
    /\ \A g \in Goals \ {"items"} : \A n :
           Wanted(g, n).kind = IF g = "table" THEN "Identifier" ELSE g
BY TokenFacts DEF Wanted, Goals

LEMMA ConcatFacts ==
    ASSUME NEW S, NEW s \in Seq(S), NEW t \in Seq(S)
    PROVE  /\ s \o t \in Seq(S) /\ Len(s \o t) = Len(s) + Len(t)
           /\ \A k \in 1 .. Len(s) : (s \o t)[k] = s[k]
           /\ \A k \in 1 .. Len(t) : (s \o t)[Len(s) + k] = t[k]
<1>1. Len(s) \in Nat /\ Len(t) \in Nat
  BY LenProperties
<1>2. /\ s \o t \in Seq(S) /\ Len(s \o t) = Len(s) + Len(t)
      /\ \A k \in 1 .. Len(s) + Len(t) :
             (s \o t)[k] = IF k <= Len(s) THEN s[k] ELSE t[k - Len(s)]
  BY ConcatProperties
<1>3. \A k \in 1 .. Len(s) : (s \o t)[k] = s[k]
  BY <1>1, <1>2
<1>4. ASSUME NEW k \in 1 .. Len(t)
      PROVE  (s \o t)[Len(s) + k] = t[k]
  <2> DEFINE i == Len(s) + k
  <2>1. i \in 1 .. Len(s) + Len(t) /\ ~(i <= Len(s)) /\ i - Len(s) = k
    BY <1>1
  <2> HIDE DEF i
  <2>2. (s \o t)[i] = t[i - Len(s)]
    BY <1>2, <2>1
  <2> QED BY <2>1, <2>2 DEF i
<1> QED BY <1>2, <1>3, <1>4

LEMMA Sandwich ==
    ASSUME NEW S, NEW x \in Seq(S), NEW list \in Seq(S), NEW y \in Seq(S)
    PROVE  /\ x \o list \o y \in Seq(S)
           /\ Len(x \o list \o y) = Len(x) + Len(list) + Len(y)
           /\ \A i \in 1 .. Len(x) : (x \o list \o y)[i] = x[i]
           /\ \A i \in 1 .. Len(list) : (x \o list \o y)[Len(x) + i] = list[i]
           /\ \A i \in 1 .. Len(y) : (x \o list \o y)[Len(x) + Len(list) + i] = y[i]
<1>1. Len(x) \in Nat /\ Len(list) \in Nat /\ Len(y) \in Nat
  BY LenProperties
<1>2. PICK u \in Seq(S) :
      /\ u = x \o list /\ Len(u) = Len(x) + Len(list)
      /\ \A i \in 1 .. Len(x) : u[i] = x[i]
      /\ \A i \in 1 .. Len(list) : u[Len(x) + i] = list[i]
  <2>1. /\ x \o list \in Seq(S) /\ Len(x \o list) = Len(x) + Len(list)
        /\ \A i \in 1 .. Len(x) : (x \o list)[i] = x[i]
        /\ \A i \in 1 .. Len(list) : (x \o list)[Len(x) + i] = list[i]
    BY ConcatFacts
  <2> QED BY <2>1
<1>3. /\ u \o y \in Seq(S) /\ Len(u \o y) = Len(u) + Len(y)
      /\ \A i \in 1 .. Len(u) : (u \o y)[i] = u[i]
      /\ \A i \in 1 .. Len(y) : (u \o y)[Len(u) + i] = y[i]
  BY <1>2, ConcatFacts
<1>4. /\ \A i \in 1 .. Len(x) : i \in 1 .. Len(u)
      /\ \A i \in 1 .. Len(list) : Len(x) + i \in 1 .. Len(u)
  BY <1>1, <1>2
<1>5. \A i \in 1 .. Len(x) : (u \o y)[i] = x[i]
  BY <1>2, <1>3, <1>4
<1>6. \A i \in 1 .. Len(list) : (u \o y)[Len(x) + i] = list[i]
  BY <1>2, <1>3, <1>4
<1> QED BY <1>2, <1>3, <1>5, <1>6

\* A statement, token by token: what its pattern wants, with the list in its place.
LEMMA SentenceFacts ==
    ASSUME NEW s \in Words, NEW table \in Names, NEW list \in Seq(Tokens),
           s = "DELETE" => list = <<>>
    PROVE  LET t == Sentence(s, table, list) IN
           /\ t \in Seq(Tokens)
           /\ Len(t) = Len(list) + (IF s = "DELETE" THEN 3 ELSE Len(Pattern(s)) - 1)
           /\ \A k \in 1 .. ListAt(s) - 1 : t[k] = Wanted(Pattern(s)[k], table)
           /\ \A i \in 1 .. Len(list) : t[ListAt(s) - 1 + i] = list[i]
           /\ \A k \in ListAt(s) + 1 .. Len(Pattern(s)) :
                  t[k - 1 + Len(list)] = Wanted(Pattern(s)[k], table)
<1> DEFINE t == Sentence(s, table, list)
           p == Pattern(s)
           q == ListAt(s)
<1>1. ASSUME NEW x \in Seq(Tokens), NEW y \in Seq(Tokens), s # "DELETE",
             t = x \o list \o y, Len(x) = q - 1, Len(y) = Len(p) - q,
             \A k \in 1 .. Len(x) : x[k] = Wanted(p[k], table),
             \A k \in 1 .. Len(y) : y[k] = Wanted(p[q + k], table)
      PROVE  /\ t \in Seq(Tokens) /\ Len(t) = Len(list) + Len(p) - 1
             /\ \A k \in 1 .. q - 1 : t[k] = Wanted(p[k], table)
             /\ \A i \in 1 .. Len(list) : t[q - 1 + i] = list[i]
             /\ \A k \in q + 1 .. Len(p) : t[k - 1 + Len(list)] = Wanted(p[k], table)
  <2>1. /\ t \in Seq(Tokens) /\ Len(t) = Len(x) + Len(list) + Len(y)
        /\ \A i \in 1 .. Len(x) : t[i] = x[i]
        /\ \A i \in 1 .. Len(list) : t[Len(x) + i] = list[i]
        /\ \A i \in 1 .. Len(y) : t[Len(x) + Len(list) + i] = y[i]
    <3>1. x \in Seq(Tokens) /\ list \in Seq(Tokens) /\ y \in Seq(Tokens)
      OBVIOUS
    <3>2. t = x \o list \o y
      BY <1>1
    <3> HIDE DEF t
    <3> QED BY <3>1, <3>2, Sandwich
  <2>2. q \in Nat /\ Len(p) \in Nat /\ Len(list) \in Nat
    BY PatternFacts, LenProperties
  <2> HIDE DEF t, p, q
  <2>3. ASSUME NEW k \in q + 1 .. Len(p)
        PROVE  t[k - 1 + Len(list)] = Wanted(p[k], table)
    <3> DEFINE i == k - q
    <3>1. /\ i \in 1 .. Len(y) /\ Len(x) + Len(list) + i = k - 1 + Len(list)
          /\ q + i = k
      BY <1>1, <2>2
    <3> HIDE DEF i
    <3> QED BY <1>1, <2>1, <3>1
  <2>4. Len(t) = Len(list) + Len(p) - 1
    BY <1>1, <2>1, <2>2
  <2> QED BY <1>1, <2>1, <2>3, <2>4
<1> DEFINE name == Token("Identifier", table)
           word(k) == Token(k, k)
<1>2. name \in Tokens /\ \A k \in Keywords \cup Marks : word(k) \in Tokens
  BY TokenFacts
<1>3. CASE s = "SELECT"
  <2> DEFINE x == <<word("SELECT")>>
             y == <<word("FROM"), name>>
  <2>1. p = <<"SELECT", "items", "FROM", "table">> /\ q = 2
    BY <1>3 DEF Pattern, parse_select, ListAt
  <2>2. x \in Seq(Tokens) /\ y \in Seq(Tokens)
    BY <1>2 DEF Keywords
  <2>3. t = x \o list \o y
    BY <1>3 DEF Sentence
  <2>4. /\ Len(x) = q - 1 /\ Len(y) = Len(p) - q
        /\ \A k \in 1 .. Len(x) : x[k] = Wanted(p[k], table)
        /\ \A k \in 1 .. Len(y) : y[k] = Wanted(p[q + k], table)
    BY <2>1 DEF Wanted
  <2> HIDE DEF t, p, q, x, y
  <2> QED BY <1>1, <1>3, <2>2, <2>3, <2>4 DEF t, p, q
<1>4. CASE s = "INSERT"
  <2> DEFINE x == <<word("INSERT"), word("INTO"), name, word("VALUES"), word("OpenParen")>>
             y == <<word("CloseParen")>>
  <2>1. p = <<"INSERT", "INTO", "table", "VALUES", "OpenParen", "items", "CloseParen">> /\ q = 6
    BY <1>4 DEF Pattern, parse_insert, ListAt
  <2>2. x \in Seq(Tokens) /\ y \in Seq(Tokens)
    BY <1>2 DEF Keywords, Marks
  <2>3. t = x \o list \o y
    BY <1>4 DEF Sentence
  <2>4. /\ Len(x) = q - 1 /\ Len(y) = Len(p) - q
        /\ \A k \in 1 .. Len(x) : x[k] = Wanted(p[k], table)
        /\ \A k \in 1 .. Len(y) : y[k] = Wanted(p[q + k], table)
    BY <2>1 DEF Wanted
  <2> HIDE DEF t, p, q, x, y
  <2> QED BY <1>1, <1>4, <2>2, <2>3, <2>4 DEF t, p, q
<1>5. CASE s = "CREATE"
  <2> DEFINE x == <<word("CREATE"), word("TABLE"), name, word("OpenParen")>>
             y == <<word("CloseParen")>>
  <2>1. p = <<"CREATE", "TABLE", "table", "OpenParen", "items", "CloseParen">> /\ q = 5
    BY <1>5 DEF Pattern, parse_create, ListAt
  <2>2. x \in Seq(Tokens) /\ y \in Seq(Tokens)
    BY <1>2 DEF Keywords, Marks
  <2>3. t = x \o list \o y
    BY <1>5 DEF Sentence
  <2>4. /\ Len(x) = q - 1 /\ Len(y) = Len(p) - q
        /\ \A k \in 1 .. Len(x) : x[k] = Wanted(p[k], table)
        /\ \A k \in 1 .. Len(y) : y[k] = Wanted(p[q + k], table)
    BY <2>1 DEF Wanted
  <2> HIDE DEF t, p, q, x, y
  <2> QED BY <1>1, <1>5, <2>2, <2>3, <2>4 DEF t, p, q
<1>6. CASE s = "DELETE"
  <2>1. t = <<word("DELETE"), word("FROM"), name>>
    BY <1>6 DEF Sentence
  <2>2. p = <<"DELETE", "FROM", "table">> /\ q = 4
    BY <1>6 DEF Pattern, parse_delete, ListAt
  <2>3. t \in Seq(Tokens) /\ Len(t) = 3
    BY <1>2, <2>1 DEF Keywords
  <2>4. \A k \in 1 .. 3 : t[k] = Wanted(p[k], table)
    BY <2>1, <2>2 DEF Wanted
  <2>5. Len(list) = 0 /\ Len(p) = 3
    BY <1>6, <2>2
  <2> HIDE DEF t, p
  <2> QED BY <1>6, <2>2, <2>3, <2>4, <2>5 DEF t, p
<1> QED BY <1>3, <1>4, <1>5, <1>6 DEF Words
-----------------------------------------------------------------------------
(* The grammar *)

LEMMA ListsFacts ==
    ASSUME NEW s \in Words, NEW list
    PROVE  list \in Lists(s) <=> /\ list \in Seq(Tokens) /\ IsList(list, s)
                                 /\ Len(list) <= MaxTokens - 1
                                 /\ s = "DELETE" => list = <<>>
<1>1. MaxTokens - 1 \in Nat
  BY ParserAssumption
<1>2. <<>> \in Seq(Tokens) /\ IsList(<<>>, s) /\ Len(<<>>) <= MaxTokens - 1
  BY <1>1 DEF IsList
<1>3. CASE s = "DELETE"
  BY <1>2, <1>3 DEF Lists
<1>4. CASE s # "DELETE"
  <2> DEFINE tokens == {t \in Tokens : t.kind \in {"Comma"} \cup ItemKinds(s)}
             m == MaxTokens - 1
  <2>1. Lists(s) = {l \in UNION {[1 .. i -> tokens] : i \in 0 .. m} : IsList(l, s)}
    BY <1>4 DEF Lists, SeqOf
  <2>2. ASSUME list \in Lists(s)
        PROVE  list \in Seq(Tokens) /\ IsList(list, s) /\ Len(list) <= m
    <3>1. PICK i \in 0 .. m : list \in [1 .. i -> tokens]
      BY <2>1, <2>2
    <3>2. list \in Seq(tokens) /\ Len(list) = i
      BY <1>1, <3>1
    <3>3. list \in Seq(Tokens)
      BY <3>2, SeqMonotonic
    <3> QED BY <1>1, <2>1, <2>2, <3>2, <3>3
  <2>3. ASSUME list \in Seq(Tokens), IsList(list, s), Len(list) <= m
        PROVE  list \in Lists(s)
    <3>1. /\ Len(list) \in 0 .. m /\ DOMAIN list = 1 .. Len(list)
          /\ list \in [1 .. Len(list) -> Tokens]
      BY <1>1, <2>3, LenProperties
    <3>2. list \in [1 .. Len(list) -> tokens]
      BY <2>3, <3>1, ListTokens
    <3> QED BY <2>1, <2>3, <3>1, <3>2
  <2> QED BY <1>4, <2>2, <2>3
<1> QED BY <1>3, <1>4

LEMMA ReadingFacts ==
    ASSUME NEW r
    PROVE  r \in Readings <=>
               \E s \in Words, n \in Names : \E list \in Lists(s) :
                   r = [tokens |-> Sentence(s, n, list),
                        says |-> [statement |-> s, table |-> n, items |-> ItemsOf(list)]]
BY StatementsAreWords DEF Readings

LEMMA BeginningFacts ==
    ASSUME NEW x
    PROVE  x \in Beginnings <=>
               \E s \in Words, n \in Names : \E list \in Lists(s) :
                   \E i \in 0 .. Len(Sentence(s, n, list)) :
                       x = SubSeq(Sentence(s, n, list), 1, i)
<1> DEFINE of(s, n, list) == [tokens |-> Sentence(s, n, list),
                              says |-> [statement |-> s, table |-> n, items |-> ItemsOf(list)]]
<1>1. \A s, n, list : of(s, n, list).tokens = Sentence(s, n, list)
  OBVIOUS
<1>2. \A r : r \in Readings <=>
                 \E s \in Words, n \in Names : \E list \in Lists(s) : r = of(s, n, list)
  BY ReadingFacts
<1>3. x \in Beginnings <=>
          \E r \in Readings : \E i \in 0 .. Len(r.tokens) : x = SubSeq(r.tokens, 1, i)
  BY DEF Beginnings
<1> HIDE DEF of
<1> QED BY <1>1, <1>2, <1>3

-----------------------------------------------------------------------------
(* What has been read *)

\* All tokens but the current one are the lexer's, and no more than it delivers.
ReadOK ==
    /\ read \in Seq(Tokens \cup {Eof}) /\ read # <<>>
    /\ \A i \in 1 .. Len(read) - 1 : read[i] \in Tokens
    /\ \A i \in 1 .. Len(read) : read[i] \in Tokens => i <= MaxTokens

AstOK == ast = [statement |-> ast.statement, table |-> ast.table, items |-> ast.items]

\* Where the token for the k-th goal is, or the one behind the list if that is the goal.
TokenAt(s, k, l) ==
    IF k < ListAt(s) THEN k ELSE IF k = ListAt(s) THEN k + l ELSE k - 1 + l

\* The goals before the k-th are met, by the tokens before the current one.
Progress(s, k, list) ==
    /\ s \in Words /\ ast.statement = s
    /\ k \in 1 .. Len(Pattern(s)) + 1
    /\ list \in Seq(Tokens) /\ IsList(list, s) /\ ast.items = ItemsOf(list)
    /\ k < ListAt(s) \/ s = "DELETE" => list = <<>>
    /\ Len(read) = TokenAt(s, k, Len(list))
    /\ TableAt(s) < k => ast.table \in Names
    /\ \A i \in 1 .. k - 1 :
           i # ListAt(s) =>
               read[TokenAt(s, i, Len(list))] = Wanted(Pattern(s)[i], ast.table)
    /\ \A i \in 1 .. Len(list) : read[ListAt(s) - 1 + i] = list[i]

\* It is the beginning of a statement.
LEMMA ReadSoFar ==
    ASSUME NEW s, NEW k, NEW list, Progress(s, k, list), ReadOK
    PROVE  \E n \in Names :
               LET t == Sentence(s, n, list) IN
               /\ TableAt(s) < k => n = ast.table
               /\ t \in Seq(Tokens) /\ Len(read) - 1 <= Len(t)
               /\ k = Len(Pattern(s)) + 1 => Len(read) - 1 = Len(t)
               /\ \A j \in 1 .. Len(read) - 1 : read[j] = t[j]
<1> DEFINE n == IF TableAt(s) < k THEN ast.table ELSE CHOOSE x \in Names : TRUE
           p == Pattern(s)
           q == ListAt(s)
           l == Len(list)
           t == Sentence(s, n, list)
<1>1. n \in Names
  BY ParserAssumption DEF Progress
<1>2. s \in Words /\ k \in 1 .. Len(p) + 1 /\ list \in Seq(Tokens) /\ l \in Nat
  BY LenProperties DEF Progress
<1>3. /\ p \in Seq(Goals) /\ Len(p) \in Nat /\ q \in Nat /\ 2 <= q /\ q <= Len(p) + 1
      /\ s = "DELETE" <=> q = Len(p) + 1
      /\ s # "DELETE" => q < Len(p)
  BY <1>2, PatternFacts
<1>4. s = "DELETE" => l = 0 /\ Len(p) = 3
  BY <1>2 DEF Progress, Pattern, parse_delete
<1>5. /\ t \in Seq(Tokens)
      /\ Len(t) = l + (IF s = "DELETE" THEN 3 ELSE Len(p) - 1)
      /\ \A i \in 1 .. q - 1 : t[i] = Wanted(p[i], n)
      /\ \A i \in 1 .. l : t[q - 1 + i] = list[i]
      /\ \A i \in q + 1 .. Len(p) : t[i - 1 + l] = Wanted(p[i], n)
  BY <1>1, <1>2, SentenceFacts DEF Progress
<1>6. \A i \in 1 .. k - 1 :
          i # q => i \in 1 .. Len(p) /\ Wanted(p[i], ast.table) = Wanted(p[i], n)
  <2>1. \A i \in 1 .. k - 1 : i \in 1 .. Len(p) /\ i < k
    BY <1>2, <1>3
  <2>2. \A i \in 1 .. Len(p) : p[i] = "table" => i = TableAt(s)
    BY <1>2, PatternFacts
  <2> QED BY <2>1, <2>2 DEF Wanted
<1>7. /\ Len(read) = TokenAt(s, k, l)
      /\ \A i \in 1 .. k - 1 : i # q => read[TokenAt(s, i, l)] = Wanted(p[i], n)
      /\ \A i \in 1 .. l : read[q - 1 + i] = list[i]
  BY <1>6 DEF Progress
<1>8. l = 0 \/ q <= k
  BY <1>2, <1>3 DEF Progress
<1> HIDE DEF t, p, q, l, n
<1>9. /\ Len(read) - 1 <= Len(t)
      /\ k = Len(p) + 1 => Len(read) - 1 = Len(t)
  <2>1. Len(read) = IF k < q THEN k ELSE IF k = q THEN k + l ELSE k - 1 + l
    BY <1>7 DEF TokenAt, q
  <2>2. CASE s = "DELETE"
    <3>1. l = 0 /\ Len(p) = 3
      BY <1>4, <2>2
    <3>2. q = 4
      BY <1>3, <2>2, <3>1
    <3>3. Len(t) = l + 3
      BY <1>5, <2>2
    <3> QED BY <1>2, <2>1, <3>1, <3>2, <3>3
  <2>3. CASE s # "DELETE"
    <3>1. Len(t) = l + Len(p) - 1 /\ q < Len(p)
      BY <1>2, <1>3, <1>5, <2>3
    <3> QED BY <1>2, <1>3, <1>8, <2>1, <3>1
  <2> QED BY <2>2, <2>3
<1>10. ASSUME NEW j \in 1 .. Len(read) - 1
       PROVE  read[j] = t[j]
  <2>1. CASE j < q
    <3>1. j \in 1 .. k - 1 /\ j \in 1 .. q - 1 /\ j # q /\ TokenAt(s, j, l) = j
      BY <1>2, <1>3, <1>7, <2>1 DEF TokenAt, q
    <3> QED BY <1>5, <1>7, <3>1
  <2>2. CASE q <= j /\ j < q + l
    <3> DEFINE i == j - q + 1
    <3>1. i \in 1 .. l /\ q - 1 + i = j
      BY <1>2, <1>3, <2>2
    <3> HIDE DEF i
    <3> QED BY <1>5, <1>7, <3>1
  <2>3. CASE q + l <= j
    <3> DEFINE i == j + 1 - l
    <3>1. i \in 1 .. k - 1 /\ i # q /\ i \in q + 1 .. Len(p) /\ i - 1 + l = j
          /\ TokenAt(s, i, l) = j
      BY <1>2, <1>3, <1>7, <1>8, <2>3 DEF TokenAt, q
    <3> HIDE DEF i
    <3> QED BY <1>5, <1>7, <3>1
  <2> QED BY <1>2, <1>3, <2>1, <2>2, <2>3
<1>11. /\ TableAt(s) < k => n = ast.table
       /\ t \in Seq(Tokens)
  BY <1>5 DEF n
<1> QED BY <1>1, <1>9, <1>10, <1>11 DEF t, p

LEMMA CurrentFacts ==
    ASSUME ReadOK
    PROVE  /\ Len(read) \in Nat /\ 1 <= Len(read)
           /\ current_token = read[Len(read)] /\ current_token \in Tokens \cup {Eof}
           /\ Front(read) = SubSeq(read, 1, Len(read) - 1)
           /\ \A j \in 1 .. Len(read) : read[j] \in Tokens \cup {Eof}
<1>1. read \in Seq(Tokens \cup {Eof}) /\ read # <<>>
  BY DEF ReadOK
<1>2. Len(read) \in Nat /\ Len(read) # 0
  BY <1>1, EmptySeq
<1>3. \A j \in 1 .. Len(read) : read[j] \in Tokens \cup {Eof}
  BY <1>1, ElementOfSeq
<1>4. Len(read) \in 1 .. Len(read)
  BY <1>2
<1> QED BY <1>2, <1>3, <1>4 DEF current_token, Last, Front

\* The list read so far is no longer than those of the grammar.
LEMMA ListIsShort ==
    ASSUME NEW s, NEW k, NEW list, Progress(s, k, list), ReadOK
    PROVE  list \in Lists(s)
<1>1. list \in Seq(Tokens) /\ IsList(list, s) /\ s \in Words /\ (s = "DELETE" => list = <<>>)
  BY DEF Progress
<1>2. Len(list) \in Nat /\ ListAt(s) \in Nat /\ 2 <= ListAt(s) /\ Len(Pattern(s)) \in Nat
  BY <1>1, PatternFacts, LenProperties
<1>3. Len(list) <= MaxTokens - 1
  <2>1. CASE Len(list) = 0
    BY <2>1, ParserAssumption
  <2>2. CASE Len(list) # 0
    <3> DEFINE j == ListAt(s) - 1 + Len(list)
    <3>1. Len(list) \in 1 .. Len(list) /\ ListAt(s) <= k /\ k \in Nat
      <4>1. list # <<>>
        BY <2>2
      <4> QED BY <1>2, <2>2, <4>1 DEF Progress
    <3>2. read[j] = list[Len(list)] /\ list[Len(list)] \in Tokens
      BY <1>1, <3>1, ElementOfSeq DEF Progress
    <3>3. j \in 1 .. Len(read)
      BY <1>2, <3>1 DEF Progress, TokenAt
    <3>4. j <= MaxTokens
      BY <3>2, <3>3 DEF ReadOK
    <3> QED BY <1>2, <3>4, ParserAssumption
  <2> QED BY <2>1, <2>2
<1> QED BY <1>1, <1>3, ListsFacts

\* What the parser has consumed begins a statement.
LEMMA FrontBegins ==
    ASSUME NEW s, NEW k, NEW list, Progress(s, k, list), ReadOK
    PROVE  Front(read) \in Beginnings
<1>1. PICK n \in Names :
          LET t == Sentence(s, n, list) IN
          /\ t \in Seq(Tokens) /\ Len(read) - 1 <= Len(t)
          /\ \A j \in 1 .. Len(read) - 1 : read[j] = t[j]
  BY ReadSoFar
<1> DEFINE t == Sentence(s, n, list)
           i == Len(read) - 1
<1>2. /\ i \in 0 .. Len(t) /\ t \in Seq(Tokens)
      /\ read \in Seq(Tokens \cup {Eof}) /\ i <= Len(read)
  BY <1>1, CurrentFacts, LenProperties DEF ReadOK
<1>3. \A j \in 1 .. i : read[j] = t[j]
  BY <1>1
<1> HIDE DEF t, i
<1>4. SubSeq(read, 1, i) = SubSeq(t, 1, i)
  BY <1>2, <1>3
<1>5. Front(read) = SubSeq(t, 1, i)
  BY <1>4, CurrentFacts DEF i
<1>6. s \in Words /\ list \in Lists(s)
  BY ListIsShort DEF Progress
<1> QED BY <1>2, <1>5, <1>6, BeginningFacts DEF t

\* All goals are met: it is a statement, and the parser says what it says.
LEMMA FrontReads ==
    ASSUME NEW s, NEW list, Progress(s, Len(Pattern(s)) + 1, list), ReadOK, AstOK
    PROVE  [tokens |-> Front(read), says |-> ast] \in Readings
<1>1. s \in Words /\ list \in Lists(s)
  BY ListIsShort DEF Progress
<1>2. TableAt(s) < Len(Pattern(s)) + 1
  BY <1>1, PatternFacts
<1>3. PICK n \in Names :
          LET t == Sentence(s, n, list) IN
          /\ n = ast.table
          /\ t \in Seq(Tokens) /\ Len(read) - 1 = Len(t)
          /\ \A j \in 1 .. Len(read) - 1 : read[j] = t[j]
  BY <1>2, ReadSoFar
<1> DEFINE t == Sentence(s, n, list)
           i == Len(read) - 1
<1>4. /\ i = Len(t) /\ i \in Nat /\ i <= Len(read)
      /\ t \in Seq(Tokens) /\ read \in Seq(Tokens \cup {Eof})
      /\ \A j \in 1 .. i : read[j] = t[j]
  BY <1>3, CurrentFacts, LenProperties DEF ReadOK
<1>5. Front(read) = SubSeq(read, 1, i)
  BY CurrentFacts
<1> HIDE DEF t, i
<1>6. SubSeq(read, 1, i) = t
  BY <1>4
<1>7. ast = [statement |-> s, table |-> n, items |-> ItemsOf(list)]
  BY <1>3 DEF AstOK, Progress
<1> QED BY <1>1, <1>5, <1>6, <1>7, ReadingFacts DEF t

\* So does the empty sequence.
LEMMA EmptyBegins ==
    ASSUME ReadOK, Len(read) = 1
    PROVE  Front(read) \in Beginnings
<1> DEFINE s == "SELECT"
           n == CHOOSE x \in Names : TRUE
           t == Sentence(s, n, <<>>)
<1>1. n \in Names /\ s \in Words /\ <<>> \in Lists(s)
  <2>1. <<>> \in Seq(Tokens) /\ IsList(<<>>, s) /\ Len(<<>>) <= MaxTokens - 1
    BY ParserAssumption DEF IsList
  <2>2. s \in Words
    BY DEF Words
  <2> QED BY <2>1, <2>2, ListsFacts, ParserAssumption
<1>2. t \in Seq(Tokens)
  <2>1. s # "DELETE" /\ <<>> \in Seq(Tokens)
    OBVIOUS
  <2> HIDE DEF s, n
  <2> QED BY <1>1, <2>1, SentenceFacts
<1>3. 0 \in 0 .. Len(t) /\ SubSeq(t, 1, 0) = <<>>
  BY <1>2, LenProperties, SubSeqEmpty
<1>4. Front(read) = <<>>
  BY CurrentFacts, SubSeqEmpty
<1> HIDE DEF s, n, t
<1> QED BY <1>1, <1>3, <1>4, BeginningFacts DEF t

-----------------------------------------------------------------------------
(* Where the parser gives up *)

LEMMA BeginsASentence ==
    ASSUME read \in Beginnings, ReadOK
    PROVE  \E s \in Words, n \in Names : \E list \in Lists(s) :
               LET t == Sentence(s, n, list) IN
               /\ Len(read) <= Len(t)
               /\ \A j \in 1 .. Len(read) : read[j] = t[j]
<1>1. PICK s \in Words, n \in Names : \E list \in Lists(s) :
          \E i \in 0 .. Len(Sentence(s, n, list)) : read = SubSeq(Sentence(s, n, list), 1, i)
  BY BeginningFacts
<1>2. PICK list \in Lists(s) :
          \E i \in 0 .. Len(Sentence(s, n, list)) : read = SubSeq(Sentence(s, n, list), 1, i)
  BY <1>1
<1> DEFINE t == Sentence(s, n, list)
<1>3. PICK i \in 0 .. Len(t) : read = SubSeq(t, 1, i)
  BY <1>2
<1>4. t \in Seq(Tokens)
  <2>1. list \in Seq(Tokens) /\ (s = "DELETE" => list = <<>>)
    BY ListsFacts
  <2> QED BY <2>1, SentenceFacts
<1> HIDE DEF t
<1>5. Len(read) <= Len(t) /\ \A j \in 1 .. Len(read) : read[j] = t[j]
  BY <1>3, <1>4
<1> QED BY <1>5 DEF t

\* No statement begins with another word.
LEMMA NoOtherWord ==
    ASSUME ReadOK, Len(read) = 1, current_token.kind \notin Words
    PROVE  read \notin Beginnings
<1> SUFFICES ASSUME read \in Beginnings
             PROVE  FALSE
  OBVIOUS
<1>1. PICK s \in Words, n \in Names : \E list \in Lists(s) :
          \A j \in 1 .. Len(read) : read[j] = Sentence(s, n, list)[j]
  BY BeginsASentence
<1>2. PICK list \in Lists(s) : \A j \in 1 .. Len(read) : read[j] = Sentence(s, n, list)[j]
  BY <1>1
<1>3. list \in Seq(Tokens) /\ (s = "DELETE" => list = <<>>)
  BY ListsFacts
<1>4. 1 \in 1 .. ListAt(s) - 1 /\ Pattern(s)[1] = s
  BY PatternFacts
<1>5. Sentence(s, n, list)[1] = Wanted(s, n)
  <2> DEFINE t == Sentence(s, n, list)
  <2>1. \A k \in 1 .. ListAt(s) - 1 : t[k] = Wanted(Pattern(s)[k], n)
    BY <1>3, SentenceFacts
  <2> HIDE DEF t
  <2>2. t[1] = Wanted(s, n)
    BY <1>4, <2>1
  <2> QED BY <2>2 DEF t
<1>6. Wanted(s, n).kind = s
  BY WantedFacts DEF Words, Goals, Keywords
<1> QED BY <1>2, <1>5, <1>6, CurrentFacts

\* No statement goes on with a token that is neither what is wanted next nor, behind the
\* list, one with which the list goes on.
LEMMA NoSentence ==
    ASSUME NEW s, NEW k, NEW list, Progress(s, k, list), ReadOK,
           k \in 2 .. Len(Pattern(s)), k # ListAt(s),
           current_token.kind #
               IF Pattern(s)[k] = "table" THEN "Identifier" ELSE Pattern(s)[k],
           k = ListAt(s) + 1 => ~GoesOn(list, current_token, s)
    PROVE  read \notin Beginnings
<1> SUFFICES ASSUME read \in Beginnings
             PROVE  FALSE
  OBVIOUS
<1>1. PICK s2 \in Words, n \in Names : \E m \in Lists(s2) :
          LET t == Sentence(s2, n, m) IN
          /\ Len(read) <= Len(t)
          /\ \A j \in 1 .. Len(read) : read[j] = t[j]
  BY BeginsASentence
<1>2. PICK m \in Lists(s2) :
          LET t == Sentence(s2, n, m) IN
          /\ Len(read) <= Len(t)
          /\ \A j \in 1 .. Len(read) : read[j] = t[j]
  BY <1>1
<1> DEFINE p == Pattern(s)
           q == ListAt(s)
           l == Len(list)
           l2 == Len(m)
           t == Sentence(s2, n, m)
           c == Len(read)
<1>3. /\ s \in Words /\ list \in Seq(Tokens) /\ m \in Seq(Tokens) /\ IsList(m, s2)
      /\ s2 = "DELETE" => m = <<>>
      /\ l \in Nat /\ l2 \in Nat /\ c \in Nat /\ IsList(list, s)
  BY ListsFacts, LenProperties, CurrentFacts DEF Progress
<1>4. /\ Len(p) \in Nat /\ q \in Nat /\ 2 <= q /\ q <= Len(p) + 1 /\ p[1] = s
      /\ s = "DELETE" <=> q = Len(p) + 1
      /\ s # "DELETE" => q < Len(p) /\ p[q + 1] \in {"FROM", "CloseParen"}
      /\ \A i \in 1 .. Len(p) : p[i] \in Goals /\ (p[i] = "items" <=> i = q)
  BY <1>3, PatternFacts
<1>5. /\ \A i \in 1 .. ListAt(s2) - 1 : t[i] = Wanted(Pattern(s2)[i], n)
      /\ \A i \in 1 .. l2 : t[ListAt(s2) - 1 + i] = m[i]
      /\ \A i \in ListAt(s2) + 1 .. Len(Pattern(s2)) : t[i - 1 + l2] = Wanted(Pattern(s2)[i], n)
  BY <1>3, SentenceFacts
<1>6. \A j \in 1 .. c : read[j] = t[j]
  BY <1>2
<1>7. /\ c = TokenAt(s, k, l)
      /\ \A i \in 1 .. k - 1 : i # q => read[TokenAt(s, i, l)] = Wanted(p[i], ast.table)
      /\ \A i \in 1 .. l : read[q - 1 + i] = list[i]
  BY DEF Progress
<1>8. current_token = read[c] /\ k \in 2 .. Len(p) /\ k # q
  BY CurrentFacts
<1>9. \A w \in Words : \A x : Wanted(w, x).kind = w
  BY WantedFacts DEF Words, Goals, Keywords
<1>10. \A i \in 1 .. Len(p) : i # q =>
           Wanted(p[i], n).kind = IF p[i] = "table" THEN "Identifier" ELSE p[i]
  BY <1>4, WantedFacts
<1>11. \A x : s # "DELETE" => Wanted(p[q + 1], x).kind \in {"FROM", "CloseParen"}
  BY <1>4, WantedFacts DEF Goals, Keywords, Marks
<1>12. ListAt(s2) \in Nat /\ 2 <= ListAt(s2) /\ Pattern(s2)[1] = s2
  BY PatternFacts
<1>13. /\ \A i \in 1 .. l : list[i].kind \notin {"FROM", "CloseParen"}
       /\ \A i \in 1 .. l2 : m[i].kind \notin {"FROM", "CloseParen"}
  <2>1. DOMAIN list = 1 .. l /\ DOMAIN m = 1 .. l2
    BY <1>3, LenProperties
  <2>2. \A x : {"Comma"} \cup ItemKinds(x)
                 \subseteq {"Comma", "Number", "StringLiteral", "Identifier"}
    BY DEF ItemKinds
  <2> QED BY <1>3, <2>1, <2>2, ListTokens
<1> HIDE DEF p, q, l, l2, t, c
<1>14. 1 <= c
  BY <1>3, <1>4, <1>7, <1>8 DEF TokenAt, q
<1>15. s2 = s
  <2>1. read[1] = Wanted(s, ast.table)
    <3>1. 1 \in 1 .. k - 1 /\ 1 # q /\ TokenAt(s, 1, l) = 1
      BY <1>4, <1>8 DEF TokenAt, q
    <3> QED BY <1>4, <1>7, <3>1
  <2>2. t[1] = Wanted(s2, n)
    BY <1>5, <1>12
  <2>3. read[1] = t[1]
    BY <1>3, <1>6, <1>14
  <2>4. Wanted(s, ast.table).kind = s
    BY <1>3, <1>9
  <2>5. Wanted(s2, n).kind = s2
    BY <1>1, <1>9
  <2> QED BY <2>1, <2>2, <2>3, <2>4, <2>5
<1>16. /\ \A i \in 1 .. q - 1 : t[i] = Wanted(p[i], n)
       /\ \A i \in 1 .. l2 : t[q - 1 + i] = m[i]
       /\ \A i \in q + 1 .. Len(p) : t[i - 1 + l2] = Wanted(p[i], n)
  BY <1>5, <1>15 DEF p, q
<1>17. read[c] = t[c]
  BY <1>3, <1>6, <1>14
<1>18. current_token.kind # IF p[k] = "table" THEN "Identifier" ELSE p[k]
  BY DEF p
<1>19. CASE k < q
  <2>1. c = k /\ k \in 1 .. q - 1 /\ k \in 1 .. Len(p)
    BY <1>4, <1>7, <1>8, <1>19 DEF TokenAt, q
  <2>2. t[k] = Wanted(p[k], n)
    BY <1>16, <2>1
  <2> QED BY <1>8, <1>10, <1>17, <1>18, <2>1, <2>2
<1>20. CASE q < k
  <2>1. c = k - 1 + l /\ k \in q + 1 .. Len(p) /\ s # "DELETE" /\ k \in 1 .. Len(p)
    BY <1>4, <1>7, <1>8, <1>20 DEF TokenAt, q
  <2>2. CASE l2 = l
    <3>1. t[c] = Wanted(p[k], n)
      BY <1>16, <2>1, <2>2
    <3> QED BY <1>8, <1>10, <1>17, <1>18, <2>1, <3>1
  <2>3. CASE l < l2
    <3>1. q + l \in 1 .. c /\ l + 1 \in 1 .. l2 /\ q - 1 + (l + 1) = q + l
      BY <1>3, <1>4, <2>1, <2>3
    <3>2. read[q + l] = m[l + 1]
      BY <1>6, <1>16, <3>1
    <3>3. CASE k = q + 1
      <4>1. c = q + l
        BY <1>3, <1>4, <2>1, <3>3
      <4>2. current_token = m[l + 1] /\ m[l + 1] \in Tokens
        BY <1>3, <1>8, <3>1, <3>2, <4>1, ElementOfSeq DEF l2
      <4>3. \A i \in 1 .. l : list[i] = m[i]
        <5>1. \A i \in 1 .. l : q - 1 + i \in 1 .. c /\ i \in 1 .. l2
          BY <1>3, <1>4, <2>3, <4>1
        <5> QED BY <1>6, <1>7, <1>16, <5>1
      <4> DEFINE a == Append(list, current_token)
      <4>4. /\ a \in Seq(Tokens) /\ Len(a) = l + 1 /\ a[l + 1] = m[l + 1]
            /\ \A i \in 1 .. l : a[i] = m[i]
        BY <1>3, <4>2, <4>3, AppendFacts DEF l
      <4>5. Len(a) <= Len(m) /\ \A i \in 1 .. Len(a) : a[i] = m[i]
        <5>1. \A i \in 1 .. l + 1 : i \in 1 .. l \/ i = l + 1
          BY <1>3
        <5> QED BY <1>3, <2>3, <4>4, <5>1 DEF l2
      <4> HIDE DEF a
      <4>6. IsList(a, s)
        BY <1>3, <1>15, <4>4, <4>5, PrefixIsList
      <4>7. GoesOn(list, current_token, s)
        BY <1>3, <4>2, <4>6, ListGrows DEF a
      <4> QED BY <3>3, <4>7 DEF q
    <3>4. CASE k # q + 1
      <4>1. q + 1 \in 1 .. k - 1 /\ q + 1 # q /\ TokenAt(s, q + 1, l) = q + l
        BY <1>3, <1>4, <2>1, <3>4 DEF TokenAt, q
      <4>2. read[q + l] = Wanted(p[q + 1], ast.table)
        BY <1>7, <4>1
      <4> QED BY <1>11, <1>13, <2>1, <3>1, <3>2, <4>2
    <3> QED BY <3>3, <3>4
  <2>4. CASE l2 < l
    <3>1. /\ q + l2 \in 1 .. c /\ l2 + 1 \in 1 .. l /\ q - 1 + (l2 + 1) = q + l2
          /\ q + 1 \in q + 1 .. Len(p) /\ q + 1 - 1 + l2 = q + l2
      BY <1>3, <1>4, <2>1, <2>4
    <3>2. read[q + l2] = list[l2 + 1]
      BY <1>7, <3>1
    <3>3. t[q + l2] = Wanted(p[q + 1], n)
      <4> DEFINE i == q + 1
      <4>1. i \in q + 1 .. Len(p) /\ i - 1 + l2 = q + l2
        BY <1>3, <1>4, <3>1
      <4> HIDE DEF i
      <4>2. t[i - 1 + l2] = Wanted(p[i], n)
        BY <1>16, <4>1
      <4> QED BY <4>1, <4>2 DEF i
    <3> QED BY <1>6, <1>11, <1>13, <2>1, <3>1, <3>2, <3>3
  <2> QED BY <1>3, <2>2, <2>3, <2>4
<1> QED BY <1>4, <1>8, <1>19, <1>20
-----------------------------------------------------------------------------
(* The invariant *)

\* The goals of a statement from the k-th on.
Following(s, k) == SubSeq(Pattern(s), k, Len(Pattern(s)))

AtStart == left = <<"statement">> /\ Len(read) = 1 /\ ast = NoAst

\* The parser looks for the k-th goal.  A list begins or goes on with an item; behind it
\* is no token with which it goes on.
AtGoal(s, k, list) ==
    /\ Progress(s, k, list) /\ k <= Len(Pattern(s)) /\ left = Following(s, k)
    /\ k = 1 => Is(s)
    /\ k = ListAt(s) => list = <<>> \/ list[Len(list)].kind = "Comma"
    /\ k = ListAt(s) + 1 => ~GoesOn(list, current_token, s)

\* It is behind a token of an item.
InItem(s, list) ==
    /\ Progress(s, ListAt(s), list) /\ s # "DELETE"
    /\ list # <<>> /\ list[Len(list)].kind # "Comma"

\* It looks for the type of a column.
AtType(list) ==
    /\ InItem("CREATE", list) /\ Begins(list, Len(list))
    /\ left = <<"type", "more">> \o Following("CREATE", ListAt("CREATE") + 1)

\* It looks for a comma; the list goes on with nothing else.
AtMore(s, list) ==
    /\ InItem(s, list) /\ left = <<"more">> \o Following(s, ListAt(s) + 1)
    /\ GoesOn(list, current_token, s) => current_token.kind = "Comma"

Parsing ==
    \/ AtStart
    \/ \E s \in Words, list \in Seq(Tokens), k \in Nat : AtGoal(s, k, list)
    \/ \E list \in Seq(Tokens) : AtType(list)
    \/ \E s \in Words, list \in Seq(Tokens) : AtMore(s, list)

ParserInv ==
    /\ outcome \in {"none", "parsing", "Ok", "Err"}
    /\ outcome # "none" => ReadOK /\ AstOK
    /\ outcome = "parsing" => Parsing
    /\ outcome = "Ok" =>
           \E s \in Words, list \in Seq(Tokens) : Progress(s, Len(Pattern(s)) + 1, list)
    /\ outcome = "Err" => Front(read) \in Beginnings /\ read \notin Beginnings

-----------------------------------------------------------------------------
(* What is left *)

LEMMA FollowingFacts ==
    ASSUME NEW s \in Words
    PROVE  /\ \A k \in 1 .. Len(Pattern(s)) :
                  /\ Following(s, k) \in Seq(Goals) /\ Following(s, k) # <<>>
                  /\ Head(Following(s, k)) = Pattern(s)[k]
                  /\ Tail(Following(s, k)) = Following(s, k + 1)
                  /\ Following(s, k) = <<Pattern(s)[k]>> \o Following(s, k + 1)
           /\ Following(s, Len(Pattern(s)) + 1) = <<>>
<1> DEFINE p == Pattern(s)
           n == Len(p)
<1>1. p \in Seq(Goals) /\ n \in Nat
  BY PatternFacts
<1> HIDE DEF p
<1>2. ASSUME NEW k \in 1 .. n
      PROVE  /\ SubSeq(p, k, n) \in Seq(Goals) /\ SubSeq(p, k, n) # <<>>
             /\ Head(SubSeq(p, k, n)) = p[k] /\ Tail(SubSeq(p, k, n)) = SubSeq(p, k + 1, n)
             /\ SubSeq(p, k, n) = <<p[k]>> \o SubSeq(p, k + 1, n)
  <2>1. n \in k .. n
    BY <1>1
  <2>2. \A i \in k .. n : p[i] \in Goals
    BY <1>1, ElementOfSeq
  <2>3. SubSeq(p, k, n) \in Seq(Goals) /\ Len(SubSeq(p, k, n)) = n - k + 1
    BY <1>1, <2>1, <2>2, SubSeqProperties
  <2>4. SubSeq(p, k, n) # <<>>
    <3>1. n - k + 1 # 0
      BY <1>1
    <3>2. Len(SubSeq(p, k, n)) # 0
      BY <2>3, <3>1
    <3> QED BY <3>2, EmptySeq
  <2>5. Head(SubSeq(p, k, n)) = p[k] /\ Tail(SubSeq(p, k, n)) = SubSeq(p, k + 1, n)
    BY <1>1, <2>1, HeadTailOfSubSeq
  <2>6. SubSeq(p, k, n) = <<p[k]>> \o SubSeq(p, k + 1, n)
    BY <1>1, <2>1, SubSeqRecursiveFirst
  <2> QED BY <2>3, <2>4, <2>5, <2>6
<1>3. SubSeq(p, n + 1, n) = <<>>
  BY <1>1, SubSeqEmpty
<1> QED BY <1>2, <1>3 DEF Following, p

\* The goals in front of the others.
LEMMA InFront ==
    ASSUME NEW S, NEW a \in S, NEW b \in S, NEW x \in Seq(S)
    PROVE  /\ <<a>> \o x # <<>> /\ Head(<<a>> \o x) = a /\ Tail(<<a>> \o x) = x
           /\ <<a, b>> \o x # <<>> /\ Head(<<a, b>> \o x) = a
           /\ Tail(<<a, b>> \o x) = <<b>> \o x
           /\ <<>> \o x = x
<1>1. ASSUME NEW c \in S, NEW y \in Seq(S)
      PROVE  <<c>> \o y # <<>> /\ Head(<<c>> \o y) = c /\ Tail(<<c>> \o y) = y
  <2> DEFINE z == <<c>> \o y
  <2>1. <<c>> \in Seq(S) /\ Len(<<c>>) = 1 /\ <<c>>[1] = c /\ Len(y) \in Nat
    BY LenProperties
  <2>2. /\ z \in Seq(S) /\ Len(z) = 1 + Len(y)
        /\ \A i \in 1 .. 1 : z[i] = <<c>>[i]
        /\ \A i \in 1 .. Len(y) : z[1 + i] = y[i]
    BY <2>1, ConcatFacts
  <2> HIDE DEF z
  <2>3. z # <<>> /\ z[1] = c
    BY <2>1, <2>2
  <2>4. /\ Tail(z) \in Seq(S) /\ Len(Tail(z)) = Len(y)
        /\ \A i \in 1 .. Len(y) : Tail(z)[i] = z[i + 1]
    BY <2>1, <2>2, <2>3, HeadTailProperties
  <2>5. \A i \in 1 .. Len(y) : z[i + 1] = y[i]
    <3>1. \A i \in 1 .. Len(y) : i + 1 = 1 + i
      BY <2>1
    <3> QED BY <2>2, <3>1
  <2>6. Tail(z) = y
    BY <2>4, <2>5, SeqEqual
  <2>7. Head(z) = c
    BY <2>2, <2>3
  <2> QED BY <2>3, <2>6, <2>7 DEF z
<1>2. <<a, b>> \o x = <<a>> \o (<<b>> \o x)
  <2>1. <<a>> \in Seq(S) /\ <<b>> \in Seq(S) /\ <<a>> \o <<b>> = <<a, b>>
    <3> DEFINE z == <<a>> \o <<b>>
               w == <<a, b>>
    <3>1. /\ <<a>> \in Seq(S) /\ Len(<<a>>) = 1 /\ <<a>>[1] = a
          /\ <<b>> \in Seq(S) /\ Len(<<b>>) = 1 /\ <<b>>[1] = b
      OBVIOUS
    <3>2. w \in Seq(S) /\ Len(w) = 2 /\ w[1] = a /\ w[2] = b
      OBVIOUS
    <3>3. /\ z \in Seq(S) /\ Len(z) = 1 + 1
          /\ \A i \in 1 .. 1 : z[i] = <<a>>[i]
          /\ \A i \in 1 .. 1 : z[1 + i] = <<b>>[i]
      BY <3>1, ConcatFacts
    <3> HIDE DEF z, w
    <3>4. z[1] = a /\ z[2] = b
      BY <3>1, <3>3
    <3>5. z = w
      BY <3>2, <3>3, <3>4, SeqEqual
    <3> QED BY <3>1, <3>5 DEF z, w
  <2>2. (<<a>> \o <<b>>) \o x = <<a>> \o (<<b>> \o x)
    BY <2>1, ConcatAssociative
  <2> QED BY <2>1, <2>2
<1>3. <<b>> \o x \in Seq(S)
  BY ConcatProperties
<1>4. <<>> \o x = x
  BY ConcatEmptySeq
<1> QED BY <1>1, <1>2, <1>3, <1>4

\* What the parser looks for next tells where it is.
LEMMA NextGoal ==
    /\ AtStart => left # <<>> /\ Head(left) = "statement"
    /\ \A s \in Words, k \in Nat, list \in Seq(Tokens) :
           AtGoal(s, k, list) =>
               /\ left # <<>> /\ Head(left) = Pattern(s)[k]
               /\ Tail(left) = Following(s, k + 1)
               /\ Pattern(s)[k] \in Goals
    /\ \A list \in Seq(Tokens) :
           AtType(list) =>
               /\ left # <<>> /\ Head(left) = "type"
               /\ Tail(left) = <<"more">> \o Following("CREATE", ListAt("CREATE") + 1)
    /\ \A s \in Words, list \in Seq(Tokens) :
           AtMore(s, list) =>
               /\ left # <<>> /\ Head(left) = "more"
               /\ Tail(left) = Following(s, ListAt(s) + 1)
<1>1. AtStart => left # <<>> /\ Head(left) = "statement"
  BY DEF AtStart
<1>2. ASSUME NEW s \in Words, NEW k \in Nat, NEW list \in Seq(Tokens), AtGoal(s, k, list)
      PROVE  /\ left # <<>> /\ Head(left) = Pattern(s)[k]
             /\ Tail(left) = Following(s, k + 1)
             /\ Pattern(s)[k] \in Goals
  <2>1. k \in 1 .. Len(Pattern(s)) /\ left = Following(s, k)
    BY <1>2, PatternFacts DEF AtGoal, Progress
  <2>2. /\ Following(s, k) # <<>> /\ Head(Following(s, k)) = Pattern(s)[k]
        /\ Tail(Following(s, k)) = Following(s, k + 1)
    BY <2>1, FollowingFacts
  <2>3. Pattern(s)[k] \in Goals
    BY <2>1, PatternFacts
  <2> QED BY <2>1, <2>2, <2>3
<1> DEFINE S == Goals \cup {"type", "more"}
<1>3. ASSUME NEW s \in Words, s # "DELETE"
      PROVE  Following(s, ListAt(s) + 1) \in Seq(S)
  <2>1. ListAt(s) + 1 \in 1 .. Len(Pattern(s))
    BY <1>3, PatternFacts
  <2>2. Following(s, ListAt(s) + 1) \in Seq(Goals)
    BY <2>1, FollowingFacts
  <2> QED BY <2>2, SeqMonotonic
<1>4. "type" \in S /\ "more" \in S
  OBVIOUS
<1> HIDE DEF S
<1>5. ASSUME NEW list \in Seq(Tokens), AtType(list)
      PROVE  /\ left # <<>> /\ Head(left) = "type"
             /\ Tail(left) = <<"more">> \o Following("CREATE", ListAt("CREATE") + 1)
  <2> DEFINE x == Following("CREATE", ListAt("CREATE") + 1)
  <2>1. x \in Seq(S)
    BY <1>3 DEF Words
  <2>2. left = <<"type", "more">> \o x
    BY <1>5 DEF AtType
  <2> HIDE DEF x
  <2>3. left # <<>> /\ Head(left) = "type" /\ Tail(left) = <<"more">> \o x
    BY <1>4, <2>1, <2>2, InFront
  <2> QED BY <2>3 DEF x
<1>6. ASSUME NEW s \in Words, NEW list \in Seq(Tokens), AtMore(s, list)
      PROVE  /\ left # <<>> /\ Head(left) = "more"
             /\ Tail(left) = Following(s, ListAt(s) + 1)
  <2> DEFINE x == Following(s, ListAt(s) + 1)
  <2>1. x \in Seq(S)
    BY <1>3, <1>6 DEF AtMore, InItem
  <2>2. left = <<"more">> \o x
    BY <1>6 DEF AtMore
  <2> HIDE DEF x
  <2>3. left # <<>> /\ Head(left) = "more" /\ Tail(left) = x
    BY <1>4, <2>1, <2>2, InFront
  <2> QED BY <2>3 DEF x
<1> QED BY <1>1, <1>2, <1>5, <1>6

-----------------------------------------------------------------------------
(* Steps *)

LEMMA AdvanceFacts ==
    ASSUME ReadOK, current_token \in Tokens, advance
    PROVE  /\ ReadOK' /\ Len(read') = Len(read) + 1
           /\ \A i \in 1 .. Len(read) : read'[i] = read[i]
<1>1. PICK t \in Tokens \cup {Eof} :
          read' = Append(read, t) /\ (t \in Tokens => Len(read) < MaxTokens)
  <2>1. Eof \notin Tokens
    BY TokenFacts
  <2> QED BY <2>1 DEF advance
<1>2. read \in Seq(Tokens \cup {Eof}) /\ Len(read) \in Nat /\ 1 <= Len(read)
  BY CurrentFacts DEF ReadOK
<1>3. /\ read' \in Seq(Tokens \cup {Eof}) /\ Len(read') = Len(read) + 1
      /\ \A i \in 1 .. Len(read) : read'[i] = read[i]
      /\ read'[Len(read) + 1] = t
  BY <1>1, <1>2, AppendProperties
<1>4. \A i \in 1 .. Len(read) : read[i] \in Tokens
  <2>1. \A i \in 1 .. Len(read) : i \in 1 .. Len(read) - 1 \/ i = Len(read)
    BY <1>2
  <2> QED BY <2>1, CurrentFacts DEF ReadOK
<1>5. read' # <<>>
  BY <1>2, <1>3
<1>6. \A i \in 1 .. Len(read') - 1 : read'[i] \in Tokens
  BY <1>2, <1>3, <1>4
<1>7. \A i \in 1 .. Len(read') : read'[i] \in Tokens => i <= MaxTokens
  <2>1. \A i \in 1 .. Len(read') : i \in 1 .. Len(read) \/ i = Len(read) + 1
    BY <1>2, <1>3
  <2>2. \A i \in 1 .. Len(read) : i <= MaxTokens
    BY <1>4 DEF ReadOK
  <2>3. t \in Tokens => Len(read) + 1 <= MaxTokens
    BY <1>1, <1>2, ParserAssumption
  <2> QED BY <1>3, <2>1, <2>2, <2>3
<1> QED BY <1>3, <1>5, <1>6, <1>7 DEF ReadOK

\* A token that meets the k-th goal takes the parser to the next one.
LEMMA GoalMet ==
    ASSUME NEW s, NEW k \in 1 .. Len(Pattern(s)), NEW list, Progress(s, k, list), ReadOK,
           k # ListAt(s), Len(read') = Len(read) + 1,
           \A i \in 1 .. Len(read) : read'[i] = read[i],
           current_token = Wanted(Pattern(s)[k], ast'.table),
           Pattern(s)[k] = "table" => ast'.table \in Names,
           Pattern(s)[k] # "table" => ast'.table = ast.table,
           ast'.statement = ast.statement, ast'.items = ast.items
    PROVE  Progress(s, k + 1, list)'
<1> DEFINE p == Pattern(s)
           q == ListAt(s)
           l == Len(list)
<1>1. /\ s \in Words /\ list \in Seq(Tokens) /\ l \in Nat
      /\ ast.statement = s /\ IsList(list, s) /\ ast.items = ItemsOf(list)
      /\ k < q \/ s = "DELETE" => list = <<>>
      /\ k < q => l = 0
  BY LenProperties DEF Progress
<1>2. /\ Len(p) \in Nat /\ q \in Nat /\ 2 <= q /\ q <= Len(p) + 1
      /\ TableAt(s) \in Nat /\ TableAt(s) <= Len(p)
      /\ \A i \in 1 .. Len(p) : p[i] = "table" <=> i = TableAt(s)
  BY <1>1, PatternFacts
<1>3. /\ Len(read) = TokenAt(s, k, l) /\ Len(read) \in Nat
      /\ TableAt(s) < k => ast.table \in Names
      /\ \A i \in 1 .. k - 1 : i # q => read[TokenAt(s, i, l)] = Wanted(p[i], ast.table)
      /\ \A i \in 1 .. l : read[q - 1 + i] = list[i]
  BY CurrentFacts DEF Progress
<1>4. current_token = read[Len(read)]
  BY CurrentFacts
<1>5. k \in 1 .. Len(p) /\ k # q
  OBVIOUS
<1>6. /\ current_token = Wanted(p[k], ast'.table)
      /\ p[k] = "table" => ast'.table \in Names
      /\ p[k] # "table" => ast'.table = ast.table
  OBVIOUS
<1> HIDE DEF p, q, l
<1>7. k + 1 \in 1 .. Len(p) + 1
  BY <1>2, <1>5
<1>8. k + 1 < q \/ s = "DELETE" => list = <<>>
  BY <1>1, <1>2, <1>5
<1>9. Len(read') = TokenAt(s, k + 1, l)
  <2>1. Len(read) = IF k < q THEN k ELSE IF k = q THEN k + l ELSE k - 1 + l
    BY <1>3 DEF TokenAt, q
  <2>2. TokenAt(s, k + 1, l) =
            IF k + 1 < q THEN k + 1 ELSE IF k + 1 = q THEN k + 1 + l ELSE k + 1 - 1 + l
    BY DEF TokenAt, q
  <2> QED BY <1>1, <1>2, <1>3, <1>5, <2>1, <2>2
<1>10. TableAt(s) < k + 1 => ast'.table \in Names
  <2>1. CASE TableAt(s) = k
    BY <1>2, <1>5, <1>6, <2>1
  <2>2. CASE TableAt(s) # k
    BY <1>2, <1>3, <1>5, <1>6, <2>2
  <2> QED BY <2>1, <2>2
<1>11. ASSUME NEW i \in 1 .. k, i # q
       PROVE  read'[TokenAt(s, i, l)] = Wanted(p[i], ast'.table)
  <2>1. CASE i = k
    <3>1. TokenAt(s, i, l) = Len(read) /\ Len(read) \in 1 .. Len(read)
      BY <1>1, <1>2, <1>3, <1>5, <2>1 DEF TokenAt, q
    <3> QED BY <1>4, <1>6, <2>1, <3>1
  <2>2. CASE i # k
    <3>1. i \in 1 .. k - 1 /\ i \in 1 .. Len(p)
      BY <1>2, <1>5, <2>2
    <3>2. TokenAt(s, i, l) \in 1 .. Len(read)
      BY <1>1, <1>2, <1>3, <1>5, <3>1 DEF TokenAt, q
    <3>3. Wanted(p[i], ast.table) = Wanted(p[i], ast'.table)
      <4>1. CASE p[i] = "table"
        <5>1. p[k] # "table"
          BY <1>2, <1>5, <2>2, <3>1, <4>1
        <5> QED BY <1>6, <5>1
      <4>2. CASE p[i] # "table"
        BY <4>2 DEF Wanted
      <4> QED BY <4>1, <4>2
    <3> QED BY <1>3, <1>11, <3>1, <3>2, <3>3
  <2> QED BY <2>1, <2>2
<1>12. \A i \in 1 .. l : read'[q - 1 + i] = list[i]
  <2>1. \A i \in 1 .. l : q - 1 + i \in 1 .. Len(read)
    BY <1>1, <1>2, <1>3, <1>5 DEF TokenAt, q
  <2> QED BY <1>3, <2>1
<1>13. \A i \in 1 .. k + 1 - 1 :
           i # q => read'[TokenAt(s, i, l)] = Wanted(p[i], ast'.table)
  <2>1. k + 1 - 1 = k
    BY <1>2, <1>5
  <2> QED BY <1>11, <2>1
<1> QED BY <1>1, <1>7, <1>8, <1>9, <1>10, <1>12, <1>13 DEF Progress, p, q, l

\* So does a token with which the list goes on.
LEMMA ListGoesOn ==
    ASSUME NEW s, NEW list, NEW t \in Tokens, NEW m, m = Append(list, t),
           Progress(s, ListAt(s), list), ReadOK, s # "DELETE",
           current_token = t, GoesOn(list, t, s),
           Len(read') = Len(read) + 1, \A i \in 1 .. Len(read) : read'[i] = read[i],
           ast'.table = ast.table, ast'.statement = ast.statement,
           ast'.items = ItemsOf(m)
    PROVE  Progress(s, ListAt(s), m)'
<1> DEFINE p == Pattern(s)
           q == ListAt(s)
           l == Len(list)
<1>1. /\ s \in Words /\ list \in Seq(Tokens) /\ l \in Nat /\ ast.statement = s
      /\ IsList(list, s) /\ q \in 1 .. Len(p) + 1 /\ (TableAt(s) < q => ast.table \in Names)
  BY LenProperties DEF Progress
<1>2. /\ m \in Seq(Tokens) /\ Len(m) = l + 1 /\ m[l + 1] = t
      /\ \A i \in 1 .. l : m[i] = list[i]
  BY <1>1, AppendFacts
<1>3. IsList(m, s)
  BY <1>1, ListGrows
<1>4. /\ Len(read) = TokenAt(s, q, l) /\ Len(read) \in Nat /\ t = read[Len(read)]
      /\ \A i \in 1 .. q - 1 : i # q => read[TokenAt(s, i, l)] = Wanted(p[i], ast.table)
      /\ \A i \in 1 .. l : read[q - 1 + i] = list[i]
  BY CurrentFacts DEF Progress
<1>5. q \in Nat /\ 2 <= q
  BY <1>1, PatternFacts
<1>6. ~(q < q)
  BY <1>5
<1>7. TokenAt(s, q, l) = q + l /\ TokenAt(s, q, Len(m)) = q + Len(m)
  BY <1>6 DEF TokenAt
<1> HIDE DEF p, q, l
<1>8. Len(read) = q + l /\ Len(read') = TokenAt(s, q, Len(m))
  BY <1>1, <1>2, <1>4, <1>5, <1>7
<1>9. \A i \in 1 .. q - 1 : read'[TokenAt(s, i, Len(m))] = Wanted(p[i], ast'.table)
  <2>1. ASSUME NEW i \in 1 .. q - 1
        PROVE  TokenAt(s, i, Len(m)) = i /\ TokenAt(s, i, l) = i
    <3>1. i < q
      BY <1>5
    <3> QED BY <3>1 DEF TokenAt, q
  <2>2. \A i \in 1 .. q - 1 : i # q /\ i \in 1 .. Len(read)
    BY <1>1, <1>5, <1>8
  <2> QED BY <1>4, <2>1, <2>2
<1>10. ASSUME NEW i \in 1 .. Len(m)
       PROVE  read'[q - 1 + i] = m[i]
  <2>1. CASE i = l + 1
    <3>1. q - 1 + i = Len(read) /\ Len(read) \in 1 .. Len(read)
      BY <1>1, <1>5, <1>8, <2>1
    <3> QED BY <1>2, <1>4, <2>1, <3>1
  <2>2. CASE i # l + 1
    <3>1. i \in 1 .. l /\ q - 1 + i \in 1 .. Len(read)
      BY <1>1, <1>2, <1>5, <1>8, <2>2
    <3> QED BY <1>2, <1>4, <3>1
  <2> QED BY <2>1, <2>2
<1>11. /\ TableAt(s) < q => ast'.table \in Names
       /\ ast'.statement = s /\ ast'.items = ItemsOf(m)
  BY <1>1
<1>12. ~(q < q \/ s = "DELETE")
  BY <1>6 DEF q
<1>13. \A i \in 1 .. q - 1 :
           i # q => read'[TokenAt(s, i, Len(m))] = Wanted(p[i], ast'.table)
  BY <1>9
<1> QED BY <1>1, <1>2, <1>3, <1>8, <1>10, <1>11, <1>12, <1>13 DEF Progress, p, q

\* Behind the list.
LEMMA ListEnds ==
    ASSUME NEW s, NEW list, Progress(s, ListAt(s), list), s # "DELETE"
    PROVE  Progress(s, ListAt(s) + 1, list)
<1> DEFINE q == ListAt(s)
           p == Pattern(s)
           l == Len(list)
<1>1. s \in Words /\ list \in Seq(Tokens) /\ l \in Nat
  BY LenProperties DEF Progress
<1>2. /\ q \in Nat /\ 2 <= q /\ Len(p) \in Nat /\ q < Len(p)
      /\ TableAt(s) \in Nat /\ TableAt(s) # q
  BY <1>1, PatternFacts
<1>3. /\ Len(read) = TokenAt(s, q, l) /\ (TableAt(s) < q => ast.table \in Names)
      /\ \A i \in 1 .. q - 1 : i # q => read[TokenAt(s, i, l)] = Wanted(p[i], ast.table)
  BY DEF Progress
<1> HIDE DEF q, p, l
<1>4. /\ q + 1 \in 1 .. Len(p) + 1 /\ ~(q + 1 < q)
      /\ TableAt(s) < q + 1 => TableAt(s) < q
      /\ \A i \in 1 .. q + 1 - 1 : i # q => i \in 1 .. q - 1
  BY <1>2
<1>5. TokenAt(s, q + 1, l) = TokenAt(s, q, l)
  BY <1>1, <1>2 DEF TokenAt, q
<1> QED BY <1>3, <1>4, <1>5 DEF Progress, q, p, l

\* What is left of a statement is a sequence of goals.
LEMMA FollowingIsLeft ==
    ASSUME NEW s \in Words, NEW k \in 1 .. Len(Pattern(s)) + 1
    PROVE  /\ Following(s, k) \in Seq(Goals) /\ <<>> \o Following(s, k) = Following(s, k)
           /\ Following(s, k) = <<>> <=> k = Len(Pattern(s)) + 1
<1>1. Len(Pattern(s)) \in Nat
  BY PatternFacts
<1>2. CASE k = Len(Pattern(s)) + 1
  <2>1. Following(s, k) = <<>> /\ <<>> \in Seq(Goals)
    BY <1>2, FollowingFacts
  <2>2. <<>> \o Following(s, k) = Following(s, k)
    BY <2>1, ConcatEmptySeq
  <2> QED BY <1>2, <2>1, <2>2
<1>3. CASE k # Len(Pattern(s)) + 1
  <2>1. k \in 1 .. Len(Pattern(s))
    BY <1>1, <1>3
  <2>2. Following(s, k) \in Seq(Goals) /\ Following(s, k) # <<>>
    BY <2>1, FollowingFacts
  <2>3. <<>> \o Following(s, k) = Following(s, k)
    BY <2>2, ConcatEmptySeq
  <2> QED BY <1>3, <2>2, <2>3
<1> QED BY <1>2, <1>3

\* A step that reads and finds nothing leaves what is known of both.
LEMMA NothingRead ==
    ASSUME UNCHANGED <<read, ast>>
    PROVE  /\ ReadOK => ReadOK'
           /\ AstOK => AstOK'
           /\ current_token' = current_token
           /\ \A s, k, list : Progress(s, k, list) => Progress(s, k, list)'
BY DEF ReadOK, AstOK, current_token, Progress

LEMMA AstFacts ==
    ASSUME AstOK, NEW x
    PROVE  /\ [ast EXCEPT !.statement = x] =
                  [statement |-> x, table |-> ast.table, items |-> ast.items]
           /\ [ast EXCEPT !.table = x] =
                  [statement |-> ast.statement, table |-> x, items |-> ast.items]
           /\ [ast EXCEPT !.items = Append(@, x)] =
                  [statement |-> ast.statement, table |-> ast.table,
                   items |-> Append(ast.items, x)]
<1>1. PICK a, b, c : ast = [statement |-> a, table |-> b, items |-> c]
  BY DEF AstOK
<1>2. ast.statement = a /\ ast.table = b /\ ast.items = c
  BY <1>1
<1>3. /\ [ast EXCEPT !.statement = x] = [statement |-> x, table |-> b, items |-> c]
      /\ [ast EXCEPT !.table = x] = [statement |-> a, table |-> x, items |-> c]
      /\ [ast EXCEPT !.items = Append(@, x)] =
             [statement |-> a, table |-> b, items |-> Append(c, x)]
  BY <1>1
<1> QED BY <1>2, <1>3

\* Where the parser is.
LEMMA Where ==
    ASSUME ParserInv, outcome = "parsing"
    PROVE  /\ ReadOK /\ AstOK
           /\ Head(left) = "statement" => AtStart
           /\ Head(left) \in Goals =>
                  \E s \in Words, list \in Seq(Tokens), k \in Nat :
                      /\ AtGoal(s, k, list) /\ Head(left) = Pattern(s)[k]
                      /\ Tail(left) = Following(s, k + 1)
           /\ Head(left) = "type" =>
                  \E list \in Seq(Tokens) :
                      /\ AtType(list)
                      /\ Tail(left) = <<"more">> \o Following("CREATE", ListAt("CREATE") + 1)
           /\ Head(left) = "more" =>
                  \E s \in Words, list \in Seq(Tokens) :
                      AtMore(s, list) /\ Tail(left) = Following(s, ListAt(s) + 1)
<1>1. ReadOK /\ AstOK /\ Parsing
  BY DEF ParserInv
<1>2. "statement" \notin Goals /\ "type" \notin Goals /\ "more" \notin Goals
  BY DEF Goals, Keywords, Marks
<1>3. CASE AtStart
  BY <1>1, <1>2, <1>3, NextGoal
<1>4. ASSUME NEW s \in Words, NEW list \in Seq(Tokens), NEW k \in Nat, AtGoal(s, k, list)
      PROVE  /\ Head(left) \in Goals /\ Head(left) = Pattern(s)[k]
             /\ Tail(left) = Following(s, k + 1)
  BY <1>4, NextGoal
<1>5. ASSUME NEW list \in Seq(Tokens), AtType(list)
      PROVE  /\ Head(left) = "type"
             /\ Tail(left) = <<"more">> \o Following("CREATE", ListAt("CREATE") + 1)
  BY <1>5, NextGoal
<1>6. ASSUME NEW s \in Words, NEW list \in Seq(Tokens), AtMore(s, list)
      PROVE  Head(left) = "more" /\ Tail(left) = Following(s, ListAt(s) + 1)
  BY <1>6, NextGoal
<1>7. CASE \E s \in Words, list \in Seq(Tokens), k \in Nat : AtGoal(s, k, list)
  BY <1>1, <1>2, <1>4, <1>7
<1>8. CASE \E list \in Seq(Tokens) : AtType(list)
  BY <1>1, <1>2, <1>5, <1>8
<1>9. CASE \E s \in Words, list \in Seq(Tokens) : AtMore(s, list)
  BY <1>1, <1>2, <1>6, <1>9
<1> QED BY <1>1, <1>3, <1>7, <1>8, <1>9 DEF Parsing

\* The parser reaches the k-th goal, or the end of the statement.
LEMMA Arrives ==
    ASSUME NEW s, NEW list, NEW k, Progress(s, k, list)', ReadOK', AstOK',
           k # 1, left' = Following(s, k),
           outcome' = IF left' = <<>> THEN "Ok" ELSE "parsing",
           k = ListAt(s) => list = <<>> \/ list[Len(list)].kind = "Comma",
           k = ListAt(s) + 1 => ~GoesOn(list, current_token', s)
    PROVE  ParserInv'
<1>1. s \in Words /\ list \in Seq(Tokens) /\ k \in 1 .. Len(Pattern(s)) + 1
  BY DEF Progress
<1>2. Len(Pattern(s)) \in Nat
  BY <1>1, PatternFacts
<1>3. CASE k = Len(Pattern(s)) + 1
  <2>1. outcome' = "Ok"
    BY <1>1, <1>3, FollowingIsLeft
  <2> QED BY <1>1, <1>3, <2>1 DEF ParserInv
<1>4. CASE k # Len(Pattern(s)) + 1
  <2>1. outcome' = "parsing"
    BY <1>1, <1>4, FollowingIsLeft
  <2>2. k <= Len(Pattern(s)) /\ k \in Nat
    BY <1>1, <1>2, <1>4
  <2>3. AtGoal(s, k, list)'
    BY <2>2 DEF AtGoal
  <2>4. Parsing'
    BY <1>1, <2>2, <2>3 DEF Parsing
  <2> QED BY <2>1, <2>4 DEF ParserInv
<1> QED BY <1>3, <1>4

\* It gives up.
LEMMA GivesUp ==
    ASSUME Fails, ReadOK, AstOK, Front(read) \in Beginnings, read \notin Beginnings
    PROVE  ParserInv'
<1>1. ReadOK' /\ AstOK' /\ read' = read /\ outcome' = "Err"
  BY NothingRead DEF Fails
<1> QED BY <1>1 DEF ParserInv

\* The current token meets the k-th goal.
LEMMA Meets ==
    ASSUME NEW s, NEW k, NEW list, AtGoal(s, k, list), ReadOK, k # ListAt(s),
           current_token \in Tokens, advance, AstOK',
           current_token = Wanted(Pattern(s)[k], ast'.table),
           Pattern(s)[k] = "table" => ast'.table \in Names,
           Pattern(s)[k] # "table" => ast'.table = ast.table,
           ast'.statement = ast.statement, ast'.items = ast.items,
           left' = <<>> \o Following(s, k + 1),
           outcome' = IF left' = <<>> THEN "Ok" ELSE "parsing"
    PROVE  ParserInv'
<1>1. Progress(s, k, list) /\ s \in Words
  BY DEF AtGoal, Progress
<1>2. ListAt(s) \in Nat /\ Len(Pattern(s)) \in Nat
  BY <1>1, PatternFacts
<1>3. /\ k \in 1 .. Len(Pattern(s)) /\ k + 1 \in 1 .. Len(Pattern(s)) + 1 /\ k + 1 # 1
      /\ k + 1 = ListAt(s) => k < ListAt(s)
      /\ k + 1 # ListAt(s) + 1
  BY <1>1, <1>2 DEF AtGoal, Progress
<1>4. /\ ReadOK' /\ Len(read') = Len(read) + 1
      /\ \A i \in 1 .. Len(read) : read'[i] = read[i]
  BY AdvanceFacts
<1> DEFINE j == k + 1
<1>5. Progress(s, j, list)'
  BY <1>1, <1>3, <1>4, GoalMet
<1>6. left' = Following(s, j)
  BY <1>1, <1>3, FollowingIsLeft
<1>7. j = ListAt(s) => list = <<>>
  BY <1>1, <1>3 DEF Progress
<1>8. j # 1 /\ j # ListAt(s) + 1
  BY <1>3
<1> HIDE DEF j
<1> QED BY <1>4, <1>5, <1>6, <1>7, <1>8, Arrives

\* It does not.
LEMMA Misses ==
    ASSUME NEW s, NEW k, NEW list, AtGoal(s, k, list), ReadOK, AstOK, k # ListAt(s),
           current_token.kind #
               IF Pattern(s)[k] = "table" THEN "Identifier" ELSE Pattern(s)[k],
           Fails
    PROVE  ParserInv'
<1>1. Progress(s, k, list) /\ s \in Words /\ k \in 1 .. Len(Pattern(s))
  <2>1. Progress(s, k, list) /\ s \in Words /\ k <= Len(Pattern(s))
        /\ k \in 1 .. Len(Pattern(s)) + 1
    BY DEF AtGoal, Progress
  <2> QED BY <2>1, PatternFacts
<1>2. k # 1
  <2>1. Pattern(s)[1] = s /\ s # "table"
    BY <1>1, PatternFacts DEF Words
  <2> QED BY <2>1 DEF AtGoal, Is
<1>3. k \in 2 .. Len(Pattern(s))
  BY <1>1, <1>2, PatternFacts
<1>4. k = ListAt(s) + 1 => ~GoesOn(list, current_token, s)
  BY DEF AtGoal
<1>5. read \notin Beginnings
  BY <1>1, <1>3, <1>4, NoSentence
<1>6. Front(read) \in Beginnings
  BY <1>1, FrontBegins
<1> QED BY <1>5, <1>6, GivesUp

-----------------------------------------------------------------------------
(* The actions *)

LEMMA SpecialKinds ==
    /\ "Identifier" \notin Keywords \cup Marks /\ "Eof" \notin Keywords \cup Marks
    /\ "table" \notin Keywords \cup Marks /\ "items" \notin Keywords \cup Marks
    /\ \A s : /\ "Eof" \notin ItemKinds(s) /\ "Comma" \notin ItemKinds(s)
              /\ s = "CREATE" => ItemKinds(s) = {"Identifier"}
    /\ Keywords \cup Marks \subseteq Goals /\ "table" \in Goals /\ "items" \in Goals
BY DEF Keywords, Marks, Goals, ItemKinds

LEMMA IsToken ==
    ASSUME ReadOK, current_token.kind # "Eof"
    PROVE  current_token \in Tokens
BY CurrentFacts, TokenFacts

LEMMA NewKeeps ==
    ASSUME New
    PROVE  ParserInv'
<1>1. PICK t \in Tokens \cup {Eof} : read' = <<t>>
  BY DEF New
<1>2. read' \in Seq(Tokens \cup {Eof}) /\ read' # <<>> /\ Len(read') = 1
  BY <1>1
<1>3. \A i \in 1 .. Len(read') - 1 : read'[i] \in Tokens
  BY <1>2
<1>4. \A i \in 1 .. Len(read') : read'[i] \in Tokens => i <= MaxTokens
  BY <1>2, ParserAssumption
<1>5. ReadOK'
  BY <1>2, <1>3, <1>4 DEF ReadOK
<1>6. AstOK'
  BY DEF New, NoAst, AstOK
<1>7. AtStart' /\ outcome' = "parsing"
  BY <1>2 DEF New, AtStart
<1> QED BY <1>5, <1>6, <1>7 DEF ParserInv, Parsing

LEMMA ParseKeeps ==
    ASSUME ParserInv, Parse
    PROVE  ParserInv'
<1>1. ReadOK /\ AstOK /\ AtStart
  BY Where DEF Parse, Seeks
<1>2. left = <<"statement">> /\ Len(read) = 1 /\ ast = NoAst
  BY <1>1 DEF AtStart
<1>3. ASSUME NEW p \in Statements, Is(Head(p)), UNCHANGED read,
             Found(p, [ast EXCEPT !.statement = Head(p)])
      PROVE  ParserInv'
  <2> DEFINE s == Head(p)
  <2>1. s \in Words /\ p = Pattern(s)
    BY StatementsAreWords
  <2>2. /\ p \in Seq(Goals) /\ 1 < ListAt(s) /\ 1 <= TableAt(s) /\ 1 <= Len(p)
        /\ ListAt(s) \in Nat /\ TableAt(s) \in Nat /\ Len(p) \in Nat
    BY <2>1, PatternFacts
  <2>3. ast' = [statement |-> s, table |-> ast.table, items |-> ast.items]
    BY <1>1, <1>3, AstFacts DEF Found
  <2>4. ast'.statement = s /\ ast'.items = <<>> /\ AstOK'
    BY <1>2, <2>3 DEF NoAst, AstOK
  <2>5. left' = p
    <3>1. Tail(left) = <<>>
      BY <1>2
    <3>2. p \o <<>> = p
      BY <2>2, ConcatEmptySeq
    <3> QED BY <1>3, <3>1, <3>2 DEF Found
  <2>6. Following(s, 1) = p
    <3>1. SubSeq(p, 1, Len(p)) = p
      BY <2>2, SubSeqFull
    <3> QED BY <2>1, <3>1 DEF Following
  <2> HIDE DEF s
  <2>7. ReadOK' /\ Is(s)' /\ Len(read') = 1
    <3>1. read' = read
      BY <1>3
    <3>2. current_token' = current_token /\ current_token.kind = s
      BY <1>3 DEF Is, current_token, s
    <3>3. ReadOK'
      BY <1>1, <3>1 DEF ReadOK
    <3> QED BY <1>2, <3>1, <3>2, <3>3 DEF Is
  <2>8. Progress(s, 1, <<>>)'
    <3>1. <<>> \in Seq(Tokens) /\ IsList(<<>>, s) /\ Len(<<>>) = 0
      BY DEF IsList
    <3>2. 1 = TokenAt(s, 1, Len(<<>>))
      BY <2>2 DEF TokenAt
    <3>3. ItemsOf(<<>>) = <<>>
      BY ItemsGrow
    <3>4. 1 \in 1 .. Len(Pattern(s)) + 1 /\ ~(TableAt(s) < 1) /\ 1 .. 1 - 1 = {} /\ 1 .. 0 = {}
      BY <2>1, <2>2
    <3> QED BY <2>1, <2>4, <2>7, <3>1, <3>2, <3>3, <3>4 DEF Progress
  <2>9. 1 # ListAt(s) /\ 1 # ListAt(s) + 1 /\ 1 <= Len(Pattern(s))
    BY <2>1, <2>2
  <2>10. AtGoal(s, 1, <<>>)'
    BY <2>5, <2>6, <2>7, <2>8, <2>9 DEF AtGoal
  <2>11. outcome' = "parsing"
    <3>1. left' # <<>>
      BY <2>2, <2>5
    <3> QED BY <1>3, <3>1 DEF Found
  <2>12. <<>> \in Seq(Tokens) /\ 1 \in Nat
    OBVIOUS
  <2>13. Parsing'
    BY <2>1, <2>10, <2>12 DEF Parsing
  <2> QED BY <2>4, <2>7, <2>11, <2>13 DEF ParserInv
<1>4. ASSUME \A p \in Statements : ~Is(Head(p)), Fails
      PROVE  ParserInv'
  <2>1. current_token.kind \notin Words
    BY <1>4, StatementsAreWords DEF Is
  <2>2. read \notin Beginnings /\ Front(read) \in Beginnings
    BY <1>1, <1>2, <2>1, NoOtherWord, EmptyBegins
  <2> QED BY <1>1, <1>4, <2>2, GivesUp
<1> QED BY <1>3, <1>4 DEF Parse

LEMMA ExpectKeeps ==
    ASSUME ParserInv, Expect
    PROVE  ParserInv'
<1>1. ReadOK /\ AstOK /\ Head(left) \in Keywords \cup Marks
  BY Where DEF Expect, Seeks
<1>2. PICK s \in Words, list \in Seq(Tokens), k \in Nat :
          /\ AtGoal(s, k, list) /\ Head(left) = Pattern(s)[k]
          /\ Tail(left) = Following(s, k + 1)
  BY <1>1, Where, SpecialKinds DEF Expect, Seeks
<1> DEFINE g == Pattern(s)[k]
<1>3. g \in Keywords \cup Marks /\ g # "table" /\ g # "items" /\ g \in Goals
  BY <1>1, <1>2, SpecialKinds
<1>4. k # ListAt(s)
  <2>1. k \in 1 .. Len(Pattern(s))
    <3>1. k <= Len(Pattern(s)) /\ k \in 1 .. Len(Pattern(s)) + 1
      BY <1>2 DEF AtGoal, Progress
    <3> QED BY <3>1, PatternFacts
  <2> QED BY <1>3, <2>1, PatternFacts
<1>5. CASE Is(g) /\ advance /\ Found(<<>>, ast)
  <2>1. current_token.kind = g /\ current_token \in Tokens
    <3>1. current_token.kind = g
      BY <1>5 DEF Is
    <3>2. g # "Eof"
      BY <1>3, SpecialKinds
    <3> QED BY <1>1, <3>1, <3>2, IsToken
  <2>2. current_token = Wanted(g, ast'.table)
    <3>1. current_token = Token(g, g)
      BY <1>3, <2>1, TokenFacts
    <3> QED BY <1>3, <3>1 DEF Wanted
  <2>3. /\ ast' = ast /\ left' = <<>> \o Following(s, k + 1)
        /\ outcome' = IF left' = <<>> THEN "Ok" ELSE "parsing"
    BY <1>2, <1>5 DEF Found
  <2>4. /\ AstOK' /\ ast'.table = ast.table
        /\ ast'.statement = ast.statement /\ ast'.items = ast.items
    BY <1>1, <2>3 DEF AstOK
  <2> QED BY <1>1, <1>2, <1>3, <1>4, <1>5, <2>1, <2>2, <2>3, <2>4, Meets
<1>6. CASE ~Is(g) /\ Fails
  <2>1. current_token.kind # g
    BY <1>6 DEF Is
  <2> QED BY <1>1, <1>2, <1>3, <1>4, <1>6, <2>1, Misses
<1> QED BY <1>2, <1>5, <1>6 DEF Expect

LEMMA TableNameKeeps ==
    ASSUME ParserInv, TableName
    PROVE  ParserInv'
<1>1. ReadOK /\ AstOK /\ Head(left) = "table"
  BY Where DEF TableName, Seeks
<1>2. PICK s \in Words, list \in Seq(Tokens), k \in Nat :
          /\ AtGoal(s, k, list) /\ Head(left) = Pattern(s)[k]
          /\ Tail(left) = Following(s, k + 1)
  BY <1>1, Where, SpecialKinds DEF TableName, Seeks
<1>3. Pattern(s)[k] = "table"
  BY <1>1, <1>2
<1>4. k # ListAt(s)
  <2>1. k \in 1 .. Len(Pattern(s))
    <3>1. k <= Len(Pattern(s)) /\ k \in 1 .. Len(Pattern(s)) + 1
      BY <1>2 DEF AtGoal, Progress
    <3> QED BY <3>1, PatternFacts
  <2> QED BY <1>3, <2>1, PatternFacts
<1>5. CASE Is("Identifier") /\ advance /\ Found(<<>>, [ast EXCEPT !.table = current_token.text])
  <2>1. current_token.kind = "Identifier" /\ current_token \in Tokens
    <3>1. current_token.kind = "Identifier"
      BY <1>5 DEF Is
    <3> QED BY <1>1, <3>1, IsToken
  <2>2. /\ ast' = [statement |-> ast.statement, table |-> current_token.text,
                   items |-> ast.items]
        /\ left' = <<>> \o Following(s, k + 1)
        /\ outcome' = IF left' = <<>> THEN "Ok" ELSE "parsing"
    BY <1>1, <1>2, <1>5, AstFacts DEF Found
  <2>3. AstOK' /\ ast'.table = current_token.text
        /\ ast'.statement = ast.statement /\ ast'.items = ast.items
    BY <2>2 DEF AstOK
  <2>4. ast'.table \in Names /\ current_token = Wanted(Pattern(s)[k], ast'.table)
    BY <1>3, <2>1, <2>3, TokenFacts DEF Wanted
  <2> QED BY <1>1, <1>2, <1>3, <1>4, <1>5, <2>1, <2>2, <2>3, <2>4, Meets
<1>6. CASE ~Is("Identifier") /\ Fails
  <2>1. current_token.kind # "Identifier"
    BY <1>6 DEF Is
  <2> QED BY <1>1, <1>2, <1>3, <1>4, <1>6, <2>1, Misses
<1> QED BY <1>5, <1>6 DEF TableName

\* Behind an item of the list, or its type.
LEMMA BehindItem ==
    ASSUME NEW s \in Words, NEW list \in Seq(Tokens), NEW t \in Tokens,
           NEW m, m = Append(list, t), t.kind # "Comma"
    PROVE  /\ m \in Seq(Tokens) /\ m # <<>> /\ m[Len(m)] = t
           /\ list = <<>> \/ list[Len(list)].kind = "Comma" => Begins(m, Len(m))
           /\ list # <<>> /\ list[Len(list)].kind # "Comma" => ~Begins(m, Len(m))
<1> DEFINE l == Len(list)
<1>1. /\ m \in Seq(Tokens) /\ l \in Nat /\ Len(m) = l + 1 /\ m[l + 1] = t
      /\ \A i \in 1 .. l : m[i] = list[i]
  BY AppendFacts
<1>2. list = <<>> <=> l = 0
  BY EmptySeq
<1> HIDE DEF l
<1>3. l + 1 - 1 = l /\ (l + 1 = 1 <=> l = 0) /\ (l # 0 => l \in 1 .. l) /\ l + 1 # 0
  BY <1>1
<1>4. m # <<>>
  <2>1. Len(<<>>) = 0
    OBVIOUS
  <2> QED BY <1>1, <1>3, <2>1
<1>5. Begins(m, l + 1) <=> l = 0 \/ list[l].kind = "Comma"
  BY <1>1, <1>3 DEF Begins
<1> QED BY <1>1, <1>2, <1>4, <1>5 DEF l

\* There the parser looks for a comma.
LEMMA LooksForMore ==
    ASSUME NEW s, NEW list, Progress(s, ListAt(s), list)', ReadOK', AstOK', s # "DELETE",
           list # <<>>, list[Len(list)].kind # "Comma",
           left' = <<"more">> \o Following(s, ListAt(s) + 1),
           outcome' = IF left' = <<>> THEN "Ok" ELSE "parsing",
           GoesOn(list, current_token', s) => current_token'.kind = "Comma"
    PROVE  ParserInv'
<1>1. s \in Words /\ list \in Seq(Tokens)
  BY DEF Progress
<1>2. AtMore(s, list)'
  BY DEF AtMore, InItem
<1>3. outcome' = "parsing"
  <2>1. left' # <<>>
    <3> DEFINE S == Goals \cup {"more"}
               x == Following(s, ListAt(s) + 1)
    <3>1. x \in Seq(S) /\ "more" \in S
      <4>1. ListAt(s) + 1 \in 1 .. Len(Pattern(s)) + 1
        BY <1>1, PatternFacts
      <4>2. x \in Seq(Goals)
        BY <1>1, <4>1, FollowingIsLeft
      <4> QED BY <4>2, SeqMonotonic
    <3> HIDE DEF S, x
    <3>2. <<"more">> \o x # <<>>
      BY <3>1, InFront
    <3> QED BY <3>2 DEF x
  <2> QED BY <2>1
<1>4. Parsing'
  BY <1>1, <1>2 DEF Parsing
<1> QED BY <1>3, <1>4 DEF ParserInv

LEMMA ItemKeeps ==
    ASSUME ParserInv, Item
    PROVE  ParserInv'
<1>1. ReadOK /\ AstOK /\ Head(left) = "items"
  BY Where DEF Item, Seeks
<1>2. PICK s \in Words, list \in Seq(Tokens), k \in Nat :
          /\ AtGoal(s, k, list) /\ Head(left) = Pattern(s)[k]
          /\ Tail(left) = Following(s, k + 1)
  BY <1>1, Where, SpecialKinds DEF Item, Seeks
<1> DEFINE q == ListAt(s)
           t == current_token
           rest == Following(s, q + 1)
<1>3. k = q /\ s # "DELETE" /\ q # 1 /\ q \in Nat
  <2>1. k \in 1 .. Len(Pattern(s)) /\ Pattern(s)[k] = "items"
    <3>1. k <= Len(Pattern(s)) /\ k \in 1 .. Len(Pattern(s)) + 1
      BY <1>2 DEF AtGoal, Progress
    <3> QED BY <1>1, <1>2, <3>1, PatternFacts
  <2> QED BY <2>1, PatternFacts
<1>4. /\ Progress(s, q, list) /\ Tail(left) = rest
      /\ list = <<>> \/ list[Len(list)].kind = "Comma"
  BY <1>2, <1>3 DEF AtGoal
<1>5. ast.statement = s /\ ast.items = ItemsOf(list)
  BY <1>4 DEF Progress
<1>6. Len(list) = 0 \/ list[Len(list)].kind = "Comma"
  <2>1. Len(<<>>) = 0
    OBVIOUS
  <2> QED BY <1>4, <2>1
<1>7. /\ rest \in Seq(Goals) /\ <<>> \o rest = rest
      /\ q + 1 \in 1 .. Len(Pattern(s)) + 1 /\ q + 1 # 1 /\ q + 1 # q
  <2>1. q + 1 \in 1 .. Len(Pattern(s)) + 1
    BY <1>3, PatternFacts
  <2>2. rest \in Seq(Goals) /\ <<>> \o rest = rest
    BY <2>1, FollowingIsLeft
  <2>3. q + 1 # 1 /\ q + 1 # q
    <3>1. q \in Nat /\ 2 <= q
      BY PatternFacts
    <3> QED BY <3>1
  <2> QED BY <2>1, <2>2, <2>3
<1> HIDE DEF t
<1>8. CASE /\ AtItem /\ advance
           /\ Found(IF Typed THEN <<"type", "more">> ELSE <<"more">>,
                    [ast EXCEPT !.items = Append(@, current_token.text)])
  <2>1. t.kind \in ItemKinds(s) /\ t \in Tokens /\ t.kind # "Comma"
    BY <1>1, <1>5, <1>8, SpecialKinds, IsToken DEF AtItem, t
  <2>2. GoesOn(list, t, s)
    BY <1>6, <2>1 DEF GoesOn
  <2>3. PICK m : m = Append(list, t)
    OBVIOUS
  <2>4. /\ m \in Seq(Tokens) /\ m # <<>> /\ m[Len(m)] = t /\ Begins(m, Len(m))
    BY <1>4, <2>1, <2>3, BehindItem
  <2>5. ast' = [statement |-> s, table |-> ast.table, items |-> Append(ItemsOf(list), t.text)]
    BY <1>1, <1>5, <1>8, AstFacts DEF Found, t
  <2>6. AstOK' /\ ast'.statement = ast.statement /\ ast'.table = ast.table
        /\ ast'.items = ItemsOf(m)
    <3>1. ItemsOf(m) = Append(ItemsOf(list), t.text)
      BY <1>6, <2>1, <2>3, ItemsGrow
    <3> QED BY <1>5, <2>5, <3>1 DEF AstOK
  <2>7. /\ ReadOK' /\ Len(read') = Len(read) + 1
        /\ \A i \in 1 .. Len(read) : read'[i] = read[i]
    BY <1>1, <1>8, <2>1, AdvanceFacts DEF t
  <2>8. Progress(s, q, m)'
    BY <1>1, <1>3, <1>4, <2>1, <2>2, <2>3, <2>6, <2>7, ListGoesOn DEF t
  <2>9. outcome' = IF left' = <<>> THEN "Ok" ELSE "parsing"
    BY <1>8 DEF Found
  <2>10. CASE s = "CREATE"
    <3>1. left' = <<"type", "more">> \o rest
      BY <1>4, <1>5, <1>8, <2>10 DEF Found, Typed
    <3>2. left' # <<>>
      <4> DEFINE S == Goals \cup {"type", "more"}
      <4>1. rest \in Seq(S) /\ "type" \in S /\ "more" \in S
        BY <1>7, SeqMonotonic
      <4> HIDE DEF S, rest
      <4> QED BY <3>1, <4>1, InFront
    <3>3. AtType(m)'
      BY <2>1, <2>4, <2>8, <2>10, <3>1 DEF AtType, InItem
    <3>4. Parsing'
      BY <2>4, <3>3 DEF Parsing
    <3> QED BY <2>6, <2>7, <2>9, <3>2, <3>4 DEF ParserInv
  <2>11. CASE s # "CREATE"
    <3>1. left' = <<"more">> \o rest
      BY <1>4, <1>5, <1>8, <2>11 DEF Found, Typed
    <3>2. GoesOn(m, current_token', s) => current_token'.kind = "Comma"
      <4>1. Len(m) # 0
        BY <2>4, EmptySeq
      <4> QED BY <2>1, <2>4, <2>11, <4>1 DEF GoesOn
    <3> QED BY <1>3, <2>1, <2>4, <2>6, <2>7, <2>8, <2>9, <3>1, <3>2, LooksForMore
  <2> QED BY <2>10, <2>11
<1>9. CASE ~AtItem /\ Found(<<>>, ast) /\ UNCHANGED read
  <2>1. t.kind \notin ItemKinds(s)
    BY <1>5, <1>9 DEF AtItem, t
  <2>2. ~GoesOn(list, t, s)
    BY <1>6, <2>1 DEF GoesOn
  <2>3. /\ left' = rest /\ UNCHANGED <<read, ast>>
        /\ outcome' = IF left' = <<>> THEN "Ok" ELSE "parsing"
    BY <1>4, <1>7, <1>9 DEF Found
  <2> DEFINE j == q + 1
  <2>4. Progress(s, j, list)
    BY <1>3, <1>4, ListEnds
  <2>5. j # 1 /\ j # q /\ left' = Following(s, j)
    BY <1>7, <2>3
  <2> HIDE DEF j
  <2>6. ReadOK' /\ AstOK' /\ current_token' = t /\ Progress(s, j, list)'
    BY <1>1, <2>3, <2>4, NothingRead DEF t
  <2> QED BY <2>2, <2>3, <2>5, <2>6, Arrives
<1> QED BY <1>8, <1>9 DEF Item

LEMMA TypeKeeps ==
    ASSUME ParserInv, Type
    PROVE  ParserInv'
<1>1. ReadOK /\ AstOK /\ Head(left) = "type"
  BY Where DEF Type, Seeks
<1> DEFINE s == "CREATE"
           q == ListAt(s)
           t == current_token
           rest == Following(s, q + 1)
<1>2. PICK list \in Seq(Tokens) : AtType(list) /\ Tail(left) = <<"more">> \o rest
  BY <1>1, Where DEF Type, Seeks
<1>3. /\ Progress(s, q, list) /\ s \in Words /\ s # "DELETE" /\ Begins(list, Len(list))
      /\ list # <<>> /\ list[Len(list)].kind # "Comma"
  BY <1>2 DEF AtType, InItem, Words
<1>4. ast.items = ItemsOf(list)
  BY <1>3 DEF Progress
<1>5. Len(list) # 0
  BY <1>3, EmptySeq
<1>6. /\ left' = <<"more">> \o rest /\ ast' = ast
      /\ outcome' = IF left' = <<>> THEN "Ok" ELSE "parsing"
  <2> DEFINE S == Goals \cup {"more"}
             x == <<"more">> \o rest
  <2>1. x \in Seq(S)
    <3>1. q + 1 \in 1 .. Len(Pattern(s)) + 1
      BY <1>3, PatternFacts
    <3>2. rest \in Seq(Goals)
      BY <1>3, <3>1, FollowingIsLeft
    <3>3. rest \in Seq(S) /\ <<"more">> \in Seq(S)
      BY <3>2, SeqMonotonic
    <3> HIDE DEF S, rest
    <3> QED BY <3>3, ConcatProperties
  <2> HIDE DEF S, x
  <2>2. <<>> \o x = x
    BY <2>1, ConcatEmptySeq
  <2> QED BY <1>2, <2>2 DEF Type, Found, x
<1>7. CASE Is("Identifier") /\ advance
  <2>1. t.kind = "Identifier" /\ t \in Tokens
    <3>1. t.kind = "Identifier"
      BY <1>7 DEF Is
    <3> QED BY <1>1, <3>1, IsToken
  <2>2. GoesOn(list, t, s)
    <3> HIDE DEF t
    <3> QED BY <1>3, <1>5, <2>1 DEF GoesOn
  <2>3. PICK m : m = Append(list, t)
    OBVIOUS
  <2>4. /\ m \in Seq(Tokens) /\ m # <<>> /\ m[Len(m)] = t /\ ~Begins(m, Len(m))
    <3> HIDE DEF s, t
    <3> QED BY <1>3, <2>1, <2>3, BehindItem
  <2>5. ItemsOf(m) = ItemsOf(list)
    <3> HIDE DEF t
    <3> QED BY <1>3, <1>5, <2>1, <2>3, ItemsGrow
  <2>6. AstOK' /\ ast'.statement = ast.statement /\ ast'.table = ast.table
        /\ ast'.items = ItemsOf(m)
    BY <1>1, <1>4, <1>6, <2>5 DEF AstOK
  <2>7. /\ ReadOK' /\ Len(read') = Len(read) + 1
        /\ \A i \in 1 .. Len(read) : read'[i] = read[i]
    BY <1>1, <1>7, <2>1, AdvanceFacts
  <2>8. Progress(s, q, m)'
    <3> HIDE DEF s
    <3> QED BY <1>1, <1>3, <2>1, <2>2, <2>3, <2>6, <2>7, ListGoesOn
  <2>9. GoesOn(m, current_token', s) => current_token'.kind = "Comma"
    <3>1. Len(m) # 0
      BY <2>4, EmptySeq
    <3> QED BY <2>1, <2>4, <3>1 DEF GoesOn
  <2> HIDE DEF s, t
  <2> QED BY <1>3, <1>6, <2>1, <2>4, <2>6, <2>7, <2>8, <2>9, LooksForMore
<1>8. CASE ~Is("Identifier") /\ UNCHANGED read
  <2>1. t.kind # "Identifier"
    BY <1>8 DEF Is
  <2>2. ReadOK' /\ AstOK' /\ current_token' = t /\ Progress(s, q, list)'
    BY <1>1, <1>3, <1>6, <1>8, NothingRead
  <2>3. GoesOn(list, current_token', s) => current_token'.kind = "Comma"
    <3> HIDE DEF t
    <3> QED BY <1>3, <1>5, <2>1, <2>2 DEF GoesOn
  <2> HIDE DEF s, t
  <2> QED BY <1>3, <1>6, <2>2, <2>3, LooksForMore
<1> QED BY <1>7, <1>8 DEF Type

LEMMA MoreKeeps ==
    ASSUME ParserInv, More
    PROVE  ParserInv'
<1>1. ReadOK /\ AstOK /\ Head(left) = "more"
  BY Where DEF More, Seeks
<1>2. PICK s \in Words, list \in Seq(Tokens) :
          AtMore(s, list) /\ Tail(left) = Following(s, ListAt(s) + 1)
  BY <1>1, Where DEF More, Seeks
<1> DEFINE q == ListAt(s)
           t == current_token
           rest == Following(s, q + 1)
<1>3. /\ Progress(s, q, list) /\ s # "DELETE" /\ list # <<>> /\ list[Len(list)].kind # "Comma"
      /\ GoesOn(list, t, s) => t.kind = "Comma"
  BY <1>2 DEF AtMore, InItem
<1>4. ast.items = ItemsOf(list)
  BY <1>3 DEF Progress
<1>5. Len(list) # 0
  BY <1>3, EmptySeq
<1>6. /\ q \in 1 .. Len(Pattern(s)) /\ q + 1 \in 1 .. Len(Pattern(s)) + 1
      /\ q # 1 /\ q + 1 # 1 /\ q + 1 # q /\ q # q + 1
      /\ Pattern(s)[q] = "items"
  BY <1>3, PatternFacts
<1>7. outcome' = (IF left' = <<>> THEN "Ok" ELSE "parsing") /\ ast' = ast
  BY DEF More, Found
<1> HIDE DEF t
<1>8. CASE Is("Comma")
  <2>1. t.kind = "Comma" /\ t \in Tokens /\ advance
    <3>1. t.kind = "Comma" /\ t.kind # "Eof"
      BY <1>8 DEF Is, t
    <3>2. advance
      BY <1>8 DEF More
    <3> QED BY <1>1, <3>1, <3>2, IsToken DEF t
  <2>2. GoesOn(list, t, s)
    BY <1>3, <1>5, <2>1 DEF GoesOn
  <2>3. PICK m : m = Append(list, t)
    OBVIOUS
  <2>4. m[Len(m)] = t
    <3>1. Len(m) = Len(list) + 1 /\ m[Len(list) + 1] = t
      BY <2>1, <2>3, AppendFacts
    <3> QED BY <3>1
  <2>5. ItemsOf(m) = ItemsOf(list)
    BY <1>3, <1>5, <2>1, <2>3, ItemsGrow
  <2>6. AstOK' /\ ast'.statement = ast.statement /\ ast'.table = ast.table
        /\ ast'.items = ItemsOf(m)
    BY <1>1, <1>4, <1>7, <2>5 DEF AstOK
  <2>7. /\ ReadOK' /\ Len(read') = Len(read) + 1
        /\ \A i \in 1 .. Len(read) : read'[i] = read[i]
    BY <1>1, <2>1, AdvanceFacts DEF t
  <2>8. Progress(s, q, m)'
    BY <1>1, <1>3, <2>1, <2>2, <2>3, <2>6, <2>7, ListGoesOn DEF t
  <2>9. left' = Following(s, q)
    <3>1. left' = <<"items">> \o rest
      BY <1>2, <1>8 DEF More, Found
    <3> QED BY <1>6, <3>1, FollowingFacts
  <2> HIDE DEF q
  <2> QED BY <1>6, <1>7, <2>1, <2>4, <2>6, <2>7, <2>8, <2>9, Arrives DEF q
<1>9. CASE ~Is("Comma")
  <2>1. ~GoesOn(list, t, s)
    BY <1>3, <1>9 DEF Is, t
  <2>2. left' = rest /\ UNCHANGED <<read, ast>>
    <3>1. left' = <<>> \o rest /\ UNCHANGED read
      BY <1>2, <1>9 DEF More, Found
    <3> QED BY <1>6, <1>7, <3>1, FollowingIsLeft
  <2> DEFINE j == q + 1
  <2>3. Progress(s, j, list)
    BY <1>3, ListEnds
  <2>4. j # 1 /\ j # q /\ left' = Following(s, j)
    BY <1>6, <2>2
  <2> HIDE DEF j
  <2>5. ReadOK' /\ AstOK' /\ current_token' = t /\ Progress(s, j, list)'
    BY <1>1, <2>2, <2>3, NothingRead DEF t
  <2> QED BY <1>7, <2>1, <2>4, <2>5, Arrives
<1> QED BY <1>8, <1>9

-----------------------------------------------------------------------------
(* The theorems *)

\* The parser is always somewhere in a statement, with what it has read of it in the
\* syntax tree and what the grammar asks for next in front of it.
THEOREM ParserInvariance == Spec => []ParserInv
<1>1. Init => ParserInv
  BY DEF Init, ParserInv
<1>2. ParserInv /\ [Next]_vars => ParserInv'
  <2>1. ASSUME ParserInv, UNCHANGED vars
        PROVE  ParserInv'
    <3>1. UNCHANGED <<read, ast>> /\ left' = left /\ outcome' = outcome
      BY <2>1 DEF vars
    <3>2. /\ ReadOK => ReadOK'
          /\ AstOK => AstOK'
          /\ current_token' = current_token
          /\ \A s, k, list : Progress(s, k, list) => Progress(s, k, list)'
      BY <3>1, NothingRead
    <3>3. Parsing => Parsing'
      BY <3>1, <3>2 DEF Parsing, AtStart, AtGoal, AtType, AtMore, InItem, Is
    <3> QED BY <2>1, <3>1, <3>2, <3>3 DEF ParserInv
  <2> QED BY <2>1, NewKeeps, ParseKeeps, ExpectKeeps, TableNameKeeps, ItemKeeps, TypeKeeps,
             MoreKeeps DEF Next
<1> QED BY <1>1, <1>2, PTL DEF Spec

\* The parser accepts a statement of the grammar, and only that, and says what it says;
\* what it has consumed begins one, and it gives up at the first token with which none
\* goes on.
THEOREM ParsesStatements == Spec => []ParsesTheGrammar
<1>1. ParserInv => ParsesTheGrammar
  <2> SUFFICES ASSUME ParserInv
               PROVE  ParsesTheGrammar
    OBVIOUS
  <2>1. outcome # "none" => ReadOK /\ AstOK
    BY DEF ParserInv
  <2>2. ASSUME outcome = "Ok"
        PROVE  [tokens |-> Front(read), says |-> ast] \in Readings
    BY <2>1, <2>2, FrontReads DEF ParserInv
  <2>3. ASSUME outcome = "parsing"
        PROVE  Front(read) \in Beginnings
    BY <2>1, <2>3, EmptyBegins, FrontBegins
       DEF ParserInv, Parsing, AtStart, AtGoal, AtType, AtMore, InItem
  <2> QED BY <2>2, <2>3 DEF ParserInv, ParsesTheGrammar
<1> QED BY <1>1, ParserInvariance, PTL
=============================================================================
