---------------------------- MODULE Query_proofs -----------------------------
(***************************************************************************)
(* What holds of the query layer: for any tuples, predicates and           *)
(* transactions the join, and for any input, size of the chunks and errors *)
(* the sort implements RowStream; for any tables and plans what the        *)
(* optimizer builds returns what the plan asks for; and the parser takes   *)
(* the statements of the grammar.                                          *)
(***************************************************************************)
EXTENDS MCQuery, SqlParser_proofs, FiniteSetTheorems

-----------------------------------------------------------------------------
(* NestedLoopJoin *)

\* What is shown now has been shown since init, and what was shown all the time is.
ShownIsSeen ==
    \A s \in Join!Sides :
        /\ steady[s] \subseteq Join!Shown[s]
        /\ joining # "idle" \/ leftTuple # Join!NoTuple => Join!Shown[s] \subseteq seen[s]

\* A call of next has a left tuple, and meets the right child where it was left.
LeftIsCurrent ==
    /\ joining \in {"left", "right"} => leftTuple # Join!NoTuple
    /\ joining # "init" /\ leftTuple # Join!NoTuple => leftTuple \in seen["left"]
    /\ joining \in {"idle", "right"} /\ leftTuple # Join!NoTuple => cursor["left"] = leftTuple
    /\ joining = "left" => leftTuple <= cursor["left"] /\ Join!Exhausted("right")
    /\ joining = "init" => cursor["right"] = 0

\* The left tuples passed over were not shown all the time.
PassedOver(p) ==
    \/ joining = "left" /\ leftTuple < p /\ p <= cursor["left"]
    \/ joining = "init" /\ p <= cursor["left"]
SkippedWereHidden == \A p \in steady["left"] : ~PassedOver(p)

\* The pairs the join has come to, while it is at a left tuple.
Met(r) == r[1] < leftTuple \/ (r[1] = leftTuple /\ r[2] <= cursor["right"])

\* Every pair that was returned has been met, and every pair met whose tuples were
\* shown all the time, if it matches, was returned.
MetAreReturned ==
    /\ joining = "init" => pairs = {}
    /\ joining # "init" /\ leftTuple # Join!NoTuple =>
           /\ \A r \in pairs : Met(r)
           /\ \A r \in Join!Matching(steady) : Met(r) => r \in pairs
    /\ joining = "idle" /\ leftTuple = Join!NoTuple => Join!Matching(steady) \subseteq pairs

NoneIsLast == joined = None => joining = "idle" /\ leftTuple = Join!NoTuple

JoinInv ==
    /\ Join!TypeOK
    /\ ShownIsSeen
    /\ LeftIsCurrent
    /\ SkippedWereHidden
    /\ MetAreReturned
    /\ NoneIsLast

-----------------------------------------------------------------------------
(* The inputs, and what is shown of them *)

LEMMA QueryFacts ==
    ASSUME NEW q \in Queries
    PROVE  /\ q.matches \subseteq Nat \X Nat
           /\ \A s \in Join!Sides : /\ q.tuples[s] \in Seq(Join!Headers)
                                    /\ Len(q.tuples[s]) \in Nat
                                    /\ DOMAIN q.tuples[s] = 1 .. Len(q.tuples[s])
<1>1. /\ q.matches \subseteq Nat \X Nat
      /\ q.tuples \in [Join!Sides -> Seq(Join!Headers)]
  BY QueriesAssumption DEF Sides, Headers, INVALID_TXN_ID, Join!Sides, Join!Headers,
         Join!INVALID_TXN_ID
<1>2. \A s \in Seq(Join!Headers) : Len(s) \in Nat /\ DOMAIN s = 1 .. Len(s)
  OBVIOUS
<1> QED BY <1>1, <1>2

LEMMA ShownFacts ==
    \A s \in Join!Sides : Join!Shown[s] \subseteq Join!Positions(s)
BY DEF Join!Shown

LEMMA ShownStays ==
    ASSUME UNCHANGED <<status, query>>
    PROVE  Join!Shown' = Join!Shown
BY DEF Join!Shown, Join!Visible, Join!Positions

\* The facts about the state that every proof below starts from.
LEMMA JoinFacts ==
    ASSUME Join!TypeOK
    PROVE  /\ query.matches \subseteq Nat \X Nat
           /\ \A s \in Join!Sides : /\ Len(query.tuples[s]) \in Nat
                                    /\ Join!Positions(s) = 1 .. Len(query.tuples[s])
                                    /\ cursor[s] \in Nat
                                    /\ cursor[s] <= Len(query.tuples[s])
                                    /\ steady[s] \subseteq seen[s]
                                    /\ seen[s] \subseteq 1 .. Len(query.tuples[s])
           /\ leftTuple \in Nat
           /\ leftTuple <= Len(query.tuples["left"])
           /\ "left" \in Join!Sides /\ "right" \in Join!Sides
<1>1. query \in Queries
  BY DEF Join!TypeOK
<1>2. \A s \in Join!Sides : /\ Join!Positions(s) = 1 .. Len(query.tuples[s])
                            /\ Len(query.tuples[s]) \in Nat
  BY <1>1, QueryFacts DEF Join!Positions
<1>3. "left" \in Join!Sides /\ "right" \in Join!Sides
  BY DEF Join!Sides
<1>4. leftTuple \in Nat /\ leftTuple <= Len(query.tuples["left"])
  BY <1>2, <1>3 DEF Join!TypeOK
<1> QED BY <1>1, <1>2, <1>3, <1>4, QueryFacts DEF Join!TypeOK

-----------------------------------------------------------------------------
(* The steps of the executor that leave steady and seen alone *)

Quiet == UNCHANGED <<status, query, steady, seen>>

LEMMA QuietFacts ==
    ASSUME Quiet
    PROVE  /\ Join!Shown' = Join!Shown
           /\ Join!Matching(steady)' = Join!Matching(steady)
           /\ \A s \in Join!Sides : Join!Positions(s)' = Join!Positions(s)
BY ShownStays DEF Quiet, Join!Matching, Join!Positions

LEMMA PassOverKeeps ==
    ASSUME JoinInv, NEW s \in Join!Sides, Join!PassOver(s), Quiet
    PROVE  JoinInv'
<1> USE DEF JoinInv, Quiet
<1>1. /\ Join!Asks(s) /\ cursor[s] < Len(query.tuples[s])
      /\ cursor[s] + 1 \notin Join!Shown[s]
      /\ cursor' = [cursor EXCEPT ![s] = @ + 1]
      /\ UNCHANGED <<joining, leftTuple, joined, pairs>>
  BY JoinFacts DEF Join!PassOver, Join!Exhausted, Join!Candidate
<1>2. cursor[s] + 1 \notin steady[s]
  BY <1>1 DEF ShownIsSeen
<1>3. Join!TypeOK'
  BY <1>1, JoinFacts, QuietFacts DEF Join!TypeOK
<1>4. ShownIsSeen'
  BY <1>1, QuietFacts DEF ShownIsSeen
<1>5. \/ s = "left" /\ joining \in {"init", "left"}
      \/ s = "right" /\ joining = "right"
  BY <1>1 DEF Join!Asks, Join!Sides
<1>6. \A z \in Join!Sides : cursor'[z] = IF z = s THEN cursor[z] + 1 ELSE cursor[z]
  BY <1>1 DEF Join!TypeOK
<1>7. LeftIsCurrent'
  BY <1>1, <1>5, <1>6, JoinFacts DEF LeftIsCurrent, Join!Exhausted
<1>8. SkippedWereHidden'
  BY <1>1, <1>2, <1>5, <1>6, JoinFacts DEF SkippedWereHidden, PassedOver
<1>9. MetAreReturned'
  <2>1. \A r \in Join!Matching(steady) : Met(r)' => Met(r)
    BY <1>1, <1>2, <1>5, <1>6, JoinFacts DEF Met, Join!Matching, Join!Sides
  <2>2. \A r \in Nat \X Nat : Met(r) => Met(r)'
    BY <1>1, <1>5, <1>6, JoinFacts DEF Met
  <2>3. pairs \subseteq Nat \X Nat
    BY DEF Join!TypeOK
  <2> QED BY <1>1, <1>5, <2>1, <2>2, <2>3, QuietFacts DEF MetAreReturned, Join!NoTuple
<1>10. NoneIsLast'
  BY <1>1 DEF NoneIsLast
<1> QED BY <1>3, <1>4, <1>7, <1>8, <1>9, <1>10

LEMMA JoinInitReturnsKeeps ==
    ASSUME JoinInv, Join!InitReturns, Quiet
    PROVE  JoinInv'
<1> USE DEF JoinInv, Quiet
<1>1. joining = "init" /\ joining' = "idle" /\ UNCHANGED <<joined, pairs>>
  BY DEF Join!InitReturns
<1>2. CASE Join!Exhausted("left") /\ leftTuple' = Join!NoTuple /\ UNCHANGED cursor
  <2>1. cursor["left"] = Len(query.tuples["left"])
    BY <1>2 DEF Join!Exhausted
  <2>2. steady["left"] = {}
    BY <1>1, <2>1, JoinFacts DEF SkippedWereHidden, PassedOver
  <2>3. Join!TypeOK'
    BY <1>1, <1>2, JoinFacts, QuietFacts DEF Join!TypeOK, Join!NoTuple
  <2>4. ShownIsSeen'
    BY <1>1, <1>2, QuietFacts DEF ShownIsSeen
  <2>5. MetAreReturned'
    BY <1>1, <1>2, <2>2, QuietFacts DEF MetAreReturned, Join!Matching
  <2> QED BY <1>1, <1>2, <2>3, <2>4, <2>5
          DEF LeftIsCurrent, SkippedWereHidden, PassedOver, NoneIsLast, Join!NoTuple
<1>3. CASE /\ ~Join!Exhausted("left") /\ Join!Candidate("left")
           /\ cursor' = [cursor EXCEPT !["left"] = @ + 1]
           /\ leftTuple' = cursor'["left"]
  <2>1. /\ cursor["left"] < Len(query.tuples["left"])
        /\ cursor["left"] + 1 \in Join!Shown["left"]
        /\ leftTuple' = cursor["left"] + 1
        /\ cursor'["left"] = cursor["left"] + 1
        /\ cursor'["right"] = cursor["right"]
    BY <1>3, JoinFacts DEF Join!Exhausted, Join!Candidate, Join!TypeOK
  <2>2. Join!TypeOK'
    BY <1>1, <1>3, <2>1, JoinFacts, QuietFacts DEF Join!TypeOK
  <2>3. ShownIsSeen'
    BY <1>1, QuietFacts DEF ShownIsSeen
  <2>4. LeftIsCurrent'
    BY <1>1, <2>1, JoinFacts DEF LeftIsCurrent, ShownIsSeen, Join!NoTuple
  <2>5. MetAreReturned'
    <3>1. cursor["right"] = 0 /\ pairs = {}
      BY <1>1 DEF LeftIsCurrent, MetAreReturned
    <3>2. \A r \in Join!Matching(steady) : ~Met(r)'
      <4>1. \A p \in steady["left"] : p > cursor["left"] /\ p \in Nat
        BY <1>1, JoinFacts DEF SkippedWereHidden, PassedOver
      <4>2. \A p \in steady["right"] : p > 0 /\ p \in Nat
        BY JoinFacts
      <4> QED BY <2>1, <3>1, <4>1, <4>2, JoinFacts DEF Met, Join!Matching
    <3> QED BY <1>1, <2>1, <3>1, <3>2, JoinFacts, QuietFacts DEF MetAreReturned, Join!NoTuple
  <2> QED BY <1>1, <2>1, <2>2, <2>3, <2>4, <2>5
          DEF SkippedWereHidden, PassedOver, NoneIsLast
<1> QED BY <1>2, <1>3 DEF Join!InitReturns

LEMMA CallNextKeeps ==
    ASSUME JoinInv, Join!CallNext, Quiet
    PROVE  JoinInv'
<1> USE DEF JoinInv, Quiet
<1>1. joining = "idle" /\ UNCHANGED <<query, cursor, leftTuple>>
  BY DEF Join!CallNext
<1>2. CASE leftTuple = Join!NoTuple /\ Join!ReturnNone
  <2>1. Join!TypeOK'
    BY <1>1, <1>2, QuietFacts DEF Join!TypeOK, Join!ReturnNone
  <2>2. ShownIsSeen' /\ LeftIsCurrent' /\ SkippedWereHidden' /\ NoneIsLast'
    BY <1>1, <1>2, QuietFacts
       DEF Join!ReturnNone, ShownIsSeen, LeftIsCurrent, SkippedWereHidden, PassedOver,
           NoneIsLast
  <2>3. MetAreReturned'
    BY <1>1, <1>2, QuietFacts DEF Join!ReturnNone, MetAreReturned
  <2> QED BY <2>1, <2>2, <2>3
<1>3. CASE leftTuple # Join!NoTuple /\ joining' = "right" /\ UNCHANGED <<joined, pairs>>
  <2>1. Join!TypeOK'
    BY <1>1, <1>3, QuietFacts DEF Join!TypeOK
  <2>2. ShownIsSeen' /\ LeftIsCurrent' /\ SkippedWereHidden' /\ NoneIsLast'
    BY <1>1, <1>3, QuietFacts
       DEF ShownIsSeen, LeftIsCurrent, SkippedWereHidden, PassedOver, NoneIsLast
  <2>3. MetAreReturned'
    BY <1>1, <1>3, QuietFacts DEF MetAreReturned, Met
  <2> QED BY <2>1, <2>2, <2>3
<1> QED BY <1>2, <1>3 DEF Join!CallNext

\* What the right child returned is a position that is shown, and it is met next.
LEMMA RightFacts ==
    ASSUME JoinInv, Join!RightReturns
    PROVE  /\ joining = "right" /\ leftTuple # Join!NoTuple
           /\ cursor["right"] + 1 \in Join!Shown["right"]
           /\ cursor["right"] < Len(query.tuples["right"])
           /\ cursor'["right"] = cursor["right"] + 1
           /\ cursor'["left"] = cursor["left"]
           /\ cursor' \in [Join!Sides -> Nat]
           /\ leftTuple' = leftTuple /\ query' = query
BY JoinFacts
   DEF JoinInv, Join!RightReturns, Join!Exhausted, Join!Candidate, Join!TypeOK, LeftIsCurrent

LEMMA RightReturnsKeeps ==
    ASSUME JoinInv, Join!RightReturns, Quiet
    PROVE  JoinInv'
<1> DEFINE pair == <<leftTuple, cursor["right"] + 1>>
<1> USE DEF JoinInv, Quiet
<1>1. pair \in Nat \X Nat
  BY JoinFacts
<1>2. \/ /\ pair \in query.matches
         /\ joining' = "idle" /\ joined' = pair /\ pairs' = pairs \cup {pair}
      \/ pair \notin query.matches /\ UNCHANGED <<joining, joined, pairs>>
  BY DEF Join!RightReturns
<1>3. Join!TypeOK'
  <2>1. \A s \in Join!Sides : cursor'[s] <= Len(query.tuples[s])
    BY RightFacts, JoinFacts DEF Join!Sides
  <2>2. joining' \in {"idle", "right"}
    BY <1>2, RightFacts
  <2>3. joined' \in Nat \X Nat \cup {NoRow, None} /\ pairs' \subseteq Nat \X Nat
    BY <1>1, <1>2 DEF Join!TypeOK
  <2> HIDE DEF pair
  <2> QED BY <2>1, <2>2, <2>3, RightFacts, QuietFacts DEF Join!TypeOK
<1>4. ShownIsSeen' /\ LeftIsCurrent' /\ SkippedWereHidden'
  BY <1>2, RightFacts, QuietFacts
     DEF ShownIsSeen, LeftIsCurrent, SkippedWereHidden, PassedOver
<1>5. \A r \in Nat \X Nat : Met(r)' <=> Met(r) \/ r = pair
  BY RightFacts, JoinFacts DEF Met
<1>6. pairs \subseteq Nat \X Nat /\ Join!Matching(steady) \subseteq query.matches
  BY DEF Join!TypeOK, Join!Matching
<1>7. MetAreReturned'
  <2>1. \A r \in pairs : Met(r)
    BY RightFacts DEF MetAreReturned
  <2>2. \A r \in Join!Matching(steady) : Met(r) => r \in pairs
    BY RightFacts DEF MetAreReturned
  <2>3. joining' # "init" /\ leftTuple' # Join!NoTuple /\ pairs' \subseteq pairs \cup {pair}
        /\ pairs \subseteq pairs'
    BY <1>2, RightFacts
  <2>4. pair \in query.matches => pair \in pairs'
    BY <1>2
  <2> HIDE DEF pair
  <2>5. \A r \in pairs' : Met(r)'
    BY <1>1, <1>5, <1>6, <2>1, <2>3
  <2>6. \A r \in Join!Matching(steady) : Met(r)' => r \in pairs'
    BY <1>1, <1>5, <1>6, <2>2, <2>3, <2>4, JoinFacts
  <2> QED BY <2>3, <2>5, <2>6, QuietFacts DEF MetAreReturned
<1>8. NoneIsLast'
  BY <1>1, <1>2, RightFacts, AnswersAssumption DEF NoneIsLast
<1> QED BY <1>3, <1>4, <1>7, <1>8

LEMMA RightIsExhaustedKeeps ==
    ASSUME JoinInv, Join!RightIsExhausted, Quiet
    PROVE  JoinInv'
<1> USE DEF JoinInv, Quiet
<1>1. /\ joining = "right" /\ Join!Exhausted("right") /\ joining' = "left"
      /\ UNCHANGED <<query, cursor, leftTuple, joined, pairs>>
  BY DEF Join!RightIsExhausted
<1>2. leftTuple # Join!NoTuple /\ cursor["left"] = leftTuple
  BY <1>1 DEF LeftIsCurrent
<1>3. Join!TypeOK'
  BY <1>1, QuietFacts DEF Join!TypeOK
<1>4. ShownIsSeen' /\ MetAreReturned' /\ NoneIsLast'
  BY <1>1, <1>2, QuietFacts DEF ShownIsSeen, MetAreReturned, Met, NoneIsLast
<1>5. LeftIsCurrent' /\ SkippedWereHidden'
  BY <1>1, <1>2, JoinFacts DEF LeftIsCurrent, SkippedWereHidden, PassedOver, Join!Exhausted
<1> QED BY <1>3, <1>4, <1>5

\* At the next left tuple, or at none, everything that could be met was returned.
LEMMA RoundIsComplete ==
    ASSUME JoinInv, joining = "left"
    PROVE  /\ leftTuple # Join!NoTuple
           /\ \A r \in pairs : r[1] <= leftTuple
           /\ \A r \in Join!Matching(steady) : r[1] <= cursor["left"] => r \in pairs
<1>1. leftTuple # Join!NoTuple /\ leftTuple <= cursor["left"]
      /\ cursor["right"] = Len(query.tuples["right"])
  BY DEF JoinInv, LeftIsCurrent, Join!Exhausted
<1>2. pairs \subseteq Nat \X Nat /\ \A r \in pairs : Met(r)
  BY <1>1 DEF JoinInv, Join!TypeOK, MetAreReturned
<1>3. \A r \in Join!Matching(steady) : r[1] <= cursor["left"] => r \in pairs
  <2> SUFFICES ASSUME NEW r \in Join!Matching(steady), r[1] <= cursor["left"]
               PROVE  r \in pairs
    OBVIOUS
  <2>1. /\ r[1] \in steady["left"] /\ r[2] \in steady["right"]
        /\ r[1] \in Nat /\ r[2] \in Nat /\ r[2] <= Len(query.tuples["right"])
    BY JoinFacts DEF JoinInv, Join!Matching
  <2>2. r[1] <= leftTuple
    BY <2>1, JoinFacts DEF JoinInv, SkippedWereHidden, PassedOver
  <2>3. Met(r)
    BY <1>1, <2>1, <2>2, JoinFacts DEF Met, JoinInv
  <2> QED BY <1>1, <2>3 DEF JoinInv, MetAreReturned
<1> QED BY <1>1, <1>2, <1>3, JoinFacts DEF Met, JoinInv

LEMMA LeftReturnsKeeps ==
    ASSUME JoinInv, Join!LeftReturns, Quiet
    PROVE  JoinInv'
<1> USE DEF JoinInv, Quiet
<1>1. /\ joining = "left" /\ joining' = "right"
      /\ cursor["left"] < Len(query.tuples["left"])
      /\ cursor["left"] + 1 \in Join!Shown["left"]
      /\ cursor' = [left |-> cursor["left"] + 1, right |-> 0]
      /\ leftTuple' = cursor["left"] + 1
      /\ UNCHANGED <<query, joined, pairs>>
  BY JoinFacts DEF Join!LeftReturns, Join!NextLeft, Join!Exhausted, Join!Candidate
<1>2. leftTuple # Join!NoTuple /\ leftTuple <= cursor["left"]
  BY <1>1 DEF LeftIsCurrent
<1>3. Join!TypeOK'
  <2>1. cursor' \in [Join!Sides -> Nat]
    BY <1>1, JoinFacts DEF Join!Sides
  <2>2. \A s \in Join!Sides : cursor'[s] <= Len(query.tuples[s])
    BY <1>1, JoinFacts DEF Join!Sides
  <2>3. leftTuple' \in 0 .. Len(query.tuples["left"])
    BY <1>1, JoinFacts
  <2> QED BY <1>1, <2>1, <2>2, <2>3, QuietFacts DEF Join!TypeOK
<1>4. ShownIsSeen'
  BY <1>1, QuietFacts DEF ShownIsSeen
<1>5. LeftIsCurrent'
  BY <1>1, JoinFacts DEF LeftIsCurrent, ShownIsSeen, Join!NoTuple
<1>6. SkippedWereHidden' /\ NoneIsLast'
  BY <1>1 DEF SkippedWereHidden, PassedOver, NoneIsLast
<1>7. MetAreReturned'
  <2>1. \A r \in pairs : Met(r)'
    BY <1>1, <1>2, RoundIsComplete, JoinFacts DEF Met, Join!TypeOK
  <2>2. \A r \in Join!Matching(steady) : Met(r)' => r[1] <= cursor["left"]
    <3>1. \A r \in Join!Matching(steady) : r[1] \in Nat /\ r[2] \in Nat /\ r[2] > 0
      BY JoinFacts DEF Join!Matching
    <3> QED BY <1>1, <3>1, JoinFacts DEF Met
  <2> QED BY <1>1, <2>1, <2>2, RoundIsComplete, QuietFacts DEF MetAreReturned
<1> QED BY <1>3, <1>4, <1>5, <1>6, <1>7

LEMMA LeftIsExhaustedFacts ==
    ASSUME JoinInv, Join!LeftIsExhausted
    PROVE  Join!Matching(steady) \subseteq pairs
<1>1. joining = "left" /\ cursor["left"] = Len(query.tuples["left"])
  BY DEF Join!LeftIsExhausted, Join!Exhausted
<1>2. \A r \in Join!Matching(steady) : r[1] <= cursor["left"]
  BY <1>1, JoinFacts DEF Join!Matching, JoinInv
<1> QED BY <1>1, <1>2, RoundIsComplete

LEMMA LeftIsExhaustedKeeps ==
    ASSUME JoinInv, Join!LeftIsExhausted, Quiet
    PROVE  JoinInv'
<1> USE DEF JoinInv, Quiet
<1>1. /\ joining = "left" /\ joining' = "idle" /\ leftTuple' = Join!NoTuple /\ joined' = None
      /\ UNCHANGED <<query, cursor, pairs>>
  BY DEF Join!LeftIsExhausted, Join!ReturnNone
<1>2. Join!TypeOK'
  BY <1>1, JoinFacts, QuietFacts DEF Join!TypeOK, Join!NoTuple
<1>3. ShownIsSeen' /\ LeftIsCurrent' /\ SkippedWereHidden' /\ NoneIsLast'
  BY <1>1, QuietFacts
     DEF ShownIsSeen, LeftIsCurrent, SkippedWereHidden, PassedOver, NoneIsLast
<1>4. MetAreReturned'
  BY <1>1, LeftIsExhaustedFacts, QuietFacts DEF MetAreReturned
<1> QED BY <1>2, <1>3, <1>4

-----------------------------------------------------------------------------
(* The steps that change what was shown *)

LEMMA ShownIsTyped ==
    ASSUME Join!TypeOK
    PROVE  Join!Shown \in [Join!Sides -> SUBSET Nat]
<1>1. \A s \in Join!Sides : Join!Shown[s] \subseteq Nat
  BY JoinFacts, ShownFacts
<1> QED BY <1>1 DEF Join!Shown

\* What a call of init begins with.
LEMMA JoinCallInitFacts ==
    ASSUME Join!CallInit, Join!Observe
    PROVE  /\ joining = "idle" /\ joining' = "init"
           /\ cursor' = [s \in Join!Sides |-> 0]
           /\ joined' = NoRow /\ pairs' = {}
           /\ steady' = Join!Shown' /\ seen' = Join!Shown'
           /\ UNCHANGED <<query, leftTuple>>
BY DEF Join!CallInit, Join!Observe

LEMMA JoinCallInitKeeps ==
    ASSUME JoinInv, Join!CallInit, Join!Observe, UNCHANGED status
    PROVE  JoinInv'
<1> USE DEF JoinInv
<1>1. Join!Shown' = Join!Shown
  BY JoinCallInitFacts, ShownStays
<1>2. Join!TypeOK'
  <2>1. cursor' \in [Join!Sides -> Nat] /\ \A s \in Join!Sides : cursor'[s] = 0
    BY JoinCallInitFacts
  <2>2. \A s \in Join!Sides : Join!Positions(s)' = Join!Positions(s)
    BY JoinCallInitFacts DEF Join!Positions
  <2> QED BY <1>1, <2>1, <2>2, JoinCallInitFacts, ShownIsTyped, ShownFacts, JoinFacts
             DEF Join!TypeOK
<1>3. ShownIsSeen' /\ MetAreReturned'
  BY <1>1, JoinCallInitFacts DEF ShownIsSeen, MetAreReturned
<1>4. LeftIsCurrent'
  BY JoinCallInitFacts, JoinFacts DEF LeftIsCurrent
<1>5. SkippedWereHidden'
  <2>1. \A p \in steady'["left"] : p \in Nat /\ p > 0
    BY <1>1, JoinCallInitFacts, ShownFacts, JoinFacts
  <2> QED BY <2>1, JoinCallInitFacts, JoinFacts DEF SkippedWereHidden, PassedOver
<1>6. NoneIsLast'
  BY JoinCallInitFacts, AnswersAssumption DEF NoneIsLast
<1> QED BY <1>2, <1>3, <1>4, <1>5, <1>6

\* What other threads do to what was shown.
LEMMA OtherThreadFacts ==
    ASSUME JoinInv, Join!OtherThread, Join!Observe
    PROVE  /\ UNCHANGED <<Join!executor, pairs>>
           /\ status' \in [Ids -> {"unused", "active", "committed", "aborted"}]
           /\ {steady', seen'} \subseteq [Join!Sides -> SUBSET Nat]
           /\ \A s \in Join!Sides : /\ steady'[s] \subseteq steady[s]
                                    /\ seen[s] \subseteq seen'[s]
                                    /\ steady'[s] \subseteq Join!Shown'[s]
                                    /\ joining # "idle" \/ leftTuple # Join!NoTuple =>
                                           Join!Shown'[s] \subseteq seen'[s]
                                    /\ steady'[s] \subseteq seen'[s]
                                    /\ seen'[s] \subseteq Join!Positions(s)
<1> USE DEF JoinInv
<1>1. UNCHANGED <<Join!executor, pairs>>
  BY DEF Join!OtherThread
<1>2. /\ UNCHANGED <<query, joining, leftTuple>>
      /\ \A s \in Join!Sides : Join!Positions(s)' = Join!Positions(s)
  BY <1>1 DEF Join!executor, Join!Positions
<1>3. status' \in [Ids -> {"unused", "active", "committed", "aborted"}]
  BY DEF Join!OtherThread, Join!TypeOK, Join!Transactions!Begin, Join!Transactions!Commit,
         Join!Transactions!Abort, Join!Transactions!Moves
<1>4. \A s \in Join!Sides : /\ Join!Shown'[s] \subseteq Join!Positions(s)
                            /\ Join!Positions(s) \subseteq Nat
  BY <1>2, JoinFacts DEF Join!Shown
<1>5. CASE UNCHANGED status
  <2>1. steady' = steady /\ seen' = seen
    BY <1>2, <1>5 DEF Join!Observe
  <2>2. Join!Shown' = Join!Shown
    BY <1>2, <1>5, ShownStays
  <2> QED BY <1>1, <1>3, <2>1, <2>2 DEF Join!TypeOK, ShownIsSeen
<1>6. CASE ~UNCHANGED status
  <2>1. /\ steady' = [s \in Join!Sides |-> steady[s] \cap Join!Shown'[s]]
        /\ seen' = [s \in Join!Sides |-> seen[s] \cup Join!Shown'[s]]
    BY <1>2, <1>6 DEF Join!Observe
  <2>2. \A s \in Join!Sides : steady[s] \subseteq seen[s] /\ seen[s] \subseteq Join!Positions(s)
    BY DEF Join!TypeOK
  <2>3. \A s \in Join!Sides : /\ steady'[s] = steady[s] \cap Join!Shown'[s]
                              /\ seen'[s] = seen[s] \cup Join!Shown'[s]
    BY <2>1
  <2>4. \A s \in Join!Sides : steady'[s] \subseteq Nat /\ seen'[s] \subseteq Nat
    BY <1>4, <2>2, <2>3
  <2>5. {steady', seen'} \subseteq [Join!Sides -> SUBSET Nat]
    BY <2>1, <2>4
  <2> QED BY <1>1, <1>3, <1>4, <2>2, <2>3, <2>5
<1> QED BY <1>5, <1>6

LEMMA OtherThreadKeeps ==
    ASSUME JoinInv, Join!OtherThread, Join!Observe
    PROVE  JoinInv'
<1> USE DEF JoinInv
<1>1. UNCHANGED <<query, joining, cursor, leftTuple, joined, pairs>>
  BY OtherThreadFacts DEF Join!executor
<1>2. \A s \in Join!Sides : Join!Positions(s)' = Join!Positions(s)
  BY <1>1 DEF Join!Positions
<1>3. Join!TypeOK'
  BY <1>1, <1>2, OtherThreadFacts DEF Join!TypeOK
<1>4. ShownIsSeen'
  BY <1>1, OtherThreadFacts DEF ShownIsSeen
<1>5. LeftIsCurrent'
  BY <1>1, OtherThreadFacts DEF LeftIsCurrent, Join!Exhausted, Join!Sides
<1>6. SkippedWereHidden'
  BY <1>1, OtherThreadFacts DEF SkippedWereHidden, PassedOver, Join!Sides
<1>7. /\ Join!Matching(steady') \subseteq Join!Matching(steady)
      /\ Join!Matching(steady)' = Join!Matching(steady')
  BY <1>1, OtherThreadFacts DEF Join!Matching, Join!Sides
<1>8. MetAreReturned' /\ NoneIsLast'
  BY <1>1, <1>7 DEF MetAreReturned, Met, NoneIsLast
<1> QED BY <1>3, <1>4, <1>5, <1>6, <1>8

LEMMA JoinStartsRight ==
    ASSUME Join!Init
    PROVE  JoinInv
<1> USE DEF Join!Init
<1>1. query \in Queries
  OBVIOUS
<1>2. Join!TypeOK
  <2>1. status \in [Ids -> {"unused", "active", "committed", "aborted"}]
    BY DEF Join!Transactions!Init
  <2>2. \A s \in Join!Sides : Len(query.tuples[s]) \in Nat /\ cursor[s] = 0
    BY <1>1, QueryFacts
  <2> QED BY <2>1, <2>2 DEF Join!TypeOK, Join!NoTuple, Join!Nowhere, Join!Sides
<1>3. ShownIsSeen /\ LeftIsCurrent /\ SkippedWereHidden
  BY DEF ShownIsSeen, LeftIsCurrent, SkippedWereHidden, Join!Nowhere, Join!Sides
<1>4. MetAreReturned
  BY DEF MetAreReturned, Join!Matching, Join!Nowhere, Join!Sides
<1>5. NoneIsLast
  BY DEF NoneIsLast
<1> QED BY <1>2, <1>3, <1>4, <1>5 DEF JoinInv

-----------------------------------------------------------------------------
(* Invariance *)

\* A step of the executor other than the call of init leaves steady and seen alone.
LEMMA RunIsQuiet ==
    ASSUME JoinInv, Join!CallNext \/ Join!Run, Join!Observe, UNCHANGED status
    PROVE  Quiet
<1>1. ~(joining = "idle" /\ joining' = "init")
  BY DEF Join!CallNext, Join!Run, Join!ReturnNone, Join!PassOver, Join!Asks, Join!InitReturns,
         Join!RightReturns, Join!RightIsExhausted, Join!LeftReturns, Join!LeftIsExhausted
<1>2. UNCHANGED query
  BY DEF Join!CallNext, Join!Run, Join!PassOver, Join!InitReturns, Join!RightReturns,
         Join!RightIsExhausted, Join!LeftReturns, Join!LeftIsExhausted
<1> QED BY <1>1, <1>2 DEF Join!Observe, Quiet

\* The inductive invariant of the join holds of every behaviour.
THEOREM JoinInvariance == Join!Spec => []JoinInv
<1>1. Join!Init => JoinInv
  BY JoinStartsRight
<1>2. JoinInv /\ [Join!Next]_(Join!vars) => JoinInv'
  <2> SUFFICES ASSUME JoinInv, [Join!Next]_(Join!vars)
               PROVE  JoinInv'
    OBVIOUS
  <2>1. CASE Join!OtherThread /\ Join!Observe
    BY <2>1, OtherThreadKeeps
  <2>2. CASE Join!CallInit /\ UNCHANGED status /\ Join!Observe
    BY <2>2, JoinCallInitKeeps
  <2>3. CASE (Join!CallNext \/ Join!Run) /\ UNCHANGED status /\ Join!Observe
    <3>1. Quiet
      BY <2>3, RunIsQuiet
    <3> QED BY <2>3, <3>1, CallNextKeeps, PassOverKeeps, JoinInitReturnsKeeps,
               RightReturnsKeeps, RightIsExhaustedKeeps, LeftReturnsKeeps,
               LeftIsExhaustedKeeps
               DEF Join!Run
  <2>4. CASE UNCHANGED Join!vars
    <3>1. Quiet /\ UNCHANGED <<joining, cursor, leftTuple, joined, pairs>>
      BY <2>4 DEF Join!vars, Join!executor, Quiet
    <3>2. Join!Shown' = Join!Shown
      BY <3>1, QuietFacts
    <3> QED BY <3>1, <3>2, QuietFacts
            DEF JoinInv, Join!TypeOK, ShownIsSeen, LeftIsCurrent, SkippedWereHidden, PassedOver,
                MetAreReturned, Met, NoneIsLast, Join!Exhausted, Quiet
  <2> QED BY <2>1, <2>2, <2>3, <2>4 DEF Join!Next, Join!Call
<1> QED BY <1>1, <1>2, PTL DEF Join!Spec

\* The variables of the join keep their types.
THEOREM JoinTypes == Join!Spec => []Join!TypeOK
BY JoinInvariance, PTL DEF JoinInv

-----------------------------------------------------------------------------
(* The join implements RowStream *)

LEMMA MatchingFacts ==
    ASSUME Join!TypeOK
    PROVE  /\ Join!Matching(steady) \subseteq Join!Matching(seen)
           /\ Join!Matching(seen) \subseteq Nat \X Nat
BY JoinFacts DEF Join!Matching

\* A call of init opens the stream.
LEMMA JoinInitOpens ==
    ASSUME JoinInv, Join!CallInit, Join!Observe, UNCHANGED status
    PROVE  Join!Stream!Open
<1>1. JoinInv'
  BY JoinCallInitKeeps
<1>2. /\ Join!Matching(seen)' \subseteq Nat \X Nat
      /\ Join!Matching(steady)' \subseteq Join!Matching(seen)'
  <2>1. Join!TypeOK'
    BY <1>1 DEF JoinInv
  <2>2. /\ query'.matches \subseteq Nat \X Nat
        /\ \A s \in Join!Sides : steady'[s] \subseteq seen'[s]
    BY <2>1, QueriesAssumption DEF Join!TypeOK
  <2> QED BY <2>2 DEF Join!Matching, Join!Sides
<1> QED BY <1>2, JoinCallInitFacts DEF Join!Stream!Open

\* What other threads do lets in more rows and excuses others.
LEMMA OthersChange ==
    ASSUME JoinInv, Join!OtherThread, Join!Observe
    PROVE  Join!Stream!Change
<1>1. UNCHANGED <<query, joined, pairs>>
  BY OtherThreadFacts DEF Join!executor
<1>2. /\ Join!Matching(seen) \subseteq Join!Matching(seen)'
      /\ Join!Matching(steady)' \subseteq Join!Matching(steady)
      /\ Join!Matching(seen)' \subseteq query.matches
  BY <1>1, OtherThreadFacts DEF Join!Matching, Join!Sides
<1>3. query.matches \subseteq Nat \X Nat
  BY JoinFacts DEF JoinInv
<1>4. Join!InOrder' = Join!InOrder
  BY <1>1 DEF Join!InOrder, Join!Precedes
<1> QED BY <1>1, <1>2, <1>3, <1>4 DEF Join!Stream!Change

\* A pair the join returns is the next row of the stream.
LEMMA PairIsNext ==
    ASSUME JoinInv, Join!RightReturns, Quiet, joined' # joined \/ pairs' # pairs
    PROVE  \E r \in Join!Matching(seen) : Join!Stream!Return(r)
<1> DEFINE pair == <<leftTuple, cursor["right"] + 1>>
<1> USE DEF JoinInv
<1>1. /\ pair \in query.matches /\ joining' = "idle"
      /\ joined' = pair /\ pairs' = pairs \cup {pair}
  BY DEF Join!RightReturns
<1>2. pair \in Join!Matching(seen)
  BY <1>1, RightFacts DEF Join!Matching, LeftIsCurrent, ShownIsSeen, Join!Sides
<1>3. pair \in Nat \X Nat /\ pairs \subseteq Nat \X Nat
  BY JoinFacts DEF Join!TypeOK
<1>4. \A r \in pairs : Met(r)
  BY RightFacts DEF MetAreReturned
<1>5. pair \notin pairs
  BY <1>4, JoinFacts DEF Met
<1>6. \A q \in pairs : <<pair, q>> \notin Join!InOrder
  BY <1>3, <1>4, JoinFacts DEF Met, Join!InOrder, Join!Precedes
<1>7. joined # None
  BY RightFacts DEF NoneIsLast
<1>8. Join!InOrder' = Join!InOrder /\ Join!Matching(seen)' = Join!Matching(seen)
      /\ Join!Matching(steady)' = Join!Matching(steady)
  BY DEF Quiet, Join!InOrder, Join!Precedes, Join!Matching
<1> HIDE DEF pair
<1>9. Join!Stream!Return(pair)
  BY <1>1, <1>2, <1>5, <1>6, <1>7, <1>8 DEF Join!Stream!Return
<1> QED BY <1>2, <1>9

\* None ends the stream.
LEMMA JoinNoneEnds ==
    ASSUME JoinInv, Quiet, Join!LeftIsExhausted \/ (Join!CallNext /\ leftTuple = Join!NoTuple)
    PROVE  Join!Stream!End
<1>1. Join!Matching(steady) \subseteq pairs
  BY LeftIsExhaustedFacts DEF JoinInv, MetAreReturned, Join!CallNext
<1>2. joined' = None /\ pairs' = pairs
  BY DEF Join!LeftIsExhausted, Join!CallNext, Join!ReturnNone
<1> QED BY <1>1, <1>2 DEF Join!Stream!End, Quiet, Join!InOrder, Join!Precedes, Join!Matching

LEMMA JoinStutters ==
    ASSUME Quiet, UNCHANGED <<joined, pairs>>
    PROVE  UNCHANGED Join!Stream!vars
BY DEF Quiet, Join!Stream!vars, Join!InOrder, Join!Precedes, Join!Matching

\* However transactions commit while the join runs: each pair comes at most once, in
\* order, if it matches and was shown at some time, and all that were shown all the
\* time come before None.
LEMMA JoinStreams == Join!Spec => Join!JoinIsARowStream
<1>1. Join!Init => Join!Stream!Init
  <2> SUFFICES ASSUME Join!Init
               PROVE  Join!Stream!Init
    OBVIOUS
  <2>1. Join!Matching(seen) = {} /\ Join!Matching(steady) = {}
    BY DEF Join!Init, Join!Matching, Join!Nowhere, Join!Sides
  <2> QED BY <2>1 DEF Join!Init, Join!Stream!Init
<1>2. JoinInv /\ [Join!Next]_(Join!vars) => [Join!Stream!Next]_(Join!Stream!vars)
  <2> SUFFICES ASSUME JoinInv, [Join!Next]_(Join!vars)
               PROVE  [Join!Stream!Next]_(Join!Stream!vars)
    OBVIOUS
  <2>1. CASE Join!OtherThread /\ Join!Observe
    BY <2>1, OthersChange DEF Join!Stream!Next
  <2>2. CASE Join!CallInit /\ UNCHANGED status /\ Join!Observe
    BY <2>2, JoinInitOpens DEF Join!Stream!Next
  <2>3. CASE (Join!CallNext \/ Join!Run) /\ UNCHANGED status /\ Join!Observe
    <3>1. Quiet
      BY <2>3, RunIsQuiet
    <3>2. CASE UNCHANGED <<joined, pairs>>
      BY <3>1, <3>2, JoinStutters
    <3>3. CASE Join!RightReturns /\ (joined' # joined \/ pairs' # pairs)
      BY <3>1, <3>3, PairIsNext DEF Join!Stream!Next
    <3>4. CASE Join!LeftIsExhausted \/ (Join!CallNext /\ leftTuple = Join!NoTuple)
      BY <3>1, <3>4, JoinNoneEnds DEF Join!Stream!Next
    <3>5. \/ UNCHANGED <<joined, pairs>> \/ Join!RightReturns \/ Join!LeftIsExhausted
          \/ Join!CallNext /\ leftTuple = Join!NoTuple
      BY <2>3
         DEF Join!Run, Join!CallNext, Join!PassOver, Join!InitReturns, Join!RightIsExhausted,
             Join!LeftReturns
    <3> QED BY <3>2, <3>3, <3>4, <3>5
  <2>4. CASE UNCHANGED Join!vars
    <3>1. Quiet /\ UNCHANGED <<joined, pairs>>
      BY <2>4 DEF Join!vars, Join!executor, Quiet
    <3> QED BY <3>1, JoinStutters
  <2> QED BY <2>1, <2>2, <2>3, <2>4 DEF Join!Next, Join!Call
<1> QED BY <1>1, <1>2, JoinInvariance, PTL
           DEF Join!Spec, Join!JoinIsARowStream, Join!Stream!Spec
-----------------------------------------------------------------------------
(* ExternalMergeSort *)

\* What the phases of a sort have behind them.
PhasesFit ==
    /\ sorting = "new" => input = <<>>
    /\ sorting \in {"new", "reading"} => opened = 0 /\ heap = {}
    /\ sorting \in {"reading", "opening"} => tuples = {}
    /\ sorting \in {"opening", "idle"} => chunk = {} /\ taken = Len(input)
    /\ sorting = "idle" => opened = Len(runs)
    /\ sorted = None => sorting \in {"new", "idle"} /\ heap = {}

\* A tuple that was taken is in one place: in memory, in a file, in the heap or returned.
TakenAreSomewhere ==
    \A p \in Sort!Tuples :
        \/ p > taken \/ p \in chunk \/ p \in tuples
        \/ \E i \in DOMAIN runs : p \in runs[i]
        \/ \E e \in heap : e.tuple = p
RunsAreApart ==
    \A i \in DOMAIN runs :
        /\ \A p \in runs[i] : p <= taken /\ p \notin chunk \cup tuples
        /\ \A j \in DOMAIN runs \ {i} : runs[i] \cap runs[j] = {}
HeapIsApart ==
    \A e \in heap :
        /\ e.tuple \notin tuples
        /\ \A i \in DOMAIN runs : e.tuple \notin runs[i]
        /\ \A f \in heap : f.tuple = e.tuple => f = e

\* The heap has a tuple of every file that was opened, unless nothing more of it can
\* be read, and it comes before what is left of the file.
OpenedAreInHeap ==
    \A i \in 1 .. opened : runs[i] \subseteq lost \/ \E e \in heap : e.run_idx = i
HeapIsAhead ==
    \A e \in heap :
        /\ \A p \in runs[e.run_idx] : input[e.tuple] <= input[p]
        /\ \A q \in tuples : input[q] <= input[e.tuple]

SortInv ==
    /\ Sort!TypeOK
    /\ PhasesFit
    /\ \A p \in chunk : p <= taken
    /\ TakenAreSomewhere
    /\ RunsAreApart
    /\ HeapIsApart
    /\ OpenedAreInHeap
    /\ HeapIsAhead

-----------------------------------------------------------------------------
\* The instance has a Cardinality of its own.
LEMMA SortCardinality == \A S : Sort!Cardinality(S) = Cardinality(S)
BY DEF Sort!Cardinality, Cardinality

LEMMA SortFacts ==
    ASSUME Sort!TypeOK
    PROVE  /\ Len(input) \in Nat
           /\ Sort!Tuples = 1 .. Len(input)
           /\ Sort!Tuples \subseteq Nat
           /\ \A p \in Sort!Tuples : input[p] \in Nat
           /\ taken \in Nat
           /\ Len(runs) \in Nat
           /\ DOMAIN runs = 1 .. Len(runs)
           /\ \A i \in DOMAIN runs : runs[i] \subseteq Sort!Tuples
           /\ opened \in Nat
           /\ IsFiniteSet(chunk) /\ Cardinality(chunk) \in Nat
<1>1. input \in Seq(Nat)
  <2>1. <<>> \in Seq(Nat)
    OBVIOUS
  <2> QED BY <2>1, SortAssumption DEF Sort!TypeOK
<1>2. Len(input) \in Nat /\ Sort!Tuples = 1 .. Len(input)
  BY <1>1 DEF Sort!Tuples
<1>3. \A p \in Sort!Tuples : input[p] \in Nat
  BY <1>1, <1>2
<1>4. /\ Len(runs) \in Nat /\ DOMAIN runs = 1 .. Len(runs)
      /\ \A i \in DOMAIN runs : runs[i] \subseteq Sort!Tuples
  BY DEF Sort!TypeOK
<1>5. IsFiniteSet(chunk)
  <2>1. IsFiniteSet(Sort!Tuples)
    BY <1>2, FS_Interval
  <2> QED BY <2>1, FS_Subset DEF Sort!TypeOK
<1>6. Cardinality(chunk) \in Nat
  BY <1>5, FS_CardinalityType
<1> QED BY <1>2, <1>3, <1>4, <1>5, <1>6 DEF Sort!TypeOK

-----------------------------------------------------------------------------
(* The first loop of init *)

LEMMA SortCallInitKeeps ==
    ASSUME SortInv, Sort!CallInit
    PROVE  SortInv'
<1>1. /\ input' \in Inputs /\ sorting' = "reading" /\ taken' = 0 /\ chunk' = {}
      /\ runs' = <<>> /\ heap' = {} /\ opened' = 0
      /\ sorted' = NoRow /\ tuples' = {} /\ lost' = {}
  BY DEF Sort!CallInit, Sort!Cleared
<1>2. Len(input') \in Nat /\ Sort!Tuples' = 1 .. Len(input')
  <2>1. input' \in Seq(Nat)
    BY <1>1, SortAssumption
  <2> QED BY <2>1 DEF Sort!Tuples
<1>3. Sort!TypeOK'
  BY <1>1, <1>2, FS_EmptySet, SortCardinality, SortAssumption DEF Sort!TypeOK
<1>4. PhasesFit'
  BY <1>1, AnswersAssumption DEF PhasesFit
<1>5. TakenAreSomewhere'
  BY <1>1, <1>2 DEF TakenAreSomewhere
<1>6. RunsAreApart' /\ HeapIsApart' /\ OpenedAreInHeap' /\ HeapIsAhead'
  BY <1>1 DEF RunsAreApart, HeapIsApart, OpenedAreInHeap, HeapIsAhead
<1> QED BY <1>1, <1>3, <1>4, <1>5, <1>6 DEF SortInv

\* A chunk that is written is in the file behind those before it.
LEMMA FlushedFacts ==
    ASSUME Sort!TypeOK, NEW batch \in SUBSET Sort!Tuples
    PROVE  /\ Sort!Flushed(batch) \in Seq(SUBSET Sort!Tuples)
           /\ Len(Sort!Flushed(batch)) = Len(runs) + 1
           /\ DOMAIN Sort!Flushed(batch) = 1 .. Len(runs) + 1
           /\ \A i \in 1 .. Len(runs) : Sort!Flushed(batch)[i] = runs[i]
           /\ Sort!Flushed(batch)[Len(runs) + 1] = batch
<1>1. runs \in Seq(SUBSET Sort!Tuples)
  BY DEF Sort!TypeOK
<1>2. Sort!Flushed(batch) \in Seq(SUBSET Sort!Tuples) /\ Len(Sort!Flushed(batch)) = Len(runs) + 1
  BY <1>1, AppendProperties DEF Sort!Flushed
<1> QED BY <1>1, <1>2, AppendProperties DEF Sort!Flushed

LEMMA TakeTupleKeeps ==
    ASSUME SortInv, Sort!TakeTuple
    PROVE  SortInv'
<1> DEFINE filled == chunk \cup {taken + 1}
<1> USE DEF SortInv
<1>1. /\ sorting = "reading" /\ taken < Len(input) /\ taken' = taken + 1
      /\ \/ /\ Cardinality(filled) >= chunk_size
            /\ runs' = Sort!Flushed(filled) /\ chunk' = {}
         \/ /\ ~(Cardinality(filled) >= chunk_size)
            /\ chunk' = filled /\ UNCHANGED runs
      /\ UNCHANGED <<input, sorting, opened, heap, sorted, tuples, lost>>
  BY SortCardinality DEF Sort!TakeTuple, Sort!ghosts
<1>2. opened = 0 /\ heap = {} /\ tuples = {} /\ sorted # None
  BY <1>1 DEF PhasesFit
<1>3. filled \in SUBSET Sort!Tuples /\ Sort!Tuples' = Sort!Tuples
  BY <1>1, SortFacts DEF Sort!TypeOK, Sort!Tuples
<1>4. Cardinality(filled) \in Nat
  BY SortFacts, FS_AddElement, FS_CardinalityType
<1>5. \A p \in filled : p <= taken + 1 /\ p \in Nat
  BY <1>3, SortFacts
<1>6. taken + 1 \in filled /\ chunk \subseteq filled
      /\ \A p \in filled : p \in chunk \/ p = taken + 1
  OBVIOUS
<1> HIDE DEF filled
<1>7. Sort!TypeOK'
  <2>1. taken' \in 0 .. Len(input)
    BY <1>1, SortFacts
  <2>2. chunk' \subseteq Sort!Tuples /\ Cardinality(chunk') < chunk_size
    <3>1. CASE chunk' = {}
      BY <3>1, FS_EmptySet, SortAssumption
    <3>2. CASE chunk' = filled /\ ~(Cardinality(filled) >= chunk_size)
      BY <1>3, <1>4, <3>2, SortAssumption
    <3> QED BY <1>1, <3>1, <3>2
  <2>3. runs' \in Seq(SUBSET Sort!Tuples) /\ opened \in 0 .. Len(runs')
    BY <1>1, <1>2, <1>3, FlushedFacts, SortFacts DEF Sort!TypeOK
  <2> QED BY <1>1, <1>2, <1>3, <2>1, <2>2, <2>3, SortCardinality DEF Sort!TypeOK
<1>8. PhasesFit'
  BY <1>1, <1>2 DEF PhasesFit
<1>9. \A p \in chunk' : p <= taken'
  BY <1>1, <1>5
<1>10. CASE runs' = Sort!Flushed(filled) /\ chunk' = {}
  <2>1. DOMAIN runs' = 1 .. Len(runs) + 1 /\ runs'[Len(runs) + 1] = filled
        /\ \A i \in 1 .. Len(runs) : runs'[i] = runs[i]
    BY <1>3, <1>10, FlushedFacts
  <2>2. TakenAreSomewhere'
    <3>1. \A p \in Sort!Tuples : p > taken => p = taken + 1 \/ p > taken + 1
      BY SortFacts
    <3>2. \A p \in filled : \E i \in DOMAIN runs' : p \in runs'[i]
      BY <2>1, SortFacts
    <3>3. \A p, i : i \in DOMAIN runs /\ p \in runs[i] => i \in DOMAIN runs' /\ p \in runs'[i]
      BY <2>1, SortFacts
    <3> QED BY <1>1, <1>2, <1>3, <1>6, <3>1, <3>2, <3>3 DEF TakenAreSomewhere
  <2>3. RunsAreApart'
    <3>1. \A i \in DOMAIN runs : runs[i] \cap filled = {}
      BY <1>5, <1>6, SortFacts DEF RunsAreApart
    <3>2. \A i \in DOMAIN runs : \A p \in runs[i] : p <= taken + 1
      BY SortFacts DEF RunsAreApart
    <3> QED BY <1>1, <1>2, <1>5, <1>10, <2>1, <3>1, <3>2, SortFacts DEF RunsAreApart
  <2> QED BY <1>1, <1>2, <1>7, <1>8, <1>9, <2>2, <2>3
          DEF HeapIsApart, OpenedAreInHeap, HeapIsAhead
<1>11. CASE chunk' = filled /\ runs' = runs
  <2>1. TakenAreSomewhere'
    <3>1. \A p \in Sort!Tuples : p > taken => p = taken + 1 \/ p > taken + 1
      BY SortFacts
    <3> QED BY <1>1, <1>2, <1>3, <1>6, <1>11, <3>1 DEF TakenAreSomewhere
  <2>2. RunsAreApart'
    <3>1. \A i \in DOMAIN runs : \A p \in runs[i] : p \in Nat /\ p <= taken /\ p \notin chunk
      BY SortFacts DEF RunsAreApart
    <3>2. \A i \in DOMAIN runs : \A p \in runs[i] : p <= taken + 1 /\ p \notin filled
      BY <1>6, <3>1, SortFacts
    <3> QED BY <1>1, <1>2, <1>11, <3>2 DEF RunsAreApart
  <2> QED BY <1>1, <1>2, <1>7, <1>8, <1>9, <1>11, <2>1, <2>2
          DEF HeapIsApart, OpenedAreInHeap, HeapIsAhead
<1> QED BY <1>1, <1>10, <1>11

LEMMA TakeNoneKeeps ==
    ASSUME SortInv, Sort!TakeNone
    PROVE  SortInv'
<1> USE DEF SortInv
<1>1. /\ sorting = "reading" /\ sorting' = "opening" /\ taken = Len(input) /\ chunk' = {}
      /\ \/ chunk = {} /\ runs' = runs
         \/ runs' = Sort!Flushed(chunk)
      /\ UNCHANGED <<input, taken, opened, heap, sorted, tuples, lost>>
  BY DEF Sort!TakeNone, Sort!ghosts
<1>2. opened = 0 /\ heap = {} /\ tuples = {} /\ sorted # None
  BY <1>1 DEF PhasesFit
<1>3. chunk \in SUBSET Sort!Tuples /\ Sort!Tuples' = Sort!Tuples
  BY <1>1 DEF Sort!TypeOK, Sort!Tuples
<1>4. Sort!TypeOK'
  <2>1. runs' \in Seq(SUBSET Sort!Tuples) /\ opened \in 0 .. Len(runs')
    BY <1>1, <1>2, <1>3, FlushedFacts, SortFacts DEF Sort!TypeOK
  <2> QED BY <1>1, <1>2, <1>3, <2>1, FS_EmptySet, SortCardinality, SortAssumption
             DEF Sort!TypeOK
<1>5. PhasesFit'
  BY <1>1, <1>2 DEF PhasesFit
<1>6. CASE runs' = Sort!Flushed(chunk)
  <2>1. DOMAIN runs' = 1 .. Len(runs) + 1 /\ runs'[Len(runs) + 1] = chunk
        /\ \A i \in 1 .. Len(runs) : runs'[i] = runs[i]
    BY <1>3, <1>6, FlushedFacts
  <2>2. TakenAreSomewhere'
    BY <1>1, <1>2, <1>3, <2>1, SortFacts DEF TakenAreSomewhere
  <2>3. RunsAreApart'
    <3>1. \A i \in DOMAIN runs : runs[i] \cap chunk = {} /\ \A p \in runs[i] : p <= taken
      BY DEF RunsAreApart
    <3>2. \A i, j \in DOMAIN runs : i # j => runs[i] \cap runs[j] = {}
      BY DEF RunsAreApart
    <3>3. \A i, j \in DOMAIN runs' : i # j => runs'[i] \cap runs'[j] = {}
      BY <2>1, <3>1, <3>2, SortFacts
    <3>4. \A i \in DOMAIN runs' : \A p \in runs'[i] : p <= taken
      BY <2>1, <3>1, SortFacts
    <3> QED BY <1>1, <1>2, <3>3, <3>4 DEF RunsAreApart
  <2> QED BY <1>1, <1>2, <1>4, <1>5, <2>2, <2>3
          DEF HeapIsApart, OpenedAreInHeap, HeapIsAhead
<1>7. CASE chunk = {} /\ runs' = runs
  BY <1>1, <1>2, <1>3, <1>4, <1>5, <1>7
     DEF TakenAreSomewhere, RunsAreApart, HeapIsApart, OpenedAreInHeap, HeapIsAhead
<1> QED BY <1>1, <1>6, <1>7

-----------------------------------------------------------------------------
(* read_next_tuple *)

\* A read takes the next tuple of the file, or whatever is left of it is lost.
Takes(p, i, entries) ==
    /\ heap' = entries \cup {Sort!Entry(p, i)}
    /\ \A j \in DOMAIN runs : runs'[j] = IF j = i THEN runs[j] \ {p} ELSE runs[j]
    /\ \A q \in runs[i] : input[p] <= input[q]
LeavesNothing(i, entries) == heap' = entries /\ runs' = runs /\ runs[i] \subseteq lost'

LEMMA ReadFacts ==
    ASSUME Sort!TypeOK, NEW i \in DOMAIN runs, NEW entries, Sort!Read(i, entries)
    PROVE  /\ runs' \in Seq(SUBSET Sort!Tuples) /\ Len(runs') = Len(runs)
           /\ DOMAIN runs' = DOMAIN runs
           /\ lost \subseteq lost' /\ lost' \subseteq Sort!Tuples
           /\ LeavesNothing(i, entries) \/ \E p \in runs[i] : Takes(p, i, entries)
<1>1. /\ runs \in Seq(SUBSET Sort!Tuples)
      /\ runs[i] \subseteq Sort!Tuples /\ lost \subseteq Sort!Tuples
  BY SortFacts DEF Sort!TypeOK
<1>2. CASE heap' = entries /\ runs' = runs /\ lost' = lost \cup runs[i]
  BY <1>1, <1>2 DEF LeavesNothing
<1>3. CASE heap' = entries /\ runs' = runs /\ lost' = lost /\ runs[i] = {}
  BY <1>1, <1>3 DEF LeavesNothing
<1>4. ASSUME NEW p \in runs[i], Sort!IsNext(p, runs[i]), lost' = lost,
             runs' = [runs EXCEPT ![i] = @ \ {p}], heap' = entries \cup {Sort!Entry(p, i)}
      PROVE  /\ runs' \in Seq(SUBSET Sort!Tuples) /\ Len(runs') = Len(runs)
             /\ DOMAIN runs' = DOMAIN runs
             /\ Takes(p, i, entries)
  <2>1. runs[i] \ {p} \in SUBSET Sort!Tuples /\ i \in 1 .. Len(runs)
    BY <1>1, SortFacts
  <2>2. /\ runs' \in Seq(SUBSET Sort!Tuples) /\ Len(runs') = Len(runs)
        /\ \A j \in 1 .. Len(runs) : runs'[j] = IF j = i THEN runs[i] \ {p} ELSE runs[j]
    BY <1>1, <1>4, <2>1, ExceptSeq
  <2>3. DOMAIN runs' = DOMAIN runs
    BY <1>4
  <2>4. \A q \in runs[i] : input[p] <= input[q]
    BY <1>1, <1>4, SortFacts DEF Sort!IsNext, Sort!FileOrder
  <2>5. Takes(p, i, entries)
    BY <1>4, <2>2, <2>4, SortFacts DEF Takes
  <2> QED BY <2>2, <2>3, <2>5
<1> QED BY <1>1, <1>2, <1>3, <1>4 DEF Sort!Read, Sort!ReadNext, Sort!ReadFails

\* A call that takes the entries of one run from the heap, if any, returns their
\* tuples and reads the run's next one keeps everything in one place and in order.
LEMMA ReadKeeps ==
    ASSUME SortInv, NEW i \in DOMAIN runs, NEW entries \in SUBSET heap, Sort!Read(i, entries),
           \A e \in heap \ entries :
               e.run_idx = i /\ \A f \in heap : input[e.tuple] <= input[f.tuple],
           tuples' = tuples \cup {e.tuple : e \in heap \ entries},
           entries = heap => tuples = {},
           opened' \in 0 .. Len(runs), 1 .. opened' \subseteq 1 .. opened \cup {i},
           sorted' \in Sort!Tuples \cup {NoRow, None},
           UNCHANGED <<input, sorting, taken, chunk>>
    PROVE  /\ Sort!TypeOK'
           /\ TakenAreSomewhere' /\ RunsAreApart' /\ HeapIsApart'
           /\ OpenedAreInHeap' /\ HeapIsAhead'
<1> USE DEF SortInv
<1> DEFINE gone == {e.tuple : e \in heap \ entries}
<1>1. Sort!Tuples' = Sort!Tuples
  BY DEF Sort!Tuples
<1>2. \A e \in heap : e.tuple \in Sort!Tuples /\ e.run_idx \in DOMAIN runs
      /\ input[e.tuple] \in Nat
  BY SortFacts DEF Sort!TypeOK
<1>3. gone \subseteq Sort!Tuples /\ tuples' = tuples \cup gone
  BY <1>2
<1>4. \A e \in entries : e \in heap /\ e.tuple \notin gone
  BY DEF HeapIsApart
<1>5. \A j \in DOMAIN runs : runs[j] \cap gone = {}
  BY DEF HeapIsApart
<1>6. \A q \in tuples' : \A e \in entries : input[q] <= input[e.tuple]
  BY <1>3, <1>4 DEF HeapIsAhead
<1>7. \A q \in tuples' : \A p \in runs[i] : input[q] <= input[p]
  <2> SUFFICES ASSUME NEW q \in tuples', NEW p \in runs[i]
               PROVE  input[q] <= input[p]
    OBVIOUS
  <2>1. PICK e \in heap \ entries : TRUE
    BY <1>3
  <2>2. input[e.tuple] <= input[p] /\ input[q] <= input[e.tuple]
    BY <1>3, <2>1 DEF HeapIsAhead
  <2>3. input[q] \in Nat /\ input[p] \in Nat
    BY <1>3, SortFacts DEF Sort!TypeOK
  <2> QED BY <1>2, <2>1, <2>2, <2>3
<1>8. /\ runs' \in Seq(SUBSET Sort!Tuples)
      /\ DOMAIN runs' = DOMAIN runs /\ Len(runs') = Len(runs)
      /\ lost \subseteq lost' /\ lost' \subseteq Sort!Tuples
  BY ReadFacts
<1> HIDE DEF gone
<1>9. CASE LeavesNothing(i, entries)
  <2> USE <1>9 DEF LeavesNothing
  <2>1. Sort!TypeOK'
    BY <1>1, <1>3, <1>8, <1>9 DEF Sort!TypeOK
  <2>2. TakenAreSomewhere'
    BY <1>1, <1>9 DEF TakenAreSomewhere
  <2>3. RunsAreApart'
    BY <1>3, <1>5, <1>9 DEF RunsAreApart
  <2>4. HeapIsApart'
    BY <1>3, <1>4, <1>9 DEF HeapIsApart
  <2>5. OpenedAreInHeap'
    BY <1>8, <1>9 DEF OpenedAreInHeap
  <2>6. HeapIsAhead'
    BY <1>4, <1>6, <1>9 DEF HeapIsAhead
  <2> QED BY <2>1, <2>2, <2>3, <2>4, <2>5, <2>6
<1>10. ASSUME NEW p \in runs[i], Takes(p, i, entries)
       PROVE  /\ Sort!TypeOK'
              /\ TakenAreSomewhere' /\ RunsAreApart' /\ HeapIsApart'
              /\ OpenedAreInHeap' /\ HeapIsAhead'
  <2> DEFINE new == Sort!Entry(p, i)
  <2>1. new.tuple = p /\ new.run_idx = i /\ p \in Sort!Tuples
        /\ new \in [tuple : Sort!Tuples, run_idx : DOMAIN runs]
    BY SortFacts DEF Sort!Entry
  <2>2. heap' = entries \cup {new}
    BY <1>10 DEF Takes
  <2> HIDE DEF new
  <2>3. \A j \in DOMAIN runs : runs'[j] \subseteq runs[j]
    BY <1>10 DEF Takes
  <2>4. Sort!TypeOK'
    BY <1>1, <1>3, <1>8, <2>1, <2>2 DEF Sort!TypeOK
  <2>5. TakenAreSomewhere'
    <3>1. \A q, j : j \in DOMAIN runs /\ q \in runs[j] => q \in runs'[j] \/ q = p
      BY <1>10 DEF Takes
    <3>2. \A e \in heap : e.tuple \in tuples' \/ e \in heap'
      BY <2>2
    <3>3. \E e \in heap' : e.tuple = p
      BY <2>1, <2>2
    <3> QED BY <1>1, <1>3, <1>8, <3>1, <3>2, <3>3 DEF TakenAreSomewhere
  <2>6. RunsAreApart'
    BY <1>3, <1>5, <1>8, <2>3 DEF RunsAreApart
  <2>7. HeapIsApart'
    <3>1. \A j \in DOMAIN runs : p \notin runs'[j]
      BY <1>10 DEF Takes, RunsAreApart
    <3>2. p \notin tuples'
      BY <1>3, <1>5 DEF RunsAreApart
    <3>3. \A e \in entries : e.tuple # p
      BY <1>4 DEF HeapIsApart
    <3> QED BY <1>3, <1>4, <1>8, <2>1, <2>2, <2>3, <3>1, <3>2, <3>3 DEF HeapIsApart
  <2>8. OpenedAreInHeap'
    BY <1>8, <2>1, <2>2, <2>3 DEF OpenedAreInHeap
  <2>9. HeapIsAhead'
    <3>1. \A q \in runs'[i] : input[p] <= input[q]
      BY <1>10 DEF Takes
    <3>2. \A e \in entries : \A q \in runs'[e.run_idx] : input[e.tuple] <= input[q]
      BY <1>2, <1>4, <2>3 DEF HeapIsAhead
    <3> QED BY <1>6, <1>7, <2>1, <2>2, <3>1, <3>2 DEF HeapIsAhead
  <2> QED BY <2>4, <2>5, <2>6, <2>7, <2>8, <2>9
<1>11. LeavesNothing(i, entries) \/ \E p \in runs[i] : Takes(p, i, entries)
  BY ReadFacts
<1> QED BY <1>9, <1>10, <1>11

LEMMA OpenRunKeeps ==
    ASSUME SortInv, Sort!OpenRun
    PROVE  SortInv'
<1> USE DEF SortInv
<1>1. /\ sorting = "opening" /\ opened < Len(runs) /\ opened' = opened + 1
      /\ Sort!Read(opened + 1, heap)
      /\ UNCHANGED <<input, sorting, taken, chunk, sorted, tuples>>
  BY DEF Sort!OpenRun
<1>2. opened + 1 \in DOMAIN runs /\ opened' \in 0 .. Len(runs)
      /\ 1 .. opened' \subseteq 1 .. opened \cup {opened + 1}
  BY <1>1, SortFacts
<1>3. tuples = {} /\ chunk = {} /\ sorted # None
  BY <1>1 DEF PhasesFit
<1>4. tuples' = tuples \cup {e.tuple : e \in heap \ heap}
  BY <1>1
<1>5. sorted' \in Sort!Tuples \cup {NoRow, None}
  BY <1>1 DEF Sort!TypeOK
<1>6. /\ Sort!TypeOK' /\ TakenAreSomewhere' /\ RunsAreApart' /\ HeapIsApart'
      /\ OpenedAreInHeap' /\ HeapIsAhead'
  BY <1>1, <1>2, <1>3, <1>4, <1>5, ReadKeeps
<1>7. PhasesFit'
  BY <1>1, <1>3 DEF PhasesFit
<1> QED BY <1>1, <1>3, <1>6, <1>7

\* What the top of the heap is.
LEMMA NextTupleFacts ==
    ASSUME SortInv, NEW e \in heap, Sort!NextTuple(e)
    PROVE  /\ sorting = "idle" /\ chunk = {} /\ opened = Len(runs) /\ taken = Len(input)
           /\ e.tuple \in Sort!Tuples /\ e.run_idx \in DOMAIN runs
           /\ \A f \in heap : input[e.tuple] <= input[f.tuple]
           /\ Sort!Read(e.run_idx, heap \ {e})
           /\ sorted' = e.tuple /\ tuples' = tuples \cup {e.tuple}
           /\ UNCHANGED <<input, sorting, taken, chunk, opened>>
BY DEF SortInv, Sort!TypeOK, PhasesFit, Sort!NextTuple, Sort!OnTop

LEMMA NextTupleKeeps ==
    ASSUME SortInv, NEW e \in heap, Sort!NextTuple(e)
    PROVE  SortInv'
<1>1. {f.tuple : f \in heap \ (heap \ {e})} = {e.tuple}
  OBVIOUS
<1>2. Sort!TypeOK /\ opened = Len(runs) /\ opened' = opened /\ e.run_idx \in DOMAIN runs
  BY NextTupleFacts DEF SortInv
<1>3. opened' \in 0 .. Len(runs) /\ 1 .. opened' \subseteq 1 .. opened \cup {e.run_idx}
  BY <1>2, SortFacts
<1>4. /\ sorted' \in Sort!Tuples \cup {NoRow, None} /\ heap \ {e} # heap
      /\ \A g \in heap \ (heap \ {e}) :
             g.run_idx = e.run_idx /\ \A f \in heap : input[g.tuple] <= input[f.tuple]
      /\ tuples' = tuples \cup {f.tuple : f \in heap \ (heap \ {e})}
      /\ Sort!Read(e.run_idx, heap \ {e}) /\ UNCHANGED <<input, sorting, taken, chunk>>
  BY <1>1, NextTupleFacts
<1>5. /\ Sort!TypeOK' /\ TakenAreSomewhere' /\ RunsAreApart' /\ HeapIsApart'
      /\ OpenedAreInHeap' /\ HeapIsAhead'
  BY <1>2, <1>3, <1>4, ReadKeeps
<1>6. PhasesFit'
  <2>1. Len(runs') = Len(runs)
    BY NextTupleFacts, ReadFacts DEF SortInv
  <2>2. sorted' # None
    BY NextTupleFacts, SortFacts, AnswersAssumption DEF SortInv
  <2> QED BY <2>1, <2>2, NextTupleFacts DEF SortInv, PhasesFit
<1>7. \A p \in chunk' : p <= taken'
  BY NextTupleFacts
<1> QED BY <1>5, <1>6, <1>7 DEF SortInv

-----------------------------------------------------------------------------
(* Steps that only move on *)

LEMMA SortInitReturnsKeeps ==
    ASSUME SortInv, Sort!InitReturns
    PROVE  SortInv'
<1>1. /\ sorting = "opening" /\ opened = Len(runs) /\ sorting' = "idle"
      /\ UNCHANGED <<input, taken, chunk, runs, opened, heap, sorted, tuples, lost>>
  BY DEF Sort!InitReturns, Sort!files, Sort!ghosts
<1> QED BY <1>1
           DEF SortInv, Sort!TypeOK, Sort!Tuples, PhasesFit, TakenAreSomewhere, RunsAreApart,
               HeapIsApart, OpenedAreInHeap, HeapIsAhead

LEMMA InitPanicsKeeps ==
    ASSUME SortInv, Sort!InitPanics
    PROVE  SortInv'
<1>1. /\ sorting \in {"reading", "opening"} /\ sorting' = "panicked"
      /\ UNCHANGED <<input, taken, chunk, runs, opened, heap, sorted, tuples, lost>>
  BY DEF Sort!InitPanics, Sort!files, Sort!ghosts
<1> QED BY <1>1
           DEF SortInv, Sort!TypeOK, Sort!Tuples, PhasesFit, TakenAreSomewhere, RunsAreApart,
               HeapIsApart, OpenedAreInHeap, HeapIsAhead

LEMMA NextNoneKeeps ==
    ASSUME SortInv, Sort!NextNone
    PROVE  SortInv'
<1>1. /\ sorting \in {"new", "idle"} /\ heap = {} /\ sorted' = None
      /\ UNCHANGED <<input, sorting, taken, chunk, runs, opened, heap, tuples, lost>>
  BY DEF Sort!NextNone, Sort!files, Sort!ghosts
<1> QED BY <1>1
           DEF SortInv, Sort!TypeOK, Sort!Tuples, PhasesFit, TakenAreSomewhere, RunsAreApart,
               HeapIsApart, OpenedAreInHeap, HeapIsAhead

LEMMA SortStartsRight ==
    ASSUME Sort!Init
    PROVE  SortInv
<1> USE DEF Sort!Init
<1>1. Len(input) = 0 /\ Len(runs) = 0 /\ Sort!Tuples = {} /\ DOMAIN runs = {}
  BY DEF Sort!Tuples
<1>2. Sort!TypeOK
  BY <1>1, FS_EmptySet, SortCardinality, SortAssumption DEF Sort!TypeOK
<1>3. PhasesFit
  BY AnswersAssumption DEF PhasesFit
<1> QED BY <1>1, <1>2, <1>3
        DEF SortInv, TakenAreSomewhere, RunsAreApart, HeapIsApart, OpenedAreInHeap, HeapIsAhead

-----------------------------------------------------------------------------
(* Invariance *)

\* The inductive invariant of the sort holds of every behaviour.
THEOREM SortInvariance == Sort!Spec => []SortInv
<1>1. Sort!Init => SortInv
  BY SortStartsRight
<1>2. SortInv /\ [Sort!Next]_(Sort!vars) => SortInv'
  <2>1. CASE UNCHANGED Sort!vars
    BY <2>1
       DEF Sort!vars, Sort!files, Sort!ghosts, SortInv, Sort!TypeOK, Sort!Tuples, PhasesFit,
           TakenAreSomewhere, RunsAreApart, HeapIsApart, OpenedAreInHeap, HeapIsAhead
  <2> QED BY <2>1, SortCallInitKeeps, TakeTupleKeeps, TakeNoneKeeps, InitPanicsKeeps,
             OpenRunKeeps, SortInitReturnsKeeps, NextNoneKeeps, NextTupleKeeps
             DEF Sort!Next
<1> QED BY <1>1, <1>2, PTL DEF Sort!Spec

\* The variables of the sort keep their types; a chunk in memory stays below its size.
THEOREM SortTypes == Sort!Spec => []Sort!TypeOK
BY SortInvariance, PTL DEF SortInv

-----------------------------------------------------------------------------
(* The sort implements RowStream *)

Before == {x \in Sort!Tuples \X Sort!Tuples : input[x[1]] < input[x[2]]}
Owed == Sort!Tuples \ (tuples \cup lost)

\* What the next call returns has not been returned, and nothing that was comes after it.
LEMMA TupleIsNext ==
    ASSUME SortInv, NEW e \in heap, Sort!NextTuple(e)
    PROVE  Sort!Stream!Return(e.tuple)
<1>1. Sort!Tuples' = Sort!Tuples /\ Before' = Before
  BY NextTupleFacts DEF Sort!Tuples, Before
<1>2. e.tuple \in Sort!Tuples \ tuples
  BY NextTupleFacts DEF SortInv, HeapIsApart
<1>3. \A q \in tuples : <<e.tuple, q>> \notin Before
  <2>1. \A q \in tuples : input[q] <= input[e.tuple] /\ q \in Sort!Tuples
    BY DEF SortInv, HeapIsAhead, Sort!TypeOK
  <2> QED BY <1>2, <2>1, SortFacts DEF Before, SortInv
<1>4. lost \subseteq lost'
  BY NextTupleFacts, ReadFacts DEF SortInv
<1>5. Owed' \subseteq Owed \ {e.tuple}
  BY <1>1, <1>4, NextTupleFacts DEF Owed
<1>6. sorted # None
  BY DEF SortInv, PhasesFit
<1> QED BY <1>1, <1>2, <1>3, <1>5, <1>6, NextTupleFacts DEF Sort!Stream!Return, Before, Owed

\* With an empty heap everything was returned, or is behind an error.
LEMMA SortNoneEnds ==
    ASSUME SortInv, Sort!NextNone
    PROVE  Sort!Stream!End
<1>1. /\ sorting \in {"new", "idle"} /\ heap = {} /\ sorted' = None
      /\ UNCHANGED <<input, tuples, lost>>
  BY DEF Sort!NextNone, Sort!ghosts
<1>2. Owed = {}
  <2>1. CASE sorting = "new"
    BY <2>1 DEF SortInv, PhasesFit, Owed, Sort!Tuples
  <2>2. CASE sorting = "idle"
    <3>1. chunk = {} /\ taken = Len(input) /\ opened = Len(runs)
      BY <2>2 DEF SortInv, PhasesFit
    <3>2. \A i \in DOMAIN runs : runs[i] \subseteq lost
      BY <1>1, <3>1, SortFacts DEF SortInv, OpenedAreInHeap
    <3>3. \A p \in Sort!Tuples : ~(p > taken)
      BY <3>1, SortFacts DEF SortInv
    <3> QED BY <1>1, <3>1, <3>2, <3>3 DEF SortInv, TakenAreSomewhere, Owed
  <2> QED BY <1>1, <2>1, <2>2
<1>3. Sort!Tuples' = Sort!Tuples /\ Before' = Before /\ Owed' = Owed
  BY <1>1 DEF Sort!Tuples, Before, Owed
<1> QED BY <1>1, <1>2, <1>3 DEF Sort!Stream!End, Before, Owed

LEMMA SortInitOpens ==
    ASSUME SortInv, Sort!CallInit
    PROVE  Sort!Stream!Open
<1>1. SortInv'
  BY SortCallInitKeeps
<1>2. Sort!Tuples' \subseteq Nat
  <2>1. input' \in Seq(Nat)
    BY SortAssumption DEF Sort!CallInit
  <2> QED BY <2>1 DEF Sort!Tuples
<1> QED BY <1>2 DEF Sort!CallInit, Sort!Stream!Open

\* A read error excuses what is behind it.
LEMMA OpenRunExcuses ==
    ASSUME SortInv, Sort!OpenRun
    PROVE  Sort!Stream!Change
<1>1. UNCHANGED <<input, sorted, tuples>> /\ Sort!Read(opened + 1, heap)
      /\ opened + 1 \in DOMAIN runs
  BY SortFacts DEF Sort!OpenRun, SortInv
<1>2. lost \subseteq lost'
  BY <1>1, ReadFacts DEF SortInv
<1>3. Sort!Tuples' = Sort!Tuples /\ Before' = Before /\ Owed' \subseteq Owed
  BY <1>1, <1>2 DEF Sort!Tuples, Before, Owed
<1>4. Sort!Tuples \subseteq Nat
  BY SortFacts DEF SortInv
<1> QED BY <1>1, <1>3, <1>4 DEF Sort!Stream!Change, Before, Owed

LEMMA SortStutters ==
    ASSUME UNCHANGED <<input, sorted, tuples, lost>>
    PROVE  UNCHANGED Sort!Stream!vars
BY DEF Sort!Stream!vars, Sort!Tuples

\* Whatever falls into which chunk, each tuple is returned once, in the order of the
\* keys, and all but those behind a read error are returned before None.
LEMMA SortStreams == Sort!Spec => Sort!SortIsARowStream
<1>1. Sort!Init => Sort!Stream!Init
  BY DEF Sort!Init, Sort!Stream!Init, Sort!Tuples
<1>2. SortInv /\ [Sort!Next]_(Sort!vars) => [Sort!Stream!Next]_(Sort!Stream!vars)
  <2> SUFFICES ASSUME SortInv, [Sort!Next]_(Sort!vars)
               PROVE  [Sort!Stream!Next]_(Sort!Stream!vars)
    OBVIOUS
  <2>1. CASE Sort!CallInit
    BY <2>1, SortInitOpens DEF Sort!Stream!Next
  <2>2. CASE \/ Sort!TakeTuple \/ Sort!TakeNone \/ Sort!InitPanics
             \/ Sort!InitReturns \/ UNCHANGED Sort!vars
    <3>1. UNCHANGED <<input, sorted, tuples, lost>>
      BY <2>2
         DEF Sort!TakeTuple, Sort!TakeNone, Sort!InitPanics, Sort!InitReturns, Sort!vars,
             Sort!ghosts
    <3> QED BY <3>1, SortStutters
  <2>3. CASE Sort!OpenRun
    BY <2>3, OpenRunExcuses DEF Sort!Stream!Next
  <2>4. CASE Sort!NextNone
    BY <2>4, SortNoneEnds DEF Sort!Stream!Next
  <2>5. ASSUME NEW e \in heap, Sort!NextTuple(e)
        PROVE  Sort!Stream!Next
    <3>1. e.tuple \in Sort!Tuples
      BY <2>5, NextTupleFacts
    <3> QED BY <2>5, <3>1, TupleIsNext DEF Sort!Stream!Next
  <2> QED BY <2>1, <2>2, <2>3, <2>4, <2>5 DEF Sort!Next
<1> QED BY <1>1, <1>2, SortInvariance, PTL
           DEF Sort!Spec, Sort!SortIsARowStream, Sort!Stream!Spec
-----------------------------------------------------------------------------
(* Optimizer *)

-----------------------------------------------------------------------------
(* Plans *)

\* The plans that are nested less than n deep.
Shallow(n) == {p \in Plans : height[p] < n}

LEMMA PlanFacts ==
    /\ MaxHeight \in Nat
    /\ \A p \in Plans : /\ height[p] \in Nat /\ height[p] <= MaxHeight
                        /\ p.op \in {"SeqScan", "IndexScan", "NestedLoopJoin", "Filter"}
                        /\ \A c \in Parts(p) : c \in Plans /\ height[c] < height[p]
    /\ \A p \in Plans : p.op = "Filter" => p.child \in Plans
    /\ \A p \in Plans : p.op = "NestedLoopJoin" => p.left \in Plans /\ p.right \in Plans
<1>1. \A p : p.op = "Filter" => p.child \in Parts(p)
  BY DEF Parts
<1>2. \A p : p.op = "NestedLoopJoin" => p.left \in Parts(p) /\ p.right \in Parts(p)
  BY DEF Parts
<1> QED BY <1>1, <1>2, PlansAssumption DEF Operators

LEMMA ShallowFacts ==
    /\ Shallow(MaxHeight + 1) = Plans
    /\ \A n \in Nat : \A p \in Shallow(n + 1) : Parts(p) \subseteq Shallow(n)
    /\ \A n \in Nat : Shallow(n) \subseteq Shallow(n + 1)
    /\ Shallow(0) = {}
BY PlanFacts DEF Shallow

\* optimize is the function that its recursion defines: there is one, on plans of any
\* height.
LEMMA OptimizeIsOf ==
    Planner!Optimize = CHOOSE f : f = [p \in Plans |-> Planner!OptimizeOf(p, f)]
BY DEF Planner!Optimize

\* What optimize makes of a plan depends on no more than what it makes of its parts.
LEMMA OptimizeAgrees ==
    ASSUME NEW p, NEW f, NEW g, \A c \in Parts(p) : f[c] = g[c]
    PROVE  Planner!OptimizeOf(p, f) = Planner!OptimizeOf(p, g)
<1>1. p.op = "Filter" => f[p.child] = g[p.child]
  BY DEF Parts
<1>2. p.op = "NestedLoopJoin" => f[p.left] = g[p.left] /\ f[p.right] = g[p.right]
  BY DEF Parts
<1> QED BY <1>1, <1>2 DEF Planner!OptimizeOf

LEMMA OptimizeDef == Planner!Optimize = [p \in Plans |-> Planner!OptimizeOf(p, Planner!Optimize)]
<1> DEFINE Good(n) == \E f : f = [p \in Shallow(n) |-> Planner!OptimizeOf(p, f)]
           G == {n \in Nat : Good(n)}
<1>1. Good(0)
  <2> DEFINE f == [p \in Shallow(0) |-> Planner!OptimizeOf(p, 0)]
  <2>1. f = [p \in Shallow(0) |-> Planner!OptimizeOf(p, f)]
    BY ShallowFacts
  <2> QED BY <2>1
<1>2. ASSUME NEW n \in Nat, Good(n)
      PROVE  Good(n + 1)
  <2>1. PICK f : f = [p \in Shallow(n) |-> Planner!OptimizeOf(p, f)]
    BY <1>2
  <2> DEFINE g == [p \in Shallow(n + 1) |-> Planner!OptimizeOf(p, f)]
  <2>2. \A p \in Shallow(n) : g[p] = f[p]
    BY <2>1, ShallowFacts
  <2> HIDE DEF g
  <2>3. \A p \in Shallow(n + 1) : Planner!OptimizeOf(p, f) = Planner!OptimizeOf(p, g)
    BY <2>2, ShallowFacts, OptimizeAgrees
  <2>4. g = [p \in Shallow(n + 1) |-> Planner!OptimizeOf(p, g)]
    BY <2>3 DEF g
  <2> QED BY <2>4
<1> HIDE DEF Good
<1>3. 0 \in G /\ \A n \in G : n + 1 \in G
  BY <1>1, <1>2
<1>4. G \in SUBSET Nat /\ \A n \in G : Good(n)
  OBVIOUS
<1> HIDE DEF G
<1>5. G = Nat
  BY <1>3, <1>4, AllNumbers
<1>6. \E f : f = [p \in Plans |-> Planner!OptimizeOf(p, f)]
  <2>1. MaxHeight + 1 \in Nat
    BY PlanFacts
  <2>2. Good(MaxHeight + 1)
    BY <1>4, <1>5, <2>1
  <2> QED BY <2>2, ShallowFacts DEF Good
<1> QED BY <1>6, OptimizeIsOf

\* So are the rows asked for, and the nodes of a plan.
LEMMA AskedIsOf == Planner!Asked = CHOOSE f : f = [p \in Plans |-> Planner!AskedOf(p, f)]
BY DEF Planner!Asked

LEMMA AskedAgrees ==
    ASSUME NEW p, NEW f, NEW g, \A c \in Parts(p) : f[c] = g[c]
    PROVE  Planner!AskedOf(p, f) = Planner!AskedOf(p, g)
<1>1. p.op = "Filter" => f[p.child] = g[p.child]
  BY DEF Parts
<1>2. p.op = "NestedLoopJoin" => f[p.left] = g[p.left] /\ f[p.right] = g[p.right]
  BY DEF Parts
<1> QED BY <1>1, <1>2 DEF Planner!AskedOf

LEMMA AskedDef == Planner!Asked = [p \in Plans |-> Planner!AskedOf(p, Planner!Asked)]
<1> DEFINE Good(n) == \E f : f = [p \in Shallow(n) |-> Planner!AskedOf(p, f)]
           G == {n \in Nat : Good(n)}
<1>1. Good(0)
  <2> DEFINE f == [p \in Shallow(0) |-> Planner!AskedOf(p, 0)]
  <2>1. f = [p \in Shallow(0) |-> Planner!AskedOf(p, f)]
    BY ShallowFacts
  <2> QED BY <2>1
<1>2. ASSUME NEW n \in Nat, Good(n)
      PROVE  Good(n + 1)
  <2>1. PICK f : f = [p \in Shallow(n) |-> Planner!AskedOf(p, f)]
    BY <1>2
  <2> DEFINE g == [p \in Shallow(n + 1) |-> Planner!AskedOf(p, f)]
  <2>2. \A p \in Shallow(n) : g[p] = f[p]
    BY <2>1, ShallowFacts
  <2> HIDE DEF g
  <2>3. \A p \in Shallow(n + 1) : Planner!AskedOf(p, f) = Planner!AskedOf(p, g)
    BY <2>2, ShallowFacts, AskedAgrees
  <2>4. g = [p \in Shallow(n + 1) |-> Planner!AskedOf(p, g)]
    BY <2>3 DEF g
  <2> QED BY <2>4
<1> HIDE DEF Good
<1>3. 0 \in G /\ \A n \in G : n + 1 \in G
  BY <1>1, <1>2
<1>4. G \in SUBSET Nat /\ \A n \in G : Good(n)
  OBVIOUS
<1> HIDE DEF G
<1>5. G = Nat
  BY <1>3, <1>4, AllNumbers
<1>6. \E f : f = [p \in Plans |-> Planner!AskedOf(p, f)]
  <2>1. MaxHeight + 1 \in Nat
    BY PlanFacts
  <2>2. Good(MaxHeight + 1)
    BY <1>4, <1>5, <2>1
  <2> QED BY <2>2, ShallowFacts DEF Good
<1> QED BY <1>6, AskedIsOf

NodesOf(p, f) == {p} \cup UNION {f[c] : c \in Parts(p)}

LEMMA NodesIsOf == Planner!Nodes = CHOOSE f : f = [p \in Plans |-> NodesOf(p, f)]
<1>1. \A p : Planner!Parts(p) = Parts(p)
  BY DEF Planner!Parts, Parts
<1> QED BY <1>1 DEF Planner!Nodes, NodesOf

LEMMA NodesAgree ==
    ASSUME NEW p, NEW f, NEW g, \A c \in Parts(p) : f[c] = g[c]
    PROVE  NodesOf(p, f) = NodesOf(p, g)
BY DEF NodesOf

LEMMA NodesDef == Planner!Nodes = [p \in Plans |-> NodesOf(p, Planner!Nodes)]
<1> DEFINE Good(n) == \E f : f = [p \in Shallow(n) |-> NodesOf(p, f)]
           G == {n \in Nat : Good(n)}
<1>1. Good(0)
  <2> DEFINE f == [p \in Shallow(0) |-> NodesOf(p, 0)]
  <2>1. f = [p \in Shallow(0) |-> NodesOf(p, f)]
    BY ShallowFacts
  <2> QED BY <2>1
<1>2. ASSUME NEW n \in Nat, Good(n)
      PROVE  Good(n + 1)
  <2>1. PICK f : f = [p \in Shallow(n) |-> NodesOf(p, f)]
    BY <1>2
  <2> DEFINE g == [p \in Shallow(n + 1) |-> NodesOf(p, f)]
  <2>2. \A p \in Shallow(n) : g[p] = f[p]
    BY <2>1, ShallowFacts
  <2> HIDE DEF g
  <2>3. \A p \in Shallow(n + 1) : NodesOf(p, f) = NodesOf(p, g)
    BY <2>2, ShallowFacts, NodesAgree
  <2>4. g = [p \in Shallow(n + 1) |-> NodesOf(p, g)]
    BY <2>3 DEF g
  <2> QED BY <2>4
<1> HIDE DEF Good
<1>3. 0 \in G /\ \A n \in G : n + 1 \in G
  BY <1>1, <1>2
<1>4. G \in SUBSET Nat /\ \A n \in G : Good(n)
  OBVIOUS
<1> HIDE DEF G
<1>5. G = Nat
  BY <1>3, <1>4, AllNumbers
<1>6. \E f : f = [p \in Plans |-> NodesOf(p, f)]
  <2>1. MaxHeight + 1 \in Nat
    BY PlanFacts
  <2>2. Good(MaxHeight + 1)
    BY <1>4, <1>5, <2>1
  <2> QED BY <2>2, ShallowFacts DEF Good
<1> QED BY <1>6, NodesIsOf

-----------------------------------------------------------------------------
(* What optimize makes of a plan *)

LEMMA NodesFacts ==
    ASSUME NEW p \in Plans
    PROVE  Planner!Nodes[p] = {p} \cup UNION {Planner!Nodes[c] : c \in Parts(p)}
BY NodesDef DEF NodesOf

\* What makes a node of a plan valid, and what a match of it says.
Fits(n) ==
    /\ n.op \in {"SeqScan", "IndexScan"} => Planner!HasTable(n.table)
    /\ n.op = "IndexScan" => tables[n.table].indexes # <<>>
IsFirst(n) ==
    Planner!UsesIndex(n) =>
        n.predicate = (Planner!FirstIndex(n.child.table) :> n.index_match.key)

LEMMA ValidFacts ==
    ASSUME NEW p \in Plans
    PROVE  /\ Planner!Valid(p) <=> Fits(p) /\ \A c \in Parts(p) : Planner!Valid(c)
           /\ Planner!MatchesFirstIndex(p) <=>
                  IsFirst(p) /\ \A c \in Parts(p) : Planner!MatchesFirstIndex(c)
<1>1. Planner!Valid(p) <=> \A n \in Planner!Nodes[p] : Fits(n)
  BY DEF Planner!Valid, Fits
<1>2. Planner!MatchesFirstIndex(p) <=> \A n \in Planner!Nodes[p] : IsFirst(n)
  BY DEF Planner!MatchesFirstIndex, IsFirst
<1>3. \A c \in Parts(p) : Planner!Valid(c) <=> \A n \in Planner!Nodes[c] : Fits(n)
  BY DEF Planner!Valid, Fits
<1>4. \A c \in Parts(p) : Planner!MatchesFirstIndex(c) <=> \A n \in Planner!Nodes[c] : IsFirst(n)
  BY DEF Planner!MatchesFirstIndex, IsFirst
<1> QED BY <1>1, <1>2, <1>3, <1>4, NodesFacts

\* An executor is built for the valid plans, and returns the rows asked for.
IsRight(p) ==
    /\ Planner!Optimize[p].ok \in BOOLEAN
    /\ Planner!Optimize[p].ok <=> Planner!Valid(p)
    /\ Planner!Optimize[p].ok /\ Planner!MatchesFirstIndex(p) =>
           Planner!Optimize[p].rows = Planner!Asked[p]

LEMMA Answers ==
    /\ Planner!Err.ok = FALSE
    /\ \A rows : Planner!Done(rows).ok = TRUE /\ Planner!Done(rows).rows = rows
BY DEF Planner!Err, Planner!Done

LEMMA SeqScanIsRight ==
    ASSUME NEW p \in Plans, p.op = "SeqScan"
    PROVE  IsRight(p)
<1>1. Parts(p) = {}
  BY DEF Parts
<1>2. Planner!Optimize[p] = IF Planner!HasTable(p.table)
                            THEN Planner!Done(Planner!TuplesOf(p.table)) ELSE Planner!Err
  BY OptimizeDef DEF Planner!OptimizeOf
<1>3. Planner!Asked[p] = Planner!TuplesOf(p.table)
  BY AskedDef DEF Planner!AskedOf
<1>4. Planner!Valid(p) <=> Planner!HasTable(p.table)
  BY <1>1, ValidFacts DEF Fits
<1> QED BY <1>2, <1>3, <1>4, Answers DEF IsRight

LEMMA IndexScanIsRight ==
    ASSUME NEW p \in Plans, p.op = "IndexScan"
    PROVE  IsRight(p)
<1>1. Parts(p) = {}
  BY DEF Parts
<1>2. Planner!Optimize[p] = Planner!OptimizeIndexScan(p.table, p.key)
  BY OptimizeDef DEF Planner!OptimizeOf
<1>3. Planner!Asked[p] =
          Planner!ScanIndex(Planner!FirstIndex(p.table), p.key, Planner!TuplesOf(p.table))
  BY AskedDef DEF Planner!AskedOf
<1>4. Planner!Valid(p) <=> Planner!HasTable(p.table) /\ tables[p.table].indexes # <<>>
  BY <1>1, ValidFacts DEF Fits
<1> QED BY <1>2, <1>3, <1>4, Answers DEF IsRight, Planner!OptimizeIndexScan

LEMMA JoinIsRight ==
    ASSUME NEW p \in Plans, p.op = "NestedLoopJoin", IsRight(p.left), IsRight(p.right)
    PROVE  IsRight(p)
<1> DEFINE l == Planner!Optimize[p.left]
           r == Planner!Optimize[p.right]
<1>1. Parts(p) = {p.left, p.right}
  BY DEF Parts
<1>2. Planner!Optimize[p] = IF l.ok /\ r.ok
                            THEN Planner!Done(Planner!Product(l.rows, r.rows, p.predicate))
                            ELSE Planner!Err
  BY OptimizeDef DEF Planner!OptimizeOf
<1>3. Planner!Asked[p] =
          Planner!Product(Planner!Asked[p.left], Planner!Asked[p.right], p.predicate)
  BY AskedDef DEF Planner!AskedOf
<1>4. Planner!Valid(p) <=> Planner!Valid(p.left) /\ Planner!Valid(p.right)
  BY <1>1, ValidFacts DEF Fits
<1>5. Planner!MatchesFirstIndex(p) =>
          Planner!MatchesFirstIndex(p.left) /\ Planner!MatchesFirstIndex(p.right)
  BY <1>1, ValidFacts
<1> HIDE DEF l, r
<1>6. /\ l.ok <=> Planner!Valid(p.left)
      /\ l.ok /\ Planner!MatchesFirstIndex(p.left) => l.rows = Planner!Asked[p.left]
      /\ r.ok <=> Planner!Valid(p.right)
      /\ r.ok /\ Planner!MatchesFirstIndex(p.right) => r.rows = Planner!Asked[p.right]
  BY DEF IsRight, l, r
<1>7. CASE l.ok /\ r.ok
  <2>1. /\ Planner!Optimize[p].ok = TRUE
        /\ Planner!Optimize[p].rows = Planner!Product(l.rows, r.rows, p.predicate)
    BY <1>2, <1>7, Answers
  <2>2. Planner!Valid(p)
    BY <1>4, <1>6, <1>7
  <2>3. Planner!MatchesFirstIndex(p) => Planner!Optimize[p].rows = Planner!Asked[p]
    BY <1>3, <1>5, <1>6, <1>7, <2>1
  <2> QED BY <2>1, <2>2, <2>3 DEF IsRight
<1>8. CASE ~(l.ok /\ r.ok)
  <2>1. Planner!Optimize[p].ok = FALSE
    BY <1>2, <1>8, Answers
  <2>2. ~Planner!Valid(p)
    BY <1>4, <1>6, <1>8
  <2> QED BY <2>1, <2>2 DEF IsRight
<1> QED BY <1>7, <1>8

\* A column with an index is a column of a table that has one.
LEMMA IndexedHasIndex ==
    ASSUME NEW name, NEW column, Planner!IsIndexed(name, column)
    PROVE  tables[name].indexes # <<>>
<1>1. PICK i \in DOMAIN tables[name].indexes : TRUE
  BY DEF Planner!IsIndexed
<1>2. DOMAIN <<>> = {}
  OBVIOUS
<1> QED BY <1>1, <1>2

LEMMA FilterIsRight ==
    ASSUME NEW p \in Plans, p.op = "Filter", IsRight(p.child)
    PROVE  IsRight(p)
<1> DEFINE c == Planner!Optimize[p.child]
<1>1. Parts(p) = {p.child}
  BY DEF Parts
<1>2. Planner!Optimize[p] =
          IF Planner!UsesIndex(p)
          THEN Planner!OptimizeIndexScan(p.child.table, p.index_match.key)
          ELSE IF c.ok THEN Planner!Done(Planner!Having(p.predicate, c.rows))
          ELSE Planner!Err
  BY OptimizeDef DEF Planner!OptimizeOf
<1>3. Planner!Asked[p] = Planner!Having(p.predicate, Planner!Asked[p.child])
  BY AskedDef DEF Planner!AskedOf
<1>4. Planner!Valid(p) <=> Planner!Valid(p.child)
  BY <1>1, ValidFacts DEF Fits
<1>5. Planner!MatchesFirstIndex(p) => IsFirst(p) /\ Planner!MatchesFirstIndex(p.child)
  BY <1>1, ValidFacts
<1>6. /\ c.ok <=> Planner!Valid(p.child)
      /\ c.ok /\ Planner!MatchesFirstIndex(p.child) => c.rows = Planner!Asked[p.child]
  BY DEF IsRight
<1> HIDE DEF c
<1>7. CASE ~Planner!UsesIndex(p)
  BY <1>2, <1>3, <1>4, <1>5, <1>6, <1>7, Answers DEF IsRight
<1>8. CASE Planner!UsesIndex(p)
  <2> DEFINE name == p.child.table
             key == p.index_match.key
  <2>1. /\ p.child \in Plans /\ p.child.op = "SeqScan" /\ Planner!HasTable(name)
        /\ tables[name].indexes # <<>>
    BY <1>8, PlanFacts, IndexedHasIndex DEF Planner!UsesIndex
  <2>2. Parts(p.child) = {}
    BY <2>1 DEF Parts
  <2>3. Planner!Valid(p.child)
    BY <2>1, <2>2, ValidFacts DEF Fits
  <2>4. Planner!Asked[p.child] = Planner!TuplesOf(name)
    BY <2>1, AskedDef DEF Planner!AskedOf
  <2>5. Planner!Optimize[p] =
            Planner!Done(
                Planner!ScanIndex(Planner!FirstIndex(name), key, Planner!TuplesOf(name)))
    BY <1>2, <1>8, <2>1 DEF Planner!OptimizeIndexScan
  <2>6. Planner!ScanIndex(Planner!FirstIndex(name), key, Planner!TuplesOf(name)) =
            Planner!Having(Planner!FirstIndex(name) :> key, Planner!TuplesOf(name))
    BY DEF Planner!ScanIndex
  <2>7. IsFirst(p) => p.predicate = (Planner!FirstIndex(name) :> key)
    BY <1>8 DEF IsFirst
  <2> HIDE DEF name, key
  <2>8. /\ Planner!Optimize[p].ok = TRUE
        /\ Planner!Optimize[p].rows =
               Planner!Having(Planner!FirstIndex(name) :> key, Planner!TuplesOf(name))
    BY <2>5, <2>6, Answers
  <2>9. Planner!Valid(p)
    BY <1>4, <2>3
  <2>10. Planner!MatchesFirstIndex(p) => Planner!Optimize[p].rows = Planner!Asked[p]
    BY <1>3, <1>5, <2>4, <2>7, <2>8
  <2> QED BY <2>8, <2>9, <2>10 DEF IsRight
<1> QED BY <1>7, <1>8

\* No plan is the lowest of those it does not hold of.
LEMMA PlansAreRight == \A p \in Plans : IsRight(p)
<1> DEFINE T == {height[p] : p \in {p \in Plans : ~IsRight(p)}}
<1> SUFFICES ASSUME T # {}
             PROVE  FALSE
  OBVIOUS
<1>1. T \in SUBSET Nat
  BY PlanFacts
<1>2. PICK n \in T : \A m \in T : n <= m
  BY <1>1, LeastNumber
<1>3. PICK p \in Plans : ~IsRight(p) /\ height[p] = n
  BY <1>2
<1>4. \A c \in Parts(p) : c \in Plans /\ IsRight(c)
  <2> SUFFICES ASSUME NEW c \in Parts(p), ~IsRight(c)
               PROVE  FALSE
    BY PlanFacts
  <2>1. c \in Plans /\ height[c] < n /\ height[c] \in Nat /\ n \in Nat
    BY <1>3, PlanFacts
  <2>2. height[c] \in T
    BY <2>1
  <2> HIDE DEF T
  <2> QED BY <1>2, <2>1, <2>2
<1>5. p.op \in {"SeqScan", "IndexScan", "NestedLoopJoin", "Filter"}
  BY PlanFacts
<1>6. p.op = "NestedLoopJoin" => IsRight(p.left) /\ IsRight(p.right)
  BY <1>4 DEF Parts
<1>7. p.op = "Filter" => IsRight(p.child)
  BY <1>4 DEF Parts
<1> QED BY <1>3, <1>5, <1>6, <1>7, SeqScanIsRight, IndexScanIsRight, JoinIsRight, FilterIsRight

-----------------------------------------------------------------------------
(* Queries *)

LEMMA SameTables ==
    ASSUME UNCHANGED tables
    PROVE  Planner!Optimize' = Planner!Optimize
<1>1. \A p, f : Planner!OptimizeOf(p, f)' = Planner!OptimizeOf(p, f)
  BY DEF Planner!OptimizeOf, Planner!OptimizeIndexScan, Planner!HasTable, Planner!FirstIndex,
         Planner!UsesIndex, Planner!IsIndexed
<1> QED BY <1>1 DEF Planner!Optimize

\* The executor that was drained last is the one optimize built for the plan.
PlanInv == plan # NoPlan => plan \in Plans /\ result = Planner!Optimize[plan]

LEMMA QueryKeeps ==
    ASSUME NEW p \in Plans, Planner!Query(p)
    PROVE  PlanInv'
<1>1. Planner!Optimize' = Planner!Optimize
  BY SameTables DEF Planner!Query
<1> QED BY <1>1 DEF PlanInv, Planner!Query

\* The inductive invariant of the planner holds of every behaviour.
THEOREM PlannerInvariance == Planner!Spec => []PlanInv
<1>1. Planner!Init => PlanInv
  BY DEF Planner!Init, PlanInv
<1>2. PlanInv /\ [Planner!Next]_(Planner!vars) => PlanInv'
  <2> SUFFICES ASSUME PlanInv, [Planner!Next]_(Planner!vars)
               PROVE  PlanInv'
    OBVIOUS
  <2>1. ASSUME NEW name \in TableNames, NEW columns \in Columns, Planner!Create(name, columns)
        PROVE  PlanInv'
    BY <2>1 DEF PlanInv, Planner!Create
  <2>2. CASE UNCHANGED Planner!vars
    <3>1. UNCHANGED <<tables, plan, result>>
      BY <2>2 DEF Planner!vars
    <3>2. Planner!Optimize' = Planner!Optimize
      BY <3>1, SameTables
    <3> QED BY <3>1, <3>2 DEF PlanInv
  <2> QED BY <2>1, <2>2, QueryKeeps DEF Planner!Next
<1> QED BY <1>1, <1>2, PTL DEF Planner!Spec

-----------------------------------------------------------------------------
(* The parts in one specification *)

\* Each part of the query layer runs as it does alone, whichever is chosen.
THEOREM EitherRunsItsParts ==
    EitherSpec => Join!Spec /\ Sort!Spec /\ Planner!Spec /\ Spec
<1>1. EitherInit => Join!Init /\ Sort!Init /\ Planner!Init /\ Init
  BY DEF EitherInit
<1>2. [EitherNext]_<<chosen, joinVars, sortVars, planVars, vars>>
          => /\ [Join!Next]_(Join!vars)
             /\ [Sort!Next]_(Sort!vars)
             /\ [Planner!Next]_(Planner!vars)
             /\ [Next]_vars
  <2>1. UNCHANGED joinVars => UNCHANGED Join!vars
    BY DEF joinVars, Join!vars, Join!executor
  <2>2. UNCHANGED sortVars => UNCHANGED Sort!vars
    BY DEF sortVars, Sort!vars, Sort!files, Sort!ghosts
  <2>3. UNCHANGED planVars => UNCHANGED Planner!vars
    BY DEF planVars, Planner!vars
  <2> QED BY <2>1, <2>2, <2>3 DEF EitherNext
<1> QED BY <1>1, <1>2, PTL DEF EitherSpec, Join!Spec, Sort!Spec, Planner!Spec, Spec

\* The variables of the join and of the sort keep their types.
THEOREM QueryTypes == EitherSpec => []QueryTypeOK
BY EitherRunsItsParts, JoinTypes, SortTypes, PTL DEF QueryTypeOK

\* However transactions commit while the join runs: each pair comes at most once, in
\* order, if it matches and was shown at some time, and all that were shown all the
\* time come before None.
THEOREM JoinIsAStream == EitherSpec => JoinIsARowStream
BY EitherRunsItsParts, JoinStreams, PTL DEF JoinIsARowStream

\* Whatever falls into which chunk, each tuple is returned once, in the order of the
\* keys, and all but those behind a read error are returned before None.
THEOREM SortIsAStream == EitherSpec => SortIsARowStream
BY EitherRunsItsParts, SortStreams, PTL DEF SortIsARowStream

\* optimize fails on the plans that cannot be run and on no others, and the executor it
\* builds returns what the plan asks for, if the filters it turns into index scans
\* match exactly the column of the first index.
THEOREM PlansReturn == EitherSpec => []PlansReturnTheirRows
<1>1. PlanInv => PlansReturnTheirRows
  <2> SUFFICES ASSUME PlanInv, plan # NoPlan
               PROVE  /\ result.ok = Planner!Valid(plan)
                      /\ result.ok /\ Planner!MatchesFirstIndex(plan) =>
                             result.rows = Planner!Asked[plan]
    BY DEF PlansReturnTheirRows, Planner!PlansReturnTheirRows
  <2>1. plan \in Plans /\ result = Planner!Optimize[plan]
    BY DEF PlanInv
  <2>2. IsRight(plan)
    BY <2>1, PlansAreRight
  <2>3. Planner!Valid(plan) \in BOOLEAN
    BY DEF Planner!Valid
  <2> QED BY <2>1, <2>2, <2>3 DEF IsRight
<1> QED BY <1>1, EitherRunsItsParts, PlannerInvariance, PTL

\* The parser accepts a statement of the grammar, and only that, and says what it says;
\* what it has consumed begins one, and it gives up at the first token with which none
\* goes on.
THEOREM Parses == EitherSpec => []ParsesTheGrammar
BY EitherRunsItsParts, ParsesStatements, PTL
=============================================================================
