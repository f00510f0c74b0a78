----------------------- MODULE TransactionManager_proofs -----------------------
(***************************************************************************)
(* What holds of TransactionManager for any threads, tuples, transactions  *)
(* and restarts: a transaction has one outcome, and every answer was right *)
(* at a moment of its call.                                                *)
(***************************************************************************)
EXTENDS TransactionManager, TLAPS

\* The thread is on its way from one set to another with a transaction.
Carries(c) == pc[c] \in Finishing \cup {"begin"}

\* A transaction that was begun is in one place.
SetsAreApart ==
    /\ active \cap committed = {}
    /\ active \cap aborted = {}
    /\ committed \cap aborted = {}
CarriedAreApart ==
    \A c \in Threads : Carries(c) =>
        /\ args[c].txn \notin active \cup committed \cup aborted
        /\ \A d \in Threads : Carries(d) /\ args[d].txn = args[c].txn => d = c

\* The counter is ahead of every transaction.
CounterIsAhead ==
    /\ active \cup committed \cup aborted \subseteq 1 .. nextTxnId - 1
    /\ \A c \in Threads : Carries(c) => args[c].txn \in 1 .. nextTxnId - 1

\* What a thread that asks has found out, and was right about.
AnswerFits(c) ==
    /\ pc[c] = "idle" => answer[c] \in right[c]
    /\ pc[c] \in {"state: committed?", "state: aborted?"} => args[c].header = Empty
    /\ pc[c] \in {"visible: creator?", "visible: deleter?"} =>
           args[c].header # Empty /\ args[c].txn # INVALID_TXN_ID
    /\ pc[c] = "state: aborted?" /\ args[c].txn \notin aborted => "Active" \in right[c]
    /\ pc[c] = "visible: deleter?" =>
           /\ args[c].header.xmin = args[c].txn \/ args[c].header.xmin \in committed
           /\ args[c].header.xmax \notin {INVALID_TXN_ID, args[c].txn}

IInv ==
    /\ TypeOK
    /\ SetsAreApart
    /\ CarriedAreApart
    /\ CounterIsAhead
    /\ \A c \in Threads : AnswerFits(c)

Headers == [xmin : {INVALID_TXN_ID} \cup Ids, xmax : {INVALID_TXN_ID} \cup Ids]
Steps == {"idle", "begin"} \cup Finishing \cup Asking
Answers == {"none", "Ok", "NotFound", "Committed", "Aborted", "Active", "visible", "hidden"}

-----------------------------------------------------------------------------
(* What a thread changes of its own, and what the others see of it *)

Alone(c) ==
    /\ pc' \in [Threads -> Steps] /\ answer' \in [Threads -> Answers]
    /\ args' \in [Threads -> [txn : {INVALID_TXN_ID} \cup Readers, header : Headers]]
    /\ \A d \in Threads \ {c} : pc'[d] = pc[d] /\ args'[d] = args[d] /\ answer'[d] = answer[d]

LEMMA GoesFacts ==
    ASSUME TypeOK, NEW c \in Threads, NEW from, NEW to \in Steps, Goes(c, from, to)
    PROVE  Alone(c) /\ pc[c] = from /\ pc'[c] = to /\ args'[c] = args[c]
BY DEF TypeOK, Goes, Alone, Headers, Steps, Answers

LEMMA ReturnsFacts ==
    ASSUME TypeOK, NEW c \in Threads, NEW from, NEW result \in Answers, Returns(c, from, result)
    PROVE  /\ Alone(c)
           /\ pc[c] = from /\ pc'[c] = "idle"
           /\ answer'[c] = result /\ args'[c] = NoArgs
BY DEF TypeOK, Returns, Alone, Headers, Steps, Answers, NoArgs, Empty

\* Observe, thread by thread.
LEMMA ObserveFacts ==
    ASSUME Observe, NEW c \in Threads
    PROVE  /\ pc[c] \in Asking => right'[c] = right[c] \cup {RightAnswer(c)}
           /\ pc[c] \notin Asking /\ pc'[c] = "idle" => right'[c] = {answer'[c]}
BY DEF Observe

\* Who does not move keeps what it has found out, as the sets of the ended only grow.
LEMMA OthersFit ==
    ASSUME IInv, Observe, NEW d \in Threads,
           pc'[d] = pc[d], args'[d] = args[d], answer'[d] = answer[d],
           committed \subseteq committed', aborted \subseteq aborted'
    PROVE  AnswerFits(d)'
<1>1. AnswerFits(d)
  BY DEF IInv
<1>2. pc[d] = "idle" => pc[d] \notin Asking
  BY DEF Asking
<1>3. pc[d] = "state: aborted?" => pc[d] \in Asking
  BY DEF Asking
<1> QED BY <1>1, <1>2, <1>3, ObserveFacts DEF AnswerFits

-----------------------------------------------------------------------------
(* Steps that leave the manager alone, or change one of its sets *)

\* A thread that asks.
Asks(c) == pc[c] \notin Finishing \cup {"begin"} /\ pc'[c] \notin Finishing \cup {"begin"}

LEMMA AskingKeeps ==
    ASSUME IInv, NEW c \in Threads, Alone(c), Asks(c), Observe, AnswerFits(c)',
           UNCHANGED <<manager, versions, restarts>>
    PROVE  IInv'
<1> USE DEF IInv
<1>1. UNCHANGED <<nextTxnId, active, committed, aborted>>
  BY DEF manager
<1>2. TypeOK'
  BY <1>1 DEF TypeOK, Alone, Headers, Steps, Answers
<1>3. \A d \in Threads : Carries(d)' => Carries(d) /\ args'[d] = args[d]
  BY DEF Alone, Asks, Carries
<1>4. SetsAreApart' /\ CounterIsAhead'
  BY <1>1, <1>3 DEF SetsAreApart, CounterIsAhead
<1>5. CarriedAreApart'
  BY <1>1, <1>3 DEF CarriedAreApart
<1>6. \A d \in Threads : AnswerFits(d)'
  BY <1>1, OthersFit DEF Alone
<1> QED BY <1>2, <1>4, <1>5, <1>6

LEMMA GetStateKeeps ==
    ASSUME IInv, NEW c \in Threads, NEW t \in Ids, GetState(c, t), Observe, UNCHANGED restarts
    PROVE  IInv'
<1>1. Empty \in Headers /\ t \in Readers /\ "state: committed?" \in Steps
  BY BoundsAssumption DEF Headers, Empty, Ids, Readers, Steps, Asking
<1>2. TypeOK /\ Call(c, "state: committed?", t, Empty) /\ UNCHANGED <<manager, versions>>
  BY DEF GetState, IInv
<1>3. /\ Alone(c) /\ pc[c] = "idle" /\ pc'[c] = "state: committed?"
      /\ args'[c].header = Empty
  BY <1>1, <1>2 DEF Call, TypeOK, Alone, Steps, Answers, Headers
<1>4. Asks(c)
  BY <1>3 DEF Asks, Finishing
<1>5. AnswerFits(c)'
  BY <1>3 DEF AnswerFits
<1> QED BY <1>2, <1>3, <1>4, <1>5, AskingKeeps

LEMMA IsVisibleKeeps ==
    ASSUME IInv, NEW c \in Threads, NEW s \in Slots, NEW txn \in Readers,
           IsVisible(c, s, txn), Observe, UNCHANGED restarts
    PROVE  IInv'
<1>1. /\ versions[s] \in Headers /\ versions[s] # Empty
      /\ "visible: creator?" \in Steps /\ txn # INVALID_TXN_ID
  <2>1. versions[s] \in Headers
    BY DEF IInv, TypeOK, Headers
  <2>2. txn # INVALID_TXN_ID
    BY BoundsAssumption DEF Readers, INVALID_TXN_ID
  <2> QED BY <2>1, <2>2 DEF IsVisible, Steps, Asking
<1>2. /\ TypeOK /\ Call(c, "visible: creator?", txn, versions[s])
      /\ UNCHANGED <<manager, versions>>
  BY DEF IsVisible, IInv
<1>3. /\ Alone(c) /\ pc[c] = "idle" /\ pc'[c] = "visible: creator?"
      /\ args'[c].header # Empty /\ args'[c].txn # INVALID_TXN_ID
  BY <1>1, <1>2 DEF Call, TypeOK, Alone, Steps, Answers, Headers
<1>4. Asks(c)
  BY <1>3 DEF Asks, Finishing
<1>5. AnswerFits(c)'
  BY <1>3 DEF AnswerFits
<1> QED BY <1>2, <1>3, <1>4, <1>5, AskingKeeps

LEMMA FinishNotFoundKeeps ==
    ASSUME IInv, NEW c \in Threads, NEW t \in Ids, FinishNotFound(c, t), Observe,
           UNCHANGED restarts
    PROVE  IInv'
<1>1. /\ pc[c] = "idle" /\ answer' = [answer EXCEPT ![c] = "NotFound"]
      /\ UNCHANGED <<manager, versions, pc, args>>
  BY DEF FinishNotFound
<1>2. Alone(c)
  BY <1>1 DEF IInv, TypeOK, Alone, Headers, Steps, Answers
<1>3. Asks(c)
  BY <1>1 DEF Asks, Finishing
<1>4. AnswerFits(c)'
  BY <1>1, ObserveFacts DEF AnswerFits, Asking
<1> QED BY <1>1, <1>2, <1>3, <1>4, AskingKeeps

LEMMA StateCommittedKeeps ==
    ASSUME IInv, NEW c \in Threads, StateCommitted(c), Observe, UNCHANGED restarts
    PROVE  IInv'
<1>1. pc[c] = "state: committed?" /\ UNCHANGED <<manager, versions>>
  BY DEF StateCommitted, Returns, Goes
<1>2. args[c].header = Empty /\ RightAnswer(c) \in right'[c] /\ UNCHANGED <<committed, aborted>>
  BY <1>1, ObserveFacts DEF IInv, AnswerFits, Asking, manager
<1>3. CASE args[c].txn \in committed
  <2>1. /\ Alone(c) /\ pc'[c] = "idle" /\ answer'[c] = "Committed"
    BY <1>3, ReturnsFacts DEF StateCommitted, IInv, Answers
  <2>2. Asks(c) /\ AnswerFits(c)'
    BY <1>1, <1>2, <1>3, <2>1 DEF Asks, Finishing, AnswerFits, RightAnswer, StateOf
  <2> QED BY <1>1, <2>1, <2>2, AskingKeeps
<1>4. CASE args[c].txn \notin committed
  <2>1. /\ Alone(c) /\ pc'[c] = "state: aborted?" /\ args'[c] = args[c]
    BY <1>4, GoesFacts DEF StateCommitted, IInv, Steps, Asking
  <2>2. Asks(c) /\ AnswerFits(c)'
    BY <1>1, <1>2, <1>4, <2>1 DEF Asks, Finishing, AnswerFits, RightAnswer, StateOf
  <2> QED BY <1>1, <2>1, <2>2, AskingKeeps
<1> QED BY <1>3, <1>4

LEMMA StateAbortedKeeps ==
    ASSUME IInv, NEW c \in Threads, StateAborted(c), Observe, UNCHANGED restarts
    PROVE  IInv'
<1>1. /\ pc[c] = "state: aborted?" /\ UNCHANGED <<manager, versions>>
      /\ Alone(c) /\ pc'[c] = "idle"
      /\ answer'[c] = IF args[c].txn \in aborted THEN "Aborted" ELSE "Active"
  BY ReturnsFacts DEF StateAborted, IInv, Answers
<1>2. AnswerFits(c) /\ right'[c] = right[c] \cup {RightAnswer(c)}
  BY <1>1, ObserveFacts DEF IInv, Asking
<1>3. answer'[c] \in right'[c]
  BY <1>1, <1>2 DEF AnswerFits, RightAnswer, StateOf, IInv, SetsAreApart
<1>4. Asks(c) /\ AnswerFits(c)'
  BY <1>1, <1>3 DEF Asks, Finishing, AnswerFits
<1> QED BY <1>1, <1>4, AskingKeeps

LEMMA VisibleCreatorKeeps ==
    ASSUME IInv, NEW c \in Threads, VisibleCreator(c), Observe, UNCHANGED restarts
    PROVE  IInv'
<1> DEFINE txn == args[c].txn
           header == args[c].header
           known == header.xmin = txn \/ header.xmin \in committed
<1>1. pc[c] = "visible: creator?" /\ UNCHANGED <<manager, versions>>
  BY DEF VisibleCreator, Returns, Goes
<1>2. /\ header # Empty /\ RightAnswer(c) \in right'[c]
      /\ UNCHANGED <<committed, aborted>>
  BY <1>1, ObserveFacts DEF IInv, AnswerFits, Asking, manager
<1>3. txn # INVALID_TXN_ID
  BY <1>1 DEF IInv, AnswerFits
<1>10. RightAnswer(c) = IF Visible(header, txn) THEN "visible" ELSE "hidden"
  BY <1>2 DEF RightAnswer
<1>4. ASSUME NEW result \in {"visible", "hidden"},
             Returns(c, "visible: creator?", result), RightAnswer(c) = result
      PROVE  IInv'
  <2>1. Alone(c) /\ pc'[c] = "idle" /\ answer'[c] = result
    BY <1>4, ReturnsFacts DEF IInv, Answers
  <2>2. Asks(c) /\ AnswerFits(c)'
    BY <1>1, <1>2, <1>4, <2>1 DEF Asks, Finishing, AnswerFits
  <2> QED BY <1>1, <2>1, <2>2, AskingKeeps
<1>5. ASSUME known, header.xmax \notin {INVALID_TXN_ID, txn},
             Goes(c, "visible: creator?", "visible: deleter?")
      PROVE  IInv'
  <2>1. Alone(c) /\ pc'[c] = "visible: deleter?" /\ args'[c] = args[c]
    BY <1>5, GoesFacts DEF IInv, Steps, Asking
  <2>2. Asks(c) /\ AnswerFits(c)'
    BY <1>1, <1>2, <1>3, <1>5, <2>1 DEF Asks, Finishing, AnswerFits
  <2> QED BY <1>1, <2>1, <2>2, AskingKeeps
<1>6. CASE ~known /\ Returns(c, "visible: creator?", "hidden")
  <2>1. RightAnswer(c) = "hidden"
    BY <1>10, <1>6 DEF Visible
  <2> QED BY <1>4, <1>6, <2>1
<1>7. CASE known /\ header.xmax = INVALID_TXN_ID /\ Returns(c, "visible: creator?", "visible")
  <2>1. RightAnswer(c) = "visible"
    BY <1>10, <1>7 DEF Visible
  <2> QED BY <1>4, <1>7, <2>1
<1>8. CASE /\ known /\ header.xmax = txn /\ header.xmax # INVALID_TXN_ID
           /\ Returns(c, "visible: creator?", "hidden")
  <2>1. RightAnswer(c) = "hidden"
    BY <1>10, <1>8 DEF Visible
  <2> QED BY <1>4, <1>8, <2>1
<1>9. \/ ~known /\ Returns(c, "visible: creator?", "hidden")
      \/ /\ known
         /\ \/ header.xmax = INVALID_TXN_ID /\ Returns(c, "visible: creator?", "visible")
            \/ header.xmax = txn /\ Returns(c, "visible: creator?", "hidden")
            \/ /\ header.xmax \notin {INVALID_TXN_ID, txn}
               /\ Goes(c, "visible: creator?", "visible: deleter?")
  BY DEF VisibleCreator
<1> HIDE DEF known, header, txn
<1> QED BY <1>3, <1>5, <1>6, <1>7, <1>8, <1>9

LEMMA VisibleDeleterKeeps ==
    ASSUME IInv, NEW c \in Threads, VisibleDeleter(c), Observe, UNCHANGED restarts
    PROVE  IInv'
<1>1. /\ pc[c] = "visible: deleter?" /\ UNCHANGED <<manager, versions>>
      /\ Alone(c) /\ pc'[c] = "idle"
      /\ answer'[c] = IF args[c].header.xmax \in committed THEN "hidden" ELSE "visible"
  BY ReturnsFacts DEF VisibleDeleter, IInv, Answers
<1>2. AnswerFits(c) /\ RightAnswer(c) \in right'[c]
  BY <1>1, ObserveFacts DEF IInv, Asking
<1>3. answer'[c] = RightAnswer(c)
  BY <1>1, <1>2 DEF AnswerFits, RightAnswer, Visible
<1>4. Asks(c) /\ AnswerFits(c)'
  BY <1>1, <1>2, <1>3 DEF Asks, Finishing, AnswerFits
<1> QED BY <1>1, <1>4, AskingKeeps

-----------------------------------------------------------------------------
(* Steps that move a transaction *)

\* What those steps have in common: thread c moves, the sets of the ended grow.
Moving(c) ==
    /\ Alone(c)
    /\ pc[c] \notin Asking /\ pc'[c] \in {"idle"} \cup Finishing \cup {"begin"}
    /\ UNCHANGED <<versions, restarts>>
    /\ committed \subseteq committed' /\ aborted \subseteq aborted'

LEMMA MovingFits ==
    ASSUME IInv, Observe, NEW c \in Threads, Moving(c)
    PROVE  \A d \in Threads : AnswerFits(d)'
<1>1. AnswerFits(c)'
  BY ObserveFacts DEF Moving, AnswerFits, Finishing
<1> QED BY <1>1, OthersFit DEF Moving, Alone

LEMMA BeginTakeKeeps ==
    ASSUME IInv, NEW c \in Threads, BeginTake(c), Observe, UNCHANGED restarts
    PROVE  IInv'
<1> USE DEF IInv
<1>1. /\ nextTxnId \in 1 .. MaxTxns /\ nextTxnId' = nextTxnId + 1
      /\ UNCHANGED <<active, committed, aborted, versions>>
  BY BoundsAssumption DEF BeginTake, TypeOK, FIRST_NORMAL_TXN_ID
<1>2. /\ Alone(c) /\ pc[c] = "idle" /\ pc'[c] = "begin"
      /\ args'[c].txn = nextTxnId
  <2>1. nextTxnId \in Readers /\ Empty \in Headers
    BY <1>1, BoundsAssumption DEF Readers, Headers, Empty
  <2> QED BY <2>1 DEF BeginTake, Call, TypeOK, Alone, Steps, Answers, Headers
<1>3. \A d \in Threads \ {c} : (Carries(d)' <=> Carries(d)) /\ args'[d] = args[d]
  BY <1>2 DEF Alone, Carries
<1>4. TypeOK'
  BY <1>1, <1>2, BoundsAssumption
     DEF TypeOK, Alone, Headers, Steps, Answers, FIRST_NORMAL_TXN_ID
<1>5. SetsAreApart' /\ CounterIsAhead'
  BY <1>1, <1>2, <1>3 DEF SetsAreApart, CounterIsAhead
<1>6. CarriedAreApart'
  <2>1. nextTxnId \notin active \cup committed \cup aborted
    BY <1>1 DEF CounterIsAhead
  <2>2. \A d \in Threads : Carries(d) => args[d].txn # nextTxnId
    BY <1>1 DEF CounterIsAhead
  <2> QED BY <1>1, <1>2, <1>3, <2>1, <2>2 DEF CarriedAreApart
<1>7. Moving(c)
  BY <1>1, <1>2 DEF Moving, Asking
<1> QED BY <1>4, <1>5, <1>6, <1>7, MovingFits

\* A thread puts the transaction it carries down: into the active ones, when it began.
LEMMA PutDownKeeps ==
    ASSUME IInv, NEW c \in Threads, NEW from, Returns(c, from, "Ok"), Carries(c),
           Observe, UNCHANGED <<nextTxnId, versions, restarts>>,
           \/ active' = active \cup {args[c].txn} /\ UNCHANGED <<committed, aborted>>
           \/ committed' = committed \cup {args[c].txn} /\ UNCHANGED <<active, aborted>>
           \/ aborted' = aborted \cup {args[c].txn} /\ UNCHANGED <<active, committed>>
    PROVE  IInv'
<1> USE DEF IInv
<1>1. Alone(c) /\ pc'[c] = "idle"
  BY ReturnsFacts DEF Answers
<1>2. /\ ~Carries(c)'
      /\ \A d \in Threads \ {c} : (Carries(d)' <=> Carries(d)) /\ args'[d] = args[d]
  BY <1>1 DEF Alone, Carries, Finishing
<1>3. /\ args[c].txn \in 1 .. nextTxnId - 1
      /\ args[c].txn \notin active \cup committed \cup aborted
      /\ \A d \in Threads \ {c} : Carries(d) => args[d].txn # args[c].txn
  BY DEF CounterIsAhead, CarriedAreApart
<1>4. args[c].txn \in Ids
  BY <1>3, BoundsAssumption DEF TypeOK, Ids, FIRST_NORMAL_TXN_ID
<1> DEFINE t == args[c].txn
<1> HIDE DEF t
<1>5. TypeOK'
  BY <1>1, <1>4 DEF TypeOK, Alone, Headers, Steps, Answers
<1>6. SetsAreApart' /\ CounterIsAhead'
  BY <1>2, <1>3 DEF SetsAreApart, CounterIsAhead
<1>7. CarriedAreApart'
  BY <1>2, <1>3 DEF CarriedAreApart
<1>8. Moving(c)
  BY <1>1 DEF Moving, Carries, Finishing, Asking
<1> QED BY <1>5, <1>6, <1>7, <1>8, MovingFits

LEMMA RecordKeeps ==
    ASSUME IInv, NEW c \in Threads, BeginRecord(c) \/ CommitRecord(c) \/ AbortRecord(c),
           Observe, UNCHANGED restarts
    PROVE  IInv'
<1>1. CASE BeginRecord(c)
  <2>1. Returns(c, "begin", "Ok") /\ Carries(c)
    BY <1>1 DEF BeginRecord, Returns, Carries
  <2> QED BY <1>1, <2>1, PutDownKeeps DEF BeginRecord
<1>2. CASE CommitRecord(c)
  <2>1. Returns(c, "commit", "Ok") /\ Carries(c)
    BY <1>2 DEF CommitRecord, Returns, Carries, Finishing
  <2> QED BY <1>2, <2>1, PutDownKeeps DEF CommitRecord
<1>3. CASE AbortRecord(c)
  <2>1. Returns(c, "abort", "Ok") /\ Carries(c)
    BY <1>3 DEF AbortRecord, Returns, Carries, Finishing
  <2> QED BY <1>3, <2>1, PutDownKeeps DEF AbortRecord
<1> QED BY <1>1, <1>2, <1>3

LEMMA FinishRemoveKeeps ==
    ASSUME IInv, NEW c \in Threads, NEW t \in Ids, NEW call \in Finishing,
           FinishRemove(c, t, call), Observe, UNCHANGED restarts
    PROVE  IInv'
<1> USE DEF IInv
<1>1. /\ t \in active /\ active' = active \ {t}
      /\ UNCHANGED <<nextTxnId, committed, aborted, versions>>
  BY DEF FinishRemove
<1>2. /\ Alone(c) /\ pc[c] = "idle" /\ pc'[c] = call
      /\ args'[c].txn = t
  <2>1. t \in Readers /\ Empty \in Headers
    BY BoundsAssumption DEF Readers, Ids, Headers, Empty
  <2> QED BY <2>1 DEF FinishRemove, Call, TypeOK, Alone, Steps, Answers, Headers
<1>3. \A d \in Threads \ {c} : (Carries(d)' <=> Carries(d)) /\ args'[d] = args[d]
  BY <1>2 DEF Alone, Carries
<1>4. TypeOK'
  BY <1>1, <1>2 DEF TypeOK, Alone, Headers, Steps, Answers
<1>5. SetsAreApart'
  BY <1>1 DEF SetsAreApart
<1>6. CounterIsAhead'
  BY <1>1, <1>2, <1>3 DEF CounterIsAhead
<1>7. CarriedAreApart'
  <2>1. t \notin committed \cup aborted
    BY <1>1 DEF SetsAreApart
  <2>2. \A d \in Threads : Carries(d) => args[d].txn # t
    BY <1>1 DEF CarriedAreApart
  <2> QED BY <1>1, <1>2, <1>3, <2>1, <2>2 DEF CarriedAreApart
<1>8. Moving(c)
  BY <1>1, <1>2 DEF Moving, Asking
<1> QED BY <1>4, <1>5, <1>6, <1>7, <1>8, MovingFits

-----------------------------------------------------------------------------
(* Steps in which no thread of the manager moves *)

LEMMA TuplesKeep ==
    ASSUME IInv, NEW s \in Slots, NEW t \in Ids, InsertRecord(s, t) \/ MarkDeleted(s, t),
           Observe, UNCHANGED restarts
    PROVE  IInv'
<1> USE DEF IInv
<1>1. UNCHANGED <<nextTxnId, active, committed, aborted, pc, args, answer>>
  BY DEF InsertRecord, MarkDeleted, manager, threads
<1>2. versions' \in [Slots -> Headers]
  <2>1. versions \in [Slots -> Headers] /\ versions[s] \in Headers
    BY DEF TypeOK, Headers
  <2>2. CASE InsertRecord(s, t)
    <3>1. [versions[s] EXCEPT !.xmin = t] \in Headers
      BY <2>1 DEF Headers
    <3> QED BY <2>1, <2>2, <3>1 DEF InsertRecord
  <2>3. CASE MarkDeleted(s, t)
    <3>1. [versions[s] EXCEPT !.xmax = t] \in Headers
      BY <2>1 DEF Headers
    <3> QED BY <2>1, <2>3, <3>1 DEF MarkDeleted
  <2> QED BY <2>2, <2>3
<1>3. TypeOK'
  BY <1>1, <1>2 DEF TypeOK, Headers
<1>4. SetsAreApart' /\ CarriedAreApart' /\ CounterIsAhead'
  BY <1>1 DEF SetsAreApart, CarriedAreApart, CounterIsAhead, Carries
<1>5. \A d \in Threads : AnswerFits(d)'
  BY <1>1, OthersFit
<1> QED BY <1>3, <1>4, <1>5

LEMMA RestartKeeps ==
    ASSUME IInv, Restart
    PROVE  IInv'
<1> USE DEF IInv, Restart
<1>1. \A c \in Threads : pc'[c] = "idle" /\ answer'[c] = "none" /\ right'[c] = {"none"}
  OBVIOUS
<1>2. TypeOK'
  BY BoundsAssumption
     DEF TypeOK, NoArgs, Empty, FIRST_NORMAL_TXN_ID
<1>3. SetsAreApart' /\ CarriedAreApart' /\ CounterIsAhead'
  BY <1>1 DEF SetsAreApart, CarriedAreApart, CounterIsAhead, Carries, Finishing
<1>4. \A c \in Threads : AnswerFits(c)'
  BY <1>1 DEF AnswerFits
<1> QED BY <1>2, <1>3, <1>4

LEMMA StartsRight ==
    ASSUME Init
    PROVE  IInv
<1> USE DEF Init
<1>1. TypeOK
  BY BoundsAssumption DEF TypeOK, NoArgs, Empty, FIRST_NORMAL_TXN_ID
<1>2. SetsAreApart /\ CarriedAreApart /\ CounterIsAhead
  BY DEF SetsAreApart, CarriedAreApart, CounterIsAhead, Carries, Finishing
<1>3. \A c \in Threads : AnswerFits(c)
  BY DEF AnswerFits
<1> QED BY <1>1, <1>2, <1>3 DEF IInv

-----------------------------------------------------------------------------
(* Invariance *)

\* The inductive invariant of the transaction manager holds of every behaviour.
THEOREM TxInvariance == Spec => []IInv
<1>1. Init => IInv
  BY StartsRight
<1>2. IInv /\ [Next]_vars => IInv'
  <2> SUFFICES ASSUME IInv, [Next]_vars
               PROVE  IInv'
    OBVIOUS
  <2>1. ASSUME NEW c \in Threads, Step(c), Observe, UNCHANGED restarts
        PROVE  IInv'
    BY <2>1, BeginTakeKeeps, RecordKeeps, FinishRemoveKeeps, FinishNotFoundKeeps,
       GetStateKeeps, IsVisibleKeeps, StateCommittedKeeps, StateAbortedKeeps,
       VisibleCreatorKeeps, VisibleDeleterKeeps DEF Step
  <2>2. ASSUME NEW s \in Slots, NEW t \in Ids, InsertRecord(s, t) \/ MarkDeleted(s, t),
               Observe, UNCHANGED restarts
        PROVE  IInv'
    BY <2>2, TuplesKeep
  <2>3. CASE UNCHANGED vars
    BY <2>3 DEF vars, manager, threads, IInv, TypeOK, SetsAreApart, CarriedAreApart,
                CounterIsAhead, Carries, AnswerFits
  <2> QED BY <2>1, <2>2, <2>3, RestartKeeps DEF Next
<1> QED BY <1>1, <1>2, PTL DEF Spec

\* The variables of the manager keep their types; the counter stays within its bound.
THEOREM TxTypes == Spec => []TypeOK
BY TxInvariance, PTL DEF IInv

\* However commits and aborts race, a transaction is active, on its way out,
\* committed or aborted, and never two of these.
THEOREM OneOutcomeOnly == Spec => []OneOutcome
<1>1. IInv => OneOutcome
  BY DEF IInv, SetsAreApart, CarriedAreApart, Carries, OneOutcome
<1> QED BY <1>1, TxInvariance, PTL

\* What get_state and is_visible answer was the case at one moment of the call,
\* whoever commits between their two looks.
THEOREM AnswersAreTrue == Spec => []AnswersWereTrue
<1>1. IInv => AnswersWereTrue
  BY DEF IInv, AnswerFits, AnswersWereTrue
<1> QED BY <1>1, TxInvariance, PTL

-----------------------------------------------------------------------------
(* The manager implements TransactionStatus *)

Ending(t) == \E c \in Threads : pc[c] \in Finishing /\ args[c].txn = t

StatusOf(t) ==
    IF t \in committed THEN "committed"
    ELSE IF t \in aborted THEN "aborted"
    ELSE IF t \in active \/ Ending(t) THEN "active"
    ELSE "unused"

LEMMA StatusFacts ==
    /\ Status = [t \in Ids |-> StatusOf(t)]
    /\ Status' = [t \in Ids |-> StatusOf(t)']
BY DEF Status, StatusOf, Ending

\* The step of a thread that puts its transaction down.
LEMMA PutDownIsAStep ==
    ASSUME IInv, NEW c \in Threads, BeginRecord(c) \/ CommitRecord(c) \/ AbortRecord(c)
    PROVE  \E t \in Ids : Abstract!Begin(t) \/ Abstract!Commit(t) \/ Abstract!Abort(t)
<1> DEFINE t == args[c].txn
<1> USE DEF IInv
<1>1. Carries(c) /\ Alone(c) /\ pc'[c] = "idle"
  BY ReturnsFacts
     DEF BeginRecord, CommitRecord, AbortRecord, Returns, Carries, Finishing, Answers
<1>2. /\ t \in 1 .. nextTxnId - 1 /\ t \notin active \cup committed \cup aborted
      /\ \A d \in Threads \ {c} : Carries(d) => args[d].txn # t
  BY <1>1 DEF CounterIsAhead, CarriedAreApart
<1>3. t \in Ids
  BY <1>2, BoundsAssumption DEF TypeOK, Ids, FIRST_NORMAL_TXN_ID
<1>4. \A d \in Threads \ {c} : pc'[d] = pc[d] /\ args'[d] = args[d]
  BY <1>1 DEF Alone
<1>5. \A u : Ending(u)' <=> Ending(u) /\ (u # t)
  BY <1>1, <1>2, <1>4 DEF Ending, Carries, Finishing
<1> HIDE DEF t
<1>6. CASE BeginRecord(c)
  <2>1. active' = active \cup {t} /\ UNCHANGED <<committed, aborted>> /\ ~Ending(t)
    BY <1>2, <1>4, <1>6 DEF BeginRecord, Returns, Ending, Carries, Finishing, t
  <2>2. Status[t] = "unused" /\ Status'[t] = "active"
    BY <1>2, <1>3, <2>1 DEF Status, Ending
  <2>3. \A u \in Ids \ {t} : StatusOf(u)' = StatusOf(u)
    BY <1>5, <2>1 DEF StatusOf
  <2>4. Status' = [Status EXCEPT ![t] = "active"]
    BY <1>3, <2>2, <2>3, StatusFacts
  <2> QED BY <1>3, <2>2, <2>4 DEF Abstract!Begin, Abstract!Moves
<1>7. CASE CommitRecord(c)
  <2>1. committed' = committed \cup {t} /\ UNCHANGED <<active, aborted>> /\ Ending(t)
    BY <1>7 DEF CommitRecord, Returns, Ending, Finishing, t
  <2>2. Status[t] = "active" /\ Status'[t] = "committed"
    BY <1>2, <1>3, <2>1 DEF Status, Ending
  <2>3. \A u \in Ids \ {t} : StatusOf(u)' = StatusOf(u)
    BY <1>5, <2>1 DEF StatusOf
  <2>4. Status' = [Status EXCEPT ![t] = "committed"]
    BY <1>3, <2>2, <2>3, StatusFacts
  <2> QED BY <1>3, <2>2, <2>4 DEF Abstract!Commit, Abstract!Moves
<1>8. CASE AbortRecord(c)
  <2>1. aborted' = aborted \cup {t} /\ UNCHANGED <<active, committed>> /\ Ending(t)
    BY <1>8 DEF AbortRecord, Returns, Ending, Finishing, t
  <2>2. Status[t] = "active" /\ Status'[t] = "aborted"
    BY <1>2, <1>3, <2>1 DEF Status, Ending
  <2>3. \A u \in Ids \ {t} : StatusOf(u)' = StatusOf(u)
    BY <1>5, <2>1 DEF StatusOf
  <2>4. Status' = [Status EXCEPT ![t] = "aborted"]
    BY <1>3, <2>2, <2>3, StatusFacts
  <2> QED BY <1>3, <2>2, <2>4 DEF Abstract!Abort, Abstract!Moves
<1> QED BY <1>6, <1>7, <1>8

\* commit and abort take the transaction from the active ones into their hands.
LEMMA FinishRemoveStutters ==
    ASSUME IInv, NEW c \in Threads, NEW t \in Ids, NEW call \in Finishing,
           FinishRemove(c, t, call)
    PROVE  Status' = Status
<1>1. /\ t \in active /\ active' = active \ {t} /\ UNCHANGED <<committed, aborted>>
      /\ pc[c] = "idle" /\ pc'[c] = call /\ args'[c].txn = t
      /\ \A d \in Threads \ {c} : pc'[d] = pc[d] /\ args'[d] = args[d]
  BY DEF FinishRemove, Call, IInv, TypeOK
<1>2. \A u : Ending(u)' <=> Ending(u) \/ u = t
  BY <1>1 DEF Ending, Finishing
<1> QED BY <1>1, <1>2 DEF Status, Ending

LEMMA AskingStutters ==
    ASSUME IInv, UNCHANGED <<active, committed, aborted>>,
           \A d \in Threads : /\ pc'[d] \in Finishing <=> pc[d] \in Finishing
                              /\ pc[d] \in Finishing => args'[d] = args[d]
    PROVE  Status' = Status
<1>1. \A u : Ending(u)' <=> Ending(u)
  BY DEF Ending
<1> QED BY <1>1 DEF Status, Ending

\* A transaction is begun once and ends once, however its commits and aborts race.
THEOREM TransactionsEndOnce == Spec => EndsOnce
<1>1. Init => Abstract!Init
  BY DEF Init, Abstract!Init, Status, Finishing
<1>2. IInv /\ [Next]_vars => [Abstract!Next]_Status
  <2> SUFFICES ASSUME IInv, [Next]_vars
               PROVE  Abstract!Next \/ Status' = Status
    OBVIOUS
  <2>1. ASSUME NEW c \in Threads, BeginRecord(c) \/ CommitRecord(c) \/ AbortRecord(c)
        PROVE  Abstract!Next
    BY <2>1, PutDownIsAStep DEF Abstract!Next
  <2>2. ASSUME NEW c \in Threads, Step(c),
               ~(BeginRecord(c) \/ CommitRecord(c) \/ AbortRecord(c)),
               ~\E t \in Ids : \E call \in Finishing : FinishRemove(c, t, call)
        PROVE  Status' = Status
    <3>1. UNCHANGED <<active, committed, aborted>>
      BY <2>2 DEF Step, BeginTake, FinishNotFound, GetState, IsVisible, StateCommitted,
                  StateAborted, VisibleCreator, VisibleDeleter, manager
    <3>2. \A d \in Threads : /\ pc'[d] \in Finishing <=> pc[d] \in Finishing
                             /\ pc[d] \in Finishing => args'[d] = args[d]
      BY <2>2 DEF Step, BeginTake, FinishNotFound, GetState, IsVisible, StateCommitted,
                  StateAborted, VisibleCreator, VisibleDeleter, Call, Goes, Returns,
                  IInv, TypeOK, Finishing
    <3> QED BY <3>1, <3>2, AskingStutters
  <2>3. ASSUME NEW c \in Threads, NEW t \in Ids, NEW call \in Finishing,
               FinishRemove(c, t, call)
        PROVE  Status' = Status
    BY <2>3, FinishRemoveStutters
  <2>4. ASSUME NEW s \in Slots, NEW t \in Ids, InsertRecord(s, t) \/ MarkDeleted(s, t)
        PROVE  Status' = Status
    BY <2>4, AskingStutters DEF InsertRecord, MarkDeleted, manager, threads
  <2>5. CASE Restart
    <3>1. Status' = [t \in Ids |-> "unused"]
      BY <2>5 DEF Restart, Status, Finishing
    <3> QED BY <3>1 DEF Abstract!Next, Abstract!Restart
  <2>6. CASE UNCHANGED vars
    BY <2>6 DEF vars, manager, threads, Status
  <2> QED BY <2>1, <2>2, <2>3, <2>4, <2>5, <2>6 DEF Next
<1> QED BY <1>1, <1>2, TxInvariance, PTL DEF Spec, EndsOnce, Abstract!Spec
=============================================================================
