------------------------- MODULE TransactionManager --------------------------
(***************************************************************************)
(* wasdb_tx/src/lib.rs, and the tuple headers of wasdb_page/src/lib.rs     *)
(* whose visibility it decides.                                            *)
(*                                                                         *)
(* The manager has a counter and three sets, each behind a lock of its     *)
(* own, and its calls take them one after the other: every access to one   *)
(* of them is a step, and what it found may be stale at the next.          *)
(***************************************************************************)
EXTENDS Naturals, FiniteSets

CONSTANTS Threads,
          Slots,       \* tuple versions in the table
          MaxTxns,     \* bound on the transactions begun in one run of the process
          MaxRestarts  \* bound on the restarts of the process

ASSUME BoundsAssumption == MaxTxns \in Nat /\ MaxRestarts \in Nat

Ids == 1 .. MaxTxns
Readers == 1 .. MaxTxns + 1  \* is_visible may be asked for a transaction not begun
INVALID_TXN_ID == 0
FIRST_NORMAL_TXN_ID == 1

VARIABLES
    nextTxnId, active, committed, aborted,  \* TransactionManager
    versions,  \* the TupleHeader of each slot: xmin, INVALID_TXN_ID if it is empty, and xmax
    pc,        \* the call a thread is in, and how far it is
    args,      \* its arguments: txn, and the tuple header is_visible was given
    answer,    \* what the thread's last call returned
    right,     \* ghost: the answers that were right at some moment of the call so far
    restarts   \* counter for the bound

manager == <<nextTxnId, active, committed, aborted>>
threads == <<pc, args, answer>>
vars == <<manager, versions, threads, right, restarts>>

Empty == [xmin |-> INVALID_TXN_ID, xmax |-> INVALID_TXN_ID]
NoArgs == [txn |-> INVALID_TXN_ID, header |-> Empty]

Init ==
    /\ nextTxnId = FIRST_NORMAL_TXN_ID
    /\ active = {}
    /\ committed = {}
    /\ aborted = {}
    /\ pc = [c \in Threads |-> "idle"]
    /\ args = [c \in Threads |-> NoArgs]
    /\ answer = [c \in Threads |-> "none"]
    /\ versions = [s \in Slots |-> Empty]
    /\ right = [c \in Threads |-> {"none"}]
    /\ restarts = 0

\* commit and abort hold active_txns from their first step to their last.
Finishing == {"commit", "abort"}
ActiveTxnsFree == \A c \in Threads : pc[c] \notin Finishing

Call(c, step, txn, header) ==
    /\ pc[c] = "idle"
    /\ pc' = [pc EXCEPT ![c] = step]
    /\ args' = [args EXCEPT ![c] = [txn |-> txn, header |-> header]]
    /\ UNCHANGED answer

Goes(c, from, to) ==
    /\ pc[c] = from
    /\ pc' = [pc EXCEPT ![c] = to]
    /\ UNCHANGED <<args, answer>>

Returns(c, from, result) ==
    /\ pc[c] = from
    /\ pc' = [pc EXCEPT ![c] = "idle"]
    /\ answer' = [answer EXCEPT ![c] = result]
    /\ args' = [args EXCEPT ![c] = NoArgs]

-----------------------------------------------------------------------------
(* begin, commit and abort *)

BeginTake(c) ==
    /\ nextTxnId <= MaxTxns
    /\ Call(c, "begin", nextTxnId, Empty)
    /\ nextTxnId' = nextTxnId + 1
    /\ UNCHANGED <<active, committed, aborted, versions>>

\* Bug: the counter is read a second time.
BeginRecordCounter(c) ==
    /\ ActiveTxnsFree
    /\ Returns(c, "begin", "Ok")
    /\ active' = active \cup {nextTxnId}
    /\ UNCHANGED <<nextTxnId, committed, aborted, versions>>

BeginRecord(c) ==
    /\ ActiveTxnsFree
    /\ Returns(c, "begin", "Ok")
    /\ active' = active \cup {args[c].txn}
    /\ UNCHANGED <<nextTxnId, committed, aborted, versions>>

\* Bug: it does not matter whether the transaction is active.
FinishUnchecked(c, t, call) ==
    /\ ActiveTxnsFree
    /\ t < nextTxnId
    /\ Call(c, call, t, Empty)
    /\ active' = active \ {t}
    /\ UNCHANGED <<nextTxnId, committed, aborted, versions>>

\* Bug: the transaction is looked up, but not taken out of active_txns.
FinishKeeping(c, t, call) ==
    /\ ActiveTxnsFree
    /\ t \in active
    /\ Call(c, call, t, Empty)
    /\ UNCHANGED <<manager, versions>>

\* The transaction is taken out of active_txns, whose lock is kept.
FinishRemove(c, t, call) ==
    /\ ActiveTxnsFree
    /\ t \in active
    /\ Call(c, call, t, Empty)
    /\ active' = active \ {t}
    /\ UNCHANGED <<nextTxnId, committed, aborted, versions>>

FinishNotFound(c, t) ==
    /\ ActiveTxnsFree
    /\ t \notin active
    /\ pc[c] = "idle"
    /\ answer' = [answer EXCEPT ![c] = "NotFound"]
    /\ UNCHANGED <<manager, versions, pc, args>>

CommitRecord(c) ==
    /\ Returns(c, "commit", "Ok")
    /\ committed' = committed \cup {args[c].txn}
    /\ UNCHANGED <<nextTxnId, active, aborted, versions>>

AbortRecord(c) ==
    /\ Returns(c, "abort", "Ok")
    /\ aborted' = aborted \cup {args[c].txn}
    /\ UNCHANGED <<nextTxnId, active, committed, versions>>

-----------------------------------------------------------------------------
(* get_state and is_visible *)

GetState(c, t) ==
    /\ Call(c, "state: committed?", t, Empty)
    /\ UNCHANGED <<manager, versions>>

StateCommitted(c) ==
    /\ IF args[c].txn \in committed
       THEN Returns(c, "state: committed?", "Committed")
       ELSE Goes(c, "state: committed?", "state: aborted?")
    /\ UNCHANGED <<manager, versions>>

\* Bug: the second look is into active_txns.
StateNotActive(c) ==
    /\ ActiveTxnsFree
    /\ Returns(c, "state: aborted?",
               IF args[c].txn \in active THEN "Active" ELSE "Aborted")
    /\ UNCHANGED <<manager, versions>>

StateAborted(c) ==
    /\ Returns(c, "state: aborted?",
               IF args[c].txn \in aborted THEN "Aborted" ELSE "Active")
    /\ UNCHANGED <<manager, versions>>

\* A scan asks about the header of a tuple it was handed; the page may have changed
\* since.
IsVisible(c, s, txn) ==
    /\ versions[s] # Empty
    /\ Call(c, "visible: creator?", txn, versions[s])
    /\ UNCHANGED <<manager, versions>>

VisibleCreator(c) ==
    LET txn == args[c].txn
        header == args[c].header
        step == "visible: creator?"
    IN  /\ \/ /\ header.xmin # txn /\ header.xmin \notin committed
              /\ Returns(c, step, "hidden")
           \/ /\ header.xmin = txn \/ header.xmin \in committed
              /\ \/ header.xmax = INVALID_TXN_ID /\ Returns(c, step, "visible")
                 \/ header.xmax = txn /\ Returns(c, step, "hidden")
                 \/ /\ header.xmax \notin {INVALID_TXN_ID, txn}
                    /\ Goes(c, step, "visible: deleter?")
        /\ UNCHANGED <<manager, versions>>

VisibleDeleter(c) ==
    /\ Returns(c, "visible: deleter?",
               IF args[c].header.xmax \in committed THEN "hidden" ELSE "visible")
    /\ UNCHANGED <<manager, versions>>

-----------------------------------------------------------------------------
(* Tuple headers, each call under the page's write latch. *)

InsertRecord(s, xmin) ==
    /\ xmin \in active
    /\ versions[s] = Empty
    /\ versions' = [versions EXCEPT ![s].xmin = xmin]
    /\ UNCHANGED <<manager, threads>>

\* mark_deleted overwrites xmax, whoever had set it.
MarkDeleted(s, xmax) ==
    /\ xmax \in active
    /\ versions[s] # Empty
    /\ versions' = [versions EXCEPT ![s].xmax = xmax]
    /\ UNCHANGED <<manager, threads>>

-----------------------------------------------------------------------------
\* The manager lives in memory; the tuples are on disk.
Restart ==
    /\ restarts < MaxRestarts
    /\ restarts' = restarts + 1
    /\ nextTxnId' = FIRST_NORMAL_TXN_ID
    /\ active' = {}
    /\ committed' = {}
    /\ aborted' = {}
    /\ pc' = [c \in Threads |-> "idle"]
    /\ args' = [c \in Threads |-> NoArgs]
    /\ answer' = [c \in Threads |-> "none"]
    /\ right' = [c \in Threads |-> {"none"}]
    /\ UNCHANGED versions

\* What a call that looked at everything at once would answer.
StateOf(t) ==
    IF t \in committed THEN "Committed" ELSE IF t \in aborted THEN "Aborted" ELSE "Active"

Visible(header, txn) ==
    /\ header.xmin = txn \/ header.xmin \in committed
    /\ header.xmax = INVALID_TXN_ID \/ (header.xmax # txn /\ header.xmax \notin committed)

RightAnswer(c) ==
    IF args[c].header = Empty THEN StateOf(args[c].txn)
    ELSE IF Visible(args[c].header, args[c].txn) THEN "visible" ELSE "hidden"

Asking == {"state: committed?", "state: aborted?", "visible: creator?", "visible: deleter?"}

\* An answer is right if it was right at some moment between call and return.
Observe ==
    right' = [c \in Threads |->
                 IF pc[c] \in Asking THEN right[c] \cup {RightAnswer(c)}
                 ELSE IF pc'[c] = "idle" THEN {answer'[c]}
                 ELSE {}]

Step(c) ==
    \/ BeginTake(c) \/ BeginRecord(c)
    \/ \E t \in Ids : \/ \E call \in Finishing : FinishRemove(c, t, call)
                      \/ FinishNotFound(c, t)
                      \/ GetState(c, t)
    \/ CommitRecord(c) \/ AbortRecord(c)
    \/ \E s \in Slots, txn \in Readers : IsVisible(c, s, txn)
    \/ StateCommitted(c) \/ StateAborted(c)
    \/ VisibleCreator(c) \/ VisibleDeleter(c)

Next ==
    \/ /\ \/ \E c \in Threads : Step(c)
          \/ \E s \in Slots, t \in Ids : InsertRecord(s, t) \/ MarkDeleted(s, t)
       /\ Observe
       /\ UNCHANGED restarts
    \/ Restart

Spec == Init /\ [][Next]_vars

-----------------------------------------------------------------------------
(* Properties *)

TypeOK ==
    /\ nextTxnId \in FIRST_NORMAL_TXN_ID .. MaxTxns + 1
    /\ active \subseteq Ids
    /\ committed \subseteq Ids
    /\ aborted \subseteq Ids
    /\ versions \in [Slots -> [xmin : {INVALID_TXN_ID} \cup Ids, xmax : {INVALID_TXN_ID} \cup Ids]]
    /\ pc \in [Threads -> {"idle", "begin"} \cup Finishing \cup Asking]
    /\ args \in [Threads -> [txn : {INVALID_TXN_ID} \cup Readers,
                             header : [xmin : {INVALID_TXN_ID} \cup Ids,
                                       xmax : {INVALID_TXN_ID} \cup Ids]]]
    /\ answer \in [Threads -> {"none", "Ok", "NotFound", "Committed", "Aborted", "Active",
                               "visible", "hidden"}]
    /\ restarts \in 0 .. MaxRestarts

\* However commits and aborts of a transaction race, it is in one of the sets:
\* no two of them succeed, and none succeeds on a transaction that has ended.
OneOutcome ==
    LET finishing == {args[c].txn : c \in {d \in Threads : pc[d] \in Finishing}} IN
    /\ active \cap (committed \cup aborted \cup finishing) = {}
    /\ committed \cap aborted = {}
    /\ finishing \cap (committed \cup aborted) = {}

\* get_state and is_visible look at the sets one after the other, and answer what
\* was the case at one moment of the call all the same.
AnswersWereTrue == \A c \in Threads : pc[c] = "idle" => answer[c] \in right[c]

\* A transaction ends once.
Status ==
    [t \in Ids |->
        IF t \in committed THEN "committed"
        ELSE IF t \in aborted THEN "aborted"
        ELSE IF t \in active \/ \E c \in Threads : pc[c] \in Finishing /\ args[c].txn = t
        THEN "active"
        ELSE "unused"]

Abstract == INSTANCE TransactionStatus WITH status <- Status
EndsOnce == Abstract!Spec
=============================================================================
