------------------------------- MODULE PageFile -------------------------------
(***************************************************************************)
(* What the trait DiskManager promises, and the buffer pool and the heap   *)
(* rely on: pages that are read as they were last written, through every   *)
(* stop of the process, and page numbers that are handed out once.         *)
(* DiskManager is shown to implement it.                                   *)
(***************************************************************************)
CONSTANTS PageNums, Data,
          Zero,    \* a page nobody has written
          Unsure   \* a page of which a write failed, or has not ended

VARIABLES
    image,   \* of each page
    given,   \* the pages handed out since the process started
    answer   \* what the last read_page returned

vars == <<image, given, answer>>

Init ==
    /\ image = [p \in PageNums |-> Zero]
    /\ given = {}
    /\ answer = Zero

Read(p) ==
    /\ image[p] # Unsure => answer' = image[p]
    /\ UNCHANGED <<image, given>>

Write(p, d) ==
    /\ image' = [image EXCEPT ![p] = d]
    /\ UNCHANGED <<given, answer>>

Allocate(p) ==
    /\ p \notin given
    /\ image[p] \notin Data
    /\ given' = given \cup {p}
    /\ UNCHANGED <<image, answer>>

Restart ==
    /\ given' = {}
    /\ UNCHANGED <<image, answer>>

Next ==
    \/ \E p \in PageNums : \/ Read(p)
                           \/ \E d \in Data \cup {Unsure} : Write(p, d)
                           \/ Allocate(p)
    \/ Restart

Spec == Init /\ [][Next]_vars
=============================================================================
