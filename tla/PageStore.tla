------------------------------ MODULE PageStore ------------------------------
(***************************************************************************)
(* What the buffer pool and the disk manager promise together: every page  *)
(* has one current image, the one every reader sees, and one stable image, *)
(* the one on disk; the current image is changed by the holder of the      *)
(* page's write guard and by nobody else.  Caching, eviction and           *)
(* write-back are not visible here.  BufferPool is shown to implement this *)
(* specification.                                                          *)
(***************************************************************************)
CONSTANTS Pages,     \* the page numbers of the database file
          Contents,  \* what a page may hold: records with fields data and lsn
          Zero       \* the image of a page that was never written

VARIABLES current, stable,
          writing    \* the pages whose write guard is held

storeVars == <<current, stable, writing>>

Init ==
    /\ current = [n \in Pages |-> Zero]
    /\ stable = [n \in Pages |-> Zero]
    /\ writing = {}

\* The write guard of a page is given to one client at a time.
Take(n) ==
    /\ n \notin writing
    /\ writing' = writing \cup {n}
    /\ UNCHANGED <<current, stable>>

Drop(n) ==
    /\ n \in writing
    /\ writing' = writing \ {n}
    /\ UNCHANGED <<current, stable>>

\* The holder of the page's write guard changes the page.
Write(n) ==
    /\ n \in writing
    /\ current'[n] \in Contents
    /\ current' = [current EXCEPT ![n] = current'[n]]
    /\ UNCHANGED <<stable, writing>>

\* The current image reaches the disk, and nothing else does.
Sync(n) ==
    /\ stable' = [stable EXCEPT ![n] = current[n]]
    /\ UNCHANGED <<current, writing>>

\* The process stops: what was not stable is gone.
Crash ==
    /\ current' = stable
    /\ writing' = {}
    /\ UNCHANGED stable

Next ==
    \/ \E n \in Pages : Take(n) \/ Drop(n) \/ Write(n) \/ Sync(n)
    \/ Crash

Spec == Init /\ [][Next]_storeVars
=============================================================================
