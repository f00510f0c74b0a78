-------------------------------- MODULE Index --------------------------------
(***************************************************************************)
(* The trait Index (wasdb_btree/src/traits.rs) as the hash index           *)
(* (wasdb_btree/src/hash.rs) keeps it: a map from keys to CTIDs of which   *)
(* every call sees one state.  A call is begun, takes effect in one step   *)
(* and answers in it.  BTreeIndex is shown to implement this               *)
(* specification.                                                          *)
(***************************************************************************)
EXTENDS Integers, Sequences

CONSTANTS Keys,    \* i32 keys
          Ctids,
          NoCtid,  \* the key is not in the map
          Threads

VARIABLES contents, call, answer

indexVars == <<contents, call, answer>>

NoAnswer == [outcome |-> "none", ctids |-> <<>>]
Idle == [op |-> "none", key |-> 0, end |-> 0, ctid |-> NoCtid]
Calls ==
    [op : {"insert"}, key : Keys, end : {0}, ctid : Ctids]
        \cup [op : {"search", "delete"}, key : Keys, end : {0}, ctid : {NoCtid}]
        \cup [op : {"range_search"}, key : Keys, end : Keys, ctid : {NoCtid}]

Init ==
    /\ contents = [k \in Keys |-> NoCtid]
    /\ call = [t \in Threads |-> Idle]
    /\ answer = [t \in Threads |-> NoAnswer]

Begin(t, c) ==
    /\ call[t] = Idle
    /\ call' = [call EXCEPT ![t] = c]
    /\ answer' = [answer EXCEPT ![t] = NoAnswer]
    /\ UNCHANGED contents

Answers(t, outcome, ctids) ==
    /\ call' = [call EXCEPT ![t] = Idle]
    /\ answer' = [answer EXCEPT ![t] = [outcome |-> outcome, ctids |-> ctids]]

\* Does ctids list the contents at the keys from lo to hi, in order of the keys?
Lists(ctids, lo, hi) ==
    \E ks \in [1 .. Len(ctids) -> Keys] :
        /\ \A i \in DOMAIN ks : \A j \in 1 .. i - 1 : ks[j] < ks[i]
        /\ \A i \in DOMAIN ks : ks[i] \in lo .. hi /\ ctids[i] = contents[ks[i]]
        /\ \A k \in Keys : k \in lo .. hi /\ contents[k] # NoCtid =>
               \E i \in DOMAIN ks : ks[i] = k

Insert(t) ==
    LET c == call[t] IN
    /\ c.op = "insert"
    /\ \/ /\ contents[c.key] = NoCtid
          /\ contents' = [contents EXCEPT ![c.key] = c.ctid]
          /\ Answers(t, "Ok", <<>>)
       \/ /\ contents[c.key] # NoCtid
          /\ Answers(t, "DuplicateKey", <<>>)
          /\ UNCHANGED contents

Search(t) ==
    LET c == call[t] IN
    /\ c.op = "search"
    /\ \/ contents[c.key] # NoCtid /\ Answers(t, "Ok", <<contents[c.key]>>)
       \/ contents[c.key] = NoCtid /\ Answers(t, "KeyNotFound", <<>>)
    /\ UNCHANGED contents

RangeSearch(t) ==
    /\ call[t].op = "range_search"
    /\ answer'[t].ctids \in Seq(Ctids)
    /\ Lists(answer'[t].ctids, call[t].key, call[t].end)
    /\ Answers(t, "Ok", answer'[t].ctids)
    /\ UNCHANGED contents

Delete(t) ==
    LET c == call[t] IN
    /\ c.op = "delete"
    /\ \/ /\ contents[c.key] # NoCtid
          /\ contents' = [contents EXCEPT ![c.key] = NoCtid]
          /\ Answers(t, "Ok", <<>>)
       \/ /\ contents[c.key] = NoCtid
          /\ Answers(t, "KeyNotFound", <<>>)
          /\ UNCHANGED contents

\* A call that cannot be carried out changes nothing.
Fails(t) ==
    /\ call[t] # Idle
    /\ \E outcome \in {"error", "panic"} : Answers(t, outcome, <<>>)
    /\ UNCHANGED contents

Next ==
    \E t \in Threads :
        \/ \E c \in Calls : Begin(t, c)
        \/ Insert(t) \/ Search(t) \/ RangeSearch(t) \/ Delete(t) \/ Fails(t)

Spec == Init /\ [][Next]_indexVars
=============================================================================
