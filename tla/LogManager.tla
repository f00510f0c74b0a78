----------------------------- MODULE LogManager ------------------------------
(***************************************************************************)
(* wasdb_wal/src/lib.rs: the write-ahead log as the bytes of its file, so  *)
(* that what recovery makes of a file cut short is what the code makes of  *)
(* it.  append_record and flush hold the file mutex throughout and are one *)
(* step each; an append_record that fails, or that a crash interrupts,     *)
(* leaves the first bytes of its record.                                   *)
(***************************************************************************)
EXTENDS Integers, Sequences, SequencesExt

CONSTANTS Records,      \* the records that are appended: [type, txn_id, data]
          MaxAppends,   \* bound on the calls of append_record
          MaxFailures,  \* bound on the calls of append_record that fail
          MaxStops      \* bound on the stops of the process

ASSUME BoundsAssumption ==
    MaxAppends \in Nat /\ MaxFailures \in Nat /\ MaxStops \in Nat

-----------------------------------------------------------------------------
(* The format.  A record's page_id and offset are not told apart: they are  *)
(* ten bytes of zero.  A number that is written is below Wide, which is     *)
(* more than any log here holds; a wider one, read out of misplaced bytes,  *)
(* is Wide.                                                                 *)

Insert == 1
Commit == 2
Abort == 3

Byte == 0 .. 255
Wide == 1073741824
Weights == <<1, 256, 65536, 16777216>>

ToBytes(n, width) ==
    [i \in 1 .. width |-> IF i <= 4 THEN (n \div Weights[i]) % 256 ELSE 0]
FromBytes(bytes) ==
    IF bytes[4] >= 64 \/ \E i \in 5 .. Len(bytes) : bytes[i] # 0 THEN Wide
    ELSE bytes[1] + 256 * bytes[2] + 65536 * bytes[3] + 16777216 * bytes[4]

\* What serialize is given.  Only an Insert has data.
ASSUME RecordsAssumption ==
    /\ Records \subseteq [type : {Insert, Commit, Abort}, txn_id : 0 .. Wide - 1,
                          data : Seq(Byte)]
    /\ \A r \in Records : Len(r.data) < Wide - 23 /\ (r.type # Insert => r.data = <<>>)

Zeros(n) == [i \in 1 .. n |-> 0]

Serialize(r) ==
    <<r.type>> \o ToBytes(r.txn_id, 8)
        \o IF r.type = Insert THEN Zeros(10) \o ToBytes(Len(r.data), 4) \o r.data
                              ELSE <<>>

\* The record at the front of buf, or <<>> for None.
Deserialize(buf) ==
    LET txnId == FromBytes(SubSeq(buf, 2, 9))
        len == FromBytes(SubSeq(buf, 20, 23))
    IN  IF Len(buf) >= 25 /\ buf[1] = Insert
        THEN IF Len(buf) >= 23 + len
             THEN <<[type |-> Insert, txn_id |-> txnId,
                     data |-> SubSeq(buf, 24, 23 + len)]>>
             ELSE <<>>
        ELSE IF Len(buf) >= 9 /\ buf[1] \in {Commit, Abort}
        THEN <<[type |-> buf[1], txn_id |-> txnId, data |-> <<>>]>>
        ELSE <<>>

\* [Size: u32][LSN: u64][Data...]
Framed(r, lsn) ==
    ToBytes(Len(Serialize(r)), 4) \o ToBytes(lsn, 8) \o Serialize(r)

\* Bug: a record that ends where the file ends counts as incomplete.
EndsTooSoon(next, buf) == next >= Len(buf)

Incomplete(next, buf) == next > Len(buf)

\* RecoveryManager::recover: the records read from the start of the file to the
\* first one that is not all there; one that does not deserialize is skipped.
Recover(buf) ==
    LET from[cursor \in 0 .. Len(buf)] ==
            LET size == FromBytes(SubSeq(buf, cursor + 1, cursor + 4))
                next == cursor + 12 + size
            IN  IF cursor + 12 > Len(buf) THEN <<>>
                ELSE IF Incomplete(next, buf) THEN <<>>
                ELSE Deserialize(SubSeq(buf, cursor + 13, next)) \o from[next]
    IN  from[0]

-----------------------------------------------------------------------------
VARIABLES
    file,        \* the bytes of the log file
    synced,      \* how many of them are on disk
    nextLsn,     \* next_lsn
    flushedLsn,  \* flushed_lsn
    written,     \* ghost: what the file is made of, one entry for each append:
                 \* [record, lsn, start, end, whole], whole if none of it is missing
    openedAt,    \* ghost: the length of the file when it was opened
    appends, failures, stops  \* counters for the bounds

vars == <<file, synced, nextLsn, flushedLsn, written, openedAt, appends,
          failures, stops>>

\* Bug: sequence numbers start again from one when the log is opened.
FirstLsnIsOne(len) == 1

\* The first sequence number given out on a log file of that length.
FirstLsn(len) == len + 1

\* LogManager::new, on a file of the given bytes.
Opened(bytes) ==
    /\ file = bytes
    /\ nextLsn = FirstLsn(Len(bytes))
    /\ flushedLsn = Len(bytes)
    /\ openedAt = Len(bytes)

Init ==
    /\ Opened(<<>>)
    /\ synced = 0
    /\ written = <<>>
    /\ appends = 0
    /\ failures = 0
    /\ stops = 0

\* k bytes of the record are written.
Write(r, k) ==
    LET bytes == Framed(r, nextLsn)
        start == Len(file)
    IN  /\ file' = file \o SubSeq(bytes, 1, k)
        /\ written' = IF k = 0 THEN written
                      ELSE Append(written, [record |-> r, lsn |-> nextLsn,
                                            start |-> start, end |-> start + k,
                                            whole |-> k = Len(bytes)])

AppendRecord(r) ==
    /\ appends < MaxAppends
    /\ appends' = appends + 1
    /\ nextLsn' = nextLsn + 1
    /\ Write(r, Len(Framed(r, nextLsn)))
    /\ UNCHANGED <<synced, flushedLsn, openedAt, failures, stops>>

\* One of the three write_all fails, k bytes into the record: the sequence
\* number is used up and the bytes stay.
AppendFails(r, k) ==
    /\ appends < MaxAppends
    /\ failures < MaxFailures
    /\ appends' = appends + 1
    /\ failures' = failures + 1
    /\ nextLsn' = nextLsn + 1
    /\ Write(r, k)
    /\ UNCHANGED <<synced, flushedLsn, openedAt, stops>>

\* Bug: flushed_lsn is the number to be given out next.
FlushAhead ==
    /\ synced' = Len(file)
    /\ flushedLsn' = nextLsn
    /\ UNCHANGED <<file, nextLsn, written, openedAt, appends, failures, stops>>

\* Bug: sync_data is not called.
FlushUnsynced ==
    /\ flushedLsn' = nextLsn - 1
    /\ UNCHANGED <<file, synced, nextLsn, written, openedAt, appends, failures, stops>>

\* flush, when sync_data succeeds; when it fails nothing changes.
Flush ==
    /\ synced' = Len(file)
    /\ flushedLsn' = nextLsn - 1
    /\ UNCHANGED <<file, nextLsn, written, openedAt, appends, failures, stops>>

\* What is left of an entry of the file when only n bytes of the file are.
CutAt(w, n) == IF w.end <= n THEN w ELSE [w EXCEPT !.end = n, !.whole = FALSE]

\* The process stops with n bytes of the log left, and LogManager::new opens
\* it again.  A power loss may take any part of the unsynced tail and leaves
\* what is left on disk; otherwise the operating system still has all of it.
Reopen(n, powerLoss) ==
    /\ stops < MaxStops
    /\ stops' = stops + 1
    /\ powerLoss \/ n = Len(file)
    /\ file' = SubSeq(file, 1, n)
    /\ nextLsn' = FirstLsn(n)
    /\ flushedLsn' = n
    /\ openedAt' = n
    /\ synced' = IF powerLoss THEN n ELSE synced
    /\ written' = LET left == {i \in DOMAIN written : written[i].start < n}
                  IN  [i \in left |-> CutAt(written[i], n)]
    /\ UNCHANGED <<appends, failures>>

Next ==
    \/ \E r \in Records : \/ AppendRecord(r)
                          \/ \E k \in 0 .. Len(Framed(r, nextLsn)) - 1 : AppendFails(r, k)
    \/ Flush
    \/ \E n \in synced .. Len(file), powerLoss \in BOOLEAN : Reopen(n, powerLoss)

Spec == Init /\ [][Next]_vars

-----------------------------------------------------------------------------
(* Properties *)

TypeOK ==
    /\ file \in Seq(Byte)
    /\ synced \in 0 .. Len(file)
    /\ nextLsn \in Nat \ {0}
    /\ flushedLsn \in 0 .. nextLsn - 1
    /\ written \in Seq([record : Records, lsn : Nat, start : Nat, end : Nat,
                        whole : BOOLEAN])
    /\ openedAt \in 0 .. Len(file)

\* A record recovery returns when it is all there.  An Insert of less than two
\* bytes is not: deserialize asks for 25 bytes where the header has 23.
Readable(r) == Deserialize(Serialize(r)) = <<r>>
ReadableIn(s) ==
    LET from[i \in 1 .. Len(s) + 1] ==
            IF i > Len(s) THEN <<>>
            ELSE (IF Readable(s[i].record) THEN <<s[i].record>> ELSE <<>>) \o from[i + 1]
    IN  from[1]

\* What was appended before the first torn record.
Intact ==
    [i \in {j \in DOMAIN written : \A k \in 1 .. j : written[k].whole} |-> written[i]]

\* Recovery returns the records up to the first torn one, in the order they were
\* appended, with nothing before, between or in place of them, through every
\* crash; and nothing more as long as nothing was appended after a torn one.
RecoversIntactRecords ==
    /\ IsPrefix(ReadableIn(Intact), Recover(file))
    /\ (\A i \in 1 .. Len(written) - 1 : written[i].whole)
           => Recover(file) = ReadableIn(Intact)

\* flushed_lsn tells the truth about the records of this opening of the log:
\* those up to it are on disk.  The pool writes pages out on the strength of it.
FlushedLsnIsOnDisk ==
    \A i \in DOMAIN written :
        written[i].start >= openedAt /\ written[i].lsn <= flushedLsn
            => written[i].end <= synced

\* No two records of the file have one sequence number, and the numbers grow
\* along the file, also when the count starts again from the file's length.
LsnsGrowAlongTheFile ==
    \A j \in DOMAIN written :
        written[j].whole =>
            /\ written[j].lsn < nextLsn
            /\ \A i \in 1 .. j - 1 : written[i].whole => written[i].lsn < written[j].lsn

\* Every record that was flushed is recovered.
FlushedRecordsAreRecovered ==
    \A i \in DOMAIN written :
        written[i].whole /\ written[i].end <= synced
            => Contains(Recover(file), written[i].record)
=============================================================================
