---------------------------- MODULE MCBufferPool -----------------------------
(***************************************************************************)
(* Instances of BufferPool for TLC.                                        *)
(***************************************************************************)
EXTENDS BufferPool, TLC

Page(file, num) == [file_id |-> file, page_num |-> num]

\* One database file, and two files whose pages share a page number on disk.
OneFile == {Page(0, 0), Page(0, 1)}
OneFileThreePages == {Page(0, 0), Page(0, 1), Page(0, 2)}
TwoFiles == {Page(0, 0), Page(1, 0), Page(0, 1)}

Symmetry == Permutations(Handles)
=============================================================================
