------------------------------- MODULE Catalog -------------------------------
(***************************************************************************)
(* wasdb_catalog/src/catalog.rs, table.rs and schema.rs: the tables, their *)
(* columns and their indexes, one for each column of the primary key.      *)
(* Pages, lengths and offsets, which nothing reads yet, are left out.      *)
(***************************************************************************)
EXTENDS Naturals, Sequences

CONSTANT TableNames

VARIABLE tables  \* TableMetadata by name: the columns, and of each index its column

NoTables == [n \in {} |-> <<>>]

Numbers(s) == [i \in DOMAIN s |-> i]

Metadata(columns) ==
    [columns |-> columns,
     indexes |-> SelectSeq(Numbers(columns), LAMBDA i : columns[i].is_primary_key)]

HasTable(name) == name \in DOMAIN tables

CreateTable(name, columns) ==
    /\ ~HasTable(name)
    /\ tables' = [n \in DOMAIN tables \cup {name} |->
                     IF n = name THEN Metadata(columns) ELSE tables[n]]

TableExists(name) == HasTable(name) /\ UNCHANGED tables
=============================================================================
