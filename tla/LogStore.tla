------------------------------ MODULE LogStore ------------------------------
(***************************************************************************)
(* The log boundary of davd (core/internal/logging/store.go): a ring of    *)
(* the newest Capacity records in memory, numbered from one, and queries   *)
(* that return one page from newest to oldest.  The cursor of a query is   *)
(* an exclusive upper bound for record ids; zero starts at the newest.     *)
(*                                                                         *)
(* A record is its id and its level, one of two.  The filters on time and  *)
(* component work like the one on the level; they are left out, and so     *)
(* are the redaction of secrets and the line splitting of LineWriter.      *)
(***************************************************************************)
EXTENDS Naturals, Sequences, FiniteSets, SequencesExt

CONSTANTS
    Capacity,    \* the capacity of the ring, 2000 in the code
    PageSize     \* the limit of a query, at most 200 in the code

ASSUME LogAssumption == Capacity \in Nat \ {0} /\ PageSize \in Nat \ {0}

Level == {"INFO", "ERROR"}
AnyLevel == ""

EmptyLog == [next |-> 0, records |-> <<>>]

Matches(record, level) == level = AnyLevel \/ record.level = level

\* Mutant: the ring never drops a record.
AddUnbounded(log, level) ==
    [next |-> log.next + 1,
     records |-> Append(log.records, [id |-> log.next + 1, level |-> level])]

\* Store.Add: number the record and drop the oldest one when the ring is full.
Add(log, level) ==
    LET record == [id |-> log.next + 1, level |-> level]
        kept   == IF Len(log.records) = Capacity THEN Tail(log.records) ELSE log.records
    IN [next |-> log.next + 1, records |-> Append(kept, record)]

\* The positions of the records a query ranges over.
Selected(log, cursor, level) ==
    {i \in DOMAIN log.records : /\ cursor > 0 => log.records[i].id < cursor
                                /\ Matches(log.records[i], level)}

\* The k-th that the loop from the newest to the oldest comes to.
Nth(found, k) == CHOOSE i \in found : Cardinality({j \in found : j > i}) = k - 1

\* At most PageSize of them, newest first.
Page(log, found) ==
    [k \in 1..(IF Cardinality(found) < PageSize THEN Cardinality(found) ELSE PageSize) |->
        log.records[Nth(found, k)]]

\* Mutant: the next cursor is the first record that did not fit.
QueryCursorPast(log, cursor, level) ==
    LET found == Selected(log, cursor, level)
        more  == Cardinality(found) > PageSize
    IN [records |-> Page(log, found), more |-> more,
        next |-> IF more THEN log.records[Nth(found, PageSize + 1)].id ELSE 0]

\* Store.Query: one page, and its last id as the next cursor if more records match.
Query(log, cursor, level) ==
    LET found == Selected(log, cursor, level)
        page  == Page(log, found)
        more  == Cardinality(found) > PageSize
    IN [records |-> page, more |-> more, next |-> IF more THEN page[PageSize].id ELSE 0]

=============================================================================
