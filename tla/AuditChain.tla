----------------------------- MODULE AuditChain -----------------------------
(***************************************************************************)
(* The audit log and its hash chain.  A row of the chain names a row of    *)
(* the log, the hash before it and its own.  A hash is modelled by what it *)
(* commits to: the rows hashed so far, so that different histories have    *)
(* different hashes.  Both tables only grow.                               *)
(***************************************************************************)
EXTENDS Naturals, Sequences, FiniteSets

NoHash == <<>>

\* auditEntryHash: over the hash before it, the row's id and its content.
EntryHash(previous, row, entry) == Append(previous, <<row, entry>>)

LastHash(v) == IF v.chain = <<>> THEN NoHash ELSE v.chain[Len(v.chain)].hash

\* appendAuditEntry: one row of each table, in one savepoint.
Appended(v, entry) ==
  LET row == Len(v.log) + 1
  IN  [v EXCEPT !.log = Append(@, entry),
                !.chain = Append(@, [row |-> row, previous |-> LastHash(v),
                                     hash |-> EntryHash(LastHash(v), row, entry)])]

\* The rows of the log that have no link, by their ids.
Unchained(v) ==
  LET rows == {row \in DOMAIN v.log : \A i \in DOMAIN v.chain : v.chain[i].row # row}
  IN  CHOOSE s \in [1 .. Cardinality(rows) -> rows] :
        \A i, j \in DOMAIN s : i < j => s[i] < s[j]

\* backfillAuditChain: the rows written before there was a chain, by their ids.
Backfilled(v) ==
  LET rows == Unchained(v)
      Upto(n) == LastHash(v) \o [i \in 1 .. n |-> <<rows[i], v.log[rows[i]]>>]
  IN  [v EXCEPT !.chain = @ \o
         [n \in 1 .. Len(rows) |->
            [row |-> rows[n], previous |-> Upto(n - 1), hash |-> Upto(n)]]]

\* verifyAuditChain: every link, and as many of them as rows.
Verified(v) ==
  /\ Len(v.chain) = Len(v.log)
  /\ \A i \in DOMAIN v.chain :
       LET link == v.chain[i]
       IN  /\ link.previous = IF i = 1 THEN NoHash ELSE v.chain[i - 1].hash
           /\ link.hash = EntryHash(link.previous, link.row, v.log[link.row])
=============================================================================
