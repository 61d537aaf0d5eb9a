------------------------------ MODULE Outreach ------------------------------
(***************************************************************************)
(* What the send path promises, person by person: a durable decision comes *)
(* before the one message the person may ever get, a message is recorded   *)
(* as sent only if it was, and a person whose attempt was given up is      *)
(* never written to.  SendLedger is shown to implement this.               *)
(***************************************************************************)

CONSTANT Person

VARIABLES
  record,   \* what the vault file says about the person
  copies    \* the identities of the messages delivered to the person

outreachVars == <<record, copies>>

\* The records that may follow each record.  One file replacement can carry
\* the progress of several people, and several steps of one person.
Successors ==
  [open      |-> {"open", "committed", "given_up"},
   committed |-> {"committed", "confirmed"},
   confirmed |-> {"confirmed"},
   given_up  |-> {"given_up"}]

OutreachInit ==
  /\ record = [p \in Person |-> "open"]
  /\ copies = [p \in Person |-> {}]

\* A record becomes "confirmed" only for somebody who was reached.
ReplaceRecords ==
  /\ record' \in [Person -> {"open", "committed", "confirmed", "given_up"}]
  /\ \A p \in Person :
       /\ record'[p] \in Successors[record[p]]
       /\ record'[p] = "confirmed" => copies[p] # {}
  /\ UNCHANGED copies

Reach(p) ==
  /\ record[p] = "committed"
  /\ copies[p] = {}
  /\ \E c \in copies'[p] : copies' = [copies EXCEPT ![p] = {c}]
  /\ UNCHANGED record

OutreachNext == ReplaceRecords \/ \E p \in Person : Reach(p)

OutreachSpec == OutreachInit /\ [][OutreachNext]_outreachVars
=============================================================================
