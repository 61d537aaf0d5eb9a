------------------------- MODULE SendPromiseProofs -------------------------
(***************************************************************************)
(* More of what module SendLedger promises, for every value of the         *)
(* constants: what is delivered was approved, a row in progress has an     *)
(* owner, the ledger in memory never goes back while the process lives,    *)
(* and the send path implements module Outreach.  The invariant of         *)
(* SendLedgerProofs says what the ledger knows; the one here adds what the *)
(* approval rows know.                                                     *)
(***************************************************************************)
EXTENDS SendLedgerProofs

USE RecipientIsPerson, NoneIsNothing, BoundsAreNat

-----------------------------------------------------------------------------
(* The invariant of the approvals *)

\* The triggers' view of a vault: a draft is "approved" as long as it has an
\* active approval, which is for its current content and has an approval row;
\* a draft with a ledger row has used its approval up.
Current(d) ==
  \A m \in Message :
    /\ d.state[m] = "approved" <=> d.active[m] # None
    /\ d.active[m] # None =>
         d.active[m] = d.text[m] /\ d.active[m] \in d.approvals[m] /\ ~ HasRow(d, m)

\* Approval rows are never deleted.
Keeps(d, e) == \A m \in Message : d.approvals[m] \subseteq e.approvals[m]

VaultsAreCurrent ==
  Current(db) /\ Current(disk) /\ \A i \in DOMAIN queue : Current(queue[i].db)

ApprovalsAccumulate ==
  /\ Keeps(disk, db)
  /\ \A i \in DOMAIN queue : Keeps(disk, queue[i].db) /\ Keeps(queue[i].db, db)
  /\ \A i, j \in DOMAIN queue : i <= j => Keeps(queue[i].db, queue[j].db)

\* The content a command has read was approved: in memory from the start, in
\* the snapshot behind its claim, and in the file once that one is written.
SendsWereApproved ==
  /\ \A k \in Call : call[k].msg # None => call[k].text \in db.approvals[call[k].msg]
  /\ \A i \in DOMAIN queue, k \in Call :
       queue[i].owner = k /\ call[k].pc = "claiming" =>
         call[k].text \in queue[i].db.approvals[call[k].msg]
  /\ \A k \in Call :
       call[k].pc = "claiming" /\ call[k].io = "ok" =>
         call[k].text \in disk.approvals[call[k].msg]

RequestsWereApproved ==
  /\ \A r \in wire : r.text \in disk.approvals[r.op]
  /\ DeliveredWasApproved

ApprovalInvariant ==
  VaultsAreCurrent /\ ApprovalsAccumulate /\ SendsWereApproved /\ RequestsWereApproved

-----------------------------------------------------------------------------
(* The vault operators and the approvals *)

Follows(d, e) == (Current(d) => Current(e)) /\ Keeps(d, e)

LEMMA KeepsReflexive == ASSUME NEW d, NEW e, e.approvals = d.approvals PROVE Keeps(d, e)
BY DEF Keeps

LEMMA KeepsTransitive ==
  ASSUME NEW d, NEW e, NEW f, Keeps(d, e), Keeps(e, f)
  PROVE  Keeps(d, f)
BY DEF Keeps

\* A change that leaves approvals alone, adds no ledger row, and moves the
\* state of drafts only that have a row.
LEMMA LedgerFollows ==
  ASSUME NEW d, NEW e,
         e.text = d.text, e.active = d.active, e.approvals = d.approvals,
         \A n \in Message : HasRow(e, n) => HasRow(d, n),
         \A n \in Message :
           e.state[n] = d.state[n] \/ (HasRow(d, n) /\ e.state[n] # "approved")
  PROVE  Follows(d, e)
BY DEF Follows, Current, Keeps

LEMMA CreatedFollows ==
  ASSUME NEW d \in Vault, NEW m \in Message, NEW t \in Text, d.text[m] = None
  PROVE  Follows(d, [d EXCEPT !.text[m] = t])
<1> DEFINE text == [d.text EXCEPT ![m] = t]
           e == [d EXCEPT !.text = text]
<1>1. /\ e.text = text /\ e.state = d.state /\ e.active = d.active
      /\ e.approvals = d.approvals /\ e.ledger = d.ledger
  BY DEF Vault
<1>2. \A n \in Message : n # m => text[n] = d.text[n]
  BY DEF Vault
<1> HIDE DEF e, text
<1>3. Follows(d, e)
  BY <1>1, <1>2 DEF Follows, Current, Keeps, HasRow
<1> QED BY <1>3 DEF e, text

LEMMA WithTextFollows ==
  ASSUME NEW d \in Vault, NEW m \in Message, NEW t \in Text
  PROVE  Follows(d, WithText(d, m, t))
<1> DEFINE text == [d.text EXCEPT ![m] = t]
           active == [d.active EXCEPT ![m] = None]
           state == [d.state EXCEPT ![m] = Undo(@)]
           e == [d EXCEPT !.text = text, !.active = active, !.state = state]
<1>1. /\ e.text = text /\ e.state = state /\ e.active = active
      /\ e.approvals = d.approvals /\ e.ledger = d.ledger
  BY DEF Vault
<1>2. \A n \in Message :
        n # m => text[n] = d.text[n] /\ active[n] = d.active[n] /\ state[n] = d.state[n]
  BY DEF Vault
<1>3. active[m] = None /\ state[m] # "approved"
  BY DEF Vault, Undo
<1>4. WithText(d, m, t) = e
  BY DEF WithText
<1> HIDE DEF e, text, active, state
<1> QED BY <1>1, <1>2, <1>3, <1>4 DEF Follows, Current, Keeps, HasRow

LEMMA WithoutApprovalsFollows ==
  ASSUME NEW d \in Vault, NEW e,
         e.text = WithoutApprovals(d).text, e.state = WithoutApprovals(d).state,
         e.active = WithoutApprovals(d).active, e.approvals = WithoutApprovals(d).approvals
  PROVE  Follows(d, e)
<1>1. /\ e.approvals = d.approvals
      /\ \A n \in Message : e.active[n] = None /\ e.state[n] # "approved"
  BY DEF WithoutApprovals, Vault, Undo
<1> QED BY <1>1 DEF Follows, Current, Keeps

LEMMA WithApprovalFollows ==
  ASSUME NEW d \in Vault, NEW m \in Message, d.text[m] # None, ~ HasRow(d, m)
  PROVE  Follows(d, WithApproval(d, m))
<1> DEFINE active == [d.active EXCEPT ![m] = d.text[m]]
           approvals == [d.approvals EXCEPT ![m] = @ \cup {d.text[m]}]
           state == [d.state EXCEPT ![m] = "approved"]
           e == [d EXCEPT !.active = active, !.approvals = approvals, !.state = state]
<1>1. /\ e.text = d.text /\ e.state = state /\ e.active = active
      /\ e.approvals = approvals /\ e.ledger = d.ledger
  BY DEF Vault
<1>2. \A n \in Message :
        /\ n # m => active[n] = d.active[n] /\ state[n] = d.state[n] /\ approvals[n] = d.approvals[n]
        /\ d.approvals[n] \subseteq approvals[n]
  BY DEF Vault
<1>3. active[m] = d.text[m] /\ state[m] = "approved" /\ d.text[m] \in approvals[m]
  BY DEF Vault
<1>4. WithApproval(d, m) = e
  BY DEF WithApproval
<1> HIDE DEF e, active, approvals, state
<1> QED BY <1>1, <1>2, <1>3, <1>4 DEF Follows, Current, Keeps, HasRow

LEMMA WithReservationFollows ==
  ASSUME NEW d \in Vault, NEW m \in Message
  PROVE  Follows(d, WithReservation(d, m))
<1> DEFINE ledger == [d.ledger EXCEPT ![m] = [status |-> "reserved", text |-> d.active[m]]]
           active == [d.active EXCEPT ![m] = None]
           state == [d.state EXCEPT ![m] = "reserved"]
           e == [d EXCEPT !.ledger = ledger, !.active = active, !.state = state]
<1>1. /\ e.text = d.text /\ e.state = state /\ e.active = active
      /\ e.approvals = d.approvals /\ e.ledger = ledger
  BY DEF Vault
<1>2. \A n \in Message :
        n # m => active[n] = d.active[n] /\ state[n] = d.state[n] /\ ledger[n] = d.ledger[n]
  BY DEF Vault
<1>3. active[m] = None /\ state[m] # "approved"
  BY DEF Vault
<1>4. WithReservation(d, m) = e
  BY DEF WithReservation
<1> HIDE DEF e, ledger, active, state
<1> QED BY <1>1, <1>2, <1>3, <1>4 DEF Follows, Current, Keeps, HasRow

LEMMA ImportedFollows ==
  ASSUME NEW d \in Vault
  PROVE  Follows(d, Imported(d))
<1> DEFINE e == Imported(d)
<1>1. e.text = d.text /\ e.active = d.active /\ e.approvals = d.approvals
  BY DEF Imported, Vault
<1>2. \A n \in Message : HasRow(e, n) => HasRow(d, n)
  BY ImportedSettles DEF Settles
<1>3. \A n \in Message : e.state[n] = IF Confirmed(d, n) THEN "sent" ELSE d.state[n]
  BY DEF Imported, Vault
<1>4. \A n \in Message : Confirmed(d, n) => HasRow(d, n)
  BY DEF Confirmed, HasRow
<1> HIDE DEF e
<1>5. Follows(d, e)
  BY <1>1, <1>2, <1>3, <1>4, LedgerFollows
<1> QED BY <1>5 DEF e

\* The change of a row's status, and of nothing but the draft's state.
LEMMA StatusFollows ==
  ASSUME NEW d \in Vault, NEW m \in Message, NEW s \in DispatchStatus,
         NEW state \in MessageState \ {"approved"}, HasRow(d, m)
  PROVE  /\ Follows(d, WithStatus(d, m, s))
         /\ Follows(d, [WithStatus(d, m, s) EXCEPT !.state[m] = state])
<1> DEFINE ledger == [d.ledger EXCEPT ![m].status = s]
           states == [d.state EXCEPT ![m] = state]
           e == [d EXCEPT !.ledger = ledger]
           f == [e EXCEPT !.state = states]
<1>1. /\ e.text = d.text /\ e.active = d.active /\ e.approvals = d.approvals
      /\ e.ledger = ledger /\ e.state = d.state
  BY DEF Vault
<1>2. e \in Vault
  <2>1. WithStatus(d, m, s) \in Vault /\ WithStatus(d, m, s) = e
    BY WithStatusIsVault DEF WithStatus
  <2> QED BY <2>1
<1>3. [e EXCEPT !.state[m] = state] = f
  BY <1>1
<1>4. \A n \in Message : n # m => ledger[n] = d.ledger[n] /\ states[n] = d.state[n]
  BY DEF Vault
<1>5. states[m] = state /\ state # "approved"
  BY DEF Vault
<1>6. WithStatus(d, m, s) = e
  BY DEF WithStatus
<1> HIDE DEF e
<1>7. /\ f.text = d.text /\ f.active = d.active /\ f.approvals = d.approvals
      /\ f.ledger = ledger /\ f.state = states
  BY <1>1, <1>2 DEF Vault
<1> HIDE DEF f, ledger, states
<1>8. \A n \in Message : HasRow(e, n) \/ HasRow(f, n) => HasRow(d, n)
  BY <1>1, <1>4, <1>7 DEF HasRow
<1>9. \A n \in Message : f.state[n] = d.state[n] \/ (HasRow(d, n) /\ f.state[n] # "approved")
  BY <1>4, <1>5, <1>7
<1>10. Follows(d, e)
  BY <1>1, <1>8, LedgerFollows
<1>11. Follows(d, f)
  BY <1>7, <1>8, <1>9, LedgerFollows
<1> QED BY <1>3, <1>6, <1>10, <1>11

LEMMA RecordedFollows ==
  ASSUME NEW d \in Vault, NEW m \in Message, NEW c \in BOOLEAN, HasRow(d, m)
  PROVE  Follows(d, Recorded(d, m, c))
<1>1. Follows(d, d)
  BY DEF Follows, Keeps
<1>2. {"sent", "ambiguous"} \subseteq DispatchStatus /\ "sent" \in MessageState \ {"approved"}
  BY DEF DispatchStatus, MessageState
<1> QED BY <1>1, <1>2, StatusFollows DEF Recorded

\* The answer of the provider settles the row, whatever it is.
LEMMA RecordedCloses ==
  ASSUME NEW d \in Vault, NEW m \in Message, NEW c \in BOOLEAN
  PROVE  Recorded(d, m, c).ledger[m].status \in {"sent", "ambiguous"}
<1> DEFINE s == IF c THEN "sent" ELSE "ambiguous"
<1>1. s \in DispatchStatus /\ "sent" \in MessageState /\ s \in {"sent", "ambiguous"}
  BY DEF DispatchStatus, MessageState
<1>2. /\ WithStatus(d, m, s) \in Vault
      /\ WithStatus(d, m, s).ledger = [d.ledger EXCEPT ![m].status = s]
  BY <1>1, WithStatusIsVault
<1>3. [WithStatus(d, m, s) EXCEPT !.state[m] = "sent"].ledger = WithStatus(d, m, s).ledger
  BY <1>1, <1>2, StateChangeIsVault
<1>4. [d.ledger EXCEPT ![m].status = s][m].status = s
  BY DEF Vault, LedgerRow
<1>5. CASE d.ledger[m].status \in {"sent", "ambiguous"}
  BY <1>5 DEF Recorded
<1>6. CASE ~ d.ledger[m].status \in {"sent", "ambiguous"}
  <2>1. Recorded(d, m, c).ledger = [d.ledger EXCEPT ![m].status = s]
    BY <1>2, <1>3, <1>6 DEF Recorded
  <2> QED BY <1>1, <1>4, <2>1
<1> QED BY <1>5, <1>6

-----------------------------------------------------------------------------
(* What every step of a command does to the vault, the queue and its record *)

Open(d, m) == d.ledger[m].status \in {"reserved", "dispatching"}

SendingRecord(r) == r.pc \in {"reserving", "claiming", "calling"}

\* After a step of k, a row in progress belongs to the reservation of k, or is
\* one that was in progress before and is not k's to settle.
Answers(k, new, d) ==
  \A n \in Message : Open(d, n) =>
    \/ SendingRecord(new) /\ new.msg = n
    \/ Open(db, n) /\ ~ (Sending(k) /\ call[k].msg = n)

\* The draft a command works on: none, the one it has, or one it reads now
\* together with an active approval.
Reads(k, new) ==
  \/ new.msg = None
  \/ new.msg = call[k].msg /\ new.text = call[k].text
  \/ /\ new.msg \in Message /\ new.text = db.text[new.msg] /\ db.active[new.msg] # None

CommandStep(k, new, d) ==
  /\ d \in Vault
  /\ Moves(k, new)
  /\ Becomes(d, k)
  /\ call[k].io # "pending"
  /\ new.pc = "claiming" => new.io = "pending"
  /\ Reads(k, new)
  /\ Follows(db, d)
  /\ Advances(db, d)
  /\ Answers(k, new, d)
  /\ UNCHANGED <<sent, crashes>>
  /\ \/ wire' = wire
     \/ /\ wire' = wire \cup {[op |-> call[k].msg, text |-> call[k].text]}
        /\ call[k].pc = "claiming" /\ call[k].io = "ok"

LEMMA SettlesOpen ==
  ASSUME NEW d, NEW e, NEW m, Settles(d, e, m), NEW n \in Message, Open(e, n)
  PROVE  Open(d, n)
BY DEF Settles, Advances, MayBecome, HasRow, Open

\* Nothing is saved, and a send goes on, or a command that is none ends.
LEMMA ReadingStep ==
  ASSUME Inv, NEW k \in Call, NEW new, Moves(k, new), call[k].io # "pending",
         UNCHANGED <<db, disk, queue, sent, crashes>>, Reads(k, new), new.pc # "claiming",
         Sending(k) => SendingRecord(new) /\ new.msg = call[k].msg,
         \/ wire' = wire
         \/ /\ wire' = wire \cup {[op |-> call[k].msg, text |-> call[k].text]}
            /\ call[k].pc = "claiming" /\ call[k].io = "ok"
  PROVE  CommandStep(k, new, db)
<1>1. db \in Vault /\ Becomes(db, k)
  BY DEF Becomes, Inv, Typed, TypeOK
<1>2. Follows(db, db) /\ Advances(db, db)
  BY AdvancesReflexive DEF Follows, Keeps
<1>3. Answers(k, new, db)
  BY DEF Answers
<1> QED BY <1>1, <1>2, <1>3 DEF CommandStep

\* A vault is saved and the command waits.
LEMMA SavingStep ==
  ASSUME Inv, NEW k \in Call, NEW d \in Vault, NEW pc \in Label,
         Save(d, k), Await(k, pc), call[k].io # "pending",
         UNCHANGED <<disk, wire, sent, crashes>>,
         Follows(db, d), Advances(db, d),
         \A n \in Message : Open(d, n) =>
           \/ pc \in {"reserving", "claiming", "calling"} /\ call[k].msg = n
           \/ Open(db, n) /\ ~ (Sending(k) /\ call[k].msg = n)
  PROVE  \E new \in CallRecord : CommandStep(k, new, d)
<1> DEFINE new == [pc |-> pc, msg |-> call[k].msg, text |-> call[k].text, io |-> "pending"]
<1>1. Moves(k, new)
  BY AwaitMoves DEF Inv, Typed
<1>2. new \in CallRecord
  BY <1>1 DEF Moves
<1>3. Becomes(d, k)
  BY DEF Save, Becomes
<1>4. new.io = "pending" /\ new.pc = pc /\ new.msg = call[k].msg /\ new.text = call[k].text
  OBVIOUS
<1> HIDE DEF new
<1>5. Reads(k, new) /\ Answers(k, new, d)
  BY <1>4 DEF Reads, Answers, SendingRecord
<1>6. CommandStep(k, new, d)
  BY <1>1, <1>3, <1>4, <1>5 DEF CommandStep
<1> QED BY <1>2, <1>6

LEMMA ReadsAreSteps ==
  ASSUME Inv, NEW k \in Call,
         \/ SyncMail(k) \/ (\E m \in Message : SendApprovedDraft(k, m))
         \/ Recheck(k) \/ Authorize(k) \/ FinishSync(k) \/ Refuse(k) \/ Close(k) \/ Dispatch(k)
  PROVE  \E new \in CallRecord : CommandStep(k, new, db)
<1>0. /\ TypeOK
      /\ call[k].pc \in {"idle", "listing", "authorizing", "authorized"} => call[k].io # "pending"
  BY DEF Inv, Typed, SendInvariant, SnapshotsHaveOwner
<1>a. ASSUME NEW new, Moves(k, new) PROVE new \in CallRecord
  BY <1>a DEF Moves
<1>b. ASSUME NEW pc \in Label, Goto(k, pc), call[k].io # "pending", pc # "claiming",
             UNCHANGED <<db, disk, queue, sent, crashes>>,
             Sending(k) => pc = "calling",
             \/ wire' = wire
             \/ /\ wire' = wire \cup {[op |-> call[k].msg, text |-> call[k].text]}
                /\ call[k].pc = "claiming" /\ call[k].io = "ok"
      PROVE  \E new \in CallRecord : CommandStep(k, new, db)
  <2> DEFINE new == [pc |-> pc, msg |-> call[k].msg, text |-> call[k].text, io |-> "none"]
  <2>1. Moves(k, new)
    BY <1>0, <1>b, GotoMoves
  <2>2. new.pc = pc /\ new.msg = call[k].msg /\ new.text = call[k].text
    OBVIOUS
  <2> HIDE DEF new
  <2>3. CommandStep(k, new, db)
    BY <1>b, <2>1, <2>2, ReadingStep DEF Reads, SendingRecord
  <2> QED BY <1>a, <2>1, <2>3
<1>1. CASE SyncMail(k)
  <2>1. /\ Goto(k, "listing") /\ call[k].io # "pending" /\ ~ Sending(k)
        /\ UNCHANGED <<db, disk, queue, wire, sent, crashes>>
    BY <1>0, <1>1 DEF SyncMail, At, Sending, world, bounds
  <2> QED BY <1>b, <2>1 DEF Label
<1>2. ASSUME NEW m \in Message, SendApprovedDraft(k, m)
      PROVE  \E new \in CallRecord : CommandStep(k, new, db)
  <2> DEFINE new == [pc |-> "listing", msg |-> m, text |-> db.text[m], io |-> "none"]
  <2>1. Moves(k, new)
    BY <1>0, <1>2, SendMoves
  <2>2. /\ call[k].io # "pending" /\ ~ Sending(k) /\ db.active[m] # None
        /\ UNCHANGED <<db, disk, queue, wire, sent, crashes>>
    BY <1>0, <1>2 DEF SendApprovedDraft, At, Sending, world, bounds
  <2>3. new.pc = "listing" /\ new.msg = m /\ new.text = db.text[m]
    OBVIOUS
  <2> HIDE DEF new
  <2>4. CommandStep(k, new, db)
    BY <2>1, <2>2, <2>3, ReadingStep DEF Reads
  <2> QED BY <1>a, <2>1, <2>4
<1>3. CASE Recheck(k)
  <2>1. /\ Goto(k, "authorizing") /\ call[k].io # "pending" /\ ~ Sending(k)
        /\ UNCHANGED <<db, disk, queue, wire, sent, crashes>>
    BY <1>3 DEF Recheck, At, Saved, Sending, world, bounds
  <2> QED BY <1>b, <2>1 DEF Label
<1>4. CASE Authorize(k)
  <2>1. /\ Goto(k, "authorized") /\ call[k].io # "pending" /\ ~ Sending(k)
        /\ UNCHANGED <<db, disk, queue, wire, sent, crashes>>
    BY <1>0, <1>4 DEF Authorize, At, Sending, world, bounds
  <2> QED BY <1>b, <2>1 DEF Label
<1>5. CASE FinishSync(k) \/ Refuse(k) \/ Close(k)
  <2>1. /\ End(k) /\ call[k].io # "pending" /\ ~ Sending(k)
        /\ UNCHANGED <<db, disk, queue, wire, sent, crashes>>
    BY <1>5 DEF FinishSync, Refuse, Close, At, Saved, Sending, world, bounds
  <2>2. Moves(k, Idle) /\ Idle.msg = None /\ Idle.pc = "idle"
    BY <1>0, <2>1, EndMoves DEF Idle
  <2>3. CommandStep(k, Idle, db)
    BY <2>1, <2>2, ReadingStep DEF Reads
  <2> QED BY <1>a, <2>2, <2>3
<1>6. CASE Dispatch(k)
  <2>1. /\ Goto(k, "calling") /\ call[k].pc = "claiming" /\ call[k].io = "ok"
        /\ wire' = wire \cup {[op |-> call[k].msg, text |-> call[k].text]}
        /\ UNCHANGED <<db, disk, queue, sent, crashes>>
    BY <1>6 DEF Dispatch, At, Saved, bounds
  <2> QED BY <1>b, <2>1 DEF Label
<1> QED BY <1>1, <1>2, <1>3, <1>4, <1>5, <1>6

LEMMA SyncsAreSteps ==
  ASSUME Inv, NEW k \in Call, ListMail(k) \/ StoreSync(k)
  PROVE  \E d \in Vault, new \in CallRecord : CommandStep(k, new, d)
<1>0. TypeOK /\ db \in Vault /\ outside \in SUBSET Person
  BY DEF Inv, Typed, TypeOK
<1>1. CASE ListMail(k)
  <2> DEFINE d == Imported(db)
  <2>1. /\ Save(d, k) /\ Await(k, "importing") /\ ~ Sending(k)
        /\ call[k].io # "pending" /\ UNCHANGED <<disk, wire, sent, crashes>>
    BY <1>1 DEF ListMail, At, Sending, world, bounds, Inv, SendInvariant, SnapshotsHaveOwner
  <2>2. d \in Vault /\ Settles(db, d, None) /\ Follows(db, d)
    BY <1>0, ImportedIsVault, ImportedSettles, ImportedFollows
  <2> HIDE DEF d
  <2>3. Advances(db, d) /\ \A n \in Message : Open(d, n) => Open(db, n)
    BY <2>2, SettlesOpen DEF Settles
  <2>4. \E new \in CallRecord : CommandStep(k, new, d)
    BY <2>1, <2>2, <2>3, SavingStep DEF Label
  <2> QED BY <2>2, <2>4
<1>2. CASE StoreSync(k)
  <2> DEFINE d == [db EXCEPT !.connected = TRUE]
  <2>1. /\ Save(d, k) /\ Await(k, "syncing") /\ ~ Sending(k)
        /\ call[k].io # "pending" /\ UNCHANGED <<disk, wire, sent, crashes>>
    BY <1>2 DEF StoreSync, At, Saved, Sending, world, bounds
  <2>2. /\ d \in Vault /\ d.ledger = db.ledger /\ d.text = db.text /\ d.active = db.active
        /\ d.approvals = db.approvals /\ d.state = db.state
    BY <1>0 DEF Vault
  <2> HIDE DEF d
  <2>3. Follows(db, d) /\ Advances(db, d) /\ \A n \in Message : Open(d, n) => Open(db, n)
    BY <2>2, LedgerFollows, AdvancesReflexive DEF HasRow, Open
  <2>4. \E new \in CallRecord : CommandStep(k, new, d)
    BY <2>1, <2>2, <2>3, SavingStep DEF Label
  <2> QED BY <2>2, <2>4
<1> QED BY <1>1, <1>2

LEMMA ReservationIsStep ==
  ASSUME Inv, NEW k \in Call, ReserveApprovedSend(k)
  PROVE  \E d \in Vault, new \in CallRecord : CommandStep(k, new, d)
<1> DEFINE m == call[k].msg
           d == WithReservation(db, m)
<1>0. TypeOK /\ db \in Vault /\ m \in Message /\ db.ledger \in [Message -> LedgerRow]
  BY DEF Inv, Typed, TypeOK, SendsHaveDraft, ReserveApprovedSend, At, Vault
<1>1. /\ Save(d, k) /\ Await(k, "reserving") /\ ~ Sending(k)
      /\ call[k].io # "pending" /\ UNCHANGED <<disk, wire, sent, crashes>>
  BY DEF ReserveApprovedSend, At, Sending, world, bounds, Inv, SendInvariant, SnapshotsHaveOwner
<1>2. ~ HasRow(db, m)
  BY <1>0 DEF ReserveApprovedSend, CanReserve, CanSendInitial
<1>3. d \in Vault /\ Follows(db, d)
  BY <1>0, WithReservationIsVault, WithReservationFollows
<1>4. \A n \in Message : n # m => d.ledger[n] = db.ledger[n]
  <2>1. d.ledger = [db.ledger EXCEPT ![m] = [status |-> "reserved", text |-> db.active[m]]]
    BY <1>0, WithReservationIsVault
  <2> HIDE DEF d
  <2> QED BY <1>0, <2>1
<1> HIDE DEF d
<1>5. Advances(db, d)
  BY <1>2, <1>4 DEF Advances, MayBecome, HasRow
<1>6. \A n \in Message : Open(d, n) => n = m \/ Open(db, n)
  BY <1>4 DEF Open
<1>7. \E new \in CallRecord : CommandStep(k, new, d)
  BY <1>1, <1>3, <1>5, <1>6, SavingStep DEF Label
<1> QED BY <1>3, <1>7

LEMMA SettlementsAreSteps ==
  ASSUME Inv, NEW k \in Call,
         \/ ReservationNotSaved(k) \/ GuardRefuses(k) \/ Claim(k) \/ ClaimNotSaved(k)
         \/ ProviderConfirms(k) \/ OutcomeUnknown(k)
  PROVE  \E d \in Vault, new \in CallRecord : CommandStep(k, new, d)
<1> DEFINE m == call[k].msg
<1>0. TypeOK /\ db \in Vault /\ db.ledger \in [Message -> LedgerRow]
  BY DEF Inv, Typed, TypeOK, Vault
<1>1. Sending(k) /\ call[k].io # "pending"
  <2>1. call[k].pc = "calling" => call[k].io # "pending"
    BY DEF Inv, SendInvariant, SnapshotsHaveOwner
  <2> QED
    BY <2>1 DEF Sending, ReservationNotSaved, GuardRefuses, Claim, ClaimNotSaved,
                ProviderConfirms, OutcomeUnknown, At, Saved, NotSaved
<1>2. m \in Message
  BY <1>1, OwnRow
<1>3. ASSUME NEW d \in Vault, NEW pc \in {"claiming", "closing"}, Save(d, k), Await(k, pc),
             Settles(db, d, m), Follows(db, d), pc = "closing" => ~ Open(d, m),
             UNCHANGED <<disk, wire, sent, crashes>>
      PROVE  \E new \in CallRecord : CommandStep(k, new, d)
  <2>1. \A n \in Message : Open(d, n) => Open(db, n)
    BY <1>3, SettlesOpen
  <2>2. \A n \in Message : Open(d, n) =>
          \/ pc \in {"reserving", "claiming", "calling"} /\ m = n
          \/ Open(db, n) /\ ~ (Sending(k) /\ m = n)
    BY <1>3, <2>1
  <2>3. pc \in Label /\ Advances(db, d)
    BY <1>3 DEF Label, Settles
  <2> QED BY <1>1, <1>3, <2>2, <2>3, SavingStep
<1>4. CASE ReservationNotSaved(k) \/ GuardRefuses(k)
  <2> DEFINE d == FailedBeforeDispatch(db, m)
  <2>0. {"failed_pre_dispatch"} \subseteq DispatchStatus /\ "failed_safe" \in MessageState \ {"approved"}
    BY DEF DispatchStatus, MessageState
  <2>1. Unsent(m) /\ db.ledger[m].status = "reserved"
    BY <1>1, <1>4, OwnRow DEF ReservationNotSaved, GuardRefuses, At
  <2>2. d \in Vault /\ d.ledger = [db.ledger EXCEPT ![m].status = "failed_pre_dispatch"]
    BY <1>0, <1>2, FailedBeforeDispatchIsVault
  <2>3. Follows(db, d)
    BY <1>0, <1>2, <2>0, <2>1, StatusFollows DEF HasRow, FailedBeforeDispatch
  <2> HIDE DEF d
  <2>4. Settles(db, d, m) /\ d.ledger[m].status = "failed_pre_dispatch"
    BY <1>0, <1>2, <2>0, <2>1, <2>2, StatusSettles DEF HasRow, MayBecome
  <2>5. ~ Open(d, m)
    BY <2>4 DEF Open
  <2>6. CASE ReservationNotSaved(k)
    <3>1. /\ Moves(k, Idle) /\ Becomes(d, k) /\ UNCHANGED <<wire, sent, crashes>>
      BY <1>0, <2>6, EndMoves DEF ReservationNotSaved, Becomes, world, bounds, d
    <3>2. Idle.msg = None /\ Idle.pc = "idle" /\ Idle \in CallRecord
      BY <3>1 DEF Idle, Moves
    <3>3. Reads(k, Idle) /\ Answers(k, Idle, d)
      BY <2>4, <2>5, <3>2, SettlesOpen DEF Reads, Answers
    <3>4. CommandStep(k, Idle, d)
      BY <1>1, <2>2, <2>3, <2>4, <3>1, <3>2, <3>3 DEF CommandStep, Settles
    <3> QED BY <2>2, <3>2, <3>4
  <2>7. CASE GuardRefuses(k)
    <3>1. Save(d, k) /\ Await(k, "closing") /\ UNCHANGED <<disk, wire, sent, crashes>>
      BY <2>7 DEF GuardRefuses, world, bounds, d
    <3> QED BY <1>3, <2>2, <2>3, <2>4, <2>5, <3>1
  <2> QED BY <1>4, <2>6, <2>7
<1>5. CASE Claim(k)
  <2> DEFINE d == WithStatus(db, m, "dispatching")
  <2>0. "dispatching" \in DispatchStatus /\ "sent" \in MessageState \ {"approved"}
    BY DEF DispatchStatus, MessageState
  <2>1. HasRow(db, m) /\ MayBecome(db.ledger[m].status, "dispatching")
    BY <1>5 DEF Claim, HasRow, MayBecome
  <2>2. d \in Vault /\ Settles(db, d, m) /\ Follows(db, d)
    BY <1>0, <1>2, <2>0, <2>1, WithStatusSettles, StatusFollows
  <2>3. Save(d, k) /\ Await(k, "claiming") /\ UNCHANGED <<disk, wire, sent, crashes>>
    BY <1>5 DEF Claim, world, bounds
  <2> HIDE DEF d
  <2> QED BY <1>3, <2>2, <2>3
<1>6. CASE ClaimNotSaved(k)
  <2> DEFINE d == WithStatus(db, m, "ambiguous")
  <2>0. "ambiguous" \in DispatchStatus /\ "sent" \in MessageState \ {"approved"}
    BY DEF DispatchStatus, MessageState
  <2>1. HasRow(db, m) /\ MayBecome(db.ledger[m].status, "ambiguous")
    BY <1>6 DEF ClaimNotSaved, HasRow, MayBecome
  <2>2. d \in Vault /\ Settles(db, d, m) /\ Follows(db, d)
    BY <1>0, <1>2, <2>0, <2>1, WithStatusSettles, StatusFollows
  <2>3. Save(d, k) /\ Await(k, "closing") /\ UNCHANGED <<disk, wire, sent, crashes>>
    BY <1>6 DEF ClaimNotSaved, world, bounds
  <2>4. ~ Open(d, m)
    <3>1. d.ledger = [db.ledger EXCEPT ![m].status = "ambiguous"]
      BY <1>0, <1>2, <2>0, WithStatusIsVault
    <3>2. [db.ledger EXCEPT ![m].status = "ambiguous"][m].status = "ambiguous"
      BY <1>0, <1>2 DEF LedgerRow
    <3> QED BY <3>1, <3>2 DEF Open
  <2> HIDE DEF d
  <2> QED BY <1>3, <2>2, <2>3, <2>4
<1>7. ASSUME NEW c \in BOOLEAN, c => sent[m] # <<>>, At(k, "calling"),
             Save(Recorded(db, m, c), k), Await(k, "closing"), UNCHANGED <<disk, world, bounds>>
      PROVE  \E d \in Vault, new \in CallRecord : CommandStep(k, new, d)
  <2> DEFINE d == Recorded(db, m, c)
  <2>1. Started(db, m) /\ HasRow(db, m)
    BY <1>1, <1>7, OwnRow DEF At, Started, HasRow
  <2>2. d \in Vault /\ Settles(db, d, m) /\ Follows(db, d)
    BY <1>0, <1>2, <1>7, <2>1, RecordedIsVault, RecordedSettles, RecordedFollows
  <2>3. Save(d, k) /\ Await(k, "closing") /\ UNCHANGED <<disk, wire, sent, crashes>>
    BY <1>7 DEF world, bounds
  <2>4. ~ Open(d, m)
    BY <1>0, <1>2, RecordedCloses DEF Open
  <2> HIDE DEF d
  <2> QED BY <1>3, <2>2, <2>3, <2>4
<1>8. CASE ProviderConfirms(k)
  BY <1>7, <1>8 DEF ProviderConfirms
<1>9. CASE OutcomeUnknown(k)
  BY <1>7, <1>9 DEF OutcomeUnknown
<1> QED BY <1>4, <1>5, <1>6, <1>8, <1>9

LEMMA CommandsAreSteps ==
  ASSUME Inv, NEW k \in Call,
         SyncMail(k) \/ (\E m \in Message : SendApprovedDraft(k, m)) \/ Proceed(k)
  PROVE  \E d \in Vault, new \in CallRecord : CommandStep(k, new, d)
<1>1. db \in Vault
  BY DEF Inv, Typed, TypeOK
<1> QED BY <1>1, ReadsAreSteps, SyncsAreSteps, ReservationIsStep, SettlementsAreSteps DEF Proceed

\* What every command of the founder does: the ledger stays as it is.
FounderStep(d) ==
  /\ d \in Vault
  /\ Becomes(d, None)
  /\ d.ledger = db.ledger
  /\ Follows(db, d)
  /\ UNCHANGED <<call, wire, sent, crashes>>

LEMMA FounderIsStep ==
  ASSUME Inv, Founder
  PROVE  \E d \in Vault : FounderStep(d)
<1>0. db \in Vault
  BY DEF Inv, Typed, TypeOK
<1>a. ASSUME NEW d \in Vault, FounderSaves(d), d.ledger = db.ledger, Follows(db, d)
      PROVE  \E e \in Vault : FounderStep(e)
  BY <1>a DEF FounderSaves, Save, FounderStep, Becomes, world
<1>b. ASSUME NEW d \in Vault, FounderSaves(d), d.ledger = db.ledger, d.text = db.text,
             d.active = db.active, d.approvals = db.approvals, d.state = db.state
      PROVE  \E e \in Vault : FounderStep(e)
  <2>1. Follows(db, d)
    BY <1>b, LedgerFollows DEF HasRow
  <2> QED BY <1>a, <1>b, <2>1
<1>1. ASSUME NEW m \in Message, NEW t \in Text, CreateDraft(m, t)
      PROVE  \E e \in Vault : FounderStep(e)
  <2>1. [db EXCEPT !.text[m] = t] \in Vault /\ [db EXCEPT !.text[m] = t].ledger = db.ledger
    BY <1>0 DEF Vault
  <2> QED BY <1>0, <1>1, <1>a, <2>1, CreatedFollows DEF CreateDraft
<1>2. ASSUME NEW m \in Message, NEW t \in Text, UpdateDraft(m, t)
      PROVE  \E e \in Vault : FounderStep(e)
  BY <1>0, <1>2, <1>a, WithTextIsVault, WithTextFollows DEF UpdateDraft
<1>3. ASSUME NEW m \in Message, ApproveDraft(m) PROVE \E e \in Vault : FounderStep(e)
  <2>1. ~ HasRow(db, m)
    BY <1>3 DEF ApproveDraft, ApprovalBlocked, CanSendInitial
  <2> QED BY <1>0, <1>3, <1>a, <2>1, WithApprovalIsVault, WithApprovalFollows DEF ApproveDraft
<1>4. ASSUME NEW p \in Person, NEW s \in {"no", "founder"},
             FounderSaves([db EXCEPT !.suppressed[p] = s])
      PROVE  \E e \in Vault : FounderStep(e)
  <2> DEFINE d == [db EXCEPT !.suppressed[p] = s]
  <2>1. /\ d \in Vault /\ d.ledger = db.ledger /\ d.text = db.text /\ d.active = db.active
        /\ d.approvals = db.approvals /\ d.state = db.state
    BY <1>0 DEF Vault
  <2> HIDE DEF d
  <2>2. FounderSaves(d)
    BY <1>4 DEF d
  <2> QED BY <1>b, <2>1, <2>2
<1>5. ASSUME NEW p \in Person, AddSuppression(p) \/ RemoveSuppression(p)
      PROVE  \E e \in Vault : FounderStep(e)
  BY <1>4, <1>5 DEF AddSuppression, RemoveSuppression
<1>6. ASSUME Connect PROVE \E e \in Vault : FounderStep(e)
  <2> DEFINE d == [db EXCEPT !.connected = TRUE, !.tokens = TRUE]
  <2>1. /\ d \in Vault /\ d.ledger = db.ledger /\ d.text = db.text /\ d.active = db.active
        /\ d.approvals = db.approvals /\ d.state = db.state
    BY <1>0 DEF Vault
  <2>2. FounderSaves(d)
    BY <1>6 DEF Connect
  <2> HIDE DEF d
  <2> QED BY <1>b, <2>1, <2>2
<1> DEFINE w == WithoutApprovals(db)
<1>7. w \in Vault /\ w.ledger = db.ledger
  BY <1>0, WithoutApprovalsIsVault
<1>8. ASSUME NEW paused \in BOOLEAN, NEW footer \in Footer, UpdateCommunicationPolicy(paused, footer)
      PROVE  \E e \in Vault : FounderStep(e)
  <2> DEFINE d == [w EXCEPT !.paused = paused, !.footer = footer]
  <2>1. FounderSaves(d)
    BY <1>8 DEF UpdateCommunicationPolicy
  <2> HIDE DEF w
  <2>2. /\ d \in Vault /\ d.ledger = db.ledger
        /\ d.text = w.text /\ d.active = w.active /\ d.approvals = w.approvals /\ d.state = w.state
    BY <1>7 DEF Vault
  <2> HIDE DEF d
  <2> QED BY <1>0, <1>a, <2>1, <2>2, WithoutApprovalsFollows DEF w
<1>9. ASSUME NEW tokens \in BOOLEAN, NEW d, FounderSaves(d),
             \/ d = [w EXCEPT !.connected = FALSE]
             \/ d = [w EXCEPT !.connected = FALSE, !.tokens = FALSE]
      PROVE  \E e \in Vault : FounderStep(e)
  <2> HIDE DEF w
  <2> DEFINE Plain == /\ d \in Vault /\ d.ledger = db.ledger /\ d.text = w.text
                      /\ d.active = w.active /\ d.approvals = w.approvals /\ d.state = w.state
  <2>1. ASSUME d = [w EXCEPT !.connected = FALSE] PROVE Plain
    BY <1>7, <2>1 DEF Vault
  <2>2. ASSUME d = [w EXCEPT !.connected = FALSE, !.tokens = FALSE] PROVE Plain
    BY <1>7, <2>2 DEF Vault
  <2>3. Plain
    BY <1>9, <2>1, <2>2
  <2> QED BY <1>0, <1>9, <1>a, <2>3, WithoutApprovalsFollows DEF w
<1>10. ASSUME Configure \/ Disconnect PROVE \E e \in Vault : FounderStep(e)
  BY <1>9, <1>10 DEF Configure, Disconnect
<1> QED BY <1>1, <1>2, <1>3, <1>5, <1>6, <1>8, <1>10 DEF Founder

-----------------------------------------------------------------------------
(* The invariant of the approvals is inductive *)

LEMMA InitApproved == Init => ApprovalInvariant
<1> SUFFICES ASSUME Init PROVE ApprovalInvariant
  OBVIOUS
<1>1. VaultsAreCurrent /\ ApprovalsAccumulate
  BY DEF Init, EmptyVault, VaultsAreCurrent, Current, ApprovalsAccumulate, Keeps
<1>2. SendsWereApproved /\ RequestsWereApproved
  BY DEF Init, Idle, SendsWereApproved, RequestsWereApproved, DeliveredWasApproved
<1> QED BY <1>1, <1>2 DEF ApprovalInvariant

\* What holds of the vaults after a step that makes a vault, whoever makes it.
LEMMA VaultsFollow ==
  ASSUME Inv, ApprovalInvariant, NEW d, NEW owner, Becomes(d, owner), Follows(db, d)
  PROVE  VaultsAreCurrent' /\ ApprovalsAccumulate'
<1>1. /\ VaultsAreCurrent /\ ApprovalsAccumulate /\ Current(d) /\ Keeps(db, d)
  BY DEF ApprovalInvariant, VaultsAreCurrent, Follows
<1>2. db' = d /\ disk' = disk
  BY DEF Becomes
<1>3. VaultsAreCurrent'
  <2>1. ASSUME NEW i \in DOMAIN queue' PROVE Current(queue'[i].db)
    BY <1>1, BecomesQueue DEF VaultsAreCurrent
  <2> QED BY <1>1, <1>2, <2>1 DEF VaultsAreCurrent, Current, HasRow
<1>4. Keeps(disk, d) /\ Keeps(d, d)
  BY <1>1, KeepsTransitive, KeepsReflexive DEF ApprovalsAccumulate
<1>5. ASSUME NEW i \in DOMAIN queue PROVE Keeps(queue[i].db, d)
  BY <1>1, KeepsTransitive DEF ApprovalsAccumulate
<1>6. ASSUME NEW i \in DOMAIN queue'
      PROVE  Keeps(disk, queue'[i].db) /\ Keeps(queue'[i].db, d)
  BY <1>1, <1>4, <1>5, BecomesQueue DEF ApprovalsAccumulate
<1>7. ASSUME NEW i \in DOMAIN queue', NEW j \in DOMAIN queue', i <= j
      PROVE  Keeps(queue'[i].db, queue'[j].db)
  <2>1. DOMAIN queue' \subseteq Nat /\ DOMAIN queue = 1 .. Len(queue) /\ Len(queue) \in Nat
    BY DEF Becomes, Inv, Typed, TypeOK
  <2>2. CASE i \in DOMAIN queue /\ queue'[i] = queue[i] /\ j \in DOMAIN queue /\ queue'[j] = queue[j]
    BY <1>1, <1>7, <2>2 DEF ApprovalsAccumulate
  <2>3. CASE i \in DOMAIN queue /\ queue'[i] = queue[i] /\ queue'[j].db = d
    BY <1>5, <2>3
  <2>4. CASE queue'[i].db = d /\ j = i
    BY <1>4, <2>4
  <2> QED BY <1>7, <2>1, <2>2, <2>3, <2>4, BecomesQueue
<1> QED BY <1>2, <1>3, <1>4, <1>6, <1>7 DEF ApprovalsAccumulate, Keeps

LEMMA FounderApproved ==
  ASSUME Inv, ApprovalInvariant, NEW d \in Vault, FounderStep(d)
  PROVE  ApprovalInvariant'
<1>1. Becomes(d, None) /\ Follows(db, d) /\ UNCHANGED <<disk, call, wire, sent>>
  BY DEF FounderStep, Becomes
<1>2. VaultsAreCurrent' /\ ApprovalsAccumulate'
  BY <1>1, VaultsFollow
<1>3. SendsWereApproved'
  <2>1. \A k \in Call : call[k].msg # None => call[k].text \in d.approvals[call[k].msg]
    <3>1. \A k \in Call : call[k].msg \in Message \cup {None}
      BY DEF Inv, Typed, TypeOK, CallRecord
    <3> QED BY <1>1, <3>1 DEF ApprovalInvariant, SendsWereApproved, Follows, Keeps
  <2>2. \A i \in DOMAIN queue' :
          queue'[i].owner \in Call => i \in DOMAIN queue /\ queue'[i] = queue[i]
    BY <1>1, BecomesQueue
  <2> QED BY <1>1, <2>1, <2>2 DEF Becomes, ApprovalInvariant, SendsWereApproved
<1>4. RequestsWereApproved'
  BY <1>1 DEF ApprovalInvariant, RequestsWereApproved, DeliveredWasApproved
<1> QED BY <1>2, <1>3, <1>4 DEF ApprovalInvariant

LEMMA CommandApproved ==
  ASSUME Inv, Typed', ApprovalInvariant, NEW k \in Call, NEW new, NEW d, CommandStep(k, new, d)
  PROVE  ApprovalInvariant'
<1>1. /\ Becomes(d, k) /\ Follows(db, d) /\ Moves(k, new) /\ Reads(k, new)
      /\ new.pc = "claiming" => new.io = "pending"
      /\ db' = d /\ disk' = disk /\ sent' = sent /\ call[k].io # "pending"
  BY DEF CommandStep, Becomes
<1>2. VaultsAreCurrent' /\ ApprovalsAccumulate'
  BY <1>1, VaultsFollow
<1>3. ASSUME NEW l \in Call
      PROVE  call'[l].msg # None => call'[l].text \in d.approvals[call'[l].msg]
  <2>1. ASSUME call[l].msg # None PROVE call[l].text \in d.approvals[call[l].msg]
    <3>1. call[l].msg \in Message
      BY <2>1 DEF Inv, Typed, TypeOK, CallRecord
    <3> QED BY <1>1, <2>1, <3>1 DEF ApprovalInvariant, SendsWereApproved, Follows, Keeps
  <2>2. CASE l # k
    BY <1>1, <2>1, <2>2 DEF Moves
  <2>3. CASE l = k
    <3>1. ASSUME new.msg \in Message, new.text = db.text[new.msg], db.active[new.msg] # None
          PROVE  new.text \in d.approvals[new.msg]
      <4>1. new.text \in db.approvals[new.msg]
        BY <3>1 DEF ApprovalInvariant, VaultsAreCurrent, Current
      <4> QED BY <1>1, <3>1, <4>1 DEF Follows, Keeps
    <3> QED BY <1>1, <2>1, <2>3, <3>1 DEF Moves, Reads
  <2> QED BY <2>2, <2>3
<1>4. ASSUME NEW i \in DOMAIN queue', NEW l \in Call, queue'[i].owner = l, call'[l].pc = "claiming"
      PROVE  call'[l].text \in queue'[i].db.approvals[call'[l].msg]
  <2>1. CASE i \in DOMAIN queue /\ queue'[i] = queue[i]
    <3>1. l # k
      BY <1>1, <1>4, <2>1 DEF Inv, SendInvariant, SnapshotsHaveOwner
    <3> QED BY <1>1, <1>4, <2>1, <3>1 DEF Moves, ApprovalInvariant, SendsWereApproved
  <2>2. CASE queue'[i].db = d /\ queue'[i].owner = k
    <3>1. call'[l].msg # None
      BY <1>4 DEF Typed, SendsHaveDraft
    <3> QED BY <1>3, <2>2, <3>1
  <2> QED BY <1>1, <2>1, <2>2, BecomesQueue
<1>5. ASSUME NEW l \in Call, call'[l].pc = "claiming", call'[l].io = "ok"
      PROVE  call'[l].text \in disk.approvals[call'[l].msg]
  BY <1>1, <1>5 DEF Moves, ApprovalInvariant, SendsWereApproved
<1>6. SendsWereApproved'
  BY <1>1, <1>3, <1>4, <1>5 DEF SendsWereApproved
<1>7. RequestsWereApproved'
  <2>1. CASE wire' = wire
    BY <1>1, <2>1 DEF ApprovalInvariant, RequestsWereApproved, DeliveredWasApproved
  <2>2. CASE /\ wire' = wire \cup {[op |-> call[k].msg, text |-> call[k].text]}
             /\ call[k].pc = "claiming" /\ call[k].io = "ok"
    BY <1>1, <2>2
    DEF ApprovalInvariant, RequestsWereApproved, DeliveredWasApproved, SendsWereApproved
  <2> QED BY <2>1, <2>2 DEF CommandStep
<1> QED BY <1>2, <1>6, <1>7 DEF ApprovalInvariant

\* The oldest snapshot leaves the queue, written or not.
LEMMA QueueApproved ==
  ASSUME Inv, ApprovalInvariant, WriteSnapshot \/ WriteFails
  PROVE  ApprovalInvariant'
<1> SUFFICES ASSUME NEW outcome \in {"ok", "error"}, queue # <<>>,
                    queue' = Tail(queue),
                    \/ disk' = disk /\ outcome = "error"
                    \/ disk' = Head(queue).db,
                    call' = Settled(Head(queue).owner, outcome),
                    UNCHANGED <<db, wire, sent>>
             PROVE  ApprovalInvariant'
  BY DEF WriteSnapshot, WriteFails, world
<1> DEFINE s == Head(queue)
<1>1. TypeOK /\ queue \in Seq(Snapshot) /\ s \in Snapshot
  BY DEF Inv, Typed, TypeOK
<1>2. /\ s = queue[1] /\ 1 \in DOMAIN queue
      /\ \A i \in DOMAIN queue' :
           i + 1 \in DOMAIN queue /\ queue'[i] = queue[i + 1] /\ i + 1 # 1 /\ 1 <= i + 1
      /\ \A i, j \in DOMAIN queue' : i <= j => i + 1 <= j + 1
  BY <1>1
<1>3. s.owner \in Call \cup {None}
  BY <1>1 DEF Snapshot
<1> HIDE DEF s
<1>4. \A k \in Call :
        /\ call'[k].pc = call[k].pc /\ call'[k].msg = call[k].msg
        /\ call'[k].text = call[k].text
        /\ call'[k].io = IF k = s.owner THEN outcome ELSE call[k].io
  BY <1>1, <1>3, SettledAnswers DEF s
<1>5. (disk' = disk /\ outcome = "error") \/ disk' = s.db
  BY DEF s
<1>6. Keeps(disk, s.db) /\ Keeps(s.db, db) /\ Keeps(disk, db)
  BY <1>2 DEF ApprovalInvariant, ApprovalsAccumulate
<1>7. Keeps(disk, disk') /\ Keeps(disk', db)
  BY <1>5, <1>6, KeepsReflexive
<1>8. ApprovalsAccumulate'
  <2>1. ASSUME NEW i \in DOMAIN queue'
        PROVE  Keeps(disk', queue'[i].db) /\ Keeps(queue'[i].db, db)
    BY <1>2, <1>5 DEF ApprovalInvariant, ApprovalsAccumulate
  <2>2. \A i, j \in DOMAIN queue' : i <= j => Keeps(queue'[i].db, queue'[j].db)
    BY <1>2 DEF ApprovalInvariant, ApprovalsAccumulate
  <2> QED BY <1>7, <2>1, <2>2 DEF ApprovalsAccumulate, Keeps
<1>9. VaultsAreCurrent'
  <2>1. Current(db) /\ Current(disk') /\ \A i \in DOMAIN queue' : Current(queue'[i].db)
    BY <1>2, <1>5 DEF ApprovalInvariant, VaultsAreCurrent
  <2> QED BY <2>1 DEF VaultsAreCurrent, Current, HasRow
<1>10. SendsWereApproved'
  <2>1. \A k \in Call : call'[k].msg # None => call'[k].text \in db.approvals[call'[k].msg]
    BY <1>4 DEF ApprovalInvariant, SendsWereApproved
  <2>2. ASSUME NEW i \in DOMAIN queue', NEW k \in Call, queue'[i].owner = k, call'[k].pc = "claiming"
        PROVE  call'[k].text \in queue'[i].db.approvals[call'[k].msg]
    BY <1>2, <1>4, <2>2 DEF ApprovalInvariant, SendsWereApproved
  <2>3. ASSUME NEW k \in Call, call[k].pc = "claiming", call'[k].io = "ok"
        PROVE  call[k].text \in disk'.approvals[call[k].msg]
    <3>1. call[k].msg \in Message
      BY <2>3 DEF Inv, Typed, SendsHaveDraft
    <3>2. CASE k = s.owner
      BY <1>2, <1>4, <1>5, <2>3, <3>2 DEF ApprovalInvariant, SendsWereApproved
    <3>3. CASE k # s.owner
      BY <1>4, <1>7, <2>3, <3>1, <3>3 DEF ApprovalInvariant, SendsWereApproved, Keeps
    <3> QED BY <3>2, <3>3
  <2> QED BY <1>4, <2>1, <2>2, <2>3 DEF SendsWereApproved
<1>11. RequestsWereApproved'
  <2>1. \A r \in wire : r.op \in Message
    BY <1>1 DEF TypeOK
  <2> QED
    BY <1>7, <2>1 DEF ApprovalInvariant, RequestsWereApproved, DeliveredWasApproved, Keeps
<1> QED BY <1>8, <1>9, <1>10, <1>11 DEF ApprovalInvariant

LEMMA WorldApproved ==
  ASSUME Inv, ApprovalInvariant, World
  PROVE  ApprovalInvariant'
<1>1. ASSUME UNCHANGED <<db, disk, queue, call>>
      PROVE  VaultsAreCurrent' /\ ApprovalsAccumulate' /\ SendsWereApproved'
  BY <1>1 DEF ApprovalInvariant, VaultsAreCurrent, Current, HasRow, ApprovalsAccumulate, Keeps,
              SendsWereApproved
<1>2. ASSUME UNCHANGED <<db, disk, queue, call, sent>>, wire' \subseteq wire
      PROVE  ApprovalInvariant'
  BY <1>1, <1>2 DEF ApprovalInvariant, RequestsWereApproved, DeliveredWasApproved
<1>3. ASSUME NEW p \in Person, WriteFromElsewhere(p) \/ OptOut(p) PROVE ApprovalInvariant'
  BY <1>2, <1>3 DEF WriteFromElsewhere, OptOut
<1>4. ASSUME NEW r \in wire, ProviderDrops(r) PROVE ApprovalInvariant'
  BY <1>2, <1>4 DEF ProviderDrops
<1>5. ASSUME NEW r \in wire, ProviderAccepts(r) PROVE ApprovalInvariant'
  <2>1. r.op \in Message /\ r.text \in Text /\ sent \in [Message -> Seq(Text)]
    BY DEF Inv, Typed, TypeOK
  <2>2. sent[r.op] = <<>> /\ r.text \in disk.approvals[r.op]
    BY DEF Inv, SendInvariant, OneRequestPerSend, ApprovalInvariant, RequestsWereApproved
  <2>3. /\ UNCHANGED <<db, disk, queue, call>> /\ wire' = wire \ {r}
        /\ sent'[r.op] = Append(<<>>, r.text)
        /\ \A m \in Message : m # r.op => sent'[m] = sent[m]
    BY <1>5, <2>1, <2>2 DEF ProviderAccepts
  <2>4. \A i \in DOMAIN sent'[r.op] : sent'[r.op][i] = r.text
    BY <2>1, <2>3
  <2>5. ASSUME NEW m \in Message, NEW i \in DOMAIN sent'[m]
        PROVE  sent'[m][i] \in disk.approvals[m]
    BY <2>2, <2>3, <2>4 DEF ApprovalInvariant, RequestsWereApproved, DeliveredWasApproved
  <2>6. RequestsWereApproved'
    BY <2>3, <2>5 DEF ApprovalInvariant, RequestsWereApproved, DeliveredWasApproved
  <2> QED BY <1>1, <2>3, <2>6 DEF ApprovalInvariant
<1>6. ASSUME Crash PROVE ApprovalInvariant'
  <2>1. /\ db' = disk /\ disk' = disk /\ queue' = <<>> /\ UNCHANGED <<wire, sent>>
        /\ \A k \in Call : call'[k].pc = "idle" /\ call'[k].msg = None
    BY <1>6 DEF Crash, world, Idle
  <2>2. VaultsAreCurrent' /\ ApprovalsAccumulate'
    BY <2>1 DEF ApprovalInvariant, VaultsAreCurrent, Current, HasRow, ApprovalsAccumulate, Keeps
  <2>3. SendsWereApproved' /\ RequestsWereApproved'
    BY <2>1 DEF ApprovalInvariant, SendsWereApproved, RequestsWereApproved, DeliveredWasApproved
  <2> QED BY <2>2, <2>3 DEF ApprovalInvariant
<1> QED BY <1>3, <1>4, <1>5, <1>6 DEF World

LEMMA NextApproved == Inv /\ ApprovalInvariant /\ [Next]_vars => ApprovalInvariant'
<1> SUFFICES ASSUME Inv, ApprovalInvariant, [Next]_vars PROVE ApprovalInvariant'
  OBVIOUS
<1>1. ASSUME UNCHANGED vars PROVE ApprovalInvariant'
  BY <1>1 DEF vars, ApprovalInvariant, VaultsAreCurrent, Current, HasRow, ApprovalsAccumulate,
              Keeps, SendsWereApproved, RequestsWereApproved, DeliveredWasApproved
<1>2. ASSUME Founder PROVE ApprovalInvariant'
  BY <1>2, FounderIsStep, FounderApproved
<1>3. ASSUME NEW k \in Call,
             SyncMail(k) \/ (\E m \in Message : SendApprovedDraft(k, m)) \/ Proceed(k)
      PROVE  ApprovalInvariant'
  <2>1. Typed'
    BY NextTyped DEF Inv
  <2> QED BY <1>3, <2>1, CommandsAreSteps, CommandApproved
<1> QED BY <1>1, <1>2, <1>3, QueueApproved, WorldApproved DEF Next

\* The approval rows, the drafts and what the commands carry agree with each
\* other in memory, in every queued snapshot and in the file.
THEOREM ApprovalsAreKept == Spec => []ApprovalInvariant
<1>1. Init => ApprovalInvariant
  BY InitApproved
<1>2. Inv /\ ApprovalInvariant /\ [Next]_vars => ApprovalInvariant'
  BY NextApproved
<1> QED BY <1>1, <1>2, Invariance, PTL DEF Spec

\* sendApprovedDraft reads the content once and dispatches that reading: it
\* had an approval row when it was read, and the file has it before the
\* request can go out, since the claim is saved first.
THEOREM OnlyApprovedIsDelivered == Spec => []DeliveredWasApproved
<1>1. ApprovalInvariant => DeliveredWasApproved
  BY DEF ApprovalInvariant, RequestsWereApproved
<1> QED BY <1>1, ApprovalsAreKept, PTL

\* The triggers of migrations.ts invalidate an approval whenever the content
\* or what it was given under changes; a reservation uses it up.
THEOREM ApprovalsAreCurrent == Spec => []ApprovalIsCurrent
<1>1. ApprovalInvariant => ApprovalIsCurrent
  BY DEF ApprovalInvariant, VaultsAreCurrent, Current, ApprovalIsCurrent
<1> QED BY <1>1, ApprovalsAreKept, PTL

-----------------------------------------------------------------------------
(* Rows in progress, and the ledger in memory *)

LEMMA NextOwned == Inv /\ OpenRowHasOwner /\ [Next]_vars => OpenRowHasOwner'
<1> SUFFICES ASSUME Inv, OpenRowHasOwner, [Next]_vars PROVE OpenRowHasOwner'
  OBVIOUS
<1>0. crashes \in Nat
  BY DEF Inv, Typed, TypeOK
<1>1. ASSUME db'.ledger = db.ledger, crashes' = crashes,
             \A k \in Call : call'[k].pc = call[k].pc /\ call'[k].msg = call[k].msg
      PROVE  OpenRowHasOwner'
  BY <1>1 DEF OpenRowHasOwner, Sending
<1>2. ASSUME UNCHANGED vars PROVE OpenRowHasOwner'
  BY <1>1, <1>2 DEF vars
<1>3. ASSUME Founder PROVE OpenRowHasOwner'
  <2>1. PICK d \in Vault : FounderStep(d)
    BY <1>3, FounderIsStep
  <2> QED BY <1>1, <2>1 DEF FounderStep, Becomes
<1>4. ASSUME World PROVE OpenRowHasOwner'
  <2>1. CASE Crash
    BY <1>0, <2>1 DEF Crash, OpenRowHasOwner
  <2>2. CASE ~ Crash
    <3>1. UNCHANGED <<db, call, crashes>>
      BY <1>4, <2>2 DEF World, WriteFromElsewhere, OptOut, ProviderAccepts, ProviderDrops, bounds
    <3> QED BY <1>1, <3>1
  <2> QED BY <2>1, <2>2
<1>5. ASSUME WriteSnapshot \/ WriteFails PROVE OpenRowHasOwner'
  <2>1. PICK outcome \in {"ok", "error"} : call' = Settled(Head(queue).owner, outcome)
    BY <1>5 DEF WriteSnapshot, WriteFails
  <2>2. Head(queue).owner \in Call \cup {None}
    <3>1. queue # <<>> /\ queue \in Seq(Snapshot)
      BY <1>5 DEF WriteSnapshot, WriteFails, Inv, Typed, TypeOK
    <3>2. Head(queue) \in Snapshot
      BY <3>1
    <3> QED BY <3>2 DEF Snapshot
  <2>3. \A k \in Call : call'[k].pc = call[k].pc /\ call'[k].msg = call[k].msg
    BY <2>1, <2>2, SettledAnswers DEF Inv, Typed
  <2> QED BY <1>1, <1>5, <2>3 DEF WriteSnapshot, WriteFails, bounds
<1>6. ASSUME NEW k \in Call,
             SyncMail(k) \/ (\E m \in Message : SendApprovedDraft(k, m)) \/ Proceed(k)
      PROVE  OpenRowHasOwner'
  <2>1. PICK d \in Vault, new \in CallRecord : CommandStep(k, new, d)
    BY <1>6, CommandsAreSteps
  <2>2. /\ db' = d /\ Moves(k, new) /\ Answers(k, new, d) /\ crashes' = crashes
    BY <2>1 DEF CommandStep, Becomes
  <2>3. ASSUME NEW m \in Message, Open(d, m), ~ crashes > 0
        PROVE  \E l \in Call : call'[l].msg = m /\ SendingRecord(call'[l])
    <3>1. CASE SendingRecord(new) /\ new.msg = m
      BY <2>2, <3>1 DEF Moves
    <3>2. CASE Open(db, m) /\ ~ (Sending(k) /\ call[k].msg = m)
      <4>1. PICK l \in Call : call[l].msg = m /\ Sending(l)
        BY <2>3, <3>2 DEF OpenRowHasOwner, Open
      <4>2. call'[l] = call[l]
        BY <2>2, <3>2, <4>1 DEF Moves
      <4> QED BY <4>1, <4>2 DEF Sending, SendingRecord
    <3> QED BY <2>2, <2>3, <3>1, <3>2 DEF Answers
  <2> QED BY <2>2, <2>3 DEF OpenRowHasOwner, Open, Sending, SendingRecord
<1> QED BY <1>2, <1>3, <1>4, <1>5, <1>6 DEF Next

\* A reservation or a dispatch in progress is some running command's to
\* settle: every way out of sendApprovedDraft settles the row it reserved.
THEOREM OpenRowsHaveOwners == Spec => []OpenRowHasOwner
<1>1. Init => OpenRowHasOwner
  BY DEF Init, EmptyVault, OpenRowHasOwner
<1>2. Inv /\ OpenRowHasOwner /\ [Next]_vars => OpenRowHasOwner'
  BY NextOwned
<1> QED BY <1>1, <1>2, Invariance, PTL DEF Spec

\* markDispatchStarted, markSendSucceeded, markAmbiguous and the mailbox
\* confirmation move a row forward only; restarting is what may undo steps
\* that had not reached the file.
THEOREM LedgerNeverGoesBack == Spec => LedgerAdvances
<1>1. Inv /\ [Next]_vars => [crashes' = crashes => Advances(db, db')]_<<db, crashes>>
  <2> SUFFICES ASSUME Inv, [Next]_vars, crashes' = crashes PROVE Advances(db, db')
    OBVIOUS
  <2>1. ASSUME Founder PROVE Advances(db, db')
    BY <2>1, FounderIsStep, AdvancesReflexive DEF FounderStep, Becomes
  <2>2. ASSUME NEW k \in Call,
               SyncMail(k) \/ (\E m \in Message : SendApprovedDraft(k, m)) \/ Proceed(k)
        PROVE  Advances(db, db')
    BY <2>2, CommandsAreSteps DEF CommandStep, Becomes
  <2>3. ASSUME WriteSnapshot \/ WriteFails \/ UNCHANGED vars PROVE Advances(db, db')
    BY <2>3, AdvancesReflexive DEF WriteSnapshot, WriteFails, vars
  <2>4. ASSUME World PROVE Advances(db, db')
    <3>1. ~ Crash
      BY DEF Crash, Inv, Typed, TypeOK
    <3>2. db' = db
      BY <2>4, <3>1 DEF World, WriteFromElsewhere, OptOut, ProviderAccepts, ProviderDrops
    <3> QED BY <3>2, AdvancesReflexive
  <2> QED BY <2>1, <2>2, <2>3, <2>4 DEF Next
<1> QED BY <1>1, Invariance, PTL DEF Spec, LedgerAdvances

-----------------------------------------------------------------------------
(* The send path implements module Outreach *)

\* In the file too, a person has one row at most, and the person's record is
\* what that row says.
OneRowInFile ==
  \A m, n \in Message :
    HasRow(disk, m) /\ HasRow(disk, n) /\ Recipient[m] = Recipient[n] => m = n

RowIsRecord ==
  \A m \in Message : HasRow(disk, m) =>
    /\ RecordOf(Recipient[m]) = "confirmed" <=> disk.ledger[m].status = "sent"
    /\ RecordOf(Recipient[m]) = "committed" <=>
         disk.ledger[m].status \in {"dispatching", "ambiguous"}
    /\ RecordOf(Recipient[m]) = "given_up" <=> disk.ledger[m].status = "failed_pre_dispatch"
    /\ RecordOf(Recipient[m]) = "open" <=> disk.ledger[m].status = "reserved"

LEMMA FileSpeaks == Inv => OneRowInFile /\ RowIsRecord
<1> SUFFICES ASSUME Inv PROVE OneRowInFile /\ RowIsRecord
  OBVIOUS
<1>1. OneRowInFile
  <2>1. \A m \in Message : HasRow(disk, m) => HasRow(db, m)
    BY DEF Inv, SendInvariant, QueueAdvances, Advances, MayBecome, HasRow
  <2> QED BY <2>1 DEF Inv, SendInvariant, OneRowPerPerson, OneRowInFile
<1>2. ASSUME NEW m \in Message, HasRow(disk, m), NEW S, "none" \notin S
      PROVE  RowsSay(Recipient[m], S) <=> disk.ledger[m].status \in S
  <2>1. ASSUME NEW n \in Message, Recipient[n] = Recipient[m], disk.ledger[n].status \in S
        PROVE  n = m
    BY <1>1, <1>2, <2>1 DEF OneRowInFile, HasRow
  <2> QED BY <2>1 DEF RowsSay
<1>3. ASSUME NEW m \in Message, HasRow(disk, m)
      PROVE  disk.ledger[m].status \in DispatchStatus \ {"none"}
  <2>1. disk.ledger[m] \in LedgerRow
    BY DEF Inv, Typed, TypeOK, Vault
  <2> QED BY <1>3, <2>1 DEF LedgerRow, HasRow
<1>4. ASSUME NEW m \in Message, HasRow(disk, m)
      PROVE  /\ RowsSay(Recipient[m], {"sent"}) <=> disk.ledger[m].status \in {"sent"}
             /\ RowsSay(Recipient[m], {"dispatching", "ambiguous"}) <=>
                  disk.ledger[m].status \in {"dispatching", "ambiguous"}
             /\ RowsSay(Recipient[m], {"failed_pre_dispatch"}) <=>
                  disk.ledger[m].status \in {"failed_pre_dispatch"}
  BY <1>2, <1>4
<1>5. RowIsRecord
  BY <1>3, <1>4 DEF RowIsRecord, RecordOf, DispatchStatus
<1> QED BY <1>1, <1>5

LEMMA FileSpeaksNext == Inv' => OneRowInFile' /\ RowIsRecord'
BY FileSpeaks, PTL

LEMMA NoRowIsOpen ==
  ASSUME NEW p \in Person, \A m \in Message : Recipient[m] = p => ~ HasRow(disk, m)
  PROVE  RecordOf(p) = "open"
BY DEF RecordOf, RowsSay, HasRow

\* Whoever was reached has a row in the file that says so or still may.
LEMMA ReachedIsStarted ==
  ASSUME Inv, NEW p \in Person, CopiesOf(p) # {}
  PROVE  \E m \in Message :
           Recipient[m] = p /\ sent[m] # <<>> /\ Started(disk, m) /\ HasRow(disk, m)
<1>1. PICK c \in Message \X (1 .. 2) : Recipient[c[1]] = p /\ c[2] \in DOMAIN sent[c[1]]
  BY DEF CopiesOf
<1>2. c[1] \in Message /\ sent[c[1]] # <<>>
  BY <1>1
<1>3. Started(disk, c[1])
  BY <1>2 DEF Inv, SendInvariant, WriteAhead
<1>4. HasRow(disk, c[1])
  BY <1>3 DEF Started, HasRow
<1> QED BY <1>1, <1>2, <1>3, <1>4

LEMMA InitPromised == Init => Promise!OutreachInit
<1> SUFFICES ASSUME Init PROVE Promise!OutreachInit
  OBVIOUS
<1>1. ASSUME NEW p \in Person PROVE RecordOf(p) = "open" /\ CopiesOf(p) = {}
  <2>1. \A m \in Message : ~ HasRow(disk, m) /\ sent[m] = <<>>
    BY DEF Init, EmptyVault, HasRow
  <2>2. CopiesOf(p) = {}
    BY <2>1 DEF CopiesOf
  <2> QED BY <2>1, <2>2, NoRowIsOpen
<1> QED BY <1>1 DEF Promise!OutreachInit

\* A written snapshot carries the records of several people at once.
LEMMA WrittenPromised ==
  ASSUME Inv, Inv', Advances(disk, disk'), UNCHANGED sent
  PROVE  Promise!ReplaceRecords
<1>1. \A p \in Person : CopiesOf(p)' = CopiesOf(p)
  BY DEF CopiesOf
<1>2. ASSUME NEW p \in Person
      PROVE  /\ RecordOf(p)' \in {"open", "committed", "confirmed", "given_up"}
             /\ RecordOf(p)' \in Promise!Successors[RecordOf(p)]
             /\ RecordOf(p)' = "confirmed" => CopiesOf(p) # {}
  <2>1. RecordOf(p)' \in {"open", "committed", "confirmed", "given_up"}
    BY DEF RecordOf
  <2>a. OneRowInFile /\ RowIsRecord /\ OneRowInFile' /\ RowIsRecord'
    BY FileSpeaks, FileSpeaksNext
  <2>2. CASE \A m \in Message : Recipient[m] = p => ~ HasRow(disk', m)
    <3>1. \A m \in Message : Recipient[m] = p => ~ HasRow(disk, m)
      BY <2>2 DEF Advances, MayBecome, HasRow
    <3>2. RecordOf(p) = "open" /\ RecordOf(p)' = "open"
      BY <2>2, <3>1, NoRowIsOpen DEF RecordOf, RowsSay, HasRow
    <3> QED BY <3>2 DEF Promise!Successors
  <2>3. CASE \E m \in Message : Recipient[m] = p /\ HasRow(disk', m)
    <3>1. PICK m \in Message : Recipient[m] = p /\ HasRow(disk', m)
      BY <2>3
    <3> DEFINE old == disk.ledger[m].status
               new == disk'.ledger[m].status
    <3>2. /\ RecordOf(p)' = "confirmed" <=> new = "sent"
          /\ RecordOf(p)' = "committed" <=> new \in {"dispatching", "ambiguous"}
          /\ RecordOf(p)' = "given_up" <=> new = "failed_pre_dispatch"
          /\ RecordOf(p)' = "open" <=> new = "reserved"
      BY <2>a, <3>1 DEF RowIsRecord, HasRow
    <3>3. MayBecome(old, new)
      BY DEF Advances
    <3>4. new = "sent" => sent[m] # <<>> /\ old \in {"dispatching", "ambiguous", "sent"}
      <4>1. new = "sent" => sent[m] # <<>>
        BY DEF Inv, SendInvariant, TruthfulOutcome
      <4> QED BY <4>1 DEF Inv, SendInvariant, WriteAhead, Started
    <3>5. CASE HasRow(disk, m)
      <4>1. /\ RecordOf(p) = "confirmed" <=> old = "sent"
            /\ RecordOf(p) = "committed" <=> old \in {"dispatching", "ambiguous"}
            /\ RecordOf(p) = "given_up" <=> old = "failed_pre_dispatch"
            /\ RecordOf(p) = "open" <=> old = "reserved"
        BY <2>a, <3>1, <3>5 DEF RowIsRecord
      <4>2. RecordOf(p) \in {"open", "committed", "confirmed", "given_up"}
        BY DEF RecordOf
      <4>3. new = "sent" => CopiesOf(p) # {}
        <5>1. ASSUME new = "sent" PROVE <<m, 1>> \in CopiesOf(p)
          <6>1. sent[m] \in Seq(Text) /\ sent[m] # <<>>
            BY <3>4, <5>1 DEF Inv, Typed, TypeOK
          <6>2. 1 \in DOMAIN sent[m]
            BY <6>1
          <6> QED BY <3>1, <6>2 DEF CopiesOf
        <5> QED BY <5>1
      <4> QED BY <2>1, <3>2, <3>3, <3>4, <4>1, <4>2, <4>3 DEF MayBecome, Promise!Successors
    <3>6. CASE ~ HasRow(disk, m)
      <4>1. \A n \in Message : Recipient[n] = p => ~ HasRow(disk, n)
        <5>1. ASSUME NEW n \in Message, Recipient[n] = p, HasRow(disk, n) PROVE n = m
          <6>1. HasRow(disk', n)
            BY <5>1 DEF Advances, MayBecome, HasRow
          <6> QED BY <2>a, <3>1, <5>1, <6>1 DEF OneRowInFile, HasRow
        <5> QED BY <3>6, <5>1
      <4>2. RecordOf(p) = "open"
        BY <4>1, NoRowIsOpen
      <4>3. new # "sent"
        BY <3>4, <3>6 DEF HasRow
      <4> QED BY <2>1, <3>2, <4>2, <4>3 DEF Promise!Successors
    <3> QED BY <3>5, <3>6
  <2> QED BY <2>2, <2>3
<1> QED BY <1>1, <1>2 DEF Promise!ReplaceRecords

\* The provider accepts a request: the person is reached, once.
LEMMA AcceptancePromised ==
  ASSUME Inv, NEW r \in wire, ProviderAccepts(r)
  PROVE  \E p \in Person : Promise!Reach(p)
<1> DEFINE m == r.op
           p == Recipient[m]
<1>1. m \in Message /\ p \in Person /\ r.text \in Text /\ sent \in [Message -> Seq(Text)]
  BY DEF Inv, Typed, TypeOK
<1>2. sent[m] = <<>> /\ Started(disk, m) /\ HasRow(disk, m)
  BY <1>1 DEF Inv, SendInvariant, OneRequestPerSend, WriteAhead, Started, HasRow
<1>3. /\ disk' = disk /\ sent'[m] = Append(<<>>, r.text)
      /\ \A n \in Message : n # m => sent'[n] = sent[n]
  BY <1>1, <1>2 DEF ProviderAccepts
<1>4. OneRowInFile /\ RowIsRecord
  BY FileSpeaks
<1>5. disk.ledger[m].status # "sent"
  BY <1>1, <1>2 DEF Inv, SendInvariant, TruthfulOutcome
<1>6. RecordOf(p) = "committed"
  BY <1>1, <1>2, <1>4, <1>5 DEF RowIsRecord, Started
<1>7. CopiesOf(p) = {}
  BY <1>1, <1>2, <1>4, ReachedIsStarted DEF OneRowInFile
<1>8. DOMAIN sent'[m] = {1}
  BY <1>1, <1>3
<1> HIDE DEF m, p
<1>9. CopiesOf(p)' = {<<m, 1>>}
  <2>1. <<m, 1>> \in CopiesOf(p)'
    BY <1>1, <1>8 DEF CopiesOf, p
  <2>2. ASSUME NEW c \in CopiesOf(p)' PROVE c = <<m, 1>>
    <3>1. /\ c \in Message \X (1 .. 2) /\ Recipient[c[1]] = p /\ c[2] \in DOMAIN sent'[c[1]]
      BY DEF CopiesOf
    <3>2. CASE c[1] = m
      BY <1>8, <3>1, <3>2
    <3>3. CASE c[1] # m
      <4>1. c[2] \in DOMAIN sent[c[1]]
        BY <1>3, <3>1, <3>3
      <4>2. c \in CopiesOf(p)
        BY <3>1, <4>1 DEF CopiesOf
      <4> QED BY <1>7, <4>2
    <3> QED BY <3>2, <3>3
  <2> QED BY <2>1, <2>2
<1>10. ASSUME NEW q \in Person, q # p PROVE CopiesOf(q)' = CopiesOf(q)
  <2>1. \A n \in Message : Recipient[n] = q => sent'[n] = sent[n]
    BY <1>3, <1>10 DEF p
  <2> QED BY <2>1 DEF CopiesOf
<1>11. \A q \in Person : RecordOf(q)' = RecordOf(q)
  BY <1>3 DEF RecordOf, RowsSay
<1> DEFINE copies == [q \in Person |-> CopiesOf(q)]
           record == [q \in Person |-> RecordOf(q)]
<1>12. record[p] = "committed" /\ copies[p] = {} /\ record' = record
  BY <1>1, <1>6, <1>7, <1>11
<1>13. copies' = [copies EXCEPT ![p] = {<<m, 1>>}] /\ <<m, 1>> \in copies'[p]
  BY <1>1, <1>9, <1>10
<1>14. Promise!Reach(p)
  BY <1>12, <1>13, Zenon DEF Promise!Reach
<1> QED BY <1>1, <1>14

\* Only a snapshot that reaches the file changes the file.
LEMMA OnlyWritesReplace ==
  ASSUME Inv, [Next]_vars
  PROVE  \/ sent' = sent /\ Advances(disk, disk')
         \/ \E r \in wire : ProviderAccepts(r)
         \/ UNCHANGED <<disk, sent>>
<1>1. ASSUME Founder PROVE UNCHANGED <<disk, sent>>
  BY <1>1, FounderIsStep DEF FounderStep, Becomes
<1>2. ASSUME NEW k \in Call,
             SyncMail(k) \/ (\E m \in Message : SendApprovedDraft(k, m)) \/ Proceed(k)
      PROVE  UNCHANGED <<disk, sent>>
  BY <1>2, CommandsAreSteps DEF CommandStep, Becomes
<1>3. ASSUME World, ~ \E r \in wire : ProviderAccepts(r) PROVE UNCHANGED <<disk, sent>>
  BY <1>3 DEF World, WriteFromElsewhere, OptOut, ProviderDrops, Crash, world
<1>4. ASSUME UNCHANGED vars PROVE UNCHANGED <<disk, sent>>
  BY <1>4 DEF vars
<1>5. ASSUME WriteSnapshot \/ WriteFails PROVE sent' = sent /\ Advances(disk, disk')
  <2>1. /\ queue # <<>> /\ queue \in Seq(Snapshot) /\ sent' = sent
        /\ disk' = disk \/ disk' = Head(queue).db
    BY <1>5 DEF WriteSnapshot, WriteFails, world, Inv, Typed, TypeOK
  <2>2. Head(queue) = queue[1] /\ 1 \in DOMAIN queue
    BY <2>1
  <2>3. CASE disk' = disk
    BY <2>1, <2>3, AdvancesReflexive
  <2>4. CASE disk' = Head(queue).db
    BY <2>1, <2>2, <2>4 DEF Inv, SendInvariant, QueueAdvances
  <2> QED BY <2>1, <2>3, <2>4
<1> QED BY <1>1, <1>2, <1>3, <1>4, <1>5 DEF Next

LEMMA NextPromised ==
  Inv /\ Inv' /\ [Next]_vars => [Promise!OutreachNext]_(Promise!outreachVars)
<1> SUFFICES ASSUME Inv, Inv', [Next]_vars
             PROVE  Promise!OutreachNext \/ UNCHANGED Promise!outreachVars
  BY DEF Promise!outreachVars
<1>1. ASSUME UNCHANGED <<disk, sent>> PROVE UNCHANGED Promise!outreachVars
  <2>1. \A p \in Person : RecordOf(p)' = RecordOf(p) /\ CopiesOf(p)' = CopiesOf(p)
    BY <1>1 DEF RecordOf, RowsSay, CopiesOf
  <2> QED BY <2>1 DEF Promise!outreachVars
<1>2. ASSUME Advances(disk, disk'), sent' = sent PROVE Promise!OutreachNext
  BY <1>2, WrittenPromised DEF Promise!OutreachNext
<1>3. ASSUME NEW r \in wire, ProviderAccepts(r) PROVE Promise!OutreachNext
  BY <1>3, AcceptancePromised DEF Promise!OutreachNext
<1> QED BY <1>1, <1>2, <1>3, OnlyWritesReplace

\* Seen from the vault file and the inboxes, person by person, the whole send
\* path is module Outreach: a durable decision, then at most one message, and
\* nobody whose attempt was given up is ever written to.
THEOREM SendPathKeepsPromise == Spec => KeepsPromise
<1>1. Init => Promise!OutreachInit
  BY InitPromised
<1>2. Inv /\ Inv' /\ [Next]_vars => [Promise!OutreachNext]_(Promise!outreachVars)
  BY NextPromised
<1> QED BY <1>1, <1>2, Invariance, PTL DEF Spec, KeepsPromise, Promise!OutreachSpec
=============================================================================
