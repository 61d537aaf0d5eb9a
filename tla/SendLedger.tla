----------------------------- MODULE SendLedger -----------------------------
(***************************************************************************)
(* The life of one outreach e-mail: drafted, approved, reserved in the     *)
(* send ledger, dispatched to the mail provider at most once, and later    *)
(* confirmed from the mailbox.                                             *)
(*                                                                         *)
(* Commands of the desktop main process run on one thread and interleave   *)
(* only where they await, so one action is one stretch of code between two *)
(* awaits.  The vault is an in-memory SQL database; persist() captures its *)
(* whole content and queues it for an atomic file replacement, in order.   *)
(* A crash loses the memory, the queue and every running command, but not  *)
(* the requests already handed to the network.                             *)
(*                                                                         *)
(* A SHA-256 content hash stands for the content itself.  A content is     *)
(* what the code compares it on: its subject and the compliance footer in  *)
(* its body.  One provider with one account is connected or not.           *)
(***************************************************************************)
EXTENDS Naturals, Sequences, FiniteSets

CONSTANTS
  Message,            \* ids of drafts
  Person,             \* canonical people
  Recipient,          \* the person each draft is addressed to
  Subject, Footer,    \* what a content is made of
  Call,               \* concurrent connector commands (send or sync)
  None,               \* no message, no content, no waiting command
  MaxInterventions,   \* bound: unusual acts of the founder and the world
  MaxCrashes,         \* bound: crashes
  MaxQueue            \* bound: snapshots waiting when the founder acts

Text == [subject : Subject, footer : Footer]

ASSUME RecipientIsPerson == Recipient \in [Message -> Person]
ASSUME NoneIsNothing == None \notin Message \cup Text \cup Call
ASSUME BoundsAreNat ==
  MaxInterventions \in Nat /\ MaxCrashes \in Nat /\ MaxQueue \in Nat

VARIABLES
  db,             \* the vault in memory
  disk,           \* the vault file
  queue,          \* snapshots waiting to be written, oldest first
  call,           \* the running connector commands
  wire,           \* send requests the provider has not decided yet
  sent,           \* per operation key, what the provider has delivered
  outside,        \* people the founder wrote to from another mail client
  optOuts,        \* people whose unsubscribe request is in the mailbox
  interventions,  \* counter for MaxInterventions
  crashes         \* counter for MaxCrashes

world == <<wire, sent, outside, optOuts>>
bounds == <<interventions, crashes>>
vars == <<db, disk, queue, call, wire, sent, outside, optOuts, interventions, crashes>>

-----------------------------------------------------------------------------
(* The vault *)

DispatchStatus ==
  {"none", "reserved", "dispatching", "sent", "ambiguous", "failed_pre_dispatch"}

MessageState == {"draft", "approved", "reserved", "sent", "failed_safe"}

LedgerRow == [status : DispatchStatus, text : Text \cup {None}]

Vault ==
  [text       : [Message -> Text \cup {None}],      \* None: not drafted yet
   state      : [Message -> MessageState],
   active     : [Message -> Text \cup {None}],      \* content of the active approval
   approvals  : [Message -> SUBSET Text],           \* contents of all approval rows
   ledger     : [Message -> LedgerRow],
   contacted  : SUBSET Person,                      \* outbound mail events
   suppressed : [Person -> {"no", "founder", "automatic"}],
   paused     : BOOLEAN,
   footer     : Footer,
   connected  : BOOLEAN,
   tokens     : BOOLEAN]

Snapshot == [db : Vault, owner : Call \cup {None}]

HasRow(d, m) == d.ledger[m].status # "none"

\* The ledger's unique indexes and the mail-event triggers look at the person.
CanSendInitial(d, p) ==
  /\ d.suppressed[p] = "no"
  /\ p \notin d.contacted
  /\ \A m \in Message : Recipient[m] = p => ~ HasRow(d, m)

Compliant(d, m) == d.text[m].footer = d.footer

\* The state the founder is shown for a draft.
ApprovalState(d, m) ==
  CASE d.ledger[m].status = "sent"        -> "sent"
    [] d.ledger[m].status = "ambiguous"   -> "ambiguous"
    [] d.ledger[m].status = "dispatching" -> "sending"
    [] OTHER -> IF d.state[m] = "approved" THEN "approved"
                ELSE IF d.state[m] = "failed_safe" THEN "failed" ELSE "draft"

ApprovalBlocked(d, m) == ~ Compliant(d, m) \/ ~ CanSendInitial(d, Recipient[m])

SendBlocked(d, m) == ApprovalBlocked(d, m) \/ d.paused \/ ~ d.connected

HasBlockReason(d, m) ==
  \/ ApprovalState(d, m) = "ambiguous"
  \/ ApprovalState(d, m) \in {"approved", "failed"} /\ SendBlocked(d, m)
  \/ ApprovalState(d, m) = "draft" /\ ApprovalBlocked(d, m)

Undo(state) == IF state = "approved" THEN "draft" ELSE state

\* Mutant of WithText: the content trigger is missing.
KeepingApproval(d, m, t) == [d EXCEPT !.text[m] = t]

\* Trigger: changed content loses its approval.
WithText(d, m, t) ==
  [d EXCEPT !.text[m] = t, !.active[m] = None, !.state[m] = Undo(@)]

\* Triggers on the connector account and on the communication policy.
WithoutApprovals(d) ==
  [d EXCEPT !.active = [m \in Message |-> None],
            !.state = [m \in Message |-> Undo(d.state[m])]]

WithApproval(d, m) ==
  [d EXCEPT !.active[m] = d.text[m],
            !.approvals[m] = @ \cup {d.text[m]},
            !.state[m] = "approved"]

-----------------------------------------------------------------------------
(* Saving: the queue of snapshots *)

\* Mutant of Save: a snapshot does not wait for the ones before it.
SaveUnchained(d, owner) ==
  /\ db' = d
  /\ queue' = <<[db |-> d, owner |-> owner]>> \o queue

Save(d, owner) ==
  /\ db' = d
  /\ queue' = Append(queue, [db |-> d, owner |-> owner])

\* The promise of the snapshot's owner settles.
Settled(owner, outcome) ==
  [k \in Call |-> IF k = owner THEN [call[k] EXCEPT !.io = outcome] ELSE call[k]]

WriteSnapshot ==
  /\ queue # <<>>
  /\ disk' = Head(queue).db
  /\ queue' = Tail(queue)
  /\ call' = Settled(Head(queue).owner, "ok")
  /\ UNCHANGED <<db, world, bounds>>

\* Mutant of WriteFails: the failure is swallowed before its owner sees it.
WriteFailsUnseen ==
  /\ queue # <<>>
  /\ queue' = Tail(queue)
  /\ UNCHANGED <<db, disk, call, world, bounds>>

\* The rename may be done when the directory cannot be synced.
WriteFails ==
  /\ queue # <<>>
  /\ disk' \in {disk, Head(queue).db}
  /\ queue' = Tail(queue)
  /\ call' = Settled(Head(queue).owner, "error")
  /\ UNCHANGED <<db, world, bounds>>

-----------------------------------------------------------------------------
(* Commands of the founder that finish in one stretch *)

FounderSaves(d) ==
  /\ Len(queue) < MaxQueue
  /\ Save(d, None)
  /\ UNCHANGED <<disk, call, world, crashes>>

Unusual ==
  /\ interventions < MaxInterventions
  /\ interventions' = interventions + 1

CreateDraft(m, t) ==
  /\ db.text[m] = None
  /\ CanSendInitial(db, Recipient[m])
  /\ t.footer = db.footer
  /\ FounderSaves([db EXCEPT !.text[m] = t])
  /\ UNCHANGED interventions

ApproveDraft(m) ==
  /\ db.text[m] # None
  /\ ApprovalState(db, m) = "draft"
  /\ ~ ApprovalBlocked(db, m)
  /\ FounderSaves(WithApproval(db, m))
  /\ UNCHANGED interventions

\* No guard on the state: a reserved or dispatched message can be edited too.
\* The triggers fire on every update, also when the content stays the same.
UpdateDraft(m, t) ==
  /\ db.text[m] # None
  /\ Unusual
  /\ FounderSaves(WithText(db, m, t))

AddSuppression(p) ==
  /\ db.suppressed[p] = "no"
  /\ Unusual
  /\ FounderSaves([db EXCEPT !.suppressed[p] = "founder"])

RemoveSuppression(p) ==
  /\ db.suppressed[p] = "founder"
  /\ Unusual
  /\ FounderSaves([db EXCEPT !.suppressed[p] = "no"])

UpdateCommunicationPolicy(paused, footer) ==
  /\ <<paused, footer>> # <<db.paused, db.footer>>
  /\ Unusual
  /\ FounderSaves([WithoutApprovals(db) EXCEPT !.paused = paused, !.footer = footer])

Connect ==
  /\ ~ (db.connected /\ db.tokens)
  /\ Unusual
  /\ FounderSaves([db EXCEPT !.connected = TRUE, !.tokens = TRUE])

\* A new client configuration keeps the tokens of the old one.
Configure ==
  /\ db.connected
  /\ Unusual
  /\ FounderSaves([WithoutApprovals(db) EXCEPT !.connected = FALSE])

Disconnect ==
  /\ db.connected \/ db.tokens
  /\ Unusual
  /\ FounderSaves([WithoutApprovals(db) EXCEPT !.connected = FALSE, !.tokens = FALSE])

-----------------------------------------------------------------------------
(* The outside world *)

WriteFromElsewhere(p) ==
  /\ p \notin outside
  /\ Unusual
  /\ outside' = outside \cup {p}
  /\ UNCHANGED <<db, disk, queue, call, wire, sent, optOuts, crashes>>

OptOut(p) ==
  /\ p \notin optOuts
  /\ Unusual
  /\ optOuts' = optOuts \cup {p}
  /\ UNCHANGED <<db, disk, queue, call, wire, sent, outside, crashes>>

ProviderAccepts(r) ==
  /\ wire' = wire \ {r}
  /\ sent' = [sent EXCEPT ![r.op] = Append(@, r.text)]
  /\ UNCHANGED <<db, disk, queue, call, outside, optOuts, bounds>>

ProviderDrops(r) ==
  /\ wire' = wire \ {r}
  /\ UNCHANGED <<db, disk, queue, call, sent, outside, optOuts, bounds>>

Idle == [pc |-> "idle", msg |-> None, text |-> None, io |-> "none"]

Crash ==
  /\ crashes < MaxCrashes
  /\ crashes' = crashes + 1
  /\ db' = disk
  /\ queue' = <<>>
  /\ call' = [k \in Call |-> Idle]
  /\ UNCHANGED <<disk, world, interventions>>

-----------------------------------------------------------------------------
(* Mailbox reconciliation, on its own or as the first part of a send *)

Goto(k, pc) == call' = [call EXCEPT ![k].pc = pc, ![k].io = "none"]
Await(k, pc) == call' = [call EXCEPT ![k].pc = pc, ![k].io = "pending"]
End(k) == call' = [call EXCEPT ![k] = Idle]

At(k, pc) == call[k].pc = pc
Saved(k) == call[k].io = "ok"
NotSaved(k) == call[k].io = "error"

\* Mutant of Confirmed: the operation key of the observation is not compared.
ConfirmedByAddress(d, m) ==
  /\ d.ledger[m].status \in {"dispatching", "ambiguous"}
  /\ sent[m] # <<>> \/ Recipient[m] \in outside

Confirmed(d, m) ==
  /\ d.ledger[m].status \in {"dispatching", "ambiguous"}
  /\ \E i \in DOMAIN sent[m] : sent[m][i].subject = d.text[m].subject

\* What importing every mailbox message visible now makes of the vault.
Imported(d) ==
  [d EXCEPT
    !.ledger = [m \in Message |->
      IF Confirmed(d, m) THEN [d.ledger[m] EXCEPT !.status = "sent"] ELSE d.ledger[m]],
    !.state = [m \in Message |-> IF Confirmed(d, m) THEN "sent" ELSE d.state[m]],
    !.contacted = @ \cup outside \cup {Recipient[m] : m \in {x \in Message : sent[x] # <<>>}},
    !.suppressed = [p \in Person |->
      IF p \in optOuts THEN "automatic" ELSE d.suppressed[p]]]

SyncMail(k) ==
  /\ At(k, "idle")
  /\ db.connected
  /\ Goto(k, "listing")
  /\ UNCHANGED <<db, disk, queue, world, bounds>>

\* Mutant of SendApprovedDraft: left to the reservation to check the approval.
SendAnyDraft(k, m) ==
  /\ At(k, "idle")
  /\ db.text[m] # None
  /\ db.connected
  /\ call' = [call EXCEPT ![k] =
       [pc |-> "listing", msg |-> m, text |-> db.text[m], io |-> "none"]]
  /\ UNCHANGED <<db, disk, queue, world, bounds>>

\* The row is read here; the content that goes out is this reading.
SendApprovedDraft(k, m) ==
  /\ At(k, "idle")
  /\ db.text[m] # None
  /\ ApprovalState(db, m) = "approved"
  /\ db.active[m] # None
  /\ db.connected
  /\ call' = [call EXCEPT ![k] =
       [pc |-> "listing", msg |-> m, text |-> db.text[m], io |-> "none"]]
  /\ UNCHANGED <<db, disk, queue, world, bounds>>

ListMail(k) ==
  /\ At(k, "listing")
  /\ db.connected /\ db.tokens
  /\ Save(Imported(db), k)
  /\ Await(k, "importing")
  /\ UNCHANGED <<disk, world, bounds>>

\* The connector row read when the reconciliation began is written back.
StoreSync(k) ==
  /\ At(k, "importing") /\ Saved(k)
  /\ Save([db EXCEPT !.connected = TRUE], k)
  /\ Await(k, "syncing")
  /\ UNCHANGED <<disk, world, bounds>>

FinishSync(k) ==
  /\ At(k, "syncing") /\ Saved(k)
  /\ call[k].msg = None
  /\ End(k)
  /\ UNCHANGED <<db, disk, queue, world, bounds>>

-----------------------------------------------------------------------------
(* The rest of a send *)

Recheck(k) ==
  /\ At(k, "syncing") /\ Saved(k)
  /\ call[k].msg # None
  /\ db.text[call[k].msg] = call[k].text
  /\ ~ HasBlockReason(db, call[k].msg)
  /\ Goto(k, "authorizing")
  /\ UNCHANGED <<db, disk, queue, world, bounds>>

\* The access token, refreshed if it must be, and the account it belongs to.
Authorize(k) ==
  /\ At(k, "authorizing")
  /\ db.connected /\ db.tokens
  /\ Goto(k, "authorized")
  /\ UNCHANGED <<db, disk, queue, world, bounds>>

\* An error before the reservation ends the command: a network failure, a
\* refused check, a rate limit, a snapshot that could not be written.
Refuse(k) ==
  /\ call[k].pc \in {"listing", "importing", "syncing", "authorizing", "authorized"}
  /\ call[k].io # "pending"
  /\ End(k)
  /\ UNCHANGED <<db, disk, queue, world, bounds>>

\* Mutant of CanReserve: the history of the person is not looked at.
CanReserveAgain(d, m) ==
  /\ d.active[m] # None
  /\ d.active[m] = d.text[m]
  /\ Compliant(d, m)
  /\ ~ d.paused
  /\ d.connected

CanReserve(d, m) ==
  /\ d.active[m] # None
  /\ d.active[m] = d.text[m]
  /\ Compliant(d, m)
  /\ CanSendInitial(d, Recipient[m])
  /\ ~ d.paused
  /\ d.connected

\* The content the row records is the current one, not the one read above.
WithReservation(d, m) ==
  [d EXCEPT !.ledger[m] = [status |-> "reserved", text |-> d.active[m]],
            !.active[m] = None,
            !.state[m] = "reserved"]

ReserveApprovedSend(k) ==
  /\ At(k, "authorized")
  /\ CanReserve(db, call[k].msg)
  /\ Save(WithReservation(db, call[k].msg), k)
  /\ Await(k, "reserving")
  /\ UNCHANGED <<disk, world, bounds>>

WithStatus(d, m, status) == [d EXCEPT !.ledger[m].status = status]

\* Mutants of FailedBeforeDispatch: the row is left as it is, or deleted.
LeftReserved(d, m) == [d EXCEPT !.state[m] = "failed_safe"]

ReservationDeleted(d, m) == [WithStatus(d, m, "none") EXCEPT !.state[m] = "failed_safe"]

FailedBeforeDispatch(d, m) ==
  [WithStatus(d, m, "failed_pre_dispatch") EXCEPT !.state[m] = "failed_safe"]

\* The failure is noted in memory only: this path does not save.
ReservationNotSaved(k) ==
  /\ At(k, "reserving") /\ NotSaved(k)
  /\ db' = FailedBeforeDispatch(db, call[k].msg)
  /\ End(k)
  /\ UNCHANGED <<disk, queue, world, bounds>>

\* The send guard throws before it claims the reservation.
GuardRefuses(k) ==
  /\ At(k, "reserving") /\ Saved(k)
  /\ Save(FailedBeforeDispatch(db, call[k].msg), k)
  /\ Await(k, "closing")
  /\ UNCHANGED <<disk, world, bounds>>

Claim(k) ==
  /\ At(k, "reserving") /\ Saved(k)
  /\ db.ledger[call[k].msg].status = "reserved"
  /\ Save(WithStatus(db, call[k].msg, "dispatching"), k)
  /\ Await(k, "claiming")
  /\ UNCHANGED <<disk, world, bounds>>

ClaimNotSaved(k) ==
  /\ At(k, "claiming") /\ NotSaved(k)
  /\ db.ledger[call[k].msg].status = "dispatching"
  /\ Save(WithStatus(db, call[k].msg, "ambiguous"), k)
  /\ Await(k, "closing")
  /\ UNCHANGED <<disk, world, bounds>>

\* Mutant of Dispatch: the claim is not saved before the request goes out.
DispatchUnsaved(k) ==
  /\ At(k, "claiming")
  /\ wire' = wire \cup {[op |-> call[k].msg, text |-> call[k].text]}
  /\ Goto(k, "calling")
  /\ UNCHANGED <<db, disk, queue, sent, outside, optOuts, bounds>>

Dispatch(k) ==
  /\ At(k, "claiming") /\ Saved(k)
  /\ wire' = wire \cup {[op |-> call[k].msg, text |-> call[k].text]}
  /\ Goto(k, "calling")
  /\ UNCHANGED <<db, disk, queue, sent, outside, optOuts, bounds>>

\* Mutants of Recorded: the status of the receipt is stored as it is; an
\* outcome that is not known counts as a failure.
RecordedAsReceived(d, m, confirmed) ==
  IF d.ledger[m].status \in {"sent", "ambiguous"} THEN d
  ELSE WithStatus(d, m, IF confirmed THEN "sent" ELSE "rejected")

RecordedAsFailure(d, m, confirmed) ==
  IF confirmed THEN [WithStatus(d, m, "sent") EXCEPT !.state[m] = "sent"]
  ELSE WithStatus(d, m, "failed_pre_dispatch")

\* A concurrent reconciliation may have confirmed the send already.
Recorded(d, m, confirmed) ==
  IF d.ledger[m].status \in {"sent", "ambiguous"} THEN d
  ELSE IF confirmed THEN [WithStatus(d, m, "sent") EXCEPT !.state[m] = "sent"]
  ELSE WithStatus(d, m, "ambiguous")

ProviderConfirms(k) ==
  /\ At(k, "calling")
  /\ sent[call[k].msg] # <<>>
  /\ Save(Recorded(db, call[k].msg, TRUE), k)
  /\ Await(k, "closing")
  /\ UNCHANGED <<disk, world, bounds>>

\* An error, a lost response, or an acceptance without a message id.
OutcomeUnknown(k) ==
  /\ At(k, "calling")
  /\ Save(Recorded(db, call[k].msg, FALSE), k)
  /\ Await(k, "closing")
  /\ UNCHANGED <<disk, world, bounds>>

Close(k) ==
  /\ At(k, "closing") /\ call[k].io # "pending"
  /\ End(k)
  /\ UNCHANGED <<db, disk, queue, world, bounds>>

-----------------------------------------------------------------------------

EmptyVault(footer) ==
  [text       |-> [m \in Message |-> None],
   state      |-> [m \in Message |-> "draft"],
   active     |-> [m \in Message |-> None],
   approvals  |-> [m \in Message |-> {}],
   ledger     |-> [m \in Message |-> [status |-> "none", text |-> None]],
   contacted  |-> {},
   suppressed |-> [p \in Person |-> "no"],
   paused     |-> FALSE,
   footer     |-> footer,
   connected  |-> TRUE,
   tokens     |-> TRUE]

Init ==
  /\ \E footer \in Footer : db = EmptyVault(footer)
  /\ disk = db
  /\ queue = <<>>
  /\ call = [k \in Call |-> Idle]
  /\ wire = {}
  /\ sent = [m \in Message |-> <<>>]
  /\ outside = {} /\ optOuts = {}
  /\ interventions = 0 /\ crashes = 0

Founder ==
  \/ \E m \in Message, t \in Text : CreateDraft(m, t)
  \/ \E m \in Message, t \in Text : UpdateDraft(m, t)
  \/ \E m \in Message : ApproveDraft(m)
  \/ \E p \in Person : AddSuppression(p)
  \/ \E p \in Person : RemoveSuppression(p)
  \/ \E paused \in BOOLEAN, footer \in Footer : UpdateCommunicationPolicy(paused, footer)
  \/ Connect
  \/ Configure
  \/ Disconnect

World ==
  \/ \E p \in Person : WriteFromElsewhere(p)
  \/ \E p \in Person : OptOut(p)
  \/ \E r \in wire : ProviderAccepts(r)
  \/ \E r \in wire : ProviderDrops(r)
  \/ Crash

\* What a running command does without being asked again.
Proceed(k) ==
  \/ ListMail(k) \/ StoreSync(k) \/ FinishSync(k)
  \/ Recheck(k) \/ Authorize(k) \/ Refuse(k)
  \/ ReserveApprovedSend(k) \/ ReservationNotSaved(k) \/ GuardRefuses(k)
  \/ Claim(k) \/ ClaimNotSaved(k) \/ Dispatch(k)
  \/ ProviderConfirms(k) \/ OutcomeUnknown(k) \/ Close(k)

Next ==
  \/ WriteSnapshot
  \/ WriteFails
  \/ Founder
  \/ World
  \/ \E k \in Call : SyncMail(k)
  \/ \E k \in Call, m \in Message : SendApprovedDraft(k, m)
  \/ \E k \in Call : Proceed(k)

Spec == Init /\ [][Next]_vars

\* The event loop runs every callback that is due and the file system and the
\* network answer every request, with a result or an error.  The founder, the
\* world and a crash are under no obligation.
Fairness ==
  /\ WF_vars(WriteSnapshot \/ WriteFails)
  /\ \A k \in Call : WF_vars(Proceed(k))

FairSpec == Spec /\ Fairness
-----------------------------------------------------------------------------
(* Properties *)

Label ==
  {"idle", "listing", "importing", "syncing", "authorizing", "authorized",
   "reserving", "claiming", "calling", "closing"}

CallRecord ==
  [pc : Label,
   msg : Message \cup {None},
   text : Text \cup {None},
   io : {"none", "pending", "ok", "error"}]

\* Every variable has its type; in particular the ledger holds no status
\* outside the CHECK list of its table.
TypeOK ==
  /\ db \in Vault
  /\ disk \in Vault
  /\ queue \in Seq(Snapshot)
  /\ call \in [Call -> CallRecord]
  /\ wire \in SUBSET [op : Message, text : Text]
  /\ sent \in [Message -> Seq(Text)]
  /\ outside \in SUBSET Person
  /\ optOuts \in SUBSET Person
  /\ interventions \in Nat
  /\ crashes \in Nat

\* The command is between its reservation and the provider's answer.
Sending(k) == call[k].pc \in {"reserving", "claiming", "calling"}

\* A send the vault says was started: it may have reached the provider.
Started(d, m) == d.ledger[m].status \in {"dispatching", "ambiguous", "sent"}

\* Nobody is ever sent two messages, whatever drafts, commands, retries and
\* restarts there are: the lifetime limit of one initial message.
AtMostOncePerPerson ==
  \A m, n \in Message : \A i \in DOMAIN sent[m], j \in DOMAIN sent[n] :
    Recipient[m] = Recipient[n] => m = n /\ i = j

\* Before a request can reach the provider the vault FILE says so: a crash at
\* any moment leaves a ledger row that blocks a second attempt.
WriteAhead ==
  /\ \A r \in wire : Started(disk, r.op)
  /\ \A m \in Message : sent[m] # <<>> => Started(disk, m)

\* Neither the vault nor its file claims a delivery that did not happen, nor
\* calls "failed before dispatch" a message that went out or still may.
TruthfulOutcome ==
  \A m \in Message : \A d \in {db, disk} :
    /\ d.ledger[m].status = "sent" => sent[m] # <<>>
    /\ d.ledger[m].status = "failed_pre_dispatch" =>
         sent[m] = <<>> /\ \A r \in wire : r.op # m

\* What is delivered has been approved by the founder, and the vault file
\* still holds that approval row, also after a crash.
DeliveredWasApproved ==
  \A m \in Message : \A i \in DOMAIN sent[m] : sent[m][i] \in disk.approvals[m]

\* The triggers keep the approval rows and the state of their draft together:
\* an active approval is for the current content.
ApprovalIsCurrent ==
  \A m \in Message :
    /\ (db.state[m] = "approved") <=> (db.active[m] # None)
    /\ db.active[m] # None => db.active[m] = db.text[m]

\* A reservation or a dispatch in progress belongs to a running command, so
\* it will be settled; only a crash leaves one behind.
OpenRowHasOwner ==
  \A m \in Message :
    db.ledger[m].status \in {"reserved", "dispatching"} =>
      \/ crashes > 0
      \/ \E k \in Call :
           call[k].msg = m /\ Sending(k)

\* The order of the statuses: what a row may be later, given what it is.
MayBecome(old, new) ==
  \/ old = new
  \/ old = "none"
  \/ old = "reserved" /\ new # "none"
  \/ old = "dispatching" /\ new \in {"ambiguous", "sent"}
  \/ old = "ambiguous" /\ new = "sent"

Advances(d, e) ==
  \A m \in Message : MayBecome(d.ledger[m].status, e.ledger[m].status)

\* The ledger of the vault file never loses a row and never goes back, over
\* failed writes and crashes: snapshots reach the file in the order taken.
DurableLedgerAdvances == [][Advances(disk, disk')]_disk

\* A row that left the reservation is never claimed again, in memory either,
\* as long as the process lives.
LedgerAdvances == [][crashes' = crashes => Advances(db, db')]_<<db, crashes>>

\* The content delivered is the content recorded with its reservation.
DeliveredMatchesReservation ==
  \A m \in Message : \A i \in DOMAIN sent[m] : sent[m][i] = disk.ledger[m].text

\* Every command the founder starts comes to an end.
CommandsEnd == \A k \in Call : call[k].pc # "idle" ~> call[k].pc = "idle"

\* What the vault file says about a person, seen from the abstract promise.
RowsSay(p, statuses) ==
  \E m \in Message : Recipient[m] = p /\ disk.ledger[m].status \in statuses

RecordOf(p) ==
  IF RowsSay(p, {"sent"}) THEN "confirmed"
  ELSE IF RowsSay(p, {"dispatching", "ambiguous"}) THEN "committed"
  ELSE IF RowsSay(p, {"failed_pre_dispatch"}) THEN "given_up"
  ELSE "open"

CopiesOf(p) ==
  {c \in Message \X (1 .. 2) : Recipient[c[1]] = p /\ c[2] \in DOMAIN sent[c[1]]}

Promise == INSTANCE Outreach WITH
  record <- [p \in Person |-> RecordOf(p)],
  copies <- [p \in Person |-> CopiesOf(p)]

\* The send path implements the abstract promise of module Outreach.
KeepsPromise == Promise!OutreachSpec
-----------------------------------------------------------------------------
(* The invariant behind the safety properties *)

\* A command past its recheck works on a draft it has read.
SendsHaveDraft ==
  \A k \in Call :
    /\ call[k].pc \notin {"idle", "listing", "importing", "syncing"} => call[k].msg \in Message
    /\ call[k].msg # None => call[k].text \in Text

\* From the file over the queue to the memory, the ledger only moves forward.
QueueAdvances ==
  /\ Advances(disk, db)
  /\ \A i \in DOMAIN queue : Advances(disk, queue[i].db) /\ Advances(queue[i].db, db)
  /\ \A i, j \in DOMAIN queue : i <= j => Advances(queue[i].db, queue[j].db)

\* The unique index on the recipient.
OneRowPerPerson ==
  \A m, n \in Message :
    HasRow(db, m) /\ HasRow(db, n) /\ Recipient[m] = Recipient[n] => m = n

\* Only a command that waits has a snapshot in the queue, and only one; the
\* snapshot behind a claim shows the claim.
SnapshotsHaveOwner ==
  /\ \A k \in Call :
       call[k].pc \in {"idle", "listing", "authorizing", "authorized", "calling"} =>
         call[k].io = "none"
  /\ \A i \in DOMAIN queue, k \in Call :
       queue[i].owner = k =>
         /\ call[k].io = "pending"
         /\ call[k].pc = "claiming" => Started(queue[i].db, call[k].msg)
  /\ \A i, j \in DOMAIN queue :
       queue[i].owner = queue[j].owner /\ queue[i].owner \in Call => i = j

Unsent(m) == sent[m] = <<>> /\ \A r \in wire : r.op # m

\* A send owns its row from the reservation to the provider's answer.
SendsOwnRows ==
  /\ \A k \in Call :
       /\ call[k].pc = "reserving" => db.ledger[call[k].msg].status = "reserved"
       /\ call[k].pc \in {"claiming", "calling"} => Started(db, call[k].msg)
       /\ call[k].pc \in {"reserving", "claiming"} => Unsent(call[k].msg)
       /\ call[k].pc = "claiming" /\ call[k].io = "ok" => Started(disk, call[k].msg)
  /\ \A k, l \in Call :
       Sending(k) /\ Sending(l) /\ call[k].msg = call[l].msg => k = l

\* A request is the only one of its operation and comes before its delivery.
OneRequestPerSend ==
  /\ \A r \in wire : sent[r.op] = <<>>
  /\ \A r, s \in wire : r.op = s.op => r = s
  /\ \A m \in Message : Len(sent[m]) <= 1

\* The inductive invariant: together with TypeOK it implies AtMostOncePerPerson.
SendInvariant ==
  /\ SendsHaveDraft
  /\ QueueAdvances
  /\ OneRowPerPerson
  /\ SnapshotsHaveOwner
  /\ SendsOwnRows
  /\ OneRequestPerSend
  /\ WriteAhead
  /\ TruthfulOutcome
=============================================================================
