-------------------------- MODULE SendLedgerProofs --------------------------
(***************************************************************************)
(* What module SendLedger promises, proved for every set of drafts,        *)
(* people, contents and commands.  First lemmas on the operators that make *)
(* a new vault out of an old one, then type correctness, then the          *)
(* inductive invariant and what follows from it.                           *)
(***************************************************************************)
EXTENDS SendLedger, TLAPS

USE RecipientIsPerson, NoneIsNothing, BoundsAreNat

-----------------------------------------------------------------------------
(* The vault operators: each returns a vault, and what it does to the ledger *)

LEMMA WithTextIsVault ==
  ASSUME NEW d \in Vault, NEW m \in Message, NEW t \in Text
  PROVE  WithText(d, m, t) \in Vault /\ WithText(d, m, t).ledger = d.ledger
BY DEF WithText, Vault, Undo, MessageState

LEMMA WithoutApprovalsIsVault ==
  ASSUME NEW d \in Vault
  PROVE  WithoutApprovals(d) \in Vault /\ WithoutApprovals(d).ledger = d.ledger
BY DEF WithoutApprovals, Vault, Undo, MessageState

LEMMA WithApprovalIsVault ==
  ASSUME NEW d \in Vault, NEW m \in Message, d.text[m] # None
  PROVE  WithApproval(d, m) \in Vault /\ WithApproval(d, m).ledger = d.ledger
<1> DEFINE active == [d.active EXCEPT ![m] = d.text[m]]
           approvals == [d.approvals EXCEPT ![m] = @ \cup {d.text[m]}]
           state == [d.state EXCEPT ![m] = "approved"]
<1>1. d.text[m] \in Text
  BY DEF Vault
<1>2. active \in [Message -> Text \cup {None}]
  BY <1>1 DEF Vault
<1>3. approvals \in [Message -> SUBSET Text]
  BY <1>1 DEF Vault
<1>4. state \in [Message -> MessageState]
  BY DEF Vault, MessageState
<1>5. WithApproval(d, m) = [d EXCEPT !.active = active, !.approvals = approvals, !.state = state]
  BY DEF WithApproval
<1> HIDE DEF active, approvals, state
<1> QED BY <1>2, <1>3, <1>4, <1>5 DEF Vault

LEMMA ImportedIsVault ==
  ASSUME NEW d \in Vault, outside \in SUBSET Person
  PROVE  Imported(d) \in Vault
<1> DEFINE ledger == [m \in Message |->
             IF Confirmed(d, m) THEN [d.ledger[m] EXCEPT !.status = "sent"] ELSE d.ledger[m]]
           state == [m \in Message |-> IF Confirmed(d, m) THEN "sent" ELSE d.state[m]]
           reached == {Recipient[m] : m \in {x \in Message : sent[x] # <<>>}}
           suppressed == [p \in Person |-> IF p \in optOuts THEN "automatic" ELSE d.suppressed[p]]
<1>1. ledger \in [Message -> LedgerRow]
  <2> SUFFICES ASSUME NEW m \in Message
               PROVE  ledger[m] \in LedgerRow
    BY Zenon
  <2>1. d.ledger[m] \in LedgerRow
    BY DEF Vault
  <2>2. [d.ledger[m] EXCEPT !.status = "sent"] \in LedgerRow
    BY <2>1 DEF LedgerRow, DispatchStatus
  <2> QED BY <2>1, <2>2
<1>2. state \in [Message -> MessageState]
  BY DEF Vault, MessageState
<1>3. d.contacted \cup outside \cup reached \in SUBSET Person
  BY DEF Vault
<1>4. suppressed \in [Person -> {"no", "founder", "automatic"}]
  BY DEF Vault
<1>5. Imported(d) = [d EXCEPT !.ledger = ledger, !.state = state,
                              !.contacted = d.contacted \cup outside \cup reached,
                              !.suppressed = suppressed]
  BY Zenon DEF Imported
<1> HIDE DEF ledger, state, reached, suppressed
<1> QED BY <1>1, <1>2, <1>3, <1>4, <1>5 DEF Vault

LEMMA WithStatusIsVault ==
  ASSUME NEW d \in Vault, NEW m \in Message, NEW s \in DispatchStatus
  PROVE  /\ WithStatus(d, m, s) \in Vault
         /\ WithStatus(d, m, s).ledger = [d.ledger EXCEPT ![m].status = s]
<1> DEFINE row == [d.ledger[m] EXCEPT !.status = s]
           ledger == [d.ledger EXCEPT ![m] = row]
<1>1. d.ledger \in [Message -> LedgerRow]
  BY DEF Vault
<1>2. row \in LedgerRow
  BY <1>1 DEF LedgerRow
<1>3. ledger \in [Message -> LedgerRow]
  BY <1>1, <1>2
<1>4. WithStatus(d, m, s) = [d EXCEPT !.ledger = ledger]
  BY DEF WithStatus
<1> HIDE DEF ledger
<1>5. [d EXCEPT !.ledger = ledger] \in Vault /\ [d EXCEPT !.ledger = ledger].ledger = ledger
  BY <1>3 DEF Vault
<1> QED BY <1>4, <1>5 DEF ledger

LEMMA WithReservationIsVault ==
  ASSUME NEW d \in Vault, NEW m \in Message
  PROVE  /\ WithReservation(d, m) \in Vault
         /\ WithReservation(d, m).ledger =
              [d.ledger EXCEPT ![m] = [status |-> "reserved", text |-> d.active[m]]]
<1> DEFINE ledger == [d.ledger EXCEPT ![m] = [status |-> "reserved", text |-> d.active[m]]]
           active == [d.active EXCEPT ![m] = None]
           state == [d.state EXCEPT ![m] = "reserved"]
<1>1. ledger \in [Message -> LedgerRow]
  BY DEF Vault, LedgerRow, DispatchStatus
<1>2. active \in [Message -> Text \cup {None}] /\ state \in [Message -> MessageState]
  BY DEF Vault, MessageState
<1>3. WithReservation(d, m) = [d EXCEPT !.ledger = ledger, !.active = active, !.state = state]
  BY DEF WithReservation
<1> HIDE DEF ledger, active, state
<1>4. /\ [d EXCEPT !.ledger = ledger, !.active = active, !.state = state] \in Vault
      /\ [d EXCEPT !.ledger = ledger, !.active = active, !.state = state].ledger = ledger
  BY <1>1, <1>2 DEF Vault
<1> QED BY <1>3, <1>4 DEF ledger

LEMMA StateChangeIsVault ==
  ASSUME NEW d \in Vault, NEW m \in Message, NEW s \in MessageState
  PROVE  [d EXCEPT !.state[m] = s] \in Vault /\ [d EXCEPT !.state[m] = s].ledger = d.ledger
BY DEF Vault

LEMMA FailedBeforeDispatchIsVault ==
  ASSUME NEW d \in Vault, NEW m \in Message
  PROVE  /\ FailedBeforeDispatch(d, m) \in Vault
         /\ FailedBeforeDispatch(d, m).ledger =
              [d.ledger EXCEPT ![m].status = "failed_pre_dispatch"]
<1>1. "failed_pre_dispatch" \in DispatchStatus /\ "failed_safe" \in MessageState
  BY DEF DispatchStatus, MessageState
<1> QED BY <1>1, WithStatusIsVault, StateChangeIsVault DEF FailedBeforeDispatch

LEMMA RecordedIsVault ==
  ASSUME NEW d \in Vault, NEW m \in Message, NEW c \in BOOLEAN
  PROVE  Recorded(d, m, c) \in Vault
<1>1. {"sent", "ambiguous"} \subseteq DispatchStatus /\ "sent" \in MessageState
  BY DEF DispatchStatus, MessageState
<1> QED BY <1>1, WithStatusIsVault, StateChangeIsVault DEF Recorded

-----------------------------------------------------------------------------
(* Saving, and moving a command on *)

LEMMA SaveTypes ==
  ASSUME TypeOK, NEW d \in Vault, NEW owner \in Call \cup {None}, Save(d, owner)
  PROVE  db' \in Vault /\ queue' \in Seq(Snapshot)
<1>1. [db |-> d, owner |-> owner] \in Snapshot
  BY DEF Snapshot
<1> QED BY <1>1 DEF Save, TypeOK

\* What a step of command k makes of the commands: the new record of k.
Moves(k, new) ==
  /\ call' \in [Call -> CallRecord]
  /\ call'[k] = new
  /\ \A l \in Call : l # k => call'[l] = call[l]

LEMMA LabelAndAnswer ==
  ASSUME NEW r \in CallRecord, NEW pc \in Label, NEW io \in {"none", "pending"}
  PROVE  [r EXCEPT !.pc = pc, !.io = io] = [pc |-> pc, msg |-> r.msg, text |-> r.text, io |-> io]
<1> DEFINE labelled == [r EXCEPT !.pc = pc]
<1>1. labelled = [pc |-> pc, msg |-> r.msg, text |-> r.text, io |-> r.io]
  BY DEF CallRecord
<1> HIDE DEF labelled
<1>2. [labelled EXCEPT !.io = io] = [pc |-> pc, msg |-> r.msg, text |-> r.text, io |-> io]
  BY <1>1
<1> QED BY <1>2 DEF labelled

LEMMA GotoMoves ==
  ASSUME TypeOK, NEW k \in Call, NEW pc \in Label, Goto(k, pc)
  PROVE  Moves(k, [pc |-> pc, msg |-> call[k].msg, text |-> call[k].text, io |-> "none"])
<1>1. call[k] \in CallRecord
  BY DEF TypeOK
<1> DEFINE new == [pc |-> pc, msg |-> call[k].msg, text |-> call[k].text, io |-> "none"]
<1>2. new \in CallRecord
  BY <1>1 DEF CallRecord
<1>3. [call[k] EXCEPT !.pc = pc, !.io = "none"] = new
  BY <1>1, LabelAndAnswer
<1>4. call' = [call EXCEPT ![k] = new]
  BY <1>3 DEF Goto, TypeOK
<1> QED BY <1>2, <1>4 DEF Moves, TypeOK

LEMMA AwaitMoves ==
  ASSUME TypeOK, NEW k \in Call, NEW pc \in Label, Await(k, pc)
  PROVE  Moves(k, [pc |-> pc, msg |-> call[k].msg, text |-> call[k].text, io |-> "pending"])
<1>1. call[k] \in CallRecord
  BY DEF TypeOK
<1> DEFINE new == [pc |-> pc, msg |-> call[k].msg, text |-> call[k].text, io |-> "pending"]
<1>2. new \in CallRecord
  BY <1>1 DEF CallRecord
<1>3. [call[k] EXCEPT !.pc = pc, !.io = "pending"] = new
  BY <1>1, LabelAndAnswer
<1>4. call' = [call EXCEPT ![k] = new]
  BY <1>3 DEF Await, TypeOK
<1> QED BY <1>2, <1>4 DEF Moves, TypeOK

LEMMA EndMoves ==
  ASSUME TypeOK, NEW k \in Call, End(k)
  PROVE  Moves(k, Idle)
BY DEF TypeOK, End, Moves, Idle, CallRecord, Label

LEMMA SendMoves ==
  ASSUME TypeOK, NEW k \in Call, NEW m \in Message, SendApprovedDraft(k, m)
  PROVE  Moves(k, [pc |-> "listing", msg |-> m, text |-> db.text[m], io |-> "none"])
<1>1. db.text[m] \in Text \cup {None}
  BY DEF TypeOK, Vault
<1> QED BY <1>1 DEF TypeOK, SendApprovedDraft, Moves, CallRecord, Label

\* Settling the owner of a snapshot touches its answer only.
LEMMA SettledAnswers ==
  ASSUME TypeOK, NEW owner \in Call \cup {None}, NEW outcome \in {"ok", "error"},
         call' = Settled(owner, outcome)
  PROVE  /\ call' \in [Call -> CallRecord]
         /\ \A k \in Call :
              /\ call'[k].pc = call[k].pc /\ call'[k].msg = call[k].msg
              /\ call'[k].text = call[k].text
              /\ call'[k].io = IF k = owner THEN outcome ELSE call[k].io
<1>1. call' = [k \in Call |-> IF k = owner THEN [call[k] EXCEPT !.io = outcome] ELSE call[k]]
  BY DEF Settled
<1>2. ASSUME NEW k \in Call
      PROVE  /\ call'[k] \in CallRecord
             /\ call'[k].pc = call[k].pc /\ call'[k].msg = call[k].msg
             /\ call'[k].text = call[k].text
             /\ call'[k].io = IF k = owner THEN outcome ELSE call[k].io
  <2>1. call[k] \in CallRecord
    BY DEF TypeOK
  <2>2. CASE k = owner
    <3>1. call'[k] = [call[k] EXCEPT !.io = outcome]
      BY <1>1, <2>2
    <3> QED BY <2>1, <2>2, <3>1 DEF CallRecord
  <2>3. CASE k # owner
    <3>1. call'[k] = call[k]
      BY <1>1, <2>3
    <3> QED BY <2>1, <2>3, <3>1
  <2> QED BY <2>2, <2>3
<1> QED BY <1>1, <1>2

-----------------------------------------------------------------------------
(* Type correctness *)

Typed == TypeOK /\ SendsHaveDraft

LEMMA InitTyped == Init => Typed
<1> SUFFICES ASSUME Init PROVE Typed
  OBVIOUS
<1>1. db \in Vault
  BY DEF Init, EmptyVault, Vault, MessageState, LedgerRow, DispatchStatus
<1>2. queue \in Seq(Snapshot)
  BY DEF Init
<1>3. call \in [Call -> CallRecord] /\ SendsHaveDraft
  BY DEF Init, Idle, CallRecord, Label, SendsHaveDraft
<1>4. sent \in [Message -> Seq(Text)]
  BY DEF Init
<1> QED BY <1>1, <1>2, <1>3, <1>4 DEF Init, TypeOK, Typed

LEMMA FounderSavesTyped ==
  ASSUME Typed, NEW d \in Vault, FounderSaves(d), interventions' \in Nat
  PROVE  Typed'
<1>1. db' \in Vault /\ queue' \in Seq(Snapshot)
  BY SaveTypes DEF FounderSaves, Typed
<1> QED BY <1>1 DEF FounderSaves, Typed, TypeOK, SendsHaveDraft, world

\* The record a command of an ongoing send may have.
Sound(r) ==
  /\ r.pc \notin {"idle", "listing", "importing", "syncing"} => r.msg \in Message
  /\ r.msg # None => r.text \in Text

LEMMA MovesTyped ==
  ASSUME Typed, NEW k \in Call, NEW new, Moves(k, new), Sound(new),
         db' \in Vault, disk' = disk, queue' \in Seq(Snapshot),
         wire' \in SUBSET [op : Message, text : Text],
         UNCHANGED <<sent, outside, optOuts, bounds>>
  PROVE  Typed'
<1>1. SendsHaveDraft'
  BY DEF Typed, SendsHaveDraft, Moves, Sound
<1> QED BY <1>1 DEF Typed, TypeOK, Moves, bounds

LEMMA AwaitTyped ==
  ASSUME Typed, NEW k \in Call, NEW pc \in Label, NEW d \in Vault,
         Save(d, k), Await(k, pc), UNCHANGED <<disk, world, bounds>>,
         pc \in {"importing", "syncing"} \/ call[k].msg \in Message
  PROVE  Typed'
<1> DEFINE new == [pc |-> pc, msg |-> call[k].msg, text |-> call[k].text, io |-> "pending"]
<1>1. Moves(k, new)
  BY AwaitMoves DEF Typed
<1>2. Sound(new)
  BY DEF Sound, Typed, SendsHaveDraft
<1>3. db' \in Vault /\ queue' \in Seq(Snapshot)
  BY SaveTypes DEF Typed
<1>4. wire' \in SUBSET [op : Message, text : Text]
  BY DEF Typed, TypeOK, world
<1> HIDE DEF new
<1> QED BY <1>1, <1>2, <1>3, <1>4, MovesTyped DEF world

LEMMA GotoTyped ==
  ASSUME Typed, NEW k \in Call, NEW pc \in Label, Goto(k, pc),
         UNCHANGED <<db, disk, queue, sent, outside, optOuts, bounds>>,
         wire' \in SUBSET [op : Message, text : Text],
         pc = "listing" \/ call[k].msg \in Message
  PROVE  Typed'
<1> DEFINE new == [pc |-> pc, msg |-> call[k].msg, text |-> call[k].text, io |-> "none"]
<1>1. Moves(k, new)
  BY GotoMoves DEF Typed
<1>2. Sound(new)
  BY DEF Sound, Typed, SendsHaveDraft
<1>3. db' \in Vault /\ queue' \in Seq(Snapshot)
  BY DEF Typed, TypeOK
<1> HIDE DEF new
<1> QED BY <1>1, <1>2, <1>3, MovesTyped

LEMMA EndTyped ==
  ASSUME Typed, NEW k \in Call, End(k), db' \in Vault, UNCHANGED <<disk, queue, world, bounds>>
  PROVE  Typed'
<1>1. Moves(k, Idle) /\ Sound(Idle)
  BY EndMoves DEF Typed, Sound, Idle
<1>2. queue' \in Seq(Snapshot) /\ wire' \in SUBSET [op : Message, text : Text]
  BY DEF Typed, TypeOK, world
<1> QED BY <1>1, <1>2, MovesTyped DEF world

LEMMA FounderTyped == Typed /\ Founder => Typed'
<1> SUFFICES ASSUME Typed, Founder PROVE Typed'
  OBVIOUS
<1>0. db \in Vault /\ interventions \in Nat
  BY DEF Typed, TypeOK
<1>1. ASSUME NEW m \in Message, NEW t \in Text, CreateDraft(m, t) PROVE Typed'
  <2>1. [db EXCEPT !.text[m] = t] \in Vault
    BY <1>0 DEF Vault
  <2> QED BY <1>0, <1>1, <2>1, FounderSavesTyped DEF CreateDraft
<1>2. ASSUME NEW m \in Message, NEW t \in Text, UpdateDraft(m, t) PROVE Typed'
  BY <1>0, <1>2, WithTextIsVault, FounderSavesTyped DEF UpdateDraft, Unusual
<1>3. ASSUME NEW m \in Message, ApproveDraft(m) PROVE Typed'
  BY <1>0, <1>3, WithApprovalIsVault, FounderSavesTyped DEF ApproveDraft
<1>4. ASSUME NEW p \in Person, AddSuppression(p) PROVE Typed'
  <2>1. [db EXCEPT !.suppressed[p] = "founder"] \in Vault
    BY <1>0 DEF Vault
  <2> QED BY <1>0, <1>4, <2>1, FounderSavesTyped DEF AddSuppression, Unusual
<1>5. ASSUME NEW p \in Person, RemoveSuppression(p) PROVE Typed'
  <2>1. [db EXCEPT !.suppressed[p] = "no"] \in Vault
    BY <1>0 DEF Vault
  <2> QED BY <1>0, <1>5, <2>1, FounderSavesTyped DEF RemoveSuppression, Unusual
<1>6. ASSUME NEW paused \in BOOLEAN, NEW footer \in Footer, UpdateCommunicationPolicy(paused, footer)
      PROVE  Typed'
  <2>1. [WithoutApprovals(db) EXCEPT !.paused = paused, !.footer = footer] \in Vault
    BY <1>0, WithoutApprovalsIsVault DEF Vault
  <2> QED BY <1>0, <1>6, <2>1, FounderSavesTyped DEF UpdateCommunicationPolicy, Unusual
<1>7. ASSUME Connect PROVE Typed'
  <2>1. [db EXCEPT !.connected = TRUE, !.tokens = TRUE] \in Vault
    BY <1>0 DEF Vault
  <2> QED BY <1>0, <1>7, <2>1, FounderSavesTyped DEF Connect, Unusual
<1>8. ASSUME Configure PROVE Typed'
  <2> DEFINE d == WithoutApprovals(db)
  <2>0. d \in Vault
    BY <1>0, WithoutApprovalsIsVault
  <2> HIDE DEF d
  <2>1. [d EXCEPT !.connected = FALSE] \in Vault
    BY <2>0 DEF Vault
  <2> QED BY <1>0, <1>8, <2>1, FounderSavesTyped DEF Configure, Unusual, d
<1>9. ASSUME Disconnect PROVE Typed'
  <2>1. [WithoutApprovals(db) EXCEPT !.connected = FALSE, !.tokens = FALSE] \in Vault
    BY <1>0, WithoutApprovalsIsVault DEF Vault
  <2> QED BY <1>0, <1>9, <2>1, FounderSavesTyped DEF Disconnect, Unusual
<1> QED BY <1>1, <1>2, <1>3, <1>4, <1>5, <1>6, <1>7, <1>8, <1>9 DEF Founder

LEMMA WorldTyped == Typed /\ World => Typed'
<1> SUFFICES ASSUME Typed, World PROVE Typed'
  OBVIOUS
<1>1. ASSUME NEW p \in Person, WriteFromElsewhere(p) PROVE Typed'
  BY <1>1 DEF WriteFromElsewhere, Unusual, Typed, TypeOK, SendsHaveDraft
<1>2. ASSUME NEW p \in Person, OptOut(p) PROVE Typed'
  BY <1>2 DEF OptOut, Unusual, Typed, TypeOK, SendsHaveDraft
<1>3. ASSUME NEW r \in wire, ProviderAccepts(r) PROVE Typed'
  <2>1. r.op \in Message /\ r.text \in Text
    BY DEF Typed, TypeOK
  <2>2. wire' \in SUBSET [op : Message, text : Text]
    BY <1>3 DEF ProviderAccepts, Typed, TypeOK
  <2>3. Append(sent[r.op], r.text) \in Seq(Text)
    BY <2>1 DEF Typed, TypeOK
  <2>4. sent' \in [Message -> Seq(Text)]
    BY <1>3, <2>1, <2>3 DEF ProviderAccepts, Typed, TypeOK
  <2> QED BY <1>3, <2>2, <2>4 DEF ProviderAccepts, bounds, Typed, TypeOK, SendsHaveDraft
<1>4. ASSUME NEW r \in wire, ProviderDrops(r) PROVE Typed'
  <2>1. wire' \in SUBSET [op : Message, text : Text]
    BY <1>4 DEF ProviderDrops, Typed, TypeOK
  <2> QED BY <1>4, <2>1 DEF ProviderDrops, bounds, Typed, TypeOK, SendsHaveDraft
<1>5. ASSUME Crash PROVE Typed'
  <2>1. call' \in [Call -> CallRecord] /\ SendsHaveDraft'
    BY <1>5 DEF Crash, Idle, CallRecord, Label, SendsHaveDraft
  <2>2. db' \in Vault /\ disk' \in Vault /\ queue' \in Seq(Snapshot) /\ crashes' \in Nat
    BY <1>5 DEF Crash, Typed, TypeOK
  <2> QED BY <1>5, <2>1, <2>2 DEF Crash, world, Typed, TypeOK
<1> QED BY <1>1, <1>2, <1>3, <1>4, <1>5 DEF World

LEMMA QueueTyped == Typed /\ (WriteSnapshot \/ WriteFails) => Typed'
<1> SUFFICES ASSUME Typed, NEW outcome \in {"ok", "error"}, queue # <<>>,
                    queue' = Tail(queue), disk' \in {disk, Head(queue).db},
                    call' = Settled(Head(queue).owner, outcome),
                    UNCHANGED <<db, world, bounds>>
             PROVE  Typed'
  BY DEF WriteSnapshot, WriteFails
<1>1. Head(queue) \in Snapshot /\ queue' \in Seq(Snapshot)
  BY DEF Typed, TypeOK
<1>2. disk' \in Vault
  BY <1>1 DEF Snapshot, Typed, TypeOK
<1>3. Head(queue).owner \in Call \cup {None}
  BY <1>1 DEF Snapshot
<1>4. call' \in [Call -> CallRecord] /\ SendsHaveDraft'
  BY <1>3, SettledAnswers DEF Typed, SendsHaveDraft
<1> QED BY <1>1, <1>2, <1>4 DEF Typed, TypeOK, world, bounds

LEMMA CallsTyped ==
  ASSUME Typed, NEW k \in Call
  PROVE  /\ SyncMail(k) => Typed'
         /\ \A m \in Message : SendApprovedDraft(k, m) => Typed'
         /\ Proceed(k) => Typed'
<1>0. db \in Vault /\ outside \in SUBSET Person /\ wire \in SUBSET [op : Message, text : Text]
  BY DEF Typed, TypeOK
<1>1. ASSUME SyncMail(k) PROVE Typed'
  BY <1>0, <1>1, GotoTyped DEF SyncMail, world, Label
<1>2. ASSUME NEW m \in Message, SendApprovedDraft(k, m) PROVE Typed'
  <2> DEFINE new == [pc |-> "listing", msg |-> m, text |-> db.text[m], io |-> "none"]
  <2>1. Moves(k, new)
    BY <1>2, SendMoves DEF Typed
  <2>2. Sound(new)
    <3>1. db.text[m] \in Text
      BY <1>0, <1>2 DEF SendApprovedDraft, Vault
    <3> QED BY <3>1 DEF Sound
  <2>3. queue' \in Seq(Snapshot)
    BY <1>2 DEF SendApprovedDraft, Typed, TypeOK
  <2> HIDE DEF new
  <2> QED BY <1>0, <1>2, <2>1, <2>2, <2>3, MovesTyped DEF SendApprovedDraft, world
<1>3. ASSUME ListMail(k) PROVE Typed'
  BY <1>0, <1>3, ImportedIsVault, AwaitTyped DEF ListMail, Label
<1>4. ASSUME StoreSync(k) PROVE Typed'
  <2>1. [db EXCEPT !.connected = TRUE] \in Vault
    BY <1>0 DEF Vault
  <2> QED BY <1>4, <2>1, AwaitTyped DEF StoreSync, Label
<1>5. ASSUME FinishSync(k) PROVE Typed'
  BY <1>0, <1>5, EndTyped DEF FinishSync
<1>6. ASSUME Recheck(k) PROVE Typed'
  <2>1. call[k].msg \in Message
    BY <1>6 DEF Recheck, Typed, TypeOK, CallRecord
  <2> QED BY <1>0, <1>6, <2>1, GotoTyped DEF Recheck, world, Label
<1>a. ASSUME call[k].pc \in {"authorizing", "authorized", "reserving", "claiming", "calling"}
      PROVE  call[k].msg \in Message
  BY <1>a DEF Typed, SendsHaveDraft
<1>7. ASSUME Authorize(k) PROVE Typed'
  BY <1>0, <1>7, <1>a, GotoTyped DEF Authorize, At, world, Label
<1>8. ASSUME Refuse(k) PROVE Typed'
  BY <1>0, <1>8, EndTyped DEF Refuse
<1>9. ASSUME ReserveApprovedSend(k) PROVE Typed'
  BY <1>0, <1>9, <1>a, WithReservationIsVault, AwaitTyped DEF ReserveApprovedSend, At, Label
<1>10. ASSUME ReservationNotSaved(k) PROVE Typed'
  BY <1>0, <1>10, <1>a, FailedBeforeDispatchIsVault, EndTyped DEF ReservationNotSaved, At
<1>11. ASSUME GuardRefuses(k) PROVE Typed'
  BY <1>0, <1>11, <1>a, FailedBeforeDispatchIsVault, AwaitTyped DEF GuardRefuses, At, Label
<1>12. ASSUME Claim(k) PROVE Typed'
  BY <1>0, <1>12, <1>a, WithStatusIsVault, AwaitTyped DEF Claim, At, Label, DispatchStatus
<1>13. ASSUME ClaimNotSaved(k) PROVE Typed'
  BY <1>0, <1>13, <1>a, WithStatusIsVault, AwaitTyped DEF ClaimNotSaved, At, Label, DispatchStatus
<1>14. ASSUME Dispatch(k) PROVE Typed'
  <2>1. call[k].msg \in Message /\ call[k].text \in Text
    BY <1>14, <1>a DEF Dispatch, At, Typed, SendsHaveDraft
  <2>2. wire' \in SUBSET [op : Message, text : Text]
    BY <1>0, <1>14, <2>1 DEF Dispatch
  <2> QED BY <1>14, <2>1, <2>2, GotoTyped DEF Dispatch, Label
<1>15. ASSUME ProviderConfirms(k) PROVE Typed'
  BY <1>0, <1>15, <1>a, RecordedIsVault, AwaitTyped DEF ProviderConfirms, At, Label
<1>16. ASSUME OutcomeUnknown(k) PROVE Typed'
  BY <1>0, <1>16, <1>a, RecordedIsVault, AwaitTyped DEF OutcomeUnknown, At, Label
<1>17. ASSUME Close(k) PROVE Typed'
  BY <1>0, <1>17, EndTyped DEF Close
<1> QED
  BY <1>1, <1>2, <1>3, <1>4, <1>5, <1>6, <1>7, <1>8, <1>9, <1>10, <1>11, <1>12, <1>13, <1>14,
     <1>15, <1>16, <1>17 DEF Proceed

LEMMA NextTyped == Typed /\ [Next]_vars => Typed'
<1>1. Typed /\ UNCHANGED vars => Typed'
  BY DEF vars, Typed, TypeOK, SendsHaveDraft
<1> QED BY <1>1, FounderTyped, WorldTyped, QueueTyped, CallsTyped DEF Next

\* Every variable always has its type, and a command past its recheck always
\* works on a draft it has read (connector-service.ts, sendApprovedDraft).
THEOREM TypeCorrect == Spec => [](TypeOK /\ SendsHaveDraft)
<1>1. Init => Typed
  BY InitTyped
<1>2. Typed /\ [Next]_vars => Typed'
  BY NextTyped
<1>3. Spec => []Typed
  BY <1>1, <1>2, PTL DEF Spec
<1> QED BY <1>3, PTL DEF Typed

-----------------------------------------------------------------------------
(* The order of the ledger *)

LEMMA AdvancesReflexive == ASSUME NEW d, NEW e, e.ledger = d.ledger PROVE Advances(d, e)
BY DEF Advances, MayBecome

LEMMA AdvancesTransitive ==
  ASSUME NEW d, NEW e, NEW f, Advances(d, e), Advances(e, f)
  PROVE  Advances(d, f)
BY DEF Advances, MayBecome

LEMMA StartedPersists ==
  ASSUME NEW d, NEW e, Advances(d, e), NEW m \in Message, Started(d, m)
  PROVE  Started(e, m) /\ HasRow(e, m) /\ HasRow(d, m)
BY DEF Advances, MayBecome, Started, HasRow

\* A vault whose ledger says nothing false about what was sent.
Truthful(d) ==
  \A m \in Message :
    /\ d.ledger[m].status = "sent" => sent[m] # <<>>
    /\ d.ledger[m].status = "failed_pre_dispatch" => Unsent(m)

\* A step of the ledger that reserves nothing, and closes no reservation but m's.
Settles(d, e, m) ==
  /\ Advances(d, e)
  /\ \A n \in Message : HasRow(e, n) => HasRow(d, n)
  /\ \A n \in Message :
       n # m /\ d.ledger[n].status = "reserved" => e.ledger[n].status = "reserved"
  /\ Truthful(d) => Truthful(e)

LEMMA SameLedgerSettles ==
  ASSUME NEW d, NEW e, e.ledger = d.ledger, NEW m
  PROVE  Settles(d, e, m)
BY AdvancesReflexive DEF Settles, HasRow, Truthful

LEMMA ImportedSettles ==
  ASSUME NEW d \in Vault, NEW m
  PROVE  Settles(d, Imported(d), m)
<1> DEFINE e == Imported(d)
<1>1. ASSUME NEW n \in Message
      PROVE  \/ e.ledger[n].status = d.ledger[n].status
             \/ /\ d.ledger[n].status \in {"dispatching", "ambiguous"}
                /\ e.ledger[n].status = "sent"
                /\ sent[n] # <<>>
  <2>1. d.ledger[n] \in LedgerRow
    BY DEF Vault
  <2>2. e.ledger[n] = IF Confirmed(d, n) THEN [d.ledger[n] EXCEPT !.status = "sent"]
                                         ELSE d.ledger[n]
    BY DEF Imported, Vault
  <2>3. Confirmed(d, n) => sent[n] # <<>>
    BY DEF Confirmed
  <2> QED BY <2>1, <2>2, <2>3 DEF Confirmed, LedgerRow
<1> HIDE DEF e
<1>2. Settles(d, e, m)
  BY <1>1 DEF Settles, Advances, MayBecome, HasRow, Truthful
<1> QED BY <1>2 DEF e

\* The change of one row's status.
LEMMA StatusSettles ==
  ASSUME NEW d \in Vault, NEW e, NEW m \in Message, NEW s \in DispatchStatus,
         e.ledger = [d.ledger EXCEPT ![m].status = s],
         HasRow(d, m), MayBecome(d.ledger[m].status, s),
         s = "sent" => sent[m] # <<>>,
         s = "failed_pre_dispatch" => Unsent(m)
  PROVE  Settles(d, e, m) /\ e.ledger[m].status = s
<1>1. d.ledger \in [Message -> LedgerRow]
  BY DEF Vault
<1>2. e.ledger[m].status = s /\ \A n \in Message : n # m => e.ledger[n] = d.ledger[n]
  BY <1>1 DEF LedgerRow
<1>3. s # "none"
  BY DEF HasRow, MayBecome
<1> QED BY <1>2, <1>3 DEF Settles, Advances, MayBecome, HasRow, Truthful

LEMMA RecordedSettles ==
  ASSUME NEW d \in Vault, NEW m \in Message, NEW c \in BOOLEAN,
         Started(d, m), c => sent[m] # <<>>
  PROVE  Settles(d, Recorded(d, m, c), m)
<1>1. CASE d.ledger[m].status \in {"sent", "ambiguous"}
  BY <1>1, SameLedgerSettles DEF Recorded
<1>2. CASE d.ledger[m].status = "dispatching"
  <2> DEFINE e == Recorded(d, m, c)
             s == IF c THEN "sent" ELSE "ambiguous"
  <2>1. /\ s \in DispatchStatus /\ "sent" \in MessageState
        /\ (s = "sent" => sent[m] # <<>>) /\ s # "failed_pre_dispatch"
    BY DEF DispatchStatus, MessageState
  <2>2. HasRow(d, m) /\ MayBecome(d.ledger[m].status, s)
    BY <1>2 DEF HasRow, MayBecome
  <2>3. e = IF c THEN [WithStatus(d, m, s) EXCEPT !.state[m] = "sent"] ELSE WithStatus(d, m, s)
    BY <1>2 DEF Recorded
  <2> HIDE DEF e, s
  <2>4. WithStatus(d, m, s) \in Vault /\ WithStatus(d, m, s).ledger = [d.ledger EXCEPT ![m].status = s]
    BY <2>1, WithStatusIsVault
  <2>5. e.ledger = [d.ledger EXCEPT ![m].status = s]
    BY <2>1, <2>3, <2>4, StateChangeIsVault
  <2>6. Settles(d, e, m)
    BY <2>1, <2>2, <2>5, StatusSettles
  <2> QED BY <2>6 DEF e
<1> QED BY <1>1, <1>2 DEF Started

-----------------------------------------------------------------------------
(* The inductive invariant *)

Inv == Typed /\ SendInvariant

\* The vault in memory becomes d, which may be queued to be saved.
Becomes(d, owner) ==
  /\ db' = d
  /\ queue' = queue \/ queue' = Append(queue, [db |-> d, owner |-> owner])
  /\ UNCHANGED disk

LEMMA BecomesQueue ==
  ASSUME Inv, NEW d, NEW owner, Becomes(d, owner)
  PROVE  \A i \in DOMAIN queue' :
           \/ i \in DOMAIN queue /\ queue'[i] = queue[i]
           \/ /\ queue' # queue
              /\ i = Len(queue) + 1
              /\ queue'[i].db = d /\ queue'[i].owner = owner
              /\ \A j \in DOMAIN queue' : j >= i => j = i
<1>1. queue \in Seq(Snapshot)
  BY DEF Inv, Typed, TypeOK
<1>2. CASE queue' = queue
  BY <1>2
<1>3. CASE queue' # queue /\ queue' = Append(queue, [db |-> d, owner |-> owner])
  BY <1>1, <1>3
<1> QED BY <1>2, <1>3 DEF Becomes

LEMMA OrderKept ==
  ASSUME Inv, NEW d, NEW owner, Becomes(d, owner), Advances(db, d)
  PROVE  QueueAdvances'
<1>1. QueueAdvances
  BY DEF Inv, SendInvariant
<1>2. Advances(disk, d)
  BY <1>1, AdvancesTransitive DEF QueueAdvances
<1>3. ASSUME NEW i \in DOMAIN queue PROVE Advances(queue[i].db, d)
  BY <1>1, AdvancesTransitive DEF QueueAdvances
<1>4. Advances(d, d)
  BY AdvancesReflexive
<1>5. ASSUME NEW i \in DOMAIN queue'
      PROVE  Advances(disk, queue'[i].db) /\ Advances(queue'[i].db, d)
  BY <1>1, <1>2, <1>3, <1>4, BecomesQueue DEF QueueAdvances
<1>6. ASSUME NEW i \in DOMAIN queue', NEW j \in DOMAIN queue', i <= j
      PROVE  Advances(queue'[i].db, queue'[j].db)
  <2>1. DOMAIN queue' \subseteq Nat /\ DOMAIN queue = 1 .. Len(queue) /\ Len(queue) \in Nat
    BY DEF Becomes, Inv, Typed, TypeOK
  <2>2. CASE i \in DOMAIN queue /\ queue'[i] = queue[i] /\ j \in DOMAIN queue /\ queue'[j] = queue[j]
    BY <1>1, <1>6, <2>2 DEF QueueAdvances
  <2>3. CASE i \in DOMAIN queue /\ queue'[i] = queue[i] /\ queue'[j].db = d
    BY <1>3, <2>3
  <2>4. CASE queue'[i].db = d /\ j = i
    BY <1>4, <2>4
  <2> QED BY <1>6, <2>1, <2>2, <2>3, <2>4, BecomesQueue
<1> QED BY <1>2, <1>5, <1>6 DEF QueueAdvances, Becomes, Advances

\* What holds of a vault after a step of the ledger, whoever makes it.
LEMMA VaultKept ==
  ASSUME Inv, NEW d \in Vault, NEW owner, Becomes(d, owner), Advances(db, d),
         UNCHANGED <<wire, sent>>, Truthful(d),
         \A m, n \in Message :
           HasRow(d, m) /\ HasRow(d, n) /\ Recipient[m] = Recipient[n] => m = n
  PROVE  QueueAdvances' /\ OneRowPerPerson' /\ OneRequestPerSend' /\ WriteAhead' /\ TruthfulOutcome'
<1>1. QueueAdvances'
  BY OrderKept
<1>2. OneRowPerPerson'
  BY DEF Becomes, OneRowPerPerson, HasRow
<1>3. OneRequestPerSend' /\ WriteAhead'
  BY DEF Becomes, Inv, SendInvariant, OneRequestPerSend, WriteAhead, Started
<1>4. TruthfulOutcome'
  BY DEF Becomes, Inv, SendInvariant, TruthfulOutcome, Truthful, Unsent
<1> QED BY <1>1, <1>2, <1>3, <1>4

LEMMA SettlesKept ==
  ASSUME Inv, NEW d \in Vault, NEW m, Settles(db, d, m)
  PROVE  /\ Advances(db, d) /\ Truthful(d)
         /\ \A n, o \in Message :
              HasRow(d, n) /\ HasRow(d, o) /\ Recipient[n] = Recipient[o] => n = o
<1>1. Truthful(db)
  BY DEF Inv, SendInvariant, TruthfulOutcome, Truthful, Unsent
<1> QED BY <1>1 DEF Settles, Inv, SendInvariant, OneRowPerPerson

\* What a command's new record r may say, when the vault has become d.
Owns(k, r, d) ==
  /\ r.pc \in {"idle", "listing", "authorizing", "authorized", "calling"} => r.io = "none"
  /\ r.pc = "reserving" => d.ledger[r.msg].status = "reserved"
  /\ r.pc \in {"claiming", "calling"} => Started(d, r.msg)
  /\ r.pc \in {"reserving", "claiming"} => Unsent(r.msg)
  /\ r.pc \in {"reserving", "claiming", "calling"} =>
       /\ r.msg \in Message
       /\ \A l \in Call : l # k /\ Sending(l) => call[l].msg # r.msg

\* A step of command k that does not wait, not to the network.
LEMMA CommandKept ==
  ASSUME Inv, NEW k \in Call, NEW new, Moves(k, new), call[k].io # "pending",
         NEW d \in Vault, Becomes(d, k), queue' # queue => new.io = "pending",
         new.pc = "claiming" => new.io = "pending",
         Advances(db, d), Truthful(d),
         \A m, n \in Message :
           HasRow(d, m) /\ HasRow(d, n) /\ Recipient[m] = Recipient[n] => m = n,
         \A l \in Call :
           l # k /\ call[l].pc = "reserving" => d.ledger[call[l].msg].status = "reserved",
         Owns(k, new, d), UNCHANGED <<wire, sent>>, Typed'
  PROVE  Inv'
<1>1. QueueAdvances' /\ OneRowPerPerson' /\ OneRequestPerSend' /\ WriteAhead' /\ TruthfulOutcome'
  BY VaultKept
<1>2. SendsHaveDraft'
  BY DEF Typed
<1>a. \A l \in Call : call[l].pc \in {"reserving", "claiming", "calling"} => call[l].msg \in Message
  BY DEF Inv, Typed, SendsHaveDraft
<1>3. SnapshotsHaveOwner'
  <2>1. ASSUME NEW i \in DOMAIN queue', NEW l \in Call, queue'[i].owner = l
        PROVE  /\ call'[l].io = "pending"
               /\ call'[l].pc = "claiming" => Started(queue'[i].db, call'[l].msg)
    <3>1. CASE i \in DOMAIN queue /\ queue'[i] = queue[i]
      <4>1. call[l].io = "pending" /\ l # k
        BY <2>1, <3>1 DEF Inv, SendInvariant, SnapshotsHaveOwner
      <4> QED BY <2>1, <3>1, <4>1 DEF Moves, Inv, SendInvariant, SnapshotsHaveOwner
    <3>2. CASE queue' # queue /\ queue'[i].db = d /\ queue'[i].owner = k
      BY <2>1, <3>2 DEF Moves, Owns
    <3> QED BY <3>1, <3>2, BecomesQueue
  <2>2. ASSUME NEW l \in Call, call'[l].pc \in {"idle", "listing", "authorizing", "authorized", "calling"}
        PROVE  call'[l].io = "none"
    BY <2>2 DEF Moves, Owns, Inv, SendInvariant, SnapshotsHaveOwner
  <2>3. ASSUME NEW i \in DOMAIN queue', NEW j \in DOMAIN queue',
               queue'[i].owner = queue'[j].owner, queue'[i].owner \in Call
        PROVE  i = j
    <3>1. \A n \in DOMAIN queue : queue[n].owner # k
      BY DEF Inv, SendInvariant, SnapshotsHaveOwner
    <3>2. CASE /\ i \in DOMAIN queue /\ queue'[i] = queue[i]
               /\ j \in DOMAIN queue /\ queue'[j] = queue[j]
      BY <2>3, <3>2 DEF Inv, SendInvariant, SnapshotsHaveOwner
    <3> QED BY <2>3, <3>1, <3>2, BecomesQueue
  <2> QED BY <2>1, <2>2, <2>3 DEF SnapshotsHaveOwner, Started
<1>4. SendsOwnRows'
  <2>1. ASSUME NEW l \in Call, l # k
        PROVE  /\ call[l].pc = "reserving" => d.ledger[call[l].msg].status = "reserved"
               /\ call[l].pc \in {"claiming", "calling"} => Started(d, call[l].msg)
               /\ call[l].pc \in {"reserving", "claiming"} => Unsent(call[l].msg)
               /\ call[l].pc = "claiming" /\ call[l].io = "ok" => Started(disk, call[l].msg)
    BY <1>a, <2>1, StartedPersists DEF Inv, SendInvariant, SendsOwnRows
  <2>2. ASSUME NEW l \in Call
        PROVE  /\ call'[l].pc = "reserving" => d.ledger[call'[l].msg].status = "reserved"
               /\ call'[l].pc \in {"claiming", "calling"} => Started(d, call'[l].msg)
               /\ call'[l].pc \in {"reserving", "claiming"} => Unsent(call'[l].msg)
               /\ call'[l].pc = "claiming" /\ call'[l].io = "ok" => Started(disk, call'[l].msg)
    BY <2>1 DEF Moves, Owns
  <2>3. ASSUME NEW l \in Call, NEW o \in Call, Sending(l)', Sending(o)', call'[l].msg = call'[o].msg
        PROVE  l = o
    BY <2>3 DEF Moves, Owns, Sending, Inv, SendInvariant, SendsOwnRows
  <2> QED BY <2>2, <2>3 DEF SendsOwnRows, Becomes, Unsent, Started
<1> QED BY <1>1, <1>2, <1>3, <1>4 DEF Inv, SendInvariant

\* The part of a command outside of its own reservation.
LEMMA QuietKept ==
  ASSUME Inv, NEW k \in Call, NEW new, Moves(k, new), call[k].io # "pending",
         NEW d \in Vault, Becomes(d, k), queue' # queue => new.io = "pending",
         Settles(db, d, None), UNCHANGED <<wire, sent>>, Typed',
         new.pc \notin {"reserving", "claiming", "calling"},
         new.pc \in {"idle", "listing", "authorizing", "authorized", "calling"} => new.io = "none"
  PROVE  Inv'
<1>1. \A l \in Call : call[l].pc = "reserving" =>
        call[l].msg \in Message /\ call[l].msg # None /\ db.ledger[call[l].msg].status = "reserved"
  BY DEF Inv, Typed, SendsHaveDraft, SendInvariant, SendsOwnRows
<1>2. \A l \in Call :
        l # k /\ call[l].pc = "reserving" => d.ledger[call[l].msg].status = "reserved"
  BY <1>1 DEF Settles
<1>3. Owns(k, new, d)
  BY DEF Owns
<1> QED BY <1>2, <1>3, CommandKept, SettlesKept

\* A command that starts, waits for the network, or ends; nothing is saved.
LEMMA UnsavedKept ==
  ASSUME Inv, NEW k \in Call, NEW new, Moves(k, new), call[k].io # "pending",
         new.pc \notin {"reserving", "claiming", "calling"}, new.io = "none",
         UNCHANGED <<db, disk, queue, wire, sent>>, Typed'
  PROVE  Inv'
<1>1. db \in Vault /\ Becomes(db, k) /\ Settles(db, db, None)
  BY SameLedgerSettles DEF Becomes, Inv, Typed, TypeOK
<1> QED BY <1>1, QuietKept

LEMMA ReadingKept ==
  ASSUME Inv, Typed', NEW k \in Call
  PROVE  /\ SyncMail(k) => Inv'
         /\ \A m \in Message : SendApprovedDraft(k, m) => Inv'
         /\ Recheck(k) \/ Authorize(k) \/ FinishSync(k) \/ Refuse(k) \/ Close(k) => Inv'
<1>0. /\ TypeOK
      /\ call[k].pc \in {"idle", "listing", "authorizing", "authorized"} => call[k].io # "pending"
  BY DEF Inv, Typed, SendInvariant, SnapshotsHaveOwner
<1>1. ASSUME SyncMail(k) PROVE Inv'
  BY <1>0, <1>1, GotoMoves, UnsavedKept DEF SyncMail, At, world, Label
<1>2. ASSUME NEW m \in Message, SendApprovedDraft(k, m) PROVE Inv'
  <2>1. call[k].io # "pending" /\ UNCHANGED <<db, disk, queue, wire, sent>>
    BY <1>0, <1>2 DEF SendApprovedDraft, At, world
  <2> QED BY <1>0, <1>2, <2>1, SendMoves, UnsavedKept
<1>3. ASSUME Recheck(k) PROVE Inv'
  BY <1>0, <1>3, GotoMoves, UnsavedKept DEF Recheck, Saved, world, Label
<1>4. ASSUME Authorize(k) PROVE Inv'
  BY <1>0, <1>4, GotoMoves, UnsavedKept DEF Authorize, At, world, Label
<1>5. ASSUME FinishSync(k) \/ Refuse(k) \/ Close(k) PROVE Inv'
  <2>1. /\ call[k].io # "pending" /\ End(k)
        /\ UNCHANGED <<db, disk, queue, wire, sent>>
    BY <1>5 DEF FinishSync, Refuse, Close, Saved, world
  <2> QED BY <1>0, <2>1, EndMoves, UnsavedKept DEF Idle
<1> QED BY <1>1, <1>2, <1>3, <1>4, <1>5

LEMMA QuietSaveKept ==
  ASSUME Inv, NEW k \in Call, call[k].io # "pending", NEW d \in Vault, Settles(db, d, None),
         Save(d, k), NEW pc \in {"importing", "syncing"}, Await(k, pc),
         UNCHANGED <<disk, wire, sent>>, Typed'
  PROVE  Inv'
<1> DEFINE new == [pc |-> pc, msg |-> call[k].msg, text |-> call[k].text, io |-> "pending"]
<1>1. TypeOK /\ pc \in Label
  BY DEF Inv, Typed, Label
<1>2. Moves(k, new)
  BY <1>1, AwaitMoves
<1>3. Becomes(d, k)
  BY DEF Save, Becomes
<1>4. new.io = "pending" /\ new.pc \in {"importing", "syncing"}
  OBVIOUS
<1> HIDE DEF new
<1> QED BY <1>2, <1>3, <1>4, QuietKept

LEMMA SyncKept ==
  ASSUME Inv, Typed', NEW k \in Call, ListMail(k) \/ StoreSync(k)
  PROVE  Inv'
<1>0. TypeOK /\ db \in Vault /\ outside \in SUBSET Person
  BY DEF Inv, Typed, TypeOK
<1>1. CASE ListMail(k)
  <2>1. call[k].io # "pending"
    BY <1>1 DEF ListMail, At, Inv, SendInvariant, SnapshotsHaveOwner
  <2>2. Imported(db) \in Vault /\ Settles(db, Imported(db), None)
    BY <1>0, ImportedIsVault, ImportedSettles
  <2> QED BY <1>1, <2>1, <2>2, QuietSaveKept DEF ListMail, world
<1>2. CASE StoreSync(k)
  <2> DEFINE d == [db EXCEPT !.connected = TRUE]
  <2>1. d \in Vault /\ d.ledger = db.ledger
    BY <1>0 DEF Vault
  <2>2. Save(d, k) /\ call[k].io # "pending" /\ Await(k, "syncing") /\ UNCHANGED <<disk, wire, sent>>
    BY <1>2 DEF StoreSync, Saved, world
  <2> HIDE DEF d
  <2> QED BY <2>1, <2>2, SameLedgerSettles, QuietSaveKept
<1> QED BY <1>1, <1>2

\* What a command between reservation and answer knows of its own row.
LEMMA OwnRow ==
  ASSUME Inv, NEW k \in Call, Sending(k)
  PROVE  /\ call[k].msg \in Message
         /\ \A l \in Call : l # k /\ Sending(l) => call[l].msg # call[k].msg
         /\ call[k].pc = "reserving" =>
              Unsent(call[k].msg) /\ db.ledger[call[k].msg].status = "reserved"
         /\ call[k].pc \in {"claiming", "calling"} => Started(db, call[k].msg)
         /\ call[k].pc = "claiming" => Unsent(call[k].msg)
<1>1. SendsOwnRows /\ call[k].msg \in Message
  BY DEF Sending, Inv, Typed, SendsHaveDraft, SendInvariant
<1> QED BY <1>1 DEF Sending, SendsOwnRows

\* A step of a command that settles its own row.
LEMMA SettlingKept ==
  ASSUME Inv, NEW k \in Call, Sending(k), NEW new, Moves(k, new), call[k].io # "pending",
         NEW d \in Vault, Becomes(d, k), queue' # queue => new.io = "pending",
         Settles(db, d, call[k].msg), UNCHANGED <<wire, sent>>, Typed',
         \/ new = Idle
         \/ new.pc = "closing"
         \/ /\ new.pc = "claiming" /\ new.io = "pending" /\ call[k].pc = "reserving"
            /\ new.msg = call[k].msg /\ Started(d, new.msg)
  PROVE  Inv'
<1>1. \A l \in Call : call[l].pc = "reserving" =>
        call[l].msg \in Message /\ db.ledger[call[l].msg].status = "reserved" /\ Sending(l)
  BY OwnRow DEF Sending
<1>2. \A l \in Call :
        l # k /\ call[l].pc = "reserving" => d.ledger[call[l].msg].status = "reserved"
  BY <1>1, OwnRow DEF Settles
<1>3. Owns(k, new, d)
  BY OwnRow DEF Owns, Idle
<1>4. new.pc = "claiming" => new.io = "pending"
  BY DEF Idle
<1> QED BY <1>2, <1>3, <1>4, CommandKept, SettlesKept

LEMMA SettlingSaveKept ==
  ASSUME Inv, NEW k \in Call, Sending(k), call[k].io # "pending",
         NEW d \in Vault, Settles(db, d, call[k].msg), Save(d, k),
         NEW pc \in {"claiming", "closing"}, Await(k, pc),
         pc = "claiming" => call[k].pc = "reserving" /\ Started(d, call[k].msg),
         UNCHANGED <<disk, wire, sent>>, Typed'
  PROVE  Inv'
<1> DEFINE new == [pc |-> pc, msg |-> call[k].msg, text |-> call[k].text, io |-> "pending"]
<1>1. TypeOK /\ pc \in Label
  BY DEF Inv, Typed, Label
<1>2. Moves(k, new)
  BY <1>1, AwaitMoves
<1>3. Becomes(d, k)
  BY DEF Save, Becomes
<1>4. new.io = "pending" /\ new.pc = pc /\ new.msg = call[k].msg
  OBVIOUS
<1> HIDE DEF new
<1> QED BY <1>2, <1>3, <1>4, SettlingKept

\* The change of one status, as a step of the ledger.
LEMMA WithStatusSettles ==
  ASSUME NEW d \in Vault, NEW m \in Message, NEW s \in {"dispatching", "ambiguous"},
         HasRow(d, m), MayBecome(d.ledger[m].status, s)
  PROVE  WithStatus(d, m, s) \in Vault /\ Settles(d, WithStatus(d, m, s), m)
         /\ Started(WithStatus(d, m, s), m)
<1> DEFINE e == WithStatus(d, m, s)
<1>1. s \in DispatchStatus /\ s \notin {"none", "sent", "failed_pre_dispatch"}
  BY DEF DispatchStatus
<1>2. e \in Vault /\ e.ledger = [d.ledger EXCEPT ![m].status = s]
  BY <1>1, WithStatusIsVault
<1>3. d.ledger \in [Message -> LedgerRow]
  BY DEF Vault
<1> HIDE DEF e
<1>4. e.ledger[m].status = s /\ \A n \in Message : n # m => e.ledger[n] = d.ledger[n]
  BY <1>2, <1>3 DEF LedgerRow
<1>5. Settles(d, e, m)
  BY <1>1, <1>4 DEF Settles, Advances, MayBecome, HasRow, Truthful
<1>6. e \in Vault /\ Settles(d, e, m) /\ Started(e, m)
  BY <1>2, <1>4, <1>5 DEF Started
<1> QED BY <1>6 DEF e

LEMMA SettlementKept ==
  ASSUME Inv, Typed', NEW k \in Call,
         \/ ReservationNotSaved(k) \/ GuardRefuses(k) \/ Claim(k) \/ ClaimNotSaved(k)
         \/ ProviderConfirms(k) \/ OutcomeUnknown(k)
  PROVE  Inv'
<1> DEFINE m == call[k].msg
<1>0. TypeOK /\ db \in Vault
  BY DEF Inv, Typed, TypeOK
<1>1. Sending(k) /\ call[k].io # "pending"
  <2>1. call[k].pc = "calling" => call[k].io # "pending"
    BY DEF Inv, SendInvariant, SnapshotsHaveOwner
  <2> QED
    BY <2>1 DEF Sending, ReservationNotSaved, GuardRefuses, Claim, ClaimNotSaved,
                ProviderConfirms, OutcomeUnknown, At, Saved, NotSaved
<1>2. m \in Message
  BY <1>1, OwnRow
<1>3. CASE ReservationNotSaved(k) \/ GuardRefuses(k)
  <2> DEFINE d == FailedBeforeDispatch(db, m)
  <2>1. Unsent(m) /\ db.ledger[m].status = "reserved"
    BY <1>1, <1>3, OwnRow DEF ReservationNotSaved, GuardRefuses, At
  <2>2. d \in Vault /\ d.ledger = [db.ledger EXCEPT ![m].status = "failed_pre_dispatch"]
    BY <1>0, <1>2, FailedBeforeDispatchIsVault
  <2>3. Settles(db, d, m)
    <3>1. "failed_pre_dispatch" \in DispatchStatus
      BY DEF DispatchStatus
    <3> HIDE DEF d
    <3> QED BY <1>0, <1>2, <2>1, <2>2, <3>1, StatusSettles DEF HasRow, MayBecome
  <2> HIDE DEF d
  <2>4. CASE ReservationNotSaved(k)
    <3>1. Moves(k, Idle) /\ Becomes(d, k) /\ UNCHANGED <<queue, wire, sent>>
      BY <1>0, <2>4, EndMoves DEF ReservationNotSaved, Becomes, world, d
    <3> QED BY <1>1, <2>2, <2>3, <3>1, SettlingKept
  <2>5. CASE GuardRefuses(k)
    <3>1. Save(d, k) /\ Await(k, "closing") /\ UNCHANGED <<disk, wire, sent>>
      BY <2>5 DEF GuardRefuses, world, d
    <3> QED BY <1>1, <2>2, <2>3, <3>1, SettlingSaveKept
  <2> QED BY <1>3, <2>4, <2>5
<1>4. CASE Claim(k)
  <2>1. db.ledger[m].status = "reserved" /\ call[k].pc = "reserving"
    BY <1>4 DEF Claim, At
  <2>2. HasRow(db, m) /\ MayBecome(db.ledger[m].status, "dispatching")
    BY <2>1 DEF HasRow, MayBecome
  <2> DEFINE d == WithStatus(db, m, "dispatching")
  <2>3. d \in Vault /\ Settles(db, d, m) /\ Started(d, m)
    BY <1>0, <1>2, <2>2, WithStatusSettles
  <2>4. Save(d, k) /\ Await(k, "claiming") /\ UNCHANGED <<disk, wire, sent>>
    BY <1>4 DEF Claim, world
  <2> HIDE DEF d
  <2> QED BY <1>1, <2>1, <2>3, <2>4, SettlingSaveKept
<1>5. CASE ClaimNotSaved(k)
  <2>1. HasRow(db, m) /\ MayBecome(db.ledger[m].status, "ambiguous")
    BY <1>5 DEF ClaimNotSaved, HasRow, MayBecome
  <2> DEFINE d == WithStatus(db, m, "ambiguous")
  <2>2. d \in Vault /\ Settles(db, d, m)
    BY <1>0, <1>2, <2>1, WithStatusSettles
  <2>3. Save(d, k) /\ Await(k, "closing") /\ UNCHANGED <<disk, wire, sent>>
    BY <1>5 DEF ClaimNotSaved, world
  <2> HIDE DEF d
  <2> QED BY <1>1, <2>2, <2>3, SettlingSaveKept
<1>6. ASSUME NEW c \in BOOLEAN, c => sent[m] # <<>>, At(k, "calling"),
             Save(Recorded(db, m, c), k), Await(k, "closing"), UNCHANGED <<disk, world>>
      PROVE  Inv'
  <2> DEFINE d == Recorded(db, m, c)
  <2>1. d \in Vault /\ Settles(db, d, m)
    BY <1>0, <1>1, <1>2, <1>6, OwnRow, RecordedIsVault, RecordedSettles DEF At
  <2>2. Save(d, k) /\ Await(k, "closing") /\ UNCHANGED <<disk, wire, sent>>
    BY <1>6 DEF world
  <2> HIDE DEF d
  <2> QED BY <1>1, <2>1, <2>2, SettlingSaveKept
<1>7. CASE ProviderConfirms(k)
  BY <1>6, <1>7 DEF ProviderConfirms
<1>8. CASE OutcomeUnknown(k)
  BY <1>6, <1>8 DEF OutcomeUnknown
<1> QED BY <1>3, <1>4, <1>5, <1>7, <1>8

\* Whatever is on its way or was delivered has a row in memory.
LEMMA RowlessIsUnsent ==
  ASSUME Inv, NEW m \in Message, ~ HasRow(db, m)
  PROVE  Unsent(m)
<1>1. ~ Started(disk, m)
  BY StartedPersists DEF Inv, SendInvariant, QueueAdvances
<1> QED BY <1>1 DEF Inv, SendInvariant, WriteAhead, Unsent

LEMMA ReservationKept ==
  ASSUME Inv, Typed', NEW k \in Call, ReserveApprovedSend(k)
  PROVE  Inv'
<1> DEFINE m == call[k].msg
           d == WithReservation(db, m)
           new == [pc |-> "reserving", msg |-> m, text |-> call[k].text, io |-> "pending"]
<1>0. TypeOK /\ db \in Vault /\ m \in Message
  BY DEF Inv, Typed, TypeOK, SendsHaveDraft, ReserveApprovedSend, At
<1>1. call[k].io # "pending"
  BY DEF ReserveApprovedSend, At, Inv, SendInvariant, SnapshotsHaveOwner
<1>2. \A n \in Message : Recipient[n] = Recipient[m] => ~ HasRow(db, n)
  BY DEF ReserveApprovedSend, CanReserve, CanSendInitial
<1>3. Unsent(m)
  BY <1>0, <1>2, RowlessIsUnsent
<1>4. Moves(k, new)
  BY <1>0, AwaitMoves DEF ReserveApprovedSend, Label
<1>5. Becomes(d, k) /\ UNCHANGED <<wire, sent>>
  BY DEF ReserveApprovedSend, Save, Becomes, world
<1>6. d \in Vault /\ d.ledger = [db.ledger EXCEPT ![m] = [status |-> "reserved", text |-> db.active[m]]]
  BY <1>0, WithReservationIsVault
<1>7. db.ledger \in [Message -> LedgerRow]
  BY <1>0 DEF Vault
<1> HIDE DEF d
<1>8. d.ledger[m].status = "reserved" /\ \A n \in Message : n # m => d.ledger[n] = db.ledger[n]
  BY <1>0, <1>6, <1>7
<1>9. Advances(db, d)
  BY <1>0, <1>2, <1>8 DEF Advances, MayBecome, HasRow
<1>10. Truthful(d)
  BY <1>8 DEF Truthful, Unsent, Inv, SendInvariant, TruthfulOutcome
<1>11. \A n, o \in Message : HasRow(d, n) /\ HasRow(d, o) /\ Recipient[n] = Recipient[o] => n = o
  BY <1>0, <1>2, <1>8 DEF HasRow, Inv, SendInvariant, OneRowPerPerson
<1>12. ASSUME NEW l \in Call, Sending(l)
       PROVE  call[l].msg \in Message /\ call[l].msg # m
  <2>1. call[l].msg \in Message /\ HasRow(db, call[l].msg)
    BY <1>12, OwnRow DEF Sending, HasRow, Started
  <2> QED BY <1>0, <1>2, <2>1
<1>13. \A l \in Call : l # k /\ call[l].pc = "reserving" => d.ledger[call[l].msg].status = "reserved"
  BY <1>8, <1>12, OwnRow DEF Sending
<1>14. Owns(k, new, d)
  BY <1>0, <1>3, <1>8, <1>12 DEF Owns
<1>15. new.io = "pending"
  OBVIOUS
<1> HIDE DEF new
<1> QED BY <1>1, <1>4, <1>5, <1>6, <1>9, <1>10, <1>11, <1>13, <1>14, <1>15, CommandKept

LEMMA DispatchKept ==
  ASSUME Inv, Typed', NEW k \in Call, Dispatch(k)
  PROVE  Inv'
<1> DEFINE m == call[k].msg
           r == [op |-> m, text |-> call[k].text]
           new == [pc |-> "calling", msg |-> m, text |-> call[k].text, io |-> "none"]
<1>0. TypeOK /\ call[k].pc = "claiming" /\ call[k].io = "ok" /\ Sending(k)
  BY DEF Inv, Typed, Dispatch, At, Saved, Sending
<1>1. /\ m \in Message /\ Unsent(m) /\ Started(disk, m) /\ Started(db, m)
      /\ \A l \in Call : l # k /\ Sending(l) => call[l].msg # m
  BY <1>0, OwnRow DEF Inv, SendInvariant, SendsOwnRows
<1>2. Moves(k, new)
  BY <1>0, GotoMoves DEF Dispatch, Label
<1>3. wire' = wire \cup {r} /\ UNCHANGED <<db, disk, queue, sent>>
  BY DEF Dispatch
<1>4. r.op = m
  OBVIOUS
<1>5. db.ledger[m].status # "failed_pre_dispatch"
  BY <1>1 DEF Started
<1> HIDE DEF r
<1>6. SendsHaveDraft' /\ QueueAdvances' /\ OneRowPerPerson'
  BY <1>3 DEF Typed, Inv, SendInvariant, QueueAdvances, Advances, OneRowPerPerson, HasRow
<1>7. SnapshotsHaveOwner'
  <2>1. new.pc = "calling" /\ new.io = "none"
    OBVIOUS
  <2>2. \A i \in DOMAIN queue : queue[i].owner # k
    BY <1>0 DEF Inv, SendInvariant, SnapshotsHaveOwner
  <2> HIDE DEF new
  <2> QED BY <1>2, <1>3, <2>1, <2>2 DEF Moves, Inv, SendInvariant, SnapshotsHaveOwner, Started
<1>8. SendsOwnRows'
  <2>1. new.pc = "calling" /\ new.msg = m
    OBVIOUS
  <2> HIDE DEF new
  <2>2. ASSUME NEW l \in Call
        PROVE  /\ call'[l].pc = "reserving" => db.ledger[call'[l].msg].status = "reserved"
               /\ call'[l].pc \in {"claiming", "calling"} => Started(db, call'[l].msg)
               /\ call'[l].pc \in {"reserving", "claiming"} =>
                    sent'[call'[l].msg] = <<>> /\ \A q \in wire' : q.op # call'[l].msg
               /\ call'[l].pc = "claiming" /\ call'[l].io = "ok" => Started(disk, call'[l].msg)
    <3>1. CASE l = k
      BY <1>1, <1>2, <2>1, <3>1 DEF Moves
    <3>2. CASE l # k
      <4>1. call'[l] = call[l]
        BY <1>2, <3>2 DEF Moves
      <4>2. call[l].pc \in {"reserving", "claiming"} => call[l].msg # m
        BY <1>1, <3>2 DEF Sending
      <4> QED BY <1>3, <1>4, <4>1, <4>2 DEF Inv, SendInvariant, SendsOwnRows, Unsent
    <3> QED BY <3>1, <3>2
  <2>3. ASSUME NEW l \in Call, NEW o \in Call, Sending(l)', Sending(o)', call'[l].msg = call'[o].msg
        PROVE  l = o
    BY <1>0, <1>1, <1>2, <2>1, <2>3 DEF Moves, Sending, Inv, SendInvariant, SendsOwnRows
  <2> QED BY <1>3, <2>2, <2>3 DEF SendsOwnRows, Started, Unsent
<1>9. OneRequestPerSend'
  BY <1>1, <1>3, <1>4 DEF Unsent, Inv, SendInvariant, OneRequestPerSend
<1>10. WriteAhead'
  BY <1>1, <1>3, <1>4 DEF Started, Inv, SendInvariant, WriteAhead
<1>11. TruthfulOutcome'
  <2>1. disk.ledger[m].status # "failed_pre_dispatch"
    BY <1>1 DEF Started
  <2> QED BY <1>3, <1>4, <1>5, <2>1 DEF Inv, SendInvariant, TruthfulOutcome
<1> QED BY <1>6, <1>7, <1>8, <1>9, <1>10, <1>11 DEF Inv, SendInvariant

LEMMA CommandsKept ==
  ASSUME Inv, Typed', NEW k \in Call,
         SyncMail(k) \/ (\E m \in Message : SendApprovedDraft(k, m)) \/ Proceed(k)
  PROVE  Inv'
BY ReadingKept, SyncKept, SettlementKept, ReservationKept, DispatchKept DEF Proceed

-----------------------------------------------------------------------------
(* The other steps, and the theorems *)

LEMMA InitKept == Init => Inv
<1> SUFFICES ASSUME Init PROVE Inv
  OBVIOUS
<1>1. Typed
  BY InitTyped
<1>2. \A m \in Message : db.ledger[m].status = "none" /\ Unsent(m)
  BY DEF Init, EmptyVault, Unsent
<1>3. QueueAdvances /\ OneRowPerPerson
  BY <1>2, AdvancesReflexive DEF Init, QueueAdvances, OneRowPerPerson, HasRow
<1>4. SnapshotsHaveOwner /\ SendsOwnRows
  BY DEF Init, Idle, SnapshotsHaveOwner, SendsOwnRows, Sending
<1>5. OneRequestPerSend /\ WriteAhead /\ TruthfulOutcome
  BY <1>2 DEF Init, OneRequestPerSend, WriteAhead, TruthfulOutcome
<1> QED BY <1>1, <1>3, <1>4, <1>5 DEF Inv, Typed, SendInvariant

\* Nothing the founder does in one stretch touches the ledger.
LEMMA FounderSavesKept ==
  ASSUME Inv, NEW d \in Vault, d.ledger = db.ledger, FounderSaves(d), Typed'
  PROVE  Inv'
<1>1. Becomes(d, None) /\ UNCHANGED <<disk, call, wire, sent>>
  BY DEF FounderSaves, Save, Becomes, world
<1>2. Advances(db, d) /\ Truthful(d)
  BY SameLedgerSettles, SettlesKept
<1>3. QueueAdvances' /\ OneRowPerPerson' /\ OneRequestPerSend' /\ WriteAhead' /\ TruthfulOutcome'
  BY <1>1, <1>2, SameLedgerSettles, SettlesKept, VaultKept
<1>4. SnapshotsHaveOwner'
  <2>1. \A i \in DOMAIN queue' :
          queue'[i].owner \in Call => i \in DOMAIN queue /\ queue'[i] = queue[i]
    BY <1>1, BecomesQueue
  <2> QED BY <1>1, <2>1 DEF Inv, SendInvariant, SnapshotsHaveOwner, Started
<1>5. SendsOwnRows'
  BY <1>1 DEF Becomes, Inv, SendInvariant, SendsOwnRows, Sending, Started, Unsent
<1> QED BY <1>3, <1>4, <1>5 DEF Inv, Typed, SendInvariant

LEMMA FounderKept ==
  ASSUME Inv, Typed', Founder
  PROVE  Inv'
<1>0. db \in Vault
  BY DEF Inv, Typed, TypeOK
<1>1. ASSUME NEW m \in Message, NEW t \in Text, CreateDraft(m, t) PROVE Inv'
  <2>1. [db EXCEPT !.text[m] = t] \in Vault /\ [db EXCEPT !.text[m] = t].ledger = db.ledger
    BY <1>0 DEF Vault
  <2> QED BY <1>1, <2>1, FounderSavesKept DEF CreateDraft
<1>2. ASSUME NEW m \in Message, NEW t \in Text, UpdateDraft(m, t) PROVE Inv'
  BY <1>0, <1>2, WithTextIsVault, FounderSavesKept DEF UpdateDraft
<1>3. ASSUME NEW m \in Message, ApproveDraft(m) PROVE Inv'
  BY <1>0, <1>3, WithApprovalIsVault, FounderSavesKept DEF ApproveDraft
<1>4. ASSUME NEW p \in Person, NEW s \in {"no", "founder"},
             FounderSaves([db EXCEPT !.suppressed[p] = s])
      PROVE  Inv'
  <2>1. /\ [db EXCEPT !.suppressed[p] = s] \in Vault
        /\ [db EXCEPT !.suppressed[p] = s].ledger = db.ledger
    BY <1>0 DEF Vault
  <2> QED BY <1>4, <2>1, FounderSavesKept
<1>5. \A p \in Person : AddSuppression(p) \/ RemoveSuppression(p) => Inv'
  BY <1>4 DEF AddSuppression, RemoveSuppression
<1> DEFINE e == WithoutApprovals(db)
<1>6. e \in Vault /\ e.ledger = db.ledger
  BY <1>0, WithoutApprovalsIsVault
<1>7. ASSUME NEW paused \in BOOLEAN, NEW footer \in Footer, UpdateCommunicationPolicy(paused, footer)
      PROVE  Inv'
  <2>1. FounderSaves([e EXCEPT !.paused = paused, !.footer = footer])
    BY <1>7 DEF UpdateCommunicationPolicy
  <2> HIDE DEF e
  <2>2. /\ [e EXCEPT !.paused = paused, !.footer = footer] \in Vault
        /\ [e EXCEPT !.paused = paused, !.footer = footer].ledger = db.ledger
    BY <1>6 DEF Vault
  <2> QED BY <2>1, <2>2, FounderSavesKept
<1>8. ASSUME Connect PROVE Inv'
  <2>1. /\ [db EXCEPT !.connected = TRUE, !.tokens = TRUE] \in Vault
        /\ [db EXCEPT !.connected = TRUE, !.tokens = TRUE].ledger = db.ledger
    BY <1>0 DEF Vault
  <2> QED BY <1>8, <2>1, FounderSavesKept DEF Connect
<1>9. ASSUME Configure \/ Disconnect PROVE Inv'
  <2>1. \/ FounderSaves([e EXCEPT !.connected = FALSE])
        \/ FounderSaves([e EXCEPT !.connected = FALSE, !.tokens = FALSE])
    BY <1>9 DEF Configure, Disconnect
  <2> HIDE DEF e
  <2>2. /\ [e EXCEPT !.connected = FALSE] \in Vault
        /\ [e EXCEPT !.connected = FALSE].ledger = db.ledger
    BY <1>6 DEF Vault
  <2>3. /\ [e EXCEPT !.connected = FALSE, !.tokens = FALSE] \in Vault
        /\ [e EXCEPT !.connected = FALSE, !.tokens = FALSE].ledger = db.ledger
    BY <1>6 DEF Vault
  <2> QED BY <2>1, <2>2, <2>3, FounderSavesKept
<1> QED BY <1>1, <1>2, <1>3, <1>5, <1>7, <1>8, <1>9 DEF Founder

\* An accepted request was the only one of its operation, and the file knows it.
LEMMA AcceptanceKept ==
  ASSUME Inv, Typed', NEW r \in wire, ProviderAccepts(r)
  PROVE  Inv'
<1>1. r.op \in Message /\ r.text \in Text /\ sent \in [Message -> Seq(Text)]
  BY DEF Inv, Typed, TypeOK
<1>2. /\ sent[r.op] = <<>> /\ \A q \in wire : q.op = r.op => q = r
      /\ Started(disk, r.op) /\ Started(db, r.op)
  BY <1>1, StartedPersists
  DEF Inv, SendInvariant, OneRequestPerSend, WriteAhead, QueueAdvances
<1>3. /\ UNCHANGED <<db, disk, queue, call>> /\ wire' = wire \ {r}
      /\ sent'[r.op] = Append(<<>>, r.text)
      /\ \A m \in Message : m # r.op => sent'[m] = sent[m]
  BY <1>1, <1>2 DEF ProviderAccepts
<1>4. sent'[r.op] # <<>> /\ Len(sent'[r.op]) <= 1
  BY <1>1, <1>3
<1>5. QueueAdvances' /\ OneRowPerPerson' /\ SnapshotsHaveOwner'
  BY <1>3
  DEF Inv, SendInvariant, QueueAdvances, Advances, OneRowPerPerson, HasRow, SnapshotsHaveOwner, Started
<1>6. SendsOwnRows'
  <2>1. ASSUME NEW k \in Call, call[k].pc \in {"reserving", "claiming"}
        PROVE  sent'[call[k].msg] = <<>> /\ \A q \in wire' : q.op # call[k].msg
    <3>1. Unsent(call[k].msg) /\ call[k].msg \in Message
      BY <2>1, OwnRow DEF Sending
    <3> QED BY <1>3, <3>1 DEF Unsent
  <2> QED BY <1>3, <2>1 DEF Inv, SendInvariant, SendsOwnRows, Sending, Started, Unsent
<1>7. OneRequestPerSend'
  <2>1. \A q \in wire' : sent'[q.op] = <<>>
    <3>1. \A q \in wire' : q.op \in Message /\ q.op # r.op /\ q \in wire
      BY <1>2, <1>3 DEF Inv, Typed, TypeOK
    <3> QED BY <1>3, <3>1 DEF Inv, SendInvariant, OneRequestPerSend
  <2>2. ASSUME NEW m \in Message PROVE Len(sent'[m]) <= 1
    <3>1. CASE m = r.op
      BY <1>4, <3>1
    <3>2. CASE m # r.op
      BY <1>3, <3>2 DEF Inv, SendInvariant, OneRequestPerSend
    <3> QED BY <3>1, <3>2
  <2> QED BY <1>3, <2>1, <2>2 DEF Inv, SendInvariant, OneRequestPerSend
<1>8. WriteAhead'
  BY <1>2, <1>3 DEF Inv, SendInvariant, WriteAhead, Started
<1>9. TruthfulOutcome'
  <2>1. \A d \in {db, disk} : d.ledger[r.op].status # "failed_pre_dispatch"
    BY <1>2 DEF Started
  <2> QED BY <1>3, <1>4, <2>1 DEF Inv, SendInvariant, TruthfulOutcome
<1> QED BY <1>5, <1>6, <1>7, <1>8, <1>9 DEF Inv, Typed, SendInvariant

\* The memory after a crash is the file, which is behind but truthful.
LEMMA CrashKept ==
  ASSUME Inv, Typed', Crash
  PROVE  Inv'
<1>1. /\ db' = disk /\ disk' = disk /\ queue' = <<>> /\ UNCHANGED <<wire, sent>>
      /\ \A k \in Call : call'[k].pc = "idle" /\ call'[k].io = "none"
  BY DEF Crash, world, Idle
<1>2. QueueAdvances'
  BY <1>1, AdvancesReflexive DEF QueueAdvances
<1>3. OneRowPerPerson'
  <2>1. \A m \in Message : HasRow(disk, m) => HasRow(db, m)
    BY DEF Inv, SendInvariant, QueueAdvances, Advances, MayBecome, HasRow
  <2> QED BY <1>1, <2>1 DEF Inv, SendInvariant, OneRowPerPerson, HasRow
<1>4. SnapshotsHaveOwner' /\ SendsOwnRows'
  BY <1>1 DEF SnapshotsHaveOwner, SendsOwnRows, Sending
<1>5. OneRequestPerSend' /\ WriteAhead' /\ TruthfulOutcome'
  BY <1>1 DEF Inv, SendInvariant, OneRequestPerSend, WriteAhead, TruthfulOutcome, Started
<1> QED BY <1>2, <1>3, <1>4, <1>5 DEF Inv, Typed, SendInvariant

LEMMA WorldKept ==
  ASSUME Inv, Typed', World
  PROVE  Inv'
<1>1. ASSUME UNCHANGED <<db, disk, queue, call, sent>>, wire' \subseteq wire PROVE Inv'
  <2>1. QueueAdvances' /\ OneRowPerPerson' /\ SnapshotsHaveOwner'
    BY <1>1
    DEF Inv, SendInvariant, QueueAdvances, Advances, OneRowPerPerson, HasRow, SnapshotsHaveOwner, Started
  <2>2. SendsOwnRows'
    BY <1>1 DEF Inv, SendInvariant, SendsOwnRows, Sending, Started, Unsent
  <2>3. OneRequestPerSend' /\ WriteAhead' /\ TruthfulOutcome'
    BY <1>1 DEF Inv, SendInvariant, OneRequestPerSend, WriteAhead, TruthfulOutcome, Started
  <2> QED BY <2>1, <2>2, <2>3 DEF Inv, Typed, SendInvariant
<1>2. \A p \in Person : WriteFromElsewhere(p) \/ OptOut(p) => Inv'
  BY <1>1 DEF WriteFromElsewhere, OptOut
<1>3. \A r \in wire : ProviderDrops(r) => Inv'
  BY <1>1 DEF ProviderDrops
<1> QED BY <1>2, <1>3, AcceptanceKept, CrashKept DEF World

\* The oldest snapshot leaves the queue, written or not; its owner is told.
LEMMA QueueKept ==
  ASSUME Inv, Typed', WriteSnapshot \/ WriteFails
  PROVE  Inv'
<1> SUFFICES ASSUME NEW outcome \in {"ok", "error"}, queue # <<>>,
                    queue' = Tail(queue),
                    \/ disk' = disk /\ outcome = "error"
                    \/ disk' = Head(queue).db,
                    call' = Settled(Head(queue).owner, outcome),
                    UNCHANGED <<db, wire, sent>>
             PROVE  Inv'
  BY DEF WriteSnapshot, WriteFails, world
<1> DEFINE s == Head(queue)
<1>1. TypeOK /\ queue \in Seq(Snapshot) /\ s \in Snapshot
  BY DEF Inv, Typed, TypeOK
<1>2. /\ s = queue[1] /\ 1 \in DOMAIN queue
      /\ \A i \in DOMAIN queue' :
           i + 1 \in DOMAIN queue /\ queue'[i] = queue[i + 1] /\ i + 1 # 1 /\ 1 <= i + 1
      /\ \A i, j \in DOMAIN queue' : i <= j => i + 1 <= j + 1
  BY <1>1
<1>3. s.owner \in Call \cup {None}
  BY <1>1 DEF Snapshot
<1> HIDE DEF s
<1>4. \A k \in Call :
        /\ call'[k].pc = call[k].pc /\ call'[k].msg = call[k].msg
        /\ call'[k].io = IF k = s.owner THEN outcome ELSE call[k].io
  BY <1>1, <1>3, SettledAnswers DEF s
<1>5. (disk' = disk /\ outcome = "error") \/ disk' = s.db
  BY DEF s
<1>6. Advances(disk, s.db) /\ Advances(s.db, db) /\ Advances(disk, db)
  BY <1>2 DEF Inv, SendInvariant, QueueAdvances
<1>7. Advances(disk, disk') /\ Advances(disk', db)
  BY <1>5, <1>6, AdvancesReflexive
<1>8. QueueAdvances'
  <2>1. ASSUME NEW i \in DOMAIN queue'
        PROVE  Advances(disk', queue'[i].db) /\ Advances(queue'[i].db, db)
    BY <1>2, <1>5 DEF Inv, SendInvariant, QueueAdvances
  <2>2. \A i, j \in DOMAIN queue' : i <= j => Advances(queue'[i].db, queue'[j].db)
    BY <1>2 DEF Inv, SendInvariant, QueueAdvances
  <2> QED BY <1>7, <2>1, <2>2 DEF QueueAdvances, Advances
<1>9. OneRowPerPerson' /\ OneRequestPerSend'
  BY DEF Inv, SendInvariant, OneRowPerPerson, HasRow, OneRequestPerSend
<1>10. SnapshotsHaveOwner'
  <2>1. ASSUME NEW i \in DOMAIN queue', NEW k \in Call, queue'[i].owner = k
        PROVE  /\ call'[k].io = "pending"
               /\ call'[k].pc = "claiming" => Started(queue'[i].db, call'[k].msg)
    <3>1. k # s.owner
      BY <1>2, <2>1 DEF Inv, SendInvariant, SnapshotsHaveOwner
    <3> QED BY <1>2, <1>4, <2>1, <3>1 DEF Inv, SendInvariant, SnapshotsHaveOwner
  <2>2. ASSUME NEW k \in Call,
               call[k].pc \in {"idle", "listing", "authorizing", "authorized", "calling"}
        PROVE  call'[k].io = "none"
    BY <1>2, <1>4, <2>2 DEF Inv, SendInvariant, SnapshotsHaveOwner
  <2>3. ASSUME NEW i \in DOMAIN queue', NEW j \in DOMAIN queue',
               queue'[i].owner = queue'[j].owner, queue'[i].owner \in Call
        PROVE  i = j
    <3>1. i + 1 = j + 1
      BY <1>2, <2>3 DEF Inv, SendInvariant, SnapshotsHaveOwner
    <3>2. i \in Nat /\ j \in Nat
      BY <1>1
    <3> QED BY <3>1, <3>2
  <2>4. \A k \in Call :
          call'[k].pc \in {"idle", "listing", "authorizing", "authorized", "calling"} =>
            call'[k].io = "none"
    BY <1>4, <2>2
  <2> QED BY <2>1, <2>3, <2>4 DEF SnapshotsHaveOwner, Started
<1>11. SendsOwnRows'
  <2>1. ASSUME NEW k \in Call, call[k].pc = "claiming", call'[k].io = "ok"
        PROVE  Started(disk', call[k].msg)
    <3>1. call[k].msg \in Message
      BY <2>1 DEF Inv, Typed, SendsHaveDraft
    <3>2. CASE k = s.owner
      BY <1>2, <1>4, <1>5, <2>1, <3>2 DEF Inv, SendInvariant, SnapshotsHaveOwner
    <3>3. CASE k # s.owner
      BY <1>4, <1>7, <2>1, <3>1, <3>3, StartedPersists DEF Inv, SendInvariant, SendsOwnRows
    <3> QED BY <3>2, <3>3
  <2>2. ASSUME NEW k \in Call
        PROVE  /\ call'[k].pc = "reserving" => db.ledger[call'[k].msg].status = "reserved"
               /\ call'[k].pc \in {"claiming", "calling"} => Started(db, call'[k].msg)
               /\ call'[k].pc \in {"reserving", "claiming"} => Unsent(call'[k].msg)
               /\ call'[k].pc = "claiming" /\ call'[k].io = "ok" => Started(disk', call'[k].msg)
    BY <1>4, <2>1 DEF Inv, SendInvariant, SendsOwnRows
  <2>3. ASSUME NEW k \in Call, NEW l \in Call, Sending(k)', Sending(l)', call'[k].msg = call'[l].msg
        PROVE  k = l
    <3>1. Sending(k) /\ Sending(l) /\ call[k].msg = call[l].msg
      BY <1>4, <2>3 DEF Sending
    <3> QED BY <3>1 DEF Inv, SendInvariant, SendsOwnRows
  <2> QED BY <2>2, <2>3 DEF SendsOwnRows, Started, Unsent
<1>12. WriteAhead'
  <2>1. \A m \in Message : Started(disk, m) => Started(disk', m)
    BY <1>7, StartedPersists
  <2>2. \A r \in wire : r.op \in Message
    BY <1>1 DEF TypeOK
  <2> QED BY <2>1, <2>2 DEF Inv, SendInvariant, WriteAhead, Started
<1>13. TruthfulOutcome'
  BY <1>7 DEF Advances, MayBecome, Inv, SendInvariant, TruthfulOutcome
<1> QED BY <1>8, <1>9, <1>10, <1>11, <1>12, <1>13 DEF Inv, Typed, SendInvariant

LEMMA NextKept == Inv /\ [Next]_vars => Inv'
<1> SUFFICES ASSUME Inv, [Next]_vars PROVE Inv'
  OBVIOUS
<1>1. Typed'
  BY NextTyped DEF Inv
<1>2. ASSUME UNCHANGED vars PROVE Inv'
  <2>1. UNCHANGED <<db, disk, queue, call, wire, sent>>
    BY <1>2 DEF vars
  <2>2. QueueAdvances' /\ OneRowPerPerson' /\ SnapshotsHaveOwner' /\ SendsOwnRows'
    BY <2>1
    DEF Inv, SendInvariant, QueueAdvances, Advances, OneRowPerPerson, HasRow, SnapshotsHaveOwner,
        SendsOwnRows, Sending, Started, Unsent
  <2>3. OneRequestPerSend' /\ WriteAhead' /\ TruthfulOutcome'
    BY <2>1 DEF Inv, SendInvariant, OneRequestPerSend, WriteAhead, TruthfulOutcome, Started
  <2> QED BY <1>1, <2>2, <2>3 DEF Inv, Typed, SendInvariant
<1> QED BY <1>1, <1>2, FounderKept, WorldKept, QueueKept, CommandsKept DEF Next

LEMMA Invariance == Spec => []Inv
<1>1. Init => Inv
  BY InitKept
<1>2. Inv /\ [Next]_vars => Inv'
  BY NextKept
<1> QED BY <1>1, <1>2, PTL DEF Spec

\* The invariant the other results rest on, in every reachable state: queue,
\* file, memory, running sends and requests on the network agree on the ledger.
THEOREM SendsAreSafe == Spec => []SendInvariant
BY Invariance, PTL DEF Inv

\* executeGuardedSend dispatches only after claim() has persisted the row as
\* "dispatching": whatever crash follows, the file shows the attempt.
THEOREM FileKnowsOfEveryRequest == Spec => []WriteAhead
<1>1. Inv => WriteAhead
  BY DEF Inv, SendInvariant
<1> QED BY <1>1, Invariance, PTL

\* markSendSucceeded, the mailbox confirmation and markFailedBeforeDispatch
\* never record an outcome that is not true, in memory or in the file.
THEOREM OutcomesAreTrue == Spec => []TruthfulOutcome
<1>1. Inv => TruthfulOutcome
  BY DEF Inv, SendInvariant
<1> QED BY <1>1, Invariance, PTL

\* Two deliveries to one person would need two rows of that person in the
\* file, which the unique index on the recipient forbids in the memory that
\* follows it.  reserveApprovedSend and markDispatchStarted are what keeps it.
THEOREM OneMessagePerLife == Spec => []AtMostOncePerPerson
<1>1. Inv => AtMostOncePerPerson
  <2> SUFFICES ASSUME Inv, NEW m \in Message, NEW n \in Message,
                      NEW i \in DOMAIN sent[m], NEW j \in DOMAIN sent[n],
                      Recipient[m] = Recipient[n]
               PROVE  m = n /\ i = j
    BY DEF AtMostOncePerPerson
  <2>1. /\ sent[m] \in Seq(Text) /\ sent[n] \in Seq(Text)
        /\ Len(sent[m]) <= 1 /\ Len(sent[n]) <= 1
    BY DEF Inv, Typed, TypeOK, SendInvariant, OneRequestPerSend
  <2>2. sent[m] # <<>> /\ sent[n] # <<>> /\ i = 1 /\ j = 1
    BY <2>1
  <2>3. Started(disk, m) /\ Started(disk, n) /\ Advances(disk, db)
    BY <2>2 DEF Inv, SendInvariant, WriteAhead, QueueAdvances
  <2>4. HasRow(db, m) /\ HasRow(db, n)
    BY <2>3, StartedPersists
  <2> QED BY <2>2, <2>4 DEF Inv, SendInvariant, OneRowPerPerson
<1> QED BY <1>1, Invariance, PTL

\* persist() chains every write on the one before it, so the file's ledger
\* only moves forward, over failed writes and crashes.
THEOREM FileNeverGoesBack == Spec => DurableLedgerAdvances
<1>1. Inv /\ [Next]_vars => [Advances(disk, disk')]_disk
  <2> SUFFICES ASSUME Inv, [Next]_vars, disk' # disk PROVE Advances(disk, disk')
    BY DEF Advances
  <2>1. WriteSnapshot \/ WriteFails
    BY DEF Next, vars, Founder, World, FounderSaves, CreateDraft, UpdateDraft,
           ApproveDraft, AddSuppression, RemoveSuppression, UpdateCommunicationPolicy, Connect,
           Configure, Disconnect, WriteFromElsewhere, OptOut, ProviderAccepts, ProviderDrops,
           Crash, SyncMail, SendApprovedDraft, Proceed, ListMail, StoreSync, FinishSync, Recheck,
           Authorize, Refuse, ReserveApprovedSend, ReservationNotSaved, GuardRefuses, Claim,
           ClaimNotSaved, Dispatch, ProviderConfirms, OutcomeUnknown, Close
  <2>2. queue # <<>> /\ queue \in Seq(Snapshot) /\ disk' = Head(queue).db
    BY <2>1 DEF WriteSnapshot, WriteFails, Inv, Typed, TypeOK
  <2>3. Head(queue) = queue[1] /\ 1 \in DOMAIN queue
    BY <2>2
  <2> QED BY <2>2, <2>3 DEF Inv, SendInvariant, QueueAdvances
<1> QED BY <1>1, Invariance, PTL DEF Spec, DurableLedgerAdvances
=============================================================================
