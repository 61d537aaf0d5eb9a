------------------------------ MODULE AgentRuns ------------------------------
(***************************************************************************)
(* The life of an agent run: the row in the vault, the adapter (the phases *)
(* of Codex and of Claude, their timers and their cancellation), the       *)
(* events stored on the way, the session the local server keeps for the    *)
(* run, the proposals made through it or with the final answer, and their  *)
(* review by the founder.                                                  *)
(*                                                                         *)
(* Of the vault only the status of the runs and of the proposals is kept;  *)
(* what an accepted proposal creates is stored in the same transaction as  *)
(* the acceptance and goes with it.  Saves are a queue of snapshots, as in *)
(* VaultFile.  The providers are external: they may answer anything, late  *)
(* or never, but Codex answers turn/start before it ends the turn.         *)
(***************************************************************************)
EXTENDS Naturals, Sequences, FiniteSets

CONSTANTS
  Run,        \* agent runs
  RequestId,  \* the request ids agents give to their calls
  None,
  MaxCalls,   \* bound: tool calls of agents that propose something
  MaxDeltas,  \* bound: output events of a run
  MaxReviews, \* bound: proposals reviewed
  MaxFaults   \* bound: failed writes and crashes

ASSUME AgentBounds == MaxCalls \in Nat /\ MaxDeltas \in Nat /\ MaxReviews \in Nat /\ MaxFaults \in Nat
\* Calls are numbered in the order they arrive.
Call == 1..MaxCalls

ASSUME RunsAreNoCalls == Run \cap Call = {} /\ None \notin Run \cup RequestId

VARIABLES
  db,       \* the vault in memory: rows of runs and of proposals
  disk,     \* the vault file
  queue,    \* snapshots being saved, with who waits for each
  run,      \* the runs
  call,     \* the tool calls
  used,     \* session.requests: request ids a session has seen
  decided,  \* the decisions the founder was told
  reviews,  \* counter for MaxReviews
  faults    \* counter for MaxFaults

vars == <<db, disk, queue, run, call, used, decided, reviews, faults>>

\* A proposal is named after the call that made it, or after the run whose
\* final answer it came with.
Proposal == Call \cup Run

EmptyVault == [row |-> [r \in Run |-> "none"], proposal |-> [p \in Proposal |-> "none"]]

NewRun == [pc |-> "idle", provider |-> "codex", cancelled |-> FALSE, rejected |-> FALSE,
           timedOut |-> FALSE, cancel |-> "none", session |-> FALSE, outcome |-> "none",
           deltas |-> 0, unsaved |-> FALSE, lost |-> FALSE]

NewCall == [pc |-> "idle", run |-> None, id |-> None, told |-> "nothing"]

At(r, pc) == run[r].pc = pc
InAdapter(r) == run[r].pc \in {"probing", "preparing", "starting", "turn"}
Active(r) == InAdapter(r) \/ At(r, "ended")

Proceeds(r, pc) == [run EXCEPT ![r].pc = pc]

Snapshot(d, who, what) == [vault |-> d, who |-> who, what |-> what]

Persist(d, who, what) ==
  /\ db' = d
  /\ queue' = Append(queue, Snapshot(d, who, what))

Fault == faults < MaxFaults /\ faults' = faults + 1

-----------------------------------------------------------------------------
(* Saving; what awaited a save goes on before the next one is written *)

\* Where a tool call goes on when its save succeeded, or failed.
AfterSave == [audit |-> "audited", proposal |-> "proposed", closing |-> "closed",
              failed |-> "done"]
AfterFailure == [audit |-> "done", proposal |-> "unsaved", closing |-> "unsaved",
                 failed |-> "done"]

Resumed(w, where) ==
  IF w.what \in DOMAIN where THEN [call EXCEPT ![w.who].pc = where[w.what]] ELSE call

Settled ==
  /\ \A r \in Run : run[r].pc \notin {"created", "not created"}
  /\ \A c \in Call : call[c].pc \notin {"audited", "proposed", "closed", "unsaved"}

WriteSnapshot ==
  /\ queue # <<>> /\ Settled
  /\ disk' = Head(queue).vault
  /\ queue' = Tail(queue)
  /\ LET w == Head(queue)
     IN  /\ run' = IF w.what = "row" THEN Proceeds(w.who, "created") ELSE run
         /\ call' = Resumed(w, AfterSave)
         /\ decided' = IF w.what = "review"
                       THEN [decided EXCEPT ![w.who] = w.vault.proposal[w.who]] ELSE decided
  /\ UNCHANGED <<db, used, reviews, faults>>

\* An event that was not saved is followed by an event of the failure, which
\* makes the run a failed one; if that is not saved either, nothing follows.
EventNotSaved(w) ==
  LET failed == [db EXCEPT !.row[w.who] = "failed"]
  IN  /\ db' = failed
      /\ queue' = Append(Tail(queue), Snapshot(failed, w.who, "last"))
      /\ UNCHANGED <<run, call>>

WriteFails ==
  /\ queue # <<>> /\ Settled
  /\ Fault
  /\ disk' \in {disk, Head(queue).vault}
  /\ LET w == Head(queue)
     IN  IF w.what = "event"
         THEN EventNotSaved(w)
         ELSE /\ queue' = Tail(queue)
              /\ run' = CASE w.what = "row" -> Proceeds(w.who, "not created")
                          [] w.what = "last" -> [run EXCEPT ![w.who].unsaved = TRUE]
                          [] OTHER -> run
              /\ call' = Resumed(w, AfterFailure)
              /\ UNCHANGED db
  /\ UNCHANGED <<used, decided, reviews>>

Crash ==
  /\ Fault
  /\ db' = disk
  /\ queue' = <<>>
  /\ run' = [r \in Run |-> IF At(r, "idle") THEN run[r]
                           ELSE [run[r] EXCEPT !.pc = "over", !.session = FALSE, !.lost = TRUE,
                                              !.cancel = IF @ = "confirmed" THEN @ ELSE "none"]]
  /\ call' = [c \in Call |-> IF call[c].pc = "idle" THEN call[c]
                             ELSE [call[c] EXCEPT !.pc = "done"]]
  /\ used' = [r \in Run |-> {}]
  /\ UNCHANGED <<disk, decided, reviews>>

-----------------------------------------------------------------------------
(* Starting *)

AgentRun(r, provider) ==
  /\ At(r, "idle")
  /\ run' = [run EXCEPT ![r].pc = "creating", ![r].provider = provider]
  /\ Persist([db EXCEPT !.row[r] = "running"], r, "row")
  /\ UNCHANGED <<disk, call, used, decided, reviews, faults>>

\* The session is registered, the adapter begins, the event of it is stored.
StartRun(r) ==
  /\ At(r, "created")
  /\ run' = [run EXCEPT ![r].pc = "probing", ![r].session = TRUE]
  /\ Persist(db, r, "event")
  /\ UNCHANGED <<disk, call, used, decided, reviews, faults>>

\* The row was not saved, or the context, the session or the adapter is
\* refused: the row stays as it is.
NotStarted(r) ==
  /\ run[r].pc \in {"created", "not created"}
  /\ run' = [run EXCEPT ![r].pc = "over", ![r].lost = TRUE]
  /\ UNCHANGED <<db, disk, queue, call, used, decided, reviews, faults>>

-----------------------------------------------------------------------------
(* The end of a run in the adapter, and of its events in the service *)

Ended(r, outcome) == [run EXCEPT ![r].pc = "ended", ![r].outcome = outcome]

\* Cancelled runs and failed ones are stored as failed.
Fails(r, outcome) ==
  /\ run' = Ended(r, outcome)
  /\ Persist([db EXCEPT !.row[r] = "failed"], r, "last")

Completes(r) ==
  /\ run' = Ended(r, "completed")
  /\ Persist([db EXCEPT !.row[r] = "completed"], r, "event")

CompletesWithProposal(r) ==
  LET proposed == [db EXCEPT !.proposal[r] = "pending"]
      completed == [proposed EXCEPT !.row[r] = "completed"]
  IN  /\ run' = Ended(r, "completed")
      /\ db' = completed
      /\ queue' = queue \o <<Snapshot(proposed, r, "event"), Snapshot(completed, r, "event")>>

\* A proposal that cannot be stored makes the run a failed one, afterwards.
CompletesWithoutProposal(r) ==
  LET completed == [db EXCEPT !.row[r] = "completed"]
      failed == [db EXCEPT !.row[r] = "failed"]
  IN  /\ run' = Ended(r, "completed")
      /\ db' = failed
      /\ queue' = queue \o <<Snapshot(completed, r, "event"), Snapshot(failed, r, "last")>>

Finishes(r) ==
  IF run[r].cancelled
  THEN Fails(r, "cancelled")
  ELSE \/ Completes(r) \/ CompletesWithProposal(r) \/ CompletesWithoutProposal(r)
       \/ Fails(r, "failed")

\* Mutant of ServiceEnds: the events under way are not waited for.
ServiceEndsAtOnce(r) ==
  /\ At(r, "ended")
  /\ run' = [run EXCEPT ![r].pc = "over", ![r].session = FALSE]
  /\ UNCHANGED <<db, disk, queue, call, used, decided, reviews, faults>>

\* Mutant of ServiceEnds: the session is left open.
ServiceEndsOpen(r) ==
  /\ At(r, "ended")
  /\ \A i \in DOMAIN queue : queue[i].who = r => queue[i].what \notin {"event", "last"}
  /\ run' = Proceeds(r, "over")
  /\ UNCHANGED <<db, disk, queue, call, used, decided, reviews, faults>>

ServiceEnds(r) ==
  /\ At(r, "ended")
  /\ \A i \in DOMAIN queue : queue[i].who = r => queue[i].what \notin {"event", "last"}
  /\ run' = [run EXCEPT ![r].pc = "over", ![r].session = FALSE]
  /\ UNCHANGED <<db, disk, queue, call, used, decided, reviews, faults>>

-----------------------------------------------------------------------------
(* The phases of the adapters *)

StartsTurn(r, pc) ==
  /\ run' = Proceeds(r, pc)
  /\ UNCHANGED <<db, queue>>

\* Each provider is asked for its account first, with timeouts of its own.
Probed(r) ==
  /\ At(r, "probing")
  /\ \/ Fails(r, IF run[r].cancelled THEN "cancelled" ELSE "failed")
     \/ ~ run[r].cancelled /\ StartsTurn(r, IF run[r].provider = "codex" THEN "preparing" ELSE "turn")
  /\ UNCHANGED <<disk, call, used, decided, reviews, faults>>

\* Codex: thread/start is answered, refused or timed out.
ThreadStarted(r) ==
  /\ At(r, "preparing")
  /\ \/ Fails(r, "failed")
     \/ run[r].cancelled /\ Fails(r, "cancelled")
     \/ ~ run[r].cancelled /\ StartsTurn(r, "starting")
  /\ UNCHANGED <<disk, call, used, decided, reviews, faults>>

\* Codex: turn/start likewise; the flag is not asked again, but a cancellation
\* has rejected the promise of the answer.
TurnStarted(r) ==
  /\ At(r, "starting")
  /\ \/ Fails(r, "failed")
     \/ run[r].rejected /\ Fails(r, "cancelled")
     \/ ~ run[r].rejected /\ StartsTurn(r, "turn")
  /\ UNCHANGED <<disk, call, used, decided, reviews, faults>>

Delta(r) ==
  /\ At(r, "turn") /\ ~ run[r].timedOut
  /\ run[r].cancelled => run[r].provider = "codex"
  /\ run[r].deltas < MaxDeltas
  /\ run' = [run EXCEPT ![r].deltas = @ + 1]
  /\ Persist(db, r, "event")
  /\ UNCHANGED <<disk, call, used, decided, reviews, faults>>

\* The provider ends the turn, well or badly.
Answered(r) ==
  /\ At(r, "turn") /\ ~ run[r].timedOut
  /\ Finishes(r)
  /\ UNCHANGED <<disk, call, used, decided, reviews, faults>>

\* Mutant of Timer: only Claude's turns are timed.
TimerOfClaude(r) ==
  /\ At(r, "turn") /\ ~ run[r].timedOut
  /\ run[r].provider = "claude"
  /\ run' = [run EXCEPT ![r].timedOut = TRUE] /\ UNCHANGED <<db, queue>>
  /\ UNCHANGED <<disk, call, used, decided, reviews, faults>>

\* Codex rejects the answer at once, Claude closes its query.
Timer(r) ==
  /\ At(r, "turn") /\ ~ run[r].timedOut
  /\ IF run[r].provider = "codex"
     THEN Fails(r, "failed")
     ELSE run' = [run EXCEPT ![r].timedOut = TRUE] /\ UNCHANGED <<db, queue>>
  /\ UNCHANGED <<disk, call, used, decided, reviews, faults>>

\* Claude: the loop over the messages ends when its query was closed.
QueryEnds(r) ==
  /\ At(r, "turn") /\ run[r].provider = "claude"
  /\ run[r].cancelled \/ run[r].timedOut
  /\ Fails(r, IF run[r].cancelled THEN "cancelled" ELSE "failed")
  /\ UNCHANGED <<disk, call, used, decided, reviews, faults>>

-----------------------------------------------------------------------------
(* Cancelling *)

\* Mutant of Confirmed: the session stays until the run is over.
ConfirmedOnly(r) ==
  [run EXCEPT ![r].cancelled = TRUE, ![r].rejected = TRUE, ![r].cancel = "confirmed"]

\* The adapter has said that the run is cancelled: the session goes.
Confirmed(r) ==
  [run EXCEPT ![r].cancelled = TRUE, ![r].rejected = TRUE, ![r].cancel = "confirmed",
              ![r].session = FALSE]

\* Codex is first asked to interrupt a turn that has an id.
Cancel(r) ==
  /\ InAdapter(r) /\ run[r].cancel = "none"
  /\ run' = IF run[r].provider = "codex" /\ At(r, "turn")
            THEN [run EXCEPT ![r].cancelled = TRUE, ![r].cancel = "interrupting"]
            ELSE Confirmed(r)
  /\ UNCHANGED <<db, disk, queue, call, used, decided, reviews, faults>>

\* The interruption is answered, fails, or is given up after ten seconds; the
\* run may be at its end by then.
InterruptEnds(r) ==
  /\ run[r].cancel = "interrupting"
  /\ run' = IF At(r, "turn")
            THEN [Confirmed(r) EXCEPT ![r].pc = "ended", ![r].outcome = "cancelled"]
            ELSE Confirmed(r)
  /\ IF At(r, "turn")
     THEN Persist([db EXCEPT !.row[r] = "failed"], r, "last")
     ELSE UNCHANGED <<db, queue>>
  /\ UNCHANGED <<disk, call, used, decided, reviews, faults>>

-----------------------------------------------------------------------------
(* Tool calls that propose something *)

Moves(c, pc) == call' = [call EXCEPT ![c].pc = pc]
Refused(c) == call' = [call EXCEPT ![c].pc = "done", ![c].told = "refused"]

HasSession(c) == run[call[c].run].session

\* Mutant of Unused: an id is taken only once its request was stored.
UnusedYet(r, id) ==
  \A c \in Call : call[c].run = r /\ call[c].id = id => call[c].pc \in {"auditing", "done"}

\* A request id is taken before its request is stored.
Unused(r, id) == id \notin used[r]

Request(c, r, id) ==
  /\ call[c].pc = "idle" /\ \A d \in 1..(c - 1) : call[d].pc # "idle"
  /\ run[r].session
  /\ IF Unused(r, id)
     THEN /\ call' = [call EXCEPT ![c] = [pc |-> "auditing", run |-> r, id |-> id, told |-> "nothing"]]
          /\ used' = [used EXCEPT ![r] = @ \cup {id}]
          /\ Persist(db, c, "audit")
     ELSE /\ call' = [call EXCEPT ![c] = [pc |-> "done", run |-> r, id |-> id, told |-> "refused"]]
          /\ UNCHANGED <<db, queue, used>>
  /\ UNCHANGED <<disk, run, decided, reviews, faults>>

\* The access is refused, or the session is gone.
Denied(c) ==
  /\ call[c].pc = "audited"
  /\ IF HasSession(c)
     THEN Moves(c, "failing") /\ Persist(db, c, "failed")
     ELSE Refused(c) /\ UNCHANGED <<db, queue>>
  /\ UNCHANGED <<disk, run, used, decided, reviews, faults>>

Propose(c) ==
  /\ call[c].pc = "audited"
  /\ HasSession(c)
  /\ Moves(c, "proposing")
  /\ Persist([db EXCEPT !.proposal[c] = "pending"], c, "proposal")
  /\ UNCHANGED <<disk, run, used, decided, reviews, faults>>

CloseAudit(c) ==
  /\ call[c].pc = "proposed"
  /\ IF HasSession(c)
     THEN Moves(c, "closing") /\ Persist(db, c, "closing")
     ELSE Refused(c) /\ UNCHANGED <<db, queue>>
  /\ UNCHANGED <<disk, run, used, decided, reviews, faults>>

Tell(c) ==
  /\ call[c].pc = "closed"
  /\ call' = [call EXCEPT ![c].pc = "done", ![c].told = "pending"]
  /\ UNCHANGED <<db, disk, queue, run, used, decided, reviews, faults>>

\* The call is reported as rejected, with a proposal in the vault all the same.
TellFailure(c) ==
  /\ call[c].pc = "unsaved"
  /\ IF HasSession(c)
     THEN Moves(c, "failing") /\ Persist(db, c, "failed")
     ELSE Refused(c) /\ UNCHANGED <<db, queue>>
  /\ UNCHANGED <<disk, run, used, decided, reviews, faults>>

-----------------------------------------------------------------------------
(* Reviewing *)

Review(p, decision) ==
  /\ db.proposal[p] = "pending"
  /\ reviews < MaxReviews /\ reviews' = reviews + 1
  /\ Persist([db EXCEPT !.proposal[p] = decision], p, "review")
  /\ UNCHANGED <<disk, run, call, used, decided, faults>>

-----------------------------------------------------------------------------

Init ==
  /\ db = EmptyVault /\ disk = EmptyVault
  /\ queue = <<>>
  /\ run = [r \in Run |-> NewRun]
  /\ call = [c \in Call |-> NewCall]
  /\ used = [r \in Run |-> {}]
  /\ decided = [p \in Proposal |-> "none"]
  /\ reviews = 0
  /\ faults = 0

Adapter(r) ==
  \/ Probed(r) \/ ThreadStarted(r) \/ TurnStarted(r) \/ Timer(r) \/ QueryEnds(r)

Service(r) ==
  \/ StartRun(r) \/ NotStarted(r) \/ ServiceEnds(r) \/ InterruptEnds(r)

ToolCall(c) ==
  \/ Denied(c) \/ Propose(c) \/ CloseAudit(c) \/ Tell(c) \/ TellFailure(c)

Saving == WriteSnapshot \/ WriteFails

Next ==
  \/ \E r \in Run : \/ \E provider \in {"codex", "claude"} : AgentRun(r, provider)
                    \/ Adapter(r) \/ Delta(r) \/ Answered(r)
                    \/ Service(r) \/ Cancel(r)
  \/ \E c \in Call : \/ \E r \in Run, id \in RequestId : Request(c, r, id)
                     \/ ToolCall(c)
  \/ \E p \in Proposal, decision \in {"accepted", "rejected"} : Review(p, decision)
  \/ Saving \/ Crash

Spec == Init /\ [][Next]_vars

\* Requests to Codex and interruptions have timeouts, turns have timers, the
\* query of Claude ends when it is closed, and the file system answers.  No
\* provider has to answer.
FairSpec ==
  /\ Spec /\ WF_vars(Saving)
  /\ \A r \in Run : WF_vars(Adapter(r)) /\ WF_vars(Service(r))
  /\ \A c \in Call : WF_vars(ToolCall(c))

-----------------------------------------------------------------------------
(* Properties *)

Settlement == {"completed", "failed"}

\* The type of every variable.
AgentTypeOK ==
  LET Vault == [row : [Run -> {"none", "running"} \cup Settlement],
                proposal : [Proposal -> {"none", "pending", "accepted", "rejected"}]]
  IN  /\ db \in Vault /\ disk \in Vault
      /\ queue \in Seq([vault : Vault, who : Proposal,
                        what : {"row", "event", "last", "review"} \cup DOMAIN AfterSave])
      /\ \A r \in Run : /\ run[r].outcome \in Settlement \cup {"none", "cancelled"}
                        /\ run[r].session => Active(r)
                        /\ used[r] \subseteq RequestId
      /\ \A c \in Call : call[c].told \in {"nothing", "refused", "pending"}
      /\ decided \in [Proposal -> {"none", "accepted", "rejected"}]

\* Once the founder was told that a run is cancelled (AgentService.cancel), it is
\* never counted or stored as completed, however late its answer, and it
\* proposes nothing any more: not by a tool call that was under way, and not
\* with a final answer.
CancelIsFinal ==
  [][\A r \in Run : run[r].cancel = "confirmed" =>
       /\ run'[r].outcome # "completed"
       /\ \A p \in {r} \cup {c \in Call : call[c].run = r} :
            db.proposal[p] = "none" => db'.proposal[p] = "none"]_vars

\* A run that was started and is over is settled in the vault and, unless the
\* save of its failure failed too, in the file, by the time it no longer counts
\* as active and a backup may be restored (waitForDeliveries); it is stored as
\* completed only if it was.
RunIsSettled ==
  \A r \in Run :
    /\ At(r, "over") /\ ~ run[r].lost =>
         /\ db.row[r] \in Settlement
         /\ disk.row[r] \in Settlement \/ run[r].unsaved
    /\ "completed" \in {db.row[r], disk.row[r]} => run[r].outcome = "completed"

\* What was told about proposals is so, after a crash as well: an agent told that
\* its proposal is pending has one in the file (createProposal), a decision the
\* founder was told stands in the vault and the file (reviewAgentProposal), and
\* a request that is repeated makes no second proposal (recordAuditEvent).
ProposalsAreTold ==
  /\ \A c \in Call : call[c].told = "pending" => disk.proposal[c] # "none"
  /\ \A p \in Proposal : decided[p] # "none" => /\ db.proposal[p] = decided[p]
                                               /\ disk.proposal[p] = decided[p]
  /\ \A c, d \in Call :
       /\ call[c].run # None /\ call[c].run = call[d].run /\ call[c].id = call[d].id
       /\ "none" \notin {db.proposal[c], db.proposal[d]}
       => c = d

\* Every run ends in the adapter and in the service, and every tool call and
\* cancellation is answered, though no provider ever answers.
RunsEnd ==
  /\ \A r \in Run : Active(r) ~> ~ Active(r)
  /\ \A r \in Run : run[r].cancel = "interrupting" ~> run[r].cancel # "interrupting"
  /\ \A c \in Call : call[c].pc # "idle" ~> call[c].pc = "done"
=============================================================================
