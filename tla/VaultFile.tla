------------------------------ MODULE VaultFile ------------------------------
(***************************************************************************)
(* The life of the vault file: launching (with the reset marker, migration *)
(* and the back-fill of the audit chain), saving through the queue of      *)
(* snapshots, exporting and restoring backups, resetting, quitting and     *)
(* crashing; and what a restore must exclude: the commands of the window   *)
(* (CommandService.execute), agent runs (the restore lease) and the        *)
(* agent's key, which is kept in memory as well as in the vault.           *)
(*                                                                         *)
(* Of a vault only its identity, its workspace, the agent's key and the    *)
(* audit trail are kept.  A generation is a vault object: a restore makes  *)
(* a new one.  A workspace begins with a fresh vault after a reset.        *)
(***************************************************************************)
EXTENDS AuditChain

CONSTANTS
  Call,       \* commands and other calls that may overlap
  Key,        \* keys the founder may store for the agent
  LaunchKey,  \* the key in the environment at launch, or None
  None,
  MaxStarts,  \* bound: calls started
  MaxFaults,  \* bound: failed writes and crashes
  MaxLog      \* bound: rows of the audit log

ASSUME VaultFileBounds == MaxStarts \in Nat /\ MaxFaults \in Nat /\ MaxLog \in Nat \ {0}
ASSUME NoneIsNoValue == None \notin Call \cup Key
ASSUME CallsAreFew == IsFiniteSet(Call) /\ {"launch", "run"} \cap Call = {}
ASSUME SomeKey == Key # {}

VARIABLES
  disk,       \* the vault file, or NoFile
  marker,     \* the workspace the reset marker was written in, 0 without one
  app,        \* how far the program has started
  db,         \* the vault in memory
  queue,      \* the snapshots being saved, oldest first
  call,       \* the running calls
  inFlight,   \* #commandsInFlight of CommandService
  restoring,  \* #vaultRestoreInProgress of CommandService
  lease,      \* #vaultRestoreInProgress of DesktopAgentService
  run,        \* the agent run
  agentKey,   \* the key in the agent adapter
  backups,    \* the vaults in backup files
  made,       \* generations made so far
  doomed,     \* workspaces whose reset was reported as scheduled
  unsure,     \* a change of the key was reported as failed in this session
  unread,     \* history: the agent's key was loaded without the stored one
  starts,     \* counter for MaxStarts
  faults      \* counter for MaxFaults

guards == <<inFlight, restoring, lease>>
agent == <<run, agentKey, unsure, unread>>
files == <<disk, marker, backups, doomed>>
counters == <<starts, faults>>
vars == <<disk, marker, app, db, queue, call, inFlight, restoring, lease, run, agentKey,
          backups, made, doomed, unsure, unread, starts, faults>>

NoFile == [gen |-> 0, workspace |-> 0, key |-> None, log |-> <<>>, chain |-> <<>>]
Idle == [pc |-> "idle", does |-> "nothing", gen |-> 0, key |-> None, from |-> NoFile]
NoRun == [phase |-> "none", gen |-> 0, key |-> None]

At(k, pc) == call[k].pc = pc
Does(k, what) == call[k].does = what
Busy(k) == call[k].pc # "idle"

\* Calls that come through CommandService.execute.
Outsider == {"mail", "quit"}
Dispatched(k) == Busy(k) /\ call[k].does \notin Outsider

Fault == faults < MaxFaults /\ faults' = faults + 1

-----------------------------------------------------------------------------
(* Saving *)

CanLog(v) == Len(v.log) < MaxLog

\* A change writes a row of the log; past the bound the log stands still.
Logged(v) == IF CanLog(v) THEN Appended(v, "change") ELSE v

\* persist(): the snapshot is taken now and written after all earlier ones.
Persist(d, k, waiting) ==
  /\ db' = d
  /\ queue' = Append(queue, [vault |-> d, owner |-> k])
  /\ call' = waiting

Goto(k, pc) == [call EXCEPT ![k].pc = pc]

Told(k, how) == IF k \in Call THEN Goto(k, how) ELSE call

\* What awaited a save goes on before the next one is written.
Settled == \A k \in Call : call[k].pc \notin {"saved", "unsaved"}

WriteSnapshot ==
  /\ queue # <<>> /\ Settled
  /\ disk' = Head(queue).vault
  /\ call' = Told(Head(queue).owner, "saved")
  /\ queue' = Tail(queue)
  /\ UNCHANGED <<marker, app, db, guards, agent, backups, made, doomed, counters>>

\* The process is gone, whatever it was doing.
Gone ==
  /\ app' = "down"
  /\ db' = NoFile
  /\ queue' = <<>>
  /\ call' = [k \in Call |-> Idle]
  /\ inFlight' = 0 /\ restoring' = FALSE /\ lease' = FALSE
  /\ run' = NoRun /\ agentKey' = None /\ unsure' = FALSE /\ unread' = FALSE

\* Mutant of WriteFails: nobody is told.
WriteFailsUnheard ==
  /\ queue # <<>> /\ Settled
  /\ Fault
  /\ queue' = Tail(queue)
  /\ UNCHANGED <<files, app, db, call, guards, agent, made, starts>>

\* The rename may be done when the directory cannot be synced.  The program
\* does not start on a vault it could not save.
WriteFails ==
  /\ queue # <<>> /\ Settled
  /\ Fault
  /\ disk' \in {disk, Head(queue).vault}
  /\ IF Head(queue).owner = "launch"
     THEN Gone
     ELSE /\ call' = Told(Head(queue).owner, "unsaved")
          /\ queue' = Tail(queue)
          /\ UNCHANGED <<app, db, guards, agent>>
  /\ UNCHANGED <<marker, backups, doomed, made, starts>>

-----------------------------------------------------------------------------
(* Launching *)

FindMarker ==
  /\ app = "down"
  /\ app' = IF marker # 0 THEN "marked" ELSE "reading"
  /\ UNCHANGED <<files, db, queue, call, guards, agent, made, counters>>

\* Mutant of UnlinkVault: the error of a missing vault passes over the marker.
UnlinkVaultIfAny ==
  /\ app = "marked"
  /\ disk' = NoFile
  /\ app' = IF disk = NoFile THEN "reading" ELSE "unlinked"
  /\ UNCHANGED <<marker, backups, doomed, db, queue, call, guards, agent, made, counters>>

\* A vault that is gone already is no error.
UnlinkVault ==
  /\ app = "marked"
  /\ disk' = NoFile
  /\ app' = "unlinked"
  /\ UNCHANGED <<marker, backups, doomed, db, queue, call, guards, agent, made, counters>>

UnlinkMarker ==
  /\ app = "unlinked"
  /\ marker' = 0
  /\ app' = "reading"
  /\ UNCHANGED <<disk, backups, doomed, db, queue, call, guards, agent, made, counters>>

\* Mutant of Opened: the rows from before the chain are left as they are.
OpenedAsIs(v) == v

\* Migration leaves the rows of an old log without a chain.
Opened(v) == Backfilled(v)

Fresh == [NoFile EXCEPT !.gen = made + 1, !.workspace = made + 1]

OpenVault ==
  /\ app = "reading"
  /\ app' = "opening"
  /\ LET d == IF disk = NoFile THEN Fresh ELSE Opened(disk)
     IN  /\ Persist(d, "launch", call)
         /\ made' = IF disk = NoFile THEN made + 1 ELSE made
  /\ UNCHANGED <<files, guards, agent, counters>>

\* Mutant of LoadKey: the agent keeps its key when no other can be read.
LoadKeyOrKeep(fallback) ==
  /\ \E stored \in {db.key, None} :
       /\ agentKey' \in IF stored # None THEN {stored} ELSE fallback \cup {agentKey}
       /\ unread' = (stored # db.key)
  /\ unsure' = FALSE

\* A stored key reads as none when the secret backend is unavailable or cannot
\* decrypt it, which is the rule for a backup of another device: the agent goes
\* on with what it falls back to, and nobody is told.
LoadKey(fallback) ==
  /\ \E stored \in {db.key, None} :
       /\ agentKey' \in IF stored # None THEN {stored} ELSE fallback
       /\ unread' = (stored # db.key)
  /\ unsure' = FALSE

\* The checks of start(), and DesktopAgentService.create.
FinishLaunch ==
  /\ app = "opening" /\ queue = <<>>
  /\ app' = IF Verified(db) THEN "up" ELSE "refused"
  /\ LoadKey({LaunchKey})
  /\ UNCHANGED <<files, db, queue, call, guards, run, made, counters>>

Crash ==
  /\ app # "down"
  /\ Fault
  /\ Gone
  /\ UNCHANGED <<files, made, starts>>

-----------------------------------------------------------------------------
(* Dispatching commands *)

Begin(k, what, pc, key, from) ==
  /\ app = "up"
  /\ ~ Busy(k)
  /\ starts < MaxStarts /\ starts' = starts + 1
  /\ call' = [call EXCEPT ![k] =
       [pc |-> pc, does |-> what, gen |-> db.gen, key |-> key, from |-> from]]

Dispatch(k, what, pc, key) ==
  /\ ~ restoring
  /\ Begin(k, what, pc, key, NoFile)
  /\ inFlight' = inFlight + 1
  /\ UNCHANGED <<files, app, db, queue, restoring, lease, agent, made, faults>>

\* Mutant of Finally: the calls beside the commands are counted back too.
FinallyForAll(k) ==
  /\ call' = [call EXCEPT ![k] = Idle]
  /\ IF Does(k, "restore")
     THEN restoring' = FALSE /\ lease' = FALSE /\ UNCHANGED inFlight
     ELSE inFlight' = inFlight - 1 /\ UNCHANGED <<restoring, lease>>

\* The finally blocks of execute and of backup.restore.
Finally(k) ==
  /\ call' = [call EXCEPT ![k] = Idle]
  /\ IF Does(k, "restore")
     THEN restoring' = FALSE /\ lease' = FALSE /\ UNCHANGED inFlight
     ELSE /\ inFlight' = IF call[k].does \in Outsider THEN inFlight ELSE inFlight - 1
          /\ UNCHANGED <<restoring, lease>>

Ends(k) ==
  /\ Finally(k)
  /\ UNCHANGED <<files, app, db, queue, agent, made, counters>>

\* Any command that changes the vault, at once and after anything it awaits.
Change(k) ==
  /\ At(k, "working")
  /\ Persist(Logged(db), k, Goto(k, "saving"))
  /\ UNCHANGED <<files, app, guards, agent, made, counters>>

ChangeGoesOn(k) ==
  /\ At(k, "saved") /\ Does(k, "change")
  /\ CanLog(db)
  /\ call' = Goto(k, "working")
  /\ UNCHANGED <<files, app, db, queue, guards, agent, made, counters>>

ChangeEnds(k) ==
  /\ At(k, "working") \/ (call[k].pc \in {"saved", "unsaved"} /\ Does(k, "change"))
  /\ Ends(k)

-----------------------------------------------------------------------------
(* The agent's key *)

\* Both checks are made before the first await only.
KeyMayChange == ~ lease /\ run = NoRun

SetKey(k, key) == KeyMayChange /\ Dispatch(k, "key", "encrypting", key)

\* No secret backend: nothing was changed yet.
EncryptingFails(k) ==
  /\ At(k, "encrypting")
  /\ Ends(k)

StoreKey(k) ==
  /\ At(k, "encrypting")
  /\ Persist([db EXCEPT !.key = call[k].key], k, Goto(k, "saving"))
  /\ UNCHANGED <<files, app, guards, agent, made, counters>>

\* Logging out removes the key as well, without the check.
RemoveKey(k) ==
  /\ KeyMayChange \/ agentKey # None
  /\ Dispatch(k, "key", "removing", None)

DeleteKey(k) ==
  /\ At(k, "removing")
  /\ Persist([db EXCEPT !.key = None], k, Goto(k, "saving"))
  /\ UNCHANGED <<files, app, guards, agent, made, counters>>

\* setApiKey of the adapter refuses while it carries out a run.
UseKey(k) ==
  /\ At(k, "saved") /\ Does(k, "key")
  /\ IF run.phase = "adapter"
     THEN unsure' = TRUE /\ UNCHANGED <<agentKey, unread>>
     ELSE agentKey' = call[k].key /\ unread' = FALSE /\ UNCHANGED unsure
  /\ Finally(k)
  /\ UNCHANGED <<files, app, db, queue, run, made, counters>>

KeyNotSaved(k) ==
  /\ At(k, "unsaved") /\ Does(k, "key")
  /\ unsure' = TRUE
  /\ Finally(k)
  /\ UNCHANGED <<files, app, db, queue, run, agentKey, unread, made, counters>>

-----------------------------------------------------------------------------
(* Agent runs, one at a time: the command ends when the run has started *)

AgentRun(k) ==
  /\ run = NoRun /\ \A j \in Call : ~ Does(j, "run")
  /\ Dispatch(k, "run", "creating", None)

CreateAgentRun(k) ==
  /\ At(k, "creating")
  /\ Persist(Logged(db), k, Goto(k, "saving"))
  /\ UNCHANGED <<files, app, guards, agent, made, counters>>

StartRun(k) ==
  /\ At(k, "saved") /\ Does(k, "run")
  /\ run' = IF lease THEN run ELSE [phase |-> "adapter", gen |-> call[k].gen, key |-> agentKey]
  /\ Finally(k)
  /\ UNCHANGED <<files, app, db, queue, agentKey, unsure, unread, made, counters>>

RunNotCreated(k) ==
  /\ At(k, "unsaved") /\ Does(k, "run")
  /\ Ends(k)

\* An event or a proposal of the run.
RunEvent ==
  /\ run.phase = "adapter"
  /\ CanLog(db)
  /\ Persist(Appended(db, "change"), "run", call)
  /\ UNCHANGED <<files, app, guards, agent, made, counters>>

\* The adapter is done; its last event is still being saved.
RunAnswered ==
  /\ run.phase = "adapter"
  /\ run' = [run EXCEPT !.phase = "delivering"]
  /\ Persist(db, "run", call)
  /\ UNCHANGED <<files, app, guards, agentKey, unsure, unread, made, counters>>

\* The run is over when its events have been saved, or their saves have failed.
RunEnds ==
  /\ run.phase = "delivering"
  /\ \A i \in DOMAIN queue : queue[i].owner # "run"
  /\ run' = NoRun
  /\ UNCHANGED <<files, app, db, queue, call, guards, agentKey, unsure, unread, made, counters>>

-----------------------------------------------------------------------------
(* Backups *)

\* The bytes are taken when the command begins.
ExportBackup(k) ==
  /\ ~ restoring
  /\ Begin(k, "export", "encrypting backup", None, db)
  /\ inFlight' = inFlight + 1
  /\ UNCHANGED <<files, app, db, queue, restoring, lease, agent, made, faults>>

StoreBackup(k) ==
  /\ At(k, "encrypting backup")
  /\ backups' = backups \cup {call[k].from}
  /\ Persist(Logged(db), k, Goto(k, "saving"))
  /\ UNCHANGED <<disk, marker, doomed, app, guards, agent, made, counters>>

\* Mutant of Restore: a command that runs already is not noticed.
RestoreAnyway(k, b) ==
  /\ ~ restoring
  /\ Begin(k, "restore", "reading backup", None, b)
  /\ restoring' = TRUE
  /\ lease' = (run = NoRun)
  /\ UNCHANGED <<files, app, db, queue, inFlight, agent, made, faults>>

\* The lease is refused while a run is active: the command ends with an error.
Restore(k, b) ==
  /\ ~ restoring
  /\ inFlight = 0
  /\ Begin(k, "restore", "reading backup", None, b)
  /\ restoring' = TRUE
  /\ lease' = (run = NoRun)
  /\ UNCHANGED <<files, app, db, queue, inFlight, agent, made, faults>>

\* No lease, a wrong passphrase, a damaged file, a schema or a chain that does
\* not verify.
RefuseBackup(k) ==
  /\ At(k, "reading backup")
  /\ Ends(k)

Restored(v) == Logged([v EXCEPT !.gen = made + 1, !.workspace = db.workspace])

\* Mutant of ReplaceVault: the replacement is written past the queue.
ReplaceVaultAtOnce(k) ==
  /\ At(k, "reading backup") /\ lease
  /\ Verified(call[k].from)
  /\ made' = made + 1
  /\ db' = Restored(call[k].from)
  /\ disk' = db'
  /\ call' = Goto(k, "saved")
  /\ UNCHANGED <<queue, marker, backups, doomed, app, guards, agent, counters>>

ReplaceVault(k) ==
  /\ At(k, "reading backup") /\ lease
  /\ Verified(call[k].from)
  /\ made' = made + 1
  /\ Persist(Restored(call[k].from), k, Goto(k, "saving"))
  /\ UNCHANGED <<files, app, guards, agent, counters>>

\* The replacement stays in memory, the agent keeps the key it had.
RestoreNotSaved(k) ==
  /\ At(k, "unsaved") /\ Does(k, "restore")
  /\ unsure' = TRUE
  /\ Finally(k)
  /\ UNCHANGED <<files, app, db, queue, run, agentKey, unread, made, counters>>

\* The adapter takes a launch key of the wrong format for none.
Reload(k) ==
  /\ At(k, "saved") /\ Does(k, "restore")
  /\ LoadKey({LaunchKey, None})
  /\ call' = Goto(k, "reloaded")
  /\ UNCHANGED <<files, app, db, queue, guards, run, made, counters>>

RestoreEnds(k) == At(k, "reloaded") /\ Ends(k)

-----------------------------------------------------------------------------
(* Resetting *)

Reset(k) == Dispatch(k, "reset", "marking", None)

WriteMarker(k) ==
  /\ At(k, "marking")
  /\ marker' = db.workspace
  /\ Persist(Logged(db), k, Goto(k, "saving"))
  /\ UNCHANGED <<disk, backups, doomed, app, guards, agent, made, counters>>

\* A write that fails may have made the file all the same.
MarkerFails(k) ==
  /\ At(k, "marking")
  /\ Fault
  /\ marker' \in {marker, db.workspace}
  /\ Finally(k)
  /\ UNCHANGED <<disk, backups, doomed, app, db, queue, agent, made, starts>>

ResetScheduled(k) ==
  /\ At(k, "saved") /\ Does(k, "reset")
  /\ doomed' = doomed \cup {db.workspace}
  /\ Finally(k)
  /\ UNCHANGED <<disk, marker, backups, app, db, queue, agent, made, counters>>

\* What an export or a reset that was not saved left stays: a backup, a marker.
ExportOrResetEnds(k) ==
  /\ \/ At(k, "saved") /\ Does(k, "export")
     \/ At(k, "unsaved") /\ call[k].does \in {"export", "reset"}
  /\ Ends(k)

\* 100 ms after the report; nothing is waited for.
Relaunch ==
  /\ app = "up" /\ db.workspace \in doomed
  /\ Gone
  /\ UNCHANGED <<files, made, counters>>

-----------------------------------------------------------------------------
(* Calls that do not come through CommandService *)

\* Mail reading may refresh its tokens, and the local agent server may log a
\* request that outlives its run: they save the vault of their moment.
OutsideStarts(k) ==
  /\ Begin(k, "mail", "outside", None, NoFile)
  /\ UNCHANGED <<files, app, db, queue, guards, agent, made, faults>>

OutsideSaves(k) ==
  /\ At(k, "outside")
  /\ \/ Persist(db, k, Goto(k, "saving"))
     \/ Persist(Logged(db), k, Goto(k, "saving"))
  /\ UNCHANGED <<files, app, guards, agent, made, counters>>

OutsideEnds(k) ==
  /\ At(k, "outside") \/ (call[k].pc \in {"saved", "unsaved"} /\ Does(k, "mail"))
  /\ Ends(k)

\* before-quit: a second request changes nothing.
Quit(k) ==
  /\ \A j \in Call : ~ Does(j, "quit")
  /\ Begin(k, "quit", "quitting", None, NoFile)
  /\ UNCHANGED <<files, app, db, queue, guards, agent, made, faults>>

QuitSaves(k) ==
  /\ At(k, "quitting")
  /\ Persist(db, k, Goto(k, "saving"))
  /\ UNCHANGED <<files, app, guards, agent, made, counters>>

QuitEnds(k) ==
  /\ Does(k, "quit")
  /\ \/ At(k, "saved") /\ Gone /\ UNCHANGED <<files, made, counters>>
     \/ At(k, "unsaved") /\ Ends(k)

-----------------------------------------------------------------------------

\* The vault of a version before the chain, and one of this version.
OldVault == [NoFile EXCEPT !.gen = 1, !.workspace = 1, !.log = <<"old">>]
OwnVault == [Backfilled(OldVault) EXCEPT !.key = CHOOSE key \in Key : TRUE]

Init ==
  /\ disk \in {NoFile, OldVault, OwnVault}
  /\ marker = 0
  /\ app = "down"
  /\ db = NoFile
  /\ queue = <<>>
  /\ call = [k \in Call |-> Idle]
  /\ inFlight = 0 /\ restoring = FALSE /\ lease = FALSE
  /\ run = NoRun
  /\ agentKey = None
  /\ backups \in {{OldVault}, {OwnVault}}
  /\ made = 1
  /\ doomed = {}
  /\ unsure = FALSE
  /\ unread = FALSE
  /\ starts = 0
  /\ faults = 0

Launch ==
  \/ FindMarker \/ UnlinkVault \/ UnlinkMarker \/ OpenVault \/ FinishLaunch

Founder(k) ==
  \/ Dispatch(k, "change", "working", None)
  \/ \E key \in Key : SetKey(k, key)
  \/ RemoveKey(k) \/ AgentRun(k) \/ ExportBackup(k)
  \/ \E b \in backups : Restore(k, b)
  \/ Reset(k) \/ OutsideStarts(k) \/ Quit(k)

Proceed(k) ==
  \/ Change(k) \/ ChangeGoesOn(k) \/ ChangeEnds(k)
  \/ EncryptingFails(k) \/ StoreKey(k) \/ DeleteKey(k) \/ UseKey(k) \/ KeyNotSaved(k)
  \/ CreateAgentRun(k) \/ StartRun(k) \/ RunNotCreated(k)
  \/ StoreBackup(k)
  \/ RefuseBackup(k) \/ ReplaceVault(k) \/ RestoreNotSaved(k) \/ Reload(k) \/ RestoreEnds(k)
  \/ WriteMarker(k) \/ MarkerFails(k) \/ ResetScheduled(k) \/ ExportOrResetEnds(k)
  \/ OutsideSaves(k) \/ OutsideEnds(k) \/ QuitSaves(k) \/ QuitEnds(k)

Saving == WriteSnapshot \/ WriteFails

Next ==
  \/ Launch \/ Saving \/ Crash \/ Relaunch \/ RunEvent \/ RunAnswered \/ RunEnds
  \/ \E k \in Call : Founder(k) \/ Proceed(k)

Spec == Init /\ [][Next]_vars

\* The file system answers every write, and the event loop every callback.
FairSpec == Spec /\ WF_vars(Saving) /\ \A k \in Call : WF_vars(Proceed(k))

-----------------------------------------------------------------------------
(* Properties *)

Vaults == [gen : Nat, workspace : Nat, key : Key \cup {None},
           log : Seq({"old", "change"}),
           chain : Seq([row : Nat, previous : Seq(Nat \X {"old", "change"}),
                        hash : Seq(Nat \X {"old", "change"})])]

\* The type of every variable: generations are never made twice, and what is
\* saved, kept or put back is a vault.
VaultTypeOK ==
  /\ disk \in Vaults /\ db \in Vaults /\ backups \subseteq Vaults
  /\ marker \in 0 .. made /\ doomed \subseteq 1 .. made
  /\ {disk.gen, db.gen} \cup {b.gen : b \in backups} \subseteq 0 .. made
  /\ app \in {"down", "marked", "unlinked", "reading", "opening", "up", "refused"}
  /\ queue \in Seq([vault : Vaults, owner : Call \cup {"launch", "run"}])
  /\ \A k \in Call : call[k].from \in Vaults /\ call[k].key \in Key \cup {None}
  /\ inFlight \in 0 .. Cardinality(Call) /\ restoring \in BOOLEAN /\ lease \in BOOLEAN
  /\ run.phase \in {"none", "adapter", "delivering"}
  /\ agentKey \in Key \cup {LaunchKey, None} /\ unread \in BOOLEAN

\* A restore replaces the vault under nobody's feet: no command that was
\* dispatched (CommandService.execute) and no agent run (beginVaultRestore)
\* ever works on a vault other than the one it began with, and the counter and
\* the flags of the two services say what is under way.
RestoreIsExclusive ==
  /\ inFlight = Cardinality({k \in Call : Dispatched(k) /\ ~ Does(k, "restore")})
  /\ restoring = (\E k \in Call : Does(k, "restore"))
  /\ lease => restoring /\ run = NoRun
  /\ \A k \in Call : Dispatched(k) /\ ~ Does(k, "restore") => call[k].gen = db.gen
  /\ run # NoRun => run.gen = db.gen

\* Once a restored vault is in the file (restoreBackup), no snapshot of the vault
\* it replaced overwrites it, whoever asked for that snapshot and whatever
\* fails: vaults follow one another in the file in the order they were made.
RestoredVaultStays ==
  [][disk # NoFile /\ disk' # NoFile => disk'.gen >= disk.gen]_vars

\* The program never refuses a vault it wrote itself or a version before the
\* chain wrote (verifyAuditChain in start): through migration, back-fill,
\* appends, restores and crashes the chain of the vault and of its file verifies.
AuditVerifies ==
  /\ app # "refused"
  /\ app = "up" => Verified(db) /\ Verified(disk)

\* A reset (scheduleReset, initialize) deletes the workspace it was asked in and
\* no other, wherever the program crashes in between; and a workspace whose
\* reset was reported as scheduled is never opened again.
ResetHitsItsWorkspace ==
  /\ marker # 0 /\ disk # NoFile => disk.workspace = marker
  /\ app = "opening" => db.workspace \notin doomed

\* The key the agent uses is the one the vault has, after any order of key
\* changes, runs and restores none of which was reported as failed.  When the
\* vault has none, or the one it has could not be read at the last launch or
\* restore and was not set since, it is the one of the launch environment or
\* none: never that of a replaced vault nor one that was removed.  And a run keeps
\* the key it began with (create, setCredential, removeCredential,
\* reloadAfterVaultRestore).
AgentKeyIsTheVaults ==
  /\ (/\ app = "up" /\ ~ unsure
      /\ \A k \in Call : call[k].does \notin {"key", "restore"})
     => agentKey \in IF db.key = None \/ unread THEN {None, LaunchKey} ELSE {db.key}
  /\ run.phase = "adapter" => run.key = agentKey

\* Every command and every call beside them ends, a restore included: the
\* counter and the flags that keep others out are always given back.
VaultCallsEnd == \A k \in Call : Busy(k) ~> ~ Busy(k)
=============================================================================
