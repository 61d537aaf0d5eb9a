-------------------------- MODULE ConnectorAccount --------------------------
(***************************************************************************)
(* The account of one mail and calendar provider: configuring, connecting  *)
(* (with the browser and the loopback server), disconnecting, and the      *)
(* commands that use it, each of which fetches an access token for every   *)
(* request it makes.  The row of the account is read before the network is *)
(* asked and written back after it; tokens are read, refreshed over the    *)
(* network and stored.  Commands overlap wherever they await.              *)
(*                                                                         *)
(* Only the status and the label of the row are kept: MailSync has the     *)
(* rest.  Stored tokens are the account they belong to.  A save is decided *)
(* when it starts: the file gets all of the vault; one that fails may have *)
(* written it or not.                                                      *)
(***************************************************************************)
EXTENDS Naturals, FiniteSets, HttpRetry

CONSTANTS
  Account,     \* the founder's accounts with the provider
  PageToken,   \* page tokens of the calendar listing
  RequestId,   \* ids the window gives to its mail requests
  Call,        \* commands that may overlap
  None,
  MaxStarts,   \* bound: commands started
  MaxFaults    \* bound: failed saves and crashes

ASSUME AccountBounds == MaxStarts \in Nat /\ MaxFaults \in Nat
ASSUME NoneIsNobody == None \notin Account \cup Call \cup PageToken \cup RequestId

VARIABLES
  db,      \* the vault in memory
  disk,    \* the vault file
  call,    \* the running commands
  active,  \* the request of the window each mail reader is registered for
  events,  \* events[n]: how many events the n-th command made at the provider
  told,    \* told[n]: what the founder was told of the meeting it creates
  starts,  \* counter for MaxStarts
  faults   \* counter for MaxFaults

vars == <<db, disk, call, active, events, told, starts, faults>>

Command == 1 .. MaxStarts

Status == {"none", "unconfigured", "connected", "disabled"}

(***************************************************************************)
(* The vault.  The word is not in the code: it remembers what the last     *)
(* command on the account itself made of it, and whether no other command  *)
(* held something older then, which it would still write back.             *)
(***************************************************************************)
Vault ==
  [status   : Status,
   label    : Account \cup {None},
   tokens   : Account \cup {None},
   secret   : BOOLEAN,
   meetings : SUBSET Command,
   word     : [status : Status \cup {"changing"}, clear : BOOLEAN]]

Idle ==
  [pc |-> "idle", does |-> "nothing", op |-> 0, label |-> None, tok |-> None, attempt |-> 1,
   seen |-> {}, request |-> None, aborted |-> FALSE, open |-> FALSE, code |-> FALSE]

At(k, pc) == call[k].pc = pc
Does(k, what) == call[k].does = what
Busy(k) == call[k].pc # "idle"

Connected == db.status = "connected"

\* What is only needed up to here is forgotten on the way.
Goto(k, pc) ==
  call' = [call EXCEPT ![k].pc = pc, ![k].tok = None, ![k].open = FALSE, ![k].code = FALSE,
                       ![k].attempt = IF pc = "request" THEN @ ELSE 1,
                       ![k].seen = IF pc = "request" THEN @ ELSE {}]

-----------------------------------------------------------------------------
(* Saving, starting and ending *)

Fault == faults < MaxFaults /\ faults' = faults + 1

\* A mail reader leaves the registry, unless another has taken its place.
Deregistered(k) == [q \in RequestId |-> IF active[q] = k THEN None ELSE active[q]]

\* Mutant of Finished: whoever is registered for the request is removed.
FinishedForAll(k, report) ==
  /\ call' = [call EXCEPT ![k] = Idle]
  /\ active' = [q \in RequestId |-> IF call[k].request = q THEN None ELSE active[q]]
  /\ told' = [n \in Command |-> IF call[k].op = n THEN report ELSE told[n]]

Finished(k, report) ==
  /\ call' = [call EXCEPT ![k] = Idle]
  /\ active' = Deregistered(k)
  /\ told' = [n \in Command |-> IF call[k].op = n THEN report ELSE told[n]]

Ends(k, report) ==
  /\ Finished(k, report)
  /\ UNCHANGED <<db, disk, events, starts, faults>>

\* persist() within a command: what it goes on with, or its error.
SavesThen(k, d, pc) ==
  /\ db' = d
  /\ \/ disk' = d /\ Goto(k, pc) /\ UNCHANGED <<active, told, faults>>
     \/ Fault /\ disk' \in {disk, d} /\ Finished(k, "not stored")
  /\ UNCHANGED <<events, starts>>

\* A command that may start; the meeting it creates, or the label it read.
Counted(k) == ~ Busy(k) /\ starts < MaxStarts /\ starts' = starts + 1

Starts(k, what, pc, op, label) ==
  /\ Counted(k)
  /\ call' = [call EXCEPT ![k] =
       [Idle EXCEPT !.pc = pc, !.does = what, !.op = op, !.label = label]]
  /\ UNCHANGED <<db, disk, active, events, told, faults>>

\* A command that may write back something older than the vault d: a connect
\* between its tokens and its row, a refresh of other tokens, a calendar sync
\* with the row it read at its start.  A sync whose next step is to ask for a
\* token comes to nothing while the account is not connected.
HoldsOlder(j, d) ==
  \/ At(j, "tokensStored")
  \/ At(j, "decrypt") /\ call[j].tok # d.tokens
  \/ /\ Does(j, "sync") /\ call[j].pc # "closing"
     /\ IF d.status = "connected" THEN call[j].label # d.label ELSE ~ At(j, "token")

\* The last command on the account itself has spoken.
Speaks(k, d, status, wasClear) ==
  [d EXCEPT !.word =
    [status |-> status, clear |-> wasClear /\ \A j \in Call \ {k} : ~ HoldsOlder(j, d)]]

-----------------------------------------------------------------------------
(* configure *)

Unconfigured(k, d) ==
  Speaks(k, [d EXCEPT !.status = "unconfigured", !.label = None], "unconfigured", TRUE)

Configure(k) ==
  /\ Counted(k)
  /\ db' = Unconfigured(k, [db EXCEPT !.secret = FALSE])
  /\ \/ disk' = db' /\ UNCHANGED faults
     \/ Fault /\ disk' \in {disk, db'}
  /\ UNCHANGED <<call, active, events, told>>

ConfigureWithSecret(k) ==
  /\ Starts(k, "configure", "encryptSecret", 0, None)

StoreSecret(k) ==
  /\ At(k, "encryptSecret")
  /\ SavesThen(k, Speaks(k, [db EXCEPT !.secret = TRUE], "changing", TRUE), "secretStored")

FinishConfigure(k) ==
  /\ At(k, "secretStored")
  /\ SavesThen(k, Unconfigured(k, db), "closing")

-----------------------------------------------------------------------------
(* connect: browser, loopback server, code exchange, account lookup *)

Connect(k) ==
  /\ db.status # "none"
  /\ Starts(k, "connect", "consent", 0, None)

BrowserOpens(k) ==
  /\ At(k, "consent") /\ ~ call[k].open
  /\ call' = [call EXCEPT ![k].open = TRUE]
  /\ UNCHANGED <<db, disk, active, events, told, starts, faults>>

\* The first valid request ends the waiting: the timer is cleared, and every
\* later request is refused.
AcceptCallback(k) ==
  /\ At(k, "consent") /\ ~ call[k].code
  /\ call' = [call EXCEPT ![k].code = TRUE]
  /\ UNCHANGED <<db, disk, active, events, told, starts, faults>>

\* The page that answers the callback is written; the promise resolves after
\* it, and connect goes on when the browser has opened as well.
TakeCallback(k) ==
  /\ At(k, "consent") /\ call[k].open /\ call[k].code
  /\ Goto(k, "exchange")
  /\ UNCHANGED <<db, disk, active, events, told, starts, faults>>

\* Mutant of ConsentFails: the timer stops when the browser has opened.
ConsentFailsEarly(k) ==
  /\ At(k, "consent") /\ ~ call[k].open
  /\ Ends(k, "failed")

\* The timer of five minutes, a refused consent, a browser that cannot be opened.
ConsentFails(k) ==
  /\ At(k, "consent")
  /\ ~ (call[k].open /\ call[k].code)
  /\ Ends(k, "failed")

\* The code is exchanged and the account looked up with the new access token.
StoreTokens(k, a) ==
  /\ At(k, "exchange")
  /\ db' = Speaks(k, [db EXCEPT !.tokens = a], "changing", TRUE)
  /\ call' = [call EXCEPT ![k].pc = "tokensStored", ![k].tok = a]
  /\ UNCHANGED <<disk, active, events, told, starts, faults>>

ExchangeFails(k) == At(k, "exchange") /\ Ends(k, "failed")

FinishConnect(k) ==
  /\ At(k, "tokensStored")
  /\ SavesThen(k,
       Speaks(k, [db EXCEPT !.status = "connected", !.label = call[k].tok], "connected",
              db.word.status = "changing" /\ db.word.clear),
       "closing")

-----------------------------------------------------------------------------
(* disconnect *)

\* Mutant of WithoutAccount: the row is disabled, the tokens stay.
WithoutStatus(d) == [d EXCEPT !.status = IF @ = "none" THEN "none" ELSE "disabled"]

WithoutAccount(d) ==
  [d EXCEPT !.tokens = None, !.secret = FALSE,
            !.status = IF @ = "none" THEN "none" ELSE "disabled"]

Disconnect(k) ==
  /\ Counted(k)
  /\ LET d == WithoutAccount(db) IN db' = Speaks(k, d, d.status, TRUE)
  /\ \/ disk' = db' /\ UNCHANGED faults
     \/ Fault /\ disk' \in {disk, db'}
  /\ UNCHANGED <<call, active, events, told>>

-----------------------------------------------------------------------------
(* The commands that use the account *)

Test(k) ==
  /\ Starts(k, "test", "token", 0, None)

SyncCalendar(k) ==
  /\ Connected
  /\ Starts(k, "sync", "token", 0, db.label)

CreateMeeting(k) ==
  /\ Connected
  /\ Starts(k, "create", "token", starts + 1, None)

\* A request of the window replaces the one with the same id, also when it is
\* refused itself because another account is connected.
Abort(c, q) ==
  [k \in Call |-> IF active[q] = k THEN [c[k] EXCEPT !.aborted = TRUE] ELSE c[k]]

ReadMail(k, q, account) ==
  /\ Counted(k)
  /\ IF Connected /\ db.label = account
     THEN /\ active' = [active EXCEPT ![q] = k]
          /\ call' = [Abort(call, q) EXCEPT ![k] =
               [Idle EXCEPT !.pc = "token", !.does = "read", !.request = q]]
     ELSE /\ active' = [active EXCEPT ![q] = None]
          /\ call' = Abort(call, q)
  /\ UNCHANGED <<db, disk, events, told, faults>>

CancelMail(q) ==
  /\ active[q] # None
  /\ call' = Abort(call, q)
  /\ active' = [active EXCEPT ![q] = None]
  /\ UNCHANGED <<db, disk, events, told, starts, faults>>

-----------------------------------------------------------------------------
(* A request: an access token, then an answer *)

RequestKind(k) == IF Does(k, "create") THEN "create" ELSE "read"

\* What authorizedRequest makes of an attempt; the test makes one plain request.
After(k, answer) ==
  IF Does(k, "test") THEN IF answer = "ok" THEN "done" ELSE "failed"
  ELSE IF answer = "lost" /\ call[k].aborted THEN "failed"
  ELSE Verdict(RequestKind(k), call[k].attempt, answer)

\* The event the provider may have made, whatever is heard of it.
ActsOn(k, answer) ==
  IF ~ Does(k, "create") THEN {events}
  ELSE LET made == [events EXCEPT ![call[k].op] = @ + 1]
       IN  IF answer \in {"ok", "garbled"} THEN {made}
           ELSE IF answer \in MayHaveActed THEN {events, made}
           ELSE {events}

Retry(k) ==
  call' = [call EXCEPT ![k].pc = "token", ![k].attempt = @ + 1, ![k].tok = None]

\* An attempt that got no further than its access token, or a bad answer.
AttemptFails(k, answer) ==
  \/ After(k, answer) = "retry" /\ Retry(k) /\ UNCHANGED <<active, told>>
  \/ After(k, answer) \in {"failed", "ambiguous"} /\ Finished(k, After(k, answer))

NoToken(k) == AttemptFails(k, "lost") /\ UNCHANGED <<db, disk, events, starts, faults>>

ReadTokens(k) ==
  /\ At(k, "token")
  /\ Connected /\ db.tokens # None
  /\ call' = [call EXCEPT ![k].pc = "decrypt", ![k].tok = db.tokens]
  /\ UNCHANGED <<db, disk, active, events, told, starts, faults>>

NotConnected(k) ==
  /\ At(k, "token")
  /\ ~ Connected \/ db.tokens = None
  /\ NoToken(k)

\* A secret the system wants encrypted anew is written back as it was read.
ReEncrypt(k) ==
  /\ At(k, "decrypt")
  /\ db' = [db EXCEPT !.tokens = call[k].tok]
  /\ Goto(k, "request")
  /\ UNCHANGED <<disk, active, events, told, starts, faults>>

UseStored(k) ==
  /\ At(k, "decrypt")
  /\ Goto(k, "request")
  /\ UNCHANGED <<db, disk, active, events, told, starts, faults>>

\* The access token has expired, so a new one is fetched, stored and saved.
StoreRefreshed(k) ==
  /\ At(k, "decrypt")
  /\ LET d == [db EXCEPT !.tokens = call[k].tok]
     IN  /\ db' = d
         /\ \/ disk' = d /\ Goto(k, "request") /\ UNCHANGED <<active, told, faults>>
            \/ Fault /\ disk' \in {disk, d} /\ AttemptFails(k, "lost")
  /\ UNCHANGED <<events, starts>>

TokenFails(k) == At(k, "decrypt") /\ NoToken(k)

\* A reader that was cancelled learns it from its request.
Cancelled(k) ==
  /\ At(k, "request") /\ call[k].aborted
  /\ Ends(k, "cancelled")

AnswerBadly(k, answer) ==
  /\ At(k, "request") /\ ~ call[k].aborted
  /\ answer # "ok"
  /\ events' \in ActsOn(k, answer)
  /\ AttemptFails(k, answer)
  /\ UNCHANGED <<db, disk, starts, faults>>

AnswerWell(k) ==
  /\ At(k, "request") /\ ~ call[k].aborted
  /\ Does(k, "test") \/ Does(k, "read")
  /\ Ends(k, "ok")

MorePages(k, t) ==
  /\ At(k, "request") /\ Does(k, "sync")
  /\ IF t \in call[k].seen
     THEN Finished(k, "failed")
     ELSE /\ call' = [call EXCEPT ![k].pc = "token", ![k].attempt = 1,
                                  ![k].seen = @ \cup {t}]
          /\ UNCHANGED <<active, told>>
  /\ UNCHANGED <<db, disk, events, starts, faults>>

\* The last page: all events are imported at once.
ImportCalendar(k) ==
  /\ At(k, "request") /\ Does(k, "sync")
  /\ SavesThen(k, db, "imported")

\* The row as it was read at the start, with the status of an account in use.
StoreCalendarSync(k) ==
  /\ At(k, "imported") /\ Does(k, "sync")
  /\ SavesThen(k, [db EXCEPT !.status = "connected", !.label = call[k].label], "closing")

ImportMeeting(k) ==
  /\ At(k, "request") /\ Does(k, "create")
  /\ events' \in ActsOn(k, "ok")
  /\ LET d == [db EXCEPT !.meetings = @ \cup {call[k].op}]
     IN  /\ db' = d
         /\ \/ disk' = d /\ Goto(k, "imported") /\ UNCHANGED <<active, told, faults>>
            \/ Fault /\ disk' \in {disk, d} /\ Finished(k, "not stored")
  /\ UNCHANGED starts

UpdateMeeting(k) ==
  /\ At(k, "imported") /\ Does(k, "create")
  /\ SavesThen(k, db, "closing")

Close(k) == At(k, "closing") /\ Ends(k, "ok")

-----------------------------------------------------------------------------

Crash ==
  /\ Fault
  /\ db' = disk
  /\ call' = [k \in Call |-> Idle]
  /\ active' = [q \in RequestId |-> None]
  /\ UNCHANGED <<disk, events, told, starts>>

\* What the last word promises of a vault, if nothing older was held then.
LastWordHolds(d) ==
  d.word.clear =>
    CASE d.word.status = "connected" ->
           d.status = "connected" /\ d.label # None /\ d.tokens = d.label
      [] d.word.status = "disabled" ->
           d.status = "disabled" /\ d.tokens = None /\ ~ d.secret
      [] d.word.status = "unconfigured" -> d.status = "unconfigured"
      [] OTHER -> TRUE

EmptyVault ==
  [status |-> "none", label |-> None, tokens |-> None, secret |-> FALSE, meetings |-> {},
   word |-> [status |-> "none", clear |-> TRUE]]

\* What an earlier run of the program left: no account, an unconfigured one
\* that kept its tokens or has none, a connected or a disconnected one.
VaultsLeft ==
  {EmptyVault} \cup
  {[EmptyVault EXCEPT !.status = s, !.label = IF s = "unconfigured" THEN None ELSE a,
                      !.tokens = IF s = "disabled" THEN None ELSE t,
                      !.secret = s # "disabled", !.word.status = s] :
     s \in {"unconfigured", "connected", "disabled"}, a \in Account, t \in Account \cup {None}}

Init ==
  /\ db \in {v \in VaultsLeft : LastWordHolds(v)}
  /\ disk = db
  /\ call = [k \in Call |-> Idle]
  /\ active = [q \in RequestId |-> None]
  /\ events = [n \in Command |-> 0]
  /\ told = [n \in Command |-> "nothing"]
  /\ starts = 0
  /\ faults = 0

Founder ==
  \/ \E k \in Call :
       \/ Configure(k) \/ ConfigureWithSecret(k) \/ Connect(k) \/ Disconnect(k)
       \/ Test(k) \/ SyncCalendar(k) \/ CreateMeeting(k)
       \/ AcceptCallback(k)
  \/ \E k \in Call, q \in RequestId, a \in Account : ReadMail(k, q, a)
  \/ \E q \in RequestId : CancelMail(q)

\* What a running command does without the founder.
Proceed(k) ==
  \/ StoreSecret(k) \/ FinishConfigure(k)
  \/ BrowserOpens(k) \/ TakeCallback(k) \/ ConsentFails(k)
  \/ \E a \in Account : StoreTokens(k, a)
  \/ ExchangeFails(k) \/ FinishConnect(k)
  \/ ReadTokens(k) \/ NotConnected(k) \/ ReEncrypt(k) \/ UseStored(k)
  \/ StoreRefreshed(k) \/ TokenFails(k)
  \/ Cancelled(k) \/ AnswerWell(k)
  \/ \E answer \in Answer : AnswerBadly(k, answer)
  \/ \E t \in PageToken : MorePages(k, t)
  \/ ImportCalendar(k) \/ StoreCalendarSync(k)
  \/ ImportMeeting(k) \/ UpdateMeeting(k) \/ Close(k)

Next == Founder \/ Crash \/ \E k \in Call : Proceed(k)

Spec == Init /\ [][Next]_vars

\* Every callback of the event loop runs, the network and the file system
\* answer, the browser's page is written and the timer fires.  The founder need
\* not return to the browser.
FairSpec == Spec /\ \A k \in Call : WF_vars(Proceed(k))

-----------------------------------------------------------------------------
(* Properties *)

CallRecord ==
  [pc : {"idle", "encryptSecret", "secretStored", "consent", "exchange", "tokensStored",
         "token", "decrypt", "request", "imported", "closing"},
   does : {"nothing", "configure", "connect", "test", "sync", "create", "read"},
   op : 0 .. MaxStarts, label : Account \cup {None}, tok : Account \cup {None},
   attempt : Attempt, seen : SUBSET PageToken, request : RequestId \cup {None},
   aborted : BOOLEAN, open : BOOLEAN, code : BOOLEAN]

\* Every variable has its type; no request makes more attempts than allowed.
AccountTypeOK ==
  /\ db \in Vault /\ disk \in Vault
  /\ call \in [Call -> CallRecord]
  /\ active \in [RequestId -> Call \cup {None}]
  /\ events \in [Command -> Nat]
  /\ told \in [Command -> {"nothing", "ok", "failed", "ambiguous", "not stored", "cancelled"}]
  /\ starts \in 0 .. MaxStarts
  /\ faults \in 0 .. MaxFaults

\* The account stays as the founder's last connect, disconnect or configure
\* made it, in the vault and in its file: connected with tokens of the account
\* it is labelled with, or disconnected without tokens.  No command
\* changes that, however they overlap, but for those that held something older
\* at that moment (HoldsOlder), which the code writes over it.
LastWordLasts == LastWordHolds(db) /\ LastWordHolds(disk)

\* A meeting is created at the provider at most once, whatever answers its
\* request gets; it is reported as failed only if it is not in the calendar,
\* and as created only if it is, and is in the vault as well.
MeetingReportIsTrue ==
  \A n \in Command :
    /\ events[n] <= 1
    /\ told[n] = "failed" => events[n] = 0
    /\ told[n] = "ok" => n \in db.meetings \cap disk.meetings
    /\ n \in db.meetings => events[n] = 1

\* The registry of mail requests and the running readers agree, so a request
\* that is shown as running can be cancelled, and a replaced one ends.
ReadersCanBeCancelled ==
  /\ \A k \in Call :
       Does(k, "read") /\ ~ call[k].aborted => active[call[k].request] = k
  /\ \A q \in RequestId :
       active[q] # None =>
         /\ Does(active[q], "read")
         /\ call[active[q]].request = q
         /\ ~ call[active[q]].aborted

\* Every command comes to an end: a connect whose browser never returns, a
\* listing whose page tokens repeat, a request that is throttled for ever.
AccountCommandsEnd == \A k \in Call : Busy(k) ~> ~ Busy(k)
=============================================================================
