----------------------- MODULE ConnectorAccountProofs -----------------------
(***************************************************************************)
(* What module ConnectorAccount promises, proved for every number of       *)
(* accounts, overlapping commands and failures: the account stays as the   *)
(* founder's last word made it, a meeting is created once and reported     *)
(* truly, and every mail reader that runs can be cancelled.                *)
(***************************************************************************)
EXTENDS ConnectorAccount, TLAPS

USE AccountBounds, NoneIsNobody, AttemptsArePositive

Report == {"nothing", "ok", "failed", "ambiguous", "not stored", "cancelled"}

-----------------------------------------------------------------------------
(* What a step makes of the commands *)

\* Command k has its old purpose; the others are untouched.
Onward(k) ==
  /\ call' \in [Call -> CallRecord]
  /\ \A j \in Call : j # k => call'[j] = call[j]
  /\ Busy(k) /\ call'[k].pc # "idle"
  /\ call'[k].does = call[k].does /\ call'[k].op = call[k].op
  /\ call'[k].label = call[k].label /\ call'[k].request = call[k].request
  /\ call'[k].aborted = call[k].aborted

\* Command k goes on at a label, with no token in hand.
GoesOn(k, pc) == Onward(k) /\ call'[k].pc = pc /\ call'[k].tok = None

LEMMA GotoGoes ==
  ASSUME AccountTypeOK, NEW k \in Call, Busy(k),
         NEW pc \in {"secretStored", "exchange", "request", "imported", "closing"}, Goto(k, pc)
  PROVE  GoesOn(k, pc)
<1> DEFINE attempt == IF pc = "request" THEN call[k].attempt ELSE 1
           seen == IF pc = "request" THEN call[k].seen ELSE {}
           new == [call[k] EXCEPT !.pc = pc, !.tok = None, !.open = FALSE, !.code = FALSE,
                                  !.attempt = attempt, !.seen = seen]
<1>1. call[k] \in CallRecord /\ call \in [Call -> CallRecord]
  BY DEF AccountTypeOK
<1>2. attempt \in Attempt /\ seen \in SUBSET PageToken
  BY <1>1 DEF CallRecord, Attempt
<1>3. call' = [call EXCEPT ![k] = new]
  BY DEF Goto
<1> HIDE DEF attempt, seen
<1>4. /\ new \in CallRecord /\ new.pc = pc /\ new.tok = None
      /\ new.does = call[k].does /\ new.op = call[k].op /\ new.label = call[k].label
      /\ new.request = call[k].request /\ new.aborted = call[k].aborted
  BY <1>1, <1>2 DEF CallRecord
<1> HIDE DEF new
<1> QED BY <1>1, <1>3, <1>4 DEF GoesOn, Onward

LEMMA IdleIsRecord == Idle \in CallRecord
BY DEF Idle, CallRecord, Attempt

LEMMA IdleFields ==
  /\ Idle.pc = "idle" /\ Idle.does = "nothing" /\ Idle.op = 0
  /\ Idle.request = None /\ ~ Idle.aborted
BY DEF Idle

\* Command k is over: its record, its place in the registry, its report.
LEMMA FinishedShape ==
  ASSUME AccountTypeOK, NEW k \in Call, NEW report \in Report, Finished(k, report)
  PROVE  /\ call' \in [Call -> CallRecord] /\ call'[k] = Idle
         /\ \A j \in Call : j # k => call'[j] = call[j]
         /\ active' \in [RequestId -> Call \cup {None}]
         /\ \A q \in RequestId : active'[q] = IF active[q] = k THEN None ELSE active[q]
         /\ told' \in [Command -> Report]
         /\ \A n \in Command : told'[n] = IF call[k].op = n THEN report ELSE told[n]
BY IdleIsRecord DEF AccountTypeOK, Finished, Deregistered, Report

\* What a step of Proceed makes of the commands, the registry and the reports.
CallShape(k) ==
  \/ Onward(k) /\ UNCHANGED <<active, told>>
  \/ \E report \in Report : Finished(k, report)

LEMMA SavesThenShape ==
  ASSUME AccountTypeOK, NEW k \in Call, Busy(k), NEW d \in Vault,
         NEW pc \in {"secretStored", "exchange", "request", "imported", "closing"},
         SavesThen(k, d, pc)
  PROVE  /\ db' = d
         /\ \/ disk' = d /\ GoesOn(k, pc) /\ UNCHANGED <<active, told>>
            \/ disk' \in {disk, d} /\ Finished(k, "not stored")
         /\ UNCHANGED <<events, starts>> /\ faults' \in 0 .. MaxFaults
<1>1. faults' = faults \/ Fault
  BY DEF SavesThen
<1>2. faults' \in 0 .. MaxFaults
  <2>1. faults \in 0 .. MaxFaults
    BY DEF AccountTypeOK
  <2> QED BY <1>1, <2>1 DEF Fault
<1>3. Goto(k, pc) => GoesOn(k, pc)
  BY GotoGoes
<1> QED BY <1>2, <1>3 DEF SavesThen

LEMMA RetryShape ==
  ASSUME AccountTypeOK, NEW k \in Call, Busy(k), NEW answer \in Answer,
         After(k, answer) = "retry", Retry(k)
  PROVE  GoesOn(k, "token") /\ ~ Does(k, "test")
<1>1. call[k] \in CallRecord /\ call \in [Call -> CallRecord]
  BY DEF AccountTypeOK
<1>2. call[k].attempt < MaxAttempts /\ ~ Does(k, "test")
  BY DEF After, Verdict
<1>3. call[k].attempt + 1 \in Attempt
  BY <1>1, <1>2 DEF CallRecord, Attempt
<1> DEFINE new == [call[k] EXCEPT !.pc = "token", !.attempt = @ + 1, !.tok = None]
<1>4. call' = [call EXCEPT ![k] = new]
  BY DEF Retry
<1>5. /\ new \in CallRecord /\ new.pc = "token" /\ new.tok = None
      /\ new.does = call[k].does /\ new.op = call[k].op /\ new.label = call[k].label
      /\ new.request = call[k].request /\ new.aborted = call[k].aborted
  BY <1>1, <1>3 DEF CallRecord
<1> HIDE DEF new
<1> QED BY <1>1, <1>2, <1>4, <1>5 DEF GoesOn, Onward

LEMMA AttemptFailsShape ==
  ASSUME AccountTypeOK, NEW k \in Call, Busy(k), NEW answer \in Answer, AttemptFails(k, answer)
  PROVE  \/ GoesOn(k, "token") /\ UNCHANGED <<active, told>>
         \/ Finished(k, After(k, answer)) /\ After(k, answer) \in {"failed", "ambiguous"}
BY RetryShape DEF AttemptFails

-----------------------------------------------------------------------------
(* Types *)

\* No call but k will write back something older than the vault d.
NoneOlder(k, d) == \A j \in Call \ {k} : ~ HoldsOlder(j, d)

LEMMA SpeaksIsVault ==
  ASSUME NEW k \in Call, NEW d \in Vault, NEW status \in Status \cup {"changing"},
         NEW wasClear \in BOOLEAN
  PROVE  /\ Speaks(k, d, status, wasClear) \in Vault
         /\ Speaks(k, d, status, wasClear) =
              [d EXCEPT !.word = [status |-> status, clear |-> wasClear /\ NoneOlder(k, d)]]
<1> DEFINE clear == wasClear /\ NoneOlder(k, d)
           word == [status |-> status, clear |-> clear]
<1>1. Speaks(k, d, status, wasClear) = [d EXCEPT !.word = word]
  BY Zenon DEF Speaks, NoneOlder
<1>2. clear \in BOOLEAN
  BY Zenon
<1> HIDE DEF clear
<1>3. word \in [status : Status \cup {"changing"}, clear : BOOLEAN]
  BY <1>2
<1> HIDE DEF word
<1>4. [d EXCEPT !.word = word] \in Vault
  BY <1>3 DEF Vault
<1> QED BY <1>1, <1>4 DEF word, clear

LEMMA StartsShape ==
  ASSUME AccountTypeOK, NEW k \in Call, NEW op \in 0 .. MaxStarts,
         NEW label \in Account \cup {None},
         NEW what \in {"configure", "connect", "test", "sync", "create"},
         NEW pc \in {"encryptSecret", "consent", "token"}, Starts(k, what, pc, op, label)
  PROVE  /\ call[k].pc = "idle" /\ call' \in [Call -> CallRecord]
         /\ call'[k].pc = pc /\ call'[k].does = what /\ call'[k].op = op
         /\ call'[k].label = label /\ call'[k].request = None /\ ~ call'[k].aborted
         /\ \A j \in Call : j # k => call'[j] = call[j]
         /\ starts < MaxStarts /\ starts' = starts + 1
         /\ UNCHANGED <<db, disk, active, events, told, faults>>
<1> DEFINE new == [Idle EXCEPT !.pc = pc, !.does = what, !.op = op, !.label = label]
<1>1. /\ new \in CallRecord
      /\ new.pc = pc /\ new.does = what /\ new.op = op
      /\ new.label = label /\ new.request = None /\ ~ new.aborted
  BY IdleIsRecord, IdleFields DEF CallRecord
<1>2. call' = [call EXCEPT ![k] = new]
  BY DEF Starts
<1> HIDE DEF new
<1>3. call \in [Call -> CallRecord]
  BY DEF AccountTypeOK
<1>4. call' \in [Call -> CallRecord] /\ call'[k] = new /\ \A j \in Call : j # k => call'[j] = call[j]
  BY <1>1, <1>2, <1>3
<1> QED BY <1>1, <1>4 DEF Starts, Counted, Busy

\* What every step of a running command keeps to.
StepShape(k) ==
  /\ CallShape(k)
  /\ db' \in Vault /\ disk' \in {disk, db'}
  /\ events' \in [Command -> Nat] /\ starts' = starts /\ faults' \in 0 .. MaxFaults

LEMMA SavesThenStep ==
  ASSUME AccountTypeOK, NEW k \in Call, Busy(k), NEW d \in Vault,
         NEW pc \in {"secretStored", "exchange", "request", "imported", "closing"},
         SavesThen(k, d, pc)
  PROVE  StepShape(k)
<1>1. events' = events /\ events \in [Command -> Nat]
  BY DEF SavesThen, AccountTypeOK
<1>2. /\ db' = d /\ disk' \in {disk, d} /\ starts' = starts /\ faults' \in 0 .. MaxFaults
      /\ \/ Onward(k) /\ UNCHANGED <<active, told>>
         \/ Finished(k, "not stored")
  BY SavesThenShape DEF GoesOn
<1> QED BY <1>1, <1>2 DEF StepShape, CallShape, Report

LEMMA VaultSteps ==
  ASSUME AccountTypeOK, NEW k \in Call
  PROVE  /\ StoreSecret(k) => StepShape(k)
         /\ FinishConfigure(k) => StepShape(k)
         /\ FinishConnect(k) => StepShape(k)
         /\ ImportCalendar(k) => StepShape(k)
         /\ StoreCalendarSync(k) => StepShape(k)
         /\ UpdateMeeting(k) => StepShape(k)
<1>1. db \in Vault /\ call[k] \in CallRecord
  BY DEF AccountTypeOK
<1>2. ASSUME StoreSecret(k) PROVE StepShape(k)
  <2>1. [db EXCEPT !.secret = TRUE] \in Vault
    BY <1>1 DEF Vault
  <2>2. Speaks(k, [db EXCEPT !.secret = TRUE], "changing", TRUE) \in Vault
    BY <2>1, SpeaksIsVault
  <2> QED BY <1>2, <2>2, SavesThenStep DEF StoreSecret, At, Busy
<1>3. ASSUME FinishConfigure(k) PROVE StepShape(k)
  <2>1. [db EXCEPT !.status = "unconfigured", !.label = None] \in Vault
    BY <1>1 DEF Vault, Status
  <2>2. Unconfigured(k, db) \in Vault
    BY <2>1, SpeaksIsVault DEF Unconfigured, Status
  <2> QED BY <1>3, <2>2, SavesThenStep DEF FinishConfigure, At, Busy
<1>4. ASSUME FinishConnect(k) PROVE StepShape(k)
  <2>1. [db EXCEPT !.status = "connected", !.label = call[k].tok] \in Vault
    BY <1>1 DEF Vault, Status, CallRecord
  <2> DEFINE clear == db.word.status = "changing" /\ db.word.clear
  <2>2. clear \in BOOLEAN
    BY Zenon
  <2>3. Speaks(k, [db EXCEPT !.status = "connected", !.label = call[k].tok],
               "connected", clear) \in Vault
    <3> HIDE DEF clear
    <3> QED BY <2>1, <2>2, SpeaksIsVault DEF Status
  <2> QED BY <1>4, <2>3, SavesThenStep DEF FinishConnect, At, Busy
<1>5. ASSUME ImportCalendar(k) PROVE StepShape(k)
  BY <1>1, <1>5, SavesThenStep DEF ImportCalendar, At, Busy
<1>6. ASSUME StoreCalendarSync(k) PROVE StepShape(k)
  <2>1. [db EXCEPT !.status = "connected", !.label = call[k].label] \in Vault
    BY <1>1 DEF Vault, Status, CallRecord
  <2> QED BY <1>6, <2>1, SavesThenStep DEF StoreCalendarSync, At, Busy
<1>7. ASSUME UpdateMeeting(k) PROVE StepShape(k)
  BY <1>1, <1>7, SavesThenStep DEF UpdateMeeting, At, Busy
<1> QED BY <1>2, <1>3, <1>4, <1>5, <1>6, <1>7

LEMMA EndsStep ==
  ASSUME AccountTypeOK, NEW k \in Call, NEW report \in Report, Ends(k, report)
  PROVE  StepShape(k) /\ Finished(k, report) /\ UNCHANGED <<db, disk, events>>
<1>1. /\ db \in Vault /\ disk \in Vault /\ events \in [Command -> Nat]
      /\ faults \in 0 .. MaxFaults
  BY DEF AccountTypeOK
<1> QED BY <1>1 DEF Ends, StepShape, CallShape

LEMMA NoTokenStep ==
  ASSUME AccountTypeOK, NEW k \in Call, Busy(k), NoToken(k)
  PROVE  StepShape(k) /\ UNCHANGED <<db, disk, events>>
<1>1. db \in Vault /\ disk \in Vault /\ events \in [Command -> Nat] /\ faults \in 0 .. MaxFaults
  BY DEF AccountTypeOK
<1>2. CallShape(k)
  BY AttemptFailsShape DEF NoToken, CallShape, Answer, Report, GoesOn
<1> QED BY <1>1, <1>2 DEF NoToken, StepShape

\* Command k goes on at a label.
GoesOnlyTo(k, pc) == Onward(k) /\ call'[k].pc = pc

\* A record that changes only where it stands.
LEMMA FieldSteps ==
  ASSUME AccountTypeOK, NEW k \in Call
  PROVE  /\ BrowserOpens(k) => Onward(k) /\ ~ At(k, "decrypt") /\ call'[k].pc = "consent"
         /\ \A a \in Account : StoreTokens(k, a) =>
              Onward(k) /\ call'[k].pc = "tokensStored" /\ call'[k].tok = a
         /\ ReadTokens(k) =>
              Onward(k) /\ call'[k].pc = "decrypt" /\ call'[k].tok = db.tokens
         /\ \A t \in PageToken : MorePages(k, t) =>
              \/ GoesOnlyTo(k, "token") /\ UNCHANGED <<active, told>>
              \/ Finished(k, "failed")
<1>1. call \in [Call -> CallRecord] /\ call[k] \in CallRecord /\ db.tokens \in Account \cup {None}
  BY DEF AccountTypeOK, Vault
<1>2. ASSUME BrowserOpens(k)
      PROVE  Onward(k) /\ ~ At(k, "decrypt") /\ call'[k].pc = "consent"
  <2> DEFINE new == [call[k] EXCEPT !.open = TRUE]
  <2>1. /\ new \in CallRecord /\ new.pc = "consent"
        /\ new.does = call[k].does /\ new.op = call[k].op /\ new.label = call[k].label
        /\ new.request = call[k].request /\ new.aborted = call[k].aborted
    BY <1>1, <1>2 DEF CallRecord, BrowserOpens, At
  <2>2. call' = [call EXCEPT ![k] = new]
    BY <1>2 DEF BrowserOpens
  <2> HIDE DEF new
  <2> QED BY <1>1, <1>2, <2>1, <2>2 DEF Onward, Busy, At, BrowserOpens
<1>3. ASSUME NEW a \in Account, StoreTokens(k, a)
      PROVE  Onward(k) /\ call'[k].pc = "tokensStored" /\ call'[k].tok = a
  <2> DEFINE new == [call[k] EXCEPT !.pc = "tokensStored", !.tok = a]
  <2>1. /\ new \in CallRecord /\ new.pc = "tokensStored" /\ new.tok = a
        /\ new.does = call[k].does /\ new.op = call[k].op /\ new.label = call[k].label
        /\ new.request = call[k].request /\ new.aborted = call[k].aborted
    BY <1>1 DEF CallRecord
  <2>2. call' = [call EXCEPT ![k] = new]
    BY <1>3 DEF StoreTokens
  <2> HIDE DEF new
  <2> QED BY <1>1, <1>3, <2>1, <2>2 DEF Onward, Busy, At, StoreTokens
<1>4. ASSUME ReadTokens(k)
      PROVE  Onward(k) /\ call'[k].pc = "decrypt" /\ call'[k].tok = db.tokens
  <2> DEFINE new == [call[k] EXCEPT !.pc = "decrypt", !.tok = db.tokens]
  <2>1. /\ new \in CallRecord /\ new.pc = "decrypt" /\ new.tok = db.tokens
        /\ new.does = call[k].does /\ new.op = call[k].op /\ new.label = call[k].label
        /\ new.request = call[k].request /\ new.aborted = call[k].aborted
    BY <1>1 DEF CallRecord
  <2>2. call' = [call EXCEPT ![k] = new]
    BY <1>4 DEF ReadTokens
  <2> HIDE DEF new
  <2> QED BY <1>1, <1>4, <2>1, <2>2 DEF Onward, Busy, At, ReadTokens
<1>5. ASSUME NEW t \in PageToken, MorePages(k, t), t \notin call[k].seen
      PROVE  GoesOnlyTo(k, "token") /\ UNCHANGED <<active, told>>
  <2> DEFINE seen == call[k].seen \cup {t}
             new == [call[k] EXCEPT !.pc = "token", !.attempt = 1, !.seen = seen]
  <2>1. seen \in SUBSET PageToken
    BY <1>1 DEF CallRecord
  <2> HIDE DEF seen
  <2>2. 1 \in Attempt
    BY DEF Attempt
  <2>3. new \in CallRecord
    BY <1>1, <2>1, <2>2 DEF CallRecord
  <2>4. /\ new.pc = "token"
        /\ new.does = call[k].does /\ new.op = call[k].op /\ new.label = call[k].label
        /\ new.request = call[k].request /\ new.aborted = call[k].aborted
    BY <1>1 DEF CallRecord
  <2>5. call' = [call EXCEPT ![k] = new] /\ At(k, "request") /\ UNCHANGED <<active, told>>
    BY <1>5 DEF MorePages, seen
  <2> HIDE DEF new
  <2> QED BY <1>1, <2>3, <2>4, <2>5 DEF GoesOnlyTo, Onward, Busy, At
<1> QED BY <1>2, <1>3, <1>4, <1>5 DEF MorePages

\* What a command carries is what it is for: only the creation of a meeting has
\* a number, which no other command has, and only a mail reader has a request,
\* which can be cancelled.
Purposes ==
  /\ \A k \in Call :
       /\ call[k].pc = "idle" => call[k] = Idle
       /\ Does(k, "create") <=> call[k].op # 0
       /\ call[k].op <= starts
       /\ Does(k, "read") <=> call[k].request # None
       /\ call[k].aborted => Does(k, "read")
  /\ \A j, k \in Call : call[j].op = call[k].op /\ call[k].op # 0 => j = k

LEMMA ProceedStep ==
  ASSUME AccountTypeOK, Purposes, NEW k \in Call, Proceed(k)
  PROVE  StepShape(k)
<1>1. /\ db \in Vault /\ disk \in Vault /\ events \in [Command -> Nat]
      /\ faults \in 0 .. MaxFaults /\ call[k] \in CallRecord
  BY DEF AccountTypeOK
<1>2. CASE BrowserOpens(k)
  BY <1>1, <1>2, FieldSteps DEF BrowserOpens, StepShape, CallShape
<1>3. CASE TakeCallback(k)
  BY <1>1, <1>3, GotoGoes DEF TakeCallback, StepShape, CallShape, GoesOn, At, Busy
<1>4. CASE ConsentFails(k) \/ ExchangeFails(k) \/ Cancelled(k) \/ AnswerWell(k) \/ Close(k)
  BY <1>4, EndsStep DEF ConsentFails, ExchangeFails, Cancelled, AnswerWell, Close, Report
<1>5. ASSUME NEW a \in Account, StoreTokens(k, a) PROVE StepShape(k)
  <2>1. [db EXCEPT !.tokens = a] \in Vault
    BY <1>1 DEF Vault
  <2>2. db' \in Vault
    BY <1>5, <2>1, SpeaksIsVault DEF StoreTokens
  <2> QED BY <1>1, <1>5, <2>2, FieldSteps DEF StoreTokens, StepShape, CallShape
<1>6. CASE ReadTokens(k)
  BY <1>1, <1>6, FieldSteps DEF ReadTokens, StepShape, CallShape
<1>7. CASE NotConnected(k) \/ TokenFails(k)
  BY <1>7, NoTokenStep DEF NotConnected, TokenFails, At, Busy
<1>8. [db EXCEPT !.tokens = call[k].tok] \in Vault
  BY <1>1 DEF Vault, CallRecord
<1>9. CASE ReEncrypt(k)
  BY <1>1, <1>8, <1>9, GotoGoes DEF ReEncrypt, StepShape, CallShape, GoesOn, At, Busy
<1>10. CASE UseStored(k)
  BY <1>1, <1>10, GotoGoes DEF UseStored, StepShape, CallShape, GoesOn, At, Busy
<1>11. CASE StoreRefreshed(k)
  <2>1. db' = [db EXCEPT !.tokens = call[k].tok] /\ disk' \in {disk, db'}
    BY <1>11 DEF StoreRefreshed
  <2>2. faults' \in 0 .. MaxFaults /\ starts' = starts /\ events' = events
    BY <1>1, <1>11 DEF StoreRefreshed, Fault
  <2>3. Busy(k)
    BY <1>11 DEF StoreRefreshed, At, Busy
  <2>4. \/ Goto(k, "request") /\ UNCHANGED <<active, told>>
        \/ AttemptFails(k, "lost")
    BY <1>11 DEF StoreRefreshed
  <2>5. CallShape(k)
    BY <2>3, <2>4, GotoGoes, AttemptFailsShape DEF CallShape, Answer, Report, GoesOn
  <2> QED BY <1>1, <1>8, <2>1, <2>2, <2>5 DEF StepShape
<1>12. ASSUME NEW answer \in Answer, AnswerBadly(k, answer) PROVE StepShape(k)
  <2>1. Busy(k) /\ AttemptFails(k, answer) /\ UNCHANGED <<db, disk, starts, faults>>
        /\ events' \in ActsOn(k, answer)
    BY <1>12 DEF AnswerBadly, At, Busy
  <2>2. CallShape(k)
    BY <2>1, AttemptFailsShape DEF CallShape, Report, GoesOn
  <2>3. events' = events \/ events' = [events EXCEPT ![call[k].op] = @ + 1]
    BY <2>1 DEF ActsOn
  <2>4. events' \in [Command -> Nat]
    BY <1>1, <2>3
  <2> QED BY <1>1, <2>1, <2>2, <2>4 DEF StepShape
<1>13. ASSUME NEW t \in PageToken, MorePages(k, t) PROVE StepShape(k)
  BY <1>1, <1>13, FieldSteps DEF MorePages, StepShape, CallShape, Report, GoesOnlyTo
<1>14. CASE ImportMeeting(k)
  <2> DEFINE meetings == db.meetings \cup {call[k].op}
             d == [db EXCEPT !.meetings = meetings]
  <2>1. call[k].op \in Command
    <3>1. call[k].op # 0 /\ call[k].op \in 0 .. MaxStarts
      BY <1>1, <1>14 DEF ImportMeeting, Purposes, CallRecord
    <3> QED BY <3>1 DEF Command
  <2>2. d \in Vault
    <3>1. meetings \in SUBSET Command
      BY <1>1, <2>1 DEF Vault
    <3> HIDE DEF meetings
    <3> QED BY <1>1, <3>1 DEF Vault
  <2>3. db' = d /\ disk' \in {disk, db'} /\ starts' = starts
    BY <1>14 DEF ImportMeeting
  <2>4. faults' \in 0 .. MaxFaults
    <3>1. faults' = faults \/ Fault
      BY <1>14 DEF ImportMeeting
    <3> QED BY <1>1, <3>1 DEF Fault
  <2>5. events' = events \/ events' = [events EXCEPT ![call[k].op] = @ + 1]
    BY <1>14 DEF ImportMeeting, ActsOn
  <2>6. events' \in [Command -> Nat]
    BY <1>1, <2>5
  <2>7. CallShape(k)
    BY <1>14, GotoGoes DEF ImportMeeting, CallShape, GoesOn, Report, At, Busy
  <2> QED BY <2>2, <2>3, <2>4, <2>6, <2>7 DEF StepShape
<1> QED BY <1>2, <1>3, <1>4, <1>5, <1>6, <1>7, <1>9, <1>10, <1>11, <1>12, <1>13, <1>14,
           VaultSteps DEF Proceed

Typed == AccountTypeOK /\ Purposes /\ ReadersCanBeCancelled

LEMMA RecordFacts ==
  ASSUME Typed
  PROVE  /\ starts \in 0 .. MaxStarts /\ faults \in 0 .. MaxFaults
         /\ \A k \in Call : /\ call[k].op \in 0 .. MaxStarts
                            /\ Does(k, "read") => call[k].request \in RequestId
                            /\ Does(k, "create") => call[k].op \in Command
<1>1. starts \in 0 .. MaxStarts /\ faults \in 0 .. MaxFaults
  BY DEF Typed, AccountTypeOK
<1>2. ASSUME NEW k \in Call
      PROVE  /\ call[k].op \in 0 .. MaxStarts
             /\ Does(k, "read") => call[k].request \in RequestId
             /\ Does(k, "create") => call[k].op \in Command
  <2>1. call[k] \in CallRecord
    BY DEF Typed, AccountTypeOK
  <2>2. call[k].op \in 0 .. MaxStarts /\ call[k].request \in RequestId \cup {None}
    BY <2>1 DEF CallRecord
  <2>3. /\ Does(k, "create") => call[k].op # 0
        /\ Does(k, "read") => call[k].request # None
    BY DEF Typed, Purposes
  <2> QED BY <2>2, <2>3 DEF Command
<1> QED BY <1>1, <1>2

\* The vaults of an earlier run.
LEMMA LeftVaults == \A v \in VaultsLeft : v \in Vault /\ v.meetings = {}
<1> DEFINE Label(s, a) == IF s = "unconfigured" THEN None ELSE a
           Tokens(s, t) == IF s = "disabled" THEN None ELSE t
           Left(s, a, t) ==
             [EmptyVault EXCEPT !.status = s, !.label = Label(s, a), !.tokens = Tokens(s, t),
                                !.secret = s # "disabled",
                                !.word = [EmptyVault.word EXCEPT !.status = s]]
           Kept == {"unconfigured", "connected", "disabled"}
<1>1. EmptyVault \in Vault /\ EmptyVault.meetings = {}
  BY DEF EmptyVault, Vault, Status
<1>2. ASSUME NEW s \in Kept, NEW a \in Account, NEW t \in Account \cup {None}
      PROVE  Left(s, a, t) \in Vault /\ Left(s, a, t).meetings = {}
  <2> DEFINE secret == s # "disabled"
             word == [EmptyVault.word EXCEPT !.status = s]
             left == [EmptyVault EXCEPT !.status = s, !.label = Label(s, a),
                                        !.tokens = Tokens(s, t), !.secret = secret, !.word = word]
  <2>1. /\ Label(s, a) \in Account \cup {None} /\ Tokens(s, t) \in Account \cup {None}
        /\ secret \in BOOLEAN
    OBVIOUS
  <2>2. word \in [status : Status \cup {"changing"}, clear : BOOLEAN]
    BY DEF EmptyVault, Status
  <2>3. Left(s, a, t) = left
    OBVIOUS
  <2> HIDE DEF Left, Label, Tokens, secret, word
  <2>4. left \in Vault
    BY <1>1, <2>1, <2>2 DEF Vault, Status
  <2>5. left.meetings = EmptyVault.meetings
    BY <1>1 DEF Vault
  <2> QED BY <1>1, <2>3, <2>4, <2>5
<1>3. VaultsLeft = {EmptyVault} \cup
        {Left(s, a, t) : s \in Kept, a \in Account, t \in Account \cup {None}}
  BY DEF VaultsLeft
<1> HIDE DEF Left, Kept
<1> QED BY <1>1, <1>2, <1>3

LEMMA InitTyped == Init => Typed
<1> SUFFICES ASSUME Init PROVE Typed
  OBVIOUS
<1>2. VaultsLeft \subseteq Vault
  BY LeftVaults
<1>3. db \in Vault /\ disk \in Vault
  BY <1>2 DEF Init
<1>4. AccountTypeOK
  BY <1>3, IdleIsRecord DEF Init, AccountTypeOK
<1>5. Purposes
  BY DEF Init, Purposes, Idle, Does
<1>6. ReadersCanBeCancelled
  BY DEF Init, ReadersCanBeCancelled, Idle, Does
<1> QED BY <1>4, <1>5, <1>6 DEF Typed

LEMMA ShapeTyped ==
  ASSUME Typed, NEW k \in Call, CallShape(k), starts' = starts
  PROVE  /\ call' \in [Call -> CallRecord]
         /\ active' \in [RequestId -> Call \cup {None}]
         /\ told' \in [Command -> Report]
         /\ Purposes' /\ ReadersCanBeCancelled'
<1>1. CASE Onward(k) /\ UNCHANGED <<active, told>>
  <2>1. call' \in [Call -> CallRecord] /\ active' = active /\ told' = told
    BY <1>1 DEF Onward
  <2>2. active \in [RequestId -> Call \cup {None}] /\ told \in [Command -> Report]
    BY DEF Typed, AccountTypeOK, Report
  <2>3. Purposes'
    BY <1>1 DEF Onward, Typed, Purposes, Does, Busy
  <2>4. ReadersCanBeCancelled'
    <3>1. \A j \in Call : /\ call'[j].does = call[j].does /\ call'[j].request = call[j].request
                          /\ call'[j].aborted = call[j].aborted
      BY <1>1 DEF Onward
    <3> QED BY <2>1, <2>2, <3>1 DEF Typed, ReadersCanBeCancelled, Does
  <2> QED BY <2>1, <2>2, <2>3, <2>4
<1>2. ASSUME NEW report \in Report, Finished(k, report)
      PROVE  /\ call' \in [Call -> CallRecord]
             /\ active' \in [RequestId -> Call \cup {None}]
             /\ told' \in [Command -> Report]
             /\ Purposes' /\ ReadersCanBeCancelled'
  <2>1. call'[k] = Idle /\ \A j \in Call : j # k => call'[j] = call[j]
    BY <1>2, FinishedShape DEF Typed
  <2>2. /\ Idle.does = "nothing" /\ Idle.op = 0 /\ Idle.request = None
        /\ ~ Idle.aborted /\ starts \in Nat
    <3>1. starts \in 0 .. MaxStarts
      BY DEF Typed, AccountTypeOK
    <3> QED BY <3>1 DEF Idle
  <2>3. Purposes'
    BY <2>1, <2>2 DEF Typed, Purposes, Does
  <2>4. ReadersCanBeCancelled'
    <3>1. /\ active \in [RequestId -> Call \cup {None}]
          /\ \A q \in RequestId : active'[q] = IF active[q] = k THEN None ELSE active[q]
          /\ \A j \in Call : Does(j, "read") => call[j].request \in RequestId
      BY <1>2, FinishedShape, RecordFacts DEF Typed, AccountTypeOK
    <3> QED BY <2>1, <2>2, <3>1 DEF Typed, ReadersCanBeCancelled, Does
  <2> QED BY <1>2, <2>3, <2>4, FinishedShape DEF Typed
<1> QED BY <1>1, <1>2 DEF CallShape

LEMMA StepTyped == ASSUME Typed, NEW k \in Call, StepShape(k) PROVE Typed'
<1>1. starts' = starts
  BY DEF StepShape
<1>2. db' \in Vault /\ disk' \in Vault
  BY DEF StepShape, Typed, AccountTypeOK
<1> QED BY <1>1, <1>2, ShapeTyped DEF StepShape, Typed, AccountTypeOK, Report

\* Records that differ in the cancellation only.
Alike(r, s) ==
  /\ r.pc = s.pc /\ r.does = s.does /\ r.op = s.op
  /\ r.label = s.label /\ r.tok = s.tok /\ r.request = s.request

LEMMA AbortedRecord ==
  ASSUME NEW r \in CallRecord
  PROVE  /\ [r EXCEPT !.aborted = TRUE] \in CallRecord
         /\ Alike([r EXCEPT !.aborted = TRUE], r)
         /\ [r EXCEPT !.aborted = TRUE].aborted
<1> DEFINE s == [r EXCEPT !.aborted = TRUE]
<1>1. s \in CallRecord
  BY DEF CallRecord
<1>2. s.aborted
  BY DEF CallRecord
<1>3. Alike(s, r)
  BY DEF CallRecord, Alike
<1> QED BY <1>1, <1>2, <1>3

\* What the registry has for a request is cancelled, and nothing else.
LEMMA AbortShape ==
  ASSUME Typed, NEW q \in RequestId
  PROVE  /\ Abort(call, q) \in [Call -> CallRecord]
         /\ \A j \in Call : /\ Alike(Abort(call, q)[j], call[j])
                            /\ active[q] = j => Abort(call, q)[j].aborted
                            /\ active[q] # j => Abort(call, q)[j] = call[j]
<1>1. call \in [Call -> CallRecord]
  BY DEF Typed, AccountTypeOK
<1>2. \A j \in Call : Abort(call, q)[j] = IF active[q] = j THEN [call[j] EXCEPT !.aborted = TRUE]
                                          ELSE call[j]
  BY DEF Abort
<1>3. ASSUME NEW j \in Call
      PROVE  /\ Abort(call, q)[j] \in CallRecord /\ Alike(Abort(call, q)[j], call[j])
             /\ active[q] = j => Abort(call, q)[j].aborted
             /\ active[q] # j => Abort(call, q)[j] = call[j]
  <2>1. CASE active[q] = j
    <3>1. Abort(call, q)[j] = [call[j] EXCEPT !.aborted = TRUE] /\ call[j] \in CallRecord
      BY <1>1, <1>2, <2>1
    <3> QED BY <2>1, <3>1, AbortedRecord
  <2>2. CASE active[q] # j
    BY <1>1, <1>2, <2>2 DEF Alike
  <2> QED BY <2>1, <2>2
<1>4. Abort(call, q) = [j \in Call |-> Abort(call, q)[j]]
  BY DEF Abort
<1> QED BY <1>3, <1>4

Reader(q) == [Idle EXCEPT !.pc = "token", !.does = "read", !.request = q]

LEMMA ReaderIsRecord ==
  ASSUME NEW q \in RequestId
  PROVE  /\ Reader(q) \in CallRecord
         /\ Reader(q).pc = "token" /\ Reader(q).does = "read" /\ Reader(q).request = q
         /\ Reader(q).op = 0 /\ ~ Reader(q).aborted
<1>1. Reader(q) \in CallRecord
  BY IdleIsRecord DEF Reader, CallRecord
<1> QED BY <1>1 DEF Reader, Idle

LEMMA ReadMailShape ==
  ASSUME Typed, NEW k \in Call, NEW q \in RequestId, NEW a \in Account, ReadMail(k, q, a)
  PROVE  /\ call[k].pc = "idle" /\ starts < MaxStarts /\ starts' = starts + 1
         /\ UNCHANGED <<db, disk, events, told, faults>>
         /\ \/ /\ active' = [active EXCEPT ![q] = k]
               /\ call' = [Abort(call, q) EXCEPT ![k] = Reader(q)]
            \/ /\ active' = [active EXCEPT ![q] = None]
               /\ call' = Abort(call, q)
BY DEF ReadMail, Counted, Busy, Reader

\* What a step has to show that only starts or cancels a command.
LEMMA StartTyped ==
  ASSUME Typed, UNCHANGED <<db, disk, events, told, faults>>,
         starts' = starts \/ (starts < MaxStarts /\ starts' = starts + 1),
         call' \in [Call -> CallRecord], active' \in [RequestId -> Call \cup {None}],
         Purposes', ReadersCanBeCancelled'
  PROVE  Typed'
<1>1. starts' \in 0 .. MaxStarts
  BY RecordFacts
<1> QED BY <1>1 DEF Typed, AccountTypeOK

LEMMA ReadMailTyped ==
  ASSUME Typed, NEW k \in Call, NEW q \in RequestId, NEW a \in Account, ReadMail(k, q, a)
  PROVE  Typed'
<1>1. /\ call[k].pc = "idle" /\ starts' = starts + 1 /\ starts < MaxStarts
      /\ UNCHANGED <<db, disk, events, told, faults>>
  BY ReadMailShape
<1>2. call \in [Call -> CallRecord] /\ active \in [RequestId -> Call \cup {None}]
  BY DEF Typed, AccountTypeOK
<1> DEFINE c == Abort(call, q)
<1>3. /\ c \in [Call -> CallRecord]
      /\ \A j \in Call : /\ Alike(c[j], call[j])
                         /\ active[q] = j => c[j].aborted
                         /\ active[q] # j => c[j] = call[j]
  BY AbortShape
<1> HIDE DEF c
<1>4. /\ call[k] = Idle /\ active[q] # k /\ c[k] = Idle
      /\ \A j \in Call : active[q] = j => Does(j, "read") /\ call[j].pc # "idle"
  <2>1. \A j \in Call : call[j].pc = "idle" => call[j] = Idle /\ ~ Does(j, "read")
    BY IdleFields DEF Typed, Purposes, Does
  <2>2. \A j \in Call : active[q] = j => Does(j, "read")
    BY <1>2 DEF Typed, ReadersCanBeCancelled
  <2>3. call[k] = Idle /\ active[q] # k
    BY <1>1, <2>1, <2>2
  <2> QED BY <1>3, <2>1, <2>2, <2>3
<1>5. \A j \in Call : /\ c[j].pc = call[j].pc /\ c[j].does = call[j].does
                      /\ c[j].op = call[j].op /\ c[j].request = call[j].request
  BY <1>3 DEF Alike
<1>6. CASE active' = [active EXCEPT ![q] = k] /\ call' = [c EXCEPT ![k] = Reader(q)]
  <2>1. call' \in [Call -> CallRecord] /\ active' \in [RequestId -> Call \cup {None}]
    BY <1>2, <1>3, <1>6, ReaderIsRecord
  <2>2. call'[k] = Reader(q) /\ \A j \in Call : j # k => call'[j] = c[j]
    BY <1>3, <1>6
  <2>3. Purposes'
    <3>1. \A j \in Call : /\ call'[j].pc = "idle" => call'[j] = Idle
                          /\ call'[j].does = "create" <=> call'[j].op # 0
                          /\ call'[j].op <= starts'
                          /\ call'[j].does = "read" <=> call'[j].request # None
                          /\ call'[j].aborted => call'[j].does = "read"
      BY <1>1, <1>3, <1>4, <1>5, <2>2, ReaderIsRecord, RecordFacts DEF Typed, Purposes, Does
    <3>2. \A i, j \in Call : call'[i].op = call'[j].op /\ call'[j].op # 0 => i = j
      BY <1>5, <2>2, ReaderIsRecord DEF Typed, Purposes
    <3> QED BY <3>1, <3>2 DEF Purposes, Does
  <2>4. ReadersCanBeCancelled'
    <3>1. /\ \A p \in RequestId : active'[p] = IF p = q THEN k ELSE active[p]
          /\ \A j \in Call : Does(j, "read") => call[j].request \in RequestId
      BY <1>2, <1>6, RecordFacts
    <3>2. \A j \in Call : call'[j].does = "read" /\ ~ call'[j].aborted
                            => active'[call'[j].request] = j
      BY <1>3, <1>5, <2>2, <3>1, ReaderIsRecord DEF Typed, ReadersCanBeCancelled, Does
    <3>3. \A p \in RequestId : active'[p] # None =>
            /\ call'[active'[p]].does = "read"
            /\ call'[active'[p]].request = p
            /\ ~ call'[active'[p]].aborted
      <4> SUFFICES ASSUME NEW p \in RequestId, active'[p] # None
                   PROVE  /\ call'[active'[p]].does = "read"
                          /\ call'[active'[p]].request = p
                          /\ ~ call'[active'[p]].aborted
        OBVIOUS
      <4>1. CASE p = q
        BY <2>2, <3>1, <4>1, ReaderIsRecord
      <4>2. CASE p # q
        <5>1. /\ active'[p] = active[p] /\ active[p] \in Call /\ Does(active[p], "read")
              /\ call[active[p]].request = p /\ ~ call[active[p]].aborted
          BY <1>2, <3>1, <4>2 DEF Typed, ReadersCanBeCancelled
        <5>2. active[q] # active[p]
          BY <1>2, <4>2, <5>1 DEF Typed, ReadersCanBeCancelled
        <5>3. active[p] # k
          BY <1>4, <5>1, IdleFields DEF Does
        <5>4. call'[active[p]] = call[active[p]]
          BY <1>3, <2>2, <5>1, <5>2, <5>3
        <5> QED BY <5>1, <5>4 DEF Does
      <4> QED BY <4>1, <4>2
    <3> QED BY <3>2, <3>3 DEF ReadersCanBeCancelled, Does
  <2> QED BY <1>1, <2>1, <2>3, <2>4, StartTyped
<1>7. CASE active' = [active EXCEPT ![q] = None] /\ call' = c
  <2>1. call' \in [Call -> CallRecord] /\ active' \in [RequestId -> Call \cup {None}]
    BY <1>2, <1>3, <1>7
  <2>2. Purposes'
    <3>1. \A j \in Call : /\ call'[j].pc = "idle" => call'[j] = Idle
                          /\ call'[j].does = "create" <=> call'[j].op # 0
                          /\ call'[j].op <= starts'
                          /\ call'[j].does = "read" <=> call'[j].request # None
                          /\ call'[j].aborted => call'[j].does = "read"
      BY <1>1, <1>3, <1>4, <1>5, <1>7, RecordFacts DEF Typed, Purposes, Does
    <3>2. \A i, j \in Call : call'[i].op = call'[j].op /\ call'[j].op # 0 => i = j
      BY <1>5, <1>7 DEF Typed, Purposes
    <3> QED BY <3>1, <3>2 DEF Purposes, Does
  <2>3. ReadersCanBeCancelled'
    <3>1. /\ \A p \in RequestId : active'[p] = IF p = q THEN None ELSE active[p]
          /\ \A j \in Call : Does(j, "read") => call[j].request \in RequestId
      BY <1>2, <1>7, RecordFacts
    <3> QED BY <1>2, <1>3, <1>4, <1>5, <1>7, <3>1 DEF Typed, ReadersCanBeCancelled, Does
  <2> QED BY <1>1, <2>1, <2>2, <2>3, StartTyped
<1> QED BY <1>6, <1>7, ReadMailShape DEF c

LEMMA CancelMailTyped ==
  ASSUME Typed, NEW q \in RequestId, CancelMail(q)
  PROVE  Typed'
<1> DEFINE c == Abort(call, q)
<1>1. /\ call' = c /\ active' = [active EXCEPT ![q] = None] /\ active[q] # None
      /\ UNCHANGED <<db, disk, events, told, starts, faults>>
  BY DEF CancelMail
<1>2. /\ c \in [Call -> CallRecord]
      /\ \A j \in Call : /\ Alike(c[j], call[j])
                         /\ active[q] = j => c[j].aborted
                         /\ active[q] # j => c[j] = call[j]
  BY AbortShape
<1> HIDE DEF c
<1>3. active \in [RequestId -> Call \cup {None}]
  BY DEF Typed, AccountTypeOK
<1>4. \A j \in Call : /\ c[j].pc = call[j].pc /\ c[j].does = call[j].does
                      /\ c[j].op = call[j].op /\ c[j].request = call[j].request
  BY <1>2 DEF Alike
<1>5. \A j \in Call : active[q] = j => Does(j, "read") /\ call[j].pc # "idle"
  BY <1>3, IdleFields DEF Typed, Purposes, ReadersCanBeCancelled, Does
<1>6. call' \in [Call -> CallRecord] /\ active' \in [RequestId -> Call \cup {None}]
  BY <1>1, <1>2, <1>3
<1>7. Purposes'
  BY <1>1, <1>2, <1>4, <1>5 DEF Typed, Purposes, Does
<1>8. ReadersCanBeCancelled'
  <2>1. /\ \A p \in RequestId : active'[p] = IF p = q THEN None ELSE active[p]
        /\ \A j \in Call : Does(j, "read") => call[j].request \in RequestId
    BY <1>1, <1>3, RecordFacts
  <2> QED BY <1>1, <1>2, <1>3, <1>4, <1>5, <2>1 DEF Typed, ReadersCanBeCancelled, Does
<1> QED BY <1>1, <1>6, <1>7, <1>8, StartTyped

\* Commands other than mail readers.
LEMMA StartsTyped ==
  ASSUME Typed, NEW k \in Call, NEW op \in 0 .. MaxStarts,
         NEW label \in Account \cup {None},
         NEW what \in {"configure", "connect", "test", "sync", "create"},
         NEW pc \in {"encryptSecret", "consent", "token"}, Starts(k, what, pc, op, label),
         op = IF what = "create" THEN starts + 1 ELSE 0
  PROVE  Typed'
<1>1. /\ call[k].pc = "idle" /\ call' \in [Call -> CallRecord]
      /\ call'[k].pc = pc /\ call'[k].does = what /\ call'[k].op = op
      /\ call'[k].request = None /\ ~ call'[k].aborted
      /\ \A j \in Call : j # k => call'[j] = call[j]
      /\ starts < MaxStarts /\ starts' = starts + 1
      /\ UNCHANGED <<db, disk, active, events, told, faults>>
  BY StartsShape DEF Typed
<1>2. starts \in Nat /\ op \in Nat /\ \A j \in Call : call[j].op \in Nat /\ call[j].op <= starts
  BY RecordFacts DEF Typed, Purposes
<1>3. ~ Does(k, "read")
  BY <1>1, IdleFields DEF Typed, Purposes, Does
<1>4. Purposes'
  <2>1. \A j \in Call : /\ call'[j].pc = "idle" => call'[j] = Idle
                        /\ call'[j].does = "create" <=> call'[j].op # 0
                        /\ call'[j].op <= starts'
                        /\ call'[j].does = "read" <=> call'[j].request # None
                        /\ call'[j].aborted => call'[j].does = "read"
    BY <1>1, <1>2 DEF Typed, Purposes, Does
  <2>2. \A i, j \in Call : call'[i].op = call'[j].op /\ call'[j].op # 0 => i = j
    BY <1>1, <1>2 DEF Typed, Purposes
  <2> QED BY <2>1, <2>2 DEF Purposes, Does
<1>5. ReadersCanBeCancelled'
  <2>1. active \in [RequestId -> Call \cup {None}]
    BY DEF Typed, AccountTypeOK
  <2>2. \A p \in RequestId : active[p] # k
    BY <1>3 DEF Typed, ReadersCanBeCancelled
  <2>3. call'[k].does # "read"
    BY <1>1
  <2> QED BY <1>1, <2>1, <2>2, <2>3 DEF Typed, ReadersCanBeCancelled, Does
<1>6. active' \in [RequestId -> Call \cup {None}]
  BY <1>1 DEF Typed, AccountTypeOK
<1> QED BY <1>1, <1>4, <1>5, <1>6, StartTyped

LEMMA AcceptCallbackStep ==
  ASSUME Typed, NEW k \in Call, AcceptCallback(k)
  PROVE  StepShape(k) /\ Onward(k) /\ call'[k].pc = "consent"
<1> DEFINE new == [call[k] EXCEPT !.code = TRUE]
<1>1. /\ call \in [Call -> CallRecord] /\ db \in Vault /\ disk \in Vault
      /\ events \in [Command -> Nat] /\ faults \in 0 .. MaxFaults
  BY DEF Typed, AccountTypeOK
<1>2. call[k] \in CallRecord /\ call[k].pc = "consent"
  BY <1>1 DEF AcceptCallback, At
<1>3. /\ new \in CallRecord /\ new.pc = "consent"
      /\ new.does = call[k].does /\ new.op = call[k].op /\ new.label = call[k].label
      /\ new.request = call[k].request /\ new.aborted = call[k].aborted
  BY <1>2 DEF CallRecord
<1>4. call' = [call EXCEPT ![k] = new] /\ Busy(k)
  BY <1>2 DEF AcceptCallback, Busy
<1> HIDE DEF new
<1>5. Onward(k) /\ call'[k].pc = "consent"
  BY <1>1, <1>3, <1>4 DEF Onward
<1> QED BY <1>1, <1>5 DEF AcceptCallback, StepShape, CallShape

\* A command that is over as soon as it has changed the account.
LEMMA AccountTyped ==
  ASSUME Typed, NEW k \in Call, Counted(k), db' \in Vault,
         \/ disk' = db' /\ UNCHANGED faults
         \/ Fault /\ disk' \in {disk, db'},
         UNCHANGED <<call, active, events, told>>
  PROVE  Typed'
<1>1. starts' \in 0 .. MaxStarts /\ starts <= starts'
  BY RecordFacts DEF Counted
<1>2. faults' \in 0 .. MaxFaults
  BY RecordFacts DEF Fault
<1>3. disk' \in Vault
  BY DEF Typed, AccountTypeOK
<1>4. AccountTypeOK'
  BY <1>1, <1>2, <1>3 DEF Typed, AccountTypeOK
<1>5. Purposes' /\ ReadersCanBeCancelled'
  BY <1>1, RecordFacts DEF Typed, Purposes, ReadersCanBeCancelled, Does
<1> QED BY <1>4, <1>5 DEF Typed

LEMMA UnconfiguredIsVault ==
  ASSUME NEW k \in Call, NEW d \in Vault
  PROVE  Unconfigured(k, d) \in Vault
<1>1. [d EXCEPT !.status = "unconfigured", !.label = None] \in Vault
  BY DEF Vault, Status
<1> QED BY <1>1, SpeaksIsVault DEF Unconfigured, Status

LEMMA WithoutAccountIsVault ==
  ASSUME NEW d \in Vault
  PROVE  /\ WithoutAccount(d) \in Vault
         /\ WithoutAccount(d).status = IF d.status = "none" THEN "none" ELSE "disabled"
         /\ WithoutAccount(d).tokens = None /\ ~ WithoutAccount(d).secret
         /\ WithoutAccount(d).meetings = d.meetings
<1> DEFINE status == IF d.status = "none" THEN "none" ELSE "disabled"
<1>1. status \in Status
  BY DEF Status
<1>2. WithoutAccount(d) = [d EXCEPT !.tokens = None, !.secret = FALSE, !.status = status]
  BY DEF WithoutAccount
<1> HIDE DEF status
<1>3. /\ [d EXCEPT !.tokens = None, !.secret = FALSE, !.status = status] \in Vault
      /\ [d EXCEPT !.tokens = None, !.secret = FALSE, !.status = status].status = status
      /\ [d EXCEPT !.tokens = None, !.secret = FALSE, !.status = status].tokens = None
      /\ ~ [d EXCEPT !.tokens = None, !.secret = FALSE, !.status = status].secret
      /\ [d EXCEPT !.tokens = None, !.secret = FALSE, !.status = status].meetings = d.meetings
  BY <1>1 DEF Vault
<1> QED BY <1>2, <1>3 DEF status

LEMMA FounderTyped == ASSUME Typed, Founder PROVE Typed'
<1>1. db \in Vault
  BY DEF Typed, AccountTypeOK
<1>2. ASSUME NEW k \in Call, Configure(k) PROVE Typed'
  <2>1. [db EXCEPT !.secret = FALSE] \in Vault
    BY <1>1 DEF Vault
  <2> QED BY <1>2, <2>1, UnconfiguredIsVault, AccountTyped DEF Configure
<1>3. ASSUME NEW k \in Call, Disconnect(k) PROVE Typed'
  <2>1. Speaks(k, WithoutAccount(db), WithoutAccount(db).status, TRUE) \in Vault
    BY <1>1, WithoutAccountIsVault, SpeaksIsVault DEF Vault
  <2> QED BY <1>3, <2>1, AccountTyped DEF Disconnect
<1>4. ASSUME NEW k \in Call, ConfigureWithSecret(k) PROVE Typed'
  BY <1>4, StartsTyped DEF ConfigureWithSecret
<1>5. ASSUME NEW k \in Call, Connect(k) PROVE Typed'
  BY <1>5, StartsTyped DEF Connect
<1>6. ASSUME NEW k \in Call, Test(k) PROVE Typed'
  BY <1>6, StartsTyped DEF Test
<1>7. ASSUME NEW k \in Call, SyncCalendar(k) PROVE Typed'
  <2>1. db.label \in Account \cup {None}
    BY <1>1 DEF Vault
  <2> QED BY <1>7, <2>1, StartsTyped DEF SyncCalendar
<1>8. ASSUME NEW k \in Call, CreateMeeting(k) PROVE Typed'
  <2>1. starts + 1 \in 0 .. MaxStarts
    BY <1>8, RecordFacts DEF CreateMeeting, Starts, Counted
  <2> QED BY <1>8, <2>1, StartsTyped DEF CreateMeeting
<1>9. ASSUME NEW k \in Call, AcceptCallback(k) PROVE Typed'
  BY <1>9, AcceptCallbackStep, StepTyped
<1> QED BY <1>2, <1>3, <1>4, <1>5, <1>6, <1>7, <1>8, <1>9, ReadMailTyped, CancelMailTyped
        DEF Founder

LEMMA CrashTyped == ASSUME Typed, Crash PROVE Typed'
<1>1. faults' \in 0 .. MaxFaults
  BY RecordFacts DEF Crash, Fault
<1>2. call' = [k \in Call |-> Idle] /\ active' = [q \in RequestId |-> None]
  BY DEF Crash
<1>3. Purposes' /\ ReadersCanBeCancelled'
  <2>1. \A k \in Call : call'[k] = Idle
    BY <1>2
  <2>2. starts' = starts /\ starts \in Nat
    BY RecordFacts DEF Crash
  <2> QED BY <1>2, <2>1, <2>2, IdleFields DEF Purposes, ReadersCanBeCancelled, Does
<1>4. AccountTypeOK'
  BY <1>1, <1>2, IdleIsRecord DEF Crash, Typed, AccountTypeOK
<1> QED BY <1>3, <1>4 DEF Typed

LEMMA NextTyped == Typed /\ [Next]_vars => Typed'
<1> SUFFICES ASSUME Typed, [Next]_vars PROVE Typed'
  OBVIOUS
<1>1. CASE UNCHANGED vars
  <2>1. AccountTypeOK'
    BY <1>1 DEF vars, Typed, AccountTypeOK
  <2>2. Purposes'
    BY <1>1 DEF vars, Typed, Purposes, Does
  <2>3. ReadersCanBeCancelled'
    BY <1>1 DEF vars, Typed, ReadersCanBeCancelled, Does
  <2> QED BY <2>1, <2>2, <2>3 DEF Typed
<1>2. ASSUME NEW k \in Call, Proceed(k) PROVE Typed'
  BY <1>2, ProceedStep, StepTyped DEF Typed
<1> QED BY <1>1, <1>2, FounderTyped, CrashTyped DEF Next

LEMMA TypeInvariance == Spec => []Typed
<1> QED BY InitTyped, NextTyped, PTL DEF Spec

\* The account, the commands and the registry of mail requests always have
\* their types, and no request makes more attempts than authorizedRequest
\* allows.
THEOREM AccountTypes == Spec => []AccountTypeOK
<1>1. Typed => AccountTypeOK
  BY DEF Typed
<1> QED BY <1>1, TypeInvariance, PTL

\* A mail request that is shown as running is registered for the command that
\* carries it out, so that cancelling or replacing it always reaches the reader
\* (readMail and cancelMail), whatever else starts and ends meanwhile.
THEOREM ReadersAreRegistered == Spec => []ReadersCanBeCancelled
<1>1. Typed => ReadersCanBeCancelled
  BY DEF Typed
<1> QED BY <1>1, TypeInvariance, PTL

-----------------------------------------------------------------------------
(* Meetings *)

Underway == {"token", "decrypt", "request"}

\* What is known of the meeting that command k creates.
Meeting(k) ==
  Does(k, "create") =>
    /\ told[call[k].op] = "nothing"
    /\ \/ call[k].pc \in Underway /\ events[call[k].op] = 0
       \/ call[k].pc \in {"imported", "closing"} /\ call[k].op \in disk.meetings

MeetingInv ==
  /\ disk.meetings \subseteq db.meetings
  /\ \A n \in Command : n > starts => events[n] = 0 /\ told[n] = "nothing"
  /\ \A k \in Call : Meeting(k)
  /\ MeetingReportIsTrue

\* What a step has to show of the meeting of the command that makes it.
MeetingStep(k) ==
  /\ db.meetings \subseteq db'.meetings
  /\ \A n \in Command :
       n # call[k].op => events'[n] = events[n] /\ (n \in db'.meetings => n \in db.meetings)
  /\ Does(k, "create") =>
       LET n == call[k].op
       IN  /\ events'[n] <= 1
           /\ told'[n] = "failed" => events'[n] = 0
           /\ told'[n] = "ok" => n \in disk'.meetings
           /\ n \in db'.meetings => events'[n] = 1
           /\ Meeting(k)'

LEMMA MeetingStepKeeps ==
  ASSUME Typed, MeetingInv, NEW k \in Call, StepShape(k), MeetingStep(k)
  PROVE  MeetingInv'
<1>1. /\ disk' \in {disk, db'} /\ starts' = starts /\ starts \in Nat
      /\ db.meetings \subseteq db'.meetings /\ db'.meetings \subseteq Command
      /\ disk.meetings \subseteq db.meetings
  <2>1. db' \in Vault /\ disk' \in {disk, db'} /\ starts' = starts
    BY DEF StepShape
  <2> QED BY <2>1, RecordFacts DEF MeetingStep, MeetingInv, Vault
<1>2. \A j \in Call : j # k => call'[j] = call[j]
  BY FinishedShape DEF StepShape, CallShape, Onward, Typed
<1>3. \A n \in Command : n # call[k].op => told'[n] = told[n]
  BY FinishedShape DEF StepShape, CallShape, Typed
<1>4. /\ call[k].op \in 0 .. MaxStarts /\ call[k].op <= starts
      /\ call[k].op # 0 <=> Does(k, "create")
      /\ \A j \in Call : Does(j, "create") => call[j].op \in Command
      /\ \A j \in Call : j # k /\ Does(j, "create") => call[j].op # call[k].op
  BY RecordFacts DEF Typed, Purposes
<1>5. disk'.meetings \subseteq db'.meetings
  BY <1>1
<1>6. \A n \in Command : n > starts' => events'[n] = 0 /\ told'[n] = "nothing"
  BY <1>1, <1>3, <1>4 DEF MeetingInv, MeetingStep, Command
<1>7. ASSUME NEW j \in Call PROVE Meeting(j)'
  <2>1. CASE j = k
    <3>1. Does(k, "create") => Meeting(k)'
      BY DEF MeetingStep
    <3>2. Does(k, "create")' => Does(k, "create")
      BY FinishedShape, IdleFields DEF StepShape, CallShape, Onward, Does, Typed
    <3> QED BY <2>1, <3>1, <3>2 DEF Meeting
  <2>2. CASE j # k
    <3>1. call'[j] = call[j] /\ Meeting(j)
      BY <1>2, <2>2 DEF MeetingInv
    <3>2. Does(j, "create") => /\ told'[call[j].op] = told[call[j].op]
                               /\ events'[call[j].op] = events[call[j].op]
      BY <1>3, <1>4, <2>2 DEF MeetingStep
    <3>3. disk.meetings \subseteq disk'.meetings
      BY <1>1
    <3> QED BY <3>1, <3>2, <3>3 DEF Meeting, Does
  <2> QED BY <2>1, <2>2
<1>8. ASSUME NEW n \in Command
      PROVE  /\ events'[n] <= 1
             /\ told'[n] = "failed" => events'[n] = 0
             /\ told'[n] = "ok" => n \in db'.meetings \cap disk'.meetings
             /\ n \in db'.meetings => events'[n] = 1
  <2>1. CASE n = call[k].op
    <3>1. Does(k, "create")
      BY <1>4, <2>1 DEF Command
    <3> QED BY <1>5, <2>1, <3>1 DEF MeetingStep
  <2>2. CASE n # call[k].op
    <3>1. /\ events'[n] = events[n] /\ told'[n] = told[n]
          /\ n \in db'.meetings => n \in db.meetings
      BY <1>3, <2>2 DEF MeetingStep
    <3> QED BY <1>1, <3>1 DEF MeetingInv, MeetingReportIsTrue
  <2> QED BY <2>1, <2>2
<1> QED BY <1>5, <1>6, <1>7, <1>8 DEF MeetingInv, MeetingReportIsTrue

LEMMA SpeaksFields ==
  ASSUME NEW k \in Call, NEW d \in Vault, NEW status \in Status \cup {"changing"},
         NEW wasClear \in BOOLEAN
  PROVE  /\ Speaks(k, d, status, wasClear).status = d.status
         /\ Speaks(k, d, status, wasClear).label = d.label
         /\ Speaks(k, d, status, wasClear).tokens = d.tokens
         /\ Speaks(k, d, status, wasClear).secret = d.secret
         /\ Speaks(k, d, status, wasClear).meetings = d.meetings
         /\ Speaks(k, d, status, wasClear).word.status = status
         /\ Speaks(k, d, status, wasClear).word.clear =>
              wasClear /\ NoneOlder(k, Speaks(k, d, status, wasClear))
<1> DEFINE clear == wasClear /\ NoneOlder(k, d)
           word == [status |-> status, clear |-> clear]
<1>1. Speaks(k, d, status, wasClear) = [d EXCEPT !.word = word]
  BY SpeaksIsVault
<1>2. word.status = status /\ word.clear = clear
  OBVIOUS
<1> HIDE DEF word
<1>3. /\ [d EXCEPT !.word = word].status = d.status /\ [d EXCEPT !.word = word].label = d.label
      /\ [d EXCEPT !.word = word].tokens = d.tokens /\ [d EXCEPT !.word = word].secret = d.secret
      /\ [d EXCEPT !.word = word].meetings = d.meetings /\ [d EXCEPT !.word = word].word = word
  BY DEF Vault
<1> HIDE DEF clear
<1>4. /\ Speaks(k, d, status, wasClear).word.status = status
      /\ Speaks(k, d, status, wasClear).word.clear = clear
  BY <1>1, <1>2, <1>3
<1>5. NoneOlder(k, d) => NoneOlder(k, Speaks(k, d, status, wasClear))
  BY <1>1, <1>3 DEF NoneOlder, HoldsOlder
<1> QED BY <1>1, <1>3, <1>4, <1>5 DEF clear

Said(k, d, status) == Speaks(k, d, status, TRUE)

LEMMA SaidFields ==
  ASSUME NEW k \in Call, NEW d \in Vault, NEW status \in Status \cup {"changing"}
  PROVE  /\ Said(k, d, status) \in Vault
         /\ Said(k, d, status).status = d.status /\ Said(k, d, status).label = d.label
         /\ Said(k, d, status).tokens = d.tokens /\ Said(k, d, status).secret = d.secret
         /\ Said(k, d, status).meetings = d.meetings
         /\ Said(k, d, status).word.status = status
         /\ Said(k, d, status).word.clear => NoneOlder(k, Said(k, d, status))
<1> DEFINE yes == TRUE
           v == Speaks(k, d, status, yes)
<1>1. yes \in BOOLEAN /\ v = Said(k, d, status)
  BY DEF Said
<1> HIDE DEF yes
<1>2. /\ v \in Vault /\ v.status = d.status /\ v.label = d.label /\ v.tokens = d.tokens
      /\ v.secret = d.secret /\ v.meetings = d.meetings /\ v.word.status = status
      /\ v.word.clear => NoneOlder(k, v)
  BY <1>1, SpeaksFields, SpeaksIsVault
<1> HIDE DEF v
<1> QED BY <1>1, <1>2

\* What each change of the vault makes of its fields; the word aside.
LEMMA ChangedVaults ==
  ASSUME Typed, NEW k \in Call, NEW a \in Account \cup {None}
  PROVE  /\ LET d == [db EXCEPT !.secret = TRUE]
            IN  /\ d \in Vault /\ d.status = db.status /\ d.label = db.label
                /\ d.tokens = db.tokens /\ d.meetings = db.meetings
         /\ LET d == [db EXCEPT !.secret = FALSE]
            IN  d \in Vault /\ d.meetings = db.meetings
         /\ LET d == [db EXCEPT !.tokens = a]
            IN  /\ d \in Vault /\ d.status = db.status /\ d.label = db.label
                /\ d.tokens = a /\ d.meetings = db.meetings /\ d.word = db.word
                /\ d.secret = db.secret
         /\ LET d == [db EXCEPT !.status = "connected", !.label = a]
            IN  /\ d \in Vault /\ d.status = "connected" /\ d.label = a
                /\ d.tokens = db.tokens /\ d.meetings = db.meetings /\ d.word = db.word
<1>1. db \in Vault
  BY DEF Typed, AccountTypeOK
<1> QED BY <1>1 DEF Vault, Status

\* What the commands make of the vault.
LEMMA VaultAfter ==
  ASSUME Typed, NEW k \in Call
  PROVE  /\ StoreSecret(k) =>
              /\ db'.meetings = db.meetings /\ db'.word.status = "changing"
              /\ db'.word.clear => NoneOlder(k, db')
         /\ FinishConfigure(k) \/ Configure(k) =>
              /\ db'.meetings = db.meetings /\ db'.status = "unconfigured"
              /\ db'.word.status = "unconfigured" /\ (db'.word.clear => NoneOlder(k, db'))
         /\ \A a \in Account : StoreTokens(k, a) =>
              /\ db'.meetings = db.meetings /\ db'.tokens = a
              /\ db'.word.status = "changing" /\ (db'.word.clear => NoneOlder(k, db'))
         /\ FinishConnect(k) =>
              /\ db'.meetings = db.meetings /\ db'.status = "connected"
              /\ db'.label = call[k].tok /\ db'.tokens = db.tokens
              /\ db'.word.status = "connected"
              /\ db'.word.clear => db.word.status = "changing" /\ db.word.clear /\ NoneOlder(k, db')
         /\ ReEncrypt(k) \/ StoreRefreshed(k) =>
              db' = [db EXCEPT !.tokens = call[k].tok] /\ db'.meetings = db.meetings
         /\ StoreCalendarSync(k) =>
              /\ db'.meetings = db.meetings /\ db'.status = "connected"
              /\ db'.label = call[k].label /\ db'.tokens = db.tokens /\ db'.word = db.word
         /\ Disconnect(k) =>
              /\ db'.meetings = db.meetings /\ db'.tokens = None /\ ~ db'.secret
              /\ db'.status = IF db.status = "none" THEN "none" ELSE "disabled"
              /\ db'.word.status = db'.status /\ (db'.word.clear => NoneOlder(k, db'))
<1>1. db \in Vault /\ call[k].label \in Account \cup {None} /\ call[k].tok \in Account \cup {None}
  BY DEF Typed, AccountTypeOK, CallRecord
<1>2. ASSUME StoreSecret(k)
      PROVE  /\ db'.meetings = db.meetings /\ db'.word.status = "changing"
             /\ db'.word.clear => NoneOlder(k, db')
  <2> DEFINE d == [db EXCEPT !.secret = TRUE]
  <2>1. d \in Vault /\ d.meetings = db.meetings
    BY ChangedVaults
  <2>2. db' = Said(k, d, "changing")
    BY <1>2 DEF StoreSecret, SavesThen, Said
  <2> HIDE DEF d
  <2> QED BY <2>1, <2>2, SaidFields
<1>3. ASSUME FinishConfigure(k) \/ Configure(k)
      PROVE  /\ db'.meetings = db.meetings /\ db'.status = "unconfigured"
             /\ db'.word.status = "unconfigured" /\ (db'.word.clear => NoneOlder(k, db'))
  <2> DEFINE d(e) == [e EXCEPT !.status = "unconfigured", !.label = None]
             open == [db EXCEPT !.secret = FALSE]
  <2>1. open \in Vault /\ open.meetings = db.meetings
    BY ChangedVaults
  <2>2. \A e \in Vault : d(e) \in Vault /\ d(e).status = "unconfigured" /\ d(e).meetings = e.meetings
    BY DEF Vault, Status
  <2>3. \/ db' = Said(k, d(db), "unconfigured")
        \/ db' = Said(k, d(open), "unconfigured")
    BY <1>3, Zenon DEF FinishConfigure, Configure, SavesThen, Said, Unconfigured
  <2>4. "unconfigured" \in Status
    BY DEF Status
  <2> HIDE DEF d, open
  <2> QED BY <1>1, <2>1, <2>2, <2>3, <2>4, SaidFields
<1>4. ASSUME NEW a \in Account, StoreTokens(k, a)
      PROVE  /\ db'.meetings = db.meetings /\ db'.tokens = a
             /\ db'.word.status = "changing" /\ (db'.word.clear => NoneOlder(k, db'))
  <2> DEFINE d == [db EXCEPT !.tokens = a]
  <2>1. d \in Vault /\ d.meetings = db.meetings /\ d.tokens = a
    BY ChangedVaults
  <2>2. db' = Said(k, d, "changing")
    BY <1>4 DEF StoreTokens, Said
  <2> HIDE DEF d
  <2> QED BY <2>1, <2>2, SaidFields
<1>5. ASSUME FinishConnect(k)
      PROVE  /\ db'.meetings = db.meetings /\ db'.status = "connected"
             /\ db'.label = call[k].tok /\ db'.tokens = db.tokens
             /\ db'.word.status = "connected"
             /\ db'.word.clear => db.word.status = "changing" /\ db.word.clear /\ NoneOlder(k, db')
  <2> DEFINE d == [db EXCEPT !.status = "connected", !.label = call[k].tok]
             clear == db.word.status = "changing" /\ db.word.clear
  <2>1. /\ d \in Vault /\ d.meetings = db.meetings /\ d.status = "connected"
        /\ d.label = call[k].tok /\ d.tokens = db.tokens
    BY <1>1, ChangedVaults
  <2>2. db' = Speaks(k, d, "connected", clear)
    BY <1>5 DEF FinishConnect, SavesThen
  <2>3. clear \in BOOLEAN
    BY Zenon
  <2>4. clear => db.word.status = "changing" /\ db.word.clear
    OBVIOUS
  <2>5. "connected" \in Status
    BY DEF Status
  <2> HIDE DEF d, clear
  <2> QED BY <2>1, <2>2, <2>3, <2>4, <2>5, SpeaksFields
<1>6. ASSUME ReEncrypt(k) \/ StoreRefreshed(k)
      PROVE  db' = [db EXCEPT !.tokens = call[k].tok] /\ db'.meetings = db.meetings
  <2>1. db' = [db EXCEPT !.tokens = call[k].tok]
    BY <1>6, Zenon DEF ReEncrypt, StoreRefreshed
  <2> QED BY <1>1, <2>1, ChangedVaults
<1>7. ASSUME StoreCalendarSync(k)
      PROVE  /\ db'.meetings = db.meetings /\ db'.status = "connected"
             /\ db'.label = call[k].label /\ db'.tokens = db.tokens /\ db'.word = db.word
  BY <1>1, <1>7, ChangedVaults DEF StoreCalendarSync, SavesThen
<1>8. ASSUME Disconnect(k)
      PROVE  /\ db'.meetings = db.meetings /\ db'.tokens = None /\ ~ db'.secret
             /\ db'.status = IF db.status = "none" THEN "none" ELSE "disabled"
             /\ db'.word.status = db'.status /\ (db'.word.clear => NoneOlder(k, db'))
  <2> DEFINE d == WithoutAccount(db)
  <2>1. /\ d \in Vault /\ d.meetings = db.meetings /\ d.tokens = None /\ ~ d.secret
        /\ d.status = (IF db.status = "none" THEN "none" ELSE "disabled") /\ d.status \in Status
    BY <1>1, WithoutAccountIsVault DEF Vault
  <2>2. db' = Said(k, d, d.status)
    BY <1>8, Zenon DEF Disconnect, Said
  <2> HIDE DEF d
  <2> QED BY <2>1, <2>2, SaidFields
<1> QED BY <1>2, <1>3, <1>4, <1>5, <1>6, <1>7, <1>8

LEMMA OtherMeetingStep ==
  ASSUME Typed, NEW k \in Call, Proceed(k), ~ Does(k, "create")
  PROVE  MeetingStep(k)
<1>1. CASE events' = events /\ db'.meetings = db.meetings
  BY <1>1 DEF MeetingStep
<1>2. CASE StoreSecret(k) \/ FinishConfigure(k) \/ FinishConnect(k) \/ StoreCalendarSync(k)
  <2>1. events' = events
    BY <1>2 DEF StoreSecret, FinishConfigure, FinishConnect, StoreCalendarSync, SavesThen
  <2> QED BY <1>1, <1>2, <2>1, VaultAfter
<1>3. ASSUME NEW a \in Account, StoreTokens(k, a) PROVE MeetingStep(k)
  <2>1. events' = events
    BY <1>3 DEF StoreTokens
  <2> QED BY <1>1, <1>3, <2>1, VaultAfter
<1>4. CASE ReEncrypt(k) \/ StoreRefreshed(k)
  <2>1. events' = events
    BY <1>4 DEF ReEncrypt, StoreRefreshed
  <2> QED BY <1>1, <1>4, <2>1, VaultAfter
<1>5. ASSUME NEW answer \in Answer, AnswerBadly(k, answer) PROVE MeetingStep(k)
  BY <1>1, <1>5 DEF AnswerBadly, ActsOn
<1>6. CASE ConsentFails(k) \/ ExchangeFails(k) \/ Cancelled(k) \/ AnswerWell(k) \/ Close(k)
  BY <1>1, <1>6 DEF ConsentFails, ExchangeFails, Cancelled, AnswerWell, Close, Ends
<1>7. CASE NotConnected(k) \/ TokenFails(k)
  BY <1>1, <1>7 DEF NotConnected, TokenFails, NoToken
<1>8. CASE BrowserOpens(k) \/ TakeCallback(k) \/ ReadTokens(k) \/ UseStored(k)
  BY <1>1, <1>8 DEF BrowserOpens, TakeCallback, ReadTokens, UseStored
<1>9. CASE ImportCalendar(k)
  BY <1>1, <1>9 DEF ImportCalendar, SavesThen
<1>10. ASSUME NEW t \in PageToken, MorePages(k, t) PROVE MeetingStep(k)
  BY <1>1, <1>10 DEF MorePages
<1>11. ~ ImportMeeting(k) /\ ~ UpdateMeeting(k)
  BY DEF ImportMeeting, UpdateMeeting
<1> QED BY <1>2, <1>3, <1>4, <1>5, <1>6, <1>7, <1>8, <1>9, <1>10, <1>11 DEF Proceed

\* The command that creates a meeting, before the provider has said yes.
LEMMA UnderwayMeetingStep ==
  ASSUME Typed, MeetingInv, NEW k \in Call, Does(k, "create"), call[k].pc \in Underway,
         StepShape(k), db'.meetings = db.meetings,
         \A n \in Command : n # call[k].op => events'[n] = events[n],
         events'[call[k].op] \in {0, 1},
         \/ /\ Onward(k) /\ UNCHANGED told
            /\ call'[k].pc \in Underway /\ events'[call[k].op] = 0
         \/ \E report \in Report \ {"ok"} :
              Finished(k, report) /\ (report = "failed" => events'[call[k].op] = 0)
  PROVE  MeetingStep(k)
<1> DEFINE n == call[k].op
<1>1. /\ n \in Command /\ told[n] = "nothing" /\ events[n] = 0 /\ n \notin db.meetings
  <2>1. n \in Command
    BY RecordFacts
  <2>2. Meeting(k)
    BY DEF MeetingInv
  <2>3. told[n] = "nothing" /\ events[n] = 0
    BY <2>2 DEF Meeting, Underway
  <2>4. n \notin db.meetings
    BY <2>1, <2>3 DEF MeetingInv, MeetingReportIsTrue
  <2> QED BY <2>1, <2>3, <2>4
<1>2. CASE /\ Onward(k) /\ UNCHANGED told
           /\ call'[k].pc \in Underway /\ events'[call[k].op] = 0
  <2>1. call'[k].op = n /\ told' = told
    BY <1>2 DEF Onward
  <2>2. Meeting(k)'
    BY <1>1, <1>2, <2>1 DEF Meeting
  <2> QED BY <1>1, <1>2, <2>2 DEF MeetingStep
<1>3. ASSUME NEW report \in Report \ {"ok"}, Finished(k, report),
             report = "failed" => events'[call[k].op] = 0
      PROVE  MeetingStep(k)
  <2>1. call'[k] = Idle /\ told'[n] = report
    BY <1>1, <1>3, FinishedShape DEF Typed
  <2>2. Meeting(k)'
    BY <2>1, IdleFields DEF Meeting, Does
  <2> QED BY <1>1, <1>3, <2>1, <2>2 DEF MeetingStep
<1> QED BY <1>2, <1>3

LEMMA CreateAnswers ==
  ASSUME Typed, NEW k \in Call, Does(k, "create"), NEW answer \in Answer \ {"ok"}
  PROVE  /\ After(k, answer) = "retry" => answer = "throttled"
         /\ After(k, answer) = "failed" => answer \in {"refused", "throttled"}
         /\ After(k, "lost") # "retry"
         /\ answer \in {"refused", "throttled"} => ActsOn(k, answer) = {events}
<1>1. ~ Does(k, "read") /\ ~ Does(k, "test") /\ ~ call[k].aborted
  BY DEF Typed, Purposes, Does
<1> QED BY <1>1 DEF After, Verdict, Repeatable, Unclear, RequestKind, ActsOn, MayHaveActed, Answer

LEMMA CreateMeetingStep ==
  ASSUME Typed, MeetingInv, NEW k \in Call, Proceed(k), Does(k, "create")
  PROVE  MeetingStep(k)
<1> DEFINE n == call[k].op
<1>1. StepShape(k)
  BY ProceedStep DEF Typed
<1>2. /\ n \in Command /\ events \in [Command -> Nat] /\ Meeting(k)
      /\ ~ Does(k, "read") /\ ~ Does(k, "test") /\ ~ Does(k, "sync") /\ ~ call[k].aborted
  BY RecordFacts DEF Typed, AccountTypeOK, MeetingInv, Purposes, Does
<1>3. \/ call[k].pc \in Underway /\ events[n] = 0
      \/ call[k].pc \in {"imported", "closing"} /\ n \in disk.meetings
  BY <1>2 DEF Meeting
<1>4. CASE NotConnected(k) \/ TokenFails(k)
  <2>1. /\ Busy(k) /\ AttemptFails(k, "lost") /\ UNCHANGED <<db, events>>
        /\ call[k].pc \in Underway
    BY <1>4 DEF NotConnected, TokenFails, NoToken, At, Busy, Underway
  <2>2. \/ GoesOn(k, "token") /\ UNCHANGED <<active, told>>
        \/ Finished(k, After(k, "lost")) /\ After(k, "lost") \in {"failed", "ambiguous"}
    BY <2>1, AttemptFailsShape DEF Typed, Answer
  <2>3. events'[n] = 0
    BY <1>3, <2>1 DEF Underway
  <2>4. "token" \in Underway /\ {"failed", "ambiguous"} \subseteq Report \ {"ok"}
    BY DEF Underway, Report
  <2> QED BY <1>1, <2>1, <2>2, <2>3, <2>4, UnderwayMeetingStep DEF GoesOn
<1>5. CASE ReadTokens(k) \/ UseStored(k) \/ ReEncrypt(k)
  <2>1. /\ call[k].pc \in {"token", "decrypt"} /\ UNCHANGED <<events, told>> /\ Busy(k)
        /\ db'.meetings = db.meetings
    BY <1>5, VaultAfter DEF ReadTokens, UseStored, ReEncrypt, At, Busy
  <2>2. Onward(k) /\ call'[k].pc \in Underway
    BY <1>5, <2>1, GotoGoes, FieldSteps
       DEF ReadTokens, UseStored, ReEncrypt, GoesOn, Typed, Underway
  <2>3. call[k].pc \in Underway /\ events'[n] = 0
    BY <1>3, <2>1 DEF Underway
  <2> QED BY <1>1, <2>1, <2>2, <2>3, UnderwayMeetingStep
<1>6. CASE StoreRefreshed(k)
  <2>1. /\ call[k].pc = "decrypt" /\ UNCHANGED events /\ Busy(k) /\ db'.meetings = db.meetings
        /\ \/ Goto(k, "request") /\ UNCHANGED told
           \/ AttemptFails(k, "lost")
    BY <1>6, VaultAfter DEF StoreRefreshed, At, Busy
  <2>2. \/ Onward(k) /\ UNCHANGED told /\ call'[k].pc \in Underway
        \/ Finished(k, After(k, "lost")) /\ After(k, "lost") \in {"failed", "ambiguous"}
    BY <2>1, GotoGoes, AttemptFailsShape DEF GoesOn, Typed, Underway, Answer
  <2>3. call[k].pc \in Underway /\ events'[n] = 0
    BY <1>3, <2>1 DEF Underway
  <2>4. {"failed", "ambiguous"} \subseteq Report \ {"ok"}
    BY DEF Report
  <2> QED BY <1>1, <2>1, <2>2, <2>3, <2>4, UnderwayMeetingStep
<1>7. ASSUME NEW answer \in Answer, AnswerBadly(k, answer) PROVE MeetingStep(k)
  <2>1. /\ call[k].pc = "request" /\ Busy(k) /\ answer \in Answer \ {"ok"} /\ UNCHANGED db
        /\ events' \in ActsOn(k, answer) /\ AttemptFails(k, answer)
    BY <1>7 DEF AnswerBadly, At, Busy
  <2>2. \/ Onward(k) /\ UNCHANGED told /\ call'[k].pc \in Underway /\ After(k, answer) = "retry"
        \/ Finished(k, After(k, answer)) /\ After(k, answer) \in {"failed", "ambiguous"}
    <3>1. CASE After(k, answer) = "retry" /\ Retry(k) /\ UNCHANGED <<active, told>>
      BY <2>1, <3>1, RetryShape DEF GoesOn, Typed, Underway
    <3> QED BY <2>1, <3>1 DEF AttemptFails
  <2>3. call[k].pc \in Underway /\ events[n] = 0
    BY <1>3, <2>1 DEF Underway
  <2>4. events' = events \/ events' = [events EXCEPT ![n] = @ + 1]
    BY <2>1 DEF ActsOn
  <2>5. /\ events'[n] \in {0, 1}
        /\ \A m \in Command : m # n => events'[m] = events[m]
    BY <1>2, <2>3, <2>4
  <2>6. answer \in {"refused", "throttled"} => events'[n] = 0
    BY <2>1, <2>3, CreateAnswers
  <2>7. /\ After(k, answer) = "retry" => events'[n] = 0
        /\ After(k, answer) = "failed" => events'[n] = 0
    BY <2>1, <2>6, CreateAnswers
  <2>8. {"failed", "ambiguous"} \subseteq Report \ {"ok"}
    BY DEF Report
  <2> QED BY <1>1, <2>1, <2>2, <2>3, <2>5, <2>7, <2>8, UnderwayMeetingStep
<1>8. CASE ImportMeeting(k)
  <2> DEFINE d == [db EXCEPT !.meetings = @ \cup {n}]
  <2>1. /\ call[k].pc = "request" /\ Busy(k) /\ events' \in ActsOn(k, "ok") /\ db' = d
        /\ \/ disk' = d /\ Goto(k, "imported") /\ UNCHANGED <<active, told>>
           \/ Finished(k, "not stored")
    BY <1>8 DEF ImportMeeting, At, Busy
  <2>2. db'.meetings = db.meetings \cup {n}
    BY <2>1 DEF Typed, AccountTypeOK, Vault
  <2>3. events' = [events EXCEPT ![n] = @ + 1] /\ events[n] = 0
    BY <1>3, <2>1 DEF ActsOn, Underway
  <2>4. /\ events'[n] = 1
        /\ \A m \in Command : m # n => events'[m] = events[m]
    BY <1>2, <2>3
  <2>5. CASE disk' = d /\ Goto(k, "imported") /\ UNCHANGED <<active, told>>
    <3>1. call'[k].pc = "imported" /\ call'[k].op = n /\ told' = told /\ told[n] = "nothing"
      BY <1>2, <2>1, <2>5, GotoGoes DEF GoesOn, Onward, Typed, Meeting
    <3>2. n \in disk'.meetings
      BY <2>1, <2>2, <2>5
    <3>3. Meeting(k)'
      BY <3>1, <3>2 DEF Meeting
    <3> HIDE DEF d
    <3> QED BY <2>2, <2>4, <3>1, <3>3 DEF MeetingStep
  <2>6. CASE Finished(k, "not stored")
    <3>1. call'[k] = Idle /\ told'[n] = "not stored"
      BY <1>2, <2>6, FinishedShape DEF Typed, Report
    <3>2. Meeting(k)'
      BY <3>1, IdleFields DEF Meeting, Does
    <3>3. told'[n] \notin {"failed", "ok"}
      BY <3>1
    <3> HIDE DEF d
    <3> QED BY <2>2, <2>4, <3>2, <3>3 DEF MeetingStep
  <2> QED BY <2>1, <2>5, <2>6
<1>9. CASE UpdateMeeting(k)
  <2>1. /\ call[k].pc = "imported" /\ Busy(k) /\ SavesThen(k, db, "closing") /\ db \in Vault
    BY <1>9 DEF UpdateMeeting, At, Busy, Typed, AccountTypeOK
  <2>2. /\ db' = db /\ events' = events
        /\ \/ disk' = db /\ GoesOn(k, "closing") /\ UNCHANGED <<active, told>>
           \/ Finished(k, "not stored")
    BY <2>1, SavesThenShape DEF Typed
  <2>3. n \in disk.meetings /\ n \in db.meetings /\ told[n] = "nothing"
    BY <1>2, <1>3, <2>1 DEF Underway, MeetingInv, Meeting
  <2>4. events[n] = 1
    BY <1>2, <2>3 DEF MeetingInv, MeetingReportIsTrue
  <2>5. CASE disk' = db /\ GoesOn(k, "closing") /\ UNCHANGED <<active, told>>
    <3>1. Meeting(k)'
      BY <2>3, <2>5 DEF Meeting, GoesOn, Onward
    <3>2. told'[n] \notin {"failed", "ok"}
      BY <2>3, <2>5
    <3>3. db' = db /\ events' = events
      BY <2>2
    <3> QED BY <2>4, <3>1, <3>2, <3>3 DEF MeetingStep
  <2>6. CASE Finished(k, "not stored")
    <3>1. call'[k] = Idle /\ told'[n] = "not stored"
      BY <1>2, <2>6, FinishedShape DEF Typed, Report
    <3>2. Meeting(k)'
      BY <3>1, IdleFields DEF Meeting, Does
    <3>3. told'[n] \notin {"failed", "ok"}
      BY <3>1
    <3>4. db' = db /\ events' = events
      BY <2>2
    <3> QED BY <2>4, <3>2, <3>3, <3>4 DEF MeetingStep
  <2> QED BY <2>2, <2>5, <2>6
<1>10. CASE Close(k)
  <2>1. call[k].pc = "closing" /\ Finished(k, "ok") /\ UNCHANGED <<db, disk, events>>
    BY <1>10 DEF Close, Ends, At
  <2>2. n \in disk.meetings /\ n \in db.meetings
    BY <1>3, <2>1 DEF Underway, MeetingInv
  <2>3. events[n] = 1
    BY <1>2, <2>2 DEF MeetingInv, MeetingReportIsTrue
  <2>4. call'[k] = Idle /\ told'[n] = "ok"
    BY <1>2, <2>1, FinishedShape DEF Typed, Report
  <2>5. Meeting(k)'
    BY <2>4, IdleFields DEF Meeting, Does
  <2> QED BY <2>1, <2>2, <2>3, <2>4, <2>5 DEF MeetingStep
<1>11. /\ ~ StoreSecret(k) /\ ~ FinishConfigure(k) /\ ~ BrowserOpens(k) /\ ~ TakeCallback(k)
       /\ ~ ConsentFails(k) /\ ~ ExchangeFails(k) /\ ~ FinishConnect(k)
       /\ \A a \in Account : ~ StoreTokens(k, a)
  BY <1>3 DEF StoreSecret, FinishConfigure, BrowserOpens, TakeCallback, ConsentFails,
              ExchangeFails, FinishConnect, StoreTokens, At, Underway
<1>12. /\ ~ Cancelled(k) /\ ~ AnswerWell(k) /\ ~ ImportCalendar(k) /\ ~ StoreCalendarSync(k)
       /\ \A t \in PageToken : ~ MorePages(k, t)
  BY <1>2 DEF Cancelled, AnswerWell, ImportCalendar, StoreCalendarSync, MorePages
<1> QED BY <1>4, <1>5, <1>6, <1>7, <1>8, <1>9, <1>10, <1>11, <1>12 DEF Proceed

\* Steps of the founder and crashes create nothing: they leave what is known.
LEMMA QuietMeeting ==
  ASSUME Typed, MeetingInv, UNCHANGED <<events, told>>, starts <= starts', starts' \in Nat,
         disk' \in {disk, db'},
         db'.meetings = db.meetings \/ (db' = disk /\ \A k \in Call : call'[k] = Idle),
         \A k \in Call : Does(k, "create")' =>
           \/ /\ Does(k, "create") /\ call'[k].op = call[k].op /\ call'[k].pc = call[k].pc
           \/ call'[k].op = starts + 1 /\ call'[k].op \in Command /\ call'[k].pc = "token"
  PROVE  MeetingInv'
<1>1. starts \in Nat
  BY RecordFacts
<1>2. disk'.meetings \subseteq db'.meetings /\ db'.meetings \subseteq db.meetings
      /\ disk.meetings \subseteq db.meetings
  BY DEF MeetingInv
<1>3. ASSUME NEW k \in Call PROVE Meeting(k)'
  <2>1. CASE Does(k, "create") /\ call'[k].op = call[k].op /\ call'[k].pc = call[k].pc
    <3>1. CASE \A j \in Call : call'[j] = Idle
      BY <3>1, IdleFields DEF Meeting, Does
    <3>2. CASE db'.meetings = db.meetings
      <4>1. disk.meetings \subseteq disk'.meetings
        BY <1>2, <3>2
      <4>2. Meeting(k)
        BY DEF MeetingInv
      <4> QED BY <2>1, <4>1, <4>2 DEF Meeting
    <3> QED BY <3>1, <3>2
  <2>2. CASE call'[k].op = starts + 1 /\ call'[k].op \in Command /\ call'[k].pc = "token"
    <3>1. events[starts + 1] = 0 /\ told[starts + 1] = "nothing"
      BY <1>1, <2>2 DEF MeetingInv
    <3> QED BY <2>2, <3>1 DEF Meeting, Underway
  <2> QED BY <2>1, <2>2 DEF Meeting
<1>4. \A n \in Command : n > starts' => events'[n] = 0 /\ told'[n] = "nothing"
  BY <1>1 DEF MeetingInv, Command
<1>5. ASSUME NEW n \in Command
      PROVE  /\ events'[n] <= 1 /\ (told'[n] = "failed" => events'[n] = 0)
             /\ told'[n] = "ok" => n \in db'.meetings \cap disk'.meetings
             /\ n \in db'.meetings => events'[n] = 1
  <2>1. told[n] = "ok" => n \in db.meetings /\ n \in disk.meetings
    BY DEF MeetingInv, MeetingReportIsTrue
  <2>2. told[n] = "ok" => n \in db'.meetings /\ n \in disk'.meetings
    BY <2>1
  <2> QED BY <1>2, <2>2 DEF MeetingInv, MeetingReportIsTrue
<1> QED BY <1>2, <1>3, <1>4, <1>5 DEF MeetingInv, MeetingReportIsTrue

LEMMA FounderMeeting == ASSUME Typed, MeetingInv, Founder PROVE MeetingInv'
<1>1. starts \in Nat /\ starts \in 0 .. MaxStarts
  BY RecordFacts
<1>2. ASSUME NEW k \in Call, Configure(k) \/ Disconnect(k) PROVE MeetingInv'
  <2>1. db'.meetings = db.meetings
    BY <1>2, VaultAfter
  <2>2. UNCHANGED <<call, events, told>> /\ starts' = starts + 1 /\ disk' \in {disk, db'}
    BY <1>2 DEF Configure, Disconnect, Counted
  <2> QED BY <1>1, <2>1, <2>2, QuietMeeting DEF Does
<1>3. ASSUME NEW k \in Call, NEW op \in 0 .. MaxStarts, NEW label \in Account \cup {None},
             NEW what \in {"configure", "connect", "test", "sync", "create"},
             NEW pc \in {"encryptSecret", "consent", "token"}, Starts(k, what, pc, op, label),
             what = "create" => op = starts + 1 /\ pc = "token"
      PROVE  MeetingInv'
  <2>1. /\ call'[k].pc = pc /\ call'[k].does = what /\ call'[k].op = op
        /\ \A j \in Call : j # k => call'[j] = call[j]
        /\ starts' = starts + 1 /\ starts < MaxStarts
        /\ UNCHANGED <<db, disk, active, events, told, faults>>
    BY <1>3, StartsShape DEF Typed
  <2>2. \A j \in Call : Does(j, "create")' =>
          \/ /\ Does(j, "create") /\ call'[j].op = call[j].op /\ call'[j].pc = call[j].pc
          \/ call'[j].op = starts + 1 /\ call'[j].op \in Command /\ call'[j].pc = "token"
    BY <1>1, <1>3, <2>1 DEF Does, Command
  <2> QED BY <1>1, <2>1, <2>2, QuietMeeting
<1>4. ASSUME NEW k \in Call,
             ConfigureWithSecret(k) \/ Connect(k) \/ Test(k) \/ SyncCalendar(k) \/ CreateMeeting(k)
      PROVE  MeetingInv'
  <2>1. db.label \in Account \cup {None}
    BY DEF Typed, AccountTypeOK, Vault
  <2>2. CreateMeeting(k) => starts + 1 \in 0 .. MaxStarts
    BY <1>1 DEF CreateMeeting, Starts, Counted
  <2> QED BY <1>3, <1>4, <2>1, <2>2
          DEF ConfigureWithSecret, Connect, Test, SyncCalendar, CreateMeeting
<1>5. ASSUME NEW k \in Call, AcceptCallback(k) PROVE MeetingInv'
  <2>1. StepShape(k) /\ Onward(k) /\ call'[k].pc = "consent" /\ UNCHANGED <<db, disk, events, told>>
    BY <1>5, AcceptCallbackStep DEF AcceptCallback
  <2>2. ~ Does(k, "create")
    BY <1>5 DEF AcceptCallback, At, MeetingInv, Meeting, Underway
  <2>3. MeetingStep(k)
    BY <2>1, <2>2 DEF MeetingStep
  <2> QED BY <2>1, <2>3, MeetingStepKeeps
<1>6. ASSUME NEW c \in [Call -> CallRecord], \A j \in Call : Alike(c[j], call[j]),
             UNCHANGED <<db, disk, events, told>>, starts' \in Nat, starts <= starts',
             \/ call' = c
             \/ \E k \in Call, q \in RequestId : call' = [c EXCEPT ![k] = Reader(q)]
      PROVE  MeetingInv'
  <2>1. \A j \in Call : Does(j, "create")' =>
          Does(j, "create") /\ call'[j].op = call[j].op /\ call'[j].pc = call[j].pc
    BY <1>6, ReaderIsRecord DEF Alike, Does
  <2> QED BY <1>6, <2>1, QuietMeeting
<1>7. ASSUME NEW q \in RequestId, CancelMail(q) PROVE MeetingInv'
  <2>1. call' = Abort(call, q) /\ UNCHANGED <<db, disk, events, told, starts>>
    BY <1>7 DEF CancelMail
  <2> QED BY <1>1, <1>6, <2>1, AbortShape
<1>8. ASSUME NEW k \in Call, NEW q \in RequestId, NEW a \in Account, ReadMail(k, q, a)
      PROVE  MeetingInv'
  <2>1. UNCHANGED <<db, disk, events, told>> /\ starts' = starts + 1
    BY <1>8, ReadMailShape
  <2>2. call' = Abort(call, q) \/ call' = [Abort(call, q) EXCEPT ![k] = Reader(q)]
    BY <1>8, ReadMailShape
  <2> QED BY <1>1, <1>6, <2>1, <2>2, AbortShape
<1> QED BY <1>2, <1>4, <1>5, <1>7, <1>8 DEF Founder

LEMMA NextMeeting == Typed /\ MeetingInv /\ [Next]_vars => MeetingInv'
<1> SUFFICES ASSUME Typed, MeetingInv, [Next]_vars PROVE MeetingInv'
  OBVIOUS
<1>1. starts \in Nat
  BY RecordFacts
<1>2. CASE UNCHANGED vars
  BY <1>1, <1>2, QuietMeeting DEF vars, Does
<1>3. CASE Crash
  <2>1. \A k \in Call : call'[k] = Idle
    BY <1>3 DEF Crash
  <2>2. UNCHANGED <<events, told, starts, disk>> /\ db' = disk
    BY <1>3 DEF Crash
  <2> QED BY <1>1, <2>1, <2>2, IdleFields, QuietMeeting DEF Does
<1>4. ASSUME NEW k \in Call, Proceed(k) PROVE MeetingInv'
  BY <1>4, ProceedStep, OtherMeetingStep, CreateMeetingStep, MeetingStepKeeps DEF Typed
<1> QED BY <1>2, <1>3, <1>4, FounderMeeting DEF Next

LEMMA InitMeeting == Init => MeetingInv
<1> SUFFICES ASSUME Init PROVE MeetingInv
  OBVIOUS
<1>1. ASSUME NEW k \in Call PROVE Meeting(k)
  <2>1. call[k] = Idle
    BY DEF Init
  <2> QED BY <2>1, IdleFields DEF Meeting, Does
<1>2. db.meetings = {} /\ disk.meetings = {}
  BY LeftVaults DEF Init
<1>3. \A n \in Command : events[n] = 0 /\ told[n] = "nothing"
  BY DEF Init
<1> QED BY <1>1, <1>2, <1>3 DEF MeetingInv, MeetingReportIsTrue

LEMMA MeetingInvariance == Spec => []MeetingInv
<1>1. Typed /\ MeetingInv /\ [Next]_vars => MeetingInv'
  BY NextMeeting
<1> QED BY <1>1, InitMeeting, TypeInvariance, PTL DEF Spec

\* Whatever createMeetingInvite hears of its request, the provider makes the
\* event at most once; the founder is told it failed only if there is none, and
\* told it was created only if it is there, in the vault and in its file.
THEOREM MeetingReportsAreTrue == Spec => []MeetingReportIsTrue
<1>1. MeetingInv => MeetingReportIsTrue
  BY DEF MeetingInv
<1> QED BY <1>1, MeetingInvariance, PTL

-----------------------------------------------------------------------------
(* The last word *)

\* What command k has in hand does not undo the last word, if no command held
\* something older when it was spoken: tokens it has read are still the stored
\* ones, and a sync has the label of the account that is connected, or still
\* waits for a token it does not get.
InHand(k) ==
  /\ At(k, "tokensStored") => call[k].tok # None
  /\ db.word.clear =>
       /\ At(k, "decrypt") => call[k].tok = db.tokens
       /\ At(k, "tokensStored") => db.word.status = "changing" /\ call[k].tok = db.tokens
       /\ Does(k, "sync") /\ call[k].pc \in Underway \cup {"imported"} =>
            /\ db.word.status \in {"disabled", "unconfigured"} => At(k, "token")
            /\ db.word.status = "connected" => call[k].label = db.label

WordInv ==
  /\ LastWordHolds(db) /\ LastWordHolds(disk)
  /\ \A k \in Call : InHand(k)

Spoken == {"connected", "disabled", "unconfigured"}

\* The last word is what it was, and what it promises of the vault is as well.
LeavesWord ==
  /\ db'.word = db.word
  /\ db.word.clear => db'.tokens = db.tokens
  /\ db.word.clear /\ db.word.status \in Spoken =>
       db'.status = db.status /\ db'.label = db.label /\ db'.secret = db.secret

LEMMA QuietWord ==
  ASSUME WordInv, LeavesWord, disk' \in {disk, db'},
         \A j \in Call : \/ InHand(j)'
                         \/ /\ call'[j].pc = call[j].pc /\ call'[j].does = call[j].does
                            /\ call'[j].tok = call[j].tok /\ call'[j].label = call[j].label
  PROVE  WordInv'
<1>1. LastWordHolds(db') /\ LastWordHolds(disk')
  <2>1. LastWordHolds(db')
    <3>1. CASE db.word.clear /\ db.word.status \in Spoken
      BY <3>1 DEF WordInv, LeavesWord, LastWordHolds
    <3>2. CASE ~ (db.word.clear /\ db.word.status \in Spoken)
      BY <3>2 DEF LeavesWord, LastWordHolds, Spoken
    <3> QED BY <3>1, <3>2
  <2> QED BY <2>1 DEF WordInv
<1>2. ASSUME NEW j \in Call,
             call'[j].pc = call[j].pc, call'[j].does = call[j].does,
             call'[j].tok = call[j].tok, call'[j].label = call[j].label
      PROVE  InHand(j)'
  <2>1. InHand(j)
    BY DEF WordInv
  <2>2. "connected" \in Spoken
    BY DEF Spoken
  <2> QED BY <1>2, <2>1, <2>2 DEF InHand, LeavesWord, At, Does
<1> QED BY <1>1, <1>2 DEF WordInv

\* A command that changes the account has spoken.
LEMMA SpokenWord ==
  ASSUME WordInv, NEW k \in Call, LastWordHolds(db'), db'.word.clear => NoneOlder(k, db'),
         disk' \in {disk, db'}, InHand(k)', \A j \in Call : j # k => call'[j] = call[j]
  PROVE  WordInv'
<1>1. ASSUME NEW j \in Call, j # k PROVE InHand(j)'
  <2>1. call'[j] = call[j] /\ InHand(j)
    BY <1>1 DEF WordInv
  <2>2. db'.word.clear => ~ HoldsOlder(j, db')
    BY <1>1 DEF NoneOlder
  <2>3. CASE ~ db'.word.clear
    BY <2>1, <2>3 DEF InHand, At
  <2>4. CASE db'.word.clear
    <3>1. /\ call[j].pc # "tokensStored"
          /\ call[j].pc = "decrypt" => call[j].tok = db'.tokens
          /\ call[j].does = "sync" /\ call[j].pc # "closing" =>
               IF db'.status = "connected" THEN call[j].label = db'.label
               ELSE call[j].pc = "token"
      BY <2>2, <2>4 DEF HoldsOlder, At, Does
    <3>2. /\ db'.word.status = "connected" => db'.status = "connected"
          /\ db'.word.status \in {"disabled", "unconfigured"} => db'.status # "connected"
      BY <2>4 DEF LastWordHolds
    <3> QED BY <2>1, <3>1, <3>2 DEF InHand, At, Does, Underway
  <2> QED BY <2>3, <2>4
<1> QED BY <1>1 DEF WordInv

\* Nothing is in the hands of a command that is over, or about to be.
LEMMA NothingInHand ==
  ASSUME NEW k \in Call,
         call'[k].pc \notin {"tokensStored", "decrypt"},
         call'[k].pc \in Underway \cup {"imported"} => call'[k].does # "sync"
  PROVE  InHand(k)'
BY DEF InHand, At, Does

\* A command of which the vault learns nothing goes on.
LEMMA OnwardInHand ==
  ASSUME WordInv, NEW k \in Call, Onward(k), LeavesWord,
         call[k].pc \in Underway \cup {"imported"},
         call'[k].pc \notin {"tokensStored", "decrypt"},
         call[k].pc = "token" => call'[k].pc = "token"
  PROVE  InHand(k)'
<1>1. call'[k].does = call[k].does /\ call'[k].label = call[k].label /\ InHand(k)
  BY DEF Onward, WordInv
<1>2. "connected" \in Spoken
  BY DEF Spoken
<1> QED BY <1>1, <1>2 DEF InHand, LeavesWord, At, Does

LEMMA FinishedInHand ==
  ASSUME Typed, NEW k \in Call, NEW report \in Report, Finished(k, report)
  PROVE  InHand(k)' /\ \A j \in Call : j # k => call'[j] = call[j]
BY FinishedShape, NothingInHand, IdleFields DEF Typed, Underway

\* The commands that use the account leave the last word as it was.
LEMMA UseLeavesWord ==
  ASSUME Typed, WordInv, NEW k \in Call, Proceed(k),
         ~ StoreSecret(k), ~ FinishConfigure(k), ~ FinishConnect(k),
         \A a \in Account : ~ StoreTokens(k, a)
  PROVE  LeavesWord
<1>1. db \in Vault /\ InHand(k) /\ call[k].tok \in Account \cup {None}
      /\ call[k].label \in Account \cup {None}
  BY DEF Typed, AccountTypeOK, WordInv, CallRecord
<1>2. CASE db' = db
  BY <1>2 DEF LeavesWord
<1>3. CASE ReEncrypt(k) \/ StoreRefreshed(k)
  <2>1. At(k, "decrypt")
    BY <1>3 DEF ReEncrypt, StoreRefreshed
  <2>2. db.word.clear => call[k].tok = db.tokens
    BY <1>1, <2>1 DEF InHand
  <2>3. db' = [db EXCEPT !.tokens = call[k].tok]
    BY <1>3, VaultAfter
  <2>4. /\ db'.status = db.status /\ db'.label = db.label /\ db'.word = db.word
        /\ db'.tokens = call[k].tok /\ db'.secret = db.secret
    BY <1>1, <2>3, ChangedVaults
  <2> QED BY <2>2, <2>4 DEF LeavesWord
<1>4. CASE StoreCalendarSync(k)
  <2>1. /\ db'.status = "connected" /\ db'.label = call[k].label /\ db'.tokens = db.tokens
        /\ db'.word = db.word
    BY <1>4, VaultAfter
  <2>2. db'.secret = db.secret
    <3>1. db' = [db EXCEPT !.status = "connected", !.label = call[k].label]
      BY <1>4 DEF StoreCalendarSync, SavesThen
    <3> QED BY <1>1, <3>1 DEF Vault
  <2>3. Does(k, "sync") /\ call[k].pc \in Underway \cup {"imported"}
    BY <1>4 DEF StoreCalendarSync, At
  <2>4. db.word.clear /\ db.word.status \in Spoken =>
          db.word.status = "connected" /\ call[k].label = db.label
    <3>1. ~ At(k, "token")
      BY <1>4 DEF StoreCalendarSync, At
    <3> QED BY <1>1, <2>3, <3>1 DEF InHand, Spoken
  <2>5. db.word.clear /\ db.word.status = "connected" => db.status = "connected"
    BY DEF WordInv, LastWordHolds
  <2> QED BY <2>1, <2>2, <2>4, <2>5 DEF LeavesWord
<1>5. CASE ImportMeeting(k)
  <2> DEFINE meetings == db.meetings \cup {call[k].op}
  <2>1. db' = [db EXCEPT !.meetings = meetings]
    BY <1>5 DEF ImportMeeting
  <2> HIDE DEF meetings
  <2>2. /\ db'.status = db.status /\ db'.label = db.label /\ db'.word = db.word
        /\ db'.tokens = db.tokens /\ db'.secret = db.secret
    BY <1>1, <2>1 DEF Vault
  <2> QED BY <2>2 DEF LeavesWord
<1>6. \/ db' = db \/ ReEncrypt(k) \/ StoreRefreshed(k) \/ StoreCalendarSync(k)
      \/ ImportMeeting(k)
  BY Zenon DEF Proceed, BrowserOpens, TakeCallback, ConsentFails, ExchangeFails, ReadTokens,
     NotConnected, UseStored, TokenFails, NoToken, Cancelled, AnswerWell, AnswerBadly, MorePages,
     ImportCalendar, UpdateMeeting, Close, Ends, SavesThen
<1> QED BY <1>2, <1>3, <1>4, <1>5, <1>6

\* What a command that uses the account has in hand after a step.
LEMMA UseInHand ==
  ASSUME Typed, WordInv, NEW k \in Call, Proceed(k), LeavesWord,
         ~ StoreSecret(k), ~ FinishConfigure(k), ~ FinishConnect(k),
         \A a \in Account : ~ StoreTokens(k, a)
  PROVE  InHand(k)'
<1>1. AccountTypeOK
  BY DEF Typed
<1>2. ASSUME NEW report \in Report, Finished(k, report) PROVE InHand(k)'
  BY <1>2, FinishedInHand
<1>3. ASSUME GoesOnlyTo(k, "token") \/ GoesOnlyTo(k, "request") \/ GoesOnlyTo(k, "imported"),
             call[k].pc \in Underway, ~ At(k, "token") \/ GoesOnlyTo(k, "token")
      PROVE  InHand(k)'
  BY <1>3, OnwardInHand DEF GoesOnlyTo, At
<1>4. ASSUME GoesOnlyTo(k, "closing") \/ GoesOnlyTo(k, "consent") \/ GoesOnlyTo(k, "exchange")
      PROVE  InHand(k)'
  BY <1>4, NothingInHand DEF GoesOnlyTo, Underway
<1>5. CASE BrowserOpens(k)
  BY <1>1, <1>4, <1>5, FieldSteps DEF GoesOnlyTo
<1>6. CASE TakeCallback(k)
  BY <1>1, <1>4, <1>6, GotoGoes DEF TakeCallback, GoesOnlyTo, GoesOn, At, Busy
<1>7. CASE ConsentFails(k) \/ ExchangeFails(k) \/ Cancelled(k) \/ AnswerWell(k) \/ Close(k)
  BY <1>2, <1>7 DEF ConsentFails, ExchangeFails, Cancelled, AnswerWell, Close, Ends, Report
<1>8. ASSUME NEW answer \in Answer, AttemptFails(k, answer), call[k].pc \in Underway
      PROVE  InHand(k)'
  <2>1. Busy(k)
    BY <1>8 DEF Busy, Underway
  <2>2. \/ GoesOnlyTo(k, "token")
        \/ Finished(k, After(k, answer)) /\ After(k, answer) \in Report
    BY <1>1, <1>8, <2>1, AttemptFailsShape DEF GoesOnlyTo, GoesOn, Report
  <2> QED BY <1>2, <1>3, <1>8, <2>2
<1>9. CASE NotConnected(k) \/ TokenFails(k)
  BY <1>8, <1>9 DEF NotConnected, TokenFails, NoToken, At, Underway, Answer
<1>10. ASSUME NEW answer \in Answer, AnswerBadly(k, answer) PROVE InHand(k)'
  BY <1>8, <1>10 DEF AnswerBadly, At, Underway
<1>11. CASE ReEncrypt(k) \/ UseStored(k) \/ StoreRefreshed(k)
  <2>1. At(k, "decrypt") /\ (Goto(k, "request") \/ AttemptFails(k, "lost"))
    BY <1>11, Zenon DEF ReEncrypt, UseStored, StoreRefreshed
  <2>2. Goto(k, "request") => GoesOnlyTo(k, "request")
    BY <1>1, <2>1, GotoGoes DEF GoesOnlyTo, GoesOn, At, Busy
  <2> QED BY <1>3, <1>8, <2>1, <2>2 DEF At, Underway, Answer
<1>12. CASE ReadTokens(k)
  <2>1. /\ call'[k].pc = "decrypt" /\ call'[k].tok = db.tokens /\ db' = db
        /\ call'[k].does = call[k].does /\ call'[k].label = call[k].label
    BY <1>1, <1>12, FieldSteps DEF ReadTokens, Onward
  <2>2. InHand(k) /\ call[k].pc = "token"
    BY <1>12 DEF WordInv, ReadTokens, At
  <2>3. db.word.clear => db.word.status \notin {"disabled", "unconfigured"}
    BY <1>12 DEF ReadTokens, Connected, WordInv, LastWordHolds
  <2> QED BY <2>1, <2>2, <2>3 DEF InHand, At, Does, Underway
<1>13. ASSUME NEW t \in PageToken, MorePages(k, t) PROVE InHand(k)'
  BY <1>1, <1>2, <1>3, <1>13, FieldSteps DEF MorePages, At, Underway, Report
<1>14. CASE ImportCalendar(k) \/ ImportMeeting(k)
  <2>1. At(k, "request") /\ (Goto(k, "imported") \/ Finished(k, "not stored"))
    BY <1>14, Zenon DEF ImportCalendar, ImportMeeting, SavesThen
  <2>2. Goto(k, "imported") => GoesOnlyTo(k, "imported")
    BY <1>1, <2>1, GotoGoes DEF GoesOnlyTo, GoesOn, At, Busy
  <2> QED BY <1>2, <1>3, <2>1, <2>2 DEF At, Underway, Report
<1>15. CASE StoreCalendarSync(k) \/ UpdateMeeting(k)
  <2>1. At(k, "imported") /\ (Goto(k, "closing") \/ Finished(k, "not stored"))
    BY <1>15, Zenon DEF StoreCalendarSync, UpdateMeeting, SavesThen
  <2>2. Goto(k, "closing") => GoesOnlyTo(k, "closing")
    BY <1>1, <2>1, GotoGoes DEF GoesOnlyTo, GoesOn, At, Busy
  <2> QED BY <1>2, <1>4, <2>1, <2>2 DEF Report
<1> QED BY <1>5, <1>6, <1>7, <1>9, <1>10, <1>11, <1>12, <1>13, <1>14, <1>15 DEF Proceed

\* A command that changes the account in several steps.
LEMMA ChangeKeepsWord ==
  ASSUME Typed, WordInv, NEW k \in Call,
         \/ StoreSecret(k) \/ FinishConfigure(k) \/ FinishConnect(k)
         \/ \E a \in Account : StoreTokens(k, a)
  PROVE  WordInv'
<1>1. AccountTypeOK
  BY DEF Typed
<1>2. disk' \in {disk, db'}
  BY Zenon DEF StoreSecret, FinishConfigure, FinishConnect, StoreTokens, SavesThen
<1>3. CASE StoreSecret(k) \/ FinishConfigure(k) \/ FinishConnect(k)
  <2>1. Busy(k) /\ (Goto(k, "secretStored") \/ Goto(k, "closing") \/ Finished(k, "not stored"))
    BY <1>3, Zenon DEF StoreSecret, FinishConfigure, FinishConnect, SavesThen, At, Busy
  <2>2. InHand(k)' /\ \A j \in Call : j # k => call'[j] = call[j]
    <3>1. ASSUME GoesOn(k, "secretStored") \/ GoesOn(k, "closing") PROVE InHand(k)'
      BY <3>1, NothingInHand DEF GoesOn, Underway
    <3> QED BY <1>1, <2>1, <3>1, GotoGoes, FinishedInHand DEF GoesOn, Onward, Report
  <2>3. (db'.word.clear => NoneOlder(k, db')) /\ LastWordHolds(db')
    <3>1. CASE StoreSecret(k)
      BY <3>1, VaultAfter DEF LastWordHolds
    <3>2. CASE FinishConfigure(k)
      BY <3>2, VaultAfter DEF LastWordHolds
    <3>3. CASE FinishConnect(k)
      <4>1. At(k, "tokensStored") /\ InHand(k)
        BY <3>3 DEF FinishConnect, WordInv
      <4>2. call[k].tok # None /\ (db.word.clear => call[k].tok = db.tokens)
        BY <4>1 DEF InHand
      <4> QED BY <3>3, <4>2, VaultAfter DEF LastWordHolds
    <3> QED BY <1>3, <3>1, <3>2, <3>3
  <2> QED BY <1>2, <2>2, <2>3, SpokenWord
<1>4. ASSUME NEW a \in Account, StoreTokens(k, a) PROVE WordInv'
  <2>1. /\ call'[k].pc = "tokensStored" /\ call'[k].tok = a /\ a # None
        /\ \A j \in Call : j # k => call'[j] = call[j]
    BY <1>1, <1>4, FieldSteps DEF Onward
  <2>2. db'.tokens = a /\ db'.word.status = "changing" /\ (db'.word.clear => NoneOlder(k, db'))
    BY <1>4, VaultAfter
  <2>3. InHand(k)'
    BY <2>1, <2>2 DEF InHand, At, Underway
  <2>4. LastWordHolds(db')
    BY <2>2 DEF LastWordHolds
  <2> QED BY <1>2, <2>1, <2>2, <2>3, <2>4, SpokenWord
<1> QED BY <1>3, <1>4

\* A command that is over as soon as it has changed the account.
LEMMA AtOnceKeepsWord ==
  ASSUME Typed, WordInv, NEW k \in Call, Configure(k) \/ Disconnect(k)
  PROVE  WordInv'
<1>1. call' = call /\ call[k].pc = "idle"
  BY DEF Configure, Disconnect, Counted, Busy
<1>2. disk' \in {disk, db'}
  BY DEF Configure, Disconnect
<1>3. InHand(k)'
  BY <1>1, NothingInHand DEF Underway
<1>4. (db'.word.clear => NoneOlder(k, db')) /\ LastWordHolds(db')
  BY VaultAfter DEF LastWordHolds
<1> QED BY <1>1, <1>2, <1>3, <1>4, SpokenWord

\* A command that starts.
LEMMA StartKeepsWord ==
  ASSUME Typed, WordInv, NEW k \in Call,
         ConfigureWithSecret(k) \/ Connect(k) \/ Test(k) \/ SyncCalendar(k) \/ CreateMeeting(k)
  PROVE  WordInv'
<1>1. ASSUME NEW op \in 0 .. MaxStarts, NEW label \in Account \cup {None},
             NEW what \in {"configure", "connect", "test", "sync", "create"},
             NEW pc \in {"encryptSecret", "consent", "token"}, Starts(k, what, pc, op, label),
             what = "sync" => Connected /\ label = db.label
      PROVE  WordInv'
  <2>1. /\ call'[k].pc = pc /\ call'[k].does = what /\ call'[k].label = label
        /\ \A j \in Call : j # k => call'[j] = call[j]
        /\ UNCHANGED <<db, disk>>
    BY <1>1, StartsShape DEF Typed
  <2>2. db.word.clear /\ Connected => db.word.status \notin {"disabled", "unconfigured"}
    BY DEF WordInv, LastWordHolds, Connected
  <2>3. InHand(k)'
    BY <1>1, <2>1, <2>2 DEF InHand, At, Does, Underway
  <2>4. LeavesWord /\ disk' \in {disk, db'}
    BY <2>1 DEF LeavesWord
  <2> QED BY <2>1, <2>3, <2>4, QuietWord
<1>2. db.label \in Account \cup {None}
  BY DEF Typed, AccountTypeOK, Vault
<1>3. CreateMeeting(k) => starts + 1 \in 0 .. MaxStarts
  BY RecordFacts DEF CreateMeeting, Starts, Counted
<1> QED BY <1>1, <1>2, <1>3
        DEF ConfigureWithSecret, Connect, Test, SyncCalendar, CreateMeeting

\* Mail readers neither hold tokens nor sync a calendar when they start or are
\* cancelled.
LEMMA ReadersKeepWord ==
  ASSUME Typed, WordInv,
         \/ \E q \in RequestId : CancelMail(q)
         \/ \E k \in Call, q \in RequestId, a \in Account : ReadMail(k, q, a)
  PROVE  WordInv'
<1>1. PICK q \in RequestId :
        /\ UNCHANGED <<db, disk>>
        /\ \/ call' = Abort(call, q)
           \/ \E k \in Call : call' = [Abort(call, q) EXCEPT ![k] = Reader(q)]
  BY ReadMailShape DEF CancelMail
<1>2. /\ Abort(call, q) \in [Call -> CallRecord]
      /\ \A j \in Call : Alike(Abort(call, q)[j], call[j])
  BY AbortShape
<1>3. \A j \in Call : call'[j] = Abort(call, q)[j] \/ call'[j] = Reader(q)
  BY <1>1, <1>2
<1>4. ASSUME NEW j \in Call, call'[j] = Reader(q) PROVE InHand(j)'
  <2>1. call'[j].pc = "token" /\ call'[j].does = "read"
    BY <1>4 DEF Reader, Idle
  <2> QED BY <2>1, NothingInHand DEF Underway
<1>5. LeavesWord /\ disk' \in {disk, db'}
  BY <1>1 DEF LeavesWord
<1>6. ASSUME NEW j \in Call, call'[j] = Abort(call, q)[j]
      PROVE  /\ call'[j].pc = call[j].pc /\ call'[j].does = call[j].does
             /\ call'[j].tok = call[j].tok /\ call'[j].label = call[j].label
  BY <1>2, <1>6 DEF Alike
<1> QED BY <1>3, <1>4, <1>5, <1>6, QuietWord

LEMMA NextWord == Typed /\ WordInv /\ [Next]_vars => WordInv'
<1> SUFFICES ASSUME Typed, WordInv, [Next]_vars PROVE WordInv'
  OBVIOUS
<1>1. CASE UNCHANGED vars
  <2>1. LeavesWord /\ disk' \in {disk, db'} /\ call' = call
    BY <1>1 DEF vars, LeavesWord
  <2> QED BY <2>1, QuietWord
<1>2. ASSUME NEW k \in Call, Proceed(k) PROVE WordInv'
  <2>1. CASE \/ StoreSecret(k) \/ FinishConfigure(k) \/ FinishConnect(k)
             \/ \E a \in Account : StoreTokens(k, a)
    BY <2>1, ChangeKeepsWord
  <2>2. CASE /\ ~ StoreSecret(k) /\ ~ FinishConfigure(k) /\ ~ FinishConnect(k)
             /\ \A a \in Account : ~ StoreTokens(k, a)
    <3>1. LeavesWord /\ InHand(k)'
      BY <1>2, <2>2, UseLeavesWord, UseInHand
    <3>2. disk' \in {disk, db'} /\ CallShape(k)
      BY <1>2, ProceedStep DEF Typed, StepShape
    <3>3. \A j \in Call : j # k => call'[j] = call[j]
      BY <3>2, FinishedShape DEF CallShape, Onward, Typed
    <3> QED BY <3>1, <3>2, <3>3, QuietWord
  <2> QED BY <2>1, <2>2
<1>3. CASE Crash
  <2>1. db' = disk /\ disk' = disk /\ \A k \in Call : call'[k] = Idle
    BY <1>3 DEF Crash
  <2>2. \A k \in Call : InHand(k)'
    BY <2>1, IdleFields, NothingInHand DEF Underway
  <2> QED BY <2>1, <2>2 DEF WordInv
<1>4. ASSUME NEW k \in Call, AcceptCallback(k) PROVE WordInv'
  <2>1. /\ Onward(k) /\ call'[k].pc = "consent" /\ LeavesWord /\ disk' \in {disk, db'}
    BY <1>4, AcceptCallbackStep DEF AcceptCallback, LeavesWord
  <2>2. InHand(k)'
    BY <2>1, NothingInHand DEF Underway
  <2> QED BY <2>1, <2>2, QuietWord DEF Onward
<1> QED BY <1>1, <1>2, <1>3, <1>4, AtOnceKeepsWord, StartKeepsWord, ReadersKeepWord
        DEF Next, Founder

LEMMA WordInvariance == Spec => []WordInv
<1>1. Init => WordInv
  BY IdleFields DEF Init, WordInv, InHand, At, Does, Underway
<1>2. Typed /\ WordInv /\ [Next]_vars => WordInv'
  BY NextWord
<1> QED BY <1>1, <1>2, TypeInvariance, PTL DEF Spec

\* Once the founder has connected, disconnected or configured the account and no
\* other command held something older that it would still write back (a connect
\* its row, a refresh the tokens it had read, a calendar sync the row it had
\* read), the row, the stored tokens and the file stay as that made them.  All
\* other commands under way then, and all later ones, failed saves and crashes,
\* neither bring another account back nor the tokens of a disconnected one.  In
\* the excepted overlaps they do: connector-service.ts writes without looking.
THEOREM LastWordIsKept == Spec => []LastWordLasts
<1>1. WordInv => LastWordLasts
  BY DEF WordInv, LastWordLasts
<1> QED BY <1>1, WordInvariance, PTL
=============================================================================
