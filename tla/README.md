# Outreachr: models and proofs of the main process

Outreachr is a desktop application (Electron, TypeScript) in which a founder keeps contacts and job
applications, drafts outreach e-mails, approves each one, and lets the application send it through a
Gmail or Microsoft 365 account. This directory holds TLA+ models of its main process and of the
packages it runs, TLC configurations for small instances, and proofs checked by TLAPS for instances
of any size. Source paths below are relative to the repository.

## How the program runs

The main process is one Node thread. Every request of the user interface is a *command*
(`apps/desktop/src/main/command-service.ts`). Commands interleave only where they `await`: the
network, the encrypted credential store, a file write. Between two awaits a stretch of code is
atomic, so it is one action in the models.

The *vault* is an SQLite database held in memory (sql.js). `VaultService.persist()` exports the whole
database at once and chains the write of that snapshot after all earlier ones; the file is replaced
atomically by a rename. A crash loses the memory and the snapshots still waiting.

## Inventory

| Component | State | Operations | What makes it correct |
|---|---|---|---|
| Send path: `connector-service.ts` (`sendApprovedDraft`, `CoreSendLedger`), `connectors/src/send.ts`, `safety.ts`, `core/src/repository.ts` | `send_ledger` rows, the local variables of running commands, requests on the network | recheck, reserve, claim, dispatch, record outcome, confirm from the mailbox | one message per person for life; the file knows of a request before the provider does; outcomes are true; rows are settled |
| Approvals and policy: `repository.ts`, triggers in `migrations.ts`, `vault-service.ts` | `messages`, `approvals`, `suppressions`, `communication_settings` | draft, edit, approve, suppress, change policy | only reviewed content goes out; any change revokes |
| Vault persistence: `vault-service.ts`, `core/src/database.ts`, `backup.ts` | memory, file, queue of snapshots, reset marker, backups | persist, start, back up, restore, reset | the file never goes back; a restart finds a consistent vault |
| Mailbox reconciliation: `connector-service.ts` (`#reconcileMail`), `vault-service.ts` (`importMailboxMessages`), `connectors/src/mailbox.ts` | `mail_events`, scan progress, high-water mark | list pages, import, resume, complete | no visible message is missed before a send |
| Connector account: `connector-service.ts`, `secure-store.ts` | `connector_configs`, encrypted tokens | configure, connect, refresh, disconnect | tokens belong to the configured account; a disconnect lasts |
| OAuth connection: `connectors/src/oauth.ts`, loopback server | server, timer, pending state | start, callback, timeout | one outcome, server closed |
| HTTP clients: `connectors/src/http.ts`, `google.ts`, `microsoft.ts` | attempts | request, retry, refresh | a write that may have succeeded is not repeated |
| Mail reading and calendar: `mail-read-service.ts`, `connector-service.ts` (`syncCalendar`, `createMeeting`) | registry of readers, events, meetings | read, cancel, replace, list, create | a reader can be cancelled; a meeting exists once and the report says so |
| Rate limits: triggers in `migrations.ts`, `#draftReadiness` | reservation times, policy | count, cool down | limits hold at their boundaries; what is shown as ready is accepted |
| Audit chain: `repository.ts` | `audit_log` with hashes | append, back-fill, verify | the program never refuses a vault it wrote |
| Job applications: `repository.ts`, `ApplicationsList.tsx` | stages, transitions, applications, history; the list in the window | create, move, edit, list page by page | the history leads to the stage; the list has no gap and no row twice |
| Agents: `agent-service.ts`, `packages/agents` (`codex.ts`, `claude.ts`) | runs, timers, events, key | run, cancel, deliver events | a run ends and is settled; a confirmed cancellation is final |
| MCP server and proposals: `mcp-service.ts`, `packages/mcp`, `vault-service.ts` | sessions, request ids, proposals | call a tool, propose, review | what was told about a proposal is so; a repeated request proposes once |
| Command dispatch: `command-service.ts` | count of running commands, restore flag | execute | restore runs alone, and the flag is given back |

Relevance scoring, seed and contribution data, network audit, and window and navigation rules are pure
functions, formatting or wiring; see *Not modelled*.

Components meet in five places. All commands share the vault in memory, and each persists *all* of it,
so one command's save carries the half-done work of others. A send first runs a reconciliation, which
may change the very draft that is being sent. The account's row is read before network calls and
written back after them, and every request fetches its token anew. A restore replaces the vault that
commands, agent runs and the agent's key refer to. And what an agent proposes through the local server
shares the queue of snapshots with the events of its own run.

## Modules

| Module | What it is |
|---|---|
| `SendLedger` | the send path with everything it depends on: drafts, approvals, suppressions, policy, account, persistence, reconciliation, provider, crashes |
| `Outreach` | the abstract promise, person by person, which `SendLedger` implements |
| `MCSendLedger` | the small instances: one draft, or two drafts for one person |
| `SendLedgerProofs` | the theorems about `SendLedger`: what the ledger knows |
| `SendPromiseProofs` | more of them: approvals, owners, and the refinement of `Outreach`; extends `SendLedgerProofs` |
| `MailSync` | the reconciliation in detail: streams, pages, saved progress, resumption, the completion cursor, contact addresses |
| `MCMailSync` | the small instances: a message to the person and an opt-out from a second address |
| `MailSyncProofs` | the theorems about `MailSync` |
| `HttpRetry` | what an answer makes of an attempt: repeat, done, failed, unclear |
| `ConnectorAccount` | the account of a provider and everything that uses it, with all awaits; extends `HttpRetry` |
| `ConnectorAccountProofs` | the theorems about `ConnectorAccount` |
| `MCConnectorAccount` | the small instance: two accounts, two commands at once |
| `AuditChain` | the audit log as a hash chain: append, back-fill, verify |
| `VaultFile` | the life of the vault file: launch, save, back up, restore, reset, quit, crash; extends `AuditChain` |
| `VaultFileProofs` | the theorems about `VaultFile` and `AuditChain` |
| `MCVaultFile` | the small instance: two calls at once, a stored key and one in the environment |
| `AgentRuns` | a run of either provider, its session, its proposals and their review |
| `AgentRunsProofs` | the theorems about `AgentRuns` |
| `MCAgentRuns` | the small instance: one run, two tool calls |
| `JobApplications` | stages, transitions, applications, history, and the paged list of the window |
| `JobApplicationsProofs` | the theorems about `JobApplications` |
| `MCJobApplications` | the small instance: three applications, pages of one row |
| `RateLimits` | the limits of the policy as the triggers count them, and the readiness that counts them again |
| `RateLimitsProofs` | the theorems about `RateLimits` |
| `MCRateLimits` | the small instance: an hour of two units, a day of five |

### SendLedger and the code

* `db` is the vault in memory, `disk` the file, `queue` the chain of `#persistQueue`. `Save` is
  `persist()` (`vault-service.ts:637`): it captures the vault and appends it. `WriteSnapshot` and
  `WriteFails` are the two outcomes of `writeVaultSnapshot`; one that fails may have renamed the new
  file already, when the directory cannot be synchronised. The promise of the snapshot's owner then
  settles (`Settled`).
* `call[k]` is a running connector command: where it waits (`pc`), the message it sends (`msg`, or
  `None` for a mailbox synchronisation), the content it read when it started (`text`), and whether
  the save it waits for is pending, done or failed (`io`).
* A draft, its approvals and its ledger row are fields of the vault indexed by the message. `text` is
  the content: its subject, which the mailbox confirmation compares, and the compliance footer in its
  body, which approval and reservation compare with the policy. Equal hashes are equal contents.
* SQL triggers belong to the action that fires them: `WithText` (content change), `WithoutApprovals`
  (account or policy change), `Imported` (automatic suppression, confirmation), `WithReservation`
  (approval used). The unique indexes and the triggers before an insertion into `send_ledger` are
  the guard `CanReserve`.
* A send goes through `SendApprovedDraft`, `ListMail`, `StoreSync`, `Recheck`, `Authorize`,
  `ReserveApprovedSend`, `Claim`, `Dispatch`, `ProviderConfirms` or `OutcomeUnknown`, and `Close`.
  Its errors are `Refuse` (before the reservation), `ReservationNotSaved`, `GuardRefuses` and
  `ClaimNotSaved`.
* The provider is external: it accepts a request it received (`ProviderAccepts`) or drops it
  (`ProviderDrops`), whether or not its answer arrives. A request outlives a crash of the program.

### MailSync and the code

`SendLedger` takes a reconciliation for one step; `MailSync` opens it, without the ledger.

* `db` is what the vault knows of the mail: the person's addresses (`known`), mail events by direction
  (`out`, `inb`), those attributed to the person (`linked`) and the account's configuration. The
  configuration's `claim` stands for `lastMailSyncAt`, `mailIdentityDigest` and `mailHistoryComplete`,
  which are only written together; its `progress` is `mailSyncProgress`. `since` is 0 in a full scan.
* `scan[k]` is a running command. `ReconcileMail` is the head of `#reconcileMail`; `ListPage` a page's
  request, its import and its save; `StoreMailSyncProgress` and `Complete` the two ways on. After a
  complete scan, `Reserve` stands for the rest of a send. `ReadConfig` and `WriteConfigBack` are the
  two ends of `connect` and of `syncCalendar`.
* The mailbox is external. A message's `stamp` is its arrival; the listing shows it at once or within
  the overlap the code allows for (`Overlap`, its five minutes). A page is the newest part of what
  remains, and its token is the time it was cut at. A token may also repeat.
* `Imported` is the transaction of a page: attribution by address, then by thread, direction by
  Google's label, Microsoft's sent stream or the event already stored.

### ConnectorAccount, HttpRetry and the code

* `db` and `disk` hold the account's row (`status`, `label`), its stored `tokens` (the account they are
  of), whether a client secret is stored, and the meetings. `call[k]` is a running command; `label` is
  the row it read when it started, `tok` the tokens it read before it awaited their decryption.
* `connect` is `Connect`, `BrowserOpens`, `AcceptCallback` or `ConsentFails` (timer, refusal, server
  error), `TakeCallback`, `StoreTokens` and `FinishConnect`: the loopback server and the browser
  are two things that may finish in either order. `disconnect` and the plain `configure` are one
  step each; `configure` with a secret awaits the encryption in between.
* Each request of `test`, `syncCalendar`, `createMeeting` and of a mail reader goes through `#accessToken`:
  `ReadTokens`, then `UseStored`, `ReEncrypt` or `StoreRefreshed`. `AnswerBadly` applies `Verdict` of
  `HttpRetry`, which is `authorizedRequest`: a retry begins with the token again.
* `active` is the registry of `mail-read-service.ts`. `told` and `events` are the report of a created
  meeting and what the provider has of it.
* `word` is not in the code: what the last `connect`, `disconnect` or `configure` made of the account,
  and whether it was `clear`: no other command held something older then that it would still write back
  (`HoldsOlder`).

### VaultFile, AuditChain and the code

* A vault is its generation (`gen`: a restore makes a new database object), its workspace (a reset
  makes a new one), the agent's key and the audit log. A hash is the sequence of rows it commits to,
  so equal hashes are equal histories.
* `Launch` is `VaultService.initialize` and `start`: `FindMarker`, `UnlinkVault`, `UnlinkMarker`,
  `OpenVault` (migration with `Backfilled`), verification, `FinishLaunch`. A crash fits between any two.
* `queue`, `WriteSnapshot` and `WriteFails` are as in `SendLedger`.
* `inFlight` and `restoring` are the guards of `CommandService.execute`, `lease` that of
  `beginVaultRestore` in the agent service. `Finally` is the `finally` block. Mail readers and quitting
  do not come through `execute`; they are the `Outsider` calls.
* `SetKey` to `KeyNotSaved` are `setCredential` and `removeCredential` with their awaits; `agentKey` is
  the adapter's copy. `LoadKey` is what `create` does at launch and `reloadAfterVaultRestore` after a restore: a
  stored key that cannot be decrypted, or a credential store that is unavailable, is passed over in favour
  of the key of the launch environment.
* `unsure` and `unread` are not in the code: a key change or restore was reported as failed, or left to fail in
  the adapter; the stored key was passed over when the agent's was loaded last.

### AgentRuns and the code

* `run[r].pc` follows a run through `#run` of the service and the phases of its adapter: Claude goes
  to its query at once, Codex probes, prepares a thread and starts a turn (`Probed`, `ThreadStarted`,
  `TurnStarted`). `Timer` is the timer of the phase, `QueryEnds` the end of Claude's query.
* `Cancel`, `Confirmed` and `InterruptEnds` are `cancel` with the check after its await.
* `Delta`, `Completes`, `Fails` store an event each; the saves settle in order (`WriteSnapshot`) and
  `EventNotSaved` is the error path of the delivery. `ServiceEnds` is `waitForDeliveries` and the end of
  the session.
* `Request` to `TellFailure` are `invokeTool` with its saves: the audit entry, the proposal, the closing
  audit entry. `used` is the set of request ids of the session. `Review` is `reviewAgentProposal`.

### JobApplications and the code

* `stages`, `edges`, `app` and `history` are the four tables; what one command changes is one action.
* `view` is the state of `ApplicationsList.tsx` (list, cursor, the two loading flags, whether a reload
  is due), `channel` its requests and their answers. `ListJobApplications` is the query with its cursor
  (time of change, then id), `ShowAnswer` the rest of a request that was answered, `ShowFailure` the
  `catch` of one that was not (`ListFails`).
* `stray` is not in the code: the list got a page that continues another list, or its reload failed.

### RateLimits and the code

* `Accepted` is the conjunction of the triggers before an insertion, `Ready` the readiness computed by
  `#draftReadiness`. A row keeps the policy it was reserved `under`, for `PacingHolds`.

### Abstractions

In `SendLedger`:

* One provider with one account; one address per person, so a message's recipient is a person.
* Network errors, scope checks and rate limits are one nondeterministic refusal, which is more than
  any one of them allows. A retried HTTP attempt that got 429 is not distinguished from one attempt.
* A reconciliation imports every message visible at that moment in one step; the time window that
  `reconcileUnconfirmedSendFromMailbox` puts around an observation is left out (a sent message is
  recognised whenever it is seen).
* The branch of `CoreSendLedger.claim` for a row that is not reserved is unreachable here (the
  invariant `SendsOwnRows` shows it) and has no action.
* The awaits inside `configure` and `connect` are merged into one step, as are the two credential
  reads of `#accessToken`; `ConnectorAccount` has the races they allow.
* Restoring a backup is not an action of this module: it is exclusive with running commands
  (`VaultFile`, `RestoreIsExclusive`), and it replaces the ledger, so "once in a lifetime" is claimed
  only without a restore.

In `MailSync`:

* One account (the digest of the identities includes its label, so another account means a full scan)
  and one person; an outbound message to an unknown address is kept like any other outbound message.
* The outcome of a save is decided when it starts: the file is the vault, or, when it fails, the vault or
  what it was. Writes are in order (`SendLedger`, `DurableLedgerAdvances`), so an overtaken write is a failed one.
* Pages are cut by time. Graph's `$skip` tokens count messages instead, so that a deletion from an
  earlier page shifts the later ones; deletions are left out.
* Mail moved into the mailbox later with an old date, and clocks that jump, are left out: both defeat
  any cursor made of times.

In `ConnectorAccount`:

* One provider at a time; of the row only status and label; delays and formats of requests are left out.
  That disconnecting Microsoft also deletes Google's client secret (`connector-service.ts:633`) is not
  modelled.
* A save is decided when it starts, as in `MailSync`. Which callbacks the loopback server takes for its own
  (state, host, path) is one action, as the checks keep no state.
* Only `sync`, `create`, `test` and `read` stand for the users of a token; a reconciliation writes the row back as
  a calendar synchronisation does.

In `VaultFile`:

* A command that changes data is a `Change` and its save, once or several times; which command it is does
  not matter to the file. One agent run at a time is a bound.
* The approval of a subscription follows the path of a key change and has no action of its own. Exports of
  CSV and contributions only read. sql.js resets pragmas in `export()`; that belongs to the library.
* Past `MaxLog` the log stands still: a change then writes no row.

In `AgentRuns`:

* Codex is assumed to answer `turn/start` before it ends the turn. If it did not, a confirmed cancellation
  could still complete, since the flag is not looked at again after `turn/start`.
* Prompts, policy texts and the parsing of outputs are the free choice whether an answer counts. Reading
  tools keep no state but audit entries. Quitting in the middle of a run is in `VaultFile`.
* Tool calls are numbered in the order they arrive. The chain `persistSerially` adds no order the queue
  does not have.

In `JobApplications`:

* A filter is a stage or none. The search text and archived applications are other filters of that kind.
* Saves do not fail (`VaultFile` has them), list requests are answered or fail in order, and the clock does not go
  back. Companies, contacts, threads, notes, tasks and application drafts are left out: no rule relates
  them over several steps.

In `RateLimits`:

* The clock does not go back: the triggers leave rows in the future out of the windows, while the readiness
  takes the latest of all. A restored backup forgets what was sent since, and with it the counts. A day is
  a day of UTC. That a change of the policy revokes approvals is in `SendLedger`.
* Four of the five conditions of the readiness are the trigger's own SQL; only the cooldown is computed
  differently, and `ReadinessIsHonest` is about their agreement.

## Runs

| Run | Instance | Shows |
|---|---|---|
| `edits` | one draft, two subjects, two footers, two commands, one unusual act, one crash | `TypeOK`, `TruthfulOutcome`, `DeliveredWasApproved`, `ApprovalIsCurrent`, `OpenRowHasOwner`, `SendInvariant`, `DurableLedgerAdvances` |
| `two` | two drafts for one person, one content, two commands, one unusual act, one crash | `AtMostOncePerPerson`, `WriteAhead`, `LedgerAdvances`, `KeepsPromise` |
| `live` | one draft, one command, two unusual acts, one crash, fairness | `CommandsEnd` |
| `stale` | one draft, two subjects, two commands | `DeliveredMatchesReservation` is violated |
| `mail` | Microsoft, one command at a time, two started, two times, no overlap, one fault | `MailTypeOK`, `MailInvariant`, `CursorIsHonest`, `FreshScanIsCurrent`, `CommandEnds` |
| `mail_two` | Gmail, two commands at once, three times, overlap one | `CursorIsHonest`, `FreshScanIsCurrent` |
| `mail_resume` | Gmail, one command at a time, two started, one fault | `OptOutBeforeSend` is violated |
| `account` | two accounts, two commands at once, three attempts, one fault | `AccountTypeOK`, `LastWordLasts`, `MeetingReportIsTrue`, `ReadersCanBeCancelled`, `AccountCommandsEnd` |
| `vault` | three calls, two at once, one fault, a log of two rows | `VaultTypeOK`, `RestoreIsExclusive`, `RestoredVaultStays`, `AuditVerifies`, `ResetHitsItsWorkspace`, `AgentKeyIsTheVaults`, `VaultCallsEnd` |
| `agent` | a run of either provider, one delta, two tool calls with one id, one review, two faults | `AgentTypeOK`, `RunIsSettled`, `ProposalsAreTold`, `CancelIsFinal`, `RunsEnd` |
| `jobs` | three applications, two stages, pages of one row, four changes, two requests under way, one change of the stages or failed request | `ListIsPrefix`, `HistoryIsPath` |
| `limits` | three reservations, two domains, six policies, one change of policy, times 0 to 7 | `PacingHolds`, `ReadinessIsHonest` |

`edits` reaches 907,636 states, `two` 581,368, `live` 64,649, `mail` 115,339, `mail_two` 1,673,103, `account`
44,111, `vault` 440,748, `agent` 193,733, `jobs` 2,965,496, `limits` 2,484,288. No run checks for deadlock:
the program rests when nobody asks for anything and the bounds are used up.

`MaxInterventions` bounds the acts that are not part of a plain draft, approve, send: an edit, a
suppression or its removal, a policy change, connect, configure, disconnect, a message written
elsewhere, an unsubscribe request. One such act at any point of two overlapping commands is
enough for each single race the hazards name; two are needed to connect again or to lift a
suppression, which the `live` run includes. `MaxCrashes` is one: a second crash starts from a vault
file of the same kind. `MaxQueue` only holds back the founder's commands while snapshots wait, so two
or three snapshots can be in flight together with those of the running sends. Two commands on one
draft, or on two drafts of one person, are all that the unique indexes tell apart. Commands are
symmetric, and so are the two drafts of `two`.

In the mail runs `MaxClock` bounds the arrivals, as no two messages have the same time; `MaxStarts`
the commands, two of which make every pair: a scan and its resumption, two scans at once, a scan and
a stale write-back; `MaxFaults` the failed saves and requests and the crashes, one of which leaves the
progress that is resumed. Two messages, one either way, in one thread and with different addresses,
tell all rules of attribution and direction apart. The overlap is one in `mail_two`, where a message
may be shown after a younger one.

In `account`, `MaxStarts` of two makes every pair of commands, since the run begins with every vault that
earlier commands may have left, tokens of another account included; a third command could only meet
one of the two at a time. One fault is a failed save or a crash between any two steps. Three attempts
are the code's own number.

In `vault`, three calls are a reset, restore or change of the key together with two others it may
overlap; the longest story (a snapshot of the old vault waits, a backup is restored, its save fails)
takes three. Initial files are none, one of a version before the chain, and one of this version. The log needs
two rows for a chain to break.

In `agent`, two tool calls with one id are a call and its repetition; the two faults are a failed event and
the failed report of that failure. With one run, runs do not meet: they share nothing but the queue.

In `jobs`, pages of one row and three applications give a first page, one more, and one that remains; two
times make equal times and later ones; two stages with one edge or none are enough for a path to break.
A choice of a filter counts among the four changes, so a filter is met with the rows, the moves and the
other choices the four leave room for. A failed request shares its bound (`MaxRare`) with the changes of
the stages, which the list only meets through a reload that is due.
In `limits`, an hour of two units and a day of five are not multiples of each other, and the six policies make each
limit the one that binds, one of them with a cooldown longer than a day, and one a pause.

**Fairness.** `live`, `mail`, `account`, `vault` and `agent` use it: a queued write eventually succeeds or
fails, and a running command takes its next step once it can (the event loop runs due callbacks; a
network call returns a result or an error, because the HTTP client aborts or rejects). A connect also
has its timer, so the founder need not return to the browser. An agent's phases have timers: no
provider has to answer. Nothing is assumed of the founder, of the provider's decision, or of crashes.

**The violated properties.** The repository's `README.md:36` says "Every external send remains bound to
reviewed recipient, sender, subject, body, thread identity, and content hash". In run `stale` the
founder edits the draft and approves the edit while the send waits for its access token, after the
recheck of `connector-service.ts:1105`. The reservation (line 1142) re-reads the row and records the
hash of the new content; the e-mail built at line 1124 carries the content read at line 1042. The
delivered content was approved once (`DeliveredWasApproved` holds), but its approval had been
revoked, and the ledger records another content.

`docs/user-guide.md:69` says that unsubscribe requests "create a non-deactivatable suppression before any
later send can be reserved", and `connector-service.ts:1101` that "Sending is fail-closed on a complete,
current mailbox reconciliation". In run `mail_resume` a scan is interrupted after a page, an opt-out
arrives, and then a send is asked for. Its reconciliation resumes the old scan (lines 779-797) at the
saved page and lists only what is older; the opt-out is on no page, and the send is reserved. A send
whose reconciliation starts anew has no such gap (`FreshScanIsCurrent`), and nothing is lost for good:
the cursor stays at the start of the interrupted scan (`CursorIsHonest`).

### What the models say beyond the runs

Building a model from the code shows where the code and its description part, and what a property can
and cannot claim. These are read off the models; a property's exception is in its statement.

*Account.*

* `LastWordLasts` does not hold of every overlap, because the code does not look again before it writes. A
  refresh or re-encryption that read its tokens before a disconnect writes them back afterwards
  (`connector-service.ts:1024`, `secure-store.ts:140`), a synchronisation its row (`:846`), a connect
  between its two writes the row of an account without tokens (`:622`), although
  `docs/credentials.md:65` says that disconnecting "deletes the encrypted local token". Nothing removes
  such tokens until the next disconnect. `HoldsOlder` names these four and no more: without any one of
  its conditions TLC finds the property violated, and with them it holds of every other overlap (a
  command that is yet to read its tokens, whose tokens are the stored ones, or whose answer is under
  way; a connect waiting for its browser; a sync of the same account).
* Disconnecting Microsoft deletes Google's stored client secret too (`connector-service.ts:633`).
* `http.ts:26-28` says that sends retry an explicit 408 or 429. A write is only repeated after 429.
* When no token can be had, a create is reported as ambiguous, although nothing was sent. That errs on the
  safe side (`MeetingReportIsTrue`).

*Vault.*

* `scheduleReset` writes the marker before it saves. A reset whose save failed is reported as failed and
  carried out at the next launch, even if a backup was restored in between.
* A backup made before the audit chain is refused at its restore, as `restoreBackup` verifies the chain
  without a back-fill; `docs/user-guide.md:95` says that the restore migrates a replacement vault.
* Mail reads and requests of the local server do not come through `CommandService.execute`. A token refresh
  begun by one before a restore stores its tokens into the restored vault. `RestoreIsExclusive` is
  therefore about dispatched commands and agent runs.
* A stored key that cannot be read is passed over without a word: "An unavailable or device-bound restored
  secret falls back to the explicit launch environment" (`agent-service.ts:393`, and `:202` at launch). The
  agent then has the key of the environment, or none, while the vault has another. `AgentKeyIsTheVaults`
  says so (`unread`), and that it never keeps the key of a replaced vault.
* When the save of a restore fails, the replacement stays in memory while the agents keep the key from
  before (`unsure`). Changes of the key check for runs before their awaits only: with a run started
  meanwhile the adapter refuses the key that the vault has already stored. A removed key comes back
  from the environment at the next launch.

*Agents.*

* A cancelled run is stored as `failed`, though the schema has `cancelled`. A row stays `running` for ever
  after a crash, a start that is refused, or a failed save of its row.
* An event that cannot be saved makes the row `failed`, even after `completed`.
* A tool call whose save failed is told that no action was applied; its proposal is pending in
  memory and goes to the file with the next save. A review whose save failed is reported as an error
  and stays decided in memory. `ProposalsAreTold` claims the other direction: what was told is so.
* A cancellation while Codex starts a turn does not interrupt that turn. If the process of Codex dies
  in the middle of a turn, only the timer ends the run, and a refused initialisation is remembered for good.

*Job applications.*

* The `finally` of Load more clears `loading` although a reload is under way (`ApplicationsList.tsx:56-70`). The
  button comes back, and its page may be appended to the reloaded list: rows are missing or shown twice
  until the next reload. `ListIsPrefix` excepts lists that got such a page (`stray`).
* A reload that fails leaves the list that was there, of another filter perhaps, under an error message. Load
  more takes the message away and continues the old list with the new filter. These lists are `stray`
  as well, until a reload succeeds; a failed request for more leaves the list as good as it was.
* A stage can become terminal while transitions lead out of it: the repository refuses an outgoing
  transition of a terminal stage only when the transition is set, whereas `job-applications.test.ts` says
  "A terminal stage can never be the source of an allowed edge".
* The history is shown by time, then by random id: two moves in one millisecond may be shown in the wrong
  order. `HistoryIsPath` is about the order they were made in.
* Unlinking a contact leaves drafts bound to it, and with all 32 positions in use no two stages can be
  swapped, since positions are unique.

## Proofs

`SendLedgerProofs` proves, for any sets of messages, people, subjects, footers and commands, and any
bounds (assumptions `RecipientIsPerson`, `NoneIsNothing`, `BoundsAreNat`):

| Theorem | States |
|---|---|
| `TypeCorrect` | `TypeOK`, and a command past its recheck has a draft and its content |
| `SendsAreSafe` | `SendInvariant` |
| `FileKnowsOfEveryRequest` | `WriteAhead` |
| `OutcomesAreTrue` | `TruthfulOutcome` |
| `OneMessagePerLife` | `AtMostOncePerPerson` |
| `FileNeverGoesBack` | `DurableLedgerAdvances` |

None of the safety properties is inductive alone. That nobody gets two messages needs the file to
show every attempt (`WriteAhead`), the memory to be at least as far as the file (`QueueAdvances`),
and one row per person in memory (`OneRowPerPerson`). The file shows the attempt because the snapshot
whose save a claim awaits shows it (`SnapshotsHaveOwner`), because later snapshots only advance, and
because exactly one command works on a row from its reservation to the answer (`SendsOwnRows`). That
a reservation meets a clean slate follows backwards: without a row in memory there is none in the
file, hence no request and no delivery. `SendInvariant` is the conjunction of these parts; it is
checked by TLC in `edits` and proved inductive. `Settles(d, e, m)` is the one notion behind the
step lemmas: a change of the ledger that advances it, reserves nothing, closes no reservation but
`m`'s, and stays truthful; every stretch of code but the reservation itself is such a change.

`MailSyncProofs` proves, for any mailbox, addresses, threads, commands, providers, overlap and bounds
(assumptions `MessageKinds`, `ProviderIsKnown`, `MailBounds`, `NoneIsNoValue`):

| Theorem | States |
|---|---|
| `MailInvariantHolds` | `MailInvariant` |
| `MailTypeCorrect` | `MailTypeOK` |
| `CompletionCursorIsHonest` | `CursorIsHonest` |
| `FreshScansAreCurrent` | `FreshScanIsCurrent` |

`MailInvariant` says of every configuration there is, in memory, in the file, or held by a command that
may write it back, that its cursor and its progress are honest: what they are through is in the vault
(`HonestConfig`). Progress is honest only about messages older than its start by the overlap
(`HonestProgress`), as a younger one may appear behind the pages already listed; since the cursor is
set to the start, and the next scan takes the overlap off, that is just enough. Three facts carry the
steps: a vault only grows (`Grown`), so honesty never gets lost and stale configurations do no harm; a
new message is younger than every start and cursor (`MailboxGrows`); and what a page takes a scan
through was passed before or is on the page (`PageIsWhatWasPassed`).

`SendPromiseProofs` goes on from there, under the same assumptions:

| Theorem | States |
|---|---|
| `ApprovalsAreKept` | `ApprovalInvariant` |
| `OnlyApprovedIsDelivered` | `DeliveredWasApproved` |
| `ApprovalsAreCurrent` | `ApprovalIsCurrent` |
| `OpenRowsHaveOwners` | `OpenRowHasOwner` |
| `LedgerNeverGoesBack` | `LedgerAdvances` |
| `SendPathKeepsPromise` | `KeepsPromise`: the refinement of `Outreach` |

`ApprovalInvariant` follows the content of a message from the approval to the provider. The triggers'
view of approvals (`Current`) holds of the memory, the file and every snapshot; approval rows are never
deleted, so they accumulate from the file over the queue to the memory; hence what a command read
was approved in memory, by the time its claim is saved in the file, and so is what the network carries
and what is delivered. The refinement maps a person's messages to one entry of the promise; every step
of the send path leaves the entries alone or makes the one change the promise allows, and which of
two drafts of a person it is does not matter because there is one row for them in the file
(`OneRowInFile`).

`RateLimitsProofs` proves, for any policies, lengths of the windows and times (`RateBounds`,
`PoliciesAreSettings`):

| Theorem | States |
|---|---|
| `SendsArePaced` | `PacingHolds` |
| `ReadinessAgrees` | `ReadinessIsHonest` |

The triggers look back from the row that is inserted; `PacingHolds` speaks of every stretch of time. It
is inductive row by row (`Paced`): rows are written in the order of their times, so what was within an
hour of the last row when it was inserted is all that can share an hour with it later, and a row that
fails only makes the counts smaller. That counting in SQL and in the vault service come to the same is
shown for the cooldown, where one asks for a recent row and the other for the end of the latest:
finite sets of numbers have a greatest member, by the library's well-founded induction for sets.

`ConnectorAccountProofs` proves, for any accounts, commands, pages, requests and bounds (`AccountBounds`,
`NoneIsNobody`, `AttemptsArePositive`):

| Theorem | States |
|---|---|
| `AccountTypes` | `AccountTypeOK` |
| `ReadersAreRegistered` | `ReadersCanBeCancelled` |
| `MeetingReportsAreTrue` | `MeetingReportIsTrue` |
| `LastWordIsKept` | `LastWordLasts` |

`MeetingInv` says of each command that creates a meeting: while its request is under way the calendar
does not have the meeting, afterwards the file has it, and nothing is told of it before the command ends.
`WordInv` says that the word holds of the memory and of the file, and, when it was clear, of every command
since that the tokens it has in hand are the stored ones, so a refresh that ends late writes back what
is there already, and that a sync has the label of the connected account, or waits for a token that a
disconnected account does not give it.

`AgentRunsProofs` proves, for any number of runs, calls, reviews and failures (`AgentBounds`,
`RunsAreNoCalls`):

| Theorem | States |
|---|---|
| `AgentTypes` | `AgentTypeOK` |
| `RunsAreSettled` | `RunIsSettled` |
| `ProposalsAreAsTold` | `ProposalsAreTold` |
| `CancelStaysFinal` | `CancelIsFinal` |

`AgentInv` rests on the time line from the file over the queue to the memory (`Timeline`): nothing that was
reached is taken back along it, so a crash or a failed write may lose the end of it, and never mixes
two moments. To it come who waits for each snapshot and what it shows of what they wait for
(`Waits`), that the end of a run is in the file or on its way there (`Settling`), and that no two calls
were admitted with one request id (`Told`). The end of a save, well or badly, is one notion
(`SaveEnds`) proved once for both.

`VaultFileProofs` proves, for any number of calls, keys, launches, crashes and failed writes and any
length of the log (`VaultFileBounds`, `NoneIsNoValue`, `CallsAreFew`, `SomeKey`: calls are finitely many
and are not the launch or the agent run, and the founder has some key to store):

| Theorem | States |
|---|---|
| `VaultTypes` | `VaultTypeOK` |
| `RestoreExcludes` | `RestoreIsExclusive` |
| `RestoredVaultsStay` | `RestoredVaultStays` |
| `ChainsVerify` | `AuditVerifies` |
| `ResetsHit` | `ResetHitsItsWorkspace` |
| `AgentUsesTheVaultsKey` | `AgentKeyIsTheVaults` |

`VaultInv` has five parts, and each of these properties follows from one or two of them.

* The chain: a vault is *sound* when every row of the log has its link, in order. `Appended` and
  `Backfilled` make sound vaults, and `Verified` accepts them. In memory and in the queue there are only
  sound vaults; a file or backup may also be the one from before the chain, until it is opened.
* The line from the file over the queue to the memory (`Line`): generations go up along it and the
  workspace stays, so what is written is never older than what it replaces.
* The reset (`ResetInv`): the marker is of the workspace in the file, and a workspace that is to go is
  marked until its file is gone.
* The calls (`CallInv`, `GuardInv`): a call that waits owns one snapshot, `inFlight` counts the commands
  there are, a restore has the vault to itself from its first to its last step.
* The key (`KeyInv`): the last change of the key that is being saved, or was, is the vault's; without one,
  and without a replaced vault, the agent's key is the vault's, or that of the launch when it was passed over.

Every step belongs to one of few kinds (a call begins, saves, is told, or ends; a snapshot is written;
the process is gone), and each kind is proved once. `Unchained`, the rows without a link in the order of
their ids, is written as the choice of the ascending enumeration, which the provers can expand, and
not with `SetToSortSeq`, which they cannot.

`JobApplicationsProofs` proves, for any stages, applications, sizes of a page and bounds (`JobBounds`,
`SetupsAreStages`, `NoneIsNoValue`):

| Theorem | States |
|---|---|
| `ListsAgree` | `ListInv` |
| `ListsArePrefixes` | `ListIsPrefix` |
| `HistoriesArePaths` | `HistoryIsPath` |

`ListInv` says that, unless a reload is due, the answers which no reset overtakes are what the query gives now,
and so is the list if no reset is under way and it is not `stray`: any change makes a reload due, and the
reload is asked for behind everything that is older. The lemmas under it are about cursors. `Ordered` puts
a row at its rank, the number of rows before it; ranks are all different, hence every one of them is
taken (`EveryPlace`), and behind a row the ranks of the table are those of the rest of the table
shifted by its own (`RestSorted`). So a page that is read behind the last row of the list goes on where
the list ends (`NextPage`).

Every invariant and action property of the runs that pass is now a theorem. Only model-checked are
`CommandsEnd`, `CommandEnds`, `AccountCommandsEnd`, `VaultCallsEnd` and `RunsEnd`: liveness under fairness is out
of the prover's reach. What is proved rests on the named assumptions on the constants and on nothing
else. Where an argument needs induction it is made over steps, by the invariant, or by the least member
of a set (`LeastNumber`), never over data.

## Not modelled

* Relevance scoring (`packages/core`): a pure function of texts and word lists, without state.
* Seed and contribution data: one import at the first start, and formatting of exports.
* Window and navigation rules, network audit: wiring of Electron and stateless checks of addresses.
* The renderer but for the list of applications: its pages show what the main process answers, and the
  main process trusts none of their state. Most of the lines of the repository are such pages,
  forms, styles, schemas, seeds and scripts for packaging.
* In the modelled parts: SQL schemas and migrations but for the back-fill, formats of requests and e-mails,
  encryption, companies, contacts, notes, tasks and threads. They have no rule over several steps that
  the models could break.

## Plan

1. Done: `SendLedger`, `Outreach`, `MailSync` and their proofs.
2. Done: `ConnectorAccount` with `HttpRetry` (OAuth, tokens, retries, calendar, mail readers), `VaultFile` with
   `AuditChain` (launch, backup, restore, reset, command dispatch), `AgentRuns` (runs, tools, proposals),
   `JobApplications` (with the window's list), `RateLimits`.
3. Done: theorems for `RateLimits`, `ConnectorAccount`, `AgentRuns`, `VaultFile` with `AuditChain`, and
   `JobApplications`, and for `SendLedger` the refinement of `Outreach` and the approvals.
4. Composition: the send path with the account's tokens (`ConnectorAccount`) instead of its one-step
   connect and disconnect, and mail scans over a change of the account.
