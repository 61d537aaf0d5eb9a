------------------------------ MODULE MailSync ------------------------------
(***************************************************************************)
(* Reconciliation of the mailbox with the vault: #reconcileMail of         *)
(* connector-service.ts, importMailboxMessages and addPersonContact of     *)
(* vault-service.ts.  A scan lists the mailbox page by page, newest first, *)
(* imports each page, saves its progress so that a later scan can resume,  *)
(* and finally stores a completion cursor: everything up to a time is in   *)
(* the vault, for the contact addresses known when the scan started.  The  *)
(* next scan lists only what is newer than the cursor, less an overlap.    *)
(*                                                                         *)
(* Time is a clock of the program; a message gets the time of its arrival  *)
(* and the provider shows it at most Overlap later.  All known addresses   *)
(* belong to the one person a send is for, and an outbound message to an   *)
(* address of another is not told apart from one to an unknown address.    *)
(***************************************************************************)
EXTENDS Naturals, FiniteSets

CONSTANTS Message,   \* messages that may arrive in the mailbox
          Outbound,  \* those the founder wrote, in whatever client
          OptOut,    \* those that ask for no further e-mail
          Address,   \* addresses of the person
          Peer,      \* Peer[m]: the other side's address of a message
          Thread,    \* Thread[m]: the provider's thread of a message
          Call,      \* commands of the user interface that may overlap
          Provider,  \* the providers the account may be with
          None,
          Overlap,   \* the five minutes taken off the completion cursor
          MaxClock,  \* bound on the clock
          MaxStarts, \* bound on the commands started
          MaxFaults  \* bound on failed saves, failed requests and crashes

ASSUME MessageKinds == Outbound \subseteq Message /\ OptOut \subseteq Message \ Outbound
ASSUME ProviderIsKnown == Provider \subseteq {"google", "microsoft"}
ASSUME MailBounds ==
  Overlap \in Nat /\ MaxClock \in Nat \ {0} /\ MaxStarts \in Nat /\ MaxFaults \in Nat

VARIABLES
  provider,  \* the provider of the connected account
  clock,     \* the time
  stamp,     \* stamp[m]: when the message arrived, 0 before that
  visible,   \* messages the provider shows in its listings
  db,        \* the vault in memory
  disk,      \* the vault file
  scan,      \* scan[k]: the local state of a command
  starts,    \* commands started so far
  faults     \* failures so far

mail == <<clock, stamp, visible>>
vars == <<provider, mail, db, disk, scan, starts, faults>>

Time == 0 .. MaxClock
Arrived == {m \in Message : stamp[m] > 0}

\* The streams a scan goes through in order: sent mail first with Microsoft, then all.
Streams == IF provider = "microsoft" THEN 2 ELSE 1
OfSent(p) == provider = "microsoft" /\ p.scope = 1

(***************************************************************************)
(* Public configuration of the account: the completion cursor with the     *)
(* addresses it holds for (lastMailSyncAt and mailIdentityDigest, stored   *)
(* only together with mailHistoryComplete), and the progress of a scan.    *)
(***************************************************************************)
Claim == [ids : SUBSET Address, last : Time]

Progress == [mode : {"full", "incremental"}, startedAt : Time, ids : SUBSET Address,
             since : Time, scope : 1 .. 3, token : Time \cup {None}, seen : SUBSET Time]

ASSUME NoneIsNoValue == None \notin Time /\ None \notin Claim /\ None \notin Progress

Config == [claim : Claim \cup {None}, progress : Progress \cup {None}]

Unsynced == [claim |-> None, progress |-> None]

(***************************************************************************)
(* The vault: known e-mail addresses, mail events by direction, those of   *)
(* them attributed to the person, and the account's configuration.         *)
(***************************************************************************)
Vault == [known : SUBSET Address, out : SUBSET Message, inb : SUBSET Message,
          linked : SUBSET Message, config : Config]

(***************************************************************************)
(* Local state of a command: the configuration it read, of which a scan    *)
(* only writes the cursor back, its progress and the token of the next     *)
(* page.  fresh and begun record for the properties whether it resumed an  *)
(* earlier scan, and what the provider showed when it began.               *)
(***************************************************************************)
Scanning == {"list", "imported", "reconciled"}

Idle == [pc |-> "idle", fresh |-> TRUE, config |-> Unsynced,
         progress |-> None, next |-> None, begun |-> {}]

Scan == [pc : Scanning \cup {"idle", "stale"},
         fresh : BOOLEAN, config : Config, progress : Progress \cup {None},
         next : Time \cup {None}, begun : SUBSET Message]

\* Progress that is stored, or that a scan works on, is within a stream.
InStream(p) == p # None => p.scope \in 1 .. Streams

ScanInStream(s) ==
  /\ s.pc \in Scanning => s.progress # None
  /\ s.pc \in {"list", "imported"} => InStream(s.progress)
  /\ InStream(s.config.progress)

(***************************************************************************)
(* Type invariant; a scan that is not complete has a stream to list        *)
(* (connector-service.ts 806-807: scopes[progress.scopeIndex]!).           *)
(***************************************************************************)
MailTypeOK ==
  /\ provider \in Provider
  /\ clock \in 1 .. MaxClock
  /\ stamp \in [Message -> Time]
  /\ visible \subseteq Arrived
  /\ db \in Vault /\ disk \in Vault
  /\ scan \in [Call -> Scan]
  /\ starts \in 0 .. MaxStarts
  /\ faults \in 0 .. MaxFaults
  /\ InStream(db.config.progress) /\ InStream(disk.config.progress)
  /\ \A k \in Call : ScanInStream(scan[k])

Init ==
  /\ provider \in Provider
  /\ clock = 1
  /\ stamp = [m \in Message |-> 0]
  /\ visible = {}
  /\ db = [known |-> {}, out |-> {}, inb |-> {}, linked |-> {}, config |-> Unsynced]
  /\ disk = db
  /\ scan = [k \in Call |-> Idle]
  /\ starts = 0
  /\ faults = 0

-----------------------------------------------------------------------------
(***************************************************************************)
(* Saving.  persist() writes the vault as it is now; the write succeeds,   *)
(* or it fails and the command that waits for it ends with the error.  A   *)
(* save that a crash overtakes is one that failed.                         *)
(***************************************************************************)
Fault == faults < MaxFaults /\ faults' = faults + 1

Counted == starts < MaxStarts /\ starts' = starts + 1

SavesThen(k, d, then) ==
  /\ db' = d
  /\ \/ disk' = d /\ scan' = [scan EXCEPT ![k] = then] /\ UNCHANGED faults
     \/ Fault /\ disk' \in {disk, d} /\ scan' = [scan EXCEPT ![k] = Idle]

FounderSaves(d) ==
  /\ db' = d
  /\ \/ disk' = d /\ UNCHANGED faults
     \/ Fault /\ disk' \in {disk, d}

(***************************************************************************)
(* The mailbox and time.  Two messages never have the same time; a message *)
(* stays invisible no longer than the overlap.                             *)
(***************************************************************************)
Arrive(m) ==
  /\ stamp[m] = 0 /\ \A n \in Message : stamp[n] # clock
  /\ stamp' = [stamp EXCEPT ![m] = clock]
  /\ visible' \in {visible, visible \cup {m}}
  /\ UNCHANGED <<provider, clock, db, disk, scan, starts, faults>>

Appear(m) ==
  /\ m \in Arrived \ visible
  /\ visible' = visible \cup {m}
  /\ UNCHANGED <<provider, clock, stamp, db, disk, scan, starts, faults>>

Tick ==
  /\ clock < MaxClock
  /\ \A m \in Arrived \ visible : clock < stamp[m] + Overlap
  /\ clock' = clock + 1
  /\ UNCHANGED <<provider, stamp, visible, db, disk, scan, starts, faults>>

\* Mutant of Imported: a message already recorded as outbound is filed anew.
ImportedRefiled(v, page, ofSent) ==
  LET sent == {m \in page \cap Outbound : provider = "google" \/ ofSent}
      ofPerson == {m \in page : \/ Peer[m] \in v.known /\ (m \in sent \/ m \notin Outbound)
                                \/ \E e \in v.linked : Thread[e] = Thread[m]}
  IN  [v EXCEPT !.out = (@ \ page) \cup sent,
                !.inb = (@ \cup (ofPerson \ sent)) \ sent,
                !.linked = @ \cup ofPerson]

(***************************************************************************)
(* importMailboxMessages: one transaction over a page, newest first.  A    *)
(* message belongs to the person by the other side's address, or because   *)
(* an event already in the vault, or a newer one of the page, of the same  *)
(* thread does.  Google marks sent mail; Microsoft's direction is known    *)
(* only from the sent stream, now or earlier, and mail of the founder      *)
(* found elsewhere counts as inbound from an unknown sender.  An inbound   *)
(* message of nobody is not stored; an outbound one is.                    *)
(***************************************************************************)
Imported(v, page, ofSent) ==
  LET sent == {m \in page \cap Outbound : provider = "google" \/ ofSent \/ m \in v.out}
      received == page \ sent
      byAddress == {m \in page : Peer[m] \in v.known /\ (m \in sent \/ m \notin Outbound)}
      byThread == {m \in page :
                     \/ \E e \in v.linked : Thread[e] = Thread[m]
                     \/ \E e \in byAddress : Thread[e] = Thread[m] /\ stamp[e] > stamp[m]}
  IN  [v EXCEPT !.out = @ \cup sent,
                !.inb = (@ \cup (received \cap (byAddress \cup byThread))) \ sent,
                !.linked = @ \cup byAddress \cup byThread]

\* addPersonContact: stored observations of the new address, and of their threads,
\* become the person's.
WithContact(v, a) ==
  LET stored == v.out \cup v.inb
      direct == {m \in stored \ v.linked : Peer[m] = a}
      threads == {m \in stored : \E e \in direct : Thread[e] = Thread[m]}
  IN  [v EXCEPT !.known = @ \cup {a}, !.linked = @ \cup direct \cup threads]

AddPersonContact(a) ==
  /\ a \notin db.known
  /\ FounderSaves(WithContact(db, a))
  /\ UNCHANGED <<provider, mail, scan, starts>>

\* configure: a new configuration knows of no scan.
Configure ==
  /\ Counted
  /\ FounderSaves([db EXCEPT !.config = Unsynced])
  /\ UNCHANGED <<provider, mail, scan>>

Crash ==
  /\ Fault
  /\ db' = disk
  /\ scan' = [k \in Call |-> Idle]
  /\ UNCHANGED <<provider, mail, disk, starts>>

-----------------------------------------------------------------------------
(***************************************************************************)
(* A scan.                                                                 *)
(***************************************************************************)
\* Mutant of Full: the addresses the cursor holds for are not compared.
FullOnce(v) == v.config.claim = None

Full(v) == v.config.claim = None \/ v.config.claim.ids # v.known

Mode(v) == IF Full(v) THEN "full" ELSE "incremental"

CanResume(v) ==
  /\ v.config.progress # None
  /\ v.config.progress.mode = Mode(v)
  /\ v.config.progress.ids = v.known

\* Mutant of Cursor: nothing is taken off.
CursorAsStored(v) == IF Full(v) THEN 0 ELSE v.config.claim.last

Cursor(v) ==
  IF Full(v) \/ v.config.claim.last < Overlap THEN 0 ELSE v.config.claim.last - Overlap

NewProgress(v) ==
  [mode |-> Mode(v), startedAt |-> clock, ids |-> v.known, since |-> Cursor(v),
   scope |-> 1, token |-> None, seen |-> {}]

\* syncMail, or sendApprovedDraft, whose first step it is.
ReconcileMail(k) ==
  /\ scan[k].pc = "idle" /\ Counted
  /\ scan' = [scan EXCEPT ![k] =
       [pc |-> "list", fresh |-> ~CanResume(db),
        config |-> [db.config EXCEPT !.progress = None],
        progress |-> IF CanResume(db) THEN db.config.progress ELSE NewProgress(db),
        next |-> None, begun |-> visible]]
  /\ UNCHANGED <<provider, mail, db, disk, faults>>

Below(token) == IF token = None THEN MaxClock + 1 ELSE token

\* What the listing of a scan still holds: newer than its start, older than its page.
Remaining(p) ==
  {m \in visible : /\ stamp[m] >= p.since /\ stamp[m] < Below(p.token)
                   /\ OfSent(p) => m \in Outbound}

\* Mutant of PageLoops: repeated tokens go unnoticed.
NeverLoops(p, next) == FALSE

PageLoops(p, next) == next # None /\ (next = p.token \/ next \in p.seen)

(***************************************************************************)
(* The provider answers with the newest of what remains and names the next *)
(* page, unless nothing remains; it may also name a page it named before.  *)
(* The page is imported and saved; then a repeated token ends the scan     *)
(* with an error.                                                          *)
(***************************************************************************)
ListPage(k) ==
  LET p == scan[k].progress IN
  /\ scan[k].pc = "list"
  /\ \E cut \in {0} \cup {stamp[m] : m \in Remaining(p)} :
       LET page == {m \in Remaining(p) : stamp[m] >= cut}
           given == (p.seen \cup {p.token}) \ {None}
       IN  \E next \in given \cup (IF cut > 0 THEN {cut} ELSE {})
                             \cup (IF page = Remaining(p) THEN {None} ELSE {}) :
             SavesThen(k, Imported(db, page, OfSent(p)),
                       IF PageLoops(p, next) THEN Idle
                       ELSE [scan[k] EXCEPT !.pc = "imported", !.next = next])
  /\ UNCHANGED <<provider, mail, starts>>

\* A request fails.
ListFails(k) ==
  /\ scan[k].pc = "list"
  /\ Fault
  /\ scan' = [scan EXCEPT ![k] = Idle]
  /\ UNCHANGED <<provider, mail, db, disk, starts>>

\* Mutant of Advanced: the next stream starts at the page of the last one.
AdvancedByToken(p, next) ==
  IF next # None THEN [p EXCEPT !.token = next, !.seen = @ \cup {next}]
                 ELSE [p EXCEPT !.scope = @ + 1, !.seen = {}]

Advanced(p, next) ==
  IF next # None THEN [p EXCEPT !.token = next, !.seen = @ \cup {next}]
                 ELSE [p EXCEPT !.scope = @ + 1, !.token = None, !.seen = {}]

\* Mutant of Finished: one more stream is expected.
FinishedLate(p) == p.scope > Streams + 1

Finished(p) == p.scope > Streams

\* #storeMailSyncProgress, over the configuration the scan read when it started.
StoreMailSyncProgress(k) ==
  LET p == Advanced(scan[k].progress, scan[k].next)
  IN  /\ scan[k].pc = "imported"
      /\ ~Finished(p)
      /\ SavesThen(k, [db EXCEPT !.config = [scan[k].config EXCEPT !.progress = p]],
                   [scan[k] EXCEPT !.pc = "list", !.progress = p, !.next = None])
      /\ UNCHANGED <<provider, mail, starts>>

\* Mutant of Completed: the cursor is the time of completion.
CompletedNow(p) == [claim |-> [ids |-> p.ids, last |-> clock], progress |-> None]

\* The completion cursor is the start of the scan.
Completed(p) == [claim |-> [ids |-> p.ids, last |-> p.startedAt], progress |-> None]

Complete(k) ==
  LET p == Advanced(scan[k].progress, scan[k].next) IN
  /\ scan[k].pc = "imported"
  /\ Finished(p)
  /\ SavesThen(k, [db EXCEPT !.config = Completed(p)],
               [scan[k] EXCEPT !.pc = "reconciled", !.config = Unsynced, !.progress = p])
  /\ UNCHANGED <<provider, mail, starts>>

(***************************************************************************)
(* After the scan.  A send to an address known when it began goes on,      *)
(* unless the person was written to or asked for no e-mail as far as the   *)
(* vault knows (readiness of the draft, triggers of the ledger).  A        *)
(* synchronisation ends, and so may a send for many other reasons.         *)
(***************************************************************************)
MayReserve(v) == v.linked \cap (v.out \cup OptOut) = {}

Ends(k) ==
  /\ scan' = [scan EXCEPT ![k] = Idle]
  /\ UNCHANGED <<provider, mail, db, disk, starts, faults>>

Reserve(k) ==
  /\ scan[k].pc = "reconciled"
  /\ scan[k].progress.ids # {} /\ MayReserve(db)
  /\ Ends(k)

NotReserved(k) == scan[k].pc = "reconciled" /\ Ends(k)

(***************************************************************************)
(* connect and syncCalendar: they write the configuration they read before *)
(* their network calls back after them.                                    *)
(***************************************************************************)
ReadConfig(k) ==
  /\ scan[k].pc = "idle" /\ Counted
  /\ scan' = [scan EXCEPT ![k] = [Idle EXCEPT !.pc = "stale", !.config = db.config]]
  /\ UNCHANGED <<provider, mail, db, disk, faults>>

WriteConfigBack(k) ==
  /\ scan[k].pc = "stale"
  /\ SavesThen(k, [db EXCEPT !.config = scan[k].config], Idle)
  /\ UNCHANGED <<provider, mail, starts>>

-----------------------------------------------------------------------------
Progresses(k) ==
  \/ ListPage(k) \/ ListFails(k)
  \/ StoreMailSyncProgress(k) \/ Complete(k)
  \/ Reserve(k) \/ NotReserved(k) \/ WriteConfigBack(k)

Starts(k) == ReconcileMail(k) \/ ReadConfig(k)

World ==
  \/ Tick \/ Configure \/ Crash
  \/ \E m \in Message : Arrive(m) \/ Appear(m)
  \/ \E a \in Address : AddPersonContact(a)

Next == World \/ \E k \in Call : Starts(k) \/ Progresses(k)

Spec == Init /\ [][Next]_vars

(***************************************************************************)
(* A running command goes on: timers and network callbacks are delivered.  *)
(***************************************************************************)
FairSpec == Spec /\ \A k \in Call : WF_vars(Progresses(k))

-----------------------------------------------------------------------------
(***************************************************************************)
(* What must be in the vault of a message, for a set of addresses: it is   *)
(* outbound and recorded as such, or it is from the person; and a message  *)
(* with an address of the person is attributed.                            *)
(***************************************************************************)
Kept(v, m, ids) ==
  /\ m \in Outbound => m \in v.out
  /\ Peer[m] \in ids => m \in v.linked

(***************************************************************************)
(* The completion cursor is honest, in memory and on disk: whatever        *)
(* arrived before it, less the overlap of the next scan, is in the vault   *)
(* for the addresses the cursor holds for.  Otherwise an incremental scan  *)
(* would never look at a message the vault lacks (connector-service.ts     *)
(* 773-785 and 835-857, with resumed scans, concurrent scans, write-backs  *)
(* of stale configurations and restarts).                                  *)
(***************************************************************************)
HonestClaim(v, c) ==
  c # None => /\ c.ids \subseteq v.known
              /\ \A m \in Arrived : stamp[m] + Overlap < c.last => Kept(v, m, c.ids)

CursorIsHonest == HonestClaim(db, db.config.claim) /\ HonestClaim(disk, disk.config.claim)

(***************************************************************************)
(* The same of progress: whatever it has been through, or lies before its  *)
(* start, is in the vault, unless it is as young as the scan.  A message   *)
(* is looked for in one stream: Microsoft's outbound mail in the sent      *)
(* stream, all else in the last one.                                       *)
(***************************************************************************)
Stream(m) == IF provider = "microsoft" /\ m \notin Outbound THEN 2 ELSE 1

Through(p, m) ==
  \/ stamp[m] < p.since
  \/ p.scope > Stream(m)
  \/ p.scope = Stream(m) /\ p.token # None /\ stamp[m] >= p.token

HonestProgress(v, p) ==
  p # None => /\ p.ids \subseteq v.known /\ p.startedAt <= clock
              /\ \A m \in Arrived :
                   stamp[m] + Overlap < p.startedAt /\ Through(p, m) => Kept(v, m, p.ids)

HonestConfig(v, c) ==
  /\ HonestClaim(v, c.claim) /\ HonestProgress(v, c.progress)
  /\ c.claim # None => c.claim.last <= clock

\* How far a scan is, the page it has just imported included.
Reached(s) == IF s.pc = "imported" THEN Advanced(s.progress, s.next) ELSE s.progress

ScanIsHonest(v, s) ==
  /\ HonestConfig(v, s.config)
  /\ s.pc \in Scanning => HonestProgress(v, Reached(s))
  /\ s.pc = "reconciled" => Finished(s.progress)

ScanIsCurrent(v, s) ==
  /\ s.begun \subseteq visible
  /\ s.pc \in Scanning /\ s.fresh =>
       \A m \in s.begun : Through(Reached(s), m) => Kept(v, m, Reached(s).ids)

ShownInTime == \A m \in Arrived \ visible : clock <= stamp[m] + Overlap

(***************************************************************************)
(* The inductive invariant behind the two properties.                      *)
(***************************************************************************)
MailInvariant ==
  /\ MailTypeOK
  /\ ShownInTime /\ \A m \in Message : stamp[m] <= clock
  /\ HonestConfig(db, db.config) /\ HonestConfig(disk, disk.config)
  /\ \A k \in Call : ScanIsHonest(db, scan[k]) /\ ScanIsCurrent(db, scan[k])

(***************************************************************************)
(* A scan that did not resume an earlier one is current: once it is        *)
(* complete, every message the provider showed when the command began is   *)
(* in the vault for the addresses known then, whatever ran meanwhile.      *)
(***************************************************************************)
FreshScanIsCurrent ==
  \A k \in Call : scan[k].pc = "reconciled" /\ scan[k].fresh =>
    \A m \in scan[k].begun : Kept(db, m, scan[k].progress.ids)

(***************************************************************************)
(* Every command ends, even when the provider repeats its page tokens.     *)
(***************************************************************************)
CommandEnds == \A k \in Call : scan[k].pc # "idle" ~> scan[k].pc = "idle"

(***************************************************************************)
(* docs/user-guide.md: an unsubscribe request the provider showed, from an *)
(* address known, when the send began, is in the vault before the send is  *)
(* reserved.                                                               *)
(***************************************************************************)
OptOutBeforeSend ==
  [][\A k \in Call : Reserve(k) =>
       \A m \in scan[k].begun \cap OptOut : Peer[m] \in scan[k].progress.ids => m \in db.linked]_vars
=============================================================================
