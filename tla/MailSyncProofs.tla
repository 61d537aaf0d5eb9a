--------------------------- MODULE MailSyncProofs ---------------------------
(***************************************************************************)
(* The completion cursor of module MailSync is honest and a fresh scan is  *)
(* current, for every set of messages, addresses and commands, whatever    *)
(* the overlap.  First what the vault operators do to what is kept, then   *)
(* type correctness, then the inductive invariant.                         *)
(***************************************************************************)
EXTENDS MailSync, TLAPS

USE MessageKinds, ProviderIsKnown, MailBounds, NoneIsNoValue

-----------------------------------------------------------------------------
(* A vault only grows *)

Grown(v, w) == v.known \subseteq w.known /\ v.out \subseteq w.out /\ v.linked \subseteq w.linked

LEMMA KeptGrows ==
  ASSUME NEW v, NEW w, Grown(v, w), NEW m, NEW ids, Kept(v, m, ids)
  PROVE  Kept(w, m, ids)
BY DEF Grown, Kept

LEMMA ProgressGrows ==
  ASSUME NEW v, NEW w, Grown(v, w), NEW p, HonestProgress(v, p)
  PROVE  HonestProgress(w, p)
BY KeptGrows DEF HonestProgress, Grown

LEMMA ConfigGrows ==
  ASSUME NEW v, NEW w, Grown(v, w), NEW c, HonestConfig(v, c)
  PROVE  HonestConfig(w, c)
<1>1. HonestProgress(w, c.progress)
  BY ProgressGrows DEF HonestConfig
<1>2. HonestClaim(w, c.claim)
  BY KeptGrows DEF HonestConfig, HonestClaim, Grown
<1> QED BY <1>1, <1>2 DEF HonestConfig

LEMMA ScanGrows ==
  ASSUME NEW v, NEW w, Grown(v, w), NEW s, ScanIsHonest(v, s), ScanIsCurrent(v, s)
  PROVE  ScanIsHonest(w, s) /\ ScanIsCurrent(w, s)
<1>1. ScanIsHonest(w, s)
  BY ConfigGrows, ProgressGrows DEF ScanIsHonest
<1>2. ScanIsCurrent(w, s)
  BY KeptGrows DEF ScanIsCurrent
<1> QED BY <1>1, <1>2

LEMMA IdleIsHonest ==
  ASSUME NEW v
  PROVE  ScanIsHonest(v, Idle) /\ ScanIsCurrent(v, Idle) /\ Idle \in Scan /\ ScanInStream(Idle)
BY DEF Idle, Unsynced, Scanning, ScanIsHonest, ScanIsCurrent, HonestConfig, HonestClaim,
       HonestProgress, Scan, Config, ScanInStream, InStream

LEMMA ImportedGrows ==
  ASSUME NEW v \in Vault, NEW page \in SUBSET Message, NEW ofSent \in BOOLEAN
  PROVE  /\ Imported(v, page, ofSent) \in Vault
         /\ Grown(v, Imported(v, page, ofSent))
         /\ Imported(v, page, ofSent).config = v.config
         /\ Imported(v, page, ofSent).known = v.known
         /\ \A m \in page :
              m \in Outbound /\ (provider = "google" \/ ofSent) => m \in Imported(v, page, ofSent).out
         /\ \A m \in page :
              /\ Peer[m] \in v.known
              /\ m \notin Outbound \/ provider = "google" \/ ofSent
              => m \in Imported(v, page, ofSent).linked
<1> DEFINE sent == {m \in page \cap Outbound : provider = "google" \/ ofSent \/ m \in v.out}
           received == page \ sent
           byAddress == {m \in page : Peer[m] \in v.known /\ (m \in sent \/ m \notin Outbound)}
           byThread == {m \in page :
                          \/ \E e \in v.linked : Thread[e] = Thread[m]
                          \/ \E e \in byAddress : Thread[e] = Thread[m] /\ stamp[e] > stamp[m]}
           out == v.out \cup sent
           inb == (v.inb \cup (received \cap (byAddress \cup byThread))) \ sent
           linked == v.linked \cup byAddress \cup byThread
<1>1. Imported(v, page, ofSent) = [v EXCEPT !.out = out, !.inb = inb, !.linked = linked]
  BY Zenon DEF Imported
<1>2. out \in SUBSET Message /\ inb \in SUBSET Message /\ linked \in SUBSET Message
  BY DEF Vault
<1>3. \A m \in page : m \in Outbound /\ (provider = "google" \/ ofSent) => m \in out
  OBVIOUS
<1>4. \A m \in page : Peer[m] \in v.known /\ (m \notin Outbound \/ provider = "google" \/ ofSent)
                        => m \in linked
  OBVIOUS
<1>5. v.out \subseteq out /\ v.linked \subseteq linked
  OBVIOUS
<1> HIDE DEF sent, received, byAddress, byThread, out, inb, linked
<1> QED BY <1>1, <1>2, <1>3, <1>4, <1>5 DEF Vault, Grown

LEMMA WithContactGrows ==
  ASSUME NEW v \in Vault, NEW a \in Address
  PROVE  /\ WithContact(v, a) \in Vault
         /\ Grown(v, WithContact(v, a))
         /\ WithContact(v, a).config = v.config
<1> DEFINE stored == v.out \cup v.inb
           direct == {m \in stored \ v.linked : Peer[m] = a}
           threads == {m \in stored : \E e \in direct : Thread[e] = Thread[m]}
           linked == v.linked \cup direct \cup threads
<1>1. WithContact(v, a) = [v EXCEPT !.known = v.known \cup {a}, !.linked = linked]
  BY Zenon DEF WithContact
<1>2. linked \in SUBSET Message /\ v.linked \subseteq linked
  BY DEF Vault
<1> HIDE DEF linked, stored, direct, threads
<1> QED BY <1>1, <1>2 DEF Vault, Grown

\* A page keeps what belongs to its stream.
LEMMA ImportedKeeps ==
  ASSUME NEW v \in Vault, NEW page \in SUBSET Message, NEW m \in page,
         NEW ids, ids \subseteq v.known, NEW p, p.scope = Stream(m), provider \in Provider
  PROVE  Kept(Imported(v, page, OfSent(p)), m, ids)
<1>1. m \notin Outbound \/ provider = "google" \/ OfSent(p)
  BY DEF OfSent, Stream
<1>2. OfSent(p) \in BOOLEAN
  BY DEF OfSent
<1> QED BY <1>1, <1>2, ImportedGrows DEF Kept

-----------------------------------------------------------------------------
(* Steps that leave the mailbox and the time alone *)

\* The invariant of the next state, said of this state's mailbox.
LEMMA SameMailbox ==
  ASSUME UNCHANGED <<provider, mail>>, MailTypeOK', MailInvariant,
         HonestConfig(db', db'.config), HonestConfig(disk', disk'.config),
         \A k \in Call : ScanIsHonest(db', scan'[k]) /\ ScanIsCurrent(db', scan'[k])
  PROVE  MailInvariant'
<1>1. provider' = provider /\ clock' = clock /\ stamp' = stamp /\ visible' = visible
  BY DEF mail
<1>2. ShownInTime' /\ (\A m \in Message : stamp[m] <= clock)'
  BY <1>1 DEF MailInvariant, ShownInTime, Arrived
<1>3. HonestConfig(db, db.config)' /\ HonestConfig(disk, disk.config)'
  BY <1>1 DEF HonestConfig, HonestClaim, HonestProgress, Through, Stream, Arrived, Kept
<1>4. ASSUME NEW k \in Call PROVE ScanIsHonest(db, scan[k])'
  <2>1. ScanIsHonest(db', scan'[k])
    OBVIOUS
  <2> QED BY <1>1, <2>1 DEF ScanIsHonest, HonestConfig, HonestClaim, HonestProgress, Through,
             Stream, Arrived, Kept, Finished, Streams, Reached, Advanced, Scanning
<1>5. ASSUME NEW k \in Call PROVE ScanIsCurrent(db, scan[k])'
  <2>1. ScanIsCurrent(db', scan'[k])
    OBVIOUS
  <2> QED BY <1>1, <2>1 DEF ScanIsCurrent, Through, Stream, Kept, Reached, Advanced, Scanning
<1> QED BY <1>2, <1>3, <1>4, <1>5 DEF MailInvariant

LEMMA SavesKeeps ==
  ASSUME MailInvariant, NEW k \in Call, NEW d \in Vault, NEW then \in Scan,
         SavesThen(k, d, then), UNCHANGED <<provider, mail, starts>>,
         Grown(db, d), HonestConfig(d, d.config), InStream(d.config.progress),
         ScanInStream(then), ScanIsHonest(d, then), ScanIsCurrent(d, then)
  PROVE  MailInvariant'
<1>1. PICK s \in {then, Idle} : scan' = [scan EXCEPT ![k] = s]
  BY DEF SavesThen
<1>2. s \in Scan /\ ScanInStream(s) /\ ScanIsHonest(d, s) /\ ScanIsCurrent(d, s)
  BY IdleIsHonest
<1>3. db' = d /\ disk' \in {d, disk} /\ faults' \in 0 .. MaxFaults
  BY DEF SavesThen, Fault, MailInvariant, MailTypeOK
<1>4. \A j \in Call : scan'[j] = IF j = k THEN s ELSE scan[j]
  BY <1>1 DEF MailInvariant, MailTypeOK
<1>5. \A j \in Call : ScanIsHonest(db', scan'[j]) /\ ScanIsCurrent(db', scan'[j])
  BY <1>2, <1>3, <1>4, ScanGrows DEF MailInvariant
<1>6. HonestConfig(db', db'.config) /\ HonestConfig(disk', disk'.config)
  BY <1>3 DEF MailInvariant
<1>7. scan' \in [Call -> Scan]
  BY <1>1, <1>2 DEF MailInvariant, MailTypeOK
<1>8. \A j \in Call : ScanInStream(scan'[j])
  BY <1>2, <1>4 DEF MailInvariant, MailTypeOK
<1>9. MailTypeOK'
  <2>1. provider' = provider /\ clock' = clock /\ stamp' = stamp /\ visible' = visible /\ starts' = starts
    BY DEF mail
  <2>2. InStream(db'.config.progress) /\ InStream(disk'.config.progress)
    BY <1>3 DEF MailInvariant, MailTypeOK
  <2>3. (\A j \in Call : ScanInStream(scan[j]))'
    BY <1>8, <2>1 DEF ScanInStream, InStream, Streams, Scanning
  <2> QED BY <1>3, <1>7, <2>1, <2>2, <2>3 DEF MailInvariant, MailTypeOK, InStream, Streams, Arrived
<1> QED BY <1>5, <1>6, <1>9, SameMailbox

LEMMA FounderSavesKeeps ==
  ASSUME MailInvariant, NEW d \in Vault, FounderSaves(d), UNCHANGED <<provider, mail, scan>>,
         starts' \in 0 .. MaxStarts,
         Grown(db, d), HonestConfig(d, d.config), InStream(d.config.progress)
  PROVE  MailInvariant'
<1>1. db' = d /\ disk' \in {d, disk} /\ faults' \in 0 .. MaxFaults /\ scan' = scan
  BY DEF FounderSaves, Fault, MailInvariant, MailTypeOK
<1>2. \A j \in Call : ScanIsHonest(db', scan'[j]) /\ ScanIsCurrent(db', scan'[j])
  BY <1>1, ScanGrows DEF MailInvariant
<1>3. HonestConfig(db', db'.config) /\ HonestConfig(disk', disk'.config)
  BY <1>1 DEF MailInvariant
<1>4. MailTypeOK'
  <2>1. provider' = provider /\ clock' = clock /\ stamp' = stamp /\ visible' = visible
    BY DEF mail
  <2>2. InStream(db'.config.progress) /\ InStream(disk'.config.progress)
    BY <1>1 DEF MailInvariant, MailTypeOK
  <2> QED BY <1>1, <2>1, <2>2 DEF MailInvariant, MailTypeOK, ScanInStream, InStream, Streams,
             Scanning, Arrived
<1> QED BY <1>2, <1>3, <1>4, SameMailbox

\* Steps that only change the local state of one command, or crash.
LEMMA OnlyScans ==
  ASSUME MailInvariant, UNCHANGED <<provider, mail, disk>>, db' \in {db, disk},
         scan' \in [Call -> Scan], starts' \in 0 .. MaxStarts, faults' \in 0 .. MaxFaults,
         \A j \in Call : ScanInStream(scan'[j])
                          /\ ScanIsHonest(db', scan'[j]) /\ ScanIsCurrent(db', scan'[j])
  PROVE  MailInvariant'
<1>1. provider' = provider /\ clock' = clock /\ stamp' = stamp /\ visible' = visible /\ disk' = disk
  BY DEF mail
<1>2. HonestConfig(db', db'.config) /\ HonestConfig(disk', disk'.config)
  BY <1>1 DEF MailInvariant
<1>3. (\A j \in Call : ScanInStream(scan[j]))'
  BY <1>1 DEF ScanInStream, InStream, Streams, Scanning
<1>4. MailTypeOK'
  BY <1>1, <1>3 DEF MailInvariant, MailTypeOK, InStream, Streams, Arrived
<1> QED BY <1>2, <1>4, SameMailbox

-----------------------------------------------------------------------------
(* The founder, a crash, and the mailbox *)

LEMMA AddPersonContactKeeps ==
  ASSUME MailInvariant, NEW a \in Address, AddPersonContact(a)
  PROVE  MailInvariant'
<1> DEFINE d == WithContact(db, a)
<1>1. db \in Vault /\ HonestConfig(db, db.config) /\ InStream(db.config.progress)
  BY DEF MailInvariant, MailTypeOK
<1>2. d \in Vault /\ Grown(db, d) /\ d.config = db.config
  BY <1>1, WithContactGrows
<1>3. FounderSaves(d) /\ UNCHANGED <<provider, mail, scan>> /\ starts' \in 0 .. MaxStarts
  BY DEF AddPersonContact, MailInvariant, MailTypeOK
<1> HIDE DEF d
<1>4. HonestConfig(d, d.config) /\ InStream(d.config.progress)
  BY <1>1, <1>2, ConfigGrows
<1> QED BY <1>2, <1>3, <1>4, FounderSavesKeeps

\* A configuration that knows of no scan claims nothing.
LEMMA UnsyncedIsHonest ==
  ASSUME NEW v \in Vault
  PROVE  HonestConfig(v, Unsynced) /\ Unsynced \in Config /\ InStream(Unsynced.progress)
BY DEF Unsynced, HonestConfig, HonestClaim, HonestProgress, Config, InStream

LEMMA ConfigureKeeps ==
  ASSUME MailInvariant, Configure
  PROVE  MailInvariant'
<1> DEFINE d == [db EXCEPT !.config = Unsynced]
<1>1. db \in Vault
  BY DEF MailInvariant, MailTypeOK
<1>2. d \in Vault /\ Grown(db, d) /\ d.config = Unsynced
  BY <1>1, UnsyncedIsHonest DEF Vault, Grown
<1>3. FounderSaves(d) /\ UNCHANGED <<provider, mail, scan>> /\ starts' \in 0 .. MaxStarts
  BY DEF Configure, Counted, MailInvariant, MailTypeOK
<1> HIDE DEF d
<1>4. HonestConfig(d, d.config) /\ InStream(d.config.progress)
  BY <1>2, UnsyncedIsHonest
<1> QED BY <1>2, <1>3, <1>4, FounderSavesKeeps

LEMMA CrashKeeps ==
  ASSUME MailInvariant, Crash
  PROVE  MailInvariant'
<1>1. UNCHANGED <<provider, mail, starts>> /\ disk' = disk /\ db' = disk /\ faults' \in 0 .. MaxFaults
  BY DEF Crash, Fault, MailInvariant, MailTypeOK
<1>2. provider' = provider /\ clock' = clock /\ stamp' = stamp /\ visible' = visible
  BY <1>1 DEF mail
<1>3. scan' \in [Call -> Scan] /\ \A j \in Call : scan'[j] = Idle
  BY IdleIsHonest DEF Crash
<1>4. \A j \in Call : ScanInStream(scan'[j])
                      /\ ScanIsHonest(db', scan'[j]) /\ ScanIsCurrent(db', scan'[j])
  BY <1>3, IdleIsHonest
<1>5. MailTypeOK'
  BY <1>1, <1>2, <1>3, <1>4 DEF MailInvariant, MailTypeOK, ScanInStream, InStream, Streams, Scanning, Arrived
<1>6. HonestConfig(db', db'.config) /\ HonestConfig(disk', disk'.config)
  BY <1>1 DEF MailInvariant
<1> QED BY <1>1, <1>4, <1>5, <1>6, SameMailbox

(***************************************************************************)
(* The mailbox and the time go on.  A message that arrives is younger than *)
(* every cursor and every start; one already there keeps its time.         *)
(***************************************************************************)
LEMMA MailboxGrows ==
  ASSUME MailInvariant, MailTypeOK', UNCHANGED <<provider, db, disk, scan>>,
         ShownInTime', (\A m \in Message : stamp[m] <= clock)',
         clock <= clock', visible \subseteq visible',
         \A m \in Arrived' : stamp'[m] = stamp[m] \/ stamp'[m] = clock,
         \A m \in visible : stamp'[m] = stamp[m],
         \A m \in Arrived' : stamp'[m] # clock => m \in Arrived
  PROVE  MailInvariant'
<1>1. Overlap \in Nat /\ clock \in Nat /\ clock' \in Nat
      /\ (\A m \in Message : stamp[m] \in Nat /\ stamp'[m] \in Nat)
  BY DEF MailInvariant, MailTypeOK, Time
<1> DEFINE LaterClaim(v, c) ==
             c # None => /\ c.ids \subseteq v.known
                         /\ \A m \in Arrived' : stamp'[m] + Overlap < c.last => Kept(v, m, c.ids)
           LaterThrough(p, m) ==
             \/ stamp'[m] < p.since
             \/ p.scope > Stream(m)
             \/ p.scope = Stream(m) /\ p.token # None /\ stamp'[m] >= p.token
           LaterProgress(v, p) ==
             p # None => /\ p.ids \subseteq v.known /\ p.startedAt <= clock'
                         /\ \A m \in Arrived' :
                              stamp'[m] + Overlap < p.startedAt /\ LaterThrough(p, m) => Kept(v, m, p.ids)
           LaterConfig(v, c) ==
             /\ LaterClaim(v, c.claim) /\ LaterProgress(v, c.progress)
             /\ c.claim # None => c.claim.last <= clock'
<1>2. ASSUME NEW v, NEW c, c # None => c.last \in Nat /\ c.last <= clock, HonestClaim(v, c)
      PROVE  LaterClaim(v, c)
  <2> SUFFICES ASSUME c # None, NEW m \in Arrived', stamp'[m] + Overlap < c.last
               PROVE  Kept(v, m, c.ids)
    BY <1>2 DEF HonestClaim
  <2>1. m \in Message
    BY DEF Arrived
  <2>2. stamp'[m] # clock
    BY <1>1, <1>2, <2>1
  <2> QED BY <1>2, <2>2 DEF HonestClaim
<1>3. ASSUME NEW v, NEW p, p # None => p.startedAt \in Nat, HonestProgress(v, p)
      PROVE  LaterProgress(v, p)
  <2>1. p # None => p.ids \subseteq v.known /\ p.startedAt <= clock'
    BY <1>1, <1>3 DEF HonestProgress
  <2> SUFFICES ASSUME p # None, NEW m \in Arrived', stamp'[m] + Overlap < p.startedAt,
                      LaterThrough(p, m)
               PROVE  Kept(v, m, p.ids)
    BY <2>1
  <2>2. m \in Message /\ p.startedAt <= clock
    BY <1>3 DEF Arrived, HonestProgress
  <2>3. stamp'[m] # clock
    BY <1>1, <1>3, <2>2
  <2>4. m \in Arrived /\ stamp'[m] = stamp[m]
    BY <2>3
  <2>5. Through(p, m)
    BY <2>4 DEF Through
  <2> QED BY <1>3, <2>4, <2>5 DEF HonestProgress
<1>4. ASSUME NEW v, NEW c \in Config, HonestConfig(v, c)
      PROVE  LaterConfig(v, c)
  <2>1. c.claim # None => c.claim.last \in Nat /\ c.claim.last <= clock
    BY <1>4 DEF Config, Claim, Time, HonestConfig
  <2>2. c.progress # None => c.progress.startedAt \in Nat
    BY <1>4 DEF Config, Progress, Time
  <2>3. LaterClaim(v, c.claim)
    BY <1>2, <1>4, <2>1 DEF HonestConfig
  <2>4. LaterProgress(v, c.progress)
    BY <1>3, <1>4, <2>2 DEF HonestConfig
  <2> QED BY <1>1, <2>1, <2>3, <2>4
<1>5. db \in Vault /\ disk \in Vault /\ (\A k \in Call : scan[k] \in Scan)
  BY DEF MailInvariant, MailTypeOK
<1>6. HonestConfig(db, db.config)' /\ HonestConfig(disk, disk.config)'
  <2>1. LaterConfig(db, db.config) /\ LaterConfig(disk, disk.config)
    BY <1>4, <1>5 DEF MailInvariant, Vault
  <2> QED BY <2>1 DEF HonestConfig, HonestClaim, HonestProgress, Through, Stream, Kept
<1>7. ASSUME NEW k \in Call PROVE ScanIsHonest(db, scan[k])'
  <2> DEFINE s == scan[k]
  <2>1. ScanIsHonest(db, s)
    BY DEF MailInvariant
  <2>2. LaterConfig(db, s.config)
    BY <1>4, <1>5, <2>1 DEF ScanIsHonest, Scan
  <2>3. s.pc \in Scanning => LaterProgress(db, Reached(s))
    <3>1. s.pc \in Scanning => Reached(s).startedAt \in Nat
      BY <1>5 DEF MailInvariant, MailTypeOK, ScanInStream, Scan, Reached, Advanced, Progress, Time
    <3> QED BY <1>3, <2>1, <3>1 DEF ScanIsHonest
  <2>4. s.pc = "reconciled" => Finished(s.progress)
    BY <2>1 DEF ScanIsHonest
  <2> QED BY <2>2, <2>3, <2>4 DEF ScanIsHonest, HonestConfig, HonestClaim, HonestProgress,
             Through, Stream, Kept, Reached, Advanced, Finished, Streams, Scanning
<1>8. ASSUME NEW k \in Call PROVE ScanIsCurrent(db, scan[k])'
  <2> DEFINE s == scan[k]
  <2>1. ScanIsCurrent(db, s)
    BY DEF MailInvariant
  <2>2. (s.begun \subseteq visible') /\ \A m \in s.begun : stamp'[m] = stamp[m]
    BY <2>1 DEF ScanIsCurrent
  <2>3. ASSUME s.pc \in Scanning, s.fresh, NEW m \in s.begun, LaterThrough(Reached(s), m)
        PROVE  Kept(db, m, Reached(s).ids)
    <3>1. Through(Reached(s), m)
      BY <2>2, <2>3 DEF Through
    <3> QED BY <2>1, <2>3, <3>1 DEF ScanIsCurrent
  <2> QED BY <2>2, <2>3 DEF ScanIsCurrent, Through, Stream, Kept, Reached, Advanced, Scanning
<1> QED BY <1>6, <1>7, <1>8 DEF MailInvariant

LEMMA WorldKeeps ==
  ASSUME MailInvariant, Tick \/ \E m \in Message : Arrive(m) \/ Appear(m)
  PROVE  MailInvariant'
<1>1. /\ Overlap \in Nat /\ clock \in 1 .. MaxClock /\ stamp \in [Message -> 0 .. MaxClock]
      /\ visible \subseteq Arrived /\ ShownInTime /\ \A m \in Message : stamp[m] <= clock
  BY DEF MailInvariant, MailTypeOK, Time
<1>2. ASSUME MailTypeOK, UNCHANGED <<provider, db, disk, scan, starts, faults>>,
             clock' \in 1 .. MaxClock, stamp' \in [Message -> 0 .. MaxClock], visible' \subseteq Arrived'
      PROVE  MailTypeOK'
  BY <1>2 DEF MailTypeOK, Time, ScanInStream, InStream, Streams, Scanning
<1>3. CASE Tick
  <2>1. clock' = clock + 1 /\ UNCHANGED <<provider, stamp, visible, db, disk, scan, starts, faults>>
        /\ clock' \in 1 .. MaxClock
    BY <1>1, <1>3 DEF Tick
  <2>2. MailTypeOK'
    BY <1>1, <1>2, <2>1 DEF MailInvariant, Arrived
  <2>3. ShownInTime' /\ (\A m \in Message : stamp[m] <= clock)'
    BY <1>1, <1>3, <2>1 DEF Tick, ShownInTime, Arrived
  <2> QED BY <1>1, <2>1, <2>2, <2>3, MailboxGrows DEF Arrived
<1>4. ASSUME NEW m \in Message, Arrive(m) PROVE MailInvariant'
  <2>1. /\ stamp[m] = 0 /\ stamp' = [stamp EXCEPT ![m] = clock] /\ clock' = clock
        /\ visible' \in {visible, visible \cup {m}}
        /\ UNCHANGED <<provider, clock, db, disk, scan, starts, faults>>
    BY <1>4 DEF Arrive
  <2>2. stamp' \in [Message -> 0 .. MaxClock]
        /\ \A n \in Message : stamp'[n] = IF n = m THEN clock ELSE stamp[n]
    BY <1>1, <2>1
  <2>3. visible' \subseteq Arrived' /\ m \notin Arrived
    BY <1>1, <2>1, <2>2 DEF Arrived
  <2>4. MailTypeOK'
    BY <1>1, <1>2, <2>1, <2>2, <2>3 DEF MailInvariant
  <2>5. ShownInTime' /\ (\A n \in Message : stamp[n] <= clock)'
    BY <1>1, <2>1, <2>2 DEF ShownInTime, Arrived
  <2>6. (\A n \in Arrived' : stamp'[n] = stamp[n] \/ stamp'[n] = clock)
        /\ (\A n \in visible : stamp'[n] = stamp[n])
        /\ (\A n \in Arrived' : stamp'[n] # clock => n \in Arrived)
    BY <1>1, <2>1, <2>2, <2>3 DEF Arrived
  <2> QED BY <1>1, <2>1, <2>4, <2>5, <2>6, MailboxGrows
<1>5. ASSUME NEW m \in Message, Appear(m) PROVE MailInvariant'
  <2>1. /\ m \in Arrived /\ visible' = visible \cup {m} /\ stamp' = stamp
        /\ UNCHANGED <<provider, clock, db, disk, scan, starts, faults>>
    BY <1>5 DEF Appear
  <2>2. MailTypeOK'
    BY <1>1, <1>2, <2>1 DEF MailInvariant, Arrived
  <2>3. ShownInTime' /\ (\A n \in Message : stamp[n] <= clock)'
    BY <1>1, <2>1 DEF ShownInTime, Arrived
  <2> QED BY <1>1, <2>1, <2>2, <2>3, MailboxGrows DEF Arrived
<1> QED BY <1>3, <1>4, <1>5

-----------------------------------------------------------------------------
(* A scan *)

\* A scan starts where it resumes, or with nothing before its cursor.
LEMMA NewProgressIsHonest ==
  ASSUME MailInvariant
  PROVE  /\ NewProgress(db) \in Progress /\ InStream(NewProgress(db))
         /\ HonestProgress(db, NewProgress(db))
         /\ \A m \in Arrived : Through(NewProgress(db), m) => Kept(db, m, db.known)
<1> DEFINE p == NewProgress(db)
<1>1. /\ Overlap \in Nat /\ clock \in Time /\ clock \in Nat /\ stamp \in [Message -> 0 .. MaxClock]
      /\ db \in Vault /\ HonestClaim(db, db.config.claim)
  BY DEF MailInvariant, MailTypeOK, Time, HonestConfig
<1>2. Cursor(db) \in Time
      /\ (Cursor(db) # 0 => /\ db.config.claim # None /\ db.config.claim.ids = db.known
                            /\ db.config.claim.last \in Nat
                            /\ Cursor(db) = db.config.claim.last - Overlap)
  BY <1>1 DEF Cursor, Full, Vault, Config, Claim, Time
<1>3. p.since = Cursor(db) /\ p.scope = 1 /\ p.token = None /\ p.ids = db.known /\ p.startedAt = clock
      /\ p.mode \in {"full", "incremental"}
  BY DEF NewProgress, Mode
<1>4. p \in Progress /\ InStream(p)
  BY <1>1, <1>2 DEF NewProgress, Mode, Progress, Vault, InStream, Streams
<1> HIDE DEF p
<1>5. ASSUME NEW m \in Arrived, Through(p, m) PROVE Kept(db, m, db.known)
  <2>1. m \in Message /\ stamp[m] \in Nat
    BY <1>1 DEF Arrived
  <2>2. stamp[m] < Cursor(db)
    BY <1>3, <1>5 DEF Through, Stream
  <2>3. Cursor(db) # 0
    BY <2>1, <2>2
  <2>4. stamp[m] + Overlap < db.config.claim.last
    BY <1>1, <1>2, <2>1, <2>2, <2>3
  <2> QED BY <1>1, <1>2, <2>3, <2>4 DEF HonestClaim
<1>6. HonestProgress(db, p)
  BY <1>1, <1>3, <1>5 DEF HonestProgress
<1> QED BY <1>4, <1>5, <1>6 DEF p

LEMMA ReconcileMailKeeps ==
  ASSUME MailInvariant, NEW k \in Call, ReconcileMail(k)
  PROVE  MailInvariant'
<1> DEFINE p == IF CanResume(db) THEN db.config.progress ELSE NewProgress(db)
           c == [db.config EXCEPT !.progress = None]
           s == [pc |-> "list", fresh |-> ~CanResume(db), config |-> c, progress |-> p,
                 next |-> None, begun |-> visible]
<1>1. scan' = [scan EXCEPT ![k] = s] /\ UNCHANGED <<provider, mail, disk>> /\ db' = db
      /\ starts' \in 0 .. MaxStarts /\ faults' \in 0 .. MaxFaults
  BY DEF ReconcileMail, Counted, MailInvariant, MailTypeOK
<1>2. db \in Vault /\ scan \in [Call -> Scan] /\ visible \subseteq Arrived
      /\ HonestConfig(db, db.config) /\ InStream(db.config.progress)
  BY DEF MailInvariant, MailTypeOK
<1>3. c \in Config /\ c.progress = None /\ HonestConfig(db, c)
  BY <1>2 DEF Vault, Config, HonestConfig, HonestProgress
<1>4. p \in Progress /\ InStream(p) /\ HonestProgress(db, p)
  BY <1>2, NewProgressIsHonest DEF CanResume, Vault, Config, HonestConfig
<1>5. ~CanResume(db) => p.ids = db.known /\ \A m \in Arrived : Through(p, m) => Kept(db, m, p.ids)
  BY NewProgressIsHonest DEF NewProgress
<1>6. CanResume(db) \in BOOLEAN
  BY DEF CanResume
<1> HIDE DEF c, p
<1>7. s.pc = "list" /\ s.fresh = ~CanResume(db) /\ s.config = c /\ s.progress = p /\ s.begun = visible
  OBVIOUS
<1>8. s \in Scan
  BY <1>2, <1>3, <1>4, <1>6 DEF Scan, Scanning, Arrived
<1> HIDE DEF s
<1>9. Reached(s) = p
  BY <1>7 DEF Reached
<1>10. ScanInStream(s) /\ ScanIsHonest(db, s) /\ ScanIsCurrent(db, s)
  <2>1. p # None
    BY <1>4
  <2>2. ScanInStream(s)
    BY <1>3, <1>4, <1>7, <2>1 DEF ScanInStream, InStream
  <2>3. ScanIsHonest(db, s)
    BY <1>3, <1>4, <1>7, <1>9 DEF ScanIsHonest
  <2>4. ScanIsCurrent(db, s)
    BY <1>2, <1>5, <1>7, <1>9 DEF ScanIsCurrent
  <2> QED BY <2>2, <2>3, <2>4
<1>11. scan' \in [Call -> Scan] /\ \A j \in Call : scan'[j] = IF j = k THEN s ELSE scan[j]
  BY <1>1, <1>2, <1>8
<1>12. \A j \in Call : ScanInStream(scan'[j])
                       /\ ScanIsHonest(db', scan'[j]) /\ ScanIsCurrent(db', scan'[j])
  BY <1>1, <1>10, <1>11 DEF MailInvariant, MailTypeOK
<1> QED BY <1>1, <1>11, <1>12, OnlyScans

\* A command that ends leaves everything as it was.
LEMMA EndsKeeps ==
  ASSUME MailInvariant, NEW k \in Call, scan' = [scan EXCEPT ![k] = Idle],
         UNCHANGED <<provider, mail, db, disk, starts>>, faults' \in 0 .. MaxFaults
  PROVE  MailInvariant'
<1>1. scan \in [Call -> Scan] /\ starts' \in 0 .. MaxStarts
  BY DEF MailInvariant, MailTypeOK
<1>2. scan' \in [Call -> Scan] /\ \A j \in Call : scan'[j] = IF j = k THEN Idle ELSE scan[j]
  BY <1>1, IdleIsHonest
<1>3. \A j \in Call : ScanInStream(scan'[j])
                      /\ ScanIsHonest(db', scan'[j]) /\ ScanIsCurrent(db', scan'[j])
  BY <1>2, IdleIsHonest DEF MailInvariant, MailTypeOK
<1> QED BY <1>1, <1>2, <1>3, OnlyScans

LEMMA ReadConfigKeeps ==
  ASSUME MailInvariant, NEW k \in Call, ReadConfig(k)
  PROVE  MailInvariant'
<1> DEFINE s == [Idle EXCEPT !.pc = "stale", !.config = db.config]
<1>1. scan' = [scan EXCEPT ![k] = s] /\ UNCHANGED <<provider, mail, disk>> /\ db' = db
      /\ starts' \in 0 .. MaxStarts /\ faults' \in 0 .. MaxFaults
  BY DEF ReadConfig, Counted, MailInvariant, MailTypeOK
<1>2. db \in Vault /\ scan \in [Call -> Scan]
      /\ HonestConfig(db, db.config) /\ InStream(db.config.progress)
  BY DEF MailInvariant, MailTypeOK
<1>3. s.pc = "stale" /\ s.config = db.config /\ s.begun = {} /\ s \in Scan
  BY <1>2 DEF Idle, Scan, Scanning, Vault
<1> HIDE DEF s
<1>4. ScanInStream(s) /\ ScanIsHonest(db, s) /\ ScanIsCurrent(db, s)
  BY <1>2, <1>3 DEF ScanInStream, ScanIsHonest, ScanIsCurrent, Scanning
<1>5. scan' \in [Call -> Scan] /\ \A j \in Call : scan'[j] = IF j = k THEN s ELSE scan[j]
  BY <1>1, <1>2, <1>3
<1>6. \A j \in Call : ScanInStream(scan'[j])
                      /\ ScanIsHonest(db', scan'[j]) /\ ScanIsCurrent(db', scan'[j])
  BY <1>1, <1>4, <1>5 DEF MailInvariant, MailTypeOK
<1> QED BY <1>1, <1>5, <1>6, OnlyScans

LEMMA WriteConfigBackKeeps ==
  ASSUME MailInvariant, NEW k \in Call, WriteConfigBack(k)
  PROVE  MailInvariant'
<1> DEFINE d == [db EXCEPT !.config = scan[k].config]
<1>1. db \in Vault /\ scan[k] \in Scan /\ ScanInStream(scan[k]) /\ ScanIsHonest(db, scan[k])
  BY DEF MailInvariant, MailTypeOK
<1>2. d \in Vault /\ Grown(db, d) /\ d.config = scan[k].config
  BY <1>1 DEF Vault, Grown, Scan
<1>3. SavesThen(k, d, Idle) /\ UNCHANGED <<provider, mail, starts>>
  BY DEF WriteConfigBack
<1> HIDE DEF d
<1>4. HonestConfig(d, d.config) /\ InStream(d.config.progress)
  BY <1>1, <1>2, ConfigGrows DEF ScanIsHonest, ScanInStream
<1> QED BY <1>2, <1>3, <1>4, IdleIsHonest, SavesKeeps

\* What a command that has progress knows of it.
LEMMA AdvancedIsProgress ==
  ASSUME MailInvariant, NEW k \in Call, scan[k].pc \in {"list", "imported"},
         NEW next \in Time \cup {None}
  PROVE  /\ scan[k].progress \in Progress /\ scan[k].progress.scope \in 1 .. Streams
         /\ Advanced(scan[k].progress, next) \in Progress
         /\ Advanced(scan[k].progress, next) # None
         /\ Advanced(scan[k].progress, next).ids = scan[k].progress.ids
         /\ Advanced(scan[k].progress, next).startedAt = scan[k].progress.startedAt
<1> DEFINE p == scan[k].progress
<1>1. p \in Progress /\ p.scope \in 1 .. Streams
  BY DEF MailInvariant, MailTypeOK, ScanInStream, InStream, Scan, Scanning
<1>2. Streams \in {1, 2}
  BY DEF Streams
<1> HIDE DEF p
<1>3. p.scope + 1 \in 1 .. 3
  BY <1>1, <1>2
<1>4. Advanced(p, next) \in Progress
  <2>1. CASE next # None
    BY <1>1, <2>1 DEF Advanced, Progress
  <2>2. CASE next = None
    BY <1>1, <1>3, <2>2 DEF Advanced, Progress
  <2> QED BY <2>1, <2>2
<1>5. Advanced(p, next) \in Progress /\ Advanced(p, next).ids = p.ids
      /\ Advanced(p, next).startedAt = p.startedAt
  BY <1>1, <1>4 DEF Advanced, Progress
<1> QED BY <1>1, <1>5 DEF p

LEMMA StoreMailSyncProgressKeeps ==
  ASSUME MailInvariant, NEW k \in Call, StoreMailSyncProgress(k)
  PROVE  MailInvariant'
<1> DEFINE s == scan[k]
           p == Advanced(s.progress, s.next)
           c == [s.config EXCEPT !.progress = p]
           d == [db EXCEPT !.config = c]
           then == [s EXCEPT !.pc = "list", !.progress = p, !.next = None]
<1>1. /\ s.pc = "imported" /\ ~Finished(p) /\ SavesThen(k, d, then)
      /\ UNCHANGED <<provider, mail, starts>>
  BY DEF StoreMailSyncProgress
<1>2. db \in Vault /\ s \in Scan /\ s.next \in Time \cup {None}
      /\ ScanInStream(s) /\ ScanIsHonest(db, s) /\ ScanIsCurrent(db, s)
  BY DEF MailInvariant, MailTypeOK, Scan
<1>3. p \in Progress /\ p # None
  BY <1>1, <1>2, AdvancedIsProgress
<1>4. Reached(s) = p
  BY <1>1 DEF Reached
<1> HIDE DEF s, p
<1>5. InStream(p)
  BY <1>1, <1>3 DEF InStream, Finished, Streams, Progress
<1>6. c \in Config /\ c.claim = s.config.claim /\ c.progress = p
  BY <1>2, <1>3 DEF Scan, Config
<1>7. HonestConfig(db, c)
  BY <1>1, <1>2, <1>4, <1>6 DEF ScanIsHonest, HonestConfig, Scanning
<1> HIDE DEF c
<1>8. d \in Vault /\ Grown(db, d) /\ d.config = c
  BY <1>2, <1>6 DEF Vault, Grown
<1>9. then \in Scan /\ then.pc = "list" /\ then.fresh = s.fresh /\ then.config = s.config
      /\ then.progress = p /\ then.begun = s.begun
  BY <1>2, <1>3 DEF Scan, Scanning
<1> HIDE DEF d, then
<1>10. Reached(then) = p
  BY <1>9 DEF Reached
<1>11. ScanInStream(then) /\ ScanIsHonest(db, then) /\ ScanIsCurrent(db, then)
  <2>1. ScanInStream(then)
    BY <1>2, <1>3, <1>5, <1>9 DEF ScanInStream
  <2>2. ScanIsHonest(db, then)
    BY <1>1, <1>2, <1>4, <1>9, <1>10 DEF ScanIsHonest, Scanning
  <2>3. ScanIsCurrent(db, then)
    BY <1>1, <1>2, <1>4, <1>9, <1>10 DEF ScanIsCurrent, Scanning
  <2> QED BY <2>1, <2>2, <2>3
<1>12. HonestConfig(d, d.config) /\ ScanIsHonest(d, then) /\ ScanIsCurrent(d, then)
  BY <1>7, <1>8, <1>11, ConfigGrows, ScanGrows
<1> QED BY <1>1, <1>5, <1>6, <1>8, <1>9, <1>11, <1>12, SavesKeeps

LEMMA CompleteKeeps ==
  ASSUME MailInvariant, NEW k \in Call, Complete(k)
  PROVE  MailInvariant'
<1> DEFINE s == scan[k]
           p == Advanced(s.progress, s.next)
           c == Completed(p)
           d == [db EXCEPT !.config = c]
           then == [s EXCEPT !.pc = "reconciled", !.config = Unsynced, !.progress = p]
<1>1. /\ s.pc = "imported" /\ Finished(p) /\ SavesThen(k, d, then)
      /\ UNCHANGED <<provider, mail, starts>>
  BY DEF Complete
<1>2. db \in Vault /\ s \in Scan /\ s.next \in Time \cup {None}
      /\ ScanIsHonest(db, s) /\ ScanIsCurrent(db, s)
  BY DEF MailInvariant, MailTypeOK, Scan
<1>3. p \in Progress /\ p # None
  BY <1>1, <1>2, AdvancedIsProgress
<1>4. Reached(s) = p
  BY <1>1 DEF Reached
<1> HIDE DEF s, p
<1>5. HonestProgress(db, p)
  BY <1>1, <1>2, <1>4 DEF ScanIsHonest, Scanning
<1>6. c.claim = [ids |-> p.ids, last |-> p.startedAt] /\ c.progress = None /\ c \in Config
      /\ c.claim # None
  <2>1. [ids |-> p.ids, last |-> p.startedAt] \in Claim
    BY <1>3 DEF Claim, Progress
  <2> QED BY <2>1 DEF Completed, Config
<1>7. \A m \in Message : Through(p, m)
  BY <1>1, <1>3 DEF Finished, Through, Stream, Streams, Progress
<1>8. HonestConfig(db, c)
  BY <1>3, <1>5, <1>6, <1>7 DEF HonestConfig, HonestClaim, HonestProgress, Arrived
<1> HIDE DEF c
<1>9. d \in Vault /\ Grown(db, d) /\ d.config = c
  BY <1>2, <1>6 DEF Vault, Grown
<1>10. then \in Scan /\ then.pc = "reconciled" /\ then.fresh = s.fresh /\ then.config = Unsynced
      /\ then.progress = p /\ then.begun = s.begun
  BY <1>2, <1>3, UnsyncedIsHonest DEF Scan, Scanning
<1> HIDE DEF d, then
<1>11. Reached(then) = p
  BY <1>10 DEF Reached
<1>12. ScanInStream(then) /\ ScanIsHonest(db, then) /\ ScanIsCurrent(db, then)
  <2>1. ScanInStream(then)
    BY <1>2, <1>3, <1>10, UnsyncedIsHonest DEF ScanInStream
  <2>2. ScanIsHonest(db, then)
    BY <1>1, <1>2, <1>5, <1>10, <1>11, UnsyncedIsHonest DEF ScanIsHonest
  <2>3. ScanIsCurrent(db, then)
    BY <1>1, <1>2, <1>4, <1>10, <1>11 DEF ScanIsCurrent, Scanning
  <2> QED BY <2>1, <2>2, <2>3
<1>13. HonestConfig(d, d.config) /\ ScanIsHonest(d, then) /\ ScanIsCurrent(d, then)
  BY <1>8, <1>9, <1>12, ConfigGrows, ScanGrows
<1>14. InStream(d.config.progress)
  BY <1>6, <1>9 DEF InStream
<1> QED BY <1>1, <1>9, <1>10, <1>12, <1>13, <1>14, SavesKeeps

(***************************************************************************)
(* A page.  A message the provider shows that the page takes the scan      *)
(* through was passed before, or is on the page and of its stream.         *)
(***************************************************************************)
LEMMA PageIsWhatWasPassed ==
  ASSUME MailInvariant, NEW p \in Progress, NEW cut, NEW next,
         \/ next = None /\ {m \in Remaining(p) : stamp[m] >= cut} = Remaining(p)
         \/ next # None /\ next = cut,
         NEW m \in visible, Through(Advanced(p, next), m), ~Through(p, m)
  PROVE  m \in Remaining(p) /\ stamp[m] >= cut /\ p.scope = Stream(m)
<1>1. stamp \in [Message -> 0 .. MaxClock] /\ m \in Message /\ MaxClock \in Nat
  BY DEF MailInvariant, MailTypeOK, Time, Arrived
<1>2. p.scope \in 1 .. 3 /\ p.since \in Nat /\ p.token \in Nat \cup {None} /\ Stream(m) \in Nat
      /\ stamp[m] \in 0 .. MaxClock
  BY <1>1 DEF Progress, Time, Stream
<1>3. stamp[m] >= p.since /\ p.scope <= Stream(m)
      /\ (p.scope = Stream(m) /\ p.token # None => stamp[m] < p.token)
  BY <1>2 DEF Through
<1>4. p.scope = Stream(m) /\ (next # None => stamp[m] >= cut)
  <2>1. CASE next # None
    <3>1. Advanced(p, next).scope = p.scope /\ Advanced(p, next).since = p.since
          /\ Advanced(p, next).token = next
      BY <2>1 DEF Advanced, Progress
    <3> QED BY <1>2, <1>3, <2>1, <3>1 DEF Through
  <2>2. CASE next = None
    <3>1. Advanced(p, next).scope = p.scope + 1 /\ Advanced(p, next).since = p.since
          /\ Advanced(p, next).token = None
      BY <2>2 DEF Advanced, Progress
    <3> QED BY <1>2, <1>3, <2>2, <3>1 DEF Through
  <2> QED BY <2>1, <2>2
<1>5. OfSent(p) => m \in Outbound
  BY <1>2, <1>4 DEF OfSent, Stream
<1>6. m \in Remaining(p)
  BY <1>1, <1>2, <1>3, <1>4, <1>5 DEF Remaining, Below
<1>7. stamp[m] >= cut
  BY <1>4, <1>6
<1> QED BY <1>4, <1>6, <1>7

LEMMA ListPageKeeps ==
  ASSUME MailInvariant, NEW k \in Call, ListPage(k)
  PROVE  MailInvariant'
<1> DEFINE s == scan[k]
           p == s.progress
<1>1. s.pc = "list" /\ UNCHANGED <<provider, mail, starts>>
  BY DEF ListPage
<1>2. PICK cut, next :
        /\ cut \in {0} \cup {stamp[m] : m \in Remaining(p)}
        /\ next \in ((p.seen \cup {p.token}) \ {None})
                      \cup (IF cut > 0 THEN {cut} ELSE {})
                      \cup (IF {m \in Remaining(p) : stamp[m] >= cut} = Remaining(p) THEN {None} ELSE {})
        /\ SavesThen(k, Imported(db, {m \in Remaining(p) : stamp[m] >= cut}, OfSent(p)),
                     IF PageLoops(p, next) THEN Idle ELSE [s EXCEPT !.pc = "imported", !.next = next])
  BY Zenon DEF ListPage
<1> DEFINE page == {m \in Remaining(p) : stamp[m] >= cut}
           d == Imported(db, page, OfSent(p))
           read == [s EXCEPT !.pc = "imported", !.next = next]
           then == IF PageLoops(p, next) THEN Idle ELSE read
<1>3. SavesThen(k, d, then)
      /\ \/ next # None /\ next \in p.seen \cup {p.token}
         \/ next = cut
         \/ next = None /\ page = Remaining(p)
  BY <1>2, Zenon
<1>4. /\ db \in Vault /\ s \in Scan /\ provider \in Provider /\ visible \subseteq Message
      /\ stamp \in [Message -> Time] /\ clock \in Nat /\ Overlap \in Nat
      /\ ScanInStream(s) /\ ScanIsHonest(db, s) /\ ScanIsCurrent(db, s)
      /\ HonestConfig(db, db.config) /\ InStream(db.config.progress) /\ ShownInTime
  BY DEF MailInvariant, MailTypeOK, Arrived, Time
<1>5. p \in Progress /\ HonestProgress(db, p) /\ p # None
  BY <1>1, <1>4, AdvancedIsProgress DEF ScanIsHonest, Scanning, Reached
<1>6. page \subseteq Message /\ page \subseteq visible /\ OfSent(p) \in BOOLEAN
  BY <1>4 DEF Remaining, OfSent
<1>7. next \in Time \cup {None} /\ cut \in Time
  <2>1. cut \in Time
    BY <1>2, <1>4 DEF Remaining, Time
  <2>2. p.seen \subseteq Time /\ p.token \in Time \cup {None}
    BY <1>5 DEF Progress
  <2> QED BY <1>3, <2>1, <2>2
<1>8. d \in Vault /\ Grown(db, d) /\ d.config = db.config
  BY <1>4, <1>6, ImportedGrows
<1>9. HonestConfig(d, d.config)
  BY <1>4, <1>8, ConfigGrows
<1>10. read \in Scan /\ read.pc = "imported" /\ read.fresh = s.fresh /\ read.config = s.config
       /\ read.progress = p /\ read.next = next /\ read.begun = s.begun
  BY <1>4, <1>7 DEF Scan, Scanning
<1>11. Reached(read) = Advanced(p, next)
  BY <1>10 DEF Reached
<1> DEFINE q == Advanced(p, next)
<1>12. q \in Progress /\ q.ids = p.ids /\ q.startedAt = p.startedAt
  BY <1>1, <1>7, AdvancedIsProgress
<1>13. p.ids \subseteq db.known /\ p.startedAt <= clock /\ d.known = db.known
  BY <1>4, <1>5, <1>6, ImportedGrows DEF HonestProgress
<1>14. Reached(s) = p
  BY <1>1 DEF Reached
<1>15. ASSUME ~PageLoops(p, next), NEW m \in visible, Through(q, m), Through(p, m) => Kept(db, m, p.ids)
       PROVE  Kept(d, m, q.ids)
  <2>1. CASE Through(p, m)
    BY <1>8, <1>12, <1>15, <2>1, KeptGrows
  <2>2. CASE ~Through(p, m)
    <3>1. \/ next = None /\ page = Remaining(p)
          \/ next # None /\ next = cut
      BY <1>3, <1>7, <1>15 DEF PageLoops
    <3>2. m \in page /\ p.scope = Stream(m)
      BY <1>5, <1>15, <2>2, <3>1, PageIsWhatWasPassed
    <3> QED BY <1>4, <1>6, <1>12, <1>13, <3>2, ImportedKeeps
  <2> QED BY <2>1, <2>2
<1> HIDE DEF s, p, page, d, read, q
<1>16. ASSUME ~PageLoops(p, next)
       PROVE  ScanInStream(read) /\ ScanIsHonest(d, read) /\ ScanIsCurrent(d, read)
  <2>1. ScanInStream(read)
    BY <1>1, <1>4, <1>5, <1>10 DEF ScanInStream, p
  <2>2. HonestProgress(d, q)
    <3> SUFFICES ASSUME NEW m \in Arrived, stamp[m] + Overlap < p.startedAt, Through(q, m)
                 PROVE  Kept(d, m, q.ids)
      BY <1>12, <1>13 DEF HonestProgress
    <3>1. m \in visible
      BY <1>4, <1>5, <1>13 DEF ShownInTime, Arrived, Time, Progress
    <3>2. Through(p, m) => Kept(db, m, p.ids)
      BY <1>5 DEF HonestProgress
    <3> QED BY <1>15, <1>16, <3>1, <3>2
  <2>3. ScanIsHonest(d, read)
    <3>1. HonestConfig(d, read.config)
      BY <1>4, <1>8, <1>10, ConfigGrows DEF ScanIsHonest
    <3> QED BY <1>10, <1>11, <2>2, <3>1 DEF ScanIsHonest, q
  <2>4. ScanIsCurrent(d, read)
    <3>1. s.begun \subseteq visible
      BY <1>4 DEF ScanIsCurrent
    <3>2. ASSUME s.fresh, NEW m \in s.begun, Through(q, m)
          PROVE  Kept(d, m, q.ids)
      <4>1. Through(p, m) => Kept(db, m, p.ids)
        BY <1>1, <1>4, <1>14, <3>2 DEF ScanIsCurrent, Scanning
      <4> QED BY <1>15, <1>16, <3>1, <3>2, <4>1
    <3> QED BY <1>10, <1>11, <3>1, <3>2 DEF ScanIsCurrent, q
  <2> QED BY <2>1, <2>3, <2>4
<1>17. then \in Scan /\ ScanInStream(then) /\ ScanIsHonest(d, then) /\ ScanIsCurrent(d, then)
  BY <1>10, <1>16, IdleIsHonest
<1>18. InStream(d.config.progress)
  BY <1>4, <1>8
<1> HIDE DEF then
<1> QED BY <1>1, <1>3, <1>8, <1>9, <1>17, <1>18, SavesKeeps

-----------------------------------------------------------------------------
(* The theorems *)

\* The invariant holds when the program starts.
LEMMA InitIsHonest == Init => MailInvariant
<1> SUFFICES ASSUME Init PROVE MailInvariant
  OBVIOUS
<1>1. db \in Vault /\ disk = db /\ db.config = Unsynced
  BY DEF Init, Vault, Unsynced, Config
<1>2. HonestConfig(db, db.config) /\ InStream(db.config.progress)
  BY <1>1, UnsyncedIsHonest
<1>3. \A k \in Call : /\ scan[k] = Idle /\ ScanInStream(scan[k])
                       /\ ScanIsHonest(db, scan[k]) /\ ScanIsCurrent(db, scan[k])
  BY IdleIsHonest DEF Init
<1>4. scan \in [Call -> Scan]
  BY IdleIsHonest DEF Init
<1>5. clock \in 1 .. MaxClock /\ stamp \in [Message -> Time] /\ Arrived = {} /\ visible = {}
      /\ starts \in 0 .. MaxStarts /\ faults \in 0 .. MaxFaults /\ provider \in Provider
      /\ \A m \in Message : stamp[m] = 0
  BY DEF Init, Time, Arrived
<1>6. ShownInTime /\ \A m \in Message : stamp[m] <= clock
  BY <1>5 DEF ShownInTime
<1> QED BY <1>1, <1>2, <1>3, <1>4, <1>5, <1>6 DEF MailInvariant, MailTypeOK

\* Every step keeps it.
LEMMA NextKeeps == MailInvariant /\ [Next]_vars => MailInvariant'
<1> SUFFICES ASSUME MailInvariant, [Next]_vars PROVE MailInvariant'
  OBVIOUS
<1>1. CASE Tick \/ \E m \in Message : Arrive(m) \/ Appear(m)
  BY <1>1, WorldKeeps
<1>2. CASE Configure
  BY <1>2, ConfigureKeeps
<1>3. CASE Crash
  BY <1>3, CrashKeeps
<1>4. ASSUME NEW a \in Address, AddPersonContact(a) PROVE MailInvariant'
  BY <1>4, AddPersonContactKeeps
<1>5. ASSUME NEW k \in Call, Starts(k) PROVE MailInvariant'
  BY <1>5, ReconcileMailKeeps, ReadConfigKeeps DEF Starts
<1>6. ASSUME NEW k \in Call, Progresses(k) PROVE MailInvariant'
  <2>1. CASE ListPage(k)
    BY <2>1, ListPageKeeps
  <2>2. CASE StoreMailSyncProgress(k)
    BY <2>2, StoreMailSyncProgressKeeps
  <2>3. CASE Complete(k)
    BY <2>3, CompleteKeeps
  <2>4. CASE WriteConfigBack(k)
    BY <2>4, WriteConfigBackKeeps
  <2>5. CASE ListFails(k) \/ Reserve(k) \/ NotReserved(k)
    <3>1. /\ scan' = [scan EXCEPT ![k] = Idle] /\ UNCHANGED <<provider, mail, db, disk, starts>>
          /\ faults' \in 0 .. MaxFaults
      BY <2>5 DEF ListFails, Reserve, NotReserved, Ends, Fault, MailInvariant, MailTypeOK
    <3> QED BY <3>1, EndsKeeps
  <2> QED BY <1>6, <2>1, <2>2, <2>3, <2>4, <2>5 DEF Progresses
<1>7. CASE UNCHANGED vars
  <2>1. UNCHANGED <<provider, mail>> /\ UNCHANGED <<db, disk, scan, starts, faults>>
    BY <1>7 DEF vars
  <2>2. scan \in [Call -> Scan] /\ starts \in 0 .. MaxStarts /\ faults \in 0 .. MaxFaults
        /\ \A j \in Call : ScanInStream(scan[j]) /\ ScanIsHonest(db, scan[j]) /\ ScanIsCurrent(db, scan[j])
    BY DEF MailInvariant, MailTypeOK
  <2> QED BY <2>1, <2>2, OnlyScans
<1> QED BY <1>1, <1>2, <1>3, <1>4, <1>5, <1>6, <1>7 DEF Next, World

(***************************************************************************)
(* The invariant of the reconciliation: claims of completeness and saved   *)
(* progress are honest in memory, on disk and in every running command.    *)
(***************************************************************************)
THEOREM MailInvariantHolds == Spec => []MailInvariant
BY InitIsHonest, NextKeeps, PTL DEF Spec

(***************************************************************************)
(* Every variable keeps its type, and no stored progress points past the   *)
(* provider's streams (connector-service.ts 806-807 indexes them with it). *)
(***************************************************************************)
THEOREM MailTypeCorrect == Spec => []MailTypeOK
<1>1. MailInvariant => MailTypeOK
  BY DEF MailInvariant
<1> QED BY <1>1, MailInvariantHolds, PTL

(***************************************************************************)
(* The completion cursor never claims more than the vault holds, so that   *)
(* an incremental scan misses nothing.                                     *)
(***************************************************************************)
THEOREM CompletionCursorIsHonest == Spec => []CursorIsHonest
<1>1. MailInvariant => CursorIsHonest
  BY DEF MailInvariant, CursorIsHonest, HonestConfig
<1> QED BY <1>1, MailInvariantHolds, PTL

(***************************************************************************)
(* A scan that starts anew has, once it is complete, taken in everything   *)
(* the provider showed when the command began.                             *)
(***************************************************************************)
THEOREM FreshScansAreCurrent == Spec => []FreshScanIsCurrent
<1>1. ASSUME MailInvariant PROVE FreshScanIsCurrent
  <2> SUFFICES ASSUME NEW k \in Call, scan[k].pc = "reconciled", scan[k].fresh, NEW m \in scan[k].begun
               PROVE  Kept(db, m, scan[k].progress.ids)
    BY DEF FreshScanIsCurrent
  <2> DEFINE s == scan[k]
  <2>1. s \in Scan /\ ScanInStream(s) /\ ScanIsHonest(db, s) /\ ScanIsCurrent(db, s)
    BY <1>1 DEF MailInvariant, MailTypeOK
  <2>2. Reached(s) = s.progress
    BY DEF Reached
  <2>3. Finished(s.progress) /\ s.progress \in Progress
    BY <2>1 DEF ScanIsHonest, ScanInStream, Scan, Scanning
  <2>4. Through(s.progress, m)
    BY <2>3 DEF Finished, Through, Stream, Streams, Progress
  <2> QED BY <2>1, <2>2, <2>4 DEF ScanIsCurrent, Scanning
<1> QED BY <1>1, MailInvariantHolds, PTL
=============================================================================
