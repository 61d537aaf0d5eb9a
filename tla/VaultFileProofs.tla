--------------------------- MODULE VaultFileProofs ---------------------------
(***************************************************************************)
(* What module VaultFile promises, proved for every number of calls, keys, *)
(* failures and restarts: restores are exclusive, restored vaults stay,    *)
(* the audit chain verifies, a reset hits its workspace only, and the      *)
(* agent uses the key of the vault.                                        *)
(***************************************************************************)
EXTENDS VaultFile, FiniteSetTheorems, TLAPS

-----------------------------------------------------------------------------
(* Vaults whose chain is complete *)

Row == {"old", "change"}
Hash == Seq(Nat \X Row)
Link == [row : Nat, previous : Hash, hash : Hash]

\* Every row of the log has its link, in order.
Linked(v) ==
  /\ Len(v.chain) = Len(v.log)
  /\ \A i \in 1 .. Len(v.log) :
       /\ v.chain[i].row = i
       /\ v.chain[i].previous = IF i = 1 THEN NoHash ELSE v.chain[i - 1].hash
       /\ v.chain[i].hash = EntryHash(v.chain[i].previous, i, v.log[i])

SoundVaults == {v \in Vaults : Linked(v)}

\* What the program finds or keeps: vaults it wrote, or one from before the chain.
KeptVaults == SoundVaults \cup {OldVault}

-----------------------------------------------------------------------------
(* Types *)

Purpose == {"change", "key", "run", "export", "restore", "reset", "mail", "quit"}

\* Where a call that does something begins.
Begins == {<<"change", "working">>, <<"key", "encrypting">>, <<"key", "removing">>,
           <<"run", "creating">>, <<"export", "encrypting backup">>,
           <<"restore", "reading backup">>, <<"reset", "marking">>, <<"mail", "outside">>,
           <<"quit", "quitting">>}

Ended == {"saved", "unsaved"}

Pc == {"idle", "working", "encrypting", "removing", "creating", "encrypting backup",
       "reading backup", "marking", "outside", "quitting", "saving", "saved", "unsaved", "reloaded"}

CallRecord ==
  [pc : Pc, does : Purpose \cup {"nothing"}, gen : Nat, key : Key \cup {None},
   from : KeptVaults]

Owner == Call \cup {"launch", "run"}

Snapshots == [vault : SoundVaults, owner : Owner]

AgentKeys == Key \cup {LaunchKey, None}

RunRecord == [phase : {"none", "adapter", "delivering"}, gen : Nat, key : AgentKeys]

Types ==
  /\ made \in Nat /\ made >= 1
  /\ disk \in KeptVaults /\ db \in SoundVaults /\ backups \subseteq KeptVaults
  /\ marker \in 0 .. made /\ doomed \subseteq 1 .. made
  /\ app \in {"down", "marked", "unlinked", "reading", "opening", "up"}
  /\ queue \in Seq(Snapshots)
  /\ call \in [Call -> CallRecord]
  /\ inFlight \in Nat /\ restoring \in BOOLEAN /\ lease \in BOOLEAN /\ unsure \in BOOLEAN
  /\ unread \in BOOLEAN
  /\ run \in RunRecord /\ agentKey \in AgentKeys

-----------------------------------------------------------------------------
(* The file and what is on its way there *)

Made(v) == v.gen \in 1 .. made /\ v.workspace \in 1 .. made

\* From the file over the queue to the memory, generations only go up, and
\* the workspace stays.
Lined(v, q, w) ==
  /\ v = NoFile \/ v.workspace = w.workspace
  /\ v.gen <= w.gen
  /\ \A i \in 1 .. Len(q) :
       /\ v.gen <= q[i].vault.gen /\ q[i].vault.gen <= w.gen
       /\ q[i].vault.workspace = w.workspace
  /\ \A i, j \in 1 .. Len(q) : i < j => q[i].vault.gen <= q[j].vault.gen

Line == Lined(disk, queue, db)

Quiet ==
  /\ \A k \in Call : call[k] = Idle
  /\ inFlight = 0 /\ restoring = FALSE /\ ~ lease /\ run = NoRun

FileInv ==
  /\ disk = NoFile \/ Made(disk)
  /\ \A b \in backups : b.gen <= made
  /\ app \in {"down", "marked", "unlinked", "reading"} => queue = <<>> /\ db = NoFile
  /\ app \in {"opening", "up"} => Made(db) /\ Line
  /\ app = "opening" =>
       /\ queue = <<>> => disk = db
       /\ \A i \in 1 .. Len(queue) : queue[i].vault = db /\ queue[i].owner = "launch"
  /\ app = "up" =>
       /\ disk # NoFile /\ disk \in SoundVaults
       /\ \A i \in 1 .. Len(queue) : queue[i].owner # "launch"
  /\ app # "up" => Quiet

\* A reset: the marker is of the workspace in the file, and a workspace that is
\* to go is marked.
ResetInv ==
  /\ app = "unlinked" => disk = NoFile
  /\ app \in {"reading", "opening"} => marker = 0
  /\ marker # 0 /\ disk # NoFile => disk.workspace = marker
  /\ disk # NoFile /\ disk.workspace \in doomed => marker = disk.workspace
  /\ app = "opening" => db.workspace \notin doomed
  /\ \A k \in Call : Does(k, "reset") /\ call[k].pc \in {"saving"} \cup Ended => marker = db.workspace

-----------------------------------------------------------------------------
(* Calls *)

CallShape(k) ==
  \/ call[k] = Idle
  \/ /\ call[k].does \in Purpose
     /\ \/ <<call[k].does, call[k].pc>> \in Begins
        \/ call[k].pc \in {"saving"} \cup Ended
        \/ call[k].does = "restore" /\ call[k].pc = "reloaded"
     /\ call[k].pc = "removing" => call[k].key = None
     /\ call[k].from.gen <= made

CallInv ==
  /\ \A k \in Call : CallShape(k)
  /\ \A i \in 1 .. Len(queue) : queue[i].owner \in Call => call[queue[i].owner].pc = "saving"
  /\ \A i, j \in 1 .. Len(queue) : queue[i].owner \in Call /\ queue[i].owner = queue[j].owner => i = j
  /\ \A j, k \in Call : call[j].pc \in Ended /\ call[k].pc \in Ended => j = k

Counted(k) == Dispatched(k) /\ ~ Does(k, "restore")

GuardInv ==
  /\ inFlight = Cardinality({k \in Call : Counted(k)})
  /\ restoring = (\E k \in Call : Does(k, "restore"))
  /\ \A j, k \in Call : Does(j, "restore") /\ Does(k, "restore") => j = k
  /\ restoring => \A k \in Call : ~ Counted(k)
  /\ lease => restoring /\ run = NoRun
  /\ \A k \in Call : Does(k, "restore") /\ call[k].pc # "reading backup" => lease
  /\ \A k \in Call : Counted(k) => call[k].gen = db.gen
  /\ run # NoRun => run.gen = db.gen
  /\ run.phase = "none" => run = NoRun

-----------------------------------------------------------------------------
(* The agent's key *)

Fits(key, v) == key \in IF v.key = None \/ unread THEN {None, LaunchKey} ELSE {v.key}

KeyCall(k) == k \in Call /\ Does(k, "key")

KeyAt(i) == KeyCall(queue[i].owner)

\* The last change of the key that is being saved, or was, is the vault's key;
\* without any, and without a replaced vault, the agent's key is the vault's.
KeyQueued ==
  \A i \in 1 .. Len(queue) :
    KeyAt(i) => \/ call[queue[i].owner].key = db.key
                \/ \E j \in 1 .. Len(queue) : j > i /\ KeyAt(j)

KeySaved ==
  \A k \in Call :
    KeyCall(k) /\ call[k].pc \in Ended => \/ call[k].key = db.key
                                          \/ \E j \in 1 .. Len(queue) : KeyAt(j)

Untouched ==
  /\ \A k \in Call : Does(k, "restore") => call[k].pc \in {"reading backup", "reloaded"}
  /\ \A k \in Call : Does(k, "key") => call[k].pc \in {"encrypting", "removing"}

KeyUsed == app = "up" /\ ~ unsure /\ Untouched => Fits(agentKey, db)

KeyInv == KeyQueued /\ KeySaved /\ KeyUsed /\ (run.phase = "adapter" => run.key = agentKey)

VaultInv == Types /\ FileInv /\ ResetInv /\ CallInv /\ GuardInv /\ KeyInv

-----------------------------------------------------------------------------
(* The audit chain *)

LEMMA HashFacts ==
  ASSUME NEW h \in Hash, NEW i \in Nat, NEW e \in Row
  PROVE  EntryHash(h, i, e) \in Hash
BY DEF EntryHash, Hash

\* The fields of a vault.
LEMMA VaultFields ==
  ASSUME NEW v \in Vaults
  PROVE  /\ v.gen \in Nat /\ v.workspace \in Nat /\ v.key \in Key \cup {None}
         /\ v.log \in Seq(Row) /\ v.chain \in Seq(Link)
BY DEF Vaults, Row, Link, Hash

\* The identity, the workspace and the key do not matter to the chain.
LEMMA SameChain ==
  ASSUME NEW v \in SoundVaults, NEW u \in Vaults, u.log = v.log, u.chain = v.chain
  PROVE  u \in SoundVaults
BY DEF SoundVaults, Linked

LEMMA KeySound ==
  ASSUME NEW v \in SoundVaults, NEW key \in Key \cup {None}
  PROVE  LET u == [v EXCEPT !.key = key]
         IN  u \in SoundVaults /\ u.gen = v.gen /\ u.workspace = v.workspace /\ u.key = key
<1> DEFINE u == [v EXCEPT !.key = key]
<1>1. v \in Vaults
  BY DEF SoundVaults
<1>2. /\ u \in Vaults /\ u.gen = v.gen /\ u.workspace = v.workspace /\ u.key = key
      /\ u.log = v.log /\ u.chain = v.chain
  BY <1>1 DEF Vaults
<1> HIDE DEF u
<1>3. u \in SoundVaults
  BY <1>2, SameChain
<1> QED BY <1>2, <1>3 DEF u

LEMMA NoFileSound == NoFile \in SoundVaults
<1>1. Linked(NoFile)
  BY DEF NoFile, Linked
<1>2. NoFile \in Vaults
  BY DEF NoFile, Vaults
<1> QED BY <1>1, <1>2 DEF SoundVaults

\* A row and its link: appendAuditEntry keeps the chain.
LEMMA AppendedSound ==
  ASSUME NEW v \in SoundVaults, NEW e \in Row
  PROVE  LET u == Appended(v, e)
         IN  u \in SoundVaults /\ u.gen = v.gen /\ u.workspace = v.workspace /\ u.key = v.key
<1> DEFINE n == Len(v.log)
           hash == LastHash(v)
           link == [row |-> n + 1, previous |-> hash, hash |-> EntryHash(hash, n + 1, e)]
           log == Append(v.log, e)
           chain == Append(v.chain, link)
           u == Appended(v, e)
<1>1. /\ v \in Vaults /\ v.log \in Seq(Row) /\ v.chain \in Seq(Link)
      /\ n \in Nat /\ Len(v.chain) = n /\ Linked(v)
  <2>1. v \in Vaults /\ Linked(v)
    BY DEF SoundVaults
  <2>2. v.log \in Seq(Row) /\ v.chain \in Seq(Link)
    BY <2>1, VaultFields
  <2> QED BY <2>1, <2>2 DEF Linked
<1>2. hash = (IF n = 0 THEN NoHash ELSE v.chain[n].hash)
  BY <1>1 DEF LastHash
<1>3. hash \in Hash
  <2>1. CASE n = 0
    BY <2>1, <1>2 DEF NoHash, Hash
  <2>2. CASE n # 0
    <3>1. v.chain[n] \in Link
      BY <1>1, <2>2
    <3> QED BY <3>1, <2>2, <1>2 DEF Link
  <2> QED BY <2>1, <2>2
<1>4. u = [v EXCEPT !.log = log, !.chain = chain]
  BY <1>1 DEF Appended, Vaults
<1> HIDE DEF hash
<1>5. link \in Link /\ link.row = n + 1 /\ link.previous = hash /\ link.hash = EntryHash(hash, n + 1, e)
  BY <1>1, <1>3, HashFacts DEF Link
<1> HIDE DEF link
<1>6. log \in Seq(Row) /\ chain \in Seq(Link) /\ Len(log) = n + 1 /\ Len(chain) = n + 1
  BY <1>1, <1>5
<1>7. /\ log[n + 1] = e /\ chain[n + 1] = link
      /\ \A i \in 1 .. n : log[i] = v.log[i] /\ chain[i] = v.chain[i]
  BY <1>1, <1>5
<1> HIDE DEF log, chain
<1>8. /\ u \in Vaults /\ u.log = log /\ u.chain = chain
      /\ u.gen = v.gen /\ u.workspace = v.workspace /\ u.key = v.key
  BY <1>1, <1>4, <1>6 DEF Vaults, Row, Link, Hash
<1> HIDE DEF u
<1>9. Linked(u)
  <2> SUFFICES ASSUME NEW i \in 1 .. n + 1
               PROVE  /\ chain[i].row = i
                      /\ chain[i].previous = IF i = 1 THEN NoHash ELSE chain[i - 1].hash
                      /\ chain[i].hash = EntryHash(chain[i].previous, i, log[i])
    BY <1>6, <1>8 DEF Linked
  <2>1. CASE i = n + 1
    <3>1. n # 0 => chain[i - 1] = v.chain[n]
      BY <2>1, <1>1, <1>7
    <3> QED BY <3>1, <2>1, <1>1, <1>2, <1>5, <1>7
  <2>2. CASE i \in 1 .. n
    <3>1. chain[i] = v.chain[i] /\ log[i] = v.log[i] /\ (i # 1 => chain[i - 1] = v.chain[i - 1])
      BY <2>2, <1>1, <1>7
    <3> QED BY <3>1, <2>2, <1>1 DEF Linked
  <2> QED BY <2>1, <2>2, <1>1
<1> QED BY <1>8, <1>9 DEF u, SoundVaults

LEMMA LoggedSound ==
  ASSUME NEW v \in SoundVaults
  PROVE  LET u == Logged(v)
         IN  u \in SoundVaults /\ u.gen = v.gen /\ u.workspace = v.workspace /\ u.key = v.key
BY AppendedSound DEF Logged, Row

\* verifyAuditChain agrees.
LEMMA SoundVerified == ASSUME NEW v \in SoundVaults PROVE Verified(v)
<1>1. v \in Vaults /\ Linked(v)
  BY DEF SoundVaults
<1>2. v.log \in Seq(Row) /\ v.chain \in Seq(Link) /\ Len(v.chain) = Len(v.log)
  BY <1>1, VaultFields DEF Linked
<1>3. DOMAIN v.chain = 1 .. Len(v.log)
  BY <1>2
<1>4. ASSUME NEW i \in 1 .. Len(v.log)
      PROVE  /\ v.chain[i].previous = IF i = 1 THEN NoHash ELSE v.chain[i - 1].hash
             /\ v.chain[i].hash = EntryHash(v.chain[i].previous, v.chain[i].row, v.log[v.chain[i].row])
  BY <1>1 DEF Linked
<1> QED BY <1>2, <1>3, <1>4 DEF Verified

LEMMA OldNotVerified == ~ Verified(OldVault)
BY DEF Verified, OldVault, NoFile

-----------------------------------------------------------------------------
(* The back-fill *)

\* A vault whose chain is complete is opened as it is.
LEMMA SoundBackfilled ==
  ASSUME NEW v \in SoundVaults
  PROVE  Backfilled(v) = v
<1>1. v \in Vaults /\ Linked(v)
  BY DEF SoundVaults
<1>2. v.log \in Seq(Row) /\ v.chain \in Seq(Link) /\ Len(v.chain) = Len(v.log)
  BY <1>1, VaultFields DEF Linked
<1> DEFINE rows == {row \in DOMAIN v.log : \A i \in DOMAIN v.chain : v.chain[i].row # row}
           s == Unchained(v)
<1>3. rows = {}
  BY <1>1, <1>2 DEF Linked
<1>4. Cardinality(rows) = 0
  BY <1>3, FS_EmptySet
<1>5. s = CHOOSE t \in [1 .. 0 -> {}] : \A i, j \in DOMAIN t : i < j => t[i] < t[j]
  BY <1>3, <1>4 DEF Unchained
<1>6. s = <<>>
  <2> DEFINE g == [x \in 1 .. 0 |-> x]
  <2>1. g \in [1 .. 0 -> {}] /\ \A i, j \in DOMAIN g : i < j => g[i] < g[j]
    OBVIOUS
  <2> HIDE DEF g, s
  <2>2. s \in [1 .. 0 -> {}]
    BY <1>5, <2>1
  <2> QED BY <2>2
<1> DEFINE Upto(n) == LastHash(v) \o [i \in 1 .. n |-> <<s[i], v.log[s[i]]>>]
           added == [n \in 1 .. Len(s) |->
                       [row |-> s[n], previous |-> Upto(n - 1), hash |-> Upto(n)]]
<1>7. Backfilled(v) = [v EXCEPT !.chain = v.chain \o added]
  BY <1>1 DEF Backfilled, Vaults
<1>8. added = <<>>
  <2> HIDE DEF s
  <2>1. Len(s) = 0
    BY <1>6
  <2> QED BY <2>1
<1> HIDE DEF added
<1>9. v.chain \o added = v.chain
  BY <1>2, <1>8
<1> QED BY <1>1, <1>7, <1>9 DEF Vaults

LEMMA OldFields ==
  /\ OldVault.gen = 1 /\ OldVault.workspace = 1 /\ OldVault.key = None
  /\ OldVault.log = <<"old">> /\ OldVault.chain = <<>> /\ OldVault \in Vaults
<1>1. NoFile \in Vaults /\ NoFile.key = None /\ NoFile.chain = <<>>
  BY NoFileSound DEF SoundVaults, NoFile
<1>2. <<"old">> \in Seq({"old", "change"})
  OBVIOUS
<1> QED BY <1>1, <1>2 DEF OldVault, Vaults

\* A vault from before the chain has one afterwards.
LEMMA OldBackfilled ==
  LET u == Backfilled(OldVault)
  IN  u \in SoundVaults /\ u.gen = 1 /\ u.workspace = 1 /\ u.key = None
<1> DEFINE v == OldVault
           rows == {row \in DOMAIN v.log : \A i \in DOMAIN v.chain : v.chain[i].row # row}
           s == Unchained(v)
<1>1. /\ v.gen = 1 /\ v.workspace = 1 /\ v.key = None /\ v.log = <<"old">> /\ v.chain = <<>>
      /\ v \in Vaults
  BY OldFields
<1> HIDE DEF v
<1>2. rows = {1}
  <2>1. DOMAIN v.log = {1} /\ DOMAIN v.chain = {}
    BY <1>1
  <2> QED BY <2>1
<1>3. Cardinality(rows) = 1
  BY <1>2, FS_Singleton
<1>4. s = CHOOSE t \in [1 .. 1 -> {1}] : \A i, j \in DOMAIN t : i < j => t[i] < t[j]
  BY <1>2, <1>3 DEF Unchained, v
<1>5. Len(s) = 1 /\ s[1] = 1
  <2> DEFINE g == [x \in 1 .. 1 |-> x]
  <2>1. g \in [1 .. 1 -> {1}] /\ \A i, j \in DOMAIN g : i < j => g[i] < g[j]
    OBVIOUS
  <2> HIDE DEF g, s
  <2>2. s \in [1 .. 1 -> {1}]
    BY <1>4, <2>1
  <2> QED BY <2>2
<1> DEFINE Upto(n) == LastHash(v) \o [i \in 1 .. n |-> <<s[i], v.log[s[i]]>>]
           added == [n \in 1 .. Len(s) |->
                       [row |-> s[n], previous |-> Upto(n - 1), hash |-> Upto(n)]]
           u == Backfilled(v)
<1>6. u = [v EXCEPT !.chain = v.chain \o added]
  BY <1>1 DEF Backfilled, Vaults
<1> HIDE DEF s
<1>7. LastHash(v) = <<>>
  BY <1>1 DEF LastHash, NoHash
<1>8. Upto(0) = <<>> /\ Upto(1) = << <<1, "old">> >>
  BY <1>1, <1>5, <1>7
<1>9. added = << [row |-> 1, previous |-> <<>>, hash |-> << <<1, "old">> >>] >>
  <2> HIDE DEF Upto
  <2> QED BY <1>5, <1>8
<1> HIDE DEF added
<1>10. v.chain \o added = << [row |-> 1, previous |-> <<>>, hash |-> << <<1, "old">> >>] >>
  BY <1>1, <1>9
<1> DEFINE chain == << [row |-> 1, previous |-> <<>>, hash |-> << <<1, "old">> >>] >>
<1>11. chain \in Seq(Link) /\ Len(chain) = 1 /\ chain[1].row = 1 /\ chain[1].previous = <<>>
       /\ chain[1].hash = << <<1, "old">> >>
  <2>1. << <<1, "old">> >> \in Hash /\ <<>> \in Hash
    BY DEF Hash, Row
  <2> QED BY <2>1 DEF Link
<1>12. u = [v EXCEPT !.chain = chain]
  BY <1>6, <1>10
<1> HIDE DEF chain, u
<1>13. u \in Vaults /\ u.log = <<"old">> /\ u.chain = chain
       /\ u.gen = 1 /\ u.workspace = 1 /\ u.key = None
  BY <1>1, <1>11, <1>12 DEF Vaults, Link, Hash, Row
<1>14. Linked(u)
  <2>1. Len(u.log) = 1 /\ u.log[1] = "old"
    BY <1>13
  <2>2. EntryHash(<<>>, 1, "old") = << <<1, "old">> >>
    BY DEF EntryHash
  <2> QED BY <1>11, <1>13, <2>1, <2>2 DEF Linked, NoHash
<1> QED BY <1>13, <1>14 DEF SoundVaults, u, v

LEMMA OwnSound == OwnVault \in SoundVaults /\ OwnVault.gen = 1 /\ OwnVault.workspace = 1
<1> DEFINE own == CHOOSE key \in Key : TRUE
           b == Backfilled(OldVault)
<1>1. own \in Key \cup {None}
  BY SomeKey
<1>2. OwnVault = [b EXCEPT !.key = own]
  BY DEF OwnVault
<1>3. b \in SoundVaults /\ b.gen = 1 /\ b.workspace = 1
  BY OldBackfilled
<1> HIDE DEF b, own
<1> QED BY <1>1, <1>2, <1>3, KeySound

LEMMA FreshSound ==
  ASSUME made \in Nat
  PROVE  /\ Fresh \in SoundVaults /\ Fresh.gen = made + 1 /\ Fresh.workspace = made + 1
         /\ Fresh.key = None
<1> DEFINE n == made + 1
<1>1. NoFile \in SoundVaults /\ NoFile \in Vaults /\ n \in Nat /\ NoFile.key = None
  BY NoFileSound DEF SoundVaults, NoFile
<1>2. Fresh = [NoFile EXCEPT !.gen = n, !.workspace = n]
  BY DEF Fresh
<1> HIDE DEF n
<1>3. /\ Fresh \in Vaults /\ Fresh.gen = n /\ Fresh.workspace = n /\ Fresh.key = None
      /\ Fresh.log = NoFile.log /\ Fresh.chain = NoFile.chain
  BY <1>1, <1>2 DEF Vaults
<1> QED BY <1>1, <1>3, SameChain DEF n

LEMMA RestoredSound ==
  ASSUME made \in Nat, db \in SoundVaults, NEW v \in SoundVaults
  PROVE  /\ Restored(v) \in SoundVaults /\ Restored(v).gen = made + 1
         /\ Restored(v).workspace = db.workspace
<1> DEFINE n == made + 1
           u == [v EXCEPT !.gen = n, !.workspace = db.workspace]
<1>1. n \in Nat /\ db.workspace \in Nat /\ v \in Vaults
  BY VaultFields DEF SoundVaults
<1> HIDE DEF n
<1>2. /\ u \in Vaults /\ u.gen = n /\ u.workspace = db.workspace
      /\ u.log = v.log /\ u.chain = v.chain
  BY <1>1 DEF Vaults
<1>3. Restored(v) = Logged(u)
  BY DEF Restored, n
<1> HIDE DEF u
<1>4. u \in SoundVaults
  BY <1>2, SameChain
<1> QED BY <1>2, <1>3, <1>4, LoggedSound DEF n

LEMMA KeptFields ==
  ASSUME NEW v \in KeptVaults
  PROVE  /\ v \in Vaults /\ v.gen \in Nat /\ v.workspace \in Nat /\ v.key \in Key \cup {None}
         /\ Opened(v) \in SoundVaults /\ Opened(v).gen = v.gen
         /\ Opened(v).workspace = v.workspace /\ Opened(v).key = v.key
         /\ (Verified(v) => v \in SoundVaults)
<1>1. CASE v \in SoundVaults
  BY <1>1, SoundBackfilled, VaultFields DEF SoundVaults, Opened
<1>2. CASE v = OldVault
  <2>1. v.gen = 1 /\ v.workspace = 1 /\ v.key = None /\ v \in Vaults
    BY <1>2, OldFields
  <2> QED BY <1>2, <2>1, OldBackfilled, OldNotVerified DEF Opened
<1> QED BY <1>1, <1>2 DEF KeptVaults

-----------------------------------------------------------------------------
(* One call *)

LEMMA ShapeFacts ==
  ASSUME NEW k \in Call, call[k] \in CallRecord, CallShape(k)
  PROVE  /\ Busy(k) <=> call[k].does \in Purpose
         /\ ~ Busy(k) => call[k] = Idle /\ call[k].does = "nothing"
         /\ call[k].pc = "working" => call[k].does = "change"
         /\ call[k].pc \in {"encrypting", "removing"} => call[k].does = "key"
         /\ call[k].pc = "creating" => call[k].does = "run"
         /\ call[k].pc = "encrypting backup" => call[k].does = "export"
         /\ call[k].pc = "reading backup" => call[k].does = "restore"
         /\ call[k].pc = "marking" => call[k].does = "reset"
         /\ call[k].pc = "outside" => call[k].does = "mail"
         /\ call[k].pc = "quitting" => call[k].does = "quit"
         /\ call[k].pc = "reloaded" => call[k].does = "restore"
         /\ call[k].from \in KeptVaults
         /\ call[k].from.gen <= made \/ call[k] = Idle
<1> call[k].from \in KeptVaults
  BY DEF CallRecord
<1>1. CASE call[k] = Idle
  BY <1>1 DEF Idle, Busy, Purpose
<1>2. CASE call[k] # Idle
  <2>1. /\ call[k].does \in Purpose
        /\ \/ <<call[k].does, call[k].pc>> \in Begins
           \/ call[k].pc \in {"saving"} \cup Ended
           \/ call[k].does = "restore" /\ call[k].pc = "reloaded"
        /\ call[k].from.gen <= made
    BY <1>2 DEF CallShape
  <2> QED BY <1>2, <2>1 DEF Busy, Purpose, Begins, Ended, CallRecord
<1> QED BY <1>1, <1>2

LEMMA CallMoves ==
  ASSUME call \in [Call -> CallRecord], NEW k \in Call, NEW pc \in Pc, call' = Goto(k, pc)
  PROVE  /\ call' \in [Call -> CallRecord]
         /\ call'[k].pc = pc /\ call'[k].does = call[k].does /\ call'[k].gen = call[k].gen
         /\ call'[k].key = call[k].key /\ call'[k].from = call[k].from
         /\ \A j \in Call : j # k => call'[j] = call[j]
<1> DEFINE new == [call[k] EXCEPT !.pc = pc]
<1>1. /\ new \in CallRecord /\ new.pc = pc /\ new.does = call[k].does /\ new.gen = call[k].gen
      /\ new.key = call[k].key /\ new.from = call[k].from
  BY DEF CallRecord
<1>2. call' = [call EXCEPT ![k] = new]
  BY DEF Goto
<1> HIDE DEF new
<1> QED BY <1>1, <1>2

LEMMA IdleFacts ==
  /\ Idle \in CallRecord /\ Idle.pc = "idle" /\ Idle.does = "nothing" /\ Idle.from = NoFile
  /\ Idle.from.gen = 0
BY NoFileSound DEF Idle, CallRecord, Pc, KeptVaults, NoFile

LEMMA CallEnds ==
  ASSUME call \in [Call -> CallRecord], NEW k \in Call, call' = [call EXCEPT ![k] = Idle]
  PROVE  /\ call' \in [Call -> CallRecord] /\ call'[k] = Idle
         /\ \A j \in Call : j # k => call'[j] = call[j]
BY IdleFacts

-----------------------------------------------------------------------------
(* A call begins *)

LEMMA BeginFacts ==
  ASSUME VaultInv, NEW k \in Call, NEW what \in Purpose, NEW pc, <<what, pc>> \in Begins,
         NEW key \in Key \cup {None}, NEW from \in KeptVaults, Begin(k, what, pc, key, from)
  PROVE  /\ app = "up" /\ call[k] = Idle /\ pc \in Pc \ ({"idle", "saving", "reloaded"} \cup Ended)
         /\ call' \in [Call -> CallRecord]
         /\ call'[k].pc = pc /\ call'[k].does = what /\ call'[k].gen = db.gen
         /\ call'[k].key = key /\ call'[k].from = from
         /\ \A j \in Call : j # k => call'[j] = call[j]
<1> DEFINE new == [pc |-> pc, does |-> what, gen |-> db.gen, key |-> key, from |-> from]
<1>1. app = "up" /\ ~ Busy(k) /\ call' = [call EXCEPT ![k] = new]
  BY DEF Begin
<1>2. call \in [Call -> CallRecord] /\ db \in SoundVaults /\ CallShape(k)
  BY DEF VaultInv, Types, CallInv
<1>3. call[k] = Idle
  BY <1>1, <1>2, ShapeFacts
<1>4. pc \in Pc \ ({"idle", "saving", "reloaded"} \cup Ended)
  BY DEF Begins, Pc, Ended, Purpose
<1>5. db.gen \in Nat
  BY <1>2, KeptFields DEF KeptVaults
<1>6. new \in CallRecord
  BY <1>4, <1>5 DEF CallRecord
<1>7. new.pc = pc /\ new.does = what /\ new.gen = db.gen /\ new.key = key /\ new.from = from
  OBVIOUS
<1> HIDE DEF new
<1> QED BY <1>1, <1>2, <1>3, <1>4, <1>6, <1>7


\* A call that begins, with the flags of its kind.
Begun(k, what, pc, key, from) ==
  /\ what \in Purpose /\ <<what, pc>> \in Begins /\ key \in Key \cup {None}
  /\ from \in KeptVaults /\ from.gen <= made
  /\ pc = "removing" => key = None
  /\ Begin(k, what, pc, key, from)
  /\ UNCHANGED <<disk, marker, backups, doomed, app, db, queue, run, agentKey, unsure, unread, made>>
  /\ \/ what \in Outsider /\ UNCHANGED guards
     \/ /\ what = "restore" /\ ~ restoring /\ inFlight = 0
        /\ restoring' = TRUE /\ lease' = (run = NoRun) /\ UNCHANGED inFlight
     \/ /\ what \notin Outsider \cup {"restore"} /\ ~ restoring
        /\ inFlight' = inFlight + 1 /\ UNCHANGED <<restoring, lease>>

LEMMA BegunFacts ==
  ASSUME VaultInv, NEW k \in Call, NEW what, NEW pc, NEW key, NEW from,
         Begun(k, what, pc, key, from)
  PROVE  /\ app = "up" /\ call[k] = Idle /\ pc \in Pc \ ({"idle", "saving", "reloaded"} \cup Ended)
         /\ call' \in [Call -> CallRecord]
         /\ call'[k].pc = pc /\ call'[k].does = what /\ call'[k].gen = db.gen
         /\ call'[k].key = key /\ call'[k].from = from
         /\ \A j \in Call : j # k => call'[j] = call[j]
BY BeginFacts DEF Begun

LEMMA BegunTypes ==
  ASSUME VaultInv, NEW k \in Call, NEW what, NEW pc, NEW key, NEW from,
         Begun(k, what, pc, key, from)
  PROVE  Types' /\ FileInv'
<1>1. call' \in [Call -> CallRecord] /\ app = "up"
  BY BegunFacts
<1>2. /\ UNCHANGED <<disk, marker, backups, doomed, app, db, queue, run, agentKey, unsure, unread, made>>
      /\ inFlight' \in {inFlight, inFlight + 1}
  BY DEF Begun, guards
<1>3. Types
  BY DEF VaultInv
<1>4. inFlight' \in Nat /\ restoring' \in BOOLEAN /\ lease' \in BOOLEAN
  <2>1. inFlight \in Nat /\ restoring \in BOOLEAN /\ lease \in BOOLEAN
    BY <1>3 DEF Types
  <2>2. inFlight' \in Nat
    BY <1>2, <2>1
  <2>3. \/ restoring' = restoring /\ lease' = lease
        \/ restoring' = TRUE /\ lease' = (run = NoRun)
    BY Zenon DEF Begun, guards
  <2>4. CASE run = NoRun
    BY <2>1, <2>2, <2>3, <2>4
  <2>5. CASE run # NoRun
    BY <2>1, <2>2, <2>3, <2>5
  <2> QED BY <2>4, <2>5
<1>5. Types'
  BY <1>1, <1>2, <1>3, <1>4 DEF Types
<1>6. FileInv'
  BY <1>1, <1>2 DEF VaultInv, FileInv, Made, Line
<1> QED BY <1>5, <1>6

LEMMA BegunCalls ==
  ASSUME VaultInv, NEW k \in Call, NEW what, NEW pc, NEW key, NEW from,
         Begun(k, what, pc, key, from)
  PROVE  ResetInv' /\ CallInv'
<1>1. /\ app = "up" /\ call[k] = Idle /\ pc \in Pc \ ({"idle", "saving", "reloaded"} \cup Ended)
      /\ call'[k].pc = pc /\ call'[k].does = what /\ call'[k].key = key /\ call'[k].from = from
      /\ \A j \in Call : j # k => call'[j] = call[j]
  BY BegunFacts
<1>2. /\ UNCHANGED <<disk, marker, doomed, app, db, queue, made>>
      /\ what \in Purpose /\ <<what, pc>> \in Begins /\ from.gen <= made
      /\ pc = "removing" => key = None
  BY DEF Begun
<1>3. ResetInv'
  BY <1>1, <1>2 DEF VaultInv, ResetInv, Does
<1>4. \A j \in Call : CallShape(j)'
  <2>1. CallShape(k)'
    BY <1>1, <1>2 DEF CallShape
  <2>2. ASSUME NEW j \in Call, j # k PROVE CallShape(j)'
    BY <1>1, <1>2, <2>2 DEF VaultInv, CallInv, CallShape
  <2> QED BY <2>1, <2>2
<1>5. \A i \in 1 .. Len(queue) : queue[i].owner \in Call => queue[i].owner # k
  BY <1>1, IdleFacts DEF VaultInv, CallInv
<1>6. CallInv'
  BY <1>1, <1>2, <1>4, <1>5 DEF VaultInv, CallInv, Ended
<1> QED BY <1>3, <1>6

LEMMA Counts ==
  ASSUME NEW S \in SUBSET Call, NEW k \in Call
  PROVE  /\ IsFiniteSet(S) /\ Cardinality(S) \in Nat
         /\ k \notin S => Cardinality(S \cup {k}) = Cardinality(S) + 1
         /\ k \in S => Cardinality(S \ {k}) = Cardinality(S) - 1
         /\ Cardinality(S) = 0 <=> S = {}
<1>1. IsFiniteSet(S)
  BY CallsAreFew, FS_Subset
<1>2. Cardinality(S) \in Nat
  BY <1>1, FS_CardinalityType
<1>3. k \notin S => Cardinality(S \cup {k}) = Cardinality(S) + 1
  BY <1>1, FS_AddElement
<1>4. k \in S => Cardinality(S \ {k}) = Cardinality(S) - 1
  BY <1>1, FS_RemoveElement
<1>5. Cardinality(S) = 0 <=> S = {}
  BY <1>1, FS_EmptySet
<1> QED BY <1>1, <1>2, <1>3, <1>4, <1>5

LEMMA BegunGuards ==
  ASSUME VaultInv, NEW k \in Call, NEW what, NEW pc, NEW key, NEW from,
         Begun(k, what, pc, key, from)
  PROVE  GuardInv'
<1> DEFINE S == {j \in Call : Counted(j)}
           T == {j \in Call : Counted(j)'}
<1>1. /\ app = "up" /\ call[k] = Idle /\ pc \in Pc \ ({"idle", "saving", "reloaded"} \cup Ended)
      /\ call'[k].pc = pc /\ call'[k].does = what /\ call'[k].gen = db.gen
      /\ \A j \in Call : j # k => call'[j] = call[j]
  BY BegunFacts
<1>2. UNCHANGED <<db, run>> /\ what \in Purpose /\ <<what, pc>> \in Begins
  BY DEF Begun
<1>3. /\ \A j \in Call : j # k => (Counted(j)' <=> Counted(j)) /\ (Does(j, "restore")' <=> Does(j, "restore"))
      /\ ~ Counted(k) /\ ~ Does(k, "restore")
      /\ Counted(k)' <=> what \notin Outsider \cup {"restore"}
      /\ Does(k, "restore")' <=> what = "restore"
  BY <1>1, IdleFacts DEF Counted, Dispatched, Does, Busy
<1>4. GuardInv
  BY DEF VaultInv
<1>5. inFlight = Cardinality(S) /\ k \notin S
  BY <1>3, <1>4 DEF GuardInv
<1>6. CASE what \in Outsider /\ UNCHANGED guards
  <2>1. T = S /\ UNCHANGED <<inFlight, restoring, lease>> /\ what # "restore"
    BY <1>3, <1>6 DEF guards, Outsider
  <2>2. inFlight' = Cardinality(T)
    BY <1>5, <2>1
  <2> QED BY <1>1, <1>2, <1>3, <1>4, <2>1, <2>2 DEF GuardInv, Counted, Dispatched, Does
<1>7. CASE /\ what = "restore" /\ ~ restoring /\ inFlight = 0
           /\ restoring' = TRUE /\ lease' = (run = NoRun) /\ UNCHANGED inFlight
  <2>1. T = S
    BY <1>3, <1>7
  <2>2. inFlight' = Cardinality(T)
    BY <1>5, <1>7, <2>1
  <2>3. S = {}
    BY <1>5, <1>7, Counts
  <2>4. /\ \A j \in Call : ~ Counted(j)'
        /\ \A j \in Call : Does(j, "restore")' <=> j = k
    BY <1>3, <1>4, <1>7, <2>1, <2>3 DEF GuardInv
  <2>5. /\ restoring' = (\E j \in Call : Does(j, "restore")')
        /\ \A i, j \in Call : Does(i, "restore")' /\ Does(j, "restore")' => i = j
    BY <1>7, <2>4
  <2>6. \A j \in Call : Does(j, "restore")' /\ call'[j].pc # "reading backup" => lease'
    BY <1>1, <1>2, <1>7, <2>4 DEF Begins
  <2> QED BY <1>1, <1>2, <1>4, <1>7, <2>2, <2>4, <2>5, <2>6 DEF GuardInv
<1>8. CASE /\ what \notin Outsider \cup {"restore"} /\ ~ restoring
           /\ inFlight' = inFlight + 1 /\ UNCHANGED <<restoring, lease>>
  <2>1. T = S \cup {k}
    BY <1>3, <1>8
  <2>2. inFlight' = Cardinality(T)
    BY <1>5, <1>8, <2>1, Counts
  <2>3. /\ \A j \in Call : ~ Does(j, "restore")'
        /\ restoring' = FALSE /\ ~ lease'
    BY <1>3, <1>4, <1>8 DEF GuardInv
  <2>4. \A j \in Call : Counted(j)' => call'[j].gen = db'.gen
    BY <1>1, <1>2, <1>3, <1>4 DEF GuardInv
  <2>5. restoring' = \E j \in Call : Does(j, "restore")'
    BY <2>3
  <2> QED BY <1>2, <1>4, <2>2, <2>3, <2>4, <2>5 DEF GuardInv
<1> QED BY <1>6, <1>7, <1>8 DEF Begun

LEMMA BegunKey ==
  ASSUME VaultInv, NEW k \in Call, NEW what, NEW pc, NEW key, NEW from,
         Begun(k, what, pc, key, from)
  PROVE  KeyInv'
<1>1. /\ call[k] = Idle /\ pc \in Pc \ ({"idle", "saving", "reloaded"} \cup Ended)
      /\ call'[k].pc = pc /\ call'[k].does = what
      /\ \A j \in Call : j # k => call'[j] = call[j]
  BY BegunFacts
<1>2. UNCHANGED <<db, queue, run, agentKey, unsure, unread, app>> /\ <<what, pc>> \in Begins
  BY DEF Begun
<1>3. KeyInv /\ \A i \in 1 .. Len(queue) : queue[i].owner \in Call => queue[i].owner # k
  BY <1>1, IdleFacts DEF VaultInv, CallInv
<1>4. \A i \in 1 .. Len(queue) : KeyAt(i)' <=> KeyAt(i)
  BY <1>1, <1>2, <1>3 DEF KeyCall, KeyAt, Does
<1>5. /\ \A j \in Call : j # k => (KeyCall(j)' <=> KeyCall(j)) /\ (Does(j, "restore")' <=> Does(j, "restore"))
      /\ ~ KeyCall(k) /\ ~ Does(k, "restore")
      /\ KeyCall(k)' => pc \in {"encrypting", "removing"}
      /\ Does(k, "restore")' => pc = "reading backup"
  BY <1>1, <1>2, IdleFacts DEF KeyCall, KeyAt, Does, Begins
<1>6. KeyQueued'
  <2>1. \A i \in 1 .. Len(queue) : KeyAt(i) => call'[queue[i].owner] = call[queue[i].owner]
    BY <1>1, <1>3 DEF KeyCall, KeyAt
  <2> QED BY <1>2, <1>3, <1>4, <2>1 DEF KeyInv, KeyQueued
<1>7. KeySaved'
  <2>1. ASSUME NEW j \in Call, KeyCall(j)', call'[j].pc \in Ended
        PROVE  j # k /\ call'[j] = call[j] /\ KeyCall(j)
    BY <1>1, <1>5, <2>1
  <2> QED BY <1>2, <1>3, <1>4, <2>1 DEF KeyInv, KeySaved
<1>8. KeyUsed'
  <2>1. Untouched' => Untouched
    BY <1>1, <1>5, IdleFacts DEF Untouched, Does
  <2> QED BY <1>2, <1>3, <2>1 DEF KeyInv, KeyUsed, Fits
<1> QED BY <1>2, <1>3, <1>6, <1>7, <1>8 DEF KeyInv

LEMMA BegunKeeps ==
  ASSUME VaultInv, NEW k \in Call, NEW what, NEW pc, NEW key, NEW from,
         Begun(k, what, pc, key, from)
  PROVE  VaultInv'
BY BegunTypes, BegunCalls, BegunGuards, BegunKey DEF VaultInv


-----------------------------------------------------------------------------
(* A call ends *)

\* What the finally block of a call leaves alone.
Released(k) ==
  /\ Busy(k) /\ call[k].pc # "saving"
  /\ Finally(k)
  /\ UNCHANGED <<disk, app, db, queue, backups, made>>

\* The run after the call: the same one, or one that starts on the vault.
RunKept ==
  \/ run' = run
  \/ /\ run' \in RunRecord /\ run'.phase = "adapter" /\ run'.gen = db.gen
     /\ run'.key = agentKey /\ ~ lease

LEMMA ReleasedFacts ==
  ASSUME VaultInv, NEW k \in Call, Released(k)
  PROVE  /\ app = "up" /\ call[k] # Idle /\ call[k].does \in Purpose
         /\ call' \in [Call -> CallRecord] /\ call'[k] = Idle
         /\ \A j \in Call : j # k => call'[j] = call[j]
         /\ \A i \in 1 .. Len(queue) : queue[i].owner # k
<1>1. Busy(k) /\ call[k].pc # "saving" /\ call' = [call EXCEPT ![k] = Idle]
  BY DEF Released, Finally
<1>2. call \in [Call -> CallRecord] /\ CallShape(k)
  BY DEF VaultInv, Types, CallInv
<1>3. call[k] # Idle /\ call[k].does \in Purpose
  BY <1>1, <1>2, ShapeFacts, IdleFacts DEF Busy
<1>4. app = "up"
  BY <1>3 DEF VaultInv, FileInv, Quiet
<1>5. \A i \in 1 .. Len(queue) : queue[i].owner # k
  BY <1>1 DEF VaultInv, CallInv
<1> QED BY <1>1, <1>2, <1>3, <1>4, <1>5, CallEnds

LEMMA ReleasedCalls ==
  ASSUME VaultInv, NEW k \in Call, Released(k)
  PROVE  FileInv' /\ CallInv'
<1>1. /\ app = "up" /\ call'[k] = Idle
      /\ \A j \in Call : j # k => call'[j] = call[j]
      /\ \A i \in 1 .. Len(queue) : queue[i].owner # k
  BY ReleasedFacts
<1>2. UNCHANGED <<disk, app, db, queue, backups, made>>
  BY DEF Released
<1>3. FileInv'
  BY <1>1, <1>2 DEF VaultInv, FileInv, Made, Line
<1>4. \A j \in Call : CallShape(j)'
  <2>1. CallShape(k)'
    BY <1>1 DEF CallShape, Idle
  <2>2. ASSUME NEW j \in Call, j # k PROVE CallShape(j)'
    BY <1>1, <1>2, <2>2 DEF VaultInv, CallInv, CallShape
  <2> QED BY <2>1, <2>2
<1>5. CallInv'
  BY <1>1, <1>2, <1>4, IdleFacts DEF VaultInv, CallInv, Ended
<1> QED BY <1>3, <1>5

LEMMA ReleasedGuards ==
  ASSUME VaultInv, NEW k \in Call, Released(k), RunKept
  PROVE  /\ GuardInv'
         /\ inFlight' \in Nat /\ restoring' \in BOOLEAN /\ lease' \in BOOLEAN
<1> DEFINE S == {j \in Call : Counted(j)}
           T == {j \in Call : Counted(j)'}
<1>1. /\ app = "up" /\ call[k].does \in Purpose /\ call'[k] = Idle
      /\ \A j \in Call : j # k => call'[j] = call[j]
  BY ReleasedFacts
<1>2. /\ \A j \in Call : j # k => (Counted(j)' <=> Counted(j)) /\ (Does(j, "restore")' <=> Does(j, "restore"))
      /\ ~ Counted(k)' /\ ~ Does(k, "restore")'
  BY <1>1, IdleFacts DEF Counted, Dispatched, Does, Busy
<1>3. Counted(k) <=> call[k].does \notin Outsider \cup {"restore"}
  BY <1>1 DEF Released, Counted, Dispatched, Does
<1>4. GuardInv /\ db' = db /\ inFlight \in Nat /\ restoring \in BOOLEAN /\ lease \in BOOLEAN
  BY DEF VaultInv, Types, Released
<1>5. inFlight = Cardinality(S)
  BY <1>4 DEF GuardInv
<1>6. \A j \in Call : Counted(j)' => call'[j].gen = db'.gen
  BY <1>1, <1>2, <1>4 DEF GuardInv
<1>7. \A i, j \in Call : Does(i, "restore")' /\ Does(j, "restore")' => i = j
  BY <1>2, <1>4 DEF GuardInv
<1>8. /\ run' # NoRun => run'.gen = db'.gen
      /\ run'.phase = "none" => run' = NoRun
      /\ run' = run \/ ~ lease
  BY <1>4 DEF GuardInv, RunKept
<1>9. CASE Does(k, "restore")
  <2>1. restoring' = FALSE /\ lease' = FALSE /\ inFlight' = inFlight
    BY <1>9 DEF Released, Finally
  <2>2. T = S
    BY <1>2, <1>3, <1>9 DEF Does
  <2>3. \A j \in Call : ~ Does(j, "restore")'
    BY <1>2, <1>4, <1>9 DEF GuardInv
  <2>4. restoring' = \E j \in Call : Does(j, "restore")'
    BY <2>1, <2>3
  <2>5. inFlight' = Cardinality(T)
    BY <1>5, <2>1, <2>2
  <2>6. GuardInv'
    BY <1>6, <1>7, <1>8, <2>1, <2>3, <2>4, <2>5 DEF GuardInv
  <2> QED BY <1>4, <2>1, <2>6
<1>10. CASE ~ Does(k, "restore")
  <2>1. /\ restoring' = restoring /\ lease' = lease
        /\ inFlight' = IF call[k].does \in Outsider THEN inFlight ELSE inFlight - 1
    BY <1>10 DEF Released, Finally
  <2>2. inFlight' = Cardinality(T) /\ inFlight' \in Nat
    <3>1. CASE call[k].does \in Outsider
      <4>1. T = S
        BY <1>2, <1>3, <3>1
      <4> QED BY <1>4, <1>5, <2>1, <3>1, <4>1
    <3>2. CASE call[k].does \notin Outsider
      <4>1. T = S \ {k} /\ k \in S
        BY <1>2, <1>3, <1>10, <3>2 DEF Does
      <4>2. Cardinality(T) = Cardinality(S) - 1
        BY <4>1, Counts
      <4>3. Cardinality(T) \in Nat
        BY Counts
      <4> QED BY <1>5, <2>1, <3>2, <4>2, <4>3
    <3> QED BY <3>1, <3>2
  <2>3. restoring' = \E j \in Call : Does(j, "restore")'
    BY <1>2, <1>4, <1>10, <2>1 DEF GuardInv
  <2>4. restoring' => \A j \in Call : ~ Counted(j)'
    BY <1>2, <1>4, <2>1 DEF GuardInv
  <2>5. lease' => restoring' /\ run' = NoRun
    BY <1>4, <1>8, <2>1 DEF GuardInv
  <2>6. \A j \in Call : Does(j, "restore")' /\ call'[j].pc # "reading backup" => lease'
    BY <1>1, <1>2, <1>4, <2>1 DEF GuardInv
  <2>7. GuardInv'
    BY <1>6, <1>7, <1>8, <2>2, <2>3, <2>4, <2>5, <2>6 DEF GuardInv
  <2> QED BY <1>4, <2>1, <2>2, <2>7
<1> QED BY <1>9, <1>10

LEMMA ReleasedKeeps ==
  ASSUME VaultInv, NEW k \in Call, Released(k), RunKept, ResetInv', KeyUsed',
         marker' \in 0 .. made, doomed' \subseteq 1 .. made,
         agentKey' \in AgentKeys, unsure' \in BOOLEAN, unread' \in BOOLEAN,
         agentKey' = agentKey \/ (run' = run /\ run.phase # "adapter")
  PROVE  VaultInv'
<1>1. /\ app = "up" /\ call' \in [Call -> CallRecord] /\ call'[k] = Idle
      /\ \A j \in Call : j # k => call'[j] = call[j]
      /\ \A i \in 1 .. Len(queue) : queue[i].owner # k
  BY ReleasedFacts
<1>2. UNCHANGED <<disk, app, db, queue, backups, made>>
  BY DEF Released
<1>3. GuardInv' /\ inFlight' \in Nat /\ restoring' \in BOOLEAN /\ lease' \in BOOLEAN
  BY ReleasedGuards
<1>4. run' \in RunRecord
  BY DEF RunKept, VaultInv, Types
<1>5. Types'
  BY <1>1, <1>2, <1>3, <1>4 DEF VaultInv, Types
<1>6. KeyInv
  BY DEF VaultInv
<1>7. /\ ~ KeyCall(k)'
      /\ \A j \in Call : j # k => (KeyCall(j)' <=> KeyCall(j))
      /\ \A i \in 1 .. Len(queue) : KeyAt(i)' <=> KeyAt(i)
  BY <1>1, <1>2, IdleFacts DEF KeyCall, KeyAt, Does
<1>8. KeyQueued'
  <2>1. \A i \in 1 .. Len(queue) : KeyAt(i) => call'[queue[i].owner] = call[queue[i].owner]
    BY <1>1 DEF KeyCall, KeyAt
  <2> QED BY <1>2, <1>6, <1>7, <2>1 DEF KeyInv, KeyQueued
<1>9. KeySaved'
  <2>1. ASSUME NEW j \in Call, KeyCall(j)', call'[j].pc \in Ended
        PROVE  call'[j] = call[j] /\ KeyCall(j)
    BY <1>1, <1>7, <2>1
  <2> QED BY <1>2, <1>6, <1>7, <2>1 DEF KeyInv, KeySaved
<1>10. run'.phase = "adapter" => run'.key = agentKey'
  BY <1>6 DEF KeyInv, RunKept
<1>11. KeyInv'
  BY <1>8, <1>9, <1>10 DEF KeyInv
<1> QED BY <1>3, <1>5, <1>11, ReleasedCalls DEF VaultInv


LEMMA ResetKept ==
  ASSUME VaultInv, NEW k \in Call, Released(k), UNCHANGED <<marker, doomed>>
  PROVE  ResetInv' /\ marker' \in 0 .. made /\ doomed' \subseteq 1 .. made
<1>1. /\ call'[k] = Idle /\ \A j \in Call : j # k => call'[j] = call[j]
  BY ReleasedFacts
<1>2. UNCHANGED <<disk, app, db>>
  BY DEF Released
<1>3. ResetInv'
  BY <1>1, <1>2, IdleFacts DEF VaultInv, ResetInv, Does
<1> QED BY <1>3 DEF VaultInv, Types

\* A call that leaves the agent's key as it is.
LEMMA PlainEnd ==
  ASSUME VaultInv, NEW k \in Call, Released(k), RunKept,
         UNCHANGED <<marker, doomed, agentKey, unread>>,
         \/ unsure' = TRUE
         \/ /\ unsure' = unsure
            /\ Does(k, "restore") => call[k].pc \in {"reading backup", "reloaded"}
            /\ Does(k, "key") => call[k].pc \in {"encrypting", "removing"}
  PROVE  VaultInv'
<1>1. /\ call'[k] = Idle /\ \A j \in Call : j # k => call'[j] = call[j]
  BY ReleasedFacts
<1>2. ResetInv' /\ marker' \in 0 .. made /\ doomed' \subseteq 1 .. made
  BY ResetKept
<1>3. agentKey \in AgentKeys /\ unsure \in BOOLEAN /\ unread \in BOOLEAN /\ KeyUsed /\ UNCHANGED <<app, db>>
  BY DEF VaultInv, Types, KeyInv, Released
<1>4. KeyUsed'
  <2>1. CASE unsure' = TRUE
    BY <2>1 DEF KeyUsed
  <2>2. CASE /\ unsure' = unsure
             /\ Does(k, "restore") => call[k].pc \in {"reading backup", "reloaded"}
             /\ Does(k, "key") => call[k].pc \in {"encrypting", "removing"}
    <3>1. Untouched' => Untouched
      BY <1>1, <2>2 DEF Untouched, Does
    <3> QED BY <1>3, <2>2, <3>1 DEF KeyUsed, Fits
  <2> QED BY <2>1, <2>2
<1> QED BY <1>2, <1>3, <1>4, ReleasedKeeps

LEMMA EndsRelease ==
  ASSUME VaultInv, NEW k \in Call, Ends(k), Busy(k), call[k].pc # "saving"
  PROVE  Released(k) /\ RunKept /\ UNCHANGED <<marker, doomed, agentKey, unsure, unread>>
BY DEF Ends, Released, RunKept, files, agent

LEMMA CallFacts ==
  ASSUME VaultInv, NEW k \in Call
  PROVE  call[k] \in CallRecord /\ CallShape(k)
BY DEF VaultInv, Types, CallInv

LEMMA ChangeEndsKeeps == ASSUME VaultInv, NEW k \in Call, ChangeEnds(k) PROVE VaultInv'
<1>1. Does(k, "change") /\ Busy(k) /\ call[k].pc # "saving" /\ Ends(k)
  BY CallFacts, ShapeFacts DEF ChangeEnds, At, Does, Busy
<1> QED BY <1>1, EndsRelease, PlainEnd DEF Does

LEMMA EncryptingFailsKeeps == ASSUME VaultInv, NEW k \in Call, EncryptingFails(k) PROVE VaultInv'
<1>1. call[k].pc = "encrypting" /\ Does(k, "key") /\ Busy(k) /\ Ends(k)
  BY CallFacts, ShapeFacts DEF EncryptingFails, At, Busy, Does
<1> QED BY <1>1, EndsRelease, PlainEnd DEF Does

LEMMA UseKeyKeeps == ASSUME VaultInv, NEW k \in Call, UseKey(k) PROVE VaultInv'
<1>1. At(k, "saved") /\ Does(k, "key") /\ Released(k) /\ UNCHANGED <<marker, doomed, run>>
  BY DEF UseKey, At, Released, Busy, files
<1>2. RunKept
  BY <1>1 DEF RunKept
<1>3. CASE run.phase = "adapter"
  BY <1>1, <1>2, <1>3, PlainEnd DEF UseKey
<1>4. CASE run.phase # "adapter"
  <2>1. agentKey' = call[k].key /\ unsure' = unsure /\ unread' = FALSE
    BY <1>4 DEF UseKey
  <2>2. agentKey' \in AgentKeys /\ unsure' \in BOOLEAN /\ unread' \in BOOLEAN
    BY <2>1, CallFacts DEF CallRecord, AgentKeys, VaultInv, Types
  <2>3. Untouched' => agentKey' = db.key
    <3> SUFFICES ASSUME Untouched' PROVE agentKey' = db.key
      OBVIOUS
    <3>1. ASSUME NEW i \in 1 .. Len(queue), KeyAt(i) PROVE FALSE
      <4>1. queue[i].owner \in Call /\ queue[i].owner # k /\ call[queue[i].owner].pc = "saving"
        BY <3>1, ReleasedFacts, <1>1 DEF KeyCall, KeyAt, VaultInv, CallInv
      <4>2. call'[queue[i].owner] = call[queue[i].owner]
        BY <4>1, <1>1, ReleasedFacts
      <4> QED BY <3>1, <4>1, <4>2 DEF Untouched, KeyCall, KeyAt, Does
    <3> QED BY <1>1, <2>1, <3>1 DEF VaultInv, KeyInv, KeySaved, KeyCall, KeyAt, At, Ended
  <2>4. KeyUsed'
    BY <1>1, <2>1, <2>3 DEF KeyUsed, Fits, Released
  <2> QED BY <1>1, <1>2, <1>4, <2>2, <2>4, ResetKept, ReleasedKeeps
<1> QED BY <1>3, <1>4

LEMMA KeyNotSavedKeeps == ASSUME VaultInv, NEW k \in Call, KeyNotSaved(k) PROVE VaultInv'
<1>1. Released(k) /\ RunKept /\ UNCHANGED <<marker, doomed, agentKey, unread>> /\ unsure' = TRUE
  BY DEF KeyNotSaved, At, Released, Busy, files, RunKept
<1> QED BY <1>1, PlainEnd

LEMMA StartRunKeeps == ASSUME VaultInv, NEW k \in Call, StartRun(k) PROVE VaultInv'
<1>1. /\ Does(k, "run") /\ Busy(k) /\ Released(k) /\ UNCHANGED <<marker, doomed, agentKey, unsure, unread>>
  BY DEF StartRun, At, Released, Busy, files
<1>2. RunKept
  <2>1. CASE lease
    BY <2>1 DEF StartRun, RunKept
  <2>2. CASE ~ lease
    <3> DEFINE new == [phase |-> "adapter", gen |-> call[k].gen, key |-> agentKey]
    <3>1. run' = new
      BY <2>2 DEF StartRun
    <3>2. call[k].gen = db.gen
      BY <1>1 DEF VaultInv, GuardInv, Counted, Dispatched, Does, Outsider
    <3>3. new \in RunRecord
      BY CallFacts DEF RunRecord, CallRecord, VaultInv, Types
    <3> QED BY <2>2, <3>1, <3>2, <3>3 DEF RunKept
  <2> QED BY <2>1, <2>2
<1> QED BY <1>1, <1>2, PlainEnd DEF Does

LEMMA RunNotCreatedKeeps == ASSUME VaultInv, NEW k \in Call, RunNotCreated(k) PROVE VaultInv'
<1>1. Does(k, "run") /\ Busy(k) /\ call[k].pc # "saving" /\ Ends(k)
  BY DEF RunNotCreated, At, Busy
<1> QED BY <1>1, EndsRelease, PlainEnd DEF Does

LEMMA RefuseBackupKeeps == ASSUME VaultInv, NEW k \in Call, RefuseBackup(k) PROVE VaultInv'
<1>1. call[k].pc = "reading backup" /\ Does(k, "restore") /\ Busy(k) /\ Ends(k)
  BY CallFacts, ShapeFacts DEF RefuseBackup, At, Busy, Does
<1> QED BY <1>1, EndsRelease, PlainEnd DEF Does

LEMMA RestoreNotSavedKeeps == ASSUME VaultInv, NEW k \in Call, RestoreNotSaved(k) PROVE VaultInv'
<1>1. Released(k) /\ RunKept /\ UNCHANGED <<marker, doomed, agentKey, unread>> /\ unsure' = TRUE
  BY DEF RestoreNotSaved, At, Released, Busy, files, RunKept
<1> QED BY <1>1, PlainEnd

LEMMA RestoreEndsKeeps == ASSUME VaultInv, NEW k \in Call, RestoreEnds(k) PROVE VaultInv'
<1>1. call[k].pc = "reloaded" /\ Does(k, "restore") /\ Busy(k) /\ Ends(k)
  BY CallFacts, ShapeFacts DEF RestoreEnds, At, Busy, Does
<1> QED BY <1>1, EndsRelease, PlainEnd DEF Does

LEMMA ExportOrResetEndsKeeps ==
  ASSUME VaultInv, NEW k \in Call, ExportOrResetEnds(k) PROVE VaultInv'
<1>1. /\ Does(k, "export") \/ Does(k, "reset")
      /\ Busy(k) /\ call[k].pc # "saving" /\ Ends(k)
  BY DEF ExportOrResetEnds, At, Busy, Does
<1> QED BY <1>1, EndsRelease, PlainEnd DEF Does

LEMMA OutsideEndsKeeps == ASSUME VaultInv, NEW k \in Call, OutsideEnds(k) PROVE VaultInv'
<1>1. Does(k, "mail") /\ Busy(k) /\ call[k].pc # "saving" /\ Ends(k)
  BY CallFacts, ShapeFacts DEF OutsideEnds, At, Does, Busy
<1> QED BY <1>1, EndsRelease, PlainEnd DEF Does

\* The state in which a marker is written: the vault in the file is of the
\* workspace in memory.
LEMMA UpFacts ==
  ASSUME VaultInv, app = "up"
  PROVE  /\ disk # NoFile /\ disk \in SoundVaults /\ disk.workspace = db.workspace
         /\ db.workspace \in 1 .. made
BY DEF VaultInv, FileInv, Line, Lined, Made

LEMMA MarkerReset ==
  ASSUME VaultInv, app = "up", UNCHANGED <<app, disk, db, doomed>>, marker' = db.workspace
  PROVE  ResetInv' /\ marker' \in 0 .. made
<1>1. disk.workspace = db.workspace /\ db.workspace \in 0 .. made /\ made \in Nat
  BY UpFacts DEF VaultInv, Types
<1> QED BY <1>1 DEF ResetInv

LEMMA SameKeyEnds ==
  ASSUME VaultInv, NEW k \in Call, Released(k), Does(k, "reset"), UNCHANGED <<agentKey, unsure, unread>>
  PROVE  KeyUsed'
<1>1. /\ call'[k] = Idle /\ \A j \in Call : j # k => call'[j] = call[j]
  BY ReleasedFacts
<1>2. Untouched' => Untouched
  BY <1>1 DEF Untouched, Does
<1> QED BY <1>2 DEF KeyUsed, Fits, VaultInv, KeyInv, Released

LEMMA MarkerFailsKeeps == ASSUME VaultInv, NEW k \in Call, MarkerFails(k) PROVE VaultInv'
<1>1. /\ call[k].pc = "marking" /\ Does(k, "reset") /\ Released(k) /\ RunKept
      /\ UNCHANGED <<doomed, agentKey, unsure, unread, run, app, disk, db, made>>
      /\ marker' \in {marker, db.workspace}
  BY CallFacts, ShapeFacts DEF MarkerFails, At, Busy, Does, Released, RunKept, agent
<1>2. KeyUsed'
  BY <1>1, SameKeyEnds
<1>3. CASE marker' = marker
  BY <1>1, <1>3, PlainEnd DEF Does
<1>4. CASE marker' = db.workspace
  <2>1. ResetInv' /\ marker' \in 0 .. made
    BY <1>1, <1>4, MarkerReset, ReleasedFacts
  <2>2. /\ doomed' \subseteq 1 .. made /\ agentKey' \in AgentKeys
        /\ unsure' \in BOOLEAN /\ unread' \in BOOLEAN
    BY <1>1 DEF VaultInv, Types
  <2> QED BY <1>1, <1>2, <2>1, <2>2, ReleasedKeeps
<1> QED BY <1>1, <1>3, <1>4

LEMMA ResetScheduledKeeps == ASSUME VaultInv, NEW k \in Call, ResetScheduled(k) PROVE VaultInv'
<1>1. /\ call[k].pc = "saved" /\ Does(k, "reset") /\ Released(k) /\ RunKept
      /\ UNCHANGED <<marker, agentKey, unsure, unread, run, app, disk, db, made>>
      /\ doomed' = doomed \cup {db.workspace}
  BY DEF ResetScheduled, At, Busy, Released, RunKept, agent
<1>2. marker = db.workspace /\ app = "up"
  BY <1>1, ReleasedFacts DEF VaultInv, ResetInv, Ended
<1>3. disk.workspace = db.workspace /\ db.workspace \in 1 .. made
  BY <1>2, UpFacts
<1>4. /\ call'[k] = Idle /\ \A j \in Call : j # k => call'[j] = call[j]
  BY <1>1, ReleasedFacts
<1>5. ResetInv'
  BY <1>1, <1>2, <1>3, <1>4, IdleFacts DEF VaultInv, ResetInv, Does
<1>6. /\ marker' \in 0 .. made /\ doomed' \subseteq 1 .. made
      /\ agentKey' \in AgentKeys /\ unsure' \in BOOLEAN /\ unread' \in BOOLEAN
  BY <1>1, <1>3 DEF VaultInv, Types
<1> QED BY <1>1, <1>5, <1>6, SameKeyEnds, ReleasedKeeps


-----------------------------------------------------------------------------
(* A snapshot joins the queue *)

LEMMA AppendFacts ==
  ASSUME NEW q \in Seq(Snapshots), NEW s \in Snapshots
  PROVE  /\ Append(q, s) \in Seq(Snapshots) /\ Len(Append(q, s)) = Len(q) + 1
         /\ Append(q, s)[Len(q) + 1] = s /\ Len(q) \in Nat
         /\ \A i \in 1 .. Len(q) : Append(q, s)[i] = q[i] /\ i # Len(q) + 1
         /\ \A i \in 1 .. Len(q) + 1 : i # Len(q) + 1 => i \in 1 .. Len(q)
OBVIOUS

LEMMA TailFacts ==
  ASSUME NEW q \in Seq(Snapshots), q # <<>>
  PROVE  /\ Tail(q) \in Seq(Snapshots) /\ Head(q) \in Snapshots /\ Head(q) = q[1]
         /\ Len(Tail(q)) = Len(q) - 1 /\ 1 \in 1 .. Len(q) /\ Len(q) \in Nat
         /\ \A i \in 1 .. Len(Tail(q)) :
              i + 1 \in 1 .. Len(q) /\ i + 1 # 1 /\ Tail(q)[i] = q[i + 1]
         /\ \A i \in 1 .. Len(q) : i # 1 => i - 1 \in 1 .. Len(Tail(q)) /\ Tail(q)[i - 1] = q[i]
OBVIOUS

LEMMA SnapshotFacts ==
  ASSUME NEW s \in Snapshots
  PROVE  s.vault \in SoundVaults /\ s.owner \in Owner
BY DEF Snapshots

LEMMA LinedAppend ==
  ASSUME NEW v \in KeptVaults, NEW q \in Seq(Snapshots), NEW w \in SoundVaults,
         NEW s \in Snapshots, Lined(v, q, w), w.gen <= s.vault.gen,
         w.workspace = s.vault.workspace
  PROVE  Lined(v, Append(q, s), s.vault)
<1> DEFINE a == Append(q, s)
           n == Len(q) + 1
<1>1. /\ Len(a) = n /\ a[n] = s /\ n \in Nat /\ Len(q) \in Nat
      /\ \A i \in 1 .. Len(q) : a[i] = q[i] /\ i # n
      /\ \A i \in 1 .. n : i # n => i \in 1 .. Len(q)
  BY AppendFacts
<1>2. /\ v.gen \in Nat /\ w.gen \in Nat /\ s.vault.gen \in Nat
      /\ \A i \in 1 .. Len(q) : q[i].vault.gen \in Nat
  <2>1. \A i \in 1 .. Len(q) : q[i] \in Snapshots
    OBVIOUS
  <2> QED BY <2>1, KeptFields, SnapshotFacts DEF KeptVaults
<1> HIDE DEF a, n
<1>3. \A i \in 1 .. n : /\ v.gen <= a[i].vault.gen /\ a[i].vault.gen <= s.vault.gen
                        /\ a[i].vault.workspace = s.vault.workspace
  BY <1>1, <1>2 DEF Lined
<1>4. ASSUME NEW i \in 1 .. n, NEW j \in 1 .. n, i < j PROVE a[i].vault.gen <= a[j].vault.gen
  <2>1. CASE j = n
    BY <2>1, <1>1, <1>3
  <2>2. CASE j # n
    <3>1. i # n
      BY <1>1, <1>4, <2>2
    <3> QED BY <1>1, <1>4, <2>2, <3>1 DEF Lined
  <2> QED BY <2>1, <2>2
<1>5. v.gen <= s.vault.gen /\ (v = NoFile \/ v.workspace = s.vault.workspace)
  BY <1>2 DEF Lined
<1> QED BY <1>1, <1>3, <1>4, <1>5 DEF Lined, a

LEMMA LinedTail ==
  ASSUME NEW v, NEW q \in Seq(Snapshots), NEW w, q # <<>>, Lined(v, q, w)
  PROVE  Lined(v, Tail(q), w) /\ Lined(Head(q).vault, Tail(q), w)
<1> DEFINE t == Tail(q)
<1>1. /\ Head(q) = q[1] /\ Len(t) = Len(q) - 1 /\ 1 \in 1 .. Len(q) /\ Len(q) \in Nat
      /\ \A i \in 1 .. Len(t) : i + 1 \in 1 .. Len(q) /\ t[i] = q[i + 1]
  BY TailFacts
<1> HIDE DEF t
<1>2. ASSUME NEW i \in 1 .. Len(t)
      PROVE  /\ v.gen <= t[i].vault.gen /\ t[i].vault.gen <= w.gen
             /\ t[i].vault.workspace = w.workspace
             /\ q[1].vault.gen <= t[i].vault.gen
  <2>1. i + 1 \in 1 .. Len(q) /\ 1 \in 1 .. Len(q) /\ 1 < i + 1 /\ t[i] = q[i + 1]
    BY <1>1
  <2>2. q[1].vault.gen <= q[i + 1].vault.gen
    BY <2>1 DEF Lined
  <2>3. /\ v.gen <= q[i + 1].vault.gen /\ q[i + 1].vault.gen <= w.gen
        /\ q[i + 1].vault.workspace = w.workspace
    BY <2>1 DEF Lined
  <2> QED BY <2>1, <2>2, <2>3
<1>3. \A i, j \in 1 .. Len(t) : i < j => t[i].vault.gen <= t[j].vault.gen
  BY <1>1 DEF Lined
<1>4. /\ v.gen <= w.gen /\ (v = NoFile \/ v.workspace = w.workspace)
      /\ q[1].vault.gen <= w.gen /\ q[1].vault.workspace = w.workspace
  BY <1>1 DEF Lined
<1> QED BY <1>1, <1>2, <1>3, <1>4 DEF Lined, t

\* A vault that joins the queue, for a call or for the run.
Queued(d, owner) ==
  /\ app = "up" /\ d \in SoundVaults /\ owner \in Owner \ {"launch"}
  /\ d.workspace = db.workspace
  /\ \/ d.gen = db.gen /\ made' = made
     \/ d.gen = made + 1 /\ made' = made + 1
  /\ db' = d /\ queue' = Append(queue, [vault |-> d, owner |-> owner])
  /\ UNCHANGED <<disk, doomed, app>>

LEMMA QueuedFacts ==
  ASSUME VaultInv, NEW d, NEW owner, Queued(d, owner)
  PROVE  /\ queue' \in Seq(Snapshots) /\ Len(queue') = Len(queue) + 1 /\ Len(queue) \in Nat
         /\ queue'[Len(queue) + 1].owner = owner /\ queue'[Len(queue) + 1].vault = d
         /\ \A i \in 1 .. Len(queue) : queue'[i] = queue[i] /\ i # Len(queue) + 1
         /\ \A i \in 1 .. Len(queue') : i # Len(queue) + 1 => i \in 1 .. Len(queue)
         /\ made' \in Nat /\ made <= made' /\ made' >= 1
         /\ Lined(disk, queue', d) /\ Made(d)'
<1> DEFINE s == [vault |-> d, owner |-> owner]
<1>1. s \in Snapshots /\ s.vault = d /\ s.owner = owner /\ queue' = Append(queue, s)
  BY DEF Queued, Snapshots
<1>2. /\ queue \in Seq(Snapshots) /\ disk \in KeptVaults /\ db \in SoundVaults
      /\ made \in Nat /\ made >= 1
  BY DEF VaultInv, Types
<1>3. /\ queue' \in Seq(Snapshots) /\ Len(queue') = Len(queue) + 1 /\ Len(queue) \in Nat
      /\ queue'[Len(queue) + 1] = s
      /\ \A i \in 1 .. Len(queue) : queue'[i] = queue[i] /\ i # Len(queue) + 1
      /\ \A i \in 1 .. Len(queue') : i # Len(queue) + 1 => i \in 1 .. Len(queue)
  BY <1>1, <1>2, AppendFacts
<1>4. Line /\ Made(db)
  BY DEF Queued, VaultInv, FileInv
<1>5. db.gen <= d.gen /\ made' \in Nat /\ made <= made' /\ made' >= 1 /\ d.gen \in 1 .. made'
      /\ db.workspace = d.workspace /\ d.workspace \in 1 .. made'
  BY <1>2, <1>4 DEF Queued, Made
<1>6. Lined(disk, queue', d)
  <2> HIDE DEF s
  <2> QED BY <1>1, <1>2, <1>4, <1>5, LinedAppend DEF Line
<1>7. Made(d)'
  BY <1>5 DEF Made, Queued
<1> QED BY <1>1, <1>3, <1>5, <1>6, <1>7


LEMMA QueuedFile ==
  ASSUME VaultInv, NEW d, NEW owner, Queued(d, owner),
         \A b \in backups' : b \in backups \/ b.gen <= made,
         \A b \in backups' : b.gen \in Nat
  PROVE  FileInv'
<1>1. /\ \A i \in 1 .. Len(queue) : queue'[i] = queue[i]
      /\ \A i \in 1 .. Len(queue') : i # Len(queue) + 1 => i \in 1 .. Len(queue)
      /\ queue'[Len(queue) + 1].owner = owner
      /\ made' \in Nat /\ made <= made' /\ Lined(disk, queue', d) /\ Made(d)'
  BY QueuedFacts
<1>2. app = "up" /\ app' = "up" /\ disk' = disk /\ db' = d /\ owner # "launch" /\ made \in Nat
  BY DEF Queued, VaultInv, Types
<1>3. disk' # NoFile /\ disk' \in SoundVaults
  BY <1>2 DEF VaultInv, FileInv
<1>4. (disk = NoFile \/ Made(disk))'
  BY <1>1, <1>2 DEF VaultInv, FileInv, Made
<1>5. \A b \in backups' : b.gen <= made'
  BY <1>1, <1>2 DEF VaultInv, FileInv
<1>6. Line' /\ Made(db)'
  BY <1>1, <1>2 DEF Line, Made
<1>7. \A i \in 1 .. Len(queue') : queue'[i].owner # "launch"
  <2>1. \A i \in 1 .. Len(queue) : queue[i].owner # "launch"
    BY <1>2 DEF VaultInv, FileInv
  <2> QED BY <1>1, <1>2, <2>1
<1> QED BY <1>2, <1>3, <1>4, <1>5, <1>6, <1>7 DEF FileInv

\* A call that goes on to wait for its save.
Saves(k, d) ==
  /\ <<call[k].does, call[k].pc>> \in Begins
  /\ Queued(d, k) /\ call' = Goto(k, "saving")
  /\ \/ /\ call[k].does # "restore" /\ d.gen = db.gen /\ made' = made
        /\ d.key = IF call[k].does = "key" THEN call[k].key ELSE db.key
     \/ call[k].does = "restore" /\ lease /\ d.gen = made + 1
  /\ marker' = IF call[k].does = "reset" THEN db.workspace ELSE marker
  /\ backups' \subseteq backups \cup {call[k].from}
  /\ UNCHANGED <<guards, agent>>

LEMMA SavesFacts ==
  ASSUME VaultInv, NEW k \in Call, NEW d, Saves(k, d)
  PROVE  /\ call' \in [Call -> CallRecord] /\ call[k] # Idle /\ call[k].does \in Purpose
         /\ call[k].pc \in Pc \ ({"idle", "saving", "reloaded"} \cup Ended)
         /\ call'[k].pc = "saving" /\ call'[k].does = call[k].does /\ call'[k].gen = call[k].gen
         /\ call'[k].key = call[k].key /\ call'[k].from = call[k].from
         /\ \A j \in Call : j # k => call'[j] = call[j]
         /\ \A i \in 1 .. Len(queue) : queue[i].owner # k
         /\ call[k].from \in KeptVaults /\ call[k].from.gen <= made
<1>1. /\ call[k].does \in Purpose /\ call[k].pc \in Pc \ ({"idle", "saving", "reloaded"} \cup Ended)
      /\ call[k].does # "nothing"
  BY DEF Saves, Begins, Purpose, Pc, Ended
<1>2. call \in [Call -> CallRecord] /\ CallShape(k) /\ call[k] \in CallRecord /\ "saving" \in Pc
  BY CallFacts DEF VaultInv, Types, Pc
<1>3. call[k] # Idle
  BY <1>1, IdleFacts
<1>4. \A i \in 1 .. Len(queue) : queue[i].owner # k
  BY <1>1 DEF VaultInv, CallInv
<1>5. call[k].from \in KeptVaults /\ call[k].from.gen <= made
  BY <1>2, <1>3, ShapeFacts
<1> QED BY <1>1, <1>2, <1>3, <1>4, <1>5, CallMoves DEF Saves

LEMMA SavesTypes ==
  ASSUME VaultInv, NEW k \in Call, NEW d, Saves(k, d)
  PROVE  Types' /\ FileInv'
<1>1. /\ call' \in [Call -> CallRecord] /\ call[k].from \in KeptVaults /\ call[k].from.gen <= made
  BY SavesFacts
<1>2. queue' \in Seq(Snapshots) /\ made' \in Nat /\ made <= made' /\ made' >= 1
  BY QueuedFacts DEF Saves
<1>3. /\ db' \in SoundVaults /\ disk' = disk /\ doomed' = doomed /\ app' = app
      /\ UNCHANGED <<inFlight, restoring, lease, run, agentKey, unsure, unread>>
      /\ marker' \in {marker, db.workspace} /\ app = "up"
  BY DEF Saves, Queued, guards, agent
<1>4. Types
  BY DEF VaultInv
<1>5. marker' \in 0 .. made'
  <2>1. db.workspace \in 1 .. made /\ marker \in 0 .. made /\ made \in Nat
    BY <1>3, <1>4, UpFacts DEF Types
  <2> QED BY <1>2, <1>3, <2>1
<1>6. doomed' \subseteq 1 .. made' /\ made \in Nat
  BY <1>2, <1>3, <1>4 DEF Types
<1>7. backups' \subseteq KeptVaults
  BY <1>1, <1>4 DEF Types, Saves
<1>8. Types'
  BY <1>1, <1>2, <1>3, <1>4, <1>5, <1>6, <1>7 DEF Types
<1>9. /\ \A b \in backups' : b \in backups \/ b.gen <= made
      /\ \A b \in backups' : b.gen \in Nat
  BY <1>1, <1>7, KeptFields DEF Saves
<1> QED BY <1>8, <1>9, QueuedFile DEF Saves

LEMMA SavesCalls ==
  ASSUME VaultInv, NEW k \in Call, NEW d, Saves(k, d)
  PROVE  ResetInv' /\ CallInv'
<1>1. /\ call[k] # Idle /\ call[k].does \in Purpose
      /\ call[k].pc \in Pc \ ({"idle", "saving", "reloaded"} \cup Ended)
      /\ call'[k].pc = "saving" /\ call'[k].does = call[k].does
      /\ call'[k].from = call[k].from
      /\ \A j \in Call : j # k => call'[j] = call[j]
      /\ \A i \in 1 .. Len(queue) : queue[i].owner # k
      /\ call[k].from.gen <= made /\ call[k].from \in KeptVaults
  BY SavesFacts
<1>2. /\ app = "up" /\ app' = "up" /\ disk' = disk /\ doomed' = doomed
      /\ db'.workspace = db.workspace
      /\ marker' = IF call[k].does = "reset" THEN db.workspace ELSE marker
  BY DEF Saves, Queued
<1>3. /\ Len(queue') = Len(queue) + 1 /\ Len(queue) \in Nat
      /\ queue'[Len(queue) + 1].owner = k
      /\ \A i \in 1 .. Len(queue) : queue'[i] = queue[i] /\ i # Len(queue) + 1
      /\ \A i \in 1 .. Len(queue') : i # Len(queue) + 1 => i \in 1 .. Len(queue)
      /\ made' \in Nat /\ made <= made'
  BY QueuedFacts DEF Saves
<1>4. disk.workspace = db.workspace
  BY <1>2, UpFacts
<1>5. ResetInv'
  BY <1>1, <1>2, <1>4 DEF VaultInv, ResetInv, Does, Ended
<1>6. \A j \in Call : CallShape(j)'
  <2>1. /\ made \in Nat /\ made' \in Nat /\ made <= made'
        /\ \A j \in Call : call[j].from.gen \in Nat
    BY <1>3, KeptFields, CallFacts DEF VaultInv, Types, CallRecord
  <2>2. CallShape(k)'
    <3>1. call'[k].from.gen <= made'
      BY <1>1, <2>1
    <3> QED BY <1>1, <3>1 DEF CallShape
  <2>3. ASSUME NEW j \in Call, j # k PROVE CallShape(j)'
    <3>1. call'[j] = call[j] /\ CallShape(j)
      BY <1>1, <2>3, CallFacts
    <3> QED BY <2>1, <3>1 DEF CallShape
  <2> QED BY <2>2, <2>3
<1>7. ASSUME NEW i \in 1 .. Len(queue'), queue'[i].owner \in Call
      PROVE  call'[queue'[i].owner].pc = "saving"
  <2>1. CASE i = Len(queue) + 1
    BY <1>1, <1>3, <2>1
  <2>2. CASE i # Len(queue) + 1
    BY <1>1, <1>3, <1>7, <2>2 DEF VaultInv, CallInv
  <2> QED BY <2>1, <2>2
<1>8. ASSUME NEW i \in 1 .. Len(queue'), NEW j \in 1 .. Len(queue'),
             queue'[i].owner \in Call, queue'[i].owner = queue'[j].owner
      PROVE  i = j
  BY <1>1, <1>3, <1>8 DEF VaultInv, CallInv
<1>9. \A i, j \in Call : call'[i].pc \in Ended /\ call'[j].pc \in Ended => i = j
  BY <1>1 DEF VaultInv, CallInv, Ended
<1>10. CallInv'
  BY <1>6, <1>7, <1>8, <1>9 DEF CallInv
<1> QED BY <1>5, <1>10


LEMMA LeaseExcludes ==
  ASSUME VaultInv, lease
  PROVE  /\ run = NoRun /\ \A j \in Call : ~ Counted(j) /\ ~ KeyCall(j)
<1>1. run = NoRun /\ \A j \in Call : ~ Counted(j)
  BY DEF VaultInv, GuardInv
<1>2. \A j \in Call : KeyCall(j) => Counted(j)
  <2>1. \A j \in Call : KeyCall(j) => Busy(j)
    BY CallFacts, ShapeFacts DEF KeyCall, KeyAt, Does, Purpose
  <2> QED BY <2>1 DEF KeyCall, KeyAt, Counted, Dispatched, Does, Outsider
<1> QED BY <1>1, <1>2

LEMMA SavesGuards ==
  ASSUME VaultInv, NEW k \in Call, NEW d, Saves(k, d)
  PROVE  GuardInv'
<1> DEFINE S == {j \in Call : Counted(j)}
           T == {j \in Call : Counted(j)'}
<1>1. /\ call[k].does \in Purpose
      /\ call[k].pc \in Pc \ ({"idle", "saving", "reloaded"} \cup Ended)
      /\ call'[k].pc = "saving" /\ call'[k].does = call[k].does /\ call'[k].gen = call[k].gen
      /\ \A j \in Call : j # k => call'[j] = call[j]
  BY SavesFacts
<1>2. /\ UNCHANGED <<inFlight, restoring, lease, run>> /\ db' = d
      /\ \/ call[k].does # "restore" /\ d.gen = db.gen
         \/ call[k].does = "restore" /\ lease
  BY DEF Saves, Queued, guards, agent
<1>3. GuardInv
  BY DEF VaultInv
<1>4. /\ \A j \in Call : Counted(j)' <=> Counted(j)
      /\ \A j \in Call : Does(j, "restore")' <=> Does(j, "restore")
      /\ \A j \in Call : call'[j].gen = call[j].gen
  BY <1>1 DEF Counted, Dispatched, Does, Busy
<1>5. inFlight' = Cardinality(T)
  <2>1. T = S
    BY <1>4
  <2> QED BY <1>2, <1>3, <2>1 DEF GuardInv
<1>6. /\ \A j \in Call : Counted(j)' => call'[j].gen = db'.gen
      /\ run' # NoRun => run'.gen = db'.gen
  <2>1. CASE lease
    BY <1>2, <1>4, <2>1, LeaseExcludes
  <2>2. CASE ~ lease
    BY <1>2, <1>3, <1>4, <2>2 DEF GuardInv
  <2> QED BY <2>1, <2>2
<1>7. \A j \in Call : Does(j, "restore")' /\ call'[j].pc # "reading backup" => lease'
  BY <1>1, <1>2, <1>3, <1>4 DEF GuardInv, Does
<1>8. restoring' = \E j \in Call : Does(j, "restore")'
  BY <1>2, <1>3, <1>4 DEF GuardInv
<1> QED BY <1>2, <1>3, <1>4, <1>5, <1>6, <1>7, <1>8 DEF GuardInv

LEMMA SavesKey ==
  ASSUME VaultInv, NEW k \in Call, NEW d, Saves(k, d)
  PROVE  KeyInv'
<1>0. PICK n : n = Len(queue) + 1
  OBVIOUS
<1>1. /\ call'[k].pc = "saving" /\ call'[k].does = call[k].does /\ call'[k].key = call[k].key
      /\ call[k].pc \in Pc \ ({"idle", "saving", "reloaded"} \cup Ended)
      /\ \A j \in Call : j # k => call'[j] = call[j]
      /\ \A i \in 1 .. Len(queue) : queue[i].owner # k
  BY SavesFacts
<1>2. /\ UNCHANGED <<run, agentKey, unsure, unread, app>> /\ db' = d
      /\ \/ call[k].does = "key" /\ d.key = call[k].key
         \/ call[k].does \notin {"key", "restore"} /\ d.key = db.key
         \/ call[k].does = "restore" /\ lease
  BY DEF Saves, Queued, agent
<1>3. /\ Len(queue') = n /\ Len(queue) \in Nat /\ n \in 1 .. n
      /\ queue'[n].owner = k
      /\ \A i \in 1 .. Len(queue) : queue'[i] = queue[i] /\ i \in 1 .. n /\ i < n
      /\ \A i \in 1 .. n : i # n => i \in 1 .. Len(queue)
  BY <1>0, QueuedFacts DEF Saves
<1>4. KeyInv
  BY DEF VaultInv
<1>5. /\ \A j \in Call : (KeyCall(j)' <=> KeyCall(j)) /\ call'[j].key = call[j].key
      /\ KeyCall(k) <=> call[k].does = "key"
  BY <1>1 DEF KeyCall, KeyAt, Does
<1>6. /\ \A i \in 1 .. Len(queue) : KeyAt(i)' <=> KeyAt(i)
      /\ KeyAt(n)' <=> KeyCall(k)
  <2>1. \A j \in Call : call'[j].does = call[j].does
    BY <1>1
  <2>2. \A i \in 1 .. Len(queue) : queue'[i].owner = queue[i].owner
    BY <1>3
  <2>3. ASSUME NEW i \in 1 .. Len(queue) PROVE KeyAt(i)' <=> KeyAt(i)
    BY <2>1, <2>2 DEF KeyAt, KeyCall, Does
  <2>4. KeyAt(n)' <=> KeyCall(k)
    BY <1>3, <2>1 DEF KeyAt, KeyCall, Does
  <2> QED BY <2>3, <2>4
<1>7. CASE call[k].does = "key"
  <2>1. KeyAt(n)' /\ call'[queue'[n].owner].key = db'.key
    BY <1>1, <1>2, <1>3, <1>5, <1>6, <1>7
  <2>2. KeyQueued'
    <3>1. ASSUME NEW i \in 1 .. n, i # n PROVE n > i
      BY <1>3, <3>1
    <3> QED BY <1>3, <2>1, <3>1 DEF KeyQueued
  <2>3. KeySaved'
    <3>1. \E j \in 1 .. Len(queue') : KeyAt(j)'
      BY <1>3, <2>1
    <3> QED BY <3>1 DEF KeySaved
  <2>4. KeyUsed'
    BY <1>1, <1>7 DEF KeyUsed, Untouched, Does
  <2> QED BY <1>2, <1>4, <2>2, <2>3, <2>4 DEF KeyInv
<1>8. CASE call[k].does \notin {"key", "restore"} /\ d.key = db.key
  <2>1. KeyQueued'
    <3> SUFFICES ASSUME NEW i \in 1 .. n, KeyAt(i)'
                 PROVE  \/ call'[queue'[i].owner].key = db'.key
                        \/ \E j \in 1 .. n : j > i /\ KeyAt(j)'
      BY <1>3 DEF KeyQueued
    <3>1. i \in 1 .. Len(queue) /\ KeyAt(i) /\ queue[i].owner \in Call
      BY <1>3, <1>5, <1>6, <1>8 DEF KeyCall, KeyAt
    <3>2. \/ call[queue[i].owner].key = db.key
          \/ \E j \in 1 .. Len(queue) : j > i /\ KeyAt(j)
      BY <1>4, <3>1 DEF KeyInv, KeyQueued
    <3> QED BY <1>2, <1>3, <1>5, <1>6, <1>8, <3>1, <3>2
  <2>2. KeySaved'
    <3> SUFFICES ASSUME NEW j \in Call, KeyCall(j)', call'[j].pc \in Ended
                 PROVE  \/ call'[j].key = db'.key
                        \/ \E i \in 1 .. n : KeyAt(i)'
      BY <1>3 DEF KeySaved
    <3>1. KeyCall(j) /\ call[j].pc \in Ended /\ call'[j].key = call[j].key
      BY <1>1, <1>5 DEF Ended
    <3>2. call[j].key = db.key \/ \E i \in 1 .. Len(queue) : KeyAt(i)
      BY <1>4, <3>1 DEF KeyInv, KeySaved
    <3> QED BY <1>2, <1>3, <1>6, <1>8, <3>1, <3>2
  <2>3. KeyUsed'
    <3>1. Untouched' => Untouched
      BY <1>1, <1>8 DEF Untouched, Does
    <3> QED BY <1>2, <1>4, <1>8, <3>1 DEF KeyInv, KeyUsed, Fits
  <2> QED BY <1>2, <1>4, <2>1, <2>2, <2>3 DEF KeyInv
<1>9. CASE call[k].does = "restore" /\ lease
  <2>1. \A j \in Call : ~ KeyCall(j)'
    BY <1>5, <1>9, LeaseExcludes
  <2>2. KeyQueued' /\ KeySaved'
    BY <2>1 DEF KeyQueued, KeySaved, KeyCall, KeyAt
  <2>3. KeyUsed'
    BY <1>1, <1>9 DEF KeyUsed, Untouched, Does
  <2> QED BY <1>2, <1>4, <2>2, <2>3 DEF KeyInv
<1> QED BY <1>2, <1>7, <1>8, <1>9

LEMMA SavesKeeps ==
  ASSUME VaultInv, NEW k \in Call, NEW d, Saves(k, d)
  PROVE  VaultInv'
BY SavesTypes, SavesCalls, SavesGuards, SavesKey DEF VaultInv


LEMMA UpWhenBusy ==
  ASSUME VaultInv, NEW k \in Call, call[k] # Idle
  PROVE  app = "up"
BY DEF VaultInv, FileInv, Quiet

\* A call other than a restore saves the vault it changed.
LEMMA CallSaves ==
  ASSUME VaultInv, NEW k \in Call, <<call[k].does, call[k].pc>> \in Begins,
         call[k].does # "restore",
         NEW d \in SoundVaults, d.gen = db.gen, d.workspace = db.workspace,
         d.key = IF call[k].does = "key" THEN call[k].key ELSE db.key,
         Persist(d, k, Goto(k, "saving")),
         UNCHANGED <<disk, doomed, app, made, guards, agent>>,
         marker' = IF call[k].does = "reset" THEN db.workspace ELSE marker,
         backups' \subseteq backups \cup {call[k].from}
  PROVE  VaultInv'
<1>1. call[k].does # "nothing"
  BY DEF Begins
<1>2. app = "up"
  BY <1>1, UpWhenBusy, IdleFacts
<1>3. k \in Owner \ {"launch"}
  BY CallsAreFew DEF Owner
<1>4. Queued(d, k)
  BY <1>2, <1>3 DEF Persist, Queued
<1>5. Saves(k, d)
  BY <1>4 DEF Persist, Saves
<1> QED BY <1>5, SavesKeeps

LEMMA DbSound ==
  ASSUME VaultInv
  PROVE  /\ db \in SoundVaults
         /\ LET u == Logged(db)
            IN  u \in SoundVaults /\ u.gen = db.gen /\ u.workspace = db.workspace /\ u.key = db.key
BY LoggedSound DEF VaultInv, Types

LEMMA ChangeKeeps == ASSUME VaultInv, NEW k \in Call, Change(k) PROVE VaultInv'
<1>1. call[k].pc = "working" /\ call[k].does = "change"
  BY CallFacts, ShapeFacts DEF Change, At
<1>2. <<call[k].does, call[k].pc>> \in Begins
  BY <1>1 DEF Begins
<1>3. /\ Persist(Logged(db), k, Goto(k, "saving"))
      /\ UNCHANGED <<disk, doomed, app, made, guards, agent, marker, backups>>
  BY DEF Change, files
<1> QED BY <1>1, <1>2, <1>3, DbSound, CallSaves

LEMMA StoreKeyKeeps == ASSUME VaultInv, NEW k \in Call, StoreKey(k) PROVE VaultInv'
<1> DEFINE d == [db EXCEPT !.key = call[k].key]
<1>1. call[k].pc = "encrypting" /\ call[k].does = "key"
  BY CallFacts, ShapeFacts DEF StoreKey, At
<1>2. <<call[k].does, call[k].pc>> \in Begins
  BY <1>1 DEF Begins
<1>3. /\ Persist(d, k, Goto(k, "saving"))
      /\ UNCHANGED <<disk, doomed, app, made, guards, agent, marker, backups>>
  BY DEF StoreKey, files
<1>4. d \in SoundVaults /\ d.gen = db.gen /\ d.workspace = db.workspace /\ d.key = call[k].key
  <2>1. call[k].key \in Key \cup {None}
    BY CallFacts DEF CallRecord
  <2> QED BY <2>1, DbSound, KeySound
<1> HIDE DEF d
<1> QED BY <1>1, <1>2, <1>3, <1>4, CallSaves

LEMMA DeleteKeyKeeps == ASSUME VaultInv, NEW k \in Call, DeleteKey(k) PROVE VaultInv'
<1> DEFINE d == [db EXCEPT !.key = None]
<1>1. call[k].pc = "removing" /\ call[k].does = "key"
  BY CallFacts, ShapeFacts DEF DeleteKey, At
<1>2. <<call[k].does, call[k].pc>> \in Begins /\ call[k].key = None
  BY <1>1, CallFacts, IdleFacts DEF Begins, CallShape
<1>3. /\ Persist(d, k, Goto(k, "saving"))
      /\ UNCHANGED <<disk, doomed, app, made, guards, agent, marker, backups>>
  BY DEF DeleteKey, files
<1>4. d \in SoundVaults /\ d.gen = db.gen /\ d.workspace = db.workspace /\ d.key = None
  BY DbSound, KeySound
<1> HIDE DEF d
<1> QED BY <1>1, <1>2, <1>3, <1>4, CallSaves

LEMMA CreateAgentRunKeeps == ASSUME VaultInv, NEW k \in Call, CreateAgentRun(k) PROVE VaultInv'
<1>1. call[k].pc = "creating" /\ call[k].does = "run"
  BY CallFacts, ShapeFacts DEF CreateAgentRun, At
<1>2. <<call[k].does, call[k].pc>> \in Begins
  BY <1>1 DEF Begins
<1>3. /\ Persist(Logged(db), k, Goto(k, "saving"))
      /\ UNCHANGED <<disk, doomed, app, made, guards, agent, marker, backups>>
  BY DEF CreateAgentRun, files
<1> QED BY <1>1, <1>2, <1>3, DbSound, CallSaves

LEMMA StoreBackupKeeps == ASSUME VaultInv, NEW k \in Call, StoreBackup(k) PROVE VaultInv'
<1>1. call[k].pc = "encrypting backup" /\ call[k].does = "export"
  BY CallFacts, ShapeFacts DEF StoreBackup, At
<1>2. <<call[k].does, call[k].pc>> \in Begins
  BY <1>1 DEF Begins
<1>3. /\ Persist(Logged(db), k, Goto(k, "saving"))
      /\ UNCHANGED <<disk, doomed, app, made, guards, agent, marker>>
      /\ backups' = backups \cup {call[k].from}
  BY DEF StoreBackup
<1> QED BY <1>1, <1>2, <1>3, DbSound, CallSaves

LEMMA WriteMarkerKeeps == ASSUME VaultInv, NEW k \in Call, WriteMarker(k) PROVE VaultInv'
<1>1. call[k].pc = "marking" /\ call[k].does = "reset"
  BY CallFacts, ShapeFacts DEF WriteMarker, At
<1>2. <<call[k].does, call[k].pc>> \in Begins
  BY <1>1 DEF Begins
<1>3. /\ Persist(Logged(db), k, Goto(k, "saving"))
      /\ UNCHANGED <<disk, doomed, app, made, guards, agent, backups>>
      /\ marker' = db.workspace
  BY DEF WriteMarker
<1> QED BY <1>1, <1>2, <1>3, DbSound, CallSaves

LEMMA OutsideSavesKeeps == ASSUME VaultInv, NEW k \in Call, OutsideSaves(k) PROVE VaultInv'
<1>1. call[k].pc = "outside" /\ call[k].does = "mail"
  BY CallFacts, ShapeFacts DEF OutsideSaves, At
<1>2. <<call[k].does, call[k].pc>> \in Begins
  BY <1>1 DEF Begins
<1>3. /\ \E d \in {db, Logged(db)} : Persist(d, k, Goto(k, "saving"))
      /\ UNCHANGED <<disk, doomed, app, made, guards, agent, marker, backups>>
  BY DEF OutsideSaves, files
<1>4. PICK d \in {db, Logged(db)} : Persist(d, k, Goto(k, "saving"))
  BY <1>3
<1>5. d \in SoundVaults /\ d.gen = db.gen /\ d.workspace = db.workspace /\ d.key = db.key
  BY DbSound
<1> QED BY <1>1, <1>2, <1>3, <1>4, <1>5, CallSaves

LEMMA QuitSavesKeeps == ASSUME VaultInv, NEW k \in Call, QuitSaves(k) PROVE VaultInv'
<1>1. call[k].pc = "quitting" /\ call[k].does = "quit"
  BY CallFacts, ShapeFacts DEF QuitSaves, At
<1>2. <<call[k].does, call[k].pc>> \in Begins
  BY <1>1 DEF Begins
<1>3. /\ Persist(db, k, Goto(k, "saving"))
      /\ UNCHANGED <<disk, doomed, app, made, guards, agent, marker, backups>>
  BY DEF QuitSaves, files
<1> QED BY <1>1, <1>2, <1>3, DbSound, CallSaves

\* The restore puts a new vault in the place of the one in memory.
LEMMA ReplaceVaultKeeps == ASSUME VaultInv, NEW k \in Call, ReplaceVault(k) PROVE VaultInv'
<1> DEFINE d == Restored(call[k].from)
<1>1. call[k].pc = "reading backup" /\ call[k].does = "restore" /\ call[k] # Idle
  BY CallFacts, ShapeFacts, IdleFacts DEF ReplaceVault, At
<1>2. <<call[k].does, call[k].pc>> \in Begins /\ app = "up"
  BY <1>1, UpWhenBusy DEF Begins
<1>3. /\ Persist(d, k, Goto(k, "saving")) /\ lease /\ made' = made + 1
      /\ UNCHANGED <<disk, doomed, app, guards, agent, marker, backups>>
  BY DEF ReplaceVault, files
<1>4. call[k].from \in SoundVaults
  BY CallFacts, KeptFields DEF ReplaceVault, CallRecord
<1>5. d \in SoundVaults /\ d.gen = made + 1 /\ d.workspace = db.workspace
  BY <1>4, DbSound, RestoredSound DEF VaultInv, Types
<1>6. k \in Owner \ {"launch"}
  BY CallsAreFew DEF Owner
<1> HIDE DEF d
<1>7. Queued(d, k)
  BY <1>2, <1>3, <1>5, <1>6 DEF Persist, Queued
<1>8. Saves(k, d)
  BY <1>1, <1>2, <1>3, <1>5, <1>7 DEF Persist, Saves
<1> QED BY <1>8, SavesKeeps


-----------------------------------------------------------------------------
(* A call goes on after a save *)

LEMMA GoesOnKeeps ==
  ASSUME VaultInv, NEW k \in Call, NEW pc \in Pc, call' = Goto(k, pc), call[k].pc \in Ended,
         \/ <<call[k].does, pc>> \in Begins /\ pc # "removing"
         \/ call[k].does = "restore" /\ pc = "reloaded",
         UNCHANGED <<disk, marker, backups, doomed, app, db, queue, inFlight, restoring, lease,
                     run, made>>,
         agentKey' \in AgentKeys, unsure' \in BOOLEAN, unread' \in BOOLEAN, KeyUsed',
         agentKey' = agentKey \/ run = NoRun
  PROVE  VaultInv'
<1> DEFINE S == {j \in Call : Counted(j)}
           T == {j \in Call : Counted(j)'}
<1>1. /\ call' \in [Call -> CallRecord]
      /\ call'[k].pc = pc /\ call'[k].does = call[k].does /\ call'[k].gen = call[k].gen
      /\ call'[k].key = call[k].key /\ call'[k].from = call[k].from
      /\ \A j \in Call : j # k => call'[j] = call[j]
  BY CallMoves DEF VaultInv, Types
<1>2. pc \notin {"idle", "saving"} \cup Ended /\ call[k].pc \notin {"idle", "saving", "reading backup"}
  BY DEF Begins, Ended
<1>3. call[k] # Idle /\ app = "up"
  BY <1>2, UpWhenBusy, IdleFacts
<1>4. \A i \in 1 .. Len(queue) : queue[i].owner # k
  BY <1>2 DEF VaultInv, CallInv
<1>5. Types'
  BY <1>1 DEF VaultInv, Types
<1>6. FileInv'
  BY <1>3 DEF VaultInv, FileInv, Line, Made
<1>7. ResetInv'
  BY <1>1, <1>2 DEF VaultInv, ResetInv, Does
<1>8. CallInv'
  <2>1. CallShape(k)'
    BY <1>1, <1>2, <1>3, CallFacts DEF CallShape
  <2>2. ASSUME NEW j \in Call, j # k PROVE CallShape(j)'
    BY <1>1, <2>2, CallFacts DEF CallShape
  <2> QED BY <1>1, <1>2, <1>4, <2>1, <2>2 DEF VaultInv, CallInv
<1>9. /\ \A j \in Call : Counted(j)' <=> Counted(j)
      /\ \A j \in Call : Does(j, "restore")' <=> Does(j, "restore")
      /\ \A j \in Call : KeyCall(j)' <=> KeyCall(j)
      /\ \A j \in Call : call'[j].gen = call[j].gen
  BY <1>1, <1>2 DEF Counted, Dispatched, Does, Busy, KeyCall
<1>10. GuardInv'
  <2>1. inFlight' = Cardinality(T)
    <3>1. T = S
      BY <1>9
    <3> QED BY <3>1 DEF VaultInv, GuardInv
  <2>2. restoring' = \E j \in Call : Does(j, "restore")'
    BY <1>9 DEF VaultInv, GuardInv
  <2>3. \A j \in Call : Does(j, "restore")' /\ call'[j].pc # "reading backup" => lease'
    BY <1>1, <1>2, <1>9 DEF VaultInv, GuardInv
  <2> QED BY <1>9, <2>1, <2>2, <2>3 DEF VaultInv, GuardInv
<1>11. KeyInv'
  <2>1. KeyInv
    BY DEF VaultInv
  <2>2. \A i \in 1 .. Len(queue) : KeyAt(i)' <=> KeyAt(i)
    BY <1>1, <1>9 DEF KeyAt, KeyCall, Does
  <2>3. KeyQueued'
    <3>1. \A i \in 1 .. Len(queue) : KeyAt(i) => call'[queue[i].owner] = call[queue[i].owner]
      BY <1>1, <1>4 DEF KeyAt, KeyCall
    <3> QED BY <2>1, <2>2, <3>1 DEF KeyInv, KeyQueued
  <2>4. KeySaved'
    <3>1. ASSUME NEW j \in Call, KeyCall(j)', call'[j].pc \in Ended
          PROVE  call'[j] = call[j] /\ KeyCall(j)
      BY <1>1, <1>2, <1>9, <3>1
    <3> QED BY <2>1, <2>2, <3>1 DEF KeyInv, KeySaved
  <2>5. run'.phase = "adapter" => run'.key = agentKey'
    BY <2>1 DEF KeyInv, NoRun
  <2> QED BY <2>3, <2>4, <2>5 DEF KeyInv
<1> QED BY <1>5, <1>6, <1>7, <1>8, <1>10, <1>11 DEF VaultInv

LEMMA ChangeGoesOnKeeps == ASSUME VaultInv, NEW k \in Call, ChangeGoesOn(k) PROVE VaultInv'
<1>1. /\ call[k].pc = "saved" /\ call[k].does = "change" /\ call' = Goto(k, "working")
      /\ UNCHANGED <<disk, marker, backups, doomed, app, db, queue, inFlight, restoring, lease,
                     run, agentKey, unsure, unread, made>>
  BY DEF ChangeGoesOn, At, Does, files, guards, agent
<1>2. "working" \in Pc /\ <<"change", "working">> \in Begins /\ "saved" \in Ended
  BY DEF Pc, Begins, Ended
<1>3. Untouched' => Untouched
  <2>1. call \in [Call -> CallRecord]
    BY DEF VaultInv, Types
  <2>2. \A j \in Call : j # k => call'[j] = call[j]
    BY <1>1, <1>2, <2>1, CallMoves
  <2> QED BY <1>1, <2>2 DEF Untouched, Does
<1>4. KeyUsed' /\ agentKey' \in AgentKeys /\ unsure' \in BOOLEAN /\ unread' \in BOOLEAN
  BY <1>1, <1>3 DEF KeyUsed, Fits, VaultInv, KeyInv, Types
<1> QED BY <1>1, <1>2, <1>4, GoesOnKeeps

\* Whether the stored key could be read or not, the agent has a key that fits.
LEMMA LoadKeyFits ==
  ASSUME db \in SoundVaults, NEW fallback \in SUBSET {LaunchKey, None}, LoadKey(fallback), db' = db
  PROVE  /\ agentKey' \in AgentKeys /\ unsure' = FALSE /\ unread' \in BOOLEAN
         /\ Fits(agentKey, db)'
<1>1. db.key \in Key \cup {None}
  BY KeptFields DEF KeptVaults
<1>2. PICK stored \in {db.key, None} :
        /\ agentKey' \in IF stored # None THEN {stored} ELSE fallback
        /\ unread' = (stored # db.key)
  BY DEF LoadKey
<1>3. unsure' = FALSE /\ unread' \in BOOLEAN
  BY <1>2 DEF LoadKey
<1>4. agentKey' \in AgentKeys
  BY <1>1, <1>2 DEF AgentKeys
<1>5. agentKey' \in IF db.key = None \/ unread' THEN {None, LaunchKey} ELSE {db.key}
  BY <1>1, <1>2
<1> QED BY <1>3, <1>4, <1>5 DEF Fits

LEMMA ReloadKeeps == ASSUME VaultInv, NEW k \in Call, Reload(k) PROVE VaultInv'
<1>1. /\ call[k].pc = "saved" /\ call[k].does = "restore" /\ call' = Goto(k, "reloaded")
      /\ LoadKey({LaunchKey, None})
      /\ UNCHANGED <<disk, marker, backups, doomed, app, db, queue, inFlight, restoring, lease,
                     run, made>>
  BY DEF Reload, At, Does, files, guards
<1>2. "reloaded" \in Pc /\ "saved" \in Ended
  BY DEF Pc, Ended
<1>3. run = NoRun
  BY <1>1 DEF VaultInv, GuardInv, Does
<1>4. KeyUsed' /\ agentKey' \in AgentKeys /\ unsure' \in BOOLEAN /\ unread' \in BOOLEAN
  BY <1>1, DbSound, LoadKeyFits DEF KeyUsed
<1> QED BY <1>1, <1>2, <1>3, <1>4, GoesOnKeeps

-----------------------------------------------------------------------------
(* The agent run *)

\* The run saves an event, a proposal or its end.
LEMMA RunSaves ==
  ASSUME VaultInv, run.phase = "adapter", NEW d \in SoundVaults, d.gen = db.gen,
         d.workspace = db.workspace, d.key = db.key, Persist(d, "run", call),
         run' \in RunRecord, run'.phase # "none", run'.gen = run.gen, run'.key = run.key,
         UNCHANGED <<files, app, guards, agentKey, unsure, unread, made>>
  PROVE  VaultInv'
<1> DEFINE S == {j \in Call : Counted(j)}
           T == {j \in Call : Counted(j)'}
<1>0. PICK n : n = Len(queue) + 1
  OBVIOUS
<1>1. run # NoRun /\ run' # NoRun
  BY DEF NoRun
<1>2. app = "up" /\ ~ lease
  BY <1>1 DEF VaultInv, FileInv, Quiet, GuardInv
<1>3. /\ UNCHANGED <<disk, marker, backups, doomed, app, call, inFlight, restoring, lease,
                     agentKey, unsure, unread, made>>
      /\ db' = d /\ queue' = Append(queue, [vault |-> d, owner |-> "run"])
  BY DEF Persist, files, guards
<1>4. Queued(d, "run")
  BY <1>2, <1>3 DEF Queued, Owner
<1>5. /\ Len(queue') = n /\ Len(queue) \in Nat /\ n \in 1 .. n /\ queue' \in Seq(Snapshots)
      /\ queue'[n].owner = "run" /\ "run" \notin Call
      /\ \A i \in 1 .. Len(queue) : queue'[i] = queue[i] /\ i \in 1 .. n /\ i # n
      /\ \A i \in 1 .. n : i # n => i \in 1 .. Len(queue)
  BY <1>0, <1>4, QueuedFacts, CallsAreFew
<1>6. Types'
  BY <1>3, <1>5 DEF VaultInv, Types
<1>7. FileInv'
  BY <1>3, <1>4, <1>6, QueuedFile, KeptFields DEF Types
<1>8. ResetInv'
  BY <1>2, <1>3 DEF VaultInv, ResetInv, Does
<1>9. CallInv'
  <2>1. \A j \in Call : CallShape(j)'
    BY <1>3, CallFacts DEF CallShape
  <2>2. \A i \in 1 .. n : queue'[i].owner \in Call => i \in 1 .. Len(queue) /\ queue'[i] = queue[i]
    BY <1>5
  <2>3. ASSUME NEW i \in 1 .. n, queue'[i].owner \in Call
        PROVE  call'[queue'[i].owner].pc = "saving"
    BY <1>3, <2>2, <2>3 DEF VaultInv, CallInv
  <2>4. ASSUME NEW i \in 1 .. n, NEW j \in 1 .. n,
               queue'[i].owner \in Call, queue'[i].owner = queue'[j].owner
        PROVE  i = j
    BY <2>2, <2>4 DEF VaultInv, CallInv
  <2>5. \A i, j \in Call : call'[i].pc \in Ended /\ call'[j].pc \in Ended => i = j
    BY <1>3 DEF VaultInv, CallInv
  <2> QED BY <1>5, <2>1, <2>3, <2>4, <2>5 DEF CallInv
<1>10. GuardInv'
  <2>1. /\ \A j \in Call : Counted(j)' <=> Counted(j)
        /\ \A j \in Call : Does(j, "restore")' <=> Does(j, "restore")
    BY <1>3 DEF Counted, Dispatched, Does, Busy
  <2>2. inFlight' = Cardinality(T)
    <3>1. T = S
      BY <2>1
    <3> QED BY <1>3, <3>1 DEF VaultInv, GuardInv
  <2>3. restoring' = \E j \in Call : Does(j, "restore")'
    BY <1>3, <2>1 DEF VaultInv, GuardInv
  <2> QED BY <1>1, <1>2, <1>3, <2>1, <2>2, <2>3 DEF VaultInv, GuardInv
<1>11. KeyInv'
  <2>1. KeyInv
    BY DEF VaultInv
  <2>2. /\ \A i \in 1 .. Len(queue) : KeyAt(i)' <=> KeyAt(i)
        /\ ~ KeyAt(n)'
    BY <1>3, <1>5 DEF KeyAt, KeyCall, Does
  <2>3. KeyQueued'
    <3> SUFFICES ASSUME NEW i \in 1 .. n, KeyAt(i)'
                 PROVE  \/ call'[queue'[i].owner].key = db'.key
                        \/ \E j \in 1 .. n : j > i /\ KeyAt(j)'
      BY <1>5 DEF KeyQueued
    <3>1. i \in 1 .. Len(queue) /\ KeyAt(i)
      BY <1>5, <2>2
    <3>2. \/ call[queue[i].owner].key = db.key
          \/ \E j \in 1 .. Len(queue) : j > i /\ KeyAt(j)
      BY <2>1, <3>1 DEF KeyInv, KeyQueued
    <3> QED BY <1>3, <1>5, <2>2, <3>1, <3>2
  <2>4. KeySaved'
    <3> SUFFICES ASSUME NEW j \in Call, KeyCall(j)', call'[j].pc \in Ended
                 PROVE  \/ call'[j].key = db'.key
                        \/ \E i \in 1 .. n : KeyAt(i)'
      BY <1>5 DEF KeySaved
    <3>1. KeyCall(j) /\ call[j].pc \in Ended
      BY <1>3 DEF KeyCall, Does
    <3>2. call[j].key = db.key \/ \E i \in 1 .. Len(queue) : KeyAt(i)
      BY <2>1, <3>1 DEF KeyInv, KeySaved
    <3> QED BY <1>3, <1>5, <2>2, <3>2
  <2>5. KeyUsed'
    <3>1. Untouched' => Untouched
      BY <1>3 DEF Untouched, Does
    <3> QED BY <1>3, <2>1, <3>1 DEF KeyInv, KeyUsed, Fits
  <2> QED BY <1>3, <2>1, <2>3, <2>4, <2>5 DEF KeyInv
<1> QED BY <1>6, <1>7, <1>8, <1>9, <1>10, <1>11 DEF VaultInv

LEMMA RunEventKeeps == ASSUME VaultInv, RunEvent PROVE VaultInv'
<1> DEFINE d == Appended(db, "change")
<1>1. d \in SoundVaults /\ d.gen = db.gen /\ d.workspace = db.workspace /\ d.key = db.key
  BY DbSound, AppendedSound DEF Row
<1>2. /\ run.phase = "adapter" /\ run' = run /\ run \in RunRecord /\ Persist(d, "run", call)
      /\ UNCHANGED <<files, app, guards, agentKey, unsure, unread, made>>
  BY DEF RunEvent, agent, VaultInv, Types
<1> HIDE DEF d
<1> QED BY <1>1, <1>2, RunSaves

LEMMA RunAnsweredKeeps == ASSUME VaultInv, RunAnswered PROVE VaultInv'
<1> DEFINE new == [run EXCEPT !.phase = "delivering"]
<1>1. run \in RunRecord
  BY DEF VaultInv, Types
<1>2. new \in RunRecord /\ new.phase = "delivering" /\ new.gen = run.gen /\ new.key = run.key
  BY <1>1 DEF RunRecord
<1>3. /\ run.phase = "adapter" /\ run' = new /\ Persist(db, "run", call)
      /\ UNCHANGED <<files, app, guards, agentKey, unsure, unread, made>>
  BY DEF RunAnswered
<1> HIDE DEF new
<1> QED BY <1>2, <1>3, DbSound, RunSaves

LEMMA RunEndsKeeps == ASSUME VaultInv, RunEnds PROVE VaultInv'
<1>1. /\ run' = NoRun
      /\ UNCHANGED <<disk, marker, backups, doomed, app, db, queue, call, inFlight, restoring,
                     lease, agentKey, unsure, unread, made>>
  BY DEF RunEnds, files, guards
<1>2. NoRun \in RunRecord /\ NoRun.phase = "none"
  BY DEF NoRun, RunRecord, AgentKeys
<1>3. Types'
  BY <1>1, <1>2 DEF VaultInv, Types
<1>4. FileInv' /\ ResetInv' /\ CallInv'
  <2>1. FileInv'
    BY <1>1 DEF VaultInv, FileInv, Line, Made, Quiet
  <2>2. ResetInv'
    BY <1>1 DEF VaultInv, ResetInv, Does
  <2>3. CallInv'
    BY <1>1 DEF VaultInv, CallInv, CallShape
  <2> QED BY <2>1, <2>2, <2>3
<1>5. GuardInv'
  BY <1>1, <1>2 DEF VaultInv, GuardInv, Counted, Dispatched, Does, Busy
<1>6. KeyInv'
  BY <1>1, <1>2 DEF VaultInv, KeyInv, KeyQueued, KeySaved, KeyUsed, Untouched, KeyAt, KeyCall, Does, Fits
<1> QED BY <1>3, <1>4, <1>5, <1>6 DEF VaultInv


-----------------------------------------------------------------------------
(* The oldest snapshot leaves the queue *)

Written(how) ==
  /\ how \in Ended /\ queue # <<>> /\ Settled
  /\ disk' \in {disk, Head(queue).vault}
  /\ Head(queue).owner = "launch" => disk' = Head(queue).vault
  /\ call' = Told(Head(queue).owner, how)
  /\ queue' = Tail(queue)
  /\ UNCHANGED <<marker, backups, doomed, app, db, guards, agent, made>>

LEMMA QueueFacts ==
  ASSUME VaultInv, queue # <<>>
  PROVE  /\ queue' = Tail(queue) => /\ queue' \in Seq(Snapshots) /\ Len(queue') = Len(queue) - 1
                                    /\ \A i \in 1 .. Len(queue') :
                                         i + 1 \in 1 .. Len(queue) /\ i + 1 # 1 /\ queue'[i] = queue[i + 1]
                                    /\ \A i \in 1 .. Len(queue) :
                                         i # 1 => i - 1 \in 1 .. Len(queue') /\ queue'[i - 1] = queue[i]
         /\ Head(queue) = queue[1] /\ 1 \in 1 .. Len(queue) /\ Len(queue) \in Nat
         /\ Head(queue).vault \in SoundVaults /\ Head(queue).owner \in Owner
         /\ app \in {"opening", "up"}
         /\ Head(queue).vault.workspace = db.workspace
         /\ Made(Head(queue).vault) /\ Head(queue).vault # NoFile
         /\ app = "opening" => Head(queue).vault = db /\ Head(queue).owner = "launch"
         /\ app = "up" => Head(queue).owner # "launch"
<1>1. queue \in Seq(Snapshots) /\ disk \in KeptVaults /\ db \in SoundVaults /\ made \in Nat
  BY DEF VaultInv, Types
<1>2. /\ queue' = Tail(queue) => /\ queue' \in Seq(Snapshots) /\ Len(queue') = Len(queue) - 1
                                 /\ \A i \in 1 .. Len(queue') :
                                      i + 1 \in 1 .. Len(queue) /\ i + 1 # 1 /\ queue'[i] = queue[i + 1]
                                 /\ \A i \in 1 .. Len(queue) :
                                      i # 1 => i - 1 \in 1 .. Len(queue') /\ queue'[i - 1] = queue[i]
      /\ Head(queue) = queue[1] /\ 1 \in 1 .. Len(queue) /\ Len(queue) \in Nat
      /\ Head(queue) \in Snapshots
  <2>1. PICK q \in Seq(Snapshots) : q = queue /\ q # <<>>
    BY <1>1
  <2>2. PICK t : t = Tail(q)
    OBVIOUS
  <2>3. /\ t \in Seq(Snapshots) /\ Head(q) \in Snapshots /\ Head(q) = q[1]
        /\ Len(t) = Len(q) - 1 /\ 1 \in 1 .. Len(q) /\ Len(q) \in Nat
        /\ \A i \in 1 .. Len(t) : i + 1 \in 1 .. Len(q) /\ i + 1 # 1 /\ t[i] = q[i + 1]
        /\ \A i \in 1 .. Len(q) : i # 1 => i - 1 \in 1 .. Len(t) /\ t[i - 1] = q[i]
    BY ONLY <2>1, <2>2, TailFacts
  <2>4. queue' = Tail(queue) => queue' = t
    BY <2>1, <2>2
  <2> QED BY ONLY <2>1, <2>3, <2>4
<1>3. Head(queue).vault \in SoundVaults /\ Head(queue).owner \in Owner
  BY <1>2, SnapshotFacts
<1>4. app \in {"opening", "up"} /\ Line /\ Made(db)
  BY <1>1 DEF VaultInv, FileInv, Types
<1>5. /\ disk.gen <= Head(queue).vault.gen /\ Head(queue).vault.gen <= db.gen
      /\ Head(queue).vault.workspace = db.workspace
  BY <1>2, <1>4 DEF Line, Lined
<1>6. /\ app = "opening" => Head(queue).vault = db /\ Head(queue).owner = "launch"
      /\ app = "up" => Head(queue).owner # "launch" /\ disk # NoFile
  BY <1>2 DEF VaultInv, FileInv
<1>7. Made(Head(queue).vault)
  <2>1. CASE app = "opening"
    BY <2>1, <1>4, <1>6
  <2>2. CASE app = "up"
    <3>1. Made(disk)
      BY <2>2, <1>6 DEF VaultInv, FileInv
    <3>2. disk.gen \in Nat /\ db.gen \in Nat /\ Head(queue).vault.gen \in Nat
      BY <1>1, <1>3, KeptFields DEF KeptVaults
    <3> QED BY <1>1, <1>4, <1>5, <3>1, <3>2 DEF Made
  <2> QED BY <1>4, <2>1, <2>2
<1>8. Head(queue).vault # NoFile
  <2>1. NoFile.gen = 0
    BY DEF NoFile
  <2> QED BY <1>1, <1>7, <2>1 DEF Made
<1> QED BY <1>2, <1>3, <1>4, <1>5, <1>6, <1>7, <1>8

LEMMA WrittenFacts ==
  ASSUME VaultInv, NEW how, Written(how), NEW o, o = Head(queue).owner
  PROVE  /\ call' \in [Call -> CallRecord]
         /\ o \in Call => /\ call[o].pc = "saving" /\ call'[o].pc = how
                          /\ call'[o].does = call[o].does /\ call'[o].gen = call[o].gen
                          /\ call'[o].key = call[o].key /\ call'[o].from = call[o].from
         /\ \A j \in Call : j # o => call'[j] = call[j]
         /\ \A j \in Call : call[j].pc \notin Ended
         /\ how \in Pc
<1>1. call \in [Call -> CallRecord] /\ how \in Pc
  BY DEF VaultInv, Types, Written, Ended, Pc
<1>2. CASE o \in Call
  <2>1. call' = Goto(o, how)
    BY <1>2 DEF Written, Told
  <2>2. call[o].pc = "saving"
    BY <1>2, QueueFacts DEF Written, VaultInv, CallInv
  <2>3. /\ call' \in [Call -> CallRecord]
        /\ call'[o].pc = how /\ call'[o].does = call[o].does /\ call'[o].gen = call[o].gen
        /\ call'[o].key = call[o].key /\ call'[o].from = call[o].from
        /\ \A j \in Call : j # o => call'[j] = call[j]
    BY <1>1, <1>2, <2>1, CallMoves
  <2> QED BY <1>1, <2>2, <2>3 DEF Written, Settled, Ended
<1>3. CASE o \notin Call
  BY <1>1, <1>3 DEF Written, Told, Settled, Ended
<1> QED BY <1>2, <1>3

LEMMA WrittenFile ==
  ASSUME VaultInv, NEW how, Written(how)
  PROVE  Types' /\ FileInv' /\ ResetInv'
<1>0. PICK o : o = Head(queue).owner
  OBVIOUS
<1>1. /\ call' \in [Call -> CallRecord]
      /\ o \in Call => call[o].pc = "saving" /\ call'[o].does = call[o].does
      /\ \A j \in Call : j # o => call'[j] = call[j]
  BY <1>0, WrittenFacts
<1>2. /\ queue # <<>> /\ disk' \in {disk, Head(queue).vault} /\ (o = "launch" => disk' = Head(queue).vault)
      /\ queue' = Tail(queue)
      /\ UNCHANGED <<marker, backups, doomed, app, db, inFlight, restoring, lease, run, agentKey,
                     unsure, unread, made>>
  BY <1>0 DEF Written, guards, agent
<1>3. /\ queue' \in Seq(Snapshots) /\ Len(queue') = Len(queue) - 1
      /\ \A i \in 1 .. Len(queue') : i + 1 \in 1 .. Len(queue) /\ queue'[i] = queue[i + 1]
      /\ Head(queue).vault \in SoundVaults /\ Head(queue).vault # NoFile /\ Made(Head(queue).vault)
      /\ Head(queue).vault.workspace = db.workspace
      /\ app \in {"opening", "up"}
      /\ app = "opening" => Head(queue).vault = db /\ o = "launch"
  BY <1>0, <1>2, QueueFacts
<1>4. Types
  BY DEF VaultInv
<1>5. Types'
  BY <1>1, <1>2, <1>3, <1>4 DEF Types, KeptVaults
<1>6. FileInv'
  <2>1. Line' /\ Made(db)'
    <3>1. Line /\ Made(db)
      BY <1>3 DEF VaultInv, FileInv
    <3>2. Lined(disk, queue', db) /\ Lined(Head(queue).vault, queue', db)
      BY <1>2, <1>4, <3>1, LinedTail DEF Line, Types
    <3> QED BY <1>2, <3>1, <3>2 DEF Line, Made
  <2>2. disk' = NoFile \/ Made(disk)'
    BY <1>2, <1>3 DEF VaultInv, FileInv, Made
  <2>3. \A b \in backups' : b.gen <= made'
    BY <1>2 DEF VaultInv, FileInv
  <2>4. CASE app = "opening"
    <3>1. disk' = db' /\ \A i \in 1 .. Len(queue') : queue'[i].vault = db' /\ queue'[i].owner = "launch"
      BY <1>2, <1>3, <2>4 DEF VaultInv, FileInv
    <3>2. Quiet'
      <4>1. call' = call
        BY <1>0, <1>3, <2>4, CallsAreFew DEF Written, Told
      <4> QED BY <1>2, <2>4, <4>1 DEF VaultInv, FileInv, Quiet
    <3> QED BY <1>2, <2>1, <2>2, <2>3, <2>4, <3>1, <3>2 DEF FileInv
  <2>5. CASE app = "up"
    <3>1. disk' # NoFile /\ disk' \in SoundVaults
      BY <1>2, <1>3, <2>5 DEF VaultInv, FileInv
    <3>2. \A i \in 1 .. Len(queue') : queue'[i].owner # "launch"
      BY <1>3, <2>5 DEF VaultInv, FileInv
    <3> QED BY <1>2, <2>1, <2>2, <2>3, <2>5, <3>1, <3>2 DEF FileInv
  <2> QED BY <1>3, <2>4, <2>5
<1>7. ResetInv'
  <2>1. \A k \in Call : Does(k, "reset")' /\ call'[k].pc \in {"saving"} \cup Ended => marker' = db'.workspace
    BY <1>1, <1>2 DEF VaultInv, ResetInv, Does
  <2>2. CASE app = "opening"
    <3>1. disk' = db
      BY <1>2, <1>3, <2>2
    <3> QED BY <1>2, <2>1, <2>2, <3>1 DEF VaultInv, ResetInv
  <2>3. CASE app = "up"
    <3>1. disk # NoFile /\ disk'.workspace = disk.workspace
      BY <1>2, <1>3, <2>3, UpFacts
    <3> QED BY <1>2, <2>1, <2>3, <3>1 DEF VaultInv, ResetInv
  <2> QED BY <1>3, <2>2, <2>3
<1> QED BY <1>5, <1>6, <1>7

LEMMA WrittenCalls ==
  ASSUME VaultInv, NEW how, Written(how)
  PROVE  CallInv' /\ GuardInv'
<1> DEFINE S == {j \in Call : Counted(j)}
           T == {j \in Call : Counted(j)'}
<1>0. PICK o : o = Head(queue).owner
  OBVIOUS
<1>1. /\ o \in Call => /\ call[o].pc = "saving" /\ call'[o].pc = how
                       /\ call'[o].does = call[o].does /\ call'[o].gen = call[o].gen
                       /\ call'[o].key = call[o].key /\ call'[o].from = call[o].from
      /\ \A j \in Call : j # o => call'[j] = call[j]
      /\ \A j \in Call : call[j].pc \notin Ended
  BY <1>0, WrittenFacts
<1>2. /\ queue # <<>> /\ queue' = Tail(queue) /\ how \in Ended
      /\ UNCHANGED <<db, inFlight, restoring, lease, run, made>>
  BY DEF Written, guards, agent
<1>3. /\ Len(queue') = Len(queue) - 1 /\ Len(queue) \in Nat
      /\ \A i \in 1 .. Len(queue') : i + 1 \in 1 .. Len(queue) /\ i + 1 # 1 /\ queue'[i] = queue[i + 1]
      /\ queue[1].owner = o /\ 1 \in 1 .. Len(queue)
  BY <1>0, <1>2, QueueFacts
<1>4. CallInv'
  <2>1. \A j \in Call : CallShape(j)'
    <3>1. ASSUME o \in Call PROVE CallShape(o)'
      <4>1. call[o].does \in Purpose /\ call[o].from.gen <= made
        BY <1>1, <3>1, CallFacts, IdleFacts DEF CallShape
      <4> QED BY <1>1, <1>2, <3>1, <4>1 DEF CallShape, Ended
    <3>2. ASSUME NEW j \in Call, j # o PROVE CallShape(j)'
      BY <1>1, <1>2, <3>2, CallFacts DEF CallShape
    <3> QED BY <3>1, <3>2
  <2>2. ASSUME NEW i \in 1 .. Len(queue'), queue'[i].owner \in Call
        PROVE  queue'[i].owner # o /\ call'[queue'[i].owner].pc = "saving"
    <3>1. i + 1 \in 1 .. Len(queue) /\ i + 1 # 1 /\ queue'[i] = queue[i + 1]
      BY <1>3
    <3>2. queue[i + 1].owner # o
      BY <1>3, <2>2, <3>1 DEF VaultInv, CallInv
    <3>3. call[queue[i + 1].owner].pc = "saving"
      BY <2>2, <3>1 DEF VaultInv, CallInv
    <3> QED BY <1>1, <2>2, <3>1, <3>2, <3>3
  <2>3. ASSUME NEW i \in 1 .. Len(queue'), NEW j \in 1 .. Len(queue'),
               queue'[i].owner \in Call, queue'[i].owner = queue'[j].owner
        PROVE  i = j
    <3>1. /\ i + 1 \in 1 .. Len(queue) /\ queue'[i] = queue[i + 1]
          /\ j + 1 \in 1 .. Len(queue) /\ queue'[j] = queue[j + 1]
      BY <1>3
    <3>2. i + 1 = j + 1
      BY <2>3, <3>1 DEF VaultInv, CallInv
    <3> QED BY <3>2
  <2>4. \A i, j \in Call : call'[i].pc \in Ended /\ call'[j].pc \in Ended => i = j
    BY <1>1
  <2> QED BY <2>1, <2>2, <2>3, <2>4 DEF CallInv
<1>5. how \notin {"idle", "reading backup"}
  BY <1>2 DEF Ended
<1>6. /\ \A j \in Call : Counted(j)' <=> Counted(j)
      /\ \A j \in Call : Does(j, "restore")' <=> Does(j, "restore")
      /\ \A j \in Call : call'[j].gen = call[j].gen
      /\ \A j \in Call : call'[j].pc = "reading backup" <=> call[j].pc = "reading backup"
  BY <1>1, <1>5 DEF Counted, Dispatched, Does, Busy
<1>7. GuardInv'
  <2>1. inFlight' = Cardinality(T)
    <3>1. T = S
      BY <1>6
    <3> QED BY <1>2, <3>1 DEF VaultInv, GuardInv
  <2>2. restoring' = \E j \in Call : Does(j, "restore")'
    BY <1>2, <1>6 DEF VaultInv, GuardInv
  <2> QED BY <1>2, <1>6, <2>1, <2>2 DEF VaultInv, GuardInv
<1> QED BY <1>4, <1>7

LEMMA WrittenKey ==
  ASSUME VaultInv, NEW how, Written(how)
  PROVE  KeyInv'
<1>0. PICK o : o = Head(queue).owner
  OBVIOUS
<1>1. /\ o \in Call => /\ call[o].pc = "saving" /\ call'[o].pc = how
                       /\ call'[o].does = call[o].does /\ call'[o].key = call[o].key
      /\ \A j \in Call : j # o => call'[j] = call[j]
      /\ \A j \in Call : call[j].pc \notin Ended
  BY <1>0, WrittenFacts
<1>2. /\ queue # <<>> /\ queue' = Tail(queue) /\ how \in Ended
      /\ UNCHANGED <<db, run, agentKey, unsure, unread, app>>
  BY DEF Written, agent
<1>3. /\ Len(queue') = Len(queue) - 1 /\ Len(queue) \in Nat
      /\ \A i \in 1 .. Len(queue') : i + 1 \in 1 .. Len(queue) /\ queue'[i] = queue[i + 1]
      /\ \A i \in 1 .. Len(queue) : i # 1 => i - 1 \in 1 .. Len(queue') /\ queue'[i - 1] = queue[i]
      /\ queue[1].owner = o /\ 1 \in 1 .. Len(queue)
  BY <1>0, <1>2, QueueFacts
<1>4. KeyInv
  BY DEF VaultInv
<1>5. \A j \in Call : call'[j].does = call[j].does /\ call'[j].key = call[j].key
  BY <1>1
<1>6. \A i \in 1 .. Len(queue') : KeyAt(i)' <=> KeyAt(i + 1)
  BY <1>3, <1>5 DEF KeyAt, KeyCall, Does
<1>7. \A i \in 1 .. Len(queue) : i # 1 => (KeyAt(i - 1)' <=> KeyAt(i))
  BY <1>3, <1>5 DEF KeyAt, KeyCall, Does
<1>8. KeyQueued'
  <2> SUFFICES ASSUME NEW i \in 1 .. Len(queue'), KeyAt(i)'
               PROVE  \/ call'[queue'[i].owner].key = db'.key
                      \/ \E j \in 1 .. Len(queue') : j > i /\ KeyAt(j)'
    BY DEF KeyQueued
  <2>1. i + 1 \in 1 .. Len(queue) /\ KeyAt(i + 1) /\ queue'[i] = queue[i + 1]
    BY <1>3, <1>6
  <2>2. CASE call[queue[i + 1].owner].key = db.key
    BY <1>2, <1>5, <2>1, <2>2 DEF KeyAt, KeyCall
  <2>3. CASE \E j \in 1 .. Len(queue) : j > i + 1 /\ KeyAt(j)
    <3>1. PICK j \in 1 .. Len(queue) : j > i + 1 /\ KeyAt(j)
      BY <2>3
    <3>2. j # 1 /\ j - 1 \in 1 .. Len(queue') /\ j - 1 > i
      BY <1>3, <3>1
    <3>3. KeyAt(j - 1)'
      BY <1>7, <3>1, <3>2
    <3> QED BY <3>2, <3>3
  <2> QED BY <1>4, <2>1, <2>2, <2>3 DEF KeyInv, KeyQueued
<1>9. KeySaved'
  <2> SUFFICES ASSUME NEW k \in Call, KeyCall(k)', call'[k].pc \in Ended
               PROVE  \/ call'[k].key = db'.key
                      \/ \E j \in 1 .. Len(queue') : KeyAt(j)'
    BY DEF KeySaved
  <2>1. k = o
    BY <1>1
  <2>2. KeyAt(1)
    BY <1>3, <1>5, <2>1 DEF KeyAt, KeyCall, Does
  <2>3. CASE call[o].key = db.key
    BY <1>2, <1>5, <2>1, <2>3
  <2>4. CASE \E j \in 1 .. Len(queue) : j > 1 /\ KeyAt(j)
    <3>1. PICK j \in 1 .. Len(queue) : j > 1 /\ KeyAt(j)
      BY <2>4
    <3>2. j # 1 /\ j - 1 \in 1 .. Len(queue')
      BY <1>3, <3>1
    <3>3. KeyAt(j - 1)'
      BY <1>7, <3>1, <3>2
    <3> QED BY <3>2, <3>3
  <2> QED BY <1>3, <1>4, <2>2, <2>3, <2>4 DEF KeyInv, KeyQueued
<1>10. KeyUsed'
  <2>1. Untouched' => Untouched
    <3> SUFFICES ASSUME Untouched' PROVE Untouched
      OBVIOUS
    <3>1. ASSUME o \in Call PROVE ~ Does(o, "key") /\ ~ Does(o, "restore")
      BY <1>1, <1>2, <3>1 DEF Untouched, Does, Ended
    <3> QED BY <1>1, <3>1 DEF Untouched, Does
  <2> QED BY <1>2, <1>4, <2>1 DEF KeyInv, KeyUsed, Fits
<1> QED BY <1>2, <1>4, <1>8, <1>9, <1>10 DEF KeyInv

LEMMA WrittenKeeps == ASSUME VaultInv, NEW how, Written(how) PROVE VaultInv'
BY WrittenFile, WrittenCalls, WrittenKey DEF VaultInv


-----------------------------------------------------------------------------
(* Launching, and the end of the process *)

\* Nothing runs in the state a step leads to.
LEMMA QuietNext ==
  ASSUME Quiet', \A i \in 1 .. Len(queue') : queue'[i].owner \notin Call, KeyUsed'
  PROVE  CallInv' /\ GuardInv' /\ KeyInv'
<1>1. /\ \A k \in Call : call'[k] = Idle /\ call'[k].pc = "idle" /\ call'[k].does = "nothing"
      /\ inFlight' = 0 /\ restoring' = FALSE /\ ~ lease' /\ run' = NoRun
  BY IdleFacts DEF Quiet
<1>2. CallInv'
  BY <1>1 DEF CallInv, CallShape, Ended
<1>3. GuardInv'
  <2> DEFINE T == {j \in Call : Counted(j)'}
  <2>1. \A j \in Call : ~ Counted(j)' /\ ~ Does(j, "restore")'
    BY <1>1 DEF Counted, Dispatched, Does, Busy
  <2>2. Cardinality(T) = 0
    BY <2>1, FS_EmptySet
  <2>3. restoring' = \E j \in Call : Does(j, "restore")'
    BY <2>1, <1>1 DEF Quiet
  <2> QED BY <1>1, <2>1, <2>2, <2>3 DEF GuardInv
<1>4. KeyQueued' /\ KeySaved'
  BY <1>1 DEF KeyQueued, KeySaved, KeyAt, KeyCall, Does
<1>5. run'.phase = "none"
  BY <1>1 DEF NoRun
<1> QED BY <1>2, <1>3, <1>4, <1>5 DEF KeyInv

LEMMA GoneKeeps ==
  ASSUME VaultInv, Gone, UNCHANGED <<marker, backups, doomed, made>>,
         \/ disk' = disk
         \/ queue # <<>> /\ disk' = Head(queue).vault
  PROVE  VaultInv'
<1>1. Types
  BY DEF VaultInv
<1>2. /\ app' = "down" /\ db' = NoFile /\ queue' = <<>> /\ call' = [k \in Call |-> Idle]
      /\ inFlight' = 0 /\ restoring' = FALSE /\ lease' = FALSE /\ run' = NoRun
      /\ agentKey' = None /\ unsure' = FALSE /\ unread' = FALSE
  BY DEF Gone
<1>3. disk' \in KeptVaults /\ (disk' = NoFile \/ Made(disk)')
  <2>1. CASE disk' = disk
    BY <1>1, <2>1 DEF Types, Made, VaultInv, FileInv
  <2>2. CASE queue # <<>> /\ disk' = Head(queue).vault
    BY <2>2, QueueFacts DEF KeptVaults, Made
  <2> QED BY <2>1, <2>2
<1>4. /\ NoFile \in SoundVaults /\ Idle \in CallRecord /\ NoRun \in RunRecord /\ None \in AgentKeys
      /\ "down" \in {"down", "marked", "unlinked", "reading", "opening", "up"}
  BY NoFileSound, IdleFacts DEF NoRun, RunRecord, AgentKeys
<1>5. call' \in [Call -> CallRecord] /\ queue' \in Seq(Snapshots)
  BY <1>2, <1>4
<1>6. Types'
  BY <1>1, <1>2, <1>3, <1>4, <1>5 DEF Types
<1>7. Quiet'
  BY <1>2 DEF Quiet
<1>8. FileInv'
  BY <1>2, <1>3, <1>7 DEF VaultInv, FileInv
<1>9. ResetInv'
  <2>1. \A k \in Call : ~ Does(k, "reset")'
    BY <1>2, IdleFacts DEF Does
  <2>2. /\ marker' # 0 /\ disk' # NoFile => disk'.workspace = marker'
        /\ disk' # NoFile /\ disk'.workspace \in doomed' => marker' = disk'.workspace
    <3>1. CASE disk' = disk
      BY <3>1 DEF VaultInv, ResetInv
    <3>2. CASE queue # <<>> /\ disk' = Head(queue).vault /\ app = "opening"
      <4>1. disk' = db /\ marker = 0 /\ db.workspace \notin doomed
        BY <3>2, QueueFacts DEF VaultInv, ResetInv
      <4> QED BY <4>1
    <3>3. CASE queue # <<>> /\ disk' = Head(queue).vault /\ app = "up"
      <4>1. disk # NoFile /\ disk'.workspace = disk.workspace
        BY <3>3, QueueFacts, UpFacts
      <4> QED BY <4>1 DEF VaultInv, ResetInv
    <3> QED BY <3>1, <3>2, <3>3, QueueFacts
  <2> QED BY <1>2, <2>1, <2>2 DEF ResetInv
<1>10. KeyUsed' /\ \A i \in 1 .. Len(queue') : queue'[i].owner \notin Call
  BY <1>2 DEF KeyUsed
<1> QED BY <1>6, <1>7, <1>8, <1>9, <1>10, QuietNext DEF VaultInv

LEMMA LaunchFacts ==
  ASSUME VaultInv, app # "up", UNCHANGED <<call, guards, run>>
  PROVE  Quiet /\ Quiet'
BY DEF VaultInv, FileInv, Quiet, guards

LEMMA FindMarkerKeeps == ASSUME VaultInv, FindMarker PROVE VaultInv'
<1>1. /\ app = "down" /\ app' = IF marker # 0 THEN "marked" ELSE "reading"
      /\ UNCHANGED <<disk, marker, backups, doomed, db, queue, call, guards, inFlight, restoring,
                     lease, run, agentKey, unsure, unread, made>>
  BY DEF FindMarker, files, guards, agent
<1>2. Quiet' /\ queue = <<>>
  BY <1>1, LaunchFacts DEF VaultInv, FileInv
<1>3. Types'
  BY <1>1 DEF VaultInv, Types
<1>4. FileInv'
  BY <1>1, <1>2 DEF VaultInv, FileInv, Made
<1>5. ResetInv'
  BY <1>1 DEF VaultInv, ResetInv, Does
<1>6. KeyUsed' /\ \A i \in 1 .. Len(queue') : queue'[i].owner \notin Call
  BY <1>1, <1>2 DEF KeyUsed
<1> QED BY <1>2, <1>3, <1>4, <1>5, <1>6, QuietNext DEF VaultInv

LEMMA UnlinkVaultKeeps == ASSUME VaultInv, UnlinkVault PROVE VaultInv'
<1>1. /\ app = "marked" /\ app' = "unlinked" /\ disk' = NoFile
      /\ UNCHANGED <<marker, backups, doomed, db, queue, call, guards, inFlight, restoring,
                     lease, run, agentKey, unsure, unread, made>>
  BY DEF UnlinkVault, guards, agent
<1>2. Quiet' /\ queue = <<>>
  BY <1>1, LaunchFacts DEF VaultInv, FileInv
<1>3. Types'
  BY <1>1, NoFileSound DEF VaultInv, Types, KeptVaults
<1>4. FileInv'
  BY <1>1, <1>2 DEF VaultInv, FileInv
<1>5. ResetInv'
  BY <1>1 DEF VaultInv, ResetInv, Does
<1>6. KeyUsed' /\ \A i \in 1 .. Len(queue') : queue'[i].owner \notin Call
  BY <1>1, <1>2 DEF KeyUsed
<1> QED BY <1>2, <1>3, <1>4, <1>5, <1>6, QuietNext DEF VaultInv

LEMMA UnlinkMarkerKeeps == ASSUME VaultInv, UnlinkMarker PROVE VaultInv'
<1>1. /\ app = "unlinked" /\ app' = "reading" /\ marker' = 0
      /\ UNCHANGED <<disk, backups, doomed, db, queue, call, guards, inFlight, restoring,
                     lease, run, agentKey, unsure, unread, made>>
  BY DEF UnlinkMarker, guards, agent
<1>2. Quiet' /\ queue = <<>> /\ disk = NoFile
  BY <1>1, LaunchFacts DEF VaultInv, FileInv, ResetInv
<1>3. Types'
  BY <1>1 DEF VaultInv, Types
<1>4. FileInv'
  BY <1>1, <1>2 DEF VaultInv, FileInv
<1>5. ResetInv'
  <2>1. \A k \in Call : ~ Does(k, "reset")'
    BY <1>2, IdleFacts DEF Quiet, Does
  <2> QED BY <1>1, <1>2, <2>1 DEF ResetInv
<1>6. KeyUsed' /\ \A i \in 1 .. Len(queue') : queue'[i].owner \notin Call
  BY <1>1, <1>2 DEF KeyUsed
<1> QED BY <1>2, <1>3, <1>4, <1>5, <1>6, QuietNext DEF VaultInv

LEMMA OpenVaultKeeps == ASSUME VaultInv, OpenVault PROVE VaultInv'
<1>0. PICK d : d = IF disk = NoFile THEN Fresh ELSE Opened(disk)
  OBVIOUS
<1>1. /\ app = "reading" /\ app' = "opening"
      /\ db' = d /\ queue' = Append(queue, [vault |-> d, owner |-> "launch"])
      /\ made' = IF disk = NoFile THEN made + 1 ELSE made
      /\ UNCHANGED <<disk, marker, backups, doomed, call, guards, inFlight, restoring,
                     lease, run, agentKey, unsure, unread>>
  BY <1>0 DEF OpenVault, Persist, files, guards, agent
<1>2. Quiet' /\ queue = <<>> /\ marker = 0
  BY <1>1, LaunchFacts DEF VaultInv, FileInv, ResetInv
<1>3. /\ made \in Nat /\ made >= 1 /\ disk \in KeptVaults /\ doomed \subseteq 1 .. made
      /\ disk = NoFile \/ Made(disk)
  BY DEF VaultInv, Types, FileInv
<1>4. /\ d \in SoundVaults /\ d.gen \in 1 .. made' /\ d.workspace \in 1 .. made'
      /\ d.workspace \notin doomed /\ made' \in Nat /\ made <= made'
      /\ disk = NoFile \/ (disk.workspace = d.workspace /\ disk.gen = d.gen)
  <2>1. CASE disk = NoFile
    <3>1. d \in SoundVaults /\ d.gen = made + 1 /\ d.workspace = made + 1
      BY <1>0, <1>3, <2>1, FreshSound
    <3> QED BY <1>1, <1>3, <2>1, <3>1
  <2>2. CASE disk # NoFile
    <3>1. d \in SoundVaults /\ d.gen = disk.gen /\ d.workspace = disk.workspace
      BY <1>0, <1>3, <2>2, KeptFields
    <3>2. disk.workspace \notin doomed
      BY <1>2, <1>3, <2>2 DEF VaultInv, ResetInv, Made
    <3> QED BY <1>1, <1>3, <2>2, <3>1, <3>2 DEF Made
  <2> QED BY <2>1, <2>2
<1>5. /\ queue' \in Seq(Snapshots) /\ Len(queue') = 1
      /\ queue'[1].vault = d /\ queue'[1].owner = "launch"
  <2> DEFINE s == [vault |-> d, owner |-> "launch"]
  <2>1. s \in Snapshots /\ s.vault = d /\ s.owner = "launch"
    BY <1>4 DEF Snapshots, Owner
  <2>2. queue' = <<s>>
    BY <1>1, <1>2
  <2> HIDE DEF s
  <2> QED BY <2>1, <2>2
<1>6. Types'
  <2>1. Types
    BY DEF VaultInv
  <2>2. marker' \in 0 .. made' /\ doomed' \subseteq 1 .. made' /\ made' >= 1
    BY <1>1, <1>2, <1>3, <1>4
  <2> QED BY <1>1, <1>4, <1>5, <2>1, <2>2 DEF Types
<1>7. Lined(disk, queue', d)
  <2>1. disk.gen <= d.gen /\ d.gen \in Nat
    <3>1. NoFile.gen = 0 /\ made' \in Nat
      BY <1>4 DEF NoFile
    <3> QED BY <1>4, <3>1
  <2> QED BY <1>4, <1>5, <2>1 DEF Lined
<1>8. FileInv'
  <2>1. disk' = NoFile \/ Made(disk)'
    BY <1>1, <1>3, <1>4 DEF Made
  <2>2. \A b \in backups' : b.gen <= made'
    <3>1. \A b \in backups : b.gen \in Nat /\ b.gen <= made
      BY KeptFields DEF VaultInv, FileInv, Types
    <3> QED BY <1>1, <1>3, <1>4, <3>1
  <2>3. Made(db)' /\ Line'
    BY <1>1, <1>4, <1>7 DEF Made, Line
  <2>4. \A i \in 1 .. Len(queue') : queue'[i].vault = db' /\ queue'[i].owner = "launch"
    BY <1>1, <1>5
  <2>5. queue' # <<>>
    <3>1. queue' = <<>> => Len(queue') = 0
      OBVIOUS
    <3> QED BY <1>5, <3>1
  <2> QED BY <1>1, <1>2, <2>1, <2>2, <2>3, <2>4, <2>5 DEF FileInv
<1>9. ResetInv'
  <2>1. \A k \in Call : ~ Does(k, "reset")'
    BY <1>2, IdleFacts DEF Quiet, Does
  <2> QED BY <1>1, <1>2, <1>4, <2>1 DEF VaultInv, ResetInv
<1>10. KeyUsed' /\ \A i \in 1 .. Len(queue') : queue'[i].owner \notin Call
  BY <1>1, <1>5, CallsAreFew DEF KeyUsed
<1> QED BY <1>2, <1>6, <1>8, <1>9, <1>10, QuietNext DEF VaultInv

LEMMA FinishLaunchKeeps == ASSUME VaultInv, FinishLaunch PROVE VaultInv'
<1>1. /\ app = "opening" /\ queue = <<>> /\ app' = IF Verified(db) THEN "up" ELSE "refused"
      /\ LoadKey({LaunchKey})
      /\ UNCHANGED <<disk, marker, backups, doomed, db, queue, call, guards, inFlight, restoring,
                     lease, run, made>>
  BY DEF FinishLaunch, files, guards
<1>2. Quiet'
  BY <1>1, LaunchFacts
<1>3. db \in SoundVaults /\ app' = "up"
  BY <1>1, SoundVerified, DbSound
<1>4. /\ agentKey' \in AgentKeys /\ unsure' \in BOOLEAN /\ unread' \in BOOLEAN
      /\ Fits(agentKey, db)'
  BY <1>1, <1>3, LoadKeyFits
<1>5. Types'
  BY <1>1, <1>3, <1>4 DEF VaultInv, Types
<1>6. FileInv'
  <2>1. disk = db /\ disk' = disk
    BY <1>1 DEF VaultInv, FileInv
  <2>2. Made(db) /\ Line
    BY <1>1 DEF VaultInv, FileInv
  <2>3. disk # NoFile
    <3>1. NoFile.gen = 0
      BY DEF NoFile
    <3> QED BY <2>1, <2>2, <3>1 DEF Made, VaultInv, Types
  <2> QED BY <1>1, <1>2, <1>3, <2>1, <2>2, <2>3 DEF VaultInv, FileInv, Made, Line
<1>7. ResetInv'
  BY <1>1, <1>3 DEF VaultInv, ResetInv, Does
<1>8. KeyUsed' /\ \A i \in 1 .. Len(queue') : queue'[i].owner \notin Call
  BY <1>1, <1>4 DEF KeyUsed
<1> QED BY <1>2, <1>5, <1>6, <1>7, <1>8, QuietNext DEF VaultInv


-----------------------------------------------------------------------------
(* Every step *)

LEMMA WriteSnapshotKeeps == ASSUME VaultInv, WriteSnapshot PROVE VaultInv'
<1>1. Written("saved")
  BY DEF WriteSnapshot, Written, Ended
<1> QED BY <1>1, WrittenKeeps

LEMMA WriteFailsKeeps == ASSUME VaultInv, WriteFails PROVE VaultInv'
<1>1. CASE Head(queue).owner = "launch"
  BY <1>1, GoneKeeps DEF WriteFails
<1>2. CASE Head(queue).owner # "launch"
  <2>1. Written("unsaved")
    BY <1>2 DEF WriteFails, Written, Ended
  <2> QED BY <2>1, WrittenKeeps
<1> QED BY <1>1, <1>2

LEMMA QuitEndsKeeps == ASSUME VaultInv, NEW k \in Call, QuitEnds(k) PROVE VaultInv'
<1>1. CASE Gone /\ UNCHANGED <<files, made, counters>>
  BY <1>1, GoneKeeps DEF files
<1>2. CASE At(k, "unsaved") /\ Ends(k)
  <2>1. Does(k, "quit") /\ Busy(k) /\ call[k].pc # "saving"
    BY <1>2 DEF QuitEnds, At, Busy
  <2> QED BY <1>2, <2>1, EndsRelease, PlainEnd DEF Does
<1> QED BY <1>1, <1>2 DEF QuitEnds

LEMMA NoFileKept == NoFile \in KeptVaults /\ NoFile.gen = 0
BY NoFileSound DEF KeptVaults, NoFile

\* A command that CommandService dispatches.
LEMMA DispatchKeeps ==
  ASSUME VaultInv, NEW k \in Call, NEW what \in Purpose \ (Outsider \cup {"restore"}), NEW pc,
         <<what, pc>> \in Begins, NEW key \in Key \cup {None}, pc = "removing" => key = None,
         Dispatch(k, what, pc, key)
  PROVE  VaultInv'
<1>1. made \in Nat
  BY DEF VaultInv, Types
<1>2. Begun(k, what, pc, key, NoFile)
  BY <1>1, NoFileKept DEF Dispatch, Begun, files, agent
<1> QED BY <1>2, BegunKeeps

LEMMA OutsideKeeps ==
  ASSUME VaultInv, NEW k \in Call, NEW what \in Outsider, NEW pc, <<what, pc>> \in Begins,
         pc # "removing", Begin(k, what, pc, None, NoFile),
         UNCHANGED <<files, app, db, queue, guards, agent, made, faults>>
  PROVE  VaultInv'
<1>1. made \in Nat /\ what \in Purpose
  BY DEF VaultInv, Types, Outsider, Purpose
<1>2. Begun(k, what, pc, None, NoFile)
  BY <1>1, NoFileKept DEF Begun, files, agent
<1> QED BY <1>2, BegunKeeps

LEMMA ExportBackupKeeps == ASSUME VaultInv, NEW k \in Call, ExportBackup(k) PROVE VaultInv'
<1>1. <<"export", "encrypting backup">> \in Begins /\ "export" \in Purpose \ (Outsider \cup {"restore"})
  BY DEF Begins, Purpose, Outsider
<1>2. app = "up"
  BY DEF ExportBackup, Begin
<1>3. db \in KeptVaults /\ db.gen <= made
  <2>1. db \in SoundVaults /\ Made(db) /\ made \in Nat
    BY <1>2 DEF VaultInv, FileInv, Types
  <2> QED BY <2>1 DEF KeptVaults, Made
<1>4. Begun(k, "export", "encrypting backup", None, db)
  BY <1>1, <1>3 DEF ExportBackup, Begun, files, agent
<1> QED BY <1>4, BegunKeeps

LEMMA RestoreKeeps ==
  ASSUME VaultInv, NEW k \in Call, NEW b \in backups, Restore(k, b) PROVE VaultInv'
<1>1. <<"restore", "reading backup">> \in Begins /\ "restore" \in Purpose
  BY DEF Begins, Purpose
<1>2. b \in KeptVaults /\ b.gen <= made
  BY DEF VaultInv, FileInv, Types
<1>3. Begun(k, "restore", "reading backup", None, b)
  BY <1>1, <1>2 DEF Restore, Begun, files, agent
<1> QED BY <1>3, BegunKeeps

LEMMA FounderKeeps == ASSUME VaultInv, NEW k \in Call, Founder(k) PROVE VaultInv'
<1> DEFINE Commands == Purpose \ (Outsider \cup {"restore"})
<1>1. /\ {"change", "key", "run", "reset"} \subseteq Commands /\ {"mail", "quit"} \subseteq Outsider
      /\ {<<"change", "working">>, <<"key", "encrypting">>, <<"key", "removing">>,
          <<"run", "creating">>, <<"reset", "marking">>, <<"mail", "outside">>,
          <<"quit", "quitting">>} \subseteq Begins
  BY DEF Purpose, Outsider, Begins
<1> HIDE DEF Commands
<1>2. ASSUME NEW what \in Commands, NEW pc, <<what, pc>> \in Begins, NEW key \in Key \cup {None},
             pc = "removing" => key = None, Dispatch(k, what, pc, key)
      PROVE  VaultInv'
  BY <1>2, DispatchKeeps DEF Commands
<1>3. CASE Dispatch(k, "change", "working", None)
  BY <1>1, <1>2, <1>3
<1>4. CASE \E key \in Key : SetKey(k, key)
  BY <1>1, <1>2, <1>4 DEF SetKey
<1>5. CASE RemoveKey(k)
  BY <1>1, <1>2, <1>5 DEF RemoveKey
<1>6. CASE AgentRun(k)
  BY <1>1, <1>2, <1>6 DEF AgentRun
<1>7. CASE ExportBackup(k)
  BY <1>7, ExportBackupKeeps
<1>8. CASE \E b \in backups : Restore(k, b)
  BY <1>8, RestoreKeeps
<1>9. CASE Reset(k)
  BY <1>1, <1>2, <1>9 DEF Reset
<1>10. CASE OutsideStarts(k)
  BY <1>1, <1>10, OutsideKeeps DEF OutsideStarts
<1>11. CASE Quit(k)
  BY <1>1, <1>11, OutsideKeeps DEF Quit
<1> QED BY <1>3, <1>4, <1>5, <1>6, <1>7, <1>8, <1>9, <1>10, <1>11 DEF Founder

LEMMA ProceedKeeps == ASSUME VaultInv, NEW k \in Call, Proceed(k) PROVE VaultInv'
<1>1. CASE Change(k) \/ ChangeGoesOn(k) \/ ChangeEnds(k)
  BY <1>1, ChangeKeeps, ChangeGoesOnKeeps, ChangeEndsKeeps
<1>2. CASE EncryptingFails(k) \/ StoreKey(k) \/ DeleteKey(k) \/ UseKey(k) \/ KeyNotSaved(k)
  BY <1>2, EncryptingFailsKeeps, StoreKeyKeeps, DeleteKeyKeeps, UseKeyKeeps, KeyNotSavedKeeps
<1>3. CASE CreateAgentRun(k) \/ StartRun(k) \/ RunNotCreated(k) \/ StoreBackup(k)
  BY <1>3, CreateAgentRunKeeps, StartRunKeeps, RunNotCreatedKeeps, StoreBackupKeeps
<1>4. CASE \/ RefuseBackup(k) \/ ReplaceVault(k) \/ RestoreNotSaved(k) \/ Reload(k)
           \/ RestoreEnds(k)
  BY <1>4, RefuseBackupKeeps, ReplaceVaultKeeps, RestoreNotSavedKeeps, ReloadKeeps, RestoreEndsKeeps
<1>5. CASE WriteMarker(k) \/ MarkerFails(k) \/ ResetScheduled(k) \/ ExportOrResetEnds(k)
  BY <1>5, WriteMarkerKeeps, MarkerFailsKeeps, ResetScheduledKeeps, ExportOrResetEndsKeeps
<1>6. CASE OutsideSaves(k) \/ OutsideEnds(k) \/ QuitSaves(k) \/ QuitEnds(k)
  BY <1>6, OutsideSavesKeeps, OutsideEndsKeeps, QuitSavesKeeps, QuitEndsKeeps
<1> QED BY <1>1, <1>2, <1>3, <1>4, <1>5, <1>6, Zenon DEF Proceed

LEMMA NextKeeps == VaultInv /\ [Next]_vars => VaultInv'
<1> SUFFICES ASSUME VaultInv, [Next]_vars PROVE VaultInv'
  OBVIOUS
<1>1. CASE Launch
  BY <1>1, FindMarkerKeeps, UnlinkVaultKeeps, UnlinkMarkerKeeps, OpenVaultKeeps, FinishLaunchKeeps
     DEF Launch
<1>2. CASE Saving
  BY <1>2, WriteSnapshotKeeps, WriteFailsKeeps DEF Saving
<1>3. CASE Crash \/ Relaunch
  BY <1>3, GoneKeeps DEF Crash, Relaunch, files
<1>4. CASE RunEvent \/ RunAnswered \/ RunEnds
  BY <1>4, RunEventKeeps, RunAnsweredKeeps, RunEndsKeeps
<1>5. CASE \E k \in Call : Founder(k) \/ Proceed(k)
  BY <1>5, FounderKeeps, ProceedKeeps
<1>6. CASE UNCHANGED vars
  <2>1. UNCHANGED <<disk, marker, app, db, queue, call, inFlight, restoring, lease, run, agentKey,
                    backups, made, doomed, unsure, unread>>
    BY <1>6 DEF vars
  <2>2. Types'
    BY <2>1 DEF VaultInv, Types
  <2>3. FileInv'
    BY <2>1 DEF VaultInv, FileInv, Made, Line, Quiet
  <2>4. ResetInv' /\ CallInv'
    BY <2>1 DEF VaultInv, ResetInv, CallInv, CallShape, Does
  <2>5. GuardInv'
    BY <2>1 DEF VaultInv, GuardInv, Counted, Dispatched, Does, Busy
  <2>6. KeyInv'
    BY <2>1 DEF VaultInv, KeyInv, KeyQueued, KeySaved, KeyUsed, Untouched, KeyAt, KeyCall, Does, Fits
  <2> QED BY <2>2, <2>3, <2>4, <2>5, <2>6 DEF VaultInv
<1> QED BY <1>1, <1>2, <1>3, <1>4, <1>5, <1>6 DEF Next

LEMMA InitHolds == Init => VaultInv
<1> SUFFICES ASSUME Init PROVE VaultInv
  OBVIOUS
<1>1. /\ NoFile \in SoundVaults /\ NoFile.gen = 0 /\ Idle \in CallRecord
      /\ Idle.pc = "idle" /\ Idle.does = "nothing"
      /\ NoRun \in RunRecord /\ NoRun.phase = "none" /\ None \in AgentKeys
  BY NoFileSound, NoFileKept, IdleFacts DEF NoRun, RunRecord, AgentKeys
<1>2. /\ OldVault \in KeptVaults /\ OldVault.gen = 1 /\ OldVault.workspace = 1
      /\ OwnVault \in KeptVaults /\ OwnVault.gen = 1 /\ OwnVault.workspace = 1
  BY OldFields, OwnSound DEF KeptVaults
<1>3. /\ marker = 0 /\ app = "down" /\ db = NoFile /\ queue = <<>> /\ made = 1 /\ doomed = {}
      /\ call = [k \in Call |-> Idle] /\ inFlight = 0 /\ restoring = FALSE /\ lease = FALSE
      /\ run = NoRun /\ agentKey = None /\ unsure = FALSE /\ unread = FALSE
      /\ disk \in {NoFile, OldVault, OwnVault} /\ backups \in {{OldVault}, {OwnVault}}
  BY DEF Init
<1>4. call \in [Call -> CallRecord] /\ \A k \in Call : call[k] = Idle
  BY <1>1, <1>3
<1>5. Types
  <2>1. disk \in KeptVaults /\ db \in SoundVaults /\ backups \subseteq KeptVaults
    <3>1. NoFile \in KeptVaults
      BY <1>1 DEF KeptVaults
    <3>2. {OldVault} \subseteq KeptVaults /\ {OwnVault} \subseteq KeptVaults
      BY <1>2, Zenon
    <3> QED BY <3>1, <3>2, <1>1, <1>2, <1>3, Zenon
  <2>2. made \in Nat /\ made >= 1 /\ marker \in 0 .. made /\ doomed \subseteq 1 .. made
    BY <1>3
  <2>3. app \in {"down", "marked", "unlinked", "reading", "opening", "up"}
    BY <1>3
  <2>4. queue \in Seq(Snapshots)
    BY <1>3
  <2>5. /\ inFlight \in Nat /\ restoring \in BOOLEAN /\ lease \in BOOLEAN
        /\ unsure \in BOOLEAN /\ unread \in BOOLEAN
    BY <1>3
  <2>6. run \in RunRecord /\ agentKey \in AgentKeys
    BY <1>1, <1>3
  <2> QED BY <1>4, <2>1, <2>2, <2>3, <2>4, <2>5, <2>6 DEF Types
<1>6. Quiet
  BY <1>3, <1>4 DEF Quiet
<1>7. FileInv
  BY <1>2, <1>3, <1>6 DEF FileInv, Made
<1>8. ResetInv
  BY <1>1, <1>3, <1>4 DEF ResetInv, Does
<1>9. CallInv
  BY <1>1, <1>3, <1>4 DEF CallInv, CallShape, Ended
<1>10. GuardInv
  <2>1. \A k \in Call : ~ Counted(k) /\ ~ Does(k, "restore")
    BY <1>1, <1>4 DEF Counted, Dispatched, Does, Busy
  <2>2. Cardinality({k \in Call : Counted(k)}) = 0
    BY <2>1, FS_EmptySet
  <2>3. restoring = \E k \in Call : Does(k, "restore")
    BY <1>3, <2>1
  <2> QED BY <1>1, <1>3, <2>1, <2>2, <2>3 DEF GuardInv
<1>11. KeyInv
  BY <1>1, <1>3, <1>4 DEF KeyInv, KeyQueued, KeySaved, KeyUsed, KeyCall, Does
<1> QED BY <1>5, <1>7, <1>8, <1>9, <1>10, <1>11 DEF VaultInv


-----------------------------------------------------------------------------
(* What it comes to *)

LEMMA VaultInvariance == Spec => []VaultInv
<1> QED BY InitHolds, NextKeeps, PTL DEF Spec

\* Every variable has its type in every state; in particular generations are
\* never made twice, nothing but vaults is saved, kept or put back, and
\* #commandsInFlight never leaves its range.
THEOREM VaultTypes == Spec => []VaultTypeOK
<1>1. VaultInv => VaultTypeOK
  <2> SUFFICES ASSUME VaultInv PROVE VaultTypeOK
    OBVIOUS
  <2>1. Types /\ FileInv /\ GuardInv
    BY DEF VaultInv
  <2>2. \A v \in KeptVaults : v \in Vaults /\ v.gen \in Nat
    BY KeptFields
  <2>3. SoundVaults \subseteq KeptVaults /\ SoundVaults \subseteq Vaults
    BY DEF KeptVaults, SoundVaults
  <2>4. disk \in KeptVaults /\ db \in KeptVaults /\ backups \subseteq KeptVaults /\ made \in Nat
    BY <2>1, <2>3 DEF Types
  <2>5. disk \in Vaults /\ db \in Vaults /\ backups \subseteq Vaults
    BY <2>2, <2>4
  <2>6. {disk.gen, db.gen} \cup {b.gen : b \in backups} \subseteq 0 .. made
    <3>1. disk.gen \in 0 .. made
      BY <2>1, <2>2, <2>4, NoFileKept DEF FileInv, Made
    <3>2. db.gen \in 0 .. made
      BY <2>1, <2>2, <2>4, NoFileKept DEF FileInv, Made, Types
    <3>3. \A b \in backups : b.gen \in 0 .. made
      BY <2>1, <2>2, <2>4 DEF FileInv
    <3> QED BY <3>1, <3>2, <3>3
  <2>7. queue \in Seq([vault : Vaults, owner : Call \cup {"launch", "run"}])
    <3>1. Snapshots \subseteq [vault : Vaults, owner : Call \cup {"launch", "run"}]
      BY <2>3 DEF Snapshots, Owner
    <3>2. queue \in Seq(Snapshots)
      BY <2>1 DEF Types
    <3>3. ASSUME NEW S, NEW T, S \subseteq T, NEW s \in Seq(S) PROVE s \in Seq(T)
      <4>1. /\ s = [i \in 1 .. Len(s) |-> s[i]] /\ Len(s) \in Nat
            /\ \A i \in 1 .. Len(s) : s[i] \in T
        BY ONLY <3>3
      <4> QED BY ONLY <4>1
    <3> QED BY <3>1, <3>2, <3>3
  <2>8. \A k \in Call : call[k].from \in Vaults /\ call[k].key \in Key \cup {None}
    <3> SUFFICES ASSUME NEW k \in Call
                 PROVE  call[k].from \in Vaults /\ call[k].key \in Key \cup {None}
      OBVIOUS
    <3>1. call[k] \in CallRecord
      BY <2>1 DEF Types
    <3> QED BY <3>1, <2>2 DEF CallRecord
  <2>9. inFlight \in 0 .. Cardinality(Call)
    <3> DEFINE S == {k \in Call : Counted(k)}
    <3>1. S \subseteq Call /\ IsFiniteSet(Call)
      BY CallsAreFew
    <3> HIDE DEF S
    <3>2. Cardinality(S) \in Nat /\ Cardinality(Call) \in Nat /\ Cardinality(S) <= Cardinality(Call)
      BY <3>1, FS_Subset, FS_CardinalityType
    <3>3. inFlight = Cardinality(S)
      BY <2>1 DEF GuardInv, S
    <3> QED BY <3>2, <3>3
  <2>10. /\ marker \in 0 .. made /\ doomed \subseteq 1 .. made
         /\ app \in {"down", "marked", "unlinked", "reading", "opening", "up", "refused"}
         /\ restoring \in BOOLEAN /\ lease \in BOOLEAN
         /\ run.phase \in {"none", "adapter", "delivering"}
         /\ agentKey \in Key \cup {LaunchKey, None} /\ unread \in BOOLEAN
    BY <2>1 DEF Types, RunRecord, AgentKeys
  <2> QED BY <2>5, <2>6, <2>7, <2>8, <2>9, <2>10 DEF VaultTypeOK
<1> QED BY <1>1, VaultInvariance, PTL

\* A restore replaces the vault under nobody's feet: while backup.restore works,
\* no command of CommandService.execute and no agent run is under way, each
\* of them works on the vault it began with, and the counter and the flags of
\* the two services are true to what is running.
THEOREM RestoreExcludes == Spec => []RestoreIsExclusive
<1>1. VaultInv => RestoreIsExclusive
  BY DEF VaultInv, GuardInv, Counted, RestoreIsExclusive
<1> QED BY <1>1, VaultInvariance, PTL

\* start() never refuses a vault the program wrote, or the vault of a version
\* before the chain: what verifyAuditChain looks at is complete in memory and
\* in the file, whatever was appended, back-filled, restored or lost.
THEOREM ChainsVerify == Spec => []AuditVerifies
<1>1. VaultInv => AuditVerifies
  <2> SUFFICES ASSUME VaultInv PROVE AuditVerifies
    OBVIOUS
  <2>1. app # "refused" /\ Verified(db)
    BY SoundVerified DEF VaultInv, Types
  <2>2. app = "up" => Verified(disk)
    BY SoundVerified, UpFacts
  <2> QED BY <2>1, <2>2 DEF AuditVerifies
<1> QED BY <1>1, VaultInvariance, PTL

\* scheduleReset and initialize delete the workspace the reset was asked in and
\* no other, wherever the program stops in between, and do not open it again
\* once the reset was reported as scheduled.
THEOREM ResetsHit == Spec => []ResetHitsItsWorkspace
<1>1. VaultInv => ResetHitsItsWorkspace
  BY DEF VaultInv, ResetInv, ResetHitsItsWorkspace
<1> QED BY <1>1, VaultInvariance, PTL

\* create, setCredential, removeCredential and reloadAfterVaultRestore leave the
\* agent with the key the vault has, when nothing of the key or of a restore is
\* under way or was reported as failed.  A stored key that could not be read,
\* which nobody is told of, leaves it with the key of the launch environment or
\* none, never with one that was replaced or removed; and a run keeps the key it
\* began with.
THEOREM AgentUsesTheVaultsKey == Spec => []AgentKeyIsTheVaults
<1>1. VaultInv => AgentKeyIsTheVaults
  <2> SUFFICES ASSUME VaultInv PROVE AgentKeyIsTheVaults
    OBVIOUS
  <2>1. KeyInv
    BY DEF VaultInv
  <2>2. ASSUME app = "up", ~ unsure, \A k \in Call : call[k].does \notin {"key", "restore"}
        PROVE  Fits(agentKey, db)
    BY <2>1, <2>2 DEF KeyInv, KeyUsed, Untouched, Does
  <2> QED BY <2>1, <2>2 DEF AgentKeyIsTheVaults, KeyInv, Fits
<1> QED BY <1>1, VaultInvariance, PTL

-----------------------------------------------------------------------------
(* The file from step to step *)

\* Only saving and the reset touch the file.
LEMMA FileTouched ==
  ASSUME [Next]_vars
  PROVE  \/ disk' = disk
         \/ disk' = NoFile
         \/ queue # <<>> /\ disk' = Head(queue).vault
<1>1. CASE Launch
  BY <1>1 DEF Launch, FindMarker, UnlinkVault, UnlinkMarker, OpenVault, FinishLaunch, files
<1>2. CASE Saving
  BY <1>2 DEF Saving, WriteSnapshot, WriteFails
<1>3. CASE Crash \/ Relaunch \/ RunEvent \/ RunAnswered \/ RunEnds
  BY <1>3 DEF Crash, Relaunch, RunEvent, RunAnswered, RunEnds, files
<1>4. ASSUME NEW k \in Call, Founder(k) PROVE disk' = disk
  BY <1>4 DEF Founder, Dispatch, SetKey, RemoveKey, AgentRun, ExportBackup, Restore, Reset,
              OutsideStarts, Quit, files
<1>5. ASSUME NEW k \in Call, Proceed(k) PROVE disk' = disk
  <2>1. CASE Change(k) \/ ChangeGoesOn(k) \/ ChangeEnds(k)
    BY <2>1 DEF Change, ChangeGoesOn, ChangeEnds, Ends, files
  <2>2. CASE EncryptingFails(k) \/ StoreKey(k) \/ DeleteKey(k) \/ UseKey(k) \/ KeyNotSaved(k)
    BY <2>2 DEF EncryptingFails, StoreKey, DeleteKey, UseKey, KeyNotSaved, Ends, files
  <2>3. CASE CreateAgentRun(k) \/ StartRun(k) \/ RunNotCreated(k) \/ StoreBackup(k)
    BY <2>3 DEF CreateAgentRun, StartRun, RunNotCreated, StoreBackup, Ends, files
  <2>4. CASE \/ RefuseBackup(k) \/ ReplaceVault(k) \/ RestoreNotSaved(k) \/ Reload(k)
             \/ RestoreEnds(k)
    BY <2>4 DEF RefuseBackup, ReplaceVault, RestoreNotSaved, Reload, RestoreEnds, Ends, files
  <2>5. CASE WriteMarker(k) \/ MarkerFails(k) \/ ResetScheduled(k) \/ ExportOrResetEnds(k)
    BY <2>5 DEF WriteMarker, MarkerFails, ResetScheduled, ExportOrResetEnds, Ends, files
  <2>6. CASE OutsideSaves(k) \/ OutsideEnds(k) \/ QuitSaves(k) \/ QuitEnds(k)
    BY <2>6 DEF OutsideSaves, OutsideEnds, QuitSaves, QuitEnds, Ends, files
  <2> QED BY <1>5, <2>1, <2>2, <2>3, <2>4, <2>5, <2>6, Zenon DEF Proceed
<1>6. CASE UNCHANGED vars
  BY <1>6 DEF vars
<1> QED BY <1>1, <1>2, <1>3, <1>4, <1>5, <1>6 DEF Next

\* What restoreBackup put into the file stays: persist() saves the snapshots in
\* the order they were taken, so no snapshot of the vault that was replaced
\* comes after it, whoever asked for that snapshot and whatever failed.
THEOREM RestoredVaultsStay == Spec => RestoredVaultStays
<1>1. VaultInv /\ [Next]_vars => [disk # NoFile /\ disk' # NoFile => disk'.gen >= disk.gen]_vars
  <2> SUFFICES ASSUME VaultInv, [Next]_vars, disk # NoFile, disk' # NoFile
               PROVE  disk'.gen >= disk.gen
    OBVIOUS
  <2>1. disk.gen \in Nat
    BY KeptFields DEF VaultInv, Types
  <2>2. CASE disk' = disk
    BY <2>1, <2>2
  <2>3. CASE queue # <<>> /\ disk' = Head(queue).vault
    <3>1. /\ Head(queue) = queue[1] /\ 1 \in 1 .. Len(queue) /\ app \in {"opening", "up"}
          /\ Head(queue).vault \in SoundVaults
      BY <2>3, QueueFacts
    <3>2. Line
      BY <3>1 DEF VaultInv, FileInv
    <3>3. disk.gen <= Head(queue).vault.gen
      BY <3>1, <3>2 DEF Line, Lined
    <3>4. Head(queue).vault.gen \in Nat
      BY <3>1, KeptFields DEF KeptVaults
    <3> QED BY <2>1, <2>3, <3>3, <3>4
  <2> QED BY <2>2, <2>3, FileTouched
<1> QED BY <1>1, VaultInvariance, PTL DEF Spec, RestoredVaultStays
=============================================================================
