-------------------------- MODULE AgentRunsProofs --------------------------
(***************************************************************************)
(* What module AgentRuns promises, proved for every number of runs, tool   *)
(* calls, reviews and failures: a cancelled run stays cancelled, a run     *)
(* that is over is settled in the file, and what was told about proposals  *)
(* is so.                                                                  *)
(*                                                                         *)
(* The snapshots that wait to be written are a time line: from the file,   *)
(* over the queue, to the vault in memory nothing that was reached is      *)
(* taken back, so a crash or a failed write may lose the end of the line   *)
(* but never mixes two moments.                                            *)
(***************************************************************************)
EXTENDS AgentRuns, TLAPS

USE AgentBounds, RunsAreNoCalls

-----------------------------------------------------------------------------
(* Types *)

RowStatus == {"none", "running"} \cup Settlement
ProposalStatus == {"none", "pending", "accepted", "rejected"}

AgentVault == [row : [Run -> RowStatus], proposal : [Proposal -> ProposalStatus]]

CallTag == {"audit", "proposal", "closing", "failed"}
RunTag == {"row", "event", "last"}

Entry == [vault : AgentVault, who : Proposal, what : RunTag \cup {"review"} \cup CallTag]

\* A run that the adapter has not seen yet.
Before == {"idle", "creating", "created", "not created"}
Working == {"probing", "preparing", "starting", "turn"}

RunRecord ==
  [pc : Before \cup Working \cup {"ended", "over"}, provider : {"codex", "claude"},
   cancelled : BOOLEAN, rejected : BOOLEAN, timedOut : BOOLEAN,
   cancel : {"none", "interrupting", "confirmed"}, session : BOOLEAN,
   outcome : Settlement \cup {"none", "cancelled"}, deltas : Nat, unsaved : BOOLEAN,
   lost : BOOLEAN]

CallRecord ==
  [pc : {"idle", "auditing", "audited", "proposing", "proposed", "closing", "closed",
         "unsaved", "failing", "done"},
   run : Run \cup {None}, id : RequestId \cup {None}, told : {"nothing", "refused", "pending"}]

Types ==
  /\ db \in AgentVault /\ disk \in AgentVault
  /\ queue \in Seq(Entry)
  /\ run \in [Run -> RunRecord]
  /\ call \in [Call -> CallRecord]
  /\ used \in [Run -> SUBSET RequestId]
  /\ decided \in [Proposal -> {"none", "accepted", "rejected"}]

-----------------------------------------------------------------------------
(* The time line *)

\* Proposals are made, then decided; rows are settled for good.
Onwards(a, b) == a = "none" \/ a = b \/ (a = "pending" /\ b # "none")

Earlier(v, w) ==
  /\ \A r \in Run : /\ v.row[r] # "none" => w.row[r] # "none"
                    /\ v.row[r] \in Settlement => w.row[r] \in Settlement
  /\ \A p \in Proposal : Onwards(v.proposal[p], w.proposal[p])

Timeline(v, q, w) ==
  /\ Earlier(v, w)
  /\ \A i \in 1 .. Len(q) : Earlier(v, q[i].vault) /\ Earlier(q[i].vault, w)
  /\ \A i, j \in 1 .. Len(q) : i < j => Earlier(q[i].vault, q[j].vault)

\* Who waits for a snapshot, and what it shows of what they wait for.
PcOf == [audit |-> "auditing", proposal |-> "proposing", closing |-> "closing",
         failed |-> "failing"]

Waits(w, runs, calls) ==
  /\ w.what \in RunTag => w.who \in Run
  /\ w.what = "row" => runs[w.who].pc = "creating"
  /\ w.what \in {"event", "last"} => runs[w.who].pc \notin Before
  /\ w.what = "review" => w.vault.proposal[w.who] \in {"accepted", "rejected"}
  /\ w.what \in CallTag => w.who \in Call /\ calls[w.who].pc = PcOf[w.what]
  /\ w.what = "proposal" => w.vault.proposal[w.who] # "none"

Line ==
  /\ Timeline(disk, queue, db)
  /\ \A i \in 1 .. Len(queue) : Waits(queue[i], run, call)
  /\ \A i, j \in 1 .. Len(queue) :
       /\ queue[i].who = queue[j].who /\ queue[i].what = queue[j].what
       /\ queue[i].what \in {"row"} \cup CallTag
       => i = j

-----------------------------------------------------------------------------
(* Runs *)

\* The end of the run is on its way to the file.
Settling(r) ==
  \E i \in 1 .. Len(queue) :
    /\ queue[i].who = r /\ queue[i].what \in {"event", "last"}
    /\ queue[i].vault.row[r] \in Settlement

Stored(r) == disk.row[r] \in Settlement \/ run[r].unsaved

RunInv(r) ==
  /\ At(r, "idle") => db.row[r] = "none"
  /\ run[r].pc \in Before =>
       /\ ~ run[r].session /\ ~ run[r].cancelled /\ run[r].cancel = "none"
  /\ run[r].pc \in Before \cup Working => run[r].outcome = "none" /\ db.proposal[r] = "none"
  /\ run[r].session => Active(r)
  /\ run[r].cancel # "none" => run[r].cancelled
  /\ run[r].cancel = "confirmed" => ~ run[r].session
  /\ run[r].cancelled => run[r].outcome # "completed"
  /\ At(r, "ended") => db.row[r] \in Settlement /\ (Stored(r) \/ Settling(r))
  /\ At(r, "over") /\ ~ run[r].lost => db.row[r] \in Settlement /\ Stored(r)
  /\ "completed" \in {db.row[r], disk.row[r]} => run[r].outcome = "completed"
  /\ \A i \in 1 .. Len(queue) :
       queue[i].vault.row[r] = "completed" => run[r].outcome = "completed"

-----------------------------------------------------------------------------
(* Tool calls *)

\* The call got past the session's check of its request id.
Admitted(c) == call[c].pc \notin {"idle", "done"} \/ db.proposal[c] # "none"

CallInv(c) ==
  /\ call[c].pc \in {"idle", "auditing", "audited"} => db.proposal[c] = "none"
  /\ call[c].pc = "idle" => call[c].told = "nothing"
  /\ call[c].pc # "idle" => call[c].run \in Run /\ run[call[c].run].pc \notin Before
  /\ call[c].pc \in {"proposed", "closing", "closed"} \/ call[c].told = "pending" =>
       disk.proposal[c] # "none"
  /\ Admitted(c) /\ run[call[c].run].session => call[c].id \in used[call[c].run]

Told ==
  /\ \A p \in Proposal : decided[p] # "none" => disk.proposal[p] = decided[p]
  /\ \A c, d \in Call :
       /\ Admitted(c) /\ Admitted(d)
       /\ call[c].run = call[d].run /\ call[c].id = call[d].id
       => c = d

AgentInv ==
  /\ Types /\ Line /\ Told
  /\ \A r \in Run : RunInv(r)
  /\ \A c \in Call : CallInv(c)

-----------------------------------------------------------------------------
(* Lemmas about the time line *)

LEMMA EarlierReflexive == \A v : Earlier(v, v)
BY DEF Earlier, Onwards

LEMMA EarlierTransitive ==
  ASSUME NEW u, NEW v, NEW w, Earlier(u, v), Earlier(v, w)
  PROVE  Earlier(u, w)
BY DEF Earlier, Onwards

LEMMA TimelineAppend ==
  ASSUME NEW v, NEW w, NEW q \in Seq(Entry), NEW s \in Entry, Timeline(v, q, w),
         Earlier(w, s.vault)
  PROVE  Timeline(v, Append(q, s), s.vault)
<1> DEFINE x == s.vault
           a == Append(q, s)
<1>1. /\ Len(a) = Len(q) + 1 /\ Len(q) \in Nat /\ a[Len(q) + 1] = s
      /\ \A i \in 1 .. Len(q) : a[i] = q[i]
  OBVIOUS
<1> HIDE DEF a
<1>2. /\ Earlier(v, x) /\ Earlier(x, x)
      /\ \A i \in 1 .. Len(q) : Earlier(v, q[i].vault) /\ Earlier(q[i].vault, x)
      /\ \A i, j \in 1 .. Len(q) : i < j => Earlier(q[i].vault, q[j].vault)
  BY EarlierReflexive, EarlierTransitive DEF Timeline
<1>3. \A i \in 1 .. Len(a) : Earlier(v, a[i].vault) /\ Earlier(a[i].vault, x)
  BY <1>1, <1>2
<1>4. \A i, j \in 1 .. Len(a) : i < j => Earlier(a[i].vault, a[j].vault)
  BY <1>1, <1>2
<1> QED BY <1>2, <1>3, <1>4 DEF Timeline, a

LEMMA TailFacts ==
  ASSUME NEW q \in Seq(Entry), q # <<>>
  PROVE  /\ Tail(q) \in Seq(Entry) /\ Head(q) \in Entry /\ Head(q) = q[1]
         /\ Len(Tail(q)) = Len(q) - 1 /\ 1 \in 1 .. Len(q)
         /\ \A i \in 1 .. Len(Tail(q)) : i + 1 \in 1 .. Len(q) /\ Tail(q)[i] = q[i + 1]
OBVIOUS

LEMMA AppendFacts ==
  ASSUME NEW q \in Seq(Entry), NEW s \in Entry
  PROVE  /\ Append(q, s) \in Seq(Entry) /\ Len(Append(q, s)) = Len(q) + 1
         /\ Append(q, s)[Len(q) + 1] = s
         /\ \A i \in 1 .. Len(q) : Append(q, s)[i] = q[i]
OBVIOUS

LEMMA TimelineTail ==
  ASSUME NEW v, NEW w, NEW q \in Seq(Entry), q # <<>>, Timeline(v, q, w),
         NEW u \in {v, Head(q).vault}
  PROVE  Timeline(u, Tail(q), w)
<1> DEFINE t == Tail(q)
<1>1. /\ Head(q) = q[1] /\ Len(t) = Len(q) - 1 /\ 1 \in 1 .. Len(q) /\ Len(q) \in Nat
      /\ \A i \in 1 .. Len(t) : i + 1 \in 1 .. Len(q) /\ t[i] = q[i + 1]
  BY TailFacts
<1> HIDE DEF t
<1>2. /\ Earlier(v, w) /\ Earlier(q[1].vault, w)
      /\ \A i \in 1 .. Len(q) : Earlier(v, q[i].vault) /\ Earlier(q[i].vault, w)
      /\ \A i, j \in 1 .. Len(q) : i < j => Earlier(q[i].vault, q[j].vault)
  BY <1>1 DEF Timeline
<1>3. \A i \in 1 .. Len(t) : Earlier(u, t[i].vault) /\ Earlier(t[i].vault, w)
  BY <1>1, <1>2
<1>4. \A i, j \in 1 .. Len(t) : i < j => Earlier(t[i].vault, t[j].vault)
  BY <1>1, <1>2
<1> QED BY <1>1, <1>2, <1>3, <1>4 DEF Timeline, t

\* The queue has grown by the snapshots of a set.
Extends(S) ==
  /\ queue' \in Seq(Entry) /\ Len(queue) <= Len(queue')
  /\ \A i \in 1 .. Len(queue) : queue'[i] = queue[i]
  /\ \A i \in 1 .. Len(queue') : i > Len(queue) => queue'[i] \in S
  /\ \A s \in S : \E i \in 1 .. Len(queue') : queue'[i] = s

LEMMA QuietExtends ==
  ASSUME Types, UNCHANGED <<db, queue>>
  PROVE  Extends({})
BY DEF Types, Extends

LEMMA PersistExtends ==
  ASSUME Types, NEW d \in AgentVault, NEW who \in Proposal,
         NEW what \in RunTag \cup {"review"} \cup CallTag,
         Timeline(disk, queue, db), Earlier(db, d), Persist(d, who, what)
  PROVE  /\ db' = d /\ Timeline(disk, queue', db')
         /\ Extends({Snapshot(d, who, what)}) /\ Len(queue') = Len(queue) + 1
<1> DEFINE s == Snapshot(d, who, what)
<1>1. s \in Entry /\ s.vault = d /\ db' = d /\ queue' = Append(queue, s)
  BY DEF Snapshot, Entry, Persist
<1> HIDE DEF s
<1>2. queue \in Seq(Entry)
  BY DEF Types
<1>3. Timeline(disk, queue', db')
  BY <1>1, <1>2, TimelineAppend
<1>4. Extends({s}) /\ Len(queue') = Len(queue) + 1
  BY <1>1, <1>2 DEF Extends
<1> QED BY <1>1, <1>3, <1>4 DEF s

LEMMA TwoExtend ==
  ASSUME Types, NEW d \in AgentVault, NEW e \in AgentVault, NEW who \in Proposal,
         NEW what \in RunTag, NEW last \in RunTag,
         Timeline(disk, queue, db), Earlier(db, d), Earlier(d, e), db' = e,
         queue' = queue \o <<Snapshot(d, who, what), Snapshot(e, who, last)>>
  PROVE  /\ Timeline(disk, queue', db')
         /\ Extends({Snapshot(d, who, what), Snapshot(e, who, last)})
<1> DEFINE s == Snapshot(d, who, what)
           t == Snapshot(e, who, last)
<1>1. s \in Entry /\ s.vault = d /\ t \in Entry /\ t.vault = e
  BY DEF Snapshot, Entry
<1>2. queue' = queue \o <<s, t>>
  OBVIOUS
<1> HIDE DEF s, t
<1>3. queue \in Seq(Entry)
  BY DEF Types
<1>4. queue' = Append(Append(queue, s), t) /\ Append(queue, s) \in Seq(Entry)
  BY <1>1, <1>2, <1>3
<1>5. Timeline(disk, queue', db')
  BY <1>1, <1>3, <1>4, TimelineAppend
<1>6. Extends({s, t})
  <2> DEFINE n == Len(queue)
  <2>1. /\ Len(queue') = n + 2 /\ n \in Nat
        /\ queue'[n + 1] = s /\ queue'[n + 2] = t
        /\ \A i \in 1 .. n : queue'[i] = queue[i]
    BY <1>3, <1>4
  <2>2. queue' \in Seq(Entry)
    BY <1>1, <1>4
  <2>3. \A i \in 1 .. n + 2 : i > n => i = n + 1 \/ i = n + 2
    BY <2>1
  <2>4. n + 1 \in 1 .. n + 2 /\ n + 2 \in 1 .. n + 2
    BY <2>1
  <2> QED BY <2>1, <2>2, <2>3, <2>4 DEF Extends
<1> QED BY <1>5, <1>6 DEF s, t

-----------------------------------------------------------------------------
(* Steps that add to the queue *)

LEMMA LineGrows ==
  ASSUME Types, Line, NEW S, Extends(S), disk' = disk, Timeline(disk, queue', db'),
         \A s \in S : Waits(s, run', call'),
         \A i \in 1 .. Len(queue) : Waits(queue[i], run', call'),
         \A s \in S : s.what \in {"row"} \cup CallTag =>
           /\ Len(queue') = Len(queue) + 1
           /\ \A i \in 1 .. Len(queue) : ~ (queue[i].who = s.who /\ queue[i].what = s.what)
  PROVE  Line'
<1>1. /\ Len(queue) \in Nat /\ Len(queue') \in Nat
      /\ \A i \in 1 .. Len(queue) : queue'[i] = queue[i]
      /\ \A i \in 1 .. Len(queue') : i > Len(queue) => queue'[i] \in S
  BY DEF Types, Extends
<1>2. ASSUME NEW i \in 1 .. Len(queue') PROVE Waits(queue'[i], run', call')
  <2>1. CASE i > Len(queue)
    BY <1>1, <2>1
  <2>2. CASE i \in 1 .. Len(queue)
    BY <1>1, <2>2
  <2> QED BY <1>1, <2>1, <2>2
<1>3. ASSUME NEW i \in 1 .. Len(queue'), NEW j \in 1 .. Len(queue'),
             queue'[i].who = queue'[j].who, queue'[i].what = queue'[j].what,
             queue'[i].what \in {"row"} \cup CallTag
      PROVE  i = j
  <2>1. CASE i \in 1 .. Len(queue) /\ j \in 1 .. Len(queue)
    BY <1>1, <1>3, <2>1 DEF Line
  <2>2. CASE i > Len(queue) /\ j \in 1 .. Len(queue)
    BY <1>1, <1>3, <2>2
  <2>3. CASE i \in 1 .. Len(queue) /\ j > Len(queue)
    BY <1>1, <1>3, <2>3
  <2>4. CASE i > Len(queue) /\ j > Len(queue)
    BY <1>1, <1>3, <2>4
  <2> QED BY <1>1, <2>1, <2>2, <2>3, <2>4
<1> QED BY <1>2, <1>3 DEF Line

\* A step that is not of run r, and leaves its row and its proposal alone.
LEMMA OtherRun ==
  ASSUME AgentInv, NEW r \in Run, run'[r] = run[r], disk' = disk,
         NEW S, Extends(S), \A s \in S : s.vault.row[r] = db.row[r],
         db'.row[r] = db.row[r],
         run[r].pc \in Before \cup Working => db'.proposal[r] = db.proposal[r]
  PROVE  RunInv(r)'
<1>1. RunInv(r)
  BY DEF AgentInv
<1>2. Settling(r) => Settling(r)'
  BY DEF Settling, Extends, AgentInv, Types
<1>3. Stored(r) => Stored(r)'
  BY DEF Stored
<1>4. ASSUME NEW i \in 1 .. Len(queue'), queue'[i].vault.row[r] = "completed"
      PROVE  run'[r].outcome = "completed"
  <2>1. CASE i \in 1 .. Len(queue)
    BY <1>1, <1>4, <2>1 DEF Extends, RunInv
  <2>2. CASE i > Len(queue)
    BY <1>1, <1>4, <2>2 DEF Extends, RunInv
  <2> QED BY <2>1, <2>2 DEF AgentInv, Types
<1>5. /\ At(r, "idle")' => db'.row[r] = "none"
      /\ run'[r].pc \in Before =>
           ~ run'[r].session /\ ~ run'[r].cancelled /\ run'[r].cancel = "none"
      /\ run'[r].pc \in Before \cup Working =>
           run'[r].outcome = "none" /\ db'.proposal[r] = "none"
  BY <1>1 DEF RunInv, At
<1>6. /\ run'[r].session => Active(r)'
      /\ run'[r].cancel # "none" => run'[r].cancelled
      /\ run'[r].cancel = "confirmed" => ~ run'[r].session
      /\ run'[r].cancelled => run'[r].outcome # "completed"
  BY <1>1 DEF RunInv, Active, InAdapter, At
<1>7. /\ At(r, "ended")' => db'.row[r] \in Settlement /\ (Stored(r)' \/ Settling(r)')
      /\ At(r, "over")' /\ ~ run'[r].lost => db'.row[r] \in Settlement /\ Stored(r)'
      /\ "completed" \in {db'.row[r], disk'.row[r]} => run'[r].outcome = "completed"
  BY <1>1, <1>2, <1>3 DEF RunInv, At
<1> QED BY <1>4, <1>5, <1>6, <1>7 DEF RunInv

\* A step of run r: of the rest of the world it changes only its own row, its
\* own proposal and the queue.
RunStep(r, S) ==
  /\ run' \in [Run -> RunRecord] /\ \A j \in Run : j # r => run'[j] = run[j]
  /\ UNCHANGED <<disk, call, used, decided>>
  /\ db' \in AgentVault /\ Extends(S) /\ Timeline(disk, queue', db')
  /\ \A j \in Run : j # r => db'.row[j] = db.row[j] /\ \A s \in S : s.vault.row[j] = db.row[j]
  /\ \A p \in Proposal : p # r => db'.proposal[p] = db.proposal[p]
  /\ \A s \in S : s \in Entry /\ s.who = r /\ s.what \in RunTag
  /\ run[r].pc # "creating"
  /\ run[r].pc \notin Before => run'[r].pc \notin Before
  /\ run'[r].session => run[r].session \/ run[r].pc \in Before
  /\ \A s \in S : /\ s.what = "row" =>
                       run'[r].pc = "creating" /\ Len(queue') = Len(queue) + 1
                  /\ s.what # "row" => run'[r].pc \notin Before

LEMMA RunStepKeeps ==
  ASSUME AgentInv, NEW r \in Run, NEW S, RunStep(r, S), RunInv(r)'
  PROVE  AgentInv'
<1>1. Types'
  BY DEF AgentInv, Types, RunStep, Extends
<1>2. \A s \in S : Waits(s, run', call')
  BY DEF RunStep, Waits, RunTag, CallTag
<1>3. ASSUME NEW i \in 1 .. Len(queue) PROVE Waits(queue[i], run', call')
  <2>1. Waits(queue[i], run, call) /\ queue[i] \in Entry
    BY DEF AgentInv, Line, Types
  <2>2. queue[i].what = "row" => queue[i].who \in Run /\ queue[i].who # r
    BY <2>1 DEF Waits, RunTag, RunStep
  <2>3. queue[i].what \in {"event", "last"} => queue[i].who \in Run
    BY <2>1 DEF Waits, RunTag
  <2> QED BY <2>1, <2>2, <2>3 DEF RunStep, Waits
<1>4. ASSUME NEW s \in S, s.what \in {"row"} \cup CallTag
      PROVE  /\ Len(queue') = Len(queue) + 1
             /\ \A i \in 1 .. Len(queue) : ~ (queue[i].who = s.who /\ queue[i].what = s.what)
  <2>1. s.what = "row" /\ s.who = r
    BY <1>4 DEF RunStep, RunTag, CallTag
  <2>2. \A i \in 1 .. Len(queue) : Waits(queue[i], run, call)
    BY DEF AgentInv, Line
  <2> QED BY <2>1, <2>2 DEF RunStep, Waits
<1>5. Line'
  BY <1>2, <1>3, <1>4, LineGrows DEF AgentInv, RunStep
<1>6. ASSUME NEW j \in Run, j # r PROVE RunInv(j)'
  BY <1>6, OtherRun DEF RunStep, Proposal
<1>7. \A c \in Call : c # r /\ db'.proposal[c] = db.proposal[c]
  BY DEF RunStep, Proposal
<1>8. ASSUME NEW c \in Call PROVE CallInv(c)'
  <2>1. CallInv(c) /\ call' = call /\ used' = used /\ disk' = disk
    BY DEF AgentInv, RunStep
  <2>2. call[c].pc # "idle" => call[c].run \in Run /\ run'[call[c].run].pc \notin Before
    BY <2>1 DEF CallInv, RunStep
  <2>3. Admitted(c)' => Admitted(c)
    BY <1>7, <2>1 DEF Admitted
  <2>4. Admitted(c) => call[c].pc # "idle"
    BY <2>1 DEF Admitted, CallInv
  <2>5. call[c].pc # "idle" /\ run'[call[c].run].session => run[call[c].run].session
    BY <2>1 DEF CallInv, RunStep
  <2> QED BY <1>7, <2>1, <2>2, <2>3, <2>4, <2>5 DEF CallInv
<1>9. Told'
  BY <1>7 DEF AgentInv, Told, RunStep, Admitted
<1> QED BY <1>1, <1>5, <1>6, <1>8, <1>9 DEF AgentInv

\* A step of tool call c.
CallStep(c, S) ==
  /\ call' \in [Call -> CallRecord] /\ \A d \in Call : d # c => call'[d] = call[d]
  /\ UNCHANGED <<disk, run, decided>>
  /\ used' \in [Run -> SUBSET RequestId] /\ \A r \in Run : used[r] \subseteq used'[r]
  /\ db' \in AgentVault /\ Extends(S) /\ Timeline(disk, queue', db')
  /\ \A r \in Run : db'.row[r] = db.row[r] /\ \A s \in S : s.vault.row[r] = db.row[r]
  /\ \A p \in Proposal : p # c => db'.proposal[p] = db.proposal[p]
  /\ \A s \in S : /\ s \in Entry /\ s.who = c /\ s.what \in CallTag
                  /\ call'[c].pc = PcOf[s.what] /\ Len(queue') = Len(queue) + 1
                  /\ s.what = "proposal" => s.vault.proposal[c] # "none"
  /\ call[c].pc \notin {"auditing", "proposing", "closing", "failing"}

LEMMA TagFacts ==
  ASSUME NEW what \in CallTag
  PROVE  /\ PcOf[what] \in {"auditing", "proposing", "closing", "failing"}
         /\ what \notin RunTag /\ what # "review"
         /\ \A other \in CallTag : PcOf[what] = PcOf[other] => what = other
BY DEF CallTag, RunTag, PcOf

LEMMA CallStepKeeps ==
  ASSUME AgentInv, NEW c \in Call, NEW S, CallStep(c, S), CallInv(c)',
         \A d \in Call : d # c /\ Admitted(d) /\ Admitted(c)' =>
           ~ (call[d].run = call'[c].run /\ call[d].id = call'[c].id)
  PROVE  AgentInv'
<1>1. Types'
  BY DEF AgentInv, Types, CallStep, Extends
<1>2. \A s \in S : Waits(s, run', call')
  BY TagFacts DEF CallStep, Waits, RunTag
<1>3. ASSUME NEW i \in 1 .. Len(queue)
      PROVE  Waits(queue[i], run', call') /\ ~ (queue[i].who = c /\ queue[i].what \in CallTag)
  <2>1. Waits(queue[i], run, call)
    BY DEF AgentInv, Line
  <2>2. ~ (queue[i].who = c /\ queue[i].what \in CallTag)
    BY <2>1, TagFacts DEF Waits, CallStep
  <2> QED BY <2>1, <2>2 DEF Waits, CallStep
<1>4. Line'
  BY <1>2, <1>3, LineGrows, TagFacts DEF AgentInv, CallStep, RunTag
<1>5. ASSUME NEW r \in Run PROVE RunInv(r)'
  <2>1. r # c /\ r \in Proposal
    BY DEF Proposal
  <2> QED BY <2>1, OtherRun DEF CallStep
<1>6. \A d \in Call : d # c => (Admitted(d)' <=> Admitted(d))
  BY DEF CallStep, Admitted, Proposal
<1>7. ASSUME NEW d \in Call, d # c PROVE CallInv(d)'
  <2>1. /\ CallInv(d) /\ call'[d] = call[d] /\ disk' = disk /\ run' = run
        /\ db'.proposal[d] = db.proposal[d]
    BY <1>7 DEF AgentInv, CallStep, Proposal
  <2>2. call[d].pc # "idle" => call[d].run \in Run
    BY <2>1 DEF CallInv
  <2>3. Admitted(d) => call[d].pc # "idle"
    BY <2>1 DEF CallInv, Admitted
  <2>4. Admitted(d)' /\ run'[call'[d].run].session => call'[d].id \in used'[call'[d].run]
    BY <1>6, <1>7, <2>1, <2>2, <2>3 DEF CallInv, CallStep
  <2> QED BY <2>1, <2>4 DEF CallInv
<1>8. Told'
  <2>1. \A p \in Proposal : decided'[p] # "none" => disk'.proposal[p] = decided'[p]
    BY DEF AgentInv, Told, CallStep
  <2>2. ASSUME NEW a \in Call, NEW b \in Call, Admitted(a)', Admitted(b)',
               call'[a].run = call'[b].run, call'[a].id = call'[b].id
        PROVE  a = b
    <3>1. CASE a # c /\ b # c
      BY <1>6, <2>2, <3>1 DEF AgentInv, Told, CallStep
    <3>2. CASE a = c /\ b # c
      BY <1>6, <2>2, <3>2 DEF CallStep
    <3>3. CASE a # c /\ b = c
      BY <1>6, <2>2, <3>3 DEF CallStep
    <3> QED BY <3>1, <3>2, <3>3
  <2> QED BY <2>1, <2>2 DEF Told
<1> QED BY <1>1, <1>4, <1>5, <1>7, <1>8 DEF AgentInv

-----------------------------------------------------------------------------
(* Steps of a run *)

\* A run goes on, and has not ended.
LEMMA PhaseKeeps ==
  ASSUME AgentInv, NEW r \in Run, NEW S, RunStep(r, S),
         run[r].pc \in Before \cup Working, run'[r].pc \in (Before \ {"idle"}) \cup Working,
         run'[r].outcome = run[r].outcome, db'.proposal[r] = db.proposal[r],
         db'.row[r] \in {db.row[r], "running"}, \A s \in S : s.vault.row[r] = db'.row[r],
         run'[r].pc \in Before =>
           ~ run'[r].session /\ ~ run'[r].cancelled /\ run'[r].cancel = "none",
         run'[r].cancel # "none" => run'[r].cancelled,
         run'[r].cancel = "confirmed" => ~ run'[r].session
  PROVE  AgentInv'
<1>1. RunInv(r) /\ disk' = disk
  BY DEF AgentInv, RunStep
<1>2. /\ run'[r].outcome = "none" /\ db'.proposal[r] = "none" /\ db'.row[r] # "completed"
      /\ disk.row[r] # "completed"
      /\ \A i \in 1 .. Len(queue) : queue[i].vault.row[r] # "completed"
  BY <1>1 DEF RunInv
<1>3. \A i \in 1 .. Len(queue') : queue'[i].vault.row[r] # "completed"
  BY <1>2 DEF RunStep, Extends, AgentInv, Types
<1>4. run'[r].pc \notin {"idle", "ended", "over"}
  BY DEF Before, Working
<1>5. run'[r].session => run'[r].pc \in Working
  OBVIOUS
<1>6. RunInv(r)'
  BY <1>1, <1>2, <1>3, <1>4, <1>5 DEF RunInv, At, Active, InAdapter, Working
<1> QED BY <1>6, RunStepKeeps

\* A run ends in the adapter.
LEMMA EndKeeps ==
  ASSUME AgentInv, NEW r \in Run, NEW S, RunStep(r, S),
         run[r].pc \in Working, run'[r].pc = "ended",
         run'[r].cancelled => run'[r].outcome # "completed",
         run'[r].cancel # "none" => run'[r].cancelled,
         run'[r].cancel = "confirmed" => ~ run'[r].session,
         db'.row[r] \in Settlement,
         db'.row[r] = "completed" => run'[r].outcome = "completed",
         \A s \in S : s.vault.row[r] = "completed" => run'[r].outcome = "completed",
         \E s \in S : s.what \in {"event", "last"} /\ s.vault.row[r] \in Settlement
  PROVE  AgentInv'
<1>1. RunInv(r) /\ disk' = disk
  BY DEF AgentInv, RunStep
<1>2. /\ disk.row[r] # "completed"
      /\ \A i \in 1 .. Len(queue) : queue[i].vault.row[r] # "completed"
  BY <1>1 DEF RunInv
<1>3. \A i \in 1 .. Len(queue') :
        queue'[i].vault.row[r] = "completed" => run'[r].outcome = "completed"
  BY <1>2 DEF RunStep, Extends, AgentInv, Types
<1>4. Settling(r)'
  BY DEF RunStep, Extends, Settling
<1>5. run'[r].pc \notin Before \cup Working
  BY DEF Before, Working
<1>6. RunInv(r)'
  BY <1>1, <1>2, <1>3, <1>4, <1>5 DEF RunInv, At, Active, Before, Working
<1> QED BY <1>6, RunStepKeeps

LEMMA NewRow ==
  ASSUME NEW v \in AgentVault, NEW r \in Run, NEW status \in RowStatus \ {"none"},
         status \in Settlement \/ v.row[r] \notin Settlement
  PROVE  LET d == [v EXCEPT !.row[r] = status]
         IN  /\ d \in AgentVault /\ Earlier(v, d) /\ d.proposal = v.proposal
             /\ d.row[r] = status /\ \A j \in Run : j # r => d.row[j] = v.row[j]
<1> DEFINE row == [v.row EXCEPT ![r] = status]
           d == [v EXCEPT !.row = row]
<1>1. /\ v.row \in [Run -> RowStatus] /\ row \in [Run -> RowStatus] /\ row[r] = status
      /\ \A j \in Run : j # r => row[j] = v.row[j]
  BY DEF AgentVault
<1>2. [v EXCEPT !.row[r] = status] = d
  BY DEF AgentVault
<1> HIDE DEF row
<1>3. d \in AgentVault /\ d.proposal = v.proposal /\ d.row = row
  BY <1>1 DEF AgentVault
<1> HIDE DEF d
<1>4. Earlier(v, d)
  BY <1>1, <1>3 DEF Earlier, Onwards
<1> QED BY <1>1, <1>2, <1>3, <1>4

LEMMA NewProposal ==
  ASSUME NEW v \in AgentVault, NEW p \in Proposal, NEW status \in ProposalStatus \ {"none"},
         Onwards(v.proposal[p], status)
  PROVE  LET d == [v EXCEPT !.proposal[p] = status]
         IN  /\ d \in AgentVault /\ Earlier(v, d) /\ d.row = v.row
             /\ d.proposal[p] = status
             /\ \A q \in Proposal : q # p => d.proposal[q] = v.proposal[q]
<1> DEFINE proposal == [v.proposal EXCEPT ![p] = status]
           d == [v EXCEPT !.proposal = proposal]
<1>1. /\ v.proposal \in [Proposal -> ProposalStatus] /\ proposal \in [Proposal -> ProposalStatus]
      /\ proposal[p] = status /\ \A q \in Proposal : q # p => proposal[q] = v.proposal[q]
  BY DEF AgentVault
<1>2. [v EXCEPT !.proposal[p] = status] = d
  BY DEF AgentVault
<1> HIDE DEF proposal
<1>3. d \in AgentVault /\ d.row = v.row /\ d.proposal = proposal
  BY <1>1 DEF AgentVault
<1> HIDE DEF d
<1>4. Earlier(v, d)
  BY <1>1, <1>3 DEF Earlier, Onwards
<1> QED BY <1>1, <1>2, <1>3, <1>4

\* What a step of a run has to keep to, whatever it saves.
RunMoves(r, new) ==
  /\ new \in RunRecord /\ run' = [run EXCEPT ![r] = new]
  /\ UNCHANGED <<disk, call, used, decided>>
  /\ run[r].pc # "creating"
  /\ run[r].pc \notin Before => new.pc \notin Before
  /\ new.session => run[r].session \/ run[r].pc \in Before

LEMMA QuietRun ==
  ASSUME AgentInv, NEW r \in Run, NEW new, RunMoves(r, new), UNCHANGED <<db, queue>>
  PROVE  RunStep(r, {}) /\ run'[r] = new
<1>1. Types /\ Line
  BY DEF AgentInv
<1>2. Extends({}) /\ Timeline(disk, queue', db')
  BY <1>1, QuietExtends DEF Line
<1> QED BY <1>1, <1>2 DEF RunMoves, RunStep, Types

LEMMA SavingRun ==
  ASSUME AgentInv, NEW r \in Run, NEW new, RunMoves(r, new),
         NEW d \in AgentVault, Earlier(db, d), \A j \in Run : j # r => d.row[j] = db.row[j],
         \A p \in Proposal : p # r => d.proposal[p] = db.proposal[p],
         NEW what \in RunTag, Persist(d, r, what),
         what = "row" => new.pc = "creating", what # "row" => new.pc \notin Before
  PROVE  /\ RunStep(r, {Snapshot(d, r, what)}) /\ run'[r] = new /\ db' = d
         /\ Snapshot(d, r, what).vault = d /\ Snapshot(d, r, what).what = what
<1>1. Types /\ Timeline(disk, queue, db)
  BY DEF AgentInv, Line
<1>2. r \in Proposal
  BY DEF Proposal
<1> DEFINE s == Snapshot(d, r, what)
<1>3. /\ db' = d /\ Timeline(disk, queue', db') /\ Extends({s}) /\ Len(queue') = Len(queue) + 1
  BY <1>1, <1>2, PersistExtends
<1>4. s.vault = d /\ s.who = r /\ s.what = what /\ s \in Entry
  BY <1>2 DEF Snapshot, Entry
<1> HIDE DEF s
<1>5. RunStep(r, {s}) /\ run'[r] = new
  BY <1>1, <1>3, <1>4 DEF RunMoves, RunStep, Types
<1> QED BY <1>3, <1>4, <1>5 DEF s

LEMMA RunFacts ==
  ASSUME AgentInv, NEW r \in Run
  PROVE  /\ run[r] \in RunRecord /\ run \in [Run -> RunRecord] /\ db \in AgentVault
         /\ RunInv(r) /\ r \in Proposal
         /\ run[r].pc \in Before => ~ run[r].session /\ ~ run[r].cancelled /\ run[r].cancel = "none"
BY DEF AgentInv, Types, RunInv, Proposal

LEMMA AgentRunKeeps ==
  ASSUME AgentInv, NEW r \in Run, NEW provider \in {"codex", "claude"}, AgentRun(r, provider)
  PROVE  AgentInv'
<1> DEFINE new == [run[r] EXCEPT !.pc = "creating", !.provider = provider]
           d == [db EXCEPT !.row[r] = "running"]
<1>1. /\ new \in RunRecord /\ new.pc = "creating" /\ new.outcome = run[r].outcome
      /\ new.session = run[r].session /\ new.cancelled = run[r].cancelled
      /\ new.cancel = run[r].cancel
  BY RunFacts DEF RunRecord, Before
<1>2. run' = [run EXCEPT ![r] = new] /\ At(r, "idle") /\ Persist(d, r, "row")
      /\ UNCHANGED <<disk, call, used, decided>>
  BY RunFacts DEF AgentRun
<1> HIDE DEF new
<1>3. RunMoves(r, new)
  BY <1>1, <1>2, RunFacts DEF RunMoves, At, Before
<1>4. db.row[r] = "none" /\ "running" \in RowStatus \ {"none"} /\ db.row[r] \notin Settlement
  BY <1>2, RunFacts DEF RunInv, RowStatus, Settlement
<1>5. /\ d \in AgentVault /\ Earlier(db, d) /\ d.proposal = db.proposal
      /\ d.row[r] = "running" /\ \A j \in Run : j # r => d.row[j] = db.row[j]
  BY <1>4, RunFacts, NewRow
<1> HIDE DEF d
<1>6. "row" \in RunTag
  BY DEF RunTag
<1>7. /\ RunStep(r, {Snapshot(d, r, "row")}) /\ run'[r] = new /\ db' = d
      /\ Snapshot(d, r, "row").vault = d
  BY <1>1, <1>2, <1>3, <1>5, <1>6, SavingRun
<1>8. run[r].pc \in Before
  BY <1>2 DEF At, Before
<1>9. run'[r].pc \in Before \ {"idle"}
  BY <1>1, <1>7 DEF Before
<1> QED BY <1>1, <1>5, <1>7, <1>8, <1>9, RunFacts, PhaseKeeps

\* A run goes on, with nothing or with an event of what is in the vault.
LEMMA GoesOnKeeps ==
  ASSUME AgentInv, NEW r \in Run, NEW new \in RunRecord, run' = [run EXCEPT ![r] = new],
         UNCHANGED <<disk, call, used, decided>>,
         run[r].pc \in (Before \ {"creating"}) \cup Working, new.pc \in Working,
         new.session => run[r].session \/ run[r].pc \in Before,
         new.outcome = run[r].outcome,
         new.cancel # "none" => new.cancelled,
         new.cancel = "confirmed" => ~ new.session,
         UNCHANGED <<db, queue>> \/ Persist(db, r, "event")
  PROVE  AgentInv'
<1>1. new.pc \notin Before /\ new.pc # "idle" /\ run[r].pc # "creating"
  BY DEF Before, Working
<1>2. RunMoves(r, new)
  BY <1>1 DEF RunMoves
<1>3. CASE UNCHANGED <<db, queue>>
  <2>1. RunStep(r, {}) /\ run'[r] = new
    BY <1>2, <1>3, QuietRun
  <2> QED BY <1>1, <1>3, <2>1, PhaseKeeps
<1>4. CASE Persist(db, r, "event")
  <2>1. "event" \in RunTag /\ "event" # "row"
    BY DEF RunTag
  <2>2. db \in AgentVault /\ Earlier(db, db)
    BY RunFacts, EarlierReflexive
  <2>3. /\ RunStep(r, {Snapshot(db, r, "event")}) /\ run'[r] = new /\ db' = db
        /\ Snapshot(db, r, "event").vault = db
    BY <1>1, <1>2, <1>4, <2>1, <2>2, SavingRun
  <2> QED BY <1>1, <2>3, PhaseKeeps
<1> QED BY <1>3, <1>4

\* A run whose row shows how it ended, and is saved with that.
LEMMA EndsKeeps ==
  ASSUME AgentInv, NEW r \in Run, NEW new \in RunRecord, run' = [run EXCEPT ![r] = new],
         UNCHANGED <<disk, call, used, decided>>,
         run[r].pc \in Working, new.pc = "ended",
         new.session => run[r].session,
         new.cancelled => new.outcome # "completed",
         new.cancel # "none" => new.cancelled,
         new.cancel = "confirmed" => ~ new.session,
         NEW d \in AgentVault, Earlier(db, d), d.proposal = db.proposal,
         \A j \in Run : j # r => d.row[j] = db.row[j], d.row[r] \in Settlement,
         d.row[r] = "completed" => new.outcome = "completed",
         NEW what \in {"event", "last"}, Persist(d, r, what)
  PROVE  AgentInv'
<1>1. new.pc \notin Before /\ run[r].pc # "creating" /\ what \in RunTag /\ what # "row"
  BY DEF Before, Working, RunTag
<1>2. RunMoves(r, new)
  BY <1>1 DEF RunMoves
<1>3. /\ RunStep(r, {Snapshot(d, r, what)}) /\ run'[r] = new /\ db' = d
      /\ Snapshot(d, r, what).vault = d /\ Snapshot(d, r, what).what = what
  BY <1>1, <1>2, SavingRun
<1> QED BY <1>3, EndKeeps

\* The record of a run that has ended.
LEMMA EndedRecord ==
  ASSUME AgentInv, NEW r \in Run, NEW outcome \in Settlement \cup {"cancelled"},
         run' = Ended(r, outcome)
  PROVE  LET new == [run[r] EXCEPT !.pc = "ended", !.outcome = outcome]
         IN  /\ new \in RunRecord /\ run' = [run EXCEPT ![r] = new]
             /\ new.pc = "ended" /\ new.outcome = outcome /\ new.session = run[r].session
             /\ new.cancelled = run[r].cancelled /\ new.cancel = run[r].cancel
BY RunFacts DEF Ended, RunRecord

LEMMA FailsKeeps ==
  ASSUME AgentInv, NEW r \in Run, run[r].pc \in Working, NEW outcome \in {"failed", "cancelled"},
         Fails(r, outcome), UNCHANGED <<disk, call, used, decided>>
  PROVE  AgentInv'
<1> DEFINE new == [run[r] EXCEPT !.pc = "ended", !.outcome = outcome]
           d == [db EXCEPT !.row[r] = "failed"]
<1>1. /\ new \in RunRecord /\ run' = [run EXCEPT ![r] = new]
      /\ new.pc = "ended" /\ new.outcome = outcome /\ new.session = run[r].session
      /\ new.cancelled = run[r].cancelled /\ new.cancel = run[r].cancel
  BY EndedRecord DEF Fails, Settlement
<1>2. Persist(d, r, "last")
  BY DEF Fails
<1>3. "failed" \in Settlement /\ "failed" \in RowStatus \ {"none"} /\ new.outcome # "completed"
  BY <1>1 DEF Settlement, RowStatus
<1>4. /\ d \in AgentVault /\ Earlier(db, d) /\ d.proposal = db.proposal
      /\ d.row[r] = "failed" /\ \A j \in Run : j # r => d.row[j] = db.row[j]
  BY <1>3, RunFacts, NewRow
<1> HIDE DEF new, d
<1> QED BY <1>1, <1>2, <1>3, <1>4, RunFacts, EndsKeeps DEF RunInv

LEMMA CompletesKeeps ==
  ASSUME AgentInv, NEW r \in Run, run[r].pc \in Working, ~ run[r].cancelled,
         Completes(r) \/ CompletesWithProposal(r) \/ CompletesWithoutProposal(r),
         UNCHANGED <<disk, call, used, decided>>
  PROVE  AgentInv'
<1> DEFINE new == [run[r] EXCEPT !.pc = "ended", !.outcome = "completed"]
           proposed == [db EXCEPT !.proposal[r] = "pending"]
           completed == [db EXCEPT !.row[r] = "completed"]
           failed == [db EXCEPT !.row[r] = "failed"]
           both == [proposed EXCEPT !.row[r] = "completed"]
<1>1. /\ new \in RunRecord /\ run' = [run EXCEPT ![r] = new]
      /\ new.pc = "ended" /\ new.outcome = "completed" /\ new.session = run[r].session
      /\ new.cancelled = run[r].cancelled /\ new.cancel = run[r].cancel
  BY EndedRecord DEF Completes, CompletesWithProposal, CompletesWithoutProposal, Settlement
<1>2. /\ db \in AgentVault /\ r \in Proposal /\ db.proposal[r] = "none" /\ db.row[r] # "completed"
      /\ run[r].cancel # "none" => run[r].cancelled
  BY RunFacts DEF RunInv
<1>3. /\ "completed" \in RowStatus \ {"none"} /\ "failed" \in RowStatus \ {"none"}
      /\ "completed" \in Settlement /\ "failed" \in Settlement
      /\ "pending" \in ProposalStatus \ {"none"}
  BY DEF RowStatus, Settlement, ProposalStatus
<1>4. CASE Completes(r)
  <2>1. Persist(completed, r, "event")
    BY <1>4 DEF Completes
  <2>2. /\ completed \in AgentVault /\ Earlier(db, completed) /\ completed.proposal = db.proposal
        /\ completed.row[r] = "completed" /\ \A j \in Run : j # r => completed.row[j] = db.row[j]
    BY <1>2, <1>3, NewRow
  <2> HIDE DEF new, completed
  <2> QED BY <1>1, <1>2, <1>3, <2>1, <2>2, EndsKeeps
<1>5. RunMoves(r, new)
  BY <1>1 DEF RunMoves, Before, Working
<1>6. /\ completed \in AgentVault /\ Earlier(db, completed) /\ completed.proposal = db.proposal
      /\ completed.row[r] = "completed" /\ \A j \in Run : j # r => completed.row[j] = db.row[j]
  BY <1>2, <1>3, NewRow
<1>7. /\ failed \in AgentVault /\ failed.proposal = db.proposal
      /\ failed.row[r] = "failed" /\ \A j \in Run : j # r => failed.row[j] = db.row[j]
  BY <1>2, <1>3, NewRow
<1>8. Earlier(completed, failed)
  BY <1>3, <1>6, <1>7 DEF Earlier, Onwards
<1>9. /\ proposed \in AgentVault /\ Earlier(db, proposed) /\ proposed.row = db.row
      /\ proposed.proposal[r] = "pending"
      /\ \A q \in Proposal : q # r => proposed.proposal[q] = db.proposal[q]
  BY <1>2, <1>3, NewProposal DEF Onwards
<1>10. /\ both \in AgentVault /\ Earlier(proposed, both) /\ both.proposal = proposed.proposal
       /\ both.row[r] = "completed" /\ \A j \in Run : j # r => both.row[j] = db.row[j]
  <2> HIDE DEF proposed
  <2> QED BY <1>3, <1>9, NewRow
<1>11. ASSUME NEW d \in AgentVault, NEW e \in AgentVault, NEW last \in {"event", "last"},
              Earlier(db, d), Earlier(d, e),
              \A j \in Run : j # r => d.row[j] = db.row[j] /\ e.row[j] = db.row[j],
              \A p \in Proposal : p # r => e.proposal[p] = db.proposal[p],
              e.row[r] \in Settlement, db' = e,
              queue' = queue \o <<Snapshot(d, r, "event"), Snapshot(e, r, last)>>
       PROVE  AgentInv'
  <2> DEFINE s == Snapshot(d, r, "event")
             t == Snapshot(e, r, last)
  <2>1. Types /\ Timeline(disk, queue, db)
    BY DEF AgentInv, Line
  <2>2. "event" \in RunTag /\ last \in RunTag
    BY DEF RunTag
  <2>3. Timeline(disk, queue', db') /\ Extends({s, t})
    BY <1>2, <1>11, <2>1, <2>2, TwoExtend
  <2>4. /\ s.vault = d /\ s.who = r /\ s.what = "event" /\ s \in Entry
        /\ t.vault = e /\ t.who = r /\ t.what = last /\ t \in Entry
    BY <1>2, <2>2 DEF Snapshot, Entry
  <2> HIDE DEF s, t, new
  <2>5. run' \in [Run -> RunRecord] /\ run'[r] = new /\ \A j \in Run : j # r => run'[j] = run[j]
    BY <1>5, <2>1 DEF RunMoves, Types
  <2>6. \A u \in {s, t} : u \in Entry /\ u.who = r /\ u.what \in RunTag /\ u.what # "row"
    BY <1>11, <2>2, <2>4
  <2>7. new.pc \notin Before
    BY <1>1 DEF Before
  <2>8. \A j \in Run : j # r =>
          db'.row[j] = db.row[j] /\ \A u \in {s, t} : u.vault.row[j] = db.row[j]
    BY <1>11, <2>4
  <2>9. RunStep(r, {s, t}) /\ run'[r] = new
    BY <1>5, <1>11, <2>3, <2>5, <2>6, <2>7, <2>8 DEF RunMoves, RunStep
  <2>10. /\ run'[r].pc = "ended" /\ run'[r].outcome = "completed" /\ ~ run'[r].cancelled
         /\ run'[r].cancel = "none"
    BY <1>1, <1>2, <2>5, RunFacts DEF RunRecord
  <2>11. \E u \in {s, t} : u.what \in {"event", "last"} /\ u.vault.row[r] \in Settlement
    BY <1>11, <2>4
  <2> QED BY <1>11, <2>9, <2>10, <2>11, EndKeeps
<1>12. CASE CompletesWithProposal(r)
  <2>1. /\ db' = both
        /\ queue' = queue \o <<Snapshot(proposed, r, "event"), Snapshot(both, r, "event")>>
    BY <1>12 DEF CompletesWithProposal
  <2> HIDE DEF both, proposed
  <2>2. both.row[r] \in Settlement /\ \A j \in Run : j # r => both.row[j] = db.row[j]
    BY ONLY <1>9, <1>10 DEF Settlement
  <2>3. \A p \in Proposal : p # r => both.proposal[p] = db.proposal[p]
    BY ONLY <1>9, <1>10
  <2>4. \A j \in Run : j # r => proposed.row[j] = db.row[j]
    BY ONLY <1>9
  <2> QED BY <1>9, <1>10, <1>11, <2>1, <2>2, <2>3, <2>4
<1>13. CASE CompletesWithoutProposal(r)
  <2>1. /\ db' = failed
        /\ queue' = queue \o <<Snapshot(completed, r, "event"), Snapshot(failed, r, "last")>>
    BY <1>13 DEF CompletesWithoutProposal
  <2> HIDE DEF completed, failed
  <2>2. /\ failed.row[r] \in Settlement
        /\ \A j \in Run : j # r => completed.row[j] = db.row[j] /\ failed.row[j] = db.row[j]
    BY ONLY <1>6, <1>7 DEF Settlement
  <2> QED BY <1>3, <1>6, <1>7, <1>8, <1>11, <2>1, <2>2
<1> QED BY <1>4, <1>12, <1>13

LEMMA StartRunKeeps == ASSUME AgentInv, NEW r \in Run, StartRun(r) PROVE AgentInv'
<1> DEFINE new == [run[r] EXCEPT !.pc = "probing", !.session = TRUE]
<1>1. /\ new \in RunRecord /\ run' = [run EXCEPT ![r] = new] /\ new.pc = "probing"
      /\ new.outcome = run[r].outcome /\ new.cancelled = run[r].cancelled
      /\ new.cancel = run[r].cancel
  BY RunFacts DEF StartRun, RunRecord, Working
<1>2. /\ run[r].pc = "created" /\ Persist(db, r, "event") /\ UNCHANGED <<disk, call, used, decided>>
  BY DEF StartRun, At
<1>3. run[r].cancel = "none"
  BY <1>2, RunFacts DEF Before
<1>4. run[r].pc \in Before \ {"creating"} /\ new.pc \in Working
  BY <1>1, <1>2 DEF Before, Working
<1> HIDE DEF new
<1> QED BY <1>1, <1>2, <1>3, <1>4, GoesOnKeeps

\* A run that is over.
LEMMA OverKeeps ==
  ASSUME AgentInv, NEW r \in Run, NEW new \in RunRecord, run' = [run EXCEPT ![r] = new],
         UNCHANGED <<db, disk, queue, call, used, decided>>,
         run[r].pc # "creating", new.pc = "over",
         new.session = FALSE, new.outcome = run[r].outcome, new.unsaved = run[r].unsaved,
         new.cancelled = run[r].cancelled, new.cancel = run[r].cancel,
         new.lost \/ (db.row[r] \in Settlement /\ Stored(r))
  PROVE  AgentInv'
<1>1. RunMoves(r, new)
  BY DEF RunMoves, Before
<1>2. RunStep(r, {}) /\ run'[r] = new
  BY <1>1, QuietRun
<1>3. RunInv(r)
  BY RunFacts
<1>4. \A i \in 1 .. Len(queue') :
        queue'[i].vault.row[r] = "completed" => run'[r].outcome = "completed"
  BY <1>2, <1>3 DEF RunInv
<1>5. Stored(r) => Stored(r)'
  BY <1>2 DEF Stored
<1>6. run'[r].pc \notin Before \cup Working
  BY <1>2 DEF Before, Working
<1>7. RunInv(r)'
  BY <1>2, <1>3, <1>4, <1>5, <1>6 DEF RunInv, At, Before, Working
<1> QED BY <1>2, <1>7, RunStepKeeps

LEMMA NotStartedKeeps == ASSUME AgentInv, NEW r \in Run, NotStarted(r) PROVE AgentInv'
<1> DEFINE new == [run[r] EXCEPT !.pc = "over", !.lost = TRUE]
<1>1. /\ new \in RunRecord /\ run' = [run EXCEPT ![r] = new] /\ new.pc = "over" /\ new.lost
      /\ new.session = run[r].session /\ new.outcome = run[r].outcome
      /\ new.unsaved = run[r].unsaved /\ new.cancelled = run[r].cancelled
      /\ new.cancel = run[r].cancel
  BY RunFacts DEF NotStarted, RunRecord
<1>2. run[r].pc \in Before \ {"creating"} /\ UNCHANGED <<db, disk, queue, call, used, decided>>
  BY DEF NotStarted, Before
<1>3. run[r].session = FALSE /\ run[r].pc # "creating"
  BY <1>2, RunFacts DEF RunRecord
<1> HIDE DEF new
<1> QED BY <1>1, <1>2, <1>3, OverKeeps

\* The snapshots of the run's end have been written, or failed to be.
LEMMA ServiceEndsKeeps == ASSUME AgentInv, NEW r \in Run, ServiceEnds(r) PROVE AgentInv'
<1> DEFINE new == [run[r] EXCEPT !.pc = "over", !.session = FALSE]
<1>1. /\ new \in RunRecord /\ run' = [run EXCEPT ![r] = new] /\ new.pc = "over"
      /\ new.session = FALSE /\ new.outcome = run[r].outcome
      /\ new.unsaved = run[r].unsaved /\ new.cancelled = run[r].cancelled
      /\ new.cancel = run[r].cancel
  BY RunFacts DEF ServiceEnds, RunRecord
<1>2. /\ run[r].pc = "ended" /\ UNCHANGED <<db, disk, queue, call, used, decided>>
      /\ \A i \in DOMAIN queue : queue[i].who = r => queue[i].what \notin {"event", "last"}
  BY DEF ServiceEnds, At
<1>3. ~ Settling(r)
  BY <1>2 DEF AgentInv, Types, Settling
<1>4. db.row[r] \in Settlement /\ Stored(r)
  BY <1>2, <1>3, RunFacts DEF RunInv, At
<1> HIDE DEF new
<1> QED BY <1>1, <1>2, <1>4, OverKeeps

LEMMA StartsTurnKeeps ==
  ASSUME AgentInv, NEW r \in Run, run[r].pc \in Working, NEW pc \in Working, StartsTurn(r, pc),
         UNCHANGED <<disk, call, used, decided>>
  PROVE  AgentInv'
<1> DEFINE new == [run[r] EXCEPT !.pc = pc]
<1>1. /\ new \in RunRecord /\ run' = [run EXCEPT ![r] = new] /\ new.pc = pc
      /\ new.session = run[r].session /\ new.outcome = run[r].outcome
      /\ new.cancelled = run[r].cancelled /\ new.cancel = run[r].cancel
  BY RunFacts DEF StartsTurn, Proceeds, RunRecord
<1>2. UNCHANGED <<db, queue>>
  BY DEF StartsTurn
<1>3. /\ run[r].cancel # "none" => run[r].cancelled
      /\ run[r].cancel = "confirmed" => ~ run[r].session
  BY RunFacts DEF RunInv
<1> HIDE DEF new
<1> QED BY <1>1, <1>2, <1>3, GoesOnKeeps

LEMMA PhasesKeep ==
  ASSUME AgentInv, NEW r \in Run, Probed(r) \/ ThreadStarted(r) \/ TurnStarted(r)
  PROVE  AgentInv'
<1>1. /\ run[r].pc \in Working /\ UNCHANGED <<disk, call, used, decided>>
      /\ \/ \E outcome \in {"failed", "cancelled"} : Fails(r, outcome)
         \/ \E pc \in Working : StartsTurn(r, pc)
  <2>1. CASE Probed(r)
    BY <2>1 DEF Probed, Working, At
  <2>2. CASE ThreadStarted(r)
    BY <2>2 DEF ThreadStarted, Working, At
  <2>3. CASE TurnStarted(r)
    BY <2>3 DEF TurnStarted, Working, At
  <2> QED BY <2>1, <2>2, <2>3
<1> QED BY <1>1, FailsKeeps, StartsTurnKeeps

LEMMA TurnKeeps ==
  ASSUME AgentInv, NEW r \in Run, Answered(r) \/ Timer(r) \/ QueryEnds(r) \/ Delta(r)
  PROVE  AgentInv'
<1>1. run[r].pc = "turn" /\ run[r].pc \in Working /\ UNCHANGED <<disk, call, used, decided>>
  BY DEF Answered, Timer, QueryEnds, Delta, At, Working
<1>2. /\ run[r].cancel # "none" => run[r].cancelled
      /\ run[r].cancel = "confirmed" => ~ run[r].session
  BY RunFacts DEF RunInv
<1>3. CASE Answered(r)
  <2>1. \/ ~ run[r].cancelled /\ (Completes(r) \/ CompletesWithProposal(r) \/ CompletesWithoutProposal(r))
        \/ \E outcome \in {"failed", "cancelled"} : Fails(r, outcome)
    BY <1>3 DEF Answered, Finishes
  <2> QED BY <1>1, <2>1, FailsKeeps, CompletesKeeps
<1>4. CASE QueryEnds(r)
  <2>1. \E outcome \in {"failed", "cancelled"} : Fails(r, outcome)
    BY <1>4 DEF QueryEnds
  <2> QED BY <1>1, <2>1, FailsKeeps
<1>5. CASE Delta(r)
  <2> DEFINE new == [run[r] EXCEPT !.deltas = @ + 1]
  <2>1. /\ new \in RunRecord /\ run' = [run EXCEPT ![r] = new] /\ new.pc = run[r].pc
        /\ new.session = run[r].session /\ new.outcome = run[r].outcome
        /\ new.cancelled = run[r].cancelled /\ new.cancel = run[r].cancel
    BY <1>5, RunFacts DEF Delta, RunRecord
  <2>2. Persist(db, r, "event")
    BY <1>5 DEF Delta
  <2> HIDE DEF new
  <2> QED BY <1>1, <1>2, <2>1, <2>2, GoesOnKeeps
<1>6. CASE Timer(r) /\ run[r].provider = "codex"
  <2>1. Fails(r, "failed")
    BY <1>6 DEF Timer
  <2> QED BY <1>1, <2>1, FailsKeeps
<1>7. CASE Timer(r) /\ run[r].provider # "codex"
  <2> DEFINE new == [run[r] EXCEPT !.timedOut = TRUE]
  <2>1. /\ new \in RunRecord /\ run' = [run EXCEPT ![r] = new] /\ new.pc = run[r].pc
        /\ new.session = run[r].session /\ new.outcome = run[r].outcome
        /\ new.cancelled = run[r].cancelled /\ new.cancel = run[r].cancel
    BY <1>7, RunFacts DEF Timer, RunRecord
  <2>2. UNCHANGED <<db, queue>>
    BY <1>7 DEF Timer
  <2> HIDE DEF new
  <2> QED BY <1>1, <1>2, <2>1, <2>2, GoesOnKeeps
<1> QED BY <1>3, <1>4, <1>5, <1>6, <1>7

LEMMA CancelKeeps == ASSUME AgentInv, NEW r \in Run, Cancel(r) PROVE AgentInv'
<1> DEFINE asked == [run[r] EXCEPT !.cancelled = TRUE, !.cancel = "interrupting"]
           gone == [run[r] EXCEPT !.cancelled = TRUE, !.rejected = TRUE, !.cancel = "confirmed",
                                  !.session = FALSE]
<1>1. /\ run[r].pc \in Working /\ UNCHANGED <<db, queue>> /\ UNCHANGED <<disk, call, used, decided>>
      /\ run' = [run EXCEPT ![r] = asked] \/ run' = [run EXCEPT ![r] = gone]
  BY RunFacts DEF Cancel, InAdapter, Working, Confirmed
<1>2. /\ asked \in RunRecord /\ asked.pc = run[r].pc /\ asked.session = run[r].session
      /\ asked.outcome = run[r].outcome /\ asked.cancelled /\ asked.cancel = "interrupting"
      /\ gone \in RunRecord /\ gone.pc = run[r].pc /\ ~ gone.session
      /\ gone.outcome = run[r].outcome /\ gone.cancelled
  BY RunFacts DEF RunRecord
<1> HIDE DEF asked, gone
<1> QED BY <1>1, <1>2, GoesOnKeeps

\* The interruption that ends the turn, or comes too late for that.
LEMMA InterruptEndsKeeps == ASSUME AgentInv, NEW r \in Run, InterruptEnds(r) PROVE AgentInv'
<1> DEFINE gone == [run[r] EXCEPT !.cancelled = TRUE, !.rejected = TRUE, !.cancel = "confirmed",
                                  !.session = FALSE]
           ended == [run[r] EXCEPT !.cancelled = TRUE, !.rejected = TRUE, !.cancel = "confirmed",
                                   !.session = FALSE, !.pc = "ended", !.outcome = "cancelled"]
           d == [db EXCEPT !.row[r] = "failed"]
<1>1. run[r].cancel = "interrupting" /\ UNCHANGED <<disk, call, used, decided>>
  BY DEF InterruptEnds
<1>2. /\ gone \in RunRecord /\ gone.pc = run[r].pc /\ gone.session = FALSE
      /\ gone.outcome = run[r].outcome /\ gone.cancelled /\ gone.lost = run[r].lost
      /\ gone.unsaved = run[r].unsaved
      /\ ended \in RunRecord /\ ended.pc = "ended" /\ ~ ended.session
      /\ ended.outcome = "cancelled" /\ ended.cancelled
  BY RunFacts DEF RunRecord
<1>3. RunInv(r) /\ run[r].cancelled /\ run[r].pc \notin Before
  BY <1>1, RunFacts DEF RunInv
<1>4. CASE At(r, "turn")
  <2>1. run' = [run EXCEPT ![r] = ended] /\ Persist(d, r, "last")
    BY <1>4, RunFacts DEF InterruptEnds, Confirmed
  <2>2. "failed" \in Settlement /\ "failed" \in RowStatus \ {"none"} /\ run[r].pc \in Working
    BY <1>4 DEF Settlement, RowStatus, At, Working
  <2>3. /\ d \in AgentVault /\ Earlier(db, d) /\ d.proposal = db.proposal
        /\ d.row[r] = "failed" /\ \A j \in Run : j # r => d.row[j] = db.row[j]
    BY <2>2, RunFacts, NewRow
  <2> HIDE DEF ended, d
  <2> QED BY <1>1, <1>2, <2>1, <2>2, <2>3, EndsKeeps
<1>5. CASE ~ At(r, "turn")
  <2>1. run' = [run EXCEPT ![r] = gone] /\ UNCHANGED <<db, queue>>
    BY <1>5 DEF InterruptEnds, Confirmed
  <2> HIDE DEF gone
  <2>2. RunMoves(r, gone)
    BY <1>1, <1>2, <1>3, <2>1 DEF RunMoves, Before
  <2>3. RunStep(r, {}) /\ run'[r] = gone
    BY <2>1, <2>2, QuietRun
  <2>4. /\ Stored(r) => Stored(r)'
        /\ Settling(r) => Settling(r)'
        /\ \A i \in 1 .. Len(queue') :
             queue'[i].vault.row[r] = "completed" => run'[r].outcome = "completed"
    BY <1>1, <1>2, <1>3, <2>1, <2>3 DEF Stored, Settling, RunInv
  <2>5. RunInv(r)'
    BY <1>1, <1>2, <1>3, <2>1, <2>3, <2>4 DEF RunInv, At
  <2> QED BY <2>3, <2>5, RunStepKeeps
<1> QED BY <1>4, <1>5

-----------------------------------------------------------------------------
(* Steps of a tool call, and the review *)

LEMMA CallFacts ==
  ASSUME AgentInv, NEW c \in Call
  PROVE  /\ call[c] \in CallRecord /\ call \in [Call -> CallRecord] /\ db \in AgentVault
         /\ CallInv(c) /\ c \in Proposal /\ Types /\ Timeline(disk, queue, db)
BY DEF AgentInv, Types, Line, Proposal

\* What a step of a tool call has to keep to, whatever it saves.
CallMoves(c, new) ==
  /\ new \in CallRecord /\ call' = [call EXCEPT ![c] = new]
  /\ UNCHANGED <<disk, run, decided>>
  /\ used' \in [Run -> SUBSET RequestId] /\ \A r \in Run : used[r] \subseteq used'[r]
  /\ call[c].pc \notin {"auditing", "proposing", "closing", "failing"}

LEMMA QuietCall ==
  ASSUME AgentInv, NEW c \in Call, NEW new, CallMoves(c, new), UNCHANGED <<db, queue>>
  PROVE  CallStep(c, {}) /\ call'[c] = new
<1>1. Extends({}) /\ Timeline(disk, queue', db')
  BY CallFacts, QuietExtends
<1> QED BY <1>1, CallFacts DEF CallMoves, CallStep

LEMMA SavingCall ==
  ASSUME AgentInv, NEW c \in Call, NEW new, CallMoves(c, new),
         NEW d \in AgentVault, Earlier(db, d), d.row = db.row,
         \A p \in Proposal : p # c => d.proposal[p] = db.proposal[p],
         NEW what \in CallTag, new.pc = PcOf[what],
         what = "proposal" => d.proposal[c] # "none", Persist(d, c, what)
  PROVE  CallStep(c, {Snapshot(d, c, what)}) /\ call'[c] = new /\ db' = d
<1> DEFINE s == Snapshot(d, c, what)
<1>1. /\ db' = d /\ Timeline(disk, queue', db') /\ Extends({s}) /\ Len(queue') = Len(queue) + 1
  BY CallFacts, PersistExtends
<1>2. s.vault = d /\ s.who = c /\ s.what = what /\ s \in Entry
  BY CallFacts DEF Snapshot, Entry
<1> HIDE DEF s
<1>3. call' \in [Call -> CallRecord] /\ call'[c] = new /\ \A e \in Call : e # c => call'[e] = call[e]
  BY CallFacts DEF CallMoves
<1>4. CallStep(c, {s})
  BY <1>1, <1>2, <1>3 DEF CallMoves, CallStep
<1> QED BY <1>1, <1>3, <1>4 DEF s

\* A request that the session has admitted goes on.
LEMMA CallGoesOn ==
  ASSUME AgentInv, NEW c \in Call, NEW S, CallStep(c, S), used' = used,
         call[c].pc \in {"audited", "proposed", "closed", "unsaved"},
         call'[c].run = call[c].run, call'[c].id = call[c].id,
         call'[c].pc \in {"proposing", "closing", "failing", "done"},
         call'[c].pc = "closing" \/ call'[c].told = "pending" => disk.proposal[c] # "none"
  PROVE  AgentInv'
<1>1. CallInv(c) /\ Admitted(c) /\ disk' = disk /\ run' = run
  BY CallFacts DEF Admitted, CallStep
<1>2. CallInv(c)'
  BY <1>1 DEF CallInv
<1>3. ASSUME NEW e \in Call, e # c, Admitted(e), call[e].run = call'[c].run, call[e].id = call'[c].id
      PROVE  FALSE
  BY <1>1, <1>3 DEF AgentInv, Told
<1> QED BY <1>2, <1>3, CallStepKeeps

\* It is refused, tells its result, or saves what it made of the vault.
LEMMA MovesKeeps ==
  ASSUME AgentInv, NEW c \in Call, NEW new \in CallRecord, call' = [call EXCEPT ![c] = new],
         UNCHANGED <<disk, run, used, decided>>,
         call[c].pc \in {"audited", "proposed", "closed", "unsaved"},
         new.run = call[c].run, new.id = call[c].id,
         new.pc \in {"proposing", "closing", "failing", "done"},
         new.pc = "closing" \/ new.told = "pending" => disk.proposal[c] # "none",
         \/ UNCHANGED <<db, queue>>
         \/ \E what \in {"closing", "failed"} : new.pc = PcOf[what] /\ Persist(db, c, what)
  PROVE  AgentInv'
<1>1. CallMoves(c, new)
  BY CallFacts DEF CallMoves, Types
<1>2. CASE UNCHANGED <<db, queue>>
  <2>1. CallStep(c, {}) /\ call'[c] = new
    BY <1>1, <1>2, QuietCall
  <2> QED BY <2>1, CallGoesOn
<1>3. ASSUME NEW what \in {"closing", "failed"}, new.pc = PcOf[what], Persist(db, c, what)
      PROVE  AgentInv'
  <2>1. what \in CallTag /\ what # "proposal"
    BY DEF CallTag
  <2>2. CallStep(c, {Snapshot(db, c, what)}) /\ call'[c] = new
    BY <1>1, <1>3, <2>1, CallFacts, EarlierReflexive, SavingCall
  <2> QED BY <2>2, CallGoesOn
<1> QED BY <1>2, <1>3

LEMMA RefusedKeeps ==
  ASSUME AgentInv, NEW c \in Call, call[c].pc \in {"audited", "proposed", "closed", "unsaved"},
         UNCHANGED <<disk, run, used, decided>>,
         \/ Refused(c) /\ UNCHANGED <<db, queue>>
         \/ Moves(c, "failing") /\ Persist(db, c, "failed")
         \/ call[c].pc = "proposed" /\ Moves(c, "closing") /\ Persist(db, c, "closing")
  PROVE  AgentInv'
<1> DEFINE refused == [call[c] EXCEPT !.pc = "done", !.told = "refused"]
           moved(pc) == [call[c] EXCEPT !.pc = pc]
<1>1. /\ refused \in CallRecord /\ refused.run = call[c].run /\ refused.id = call[c].id
      /\ refused.pc = "done" /\ refused.told = "refused"
      /\ \A pc \in {"failing", "closing"} :
           /\ moved(pc) \in CallRecord /\ moved(pc).run = call[c].run /\ moved(pc).id = call[c].id
           /\ moved(pc).pc = pc /\ moved(pc).told = call[c].told
  BY CallFacts DEF CallRecord
<1>2. /\ call[c].told = "pending" => disk.proposal[c] # "none"
      /\ call[c].pc = "proposed" => disk.proposal[c] # "none"
  BY CallFacts DEF CallInv
<1>3. PcOf["failed"] = "failing" /\ PcOf["closing"] = "closing"
  BY DEF PcOf
<1>4. CASE Refused(c) /\ UNCHANGED <<db, queue>>
  <2>1. call' = [call EXCEPT ![c] = refused]
    BY <1>4, CallFacts DEF Refused
  <2> HIDE DEF refused
  <2> QED BY <1>1, <1>4, <2>1, MovesKeeps
<1>5. CASE Moves(c, "failing") /\ Persist(db, c, "failed")
  <2>1. call' = [call EXCEPT ![c] = moved("failing")]
    BY <1>5, CallFacts DEF Moves
  <2> HIDE DEF moved
  <2> QED BY <1>1, <1>2, <1>3, <1>5, <2>1, MovesKeeps
<1>6. CASE call[c].pc = "proposed" /\ Moves(c, "closing") /\ Persist(db, c, "closing")
  <2>1. call' = [call EXCEPT ![c] = moved("closing")]
    BY <1>6, CallFacts DEF Moves
  <2> HIDE DEF moved
  <2> QED BY <1>1, <1>2, <1>3, <1>6, <2>1, MovesKeeps
<1> QED BY <1>4, <1>5, <1>6

LEMMA ProposeKeeps == ASSUME AgentInv, NEW c \in Call, Propose(c) PROVE AgentInv'
<1> DEFINE new == [call[c] EXCEPT !.pc = "proposing"]
           d == [db EXCEPT !.proposal[c] = "pending"]
<1>1. /\ new \in CallRecord /\ call' = [call EXCEPT ![c] = new] /\ new.pc = "proposing"
      /\ new.run = call[c].run /\ new.id = call[c].id /\ new.told = call[c].told
  BY CallFacts DEF Propose, Moves, CallRecord
<1>2. /\ call[c].pc = "audited" /\ Persist(d, c, "proposal")
      /\ UNCHANGED <<disk, run, used, decided>>
  BY DEF Propose
<1>3. db.proposal[c] = "none" /\ "pending" \in ProposalStatus \ {"none"}
  BY <1>2, CallFacts DEF CallInv, ProposalStatus
<1>4. /\ d \in AgentVault /\ Earlier(db, d) /\ d.row = db.row /\ d.proposal[c] = "pending"
      /\ \A q \in Proposal : q # c => d.proposal[q] = db.proposal[q]
  BY <1>3, CallFacts, NewProposal DEF Onwards
<1> HIDE DEF new, d
<1>5. CallMoves(c, new)
  BY <1>1, <1>2, CallFacts DEF CallMoves, Types
<1>6. "proposal" \in CallTag /\ PcOf["proposal"] = "proposing"
  BY DEF CallTag, PcOf
<1>7. CallStep(c, {Snapshot(d, c, "proposal")}) /\ call'[c] = new
  BY <1>1, <1>2, <1>4, <1>5, <1>6, SavingCall
<1>8. call[c].told = "pending" => disk.proposal[c] # "none"
  BY CallFacts DEF CallInv
<1> QED BY <1>1, <1>2, <1>7, <1>8, CallGoesOn

LEMMA ToolCallKeeps == ASSUME AgentInv, NEW c \in Call, ToolCall(c) PROVE AgentInv'
<1>1. CASE Denied(c)
  BY <1>1, RefusedKeeps DEF Denied
<1>2. CASE CloseAudit(c)
  BY <1>2, RefusedKeeps DEF CloseAudit
<1>3. CASE TellFailure(c)
  BY <1>3, RefusedKeeps DEF TellFailure
<1>4. CASE Tell(c)
  <2> DEFINE new == [call[c] EXCEPT !.pc = "done", !.told = "pending"]
  <2>1. /\ new \in CallRecord /\ call' = [call EXCEPT ![c] = new] /\ new.pc = "done"
        /\ new.run = call[c].run /\ new.id = call[c].id
    BY <1>4, CallFacts DEF Tell, CallRecord
  <2>2. call[c].pc = "closed" /\ UNCHANGED <<db, queue>> /\ UNCHANGED <<disk, run, used, decided>>
    BY <1>4 DEF Tell
  <2>3. disk.proposal[c] # "none"
    BY <2>2, CallFacts DEF CallInv
  <2> HIDE DEF new
  <2> QED BY <2>1, <2>2, <2>3, MovesKeeps
<1> QED BY <1>1, <1>2, <1>3, <1>4, ProposeKeeps DEF ToolCall

\* A request comes in: its id is taken, or was.
LEMMA RequestKeeps ==
  ASSUME AgentInv, NEW c \in Call, NEW r \in Run, NEW id \in RequestId, Request(c, r, id)
  PROVE  AgentInv'
<1> DEFINE new(pc, told) == [pc |-> pc, run |-> r, id |-> id, told |-> told]
<1>1. /\ call[c].pc = "idle" /\ run[r].session /\ UNCHANGED <<disk, run, decided>>
  BY DEF Request
<1>2. /\ db.proposal[c] = "none" /\ disk.proposal[c] = "none" /\ run[r].pc \notin Before
      /\ Types /\ Timeline(disk, queue, db)
  <2>1. db.proposal[c] = "none"
    BY <1>1, CallFacts DEF CallInv
  <2>2. Earlier(disk, db)
    BY CallFacts DEF Timeline
  <2> QED BY <1>1, <2>1, <2>2, CallFacts, RunFacts DEF Earlier, Onwards
<1>3. CASE Unused(r, id)
  <2> DEFINE admitted == new("auditing", "nothing")
  <2>1. /\ call' = [call EXCEPT ![c] = admitted] /\ used' = [used EXCEPT ![r] = @ \cup {id}]
        /\ Persist(db, c, "audit") /\ id \notin used[r]
    BY <1>3 DEF Request, Unused
  <2>2. /\ admitted \in CallRecord /\ admitted.pc = "auditing" /\ admitted.run = r
        /\ admitted.id = id /\ admitted.told = "nothing"
    BY DEF CallRecord
  <2> HIDE DEF admitted
  <2>3. /\ used' \in [Run -> SUBSET RequestId] /\ id \in used'[r]
        /\ \A s \in Run : used[s] \subseteq used'[s]
    BY <1>2, <2>1 DEF Types
  <2>4. CallMoves(c, admitted)
    BY <1>1, <2>1, <2>2, <2>3 DEF CallMoves
  <2>5. "audit" \in CallTag /\ PcOf["audit"] = "auditing" /\ "audit" # "proposal"
    BY DEF CallTag, PcOf
  <2>6. CallStep(c, {Snapshot(db, c, "audit")}) /\ call'[c] = admitted /\ db' = db
    <3>1. Persist(db, c, "audit") /\ admitted.pc = "auditing" /\ db \in AgentVault /\ Earlier(db, db)
      BY <2>1, <2>2, CallFacts, EarlierReflexive
    <3> QED BY <2>4, <2>5, <3>1, SavingCall
  <2>7. CallInv(c)'
    BY <1>1, <1>2, <2>2, <2>3, <2>6 DEF CallInv
  <2>8. ASSUME NEW e \in Call, e # c, Admitted(e), call[e].run = r, call[e].id = id
        PROVE  FALSE
    BY <1>1, <2>1, <2>8, CallFacts DEF CallInv
  <2> QED BY <2>2, <2>6, <2>7, <2>8, CallStepKeeps
<1>4. CASE ~ Unused(r, id)
  <2> DEFINE refused == new("done", "refused")
  <2>1. call' = [call EXCEPT ![c] = refused] /\ UNCHANGED <<db, queue, used>>
    BY <1>4 DEF Request
  <2>2. /\ refused \in CallRecord /\ refused.pc = "done" /\ refused.run = r
        /\ refused.id = id /\ refused.told = "refused"
    BY DEF CallRecord
  <2> HIDE DEF refused
  <2>3. CallMoves(c, refused)
    BY <1>1, <1>2, <2>1, <2>2 DEF CallMoves, Types
  <2>4. CallStep(c, {}) /\ call'[c] = refused
    BY <2>1, <2>3, QuietCall
  <2>5. ~ Admitted(c)'
    BY <1>2, <2>1, <2>2, <2>4 DEF Admitted
  <2>6. CallInv(c)'
    BY <1>1, <1>2, <2>1, <2>2, <2>4, <2>5 DEF CallInv
  <2> QED BY <2>4, <2>5, <2>6, CallStepKeeps
<1> QED BY <1>3, <1>4

LEMMA ReviewKeeps ==
  ASSUME AgentInv, NEW p \in Proposal, NEW decision \in {"accepted", "rejected"},
         Review(p, decision)
  PROVE  AgentInv'
<1> DEFINE d == [db EXCEPT !.proposal[p] = decision]
           s == Snapshot(d, p, "review")
<1>1. /\ db.proposal[p] = "pending" /\ Persist(d, p, "review")
      /\ UNCHANGED <<disk, run, call, used, decided>>
  BY DEF Review
<1>2. /\ db \in AgentVault /\ Types /\ Line /\ Timeline(disk, queue, db)
      /\ decision \in ProposalStatus \ {"none"} /\ "review" \in RunTag \cup {"review"} \cup CallTag
  BY DEF AgentInv, Types, Line, ProposalStatus
<1>3. /\ d \in AgentVault /\ Earlier(db, d) /\ d.row = db.row /\ d.proposal[p] = decision
      /\ \A q \in Proposal : q # p => d.proposal[q] = db.proposal[q]
  BY <1>1, <1>2, NewProposal DEF Onwards
<1> HIDE DEF d
<1>4. /\ db' = d /\ Timeline(disk, queue', db') /\ Extends({s}) /\ Len(queue') = Len(queue) + 1
  BY <1>1, <1>2, <1>3, PersistExtends
<1>5. s.vault = d /\ s.who = p /\ s.what = "review"
  BY DEF Snapshot
<1> HIDE DEF s
<1>6. Types'
  BY <1>1, <1>2, <1>3, <1>4 DEF Types, Extends
<1>7. Waits(s, run', call')
  BY <1>3, <1>5 DEF Waits, RunTag, CallTag
<1>8. \A i \in 1 .. Len(queue) : Waits(queue[i], run', call')
  BY <1>1, <1>2 DEF Line
<1>9. Line'
  <2>1. s.what \notin {"row"} \cup CallTag
    BY <1>5 DEF CallTag
  <2> QED BY <1>1, <1>2, <1>4, <1>7, <1>8, <2>1, LineGrows
<1>10. ASSUME NEW r \in Run PROVE RunInv(r)'
  <2>1. run[r].pc \in Before \cup Working => db'.proposal[r] = db.proposal[r]
    BY <1>1, <1>3, <1>4, RunFacts DEF RunInv
  <2> QED BY <1>1, <1>3, <1>4, <1>5, <2>1, OtherRun
<1>11. \A q \in Proposal : db'.proposal[q] = "none" <=> db.proposal[q] = "none"
  BY <1>1, <1>3, <1>4
<1>12. ASSUME NEW c \in Call PROVE CallInv(c)' /\ (Admitted(c)' <=> Admitted(c))
  <2>1. c \in Proposal /\ CallInv(c)
    BY CallFacts
  <2>2. Admitted(c)' <=> Admitted(c)
    BY <1>1, <1>11, <2>1 DEF Admitted
  <2> QED BY <1>1, <1>11, <2>1, <2>2 DEF CallInv
<1>13. Told'
  BY <1>1, <1>12 DEF AgentInv, Told
<1> QED BY <1>6, <1>9, <1>10, <1>12, <1>13 DEF AgentInv

-----------------------------------------------------------------------------
(* The end of a save *)

\* The first snapshot has left the queue; those of a set have been added.
Shifts(S) ==
  /\ queue # <<>> /\ queue' \in Seq(Entry)
  /\ \A i \in 1 .. Len(queue) : i > 1 => i - 1 \in 1 .. Len(queue') /\ queue'[i - 1] = queue[i]
  /\ \A i \in 1 .. Len(queue') :
       queue'[i] \in S \/ (i + 1 \in 1 .. Len(queue) /\ queue'[i] = queue[i + 1])
  /\ \A s \in S : \E i \in 1 .. Len(queue') : queue'[i] = s

LEMMA TailShifts ==
  ASSUME AgentInv, queue # <<>>, queue' = Tail(queue), db' = db, disk' \in {disk, Head(queue).vault}
  PROVE  Shifts({}) /\ Timeline(disk', queue', db')
<1>1. queue \in Seq(Entry) /\ Timeline(disk, queue, db)
  BY DEF AgentInv, Types, Line
<1>2. Timeline(disk', queue', db')
  BY <1>1, TimelineTail
<1>3. /\ Tail(queue) \in Seq(Entry) /\ Len(Tail(queue)) = Len(queue) - 1 /\ Len(queue) \in Nat
      /\ \A i \in 1 .. Len(Tail(queue)) : i + 1 \in 1 .. Len(queue) /\ Tail(queue)[i] = queue[i + 1]
  BY <1>1, TailFacts
<1>4. \A i \in 1 .. Len(queue) : i > 1 => i - 1 \in 1 .. Len(queue') /\ queue'[i - 1] = queue[i]
  BY <1>3
<1> QED BY <1>2, <1>3, <1>4 DEF Shifts

LEMMA FailureShifts ==
  ASSUME AgentInv, queue # <<>>, NEW s \in Entry, queue' = Append(Tail(queue), s), db' = s.vault,
         Earlier(db, s.vault), disk' \in {disk, Head(queue).vault}
  PROVE  Shifts({s}) /\ Timeline(disk', queue', db')
<1> DEFINE t == Tail(queue)
           n == Len(queue)
<1>1. queue \in Seq(Entry) /\ Timeline(disk, queue, db)
  BY DEF AgentInv, Types, Line
<1>2. Timeline(disk', t, db)
  BY <1>1, TimelineTail
<1>3. /\ t \in Seq(Entry) /\ Len(t) = n - 1 /\ n \in Nat /\ n >= 1
      /\ \A i \in 1 .. Len(t) : i + 1 \in 1 .. n /\ t[i] = queue[i + 1]
  BY <1>1, TailFacts
<1> HIDE DEF t
<1>4. queue' = Append(t, s)
  BY DEF t
<1>5. Timeline(disk', queue', db')
  BY <1>2, <1>3, <1>4, TimelineAppend
<1>6. /\ queue' \in Seq(Entry) /\ Len(queue') = n /\ queue'[n] = s
      /\ \A i \in 1 .. n - 1 : queue'[i] = t[i]
  <2>1. t \in Seq(Entry) /\ Len(t) \in Nat
    BY <1>3
  <2> DEFINE a == Append(t, s)
  <2>2. /\ a \in Seq(Entry) /\ Len(a) = Len(t) + 1 /\ a[Len(t) + 1] = s
        /\ \A i \in 1 .. Len(t) : a[i] = t[i]
    BY ONLY <2>1, AppendFacts, s \in Entry
  <2>3. queue' = a
    BY <1>4
  <2> HIDE DEF a
  <2>4. /\ queue' \in Seq(Entry) /\ Len(queue') = Len(t) + 1 /\ queue'[Len(t) + 1] = s
        /\ \A i \in 1 .. Len(t) : queue'[i] = t[i]
    BY <2>2, <2>3
  <2>5. Len(t) = n - 1 /\ n \in Nat
    BY <1>3
  <2> HIDE DEF n
  <2>6. Len(t) + 1 = n
    BY <2>5
  <2> QED BY <2>4, <2>5, <2>6
<1>7. \A i \in 1 .. n : i > 1 => i - 1 \in 1 .. Len(queue') /\ queue'[i - 1] = queue[i]
  BY <1>3, <1>6
<1>8. \A i \in 1 .. n : i = n \/ i \in 1 .. n - 1
  BY <1>3
<1>9. \A i \in 1 .. Len(queue') :
        queue'[i] = s \/ (i + 1 \in 1 .. n /\ queue'[i] = queue[i + 1])
  BY <1>3, <1>6, <1>8
<1>10. n \in 1 .. n
  BY <1>3
<1> QED BY <1>5, <1>6, <1>7, <1>9, <1>10 DEF Shifts

\* What the end of a save makes of the runs, and of the calls that awaited it.
RunSaved(w, r) ==
  /\ \/ run'[r].pc = run[r].pc
     \/ w.what = "row" /\ w.who = r /\ run'[r].pc \in {"created", "not created"}
  /\ run'[r].session = run[r].session /\ run'[r].cancelled = run[r].cancelled
  /\ run'[r].cancel = run[r].cancel /\ run'[r].outcome = run[r].outcome
  /\ run'[r].lost = run[r].lost /\ (run[r].unsaved => run'[r].unsaved)
  /\ \/ db'.row[r] = db.row[r]
     \/ db'.row[r] = "failed" /\ run[r].pc \notin Before

CallSaved(w, c) ==
  \/ call'[c] = call[c]
  \/ /\ w.what \in CallTag /\ w.who = c
     /\ call'[c].run = call[c].run /\ call'[c].id = call[c].id /\ call'[c].told = call[c].told
     /\ \/ call'[c].pc = "audited" /\ w.what = "audit"
        \/ call'[c].pc = "proposed" /\ w.what = "proposal" /\ disk' = w.vault
        \/ call'[c].pc = "closed" /\ w.what = "closing"
        \/ call'[c].pc \in {"unsaved", "done"}

\* The snapshot of an event of failure.
LastWord(s) ==
  s.vault = db' /\ s.what = "last" /\ s.who \in Run /\ run[s.who].pc \notin Before

\* A snapshot that showed the end of a run was written, given up, or replaced.
EndIsKept(w, S) ==
  w.what \in {"event", "last"} /\ w.vault.row[w.who] \in Settlement =>
    \/ disk' = w.vault \/ run'[w.who].unsaved
    \/ \E s \in S : s.who = w.who /\ s.vault.row[w.who] \in Settlement

SaveEnds(S) ==
  /\ Shifts(S)
  /\ run' \in [Run -> RunRecord] /\ call' \in [Call -> CallRecord] /\ used' = used
  /\ decided' \in [Proposal -> {"none", "accepted", "rejected"}]
  /\ db' \in AgentVault /\ disk' \in {disk, queue[1].vault} /\ Timeline(disk', queue', db')
  /\ db'.proposal = db.proposal
  /\ \A r \in Run : RunSaved(queue[1], r)
  /\ \A c \in Call : CallSaved(queue[1], c)
  /\ \A p \in Proposal : decided'[p] = decided[p] \/ decided'[p] = disk'.proposal[p]
  /\ \A s \in S : LastWord(s)
  /\ EndIsKept(queue[1], S)

LEMMA HeadFacts ==
  ASSUME AgentInv, queue # <<>>
  PROVE  /\ 1 \in 1 .. Len(queue) /\ queue[1] \in Entry /\ Waits(queue[1], run, call)
         /\ Head(queue) = queue[1] /\ Earlier(disk, queue[1].vault)
         /\ queue[1].vault \in AgentVault
<1>1. queue \in Seq(Entry)
  BY DEF AgentInv, Types
<1>2. 1 \in 1 .. Len(queue) /\ queue[1] \in Entry /\ Head(queue) = queue[1]
  BY <1>1, TailFacts
<1> QED BY <1>2 DEF AgentInv, Line, Timeline, Entry

LEMMA SaveEndsLine ==
  ASSUME AgentInv, NEW S, SaveEnds(S)
  PROVE  Types' /\ Line'
<1> DEFINE w == queue[1]
<1>1. Types /\ Line /\ Shifts(S) /\ queue # <<>>
  BY DEF AgentInv, SaveEnds, Shifts
<1>2. /\ 1 \in 1 .. Len(queue) /\ w \in Entry /\ Waits(w, run, call) /\ w.vault \in AgentVault
  BY <1>1, HeadFacts
<1>3. Types'
  <2>1. disk' \in AgentVault /\ db' \in AgentVault
    BY <1>1, <1>2 DEF SaveEnds, Types
  <2>2. queue' \in Seq(Entry) /\ used' \in [Run -> SUBSET RequestId]
    BY <1>1 DEF SaveEnds, Shifts, Types
  <2> QED BY <2>1, <2>2 DEF SaveEnds, Types
<1>4. /\ \A r \in Run : RunSaved(w, r)
      /\ \A c \in Call : CallSaved(w, c)
      /\ \A s \in S : LastWord(s)
      /\ Timeline(disk', queue', db')
  BY DEF SaveEnds
<1>5. \A r \in Run : run[r].pc \notin Before => run'[r].pc \notin Before
  <2>1. w.what = "row" => run[w.who].pc \in Before
    BY <1>2 DEF Waits, Before
  <2> QED BY <1>4, <2>1 DEF RunSaved
<1>6. ASSUME NEW i \in 1 .. Len(queue), i > 1 PROVE Waits(queue[i], run', call')
  <2>1. Waits(queue[i], run, call) /\ queue[i] \in Entry
    BY <1>1 DEF Line, Types
  <2>2. /\ queue[i].what = w.what /\ queue[i].what \in {"row"} \cup CallTag
        => queue[i].who # w.who
    BY <1>1, <1>2, <1>6 DEF Line
  <2>3. ASSUME queue[i].what = "row" PROVE run'[queue[i].who].pc = "creating"
    <3>1. queue[i].who \in Run /\ run[queue[i].who].pc = "creating"
      BY <2>1, <2>3 DEF Waits, RunTag
    <3> QED BY <1>4, <2>2, <2>3, <3>1 DEF RunSaved
  <2>4. ASSUME queue[i].what \in {"event", "last"} PROVE run'[queue[i].who].pc \notin Before
    BY <1>5, <2>1, <2>4 DEF Waits, RunTag
  <2>5. ASSUME queue[i].what \in CallTag PROVE call'[queue[i].who].pc = PcOf[queue[i].what]
    <3>1. queue[i].who \in Call /\ call[queue[i].who].pc = PcOf[queue[i].what]
      BY <2>1, <2>5 DEF Waits
    <3>2. ~ (w.what \in CallTag /\ w.who = queue[i].who)
      <4>1. w.what \in CallTag /\ w.who = queue[i].who => w.what = queue[i].what
        BY <1>2, <2>5, <3>1, TagFacts DEF Waits
      <4> QED BY <2>2, <2>5, <4>1
    <3> QED BY <1>4, <3>1, <3>2 DEF CallSaved
  <2> QED BY <2>1, <2>3, <2>4, <2>5 DEF Waits
<1>7. ASSUME NEW s \in S PROVE Waits(s, run', call')
  BY <1>4, <1>5 DEF LastWord, Waits, CallTag, RunTag
<1>8. \A i \in 1 .. Len(queue') :
        queue'[i] \in S \/ (i + 1 \in 1 .. Len(queue) /\ i + 1 > 1 /\ queue'[i] = queue[i + 1])
  <2>1. \A i \in 1 .. Len(queue') : i + 1 > 1
    BY <1>3 DEF Types
  <2> QED BY <1>1, <2>1 DEF Shifts
<1>9. \A i \in 1 .. Len(queue') : Waits(queue'[i], run', call')
  BY <1>6, <1>7, <1>8
<1>10. ASSUME NEW i \in 1 .. Len(queue'), NEW j \in 1 .. Len(queue'),
              queue'[i].who = queue'[j].who, queue'[i].what = queue'[j].what,
              queue'[i].what \in {"row"} \cup CallTag
       PROVE  i = j
  <2>1. queue'[i] \notin S /\ queue'[j] \notin S
    BY <1>4, <1>10 DEF LastWord, CallTag
  <2>2. /\ i + 1 \in 1 .. Len(queue) /\ queue'[i] = queue[i + 1]
        /\ j + 1 \in 1 .. Len(queue) /\ queue'[j] = queue[j + 1]
    BY <1>8, <2>1
  <2>3. i + 1 = j + 1
    BY <1>1, <1>10, <2>2 DEF Line
  <2> QED BY <2>3
<1> QED BY <1>3, <1>4, <1>9, <1>10 DEF Line

LEMMA SaveEndsRun ==
  ASSUME AgentInv, NEW S, SaveEnds(S), NEW r \in Run
  PROVE  RunInv(r)'
<1> DEFINE w == queue[1]
<1>1. Types /\ Shifts(S) /\ queue # <<>> /\ RunInv(r)
  BY DEF AgentInv, SaveEnds, Shifts
<1>2. /\ 1 \in 1 .. Len(queue) /\ Waits(w, run, call) /\ Earlier(disk, w.vault)
  BY <1>1, HeadFacts
<1>3. /\ RunSaved(w, r) /\ \A s \in S : LastWord(s)
      /\ EndIsKept(w, S) /\ disk' \in {disk, w.vault} /\ db'.proposal = db.proposal
  BY DEF SaveEnds
<1>4. \/ run'[r].pc = run[r].pc
      \/ run[r].pc = "creating" /\ run'[r].pc \in {"created", "not created"}
  BY <1>2, <1>3 DEF RunSaved, Waits
<1>5. Stored(r) => Stored(r)'
  BY <1>2, <1>3 DEF Stored, RunSaved, Earlier
<1>6. Settling(r) => Stored(r)' \/ Settling(r)'
  <2> SUFFICES ASSUME NEW i \in 1 .. Len(queue), queue[i].who = r,
                      queue[i].what \in {"event", "last"}, queue[i].vault.row[r] \in Settlement
               PROVE  Stored(r)' \/ Settling(r)'
    BY DEF Settling
  <2>1. CASE i > 1
    BY <1>1, <2>1 DEF Shifts, Settling
  <2>2. CASE i = 1
    <3>1. CASE disk' = w.vault \/ run'[r].unsaved
      BY <2>2, <3>1 DEF Stored
    <3>2. ASSUME NEW s \in S, s.who = r, s.vault.row[r] \in Settlement PROVE Settling(r)'
      <4>1. s.what = "last"
        BY <1>3 DEF LastWord
      <4>2. PICK j \in 1 .. Len(queue') : queue'[j] = s
        BY <1>1 DEF Shifts
      <4> QED BY <3>2, <4>1, <4>2 DEF Settling
    <3> QED BY <1>3, <2>2, <3>1, <3>2 DEF EndIsKept
  <2> QED BY <1>1, <2>1, <2>2 DEF Types
<1>7. /\ At(r, "idle")' => db'.row[r] = "none"
      /\ run'[r].pc \in Before =>
           ~ run'[r].session /\ ~ run'[r].cancelled /\ run'[r].cancel = "none"
      /\ run'[r].pc \in Before \cup Working =>
           run'[r].outcome = "none" /\ db'.proposal[r] = "none"
  BY <1>1, <1>3, <1>4 DEF RunInv, RunSaved, At, Before, Working
<1>8. /\ run'[r].session => Active(r)'
      /\ run'[r].cancel # "none" => run'[r].cancelled
      /\ run'[r].cancel = "confirmed" => ~ run'[r].session
      /\ run'[r].cancelled => run'[r].outcome # "completed"
  BY <1>1, <1>3, <1>4 DEF RunInv, RunSaved, Active, InAdapter, At, Before
<1>9. /\ At(r, "ended")' => db'.row[r] \in Settlement /\ (Stored(r)' \/ Settling(r)')
      /\ At(r, "over")' /\ ~ run'[r].lost => db'.row[r] \in Settlement /\ Stored(r)'
  BY <1>1, <1>3, <1>4, <1>5, <1>6 DEF RunInv, RunSaved, At, Settlement
<1>10. ~ (db.row[r] = "completed" \/ disk.row[r] = "completed")
       \/ run[r].outcome = "completed"
  BY <1>1 DEF RunInv
<1>11. \A i \in 1 .. Len(queue) :
         queue[i].vault.row[r] = "completed" => run[r].outcome = "completed"
  BY <1>1 DEF RunInv
<1>12. "completed" \in {db'.row[r], disk'.row[r]} => run'[r].outcome = "completed"
  BY <1>2, <1>3, <1>10, <1>11 DEF RunSaved
<1>13. ASSUME NEW i \in 1 .. Len(queue'), queue'[i].vault.row[r] = "completed"
       PROVE  run'[r].outcome = "completed"
  <2>1. CASE queue'[i] \in S
    BY <1>3, <1>12, <1>13, <2>1 DEF LastWord
  <2>2. CASE i + 1 \in 1 .. Len(queue) /\ queue'[i] = queue[i + 1]
    BY <1>3, <1>11, <1>13, <2>2 DEF RunSaved
  <2> QED BY <1>1, <2>1, <2>2 DEF Shifts
<1> QED BY <1>7, <1>8, <1>9, <1>12, <1>13 DEF RunInv

LEMMA SaveEndsCall ==
  ASSUME AgentInv, NEW S, SaveEnds(S), NEW c \in Call
  PROVE  /\ CallInv(c)' /\ (Admitted(c)' => Admitted(c))
         /\ call'[c].run = call[c].run /\ call'[c].id = call[c].id
<1> DEFINE w == queue[1]
<1>1. Types /\ queue # <<>> /\ CallInv(c) /\ c \in Proposal
  BY CallFacts DEF AgentInv, SaveEnds, Shifts
<1>2. /\ Waits(w, run, call) /\ Earlier(disk, w.vault)
  BY <1>1, HeadFacts
<1>3. /\ CallSaved(w, c) /\ (\A r \in Run : RunSaved(w, r))
      /\ disk' \in {disk, w.vault} /\ db'.proposal = db.proposal /\ used' = used
  BY DEF SaveEnds
<1>4. /\ call'[c].run = call[c].run /\ call'[c].id = call[c].id /\ call'[c].told = call[c].told
  BY <1>3 DEF CallSaved
<1>5. \/ call'[c].pc = call[c].pc
      \/ call[c].pc = "auditing" /\ call'[c].pc = "audited"
      \/ /\ call[c].pc = "proposing" /\ call'[c].pc = "proposed"
         /\ disk' = w.vault /\ w.vault.proposal[c] # "none"
      \/ call[c].pc = "closing" /\ call'[c].pc = "closed"
      \/ call[c].pc \notin {"idle", "done"} /\ call'[c].pc \in {"unsaved", "done"}
  BY <1>2, <1>3 DEF CallSaved, Waits, PcOf, CallTag
<1>6. disk.proposal[c] # "none" => disk'.proposal[c] # "none"
  BY <1>1, <1>2, <1>3 DEF Earlier, Onwards
<1>7. Admitted(c)' => Admitted(c)
  BY <1>3, <1>5 DEF Admitted
<1>8. /\ call'[c].pc \in {"idle", "auditing", "audited"} => db'.proposal[c] = "none"
      /\ call'[c].pc = "idle" => call'[c].told = "nothing"
      /\ call'[c].pc \in {"proposed", "closing", "closed"} \/ call'[c].told = "pending" =>
           disk'.proposal[c] # "none"
  BY <1>1, <1>3, <1>4, <1>5, <1>6 DEF CallInv
<1>9. \A r \in Run : /\ run'[r].session = run[r].session
                     /\ run'[r].pc = run[r].pc \/ (w.what = "row" /\ w.who = r)
  BY <1>3 DEF RunSaved
<1> HIDE DEF w
<1>10. ASSUME call'[c].pc # "idle" PROVE call'[c].run \in Run /\ run'[call'[c].run].pc \notin Before
  <2>1. call[c].run \in Run /\ run[call[c].run].pc \notin Before
    BY <1>1, <1>5, <1>10 DEF CallInv
  <2>2. w.what = "row" => run[w.who].pc \in Before
    BY <1>2 DEF Waits, Before
  <2> QED BY <1>4, <1>9, <2>1, <2>2
<1>11. ASSUME Admitted(c)', run'[call'[c].run].session
       PROVE  call'[c].id \in used'[call'[c].run]
  <2>1. Admitted(c) /\ call[c].run \in Run
    BY <1>1, <1>7, <1>11 DEF Admitted, CallInv
  <2>2. run[call[c].run].session
    BY <1>4, <1>11, <1>9, <2>1
  <2> QED BY <1>1, <1>3, <1>4, <2>1, <2>2 DEF CallInv
<1> QED BY <1>4, <1>7, <1>8, <1>10, <1>11 DEF CallInv

LEMMA SaveEndsKeeps ==
  ASSUME AgentInv, NEW S, SaveEnds(S)
  PROVE  AgentInv'
<1>1. Types' /\ Line'
  BY SaveEndsLine
<1>2. \A r \in Run : RunInv(r)'
  BY SaveEndsRun
<1>3. \A c \in Call : /\ CallInv(c)' /\ (Admitted(c)' => Admitted(c))
                      /\ call'[c].run = call[c].run /\ call'[c].id = call[c].id
  BY SaveEndsCall
<1>4. Told'
  <2>1. ASSUME NEW p \in Proposal, decided'[p] # "none" PROVE disk'.proposal[p] = decided'[p]
    <3>1. CASE decided'[p] = disk'.proposal[p]
      BY <3>1
    <3>2. CASE decided'[p] = decided[p]
      <4>1. disk.proposal[p] = decided[p] /\ decided[p] \in {"accepted", "rejected"}
        BY <2>1, <3>2 DEF AgentInv, Told, Types
      <4>2. Earlier(disk, queue[1].vault) /\ disk' \in {disk, queue[1].vault}
        BY HeadFacts DEF SaveEnds, Shifts
      <4> QED BY <3>2, <4>1, <4>2 DEF Earlier, Onwards
    <3> QED BY <3>1, <3>2 DEF SaveEnds
  <2>2. \A c, d \in Call :
          /\ Admitted(c)' /\ Admitted(d)'
          /\ call'[c].run = call'[d].run /\ call'[c].id = call'[d].id
          => c = d
    BY <1>3 DEF AgentInv, Told
  <2> QED BY <2>1, <2>2 DEF Told
<1> QED BY <1>1, <1>2, <1>3, <1>4 DEF AgentInv


LEMMA AfterFacts ==
  /\ DOMAIN AfterSave = CallTag /\ DOMAIN AfterFailure = CallTag
  /\ AfterSave["audit"] = "audited" /\ AfterSave["proposal"] = "proposed"
  /\ AfterSave["closing"] = "closed" /\ AfterSave["failed"] = "done"
  /\ \A what \in CallTag : AfterFailure[what] \in {"unsaved", "done"}
BY DEF AfterSave, AfterFailure, CallTag

\* Where the call that awaited a save goes on.
LEMMA ResumedCalls ==
  ASSUME AgentInv, queue # <<>>, NEW where, DOMAIN where = CallTag,
         \A what \in CallTag : where[what] \in {"audited", "proposed", "closed", "unsaved", "done"},
         call' = Resumed(queue[1], where)
  PROVE  LET w == queue[1]
         IN  /\ call' \in [Call -> CallRecord]
             /\ \A c \in Call :
                  \/ call'[c] = call[c]
                  \/ /\ w.what \in CallTag /\ w.who = c
                     /\ call'[c].run = call[c].run /\ call'[c].id = call[c].id
                     /\ call'[c].told = call[c].told /\ call'[c].pc = where[w.what]
<1> DEFINE w == queue[1]
<1>1. call \in [Call -> CallRecord] /\ Waits(w, run, call)
  BY HeadFacts DEF AgentInv, Types
<1>2. CASE w.what \notin CallTag
  BY <1>1, <1>2 DEF Resumed
<1>3. CASE w.what \in CallTag
  <2> DEFINE pc == where[w.what]
             new == [call[w.who] EXCEPT !.pc = pc]
  <2>1. w.who \in Call /\ pc \in {"audited", "proposed", "closed", "unsaved", "done"}
    BY <1>1, <1>3 DEF Waits
  <2>2. call' = [call EXCEPT ![w.who].pc = pc]
    BY <1>3 DEF Resumed
  <2> HIDE DEF pc
  <2>3. /\ new \in CallRecord /\ new.pc = pc /\ new.run = call[w.who].run
        /\ new.id = call[w.who].id /\ new.told = call[w.who].told
    BY <1>1, <2>1 DEF CallRecord
  <2>4. call' = [call EXCEPT ![w.who] = new]
    BY <2>2
  <2> HIDE DEF new, w
  <2>5. /\ call' \in [Call -> CallRecord] /\ call'[w.who] = new
        /\ \A c \in Call : c # w.who => call'[c] = call[c]
    BY <1>1, <2>1, <2>3, <2>4
  <2> QED BY <1>3, <2>3, <2>5 DEF pc, w
<1> QED BY <1>2, <1>3

LEMMA RecordsGoOn ==
  ASSUME NEW old \in RunRecord, NEW pc \in {"created", "not created"}
  PROVE  LET new == [old EXCEPT !.pc = pc]
         IN  /\ new \in RunRecord /\ new.pc = pc /\ new.unsaved = old.unsaved
             /\ new.session = old.session /\ new.cancelled = old.cancelled
             /\ new.cancel = old.cancel /\ new.outcome = old.outcome /\ new.lost = old.lost
BY DEF RunRecord, Before

LEMMA RecordsMarked ==
  ASSUME NEW old \in RunRecord
  PROVE  LET new == [old EXCEPT !.unsaved = TRUE]
         IN  /\ new \in RunRecord /\ new.pc = old.pc /\ new.unsaved
             /\ new.session = old.session /\ new.cancelled = old.cancelled
             /\ new.cancel = old.cancel /\ new.outcome = old.outcome /\ new.lost = old.lost
<1> DEFINE yes == TRUE
           new == [old EXCEPT !.unsaved = yes]
<1>1. /\ new \in RunRecord /\ new.pc = old.pc /\ new.unsaved
      /\ new.session = old.session /\ new.cancelled = old.cancelled
      /\ new.cancel = old.cancel /\ new.outcome = old.outcome /\ new.lost = old.lost
  BY DEF RunRecord
<1> QED BY <1>1

\* Only the pc, and the mark of an unsaved end, change.
LEMMA ResumedRuns ==
  ASSUME AgentInv, queue # <<>>, NEW pc \in {"created", "not created"},
         LET w == queue[1]
         IN  \/ w.what = "row" /\ run' = Proceeds(w.who, pc)
             \/ w.what = "last" /\ run' = [run EXCEPT ![w.who].unsaved = TRUE]
             \/ w.what # "row" /\ run' = run,
         db'.row = db.row
  PROVE  /\ run' \in [Run -> RunRecord]
         /\ \A r \in Run : RunSaved(queue[1], r)
<1> DEFINE w == queue[1]
<1>1. run \in [Run -> RunRecord] /\ Waits(w, run, call)
  BY HeadFacts DEF AgentInv, Types
<1>2. CASE run' = run
  BY <1>1, <1>2 DEF RunSaved
<1>3. ASSUME w.what \in {"row", "last"}, NEW new \in RunRecord, run' = [run EXCEPT ![w.who] = new],
             \/ w.what = "row" /\ new.pc = pc /\ new.unsaved = run[w.who].unsaved
             \/ new.pc = run[w.who].pc /\ new.unsaved,
             new.session = run[w.who].session, new.cancelled = run[w.who].cancelled,
             new.cancel = run[w.who].cancel, new.outcome = run[w.who].outcome,
             new.lost = run[w.who].lost
      PROVE  run' \in [Run -> RunRecord] /\ \A r \in Run : RunSaved(w, r)
  <2>1. w.who \in Run
    BY <1>1, <1>3 DEF Waits, RunTag
  <2> HIDE DEF w
  <2>2. /\ run' \in [Run -> RunRecord] /\ run'[w.who] = new
        /\ \A r \in Run : r # w.who => run'[r] = run[r]
    BY <1>1, <1>3, <2>1
  <2>3. RunSaved(w, w.who)
    BY <1>3, <2>2 DEF RunSaved
  <2>4. ASSUME NEW r \in Run, r # w.who PROVE RunSaved(w, r)
    BY <2>2, <2>4 DEF RunSaved
  <2> QED BY <2>2, <2>3, <2>4
<1>4. CASE w.what = "row" /\ run' = Proceeds(w.who, pc)
  <2> DEFINE new == [run[w.who] EXCEPT !.pc = pc]
  <2>1. w.who \in Run
    BY <1>1, <1>4 DEF Waits, RunTag
  <2>2. /\ new \in RunRecord /\ new.pc = pc /\ new.unsaved = run[w.who].unsaved
        /\ new.session = run[w.who].session /\ new.cancelled = run[w.who].cancelled
        /\ new.cancel = run[w.who].cancel /\ new.outcome = run[w.who].outcome
        /\ new.lost = run[w.who].lost
    <3>1. run[w.who] \in RunRecord
      BY <1>1, <2>1
    <3> QED BY <3>1, RecordsGoOn
  <2>3. run' = [run EXCEPT ![w.who] = new]
    BY <1>4 DEF Proceeds
  <2> HIDE DEF new
  <2> QED BY <1>3, <1>4, <2>2, <2>3
<1>5. CASE w.what = "last" /\ run' = [run EXCEPT ![w.who].unsaved = TRUE]
  <2> DEFINE new == [run[w.who] EXCEPT !.unsaved = TRUE]
  <2>1. w.who \in Run
    BY <1>1, <1>5 DEF Waits, RunTag
  <2>2. /\ new \in RunRecord /\ new.pc = run[w.who].pc /\ new.unsaved
        /\ new.session = run[w.who].session /\ new.cancelled = run[w.who].cancelled
        /\ new.cancel = run[w.who].cancel /\ new.outcome = run[w.who].outcome
        /\ new.lost = run[w.who].lost
    <3>1. run[w.who] \in RunRecord
      BY <1>1, <2>1
    <3> QED BY <3>1, RecordsMarked
  <2>3. run' = [run EXCEPT ![w.who] = new]
    BY <1>5
  <2> HIDE DEF new
  <2> QED BY <1>3, <1>5, <2>2, <2>3
<1> QED BY <1>2, <1>4, <1>5

LEMMA WriteKeeps == ASSUME AgentInv, WriteSnapshot PROVE AgentInv'
<1> DEFINE w == queue[1]
<1>1. /\ queue # <<>> /\ queue' = Tail(queue) /\ db' = db /\ used' = used
      /\ Head(queue) = w /\ disk' = w.vault
      /\ w \in Entry /\ Waits(w, run, call) /\ w.vault \in AgentVault
  BY HeadFacts DEF WriteSnapshot
<1>2. Types /\ disk' \in {disk, Head(queue).vault}
  BY <1>1 DEF AgentInv
<1>3. Shifts({}) /\ Timeline(disk', queue', db')
  BY <1>1, <1>2, TailShifts
<1>4. run' \in [Run -> RunRecord] /\ \A r \in Run : RunSaved(w, r)
  <2>1. \/ w.what = "row" /\ run' = Proceeds(w.who, "created")
        \/ w.what # "row" /\ run' = run
    BY <1>1 DEF WriteSnapshot
  <2> QED BY <1>1, <2>1, ResumedRuns
<1>5. call' \in [Call -> CallRecord] /\ \A c \in Call : CallSaved(w, c)
  <2>1. call' = Resumed(w, AfterSave)
    BY <1>1 DEF WriteSnapshot
  <2>2. \A what \in CallTag : AfterSave[what] \in {"audited", "proposed", "closed", "unsaved", "done"}
    BY AfterFacts DEF CallTag
  <2>3. /\ call' \in [Call -> CallRecord]
        /\ \A c \in Call :
             \/ call'[c] = call[c]
             \/ /\ w.what \in CallTag /\ w.who = c
                /\ call'[c].run = call[c].run /\ call'[c].id = call[c].id
                /\ call'[c].told = call[c].told /\ call'[c].pc = AfterSave[w.what]
    BY <1>1, <2>1, <2>2, AfterFacts, ResumedCalls
  <2>4. w.what \in CallTag =>
          \/ AfterSave[w.what] = "audited" /\ w.what = "audit"
          \/ AfterSave[w.what] = "proposed" /\ w.what = "proposal"
          \/ AfterSave[w.what] = "closed" /\ w.what = "closing"
          \/ AfterSave[w.what] \in {"unsaved", "done"}
    BY AfterFacts DEF CallTag
  <2> QED BY <1>1, <2>3, <2>4 DEF CallSaved
<1>6. /\ decided' \in [Proposal -> {"none", "accepted", "rejected"}]
      /\ \A p \in Proposal : decided'[p] = decided[p] \/ decided'[p] = disk'.proposal[p]
  <2>1. decided' = IF w.what = "review" THEN [decided EXCEPT ![w.who] = w.vault.proposal[w.who]]
                   ELSE decided
    BY <1>1 DEF WriteSnapshot
  <2>2. /\ w.what = "review" => w.vault.proposal[w.who] \in {"accepted", "rejected"}
        /\ w.who \in Proposal
    BY <1>1 DEF Waits, Entry
  <2> QED BY <1>1, <1>2, <2>1, <2>2 DEF Types
<1>7. EndIsKept(w, {})
  BY <1>1 DEF EndIsKept
<1>8. db' \in AgentVault /\ disk' \in {disk, w.vault} /\ db'.proposal = db.proposal
  BY <1>1, <1>2 DEF Types
<1> QED BY <1>1, <1>3, <1>4, <1>5, <1>6, <1>7, <1>8, SaveEndsKeeps DEF SaveEnds

LEMMA WriteFailsKeeps == ASSUME AgentInv, WriteFails PROVE AgentInv'
<1> DEFINE w == queue[1]
<1>1. /\ queue # <<>> /\ used' = used /\ decided' = decided
      /\ Head(queue) = w /\ disk' \in {disk, Head(queue).vault} /\ disk' \in {disk, w.vault}
      /\ w \in Entry /\ Waits(w, run, call) /\ w.vault \in AgentVault
  BY HeadFacts DEF WriteFails
<1>2. Types /\ db \in AgentVault
  BY DEF AgentInv, Types
<1>3. /\ decided' \in [Proposal -> {"none", "accepted", "rejected"}]
      /\ \A p \in Proposal : decided'[p] = decided[p] \/ decided'[p] = disk'.proposal[p]
  BY <1>1, <1>2 DEF Types
<1>4. CASE w.what = "event"
  <2> DEFINE failed == [db EXCEPT !.row[w.who] = "failed"]
             s == Snapshot(failed, w.who, "last")
  <2>1. db' = failed /\ queue' = Append(Tail(queue), s) /\ run' = run /\ call' = call
    BY <1>1, <1>4 DEF WriteFails, EventNotSaved
  <2>2. w.who \in Run /\ run[w.who].pc \notin Before
    BY <1>1, <1>4 DEF Waits, RunTag
  <2>3. "failed" \in RowStatus \ {"none"} /\ "failed" \in Settlement
    BY DEF RowStatus, Settlement
  <2>4. /\ failed \in AgentVault /\ Earlier(db, failed) /\ failed.proposal = db.proposal
        /\ failed.row[w.who] = "failed" /\ \A r \in Run : r # w.who => failed.row[r] = db.row[r]
    BY <1>2, <2>2, <2>3, NewRow
  <2> HIDE DEF failed
  <2>5. s \in Entry /\ s.vault = failed /\ s.who = w.who /\ s.what = "last"
    BY <2>2, <2>4 DEF Snapshot, Entry, Proposal, RunTag
  <2> HIDE DEF s
  <2>6. Shifts({s}) /\ Timeline(disk', queue', db')
    BY <1>1, <2>1, <2>4, <2>5, FailureShifts
  <2>7. /\ run' \in [Run -> RunRecord] /\ call' \in [Call -> CallRecord]
        /\ \A c \in Call : CallSaved(w, c)
    BY <1>2, <2>1 DEF Types, CallSaved
  <2>8. \A r \in Run : RunSaved(w, r)
    BY <2>1, <2>2, <2>4 DEF RunSaved
  <2>9. LastWord(s) /\ EndIsKept(w, {s}) /\ db'.proposal = db.proposal /\ db' \in AgentVault
    BY <2>1, <2>2, <2>3, <2>4, <2>5 DEF LastWord, EndIsKept
  <2> QED BY <1>1, <1>3, <2>6, <2>7, <2>8, <2>9, SaveEndsKeeps DEF SaveEnds
<1>5. CASE w.what # "event"
  <2>1. queue' = Tail(queue) /\ call' = Resumed(w, AfterFailure) /\ db' = db
    BY <1>1, <1>5 DEF WriteFails
  <2>2. run' = CASE w.what = "row" -> Proceeds(w.who, "not created")
                 [] w.what = "last" -> [run EXCEPT ![w.who].unsaved = TRUE]
                 [] OTHER -> run
    BY <1>1, <1>5 DEF WriteFails
  <2>3. \/ w.what = "row" /\ run' = Proceeds(w.who, "not created")
        \/ w.what = "last" /\ run' = [run EXCEPT ![w.who].unsaved = TRUE]
        \/ w.what \notin {"row", "last"} /\ run' = run
    BY <2>2, Zenon
  <2>4. Shifts({}) /\ Timeline(disk', queue', db')
    BY <1>1, <2>1, TailShifts
  <2>5. run' \in [Run -> RunRecord] /\ \A r \in Run : RunSaved(w, r)
    <3>1. \/ w.what = "row" /\ run' = Proceeds(w.who, "not created")
          \/ w.what = "last" /\ run' = [run EXCEPT ![w.who].unsaved = TRUE]
          \/ w.what # "row" /\ run' = run
      BY <2>3
    <3>2. db'.row = db.row
      BY <2>1
    <3> QED BY <1>1, <3>1, <3>2, ResumedRuns
  <2>6. call' \in [Call -> CallRecord] /\ \A c \in Call : CallSaved(w, c)
    <3>1. /\ call' \in [Call -> CallRecord]
          /\ \A c \in Call :
               \/ call'[c] = call[c]
               \/ /\ w.what \in CallTag /\ w.who = c
                  /\ call'[c].run = call[c].run /\ call'[c].id = call[c].id
                  /\ call'[c].told = call[c].told /\ call'[c].pc = AfterFailure[w.what]
      BY <1>1, <2>1, AfterFacts, ResumedCalls
    <3> QED BY <3>1, AfterFacts DEF CallSaved
  <2>7. EndIsKept(w, {})
    <3>1. ASSUME w.what = "last" PROVE run'[w.who].unsaved
      <4> DEFINE new == [run[w.who] EXCEPT !.unsaved = TRUE]
      <4>1. w.who \in Run /\ run \in [Run -> RunRecord]
        BY <1>1, <1>2, <3>1 DEF Waits, RunTag, Types
      <4>2. run' = [run EXCEPT ![w.who] = new]
        BY <2>3, <3>1
      <4>3. new.unsaved
        BY <4>1, RecordsMarked
      <4> HIDE DEF new
      <4> QED BY <4>1, <4>2, <4>3
    <3> QED BY <1>5, <3>1 DEF EndIsKept
  <2>8. db' \in AgentVault /\ db'.proposal = db.proposal
    BY <1>2, <2>1
  <2> QED BY <1>1, <1>3, <2>4, <2>5, <2>6, <2>7, <2>8, SaveEndsKeeps DEF SaveEnds
<1> QED BY <1>4, <1>5

\* A crash goes back to the file, and ends the runs and the calls under way.
LEMMA CrashKeeps == ASSUME AgentInv, Crash PROVE AgentInv'
<1>1. /\ db' = disk /\ queue' = <<>> /\ UNCHANGED <<disk, decided>> /\ used' = [r \in Run |-> {}]
      /\ Types /\ Earlier(disk, db) /\ Len(queue') = 0
  BY DEF Crash, AgentInv, Line, Timeline
<1>2. ASSUME NEW r \in Run
      PROVE  /\ run'[r] \in RunRecord
             /\ \/ run[r].pc = "idle" /\ run'[r] = run[r]
                \/ /\ run[r].pc # "idle" /\ run'[r].pc = "over" /\ ~ run'[r].session /\ run'[r].lost
                   /\ run'[r].cancel = "none" \/ run'[r].cancel = run[r].cancel
                   /\ run'[r].cancelled = run[r].cancelled /\ run'[r].outcome = run[r].outcome
  <2> DEFINE cancel == IF run[r].cancel = "confirmed" THEN run[r].cancel ELSE "none"
             yes == TRUE
             no == FALSE
             new == [run[r] EXCEPT !.pc = "over", !.session = no, !.lost = yes, !.cancel = cancel]
  <2>1. /\ run[r] \in RunRecord
        /\ run'[r] = IF run[r].pc = "idle" THEN run[r] ELSE new
    BY <1>1 DEF Crash, At, Types
  <2>2. cancel \in {"none", "confirmed"} /\ (cancel = "none" \/ cancel = run[r].cancel)
    OBVIOUS
  <2> HIDE DEF cancel
  <2>3. /\ new \in RunRecord /\ new.pc = "over" /\ ~ new.session /\ new.lost /\ new.cancel = cancel
        /\ new.cancelled = run[r].cancelled /\ new.outcome = run[r].outcome
    BY <2>1, <2>2 DEF RunRecord
  <2> HIDE DEF new
  <2> QED BY <2>1, <2>2, <2>3
<1>3. ASSUME NEW c \in Call
      PROVE  /\ call'[c] \in CallRecord
             /\ \/ call[c].pc = "idle" /\ call'[c] = call[c]
                \/ /\ call[c].pc # "idle" /\ call'[c].pc = "done"
                   /\ call'[c].run = call[c].run /\ call'[c].id = call[c].id
                   /\ call'[c].told = call[c].told
  <2>1. /\ call[c] \in CallRecord
        /\ call'[c] = IF call[c].pc = "idle" THEN call[c] ELSE [call[c] EXCEPT !.pc = "done"]
    BY <1>1 DEF Crash, Types
  <2> QED BY <2>1 DEF CallRecord
<1>4. Types'
  <2>1. run' = [r \in Run |-> run'[r]] /\ call' = [c \in Call |-> call'[c]]
    BY DEF Crash
  <2>2. run' \in [Run -> RunRecord] /\ call' \in [Call -> CallRecord]
    BY <1>2, <1>3, <2>1
  <2>3. queue' \in Seq(Entry) /\ used' \in [Run -> SUBSET RequestId]
    BY <1>1
  <2> QED BY <1>1, <2>2, <2>3 DEF Types
<1>5. Line'
  <2>1. Timeline(disk', queue', db')
    BY <1>1, EarlierReflexive DEF Timeline
  <2> QED BY <1>1, <2>1 DEF Line
<1>6. ASSUME NEW r \in Run PROVE RunInv(r)'
  <2>1. RunInv(r) /\ r \in Proposal
    BY RunFacts
  <2>2. run[r].pc = "idle" =>
          disk.row[r] = "none" /\ disk.proposal[r] = "none" /\ ~ run[r].session
          /\ run[r].outcome = "none" /\ ~ run[r].cancelled /\ run[r].cancel = "none"
    BY <1>1, <2>1 DEF RunInv, Earlier, Onwards, At, Before
  <2>3. disk.row[r] = "completed" => run[r].outcome = "completed"
    BY <2>1 DEF RunInv
  <2>4. /\ run[r].cancel # "none" => run[r].cancelled
        /\ run[r].cancelled => run[r].outcome # "completed"
    BY <2>1 DEF RunInv
  <2>5. disk.row[r] = "completed" => run'[r].outcome = "completed"
    BY <1>2, <2>3
  <2>6. CASE run[r].pc = "idle" /\ run'[r] = run[r]
    BY <1>1, <2>2, <2>5, <2>6 DEF RunInv, At
  <2>7. CASE run'[r].pc = "over" /\ ~ run'[r].session /\ run'[r].lost
    <3>1. /\ run'[r].cancel # "none" => run'[r].cancelled
          /\ run'[r].cancelled => run'[r].outcome # "completed"
      BY <1>2, <2>4
    <3> QED BY <1>1, <2>5, <2>7, <3>1 DEF RunInv, At, Before, Working
  <2> QED BY <1>2, <2>6, <2>7
<1>7. \A r \in Run : ~ run'[r].session
  <2>1. \A r \in Run : run[r].pc = "idle" => ~ run[r].session
    BY RunFacts DEF Before
  <2> QED BY <1>2, <2>1
<1>8. ASSUME NEW c \in Call
      PROVE  /\ CallInv(c)' /\ (Admitted(c)' => Admitted(c))
             /\ call'[c].run = call[c].run /\ call'[c].id = call[c].id
  <2>1. CallInv(c) /\ c \in Proposal
    BY CallFacts
  <2>2. disk.proposal[c] # "none" => db.proposal[c] # "none"
    BY <1>1, <2>1 DEF Earlier, Onwards
  <2>3. Admitted(c)' => Admitted(c)
    BY <1>1, <1>3, <2>2 DEF Admitted
  <2>4. /\ call'[c].pc \in {"idle", "auditing", "audited"} => db'.proposal[c] = "none"
        /\ call'[c].pc = "idle" => call'[c].told = "nothing"
        /\ call'[c].pc \in {"proposed", "closing", "closed"} \/ call'[c].told = "pending" =>
             disk'.proposal[c] # "none"
    BY <1>1, <1>3, <2>1, <2>2 DEF CallInv
  <2>5. call'[c].pc # "idle" => call'[c].run \in Run /\ run'[call'[c].run].pc \notin Before
    <3>1. call[c].pc # "idle" => call[c].run \in Run /\ run[call[c].run].pc \notin Before
      BY <2>1 DEF CallInv
    <3> QED BY <1>2, <1>3, <3>1 DEF Before
  <2>6. Admitted(c)' => call'[c].run \in Run
    BY <2>4, <2>5 DEF Admitted
  <2> QED BY <1>3, <1>7, <2>3, <2>4, <2>5, <2>6 DEF CallInv
<1>9. Told'
  BY <1>1, <1>8 DEF AgentInv, Told
<1> QED BY <1>4, <1>5, <1>6, <1>8, <1>9 DEF AgentInv


-----------------------------------------------------------------------------
(* The invariant *)

LEMMA InitHolds == Init => AgentInv
<1> SUFFICES ASSUME Init PROVE AgentInv
  OBVIOUS
<1>1. Types
  <2>1. EmptyVault \in AgentVault
    BY DEF EmptyVault, AgentVault, RowStatus, ProposalStatus
  <2>2. NewRun \in RunRecord
    BY DEF NewRun, RunRecord, Before
  <2>3. NewCall \in CallRecord
    BY DEF NewCall, CallRecord
  <2> QED BY <2>1, <2>2, <2>3 DEF Init, Types
<1>2. /\ db = EmptyVault /\ disk = EmptyVault /\ Len(queue) = 0
      /\ \A r \in Run : db.row[r] = "none" /\ run[r] = NewRun
      /\ \A p \in Proposal : db.proposal[p] = "none" /\ decided[p] = "none"
      /\ \A c \in Call : call[c] = NewCall
  BY DEF Init, EmptyVault
<1>3. Line
  BY <1>2, EarlierReflexive DEF Line, Timeline
<1>4. ASSUME NEW r \in Run PROVE RunInv(r)
  <2>1. /\ run[r].pc = "idle" /\ run[r].cancel = "none" /\ run[r].outcome = "none"
        /\ ~ run[r].session /\ ~ run[r].cancelled
    BY <1>2 DEF NewRun
  <2>2. /\ db.row[r] = "none" /\ disk.row[r] = "none" /\ db.proposal[r] = "none" /\ Len(queue) = 0
    BY <1>2 DEF Proposal
  <2> QED BY <2>1, <2>2 DEF RunInv, At
<1>5. ASSUME NEW c \in Call PROVE CallInv(c) /\ ~ Admitted(c)
  BY <1>2, <1>5 DEF CallInv, Admitted, NewCall, Proposal
<1>6. Told
  BY <1>2, <1>5 DEF Told
<1> QED BY <1>1, <1>3, <1>4, <1>5, <1>6 DEF AgentInv

LEMMA NextKeeps == AgentInv /\ [Next]_vars => AgentInv'
<1> SUFFICES ASSUME AgentInv, [Next]_vars PROVE AgentInv'
  OBVIOUS
<1>1. ASSUME NEW r \in Run, NEW provider \in {"codex", "claude"}, AgentRun(r, provider) PROVE AgentInv'
  BY <1>1, AgentRunKeeps
<1>2. ASSUME NEW r \in Run, Adapter(r) PROVE AgentInv'
  BY <1>2, PhasesKeep, TurnKeeps DEF Adapter
<1>3. ASSUME NEW r \in Run, Delta(r) \/ Answered(r) PROVE AgentInv'
  BY <1>3, TurnKeeps
<1>4. ASSUME NEW r \in Run, Service(r) PROVE AgentInv'
  BY <1>4, StartRunKeeps, NotStartedKeeps, ServiceEndsKeeps, InterruptEndsKeeps DEF Service
<1>5. ASSUME NEW r \in Run, Cancel(r) PROVE AgentInv'
  BY <1>5, CancelKeeps
<1>6. ASSUME NEW c \in Call, NEW r \in Run, NEW id \in RequestId, Request(c, r, id) PROVE AgentInv'
  BY <1>6, RequestKeeps
<1>7. ASSUME NEW c \in Call, ToolCall(c) PROVE AgentInv'
  BY <1>7, ToolCallKeeps
<1>8. ASSUME NEW p \in Proposal, NEW decision \in {"accepted", "rejected"}, Review(p, decision)
      PROVE  AgentInv'
  BY <1>8, ReviewKeeps
<1>9. ASSUME Saving \/ Crash PROVE AgentInv'
  BY <1>9, WriteKeeps, WriteFailsKeeps, CrashKeeps DEF Saving
<1>10. ASSUME UNCHANGED vars PROVE AgentInv'
  BY <1>10 DEF vars, AgentInv, Types, Line, Told, RunInv, CallInv, At, Active, InAdapter,
               Admitted, Stored, Settling
<1> QED BY <1>1, <1>2, <1>3, <1>4, <1>5, <1>6, <1>7, <1>8, <1>9, <1>10 DEF Next

LEMMA AgentInvariance == Spec => []AgentInv
BY InitHolds, NextKeeps, PTL DEF Spec

-----------------------------------------------------------------------------
(* What the module promises *)

\* Every variable has its type, however many runs, calls and failures there
\* are (agent-service.ts, vault-service.ts).
THEOREM AgentTypes == Spec => []AgentTypeOK
<1>1. AgentInv => AgentTypeOK
  <2> SUFFICES ASSUME AgentInv PROVE AgentTypeOK
    OBVIOUS
  <2>1. AgentVault = [row : [Run -> {"none", "running"} \cup Settlement],
                      proposal : [Proposal -> {"none", "pending", "accepted", "rejected"}]]
    BY DEF AgentVault, RowStatus, ProposalStatus
  <2>2. RunTag \cup {"review"} \cup CallTag
        = {"row", "event", "last", "review"} \cup DOMAIN AfterSave
    BY AfterFacts DEF RunTag
  <2>3. \A r \in Run : /\ run[r].outcome \in Settlement \cup {"none", "cancelled"}
                       /\ run[r].session => Active(r)
                       /\ used[r] \subseteq RequestId
    BY DEF AgentInv, Types, RunRecord, RunInv
  <2>4. \A c \in Call : call[c].told \in {"nothing", "refused", "pending"}
    BY DEF AgentInv, Types, CallRecord
  <2>5. /\ db \in AgentVault /\ disk \in AgentVault /\ queue \in Seq(Entry)
        /\ decided \in [Proposal -> {"none", "accepted", "rejected"}]
    BY DEF AgentInv, Types
  <2> QED BY <2>1, <2>2, <2>3, <2>4, <2>5 DEF AgentTypeOK, Entry
<1> QED BY <1>1, AgentInvariance, PTL

\* A run that was started and is over is settled in the vault and in the file,
\* unless the save of its failure failed too, and is stored as completed only if
\* it was: AgentService waits for the events under way before it lets go of a
\* run, and a failed save is followed by an event of the failure.
THEOREM RunsAreSettled == Spec => []RunIsSettled
<1>1. AgentInv => RunIsSettled
  BY DEF AgentInv, RunInv, Stored, RunIsSettled
<1> QED BY <1>1, AgentInvariance, PTL

\* What agents and the founder were told about proposals is so in the file, and
\* what is in the file about a decision is so in the vault; no request id makes
\* two proposals (createProposal, reviewAgentProposal, recordAuditEvent).
THEOREM ProposalsAreAsTold == Spec => []ProposalsAreTold
<1>1. AgentInv => ProposalsAreTold
  <2> SUFFICES ASSUME AgentInv PROVE ProposalsAreTold
    OBVIOUS
  <2>1. \A c \in Call : call[c].told = "pending" => disk.proposal[c] # "none"
    BY DEF AgentInv, CallInv
  <2>2. ASSUME NEW p \in Proposal, decided[p] # "none"
        PROVE  db.proposal[p] = decided[p] /\ disk.proposal[p] = decided[p]
    <3>1. disk.proposal[p] = decided[p] /\ decided[p] \in {"accepted", "rejected"}
      BY <2>2 DEF AgentInv, Told, Types
    <3>2. Onwards(disk.proposal[p], db.proposal[p])
      BY DEF AgentInv, Line, Timeline, Earlier
    <3> QED BY <3>1, <3>2 DEF Onwards
  <2>3. \A c, d \in Call :
          /\ call[c].run # None /\ call[c].run = call[d].run /\ call[c].id = call[d].id
          /\ "none" \notin {db.proposal[c], db.proposal[d]}
          => c = d
    BY DEF AgentInv, Told, Admitted
  <2> QED BY <2>1, <2>2, <2>3 DEF ProposalsAreTold
<1> QED BY <1>1, AgentInvariance, PTL


-----------------------------------------------------------------------------
(* A cancelled run stays cancelled *)

LEMMA OnlyTheRow ==
  ASSUME NEW v \in AgentVault, NEW r \in Run, NEW status \in RowStatus
  PROVE  [v EXCEPT !.row[r] = status].proposal = v.proposal
BY DEF AgentVault

LEMMA OnlyOneProposal ==
  ASSUME NEW v \in AgentVault, NEW p \in Proposal, NEW q \in Proposal, NEW status, p # q
  PROVE  [v EXCEPT !.proposal[p] = status].proposal[q] = v.proposal[q]
BY DEF AgentVault

\* The flag of the adapter is never taken back.
StaysCancelled == \A r \in Run : run[r].cancelled => run'[r].cancelled

LEMMA EndIsCancelled ==
  ASSUME AgentInv, NEW r \in Run, NEW outcome, run' = Ended(r, outcome)
  PROVE  StaysCancelled
BY DEF AgentInv, Types, Ended, StaysCancelled

LEMMA RunStaysCancelled ==
  ASSUME AgentInv, NEW r \in Run,
         \/ \E provider \in {"codex", "claude"} : AgentRun(r, provider)
         \/ Adapter(r) \/ Delta(r) \/ Answered(r) \/ Service(r) \/ Cancel(r)
  PROVE  StaysCancelled
<1>1. run \in [Run -> RunRecord]
  BY DEF AgentInv, Types
<1>2. \A pc : run' = Proceeds(r, pc) => StaysCancelled
  BY <1>1 DEF Proceeds, StaysCancelled
<1>3. CASE \E provider \in {"codex", "claude"} : AgentRun(r, provider)
  BY <1>1, <1>3 DEF AgentRun, StaysCancelled
<1>4. CASE Probed(r) \/ ThreadStarted(r) \/ TurnStarted(r)
  <2>1. (\E outcome : Fails(r, outcome)) \/ (\E pc : StartsTurn(r, pc))
    BY <1>4 DEF Probed, ThreadStarted, TurnStarted
  <2> QED BY <1>2, <2>1, EndIsCancelled DEF Fails, StartsTurn
<1>5. CASE Answered(r)
  <2>1. \E outcome : run' = Ended(r, outcome)
    BY <1>5 DEF Answered, Finishes, Fails, Completes, CompletesWithProposal, CompletesWithoutProposal
  <2> QED BY <2>1, EndIsCancelled
<1>6. CASE QueryEnds(r)
  <2>1. \E outcome : run' = Ended(r, outcome)
    BY <1>6 DEF QueryEnds, Fails
  <2> QED BY <2>1, EndIsCancelled
<1>7. CASE Timer(r)
  <2>1. (\E outcome : run' = Ended(r, outcome)) \/ run' = [run EXCEPT ![r].timedOut = TRUE]
    BY <1>7 DEF Timer, Fails
  <2>2. ASSUME run' = [run EXCEPT ![r].timedOut = TRUE] PROVE StaysCancelled
    <3> DEFINE yes == TRUE
               new == [run[r] EXCEPT !.timedOut = yes]
    <3>1. new.cancelled = run[r].cancelled /\ run' = [run EXCEPT ![r] = new]
      BY <1>1, <2>2 DEF RunRecord
    <3> HIDE DEF new
    <3> QED BY <1>1, <3>1 DEF StaysCancelled
  <2> QED BY <2>1, <2>2, EndIsCancelled
<1>8. CASE Delta(r)
  BY <1>1, <1>8 DEF Delta, StaysCancelled
<1>9. CASE StartRun(r) \/ NotStarted(r) \/ ServiceEnds(r)
  <2> DEFINE yes == TRUE
             no == FALSE
             started == [run[r] EXCEPT !.pc = "probing", !.session = yes]
             refused == [run[r] EXCEPT !.pc = "over", !.lost = yes]
             ended == [run[r] EXCEPT !.pc = "over", !.session = no]
  <2>1. /\ started.cancelled = run[r].cancelled /\ refused.cancelled = run[r].cancelled
        /\ ended.cancelled = run[r].cancelled
    BY <1>1 DEF RunRecord
  <2>2. \E new \in {started, refused, ended} : run' = [run EXCEPT ![r] = new]
    BY <1>9 DEF StartRun, NotStarted, ServiceEnds
  <2> HIDE DEF started, refused, ended
  <2> QED BY <1>1, <2>1, <2>2 DEF StaysCancelled
<1>10. CASE Cancel(r) \/ InterruptEnds(r)
  <2>1. \A x \in Run : x # r => run'[x] = run[x]
    BY <1>1, <1>10 DEF Cancel, InterruptEnds, Confirmed
  <2>2. run'[r].cancelled
    BY <1>1, <1>10 DEF Cancel, InterruptEnds, Confirmed, RunRecord
  <2> QED BY <2>1, <2>2 DEF StaysCancelled
<1> QED BY <1>3, <1>4, <1>5, <1>6, <1>7, <1>8, <1>9, <1>10 DEF Adapter, Service

LEMMA CancelledStays == ASSUME AgentInv, [Next]_vars PROVE StaysCancelled
<1>1. CASE UNCHANGED run
  BY <1>1 DEF StaysCancelled
<1>2. CASE WriteSnapshot
  <2>1. queue # <<>> /\ Head(queue) = queue[1] /\ db'.row = db.row
    BY <1>2, HeadFacts DEF WriteSnapshot
  <2>2. \/ queue[1].what = "row" /\ run' = Proceeds(queue[1].who, "created")
        \/ queue[1].what # "row" /\ run' = run
    BY <1>2, <2>1 DEF WriteSnapshot
  <2>3. \A r \in Run : RunSaved(queue[1], r)
    BY <2>1, <2>2, ResumedRuns
  <2> QED BY <2>3 DEF RunSaved, StaysCancelled
<1>3. CASE WriteFails
  <2>1. queue # <<>> /\ Head(queue) = queue[1]
    BY <1>3, HeadFacts DEF WriteFails
  <2>2. CASE queue[1].what = "event"
    BY <1>1, <1>3, <2>1, <2>2 DEF WriteFails, EventNotSaved
  <2>3. CASE queue[1].what # "event"
    <3> DEFINE w == queue[1]
    <3>1. db'.row = db.row
      BY <1>3, <2>1, <2>3 DEF WriteFails
    <3>2. run' = CASE w.what = "row" -> Proceeds(w.who, "not created")
                   [] w.what = "last" -> [run EXCEPT ![w.who].unsaved = TRUE]
                   [] OTHER -> run
      BY <1>3, <2>1, <2>3 DEF WriteFails
    <3>3. \/ w.what = "row" /\ run' = Proceeds(w.who, "not created")
          \/ w.what = "last" /\ run' = [run EXCEPT ![w.who].unsaved = TRUE]
          \/ w.what \notin {"row", "last"} /\ run' = run
      BY <3>2, Zenon
    <3>4. \/ w.what = "row" /\ run' = Proceeds(w.who, "not created")
          \/ w.what = "last" /\ run' = [run EXCEPT ![w.who].unsaved = TRUE]
          \/ w.what # "row" /\ run' = run
      BY <3>3
    <3>5. \A r \in Run : RunSaved(w, r)
      BY <2>1, <3>1, <3>4, ResumedRuns
    <3> QED BY <3>5 DEF RunSaved, StaysCancelled
  <2> QED BY <2>2, <2>3
<1>4. CASE Crash
  BY <1>4 DEF Crash, StaysCancelled, AgentInv, Types, RunRecord
<1>5. CASE \E c \in Call : \/ \E r \in Run, id \in RequestId : Request(c, r, id)
                           \/ ToolCall(c)
  BY <1>1, <1>5 DEF Request, ToolCall, Denied, Propose, CloseAudit, Tell, TellFailure
<1>6. CASE \E p \in Proposal, decision \in {"accepted", "rejected"} : Review(p, decision)
  BY <1>1, <1>6 DEF Review
<1>7. CASE UNCHANGED vars
  BY <1>1, <1>7 DEF vars
<1> QED BY <1>2, <1>3, <1>4, <1>5, <1>6, <1>7, RunStaysCancelled DEF Next, Saving

\* Who may add a proposal: a run that was not cancelled, a call with a session.
Proposes(p) ==
  \/ p \in Run /\ ~ run[p].cancelled
  \/ p \in Call /\ call[p].run \in Run /\ run[call[p].run].session

LEMMA RunsPropose ==
  ASSUME AgentInv, NEW r \in Run,
         \/ \E provider \in {"codex", "claude"} : AgentRun(r, provider)
         \/ Adapter(r) \/ Delta(r) \/ Answered(r) \/ Service(r) \/ Cancel(r),
         NEW p \in Proposal, db.proposal[p] = "none"
  PROVE  db'.proposal[p] = "none" \/ Proposes(p)
<1>1. db \in AgentVault /\ r \in Proposal
  BY RunFacts
<1>2. /\ "running" \in RowStatus /\ "failed" \in RowStatus /\ "completed" \in RowStatus
  BY DEF RowStatus, Settlement
<1>3. \A status \in RowStatus : [db EXCEPT !.row[r] = status].proposal = db.proposal
  BY <1>1, OnlyTheRow
<1>4. CASE db'.proposal = db.proposal
  BY <1>4
<1>5. \A outcome : Fails(r, outcome) => db'.proposal = db.proposal
  BY <1>2, <1>3 DEF Fails, Persist
<1>6. CASE \E provider \in {"codex", "claude"} : AgentRun(r, provider)
  BY <1>2, <1>3, <1>4, <1>6 DEF AgentRun, Persist
<1>7. CASE Adapter(r)
  <2>1. (\E outcome : Fails(r, outcome)) \/ db' = db
    BY <1>7 DEF Adapter, Probed, ThreadStarted, TurnStarted, Timer, QueryEnds, StartsTurn
  <2> QED BY <1>4, <1>5, <2>1
<1>8. CASE Delta(r) \/ Cancel(r)
  BY <1>4, <1>8 DEF Delta, Cancel, Persist
<1>9. CASE Service(r)
  <2>1. CASE StartRun(r) \/ NotStarted(r) \/ ServiceEnds(r)
    BY <1>4, <2>1 DEF StartRun, NotStarted, ServiceEnds, Persist
  <2>2. CASE InterruptEnds(r)
    BY <1>2, <1>3, <1>4, <2>2 DEF InterruptEnds, Persist
  <2> QED BY <1>9, <2>1, <2>2 DEF Service
<1>10. CASE Answered(r)
  <2>1. CASE \E outcome : Fails(r, outcome)
    BY <1>4, <1>5, <2>1
  <2>2. CASE Completes(r) \/ CompletesWithoutProposal(r)
    BY <1>2, <1>3, <1>4, <2>2 DEF Completes, CompletesWithoutProposal, Persist
  <2>3. CASE CompletesWithProposal(r) /\ ~ run[r].cancelled
    <3>1. CASE p = r
      BY <2>3, <3>1 DEF Proposes
    <3>2. CASE p # r
      <4> DEFINE proposed == [db EXCEPT !.proposal[r] = "pending"]
      <4>1. "pending" \in ProposalStatus \ {"none"} /\ Onwards(db.proposal[r], "pending")
        <5>1. RunInv(r) /\ run[r].pc \in Working
          BY <1>10, RunFacts DEF Answered, At, Working
        <5> QED BY <5>1 DEF RunInv, ProposalStatus, Onwards
      <4>2. proposed \in AgentVault /\ proposed.proposal[p] = db.proposal[p]
        BY <1>1, <3>2, <4>1, NewProposal
      <4>3. db' = [proposed EXCEPT !.row[r] = "completed"]
        BY <2>3 DEF CompletesWithProposal
      <4> HIDE DEF proposed
      <4>4. db'.proposal = proposed.proposal
        BY <1>2, <4>2, <4>3, OnlyTheRow
      <4> QED BY <4>2, <4>4
    <3> QED BY <3>1, <3>2
  <2> QED BY <1>10, <2>1, <2>2, <2>3 DEF Answered, Finishes
<1> QED BY <1>6, <1>7, <1>8, <1>9, <1>10

LEMMA OnlyProposersPropose ==
  ASSUME AgentInv, [Next]_vars, NEW p \in Proposal, db.proposal[p] = "none"
  PROVE  db'.proposal[p] = "none" \/ Proposes(p)
<1>1. db \in AgentVault
  BY DEF AgentInv, Types
<1>2. CASE UNCHANGED db
  BY <1>2
<1>3. CASE Saving
  <2>1. CASE WriteSnapshot
    BY <1>2, <2>1 DEF WriteSnapshot
  <2>2. CASE WriteFails
    <3>1. queue # <<>> /\ Head(queue) = queue[1] /\ Waits(queue[1], run, call)
      BY <2>2, HeadFacts DEF WriteFails
    <3>2. CASE queue[1].what = "event"
      <4>1. db' = [db EXCEPT !.row[queue[1].who] = "failed"] /\ queue[1].who \in Run
        BY <2>2, <3>1, <3>2 DEF WriteFails, EventNotSaved, Waits, RunTag
      <4>2. "failed" \in RowStatus
        BY DEF RowStatus, Settlement
      <4> QED BY <1>1, <4>1, <4>2, OnlyTheRow
    <3>3. CASE queue[1].what # "event"
      BY <1>2, <2>2, <3>1, <3>3 DEF WriteFails
    <3> QED BY <3>2, <3>3
  <2> QED BY <1>3, <2>1, <2>2 DEF Saving
<1>4. CASE Crash
  <2>1. Onwards(disk.proposal[p], db.proposal[p]) /\ db' = disk
    BY <1>4 DEF Crash, AgentInv, Line, Timeline, Earlier
  <2> QED BY <2>1 DEF Onwards
<1>5. ASSUME NEW c \in Call, ToolCall(c) PROVE db'.proposal[p] = "none" \/ Proposes(p)
  <2>1. CASE Propose(c)
    <3>1. c \in Proposal /\ CallInv(c) /\ call[c].pc = "audited" /\ run[call[c].run].session
      BY <2>1, CallFacts DEF Propose, HasSession
    <3>2. CASE p = c
      BY <3>1, <3>2 DEF CallInv, Proposes
    <3>3. CASE p # c
      BY <1>1, <2>1, <3>1, <3>3, OnlyOneProposal DEF Propose, Persist
    <3> QED BY <3>2, <3>3
  <2>2. CASE Denied(c) \/ CloseAudit(c) \/ Tell(c) \/ TellFailure(c)
    BY <1>2, <2>2 DEF Denied, CloseAudit, Tell, TellFailure, Persist
  <2> QED BY <1>5, <2>1, <2>2 DEF ToolCall
<1>6. ASSUME NEW c \in Call, NEW r \in Run, NEW id \in RequestId, Request(c, r, id)
      PROVE  db'.proposal[p] = "none"
  BY <1>2, <1>6 DEF Request, Persist
<1>7. ASSUME NEW q \in Proposal, NEW decision \in {"accepted", "rejected"}, Review(q, decision)
      PROVE  db'.proposal[p] = "none"
  <2>1. p # q
    BY <1>7 DEF Review
  <2> QED BY <1>1, <1>7, <2>1, OnlyOneProposal DEF Review, Persist
<1>8. CASE UNCHANGED vars
  BY <1>2, <1>8 DEF vars
<1> QED BY <1>3, <1>4, <1>5, <1>6, <1>7, <1>8, RunsPropose DEF Next

\* A run that the founder was told is cancelled is never counted as completed,
\* and proposes nothing any more: the adapter's flag is never taken back, a
\* final answer is read only without it, and the session that tool calls need
\* has gone (AgentService.cancel).
THEOREM CancelStaysFinal == Spec => CancelIsFinal
<1>1. AgentInv /\ AgentInv' /\ [Next]_vars =>
        \A r \in Run : run[r].cancel = "confirmed" =>
          /\ run'[r].outcome # "completed"
          /\ \A p \in {r} \cup {c \in Call : call[c].run = r} :
               db.proposal[p] = "none" => db'.proposal[p] = "none"
  <2> SUFFICES ASSUME AgentInv, AgentInv', [Next]_vars, NEW r \in Run, run[r].cancel = "confirmed"
               PROVE  /\ run'[r].outcome # "completed"
                      /\ \A p \in {r} \cup {c \in Call : call[c].run = r} :
                           db.proposal[p] = "none" => db'.proposal[p] = "none"
    OBVIOUS
  <2>1. run[r].cancelled /\ ~ run[r].session
    BY RunFacts DEF RunInv
  <2>2. run'[r].outcome # "completed"
    <3>1. run'[r].cancelled
      BY <2>1, CancelledStays DEF StaysCancelled
    <3>2. RunInv(r)'
      BY DEF AgentInv
    <3> QED BY <3>1, <3>2 DEF RunInv
  <2>3. ASSUME NEW p \in {r} \cup {c \in Call : call[c].run = r}, db.proposal[p] = "none"
        PROVE  db'.proposal[p] = "none"
    <3>1. p \in Proposal /\ (p = r \/ (p \in Call /\ p \notin Run /\ call[p].run = r))
      BY DEF Proposal
    <3>2. r \notin Call
      OBVIOUS
    <3>3. ~ Proposes(p)
      BY <2>1, <3>1, <3>2 DEF Proposes
    <3> QED BY <2>3, <3>1, <3>3, OnlyProposersPropose
  <2> QED BY <2>2, <2>3
<1> QED BY <1>1, AgentInvariance, PTL DEF Spec, CancelIsFinal
=============================================================================
