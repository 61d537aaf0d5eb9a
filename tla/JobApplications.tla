--------------------------- MODULE JobApplications ---------------------------
(***************************************************************************)
(* Job applications, the founder's stages with the transitions allowed     *)
(* between them, the stage history, and the list of applications the       *)
(* window shows: its pages are read one by one, with a cursor, while the   *)
(* applications change under it.                                           *)
(*                                                                         *)
(* An application is its stage and the time of its last change; a filter   *)
(* is a stage or none.  The clock does not go back, saves do not fail      *)
(* (VaultFile), and list requests are answered in the order they are made. *)
(***************************************************************************)
EXTENDS Naturals, Sequences, FiniteSets, SequencesExt

CONSTANTS
  MaxStages,   \* bound: stages
  MaxApps,     \* bound: applications
  Setups,      \* the stages the founder may begin with: which are terminal
  None,
  Limit,       \* rows of a page
  MaxTime,     \* bound: times of changes
  MaxChanges,  \* bound: commands that change something, and choices of a filter
  MaxRare,     \* bound: changes of stages and transitions, and failed list requests
  MaxRequests  \* bound: list requests under way

\* The ids of applications are random and ordered.
Stage == 1..MaxStages
App == 1..MaxApps

ASSUME JobBounds ==
  /\ MaxStages \in Nat /\ MaxApps \in Nat /\ Limit \in Nat \ {0}
  /\ MaxTime \in Nat /\ MaxRare \in Nat /\ MaxChanges \in Nat /\ MaxRequests \in Nat
ASSUME SetupsAreStages == \A terminal \in Setups : terminal \in Seq(BOOLEAN) /\ Len(terminal) \in 1..MaxStages
ASSUME NoneIsNoValue == None \notin Stage \cup (Nat \X App)

VARIABLES
  stages,   \* application_stages
  edges,    \* application_stage_transitions
  app,      \* job_applications
  history,  \* application_stage_history
  clock,    \* the time of the last change of an application
  view,     \* the list in the window
  channel,  \* list requests and their answers
  rare,     \* counter for MaxRare
  changes   \* counter for MaxChanges

database == <<stages, edges, app, history>>
vars == <<stages, edges, app, history, clock, view, channel, rare, changes>>

Key(a) == <<app[a].at, a>>

Before(k, l) == k[1] > l[1] \/ (k[1] = l[1] /\ k[2] > l[2])

Matching(filter) ==
  {a \in App : app[a].stage # None /\ filter \in {None, app[a].stage}}

\* Mutant of After: the id is not asked where the times are equal.
AfterTime(filter, cursor) ==
  {a \in Matching(filter) : cursor = None \/ app[a].at < cursor[1]}

\* The rows a cursor leaves.
After(filter, cursor) ==
  {a \in Matching(filter) : cursor = None \/ Before(cursor, Key(a))}

\* In their order: before the i-th row there are i - 1 others.
Ordered(rows) ==
  [i \in 1..Cardinality(rows) |->
     CHOOSE a \in rows : Cardinality({b \in rows : Before(Key(b), Key(a))}) = i - 1]

-----------------------------------------------------------------------------
(* Requests of the list and their answers *)

ListRequest(kind, filter, cursor) ==
  [kind |-> kind, filter |-> filter, cursor |-> cursor, rows |-> <<>>, next |-> None,
   answered |-> FALSE, failed |-> FALSE]

Requested(kind, filter, cursor) ==
  /\ Len(channel) < MaxRequests
  /\ channel' = Append(channel, ListRequest(kind, filter, cursor))

\* One row more than a page is read to know whether there are more.
Answer(request) ==
  LET rows == Ordered(After(request.filter, request.cursor))
      page == SubSeq(rows, 1, IF Len(rows) > Limit THEN Limit ELSE Len(rows))
  IN  [request EXCEPT !.rows = page,
                      !.next = IF Len(rows) > Limit THEN Key(Last(page)) ELSE None,
                      !.answered = TRUE]

ListJobApplications(i) ==
  /\ i \in DOMAIN channel /\ ~ channel[i].answered
  /\ \A j \in 1..(i - 1) : channel[j].answered
  /\ channel' = [channel EXCEPT ![i] = Answer(@)]
  /\ UNCHANGED <<database, clock, view, rare, changes>>

ListFails(i) ==
  /\ rare < MaxRare /\ rare' = rare + 1
  /\ i \in DOMAIN channel /\ ~ channel[i].answered
  /\ \A j \in 1..(i - 1) : channel[j].answered
  /\ channel' = [channel EXCEPT ![i] = [@ EXCEPT !.answered = TRUE, !.failed = TRUE]]
  /\ UNCHANGED <<database, clock, view, changes>>

\* The list is loaded again: when a filter is chosen, and when the window has
\* read the workspace again after a command.
ChooseFilter(filter) ==
  /\ filter # view.filter
  /\ changes < MaxChanges /\ changes' = changes + 1
  /\ view' = [view EXCEPT !.filter = filter, !.loading = TRUE]
  /\ Requested("reset", filter, None)
  /\ UNCHANGED <<database, clock, rare>>

Refresh ==
  /\ view.due
  /\ view' = [view EXCEPT !.due = FALSE, !.loading = TRUE]
  /\ Requested("reset", view.filter, None)
  /\ UNCHANGED <<database, clock, rare, changes>>

\* The button is not shown while the list is loading.
LoadMore ==
  /\ ~ view.loading /\ ~ view.loadingMore
  /\ view.cursor # None
  /\ view' = [view EXCEPT !.loadingMore = TRUE]
  /\ Requested("more", view.filter, view.cursor)
  /\ UNCHANGED <<database, clock, rare, changes>>

\* Every answer ends both kinds of loading, whatever else is under way.  The
\* list is stray when a page was added that continues another list.
ShowAnswer ==
  /\ channel # <<>> /\ Head(channel).answered /\ ~ Head(channel).failed
  /\ channel' = Tail(channel)
  /\ LET answer == Head(channel)
         more == answer.kind = "more"
     IN  view' = [view EXCEPT
           !.list = IF more THEN @ \o answer.rows ELSE answer.rows,
           !.cursor = answer.next,
           !.stray = more /\ (@ \/ answer.cursor # view.cursor),
           !.loading = FALSE, !.loadingMore = FALSE]
  /\ UNCHANGED <<database, clock, rare, changes>>

\* The list and its cursor stay, under an error that the next request takes
\* away; of a reload that failed the list is not what was asked for.
ShowFailure ==
  /\ channel # <<>> /\ Head(channel).failed
  /\ channel' = Tail(channel)
  /\ view' = [view EXCEPT !.stray = @ \/ Head(channel).kind = "reset",
                          !.loading = FALSE, !.loadingMore = FALSE]
  /\ UNCHANGED <<database, clock, rare, changes>>

-----------------------------------------------------------------------------
(* Commands; after each the window reads the workspace again *)

Edits ==
  /\ rare < MaxRare /\ rare' = rare + 1
  /\ changes < MaxChanges /\ changes' = changes + 1
  /\ view' = [view EXCEPT !.due = TRUE]
  /\ UNCHANGED <<clock, channel>>

Changes ==
  /\ changes < MaxChanges /\ changes' = changes + 1
  /\ clock' \in clock..MaxTime
  /\ view' = [view EXCEPT !.due = TRUE]
  /\ UNCHANGED <<channel, rare>>

Exists(s) == stages[s] # None

CreateApplicationStage(s, terminal, archived) ==
  /\ ~ Exists(s)
  /\ Edits
  /\ stages' = [stages EXCEPT ![s] = [terminal |-> terminal, archived |-> archived]]
  /\ UNCHANGED <<edges, app, history>>

\* The transitions out of a stage stay when it becomes terminal.
UpdateApplicationStage(s, terminal, archived) ==
  /\ Exists(s)
  /\ Edits
  /\ stages' = [stages EXCEPT ![s] = [terminal |-> terminal, archived |-> archived]]
  /\ UNCHANGED <<edges, app, history>>

SetApplicationStageTransition(from, to, allowed) ==
  /\ from # to /\ Exists(from) /\ Exists(to)
  /\ allowed => ~ stages[from].terminal
  /\ Edits
  /\ edges' = IF allowed THEN edges \cup {<<from, to>>} ELSE edges \ {<<from, to>>}
  /\ UNCHANGED <<stages, app, history>>

Recorded(a, from, to) ==
  [history EXCEPT ![a] = Append(@, [from |-> from, to |-> to, at |-> clock'])]

CreateJobApplication(a, s) ==
  /\ app[a].stage = None
  /\ Exists(s) /\ ~ stages[s].archived
  /\ Changes
  /\ app' = [app EXCEPT ![a] = [stage |-> s, at |-> clock']]
  /\ history' = Recorded(a, None, s)
  /\ UNCHANGED <<stages, edges>>

UpdateJobApplication(a) ==
  /\ app[a].stage # None
  /\ Changes
  /\ app' = [app EXCEPT ![a].at = clock']
  /\ UNCHANGED <<stages, edges, history>>

Allowed(from, to) ==
  /\ from # to /\ Exists(to) /\ ~ stages[to].archived
  /\ <<from, to>> \in edges

\* Mutant of TransitionJobApplication: the history is not written.
TransitionUnrecorded(a, to) ==
  /\ app[a].stage # None /\ Allowed(app[a].stage, to)
  /\ Changes
  /\ app' = [app EXCEPT ![a] = [stage |-> to, at |-> clock']]
  /\ UNCHANGED <<stages, edges, history>>

TransitionJobApplication(a, to) ==
  /\ app[a].stage # None /\ Allowed(app[a].stage, to)
  /\ Changes
  /\ app' = [app EXCEPT ![a] = [stage |-> to, at |-> clock']]
  /\ history' = Recorded(a, app[a].stage, to)
  /\ UNCHANGED <<stages, edges>>

-----------------------------------------------------------------------------

\* The stages of the setup, with a transition from each to the next unless it
\* is terminal.
SetupWorkspace ==
  \E terminal \in Setups :
    /\ stages = [s \in Stage |-> IF s > Len(terminal) THEN None
                                 ELSE [terminal |-> terminal[s], archived |-> FALSE]]
    /\ edges = {<<s, s + 1>> : s \in {s \in 1..(Len(terminal) - 1) : ~ terminal[s]}}

Init ==
  /\ SetupWorkspace
  /\ app = [a \in App |-> [stage |-> None, at |-> 0]]
  /\ history = [a \in App |-> <<>>]
  /\ clock = 1
  /\ view = [filter |-> None, list |-> <<>>, cursor |-> None, loading |-> FALSE,
             loadingMore |-> FALSE, due |-> TRUE, stray |-> FALSE]
  /\ channel = <<>>
  /\ rare = 0
  /\ changes = 0

StageCommand ==
  \E s \in Stage :
    \/ \E terminal, archived \in BOOLEAN : \/ CreateApplicationStage(s, terminal, archived)
                                           \/ UpdateApplicationStage(s, terminal, archived)
    \/ \E to \in Stage, allowed \in BOOLEAN : SetApplicationStageTransition(s, to, allowed)

ApplicationCommand ==
  \E a \in App :
    \/ UpdateJobApplication(a)
    \/ \E s \in Stage : CreateJobApplication(a, s) \/ TransitionJobApplication(a, s)

Window ==
  \/ \E filter \in Stage \cup {None} : ChooseFilter(filter)
  \/ Refresh \/ LoadMore \/ ShowAnswer \/ ShowFailure

Next ==
  \/ StageCommand \/ ApplicationCommand \/ Window
  \/ \E i \in 1..MaxRequests : ListJobApplications(i) \/ ListFails(i)

Spec == Init /\ [][Next]_vars

-----------------------------------------------------------------------------
(* Properties *)

\* Once nothing is loading, the list shows the applications that match the
\* filter, each once, in their order, without a gap, and all of them when no
\* more are offered, however they changed between its pages
\* (listJobApplications, loadApplications).  A request for more that failed
\* changes nothing; a list that got a page which continues another list, or
\* whose reload failed, is stray: see the README.
ListIsPrefix ==
  channel = <<>> /\ ~ view.due /\ ~ view.stray =>
    LET all == Ordered(Matching(view.filter))
    IN  /\ view.list = SubSeq(all, 1, Len(view.list))
        /\ view.cursor = None => Len(view.list) = Len(all)

\* The history of an application, in the order of its times, leads from its
\* creation to its stage, each row from where the last one went to
\* (transitionJobApplication).
HistoryIsPath ==
  \A a \in App :
    LET h == history[a]
    IN  IF app[a].stage = None
        THEN h = <<>>
        ELSE /\ h # <<>> /\ h[1].from = None /\ Last(h).to = app[a].stage
             /\ \A i \in 2..Len(h) : h[i].from = h[i - 1].to /\ h[i - 1].at <= h[i].at
             /\ Last(h).at <= app[a].at
=============================================================================
