----------------------------- MODULE RateLimits -----------------------------
(***************************************************************************)
(* The pacing of sends: the limits the founder sets, the triggers of the   *)
(* vault that count the rows of the send ledger when a row is inserted,    *)
(* and the readiness the window shows, which counts them in code of its    *)
(* own.                                                                    *)
(*                                                                         *)
(* A row is its time, its domain and whether it was dispatched, with       *)
(* whatever outcome, or failed before. Rows are reserved in the order of   *)
(* their numbers, at times that do not go back: the time of a reservation  *)
(* is read when the row is inserted. Time is counted in units of which     *)
(* HourLength and DayLength are an hour and a day, so that a cooldown may  *)
(* be shorter or longer than either.                                       *)
(***************************************************************************)
EXTENDS Naturals, FiniteSets

CONSTANTS
  Domain,      \* domains of recipients
  HourLength, DayLength,
  Policies,    \* the settings the founder chooses from
  MaxTime,     \* bound: the clock
  MaxRows,     \* bound: rows of the ledger
  MaxPolicies  \* bound: changes of the policy

ASSUME RateBounds ==
  /\ HourLength \in Nat \ {0} /\ DayLength \in Nat \ {0}
  /\ MaxTime \in Nat /\ MaxRows \in Nat /\ MaxPolicies \in Nat
ASSUME PoliciesAreSettings ==
  Policies \subseteq [paused : BOOLEAN, daily : Nat \ {0}, hourly : Nat \ {0},
                      domainDaily : Nat \ {0}, cooldown : Nat \ {0}]

VARIABLES
  ledger,   \* send_ledger: rows by their number
  policy,   \* communication_settings
  now,
  policies  \* counter for MaxPolicies

vars == <<ledger, policy, now, policies>>

Day(t) == t \div DayLength

-----------------------------------------------------------------------------
(* The triggers: what forbids a row at a time to a domain *)

\* Rows that never went out are not counted.
Counted == {i \in DOMAIN ledger : ledger[i].status # "failed_pre_dispatch"}

\* Mutant of InHour: what was reserved at this very time is left out.
InHourBefore(t) == {i \in Counted : ledger[i].at + HourLength > t /\ ledger[i].at < t}

InHour(t) == {i \in Counted : ledger[i].at + HourLength > t /\ ledger[i].at <= t}

InDay(t) == {i \in Counted : Day(ledger[i].at) = Day(t)}

ToDomain(d) == {i \in Counted : ledger[i].domain = d}

Cooling(t, d) ==
  {i \in ToDomain(d) : ledger[i].at + policy.cooldown > t /\ ledger[i].at <= t}

Accepted(t, d) ==
  /\ ~ policy.paused
  /\ Cardinality(InDay(t)) < policy.daily
  /\ Cardinality(InHour(t)) < policy.hourly
  /\ Cardinality(InDay(t) \cap ToDomain(d)) < policy.domainDaily
  /\ Cooling(t, d) = {}

-----------------------------------------------------------------------------
(* The readiness of a draft *)

LastOf(rows) == CHOOSE t \in {ledger[i].at : i \in rows} :
                  \A i \in rows : ledger[i].at <= t

\* Mutant of CoolingEnds: the cooldown lasts to the end of its last moment.
CoolingEndsLate(t, d) ==
  ToDomain(d) = {} \/ ~ LastOf(ToDomain(d)) + policy.cooldown >= t

CoolingEnds(t, d) ==
  ToDomain(d) = {} \/ ~ LastOf(ToDomain(d)) + policy.cooldown > t

Ready(t, d) ==
  /\ ~ policy.paused
  /\ ~ Cardinality(InDay(t)) >= policy.daily
  /\ ~ Cardinality(InHour(t)) >= policy.hourly
  /\ ~ Cardinality(InDay(t) \cap ToDomain(d)) >= policy.domainDaily
  /\ CoolingEnds(t, d)

-----------------------------------------------------------------------------

\* The policy a row was reserved under is kept with it for the properties.
ReserveApprovedSend(d) ==
  /\ Cardinality(DOMAIN ledger) < MaxRows
  /\ Accepted(now, d)
  /\ ledger' = [i \in 1..(Cardinality(DOMAIN ledger) + 1) |->
                 IF i \in DOMAIN ledger THEN ledger[i]
                 ELSE [at |-> now, domain |-> d, status |-> "reserved", under |-> policy]]
  /\ UNCHANGED <<policy, now, policies>>

Moves(i, status) ==
  /\ ledger' = [ledger EXCEPT ![i].status = status]
  /\ UNCHANGED <<policy, now, policies>>

MarkFailedBeforeDispatch(i) ==
  ledger[i].status = "reserved" /\ Moves(i, "failed_pre_dispatch")

MarkDispatchStarted(i) ==
  ledger[i].status = "reserved" /\ Moves(i, "dispatched")

UpdateCommunicationSettings(settings) ==
  /\ settings # policy
  /\ policies < MaxPolicies /\ policies' = policies + 1
  /\ policy' = settings
  /\ UNCHANGED <<ledger, now>>

Tick ==
  /\ now < MaxTime /\ now' = now + 1
  /\ UNCHANGED <<ledger, policy, policies>>

Init ==
  /\ ledger = <<>>
  /\ policy \in Policies
  /\ now = 0
  /\ policies = 0

Next ==
  \/ \E d \in Domain : ReserveApprovedSend(d)
  \/ \E i \in DOMAIN ledger : MarkFailedBeforeDispatch(i) \/ MarkDispatchStarted(i)
  \/ \E settings \in Policies : UpdateCommunicationSettings(settings)
  \/ Tick

Spec == Init /\ [][Next]_vars

-----------------------------------------------------------------------------
(* Properties *)

Row(i) == ledger[i]
Gap(i, j) == Row(j).at - Row(i).at

\* No stretch of an hour, no day and no stretch of a cooldown, wherever it
\* begins, holds more messages than the founder allowed when the last of them
\* was reserved, counting all that went out or may have (the triggers of
\* migrations.ts:579 and 1073-1112, which only look back from each row).
PacingHolds ==
  \A j \in Counted :
    LET earlier == {i \in Counted : i <= j}
        sameDay == {i \in earlier : Day(Row(i).at) = Day(Row(j).at)}
    IN  /\ \A start \in 0..Row(j).at : start + HourLength > Row(j).at =>
             Cardinality({i \in earlier : Row(i).at >= start}) <= Row(j).under.hourly
        /\ Cardinality(sameDay) <= Row(j).under.daily
        /\ Cardinality({i \in sameDay : Row(i).domain = Row(j).domain})
             <= Row(j).under.domainDaily
        /\ \A i \in earlier \ {j} :
             Row(i).domain = Row(j).domain => Gap(i, j) >= Row(j).under.cooldown

\* A draft is shown as ready exactly when its reservation would be accepted at
\* that moment (#draftReadiness and the triggers count in two languages).
ReadinessIsHonest ==
  \A d \in Domain : Ready(now, d) <=> Accepted(now, d)
=============================================================================
