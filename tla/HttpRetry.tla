----------------------------- MODULE HttpRetry -----------------------------
(***************************************************************************)
(* authorizedRequest of http.ts: what one attempt's answer makes of a      *)
(* request.  A read may be repeated after anything transient, a create     *)
(* only after an explicit throttle: every other answer that is not a clear *)
(* refusal leaves open whether the provider has acted.                     *)
(***************************************************************************)
EXTENDS Naturals

CONSTANT MaxAttempts  \* attempts of one request, three in the code

ASSUME AttemptsArePositive == MaxAttempts \in Nat \ {0}

Attempt == 1 .. MaxAttempts

\* "lost" is an attempt that threw: the token provider, or the connection.
\* "garbled" is a success whose body cannot be used.
Answer == {"ok", "garbled", "throttled", "timeout", "unavailable", "refused", "lost"}

Kind == {"read", "create"}

\* The answers after which the provider may have done what it was asked.
MayHaveActed == {"ok", "garbled", "timeout", "unavailable", "lost"}

\* Mutant of Repeatable: a create is retried after a server error as well.
RepeatableAnyway(kind, answer) ==
  \/ answer \in {"throttled", "timeout", "unavailable"}
  \/ kind = "read" /\ answer = "lost"

Repeatable(kind, answer) ==
  \/ answer = "throttled"
  \/ kind = "read" /\ answer \in {"timeout", "unavailable", "lost"}

Unclear(kind, answer) ==
  kind = "create" /\ answer \in {"timeout", "unavailable", "lost", "garbled"}

\* Mutant of Verdict: one attempt too many.
VerdictTooLate(kind, n, answer) ==
  IF answer = "ok" THEN "done"
  ELSE IF Repeatable(kind, answer) /\ n <= MaxAttempts THEN "retry"
  ELSE IF Unclear(kind, answer) THEN "ambiguous"
  ELSE "failed"

\* What becomes of the request after its n-th attempt got the answer.
Verdict(kind, n, answer) ==
  IF answer = "ok" THEN "done"
  ELSE IF Repeatable(kind, answer) /\ n < MaxAttempts THEN "retry"
  ELSE IF Unclear(kind, answer) THEN "ambiguous"
  ELSE "failed"
=============================================================================
