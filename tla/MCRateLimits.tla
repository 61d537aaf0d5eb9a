---------------------------- MODULE MCRateLimits ----------------------------
(***************************************************************************)
(* A small instance of RateLimits: an hour of two units and a day of five, *)
(* a policy for each limit to be the one that binds, and a pause.          *)
(***************************************************************************)
EXTENDS RateLimits

CONSTANTS d1, d2

Settings(paused, daily, hourly, domainDaily, cooldown) ==
  [paused |-> paused, daily |-> daily, hourly |-> hourly,
   domainDaily |-> domainDaily, cooldown |-> cooldown]

MCPolicies ==
  { Settings(FALSE, 2, 2, 2, 1), Settings(FALSE, 4, 1, 3, 1), Settings(FALSE, 4, 3, 1, 1),
    Settings(FALSE, 4, 3, 3, 3), Settings(FALSE, 4, 3, 4, 6), Settings(TRUE, 4, 3, 3, 1) }
=============================================================================
