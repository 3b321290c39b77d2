------------------------------ MODULE Backoff ------------------------------
(***************************************************************************)
(* How long the supervisor of a remote waits before it starts the          *)
(* transport again (remote/source.rs Backoff).                             *)
(***************************************************************************)
EXTENDS Naturals

CONSTANTS
  BackoffMin, BackoffMax,
  InstantExit,         \* a connection shorter than this never was one
  HealthyUptime,       \* one that lasted this long was a good one
  InstantExitStrikes,
  Uptimes              \* how long connections last

BackoffAssumption ==
  /\ {BackoffMin, BackoffMax, InstantExit, HealthyUptime, InstantExitStrikes}
       \subseteq Nat \ {0}
  /\ BackoffMin <= BackoffMax /\ InstantExit <= HealthyUptime
  /\ Uptimes \subseteq Nat

VARIABLES
  upcoming, strikes, pinned,
  delay,  \* the last wait, 0 before the first
  streak, \* history: instant exits since the last other one
  storm   \* history: the streak has reached its limit once

bvars == <<upcoming, strikes, pinned, delay, streak, storm>>

BackoffInit ==
  /\ upcoming = BackoffMin /\ strikes = 0 /\ pinned = FALSE
  /\ delay = 0 /\ streak = 0 /\ storm = FALSE

Least(a, b) == IF a <= b THEN a ELSE b

\* Mutant: a connection that was one at all starts the backoff over.
RestartsSoon(uptime) == uptime >= InstantExit
Restarts(uptime) == uptime >= HealthyUptime
Instant(uptime) == uptime < InstantExit

\* Mutant: the limit is not kept.
PinsLate(count) == count > InstantExitStrikes + 1
Pins(count) == count >= InstantExitStrikes

RecordExit(uptime) ==
  LET struck == (IF Restarts(uptime) THEN 0 ELSE strikes)
                  + (IF Instant(uptime) THEN 1 ELSE 0)
      floor  == IF Restarts(uptime) THEN BackoffMin ELSE upcoming
  IN  /\ strikes' = Least(struck, InstantExitStrikes + 1)
      /\ pinned' = (pinned \/ (Instant(uptime) /\ Pins(struck)))
      /\ delay' = IF pinned' THEN BackoffMax ELSE floor
      /\ upcoming' = Least(2 * delay', BackoffMax)
      /\ streak' = IF Instant(uptime) THEN Least(streak + 1, InstantExitStrikes) ELSE 0
      /\ storm' = (storm \/ streak' = InstantExitStrikes)

BackoffNext == \E uptime \in Uptimes : RecordExit(uptime)
BackoffSpec == BackoffInit /\ [][BackoffNext]_bvars
-----------------------------------------------------------------------------
\* A remote that fails instantly often enough in a row is tried again no more
\* often than the longest backoff allows, whatever it does later (Backoff).
StormIsOver == storm => delay = BackoffMax

\* Until a connection lasts, each wait is at least as long as the one before,
\* and twice as long as long as that is allowed.
WaitsGrow ==
  [][\A uptime \in Uptimes :
       delay # 0 /\ uptime < HealthyUptime /\ RecordExit(uptime) =>
         delay' >= Least(2 * delay, BackoffMax)]_bvars
=============================================================================
