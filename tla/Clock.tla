------------------------------- MODULE Clock -------------------------------
(* The time the authentication components share: chrono::Utc::now() and, for   *)
(* the caches of one process, Instant::now().                                 *)
EXTENDS Integers

CONSTANT MaxNow   \* bound: the last instant of a run

ASSUME MaxNowNat == MaxNow \in Nat

VARIABLE now

Advance == now < MaxNow /\ now' = now + 1
=============================================================================
