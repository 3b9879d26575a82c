----------------------------- MODULE MCEventBus -----------------------------
(* Small instances of EventBus.  "a" checkpoints, expires and may retry;      *)
(* "b" is like Alerts: one attempt, no checkpoint.                            *)
EXTENDS EventBus, TLC

CONSTANTS a, b

OnlyA == {a}
Both == {a, b}
OneBuild == {Consumers}
\* "a" comes with an upgrade and goes with a downgrade.
TwoBuilds == {Consumers, Consumers \ {a}}
Attempts == [c \in Consumers |-> IF c = a THEN 2 ELSE 1]
=============================================================================
