---------------------------- MODULE VideoRequests ----------------------------
(***************************************************************************)
(* What the Videos module promises about requests: one is shown at a time, *)
(* and a request that was shown to its end, failed or was removed is over. *)
(* openspec/specs/video-request-queue/spec.md names both.                  *)
(***************************************************************************)
CONSTANT Requests

VARIABLE request   \* what has become of each request

requestVars == <<request>>

Showing == {i \in Requests : request[i] = "showing"}

RequestsInit == request = [i \in Requests |-> "unasked"]

\* Leaving the screen, one request may give way to the next without a gap, and
\* may itself wait again: cut at the length limit, or by the end of the process.
Ask(i) == request[i] = "unasked" /\ request' = [request EXCEPT ![i] = "waiting"]
Withdraw(some) ==
  /\ some # {} /\ \A i \in some : request[i] = "waiting"
  /\ request' = [i \in Requests |-> IF i \in some THEN "over" ELSE request[i]]
Show(i) ==
  /\ Showing = {} /\ request[i] \in {"unasked", "waiting"}
  /\ request' = [request EXCEPT ![i] = "showing"]
Leave(i) ==
  /\ request[i] = "showing"
  /\ \E end \in {"over", "waiting"} :
       \/ request' = [request EXCEPT ![i] = end]
       \/ \E j \in Requests : request[j] = "waiting"
            /\ request' = [request EXCEPT ![i] = end, ![j] = "showing"]

RequestsNext ==
  \/ \E i \in Requests : Ask(i) \/ Show(i) \/ Leave(i)
  \/ \E some \in SUBSET Requests : Withdraw(some)

RequestsSpec == RequestsInit /\ [][RequestsNext]_requestVars
=============================================================================
