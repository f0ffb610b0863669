------------------------------ MODULE DeliveryLog ------------------------------
(***************************************************************************)
(* What handling a LINE webhook promises, with no requests, identities or  *)
(* locks: a delivery is a list of events, and each time it is handled all  *)
(* of its events are recorded together.  LINE may deliver it again, so it  *)
(* may be recorded more than once, but never in part.                      *)
(***************************************************************************)
EXTENDS Naturals

CONSTANTS Ids,              \* the deliveries
          Length,           \* how many events each of them has
          Times             \* how often each of them may be delivered

VARIABLE recorded           \* how often each event of a delivery is recorded

LogInit == recorded = [d \in Ids |-> [i \in 1 .. Length[d] |-> 0]]

Handle(d) ==
  /\ \A i \in 1 .. Length[d] : recorded[d][i] < Times[d]
  /\ recorded' = [recorded EXCEPT ![d] = [i \in 1 .. Length[d] |-> @[i] + 1]]

LogNext == \E d \in Ids : Handle(d)
LogSpec == LogInit /\ [][LogNext]_recorded
===============================================================================
