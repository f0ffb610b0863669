----------------------------- MODULE ReportLifecycle -----------------------------
(***************************************************************************)
(* What the service report of a case promises, without requests or locks:  *)
(* a case gets one report, edits may point it at another final appointment *)
(* while it is open, completing it fixes that choice, and nothing happens  *)
(* to it after that.                                                       *)
(***************************************************************************)
CONSTANTS Cases, Finals

VARIABLES phase,            \* "none", "open" or "done", of each case's report
          final             \* the final appointment the report names

Init == phase = [c \in Cases |-> "none"] /\ final \in [Cases -> Finals]

Create(c) ==
  /\ phase[c] = "none"
  /\ phase' = [phase EXCEPT ![c] = "open"]
  /\ \E f \in Finals : final' = [final EXCEPT ![c] = f]

Edit(c) ==
  /\ phase[c] = "open"
  /\ \E f \in Finals : final' = [final EXCEPT ![c] = f]
  /\ UNCHANGED phase

Complete(c) ==
  /\ phase[c] = "open"
  /\ phase' = [phase EXCEPT ![c] = "done"]
  /\ \E f \in Finals : final' = [final EXCEPT ![c] = f]

Next == \E c \in Cases : Create(c) \/ Edit(c) \/ Complete(c)
Spec == Init /\ [][Next]_<<phase, final>>
===============================================================================
