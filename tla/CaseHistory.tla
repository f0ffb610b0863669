------------------------------ MODULE CaseHistory ------------------------------
(***************************************************************************)
(* What is left of the rules of a case when requests overlap in any way,   *)
(* with no statuses, requests or sessions: timestamps come in an order the *)
(* services allow and never go, a case is completed once it has a service  *)
(* report and billed once it is completed, and a step adds one fact to one *)
(* case.                                                                   *)
(***************************************************************************)
CONSTANTS Cases,
          Stamps,           \* the timestamps of a case
          Before            \* those that must precede each of them

VARIABLES reached,          \* the timestamps each case has
          reported,         \* the cases that have a service report
          billed            \* the cases that have a billing record

history == <<reached, reported, billed>>

Ordered(stamps) == \A stamp \in stamps : Before[stamp] \subseteq stamps

Init ==
  /\ reached \in [Cases -> SUBSET (Stamps \ {"completed"})]
  /\ \A c \in Cases : Ordered(reached[c])
  /\ reported = {}
  /\ billed = {}

Report(c) ==
  /\ c \notin reported
  /\ reported' = reported \cup {c}
  /\ UNCHANGED <<reached, billed>>

Reach(c, stamp) ==
  /\ stamp \notin reached[c]
  /\ Before[stamp] \subseteq reached[c]
  /\ stamp = "completed" => c \in reported
  /\ reached' = [reached EXCEPT ![c] = @ \cup {stamp}]
  /\ UNCHANGED <<reported, billed>>

Bill(c) ==
  /\ c \notin billed
  /\ "completed" \in reached[c]
  /\ billed' = billed \cup {c}
  /\ UNCHANGED <<reached, reported>>

Next ==
  \E c \in Cases : \/ Report(c)
                   \/ \E stamp \in Stamps : Reach(c, stamp)
                   \/ Bill(c)
Spec == Init /\ [][Next]_history
===============================================================================
