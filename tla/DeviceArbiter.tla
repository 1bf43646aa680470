---------------------------- MODULE DeviceArbiter ----------------------------
(***************************************************************************)
(* What scripts/gpu-lease.sh promises the agents of the box: every job     *)
(* works on as many cards as it asked for, and no card is worked on by two *)
(* jobs.                                                                   *)
(***************************************************************************)
EXTENDS Naturals, FiniteSets

CONSTANTS Jobs, Cards, Want   \* Want[j]: the -n of job j

VARIABLE using                \* the cards the workload of each job runs on

Init == using = [j \in Jobs |-> {}]

Free == {c \in Cards : \A j \in Jobs : c \notin using[j]}

\* A workload starts on free cards.
Grab(j, S) ==
  /\ using[j] = {} /\ S \subseteq Free /\ Cardinality(S) = Want[j]
  /\ using' = [using EXCEPT ![j] = S]

\* It ends.
Drop(j) ==
  /\ using[j] # {}
  /\ using' = [using EXCEPT ![j] = {}]

Next == \E j \in Jobs : Drop(j) \/ \E S \in SUBSET Cards : Grab(j, S)

Spec == Init /\ [][Next]_using
=============================================================================
