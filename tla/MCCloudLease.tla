---------------------------- MODULE MCCloudLease ----------------------------
(* Constants of CloudLease for TLC. *)
EXTENDS CloudLeaseInv, TLC

CONSTANTS l1, l2, r1, h1, h2, n1, n2

\* Everything on one control box.
OneHost == [x \in Launchers \cup Reapers |-> h1]
\* Launchers alive together have pids of their own...
OwnPids == [p \in Launchers |-> IF p = l1 THEN n1 ELSE n2]
\* ...but a pid may come again, once its process has ended.
SamePid == [p \in Launchers |-> n1]

\* Instance ids are interchangeable.
Symmetry == Permutations(Instances)
=============================================================================
