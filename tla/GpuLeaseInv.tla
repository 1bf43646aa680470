----------------------------- MODULE GpuLeaseInv -----------------------------
(***************************************************************************)
(* The inductive invariants behind the safety properties of GpuLease.      *)
(***************************************************************************)
EXTENDS GpuLease

\* The script has the locks of held_cards open from the flock to the close, and
\* of nothing else.
ScriptFds ==
  \A j \in Jobs :
    /\ pc[j] \in {"try", "label", "run", "resolve"} => script[j] = cards[j]
    /\ pc[j] = "close" => script[j] = left[j] /\ script[j] \subseteq cards[j]
    /\ pc[j] \notin Scripted \/ pc[j] \in {"rm", "sleep"} => script[j] = {}

\* What was inherited was the whole lease.
Inherited ==
  \A j \in Jobs :
    /\ cmd[j] \in {{}, cards[j]}
    /\ Running(j) => over[j]
    /\ holder[j] = IF pc[j] \in {"held", "unlabel"} THEN cards[j] ELSE {}

\* held_cards counts up to -n and stays there while the command needs it.
FullLease ==
  \A j \in Jobs :
    /\ Leased(j) => Cardinality(cards[j]) = Want[j]
    /\ pc[j] = "try" => /\ cards[j] \subseteq 1 .. (next[j] - 1)
                        /\ Cardinality(cards[j]) <= Want[j]

\* The command runs after try_acquire and once.
Once ==
  \A j \in Jobs :
    /\ over[j] => pc[j] \notin {"idle", "try", "sleep", "busy", "label"}
    /\ pc[j] \in {"run", "resolve", "held", "unlabel"} => over[j]
    /\ work[j] # "none" => over[j]

\* A lock has one owner.
Exclusive ==
  /\ \A j, k \in Jobs : j # k => Held(j) \cap Held(k) = {}
  /\ \A q \in Probes : grip[q] =>
       /\ at[q] \in Cards
       /\ \A j \in Jobs : at[q] \notin Held(j)
       /\ \A r \in Probes : grip[r] /\ at[r] = at[q] => r = q

\* Group 1: the locks, whatever crashes or is restarted.
LockInv == ScriptFds /\ Inherited /\ FullLease /\ Once /\ Exclusive

\* Group 2: who stands behind a workload that was not let go.
Backed ==
  \A j \in Jobs : work[j] = "up" => Running(j) \/ pc[j] \in {"resolve", "held"}
=============================================================================
