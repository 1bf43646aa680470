----------------------------- MODULE MCGpuLease -----------------------------
(***************************************************************************)
(* Instances of GpuLease for TLC: a box of two cards.                      *)
(***************************************************************************)
EXTENDS GpuLeaseInv, TLC

CONSTANTS a, b

\* -n and mode of a, b
TwoOne == (a :> 2) @@ (b :> 1)
WaitTimeout == (a :> "wait") @@ (b :> "timeout")
=============================================================================
