------------------------- MODULE MCKernelLifecycle -------------------------
(***************************************************************************)
(* KernelLifecycle for TLC.  Calls of one kind are alike, so they may be   *)
(* permuted in the runs that check no liveness.                            *)
(***************************************************************************)
EXTENDS KernelLifecycle, TLC

CONSTANTS s1, s2, r1, r2, i1, i2

CallSymmetry ==
    Permutations(Starts) \cup Permutations(Restarts) \cup Permutations(Interrupts)

=============================================================================
