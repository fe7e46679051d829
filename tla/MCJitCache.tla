----------------------------- MODULE MCJitCache -----------------------------
(* Processes for the run of JitCache; they are not told apart. *)
EXTENDS JitCache, TLC

CONSTANTS p1, p2, p3, kernel
ThreeProcs == {p1, p2, p3}
OneKernel == {kernel}
=============================================================================
