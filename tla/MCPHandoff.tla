----------------------------- MODULE MCPHandoff -----------------------------
(* Builds of the P handoff. *)
EXTENDS PHandoff

Build(width, rep, num, den) ==
    [width |-> width, rep |-> rep, num |-> num, den |-> den, late |-> FALSE]

\* What ships: FP8 PV (head dim 128, and 64), MXFP8 P, NVFP4 P, BF16 PV.
Shipped == {Build(8, 8, 3, 4), Build(8, 4, 3, 4), Build(4, 8, 1, 2), Build(16, 16, 3, 4)}

\* The sweeps of debug/b300_fp4_pv_analysis.md over NVFP4 P, and the late store.
Swept == {Build(4, rep, f[1], f[2]) : rep \in {8, 4, 2}, f \in {<<1, 2>>, <<3, 4>>, <<7, 8>>}}
         \cup {Build(16, 8, 3, 4), Build(8, 8, 1, 2), Build(8, 8, 1, 4)}
         \cup {[Build(4, rep, 1, 2) EXCEPT !.late = TRUE] : rep \in {8, 4}}

ShippedAndSwept == Shipped \cup Swept

\* FA4_BF16_PV_TMEM_STORE_REP=32.
WideBf16 == {Build(16, 32, 3, 4)}
=============================================================================
