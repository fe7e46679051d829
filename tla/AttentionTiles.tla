--------------------------- MODULE AttentionTiles ---------------------------
(***************************************************************************)
(* What an attention kernel promises about the tiles of one CTA, without   *)
(* roles, barriers or buffers: each of the two query tiles (stages) of a   *)
(* work tile is folded over its KV blocks one after the other, one work    *)
(* tile after the other, and its result is stored once.                    *)
(***************************************************************************)
EXTENDS Naturals, Sequences

CONSTANT Blocks      \* Blocks[t]: KV blocks of work tile t

VARIABLES folded,    \* blocks folded into the accumulator, by tile and stage
          stored     \* results stored, by tile and stage

Query == (DOMAIN Blocks) \X (0..1)

Init == /\ folded = [x \in Query |-> 0]
        /\ stored = [x \in Query |-> 0]

\* The accumulator of a stage takes up tile t once it is done with tile t - 1.
Fold(x) ==
    /\ folded[x] < Blocks[x[1]]
    /\ x[1] > 1 => folded[<<x[1] - 1, x[2]>>] = Blocks[x[1] - 1]
    /\ folded' = [folded EXCEPT ![x] = @ + 1]
    /\ UNCHANGED stored

Store(x) ==
    /\ folded[x] = Blocks[x[1]] /\ stored[x] = 0
    /\ stored' = [stored EXCEPT ![x] = 1]
    /\ UNCHANGED folded

Next == \E x \in Query : Fold(x) \/ Store(x)

Spec == Init /\ [][Next]_<<folded, stored>> /\ WF_<<folded, stored>>(Next)
=============================================================================
