---------------------------- MODULE MCBlockWalk ----------------------------
(* Tiles of short sequences, under every mask. *)
EXTENDS BlockWalk

Windows == {w \in {Unbounded, 0, 2} \X {Unbounded, 0, 1} :
              w \notin {<<Unbounded, Unbounded>>, <<Unbounded, 0>>}}   \* no mask, causal

Tile(mask, w, q, k, group, m, splits) ==
    [mask |-> mask, left |-> w[1], right |-> w[2], seqlenQ |-> q, seqlenK |-> k,
     group |-> group, m |-> m, splits |-> splits]

NoWindow == <<Unbounded, Unbounded>>

\* Rows are packed by head only where the range is not split.
ShortTiles ==
    {c \in {Tile(x[1], x[2], q, k, h[1], m, h[2]) :
                x \in {<<"none", NoWindow>>, <<"causal", NoWindow>>} \cup ({"local"} \X Windows),
                q \in 1..6, k \in 0..7, h \in {<<1, 1>>, <<2, 1>>, <<1, 2>>, <<1, 3>>}, m \in 0..2} :
        c.m < CeilDiv(c.seqlenQ * c.group, TileM(c))}
=============================================================================
