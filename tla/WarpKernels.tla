----------------------------- MODULE WarpKernels -----------------------------
(***************************************************************************)
(* The warps of a kernel, its tensor cores and its copy engine, going      *)
(* through the programs of the kernel in any order.  Tensor cores execute  *)
(* what one warp issues in order; copies land whenever they like.          *)
(***************************************************************************)
EXTENDS WarpSteps

Backward           == INSTANCE BackwardPrograms
Forward            == INSTANCE ForwardPrograms
Mla                == INSTANCE MlaPrograms
Dkdv               == INSTANCE DkdvPrograms
Dq                 == INSTANCE DqPrograms
Wide               == INSTANCE WideForwardPrograms
Sm90               == INSTANCE Sm90ForwardPrograms
Sm90Backward       == INSTANCE Sm90BackwardPrograms
Hopper             == INSTANCE HopperForwardPrograms
HopperBackward     == INSTANCE HopperBackwardPrograms
Sm80               == INSTANCE Sm80ForwardPrograms
Sm80Backward       == INSTANCE Sm80BackwardPrograms
HopperSm80         == INSTANCE HopperSm80ForwardPrograms
HopperSm80Backward == INSTANCE HopperSm80BackwardPrograms
Fa2Forward         == INSTANCE Fa2ForwardPrograms
Fa2Backward        == INSTANCE Fa2BackwardPrograms

CONSTANTS
    Considered,     \* a sequence of kernels to consider, with their builds and sizes
    Kernels         \* what there is to know of each of them

VARIABLES
    launch,     \* which of them runs
    pc,         \* by role: steps of its program done
    bar,        \* barriers in use
    mem,        \* by region: what it holds
    tc,         \* by role: effects the tensor cores executed, of those issued
    copies      \* steps whose TMA or bulk copy is in flight

vars == <<launch, pc, bar, mem, tc, copies>>

Roles(t) ==
    CASE t.kernel = "backward" -> Backward!Roles(t)
      [] t.kernel = "forward" -> Forward!Roles(t)
      [] t.kernel = "mla" -> Mla!Roles(t)
      [] t.kernel = "dkdv" -> Dkdv!Roles(t)
      [] t.kernel = "dq" -> Dq!Roles(t)
      [] t.kernel = "wide" -> Wide!Roles(t)
      [] t.kernel = "sm90" -> Sm90!Roles(t)
      [] t.kernel = "sm90bwd" -> Sm90Backward!Roles(t)
      [] t.kernel = "hopper" -> Hopper!Roles(t)
      [] t.kernel = "hopperbwd" -> HopperBackward!Roles(t)
      [] t.kernel = "sm80" -> Sm80!Roles(t)
      [] t.kernel = "sm80bwd" -> Sm80Backward!Roles(t)
      [] t.kernel = "hsm80" -> HopperSm80!Roles(t)
      [] t.kernel = "hsm80bwd" -> HopperSm80Backward!Roles(t)
      [] t.kernel = "fa2fwd" -> Fa2Forward!Roles(t)
      [] t.kernel = "fa2bwd" -> Fa2Backward!Roles(t)
Program(t, r) ==
    CASE t.kernel = "backward" -> Backward!Program(t, r)
      [] t.kernel = "forward" -> Forward!Program(t, r)
      [] t.kernel = "mla" -> Mla!Program(t, r)
      [] t.kernel = "dkdv" -> Dkdv!Program(t, r)
      [] t.kernel = "dq" -> Dq!Program(t, r)
      [] t.kernel = "wide" -> Wide!Program(t, r)
      [] t.kernel = "sm90" -> Sm90!Program(t, r)
      [] t.kernel = "sm90bwd" -> Sm90Backward!Program(t, r)
      [] t.kernel = "hopper" -> Hopper!Program(t, r)
      [] t.kernel = "hopperbwd" -> HopperBackward!Program(t, r)
      [] t.kernel = "sm80" -> Sm80!Program(t, r)
      [] t.kernel = "sm80bwd" -> Sm80Backward!Program(t, r)
      [] t.kernel = "hsm80" -> HopperSm80!Program(t, r)
      [] t.kernel = "hsm80bwd" -> HopperSm80Backward!Program(t, r)
      [] t.kernel = "fa2fwd" -> Fa2Forward!Program(t, r)
      [] t.kernel = "fa2bwd" -> Fa2Backward!Program(t, r)
Overlap(t, x, y) ==
    CASE t.kernel = "backward" -> Backward!Overlap(t, x, y)
      [] t.kernel = "forward" -> Forward!Overlap(t, x, y)
      [] t.kernel = "mla" -> Mla!Overlap(t, x, y)
      [] t.kernel = "dkdv" -> Dkdv!Overlap(t, x, y)
      [] t.kernel = "dq" -> Dq!Overlap(t, x, y)
      [] t.kernel = "wide" -> Wide!Overlap(t, x, y)
      [] t.kernel = "sm90" -> Sm90!Overlap(t, x, y)
      [] t.kernel = "sm90bwd" -> Sm90Backward!Overlap(t, x, y)
      [] t.kernel = "hopper" -> Hopper!Overlap(t, x, y)
      [] t.kernel = "hopperbwd" -> HopperBackward!Overlap(t, x, y)
      [] t.kernel = "sm80" -> Sm80!Overlap(t, x, y)
      [] t.kernel = "sm80bwd" -> Sm80Backward!Overlap(t, x, y)
      [] t.kernel = "hsm80" -> HopperSm80!Overlap(t, x, y)
      [] t.kernel = "hsm80bwd" -> HopperSm80Backward!Overlap(t, x, y)
      [] t.kernel = "fa2fwd" -> Fa2Forward!Overlap(t, x, y)
      [] t.kernel = "fa2bwd" -> Fa2Backward!Overlap(t, x, y)
Result(t) ==
    CASE t.kernel = "backward" -> Backward!Result(t)
      [] t.kernel = "forward" -> Forward!Result(t)
      [] t.kernel = "mla" -> Mla!Result(t)
      [] t.kernel = "dkdv" -> Dkdv!Result(t)
      [] t.kernel = "dq" -> Dq!Result(t)
      [] t.kernel = "wide" -> Wide!Result(t)
      [] t.kernel = "sm90" -> Sm90!Result(t)
      [] t.kernel = "sm90bwd" -> Sm90Backward!Result(t)
      [] t.kernel = "hopper" -> Hopper!Result(t)
      [] t.kernel = "hopperbwd" -> HopperBackward!Result(t)
      [] t.kernel = "sm80" -> Sm80!Result(t)
      [] t.kernel = "sm80bwd" -> Sm80Backward!Result(t)
      [] t.kernel = "hsm80" -> HopperSm80!Result(t)
      [] t.kernel = "hsm80bwd" -> HopperSm80Backward!Result(t)
      [] t.kernel = "fa2fwd" -> Fa2Forward!Result(t)
      [] t.kernel = "fa2bwd" -> Fa2Backward!Result(t)

ASSUME LaunchesAssumption ==
    \A i \in DOMAIN Considered :
        LET t == Considered[i]
        IN  CASE t.kernel = "backward" -> t \in Backward!Launches
              [] t.kernel = "forward" -> t \in Forward!Launches
              [] t.kernel = "mla" -> t \in Mla!Launches
              [] t.kernel = "dkdv" -> t \in Dkdv!Launches
              [] t.kernel = "dq" -> t \in Dq!Launches
              [] t.kernel = "wide" -> t \in Wide!Launches
              [] t.kernel = "sm90" -> t \in Sm90!Launches
              [] t.kernel = "sm90bwd" -> t \in Sm90Backward!Launches
              [] t.kernel = "hopper" -> t \in Hopper!Launches
              [] t.kernel = "hopperbwd" -> t \in HopperBackward!Launches
              [] t.kernel = "sm80" -> t \in Sm80!Launches
              [] t.kernel = "sm80bwd" -> t \in Sm80Backward!Launches
              [] t.kernel = "hsm80" -> t \in HopperSm80!Launches
              [] t.kernel = "hsm80bwd" -> t \in HopperSm80Backward!Launches
              [] t.kernel = "fa2fwd" -> t \in Fa2Forward!Launches
              [] t.kernel = "fa2bwd" -> t \in Fa2Backward!Launches

-----------------------------------------------------------------------------
(* What there is to know of a kernel.                                      *)

\* What the tensor cores get to do for a role, and how much of it is issued after k steps.
Issued(program, k) == FlattenSeq([i \in 1..k |-> program[i].mma])
IssuedAfter(program) == Table([k \in 0..Len(program) |-> Len(Issued(program, k))])

Effects(step) == {step.do, step.copy} \cup {step.mma[i] : i \in DOMAIN step.mma}

\* The members of a set in a sequence; barriers and regions go by their place in one.
Listed(S) == FoldSet(LAMBDA x, list : Append(list, x), <<>>, S)
Numbers(list) == Table([x \in {list[i] : i \in DOMAIN list} |-> CHOOSE i \in DOMAIN list : list[i] = x])

EffectBy(bars, regions, e) ==
    LET Move(x) == [x EXCEPT !.from = {regions[r] : r \in @}, !.prior = {regions[r] : r \in @},
                             !.to = regions[@]]
    IN  [move |-> {Move(x) : x \in e.move}, arrive |-> {bars[b] : b \in e.arrive}]
StepBy(bars, regions, s) ==
    [wait |-> {[w EXCEPT !.on = bars[@]] : w \in s.wait},
     do   |-> EffectBy(bars, regions, s.do), copy |-> EffectBy(bars, regions, s.copy),
     mma  |-> [i \in DOMAIN s.mma |-> EffectBy(bars, regions, s.mma[i])]]

\* Steps up to the last that does something: the waits that follow it are the role's end.
LengthOf(program) ==
    LET acts == {i \in DOMAIN program : Effects(program[i]) # {Nothing}}
    IN  CHOOSE n \in acts : \A i \in acts : i <= n

\* Programs; memory and barriers that they name; the regions a write destroys.
Kernel(t) ==
    LET text    == Table([r \in Roles(t) |-> Program(t, r)])
        steps   == UNION {{text[r][i] : i \in DOMAIN text[r]} : r \in Roles(t)}
        effects == UNION {Effects(s) : s \in steps}
        regions == Listed(UNION {UNION {x.from \cup x.prior \cup {x.to} : x \in e.move} : e \in effects})
        signalled == UNION {e.arrive : e \in effects}
        bars    == Listed(signalled \cup UNION {{w.on : w \in s.wait} : s \in steps})
        program ==
            LET barNumbers == Numbers(bars)
                regionNumbers == Numbers(regions)
            IN  Table([r \in Roles(t) |->
                    Table([i \in DOMAIN text[r] |-> StepBy(barNumbers, regionNumbers, text[r][i])])])
        queue   == Table([r \in Roles(t) |-> Issued(program[r], Len(program[r]))])
        length  == Table([r \in Roles(t) |-> LengthOf(program[r])])
        outputs == {i \in DOMAIN regions : regions[i] \in DOMAIN Result(t)}
    IN  [values  |-> {Garbage} \cup {Of(k, m) : k \in 1..t.tiles, m \in 0..t.blocks},
         roles   |-> Roles(t), program |-> program, queue |-> queue, length |-> length,
         end     |-> Table([r \in Roles(t) |->
                         UNION {program[r][i].wait : i \in (length[r] + 1)..Len(program[r])}]),
         issued  |-> Table([r \in Roles(t) |-> IssuedAfter(program[r])]),
         issuers |-> {r \in Roles(t) : queue[r] # <<>>},
         regions |-> regions, bars |-> bars,
         count   |-> Table([i \in DOMAIN bars |-> Count(bars[i])]),
         most    |-> Max({Count(bars[i]) : i \in DOMAIN bars}),
         signalled |-> {i \in DOMAIN bars : bars[i] \in signalled},
         destroyed |-> Table([i \in DOMAIN regions |->
                           {j \in DOMAIN regions :
                               /\ j # i /\ regions[j][3] = regions[i][3]
                               /\ Overlap(t, regions[j], regions[i])}]),
         outputs |-> outputs, result |-> Table([i \in outputs |-> Result(t)[regions[i]]])]

KernelsConsidered == Table([i \in DOMAIN Considered |-> Kernel(Considered[i])])

ASSUME KernelsAssumption == Kernels = KernelsConsidered

\* The kernel that runs, k in what follows.
K == Kernels[launch]

-----------------------------------------------------------------------------
Init ==
    /\ launch \in DOMAIN Considered
    /\ LET k == K IN
       /\ pc = [r \in k.roles |-> 0]
       /\ bar = [b \in DOMAIN k.bars |-> NewBarrier(k.count[b])]
       /\ mem = [r \in DOMAIN k.regions |->
                    IF r \in k.outputs THEN Of(k.result[r][1], 0) ELSE Garbage]
       /\ tc = [r \in k.issuers |-> 0]
       /\ copies = {}

Written(move) ==
    LET v == Together(move.with \cup {mem[r] : r \in move.from})
    IN  IF \A r \in move.prior : mem[r] = Of(v[1], v[2] - 1) THEN v ELSE Garbage

\* Memory after a set of writes.
After(k, moves) ==
    LET written   == {x.to : x \in moves}
        destroyed == UNION {k.destroyed[r] : r \in written}
    IN  [r \in DOMAIN mem |->
            IF r \in written THEN Written(CHOOSE x \in moves : x.to = r)
            ELSE IF r \in destroyed THEN Garbage ELSE mem[r]]

\* Its accesses, then its arrivals.
Apply(k, effect) ==
    /\ mem' = IF effect.move = {} THEN mem ELSE After(k, effect.move)
    /\ bar' = IF effect.arrive = {} THEN bar
              ELSE [b \in DOMAIN bar |->
                       IF b \in effect.arrive THEN ArriveAt(bar[b], k.count[b]) ELSE bar[b]]

AtEnd(k, r) == pc[r] = k.length[r]
Current(k, r) == k.program[r][pc[r] + 1]

Parity(w) == (w.turn + 1) % 2
Over(w) == IF w.parity THEN Passes(bar[w.on], Parity(w)) ELSE bar[w.on].done >= w.turn

Waits(k, r) == IF AtEnd(k, r) THEN k.end[r] ELSE Current(k, r).wait
Ready(k, r) == \A w \in Waits(k, r) : Over(w)

\* A role goes on once all it waits for has come.
Go(k, r) ==
    /\ ~AtEnd(k, r) /\ Ready(k, r)
    /\ Apply(k, Current(k, r).do)
    /\ pc' = [pc EXCEPT ![r] = @ + 1]
    /\ copies' = IF Current(k, r).copy = Nothing THEN copies ELSE copies \cup {<<r, pc[r] + 1>>}
    /\ UNCHANGED <<launch, tc>>

Busy(k, r) == tc[r] < k.issued[r][pc[r]]

TensorCore(k, r) ==
    /\ Busy(k, r)
    /\ Apply(k, k.queue[r][tc[r] + 1])
    /\ tc' = [tc EXCEPT ![r] = @ + 1]
    /\ UNCHANGED <<launch, pc, copies>>

Land(k) ==
    \E e \in copies :
        /\ Apply(k, k.program[e[1]][e[2]].copy)
        /\ copies' = copies \ {e}
        /\ UNCHANGED <<launch, pc, tc>>

Finished(k) ==
    /\ \A r \in k.roles : AtEnd(k, r) /\ Ready(k, r)
    /\ \A r \in k.issuers : ~Busy(k, r)
    /\ copies = {}
Exit(k) == Finished(k) /\ UNCHANGED vars

Next ==
    LET k == K IN
    \/ \E r \in k.roles : Go(k, r)
    \/ \E r \in k.issuers : TensorCore(k, r)
    \/ Land(k)
    \/ Exit(k)

Spec == Init /\ [][Next]_vars

-----------------------------------------------------------------------------
\* No program outruns its end, and memory is about blocks that the launch has.
TypeOK ==
    LET k == K IN
    /\ launch \in DOMAIN Considered
    /\ \A r \in k.roles : pc[r] \in 0..k.length[r]
    /\ bar \in [DOMAIN k.bars -> [done : Nat, left : 1..k.most, seen : {0}]]
    /\ mem \in [DOMAIN k.regions -> k.values]
    /\ \A r \in k.issuers : tc[r] \in 0..k.issued[r][pc[r]]
    /\ \A e \in copies : e[1] \in k.roles /\ e[2] \in 1..pc[e[1]]

\* Whatever order warps, tensor cores and copies are taken in, what leaves the CTAs
\* is right: every block once, of operands that belong together, over the columns and
\* buffers that the kernel lets several of its tensors share.
OutputExact ==
    LET k == K IN
    \A r \in k.outputs : mem[r] # Garbage /\ (Finished(k) => mem[r] = k.result[r])

\* A parity bit is enough: nobody waits on a barrier that is a whole phase ahead of
\* him or behind, so that its parity would let him pass for the wrong reason.
NoPhaseLost ==
    LET k == K IN
    \A r \in k.roles : \A w \in Waits(k, r) :
        w.parity /\ w.on \in k.signalled => bar[w.on].done \in {w.turn - 1, w.turn}

\* Warps, tensor cores and copies never all wait for each other.  Every step of theirs
\* is one to the end of a program, so that a launch always comes to its end.
NobodyStuck ==
    LET k == K IN
    \/ Finished(k)
    \/ \E r \in k.roles : ~AtEnd(k, r) /\ Ready(k, r)
    \/ \E r \in k.issuers : Busy(k, r)
    \/ copies # {}
=============================================================================
