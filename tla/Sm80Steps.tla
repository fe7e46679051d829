------------------------------ MODULE Sm80Steps ------------------------------
(***************************************************************************)
(* Kernels for SM80.  All warps of a CTA run one program.  Each copies its *)
(* part of a tile to shared memory (cp.async): copies land whenever they   *)
(* like, until the warp waits for the groups that they were committed in.  *)
(* A group says nothing of the copies of other warps; a barrier of all     *)
(* threads after it does.  A program is written here in these instructions *)
(* and put into the steps of WarpKernels.                                  *)
(***************************************************************************)
EXTENDS WarpSteps

Warps == {0, 1}

\* What a warp has in registers, writes to global memory; what there is one of.
Own(name, w) == <<name, w, 0>>

\* A stage of a tensor in shared memory, by the warp that copies, or writes, a part.
Part(name, stage, w) == <<name, 2 * stage + w, 0>>
All(name, stage) == {Part(name, stage, w) : w \in Warps}

\* A sum over the blocks b = 0, 1, ...
Accumulate(b, from, to) == PutOrPlus(b = 0, from, to)

-----------------------------------------------------------------------------
(* Instructions.                                                           *)

Do(moves)       == <<[op |-> "do", moves |-> moves]>>
Fetch(moves)    == <<[op |-> "fetch", moves |-> moves]>>
Commit          == <<[op |-> "commit"]>>
WaitGroup(left) == <<[op |-> "wait", left |-> left]>>
SyncThreads     == <<[op |-> "sync"]>>

\* A named barrier: arriving, and waiting for its n-th completion.
Arrive(b)   == <<[op |-> "arrive", bar |-> b]>>
Await(b, n) == <<[op |-> "await", wait |-> Done(b, n)]>>

\* This warp's part of block b of an input of tile k, or of an input of the whole tile.
CopyTo(stage, name, w, k, b) == Fill(Of(k, b + 1), Part(name, stage, w))
CopyOnce(name, w, k) == Fill(Of(k, 0), Part(name, 0, w))

CpAsync(n, w) == Bar("cp.async", n, w, 1)
Threads == Bar("threads", 0, 0, 2)

-----------------------------------------------------------------------------
(* From instructions to steps.                                             *)

Are(program, op) == {i \in DOMAIN program : program[i].op = op}

\* The copies that a wait sees to: more groups were committed since than may be left.
CopiesOver(program, i) ==
    LET commits == Are(program, "commit")
    IN  {n \in Are(program, "fetch") : Cardinality(commits \cap n..i) > program[i].left}

\* What instruction i makes a warp wait for.
WaitsOf(w, program, i) ==
    CASE program[i].op = "wait" -> {Done(CpAsync(n, w), 1) : n \in CopiesOver(program, i)}
      [] program[i].op = "await" -> {program[i].wait}
      [] program[i].op = "sync" -> {Done(Threads, Cardinality(Are(program, "sync") \cap 1..i))}
      [] OTHER -> {}

StepOf(w, program, i, waits) ==
    CASE program[i].op = "do" -> Step(waits, Effect(program[i].moves, {}))
      [] program[i].op = "fetch" -> Copy(waits, Effect(program[i].moves, {CpAsync(i, w)}))
      [] program[i].op = "arrive" -> Step(waits, Signal({program[i].bar}))
      [] program[i].op = "sync" -> Step(waits, Signal({Threads}))

\* Each instruction that does something, after the waits since the one before.
StepsOf(w, program) ==
    LET acts == UNION {Are(program, op) : op \in {"do", "fetch", "arrive", "sync"}}
        Since(i) == {j \in 1..(i - 1) : \A a \in acts : ~(j < a /\ a < i)}
        Waits(i) == UNION {WaitsOf(w, program, j) : j \in Since(i)}
        Act(i) == When(i \in acts, << StepOf(w, program, i, Waits(i)) >>)
    IN  Append(Loop(1, Len(program), Act), Wait(Waits(Len(program) + 1)))

Roles(t) == {<<"warp", w>> : w \in Warps}
=============================================================================
