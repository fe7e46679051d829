----------------------------- MODULE TritonWalk -----------------------------
(***************************************************************************)
(* A call of the Triton kernels: its kernels run one after the other, the  *)
(* programs of a kernel in any order and interleaved.  Registers and       *)
(* memory hold the scores that went into a sum, with how often each did.   *)
(***************************************************************************)
EXTENDS TritonPrograms, FiniteSetsExt, Bags

CONSTANTS
    Calls,
    Compiled    \* by call, the kernels it launches

ASSUME CallsAssumption == \A c \in Calls : IsCall(c)
ASSUME CompiledAssumption == Compiled = [c \in Calls |-> Launches(c)]

VARIABLES
    call,
    launch,   \* number of the kernel under way
    pc,       \* by program of the kernel: its next step
    reg,      \* by program: the sum in its registers
    mem,      \* by buffer: what is in it
    held      \* keys the cache holds

vars == <<call, launch, pc, reg, mem, held>>

Text(p)    == Compiled[call][launch][p]
Grid(c, i) == DOMAIN Compiled[c][i]
Buffers(c) == 0 .. 1 + c.splits

\* O and dQ are zeroed before the call; dK, dV and the splits' results may
\* hold anything (torch.empty).
Unwritten(c, buf) ==
    CASE buf = OutRows -> {}
      [] buf = OutKeys -> Heads(c) \X {Nothing} \X Keys(c)
      [] OTHER         -> Heads(c) \X Rows(c) \X {Nothing}

Init ==
    /\ call \in Calls
    /\ launch = 1
    /\ pc = [p \in Grid(call, 1) |-> 1]
    /\ reg = [p \in Grid(call, 1) |-> EmptyBag]
    /\ mem = [b \in Buffers(call) |-> SetToBag(Unwritten(call, b))]
    /\ held = IF call.kernel = "decode" THEN Keys(call) \ Fresh(call) ELSE Keys(call)

Part(bag, S) == [s \in BagToSet(bag) \cap S |-> bag[s]]
Rest(bag, S) == [s \in BagToSet(bag) \ S |-> bag[s]]

\* A score with a key the cache does not hold yet is of some other key.
Scored(S) == {s \in S : s[3] \in Keys(call) => s[3] \in held}

At(p, op) == pc[p] <= Len(Text(p)) /\ Text(p)[pc[p]].op = op
Step(p) == Text(p)[pc[p]]
Advance(p) == pc' = [pc EXCEPT ![p] = @ + 1] /\ UNCHANGED <<call, launch>>

SumStep(p) ==
    /\ At(p, "sum")
    /\ reg' = [reg EXCEPT ![p] = @ (+) SetToBag(Scored(Step(p).pairs))]
    /\ Advance(p) /\ UNCHANGED <<mem, held>>

AddStep(p) ==
    /\ At(p, "add")
    /\ reg' = [reg EXCEPT ![p] = @ (+) SetToBag(Step(p).pairs)]
    /\ mem' = [mem EXCEPT ![OutRows] = @ (+) SetToBag(Step(p).pairs)]
    /\ Advance(p) /\ UNCHANGED held

StoreStep(p) ==
    /\ At(p, "store")
    /\ LET st == Step(p) IN
         mem' = [mem EXCEPT ![st.buf] =
                   Rest(@, st.heads \X st.rows \X st.keys) (+) reg[p]]
    /\ reg' = [reg EXCEPT ![p] = EmptyBag]
    /\ Advance(p) /\ UNCHANGED held

AppendStep(p) ==
    /\ At(p, "append")
    /\ held' = held \cup Step(p).keys
    /\ Advance(p) /\ UNCHANGED <<reg, mem>>

ReduceStep(p) ==
    /\ At(p, "reduce")
    /\ LET own == {Step(p).head} \X {Step(p).row} \X ((0 .. call.cache) \cup {Nothing})
            Join(s, sum) == sum (+) Part(mem[Partial(s)], own)
        IN  mem' = [mem EXCEPT ![OutRows] =
                      Rest(@, own) (+) FoldSet(Join, EmptyBag, 0 .. call.splits - 1)]
    /\ Advance(p) /\ UNCHANGED <<reg, held>>

\* A kernel is launched on the stream of the one before it.
Through == \A p \in DOMAIN pc : pc[p] > Len(Text(p))
NextLaunch ==
    /\ Through /\ launch < Len(Compiled[call])
    /\ launch' = launch + 1
    /\ pc' = [p \in Grid(call, launch + 1) |-> 1]
    /\ reg' = [p \in Grid(call, launch + 1) |-> EmptyBag]
    /\ UNCHANGED <<call, mem, held>>

Next ==
    \/ \E p \in DOMAIN pc :
          SumStep(p) \/ AddStep(p) \/ StoreStep(p) \/ AppendStep(p) \/ ReduceStep(p)
    \/ NextLaunch

Spec == Init /\ [][Next]_vars

-----------------------------------------------------------------------------
(* Properties.                                                             *)

\* Programs number as the grid says, and no sum ever holds, nor does memory
\* ever get, a score outside the sequence: the masks on rows and keys hold
\* back what the blocks reach beyond it, which in a packed batch is the next
\* sequence.
TypeOK ==
    /\ call \in Calls
    /\ launch \in 1 .. Len(Compiled[call])
    /\ DOMAIN pc = Grid(call, launch) /\ DOMAIN reg = DOMAIN pc
    /\ \A p \in DOMAIN pc : pc[p] \in 1 .. Len(Text(p)) + 1
    /\ held \subseteq Keys(call)
    /\ LET Inside == Heads(call) \X Rows(call) \X Keys(call) IN
       /\ \A p \in DOMAIN reg : BagToSet(reg[p]) \subseteq Inside
       /\ \A b \in Buffers(call) : BagToSet(mem[b]) \subseteq Inside \cup Unwritten(call, b)

Ended == Through /\ launch = Len(Compiled[call])

\* Each score of the attention matrix the mask allows goes into the result
\* once: into O, or into dQ and into dK and dV, whichever programs the
\* kernels give it to, in whatever order they run; none is ever added twice,
\* and nothing that was in the memory before is left in the result.
EveryPairOnce ==
    /\ \A s \in BagToSet(mem[OutRows]) : s \in Allowed(call) /\ mem[OutRows][s] = 1
    /\ Ended => /\ mem[OutRows] = SetToBag(Allowed(call))
                /\ IsBackward(call) => mem[OutKeys] = SetToBag(Allowed(call))
=============================================================================
