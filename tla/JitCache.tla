------------------------------ MODULE JitCache ------------------------------
(***************************************************************************)
(* The persistent cache of compiled kernels (cache_utils.py), as several   *)
(* processes share it: one object file and one lock file for each key in a *)
(* directory, advisory locks that are polled for until a deadline, and a   *)
(* dictionary in each process in front of it.                              *)
(***************************************************************************)
EXTENDS Naturals, FiniteSets

CONSTANTS
    Procs, Keys,
    MaxCrashes, MaxFailures, MaxClears      \* bounds on what may go wrong

ASSUME BoundsAssumption == {MaxCrashes, MaxFailures, MaxClears} \subseteq Nat

VARIABLES
    dir,        \* the directory: by name, the file it stands for (0: none)
    whole,      \* files that hold all of an object
    born,       \* files created so far
    held,       \* locks held: by whom, on which file, shared or exclusive
    mem,        \* by process: keys in its dictionary
    proc,       \* by process: where it is in its call
    compiled,   \* by process: what it compiled since it started or cleared
    crashes, failures, clears

vars == <<dir, whole, born, held, mem, proc, compiled, crashes, failures, clears>>

Name == {"lock", "object"} \X Keys

Idle == [at |-> "idle"]

Init ==
    /\ dir = [n \in Name |-> 0]
    /\ whole = {} /\ born = 0 /\ held = {}
    /\ mem = [p \in Procs |-> {}]
    /\ proc = [p \in Procs |-> Idle]
    /\ compiled = [p \in Procs |-> [k \in Keys |-> 0]]
    /\ crashes = 0 /\ failures = 0 /\ clears = 0

At(p, where) == proc[p].at = where
Key(p) == proc[p].key
Object(p) == dir[<<"object", Key(p)>>]

Goto(p, where) == proc' = [proc EXCEPT ![p].at = where]
Return(p) == proc' = [proc EXCEPT ![p] = Idle]
ReleasedShared(p) == {h \in held : h.by # p \/ h.mode = "exclusive"}
Released(p) == {h \in held : h.by # p}

-----------------------------------------------------------------------------
(* FileLock.__enter__: open the file, create it if need be, and poll. *)

OpenLock(p, k, mode) ==
    LET name == <<"lock", k>>
        file == IF dir[name] = 0 THEN born + 1 ELSE dir[name]
    IN  /\ dir' = [dir EXCEPT ![name] = file]
        /\ born' = IF dir[name] = 0 THEN born + 1 ELSE born
        /\ proc' = [proc EXCEPT ![p] =
                [at |-> "poll", key |-> k, mode |-> mode, lock |-> file, tried |-> FALSE]]

GrantableShared(p) ==
    \A h \in held : h.lock = proc[p].lock => proc[p].mode = "shared"
Grantable(p) ==
    \A h \in held : h.lock = proc[p].lock => h.mode = "shared" /\ proc[p].mode = "shared"

Poll(p) ==
    /\ At(p, "poll")
    /\ IF Grantable(p)
       THEN /\ held' = held \cup {[by |-> p, lock |-> proc[p].lock, mode |-> proc[p].mode]}
            /\ Goto(p, "look")
       ELSE /\ proc' = [proc EXCEPT ![p].tried = TRUE]
            /\ UNCHANGED held
    /\ UNCHANGED <<dir, whole, born, mem, compiled, crashes, failures, clears>>

\* The deadline passes after a poll that failed; the caller gets an exception.
TimeOut(p) ==
    /\ At(p, "poll") /\ proc[p].tried
    /\ Return(p)
    /\ UNCHANGED <<dir, whole, born, held, mem, compiled, crashes, failures, clears>>

-----------------------------------------------------------------------------
(* `if key not in cache: cache[key] = compile(...)`, as the callers do. *)

\* __contains__: not in the dictionary, so try the disk.
Contains(p, k) ==
    /\ At(p, "idle") /\ k \notin mem[p]
    /\ OpenLock(p, k, "shared")
    /\ UNCHANGED <<whole, held, mem, compiled, crashes, failures, clears>>

\* _try_load_from_storage: is there an object?
LookToLoad(p) ==
    /\ At(p, "look") /\ proc[p].mode = "shared"
    /\ IF Object(p) # 0
       THEN Goto(p, "load") /\ UNCHANGED held
       ELSE Goto(p, "compile") /\ held' = Released(p)
    /\ UNCHANGED <<dir, whole, born, mem, compiled, crashes, failures, clears>>

\* Part of an object does not load, nor does a file that is gone: an exception.
Load(p) ==
    /\ At(p, "load")
    /\ mem' = IF Object(p) \in whole THEN [mem EXCEPT ![p] = @ \cup {Key(p)}] ELSE mem
    /\ held' = Released(p)
    /\ Return(p)
    /\ UNCHANGED <<dir, whole, born, compiled, crashes, failures, clears>>

\* Into the dictionary first, then on to the disk (__setitem__).
RememberNothing(p) == mem
Remember(p) == [mem EXCEPT ![p] = @ \cup {Key(p)}]
Compile(p) ==
    /\ At(p, "compile")
    /\ compiled' = [compiled EXCEPT ![p][Key(p)] = @ + 1]
    /\ mem' = Remember(p)
    /\ OpenLock(p, Key(p), "exclusive")
    /\ UNCHANGED <<whole, held, crashes, failures, clears>>

\* _try_export_to_storage: somebody else's object is left alone.
ExportsAlways(p) == TRUE
Exports(p) == Object(p) = 0
LookToExport(p) ==
    /\ At(p, "look") /\ proc[p].mode = "exclusive"
    /\ IF Exports(p)
       THEN Goto(p, "export") /\ UNCHANGED held
       ELSE Return(p) /\ held' = Released(p)
    /\ UNCHANGED <<dir, whole, born, mem, compiled, crashes, failures, clears>>

\* export_to_c writes the object where it is to be found: it creates the file,
\* or truncates the one that is there, and then fills it.
Writing(f) == {p \in Procs : At(p, "write") /\ proc[p].file = f}

OpenObject(p) ==
    /\ At(p, "export")
    /\ LET file == IF Object(p) = 0 THEN born + 1 ELSE Object(p)
       IN  /\ dir' = [dir EXCEPT ![<<"object", Key(p)>>] = file]
           /\ born' = IF Object(p) = 0 THEN born + 1 ELSE born
           /\ whole' = whole \ {file}
           /\ proc' = [proc EXCEPT ![p] =
                   [at |-> "write", key |-> Key(p), mode |-> "exclusive", file |-> file]]
    /\ UNCHANGED <<held, mem, compiled, crashes, failures, clears>>

Written(p) ==
    /\ At(p, "write")
    /\ whole' = IF Writing(proc[p].file) = {p} THEN whole \cup {proc[p].file} ELSE whole
    /\ held' = Released(p)
    /\ Return(p)
    /\ UNCHANGED <<dir, born, mem, compiled, crashes, failures, clears>>

\* A full disk, say: the file stays as it is and the lock is given back.
ExportFails(p) ==
    /\ At(p, "write") /\ failures < MaxFailures
    /\ failures' = failures + 1
    /\ held' = Released(p)
    /\ Return(p)
    /\ UNCHANGED <<dir, whole, born, mem, compiled, crashes, clears>>

\* The process dies, its locks and its dictionary with it, and is started again.
Crash(p) ==
    /\ ~At(p, "idle") /\ crashes < MaxCrashes
    /\ crashes' = crashes + 1
    /\ held' = Released(p)
    /\ mem' = [mem EXCEPT ![p] = {}]
    /\ compiled' = [compiled EXCEPT ![p] = [k \in Keys |-> 0]]
    /\ Return(p)
    /\ UNCHANGED <<dir, whole, born, failures, clears>>

-----------------------------------------------------------------------------
(* clear: empty the dictionary, list the directory and unlink what was     *)
(* listed, lock files too and without a lock.                              *)

Clear(p) ==
    /\ At(p, "idle") /\ clears < MaxClears
    /\ clears' = clears + 1
    /\ mem' = [mem EXCEPT ![p] = {}]
    /\ compiled' = [compiled EXCEPT ![p] = [k \in Keys |-> 0]]
    /\ LET listed == {n \in Name : dir[n] # 0}
       IN  IF listed = {} THEN UNCHANGED proc
           ELSE proc' = [proc EXCEPT ![p] = [at |-> "clear", listed |-> listed]]
    /\ UNCHANGED <<dir, whole, born, held, crashes, failures>>

\* The name may be gone by now, which is an exception.
Unlink(p, n) ==
    /\ At(p, "clear") /\ n \in proc[p].listed
    /\ dir' = [dir EXCEPT ![n] = 0]
    /\ IF dir[n] = 0 \/ proc[p].listed = {n} THEN Return(p)
       ELSE proc' = [proc EXCEPT ![p].listed = @ \ {n}]
    /\ UNCHANGED <<whole, born, held, mem, compiled, crashes, failures, clears>>

-----------------------------------------------------------------------------
Lookup(p) == (\E k \in Keys : Contains(p, k)) \/ Poll(p) \/ LookToLoad(p) \/ Load(p)
Store(p) == Compile(p) \/ LookToExport(p) \/ OpenObject(p) \/ Written(p)
ClearStep(p) == \E n \in Name : Unlink(p, n)

Next == \E p \in Procs :
    Lookup(p) \/ TimeOut(p) \/ Store(p) \/ ExportFails(p) \/ Crash(p) \/ Clear(p) \/ ClearStep(p)

\* A process that has something to do goes on; whoever needs a kernel asks again
\* after an exception.  Nothing is assumed of deadlines, crashes or clears.
Fairness == \A p \in Procs : WF_vars(Lookup(p) \/ Store(p) \/ ClearStep(p))

Spec == Init /\ [][Next]_vars /\ Fairness

-----------------------------------------------------------------------------
(* Properties. *)

\* Names stand for files that were created; a process holds at most one lock,
\* and only between taking and giving it back.
TypeOK ==
    /\ dir \in [Name -> 0..born] /\ whole \subseteq 1..born
    /\ mem \in [Procs -> SUBSET Keys]
    /\ \A h \in held : h.by \in Procs /\ h.lock \in 1..born
                       /\ proc[h.by].at \in {"look", "load", "export", "write"}
    /\ \A p \in Procs : Cardinality({h \in held : h.by = p}) =
            IF proc[p].at \in {"look", "load", "export", "write"} THEN 1 ELSE 0
    /\ <<crashes, failures, clears>> \in (0..MaxCrashes) \X (0..MaxFailures) \X (0..MaxClears)

\* "Holds a shared lock during loading to prevent concurrent writes": nobody
\* writes the object a process is loading, as long as nobody clears the cache.
NoTornRead ==
    clears = 0 => \A p \in Procs : At(p, "load") => Writing(Object(p)) = {}

\* A deadline missed or a failed export costs no second compilation: what a
\* process has compiled stays in its dictionary (the order in __setitem__).
CompiledOnce == \A p \in Procs, k \in Keys : compiled[p][k] <= 1

\* An object that is whole is never opened for writing again, as long as nobody
\* clears the cache: exporters look for it under the exclusive lock.
StaysWhole == [][clears = 0 => whole \subseteq whole']_vars

\* Where no export is cut short, everybody gets every kernel in the end, whoever
\* else polls, times out or exports meanwhile, and also after a clear.
EveryoneServed ==
    [](crashes = 0 /\ failures = 0) => <>[](\A p \in Procs : mem[p] = Keys)
=============================================================================
