---------------------------- MODULE JitCacheProofs ----------------------------
(***************************************************************************)
(* What holds of the cache however many processes and kernels there are    *)
(* and whatever crashes, export failures and clears happen: types, no load *)
(* of an object that is being written, no second compilation, and objects  *)
(* that are whole stay so.                                                 *)
(*                                                                         *)
(* A process that is opening, loading or writing an object holds the lock  *)
(* of that object's name, and while nobody clears, names, lock files and   *)
(* object files correspond one to one (Undisturbed); so two processes at   *)
(* one object hold the same lock, and Exclusion tells them apart.          *)
(***************************************************************************)
EXTENDS JitCache, FiniteSetTheorems, TLAPS

Holding(p) == proc[p].at \in {"look", "load", "export", "write"}
Opened(p)  == proc[p].at \in {"poll", "look", "load", "export", "compile"}

-----------------------------------------------------------------------------
(* The inductive invariant.                                                *)

Files == Nat \ {0}
Waiting ==
    [at : {"poll", "look", "load", "export", "compile"}, key : Keys,
     mode : {"shared", "exclusive"}, lock : Files, tried : BOOLEAN]
WritingOne == [at : {"write"}, key : Keys, mode : {"exclusive"}, file : Files]
Clearing   == [at : {"clear"}, listed : SUBSET Name]
Locks      == [by : Procs, lock : Files, mode : {"shared", "exclusive"}]

Types ==
    /\ dir \in [Name -> Nat] /\ whole \subseteq Nat /\ born \in Nat
    /\ held \subseteq Locks
    /\ mem \in [Procs -> SUBSET Keys]
    /\ proc \in [Procs -> {Idle} \cup Waiting \cup WritingOne \cup Clearing]
    /\ compiled \in [Procs -> [Keys -> Nat]]
    /\ crashes \in 0..MaxCrashes /\ failures \in 0..MaxFailures /\ clears \in 0..MaxClears

\* Whatever is referred to was created.
Created ==
    /\ \A n \in Name : dir[n] <= born
    /\ \A f \in whole : 1 <= f /\ f <= born
    /\ \A h \in held : h.lock <= born
    /\ \A p \in Procs : (Opened(p) => proc[p].lock <= born)
                        /\ (At(p, "write") => proc[p].file <= born)

\* Who holds a lock, and which.
Holders ==
    /\ \A h \in held : /\ Holding(h.by) /\ h.mode = proc[h.by].mode
                       /\ At(h.by, "write") \/ h.lock = proc[h.by].lock
    /\ \A p \in Procs : Holding(p) => \E h \in held : h.by = p
    /\ \A g, h \in held : g.by = h.by => g = h

Exclusion ==
    \A g, h \in held : g.lock = h.lock /\ g # h => g.mode = "shared" /\ h.mode = "shared"

\* Which modes lead where.
Modes ==
    \A p \in Procs : /\ At(p, "export") => proc[p].mode = "exclusive"
                     /\ At(p, "compile") => proc[p].mode = "shared"

\* Unless the cache is cleared, a name stands for one file for good.
LockOf(k) == dir[<<"lock", k>>]
Undisturbed ==
    /\ \A p \in Procs : ~At(p, "clear")
    /\ \A m, n \in Name : dir[m] = dir[n] /\ dir[m] # 0 => m = n
    /\ \A p \in Procs : proc[p].at \in {"poll", "look", "load", "export"} =>
                            proc[p].lock = LockOf(Key(p))
    /\ \A h \in held : h.lock = LockOf(Key(h.by))
    /\ \A p \in Procs : At(p, "export") => Object(p) = 0
    /\ \A p \in Procs : At(p, "write") => Object(p) = proc[p].file /\ proc[p].file \notin whole

\* What a process looks for it does not have, and what it compiled it has.
Once ==
    /\ \A p \in Procs, k \in Keys : compiled[p][k] <= 1 /\ (compiled[p][k] # 0 => k \in mem[p])
    /\ \A p \in Procs : Opened(p) /\ proc[p].mode = "shared" => Key(p) \notin mem[p]

LocksInv == Holders /\ Exclusion /\ Modes
Inv == Types /\ Created /\ LocksInv /\ (clears = 0 => Undisturbed) /\ Once

-----------------------------------------------------------------------------
(* Where a process is says what its record is.                             *)

LEMMA PlaceTells ==
    ASSUME Types, NEW p \in Procs
    PROVE  /\ Opened(p) => proc[p] \in Waiting
           /\ At(p, "write") => proc[p] \in WritingOne
           /\ At(p, "clear") => proc[p] \in Clearing
           /\ At(p, "idle") => proc[p] = Idle
BY DEF Types, Opened, At, Waiting, WritingOne, Clearing, Idle

\* What a step that only moves a process leaves of its record.
Moves(p, where) ==
    /\ \A q \in Procs : q # p => proc'[q] = proc[q]
    /\ proc'[p].at \in where /\ proc'[p].key = proc[p].key
    /\ proc'[p].mode = proc[p].mode /\ proc'[p].lock = proc[p].lock

LEMMA GotoMoves ==
    ASSUME Types, NEW p \in Procs, Opened(p), NEW where, Goto(p, where)
    PROVE  Moves(p, {where})
<1>1. proc[p] \in Waiting
  BY PlaceTells
<1>2. proc' = [proc EXCEPT ![p] = [proc[p] EXCEPT !.at = where]]
  BY DEF Goto
<1> DEFINE new == [proc[p] EXCEPT !.at = where]
<1>3. /\ new.at = where /\ new.key = proc[p].key /\ new.mode = proc[p].mode
      /\ new.lock = proc[p].lock
  BY <1>1 DEF Waiting
<1>4. proc'[p] = new /\ \A q \in Procs : q # p => proc'[q] = proc[q]
  BY <1>2 DEF Types
<1> HIDE DEF new
<1> QED
  BY <1>3, <1>4 DEF Moves

LEMMA PollMoves ==
    ASSUME Types, NEW p \in Procs, Poll(p)
    PROVE  IF Grantable(p) THEN Moves(p, {"look"}) ELSE Moves(p, {"poll"})
<1>1. proc[p] \in Waiting /\ Opened(p)
  BY PlaceTells DEF Poll, At, Opened
<1>2. CASE Grantable(p)
  BY <1>1, <1>2, GotoMoves DEF Poll
<1>3. CASE ~Grantable(p)
  <2> DEFINE new == [proc[p] EXCEPT !.tried = TRUE]
  <2>1. /\ new.at = "poll" /\ new.key = proc[p].key /\ new.mode = proc[p].mode
        /\ new.lock = proc[p].lock
    BY <1>1 DEF Waiting, Poll, At
  <2>2. proc'[p] = new /\ \A q \in Procs : q # p => proc'[q] = proc[q]
    BY <1>3 DEF Types, Poll
  <2> HIDE DEF new
  <2> QED
    BY <1>3, <2>1, <2>2 DEF Moves
<1> QED
  BY <1>2, <1>3

\* Clear and Unlink: a process that clears, or has cleared.
LEMMA ClearMoves ==
    ASSUME Types, NEW p \in Procs, Clear(p) \/ ClearStep(p)
    PROVE  /\ \A q \in Procs : q # p => proc'[q] = proc[q]
           /\ proc'[p].at \in {"clear", "idle"} /\ proc[p].at \in {"clear", "idle"}
<1>1. CASE Clear(p)
  BY <1>1 DEF Clear, Types, At
<1>2. CASE ClearStep(p)
  <2> PICK n \in Name : Unlink(p, n)
    BY <1>2 DEF ClearStep
  <2>1. proc[p] \in Clearing
    BY PlaceTells DEF Unlink
  <2>2. [proc[p] EXCEPT !.listed = @ \ {n}] \in Clearing
    BY <2>1 DEF Clearing
  <2> QED
    BY <2>1, <2>2 DEF Unlink, Return, Types, Idle, Clearing, At
<1> QED
  BY <1>1, <1>2

LEMMA OpenLockMoves ==
    ASSUME Types, NEW p \in Procs, NEW k \in Keys, NEW mode, OpenLock(p, k, mode)
    PROVE  LET name == <<"lock", k>>
           IN  /\ name \in Name
               /\ \A q \in Procs : q # p => proc'[q] = proc[q]
               /\ proc'[p].at = "poll" /\ proc'[p].key = k /\ proc'[p].mode = mode
               /\ proc'[p].lock = dir'[name]
               /\ \A n \in Name : n # name => dir'[n] = dir[n]
               /\ IF dir[name] = 0 THEN dir'[name] = born + 1 /\ born' = born + 1
                                   ELSE dir' = dir /\ born' = born
<1> DEFINE name == <<"lock", k>>
<1>1. name \in Name
  BY DEF Name
<1> QED
  BY <1>1 DEF OpenLock, Types

LEMMA OpenObjectMoves ==
    ASSUME Types, NEW p \in Procs, OpenObject(p)
    PROVE  LET name == <<"object", Key(p)>>
               file == IF dir[name] = 0 THEN born + 1 ELSE dir[name]
           IN  /\ Key(p) \in Keys /\ name \in Name
               /\ \A q \in Procs : q # p => proc'[q] = proc[q]
               /\ proc'[p].at = "write" /\ proc'[p].key = Key(p)
               /\ proc'[p].mode = "exclusive" /\ proc'[p].file = file
               /\ dir'[name] = file /\ \A n \in Name : n # name => dir'[n] = dir[n]
               /\ born' = IF dir[name] = 0 THEN born + 1 ELSE born
<1>1. Key(p) \in Keys
  BY PlaceTells DEF OpenObject, At, Opened, Waiting, Key
<1>2. <<"object", Key(p)>> \in Name
  BY <1>1 DEF Name
<1> QED
  BY <1>1, <1>2 DEF OpenObject, Object, Types

LEMMA TypesInit == Init => Types
BY BoundsAssumption DEF Init, Types, Name, Idle, Locks

LEMMA OpenLockTypes ==
    ASSUME Types, NEW p \in Procs, NEW k \in Keys, NEW mode \in {"shared", "exclusive"},
           OpenLock(p, k, mode)
    PROVE  /\ dir' \in [Name -> Nat] /\ born' \in Nat
           /\ proc' \in [Procs -> {Idle} \cup Waiting \cup WritingOne \cup Clearing]
<1> DEFINE name == <<"lock", k>>
           file == IF dir[name] = 0 THEN born + 1 ELSE dir[name]
           new  == [at |-> "poll", key |-> k, mode |-> mode, lock |-> file, tried |-> FALSE]
<1>1. name \in Name
  BY DEF Name
<1>2. file \in Files
  BY <1>1 DEF Types, Files
<1>3. new \in Waiting
  BY <1>2 DEF Waiting
<1> QED
  BY <1>1, <1>2, <1>3 DEF OpenLock, Types

LEMMA TypesStep == ASSUME Types, Next PROVE Types'
<1> SUFFICES ASSUME NEW p \in Procs,
                    Lookup(p) \/ TimeOut(p) \/ Store(p) \/ ExportFails(p) \/ Crash(p)
                        \/ Clear(p) \/ ClearStep(p)
             PROVE  Types'
  BY DEF Next
<1> USE DEF Types
<1>1. CASE \E k \in Keys : Contains(p, k)
  BY <1>1, OpenLockTypes DEF Contains
<1>2. CASE Poll(p)
  <2>1. proc[p] \in Waiting
    BY <1>2, PlaceTells DEF Poll, At, Opened
  <2>2. [proc[p] EXCEPT !.at = "look"] \in Waiting /\ [proc[p] EXCEPT !.tried = TRUE] \in Waiting
    BY <2>1 DEF Waiting
  <2>3. [by |-> p, lock |-> proc[p].lock, mode |-> proc[p].mode] \in Locks
    BY <2>1 DEF Waiting, Locks
  <2> QED
    BY <1>2, <2>2, <2>3 DEF Poll, Goto
<1>3. CASE LookToLoad(p)
  <2>1. proc[p] \in Waiting
    BY <1>3, PlaceTells DEF LookToLoad, At, Opened
  <2>2. [proc[p] EXCEPT !.at = "load"] \in Waiting /\ [proc[p] EXCEPT !.at = "compile"] \in Waiting
    BY <2>1 DEF Waiting
  <2> QED
    BY <1>3, <2>2 DEF LookToLoad, Goto, Released
<1>4. CASE Load(p)
  <2>1. Key(p) \in Keys
    BY <1>4, PlaceTells DEF Load, At, Opened, Waiting, Key
  <2> QED
    BY <1>4, <2>1 DEF Load, Return, Released
<1>5. CASE TimeOut(p)
  BY <1>5 DEF TimeOut, Return
<1>6. CASE Compile(p)
  <2>1. Key(p) \in Keys
    BY <1>6, PlaceTells DEF Compile, At, Opened, Waiting, Key
  <2>2. /\ compiled' \in [Procs -> [Keys -> Nat]]
        /\ mem' \in [Procs -> SUBSET Keys]
    BY <1>6, <2>1 DEF Compile, Remember
  <2> QED
    BY <1>6, <2>1, <2>2, OpenLockTypes DEF Compile
<1>7. CASE LookToExport(p)
  <2>1. proc[p] \in Waiting
    BY <1>7, PlaceTells DEF LookToExport, At, Opened
  <2>2. [proc[p] EXCEPT !.at = "export"] \in Waiting
    BY <2>1 DEF Waiting
  <2> QED
    BY <1>7, <2>2 DEF LookToExport, Goto, Return, Released
<1>8. CASE OpenObject(p)
  <2> DEFINE file == IF Object(p) = 0 THEN born + 1 ELSE Object(p)
             new  == [at |-> "write", key |-> Key(p), mode |-> "exclusive", file |-> file]
  <2>1. Key(p) \in Keys
    BY <1>8, PlaceTells DEF OpenObject, At, Opened, Waiting, Key
  <2>2. <<"object", Key(p)>> \in Name
    BY <2>1 DEF Name
  <2>3. file \in Files
    BY <2>2 DEF Object, Files
  <2>4. new \in WritingOne
    BY <2>1, <2>3 DEF WritingOne
  <2> QED
    BY <1>8, <2>2, <2>3, <2>4 DEF OpenObject, Files
<1>9. CASE Written(p)
  <2>1. proc[p].file \in Nat
    BY <1>9, PlaceTells DEF Written, WritingOne, Files
  <2> QED
    BY <1>9, <2>1 DEF Written, Return, Released
<1>10. CASE ExportFails(p)
  BY <1>10, BoundsAssumption DEF ExportFails, Return, Released
<1>11. CASE Crash(p)
  BY <1>11, BoundsAssumption DEF Crash, Return, Released
<1>12. CASE Clear(p)
  <2>1. \A listed \in SUBSET Name : [at |-> "clear", listed |-> listed] \in Clearing
    BY DEF Clearing
  <2> QED
    BY <1>12, <2>1, BoundsAssumption DEF Clear
<1>13. CASE ClearStep(p)
  <2> PICK n \in Name : Unlink(p, n)
    BY <1>13 DEF ClearStep
  <2>1. [proc[p] EXCEPT !.listed = @ \ {n}] \in Clearing
    BY PlaceTells DEF Unlink, Clearing
  <2> QED
    BY <2>1 DEF Unlink, Return
<1> QED
  BY <1>1, <1>2, <1>3, <1>4, <1>5, <1>6, <1>7, <1>8, <1>9, <1>10, <1>11, <1>12, <1>13
     DEF Lookup, Store

LEMMA CreatedStep == ASSUME Types, Created, Next PROVE Created'
<1> SUFFICES ASSUME NEW p \in Procs,
                    Lookup(p) \/ TimeOut(p) \/ Store(p) \/ ExportFails(p) \/ Crash(p)
                        \/ Clear(p) \/ ClearStep(p)
             PROVE  Created'
  BY DEF Next
<1>a. born \in Nat /\ \A n \in Name : dir[n] \in Nat
  BY DEF Types
<1>b. ASSUME NEW k \in Keys, NEW mode, OpenLock(p, k, mode), held' = held, whole' = whole
      PROVE  Created'
  <2>1. /\ \A q \in Procs : q # p => proc'[q] = proc[q]
        /\ proc'[p].at = "poll" /\ proc'[p].lock <= born'
        /\ \A n \in Name : dir'[n] <= born'
        /\ born' >= born /\ born' \in Nat
    <3> DEFINE name == <<"lock", k>>
    <3>1. /\ name \in Name
          /\ \A q \in Procs : q # p => proc'[q] = proc[q]
          /\ proc'[p].at = "poll" /\ proc'[p].lock = dir'[name]
          /\ \A n \in Name : n # name => dir'[n] = dir[n]
          /\ IF dir[name] = 0 THEN dir'[name] = born + 1 /\ born' = born + 1
                              ELSE dir' = dir /\ born' = born
      BY <1>b, OpenLockMoves
    <3>2. \A n \in Name : dir[n] <= born
      BY DEF Created
    <3> HIDE DEF name
    <3> QED
      BY <1>a, <3>1, <3>2
  <2>2. \A f \in whole : f <= born'
    BY <1>a, <2>1 DEF Created, Types
  <2>3. \A h \in held : h.lock <= born'
    BY <1>a, <2>1 DEF Created, Types, Locks, Files
  <2>4. \A q \in Procs : /\ Opened(q) => proc[q].lock <= born'
                         /\ At(q, "write") => proc[q].file <= born'
    BY <1>a, <2>1, PlaceTells DEF Created, Waiting, WritingOne, Files
  <2> QED
    BY <1>b, <2>1, <2>2, <2>3, <2>4 DEF Created, At, Opened
<1>c. ASSUME Moves(p, {"poll", "look", "load", "export", "compile"}), Opened(p),
             UNCHANGED <<dir, whole, born>>,
             \A h \in held' : h \in held \/ h.lock = proc[p].lock
      PROVE  Created'
  BY <1>c DEF Created, Moves, At, Opened
<1>d. ASSUME Return(p), UNCHANGED <<dir, born>>, held' \subseteq held,
             whole' \subseteq whole \cup {f \in Files : f <= born}
      PROVE  Created'
  <2>1. proc'[p].at = "idle" /\ \A q \in Procs : q # p => proc'[q] = proc[q]
    BY <1>d DEF Return, Types, Idle
  <2>2. \A f \in whole' : 1 <= f /\ f <= born'
    BY <1>d DEF Created, Files
  <2> QED
    BY <1>d, <2>1, <2>2 DEF Created, At, Opened
<1>1. CASE \E k \in Keys : Contains(p, k)
  BY <1>1, <1>b DEF Contains
<1>2. CASE Poll(p)
  <2>1. Moves(p, {"poll", "look", "load", "export", "compile"}) /\ Opened(p)
    BY <1>2, PollMoves DEF Moves, Poll, At, Opened
  <2>2. \A h \in held' : h \in held \/ h.lock = proc[p].lock
    BY <1>2 DEF Poll
  <2> QED
    BY <1>2, <2>1, <2>2, <1>c DEF Poll
<1>3. CASE LookToLoad(p)
  <2>1. Moves(p, {"poll", "look", "load", "export", "compile"}) /\ Opened(p)
    BY <1>3, GotoMoves DEF Moves, LookToLoad, At, Opened
  <2> QED
    BY <1>3, <2>1, <1>c DEF LookToLoad, Released
<1>4. CASE Load(p)
  <2>1. Return(p) /\ UNCHANGED <<dir, born, whole>> /\ held' \subseteq held
    BY <1>4 DEF Load, Released
  <2> QED
    BY <2>1, <1>d
<1>5. CASE TimeOut(p)
  <2>1. Return(p) /\ UNCHANGED <<dir, born, whole>> /\ held' \subseteq held
    BY <1>5 DEF TimeOut
  <2> QED
    BY <2>1, <1>d
<1>6. CASE Compile(p)
  <2>1. Key(p) \in Keys
    BY <1>6, PlaceTells DEF Compile, At, Opened, Waiting, Key
  <2> QED
    BY <1>6, <2>1, <1>b DEF Compile
<1>7. CASE LookToExport(p)
  <2>1. CASE Exports(p)
    <3>1. Moves(p, {"poll", "look", "load", "export", "compile"}) /\ Opened(p)
      BY <1>7, <2>1, GotoMoves DEF Moves, LookToExport, At, Opened
    <3> QED
      BY <1>7, <2>1, <3>1, <1>c DEF LookToExport
  <2>2. CASE ~Exports(p)
    <3>1. Return(p) /\ UNCHANGED <<dir, born, whole>> /\ held' \subseteq held
      BY <1>7, <2>2 DEF LookToExport, Released
    <3> QED
      BY <3>1, <1>d
  <2> QED
    BY <2>1, <2>2
<1>8. CASE OpenObject(p)
  <2>1. /\ \A q \in Procs : q # p => proc'[q] = proc[q]
        /\ proc'[p].at = "write" /\ proc'[p].file <= born'
        /\ \A n \in Name : dir'[n] <= born'
        /\ born' >= born /\ born' \in Nat
    <3> DEFINE name == <<"object", Key(p)>>
               file == IF dir[name] = 0 THEN born + 1 ELSE dir[name]
    <3>1. /\ name \in Name
          /\ \A q \in Procs : q # p => proc'[q] = proc[q]
          /\ proc'[p].at = "write" /\ proc'[p].file = file
          /\ dir'[name] = file /\ \A n \in Name : n # name => dir'[n] = dir[n]
          /\ born' = IF dir[name] = 0 THEN born + 1 ELSE born
      BY <1>8, OpenObjectMoves
    <3>2. \A n \in Name : dir[n] <= born
      BY DEF Created
    <3> HIDE DEF name
    <3> QED
      BY <1>a, <3>1, <3>2
  <2>2. \A f \in whole' : 1 <= f /\ f <= born'
    <3> TAKE f \in whole'
    <3>1. f \in whole /\ f \in Nat
      BY <1>8 DEF OpenObject, Types
    <3>2. 1 <= f /\ f <= born
      BY <3>1 DEF Created
    <3> QED
      BY <1>a, <2>1, <3>1, <3>2
  <2>3. \A h \in held' : h.lock <= born'
    BY <1>a, <1>8, <2>1 DEF Created, Types, Locks, Files, OpenObject
  <2>4. \A q \in Procs : /\ Opened(q) => proc[q].lock <= born'
                         /\ At(q, "write") => proc[q].file <= born'
    BY <1>a, <2>1, PlaceTells DEF Created, Waiting, WritingOne, Files
  <2> QED
    BY <2>1, <2>2, <2>3, <2>4 DEF Created, At, Opened
<1>9. CASE Written(p)
  <2>1. proc[p].file \in Files /\ proc[p].file <= born
    BY <1>9, PlaceTells DEF Written, WritingOne, Created
  <2>2. /\ Return(p) /\ UNCHANGED <<dir, born>> /\ held' \subseteq held
        /\ whole' \subseteq whole \cup {proc[p].file}
    BY <1>9 DEF Written, Released
  <2> QED
    BY <2>1, <2>2, <1>d
<1>10. CASE ExportFails(p)
  <2>1. Return(p) /\ UNCHANGED <<dir, born, whole>> /\ held' \subseteq held
    BY <1>10 DEF ExportFails, Released
  <2> QED
    BY <2>1, <1>d
<1>11. CASE Crash(p)
  <2>1. Return(p) /\ UNCHANGED <<dir, born, whole>> /\ held' \subseteq held
    BY <1>11 DEF Crash, Released
  <2> QED
    BY <2>1, <1>d
<1>12. CASE Clear(p)
  <2>1. proc'[p].at \in {"clear", "idle"} /\ \A q \in Procs : q # p => proc'[q] = proc[q]
    BY <1>12, ClearMoves
  <2> QED
    BY <1>12, <2>1 DEF Clear, Created, At, Opened
<1>13. CASE ClearStep(p)
  <2>1. proc'[p].at \in {"clear", "idle"} /\ \A q \in Procs : q # p => proc'[q] = proc[q]
    BY <1>13, ClearMoves
  <2>2. /\ \A n \in Name : dir'[n] <= born
        /\ UNCHANGED <<whole, born, held>>
    BY <1>13, <1>a DEF ClearStep, Unlink, Created, Types
  <2> QED
    BY <2>1, <2>2 DEF Created, At, Opened
<1> QED
  BY <1>1, <1>2, <1>3, <1>4, <1>5, <1>6, <1>7, <1>8, <1>9, <1>10, <1>11, <1>12, <1>13
     DEF Lookup, Store

-----------------------------------------------------------------------------
(* Locks.  Only Poll takes one; whoever leaves an object gives his back.   *)

Others(p) == \A q \in Procs : q # p => proc'[q] = proc[q]
ModeOK(p) == /\ proc'[p].at = "export" => proc'[p].mode = "exclusive"
             /\ proc'[p].at = "compile" => proc'[p].mode = "shared"

\* Nothing taken and nothing given back.
LEMMA SameLocks ==
    ASSUME LocksInv, \A h \in held : h.by \in Procs, NEW p \in Procs, Others(p), held' = held, ModeOK(p),
           Holding(p)' <=> Holding(p),
           Holding(p) => /\ proc'[p].mode = proc[p].mode
                         /\ \/ proc'[p].at = "write"
                            \/ proc[p].at # "write" /\ proc'[p].lock = proc[p].lock
    PROVE  LocksInv'
<1>1. Holders'
  BY DEF LocksInv, Holders, Holding, At, Others
<1>2. Exclusion'
  BY DEF LocksInv, Exclusion
<1>3. Modes'
  BY DEF LocksInv, Modes, ModeOK, At, Others
<1> QED
  BY <1>1, <1>2, <1>3 DEF LocksInv

LEMMA GivenBack ==
    ASSUME LocksInv, \A h \in held : h.by \in Procs, NEW p \in Procs, Others(p), held' = Released(p),
           ModeOK(p), proc'[p].at \notin {"look", "load", "export", "write"}
    PROVE  LocksInv'
<1>1. Holders'
  BY DEF LocksInv, Holders, Holding, At, Others, Released
<1>2. Exclusion'
  BY DEF LocksInv, Exclusion, Released
<1>3. Modes'
  BY DEF LocksInv, Modes, ModeOK, At, Others
<1> QED
  BY <1>1, <1>2, <1>3 DEF LocksInv

LEMMA HomeGivesBack ==
    ASSUME Types, LocksInv, NEW p \in Procs, Return(p), held' = Released(p)
    PROVE  LocksInv'
<1>1. \A h \in held : h.by \in Procs
  BY DEF Types, Locks
<1>2. Others(p) /\ proc'[p].at = "idle"
  BY DEF Types, Return, Others, Idle
<1> QED
  BY <1>1, <1>2, GivenBack DEF ModeOK

LEMMA LocksStep == ASSUME Types, LocksInv, Next PROVE LocksInv'
<1> SUFFICES ASSUME NEW p \in Procs,
                    Lookup(p) \/ TimeOut(p) \/ Store(p) \/ ExportFails(p) \/ Crash(p)
                        \/ Clear(p) \/ ClearStep(p)
             PROVE  LocksInv'
  BY DEF Next
<1>0. \A h \in held : h.by \in Procs
  BY DEF Types, Locks
<1>1. CASE \E k \in Keys : Contains(p, k)
  <2>1. Others(p) /\ proc'[p].at = "poll" /\ proc[p].at = "idle" /\ held' = held
    BY <1>1, OpenLockMoves DEF Contains, Others, At
  <2> QED
    BY <1>0, <2>1, SameLocks DEF ModeOK, Holding
<1>2. CASE Poll(p)
  <2>1. CASE Grantable(p)
    <3> DEFINE new == [by |-> p, lock |-> proc[p].lock, mode |-> proc[p].mode]
    <3>1. /\ held' = held \cup {new} /\ Others(p) /\ proc'[p].at = "look"
          /\ new.by = p /\ new.mode = proc'[p].mode /\ new.lock = proc'[p].lock
      BY <1>2, <2>1, PollMoves DEF Poll, Moves, Others
    <3>2. \A h \in held : h.by # p
      BY <1>2 DEF Poll, LocksInv, Holders, Holding, At
    <3>3. \A h \in held : h.lock = new.lock => h.mode = "shared" /\ new.mode = "shared"
      BY <2>1 DEF Grantable
    <3> HIDE DEF new
    <3>4. Holders'
      BY <1>0, <3>1, <3>2 DEF LocksInv, Holders, Holding, At, Others
    <3>5. Exclusion'
      BY <3>1, <3>3 DEF LocksInv, Exclusion
    <3>6. Modes'
      BY <3>1 DEF LocksInv, Modes, At, Others
    <3> QED
      BY <3>4, <3>5, <3>6 DEF LocksInv
  <2>2. CASE ~Grantable(p)
    <3>1. Others(p) /\ proc'[p].at = "poll" /\ held' = held /\ proc[p].at = "poll"
      BY <1>2, <2>2, PollMoves DEF Poll, Moves, Others, At
    <3> QED
      BY <1>0, <3>1, SameLocks DEF ModeOK, Holding
  <2> QED
    BY <2>1, <2>2
<1>3. CASE LookToLoad(p)
  <2>1. CASE Object(p) # 0
    <3>1. Moves(p, {"load"}) /\ held' = held /\ proc[p].at = "look"
      BY <1>3, <2>1, GotoMoves DEF LookToLoad, Opened, At
    <3> QED
      BY <1>0, <3>1, SameLocks DEF ModeOK, Holding, Moves, Others
  <2>2. CASE Object(p) = 0
    <3>1. Moves(p, {"compile"}) /\ held' = Released(p) /\ proc[p].mode = "shared"
      BY <1>3, <2>2, GotoMoves DEF LookToLoad, Opened, At
    <3> QED
      BY <1>0, <3>1, GivenBack DEF ModeOK, Moves, Others
  <2> QED
    BY <2>1, <2>2
<1>4. CASE Load(p)
  BY <1>4, HomeGivesBack DEF Load
<1>5. CASE TimeOut(p)
  <2>1. Others(p) /\ proc'[p].at = "idle" /\ proc[p].at = "poll" /\ held' = held
    BY <1>5 DEF TimeOut, Return, Idle, Others, At, Types
  <2> QED
    BY <1>0, <2>1, SameLocks DEF ModeOK, Holding
<1>6. CASE Compile(p)
  <2>1. Key(p) \in Keys
    BY <1>6, PlaceTells DEF Compile, At, Opened, Waiting, Key
  <2>2. Others(p) /\ proc'[p].at = "poll" /\ proc[p].at = "compile" /\ held' = held
    BY <1>6, <2>1, OpenLockMoves DEF Compile, Others, At
  <2> QED
    BY <1>0, <2>2, SameLocks DEF ModeOK, Holding
<1>7. CASE LookToExport(p)
  <2>1. CASE Exports(p)
    <3>1. Moves(p, {"export"}) /\ held' = held /\ proc[p].at = "look" /\ proc[p].mode = "exclusive"
      BY <1>7, <2>1, GotoMoves DEF LookToExport, Opened, At
    <3> QED
      BY <1>0, <3>1, SameLocks DEF ModeOK, Holding, Moves, Others
  <2>2. CASE ~Exports(p)
    BY <1>7, <2>2, HomeGivesBack DEF LookToExport
  <2> QED
    BY <2>1, <2>2
<1>8. CASE OpenObject(p)
  <2>1. /\ Others(p) /\ proc'[p].at = "write" /\ proc'[p].mode = "exclusive"
        /\ proc[p].at = "export" /\ held' = held
    BY <1>8, OpenObjectMoves DEF OpenObject, Others, At
  <2>2. proc[p].mode = "exclusive"
    BY <2>1 DEF LocksInv, Modes, At
  <2> QED
    BY <1>0, <2>1, <2>2, SameLocks DEF ModeOK, Holding
<1>9. CASE Written(p)
  BY <1>9, HomeGivesBack DEF Written
<1>10. CASE ExportFails(p)
  BY <1>10, HomeGivesBack DEF ExportFails
<1>11. CASE Crash(p)
  BY <1>11, HomeGivesBack DEF Crash
<1>12. CASE Clear(p) \/ ClearStep(p)
  <2>1. /\ Others(p) /\ proc'[p].at \in {"clear", "idle"} /\ proc[p].at \in {"clear", "idle"}
        /\ held' = held
    BY <1>12, ClearMoves DEF Clear, ClearStep, Unlink, Others
  <2> QED
    BY <1>0, <2>1, SameLocks DEF ModeOK, Holding
<1> QED
  BY <1>1, <1>2, <1>3, <1>4, <1>5, <1>6, <1>7, <1>8, <1>9, <1>10, <1>11, <1>12
     DEF Lookup, Store

-----------------------------------------------------------------------------
(* Names.  Only Clear and what follows it breaks their correspondence.     *)

\* Going home disturbs nothing, whatever becomes of the lock.
LEMMA HomeUndisturbed ==
    ASSUME Types, Undisturbed, NEW p \in Procs, Return(p), held' = held \/ held' = Released(p),
           \A h \in held' : h.by # p, UNCHANGED <<dir, whole>>
    PROVE  Undisturbed'
BY DEF Types, Undisturbed, Return, Released, Idle, At, Key, Object, LockOf, Locks

\* A lock file is created under a name that had none, or nothing is created.
LEMMA OpenLockUndisturbed ==
    ASSUME Types, Created, LocksInv, Undisturbed, NEW p \in Procs, NEW k \in Keys,
           NEW mode \in {"shared", "exclusive"}, OpenLock(p, k, mode), ~Holding(p),
           UNCHANGED <<held, whole>>
    PROVE  Undisturbed'
<1> DEFINE name == <<"lock", k>>
<1>1. name \in Name /\ dir[name] \in Nat /\ born \in Nat
  BY DEF Name, Types
<1>2. \A n \in Name : n # name => dir'[n] = dir[n]
  BY <1>1 DEF OpenLock, Types
<1>3. dir[name] # 0 => dir' = dir
  BY <1>1 DEF OpenLock, Types
<1>4. dir[name] = 0 => dir'[name] = born + 1
  BY <1>1 DEF OpenLock, Types
<1>5. \A l \in Keys : LockOf(l) # 0 => LockOf(l)' = LockOf(l)
  BY <1>2, <1>3 DEF LockOf, Name
<1>6. \A l \in Keys : <<"object", l>> \in Name /\ dir'[<<"object", l>>] = dir[<<"object", l>>]
  BY <1>2 DEF Name
<1>7. \A q \in Procs : q # p => proc'[q] = proc[q]
  BY DEF OpenLock, Types
<1>8. /\ proc'[p].at = "poll" /\ proc'[p].key = k
      /\ proc'[p].lock = dir'[name]
  BY <1>1 DEF OpenLock, Types
<1>9. \A q \in Procs : Opened(q) => Key(q) \in Keys /\ proc[q].lock # 0
  BY PlaceTells DEF Waiting, Files, Key
<1>10. \A q \in Procs : Holding(q) => Key(q) \in Keys
  BY PlaceTells DEF Waiting, WritingOne, Key, Holding, Opened, At
<1>11. \A h \in held : h.by \in Procs /\ Holding(h.by) /\ h.by # p /\ h.lock # 0
  BY DEF Types, Locks, Files, LocksInv, Holders
<1>a. \A n \in Name : dir[n] \in Nat /\ dir[n] <= born
  BY DEF Types, Created
<1>12. \A m, n \in Name : dir'[m] = dir'[n] /\ dir'[m] # 0 => m = n
  BY <1>1, <1>2, <1>3, <1>4, <1>a DEF Undisturbed
<1>13. \A q \in Procs : proc'[q].at \in {"poll", "look", "load", "export"} =>
                            proc'[q].lock = LockOf(Key(q))'
  BY <1>5, <1>7, <1>8, <1>9 DEF Undisturbed, Key, LockOf, Opened
<1>14. \A h \in held : h.lock = LockOf(Key(h.by))'
  BY <1>5, <1>7, <1>10, <1>11 DEF Undisturbed, Key, LockOf
<1>15. \A q \in Procs : /\ proc'[q].at # "clear"
                        /\ proc'[q].at = "export" => Object(q)' = 0
                        /\ proc'[q].at = "write" => Object(q)' = proc'[q].file
                                                   /\ proc'[q].file \notin whole
  <2> TAKE q \in Procs
  <2>1. CASE q = p
    BY <2>1, <1>8
  <2>2. CASE q # p
    BY <2>2, <1>6, <1>7, <1>10 DEF Undisturbed, At, Key, Object, Holding
  <2> QED
    BY <2>1, <2>2
<1> QED
  BY <1>12, <1>13, <1>14, <1>15 DEF Undisturbed, At

\* An object file is created under a name that had none, by the one process that
\* holds the lock of this name.
LEMMA OpenObjectUndisturbed ==
    ASSUME Types, Created, LocksInv, Undisturbed, NEW p \in Procs, OpenObject(p)
    PROVE  Undisturbed'
<1> DEFINE name == <<"object", Key(p)>>
<1>1. Key(p) \in Keys /\ At(p, "export") /\ proc[p].mode = "exclusive"
  BY PlaceTells DEF OpenObject, At, Opened, Waiting, Key, LocksInv, Modes
<1>2. name \in Name /\ dir[name] = 0 /\ born \in Nat
  BY <1>1 DEF Name, Types, Undisturbed, Object
<1>3. dir' = [dir EXCEPT ![name] = born + 1] /\ born + 1 \notin whole /\ whole' = whole \ {born + 1}
  BY <1>2 DEF OpenObject, Object, Created, Types
<1>4. dir'[name] = born + 1 /\ \A n \in Name : n # name => dir'[n] = dir[n]
  BY <1>2, <1>3 DEF Types
<1>5. /\ \A q \in Procs : q # p => proc'[q] = proc[q]
      /\ proc'[p] = [at |-> "write", key |-> Key(p), mode |-> "exclusive", file |-> born + 1]
  BY <1>2 DEF OpenObject, Object, Types
<1>6. \A l \in Keys : LockOf(l)' = LockOf(l)
  BY <1>4 DEF LockOf, Name
<1>7. \A q \in Procs : Opened(q) \/ Holding(q) => Key(q) \in Keys
  BY PlaceTells DEF Waiting, WritingOne, Key, Holding, Opened, At
<1>8. \A h \in held : h.by \in Procs /\ Holding(h.by)
  BY DEF Types, Locks, LocksInv, Holders
<1>9. \A q \in Procs : q # p /\ proc[q].at \in {"export", "write"} => Key(q) # Key(p)
  <2> SUFFICES ASSUME NEW q \in Procs, q # p, proc[q].at \in {"export", "write"}, Key(q) = Key(p)
               PROVE  FALSE
    OBVIOUS
  <2>1. PICK g \in held : g.by = p
    BY <1>1 DEF LocksInv, Holders, Holding, At
  <2>2. PICK h \in held : h.by = q
    BY DEF LocksInv, Holders, Holding
  <2>3. g.lock = h.lock /\ g # h
    BY <2>1, <2>2 DEF Undisturbed
  <2>4. g.mode = "exclusive"
    BY <1>1, <2>1 DEF LocksInv, Holders
  <2> QED
    BY <2>3, <2>4 DEF LocksInv, Exclusion
<1>a. \A n \in Name : dir[n] \in Nat /\ dir[n] <= born
  BY DEF Types, Created
<1>10. \A m, n \in Name : dir'[m] = dir'[n] /\ dir'[m] # 0 => m = n
  BY <1>2, <1>4, <1>a DEF Undisturbed
<1>11. \A q \in Procs : proc'[q].at \in {"poll", "look", "load", "export"} =>
                            proc'[q].lock = LockOf(Key(q))'
  BY <1>5, <1>6, <1>7 DEF Undisturbed, Key, LockOf, Opened
<1>12. \A h \in held : h.lock = LockOf(Key(h.by))' /\ held' = held
  <2>1. \A q \in Procs : Key(q)' = IF q = p THEN Key(p) ELSE Key(q)
    BY <1>5 DEF Key
  <2> QED
    BY <1>6, <1>7, <1>8, <2>1 DEF Undisturbed, LockOf, OpenObject
<1>13. \A q \in Procs : /\ proc'[q].at # "clear"
                        /\ proc'[q].at = "export" => Object(q)' = 0
                        /\ proc'[q].at = "write" => Object(q)' = proc'[q].file
                                                   /\ proc'[q].file \notin whole'
  <2> TAKE q \in Procs
  <2>1. CASE q = p
    BY <2>1, <1>3, <1>4, <1>5 DEF Object, Key
  <2>2. CASE q # p
    <3>1. proc[q].at \in {"export", "write"} => Object(q)' = Object(q)
      BY <2>2, <1>4, <1>5, <1>7, <1>9 DEF Object, Key, Name, Holding
    <3> QED
      BY <2>2, <1>3, <1>5, <3>1 DEF Undisturbed, At
  <2> QED
    BY <2>1, <2>2
<1> QED
  BY <1>10, <1>11, <1>12, <1>13 DEF Undisturbed, At, OpenObject

\* A step from one place to another, with its key and its lock.
LEMMA MovesUndisturbed ==
    ASSUME Types, Undisturbed, NEW p \in Procs, UNCHANGED <<dir, whole>>,
           Moves(p, {"poll", "look", "load", "compile"}) \/ (Moves(p, {"export"}) /\ Object(p) = 0),
           proc[p].at \in {"poll", "look"},
           \A h \in held' : h.lock = LockOf(Key(h.by)) /\ h.by \in Procs
    PROVE  Undisturbed'
<1>1. \A q \in Procs : Key(q)' = Key(q) /\ Object(q)' = Object(q)
  BY DEF Moves, Key, Object
<1>2. \A k : LockOf(k)' = LockOf(k)
  BY DEF LockOf
<1> QED
  BY <1>1, <1>2 DEF Undisturbed, Moves, At

LEMMA UndisturbedStep ==
    ASSUME Types, Created, LocksInv, Undisturbed, Next, clears' = clears PROVE Undisturbed'
<1> SUFFICES ASSUME NEW p \in Procs,
                    Lookup(p) \/ TimeOut(p) \/ Store(p) \/ ExportFails(p) \/ Crash(p)
                        \/ Clear(p) \/ ClearStep(p)
             PROVE  Undisturbed'
  BY DEF Next
<1>0. \A h \in held : h.by \in Procs /\ Holding(h.by)
  BY DEF Types, Locks, LocksInv, Holders
<1>1. CASE \E k \in Keys : Contains(p, k)
  BY <1>1, OpenLockUndisturbed DEF Contains, At, Holding
<1>2. CASE Poll(p)
  <2>1. Moves(p, {"poll", "look"}) /\ proc[p].at = "poll" /\ dir' = dir /\ whole' = whole
    BY <1>2, PollMoves DEF Poll, Moves, At
  <2>2. \A h \in held' : h \in held \/ (h.by = p /\ h.lock = proc[p].lock)
    BY <1>2 DEF Poll
  <2>3. \A h \in held' : h.lock = LockOf(Key(h.by))
    BY <2>1, <2>2 DEF Undisturbed
  <2>4. \A h \in held' : h.by \in Procs
    BY <1>0, <2>2
  <2>5. /\ Moves(p, {"poll", "look", "load", "compile"}) \/ (Moves(p, {"export"}) /\ Object(p) = 0)
        /\ UNCHANGED <<dir, whole>> /\ proc[p].at \in {"poll", "look"}
    BY <2>1 DEF Moves
  <2>6. \A h \in held' : h.lock = LockOf(Key(h.by)) /\ h.by \in Procs
    BY <2>3, <2>4
  <2> QED
    BY <2>5, <2>6, MovesUndisturbed
<1>3. CASE LookToLoad(p)
  <2>1. Moves(p, {"load", "compile"}) /\ dir' = dir /\ whole' = whole /\ held' \subseteq held
    BY <1>3, GotoMoves DEF LookToLoad, Moves, Released, Opened, At
  <2>2. proc[p].at = "look"
    BY <1>3 DEF LookToLoad, At
  <2>3. \A h \in held' : h.lock = LockOf(Key(h.by)) /\ h.by \in Procs
    BY <1>0, <2>1 DEF Undisturbed
  <2>4. /\ Moves(p, {"poll", "look", "load", "compile"}) \/ (Moves(p, {"export"}) /\ Object(p) = 0)
        /\ UNCHANGED <<dir, whole>> /\ proc[p].at \in {"poll", "look"}
    BY <2>1, <2>2 DEF Moves
  <2> QED
    BY <2>3, <2>4, MovesUndisturbed
<1>4. CASE Load(p)
  BY <1>4, HomeUndisturbed DEF Load, Released
<1>5. CASE TimeOut(p)
  BY <1>5, <1>0, HomeUndisturbed DEF TimeOut, Holding, At
<1>6. CASE Compile(p)
  <2>1. Key(p) \in Keys
    BY <1>6, PlaceTells DEF Compile, At, Opened, Waiting, Key
  <2> QED
    BY <1>6, <2>1, OpenLockUndisturbed DEF Compile, At, Holding
<1>7. CASE LookToExport(p)
  <2>1. CASE Exports(p)
    <3>1. /\ Moves(p, {"export"}) /\ dir' = dir /\ whole' = whole /\ held' = held
          /\ proc[p].at = "look" /\ Object(p) = 0
      BY <1>7, <2>1, GotoMoves DEF LookToExport, Exports, Opened, At
    <3>2. \A h \in held : h.lock = LockOf(Key(h.by)) /\ h.by \in Procs
      BY <1>0 DEF Undisturbed
    <3> QED
      BY <3>1, <3>2, MovesUndisturbed
  <2>2. CASE ~Exports(p)
    BY <1>7, <2>2, HomeUndisturbed DEF LookToExport, Released
  <2> QED
    BY <2>1, <2>2
<1>8. CASE OpenObject(p)
  BY <1>8, OpenObjectUndisturbed
<1>9. CASE Written(p)
  <2>1. \A q \in Procs : At(q, "write") /\ q # p => proc[q].file \notin whole'
    BY <1>9 DEF Written, Writing, Undisturbed
  <2>2. \A q \in Procs : q # p => proc'[q] = proc[q]
    BY <1>9 DEF Written, Return, Types
  <2>3. proc'[p].at = "idle" /\ dir' = dir
    BY <1>9 DEF Written, Return, Types, Idle
  <2>4. \A h \in held' : h \in held /\ h.by # p /\ h.by \in Procs
    BY <1>9, <1>0 DEF Written, Released
  <2> QED
    BY <2>1, <2>2, <2>3, <2>4 DEF Undisturbed, At, Key, Object, LockOf
<1>10. CASE ExportFails(p)
  BY <1>10, HomeUndisturbed DEF ExportFails, Released
<1>11. CASE Crash(p)
  BY <1>11, HomeUndisturbed DEF Crash, Released
<1>12. ~Clear(p)
  BY DEF Clear, Types
<1>13. ~ClearStep(p)
  BY DEF ClearStep, Unlink, Undisturbed
<1> QED
  BY <1>1, <1>2, <1>3, <1>4, <1>5, <1>6, <1>7, <1>8, <1>9, <1>10, <1>11, <1>12, <1>13
     DEF Lookup, Store

-----------------------------------------------------------------------------
(* Dictionaries.                                                           *)

\* The key is not in the dictionary, hence it was not compiled.
LEMMA CompileOnce ==
    ASSUME Types, LocksInv, Once, NEW p \in Procs, Compile(p)
    PROVE  Once'
<1>1. Key(p) \in Keys /\ Opened(p) /\ proc[p].mode = "shared"
  BY PlaceTells DEF Compile, At, Opened, Waiting, Key, LocksInv, Modes
<1>2. compiled[p][Key(p)] = 0
  BY <1>1 DEF Once, Types
<1>3. \A q \in Procs, k \in Keys :
          /\ compiled'[q][k] = IF q = p /\ k = Key(p) THEN 1 ELSE compiled[q][k]
          /\ mem'[q] = IF q = p THEN mem[p] \cup {Key(p)} ELSE mem[q]
  BY <1>1, <1>2 DEF Compile, Remember, Types
<1>4. OpenLock(p, Key(p), "exclusive")
  BY DEF Compile
<1>5. proc'[p].mode = "exclusive" /\ \A q \in Procs : q # p => proc'[q] = proc[q]
  BY <1>4 DEF OpenLock, Types
<1>6. \A q \in Procs, k \in Keys : compiled'[q][k] <= 1 /\ (compiled'[q][k] # 0 => k \in mem'[q])
  BY <1>1, <1>3 DEF Once
<1>7. \A q \in Procs : Opened(q)' /\ proc'[q].mode = "shared" => Key(q)' \notin mem'[q]
  BY <1>1, <1>3, <1>5 DEF Opened, Key, Once
<1> QED
  BY <1>6, <1>7 DEF Once

LEMMA OnceStep == ASSUME Types, LocksInv, Once, Next PROVE Once'
<1> SUFFICES ASSUME NEW p \in Procs,
                    Lookup(p) \/ TimeOut(p) \/ Store(p) \/ ExportFails(p) \/ Crash(p)
                        \/ Clear(p) \/ ClearStep(p)
             PROVE  Once'
  BY DEF Next
<1> USE DEF Once, Types
<1>1. CASE \E k \in Keys : Contains(p, k)
  BY <1>1 DEF Contains, OpenLock, Opened, Key
<1>2. CASE Poll(p)
  BY ZenonT(40), <1>2, PollMoves DEF Poll, Moves, At, Opened, Key
<1>3. CASE LookToLoad(p)
  BY <1>3, GotoMoves DEF LookToLoad, Moves, At, Opened, Key
<1>4. CASE Load(p)
  BY <1>4 DEF Load, Return, Idle, At, Opened, Key
<1>5. CASE TimeOut(p)
  BY <1>5 DEF TimeOut, Return, Idle, At, Opened, Key
<1>6. CASE Compile(p)
  BY <1>6, CompileOnce
<1>7. CASE LookToExport(p)
  BY <1>7, GotoMoves DEF LookToExport, Moves, Return, Idle, At, Opened, Key
<1>8. CASE OpenObject(p)
  BY <1>8 DEF OpenObject, Opened, Key
<1>9. CASE Written(p)
  BY <1>9 DEF Written, Return, Idle, Opened, Key
<1>10. CASE ExportFails(p)
  BY <1>10 DEF ExportFails, Return, Idle, Opened, Key
<1>11. CASE Crash(p)
  BY <1>11 DEF Crash, Return, Idle, Opened, Key
<1>12. CASE Clear(p)
  BY <1>12, ClearMoves DEF Clear, At, Opened, Key
<1>13. CASE ClearStep(p)
  BY <1>13, ClearMoves DEF ClearStep, Unlink, At, Opened, Key
<1> QED
  BY <1>1, <1>2, <1>3, <1>4, <1>5, <1>6, <1>7, <1>8, <1>9, <1>10, <1>11, <1>12, <1>13
     DEF Lookup, Store

-----------------------------------------------------------------------------
(* The theorems.                                                           *)

LEMMA ClearsCount == ASSUME Types, Next PROVE clears' = clears \/ clears' # 0
BY DEF Types, Next, Lookup, Store, ClearStep, Contains, Poll, LookToLoad, Load, TimeOut, Compile,
       LookToExport, OpenObject, Written, ExportFails, Crash, Clear, Unlink

\* Locks are given and taken as FileLock does, and without a clear each kernel has its own
\* lock file and its own object file (the inductive invariant).
THEOREM CacheInvariant == Spec => []Inv
<1>1. Init => Inv
  BY TypesInit DEF Init, Inv, Created, LocksInv, Holders, Exclusion, Modes, Undisturbed, Once, Idle,
                   At, Opened, Holding, Key, Object, Types
<1>2. Inv /\ [Next]_vars => Inv'
  <2> SUFFICES ASSUME Inv, [Next]_vars PROVE Inv'
    OBVIOUS
  <2>1. CASE Next
    BY <2>1, TypesStep, CreatedStep, LocksStep, UndisturbedStep, OnceStep, ClearsCount DEF Inv
  <2>2. CASE UNCHANGED vars
    BY <2>2 DEF vars, Inv, Types, Created, LocksInv, Holders, Exclusion, Modes, Undisturbed, Once,
                At, Opened, Holding, Key, Object, LockOf
  <2> QED
    BY <2>1, <2>2
<1> QED
  BY <1>1, <1>2, PTL DEF Spec

\* Names stand for files that were created, and each process has one lock from the
\* poll that got it until it gives it back, and none else (FileLock).
THEOREM CacheTypes == Spec => []TypeOK
<1>1. Inv => TypeOK
  <2> SUFFICES ASSUME Inv PROVE TypeOK
    OBVIOUS
  <2>1. /\ dir \in [Name -> 0..born] /\ whole \subseteq 1..born
        /\ \A h \in held : h.by \in Procs /\ h.lock \in 1..born /\ Holding(h.by)
    BY DEF Inv, Types, Created, LocksInv, Holders, Locks, Files
  <2>2. ASSUME NEW p \in Procs
        PROVE  Cardinality({h \in held : h.by = p}) = IF Holding(p) THEN 1 ELSE 0
    <3>1. CASE Holding(p)
      <4>1. PICK h \in held : h.by = p
        BY <3>1 DEF Inv, LocksInv, Holders
      <4>2. {g \in held : g.by = p} = {h}
        BY <4>1 DEF Inv, LocksInv, Holders
      <4> QED
        BY <3>1, <4>2, FS_Singleton
    <3>2. CASE ~Holding(p)
      <4>1. {g \in held : g.by = p} = {}
        BY <2>1, <3>2
      <4> QED
        BY <3>2, <4>1, FS_EmptySet
    <3> QED
      BY <3>1, <3>2
  <2> QED
    BY <2>1, <2>2 DEF TypeOK, Holding, Inv, Types
<1> QED
  BY <1>1, CacheInvariant, PTL

\* A process that loads an object holds its lock shared, so that nobody writes it,
\* while the cache is not cleared (_try_load_from_storage, _try_export_to_storage).
THEOREM CacheNoTornRead == Spec => []NoTornRead
<1>1. Inv => NoTornRead
  <2> SUFFICES ASSUME Inv, clears = 0, NEW p \in Procs, At(p, "load"),
                      NEW q \in Procs, At(q, "write"), proc[q].file = Object(p)
               PROVE  FALSE
    BY DEF NoTornRead, Writing
  <2>1. Undisturbed
    BY DEF Inv
  <2>2. /\ Key(p) \in Keys /\ Key(q) \in Keys
        /\ proc[q].mode = "exclusive" /\ proc[q].file # 0
    BY PlaceTells DEF Inv, At, Opened, Waiting, WritingOne, Files, Key
  <2>3. Key(p) = Key(q)
    <3>1. Object(p) = Object(q) /\ Object(p) # 0
      BY <2>1, <2>2 DEF Undisturbed
    <3>2. <<"object", Key(p)>> \in Name /\ <<"object", Key(q)>> \in Name
      BY <2>2 DEF Name
    <3>3. <<"object", Key(p)>> = <<"object", Key(q)>>
      BY <2>1, <3>1, <3>2 DEF Undisturbed, Object
    <3> QED
      BY <3>3
  <2>4. PICK g \in held : g.by = p
    BY DEF Inv, LocksInv, Holders, Holding, At
  <2>5. PICK h \in held : h.by = q
    BY DEF Inv, LocksInv, Holders, Holding, At
  <2>6. g.lock = h.lock /\ g # h /\ h.mode = "exclusive"
    BY <2>1, <2>2, <2>3, <2>4, <2>5 DEF Undisturbed, At, Inv, LocksInv, Holders
  <2> QED
    BY <2>6 DEF Inv, LocksInv, Exclusion
<1> QED
  BY <1>1, CacheInvariant, PTL

\* What a process compiled is in its dictionary before it tries to export it, and
\* it compiles only what is not there: no failure leads to a second compilation.
THEOREM CacheCompiledOnce == Spec => []CompiledOnce
<1>1. Inv => CompiledOnce
  BY DEF Inv, Once, CompiledOnce
<1> QED
  BY <1>1, CacheInvariant, PTL

\* Exporters leave an object alone that they find under the exclusive lock, so that
\* a whole one is never truncated, while the cache is not cleared.
THEOREM CacheStaysWhole == Spec => StaysWhole
<1>1. Inv /\ [Next]_vars => [clears = 0 => whole \subseteq whole']_vars
  <2> SUFFICES ASSUME Inv, Next, clears = 0 PROVE whole \subseteq whole'
    BY DEF vars
  <2>1. PICK p \in Procs :
            Lookup(p) \/ TimeOut(p) \/ Store(p) \/ ExportFails(p) \/ Crash(p) \/ Clear(p)
                \/ ClearStep(p)
    BY DEF Next
  <2>2. CASE OpenObject(p)
    <3>1. Object(p) = 0
      BY <2>2 DEF Inv, Undisturbed, OpenObject
    <3>2. whole' = whole \ {born + 1} /\ born + 1 \notin whole
      BY <2>2, <3>1 DEF OpenObject, Inv, Created, Types
    <3> QED
      BY <3>2
  <2>3. CASE ~OpenObject(p)
    BY <2>1, <2>3 DEF Lookup, Store, ClearStep, Contains, Poll, LookToLoad, Load, TimeOut, Compile,
                      LookToExport, Written, ExportFails, Crash, Clear, Unlink
  <2> QED
    BY <2>2, <2>3
<1> QED
  BY <1>1, CacheInvariant, PTL DEF Spec, StaysWhole
=============================================================================
