--------------------------- MODULE WatcherProofs ---------------------------
(***************************************************************************)
(* Theorems about Watcher and its lock file, for any number of instances   *)
(* and files, any max_parallelism, and kills at any time.                  *)
(***************************************************************************)
EXTENDS Watcher, TLAPS

Owners == {p \in Instances : pc[p] \in {"in", "compare", "unlink"}}

(* Unless two instances raced into the lock: the file belongs to the one   *)
(* that is in, and who found a reason to go in finds nobody there.         *)
LockIsHeld ==
  raced \/ /\ \A p \in Owners : lock = p
           /\ \A p \in Instances : pc[p] = "write" => p \in opened
           /\ \A p \in Instances : pc[p] \in {"create", "write"} => Owners = {}
           /\ \A p \in Instances : pc[p] = "probe" => Owners \subseteq {found[p]}
           /\ \A p, q \in Entering : p = q

(* No instance finds its own process id in the file before it is in.       *)
NotItself ==
  \A p \in Instances :
    /\ lock = p => pc[p] \notin {"new", "read", "probe", "create", "write"}
    /\ found[p] # p

(* The pool of an instance works while the instance is in; only a second   *)
(* Ctrl-C lets it go on behind a main thread that leaves.                  *)
PoolOf(p) ==
  /\ pc[p] \notin {"in", "compare", "unlink", "left", "killed"} => runner[p] = "list"
  /\ pc[p] \in {"compare", "unlink", "left"} => runner[p] = "leave"
  /\ runner[p] \in {"list", "sleep"} => pending[p] = {} /\ running[p] = {}
  /\ runner[p] = "drain" => pending[p] = {}
  /\ runner[p] \in {"cancel", "drain"} => interrupts[p] > 0
  /\ runner[p] = "leave" /\ interrupts[p] < 2 => pending[p] = {} /\ running[p] = {}

PoolIsInside == \A p \in Instances : PoolOf(p)

LEMMA InitFacts == Init => TypeOK /\ LockIsHeld /\ NotItself /\ PoolIsInside
<1> SUFFICES ASSUME Init PROVE TypeOK /\ LockIsHeld /\ NotItself /\ PoolIsInside
    OBVIOUS
<1>1. TypeOK
  <2>1. LockTypeOK
    BY DEF Init, LockInit, LockTypeOK, LockSteps
  <2>2. MaxChanges \in Nat /\ MaxFaults \in Nat
    BY WatcherAssumption
  <2>3. /\ version \in [Files -> 0 .. MaxChanges] /\ seen \in [Files -> 0 .. MaxChanges]
        /\ faults \in 0 .. MaxFaults
    BY <2>2 DEF Init
  <2>4. /\ event \in [Instances -> BOOLEAN] /\ should_run \in [Instances -> BOOLEAN]
        /\ due \in [Instances -> BOOLEAN] /\ runner \in [Instances -> RunnerSteps]
    BY DEF Init, RunnerSteps
  <2>5. /\ pending \in [Instances -> SUBSET Files] /\ running \in [Instances -> SUBSET Files]
        /\ interrupts \in [Instances -> 0 .. 2]
    BY DEF Init
  <2> QED
    BY <2>1, <2>3, <2>4, <2>5 DEF TypeOK
<1>2. LockIsHeld
  BY DEF Init, LockInit, LockIsHeld, Owners, Entering
<1>3. NotItself
  BY LockAssumption DEF Init, LockInit, NotItself
<1>4. PoolIsInside
  BY DEF Init, LockInit, PoolIsInside, PoolOf
<1> QED
  BY <1>1, <1>2, <1>3, <1>4

(* Every variable keeps its type.                                          *)
LEMMA StepType == TypeOK /\ [Next]_vars => TypeOK'
<1> SUFFICES ASSUME TypeOK, [Next]_vars PROVE TypeOK'
    OBVIOUS
<1> USE LockAssumption, WatcherAssumption
    DEF TypeOK, LockTypeOK, LockSteps, RunnerSteps, vars, lock_vars, files, loop, pool, GoTo
<1>1. ASSUME NEW f \in Files, Change(f) PROVE TypeOK'
  BY <1>1 DEF Change
<1>2. ASSUME NEW p \in Instances, EnterOrLeave(p) PROVE TypeOK'
  BY <1>2 DEF EnterOrLeave, LockStep, Check, ReadNothing, ReadPid, Probe, Create, Write,
              Compare, Unlink
<1>3. ASSUME NEW p \in Instances, ListFiles(p) \/ Processed(p) \/ WakeUp(p) PROVE TypeOK'
  <2>1. CASE ListFiles(p)
    <3>1. {f \in Files : version[f] > 0} \in SUBSET Files
      OBVIOUS
    <3> QED
      BY <2>1, <3>1 DEF ListFiles
  <2>2. CASE Processed(p)
    BY <2>2 DEF Processed
  <2>3. CASE WakeUp(p)
    BY <2>3 DEF WakeUp
  <2> QED
    BY <1>3, <2>1, <2>2, <2>3
<1>4. ASSUME NEW p \in Instances, Cancel(p) \/ Drained(p) \/ Leave(p) PROVE TypeOK'
  BY <1>4 DEF Cancel, Drained, Leave, Forget, Release
<1>5. ASSUME NEW p \in Instances, StartProgram(p) PROVE TypeOK'
  BY <1>5 DEF StartProgram
<1>6. ASSUME NEW p \in Instances, NEW f \in Files, EndProgram(p, f) \/ FailProgram(p, f)
      PROVE TypeOK'
  BY <1>6 DEF EndProgram, FailProgram
<1>7. ASSUME NEW p \in Instances, OnFileChange(p) \/ Elapse(p) PROVE TypeOK'
  BY <1>7 DEF OnFileChange, Elapse
<1>8. ASSUME NEW p \in Instances, Interrupt(p) PROVE TypeOK'
  BY <1>8 DEF Interrupt
<1>9. ASSUME NEW p \in Instances, Kill(p) PROVE TypeOK'
  BY <1>9 DEF Kill, Forget
<1>10. CASE Finished \/ UNCHANGED vars
  BY <1>10 DEF Finished
<1> QED
  BY <1>1, <1>2, <1>3, <1>4, <1>5, <1>6, <1>7, <1>8, <1>9, <1>10 DEF Next, MainThread, PoolStep

(* What a step can do to the lock.                                         *)
LEMMA LockMoves ==
  [Next]_vars => \/ UNCHANGED lock_vars
                 \/ \E p \in Instances : \/ LockStep(p, Alive)
                                         \/ Release(p)
                                         \/ GoTo(p, "killed") /\ UNCHANGED <<lock, opened, found, raced>>
<1> SUFFICES ASSUME [Next]_vars
             PROVE  \/ UNCHANGED lock_vars
                    \/ \E p \in Instances : \/ LockStep(p, Alive)
                                            \/ Release(p)
                                            \/ GoTo(p, "killed") /\ UNCHANGED <<lock, opened, found, raced>>
    OBVIOUS
<1>1. CASE \E f \in Files : Change(f)
  BY <1>1 DEF Change
<1>2. ASSUME NEW p \in Instances, MainThread(p)
      PROVE  UNCHANGED lock_vars \/ LockStep(p, Alive) \/ Release(p)
  BY <1>2 DEF MainThread, ListFiles, Processed, WakeUp, Cancel, Drained, Leave, EnterOrLeave
<1>3. ASSUME NEW p \in Instances, PoolStep(p) PROVE UNCHANGED lock_vars
  BY <1>3 DEF PoolStep, StartProgram, EndProgram, FailProgram
<1>4. ASSUME NEW p \in Instances, OnFileChange(p) \/ Elapse(p) \/ Interrupt(p)
      PROVE  UNCHANGED lock_vars
  BY <1>4 DEF OnFileChange, Elapse, Interrupt
<1>5. ASSUME NEW p \in Instances, Kill(p)
      PROVE  GoTo(p, "killed") /\ UNCHANGED <<lock, opened, found, raced>>
  BY <1>5 DEF Kill
<1>6. CASE Finished \/ UNCHANGED vars
  BY <1>6 DEF Finished, vars
<1> QED
  BY <1>1, <1>2, <1>3, <1>4, <1>5, <1>6 DEF Next

(* A step of the lock that does not end in a race keeps the lock, and does *)
(* so although others are killed, leave, or left their file behind.        *)
LEMMA StepLock == TypeOK /\ LockIsHeld /\ [Next]_vars => LockIsHeld'
<1> SUFFICES ASSUME TypeOK, LockIsHeld, [Next]_vars, ~raced' PROVE LockIsHeld'
    BY DEF LockIsHeld
<1> USE LockAssumption DEF TypeOK, LockTypeOK, LockIsHeld, Owners, Entering, GoTo, lock_vars
<1>1. CASE UNCHANGED lock_vars
  BY <1>1
<1>2. ASSUME NEW p \in Instances, LockStep(p, Alive) PROVE LockIsHeld'
  <2>1. ~raced /\ \A q, r \in Entering' : q = r
    BY <1>2 DEF LockStep
  <2>2. CASE Check(p)
    BY <2>1, <2>2 DEF Check
  <2>3. CASE ReadNothing(p)
    BY <2>1, <2>3 DEF ReadNothing
  <2>4. CASE ReadPid(p)
    BY <2>1, <2>4 DEF ReadPid
  <2>5. CASE Probe(p, Alive)
    BY <2>1, <2>5 DEF Probe, Alive
  <2>6. CASE Create(p)
    BY <2>1, <2>6 DEF Create
  <2>7. CASE Write(p)
    BY <2>1, <2>7 DEF Write
  <2>8. CASE Compare(p)
    BY <2>1, <2>8 DEF Compare
  <2>9. CASE Unlink(p)
    BY <2>1, <2>9 DEF Unlink
  <2> QED
    BY <1>2, <2>2, <2>3, <2>4, <2>5, <2>6, <2>7, <2>8, <2>9 DEF LockStep
<1>3. ASSUME NEW p \in Instances, Release(p) PROVE LockIsHeld'
  BY <1>3 DEF Release
<1>4. ASSUME NEW p \in Instances, GoTo(p, "killed"), UNCHANGED <<lock, opened, found, raced>>
      PROVE  LockIsHeld'
  BY <1>4
<1> QED
  BY <1>1, <1>2, <1>3, <1>4, LockMoves

(* However instances leave, are killed, and leave files behind while       *)
(* others enter: two are in only after two raced each other from the look  *)
(* for the file to the id in it.                                           *)
THEOREM OnlyEntrantsRaceCorrect == Spec => []OnlyEntrantsRace
<1>1. LockIsHeld => OnlyEntrantsRace
  BY DEF LockIsHeld, OnlyEntrantsRace, AtMostOneInstance, Inside, Owners
<1> QED
  BY <1>1, StepLock, InitFacts, StepType, PTL DEF Spec

-----------------------------------------------------------------------------
(* Refusal.                                                                *)

(* However instances overlap, none ever meets its own process id.          *)
LEMMA StepNotItself == TypeOK /\ NotItself /\ [Next]_vars => NotItself'
<1> SUFFICES ASSUME TypeOK, NotItself, [Next]_vars PROVE NotItself'
    OBVIOUS
<1> USE LockAssumption DEF TypeOK, LockTypeOK, NotItself, GoTo, lock_vars
<1>1. CASE UNCHANGED lock_vars
  BY <1>1
<1>2. ASSUME NEW p \in Instances, Check(p) \/ ReadNothing(p) \/ ReadPid(p)
      PROVE  NotItself'
  BY <1>2 DEF Check, ReadNothing, ReadPid
<1>3. ASSUME NEW p \in Instances, Probe(p, Alive) \/ Create(p) \/ Write(p) PROVE NotItself'
  BY <1>3 DEF Probe, Create, Write
<1>4. ASSUME NEW p \in Instances, Compare(p) \/ Unlink(p) \/ Release(p) PROVE NotItself'
  BY <1>4 DEF Compare, Unlink, Release
<1>5. ASSUME NEW p \in Instances, GoTo(p, "killed"), UNCHANGED <<lock, opened, found, raced>>
      PROVE  NotItself'
  BY <1>5
<1> QED
  BY <1>1, <1>2, <1>3, <1>4, <1>5, LockMoves DEF LockStep

(* Who is refused is refused by another instance, which is alive: neither  *)
(* a file left behind nor a race of instances keeps everybody out.         *)
THEOREM RefusedByAnotherCorrect == Spec => RefusedByAnother
<1>1. ASSUME TypeOK, NotItself, [Next]_vars,
             NEW p \in Instances, pc[p] # "refused", pc'[p] = "refused"
      PROVE  \E q \in Instances \ {p} : q \in Alive
  <2> USE DEF TypeOK, LockTypeOK, GoTo
  <2>1. ~ UNCHANGED lock_vars
    BY <1>1 DEF lock_vars
  <2>2. PICK r \in Instances : \/ LockStep(r, Alive)
                               \/ Release(r)
                               \/ GoTo(r, "killed") /\ UNCHANGED <<lock, opened, found, raced>>
    BY <1>1, <2>1, LockMoves
  <2>3. Probe(p, Alive)
    BY <1>1, <2>2 DEF LockStep, Check, ReadNothing, ReadPid, Probe, Create, Write, Compare,
                      Unlink, Release
  <2> QED
    BY <1>1, <2>3 DEF Probe, Alive, NotItself
<1>2. TypeOK /\ NotItself /\ [Next]_vars
        => [\A p \in Instances : pc[p] # "refused" /\ pc'[p] = "refused"
              => \E q \in Instances \ {p} : q \in Alive]_vars
  BY <1>1
<1> QED
  BY <1>2, InitFacts, StepType, StepNotItself, PTL DEF Spec, RefusedByAnother

-----------------------------------------------------------------------------
(* Programs.                                                               *)

(* The steps of the main thread, the pool and the lock keep it.            *)
LEMMA StepPool == TypeOK /\ PoolIsInside /\ [Next]_vars => PoolIsInside'
<1> SUFFICES ASSUME TypeOK, PoolIsInside, [Next]_vars PROVE PoolIsInside'
    OBVIOUS
<1> USE DEF TypeOK, LockTypeOK, PoolIsInside, PoolOf, vars, lock_vars, files, loop, pool, GoTo, Inside
<1>1. ASSUME NEW f \in Files, Change(f) PROVE PoolIsInside'
  BY <1>1 DEF Change
<1>2. ASSUME NEW p \in Instances, EnterOrLeave(p) PROVE PoolIsInside'
  BY <1>2 DEF EnterOrLeave, LockStep, Check, ReadNothing, ReadPid, Probe, Create, Write,
              Compare, Unlink
<1>3. ASSUME NEW p \in Instances, ListFiles(p) \/ Processed(p) \/ WakeUp(p) PROVE PoolIsInside'
  BY <1>3 DEF ListFiles, Processed, WakeUp
<1>4. ASSUME NEW p \in Instances, Cancel(p) \/ Drained(p) \/ Leave(p) PROVE PoolIsInside'
  BY <1>4 DEF Cancel, Drained, Leave, Forget, Release
<1>5. ASSUME NEW p \in Instances, StartProgram(p) PROVE PoolIsInside'
  BY <1>5 DEF StartProgram
<1>6. ASSUME NEW p \in Instances, NEW f \in Files, EndProgram(p, f) \/ FailProgram(p, f)
      PROVE PoolIsInside'
  BY <1>6 DEF EndProgram, FailProgram
<1>7. ASSUME NEW p \in Instances, OnFileChange(p) \/ Elapse(p) PROVE PoolIsInside'
  BY <1>7 DEF OnFileChange, Elapse
<1>8. ASSUME NEW p \in Instances, Interrupt(p) PROVE PoolIsInside'
  <2>1. /\ pc[p] = "in" /\ runner[p] # "leave" /\ interrupts[p] \in {0, 1}
        /\ interrupts'[p] = interrupts[p] + 1
        /\ runner'[p] = IF runner[p] = "execute" THEN "cancel" ELSE "leave"
    BY <1>8 DEF Interrupt
  <2>2. \A q \in Instances \ {p} : interrupts'[q] = interrupts[q] /\ runner'[q] = runner[q]
    BY <1>8 DEF Interrupt
  <2>3. UNCHANGED <<lock_vars, pool>>
    BY <1>8 DEF Interrupt
  <2>4. runner[p] \in RunnerSteps
    OBVIOUS
  <2>5. PoolOf(p)'
    BY <2>1, <2>3, <2>4 DEF RunnerSteps
  <2>6. ASSUME NEW q \in Instances \ {p} PROVE PoolOf(q)'
    BY <2>2, <2>3
  <2> QED
    BY <2>5, <2>6
<1>9. ASSUME NEW p \in Instances, Kill(p) PROVE PoolIsInside'
  BY <1>9 DEF Kill, Forget
<1>10. CASE Finished \/ UNCHANGED vars
  BY <1>10 DEF Finished
<1> QED
  BY <1>1, <1>2, <1>3, <1>4, <1>5, <1>6, <1>7, <1>8, <1>9, <1>10 DEF Next, MainThread, PoolStep

(* No two programs work on one file, but for those a killed or impatiently *)
(* interrupted watcher leaves behind, and for watchers that raced.         *)
THEOREM OneProgramCorrect == Spec => []OneProgramPerFile
<1>1. ASSUME TypeOK, LockIsHeld, PoolIsInside PROVE OneProgramPerFile
  <2>1. ASSUME NEW p \in Instances, running[p] # {}, ~Abandoned(p) PROVE p \in Owners
    BY <1>1, <2>1 DEF TypeOK, PoolIsInside, PoolOf, Abandoned, Owners
  <2>2. raced \/ \A p \in Owners : lock = p
    BY <1>1 DEF LockIsHeld
  <2> QED
    BY <2>1, <2>2 DEF OneProgramPerFile
<1> QED
  BY <1>1, InitFacts, StepType, StepLock, StepPool, PTL DEF Spec
=============================================================================
