------------------------------- MODULE Watcher -------------------------------
(***************************************************************************)
(* ocs-watcher: runner.py, executor.py and watcher.py, inside the lock of  *)
(* SingleInstance, with the ocs-recognition processes it starts.           *)
(*                                                                         *)
(* The main thread lists the files, has a thread pool run the program on   *)
(* each, and sleeps until a file changed or checking_frequency is over.    *)
(* The thread of watchdog's observer reports changes.  Ctrl-C reaches the  *)
(* main thread, once or twice, and any instance may be killed; the         *)
(* processes it started then go on.                                        *)
(***************************************************************************)
EXTENDS SingleInstance, FiniteSets

CONSTANTS
  Files,           \* numbers, in the order of their names
  MaxChanges,      \* bound on how often a file changes; the first adds it
  MaxFaults,       \* bound on kills and failures of the program
  max_parallelism

ASSUME WatcherAssumption ==
  /\ Files \subseteq Nat /\ MaxChanges \in Nat /\ MaxFaults \in Nat
  /\ max_parallelism \in Nat \ {0}

VARIABLES
  version,     \* how often each file was changed
  seen,        \* the version of each file a successful run has read to its end
  event,       \* a change is on its way to the observer's handler
  should_run,
  due,         \* checking_frequency has passed since last_check_time
  runner,      \* what the main thread does
  pending,     \* files whose future has not been started
  running,     \* files an OCR process of the instance works on
  interrupts,  \* how often Ctrl-C was pressed
  faults

files == <<version, seen>>
loop == <<event, should_run, due>>
pool == <<pending, running>>
vars == <<lock_vars, files, loop, runner, pool, interrupts, faults>>

RunnerSteps == {"list", "execute", "sleep", "cancel", "drain", "leave"}

TypeOK ==
  /\ LockTypeOK
  /\ version \in [Files -> 0 .. MaxChanges]
  /\ seen \in [Files -> 0 .. MaxChanges]
  /\ event \in [Instances -> BOOLEAN]
  /\ should_run \in [Instances -> BOOLEAN]
  /\ due \in [Instances -> BOOLEAN]
  /\ runner \in [Instances -> RunnerSteps]
  /\ pending \in [Instances -> SUBSET Files]
  /\ running \in [Instances -> SUBSET Files]
  /\ interrupts \in [Instances -> 0 .. 2]
  /\ faults \in 0 .. MaxFaults

Init ==
  /\ LockInit
  /\ version = [f \in Files |-> 0]
  /\ seen = [f \in Files |-> 0]
  /\ event = [p \in Instances |-> FALSE]
  /\ should_run = [p \in Instances |-> FALSE]
  /\ due = [p \in Instances |-> FALSE]
  /\ runner = [p \in Instances |-> "list"]
  /\ pending = [p \in Instances |-> {}]
  /\ running = [p \in Instances |-> {}]
  /\ interrupts = [p \in Instances |-> 0]
  /\ faults = 0

(* A process exists until its pool is done, lock or no lock.               *)
Alive ==
  {p \in Instances : \/ pc[p] \notin {"new", "left", "refused", "killed"}
                     \/ pc[p] = "left" /\ (pending[p] # {} \/ running[p] # {})}

-----------------------------------------------------------------------------
(* Somebody adds or changes a file.  A file that is moved into the         *)
(* directory is not modified: the observer is not told.                    *)
Change(f) ==
  /\ version[f] < MaxChanges
  /\ version' = [version EXCEPT ![f] = @ + 1]
  /\ \E told \in {TRUE} \cup {version[f] > 0} :
       event' = [p \in Instances |-> event[p] \/ (told /\ p \in Inside)]
  /\ UNCHANGED <<lock_vars, seen, should_run, due, runner, pool, interrupts, faults>>

(* The observer's thread: _on_file_change.                                 *)
OnFileChange(p) ==
  /\ p \in Inside /\ event[p]
  /\ event' = [event EXCEPT ![p] = FALSE]
  /\ should_run' = [should_run EXCEPT ![p] = TRUE]
  /\ UNCHANGED <<lock_vars, files, due, runner, pool, interrupts, faults>>

(* checking_frequency minutes have passed since the last check.            *)
Elapse(p) ==
  /\ p \in Inside /\ runner[p] = "sleep" /\ ~due[p]
  /\ due' = [due EXCEPT ![p] = TRUE]
  /\ UNCHANGED <<lock_vars, files, event, should_run, runner, pool, interrupts, faults>>

(* collect_by_extension, and one future for every file.                    *)
ListFiles(p) ==
  /\ p \in Inside /\ runner[p] = "list"
  /\ pending' = [pending EXCEPT ![p] = {f \in Files : version[f] > 0}]
  /\ runner' = [runner EXCEPT ![p] = "execute"]
  /\ UNCHANGED <<lock_vars, files, loop, running, interrupts, faults>>

(* A thread of the pool takes the first future and starts the program.     *)
StartProgram(p) ==
  /\ pc[p] # "killed"
  /\ Cardinality(running[p]) < max_parallelism
  /\ \E f \in pending[p] :
       /\ \A g \in pending[p] : f <= g
       /\ pending' = [pending EXCEPT ![p] = @ \ {f}]
       /\ running' = [running EXCEPT ![p] = @ \cup {f}]
  /\ UNCHANGED <<lock_vars, files, loop, runner, interrupts, faults>>

EndProgram(p, f) ==
  /\ f \in running[p]
  /\ running' = [running EXCEPT ![p] = @ \ {f}]
  /\ seen' = [seen EXCEPT ![f] = version[f]]
  /\ UNCHANGED <<lock_vars, version, loop, runner, pending, interrupts, faults>>

(* It fails, or was interrupted with the watcher: only a line in the log.  *)
FailProgram(p, f) ==
  /\ f \in running[p]
  /\ \/ interrupts[p] > 0 /\ UNCHANGED faults
     \/ interrupts[p] = 0 /\ faults < MaxFaults /\ faults' = faults + 1
  /\ running' = [running EXCEPT ![p] = @ \ {f}]
  /\ UNCHANGED <<lock_vars, files, loop, runner, pending, interrupts>>

(* Every future is done; the rest of _process_all_files.                   *)
Processed(p) ==
  /\ p \in Inside /\ runner[p] = "execute"
  /\ pending[p] = {} /\ running[p] = {}
  /\ should_run' = [should_run EXCEPT ![p] = FALSE]
  /\ due' = [due EXCEPT ![p] = FALSE]
  /\ runner' = [runner EXCEPT ![p] = "sleep"]
  /\ UNCHANGED <<lock_vars, files, event, pool, interrupts, faults>>

(* Mutant: only a reported change starts the next round. *)
WakeUp_OnlyIfTold(p) ==
  /\ p \in Inside /\ runner[p] = "sleep"
  /\ should_run[p]
  /\ runner' = [runner EXCEPT ![p] = "list"]
  /\ UNCHANGED <<lock_vars, files, loop, pool, interrupts, faults>>

(* sleep(SLEEP_DURATION) is over, and there is a reason to go on.          *)
WakeUp(p) ==
  /\ p \in Inside /\ runner[p] = "sleep"
  /\ should_run[p] \/ due[p]
  /\ runner' = [runner EXCEPT ![p] = "list"]
  /\ UNCHANGED <<lock_vars, files, loop, pool, interrupts, faults>>

(* Ctrl-C.  The executor catches the first one that reaches it, and waits  *)
(* for the running programs; anywhere else run() returns at once.          *)
Interrupt(p) ==
  /\ p \in Inside /\ interrupts[p] < 2 /\ runner[p] # "leave"
  /\ interrupts' = [interrupts EXCEPT ![p] = @ + 1]
  /\ runner' = [runner EXCEPT ![p] = IF @ = "execute" THEN "cancel" ELSE "leave"]
  /\ UNCHANGED <<lock_vars, files, loop, pool, faults>>

(* shutdown(wait=True, cancel_futures=True) drops the futures ...          *)
Cancel(p) ==
  /\ p \in Inside /\ runner[p] = "cancel"
  /\ pending' = [pending EXCEPT ![p] = {}]
  /\ runner' = [runner EXCEPT ![p] = "drain"]
  /\ UNCHANGED <<lock_vars, files, loop, running, interrupts, faults>>

(* Mutant: shutdown(wait=False). *)
Drained_NoWait(p) ==
  /\ p \in Inside /\ runner[p] = "drain"
  /\ runner' = [runner EXCEPT ![p] = "leave"]
  /\ UNCHANGED <<lock_vars, files, loop, pool, interrupts, faults>>

(* Mutant: execute returns True. *)
Drained_GoesOn(p) ==
  /\ p \in Inside /\ runner[p] = "drain" /\ running[p] = {}
  /\ runner' = [runner EXCEPT ![p] = "sleep"]
  /\ UNCHANGED <<lock_vars, files, loop, pool, interrupts, faults>>

(* ... and joins the threads; execute returns False, which ends run().     *)
Drained(p) ==
  /\ p \in Inside /\ runner[p] = "drain" /\ running[p] = {}
  /\ runner' = [runner EXCEPT ![p] = "leave"]
  /\ UNCHANGED <<lock_vars, files, loop, pool, interrupts, faults>>

(* The observer and the fields of the runner are gone.                     *)
Forget(p) ==
  /\ event' = [event EXCEPT ![p] = FALSE]
  /\ should_run' = [should_run EXCEPT ![p] = FALSE]
  /\ due' = [due EXCEPT ![p] = FALSE]

(* run() has returned: the observer is stopped and the lock released.  The *)
(* interpreter then waits for the threads of the pool.                     *)
Leave(p) ==
  /\ runner[p] = "leave" /\ Release(p)
  /\ Forget(p)
  /\ UNCHANGED <<files, runner, pool, interrupts, faults>>

EnterOrLeave(p) ==
  /\ LockStep(p, Alive)
  /\ UNCHANGED <<files, loop, runner, pool, interrupts, faults>>

(* The watcher is killed.  The programs it started are not.                *)
Kill(p) ==
  /\ p \in Alive /\ faults < MaxFaults
  /\ faults' = faults + 1
  /\ GoTo(p, "killed")
  /\ Forget(p)
  /\ pending' = [pending EXCEPT ![p] = {}]
  /\ UNCHANGED <<lock, opened, found, raced, files, runner, running, interrupts>>

MainThread(p) ==
  \/ ListFiles(p) \/ Processed(p) \/ WakeUp(p) \/ Cancel(p) \/ Drained(p)
  \/ Leave(p) \/ EnterOrLeave(p)

PoolStep(p) ==
  \/ StartProgram(p)
  \/ \E f \in Files : EndProgram(p, f) \/ FailProgram(p, f)

Finished ==
  /\ \A p \in Instances : pc[p] \in {"left", "refused", "killed"} /\ p \notin Alive
  /\ \A f \in Files : version[f] = MaxChanges
  /\ \A p \in Instances : running[p] = {}
  /\ UNCHANGED vars

Next ==
  \/ \E f \in Files : Change(f)
  \/ \E p \in Instances :
       MainThread(p) \/ PoolStep(p) \/ OnFileChange(p) \/ Elapse(p) \/ Interrupt(p) \/ Kill(p)
  \/ Finished

Spec == Init /\ [][Next]_vars

(* The main thread runs, or time passes while it sleeps; the pool starts   *)
(* programs, and they end.  Nobody has to start an instance, change a      *)
(* file, press Ctrl-C or kill anything, and watchdog is not relied upon.   *)
Fairness ==
  \A p \in Instances :
    /\ WF_vars(pc[p] # "new" /\ (MainThread(p) \/ Elapse(p)))
    /\ WF_vars(PoolStep(p))

FairSpec == Spec /\ Fairness
-----------------------------------------------------------------------------
Abandoned(p) == pc[p] = "killed" \/ interrupts[p] = 2

(* No two programs work on one file, whose database they would share, but  *)
(* for programs left behind by a watcher that was killed or impatiently    *)
(* interrupted, and for watchers that raced each other into the lock.      *)
OneProgramPerFile ==
  raced \/ \A p, q \in Instances : \A f \in running[p] \cap running[q] :
             p = q \/ Abandoned(p) \/ Abandoned(q)

(* A lock file that was left behind keeps nobody out: an instance that is  *)
(* refused is refused by a live one.                                       *)
RefusedByAnother ==
  [][\A p \in Instances : pc[p] # "refused" /\ pc'[p] = "refused"
       => \E q \in Instances \ {p} : q \in Alive]_vars

(* No change of a file stays unseen while a watcher stays: none is lost    *)
(* between the event, should_run and the list of files, or a periodic      *)
(* check makes up for it, and a successful run reads what is there last.   *)
EveryChangeSeen ==
  \A p \in Instances, f \in Files : []<>(p \notin Inside \/ seen[f] = version[f])

(* Ctrl-C ends the watcher, whatever its pool is doing.                    *)
InterruptEnds ==
  \A p \in Instances : (interrupts[p] > 0) ~> (pc[p] \in {"left", "killed"} /\ p \notin Alive)
=============================================================================
