---------------------------- MODULE SingleInstance ----------------------------
(***************************************************************************)
(* The lock file that keeps a second ocs-watcher from starting             *)
(* (ocsw/single_instance.py): a file with the process id of its owner,     *)
(* looked at, created and removed by separate calls of the file system.    *)
(*                                                                         *)
(* An instance is one process, and stands for its process id: ids are not  *)
(* used again.  What an instance does while it is "in" is Watcher.         *)
(***************************************************************************)
EXTENDS Integers

CONSTANTS
  Instances,
  Absent,  \* the lock file does not exist
  Empty    \* it was created and not yet written

ASSUME LockAssumption ==
  Absent \notin Instances /\ Empty \notin Instances /\ Absent # Empty

VARIABLES
  lock,   \* what the lock file holds
  opened, \* the instances whose open file is the one under that name
  pc,     \* where each instance is in SingleInstance
  found,  \* the process id each instance has read, or Absent
  raced   \* history: two instances were on their way in at the same time

lock_vars == <<lock, opened, pc, found, raced>>

LockSteps == {"new", "read", "probe", "create", "write", "in",
              "compare", "unlink", "left", "refused", "killed"}

LockTypeOK ==
  /\ lock \in Instances \cup {Absent, Empty}
  /\ opened \subseteq Instances
  /\ pc \in [Instances -> LockSteps]
  /\ found \in [Instances -> Instances \cup {Absent}]
  /\ raced \in BOOLEAN

LockInit ==
  /\ lock = Absent
  /\ opened = {}
  /\ pc = [p \in Instances |-> "new"]
  /\ found = [p \in Instances |-> Absent]
  /\ raced = FALSE

(* An instance is on its way in from the moment it has looked for the lock *)
(* file until its process id is in it.                                     *)
Entering == {p \in Instances : pc[p] \in {"read", "probe", "create", "write"}}

GoTo(p, step) == pc' = [pc EXCEPT ![p] = step]

(* An instance is started and looks for the file (is_running).             *)
Check(p) ==
  /\ pc[p] = "new"
  /\ GoTo(p, IF lock = Absent THEN "create" ELSE "read")
  /\ UNCHANGED <<lock, opened, found>>

(* A file that is gone or holds no number counts as no lock.               *)
ReadNothing(p) ==
  /\ pc[p] = "read" /\ lock \in {Absent, Empty}
  /\ GoTo(p, "create")
  /\ UNCHANGED <<lock, opened, found>>

ReadPid(p) ==
  /\ pc[p] = "read" /\ lock \in Instances
  /\ found' = [found EXCEPT ![p] = lock]
  /\ GoTo(p, "probe")
  /\ UNCHANGED <<lock, opened>>

(* Mutant: any number in the file is taken for a running instance. *)
Probe_AnyPid(p, alive) ==
  /\ pc[p] = "probe"
  /\ GoTo(p, "refused")
  /\ UNCHANGED <<lock, opened, found>>

(* Mutant: the lock is never respected. *)
Probe_Ignored(p, alive) ==
  /\ pc[p] = "probe"
  /\ GoTo(p, "create")
  /\ UNCHANGED <<lock, opened, found>>

(* psutil.pid_exists, given the processes alive.                           *)
Probe(p, alive) ==
  /\ pc[p] = "probe"
  /\ GoTo(p, IF found[p] \in alive THEN "refused" ELSE "create")
  /\ found' = [found EXCEPT ![p] = Absent]
  /\ UNCHANGED <<lock, opened>>

(* open(path, 'w') creates or truncates the file ...                       *)
Create(p) ==
  /\ pc[p] = "create"
  /\ lock' = Empty
  /\ opened' = opened \cup {p}
  /\ GoTo(p, "write")
  /\ UNCHANGED found

(* ... and the process id is written when it is closed, into a file that   *)
(* may have been unlinked since.                                           *)
Write(p) ==
  /\ pc[p] = "write"
  /\ lock' = IF p \in opened THEN p ELSE lock
  /\ opened' = opened \ {p}
  /\ GoTo(p, "in")
  /\ UNCHANGED found

(* _cleanup removes the file only if it holds the own process id.          *)
Release(p) ==
  /\ pc[p] = "in"
  /\ GoTo(p, "compare")
  /\ UNCHANGED <<lock, opened, found, raced>>

Compare(p) ==
  /\ pc[p] = "compare"
  /\ GoTo(p, IF lock = p THEN "unlink" ELSE "left")
  /\ UNCHANGED <<lock, opened, found>>

Unlink(p) ==
  /\ pc[p] = "unlink"
  /\ lock' = Absent
  /\ opened' = {}
  /\ GoTo(p, "left")
  /\ UNCHANGED found

LockStep(p, alive) ==
  /\ \/ Check(p) \/ ReadNothing(p) \/ ReadPid(p) \/ Probe(p, alive)
     \/ Create(p) \/ Write(p) \/ Compare(p) \/ Unlink(p)
  /\ raced' = (raced \/ \E q, r \in Entering' : q # r)

Inside == {p \in Instances : pc[p] = "in"}

(* Only one instance works at a time (config.py: "doesn't allow running    *)
(* multiple instances of the same application").                           *)
AtMostOneInstance == \A p, q \in Inside : p = q

(* The lock fails in one way: two instances have looked for the file       *)
(* before either has put its id there.  Instances that leave or are killed *)
(* while others enter, and files left behind or half written by them, let  *)
(* nobody in beside another.                                               *)
OnlyEntrantsRace == raced \/ AtMostOneInstance
=============================================================================
