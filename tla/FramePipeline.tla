---------------------------- MODULE FramePipeline ----------------------------
(***************************************************************************)
(* What value_queue promises to the two sides of ocs-recognition, without  *)
(* buffers, mutexes or condition variables: frames are handed out once, in *)
(* the order they were published; once a stop is requested the consumers   *)
(* still get what is pending, and are turned away only after a moment at   *)
(* which nothing was.                                                      *)
(***************************************************************************)
EXTENDS Integers, Sequences

CONSTANTS Consumers, NumFrames

Idle == 0

VARIABLES
  pending,    \* published frames that nobody has taken, oldest first
  busy,       \* the frame each consumer works on, or Idle
  produced,   \* frames 1 .. produced were published
  recognized,
  abandoned,
  stopping,   \* a stop was requested
  closed      \* consumers are turned away

pvars == <<pending, busy, produced, recognized, abandoned, stopping, closed>>

PInit ==
  /\ pending = <<>>
  /\ busy = [c \in Consumers |-> Idle]
  /\ produced = 0
  /\ recognized = {}
  /\ abandoned = {}
  /\ stopping = FALSE
  /\ closed = FALSE

PPublish ==
  /\ produced < NumFrames
  /\ produced' = produced + 1
  /\ pending' = Append(pending, produced + 1)
  /\ UNCHANGED <<busy, recognized, abandoned, stopping, closed>>

PTake(c) ==
  /\ busy[c] = Idle /\ pending # <<>> /\ ~closed
  /\ busy' = [busy EXCEPT ![c] = Head(pending)]
  /\ pending' = Tail(pending)
  /\ UNCHANGED <<produced, recognized, abandoned, stopping, closed>>

PFinish(c) ==
  /\ busy[c] # Idle
  /\ recognized' = recognized \cup {busy[c]}
  /\ busy' = [busy EXCEPT ![c] = Idle]
  /\ UNCHANGED <<pending, produced, abandoned, stopping, closed>>

PAbandon(c) ==
  /\ busy[c] # Idle
  /\ abandoned' = abandoned \cup {busy[c]}
  /\ busy' = [busy EXCEPT ![c] = Idle]
  /\ UNCHANGED <<pending, produced, recognized, stopping, closed>>

PStop ==
  /\ stopping' = TRUE
  /\ UNCHANGED <<pending, busy, produced, recognized, abandoned, closed>>

PClose ==
  /\ stopping /\ pending = <<>>
  /\ closed' = TRUE
  /\ UNCHANGED <<pending, busy, produced, recognized, abandoned, stopping>>

PNext ==
  \/ PPublish \/ PStop \/ PClose
  \/ \E c \in Consumers : PTake(c) \/ PFinish(c) \/ PAbandon(c)

PSpec == PInit /\ [][PNext]_pvars
=============================================================================
