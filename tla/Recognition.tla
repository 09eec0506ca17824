----------------------------- MODULE Recognition -----------------------------
(***************************************************************************)
(* ocs-recognition as a process (recognition/main.cpp): the threads of     *)
(* ValueQueue with what main() keeps about them, the joins at its end and  *)
(* its exit code.  Every step of ValueQueue is a step here; the variables  *)
(* below record which catch clause or handler a thread runs on its way     *)
(* through shutdown().                                                     *)
(***************************************************************************)
EXTENDS ValueQueue

VARIABLES
  thrown,     \* the workers whose try block was left by an exception
  done,       \* set when video::start returned
  stopping,   \* set by the signal handler
  final_text, \* what the spinner shows in the end
  phase,      \* how far main() is: running, joined, stopped, exited
  exit_code

outcome == <<thrown, done, stopping, final_text, phase, exit_code>>
rvars == <<vars, outcome>>

RTypeOK ==
  /\ thrown \subseteq Workers
  /\ done \in BOOLEAN
  /\ stopping \in BOOLEAN
  /\ final_text \in {"Done!", "Interrupted!", "Error!"}
  /\ phase \in {"running", "joined", "stopped", "exited"}
  /\ exit_code \in {"none", "success", "failure"}

RInit ==
  /\ Init
  /\ thrown = {}
  /\ done = FALSE
  /\ stopping = FALSE
  /\ final_text = "Done!"
  /\ phase = "running"
  /\ exit_code = "none"

(* A worker's try block is left by an exception.                           *)
Throw(t) ==
  /\ \/ t = Main /\ (DecodeFails \/ FillFails)
     \/ t \in Consumers /\ (ConstructFails(t) \/ WorkFails(t))
  /\ thrown' = thrown \cup {t}
  /\ UNCHANGED <<done, stopping, final_text, phase, exit_code>>

(* The last step of shutdown(): a catch clause goes on to set final_text,  *)
(* and video::start returns to main.                                       *)
LeaveShutdown(t) ==
  /\ WakeConsumers(t)
  /\ final_text' = IF t \in thrown THEN "Error!" ELSE final_text
  /\ done' = (done \/ (t = Main /\ t \notin thrown))
  /\ UNCHANGED <<thrown, stopping, phase, exit_code>>

(* Mutant: the handler only shuts the queue down. *)
HandleSignal_Unrecorded ==
  /\ phase \in {"running", "joined"}
  /\ Interrupt
  /\ UNCHANGED outcome

(* The signal handler runs, at most once, while the io_context runs.       *)
HandleSignal ==
  /\ phase \in {"running", "joined"}
  /\ Interrupt
  /\ final_text' = "Interrupted!"
  /\ stopping' = TRUE
  /\ UNCHANGED <<thrown, done, phase, exit_code>>

(* The steps of ValueQueue that main() keeps no record of.                 *)
QueueStep ==
  /\ \/ DecodeFrame \/ DecodeEnds
     \/ FetchStopped \/ FetchAvailable \/ FetchEmpty \/ FetchPop \/ FetchBlock
     \/ Fill \/ Publish \/ Announce
     \/ \E c \in Consumers :
          \/ Construct(c) \/ TakeStopped(c) \/ TakeValue(c) \/ TakeBlock(c)
          \/ Work(c) \/ GiveBack(c) \/ Settle(c) \/ Recycle(c) \/ Flush(c)
     \/ \E t \in Threads : CloseProducer(t) \/ WakeProducer(t) \/ CloseConsumers(t)
     \/ \E t \in Workers : SpuriousWake(t)
  /\ UNCHANGED outcome

(* main() is past its try block and joins the OCR threads.                 *)
JoinConsumers ==
  /\ phase = "running" /\ \A t \in Workers : pc[t] = "done"
  /\ phase' = "joined"
  /\ UNCHANGED <<vars, thrown, done, stopping, final_text, exit_code>>

(* ctx.stop(): a handler that has not started will not run any more.       *)
StopSignals ==
  /\ phase = "joined"
  /\ phase' = "stopped"
  /\ UNCHANGED <<vars, thrown, done, stopping, final_text, exit_code>>

(* signal_thread.join(), and the exit code.                                *)
Exit ==
  /\ phase = "stopped" /\ pc[Signal] \in {"armed", "done"}
  /\ phase' = "exited"
  /\ exit_code' = IF done /\ ~stopping THEN "success" ELSE "failure"
  /\ UNCHANGED <<vars, thrown, done, stopping, final_text>>

RFinished == phase = "exited" /\ UNCHANGED rvars

RNext ==
  \/ QueueStep \/ HandleSignal
  \/ \E t \in Workers : Throw(t)
  \/ \E t \in Threads : LeaveShutdown(t)
  \/ JoinConsumers \/ StopSignals \/ Exit \/ RFinished

RSpec == RInit /\ [][RNext]_rvars

(* As in ValueQueue, and main() itself goes on after its try block.        *)
RFairness ==
  /\ Fairness
  /\ \A t \in Threads : WF_rvars(LeaveShutdown(t))
  /\ WF_rvars(JoinConsumers) /\ WF_rvars(StopSignals) /\ WF_rvars(Exit)

RFairSpec == RSpec /\ RFairness
-----------------------------------------------------------------------------
Complete == recognized = 1 .. decoded

(* When the process ends with "Done!" it ends with success, and every      *)
(* frame the decoder delivered was recognised: no order of signals,        *)
(* shutdowns and late frames drops one unnoticed.                          *)
DoneIsTruthful ==
  phase = "exited" /\ final_text = "Done!" => exit_code = "success" /\ Complete

(* The same of the exit code, which is what the watcher goes by: after     *)
(* success every frame that was delivered was recognised.                  *)
SuccessIsTruthful == phase = "exited" /\ exit_code = "success" => Complete

(* Each frame that is handed over is eventually recognised, unless it is   *)
(* the one whose processing threw, or the process is told to stop early.   *)
EveryFrameRecognized ==
  []<>(1 .. published \subseteq recognized \cup abandoned \/ stopping \/ thrown # {})

(* Whatever calls shutdown() ends the process: the end of the video, an    *)
(* exception of any worker, or a signal, in any order and more than once.  *)
(* Every thread leaves its loop, and main() comes to the end of its joins. *)
StopExits == (stop_producer \/ stopping \/ thrown # {}) ~> (phase = "exited")
=============================================================================
