------------------------------ MODULE Reporting ------------------------------
(***************************************************************************)
(* How the progress of ocs-recognition reaches the user of ocs-watcher:    *)
(* the speed meter (recognition/speed_meter.cpp) and the spinner that its  *)
(* threads share, the two pipes to the watcher, and the thread that reads  *)
(* them while _run_one waits for the process (executor.py).                *)
(*                                                                         *)
(* The queue between decoder and OCR threads is a sequence without a limit *)
(* here; its own behaviour, and its own ways to hang, are in ValueQueue.   *)
(* A line is a record.  Whatever the spinner prints is complete for a      *)
(* reader of lines only when something follows.  A message of the log goes *)
(* to stdout as well and in fact ends the line the spinner has begun; it   *)
(* is a line of its own here.                                              *)
(***************************************************************************)
EXTENDS Integers, SequencesExt

CONSTANTS
  Consumers,
  StartingFrame, LastFrame,  \* the first frame of the run, and the last one of the file
  FrameCounts,               \* what the file may say its number of frames is; 0 if nothing
  MaxWarnings,               \* bound on what FFmpeg writes to stderr
  Capacity                   \* of a pipe, in lines

ASSUME ReportingAssumption ==
  /\ StartingFrame \in Nat /\ LastFrame \in Nat /\ FrameCounts \subseteq Nat
  /\ MaxWarnings \in Nat /\ Capacity \in Nat \ {0}

VARIABLES
  max_frames,
  decoder,     \* what main() of ocs-recognition does
  next_frame, pending, hand,
  stopping,
  shut,        \* the queue was shut down
  meter,       \* frames_processed_, last_frame_number_, last_print_frame_number_
  postfix,     \* the text of the spinner
  written,     \* the lines of each stream
  success,
  read, done,  \* how many lines the monitor's buffers took, and handled
  monitor, rlist, failed,
  bar,         \* what the task's progress bar shows
  runner,
  counted      \* history: the frames of add_ocr_frame, of both, and what reports said

child == <<decoder, next_frame, pending, hand, stopping, shut, success>>
pipes == <<written, read, done>>
watcher == <<monitor, rlist, failed, bar, runner>>
vars == <<max_frames, child, meter, postfix, pipes, watcher, counted>>

Streams == {"stdout", "stderr"}
Idle == [step |-> "take", frame |-> 0]
Failing == [step |-> "catch", frame |-> 0]
Starting == [starting |-> "threads", threads |-> "opening", opening |-> "decoding"]

Init ==
  /\ max_frames \in FrameCounts
  /\ decoder = "starting" /\ next_frame = StartingFrame /\ pending = <<>>
  /\ hand = [c \in Consumers |-> Idle]
  /\ stopping = FALSE /\ shut = FALSE /\ success = FALSE
  /\ meter = [processed |-> 0, last |-> 0, last_print |-> StartingFrame]
  /\ postfix = [kind |-> "starting", last |-> 0]
  /\ written = [s \in Streams |-> <<>>]
  /\ read = [s \in Streams |-> 0] /\ done = [s \in Streams |-> 0]
  /\ monitor = "poll" /\ rlist = <<>> /\ failed = FALSE
  /\ bar = 0 /\ runner = "wait"
  /\ counted = [ocr |-> 0, frames |-> {}, reported |-> 0, seeked |-> 0]

Alive == decoder # "exited"
-----------------------------------------------------------------------------
(* A write waits for room in the pipe.  Where the monitor has closed its   *)
(* end the process is ended by SIGPIPE.                                    *)
Write(s, line) ==
  /\ monitor # "done" /\ Len(written[s]) - read[s] < Capacity
  /\ written' = [written EXCEPT ![s] = Append(@, line)]

BrokenPipe(s) ==
  /\ Alive /\ monitor = "done"
  /\ \/ s = "stderr" /\ decoder = "warning"
     \/ s = "stdout" /\ \E c \in Consumers : hand[c].step \in {"add", "print", "catch"}
     \/ s = "stdout" /\ decoder = "closed" /\ \A c \in Consumers : hand[c].step = "left"
  /\ decoder' = "exited"
  /\ UNCHANGED <<max_frames, next_frame, pending, hand, stopping, shut, success, meter, postfix, pipes, watcher, counted>>

(* spinner.print_progress: the percentage is there if the number of frames *)
(* is known.                                                               *)
Line(frame) ==
  [percent |-> IF max_frames = 0 THEN -1 ELSE (frame * 100) \div max_frames, text |-> postfix, complete |-> FALSE]

(* What spdlog writes.                                                     *)
LogLine == [percent |-> -1, text |-> [kind |-> "log", last |-> 0], complete |-> TRUE]

(* A message before the threads are made, and two before the decoder runs. *)
StartDecoder ==
  /\ decoder \in DOMAIN Starting
  /\ Write("stdout", [Line(0) EXCEPT !.text.kind = "starting"])
  /\ postfix' = [kind |-> "starting", last |-> 0]
  /\ decoder' = Starting[decoder]
  /\ UNCHANGED <<max_frames, next_frame, pending, hand, stopping, shut, success, meter, read, done, watcher, counted>>

Decode ==
  /\ decoder = "decoding" /\ ~ shut /\ next_frame <= LastFrame
  /\ pending' = Append(pending, next_frame)
  /\ next_frame' = next_frame + 1
  /\ UNCHANGED <<max_frames, decoder, hand, stopping, shut, success, meter, postfix, pipes, watcher, counted>>

(* The log of FFmpeg, which may quote bytes that are no valid text.        *)
Complain ==
  /\ decoder = "decoding" /\ Len(written["stderr"]) < MaxWarnings
  /\ decoder' = "warning"
  /\ UNCHANGED <<max_frames, next_frame, pending, hand, stopping, shut, success, meter, postfix, pipes, watcher, counted>>

Warn ==
  /\ decoder = "warning"
  /\ \E valid \in BOOLEAN : Write("stderr", [valid |-> valid, complete |-> TRUE])
  /\ decoder' = "decoding"
  /\ UNCHANGED <<max_frames, next_frame, pending, hand, stopping, shut, success, meter, postfix, read, done, watcher, counted>>

(* video::start shuts the queue down where nobody has done so.             *)
EndOfFile ==
  /\ decoder = "decoding" /\ (shut \/ next_frame > LastFrame)
  /\ decoder' = "closed" /\ shut' = TRUE
  /\ UNCHANGED <<max_frames, next_frame, pending, hand, stopping, success, meter, postfix, pipes, watcher, counted>>

(* SIGINT, which reaches the whole process group.                          *)
Signal ==
  /\ Alive /\ ~ stopping
  /\ stopping' = TRUE /\ shut' = TRUE
  /\ postfix' = [kind |-> "stopping", last |-> 0]
  /\ UNCHANGED <<max_frames, decoder, next_frame, pending, hand, success, meter, pipes, watcher, counted>>

Take(c) ==
  /\ Alive /\ hand[c].step = "take" /\ pending # <<>>
  /\ hand' = [hand EXCEPT ![c] = [step |-> "add", frame |-> Head(pending)]]
  /\ pending' = Tail(pending)
  /\ UNCHANGED <<max_frames, decoder, next_frame, stopping, shut, success, meter, postfix, pipes, watcher, counted>>

(* Mutant: the number of frames is not reset. *)
CheckProgress_KeepsCount(m, ct) ==
  {[meter |-> m, postfix |-> postfix, counted |-> ct],
   [meter |-> [m EXCEPT !.last_print = m.last],
    postfix |-> [kind |-> "report", last |-> m.last],
    counted |-> [ct EXCEPT !.reported = @ + m.processed, !.seeked = @ + Max({m.last - m.last_print, 0})]]}

(* check_progress, and progress_callback if five seconds have passed.      *)
CheckProgress(m, ct) ==
  {[meter |-> m, postfix |-> postfix, counted |-> ct],
   [meter |-> [processed |-> 0, last |-> m.last, last_print |-> m.last],
    postfix |-> [kind |-> "report", last |-> m.last],
    counted |-> [ct EXCEPT !.reported = @ + m.processed, !.seeked = @ + Max({m.last - m.last_print, 0})]]}

Meter(m, ct) ==
  \E checked \in CheckProgress(m, ct) :
    meter' = checked.meter /\ postfix' = checked.postfix /\ counted' = checked.counted

AddOcrFrame(num) ==
  Meter([meter EXCEPT !.last = Max({@, num}), !.processed = @ + 1],
        [counted EXCEPT !.ocr = @ + 1, !.frames = @ \cup {num}])

AddSkippedFrame(num) ==
  Meter([meter EXCEPT !.last = Max({@, num})], [counted EXCEPT !.frames = @ \cup {num}])

(* The frame is recognised, or was before: its number goes to the meter.   *)
Count(c) ==
  /\ Alive /\ hand[c].step = "add"
  /\ AddOcrFrame(hand[c].frame) \/ AddSkippedFrame(hand[c].frame)
  /\ hand' = [hand EXCEPT ![c].step = "print"]
  /\ UNCHANGED <<max_frames, decoder, next_frame, pending, stopping, shut, success, pipes, watcher>>

(* The provider has no result, and logs why.                               *)
RecognizeNothing(c) ==
  /\ Alive /\ hand[c].step = "add"
  /\ Write("stdout", LogLine)
  /\ hand' = [hand EXCEPT ![c] = Idle]
  /\ UNCHANGED <<max_frames, decoder, next_frame, pending, stopping, shut, success, meter, postfix, read, done, watcher, counted>>

(* spinner.set_progress; meanwhile other threads may have overtaken.  Then *)
(* the result goes to the database, which may fail.                        *)
SetProgress(c) ==
  /\ Alive /\ hand[c].step = "print"
  /\ Write("stdout", Line(hand[c].frame))
  /\ \E stored \in BOOLEAN :
       hand' = [hand EXCEPT ![c] = IF stored THEN Idle ELSE Failing]
  /\ UNCHANGED <<max_frames, decoder, next_frame, pending, stopping, shut, success, meter, postfix, read, done, watcher, counted>>

(* An exception before the frame is counted.                               *)
Throw(c) ==
  /\ Alive /\ hand[c].step = "add"
  /\ hand' = [hand EXCEPT ![c] = Failing]
  /\ UNCHANGED <<max_frames, decoder, next_frame, pending, stopping, shut, success, meter, postfix, pipes, watcher, counted>>

(* The catch clause of the consumer function.                              *)
ConsumerFails(c) ==
  /\ Alive /\ hand[c].step = "catch"
  /\ Write("stdout", LogLine)
  /\ shut' = TRUE
  /\ hand' = [hand EXCEPT ![c].step = "left"]
  /\ UNCHANGED <<max_frames, decoder, next_frame, pending, stopping, success, meter, postfix, read, done, watcher, counted>>

LeaveConsumer(c) ==
  /\ Alive /\ shut /\ hand[c].step = "take" /\ pending = <<>>
  /\ hand' = [hand EXCEPT ![c].step = "left"]
  /\ UNCHANGED <<max_frames, decoder, next_frame, pending, stopping, shut, success, meter, postfix, pipes, watcher, counted>>

(* The threads are joined; the last message ends with a line feed.         *)
Exit ==
  /\ decoder = "closed" /\ \A c \in Consumers : hand[c].step = "left"
  /\ Write("stdout", [percent |-> -1, text |-> [kind |-> "final", last |-> 0], complete |-> TRUE])
  /\ decoder' = "exited" /\ success' = ~ stopping
  /\ UNCHANGED <<max_frames, next_frame, pending, hand, stopping, shut, meter, postfix, read, done, watcher, counted>>
-----------------------------------------------------------------------------
(* _process_stdout: two digits of a percentage, and none means 0, so that  *)
(* a report at 100% takes the bar back.                                    *)
ProcessStdout(shown, line) ==
  IF line.percent \in 0 .. 99 /\ line.text.kind \in {"report", "starting", "stopping"} THEN line.percent
  ELSE IF line.text.kind = "report" THEN 0
  ELSE shown

ProcessLines(shown, lines) == FoldLeft(ProcessStdout, shown, lines)

Ready ==
  LET listed(s) == IF read[s] < Len(written[s]) THEN <<s>> ELSE <<>>
  IN  listed("stdout") \o listed("stderr")

(* Mutant: stderr is left until the program has ended. *)
Poll_StdoutOnly ==
  /\ monitor = "poll"
  /\ IF Alive THEN Ready # <<>> /\ monitor' = "read" /\ rlist' = SelectSeq(Ready, LAMBDA s : s = "stdout")
     ELSE monitor' = "flush_stdout" /\ UNCHANGED rlist
  /\ UNCHANGED <<max_frames, child, meter, postfix, pipes, failed, bar, runner, counted>>

(* process.poll and select, which sees what is in the pipes but not what   *)
(* the monitor's own buffers hold, and returns empty lists in between.     *)
Poll ==
  /\ monitor = "poll"
  /\ IF Alive THEN Ready # <<>> /\ monitor' = "read" /\ rlist' = Ready
     ELSE monitor' = "flush_stdout" /\ UNCHANGED rlist
  /\ UNCHANGED <<max_frames, child, meter, postfix, pipes, failed, bar, runner, counted>>

(* The next line of a stream is known to be complete: it ends by itself or *)
(* something of the next one was read.                                     *)
Complete(s) ==
  /\ done[s] < read[s]
  /\ done[s] + 1 < read[s] \/ written[s][done[s] + 1].complete

Handle(s, upto) ==
  /\ done' = [done EXCEPT ![s] = upto]
  /\ bar' = IF s = "stdout" THEN ProcessLines(bar, SubSeq(written[s], done[s] + 1, upto)) ELSE bar

(* readline returns what is complete; at the end of the stream the rest,   *)
(* or nothing.                                                             *)
ReadLine ==
  /\ monitor = "read" /\ rlist # <<>>
  /\ LET s == Head(rlist) IN
     \/ Complete(s) /\ Handle(s, done[s] + 1)
     \/ /\ ~ Complete(s) /\ ~ Alive /\ read[s] = Len(written[s])
        /\ Handle(s, read[s])
  /\ rlist' = Tail(rlist)
  /\ UNCHANGED <<max_frames, child, meter, postfix, written, read, monitor, failed, runner, counted>>

Valid(s, upto) == s = "stderr" => \A i \in read[s] + 1 .. upto : written[s][i].valid

(* ... and reads some of what the pipe holds while it is not; text that    *)
(* cannot be decoded ends the monitor.                                     *)
ReadChunk ==
  /\ monitor = "read" /\ rlist # <<>>
  /\ LET s == Head(rlist) IN
     /\ ~ Complete(s)
     /\ \E upto \in read[s] + 1 .. Len(written[s]) :
          /\ read' = [read EXCEPT ![s] = upto]
          /\ IF Valid(s, upto) THEN UNCHANGED <<monitor, failed>> ELSE monitor' = "close" /\ failed' = TRUE
  /\ UNCHANGED <<max_frames, child, meter, postfix, written, done, rlist, bar, runner, counted>>

EndOfList ==
  /\ monitor = "read" /\ rlist = <<>>
  /\ monitor' = "poll"
  /\ UNCHANGED <<max_frames, child, meter, postfix, pipes, rlist, failed, bar, runner, counted>>

(* Mutant: stderr is closed as it is. *)
FlushRemainingOutput_StdoutOnly(s) ==
  /\ monitor = "flush_stdout" /\ s = "stdout"
  /\ read' = [read EXCEPT ![s] = Len(written[s])]
  /\ Handle(s, Len(written[s]))
  /\ monitor' = "close"
  /\ UNCHANGED <<max_frames, child, meter, postfix, written, rlist, failed, runner, counted>>

FlushRemainingOutput(s) ==
  /\ monitor = IF s = "stdout" THEN "flush_stdout" ELSE "flush_stderr"
  /\ read' = [read EXCEPT ![s] = Len(written[s])]
  /\ IF Valid(s, Len(written[s]))
       THEN /\ Handle(s, Len(written[s])) /\ UNCHANGED failed
            /\ monitor' = IF s = "stdout" THEN "flush_stderr" ELSE "close"
       ELSE failed' = TRUE /\ monitor' = "close" /\ UNCHANGED <<done, bar>>
  /\ UNCHANGED <<max_frames, child, meter, postfix, written, rlist, runner, counted>>

CloseStreams ==
  /\ monitor = "close"
  /\ monitor' = "done"
  /\ UNCHANGED <<max_frames, child, meter, postfix, pipes, rlist, failed, bar, runner, counted>>

(* _run_one: the process is waited for, and then the monitor.              *)
WaitProcess ==
  /\ runner = "wait" /\ ~ Alive
  /\ runner' = "join"
  /\ UNCHANGED <<max_frames, child, meter, postfix, pipes, monitor, rlist, failed, bar, counted>>

JoinMonitor ==
  /\ runner = "join" /\ monitor = "done"
  /\ runner' = IF success THEN "succeeded" ELSE "failed"
  /\ UNCHANGED <<max_frames, child, meter, postfix, pipes, monitor, rlist, failed, bar, counted>>

(* The monitor waits for the rest of a line that nobody will write: the    *)
(* one thread that has something to do waits for room on the other pipe.   *)
Stuck ==
  /\ monitor = "read" /\ rlist # <<>> /\ Head(rlist) = "stdout"
  /\ ~ Complete("stdout") /\ read["stdout"] = Len(written["stdout"])
  /\ decoder = "warning" /\ Len(written["stderr"]) - read["stderr"] = Capacity
  /\ pending = <<>> /\ \A c \in Consumers : hand[c].step \in {"take", "left"}

Stopped == (runner \in {"succeeded", "failed"} \/ Stuck) /\ UNCHANGED vars

ConsumerStep(c) ==
  Take(c) \/ Count(c) \/ RecognizeNothing(c) \/ SetProgress(c) \/ Throw(c) \/ ConsumerFails(c) \/ LeaveConsumer(c)
MainStep == StartDecoder \/ Decode \/ Warn \/ EndOfFile \/ Exit \/ \E s \in Streams : BrokenPipe(s)
MonitorStep ==
  Poll \/ ReadLine \/ ReadChunk \/ EndOfList \/ (\E s \in Streams : FlushRemainingOutput(s)) \/ CloseStreams
RunnerStep == WaitProcess \/ JoinMonitor

Next ==
  \/ MainStep \/ Complain \/ Signal \/ MonitorStep \/ RunnerStep
  \/ \E c \in Consumers : ConsumerStep(c)
  \/ Stopped

Spec == Init /\ [][Next]_vars

(* Threads run; nobody has to send a signal, and FFmpeg may have nothing   *)
(* to say.                                                                 *)
Fairness ==
  /\ WF_vars(MainStep) /\ WF_vars(MonitorStep) /\ WF_vars(RunnerStep)
  /\ \A c \in Consumers : WF_vars(ConsumerStep(c))

FairSpec == Spec /\ Fairness
-----------------------------------------------------------------------------
(* Whichever threads finish their frames in which order, and whenever a    *)
(* report is due between them: each frame is counted by one report, the    *)
(* distances reported add up to the way from the resume point, and what is *)
(* reported last is the highest frame that was finished.                   *)
MeterIsExact ==
  /\ counted.reported + meter.processed = counted.ocr
  /\ counted.seeked = meter.last_print - StartingFrame
  /\ meter.last = Max({0} \cup counted.frames)
  /\ postfix.kind = "report" => postfix.last = meter.last_print

(* When a run is over every line of both streams was handled, also what    *)
(* was left in buffers and pipes when the process ended, and the bar is    *)
(* where the lines as they were written put it.                            *)
EverythingShown ==
  runner \in {"succeeded", "failed"} /\ ~ failed =>
    /\ \A s \in Streams : done[s] = Len(written[s])
    /\ bar = ProcessLines(0, written["stdout"])

(* A run comes to its end, with a monitor that fails as well, but for one  *)
(* way to hang: more than a pipe full of messages of FFmpeg between two    *)
(* lines of the spinner.  The sleep in which a thread of the program may   *)
(* miss its wakeup is a matter of the queue's lock and is in ValueQueue.   *)
EndsOrStuck == <>(runner \in {"succeeded", "failed"} \/ Stuck)
=============================================================================
