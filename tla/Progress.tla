------------------------------- MODULE Progress -------------------------------
(***************************************************************************)
(* What ocs-recognition leaves in the database of one video, over any      *)
(* number of runs: common/database.cpp, called by the OCR threads through  *)
(* the filter and the result callback of recognition/main.cpp.             *)
(*                                                                         *)
(* Between the decoder and the OCR threads stands value_queue, of which    *)
(* this module keeps what FramePipeline promises: each delivered frame     *)
(* goes to one OCR thread, in the order of delivery, until the queue is    *)
(* shut down; the frames that were published before are still taken, if a  *)
(* thread is left.  A frame counts as published when the main thread gets  *)
(* a buffer for it: whether it comes before a shutdown then makes no       *)
(* difference to the database.  The video may be one that is still being   *)
(* recorded, and a process may be killed or interrupted at any time.       *)
(***************************************************************************)
EXTENDS Integers, Sequences

CONSTANTS
  OcrThreads,
  VideoFrames, \* the numbers of the frames that pass the decoder's filter
  Repeated,    \* numbers that rounding gives to two frames
  Text,        \* frames in which the provider finds text
  MaxFaults,   \* bound on the number of kills, interrupts and failures
  Faulty,      \* whether the provider or SQLite may fail
  Poison       \* frames whose recognition throws in every run

ASSUME FramesAssumption ==
  /\ VideoFrames \subseteq Nat
  /\ Repeated \subseteq VideoFrames /\ Text \subseteq VideoFrames /\ Poison \subseteq VideoFrames
ASSUME BoundsAssumption == MaxFaults \in Nat /\ Faulty \in BOOLEAN

NoFrame == -1

VARIABLES
  last,     \* metadata.last_processed_frame
  stored,   \* how many times the text of each frame was inserted
  recorded, \* frames up to this one are in the video file
  running,  \* a process is working on the video
  start,    \* starting_frame_number of that process
  max_frame_number, \* the static variable of store_last_frame_number
  newest,   \* the number of the last frame delivered, or start - 1
  again,    \* whether that was the second frame with this number
  pending,  \* the frames published and not yet taken
  stopped,  \* the queue was shut down
  pc, frame,\* what each OCR thread does, and on which frame
  faults,
  dropped   \* history: frames a process gave up on after they were taken

disk    == <<last, stored>>
session == <<start, max_frame_number, newest, again>>
queue   == <<pending, stopped>>
threads == <<pc, frame>>
vars == <<disk, recorded, running, session, queue, threads, faults, dropped>>

Steps == {"start", "idle", "filter", "ocr", "last", "store", "dead"}

TypeOK ==
  /\ last \in Nat
  /\ stored \in [VideoFrames -> Nat]
  /\ recorded \in Nat
  /\ running \in BOOLEAN
  /\ start \in Nat
  /\ max_frame_number \in Nat \cup {NoFrame}
  /\ newest \in Nat \cup {NoFrame}
  /\ again \in BOOLEAN
  /\ pending \in Seq(VideoFrames)
  /\ stopped \in BOOLEAN
  /\ pc \in [OcrThreads -> Steps]
  /\ frame \in [OcrThreads -> VideoFrames \cup {NoFrame}]
  /\ faults \in 0 .. MaxFaults
  /\ dropped \subseteq VideoFrames

(* A database that was created just now: the column added by update_v2     *)
(* starts at 0.                                                            *)
Init ==
  /\ last = 0
  /\ stored = [f \in VideoFrames |-> 0]
  /\ recorded = 0
  /\ running = FALSE
  /\ start = 0
  /\ max_frame_number = NoFrame
  /\ newest = NoFrame
  /\ again = FALSE
  /\ pending = <<>>
  /\ stopped = FALSE
  /\ pc = [w \in OcrThreads |-> "start"]
  /\ frame = [w \in OcrThreads |-> NoFrame]
  /\ faults = 0
  /\ dropped = {}

-----------------------------------------------------------------------------
(* Somebody records the video.                                             *)
Record ==
  /\ \E f \in VideoFrames : f > recorded
  /\ recorded' = recorded + 1
  /\ UNCHANGED <<disk, running, session, queue, threads, faults, dropped>>

(* Mutant: one frame too far. *)
Open_SkipsOne ==
  /\ ~running
  /\ running' = TRUE
  /\ start' = last + 2
  /\ newest' = last + 1
  /\ again' = FALSE
  /\ max_frame_number' = NoFrame
  /\ stopped' = FALSE
  /\ pc' = [w \in OcrThreads |-> "start"]
  /\ UNCHANGED <<disk, recorded, pending, frame, faults, dropped>>

(* main(): database::get_starting_frame_number, decoder, OCR threads.      *)
Open ==
  /\ ~running
  /\ running' = TRUE
  /\ start' = last + 1
  /\ newest' = last
  /\ again' = FALSE
  /\ max_frame_number' = NoFrame
  /\ stopped' = FALSE
  /\ pc' = [w \in OcrThreads |-> "start"]
  /\ UNCHANGED <<disk, recorded, pending, frame, faults, dropped>>

(* The frames the decoder may deliver next: the next one in the file that  *)
(* is not before starting_frame_, or one more with the same number.        *)
Deliverable ==
  {f \in VideoFrames : /\ f <= recorded /\ f >= start
                       /\ \/ /\ f > newest
                             /\ \A g \in VideoFrames : g < f => g <= newest \/ g < start
                          \/ f = newest /\ f \in Repeated /\ ~again}

(* video::on_frame publishes it; after a shutdown it stops the decoder.    *)
Deliver ==
  /\ running /\ ~stopped
  /\ \E f \in Deliverable :
       /\ pending' = Append(pending, f)
       /\ newest' = f
       /\ again' = (f = newest)
  /\ UNCHANGED <<disk, recorded, running, start, max_frame_number, stopped, threads, faults, dropped>>

(* The decoder is at the end of what the file holds: video::start.         *)
EndOfFile ==
  /\ running /\ ~stopped /\ Deliverable = {}
  /\ stopped' = TRUE
  /\ UNCHANGED <<disk, recorded, running, session, pending, threads, faults, dropped>>

(* The decoder stops or throws before the end, or a signal arrives.        *)
Interrupt ==
  /\ running /\ ~stopped /\ faults < MaxFaults
  /\ faults' = faults + 1
  /\ stopped' = TRUE
  /\ UNCHANGED <<disk, recorded, running, session, pending, threads, dropped>>

(* The constructor of ocr in an OCR thread, which may throw as well.       *)
Construct(w) ==
  /\ running /\ pc[w] = "start"
  /\ pc' = [pc EXCEPT ![w] = "idle"]
  /\ UNCHANGED <<disk, recorded, running, session, queue, frame, faults, dropped>>

ConstructFails(w) ==
  /\ running /\ pc[w] = "start" /\ Faulty /\ faults < MaxFaults
  /\ faults' = faults + 1
  /\ stopped' = TRUE
  /\ pc' = [pc EXCEPT ![w] = "dead"]
  /\ UNCHANGED <<disk, recorded, running, session, pending, frame, dropped>>

Take(w) ==
  /\ pc[w] = "idle" /\ pending # <<>>
  /\ frame' = [frame EXCEPT ![w] = Head(pending)]
  /\ pending' = Tail(pending)
  /\ pc' = [pc EXCEPT ![w] = "filter"]
  /\ UNCHANGED <<disk, recorded, running, session, stopped, faults, dropped>>

(* The thread is done with its frame and gives the buffer back.            *)
Return(w) ==
  /\ pc' = [pc EXCEPT ![w] = "idle"]
  /\ frame' = [frame EXCEPT ![w] = NoFrame]

(* Mutant: the filter lets through what it should keep back. *)
FilterSkips_Inverted(w) ==
  /\ pc[w] = "filter" /\ stored[frame[w]] = 0
  /\ Return(w)
  /\ UNCHANGED <<disk, recorded, running, session, queue, faults, dropped>>

(* is_frame_processed: frames whose text is in the database are skipped.   *)
FilterSkips(w) ==
  /\ pc[w] = "filter" /\ stored[frame[w]] > 0
  /\ Return(w)
  /\ UNCHANGED <<disk, recorded, running, session, queue, faults, dropped>>

FilterPasses(w) ==
  /\ pc[w] = "filter" /\ stored[frame[w]] = 0
  /\ pc' = [pc EXCEPT ![w] = "ocr"]
  /\ UNCHANGED <<disk, recorded, running, session, queue, frame, faults, dropped>>

(* do_ocr returns a result, whose callback is database::store.             *)
Recognize(w) ==
  /\ pc[w] = "ocr" /\ frame[w] \notin Poison
  /\ pc' = [pc EXCEPT ![w] = "last"]
  /\ UNCHANGED <<disk, recorded, running, session, queue, frame, faults, dropped>>

(* do_ocr returns nullopt: no callback.                                    *)
RecognizeNothing(w) ==
  /\ pc[w] = "ocr" /\ frame[w] \notin Poison /\ Faulty /\ faults < MaxFaults
  /\ faults' = faults + 1
  /\ dropped' = dropped \cup {frame[w]}
  /\ Return(w)
  /\ UNCHANGED <<disk, recorded, running, session, queue>>

(* Mutant: no comparison with the largest number so far. *)
StoreLast_Unguarded(w) ==
  /\ pc[w] = "last"
  /\ last' = frame[w] /\ max_frame_number' = frame[w]
  /\ IF frame[w] \in Text
       THEN pc' = [pc EXCEPT ![w] = "store"] /\ UNCHANGED frame
       ELSE Return(w)
  /\ UNCHANGED <<stored, recorded, running, start, newest, again, queue, faults, dropped>>

(* Mutant: the number is only kept for frames without text. *)
StoreLast_EmptyOnly(w) ==
  /\ pc[w] = "last"
  /\ IF frame[w] > max_frame_number /\ frame[w] \notin Text
       THEN last' = frame[w] /\ max_frame_number' = frame[w]
       ELSE UNCHANGED <<last, max_frame_number>>
  /\ IF frame[w] \in Text
       THEN pc' = [pc EXCEPT ![w] = "store"] /\ UNCHANGED frame
       ELSE Return(w)
  /\ UNCHANGED <<stored, recorded, running, start, newest, again, queue, faults, dropped>>

(* store_last_frame_number under its own lock, committed on its own; store *)
(* returns after it when there is no text.                                 *)
StoreLast(w) ==
  /\ pc[w] = "last"
  /\ IF frame[w] > max_frame_number
       THEN last' = frame[w] /\ max_frame_number' = frame[w]
       ELSE UNCHANGED <<last, max_frame_number>>
  /\ IF frame[w] \in Text
       THEN pc' = [pc EXCEPT ![w] = "store"] /\ UNCHANGED frame
       ELSE Return(w)
  /\ UNCHANGED <<stored, recorded, running, start, newest, again, queue, faults, dropped>>

(* Mutant: no second look under the lock. *)
Store_Blind(w) ==
  /\ pc[w] = "store"
  /\ stored' = [stored EXCEPT ![frame[w]] = @ + 1]
  /\ Return(w)
  /\ UNCHANGED <<last, recorded, running, session, queue, faults, dropped>>

(* The rest of store, under database_mutex_: the second look at            *)
(* is_frame_processed and one transaction.                                 *)
Store(w) ==
  /\ pc[w] = "store"
  /\ stored' = IF stored[frame[w]] = 0 THEN [stored EXCEPT ![frame[w]] = @ + 1] ELSE stored
  /\ Return(w)
  /\ UNCHANGED <<last, recorded, running, session, queue, faults, dropped>>

(* The consumer function catches an exception, whose frame is lost with    *)
(* its buffer, and shuts the queue down before its thread ends.            *)
Die(w) ==
  /\ dropped' = dropped \cup {frame[w]}
  /\ stopped' = TRUE
  /\ pc' = [pc EXCEPT ![w] = "dead"]
  /\ frame' = [frame EXCEPT ![w] = NoFrame]
  /\ UNCHANGED <<disk, recorded, running, session, pending>>

(* The provider throws for this frame whenever it meets it.                *)
FailAlways(w) ==
  /\ pc[w] = "ocr" /\ frame[w] \in Poison
  /\ Die(w)
  /\ UNCHANGED faults

(* A bitmap, SQLite or OCR fails; a transaction is rolled back.            *)
Fail(w) ==
  /\ frame[w] # NoFrame /\ Faulty /\ faults < MaxFaults
  /\ faults' = faults + 1
  /\ Die(w)

(* main() has joined the OCR threads, which leave once the queue is shut   *)
(* down and empty; if all of them threw, what is pending is left.          *)
Close ==
  /\ running /\ stopped
  /\ \A w \in OcrThreads : pc[w] \in {"idle", "dead"}
  /\ pending = <<>> \/ \A w \in OcrThreads : pc[w] = "dead"
  /\ running' = FALSE
  /\ pending' = <<>>
  /\ UNCHANGED <<disk, recorded, session, stopped, threads, faults, dropped>>

(* The process is killed: only the database survives.                      *)
Crash ==
  /\ running /\ faults < MaxFaults
  /\ running' = FALSE
  /\ faults' = faults + 1
  /\ dropped' = dropped \cup {f \in VideoFrames : \E w \in OcrThreads : frame[w] = f}
  /\ pending' = <<>>
  /\ pc' = [w \in OcrThreads |-> "dead"]
  /\ frame' = [w \in OcrThreads |-> NoFrame]
  /\ UNCHANGED <<disk, recorded, session, stopped>>

MainThread == Deliver \/ EndOfFile \/ Close

ThreadStep(w) ==
  \/ Construct(w) \/ ConstructFails(w)
  \/ Take(w) \/ FilterSkips(w) \/ FilterPasses(w)
  \/ Recognize(w) \/ RecognizeNothing(w) \/ StoreLast(w) \/ Store(w)
  \/ Fail(w) \/ FailAlways(w)

Next ==
  \/ Record \/ Open \/ MainThread \/ Interrupt \/ Crash
  \/ \E w \in OcrThreads : ThreadStep(w)

Spec == Init /\ [][Next]_vars

(* The watcher starts the program again and again, and its threads run.    *)
(* Nobody has to record, interrupt or kill anything, and nothing has to    *)
(* fail; which thread gets how far before a shutdown is left open.         *)
Fairness ==
  /\ WF_vars(Open) /\ WF_vars(MainThread)
  /\ \A w \in OcrThreads : WF_vars(ThreadStep(w))

FairSpec == Spec /\ Fairness
-----------------------------------------------------------------------------
(* The text of a frame is inserted once, however often its number comes    *)
(* up: in two threads at a time, or again in a later run.                  *)
StoredOnce == \A f \in VideoFrames : stored[f] <= 1

(* The frame a run resumes after never goes back, although OCR threads     *)
(* finish out of order and the guard against it does not survive a run.    *)
LastNeverDecreases == [][last' >= last]_vars

(* No run decodes a frame whose text is stored: it resumes after it.       *)
StoredIsBehind == \A f \in VideoFrames : stored[f] > 0 => f <= last

InHand(f) == \E w \in OcrThreads : frame[w] = f

(* Every frame with text that a later run would not look at again is       *)
(* stored, or some OCR thread has it, or a process dropped it half way.    *)
(* Frame 0 is never looked at.                                             *)
NothingSkipped ==
  \A f \in Text : f \in 1 .. last => stored[f] > 0 \/ InHand(f) \/ f \in dropped

(* A run that resumes after last has to get past this frame to get to f,   *)
(* and ends when it meets it.                                              *)
InTheWay(g, f) == g \in Poison /\ last < g /\ g < f

(* Running the program again and again stores the text of every frame of   *)
(* a growing video except what a process gave up on half way, and what     *)
(* comes after a frame that ends every run, until some run has stored the  *)
(* number of a later frame.                                                *)
UpToDateOrDropped ==
  \A f \in Text \ {0} :
    (recorded >= f /\ \A g \in Poison : ~InTheWay(g, f)) ~> (stored[f] > 0 \/ f \in dropped)

IsPending(f) == \E i \in DOMAIN pending : pending[i] = f

(* Where a run stands.  These four make the others inductive.              *)
HandsInRange ==
  \A w \in OcrThreads :
    /\ frame[w] = NoFrame <=> pc[w] \in {"start", "idle", "dead"}
    /\ frame[w] # NoFrame => running /\ frame[w] \in start .. newest
    /\ pc[w] = "store" => frame[w] <= last

(* What is pending is in order, and behind what is in hand.                *)
PendingInOrder ==
  /\ ~running => pending = <<>>
  /\ \A i \in DOMAIN pending :
       /\ pending[i] \in start .. newest
       /\ \A j \in DOMAIN pending : j < i => pending[j] <= pending[i]
       /\ \A w \in OcrThreads : frame[w] <= pending[i]

(* The number on disk follows the largest one this process has seen.       *)
NumbersAgree ==
  running => /\ start >= 1 /\ start - 1 <= last /\ last <= newest
             /\ last = IF max_frame_number = NoFrame THEN start - 1 ELSE max_frame_number

AllSeen ==
  running => \A f \in Text : f \in 1 .. newest =>
               stored[f] > 0 \/ InHand(f) \/ f \in dropped \/ IsPending(f)

RunState == HandsInRange /\ PendingInOrder /\ NumbersAgree /\ AllSeen
=============================================================================
