----------------------------- MODULE ValueQueue -----------------------------
(***************************************************************************)
(* ocs::common::value_queue (include/ocs/common/value_queue.h) with the    *)
(* threads of ocs-recognition that use it: the main thread, which decodes  *)
(* the video and fills buffers (video.cpp, main.cpp), the OCR threads,     *)
(* which recognise the text of a filled buffer (ocr.cpp, main.cpp), and    *)
(* the thread that waits for SIGINT / SIGTERM (main.cpp).                  *)
(*                                                                         *)
(* A step is what a thread does between two points at which another thread *)
(* can tell the difference.  A critical section is one step unless it      *)
(* reads or writes something that its mutex does not protect; the mutex is *)
(* then held over several steps.  A thread that waits on a condition       *)
(* variable is "asleep": notifying it moves it back to the step that       *)
(* acquires the mutex and tests the predicate again.                       *)
(***************************************************************************)
EXTENDS Integers, Sequences

CONSTANTS
  Main,          \* the producer: main() itself
  Consumers,     \* the OCR threads
  Signal,        \* the thread that runs the signal handler
  NoThread,      \* the holder of a free mutex
  MaxObjects,    \* max_objects of the constructor: number of buffers
  NumFrames,     \* bound on the frames that pass the decoder's filter
  Failing,       \* the threads whose work may throw
  Interruptible, \* whether a signal may arrive
  SharedCount    \* std::deque keeps one element count for both of its ends

Workers == {Main} \cup Consumers
Threads == Workers \cup {Signal}
Buffers == 1 .. MaxObjects
NoBuffer == 0
Frames == 1 .. NumFrames

ASSUME ThreadsAssumption ==
  /\ Main \notin Consumers /\ Signal \notin Workers /\ NoThread \notin Threads
  /\ Failing \subseteq Workers
ASSUME SizesAssumption == MaxObjects \in Nat /\ NumFrames \in Nat
ASSUME FlagsAssumption == Interruptible \in BOOLEAN /\ SharedCount \in BOOLEAN

VARIABLES
  producer_values, \* buffers free to be written
  consumer_values, \* buffers filled and not yet read
  stop_producer,
  stop_consumer,
  producer_mutex,  \* the thread that holds it, or NoThread
  consumer_mutex,
  pc,              \* what each thread does next
  hand,            \* the buffer each worker holds
  frame,           \* the frame number stored in each buffer
  decoded,         \* frames the decoder has passed to video::on_frame
  published,       \* history: frames 1 .. published were put in consumer_values
  recognized,      \* history: frames an OCR thread has finished
  abandoned        \* history: frames whose processing threw

queues  == <<producer_values, consumer_values>>
stops   == <<stop_producer, stop_consumer>>
mutexes == <<producer_mutex, consumer_mutex>>
buffers == <<hand, frame>>
history == <<decoded, published, recognized, abandoned>>
vars == <<queues, stops, mutexes, pc, buffers, history>>

ShutdownSteps == {"close", "wake", "drain", "release", "done"}
ProducerSteps == {"decode", "fetch", "pop", "block", "asleep", "fill",
                  "publish", "announce"}
ConsumerSteps == {"start", "take", "asleep", "work", "giveback", "settle",
                  "recycle", "flush"}

TypeOK ==
  /\ producer_values \in Seq(Buffers)
  /\ consumer_values \in Seq(Buffers)
  /\ stop_producer \in BOOLEAN
  /\ stop_consumer \in BOOLEAN
  /\ producer_mutex \in {NoThread, Main}
  /\ consumer_mutex \in Consumers \cup {NoThread}
  /\ pc \in [Threads -> ShutdownSteps \cup ProducerSteps \cup ConsumerSteps \cup {"armed"}]
  /\ pc[Main] \in ShutdownSteps \cup ProducerSteps
  /\ \A c \in Consumers : pc[c] \in ShutdownSteps \cup ConsumerSteps
  /\ pc[Signal] \in ShutdownSteps \cup {"armed"}
  /\ hand \in [Workers -> Buffers \cup {NoBuffer}]
  /\ frame \in [Buffers -> 0 .. NumFrames]
  /\ decoded \in 0 .. NumFrames
  /\ published \in 0 .. NumFrames
  /\ recognized \subseteq 0 .. NumFrames
  /\ abandoned \subseteq 0 .. NumFrames

Init ==
  /\ producer_values = [i \in 1 .. MaxObjects |-> i]
  /\ consumer_values = <<>>
  /\ stop_producer = FALSE
  /\ stop_consumer = FALSE
  /\ producer_mutex = NoThread
  /\ consumer_mutex = NoThread
  /\ pc = [t \in Threads |-> IF t = Main THEN "decode"
                             ELSE IF t = Signal THEN "armed" ELSE "start"]
  /\ hand = [t \in Workers |-> NoBuffer]
  /\ frame = [b \in Buffers |-> 0]
  /\ decoded = 0
  /\ published = 0
  /\ recognized = {}
  /\ abandoned = {}

GoTo(t, step) == pc' = [pc EXCEPT ![t] = step]

(* notify_all on consumer_cv_ by thread t, which goes on at step. *)
NotifyConsumers(t, step) ==
  pc' = [u \in Threads |-> IF u = t THEN step
                           ELSE IF u \in Consumers /\ pc[u] = "asleep" THEN "take"
                           ELSE pc[u]]

(* notify_one on producer_cv_ by thread t: only the main thread waits there. *)
NotifyProducer(t, step) ==
  pc' = [u \in Threads |-> IF u = t THEN step
                           ELSE IF u = Main /\ pc[u] = "asleep" THEN "fetch"
                           ELSE pc[u]]

-----------------------------------------------------------------------------
(* The main thread: decoder::run calls video::on_frame for every frame.    *)

DecodeFrame ==
  /\ pc[Main] = "decode" /\ decoded < NumFrames
  /\ decoded' = decoded + 1
  /\ GoTo(Main, "fetch")
  /\ UNCHANGED <<queues, stops, mutexes, buffers, published, recognized, abandoned>>

(* decoder::run returns, which it does at the end of the video and also    *)
(* when a packet cannot be read or decoded; video::start shuts down.       *)
DecodeEnds ==
  /\ pc[Main] = "decode"
  /\ GoTo(Main, "close")
  /\ UNCHANGED <<queues, stops, mutexes, buffers, history>>

(* Decoding throws: main() catches it and shuts the queue down.            *)
DecodeFails ==
  /\ pc[Main] = "decode" /\ Main \in Failing
  /\ GoTo(Main, "close")
  /\ UNCHANGED <<queues, stops, mutexes, buffers, history>>

(* get_producer_value: lock and test the predicate of the wait.            *)
FetchStopped ==
  /\ pc[Main] = "fetch" /\ producer_mutex = NoThread
  /\ stop_producer
  /\ GoTo(Main, "close")
  /\ UNCHANGED <<queues, stops, mutexes, buffers, history>>

FetchAvailable ==
  /\ pc[Main] = "fetch" /\ producer_mutex = NoThread
  /\ ~stop_producer /\ producer_values # <<>>
  /\ producer_mutex' = Main
  /\ GoTo(Main, "pop")
  /\ UNCHANGED <<queues, stops, consumer_mutex, buffers, history>>

FetchEmpty ==
  /\ pc[Main] = "fetch" /\ producer_mutex = NoThread
  /\ ~stop_producer /\ producer_values = <<>>
  /\ producer_mutex' = Main
  /\ GoTo(Main, "block")
  /\ UNCHANGED <<queues, stops, consumer_mutex, buffers, history>>

(* Mutant: front() without pop_front(). *)
FetchPop_KeepsFront ==
  /\ pc[Main] = "pop"
  /\ hand' = [hand EXCEPT ![Main] = Head(producer_values)]
  /\ producer_mutex' = NoThread
  /\ GoTo(Main, "fill")
  /\ UNCHANGED <<queues, stops, consumer_mutex, frame, history>>

FetchPop ==
  /\ pc[Main] = "pop"
  /\ hand' = [hand EXCEPT ![Main] = Head(producer_values)]
  /\ producer_values' = Tail(producer_values)
  /\ producer_mutex' = NoThread
  /\ GoTo(Main, "fill")
  /\ UNCHANGED <<consumer_values, stops, consumer_mutex, frame, history>>

(* The predicate was false: release the mutex and sleep, atomically.       *)
FetchBlock ==
  /\ pc[Main] = "block"
  /\ producer_mutex' = NoThread
  /\ GoTo(Main, "asleep")
  /\ UNCHANGED <<queues, stops, consumer_mutex, buffers, history>>

(* decoder::to_frame copies the picture and its number into the buffer.    *)
Fill ==
  /\ pc[Main] = "fill"
  /\ frame' = [frame EXCEPT ![hand[Main]] = decoded]
  /\ GoTo(Main, "publish")
  /\ UNCHANGED <<queues, stops, mutexes, hand, history>>

(* to_frame throws: the exception drops the only reference to the buffer.  *)
FillFails ==
  /\ pc[Main] = "fill" /\ Main \in Failing
  /\ hand' = [hand EXCEPT ![Main] = NoBuffer]
  /\ GoTo(Main, "close")
  /\ UNCHANGED <<queues, stops, mutexes, frame, history>>

(* add_consumer_value.                                                     *)
Publish ==
  /\ pc[Main] = "publish" /\ consumer_mutex = NoThread
  /\ consumer_values' = Append(consumer_values, hand[Main])
  /\ hand' = [hand EXCEPT ![Main] = NoBuffer]
  /\ published' = decoded
  /\ GoTo(Main, "announce")
  /\ UNCHANGED <<producer_values, stops, mutexes, frame, decoded, recognized, abandoned>>

(* Mutant: nobody is notified. *)
Announce_Silent ==
  /\ pc[Main] = "announce"
  /\ GoTo(Main, "decode")
  /\ UNCHANGED <<queues, stops, mutexes, buffers, history>>

Announce ==
  /\ pc[Main] = "announce"
  /\ NotifyConsumers(Main, "decode")
  /\ UNCHANGED <<queues, stops, mutexes, buffers, history>>

MainStep ==
  \/ DecodeFrame \/ DecodeEnds \/ DecodeFails
  \/ FetchStopped \/ FetchAvailable \/ FetchEmpty \/ FetchPop \/ FetchBlock
  \/ Fill \/ FillFails \/ Publish \/ Announce

-----------------------------------------------------------------------------
(* An OCR thread c: main.cpp's consumer_func around ocr::start.            *)

(* The constructor of ocr picks a provider.                                *)
Construct(c) ==
  /\ pc[c] = "start"
  /\ GoTo(c, "take")
  /\ UNCHANGED <<queues, stops, mutexes, buffers, history>>

(* It throws when there is none: nothing is held and the queue shuts down. *)
ConstructFails(c) ==
  /\ pc[c] = "start" /\ c \in Failing
  /\ GoTo(c, "close")
  /\ UNCHANGED <<queues, stops, mutexes, buffers, history>>

(* get_consumer_value, one critical section with three ends.               *)
TakeStopped(c) ==
  /\ pc[c] = "take" /\ consumer_mutex = NoThread
  /\ stop_consumer
  /\ GoTo(c, "done")
  /\ UNCHANGED <<queues, stops, mutexes, buffers, history>>

(* Mutant: the youngest buffer first. *)
TakeValue_Back(c) ==
  /\ pc[c] = "take" /\ consumer_mutex = NoThread
  /\ ~stop_consumer /\ consumer_values # <<>>
  /\ hand' = [hand EXCEPT ![c] = consumer_values[Len(consumer_values)]]
  /\ consumer_values' = SubSeq(consumer_values, 1, Len(consumer_values) - 1)
  /\ GoTo(c, "work")
  /\ UNCHANGED <<producer_values, stops, mutexes, frame, history>>

TakeValue(c) ==
  /\ pc[c] = "take" /\ consumer_mutex = NoThread
  /\ ~stop_consumer /\ consumer_values # <<>>
  /\ hand' = [hand EXCEPT ![c] = Head(consumer_values)]
  /\ consumer_values' = Tail(consumer_values)
  /\ GoTo(c, "work")
  /\ UNCHANGED <<producer_values, stops, mutexes, frame, history>>

TakeBlock(c) ==
  /\ pc[c] = "take" /\ consumer_mutex = NoThread
  /\ ~stop_consumer /\ consumer_values = <<>>
  /\ GoTo(c, "asleep")
  /\ UNCHANGED <<queues, stops, mutexes, buffers, history>>

(* The filter, the OCR provider and the result callback.                   *)
Work(c) ==
  /\ pc[c] = "work"
  /\ recognized' = recognized \cup {frame[hand[c]]}
  /\ GoTo(c, "giveback")
  /\ UNCHANGED <<queues, stops, mutexes, buffers, decoded, published, abandoned>>

(* One of them throws: the buffer is never returned to the queue.          *)
WorkFails(c) ==
  /\ pc[c] = "work" /\ c \in Failing
  /\ abandoned' = abandoned \cup {frame[hand[c]]}
  /\ hand' = [hand EXCEPT ![c] = NoBuffer]
  /\ GoTo(c, "close")
  /\ UNCHANGED <<queues, stops, mutexes, frame, decoded, published, recognized>>

(* What push_back(b) may leave in producer_values_.  add_producer_value    *)
(* pushes under consumer_mutex_ while get_producer_value pops under        *)
(* producer_mutex_.  An implementation that keeps the element count of a   *)
(* deque in one place loses one of the two updates when they overlap: the  *)
(* new element stays out of reach, or the last slot holds stale bits: any  *)
(* buffer that was in the slot before, as slots are used again.            *)
PushedBack(b) ==
  LET torn == SharedCount /\ pc[Main] = "pop"
  IN {Append(producer_values, b)} \cup
     IF torn THEN {producer_values}
                  \cup {Append(producer_values, x) : x \in Buffers}
                  \cup {Append(Append(producer_values, b), x) : x \in Buffers}
             ELSE {}

(* add_producer_value: push under consumer_mutex_, which stays held.       *)
GiveBack(c) ==
  /\ pc[c] = "giveback" /\ consumer_mutex = NoThread
  /\ consumer_mutex' = c
  /\ producer_values' \in PushedBack(hand[c])
  /\ hand' = [hand EXCEPT ![c] = NoBuffer]
  /\ GoTo(c, "settle")
  /\ UNCHANGED <<consumer_values, stops, producer_mutex, frame, history>>

(* Mutant: the end of the work is seen although the producer goes on. *)
Settle_IgnoresProducer(c) ==
  /\ pc[c] = "settle"
  /\ stop_consumer' = (stop_consumer \/ consumer_values = <<>>)
  /\ consumer_mutex' = NoThread
  /\ GoTo(c, "recycle")
  /\ UNCHANGED <<queues, stop_producer, producer_mutex, buffers, history>>

(* The test for the end of the work, and the unlock.                       *)
Settle(c) ==
  /\ pc[c] = "settle"
  /\ stop_consumer' = (stop_consumer \/ (consumer_values = <<>> /\ stop_producer))
  /\ consumer_mutex' = NoThread
  /\ GoTo(c, "recycle")
  /\ UNCHANGED <<queues, stop_producer, producer_mutex, buffers, history>>

Recycle(c) ==
  /\ pc[c] = "recycle"
  /\ NotifyProducer(c, "flush")
  /\ UNCHANGED <<queues, stops, mutexes, buffers, history>>

(* `if (stop_consumer_)` reads the flag without the mutex.                 *)
Flush(c) ==
  /\ pc[c] = "flush"
  /\ IF stop_consumer THEN NotifyConsumers(c, "take") ELSE GoTo(c, "take")
  /\ UNCHANGED <<queues, stops, mutexes, buffers, history>>

ConsumerStep(c) ==
  \/ Construct(c) \/ ConstructFails(c)
  \/ TakeStopped(c) \/ TakeValue(c) \/ TakeBlock(c)
  \/ Work(c) \/ WorkFails(c)
  \/ GiveBack(c) \/ Settle(c) \/ Recycle(c) \/ Flush(c)

-----------------------------------------------------------------------------
(* shutdown(), called by any thread t.                                     *)

Interrupt ==
  /\ pc[Signal] = "armed" /\ Interruptible
  /\ GoTo(Signal, "close")
  /\ UNCHANGED <<queues, stops, mutexes, buffers, history>>

CloseProducer(t) ==
  /\ pc[t] = "close" /\ producer_mutex = NoThread
  /\ stop_producer' = TRUE
  /\ GoTo(t, "wake")
  /\ UNCHANGED <<queues, stop_consumer, mutexes, buffers, history>>

(* Mutant: a sleeping producer is not told. *)
WakeProducer_Silent(t) ==
  /\ pc[t] = "wake"
  /\ GoTo(t, "drain")
  /\ UNCHANGED <<queues, stops, mutexes, buffers, history>>

WakeProducer(t) ==
  /\ pc[t] = "wake"
  /\ NotifyProducer(t, "drain")
  /\ UNCHANGED <<queues, stops, mutexes, buffers, history>>

(* Mutant: consumers are stopped with frames pending. *)
CloseConsumers_Always(t) ==
  /\ pc[t] = "drain" /\ consumer_mutex = NoThread
  /\ stop_consumer' = TRUE
  /\ GoTo(t, "release")
  /\ UNCHANGED <<queues, stop_producer, mutexes, buffers, history>>

CloseConsumers(t) ==
  /\ pc[t] = "drain" /\ consumer_mutex = NoThread
  /\ stop_consumer' = (stop_consumer \/ consumer_values = <<>>)
  /\ GoTo(t, "release")
  /\ UNCHANGED <<queues, stop_producer, mutexes, buffers, history>>

WakeConsumers(t) ==
  /\ pc[t] = "release"
  /\ NotifyConsumers(t, "done")
  /\ UNCHANGED <<queues, stops, mutexes, buffers, history>>

ShutdownStep(t) ==
  CloseProducer(t) \/ WakeProducer(t) \/ CloseConsumers(t) \/ WakeConsumers(t)

-----------------------------------------------------------------------------
(* A condition variable may wake up for no reason; nothing relies on it.   *)
SpuriousWake(t) ==
  /\ pc[t] = "asleep"
  /\ GoTo(t, IF t = Main THEN "fetch" ELSE "take")
  /\ UNCHANGED <<queues, stops, mutexes, buffers, history>>

AllDone ==
  /\ \A t \in Workers : pc[t] = "done"
  /\ pc[Signal] \in {"armed", "done"}

Finished == AllDone /\ UNCHANGED vars

Next ==
  \/ MainStep
  \/ \E c \in Consumers : ConsumerStep(c)
  \/ Interrupt
  \/ \E t \in Threads : ShutdownStep(t)
  \/ \E t \in Workers : SpuriousWake(t)
  \/ Finished

Spec == Init /\ [][Next]_vars

(* The scheduler runs every thread that can run, decoding and OCR return,  *)
(* and a thread that waits for a mutex again and again freed gets it.      *)
(* Nothing forces a signal, a failure or a spurious wakeup.                *)
Fairness ==
  /\ WF_vars(MainStep)
  /\ \A c \in Consumers : WF_vars(ConsumerStep(c))
  /\ \A t \in Threads : WF_vars(ShutdownStep(t)) /\ SF_vars(CloseProducer(t))

FairSpec == Spec /\ Fairness
-----------------------------------------------------------------------------
(* A buffer is in one place: one of the two queues, once, or one worker's  *)
(* hand.  The producer overwrites a buffer without a lock, and an OCR      *)
(* thread reads it without one, so nothing else keeps them apart.          *)
ExclusiveOwnership ==
  /\ \A i, j \in DOMAIN producer_values : producer_values[i] = producer_values[j] => i = j
  /\ \A i, j \in DOMAIN consumer_values : consumer_values[i] = consumer_values[j] => i = j
  /\ \A i \in DOMAIN producer_values, j \in DOMAIN consumer_values :
        producer_values[i] # consumer_values[j]
  /\ \A t \in Workers : hand[t] # NoBuffer =>
        /\ \A i \in DOMAIN producer_values : producer_values[i] # hand[t]
        /\ \A i \in DOMAIN consumer_values : consumer_values[i] # hand[t]
        /\ \A u \in Workers \ {t} : hand[u] # hand[t]

(* No two threads have one buffer in hand: nobody overwrites what another  *)
(* reads (value_queue.h:54, "Mutex protecting the producer queue.").       *)
OneHandPerBuffer ==
  \A t, u \in Workers : t # u /\ hand[t] # NoBuffer => hand[t] # hand[u]

Taken == published - Len(consumer_values)
Working == {c \in Consumers : pc[c] = "work"}

(* The pending buffers hold the youngest published frames, oldest first;   *)
(* each older frame is in the hand of one OCR thread, or was recognised,   *)
(* or was abandoned by an exception, and only one of these.  So no frame   *)
(* is recognised twice, skipped or overwritten before it was read.         *)
FramesAccountedFor ==
  /\ Taken >= 0
  /\ \A i \in DOMAIN consumer_values : frame[consumer_values[i]] = Taken + i
  /\ recognized \cup abandoned \cup {frame[hand[c]] : c \in Working} = 1 .. Taken
  /\ recognized \cap abandoned = {}
  /\ \A c \in Working : frame[hand[c]] \notin recognized \cup abandoned
  /\ \A c, d \in Working : frame[hand[c]] = frame[hand[d]] => c = d

(* How the program counters, the mutexes, the local variables and the      *)
(* counters go together.  It says where each thread is with respect to     *)
(* the queue, and makes the other invariants inductive.                    *)
ControlState ==
  /\ producer_mutex = Main <=> pc[Main] \in {"pop", "block"}
  /\ \A c \in Consumers : consumer_mutex = c <=> pc[c] = "settle"
  /\ pc[Main] = "pop" => producer_values # <<>>
  /\ hand[Main] # NoBuffer <=> pc[Main] \in {"fill", "publish"}
  /\ \A c \in Consumers : hand[c] # NoBuffer <=> pc[c] \in {"work", "giveback"}
  /\ pc[Main] \in {"decode", "announce"} => decoded = published
  /\ pc[Main] \in {"fetch", "pop", "block", "asleep", "fill", "publish"}
       => decoded = published + 1
  /\ pc[Main] = "publish" => frame[hand[Main]] = decoded
  /\ stop_consumer => stop_producer
  /\ \A t \in Threads : pc[t] \in {"wake", "drain", "release"} => stop_producer

(* The types, and where each thread is: each mutex has one holder, at the  *)
(* steps its critical section spans, and a hand holds a buffer exactly at  *)
(* the steps that need one, whatever the implementation of the deque does. *)
TypeInv == TypeOK /\ ControlState

(* An OCR thread never sleeps through its wakeup: while one sleeps and has *)
(* a reason to run, some thread has yet to call notify_all for it.  The    *)
(* two flags and the queue are tested and changed under different mutexes. *)
NoConsumerStranded ==
  (\E c \in Consumers : pc[c] = "asleep") /\ (stop_consumer \/ consumer_values # <<>>)
     => \E t \in Threads : \/ pc[t] \in {"announce", "release"}
                           \/ pc[t] \in {"recycle", "flush"} /\ stop_consumer

(* get_producer_value blocks only until a producer value is available.     *)
ProducerServed ==
  (pc[Main] = "asleep" /\ producer_values # <<>>) ~> (pc[Main] # "asleep")

(* The frames an observer of the queue sees: pending ones, and the one     *)
(* each OCR thread works on.                                               *)
PendingFrames == [i \in DOMAIN consumer_values |-> frame[consumer_values[i]]]
BusyFrames == [c \in Consumers |-> IF pc[c] = "work" THEN frame[hand[c]] ELSE 0]

Pipeline == INSTANCE FramePipeline WITH
  pending <- PendingFrames, busy <- BusyFrames, produced <- published,
  stopping <- stop_producer, closed <- stop_consumer

(* The queue hands frames over the way FramePipeline promises: once, in    *)
(* order, and turning the OCR threads away only after it was asked to stop *)
(* and had nothing pending.                                                *)
HandsFramesOver == Pipeline!PSpec
=============================================================================
