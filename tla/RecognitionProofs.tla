------------------------- MODULE RecognitionProofs -------------------------
(***************************************************************************)
(* Theorems about ValueQueue for any number of OCR threads, buffers and    *)
(* frames, any set of failing threads, with or without a signal; and then  *)
(* about Recognition, whose steps are steps of ValueQueue: what the end of *)
(* the process says is true.                                               *)
(***************************************************************************)
EXTENDS Recognition, SequenceTheorems, TLAPS

(* The two facts every step needs about its threads and its sizes.         *)
LEMMA ThreadFacts ==
  /\ Main \in Workers /\ Main \in Threads /\ Signal \in Threads
  /\ Main # Signal /\ Main \notin Consumers /\ Signal \notin Consumers
  /\ Consumers \subseteq Workers /\ Workers \subseteq Threads
  /\ NoThread # Main /\ NoThread \notin Consumers
  /\ NoBuffer \notin Buffers
BY ThreadsAssumption DEF Workers, Threads, Buffers, NoBuffer

(* The types, and the control state, of the initial state.                 *)
LEMMA InitTypeInv == Init => TypeInv
<1> SUFFICES ASSUME Init PROVE TypeInv
    OBVIOUS
<1>1. producer_values \in Seq(Buffers) /\ consumer_values = <<>>
  BY SizesAssumption DEF Init, Buffers
<1>2. /\ pc \in [Threads -> {"decode", "armed", "start"}]
      /\ pc[Main] = "decode" /\ pc[Signal] = "armed"
      /\ \A c \in Consumers : pc[c] = "start"
  BY ThreadFacts DEF Init
<1>3. /\ hand \in [Workers -> Buffers \cup {NoBuffer}]
      /\ hand[Main] = NoBuffer /\ \A c \in Consumers : hand[c] = NoBuffer
      /\ frame \in [Buffers -> 0 .. NumFrames]
  BY ThreadFacts, SizesAssumption DEF Init
<1>4. /\ stop_producer = FALSE /\ stop_consumer = FALSE
      /\ producer_mutex = NoThread /\ consumer_mutex = NoThread
      /\ decoded = 0 /\ published = 0 /\ recognized = {} /\ abandoned = {}
  BY DEF Init
<1>5. TypeOK
  <2>1. consumer_values \in Seq(Buffers)
    BY <1>1
  <2>2. pc \in [Threads -> ShutdownSteps \cup ProducerSteps \cup ConsumerSteps \cup {"armed"}]
    BY <1>2 DEF ProducerSteps, ConsumerSteps
  <2>3. pc[Main] \in ShutdownSteps \cup ProducerSteps
    BY <1>2 DEF ProducerSteps, ConsumerSteps
  <2>4.  \A c \in Consumers : pc[c] \in ShutdownSteps \cup ConsumerSteps
    BY <1>2 DEF ProducerSteps, ConsumerSteps
  <2>5. hand \in [Workers -> Buffers \cup {NoBuffer}]
    BY <1>3
  <2>6. decoded \in 0 .. NumFrames /\ published \in 0 .. NumFrames
    BY <1>4, SizesAssumption
  <2>7. stop_consumer \in BOOLEAN /\ stop_producer \in BOOLEAN 
    BY <1>4
  <2>8. producer_mutex \in {NoThread, Main} /\ consumer_mutex \in Consumers \cup {NoThread}
    BY <1>4
  <2>9. recognized \subseteq 0 .. NumFrames /\ abandoned \subseteq 0 .. NumFrames
    BY <1>4
  <2> QED BY <1>1, <1>3, <1>2, <2>1, <2>2, <2>3, <2>4, <2>5, <2>6, <2>7, <2>8, <2>9 DEF TypeOK
<1>6. ControlState
  BY <1>1, <1>2, <1>3, <1>4, ThreadFacts DEF ControlState
<1> QED
  BY <1>5, <1>6 DEF TypeInv

(* Whatever a push leaves behind, it is a queue of buffers, and it is not  *)
(* empty if it was not.                                                    *)
LEMMA PushedBackType ==
  ASSUME producer_values \in Seq(Buffers), NEW b \in Buffers, NEW s \in PushedBack(b)
  PROVE  s \in Seq(Buffers) /\ (producer_values # <<>> => s # <<>>)
<1>1. \/ s = producer_values
      \/ \E x \in Buffers : s = Append(producer_values, x)
      \/ \E x \in Buffers : s = Append(Append(producer_values, b), x)
  BY DEF PushedBack
<1>2. \A q \in Seq(Buffers), x \in Buffers : Append(q, x) \in Seq(Buffers) /\ Append(q, x) # <<>>
  OBVIOUS
<1> QED
  BY <1>1, <1>2

(* Every step of every thread keeps them.                                  *)
LEMMA StepTypeInv == TypeInv /\ [Next]_vars => TypeInv'
<1> SUFFICES ASSUME TypeOK, ControlState, [Next]_vars PROVE TypeOK' /\ ControlState'
    BY DEF TypeInv
<1> USE DEF TypeOK, ControlState, ShutdownSteps, ProducerSteps, ConsumerSteps
<1>1. ASSUME DecodeFrame PROVE TypeOK' /\ ControlState'
  BY <1>1, ThreadFacts, SizesAssumption
  DEF DecodeFrame, GoTo, queues, stops, mutexes, buffers, history
<1>2. ASSUME DecodeEnds \/ DecodeFails PROVE TypeOK' /\ ControlState'
  <2>1. CASE DecodeEnds
    BY <2>1, ThreadFacts, SizesAssumption
    DEF DecodeEnds, GoTo, queues, stops, mutexes, buffers, history
  <2>2. CASE DecodeFails
    BY <2>2, ThreadFacts, SizesAssumption
    DEF DecodeFails, GoTo, queues, stops, mutexes, buffers, history
  <2> QED
    BY <1>2, <2>1, <2>2
<1>3. ASSUME FetchStopped PROVE TypeOK' /\ ControlState'
  BY <1>3, ThreadFacts, SizesAssumption
  DEF FetchStopped, GoTo, queues, stops, mutexes, buffers, history
<1>4. ASSUME FetchAvailable PROVE TypeOK' /\ ControlState'
  BY <1>4, ThreadFacts, SizesAssumption
  DEF FetchAvailable, GoTo, queues, stops, mutexes, buffers, history
<1>5. ASSUME FetchEmpty PROVE TypeOK' /\ ControlState'
  BY <1>5, ThreadFacts, SizesAssumption
  DEF FetchEmpty, GoTo, queues, stops, mutexes, buffers, history
<1>6. ASSUME FetchPop PROVE TypeOK' /\ ControlState'
  BY <1>6, ThreadFacts, SizesAssumption DEF FetchPop, GoTo, queues, stops, mutexes, buffers, history
<1>7. ASSUME FetchBlock PROVE TypeOK' /\ ControlState'
  BY <1>7, ThreadFacts, SizesAssumption
  DEF FetchBlock, GoTo, queues, stops, mutexes, buffers, history
<1>8. ASSUME Fill PROVE TypeOK' /\ ControlState'
  BY <1>8, ThreadFacts, SizesAssumption DEF Fill, GoTo, queues, stops, mutexes, buffers, history
<1>9. ASSUME FillFails PROVE TypeOK' /\ ControlState'
  BY <1>9, ThreadFacts, SizesAssumption
  DEF FillFails, GoTo, queues, stops, mutexes, buffers, history
<1>10. ASSUME Publish PROVE TypeOK' /\ ControlState'
  BY <1>10, ThreadFacts, SizesAssumption DEF Publish, GoTo, queues, stops, mutexes, buffers, history
<1>11. ASSUME Announce PROVE TypeOK' /\ ControlState'
  BY <1>11, ThreadFacts, SizesAssumption
  DEF Announce, NotifyConsumers, queues, stops, mutexes, buffers, history
<1>12. ASSUME NEW c \in Consumers, Construct(c) PROVE TypeOK' /\ ControlState'
  BY <1>12, ThreadFacts, SizesAssumption
  DEF Construct, GoTo, queues, stops, mutexes, buffers, history
<1>13. ASSUME NEW c \in Consumers, ConstructFails(c) PROVE TypeOK' /\ ControlState'
  BY <1>13, ThreadFacts, SizesAssumption
  DEF ConstructFails, GoTo, queues, stops, mutexes, buffers, history
<1>14. ASSUME NEW c \in Consumers, TakeStopped(c) PROVE TypeOK' /\ ControlState'
  BY <1>14, ThreadFacts, SizesAssumption
  DEF TakeStopped, GoTo, queues, stops, mutexes, buffers, history
<1>15. ASSUME NEW c \in Consumers, TakeValue(c) PROVE TypeOK' /\ ControlState'
  BY <1>15, ThreadFacts, SizesAssumption
  DEF TakeValue, GoTo, queues, stops, mutexes, buffers, history
<1>16. ASSUME NEW c \in Consumers, TakeBlock(c) PROVE TypeOK' /\ ControlState'
  BY <1>16, ThreadFacts, SizesAssumption
  DEF TakeBlock, GoTo, queues, stops, mutexes, buffers, history
<1>17. ASSUME NEW c \in Consumers, Work(c) PROVE TypeOK' /\ ControlState'
  <2>1. frame[hand[c]] \in 0 .. NumFrames
    BY <1>17, ThreadFacts DEF Work
  <2> QED
    BY <1>17, <2>1, ThreadFacts, SizesAssumption
    DEF Work, GoTo, queues, stops, mutexes, buffers, history
<1>18. ASSUME NEW c \in Consumers, WorkFails(c) PROVE TypeOK' /\ ControlState'
  <2>1. frame[hand[c]] \in 0 .. NumFrames
    BY <1>18, ThreadFacts DEF WorkFails
  <2> QED
    BY <1>18, <2>1, ThreadFacts, SizesAssumption
    DEF WorkFails, GoTo, queues, stops, mutexes, buffers, history
<1>19. ASSUME NEW c \in Consumers, GiveBack(c) PROVE TypeOK' /\ ControlState'
  <2>1. hand[c] \in Buffers
    BY <1>19, ThreadFacts DEF GiveBack
  <2>2. producer_values' \in PushedBack(hand[c])
    BY <1>19 DEF GiveBack
  <2>3. producer_values' \in Seq(Buffers) /\ (producer_values # <<>> => producer_values' # <<>>)
    BY <2>1, <2>2, PushedBackType
  <2> QED
    BY <1>19, <2>3, ThreadFacts, SizesAssumption
    DEF GiveBack, GoTo, queues, stops, mutexes, buffers, history
<1>20. ASSUME NEW c \in Consumers, Settle(c) PROVE TypeOK' /\ ControlState'
  BY <1>20, ThreadFacts, SizesAssumption DEF Settle, GoTo, queues, stops, mutexes, buffers, history
<1>21. ASSUME NEW c \in Consumers, Recycle(c) PROVE TypeOK' /\ ControlState'
  BY <1>21, ThreadFacts, SizesAssumption
  DEF Recycle, NotifyProducer, queues, stops, mutexes, buffers, history
<1>22. ASSUME NEW c \in Consumers, Flush(c) PROVE TypeOK' /\ ControlState'
  <2>1. CASE stop_consumer
    <3>1. pc[c] = "flush" /\ NotifyConsumers(c, "take")
      BY <1>22, <2>1 DEF Flush
    <3>2. UNCHANGED <<queues, stops, mutexes, buffers, history>>
      BY <1>22 DEF Flush
    <3>3. TypeOK'
      BY <3>1, <3>2, ThreadFacts, SizesAssumption
      DEF NotifyConsumers, queues, stops, mutexes, buffers, history
    <3>4. ControlState'
      BY <3>1, <3>2, ThreadFacts, SizesAssumption
      DEF NotifyConsumers, queues, stops, mutexes, buffers, history
    <3> QED
      BY <3>3, <3>4
  <2>2. CASE ~stop_consumer
    <3>1. pc[c] = "flush" /\ GoTo(c, "take")
      BY <1>22, <2>2 DEF Flush
    <3>2. UNCHANGED <<queues, stops, mutexes, buffers, history>>
      BY <1>22 DEF Flush
    <3>3. TypeOK'
      BY <3>1, <3>2, ThreadFacts, SizesAssumption
      DEF GoTo, queues, stops, mutexes, buffers, history
    <3>4. ControlState'
      BY <3>1, <3>2, ThreadFacts, SizesAssumption
      DEF GoTo, queues, stops, mutexes, buffers, history
    <3> QED
      BY <3>3, <3>4
  <2> QED
    BY <2>1, <2>2
<1>23. ASSUME Interrupt PROVE TypeOK' /\ ControlState'
  BY <1>23, ThreadFacts, SizesAssumption
  DEF Interrupt, GoTo, queues, stops, mutexes, buffers, history
<1>24. ASSUME NEW t \in Threads, CloseProducer(t) PROVE TypeOK' /\ ControlState'
  BY <1>24, ThreadFacts, SizesAssumption
  DEF CloseProducer, GoTo, queues, stops, mutexes, buffers, history
<1>25. ASSUME NEW t \in Threads, WakeProducer(t) PROVE TypeOK' /\ ControlState'
  BY <1>25, ThreadFacts, SizesAssumption
  DEF WakeProducer, NotifyProducer, queues, stops, mutexes, buffers, history
<1>26. ASSUME NEW t \in Threads, CloseConsumers(t) PROVE TypeOK' /\ ControlState'
  BY <1>26, ThreadFacts, SizesAssumption
  DEF CloseConsumers, GoTo, queues, stops, mutexes, buffers, history
<1>27. ASSUME NEW t \in Threads, WakeConsumers(t) PROVE TypeOK' /\ ControlState'
  BY <1>27, ThreadFacts, SizesAssumption
  DEF WakeConsumers, NotifyConsumers, queues, stops, mutexes, buffers, history
<1>28. ASSUME NEW t \in Workers, SpuriousWake(t) PROVE TypeOK' /\ ControlState'
  BY <1>28, ThreadFacts, SizesAssumption
  DEF SpuriousWake, GoTo, queues, stops, mutexes, buffers, history
<1>29. ASSUME UNCHANGED vars PROVE TypeOK' /\ ControlState'
  BY <1>29 DEF vars, queues, stops, mutexes, buffers, history
<1> QED
  BY <1>1, <1>2, <1>3, <1>4, <1>5, <1>6, <1>7, <1>8, <1>9, <1>10, <1>11, <1>12, <1>13, <1>14,
     <1>15, <1>16, <1>17, <1>18, <1>19, <1>20, <1>21, <1>22, <1>23, <1>24, <1>25, <1>26, <1>27,
     <1>28, <1>29
  DEF Next, MainStep, ConsumerStep, ShutdownStep, Finished

(* Types, and the facts about program counters, mutexes and local          *)
(* variables, hold in every reachable state, for every implementation of   *)
(* the deque.                                                              *)
THEOREM TypeCorrect == Spec => []TypeInv
  BY InitTypeInv, StepTypeInv, PTL DEF Spec

-----------------------------------------------------------------------------
(* Ownership of buffers.                                                   *)

(* What appending to a queue, and taking from it, does to its positions.   *)
LEMMA QueueFacts ==
  ASSUME NEW q \in Seq(Buffers)
  PROVE  /\ DOMAIN q = 1 .. Len(q) /\ Len(q) \in Nat
         /\ \A i \in DOMAIN q : q[i] \in Buffers
         /\ \A b \in Buffers : /\ Len(Append(q, b)) = Len(q) + 1
                              /\ DOMAIN Append(q, b) = 1 .. Len(q) + 1
                              /\ \A i \in DOMAIN q : Append(q, b)[i] = q[i]
                              /\ Append(q, b)[Len(q) + 1] = b
         /\ q # <<>> => /\ Head(q) = q[1] /\ 1 \in DOMAIN q
                        /\ Len(Tail(q)) = Len(q) - 1
                        /\ DOMAIN Tail(q) = 1 .. Len(q) - 1
                        /\ \A i \in DOMAIN Tail(q) : Tail(q)[i] = q[i + 1] /\ i + 1 \in DOMAIN q
OBVIOUS

(* Every step keeps the buffers apart, when the deque does not tear.       *)
LEMMA StepOwnership ==
  ASSUME SharedCount = FALSE, TypeInv, ExclusiveOwnership, [Next]_vars
  PROVE  ExclusiveOwnership'
<1> USE DEF ExclusiveOwnership
<1>0. /\ producer_values \in Seq(Buffers) /\ consumer_values \in Seq(Buffers)
      /\ hand \in [Workers -> Buffers \cup {NoBuffer}]
  BY DEF TypeInv, TypeOK
<1>1. CASE UNCHANGED <<producer_values, consumer_values, hand>>
  BY <1>1
<1>2. CASE FetchPop
  <2>1. producer_values # <<>> /\ hand[Main] = NoBuffer
    BY <1>2 DEF FetchPop, TypeInv, ControlState
  <2> QED
    BY <1>0, <1>2, <2>1, QueueFacts, ThreadFacts DEF FetchPop
<1>3. CASE FillFails
  <2>1. UNCHANGED <<producer_values, consumer_values>>
    BY <1>3 DEF FillFails, queues
  <2>2. \A u \in Workers : hand'[u] = IF u = Main THEN NoBuffer ELSE hand[u]
    BY <1>0, <1>3, ThreadFacts DEF FillFails
  <2> QED
    BY <1>0, <2>1, <2>2
<1>4. CASE Publish
  <2>1. hand[Main] \in Buffers
    BY <1>0, <1>4, ThreadFacts DEF Publish, TypeInv, ControlState
  <2> QED
    BY <1>0, <1>4, <2>1, QueueFacts, ThreadFacts DEF Publish
<1>5. ASSUME NEW c \in Consumers, TakeValue(c) PROVE ExclusiveOwnership'
  <2>1. hand[c] = NoBuffer /\ c \in Workers
    BY <1>5, ThreadFacts DEF TakeValue, TypeInv, ControlState
  <2> QED
    BY <1>0, <1>5, <2>1, QueueFacts, ThreadFacts DEF TakeValue
<1>6. ASSUME NEW c \in Consumers, WorkFails(c) PROVE ExclusiveOwnership'
  <2>1. UNCHANGED <<producer_values, consumer_values>>
    BY <1>6 DEF WorkFails, queues
  <2>2. \A u \in Workers : hand'[u] = IF u = c THEN NoBuffer ELSE hand[u]
    BY <1>0, <1>6, ThreadFacts DEF WorkFails
  <2> QED
    BY <1>0, <2>1, <2>2
<1>7. ASSUME NEW c \in Consumers, GiveBack(c) PROVE ExclusiveOwnership'
  <2>1. hand[c] \in Buffers /\ c \in Workers
    BY <1>0, <1>7, ThreadFacts DEF GiveBack, TypeInv, ControlState
  <2>2. producer_values' = Append(producer_values, hand[c])
    BY <1>7 DEF GiveBack, PushedBack
  <2> QED
    BY <1>0, <1>7, <2>1, <2>2, QueueFacts, ThreadFacts DEF GiveBack
<1>8. \/ UNCHANGED <<producer_values, consumer_values, hand>>
      \/ FetchPop \/ FillFails \/ Publish
      \/ \E c \in Consumers : TakeValue(c) \/ WorkFails(c) \/ GiveBack(c)
  <2>1. CASE MainStep
    BY <2>1
    DEF MainStep, DecodeFrame, DecodeEnds, DecodeFails, FetchStopped, FetchAvailable, FetchEmpty,
                FetchBlock, Fill, Announce, queues, buffers
  <2>2. CASE \E c \in Consumers : ConsumerStep(c)
    BY <2>2 DEF ConsumerStep, Construct, ConstructFails, TakeStopped, TakeBlock, Work, Settle,
                Recycle, Flush, queues, buffers
  <2>3. CASE \E t \in Threads : ShutdownStep(t)
    BY <2>3 DEF ShutdownStep, CloseProducer, WakeProducer, CloseConsumers, WakeConsumers,
                queues, buffers
  <2>4. CASE Interrupt \/ (\E t \in Workers : SpuriousWake(t)) \/ Finished \/ UNCHANGED vars
    BY <2>4 DEF Interrupt, SpuriousWake, Finished, vars, queues, buffers
  <2> QED
    BY <2>1, <2>2, <2>3, <2>4 DEF Next
<1> QED
  BY <1>1, <1>2, <1>3, <1>4, <1>5, <1>6, <1>7, <1>8

(* Unless an implementation of the deque loses updates, a buffer is in one *)
(* place: one of the two queues, once, or one worker's hand.               *)
THEOREM OwnershipCorrect ==
  ASSUME SharedCount = FALSE
  PROVE  Spec => []ExclusiveOwnership
<1>1. Init => ExclusiveOwnership
  BY ThreadFacts DEF Init, ExclusiveOwnership
<1>2. TypeInv /\ ExclusiveOwnership /\ [Next]_vars => ExclusiveOwnership'
  BY StepOwnership
<1> QED
  BY <1>1, <1>2, InitTypeInv, StepTypeInv, PTL DEF Spec

-----------------------------------------------------------------------------
(* The whereabouts of frames.                                              *)

(* The steps that move no frame.                                           *)
Unmoved ==
  /\ UNCHANGED <<consumer_values, frame, published, recognized, abandoned>>
  /\ Working' = Working
  /\ \A c \in Working : hand'[c] = hand[c]

(* The steps that do not move a frame leave everything about frames alone. *)
LEMMA QuietSteps ==
  ASSUME TypeInv, [Next]_vars
  PROVE  \/ Unmoved
         \/ Fill \/ Publish
         \/ \E c \in Consumers : TakeValue(c) \/ Work(c) \/ WorkFails(c)
<1> USE ThreadFacts DEF TypeInv, TypeOK, Unmoved, Working, queues, stops, mutexes, buffers, history
<1>1. CASE DecodeFrame \/ DecodeEnds \/ DecodeFails \/ FetchStopped \/ FetchAvailable \/ FetchEmpty
  BY <1>1 DEF DecodeFrame, DecodeEnds, DecodeFails, FetchStopped, FetchAvailable, FetchEmpty, GoTo
<1>2. CASE FetchPop \/ FetchBlock \/ FillFails
  BY <1>2 DEF FetchPop, FetchBlock, FillFails, GoTo
<1>3. CASE Announce
  BY <1>3 DEF Announce, NotifyConsumers
<1>4. ASSUME NEW c \in Consumers, \/ Construct(c) \/ ConstructFails(c) \/ TakeStopped(c)
                                  \/ TakeBlock(c) \/ Settle(c)
      PROVE Unmoved
  BY <1>4 DEF Construct, ConstructFails, TakeStopped, TakeBlock, Settle, GoTo
<1>5. ASSUME NEW c \in Consumers, GiveBack(c) PROVE Unmoved
  BY <1>5 DEF GiveBack, GoTo
<1>6. ASSUME NEW c \in Consumers, Recycle(c) PROVE Unmoved
  BY <1>6 DEF Recycle, NotifyProducer
<1>7. ASSUME NEW c \in Consumers, Flush(c) PROVE Unmoved
  <2>1. CASE stop_consumer
    BY <1>7, <2>1 DEF Flush, NotifyConsumers
  <2>2. CASE ~stop_consumer
    BY <1>7, <2>2 DEF Flush, GoTo
  <2> QED
    BY <2>1, <2>2
<1>8. CASE Interrupt
  BY <1>8 DEF Interrupt, GoTo
<1>9. ASSUME NEW t \in Threads, CloseProducer(t) \/ CloseConsumers(t) PROVE Unmoved
  BY <1>9 DEF CloseProducer, CloseConsumers, GoTo
<1>10. ASSUME NEW t \in Threads, WakeProducer(t) PROVE Unmoved
  BY <1>10 DEF WakeProducer, NotifyProducer
<1>11. ASSUME NEW t \in Threads, WakeConsumers(t) PROVE Unmoved
  BY <1>11 DEF WakeConsumers, NotifyConsumers
<1>12. ASSUME NEW t \in Workers, SpuriousWake(t) PROVE Unmoved
  BY <1>12 DEF SpuriousWake, GoTo
<1>13. CASE UNCHANGED vars
  BY <1>13 DEF vars
<1> QED
  BY <1>1, <1>2, <1>3, <1>4, <1>5, <1>6, <1>7, <1>8, <1>9, <1>10, <1>11, <1>12, <1>13
  DEF Next, MainStep, ConsumerStep, ShutdownStep, Finished

(* Every step keeps account of the frames.                                 *)
LEMMA StepAccounted ==
  ASSUME TypeInv, ExclusiveOwnership, FramesAccountedFor, [Next]_vars
  PROVE  FramesAccountedFor'
<1>0. /\ consumer_values \in Seq(Buffers)
      /\ hand \in [Workers -> Buffers \cup {NoBuffer}]
      /\ frame \in [Buffers -> 0 .. NumFrames]
      /\ published \in Nat
      /\ pc \in [Threads -> ShutdownSteps \cup ProducerSteps \cup ConsumerSteps \cup {"armed"}]
      /\ \A c \in Working : c \in Workers /\ hand[c] \in Buffers
  BY ThreadFacts, SizesAssumption DEF TypeInv, TypeOK, ControlState, Working
<1>a. Taken >= 0 /\ \A i \in DOMAIN consumer_values : frame[consumer_values[i]] = Taken + i
  BY DEF FramesAccountedFor
<1>1. CASE Unmoved
  <2>1. {frame[hand[c]] : c \in Working}' = {frame[hand[c]] : c \in Working}
    BY <1>1 DEF Unmoved
  <2> QED
    BY <1>1, <2>1 DEF Unmoved, FramesAccountedFor, Taken
<1>2. CASE Fill
  <2>1. /\ UNCHANGED <<consumer_values, published, recognized, abandoned, hand>>
        /\ Working' = Working
    BY <1>0, <1>2, ThreadFacts DEF Fill, GoTo, queues, history, Working
  <2>2. hand[Main] \in Buffers
    BY <1>0, <1>2, ThreadFacts DEF Fill, TypeInv, ControlState
  <2>3. \A b \in Buffers : b # hand[Main] => frame'[b] = frame[b]
    BY <1>0, <1>2 DEF Fill
  <2>4. \A i \in DOMAIN consumer_values :
          consumer_values[i] # hand[Main] /\ consumer_values[i] \in Buffers
    BY <1>0, <2>2, ThreadFacts, QueueFacts DEF ExclusiveOwnership
  <2>5. \A c \in Working : hand[c] # hand[Main] /\ hand[c] \in Buffers
    BY <1>0, <2>2, ThreadFacts DEF ExclusiveOwnership, Working
  <2>6. {frame[hand[c]] : c \in Working}' = {frame[hand[c]] : c \in Working}
    BY <2>1, <2>3, <2>5
  <2> QED
    BY <2>1, <2>3, <2>4, <2>5, <2>6 DEF FramesAccountedFor, Taken
<1>3. CASE Publish
  <2>1. /\ UNCHANGED <<frame, recognized, abandoned>>
        /\ Working' = Working
        /\ \A c \in Working : hand'[c] = hand[c]
    BY <1>0, <1>3, ThreadFacts DEF Publish, GoTo, Working
  <2>2. /\ hand[Main] \in Buffers /\ frame[hand[Main]] = published + 1
        /\ published' = published + 1
        /\ consumer_values' = Append(consumer_values, hand[Main])
    BY <1>0, <1>3, ThreadFacts DEF Publish, TypeInv, ControlState
  <2>3. Taken' = Taken /\ Len(consumer_values) \in Nat
    BY <1>0, <2>2, QueueFacts DEF Taken
  <2>4. {frame[hand[c]] : c \in Working}' = {frame[hand[c]] : c \in Working}
    BY <2>1
  <2>5. \A i \in DOMAIN consumer_values' : frame'[consumer_values'[i]] = Taken' + i
    <3>1. /\ DOMAIN consumer_values = 1 .. Len(consumer_values)
          /\ DOMAIN consumer_values' = 1 .. Len(consumer_values) + 1
          /\ \A i \in DOMAIN consumer_values : consumer_values'[i] = consumer_values[i]
          /\ consumer_values'[Len(consumer_values) + 1] = hand[Main]
      BY <1>0, <2>2, QueueFacts
    <3>2. frame'[consumer_values'[Len(consumer_values) + 1]] = Taken' + (Len(consumer_values) + 1)
      BY <1>0, <2>1, <2>2, <2>3, <3>1 DEF Taken
    <3>3. \A i \in DOMAIN consumer_values : frame'[consumer_values'[i]] = Taken' + i
      BY <1>a, <2>1, <2>3, <3>1
    <3>4. \A i \in DOMAIN consumer_values' :
            i \in DOMAIN consumer_values \/ i = Len(consumer_values) + 1
      BY <2>3, <3>1
    <3> QED
      BY <3>2, <3>3, <3>4
  <2> QED
    BY <2>1, <2>3, <2>4, <2>5 DEF FramesAccountedFor
<1>4. ASSUME NEW c \in Consumers, TakeValue(c) PROVE FramesAccountedFor'
  <2> DEFINE b == Head(consumer_values)
  <2>1. /\ UNCHANGED <<frame, published, recognized, abandoned>>
        /\ Working' = Working \cup {c} /\ c \notin Working
        /\ \A d \in Working : hand'[d] = hand[d]
        /\ hand'[c] = b
    BY <1>0, <1>4, ThreadFacts DEF TakeValue, GoTo, Working, history
  <2>2. /\ consumer_values # <<>> /\ consumer_values' = Tail(consumer_values)
        /\ 1 \in DOMAIN consumer_values /\ b = consumer_values[1] /\ b \in Buffers
        /\ Len(consumer_values') = Len(consumer_values) - 1 /\ Len(consumer_values) \in Nat
        /\ DOMAIN consumer_values' = 1 .. Len(consumer_values) - 1
        /\ \A i \in DOMAIN consumer_values' : /\ consumer_values'[i] = consumer_values[i + 1]
                                             /\ i + 1 \in DOMAIN consumer_values
    BY <1>0, <1>4, QueueFacts DEF TakeValue
  <2>3. Taken' = Taken + 1 /\ frame[b] = Taken + 1 /\ Taken \in Nat
    BY <1>0, <1>a, <2>1, <2>2 DEF Taken
  <2>4. {frame[hand[d]] : d \in Working}' = {frame[hand[d]] : d \in Working} \cup {Taken + 1}
    BY <2>1, <2>3
  <2>5. \A i \in DOMAIN consumer_values' : frame'[consumer_values'[i]] = Taken' + i
    BY <2>1, <2>2, <2>3 DEF FramesAccountedFor
  <2>6. (recognized \cup abandoned \cup {frame[hand[d]] : d \in Working})' = 1 .. Taken'
    BY <2>1, <2>3, <2>4 DEF FramesAccountedFor
  <2>7. \A f \in recognized \cup abandoned \cup {frame[hand[d]] : d \in Working} : f # Taken + 1
    BY <2>3 DEF FramesAccountedFor
  <2>8. /\ (\A d \in Working : frame[hand[d]] \notin recognized \cup abandoned)'
        /\ (\A d, e \in Working : frame[hand[d]] = frame[hand[e]] => d = e)'
    BY <2>1, <2>3, <2>7 DEF FramesAccountedFor
  <2> QED
    BY <2>1, <2>3, <2>5, <2>6, <2>8 DEF FramesAccountedFor
<1>5. ASSUME NEW c \in Consumers, Work(c) \/ WorkFails(c) PROVE FramesAccountedFor'
  <2>1. /\ UNCHANGED <<consumer_values, frame, published>>
        /\ c \in Working /\ Working' = Working \ {c}
        /\ \A d \in Working' : hand'[d] = hand[d]
        /\ \/ recognized' = recognized \cup {frame[hand[c]]} /\ abandoned' = abandoned
           \/ abandoned' = abandoned \cup {frame[hand[c]]} /\ recognized' = recognized
    BY <1>0, <1>5, ThreadFacts DEF Work, WorkFails, GoTo, Working, queues, buffers
  <2>2. Taken' = Taken
    BY <2>1 DEF Taken
  <2>3. {frame[hand[d]] : d \in Working} = {frame[hand[d]] : d \in Working}' \cup {frame[hand[c]]}
    BY <2>1
  <2> QED
    BY <2>1, <2>2, <2>3 DEF FramesAccountedFor
<1> QED
  BY <1>1, <1>2, <1>3, <1>4, <1>5, QuietSteps

(* No frame is recognised twice, skipped, or overwritten before an OCR     *)
(* thread has read it, and frames are handed out in order.                 *)
THEOREM FramesCorrect ==
  ASSUME SharedCount = FALSE
  PROVE  Spec => []FramesAccountedFor
<1>1. Init => ExclusiveOwnership /\ FramesAccountedFor
  <2> SUFFICES ASSUME Init PROVE ExclusiveOwnership /\ FramesAccountedFor
      OBVIOUS
  <2>1. /\ published = 0 /\ recognized = {} /\ abandoned = {}
        /\ Len(consumer_values) = 0 /\ DOMAIN consumer_values = {}
    BY DEF Init
  <2>2. \A c \in Consumers : pc[c] = "start"
    BY ThreadFacts DEF Init
  <2>3. Working = {}
    BY <2>2 DEF Working
  <2>4. Taken = 0
    BY <2>1 DEF Taken
  <2>5. FramesAccountedFor
    BY <2>1, <2>3, <2>4 DEF FramesAccountedFor
  <2> QED
    BY <2>5, ThreadFacts DEF Init, ExclusiveOwnership
<1>2. TypeInv /\ ExclusiveOwnership /\ [Next]_vars => ExclusiveOwnership'
  BY StepOwnership
<1>3. TypeInv /\ ExclusiveOwnership /\ FramesAccountedFor /\ [Next]_vars => FramesAccountedFor'
  BY StepAccounted
<1> QED
  BY <1>1, <1>2, <1>3, InitTypeInv, StepTypeInv, PTL DEF Spec

-----------------------------------------------------------------------------
(* Wakeups of the OCR threads.                                             *)

(* Every step that puts a thread to sleep, or gives one a reason to wake,  *)
(* leaves somebody to wake it.                                             *)
LEMMA StepStranded ==
  ASSUME TypeInv, NoConsumerStranded, [Next]_vars
  PROVE  NoConsumerStranded'
<1> USE ThreadFacts DEF NoConsumerStranded
<1>0. pc \in [Threads -> ShutdownSteps \cup ProducerSteps \cup ConsumerSteps \cup {"armed"}]
  BY DEF TypeInv, TypeOK
<1>1. CASE DecodeFrame \/ DecodeEnds \/ DecodeFails \/ FetchStopped \/ FetchAvailable \/ FetchEmpty
  BY <1>0, <1>1
  DEF DecodeFrame, DecodeEnds, DecodeFails, FetchStopped, FetchAvailable, FetchEmpty, GoTo,
                    queues, stops
<1>2. CASE FetchPop \/ FetchBlock \/ Fill \/ FillFails
  BY <1>0, <1>2 DEF FetchPop, FetchBlock, Fill, FillFails, GoTo, queues, stops
<1>3. CASE Publish
  BY <1>0, <1>3 DEF Publish, GoTo
<1>4. CASE Announce
  BY <1>0, <1>4 DEF Announce, NotifyConsumers
<1>5. ASSUME NEW c \in Consumers, \/ Construct(c) \/ ConstructFails(c) \/ TakeStopped(c)
                                  \/ Work(c) \/ WorkFails(c) \/ GiveBack(c)
      PROVE  NoConsumerStranded'
  BY <1>0, <1>5 DEF Construct, ConstructFails, TakeStopped, Work, WorkFails, GiveBack, GoTo,
                    queues, stops
<1>6. ASSUME NEW c \in Consumers, TakeValue(c) PROVE NoConsumerStranded'
  BY <1>0, <1>6 DEF TakeValue, GoTo, stops
<1>7. ASSUME NEW c \in Consumers, TakeBlock(c) PROVE NoConsumerStranded'
  BY <1>0, <1>7 DEF TakeBlock, GoTo, queues, stops
<1>8. ASSUME NEW c \in Consumers, Settle(c) PROVE NoConsumerStranded'
  BY <1>0, <1>8 DEF Settle, GoTo, queues
<1>9. ASSUME NEW c \in Consumers, Recycle(c) PROVE NoConsumerStranded'
  BY <1>0, <1>9 DEF Recycle, NotifyProducer, queues, stops
<1>10. ASSUME NEW c \in Consumers, Flush(c) PROVE NoConsumerStranded'
  <2>1. CASE stop_consumer
    BY <1>0, <1>10, <2>1 DEF Flush, NotifyConsumers
  <2>2. CASE ~stop_consumer
    BY <1>0, <1>10, <2>2 DEF Flush, GoTo, queues, stops
  <2> QED
    BY <2>1, <2>2
<1>11. CASE Interrupt
  BY <1>0, <1>11 DEF Interrupt, GoTo, queues, stops
<1>12. ASSUME NEW t \in Threads, CloseProducer(t) PROVE NoConsumerStranded'
  BY <1>0, <1>12 DEF CloseProducer, GoTo, queues
<1>13. ASSUME NEW t \in Threads, WakeProducer(t) PROVE NoConsumerStranded'
  BY <1>0, <1>13 DEF WakeProducer, NotifyProducer, queues, stops
<1>14. ASSUME NEW t \in Threads, CloseConsumers(t) PROVE NoConsumerStranded'
  BY <1>0, <1>14 DEF CloseConsumers, GoTo, queues
<1>15. ASSUME NEW t \in Threads, WakeConsumers(t) PROVE NoConsumerStranded'
  BY <1>0, <1>15 DEF WakeConsumers, NotifyConsumers
<1>16. ASSUME NEW t \in Workers, SpuriousWake(t) PROVE NoConsumerStranded'
  BY <1>0, <1>16 DEF SpuriousWake, GoTo, queues, stops
<1>17. CASE UNCHANGED vars
  BY <1>17 DEF vars, queues, stops
<1> QED
  BY <1>1, <1>2, <1>3, <1>4, <1>5, <1>6, <1>7, <1>8, <1>9, <1>10, <1>11, <1>12, <1>13,
     <1>14, <1>15, <1>16, <1>17
  DEF Next, MainStep, ConsumerStep, ShutdownStep, Finished

(* An OCR thread never sleeps through its wakeup, for any number of them   *)
(* and for every implementation of the deque.                              *)
THEOREM NoConsumerStrandedCorrect == Spec => []NoConsumerStranded
<1>1. Init => NoConsumerStranded
  BY ThreadFacts DEF Init, NoConsumerStranded
<1>2. TypeInv /\ NoConsumerStranded /\ [Next]_vars => NoConsumerStranded'
  BY StepStranded
<1> QED
  BY <1>1, <1>2, InitTypeInv, StepTypeInv, PTL DEF Spec

-----------------------------------------------------------------------------
(* ValueQueue implements FramePipeline.                                    *)

(* The sequence of the frame numbers in a queue.                           *)
LEMMA PendingFacts ==
  ASSUME NEW q \in Seq(Buffers), NEW f \in [Buffers -> 0 .. NumFrames],
         NEW p, p = [i \in DOMAIN q |-> f[q[i]]]
  PROVE  /\ p \in Seq(0 .. NumFrames) /\ Len(p) = Len(q) /\ DOMAIN p = 1 .. Len(q)
         /\ \A i \in 1 .. Len(q) : p[i] = f[q[i]]
<1>1. DOMAIN q = 1 .. Len(q) /\ Len(q) \in Nat /\ \A i \in 1 .. Len(q) : q[i] \in Buffers
  BY QueueFacts
<1>2. p \in [1 .. Len(q) -> 0 .. NumFrames]
  BY <1>1
<1>3. p \in Seq(0 .. NumFrames) /\ Len(p) = Len(q)
  BY <1>1, <1>2
<1> QED
  BY <1>1, <1>3

(* How a step changes the two flags.                                       *)
LEMMA StopSteps ==
  ASSUME TypeInv, [Next]_vars
  PROVE  /\ \/ UNCHANGED stops
            \/ stop_producer' = TRUE /\ UNCHANGED stop_consumer
            \/ /\ stop_consumer' = TRUE /\ stop_producer = TRUE /\ UNCHANGED stop_producer
               /\ consumer_values = <<>>
         /\ \/ Fill \/ Publish \/ \E c \in Consumers : TakeValue(c) \/ Work(c) \/ WorkFails(c)
            => UNCHANGED stops
<1> USE DEF stops
<1>0. stop_producer \in BOOLEAN /\ stop_consumer \in BOOLEAN
  BY DEF TypeInv, TypeOK
<1>1. CASE MainStep
  BY <1>1
  DEF MainStep, DecodeFrame, DecodeEnds, DecodeFails, FetchStopped, FetchAvailable, FetchEmpty,
              FetchPop, FetchBlock, Fill, FillFails, Publish, Announce
<1>2. ASSUME NEW c \in Consumers, Settle(c)
      PROVE  \/ UNCHANGED stops
             \/ /\ stop_consumer' = TRUE /\ stop_producer = TRUE /\ UNCHANGED stop_producer
                /\ consumer_values = <<>>
  BY <1>0, <1>2 DEF Settle
<1>3. ASSUME NEW c \in Consumers, ConsumerStep(c), ~Settle(c) PROVE UNCHANGED stops
  BY <1>3 DEF ConsumerStep, Construct, ConstructFails, TakeStopped, TakeValue, TakeBlock,
              Work, WorkFails, GiveBack, Recycle, Flush
<1>4. ASSUME NEW t \in Threads, CloseConsumers(t)
      PROVE  \/ UNCHANGED stops
             \/ /\ stop_consumer' = TRUE /\ stop_producer = TRUE /\ UNCHANGED stop_producer
                /\ consumer_values = <<>>
  <2>1. stop_producer = TRUE
    BY <1>0, <1>4 DEF CloseConsumers, TypeInv, ControlState
  <2> QED
    BY <1>0, <1>4, <2>1 DEF CloseConsumers
<1>5. ASSUME NEW t \in Threads, ShutdownStep(t), ~CloseConsumers(t)
      PROVE  \/ UNCHANGED stops
             \/ stop_producer' = TRUE /\ UNCHANGED stop_consumer
  BY <1>5 DEF ShutdownStep, CloseProducer, WakeProducer, WakeConsumers
<1>6. CASE Interrupt \/ (\E t \in Workers : SpuriousWake(t)) \/ Finished \/ UNCHANGED vars
  BY <1>6 DEF Interrupt, SpuriousWake, Finished, vars
<1>7. Fill \/ Publish \/ (\E c \in Consumers : TakeValue(c) \/ Work(c) \/ WorkFails(c))
        => UNCHANGED stops
  BY DEF Fill, Publish, TakeValue, Work, WorkFails
<1> QED
  BY <1>1, <1>2, <1>3, <1>4, <1>5, <1>6, <1>7 DEF Next

(* The initial state maps to the initial state of the pipeline.            *)
LEMMA InitRefines == Init => Pipeline!PInit
<1> SUFFICES ASSUME Init PROVE Pipeline!PInit
    OBVIOUS
<1>1. PendingFrames = <<>>
  BY DEF Init, PendingFrames
<1>2. BusyFrames = [c \in Consumers |-> Pipeline!Idle]
  BY ThreadFacts DEF Init, BusyFrames, Pipeline!Idle
<1> QED
  BY <1>1, <1>2 DEF Init, Pipeline!PInit

(* Every step maps to a step of the pipeline, or to a stutter.             *)
LEMMA StepRefines ==
  ASSUME TypeInv, ExclusiveOwnership, FramesAccountedFor, [Next]_vars
  PROVE  [Pipeline!PNext]_Pipeline!pvars
<1> USE DEF Pipeline!pvars
<1>0. /\ consumer_values \in Seq(Buffers)
      /\ hand \in [Workers -> Buffers \cup {NoBuffer}]
      /\ frame \in [Buffers -> 0 .. NumFrames]
      /\ published \in 0 .. NumFrames
      /\ decoded \in 0 .. NumFrames
      /\ pc \in [Threads -> ShutdownSteps \cup ProducerSteps \cup ConsumerSteps \cup {"armed"}]
      /\ \A c \in Working : c \in Workers /\ hand[c] \in Buffers
  BY ThreadFacts, SizesAssumption DEF TypeInv, TypeOK, ControlState, Working
<1>1. CASE Unmoved
  <2>1. PendingFrames' = PendingFrames
    BY <1>1 DEF Unmoved, PendingFrames
  <2>2. BusyFrames' = BusyFrames
    BY <1>1 DEF Unmoved, BusyFrames, Working
  <2>3. CASE UNCHANGED stops
    BY <1>1, <2>1, <2>2, <2>3 DEF Unmoved, stops
  <2>4. CASE stop_producer' = TRUE /\ UNCHANGED stop_consumer
    BY <1>1, <2>1, <2>2, <2>4 DEF Unmoved, Pipeline!PNext, Pipeline!PStop
  <2>5. CASE /\ stop_consumer' = TRUE /\ stop_producer = TRUE /\ UNCHANGED stop_producer
             /\ consumer_values = <<>>
    <3>1. PendingFrames = <<>>
      BY <2>5 DEF PendingFrames
    <3> QED
      BY <1>1, <2>1, <2>2, <2>5, <3>1 DEF Unmoved, Pipeline!PNext, Pipeline!PClose
  <2> QED
    BY <2>3, <2>4, <2>5, StopSteps
<1>2. CASE Fill
  <2>1. UNCHANGED <<consumer_values, published, recognized, abandoned, hand,
                    stop_producer, stop_consumer>>
    BY <1>2 DEF Fill, queues, stops, history
  <2>2. hand[Main] \in Buffers /\ \A c \in Consumers : pc'[c] = pc[c]
    BY <1>0, <1>2, ThreadFacts DEF Fill, GoTo, TypeInv, ControlState
  <2>3. \A b \in Buffers : b # hand[Main] => frame'[b] = frame[b]
    BY <1>0, <1>2 DEF Fill
  <2>4. \A i \in DOMAIN consumer_values : frame'[consumer_values[i]] = frame[consumer_values[i]]
    BY <1>0, <2>2, <2>3, ThreadFacts, QueueFacts DEF ExclusiveOwnership
  <2>5. \A c \in Consumers : pc[c] = "work" => frame'[hand[c]] = frame[hand[c]]
    BY <1>0, <2>2, <2>3, ThreadFacts DEF ExclusiveOwnership, Working
  <2>6. PendingFrames' = PendingFrames
    BY <2>1, <2>4 DEF PendingFrames
  <2>7. BusyFrames' = BusyFrames
    BY <2>1, <2>2, <2>5 DEF BusyFrames
  <2> QED
    BY <2>1, <2>6, <2>7
<1>3. CASE Publish
  <2>1. /\ UNCHANGED <<frame, recognized, abandoned, stop_producer, stop_consumer>>
        /\ \A c \in Consumers : pc'[c] = pc[c] /\ hand'[c] = hand[c]
    BY <1>0, <1>3, ThreadFacts DEF Publish, GoTo, stops
  <2>2. /\ hand[Main] \in Buffers /\ frame[hand[Main]] = published + 1
        /\ published' = published + 1 /\ published < NumFrames
        /\ consumer_values' = Append(consumer_values, hand[Main])
    BY <1>0, <1>3, ThreadFacts, SizesAssumption DEF Publish, TypeInv, ControlState
  <2>3. BusyFrames' = BusyFrames
    BY <2>1 DEF BusyFrames
  <2>4. PendingFrames' = Append(PendingFrames, published + 1)
    <3> DEFINE q == consumer_values
               r == consumer_values'
               p == PendingFrames
    <3>1. r \in Seq(Buffers) /\ Len(r) = Len(q) + 1 /\ Len(q) \in Nat
          /\ r[Len(q) + 1] = hand[Main] /\ \A i \in 1 .. Len(q) : r[i] = q[i]
      BY <1>0, <2>2, QueueFacts
    <3>2. /\ p \in Seq(0 .. NumFrames) /\ Len(p) = Len(q)
          /\ \A i \in 1 .. Len(q) : p[i] = frame[q[i]]
      <4>1. p = [i \in DOMAIN q |-> frame[q[i]]]
        BY DEF PendingFrames
      <4> HIDE DEF q, p
      <4> QED
        BY <1>0, <4>1, PendingFacts DEF q
    <3>3. /\ p' \in Seq(0 .. NumFrames) /\ Len(p') = Len(r)
          /\ \A i \in 1 .. Len(r) : p'[i] = frame[r[i]]
      <4>1. p' = [i \in DOMAIN r |-> frame[r[i]]]
        BY <2>1 DEF PendingFrames
      <4> HIDE DEF r, p
      <4> QED
        BY <1>0, <3>1, <4>1, PendingFacts
    <3>4. published + 1 \in 0 .. NumFrames
      BY <1>0, <2>2, SizesAssumption
    <3> DEFINE a == Append(p, published + 1)
    <3>5. /\ a \in Seq(0 .. NumFrames) /\ Len(a) = Len(p) + 1
          /\ \A i \in 1 .. Len(p) : a[i] = p[i]
          /\ a[Len(p) + 1] = published + 1
      BY <3>2, <3>4
    <3>6. \A i \in 1 .. Len(r) : p'[i] = a[i]
      <4>1. \A i \in 1 .. Len(q) : p'[i] = a[i]
        BY <3>1, <3>2, <3>3, <3>5
      <4>2. p'[Len(q) + 1] = a[Len(q) + 1]
        BY <2>2, <3>1, <3>2, <3>3, <3>5
      <4>3. \A i \in 1 .. Len(r) : i \in 1 .. Len(q) \/ i = Len(q) + 1
        BY <3>1
      <4> HIDE DEF r, p, a
      <4> QED
        BY <4>1, <4>2, <4>3
    <3> QED
      BY <3>1, <3>2, <3>3, <3>5, <3>6, SeqEqual
  <2> QED
    BY <2>1, <2>2, <2>3, <2>4 DEF Pipeline!PNext, Pipeline!PPublish
<1>4. ASSUME NEW c \in Consumers, TakeValue(c) PROVE Pipeline!PNext
  <2>1. /\ UNCHANGED <<frame, published, recognized, abandoned, stop_producer, stop_consumer>>
        /\ pc[c] = "take" /\ ~stop_consumer /\ pc'[c] = "work"
        /\ hand'[c] = Head(consumer_values)
        /\ \A d \in Consumers \ {c} : pc'[d] = pc[d] /\ hand'[d] = hand[d]
    BY <1>0, <1>4, ThreadFacts DEF TakeValue, GoTo, stops, history
  <2>2. consumer_values # <<>> /\ consumer_values' = Tail(consumer_values)
    BY <1>4 DEF TakeValue
  <2> DEFINE q == consumer_values
             r == consumer_values'
             p == PendingFrames
  <2>3. /\ r \in Seq(Buffers) /\ Len(r) = Len(q) - 1 /\ Len(q) \in Nat \ {0}
        /\ Head(q) = q[1] /\ \A i \in 1 .. Len(r) : r[i] = q[i + 1]
    BY <1>0, <2>2, QueueFacts
  <2>4. /\ p \in Seq(0 .. NumFrames) /\ Len(p) = Len(q)
        /\ \A i \in 1 .. Len(q) : p[i] = frame[q[i]]
    <3>1. p = [i \in DOMAIN q |-> frame[q[i]]]
      BY DEF PendingFrames
    <3> HIDE DEF q, p
    <3> QED
      BY <1>0, <3>1, PendingFacts DEF q
  <2>5. /\ p' \in Seq(0 .. NumFrames) /\ Len(p') = Len(r)
        /\ \A i \in 1 .. Len(r) : p'[i] = frame[r[i]]
    <3>1. p' = [i \in DOMAIN r |-> frame[r[i]]]
      BY <2>1 DEF PendingFrames
    <3>2. frame \in [Buffers -> 0 .. NumFrames] /\ r \in Seq(Buffers)
      BY <1>0, <2>3
    <3> HIDE DEF r, p
    <3> QED
      BY <3>1, <3>2, PendingFacts
  <2>6. p # <<>> /\ Head(p) = frame[Head(q)]
    BY <2>3, <2>4
  <2>7. p' = Tail(p)
    <3>1. /\ Tail(p) \in Seq(0 .. NumFrames) /\ Len(Tail(p)) = Len(p) - 1
          /\ \A i \in 1 .. Len(p) - 1 : Tail(p)[i] = p[i + 1]
      BY <2>4, <2>6, HeadTailProperties
    <3>2. \A i \in 1 .. Len(r) : p'[i] = Tail(p)[i]
      BY <2>3, <2>4, <2>5, <3>1
    <3> QED
      BY <2>3, <2>4, <2>5, <3>1, <3>2, SeqEqual
  <2>8. BusyFrames[c] = Pipeline!Idle
    BY <2>1 DEF BusyFrames, Pipeline!Idle
  <2>9. BusyFrames' = [BusyFrames EXCEPT ![c] = Head(p)]
    BY <2>1, <2>6 DEF BusyFrames
  <2> QED
    BY <2>1, <2>6, <2>7, <2>8, <2>9 DEF Pipeline!PNext, Pipeline!PTake
<1>5. ASSUME NEW c \in Consumers, Work(c) \/ WorkFails(c) PROVE Pipeline!PNext
  <2>1. /\ UNCHANGED <<consumer_values, frame, published, stop_producer, stop_consumer>>
        /\ pc[c] = "work" /\ pc'[c] # "work"
        /\ \A d \in Consumers \ {c} : pc'[d] = pc[d] /\ hand'[d] = hand[d]
    BY <1>0, <1>5, ThreadFacts DEF Work, WorkFails, GoTo, queues, stops, buffers
  <2>2. \/ recognized' = recognized \cup {frame[hand[c]]} /\ abandoned' = abandoned
        \/ abandoned' = abandoned \cup {frame[hand[c]]} /\ recognized' = recognized
    BY <1>5 DEF Work, WorkFails
  <2>3. frame[hand[c]] # Pipeline!Idle
    <3>1. c \in Working
      BY <2>1 DEF Working
    <3>2. Taken \in Int /\ frame[hand[c]] \in 1 .. Taken
      BY <1>0, <3>1, QueueFacts DEF FramesAccountedFor, Taken
    <3> QED
      BY <3>2 DEF Pipeline!Idle
  <2>4. BusyFrames[c] = frame[hand[c]]
    BY <2>1 DEF BusyFrames
  <2>5. BusyFrames' = [BusyFrames EXCEPT ![c] = Pipeline!Idle]
    BY <2>1 DEF BusyFrames, Pipeline!Idle
  <2>6. PendingFrames' = PendingFrames
    BY <2>1 DEF PendingFrames
  <2> QED
    BY <2>1, <2>2, <2>3, <2>4, <2>5, <2>6 DEF Pipeline!PNext, Pipeline!PFinish, Pipeline!PAbandon
<1> QED
  BY <1>1, <1>2, <1>3, <1>4, <1>5, QuietSteps

(* Unless an implementation of the deque loses updates, the queue and its  *)
(* threads hand frames over the way FramePipeline promises.                *)
THEOREM QueueImplementsPipeline ==
  ASSUME SharedCount = FALSE
  PROVE  Spec => HandsFramesOver
<1>1. TypeInv /\ ExclusiveOwnership /\ FramesAccountedFor /\ [Next]_vars
        => [Pipeline!PNext]_Pipeline!pvars
  BY StepRefines
<1>2. Spec => []TypeInv
  BY InitTypeInv, StepTypeInv, PTL DEF Spec
<1> QED
  BY <1>1, <1>2, InitRefines, OwnershipCorrect, FramesCorrect, PTL
  DEF Spec, HandsFramesOver, Pipeline!PSpec

-----------------------------------------------------------------------------
(* The process around the queue.                                           *)

(* Something other than the end of the video has asked the queue to stop.  *)
Early == stopping \/ thrown # {}

(* Main() makes two buffers for each OCR thread: without a thread there is *)
(* no buffer, and the first frame is never handed over.                    *)
BuffersFollowThreads == Consumers = {} => MaxObjects = 0

(* What the outcome records, against where the threads are.                *)
OutcomeRecorded ==
  /\ \A t \in thrown : pc[t] \in ShutdownSteps
  /\ \A t \in thrown : pc[t] = "done" => final_text # "Done!"
  /\ pc[Signal] # "armed" => stopping
  /\ stopping => final_text # "Done!"
  /\ \A c \in Consumers : pc[c] \in {"close", "wake", "drain", "release"} => c \in thrown
  /\ \A c \in Consumers : pc[c] = "done" => c \in thrown \/ stop_consumer
  /\ pc[Main] = "done" => Main \in thrown \/ done
  /\ abandoned # {} => thrown # {}

(* A process that is not asked to stop early closes the queue only behind  *)
(* the last frame, and turns its OCR threads away only with none pending.  *)
ClosedBehindTheLast ==
  ~Early =>
    /\ stop_producer => pc[Main] \in ShutdownSteps
    /\ pc[Main] \in ShutdownSteps => decoded = published
    /\ stop_consumer => consumer_values = <<>>

(* The phases of main() come after the ends of the threads.                *)
PhaseRecorded ==
  /\ phase # "running" => \A t \in Workers : pc[t] = "done"
  /\ phase = "exited" => exit_code = IF done /\ ~stopping THEN "success" ELSE "failure"

OutcomeInv == RTypeOK /\ OutcomeRecorded /\ ClosedBehindTheLast /\ PhaseRecorded

(* Each step of the process is a step of its queue, or leaves it alone.    *)
LEMMA StepIsQueueStep == [RNext]_rvars => [Next]_vars
<1> SUFFICES ASSUME [RNext]_rvars PROVE [Next]_vars
    OBVIOUS
<1>1. CASE QueueStep
  BY <1>1, ThreadFacts DEF QueueStep, Next, MainStep, ConsumerStep, ShutdownStep
<1>2. CASE HandleSignal
  BY <1>2 DEF HandleSignal, Next
<1>3. CASE \E t \in Workers : Throw(t)
  BY <1>3 DEF Throw, Next, MainStep, ConsumerStep
<1>4. CASE \E t \in Threads : LeaveShutdown(t)
  BY <1>4 DEF LeaveShutdown, Next, ShutdownStep
<1>5. CASE JoinConsumers \/ StopSignals \/ Exit \/ RFinished \/ UNCHANGED rvars
  BY <1>5 DEF JoinConsumers, StopSignals, Exit, RFinished, rvars
<1> QED
  BY <1>1, <1>2, <1>3, <1>4, <1>5 DEF RNext

LEMMA InitOutcomeInv == RInit => OutcomeInv
<1> SUFFICES ASSUME RInit PROVE OutcomeInv
    OBVIOUS
<1>1. /\ pc[Main] = "decode" /\ pc[Signal] = "armed"
      /\ \A c \in Consumers : pc[c] = "start"
  BY ThreadFacts DEF RInit, Init
<1> QED
  BY <1>1 DEF RInit, Init, OutcomeInv, RTypeOK, OutcomeRecorded, ClosedBehindTheLast,
              PhaseRecorded, Early, ShutdownSteps

(* The threads' own steps keep it.                                         *)
LEMMA QueueStepOutcomeInv == TypeInv /\ OutcomeInv /\ QueueStep => OutcomeInv'
<1> SUFFICES ASSUME TypeInv, OutcomeInv, QueueStep PROVE OutcomeInv'
    OBVIOUS
<1> USE ThreadFacts DEF TypeInv, TypeOK, ControlState, ShutdownSteps, ProducerSteps, ConsumerSteps,
        OutcomeInv, RTypeOK, OutcomeRecorded, ClosedBehindTheLast, PhaseRecorded, Early,
        GoTo, NotifyConsumers, NotifyProducer,
        outcome, queues, stops, mutexes, buffers, history
<1>0. UNCHANGED outcome
  BY DEF QueueStep
<1>1. CASE DecodeFrame
  BY <1>0, <1>1 DEF DecodeFrame
<1>2. CASE DecodeEnds
  BY <1>0, <1>2 DEF DecodeEnds
<1>3. CASE FetchStopped
  BY <1>0, <1>3 DEF FetchStopped
<1>4. CASE FetchAvailable
  BY <1>0, <1>4 DEF FetchAvailable
<1>5. CASE FetchEmpty
  BY <1>0, <1>5 DEF FetchEmpty
<1>6. CASE FetchPop
  BY <1>0, <1>6 DEF FetchPop
<1>7. CASE FetchBlock
  BY <1>0, <1>7 DEF FetchBlock
<1>8. CASE Fill
  BY <1>0, <1>8 DEF Fill
<1>9. CASE Publish
  BY <1>0, <1>9 DEF Publish
<1>10. CASE Announce
  BY <1>0, <1>10 DEF Announce
<1>11. ASSUME NEW c \in Consumers, Construct(c) PROVE OutcomeInv'
  BY <1>0, <1>11 DEF Construct
<1>12. ASSUME NEW c \in Consumers, TakeStopped(c) PROVE OutcomeInv'
  BY <1>0, <1>12 DEF TakeStopped
<1>13. ASSUME NEW c \in Consumers, TakeValue(c) PROVE OutcomeInv'
  BY <1>0, <1>13 DEF TakeValue
<1>14. ASSUME NEW c \in Consumers, TakeBlock(c) PROVE OutcomeInv'
  BY <1>0, <1>14 DEF TakeBlock
<1>15. ASSUME NEW c \in Consumers, Work(c) PROVE OutcomeInv'
  BY <1>0, <1>15 DEF Work
<1>16. ASSUME NEW c \in Consumers, GiveBack(c) PROVE OutcomeInv'
  BY <1>0, <1>16 DEF GiveBack
<1>17. ASSUME NEW c \in Consumers, Settle(c) PROVE OutcomeInv'
  BY <1>0, <1>17 DEF Settle
<1>18. ASSUME NEW c \in Consumers, Recycle(c) PROVE OutcomeInv'
  BY <1>0, <1>18 DEF Recycle
<1>19. ASSUME NEW c \in Consumers, Flush(c) PROVE OutcomeInv'
  <2>1. /\ \A t \in Threads : \/ pc'[t] = pc[t]
                              \/ pc[t] \in {"flush", "asleep"} /\ pc'[t] = "take" /\ t \in Consumers
        /\ UNCHANGED <<queues, stops, mutexes, buffers, history>>
    <3>1. CASE stop_consumer
      BY <1>19, <3>1 DEF Flush
    <3>2. CASE ~stop_consumer
      BY <1>19, <3>2 DEF Flush
    <3> QED
      BY <3>1, <3>2
  <2>2. OutcomeRecorded'
    BY <1>0, <2>1
  <2>3. ClosedBehindTheLast'
    BY <1>0, <2>1
  <2>4. PhaseRecorded'
    BY <1>0, <2>1
  <2>5. RTypeOK'
    BY <1>0
  <2> QED
    BY <2>2, <2>3, <2>4, <2>5
<1>20. ASSUME NEW t \in Threads, CloseProducer(t) PROVE OutcomeInv'
  BY <1>0, <1>20 DEF CloseProducer, Threads, Workers
<1>21. ASSUME NEW t \in Threads, WakeProducer(t) PROVE OutcomeInv'
  BY <1>0, <1>21 DEF WakeProducer, Threads, Workers
<1>22. ASSUME NEW t \in Threads, CloseConsumers(t) PROVE OutcomeInv'
  BY <1>0, <1>22 DEF CloseConsumers, Threads, Workers
<1>23. ASSUME NEW t \in Workers, SpuriousWake(t) PROVE OutcomeInv'
  BY <1>0, <1>23 DEF SpuriousWake, Workers
<1> QED
  BY <1>1, <1>2, <1>3, <1>4, <1>5, <1>6, <1>7, <1>8, <1>9, <1>10, <1>11, <1>12, <1>13, <1>14,
     <1>15, <1>16, <1>17, <1>18, <1>19, <1>20, <1>21, <1>22, <1>23
  DEF QueueStep

(* An exception is recorded before its thread shuts the queue down.        *)
LEMMA ThrowOutcomeInv ==
  ASSUME TypeInv, OutcomeInv, NEW t \in Workers, Throw(t)
  PROVE  OutcomeInv'
<1> USE ThreadFacts DEF TypeInv, TypeOK, ControlState, ShutdownSteps, ProducerSteps, ConsumerSteps,
        OutcomeInv, RTypeOK, OutcomeRecorded, ClosedBehindTheLast, PhaseRecorded, Early,
        GoTo, queues, stops, mutexes, buffers, history
<1>0. thrown' = thrown \cup {t} /\ UNCHANGED <<done, stopping, final_text, phase, exit_code>>
  BY DEF Throw
<1>1. CASE t = Main /\ DecodeFails
  BY <1>0, <1>1 DEF DecodeFails
<1>2. CASE t = Main /\ FillFails
  BY <1>0, <1>2 DEF FillFails
<1>3. CASE t \in Consumers /\ ConstructFails(t)
  BY <1>0, <1>3 DEF ConstructFails
<1>4. CASE t \in Consumers /\ WorkFails(t)
  BY <1>0, <1>4 DEF WorkFails
<1> QED
  BY <1>1, <1>2, <1>3, <1>4 DEF Throw

(* A thread that leaves shutdown() has told main() how it ended.           *)
LEMMA LeaveOutcomeInv ==
  ASSUME TypeInv, OutcomeInv, NEW t \in Threads, LeaveShutdown(t)
  PROVE  OutcomeInv'
<1> USE ThreadFacts DEF TypeInv, TypeOK, ControlState, ShutdownSteps, ProducerSteps, ConsumerSteps,
        OutcomeInv, RTypeOK, OutcomeRecorded, ClosedBehindTheLast, PhaseRecorded, Early,
        NotifyConsumers, queues, stops, mutexes, buffers, history
<1>1. CASE t \in thrown
  BY <1>1 DEF LeaveShutdown, WakeConsumers, Threads, Workers
<1>2. CASE t \notin thrown
  BY <1>2 DEF LeaveShutdown, WakeConsumers, Threads, Workers
<1> QED
  BY <1>1, <1>2

(* So do the steps of main() and of the signal handler.                    *)
LEMMA StepOutcomeInv == TypeInv /\ OutcomeInv /\ [RNext]_rvars => OutcomeInv'
<1> SUFFICES ASSUME TypeInv, OutcomeInv, [RNext]_rvars PROVE OutcomeInv'
    OBVIOUS
<1>1. CASE QueueStep
  BY <1>1, QueueStepOutcomeInv
<1>2. CASE \E t \in Workers : Throw(t)
  BY <1>2, ThrowOutcomeInv
<1>3. CASE \E t \in Threads : LeaveShutdown(t)
  BY <1>3, LeaveOutcomeInv
<1> USE ThreadFacts DEF TypeInv, TypeOK, ControlState, ShutdownSteps,
        OutcomeInv, RTypeOK, OutcomeRecorded, ClosedBehindTheLast, PhaseRecorded, Early
<1>4. CASE HandleSignal
  BY <1>4 DEF HandleSignal, Interrupt, GoTo, queues, stops, mutexes, buffers, history
<1>5. CASE JoinConsumers
  BY <1>5 DEF JoinConsumers, vars, queues, stops, history
<1>6. CASE StopSignals
  BY <1>6 DEF StopSignals, vars, queues, stops, history
<1>7. CASE Exit
  BY <1>7 DEF Exit, vars, queues, stops, history
<1>8. CASE RFinished \/ UNCHANGED rvars
  BY <1>8 DEF RFinished, rvars, outcome, vars, queues, stops, history
<1> QED
  BY <1>1, <1>2, <1>3, <1>4, <1>5, <1>6, <1>7, <1>8 DEF RNext

(* What the invariants say of a process that has exited with "Done!".      *)
LEMMA DoneFollows ==
  ASSUME BuffersFollowThreads, TypeInv, OutcomeInv, FramesAccountedFor,
         phase = "exited", final_text = "Done!"
  PROVE  exit_code = "success" /\ Complete
<1>1. \A t \in Workers : pc[t] = "done"
  BY DEF OutcomeInv, PhaseRecorded
<1>2. ~stopping /\ thrown = {}
  BY <1>1 DEF OutcomeInv, OutcomeRecorded, RTypeOK
<1>3. exit_code = "success"
  BY <1>1, <1>2, ThreadFacts DEF OutcomeInv, OutcomeRecorded, PhaseRecorded
<1>4. decoded = published
  BY <1>1, <1>2, ThreadFacts DEF OutcomeInv, ClosedBehindTheLast, Early, ShutdownSteps
<1>5. consumer_values = <<>>
  <2>1. CASE Consumers = {}
    <3>1. Buffers = {}
      BY <2>1 DEF BuffersFollowThreads, Buffers
    <3> QED
      BY <3>1 DEF TypeInv, TypeOK
  <2>2. CASE Consumers # {}
    <3>1. PICK c \in Consumers : TRUE
      BY <2>2
    <3>2. stop_consumer
      BY <1>1, <1>2, <3>1, ThreadFacts DEF OutcomeInv, OutcomeRecorded
    <3> QED
      BY <1>2, <3>2 DEF OutcomeInv, ClosedBehindTheLast, Early
  <2> QED
    BY <2>1, <2>2
<1>6. Working = {}
  BY <1>1, ThreadFacts DEF Working
<1>7. Taken = published
  BY <1>5 DEF Taken, TypeInv, TypeOK
<1>8. abandoned = {}
  BY <1>2 DEF OutcomeInv, OutcomeRecorded
<1>9. recognized = 1 .. decoded
  BY <1>4, <1>6, <1>7, <1>8 DEF FramesAccountedFor
<1> QED
  BY <1>3, <1>9 DEF Complete

(* Unless the deque tears: when the process ends with "Done!", it ends     *)
(* with success and every frame the decoder delivered was recognised.      *)
THEOREM DoneIsTruthfulCorrect ==
  ASSUME SharedCount = FALSE, BuffersFollowThreads
  PROVE  RSpec => []DoneIsTruthful
<1>1. RInit => Init
  BY DEF RInit
<1>2. [RNext]_rvars => [Next]_vars
  BY StepIsQueueStep
<1>3. RSpec => Spec
  BY <1>1, <1>2, PTL DEF RSpec, Spec
<1>4. Spec => []FramesAccountedFor
  BY FramesCorrect
<1>5. TypeInv /\ OutcomeInv /\ FramesAccountedFor => DoneIsTruthful
  BY DoneFollows DEF DoneIsTruthful
<1> QED
  BY <1>3, <1>4, <1>5, TypeCorrect, InitOutcomeInv, StepOutcomeInv, PTL DEF RSpec
=============================================================================
