--------------------------- MODULE ProgressProofs ---------------------------
(***************************************************************************)
(* Theorems about Progress for any video, any number of OCR threads and    *)
(* runs, any crashes and failures.                                         *)
(***************************************************************************)
EXTENDS Progress, TLAPS

(* The inductive invariant.                                                *)
Inv == TypeOK /\ RunState /\ StoredOnce /\ StoredIsBehind /\ NothingSkipped

(* Frame numbers are naturals, so none is the mark for "no frame".         *)
LEMMA NumberFacts ==
  /\ \A f \in VideoFrames : f \in Nat /\ f # NoFrame
  /\ \A f \in Text : f \in VideoFrames
  /\ NoFrame \notin VideoFrames
BY FramesAssumption DEF NoFrame

(* The invariant holds of a database that was just created.                *)
LEMMA InitInv == Init => Inv
<1> SUFFICES ASSUME Init PROVE Inv
    OBVIOUS
<1>1. TypeOK
  <2>1. stored \in [VideoFrames -> Nat]
    BY DEF Init
  <2>2. pc \in [OcrThreads -> Steps] /\ frame \in [OcrThreads -> VideoFrames \cup {NoFrame}]
    BY DEF Init, Steps
  <2>3. /\ last = 0 /\ recorded = 0 /\ running = FALSE /\ start = 0 /\ max_frame_number = NoFrame
        /\ newest = NoFrame /\ again = FALSE /\ faults = 0 /\ dropped = {}
        /\ pending = <<>> /\ stopped = FALSE
    BY DEF Init
  <2>4. faults \in 0 .. MaxFaults
    BY <2>3, BoundsAssumption
  <2>5. dropped \subseteq VideoFrames /\ pending \in Seq(VideoFrames)
    BY <2>3
  <2> QED
    BY <2>1, <2>2, <2>3, <2>4, <2>5 DEF TypeOK
<1>2. RunState
  BY DEF Init, RunState, HandsInRange, PendingInOrder, NumbersAgree, AllSeen
<1>3. StoredOnce /\ StoredIsBehind /\ NothingSkipped
  BY NumberFacts DEF Init, StoredOnce, StoredIsBehind, NothingSkipped
<1> QED
  BY <1>1, <1>2, <1>3 DEF Inv

(* What a sequence is after its end or its head has changed.               *)
LEMMA AppendFacts ==
  ASSUME NEW s \in Seq(VideoFrames), NEW e \in VideoFrames
  PROVE  /\ Append(s, e) \in Seq(VideoFrames)
         /\ DOMAIN Append(s, e) = DOMAIN s \cup {Len(s) + 1}
         /\ \A i \in DOMAIN s : i \in 1 .. Len(s) /\ Append(s, e)[i] = s[i]
         /\ Append(s, e)[Len(s) + 1] = e
OBVIOUS

LEMMA TailFacts ==
  ASSUME NEW s \in Seq(VideoFrames), s # <<>>
  PROVE  /\ Tail(s) \in Seq(VideoFrames)
         /\ 1 \in DOMAIN s /\ Head(s) = s[1] /\ Head(s) \in VideoFrames
         /\ \A i \in DOMAIN Tail(s) : i \in Nat /\ i + 1 \in DOMAIN s /\ Tail(s)[i] = s[i + 1]
         /\ \A i \in DOMAIN s : i = 1 \/ (i - 1 \in DOMAIN Tail(s) /\ Tail(s)[i - 1] = s[i])
OBVIOUS

(* Sequences and hands that shrink stay in order.                          *)
LEMMA KeepsOrder ==
  ASSUME PendingInOrder, UNCHANGED <<running, start, newest, pending>>, TypeOK,
         \A w \in OcrThreads : frame'[w] \in {frame[w], NoFrame}
  PROVE  PendingInOrder'
<1>1. \A i \in DOMAIN pending : pending[i] \in Nat
  BY NumberFacts DEF TypeOK
<1> QED
  BY <1>1 DEF PendingInOrder, NoFrame

(* What leaves a hand is stored or dropped, or has no text.                *)
LEMMA KeepsSeen ==
  ASSUME AllSeen, UNCHANGED <<running, newest, pending>>, dropped \subseteq dropped',
         \A f \in Text : stored[f] > 0 => stored'[f] > 0,
         \A f \in Text : InHand(f) => stored'[f] > 0 \/ InHand(f)' \/ f \in dropped'
  PROVE  AllSeen'
BY DEF AllSeen, IsPending

LEMMA KeepsNothingSkipped ==
  ASSUME NothingSkipped, UNCHANGED last, dropped \subseteq dropped',
         \A f \in Text : stored[f] > 0 => stored'[f] > 0,
         \A f \in Text : InHand(f) => stored'[f] > 0 \/ InHand(f)' \/ f \in dropped'
  PROVE  NothingSkipped'
BY DEF NothingSkipped

(* A process that ends, in either way, leaves what concerns its run.       *)
LEMMA EndInv ==
  ASSUME Inv, running' = FALSE, pending' = <<>>, \A w \in OcrThreads : frame'[w] = NoFrame,
         \A w \in OcrThreads : pc'[w] \in {"start", "idle", "dead"},
         \A f \in Text : InHand(f) => f \in dropped',
         dropped \subseteq dropped', UNCHANGED disk, TypeOK'
  PROVE  Inv'
<1>1. RunState'
  BY DEF RunState, HandsInRange, PendingInOrder, NumbersAgree, AllSeen
<1>2. StoredOnce' /\ StoredIsBehind'
  BY DEF Inv, disk, StoredOnce, StoredIsBehind
<1>3. NothingSkipped'
  BY KeepsNothingSkipped DEF Inv, disk
<1> QED
  BY <1>1, <1>2, <1>3 DEF Inv

(* A step of a thread that neither takes a frame nor stores anything.      *)
LEMMA ThreadInv ==
  ASSUME Inv, UNCHANGED <<disk, running, session, pending>>, TypeOK', HandsInRange',
         \A w \in OcrThreads : frame'[w] \in {frame[w], NoFrame}, dropped \subseteq dropped',
         \A f \in Text : InHand(f) => stored[f] > 0 \/ InHand(f)' \/ f \in dropped'
  PROVE  Inv'
<1>1. PendingInOrder' /\ AllSeen'
  BY KeepsOrder, KeepsSeen DEF Inv, RunState, session, disk
<1>2. NumbersAgree' /\ StoredOnce' /\ StoredIsBehind'
  BY DEF Inv, RunState, NumbersAgree, session, disk, StoredOnce, StoredIsBehind
<1>3. NothingSkipped'
  BY KeepsNothingSkipped DEF Inv, disk
<1> QED
  BY <1>1, <1>2, <1>3 DEF Inv, RunState

LEMMA DeliverInv == Inv /\ Deliver => Inv'
<1> SUFFICES ASSUME Inv, Deliver PROVE Inv'
    OBVIOUS
<1> PICK f \in Deliverable : pending' = Append(pending, f) /\ newest' = f /\ again' = (f = newest)
  BY DEF Deliver
<1>1. /\ running /\ TypeOK
      /\ UNCHANGED <<last, stored, recorded, running, start, max_frame_number, stopped, pc, frame,
                    faults, dropped>>
  BY DEF Deliver, Inv, disk, threads
<1>2. /\ f \in VideoFrames /\ f \in Nat /\ f >= start /\ f >= newest
      /\ \A g \in VideoFrames : g < f => g <= newest \/ g < start
  BY NumberFacts DEF Deliverable, Inv, TypeOK
<1>3. newest \in Nat /\ start \in Nat /\ last \in Nat /\ newest >= start - 1
  BY <1>1, NumberFacts DEF Inv, TypeOK, RunState, NumbersAgree, NoFrame
<1>4. pending \in Seq(VideoFrames) /\ \A i \in DOMAIN pending : pending[i] \in Nat
  BY <1>1, NumberFacts DEF TypeOK
<1>5. /\ pending' \in Seq(VideoFrames) /\ DOMAIN pending' = DOMAIN pending \cup {Len(pending) + 1}
      /\ \A i \in DOMAIN pending : i \in 1 .. Len(pending) /\ pending'[i] = pending[i]
      /\ pending'[Len(pending) + 1] = f
  BY <1>2, <1>4, AppendFacts
<1>6. TypeOK'
  BY <1>1, <1>2, <1>5 DEF TypeOK
<1>7. HandsInRange'
  BY <1>1, <1>2, <1>3 DEF Inv, RunState, HandsInRange
<1>8. PendingInOrder'
  <2>1. \A i \in DOMAIN pending : /\ pending[i] \in start .. newest
                                  /\ \A j \in DOMAIN pending : j < i => pending[j] <= pending[i]
                                  /\ \A w \in OcrThreads : frame[w] <= pending[i]
    BY DEF Inv, RunState, PendingInOrder
  <2>2. \A w \in OcrThreads : frame[w] <= f
    BY <1>2, <1>3 DEF Inv, RunState, HandsInRange, NoFrame
  <2> SUFFICES ASSUME NEW i \in DOMAIN pending'
               PROVE  /\ pending'[i] \in start .. f
                      /\ \A j \in DOMAIN pending' : j < i => pending'[j] <= pending'[i]
                      /\ \A w \in OcrThreads : frame[w] <= pending'[i]
    BY <1>1 DEF PendingInOrder
  <2>3. CASE i \in DOMAIN pending
    <3>1. \A j \in DOMAIN pending' : j < i => j \in DOMAIN pending
      BY <1>5, <2>3
    <3> QED
      BY <1>2, <1>3, <1>4, <1>5, <2>1, <2>3, <3>1
  <2>4. CASE i = Len(pending) + 1
    <3>1. \A j \in DOMAIN pending' : j < i => pending'[j] = pending[j] /\ pending[j] <= newest
      BY <1>5, <2>1, <2>4
    <3>2. \A j \in DOMAIN pending' : j < i => pending'[j] \in Nat
      BY <1>4, <1>5, <2>4
    <3> QED
      BY <1>2, <1>3, <1>5, <2>2, <2>4, <3>1, <3>2
  <2> QED
    BY <2>3, <2>4, <1>5
<1>9. NumbersAgree' /\ StoredOnce' /\ StoredIsBehind' /\ NothingSkipped'
  BY <1>1, <1>2, <1>3
  DEF Inv, RunState, NumbersAgree, StoredOnce, StoredIsBehind, NothingSkipped, InHand
<1>10. AllSeen'
  <2> SUFFICES ASSUME NEW g \in Text, g \in 1 .. f
               PROVE  stored[g] > 0 \/ InHand(g) \/ g \in dropped \/ IsPending(g)'
    BY <1>1 DEF AllSeen, InHand
  <2>1. IsPending(g) => IsPending(g)'
    BY <1>5 DEF IsPending
  <2>2. g <= newest => stored[g] > 0 \/ InHand(g) \/ g \in dropped \/ IsPending(g)
    BY <1>1, <1>3 DEF Inv, RunState, AllSeen
  <2>3. g = f => IsPending(g)'
    BY <1>5 DEF IsPending
  <2>4. g < f => g <= newest
    BY <1>2, <1>3, NumberFacts
  <2> QED
    BY <2>1, <2>2, <2>3, <2>4, <1>2
<1> QED
  BY <1>6, <1>7, <1>8, <1>9, <1>10 DEF Inv, RunState

LEMMA TakeInv == ASSUME NEW w \in OcrThreads PROVE Inv /\ Take(w) => Inv'
<1> SUFFICES ASSUME Inv, Take(w) PROVE Inv'
    OBVIOUS
<1> DEFINE h == Head(pending)
<1>1. /\ pc[w] = "idle" /\ pending # <<>> /\ frame' = [frame EXCEPT ![w] = h]
      /\ pending' = Tail(pending) /\ pc' = [pc EXCEPT ![w] = "filter"]
      /\ UNCHANGED <<last, stored, recorded, running, start, max_frame_number, newest, again, stopped,
                    faults, dropped>>
  BY DEF Take, disk, session
<1>2. TypeOK /\ pending \in Seq(VideoFrames) /\ \A i \in DOMAIN pending : pending[i] \in Nat
  BY NumberFacts DEF Inv, TypeOK
<1>3. /\ Tail(pending) \in Seq(VideoFrames)
      /\ 1 \in DOMAIN pending /\ h = pending[1] /\ h \in VideoFrames
      /\ \A i \in DOMAIN Tail(pending) :
           i \in Nat /\ i + 1 \in DOMAIN pending /\ Tail(pending)[i] = pending[i + 1]
      /\ \A i \in DOMAIN pending :
           i = 1 \/ (i - 1 \in DOMAIN Tail(pending) /\ Tail(pending)[i - 1] = pending[i])
  <2> HIDE DEF h
  <2> QED
    BY <1>1, <1>2, TailFacts DEF h
<1> HIDE DEF h
<1>4. \A i \in DOMAIN pending : /\ pending[i] \in start .. newest
                                /\ \A j \in DOMAIN pending : j < i => pending[j] <= pending[i]
                                /\ \A u \in OcrThreads : frame[u] <= pending[i]
  BY DEF Inv, RunState, PendingInOrder
<1>5. running /\ h \in start .. newest /\ h # NoFrame
  BY <1>1, <1>3, <1>4, NumberFacts DEF Inv, RunState, PendingInOrder
<1>6. TypeOK'
  BY <1>1, <1>2, <1>3 DEF TypeOK, Steps
<1>7. HandsInRange'
  BY <1>1, <1>2, <1>5 DEF Inv, RunState, HandsInRange, TypeOK
<1>8. frame[w] = NoFrame
  BY <1>1 DEF Inv, RunState, HandsInRange
<1>9. \A f \in Text : InHand(f) => InHand(f)'
  BY <1>1, <1>2, <1>8, NumberFacts DEF InHand, TypeOK
<1>10. \A f : IsPending(f) => IsPending(f)' \/ InHand(f)'
  <2> SUFFICES ASSUME NEW f, NEW i \in DOMAIN pending, pending[i] = f
               PROVE  IsPending(f)' \/ InHand(f)'
    BY DEF IsPending
  <2>1. CASE i = 1
    BY <1>1, <1>2, <1>3, <2>1 DEF InHand, TypeOK
  <2>2. CASE i # 1
    BY <1>1, <1>3, <2>2 DEF IsPending
  <2> QED
    BY <2>1, <2>2
<1>11. PendingInOrder'
  <2> SUFFICES ASSUME NEW i \in DOMAIN Tail(pending)
               PROVE  /\ Tail(pending)[i] \in start .. newest
                      /\ \A j \in DOMAIN Tail(pending) : j < i => Tail(pending)[j] <= Tail(pending)[i]
                      /\ \A u \in OcrThreads : frame'[u] <= Tail(pending)[i]
    BY <1>1, <1>5 DEF PendingInOrder
  <2>1. i \in Nat /\ i + 1 \in DOMAIN pending /\ Tail(pending)[i] = pending[i + 1]
    BY <1>3
  <2>2. \A j \in DOMAIN Tail(pending) : j < i => Tail(pending)[j] <= pending[i + 1]
    BY <1>3, <1>4, <2>1
  <2>3. h <= pending[i + 1]
    <3>1. i + 1 = 1 \/ 1 < i + 1
      BY <2>1
    <3> QED
      BY <1>2, <1>3, <1>4, <2>1, <3>1
  <2>4. \A u \in OcrThreads : frame'[u] = IF u = w THEN h ELSE frame[u]
    BY <1>1, <1>2 DEF TypeOK
  <2> QED
    BY <1>4, <2>1, <2>2, <2>3, <2>4
<1>12. NumbersAgree' /\ StoredOnce' /\ StoredIsBehind'
  BY <1>1 DEF Inv, RunState, NumbersAgree, StoredOnce, StoredIsBehind
<1>13. AllSeen' /\ NothingSkipped'
  BY <1>1, <1>9, <1>10 DEF Inv, RunState, AllSeen, NothingSkipped
<1> QED
  BY <1>6, <1>7, <1>11, <1>12, <1>13 DEF Inv, RunState

(* Only this step moves the number on disk.                                *)
LEMMA StoreLastInv == ASSUME NEW w \in OcrThreads PROVE Inv /\ StoreLast(w) => Inv'
<1> SUFFICES ASSUME Inv, StoreLast(w) PROVE Inv'
    OBVIOUS
<1>1. /\ pc[w] = "last" /\ TypeOK
      /\ UNCHANGED <<stored, recorded, running, start, newest, again, pending, stopped, faults, dropped>>
  BY DEF StoreLast, Inv, TypeOK, queue
<1>2. /\ running /\ frame[w] \in VideoFrames /\ frame[w] \in Nat /\ frame[w] # NoFrame
      /\ frame[w] \in start .. newest /\ last \in Nat /\ start \in Nat /\ newest \in Nat \cup {NoFrame}
      /\ max_frame_number \in Nat \cup {NoFrame}
  BY <1>1, NumberFacts DEF Inv, TypeOK, RunState, HandsInRange
<1>3. NumbersAgree
  BY DEF Inv, RunState
<1>4. /\ last' \in Nat /\ max_frame_number' \in Nat /\ last' = max_frame_number'
      /\ last <= last' /\ frame[w] <= last' /\ last' <= newest /\ last' \in {last, frame[w]}
  <2>1. CASE frame[w] > max_frame_number
    BY <1>2, <1>3, <2>1 DEF StoreLast, NumbersAgree, NoFrame
  <2>2. CASE ~(frame[w] > max_frame_number)
    BY <1>2, <1>3, <2>2 DEF StoreLast, NumbersAgree, NoFrame
  <2> QED
    BY <2>1, <2>2
<1>5. \/ frame[w] \in Text /\ frame' = frame /\ pc' = [pc EXCEPT ![w] = "store"]
      \/ /\ frame[w] \notin Text /\ frame' = [frame EXCEPT ![w] = NoFrame]
         /\ pc' = [pc EXCEPT ![w] = "idle"]
  BY DEF StoreLast, Return
<1>6. TypeOK'
  BY <1>1, <1>4, <1>5 DEF TypeOK, Steps
<1>7. \A u \in OcrThreads : frame'[u] \in {frame[u], NoFrame}
  BY <1>1, <1>5 DEF TypeOK
<1>8. HandsInRange'
  <2> SUFFICES ASSUME NEW u \in OcrThreads
               PROVE  /\ frame'[u] = NoFrame <=> pc'[u] \in {"start", "idle", "dead"}
                      /\ frame'[u] # NoFrame => running /\ frame'[u] \in start .. newest
                      /\ pc'[u] = "store" => frame'[u] <= last'
    BY <1>1 DEF HandsInRange
  <2>1. /\ frame[u] = NoFrame <=> pc[u] \in {"start", "idle", "dead"}
        /\ frame[u] # NoFrame => running /\ frame[u] \in start .. newest
        /\ pc[u] = "store" => frame[u] <= last
    BY DEF Inv, RunState, HandsInRange
  <2>2. CASE u = w
    BY <1>1, <1>2, <1>4, <1>5, <2>2 DEF TypeOK
  <2>3. CASE u # w
    <3>1. frame'[u] = frame[u] /\ pc'[u] = pc[u]
      BY <1>1, <1>5, <2>3 DEF TypeOK
    <3>2. frame[u] \in Int
      BY <1>1, NumberFacts DEF TypeOK, NoFrame
    <3> QED
      BY <1>2, <1>4, <2>1, <3>1, <3>2
  <2> QED
    BY <2>2, <2>3
<1>9. PendingInOrder'
  BY <1>1, <1>7, KeepsOrder DEF Inv, RunState
<1>10. NumbersAgree' /\ StoredOnce' /\ StoredIsBehind'
  <2>1. NumbersAgree'
    BY <1>1, <1>2, <1>3, <1>4, NumberFacts DEF NumbersAgree, NoFrame
  <2>2. StoredIsBehind'
    BY <1>1, <1>2, <1>4, NumberFacts DEF Inv, StoredIsBehind
  <2> QED
    BY <1>1, <2>1, <2>2 DEF Inv, StoredOnce
<1>11. \A f \in Text : InHand(f) => InHand(f)'
  BY <1>1, <1>5 DEF InHand, TypeOK
<1>12. AllSeen'
  BY <1>1, <1>11, KeepsSeen DEF Inv, RunState
<1>13. NothingSkipped'
  <2> SUFFICES ASSUME NEW f \in Text, f \in 1 .. last'
               PROVE  stored'[f] > 0 \/ InHand(f)' \/ f \in dropped'
    BY DEF NothingSkipped
  <2>1. CASE f <= last
    BY <1>1, <1>2, <1>11, <2>1 DEF Inv, NothingSkipped
  <2>2. CASE ~(f <= last)
    <3>1. last' = frame[w]
      BY <1>4, <2>2
    <3>2. f \in 1 .. newest /\ (stored[f] > 0 \/ InHand(f) \/ f \in dropped \/ IsPending(f))
      BY <1>2, <1>4 DEF Inv, RunState, AllSeen
    <3>3. IsPending(f) => f = frame[w]
      BY <1>2, <3>1 DEF IsPending, Inv, RunState, PendingInOrder
    <3>4. InHand(frame[w])
      BY DEF InHand
    <3> QED
      BY <1>1, <1>11, <3>2, <3>3, <3>4
  <2> QED
    BY <2>1, <2>2
<1> QED
  BY <1>6, <1>8, <1>9, <1>10, <1>12, <1>13 DEF Inv, RunState

LEMMA StoreInv == ASSUME NEW w \in OcrThreads PROVE Inv /\ Store(w) => Inv'
<1> SUFFICES ASSUME Inv, Store(w) PROVE Inv'
    OBVIOUS
<1>1. /\ pc[w] = "store" /\ TypeOK
      /\ stored' = IF stored[frame[w]] = 0 THEN [stored EXCEPT ![frame[w]] = @ + 1] ELSE stored
      /\ pc' = [pc EXCEPT ![w] = "idle"] /\ frame' = [frame EXCEPT ![w] = NoFrame]
      /\ UNCHANGED <<last, recorded, running, start, max_frame_number, newest, again, pending, stopped,
                    faults, dropped>>
  BY DEF Store, Return, Inv, session, queue
<1>2. frame[w] \in VideoFrames /\ frame[w] <= last
  BY <1>1, NumberFacts DEF Inv, TypeOK, RunState, HandsInRange
<1>3. TypeOK'
  BY <1>1, <1>2 DEF TypeOK, Steps
<1>4. stored'[frame[w]] > 0 /\ \A f \in VideoFrames : stored[f] > 0 => stored'[f] > 0
  BY <1>1, <1>2 DEF TypeOK
<1>5. HandsInRange'
  BY <1>1 DEF Inv, RunState, HandsInRange, TypeOK
<1>6. \A f \in Text : InHand(f) => stored'[f] > 0 \/ InHand(f)'
  BY <1>1, <1>4 DEF InHand, TypeOK
<1>7. PendingInOrder'
  BY <1>1, KeepsOrder DEF Inv, RunState, TypeOK
<1>8. AllSeen' /\ NothingSkipped'
  BY <1>1, <1>4, <1>6, NumberFacts, KeepsSeen, KeepsNothingSkipped DEF Inv, RunState
<1>9. NumbersAgree' /\ StoredOnce' /\ StoredIsBehind'
  BY <1>1, <1>2 DEF Inv, TypeOK, RunState, NumbersAgree, StoredOnce, StoredIsBehind
<1> QED
  BY <1>3, <1>5, <1>7, <1>8, <1>9 DEF Inv, RunState

(* Every step of a run, crashes and failures included, keeps it.           *)
LEMMA StepInv == Inv /\ [Next]_vars => Inv'
<1> SUFFICES ASSUME Inv, [Next]_vars PROVE Inv'
    OBVIOUS
<1> USE NumberFacts, BoundsAssumption DEF disk, session, queue, threads
<1>0. TypeOK /\ HandsInRange
  BY DEF Inv, RunState
<1>1. CASE Record
  <2>1. TypeOK' /\ HandsInRange' /\ \A f \in Text : InHand(f) => InHand(f)'
    BY <1>0, <1>1 DEF Record, TypeOK, HandsInRange, InHand
  <2> QED
    BY <1>1, <2>1, ThreadInv DEF Record
<1>2. CASE Open
  <2>1. /\ ~running /\ running' = TRUE /\ start' = last + 1 /\ newest' = last /\ again' = FALSE
        /\ max_frame_number' = NoFrame /\ stopped' = FALSE /\ pc' = [w \in OcrThreads |-> "start"]
        /\ UNCHANGED <<last, stored, recorded, pending, frame, faults, dropped>>
    BY <1>2 DEF Open
  <2>2. TypeOK'
    <3>1. pc' \in [OcrThreads -> Steps]
      BY <2>1 DEF Steps
    <3>2. start' \in Nat /\ newest' \in Nat
      BY <1>0, <2>1 DEF TypeOK
    <3> QED
      BY ONLY <1>0, <2>1, <3>1, <3>2 DEF TypeOK
  <2>3. pending = <<>> /\ \A w \in OcrThreads : frame[w] = NoFrame
    BY <1>0, <2>1 DEF Inv, RunState, PendingInOrder, HandsInRange
  <2>4. HandsInRange' /\ PendingInOrder' /\ NumbersAgree'
    BY <1>0, <2>1, <2>3 DEF HandsInRange, PendingInOrder, NumbersAgree, TypeOK
  <2>5. AllSeen' /\ StoredOnce' /\ StoredIsBehind' /\ NothingSkipped'
    BY <2>1 DEF Inv, AllSeen, InHand, StoredOnce, StoredIsBehind, NothingSkipped
  <2> QED
    BY <2>2, <2>4, <2>5 DEF Inv, RunState
<1>3. CASE Deliver
  BY <1>3, DeliverInv
<1>4. CASE EndOfFile \/ Interrupt
  <2>1. /\ UNCHANGED <<disk, recorded, running, session, pending, threads, dropped>>
        /\ faults' \in 0 .. MaxFaults /\ stopped' = TRUE
    BY <1>0, <1>4 DEF EndOfFile, Interrupt, TypeOK
  <2>2. TypeOK'
    BY ONLY <1>0, <2>1 DEF TypeOK, disk, session, threads
  <2>3. HandsInRange' /\ \A f \in Text : InHand(f) => InHand(f)'
    BY <1>0, <2>1 DEF HandsInRange, InHand
  <2> QED
    BY <2>1, <2>2, <2>3, ThreadInv
<1>5. CASE Close
  <2>1. TypeOK'
    <3>1. /\ running' = FALSE /\ pending' = <<>>
          /\ UNCHANGED <<disk, recorded, session, stopped, threads, faults, dropped>>
      BY <1>5 DEF Close
    <3>2. pending' \in Seq(VideoFrames)
      BY <3>1
    <3> QED
      BY ONLY <1>0, <3>1, <3>2 DEF TypeOK, disk, session, threads
  <2>2. \A w \in OcrThreads : frame[w] = NoFrame
    BY <1>0, <1>5 DEF Close, HandsInRange
  <2>3. \A f \in Text : ~InHand(f)
    BY <2>2 DEF InHand
  <2> QED
    BY <1>5, <2>1, <2>2, <2>3, EndInv DEF Close
<1>6. CASE Crash
  <2>1. TypeOK'
    <3>1. /\ running' = FALSE /\ pending' = <<>>
          /\ UNCHANGED <<disk, recorded, session, stopped>>
      BY <1>6 DEF Crash
    <3>2. pc' \in [OcrThreads -> Steps] /\ frame' \in [OcrThreads -> VideoFrames \cup {NoFrame}]
      BY <1>6 DEF Crash, Steps
    <3>3. dropped' \subseteq VideoFrames /\ faults' \in 0 .. MaxFaults
      BY <1>0, <1>6 DEF Crash, TypeOK
    <3>4. pending' \in Seq(VideoFrames)
      BY <3>1
    <3> QED
      BY ONLY <1>0, <3>1, <3>2, <3>3, <3>4 DEF TypeOK, disk, session
  <2>2. \A f \in Text : InHand(f) => f \in dropped'
    BY <1>6 DEF Crash, InHand
  <2> QED
    BY <1>6, <2>1, <2>2, EndInv DEF Crash
<1>7. ASSUME NEW w \in OcrThreads, Construct(w) \/ ConstructFails(w) PROVE Inv'
  <2>1. /\ UNCHANGED <<disk, recorded, running, session, pending, frame, dropped>>
        /\ faults' \in 0 .. MaxFaults /\ stopped' \in BOOLEAN
        /\ pc[w] = "start" /\ pc' \in {[pc EXCEPT ![w] = "idle"], [pc EXCEPT ![w] = "dead"]}
    <3>1. CASE Construct(w)
      BY <1>0, <3>1 DEF Construct, TypeOK
    <3>2. CASE ConstructFails(w)
      <4>1. faults \in Nat /\ faults < MaxFaults /\ faults' = faults + 1 /\ MaxFaults \in Nat
        BY <1>0, <3>2 DEF ConstructFails, TypeOK
      <4> QED
        BY <4>1, <3>2 DEF ConstructFails
    <3> QED
      BY <1>7, <3>1, <3>2
  <2>2. pc' \in [OcrThreads -> Steps]
    BY <1>0, <2>1 DEF TypeOK, Steps
  <2>3. TypeOK'
    BY ONLY <1>0, <2>1, <2>2 DEF TypeOK, disk, session
  <2>4. HandsInRange' /\ \A f \in Text : InHand(f) => InHand(f)'
    BY <1>0, <2>1 DEF HandsInRange, InHand, TypeOK
  <2> QED
    BY <2>1, <2>3, <2>4, ThreadInv
<1>8. ASSUME NEW w \in OcrThreads, Take(w) PROVE Inv'
  BY <1>8, TakeInv
<1>9. ASSUME NEW w \in OcrThreads, FilterPasses(w) \/ Recognize(w) PROVE Inv'
  <2>1. TypeOK' /\ HandsInRange' /\ \A f \in Text : InHand(f) => InHand(f)'
    BY <1>0, <1>9 DEF FilterPasses, Recognize, TypeOK, Steps, HandsInRange, InHand
  <2> QED
    BY <1>9, <2>1, ThreadInv DEF FilterPasses, Recognize
<1>10. ASSUME NEW w \in OcrThreads, FilterSkips(w) \/ RecognizeNothing(w) PROVE Inv'
  <2>1. /\ pc' = [pc EXCEPT ![w] = "idle"] /\ frame' = [frame EXCEPT ![w] = NoFrame]
        /\ faults' \in 0 .. MaxFaults /\ frame[w] \in VideoFrames
        /\ dropped' \in {dropped, dropped \cup {frame[w]}}
        /\ stored[frame[w]] > 0 \/ frame[w] \in dropped'
        /\ UNCHANGED <<disk, recorded, running, session, queue>>
    BY <1>0, <1>10 DEF FilterSkips, RecognizeNothing, Return, TypeOK, HandsInRange
  <2>2. TypeOK'
    BY <1>0, <2>1 DEF TypeOK, Steps
  <2>3. HandsInRange' /\ \A u \in OcrThreads : frame'[u] \in {frame[u], NoFrame}
    BY <1>0, <2>1 DEF TypeOK, HandsInRange
  <2>4. \A f \in Text : InHand(f) => stored[f] > 0 \/ InHand(f)' \/ f \in dropped'
    BY <1>0, <2>1 DEF TypeOK, InHand
  <2> QED
    BY <2>1, <2>2, <2>3, <2>4, ThreadInv
<1>11. ASSUME NEW w \in OcrThreads, StoreLast(w) PROVE Inv'
  BY <1>11, StoreLastInv
<1>12. ASSUME NEW w \in OcrThreads, Store(w) PROVE Inv'
  BY <1>12, StoreInv
<1>13. ASSUME NEW w \in OcrThreads, Fail(w) \/ FailAlways(w) PROVE Inv'
  <2>1. /\ pc' = [pc EXCEPT ![w] = "dead"] /\ frame' = [frame EXCEPT ![w] = NoFrame]
        /\ faults' \in 0 .. MaxFaults /\ frame[w] \in VideoFrames /\ stopped' = TRUE
        /\ dropped' = dropped \cup {frame[w]}
        /\ UNCHANGED <<disk, recorded, running, session, pending>>
    BY <1>0, <1>13 DEF Fail, FailAlways, Die, TypeOK, HandsInRange
  <2>2. TypeOK'
    BY <1>0, <2>1 DEF TypeOK, Steps
  <2>3. HandsInRange' /\ \A u \in OcrThreads : frame'[u] \in {frame[u], NoFrame}
    BY <1>0, <2>1 DEF TypeOK, HandsInRange
  <2>4. \A f \in Text : InHand(f) => InHand(f)' \/ f \in dropped'
    BY <1>0, <2>1 DEF TypeOK, InHand
  <2> QED
    BY <2>1, <2>2, <2>3, <2>4, ThreadInv
<1>14. CASE UNCHANGED vars
  <2>1. TypeOK' /\ HandsInRange' /\ \A f \in Text : InHand(f) => InHand(f)'
    BY <1>0, <1>14 DEF vars, TypeOK, HandsInRange, InHand
  <2> QED
    BY <1>14, <2>1, ThreadInv DEF vars
<1> QED
  BY <1>1, <1>2, <1>3, <1>4, <1>5, <1>6, <1>7, <1>8, <1>9, <1>10, <1>11, <1>12, <1>13, <1>14
  DEF Next, MainThread, ThreadStep

(* The invariant holds in every reachable state.                           *)
THEOREM InvCorrect == Spec => []Inv
  BY InitInv, StepInv, PTL DEF Spec

(* Every variable of Progress keeps its type.                              *)
THEOREM ProgressTypeCorrect == Spec => []TypeOK
<1>1. Inv => TypeOK
  BY DEF Inv
<1> QED
  BY InvCorrect, <1>1, PTL

(* database::store inserts the text of a frame once, whatever two threads  *)
(* or two runs do with its number, crashes and failures included.          *)
THEOREM StoredOnceCorrect == Spec => []StoredOnce
<1>1. Inv => StoredOnce
  BY DEF Inv
<1> QED
  BY InvCorrect, <1>1, PTL

(* No run starts at a frame whose text is in the database.                 *)
THEOREM StoredIsBehindCorrect == Spec => []StoredIsBehind
<1>1. Inv => StoredIsBehind
  BY DEF Inv
<1> QED
  BY InvCorrect, <1>1, PTL

(* A frame a later run would not look at again is stored, in hand, or was  *)
(* dropped half way by a failure or a crash.                               *)
THEOREM NothingSkippedCorrect == Spec => []NothingSkipped
<1>1. Inv => NothingSkipped
  BY DEF Inv
<1> QED
  BY InvCorrect, <1>1, PTL

(* store_last_frame_number never lowers the number on disk.                *)
THEOREM LastNeverDecreasesCorrect == Spec => LastNeverDecreases
<1>1. Inv /\ [Next]_vars => [last' >= last]_vars
  <2> SUFFICES ASSUME Inv, Next PROVE last' >= last
    BY DEF Inv
  <2>1. last \in Nat
    BY DEF Inv, TypeOK
  <2>2. CASE \E w \in OcrThreads : StoreLast(w)
    <3> PICK w \in OcrThreads : StoreLast(w)
      BY <2>2
    <3>1. CASE frame[w] > max_frame_number
      <4>1. last' = frame[w] /\ pc[w] = "last"
        BY <3>1 DEF StoreLast
      <4>2. running /\ frame[w] \in Nat /\ frame[w] >= start
        BY <4>1, NumberFacts DEF Inv, RunState, HandsInRange, TypeOK, NoFrame
      <4>3. last = start - 1 \/ last = max_frame_number
        BY <4>2 DEF Inv, RunState, NumbersAgree
      <4> QED
        BY <4>1, <4>2, <4>3, <3>1, <2>1 DEF Inv, TypeOK, NoFrame
    <3>2. CASE ~(frame[w] > max_frame_number)
      BY <3>2, <2>1 DEF StoreLast
    <3> QED
      BY <3>1, <3>2
  <2>3. CASE ~\E w \in OcrThreads : StoreLast(w)
    <3>1. last' = last
      BY <2>3 DEF Next, MainThread, ThreadStep, Record, Open, Deliver, EndOfFile, Close, Interrupt, Crash,
                  Construct, ConstructFails, Take, FilterSkips, FilterPasses, Recognize,
                  RecognizeNothing, Store, Fail, FailAlways, Die, disk
    <3> QED
      BY <3>1, <2>1
  <2> QED
    BY <2>2, <2>3
<1> QED
  BY InvCorrect, <1>1, PTL DEF Spec, LastNeverDecreases
=============================================================================
