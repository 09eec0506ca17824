--------------------------- MODULE DecoderProofs ---------------------------
(***************************************************************************)
(* Theorems about Decoder, for every video file, every pattern of frames   *)
(* that can be sought, and every starting frame.                           *)
(***************************************************************************)
EXTENDS Decoder, FiniteSetTheorems, WellFoundedInduction, TLAPS

(* The bisection stays at or before the starting frame.                    *)
BisectionType ==
  /\ starting_frame \in 0 .. MaxStart
  /\ max \in 0 .. starting_frame /\ min \in 0 .. max /\ last_working \in 0 .. min

(* The file is at its beginning or where a seek to such a frame leaves it. *)
Landed == position = 1 \/ \E n \in 0 .. starting_frame : position = Landing(n)

(* Arithmetic of truncating conversions, and the elements of a sequence.   *)
LEMMA DivisionFacts ==
  ASSUME NEW a \in Nat, NEW b \in Nat \ {0}
  PROVE  (a \div b) \in Nat /\ (a \div b) * b <= a
OBVIOUS

LEMMA ProductFacts ==
  ASSUME NEW a \in Nat, NEW b \in Nat
  PROVE  a * b \in Nat
OBVIOUS

LEMMA ScalingFacts ==
  ASSUME NEW a \in Nat, NEW b \in Nat, NEW k \in Nat \ {0}
  PROVE  a < b <=> a * k < b * k
OBVIOUS

LEMMA ElementFacts ==
  ASSUME NEW T, NEW s \in Seq(T)
  PROVE  Len(s) \in Nat /\ \A i \in 1 .. Len(s) : s[i] \in T
OBVIOUS

LEMMA PacketFacts ==
  Len(Packets) \in Nat /\ \A i \in Indices : Packets[i].pts \in Nat
<1>1. /\ Len(Packets) \in Nat
      /\ \A i \in Indices : Packets[i] \in [video : BOOLEAN, pts : Nat, type : Types]
  BY DecoderAssumption, ElementFacts DEF Indices
<1> QED
  BY <1>1

LEMMA NumberFacts ==
  \A n \in Nat : /\ FrameNumber(n) \in Nat /\ FrameNumber(n) * TimeBase <= n * FrameRate
                 /\ Timestamp(n) \in Nat /\ Timestamp(n) * FrameRate <= n * TimeBase
BY DecoderAssumption, DivisionFacts, ProductFacts DEF FrameNumber, Timestamp

(* A set of positions has a last one.                                      *)
LEMMA LatestIsLast ==
  ASSUME NEW N \in Nat, NEW S \in SUBSET (1 .. N), S # {}
  PROVE  Latest(S) \in S /\ \A j \in S : j <= Latest(S)
<1> DEFINE back == {N - i : i \in S}
           less == {ss \in Nat \X Nat : ss[1] < ss[2]}
<1>1. back \in SUBSET Nat
  <2>1. \A i \in S : N - i \in Nat
    OBVIOUS
  <2> QED
    BY <2>1
<1>2. back # {}
  <2>1. PICK i \in S : TRUE
    OBVIOUS
  <2>2. N - i \in back
    OBVIOUS
  <2> QED
    BY <2>2
<1>3. IsWellFoundedOn(less, Nat)
  <2>1. OpToRel(<, Nat) = less
    BY Zenon DEF OpToRel
  <2> QED
    BY <2>1, NatLessThanWellFounded, Zenon
<1>4. PICK least \in back : \A m \in back : ~ (<<m, least>> \in less)
  <2> HIDE DEF back, less
  <2> QED
    BY <1>1, <1>2, <1>3, WFMin
<1>5. ASSUME NEW m \in back PROVE least <= m
  <2>1. m \in Nat /\ least \in Nat
    BY <1>1, <1>4
  <2>2. ~ (m < least)
    <3> HIDE DEF back
    <3> QED
      BY <1>4, <2>1
  <2> QED
    BY <2>1, <2>2
<1>6. PICK i \in S : least = N - i
  OBVIOUS
<1>7. ASSUME NEW j \in S PROVE j <= i
  <2>1. N - j \in back
    OBVIOUS
  <2>2. least <= N - j
    <3> HIDE DEF back
    <3> QED
      BY <1>5, <2>1
  <2>3. i \in Nat /\ j \in Nat
    OBVIOUS
  <2> HIDE DEF back, less
  <2> QED
    BY <1>6, <2>2, <2>3
<1> QED
  BY <1>7 DEF Latest

(* A frame that is shown before the time of a frame number has a smaller   *)
(* number, although both conversions truncate.                             *)
LEMMA EarlierNumber ==
  ASSUME NEW pts \in Nat, NEW n \in Nat, pts < Timestamp(n)
  PROVE  FrameNumber(pts) < n
<1> DEFINE time == Timestamp(n)
           number == FrameNumber(pts)
<1>1. time \in Nat /\ time * FrameRate <= n * TimeBase
  BY NumberFacts
<1>2. number \in Nat /\ number * TimeBase <= pts * FrameRate
  BY NumberFacts
<1>3. pts * FrameRate < time * FrameRate
  BY <1>1, DecoderAssumption, ScalingFacts
<1>4. /\ number * TimeBase \in Nat /\ pts * FrameRate \in Nat
      /\ time * FrameRate \in Nat /\ n * TimeBase \in Nat
  BY <1>1, <1>2, DecoderAssumption, ProductFacts
<1>5. number * TimeBase < n * TimeBase
  <2> HIDE DEF time, number
  <2> QED
    BY <1>1, <1>2, <1>3, <1>4
<1> QED
  BY <1>2, <1>5, DecoderAssumption, ScalingFacts

(* Where a seek to a frame lands, no frame of that number or a later one   *)
(* is left behind.                                                         *)
LEMMA LandingIsBehind ==
  ASSUME KeyFramesInOrder, NEW n \in Nat, NEW f \in Indices,
         Packets[f].video, FrameNumber(Packets[f].pts) >= n
  PROVE  f >= Landing(n)
<1> DEFINE keys == {i \in Indices : /\ Packets[i].video /\ Packets[i].type = "I"
                                    /\ Packets[i].pts <= Timestamp(n)}
<1>1. Len(Packets) \in Nat /\ \A i \in Indices : Packets[i].pts \in Nat
  BY PacketFacts
<1>2. {1} \cup keys \subseteq 1 .. Len(Packets)
  BY <1>1 DEF Indices
<1>3. Landing(n) \in {1} \cup keys
  BY <1>1, <1>2, LatestIsLast DEF Landing
<1>4. CASE Landing(n) = 1
  BY <1>4 DEF Indices
<1>5. CASE Landing(n) \in keys
  <2>1. SUFFICES ASSUME f < Landing(n) PROVE FALSE
    BY <1>1, <1>5 DEF Indices
  <2>2. Packets[f].pts < Packets[Landing(n)].pts
    BY <1>5, <2>1 DEF KeyFramesInOrder
  <2>3. Packets[f].pts < Timestamp(n)
    <3>1. Timestamp(n) \in Int
      BY NumberFacts
    <3> QED
      BY <1>1, <1>5, <2>2, <3>1
  <2>4. FrameNumber(Packets[f].pts) < n
    BY <1>1, <2>3, EarlierNumber
  <2>5. FrameNumber(Packets[f].pts) \in Nat
    BY <1>1, NumberFacts
  <2> QED
    BY <2>4, <2>5
<1> QED
  BY <1>3, <1>4, <1>5

LEMMA InitLanded == Init => BisectionType /\ Landed
  BY DecoderAssumption DEF Init, BisectionType, Landed

(* The bisection moves the file only to frames it may be at.               *)
LEMMA StepLanded == BisectionType /\ Landed /\ [Next]_vars => BisectionType' /\ Landed'
<1> SUFFICES ASSUME BisectionType, Landed, [Next]_vars PROVE BisectionType' /\ Landed'
    OBVIOUS
<1>0. MaxStart \in Nat
  BY DecoderAssumption
<1> USE <1>0 DEF BisectionType, Landed, input, bisection
<1>9. last_working \in 0 .. starting_frame
  OBVIOUS
<1>1. CASE SeekStart
  BY <1>9, <1>1 DEF SeekStart, SeekTo, StartReading, Landing
<1>2. CASE SeekMax
  BY <1>2 DEF SeekMax, SeekTo, StartReading, Landing
<1>3. CASE SeekLast
  BY <1>9, <1>3 DEF SeekLast, SeekTo, StartReading, Landing
<1>4. CASE SeekMiddle
  <2>1. Middle \in min .. max
    BY DEF Middle
  <2>2. UNCHANGED starting_frame
    BY <1>4 DEF SeekMiddle
  <2>3. Landed'
    <3>1. Middle \in 0 .. starting_frame
      BY <2>1
    <3>2. position' = position \/ position' = Landing(Middle)
      BY <1>4 DEF SeekMiddle, SeekTo
    <3> HIDE DEF BisectionType
    <3> QED
      BY <2>2, <3>1, <3>2 DEF Landing
  <2>4. BisectionType'
    <3>1. CASE Middle \in seekable
      BY <1>4, <2>1, <2>2, <3>1 DEF SeekMiddle
    <3>2. CASE Middle \notin seekable
      BY <1>4, <2>1, <2>2, <3>2 DEF SeekMiddle
    <3> QED
      BY <3>1, <3>2
  <2> QED
    BY <2>3, <2>4
<1>5. ASSUME UNCHANGED <<input, bisection, position>> PROVE BisectionType' /\ Landed'
  BY <1>5 DEF Landing
<1>6. CASE SkipPacket \/ Send \/ SendFails \/ Flush \/ NoFrame \/ ReceiveFails
  BY <1>5, <1>6 DEF SkipPacket, Send, SendFails, Flush, NoFrame, ReceiveFails, End
<1>7. ASSUME NEW f \in Indices, SkipFrame(f) \/ TransferFails(f) \/ Deliver(f)
      PROVE  BisectionType' /\ Landed'
  BY <1>5, <1>7 DEF SkipFrame, TransferFails, Deliver
<1>8. CASE UNCHANGED vars
  BY <1>5, <1>8 DEF vars
<1> QED
  BY <1>1, <1>2, <1>3, <1>4, <1>6, <1>7, <1>8 DEF Next, Step

(* Wherever the bisection leaves the file, no frame that was asked for is  *)
(* before it, if the file keeps its key frames in order.                   *)
THEOREM SeekIsBehindCorrect ==
  ASSUME KeyFramesInOrder
  PROVE  Spec => []SeekIsBehind
<1>1. ASSUME BisectionType, Landed PROVE SeekIsBehind
  <2> SUFFICES ASSUME NEW f \in Indices, Wanted(f) PROVE f >= position
      BY DEF SeekIsBehind
  <2>1. Packets[f].pts \in Nat /\ FrameNumber(Packets[f].pts) \in Nat
    BY PacketFacts, NumberFacts
  <2>2. CASE position = 1
    BY <2>2 DEF Indices
  <2>3. ASSUME NEW n \in 0 .. starting_frame, position = Landing(n) PROVE f >= position
    <3>1. n \in Nat /\ FrameNumber(Packets[f].pts) >= n
      BY <1>1, <2>1, DecoderAssumption DEF Wanted, BisectionType
    <3> QED
      BY <2>3, <3>1, LandingIsBehind DEF Wanted
  <2> QED
    BY <1>1, <2>2, <2>3 DEF Landed
<1> QED
  BY <1>1, InitLanded, StepLanded, PTL DEF Spec

-----------------------------------------------------------------------------
(* Where the bisection ends.                                               *)

(* While a file can be sought up to some frame, the frame lies between the *)
(* last position that worked and the first that did not.                   *)
Narrowed ==
  \A n \in 0 .. starting_frame :
    seekable = 0 .. n =>
      /\ min = last_working /\ min <= n
      /\ n < max \/ max = starting_frame
      /\ phase # "seek" => position = Landing(n)

LEMMA StepNarrowed ==
  ASSUME BisectionType, Narrowed, [Next]_vars
  PROVE  Narrowed'
<1> SUFFICES ASSUME NEW n \in 0 .. starting_frame', seekable' = 0 .. n
             PROVE  /\ min' = last_working' /\ min' <= n
                    /\ n < max' \/ max' = starting_frame'
                    /\ phase' # "seek" => position' = Landing(n)
  BY DEF Narrowed
<1>1. UNCHANGED input
  BY DEF Next, Step, SeekStart, SeekMax, SeekLast, SeekMiddle, StartReading, SkipPacket, Send,
         SendFails, Flush, NoFrame, ReceiveFails, SkipFrame, TransferFails, Deliver, End, vars
<1>2. /\ n \in 0 .. starting_frame /\ seekable = 0 .. n
      /\ starting_frame \in Nat /\ min \in Nat /\ max \in Nat /\ n \in Nat
      /\ min <= max /\ max <= starting_frame
  BY <1>1, DecoderAssumption DEF input, BisectionType
<1>3. /\ min = last_working /\ min <= n
      /\ n < max \/ max = starting_frame
      /\ phase # "seek" => position = Landing(n)
  BY <1>2 DEF Narrowed
<1>4. CASE SeekStart
  <2>1. n = 0 /\ last_working = 0
    BY <1>2, <1>3, <1>4 DEF SeekStart
  <2>2. position' = Landing(n)
    BY <1>2, <1>4, <2>1 DEF SeekStart, SeekTo
  <2> QED
    BY <1>1, <1>3, <1>4, <2>2 DEF SeekStart, StartReading, bisection, input
<1>5. CASE SeekMax
  <2>1. max = n
    BY <1>2, <1>3, <1>5 DEF SeekMax
  <2>2. position' = Landing(n)
    BY <1>2, <1>5, <2>1 DEF SeekMax, SeekTo
  <2> QED
    BY <1>1, <1>3, <1>5, <2>2 DEF SeekMax, StartReading, bisection, input
<1>6. CASE SeekLast
  <2>1. n < max
    BY <1>2, <1>3, <1>6 DEF SeekLast
  <2>2. last_working = n
    BY <1>2, <1>3, <1>6, <2>1 DEF SeekLast, TooDeep, Middle
  <2>3. position' = Landing(n)
    BY <1>2, <1>6, <2>2 DEF SeekLast, SeekTo
  <2> QED
    BY <1>1, <1>3, <1>6, <2>3 DEF SeekLast, StartReading, bisection, input
<1>7. CASE SeekMiddle
  <2>1. Middle \in Nat /\ (Middle \in seekable <=> Middle <= n)
    BY <1>2 DEF Middle
  <2> QED
    BY <1>1, <1>2, <1>3, <1>7, <2>1 DEF SeekMiddle, input
<1>8. CASE UNCHANGED <<bisection, position>> /\ (phase' # "seek" => phase # "seek")
  BY <1>1, <1>3, <1>8 DEF bisection, input
<1> QED
  BY <1>4, <1>5, <1>6, <1>7, <1>8
     DEF Next, Step, SkipPacket, Send, SendFails, Flush, NoFrame, ReceiveFails, Receive,
         SkipFrame, TransferFails, Deliver, End, vars

(* If a file can be sought up to some frame and no further, as one that is *)
(* still being recorded, the bisection finds that frame.                   *)
THEOREM SeekIsClosestCorrect == Spec => []SeekIsClosest
<1>1. Init => Narrowed
  BY DecoderAssumption DEF Init, Narrowed
<1>2. BisectionType /\ Landed /\ Narrowed /\ [Next]_vars => Narrowed'
  BY StepNarrowed
<1>3. Narrowed => SeekIsClosest
  BY DEF Narrowed, SeekIsClosest
<1> QED
  BY <1>1, <1>2, <1>3, InitLanded, StepLanded, PTL DEF Spec

-----------------------------------------------------------------------------
(* The frames the callback gets.                                           *)

Sent == {k \in position .. next - 1 : Packets[k].video}
Emitted == Sent \ held
GotFrame(f) == \E i \in DOMAIN delivered : delivered[i] = f

ReadType ==
  /\ position \in 1 .. Len(Packets) + 1 /\ next \in position .. Len(Packets) + 1
  /\ held \subseteq Sent
  /\ delivered \in Seq(Emitted)

(* Where a run stands.                                                     *)
ReadState ==
  /\ flushing \in BOOLEAN
  /\ phase = "seek" => next = position
  /\ flushing => phase \in {"receive", "ended"}
  /\ outcome = "none" <=> phase # "ended"
  /\ outcome = "eof" => flushing /\ held = {}

(* What came out of the codec is shown before what it holds and, unless it *)
(* is being emptied, before what is still to be sent.                      *)
InOrder ==
  /\ \A f \in Emitted, g \in held : Packets[f].pts < Packets[g].pts
  /\ ~ flushing => \A f \in Emitted, k \in Indices :
       k >= next /\ Packets[k].video => Packets[f].pts < Packets[k].pts
  /\ \A i, j \in DOMAIN delivered :
       i < j => Packets[delivered[i]].pts < Packets[delivered[j]].pts

(* What came out went to the callback, but for a frame whose transfer      *)
(* failed, which is shown after all the callback got.                      *)
PassedOn ==
  /\ \A i \in DOMAIN delivered : Wanted(delivered[i])
  /\ \A f \in Emitted : Wanted(f) =>
       \/ GotFrame(f)
       \/ /\ outcome = "error"
          /\ \A i \in DOMAIN delivered : Packets[delivered[i]].pts < Packets[f].pts

ReadInv == ReadType /\ ReadState /\ InOrder /\ PassedOn

(* A seek goes to a packet.                                                *)
LEMMA LandingIsPacket == \A n \in Nat : Landing(n) \in 1 .. Len(Packets) + 1
<1> TAKE n \in Nat
<1> DEFINE keys == {i \in Indices : /\ Packets[i].video /\ Packets[i].type = "I"
                                    /\ Packets[i].pts <= Timestamp(n)}
<1>1. Len(Packets) \in Nat
  BY PacketFacts
<1>2. {1} \cup keys \subseteq 1 .. Len(Packets) + 1
  BY <1>1 DEF Indices
<1>3. Landing(n) \in {1} \cup keys
  <2>1. Len(Packets) + 1 \in Nat
    BY <1>1
  <2>2. Landing(n) = Latest({1} \cup keys)
    BY DEF Landing
  <2> HIDE DEF keys
  <2> QED
    BY <1>2, <2>1, <2>2, LatestIsLast
<1> QED
  BY <1>2, <1>3

LEMMA InitReading == Init => ReadInv
<1> SUFFICES ASSUME Init PROVE ReadInv
  OBVIOUS
<1>1. Sent = {} /\ Emitted = {}
  BY DEF Init, Sent, Emitted
<1>2. ReadType
  BY <1>1, PacketFacts DEF Init, ReadType
<1>3. ReadState
  BY DEF Init, ReadState
<1>4. DOMAIN delivered = {}
  BY DEF Init
<1> QED
  BY <1>1, <1>2, <1>3, <1>4 DEF Init, ReadInv, InOrder, PassedOn

(* A seek leaves the run at its beginning.                                 *)
LEMMA SeekReads ==
  ASSUME ReadInv, BisectionType, phase = "seek", next' = position', NEW n \in Nat, SeekTo(n),
         phase' \in {"seek", "read"}, UNCHANGED <<input, held, flushing, delivered, outcome>>
  PROVE  ReadInv'
<1>0. position \in Int /\ position' \in Int /\ next = position
  BY LandingIsPacket, PacketFacts DEF ReadInv, ReadType, ReadState, SeekTo
<1>1. Sent = {} /\ Sent' = {}
  BY <1>0 DEF Sent
<1>2. held = {} /\ delivered = <<>>
  BY <1>1 DEF ReadInv, ReadType, Emitted
<1>3. position' \in 1 .. Len(Packets) + 1
  BY LandingIsPacket DEF ReadInv, ReadType, SeekTo
<1>4. ReadType'
  BY <1>1, <1>2, <1>3, PacketFacts DEF ReadType, Emitted
<1>5. ReadState'
  BY DEF ReadInv, ReadState
<1>6. InOrder' /\ PassedOn'
  BY <1>1, <1>2 DEF InOrder, PassedOn, Emitted
<1> QED
  BY <1>4, <1>5, <1>6 DEF ReadInv

(* A packet that is no picture is passed over.                             *)
LEMMA SkipReads == ReadInv /\ SkipPacket => ReadInv'
<1> SUFFICES ASSUME ReadInv, SkipPacket PROVE ReadInv'
  OBVIOUS
<1>1. /\ next \in Indices /\ next' = next + 1 /\ ~ Packets[next].video
      /\ UNCHANGED <<position, held, flushing, delivered, outcome, phase, input>>
  BY DEF SkipPacket
<1>2. position \in Nat /\ next \in Nat /\ position <= next /\ Len(Packets) \in Nat
  BY PacketFacts DEF ReadInv, ReadType
<1>3. Sent' = Sent /\ Emitted' = Emitted
  BY <1>1, <1>2 DEF Sent, Emitted
<1>4. ReadType'
  BY <1>1, <1>2, <1>3 DEF ReadInv, ReadType, Indices
<1>5. ReadState'
  BY <1>1, SMT DEF ReadInv, ReadState, SkipPacket
<1>6. InOrder'
  BY <1>1, <1>2, <1>3 DEF ReadInv, InOrder, Indices
<1>7. PassedOn'
  BY <1>1, <1>3 DEF ReadInv, PassedOn, GotFrame, Wanted, Passes, input
<1> QED
  BY <1>4, <1>5, <1>6, <1>7 DEF ReadInv

(* A picture that is sent is shown after what has come out.                *)
LEMMA SendReads == ReadInv /\ Send => ReadInv'
<1> SUFFICES ASSUME ReadInv, Send PROVE ReadInv'
  OBVIOUS
<1>1. /\ next \in Indices /\ next' = next + 1 /\ Packets[next].video
      /\ held' = held \cup {next} /\ phase = "read" /\ phase' = "receive"
      /\ UNCHANGED <<position, flushing, delivered, outcome, input>>
  BY DEF Send
<1>2. position \in Nat /\ next \in Nat /\ position <= next /\ Len(Packets) \in Nat
  BY PacketFacts DEF ReadInv, ReadType
<1>3. Sent' = Sent \cup {next} /\ next \notin Sent /\ Emitted' = Emitted
  BY <1>1, <1>2 DEF Sent, Emitted
<1>4. ReadType'
  BY <1>1, <1>2, <1>3 DEF ReadInv, ReadType, Indices
<1>5. ReadState'
  BY <1>1 DEF ReadInv, ReadState
<1>6. ~ flushing
  BY <1>1 DEF ReadInv, ReadState
<1>7. InOrder'
  BY <1>1, <1>2, <1>3, <1>6 DEF ReadInv, InOrder, Indices
<1>8. PassedOn'
  BY <1>1, <1>3 DEF ReadInv, PassedOn, GotFrame, Wanted, Passes, input
<1> QED
  BY <1>4, <1>5, <1>7, <1>8 DEF ReadInv

(* What the codec lets go of is shown before all it holds and, as it held  *)
(* more than it has to, before all that is still to be sent.               *)
LEMMA ReceiveFirst ==
  ASSUME ReorderFits, DistinctTimes, ReadInv, NEW f, Receive(f)
  PROVE  /\ f \in Sent /\ f \in Indices /\ Packets[f].video
         /\ \A g \in held \ {f} : Packets[f].pts < Packets[g].pts
         /\ ~ flushing => \A k \in Indices :
              k >= next /\ Packets[k].video => Packets[f].pts < Packets[k].pts
<1>1. position \in Nat \ {0} /\ next \in Nat /\ position <= next
      /\ next <= Len(Packets) + 1 /\ Len(Packets) \in Nat
  BY PacketFacts DEF ReadInv, ReadType
<1>2. f \in held /\ held \subseteq Sent /\ \A g \in held : Packets[f].pts <= Packets[g].pts
  BY DEF Receive, ReadInv, ReadType
<1>3. Sent \subseteq Indices /\ \A g \in Sent : Packets[g].video /\ g < next
  BY <1>1 DEF Sent, Indices
<1>4. \A i \in Indices : Packets[i].pts \in Nat
  BY PacketFacts
<1>5. ASSUME NEW g \in held \ {f} PROVE Packets[f].pts < Packets[g].pts
  BY <1>2, <1>3, <1>4 DEF DistinctTimes
<1>6. ASSUME ~ flushing, NEW k \in Indices, k >= next, Packets[k].video,
             ~ (Packets[f].pts < Packets[k].pts)
      PROVE  FALSE
  <2> DEFINE later == {i \in 1 .. k - 1 : Packets[i].video /\ Packets[i].pts > Packets[k].pts}
  <2>1. f # k
    BY <1>1, <1>2, <1>3, <1>6 DEF Indices
  <2>2. Packets[k].pts < Packets[f].pts
    BY <1>2, <1>3, <1>4, <1>6, <2>1 DEF DistinctTimes
  <2>3. held \subseteq later
    <3> SUFFICES ASSUME NEW g \in held PROVE g \in later
      OBVIOUS
    <3>1. g \in 1 .. k - 1 /\ Packets[g].video
      BY <1>1, <1>2, <1>3, <1>6 DEF Indices
    <3>2. Packets[g].pts > Packets[k].pts
      BY <1>2, <1>3, <1>4, <1>6, <2>2
    <3> QED
      BY <3>1, <3>2
  <2>4. IsFiniteSet(later)
    <3>1. k - 1 \in Int /\ IsFiniteSet(1 .. k - 1)
      BY FS_Interval DEF Indices
    <3> QED
      BY <3>1, FS_Subset
  <2>5. Cardinality(held) <= Cardinality(later) /\ Cardinality(held) \in Nat
        /\ Cardinality(later) \in Nat
    <3> HIDE DEF later
    <3> QED
      BY <2>3, <2>4, FS_Subset, FS_CardinalityType
  <2>6. Cardinality(later) <= Delay
    BY <1>6 DEF ReorderFits
  <2>7. Cardinality(held) > Delay
    BY <1>6 DEF Receive, Emits
  <2> QED
    BY <2>5, <2>6, <2>7, DecoderAssumption
<1> QED
  BY <1>2, <1>3, <1>5, <1>6

(* A frame that comes out is passed on, left out, or lost with the run.    *)
LEMMA ReceiveReads ==
  ASSUME ReorderFits, DistinctTimes, ReadInv, NEW f, Receive(f),
         UNCHANGED <<input, bisection, position, next, flushing>>,
         \/ /\ ~ Wanted(f)
            /\ UNCHANGED <<phase, delivered, outcome>>
         \/ /\ phase' = "ended" /\ outcome' = "error"
            /\ UNCHANGED delivered
         \/ /\ Wanted(f)
            /\ delivered' = Append(delivered, f)
            /\ UNCHANGED <<phase, outcome>> \/ (phase' = "ended" /\ outcome' = "stopped")
  PROVE  ReadInv'
<1>1. /\ f \in held /\ f \in Indices /\ Packets[f].video /\ held' = held \ {f}
      /\ phase = "receive" /\ outcome = "none"
  BY ReceiveFirst DEF Receive, ReadInv, ReadState
<1>2. Sent' = Sent /\ Emitted' = Emitted \cup {f} /\ f \notin Emitted
  BY <1>1, ReceiveFirst DEF Sent, Emitted
<1>3. delivered \in Seq(Emitted) /\ delivered \in Seq(Emitted')
  BY <1>2 DEF ReadInv, ReadType
<1>4. delivered' = delivered \/ delivered' = Append(delivered, f)
  OBVIOUS
<1>5. delivered' \in Seq(Emitted')
  BY <1>2, <1>3, <1>4
<1>6. ReadType'
  BY <1>1, <1>2, <1>5 DEF ReadInv, ReadType
<1>7. ReadState'
  BY <1>1 DEF ReadInv, ReadState
<1>8. \A g \in Emitted : Packets[g].pts < Packets[f].pts
  BY <1>1 DEF ReadInv, InOrder
<1>9. \A i \in DOMAIN delivered : delivered[i] \in Emitted
  BY <1>3
<1>10. InOrder'
  <2>1. \A g \in Emitted', h \in held' : Packets[g].pts < Packets[h].pts
    BY <1>1, <1>2, ReceiveFirst DEF ReadInv, InOrder
  <2>2. ~ flushing => \A g \in Emitted', k \in Indices :
          k >= next /\ Packets[k].video => Packets[g].pts < Packets[k].pts
    BY <1>2, ReceiveFirst DEF ReadInv, InOrder
  <2>3. \A i, j \in DOMAIN delivered' :
          i < j => Packets[delivered'[i]].pts < Packets[delivered'[j]].pts
    <3>1. CASE delivered' = delivered
      BY <3>1 DEF ReadInv, InOrder
    <3>2. CASE delivered' = Append(delivered, f)
      <4>1. /\ Len(delivered) \in Nat /\ DOMAIN delivered = 1 .. Len(delivered)
            /\ DOMAIN delivered' = 1 .. Len(delivered) + 1 /\ delivered'[Len(delivered) + 1] = f
            /\ \A i \in DOMAIN delivered : delivered'[i] = delivered[i]
        BY <1>3, <3>2
      <4> QED
        BY <1>8, <1>9, <4>1 DEF ReadInv, InOrder
    <3> QED
      BY <1>4, <3>1, <3>2
  <2> QED
    BY <2>1, <2>2, <2>3 DEF InOrder
<1>11. PassedOn'
  <2>1. \A g \in Emitted : Wanted(g) => GotFrame(g)
    BY <1>1 DEF ReadInv, PassedOn
  <2>2. \A g : Wanted(g)' <=> Wanted(g)
    BY DEF Wanted, Passes, input
  <2>3. CASE delivered' = delivered
    <3>1. \A g \in Emitted : Wanted(g) => GotFrame(g)'
      BY <2>1, <2>3 DEF GotFrame
    <3> QED
      BY <1>2, <1>8, <1>9, <2>2, <2>3, <3>1 DEF ReadInv, PassedOn
  <2>4. CASE delivered' = Append(delivered, f) /\ Wanted(f)
    <3>1. /\ Len(delivered) \in Nat /\ DOMAIN delivered = 1 .. Len(delivered)
          /\ DOMAIN delivered' = 1 .. Len(delivered) + 1 /\ delivered'[Len(delivered) + 1] = f
          /\ \A i \in DOMAIN delivered : delivered'[i] = delivered[i]
      BY <1>3, <2>4
    <3>2. \A g \in Emitted' : Wanted(g) => GotFrame(g)'
      BY <1>2, <2>1, <3>1 DEF GotFrame
    <3>3. \A i \in DOMAIN delivered' : delivered'[i] = f \/ (i \in DOMAIN delivered /\ delivered'[i] = delivered[i])
      BY <3>1
    <3>4. \A i \in DOMAIN delivered' : Wanted(delivered'[i])
      BY <2>4, <3>3 DEF ReadInv, PassedOn
    <3>5. (\A i \in DOMAIN delivered : Wanted(delivered[i]))'
      BY <3>4 DEF Wanted, Passes, input
    <3> QED
      BY <2>2, <3>2, <3>5 DEF PassedOn
  <2> QED
    BY <2>3, <2>4
<1> QED
  BY <1>6, <1>7, <1>10, <1>11 DEF ReadInv

(* The end of a run, and what only changes its phase.                      *)
LEMMA PhaseReads ==
  ASSUME ReadInv, UNCHANGED <<input, bisection, position, next, held, delivered>>,
         \/ /\ outcome = "none" /\ phase' = "ended"
            /\ outcome' = "error" \/ (outcome' = "eof" /\ flushing /\ held = {})
            /\ UNCHANGED flushing
         \/ /\ phase \in {"read", "receive"} /\ phase' = "receive"
            /\ flushing' = flushing \/ flushing' = TRUE
            /\ UNCHANGED outcome
         \/ /\ phase = "receive" /\ ~ flushing /\ phase' = "read"
            /\ UNCHANGED <<flushing, outcome>>
         \/ UNCHANGED <<phase, flushing, outcome>>
  PROVE  ReadInv'
<1>1. Sent' = Sent /\ Emitted' = Emitted
  BY DEF Sent, Emitted
<1>2. ReadType'
  BY <1>1 DEF ReadInv, ReadType
<1>3. ReadState'
  <2>1. /\ flushing \in BOOLEAN
        /\ outcome = "none" <=> phase # "ended"
        /\ phase = "seek" => next = position
        /\ flushing => phase \in {"receive", "ended"}
        /\ outcome = "eof" => flushing /\ held = {}
    BY DEF ReadInv, ReadState
  <2>2. flushing' \in BOOLEAN /\ (phase' = "seek" => next' = position')
    BY <2>1
  <2>3. outcome' = "none" <=> phase' # "ended"
    BY <2>1
  <2>4. (flushing' => phase' \in {"receive", "ended"})
        /\ (outcome' = "eof" => flushing' /\ held' = {})
    BY <2>1
  <2> QED
    BY <2>2, <2>3, <2>4 DEF ReadState
<1>4. InOrder'
  BY <1>1 DEF ReadInv, ReadState, InOrder
<1>5. PassedOn'
  BY <1>1 DEF ReadInv, ReadState, PassedOn, GotFrame, Wanted, Passes, input
<1> QED
  BY <1>2, <1>3, <1>4, <1>5 DEF ReadInv

(* Every step of the decoder keeps what is known of its frames.            *)
LEMMA StepReads ==
  ASSUME ReorderFits, DistinctTimes, BisectionType, ReadInv, [Next]_vars
  PROVE  ReadInv'
<1>1. \A n \in {last_working, max, Middle} : n \in Nat
  BY DecoderAssumption DEF BisectionType, Middle
<1>2. CASE SeekStart
  BY <1>1, <1>2, SeekReads DEF SeekStart, StartReading
<1>3. CASE SeekMax
  BY <1>1, <1>3, SeekReads DEF SeekMax, StartReading
<1>4. CASE SeekLast
  BY <1>1, <1>4, SeekReads DEF SeekLast, StartReading
<1>5. CASE SeekMiddle
  BY <1>1, <1>5, SeekReads DEF SeekMiddle
<1>6. CASE SkipPacket \/ Send
  BY <1>6, SkipReads, SendReads
<1>7. CASE SendFails \/ ReceiveFails
  BY <1>7, PhaseReads DEF SendFails, ReceiveFails, End, ReadInv, ReadState
<1>8. CASE Flush
  BY <1>8, PhaseReads DEF Flush
<1>9. CASE NoFrame
  <2>1. flushing => held = {}
    BY <1>9 DEF NoFrame, Emits
  <2> QED
    BY <1>9, <2>1, PhaseReads DEF NoFrame, End, ReadInv, ReadState
<1>10. ASSUME NEW f \in Indices, SkipFrame(f) \/ TransferFails(f) \/ Deliver(f)
       PROVE  ReadInv'
  <2>1. Receive(f) /\ Packets[f].video
    BY <1>10, ReceiveFirst DEF SkipFrame, TransferFails, Deliver
  <2>2. FrameNumber(Packets[f].pts) \in Nat /\ starting_frame \in Nat
    <3>1. Packets[f].pts \in Nat
      BY <1>10, PacketFacts
    <3>2. starting_frame \in Nat
      BY DecoderAssumption DEF BisectionType
    <3> QED
      BY <3>1, <3>2, NumberFacts
  <2>3. Wanted(f) <=> Passes(f) /\ ~ BeforeStart(f)
    BY <2>1, <2>2 DEF Wanted, BeforeStart
  <2> QED
    BY <1>10, <2>1, <2>3, ReceiveReads DEF SkipFrame, TransferFails, Deliver
<1>11. CASE UNCHANGED vars
  BY <1>11, PhaseReads DEF vars
<1> QED
  BY <1>2, <1>3, <1>4, <1>5, <1>6, <1>7, <1>8, <1>9, <1>10, <1>11 DEF Next, Step

LEMMA ReadCorrect ==
  ASSUME ReorderFits, DistinctTimes
  PROVE  Spec => []ReadInv
<1>1. BisectionType /\ Landed /\ ReadInv /\ [Next]_vars => ReadInv'
  BY StepReads
<1> QED
  BY <1>1, InitLanded, StepLanded, InitReading, PTL DEF Spec

(* The callback gets frames that were asked for, in the order of their     *)
(* time, and none in between is left out, if the codec keeps back as many  *)
(* frames as the file reorders.                                            *)
THEOREM NoGapCorrect ==
  ASSUME ReorderFits, DistinctTimes
  PROVE  Spec => []NoGap
<1>1. ASSUME ReadInv, NEW i \in DOMAIN delivered, NEW f \in position .. next - 1,
             Wanted(f), Packets[f].pts < Packets[delivered[i]].pts
      PROVE  \E j \in 1 .. i : delivered[j] = f
  <2>1. /\ Len(delivered) \in Nat /\ DOMAIN delivered = 1 .. Len(delivered)
        /\ \A j \in DOMAIN delivered : delivered[j] \in Emitted
    BY <1>1 DEF ReadInv, ReadType
  <2>2. f \in Sent /\ f \in Indices /\ delivered[i] \in Indices
    BY <1>1, <2>1, PacketFacts DEF Wanted, Sent, Emitted, Indices, ReadInv, ReadType
  <2>3. Packets[f].pts \in Nat /\ Packets[delivered[i]].pts \in Nat
    BY <2>2, PacketFacts
  <2>4. f \in Emitted
    <3>1. delivered[i] \in Emitted
      BY <1>1, <2>1
    <3>2. f \notin held
      BY <1>1, <2>3, <3>1 DEF ReadInv, InOrder
    <3> QED
      BY <2>2, <3>2 DEF Emitted
  <2>5. PICK j \in DOMAIN delivered : delivered[j] = f
    BY <1>1, <2>3, <2>4 DEF ReadInv, PassedOn, GotFrame
  <2>6. ~ (i < j)
    BY <1>1, <2>3, <2>5 DEF ReadInv, InOrder
  <2> QED
    BY <2>1, <2>5, <2>6
<1>2. ReadInv => NoGap
  BY <1>1 DEF NoGap, ReadInv, InOrder, PassedOn
<1> QED
  BY <1>2, ReadCorrect, PTL

(* A run that ends by itself has passed on every frame it was asked for    *)
(* among all it read, those that were still in the codec included.         *)
THEOREM EndsCompleteCorrect ==
  ASSUME ReorderFits, DistinctTimes
  PROVE  Spec => []EndsComplete
<1>1. ASSUME ReadInv, outcome = "eof", NEW f \in position .. next - 1, Wanted(f)
      PROVE  \E i \in DOMAIN delivered : delivered[i] = f
  <2>1. f \in Emitted
    BY <1>1, PacketFacts DEF ReadInv, ReadState, Wanted, Sent, Emitted
  <2> QED
    BY <1>1, <2>1 DEF ReadInv, PassedOn, GotFrame
<1>2. ReadInv => EndsComplete
  BY <1>1 DEF EndsComplete
<1> QED
  BY <1>2, ReadCorrect, PTL
=============================================================================
