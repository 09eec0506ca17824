--------------------------- MODULE ReportingProofs ---------------------------
(***************************************************************************)
(* The speed meter of Reporting, and what the progress bar of the watcher  *)
(* shows of it, for any number of OCR threads, frames, messages and sizes  *)
(* of a pipe.                                                              *)
(***************************************************************************)
EXTENDS Reporting, WellFoundedInduction, TLAPS

(* What is in the queue and in the hands of the OCR threads is not before  *)
(* the first frame of the run.                                             *)
Ahead == {n \in Nat : n >= StartingFrame}

FramesAhead ==
  /\ next_frame \in Ahead
  /\ pending \in Seq(Ahead)
  /\ hand \in [Consumers -> [step : {"take", "add", "print", "catch", "left"}, frame : Nat]]
  /\ \A c \in Consumers : hand[c].step = "add" => hand[c].frame \in Ahead

MeterType ==
  /\ meter \in [processed : Nat, last : Nat, last_print : Nat]
  /\ counted \in [ocr : Nat, frames : SUBSET Ahead, reported : Nat, seeked : Nat]
  /\ postfix \in [kind : {"starting", "stopping", "report"}, last : Nat]

(* MeterIsExact without the maximum of a set, and that no report is ahead  *)
(* of the frames.                                                          *)
MeterState ==
  /\ counted.reported + meter.processed = counted.ocr
  /\ counted.seeked = meter.last_print - StartingFrame
  /\ meter.last_print = StartingFrame \/ meter.last_print <= meter.last
  /\ (meter.last = 0 /\ counted.frames = {}) \/ meter.last \in counted.frames
  /\ \A n \in counted.frames : n <= meter.last
  /\ postfix.kind = "report" => postfix.last = meter.last_print

MeterInv == FramesAhead /\ MeterType /\ MeterState

(* A number of a set that none of the others exceeds is its maximum.       *)
LEMMA MaxIsBound ==
  ASSUME NEW S \in SUBSET Int, NEW m \in S, \A n \in S : n <= m
  PROVE  Max(S) = m
<1> DEFINE Bound(x) == \A n \in S : x >= n
<1>1. Bound(m)
  OBVIOUS
<1>2. Max(S) \in S /\ Bound(Max(S))
  BY <1>1 DEF Max
<1>3. Max(S) >= m /\ m >= Max(S) /\ Max(S) \in Int /\ m \in Int
  BY <1>1, <1>2
<1> QED
  BY <1>3

(* The maximum of two numbers.                                             *)
LEMMA MaxOfTwo ==
  ASSUME NEW a \in Int, NEW b \in Int
  PROVE  Max({a, b}) = IF a >= b THEN a ELSE b
<1> DEFINE m == IF a >= b THEN a ELSE b
<1>1. {a, b} \in SUBSET Int /\ m \in {a, b} /\ \A n \in {a, b} : n <= m
  OBVIOUS
<1> QED
  BY <1>1, MaxIsBound

(* The invariant holds when a run starts.                                  *)
LEMMA MeterInit == Init => MeterInv
  BY ReportingAssumption DEF Init, MeterInv, FramesAhead, MeterType, MeterState, Ahead, Idle

Meters == [processed : Nat, last : Nat, last_print : Nat]
Counts == [ocr : Nat, frames : SUBSET Ahead, reported : Nat, seeked : Nat]

(* check_progress keeps it, given what the frame did to the counts.        *)
LEMMA CheckKeeps ==
  ASSUME MeterInv, NEW num \in Ahead, NEW m \in Meters, NEW ct \in Counts,
         m.last = (IF meter.last >= num THEN meter.last ELSE num),
         m.last_print = meter.last_print,
         ct.ocr + meter.processed = counted.ocr + m.processed, ct.frames = counted.frames \cup {num},
         ct.reported = counted.reported, ct.seeked = counted.seeked,
         Meter(m, ct)
  PROVE  MeterType' /\ MeterState'
<1>1. /\ m.processed \in Nat /\ ct.ocr \in Nat /\ StartingFrame \in Nat /\ num \in Nat /\ num >= StartingFrame
      /\ meter.processed \in Nat /\ meter.last \in Nat /\ meter.last_print \in Nat
      /\ counted.ocr \in Nat /\ counted.frames \in SUBSET Ahead
      /\ counted.reported \in Nat /\ counted.seeked \in Nat
  BY ReportingAssumption DEF MeterInv, MeterType, Ahead, Meters, Counts
<1>2. /\ m.processed \in Nat /\ m.last \in Nat /\ m.last_print = meter.last_print
      /\ m.last >= StartingFrame /\ m.last_print <= m.last /\ m.last \in ct.frames
      /\ ct.frames \in SUBSET Ahead /\ ct.reported + m.processed = ct.ocr
      /\ ct.ocr \in Nat /\ ct.reported = counted.reported /\ ct.seeked = counted.seeked
      /\ \A n \in ct.frames : n <= m.last
  BY <1>1 DEF MeterInv, MeterState, Ahead
<1>3. CASE meter' = m /\ postfix' = postfix /\ counted' = ct
  BY <1>2, <1>3 DEF MeterInv, MeterType, MeterState, Meters, Counts
<1>4. CASE /\ meter' = [processed |-> 0, last |-> m.last, last_print |-> m.last]
           /\ postfix' = [kind |-> "report", last |-> m.last]
           /\ counted' = [ct EXCEPT !.reported = @ + m.processed,
                                    !.seeked = @ + Max({m.last - m.last_print, 0})]
  <2> DEFINE way == m.last - m.last_print
  <2>1. Max({way, 0}) = way /\ way \in Nat
    BY <1>1, <1>2, MaxOfTwo
  <2> HIDE DEF way
  <2>2. /\ counted'.ocr = ct.ocr /\ counted'.frames = ct.frames
        /\ counted'.reported = ct.reported + m.processed /\ counted'.seeked = ct.seeked + way
        /\ counted' \in Counts
    <3>1. counted' = [ct EXCEPT !.reported = @ + m.processed, !.seeked = @ + way]
      BY <1>4, <2>1 DEF way
    <3>2. ct.reported + m.processed \in Nat /\ ct.seeked + way \in Nat
      BY <1>1, <1>2, <2>1
    <3> QED
      BY <3>1, <3>2 DEF Counts
  <2>3. counted'.seeked = m.last - StartingFrame
    <3>1. counted.seeked = meter.last_print - StartingFrame
      BY DEF MeterInv, MeterState
    <3> QED
      BY <1>1, <1>2, <2>2, <3>1 DEF way
  <2>4. meter' \in Meters /\ postfix' \in [kind : {"starting", "stopping", "report"}, last : Nat]
    BY <1>2, <1>4 DEF Meters
  <2>5. MeterType'
    BY <2>2, <2>4 DEF MeterType, Meters, Counts
  <2>6. meter'.processed = 0 /\ meter'.last = m.last /\ meter'.last_print = m.last /\ postfix'.last = m.last
    BY <1>4
  <2> QED
    BY <1>1, <1>2, <2>2, <2>3, <2>5, <2>6 DEF MeterState
<1> QED
  BY <1>3, <1>4 DEF Meter, CheckProgress

(* Adding a frame keeps it.                                                *)
LEMMA CountKeeps ==
  ASSUME MeterInv, NEW c \in Consumers, Count(c)
  PROVE  MeterInv'
<1> DEFINE num == hand[c].frame
           last == IF meter.last >= num THEN meter.last ELSE num
<1>1. num \in Ahead
  BY DEF Count, MeterInv, FramesAhead
<1>2. Max({meter.last, num}) = last /\ last \in Nat
  BY <1>1, MaxOfTwo DEF MeterInv, MeterType, Ahead
<1>3. meter \in Meters /\ counted \in Counts /\ counted.frames \cup {num} \in SUBSET Ahead
  BY <1>1 DEF MeterInv, MeterType, Meters, Counts
<1>4. ASSUME AddOcrFrame(num) PROVE MeterType' /\ MeterState'
  <2> DEFINE m == [meter EXCEPT !.last = last, !.processed = @ + 1]
             ct == [counted EXCEPT !.ocr = @ + 1, !.frames = @ \cup {num}]
  <2>1. Meter(m, ct)
    BY <1>2, <1>4 DEF AddOcrFrame
  <2> HIDE DEF num, last
  <2>2. meter.processed \in Nat /\ meter.processed + 1 \in Nat /\ counted.ocr \in Nat /\ counted.ocr + 1 \in Nat
    BY <1>3 DEF Meters, Counts
  <2>3. m \in Meters
    BY <1>2, <1>3, <2>2 DEF Meters
  <2>4. m.processed = meter.processed + 1 /\ m.last = last /\ m.last_print = meter.last_print
    BY <1>3 DEF Meters
  <2>5. ct \in Counts
    BY <1>3, <2>2 DEF Counts
  <2>6. /\ ct.ocr = counted.ocr + 1 /\ ct.frames = counted.frames \cup {num}
        /\ ct.reported = counted.reported /\ ct.seeked = counted.seeked
    BY <1>3 DEF Counts
  <2>7. ct.ocr + meter.processed = counted.ocr + m.processed
    BY <2>2, <2>4, <2>6
  <2> HIDE DEF m, ct
  <2> QED
    BY <1>1, <2>1, <2>3, <2>4, <2>5, <2>6, <2>7, CheckKeeps DEF last
<1>5. ASSUME AddSkippedFrame(num) PROVE MeterType' /\ MeterState'
  <2> DEFINE m == [meter EXCEPT !.last = last]
             ct == [counted EXCEPT !.frames = @ \cup {num}]
  <2>1. Meter(m, ct)
    BY <1>2, <1>5 DEF AddSkippedFrame
  <2> HIDE DEF num, last
  <2>2. m \in Meters /\ m.processed = meter.processed /\ m.last = last /\ m.last_print = meter.last_print
    BY <1>2, <1>3 DEF Meters
  <2>3. /\ ct \in Counts /\ ct.ocr = counted.ocr /\ ct.frames = counted.frames \cup {num}
        /\ ct.reported = counted.reported /\ ct.seeked = counted.seeked
    BY <1>3 DEF Counts
  <2> HIDE DEF m, ct
  <2> QED
    BY <1>1, <2>1, <2>2, <2>3, CheckKeeps DEF last
<1>6. FramesAhead'
  BY DEF Count, MeterInv, FramesAhead
<1> QED
  BY <1>4, <1>5, <1>6 DEF Count, MeterInv

(* Every step of every process and thread keeps it.                        *)
LEMMA MeterStep == MeterInv /\ [Next]_vars => MeterInv'
<1> SUFFICES ASSUME MeterInv, [Next]_vars PROVE MeterInv'
  OBVIOUS
<1> USE DEF MeterInv, FramesAhead, MeterType, MeterState
<1>1. CASE Decode
  <2>1. next_frame' \in Ahead /\ pending' \in Seq(Ahead)
    BY <1>1, ReportingAssumption DEF Decode, Ahead
  <2> QED
    BY <1>1, <2>1 DEF Decode
<1>2. CASE Signal
  <2>1. postfix' \in [kind : {"starting", "stopping", "report"}, last : Nat] /\ postfix'.kind = "stopping"
    BY <1>2 DEF Signal
  <2> QED
    BY <1>2, <2>1 DEF Signal
<1>3. ASSUME NEW c \in Consumers, Take(c) PROVE MeterInv'
  <2>1. Head(pending) \in Ahead /\ pending' \in Seq(Ahead)
    BY <1>3 DEF Take
  <2> QED
    BY <1>3, <2>1 DEF Take, Ahead
<1>4. ASSUME NEW c \in Consumers, Count(c) PROVE MeterInv'
  BY <1>4, CountKeeps
<1>5. ASSUME NEW c \in Consumers, RecognizeNothing(c) \/ Throw(c) \/ ConsumerFails(c) PROVE MeterInv'
  <2>1. CASE RecognizeNothing(c)
    BY <2>1 DEF RecognizeNothing, Idle
  <2>2. CASE Throw(c)
    BY <2>2 DEF Throw, Failing
  <2>3. CASE ConsumerFails(c)
    BY <2>3 DEF ConsumerFails
  <2> QED
    BY <1>5, <2>1, <2>2, <2>3
<1>6. ASSUME NEW c \in Consumers, SetProgress(c) PROVE MeterInv'
  BY <1>6 DEF SetProgress, Idle, Failing
<1>7. ASSUME NEW c \in Consumers, LeaveConsumer(c) PROVE MeterInv'
  BY <1>7 DEF LeaveConsumer
<1>8. CASE UNCHANGED <<next_frame, pending, hand, meter, postfix, counted>>
  BY <1>8
<1>9. CASE Warn \/ EndOfFile \/ Exit \/ Complain \/ \E s \in Streams : BrokenPipe(s)
  BY <1>8, <1>9 DEF Warn, EndOfFile, Exit, Complain, BrokenPipe
<1>10. CASE MonitorStep
  BY <1>8, <1>10 DEF MonitorStep, Poll, ReadLine, ReadChunk, EndOfList, FlushRemainingOutput, CloseStreams, child
<1>11. CASE RunnerStep
  BY <1>8, <1>11 DEF RunnerStep, WaitProcess, JoinMonitor, child
<1>12. CASE Stopped \/ UNCHANGED vars
  BY <1>8, <1>12 DEF Stopped, vars, child
<1>13. CASE StartDecoder
  <2>1. postfix' \in [kind : {"starting", "stopping", "report"}, last : Nat] /\ postfix'.kind = "starting"
    BY <1>13 DEF StartDecoder
  <2> QED
    BY <1>13, <2>1 DEF StartDecoder
<1> QED
  BY <1>1, <1>2, <1>3, <1>4, <1>5, <1>6, <1>7, <1>9, <1>10, <1>11, <1>12, <1>13
  DEF Next, MainStep, ConsumerStep

(* Whichever threads finish their frames in which order, and whenever a    *)
(* report is due: each frame is counted by one report, the distances       *)
(* reported add up, and the frame reported last is the highest one.        *)
THEOREM MeterCorrect == Spec => []MeterIsExact
<1>1. MeterInv => MeterIsExact
  <2> SUFFICES ASSUME MeterInv PROVE MeterIsExact
    OBVIOUS
  <2>1. /\ {0} \cup counted.frames \in SUBSET Int
        /\ meter.last \in {0} \cup counted.frames
        /\ \A n \in {0} \cup counted.frames : n <= meter.last
    BY DEF MeterInv, MeterType, MeterState, Ahead
  <2>2. meter.last = Max({0} \cup counted.frames)
    BY <2>1, MaxIsBound
  <2> QED
    BY <2>2 DEF MeterInv, MeterState, MeterIsExact
<1> QED
  BY MeterInit, MeterStep, <1>1, PTL DEF Spec

-----------------------------------------------------------------------------
(* What ProcessLines computes, for any lines: the equations of its fold,   *)
(* and an induction over the lines.                                        *)

(* Counting up: what 0 has and each number hands to the next, all have.    *)
LEMMA CountingUp ==
  ASSUME NEW S, 0 \in S, \A n \in Nat : n \in S => n + 1 \in S
  PROVE  Nat \subseteq S
<1> DEFINE less == {ss \in Nat \X Nat : ss[1] < ss[2]}
           rest == Nat \ S
<1> SUFFICES ASSUME rest # {} PROVE FALSE
  OBVIOUS
<1>1. IsWellFoundedOn(less, Nat)
  <2>1. OpToRel(<, Nat) = less
    BY Zenon DEF OpToRel
  <2> QED
    BY <2>1, NatLessThanWellFounded, Zenon
<1>2. PICK least \in rest : \A m \in rest : ~ (<<m, least>> \in less)
  <2>1. rest \subseteq Nat
    OBVIOUS
  <2> HIDE DEF rest, less
  <2> QED
    BY <1>1, <2>1, WFMin
<1>3. least # 0 /\ least - 1 \in Nat /\ least - 1 \in S
  <2>1. least # 0 /\ least \in Nat
    OBVIOUS
  <2>2. least - 1 \in Nat /\ least - 1 < least
    BY <2>1
  <2>3. least - 1 \notin rest
    BY <1>2, <2>2
  <2> QED
    BY <2>1, <2>2, <2>3
<1> QED
  BY <1>3

(* The maximum of the first numbers is the last of them.                    *)
LEMMA MaxOfRange == ASSUME NEW i \in Nat \ {0} PROVE Max(1 .. i) = i
<1>1. \A x \in 1 .. i : (\A y \in 1 .. i : x >= y) <=> x = i
  OBVIOUS
<1>2. i \in 1 .. i
  OBVIOUS
<1> QED
  BY <1>1, <1>2 DEF Max

(* A set of numbers up to n that is not empty has a maximum.                *)
LEMMA MaxIsIn ==
  ASSUME NEW n \in Nat, NEW s \in SUBSET (1 .. n), s # {}
  PROVE  Max(s) \in s
<1> DEFINE Good(k) == \A S \in SUBSET (1 .. k) : S # {} => \E x \in S : \A y \in S : x >= y
           good == {k \in Nat : Good(k)}
<1>1. 0 \in good
  <2>1. 1 .. 0 = {}
    OBVIOUS
  <2> QED
    BY <2>1
<1>2. ASSUME NEW k \in Nat, k \in good PROVE k + 1 \in good
  <2> SUFFICES ASSUME NEW S \in SUBSET (1 .. k + 1), S # {} PROVE \E x \in S : \A y \in S : x >= y
    OBVIOUS
  <2>1. CASE k + 1 \in S
    BY <2>1
  <2>2. CASE k + 1 \notin S
    <3>1. S \in SUBSET (1 .. k)
      BY <2>2
    <3> QED
      BY <1>2, <3>1
  <2> QED
    BY <2>1, <2>2
<1>3. n \in good
  <2> HIDE DEF good
  <2> QED
    BY <1>1, <1>2, CountingUp
<1> QED
  BY <1>3 DEF Max


(* One step of the fold that ProcessLines is.                              *)
FoldStep(base, lines, g, s) == IF s = {} THEN base ELSE ProcessStdout(g[s \ {Max(s)}], lines[Max(s)])

(* There is a function that takes these steps, for any number of lines.     *)
LEMMA FoldIsDefined ==
  ASSUME NEW base, NEW lines, NEW n \in Nat
  PROVE  \E g : g = [s \in SUBSET (1 .. n) |-> FoldStep(base, lines, g, s)]
<1> DEFINE Good(k) == \E g : g = [s \in SUBSET (1 .. k) |-> FoldStep(base, lines, g, s)]
           good == {k \in Nat : Good(k)}
<1>1. 0 \in good
  <2> DEFINE g == [s \in SUBSET (1 .. 0) |-> base]
  <2>1. 1 .. 0 = {}
    OBVIOUS
  <2>2. g = [s \in SUBSET (1 .. 0) |-> FoldStep(base, lines, g, s)]
    BY <2>1 DEF FoldStep
  <2> QED
    BY <2>2
<1>2. ASSUME NEW k \in Nat, k \in good PROVE k + 1 \in good
  <2>1. PICK g : g = [s \in SUBSET (1 .. k) |-> FoldStep(base, lines, g, s)]
    BY <1>2
  <2> DEFINE last(s) == ProcessStdout(g[s \ {k + 1}], lines[k + 1])
             f == [s \in SUBSET (1 .. k + 1) |-> IF k + 1 \in s THEN last(s) ELSE g[s]]
  <2>2. ASSUME NEW s \in SUBSET (1 .. k + 1) PROVE f[s] = FoldStep(base, lines, f, s)
    <3>1. CASE s = {}
      <4>1. {} \in SUBSET (1 .. k) /\ g[{}] = base
        BY <2>1 DEF FoldStep
      <4> QED
        BY <3>1, <4>1 DEF FoldStep
    <3>2. CASE k + 1 \in s
      <4>1. Max(s) = k + 1
        <5>1. k + 1 \in s /\ \A y \in s : k + 1 >= y
          BY <3>2
        <5>2. \A x \in s : (\A y \in s : x >= y) => x = k + 1
          BY <5>1
        <5> QED
          BY <5>1, <5>2 DEF Max
      <4>2. s \ {k + 1} \in SUBSET (1 .. k) /\ s \ {k + 1} \in SUBSET (1 .. k + 1) /\ k + 1 \notin s \ {k + 1}
        OBVIOUS
      <4>3. f[s \ {k + 1}] = g[s \ {k + 1}] /\ f[s] = last(s)
        BY <3>2, <4>2
      <4> QED
        BY <3>2, <4>1, <4>3 DEF FoldStep
    <3>3. CASE s # {} /\ k + 1 \notin s
      <4>1. s \in SUBSET (1 .. k)
        BY <3>3
      <4>2. s \ {Max(s)} \in SUBSET (1 .. k) /\ k + 1 \notin s \ {Max(s)}
        BY <3>3, <4>1
      <4>3. f[s \ {Max(s)}] = g[s \ {Max(s)}]
        BY <4>2
      <4>4. f[s] = g[s] /\ g[s] = FoldStep(base, lines, g, s)
        BY <2>1, <3>3, <4>1
      <4> QED
        BY <3>3, <4>3, <4>4 DEF FoldStep
    <3> QED
      BY <3>1, <3>2, <3>3
  <2>3. f = [s \in SUBSET (1 .. k + 1) |-> FoldStep(base, lines, f, s)]
    <3> HIDE DEF last
    <3>1. f = [s \in SUBSET (1 .. k + 1) |-> f[s]]
      BY Zenon
    <3> HIDE DEF f
    <3> QED
      BY <2>2, <3>1
  <2> HIDE DEF f
  <2> QED
    BY <2>3
<1>3. n \in good
  <2> HIDE DEF good
  <2> QED
    BY <1>1, <1>2, CountingUp
<1> QED
  BY <1>3

(* ProcessLines, line by line: shown[i] is what the first i lines come to. *)
ByLine(shown, base, lines, n) ==
  /\ shown[0] = base
  /\ \A i \in 1 .. n : shown[i] = ProcessStdout(shown[i - 1], lines[i])
  /\ ProcessLines(base, lines) = shown[n]

(* The fold has these values, for any number of lines.                     *)
LEMMA ProcessedByLine ==
  ASSUME NEW base, NEW lines, NEW n \in Nat, DOMAIN lines = 1 .. n
  PROVE  \E shown : ByLine(shown, base, lines, n)
<1> DEFINE solves(g) == g = [s \in SUBSET (1 .. n) |-> FoldStep(base, lines, g, s)]
           g == CHOOSE k : solves(k)
           h == [i \in 0 .. n |-> g[1 .. i]]
<1>1. solves(g)
  <2>1. \E k : solves(k)
    BY FoldIsDefined
  <2> HIDE DEF solves
  <2> QED
    BY <2>1
<1>2. ProcessLines(base, lines) = g[1 .. n]
  <2>1. ProcessLines(base, lines) = (CHOOSE k : k = [s \in SUBSET DOMAIN lines |-> FoldStep(base, lines, k, s)])[DOMAIN lines]
    BY DEF ProcessLines, FoldLeft, MapThenFoldSet, FoldStep
  <2> QED
    BY <2>1
<1> HIDE DEF g
<1>3. h[0] = base
  <2>1. 1 .. 0 = {} /\ {} \in SUBSET (1 .. n) /\ 0 \in 0 .. n
    OBVIOUS
  <2>2. g[{}] = FoldStep(base, lines, g, {})
    BY <1>1, <2>1
  <2> QED
    BY <2>1, <2>2 DEF FoldStep
<1>4. ASSUME NEW i \in 1 .. n PROVE h[i] = ProcessStdout(h[i - 1], lines[i])
  <2>1. 1 .. i \in SUBSET (1 .. n) /\ i \in 0 .. n /\ i - 1 \in 0 .. n
    OBVIOUS
  <2>5. i \in 1 .. i
    OBVIOUS
  <2>4. (1 .. i) \ {i} = 1 .. (i - 1)
    OBVIOUS
  <2>2. g[1 .. i] = FoldStep(base, lines, g, 1 .. i)
    BY <1>1, <2>1
  <2>3. Max(1 .. i) = i
    BY MaxOfRange
  <2> QED
    BY <2>1, <2>2, <2>3, <2>4, <2>5 DEF FoldStep
<1> HIDE DEF h
<1>5. h[n] = g[1 .. n]
  BY DEF h
<1> QED
  BY <1>2, <1>3, <1>4, <1>5 DEF ByLine

(* Handling lines in two parts comes to the same as handling them at once. *)
LEMMA LinesInTwo ==
  ASSUME NEW S, NEW lines \in Seq(S), NEW d \in Nat, NEW u \in Nat, d <= u, u <= Len(lines)
  PROVE  ProcessLines(ProcessLines(0, SubSeq(lines, 1, d)), SubSeq(lines, d + 1, u))
           = ProcessLines(0, SubSeq(lines, 1, u))
<1> DEFINE all == SubSeq(lines, 1, u)
           first == SubSeq(lines, 1, d)
           rest == SubSeq(lines, d + 1, u)
           r == u - d
<1>1. /\ DOMAIN all = 1 .. u /\ \A i \in 1 .. u : all[i] = lines[i]
      /\ DOMAIN first = 1 .. d /\ \A i \in 1 .. d : first[i] = lines[i]
      /\ r \in Nat /\ DOMAIN rest = 1 .. r /\ \A i \in 1 .. r : rest[i] = lines[d + i]
  OBVIOUS
<1> HIDE DEF all, first, rest
<1>2. PICK h : ByLine(h, 0, all, u)
  <2>1. DOMAIN all = 1 .. u /\ u \in Nat
    BY <1>1
  <2> QED
    BY <2>1, ProcessedByLine
<1>3. PICK f : ByLine(f, 0, first, d)
  <2>1. DOMAIN first = 1 .. d
    BY <1>1
  <2> QED
    BY <2>1, ProcessedByLine
<1>4. PICK k : ByLine(k, f[d], rest, r)
  <2>1. DOMAIN rest = 1 .. r /\ r \in Nat
    BY <1>1
  <2> HIDE DEF r
  <2> QED
    BY <2>1, ProcessedByLine
<1>5. f[d] = h[d]
  <2> DEFINE good == {i \in Nat : i <= d => f[i] = h[i]}
  <2>1. 0 \in good
    BY <1>2, <1>3 DEF ByLine
  <2>2. ASSUME NEW i \in Nat, i \in good PROVE i + 1 \in good
    <3> SUFFICES ASSUME i + 1 <= d PROVE f[i + 1] = h[i + 1]
      OBVIOUS
    <3>1. i + 1 \in 1 .. d /\ i + 1 \in 1 .. u /\ (i + 1) - 1 = i /\ f[i] = h[i]
      BY <2>2
    <3>2. all[i + 1] = first[i + 1]
      BY <1>1, <3>1
    <3> QED
      BY <1>2, <1>3, <3>1, <3>2 DEF ByLine
  <2>3. d \in good
    <3> HIDE DEF good
    <3> QED
      BY <2>1, <2>2, CountingUp
  <2> QED
    BY <2>3
<1>6. k[r] = h[d + r]
  <2> DEFINE good == {i \in Nat : i <= r => k[i] = h[d + i]}
  <2>1. 0 \in good
    BY <1>4, <1>5 DEF ByLine
  <2>2. ASSUME NEW i \in Nat, i \in good PROVE i + 1 \in good
    <3> SUFFICES ASSUME i + 1 <= r PROVE k[i + 1] = h[d + (i + 1)]
      OBVIOUS
    <3>1. /\ i + 1 \in 1 .. r /\ d + (i + 1) \in 1 .. u /\ (i + 1) - 1 = i
          /\ (d + (i + 1)) - 1 = d + i /\ k[i] = h[d + i]
      BY <2>2
    <3>2. all[d + (i + 1)] = rest[i + 1]
      BY <1>1, <3>1
    <3> QED
      BY <1>2, <1>4, <3>1, <3>2 DEF ByLine
  <2>3. r \in good
    <3> HIDE DEF good, r
    <3> QED
      BY <1>1, <2>1, <2>2, CountingUp
  <2> QED
    BY <2>3
<1> QED
  BY <1>2, <1>3, <1>4, <1>5, <1>6 DEF ByLine, all, first, rest

-----------------------------------------------------------------------------
(* How far the monitor is, and what the bar shows for it.                  *)
Progressed ==
  /\ written = [s \in Streams |-> written[s]]
  /\ \A s \in Streams : \E S : written[s] \in Seq(S)
  /\ read \in [Streams -> Nat] /\ done \in [Streams -> Nat]
  /\ \A s \in Streams : done[s] <= read[s] /\ read[s] <= Len(written[s])
  /\ rlist \in Seq(Streams)
  /\ bar = ProcessLines(0, SubSeq(written["stdout"], 1, done["stdout"]))

Handled(s) == done[s] = Len(written[s])

(* Nothing is written any more when the rest is flushed, and the flushes   *)
(* leave nothing, unless one of them fails.                                *)
Flushed ==
  /\ monitor \in {"flush_stdout", "flush_stderr"} => ~ Alive
  /\ monitor = "flush_stderr" => Handled("stdout")
  /\ monitor \in {"close", "done"} /\ ~ failed => ~ Alive /\ \A s \in Streams : Handled(s)
  /\ runner \in {"succeeded", "failed"} => monitor = "done"

ShownInv == Progressed /\ Flushed

(* Nothing was written, and the bar shows nothing.                         *)
LEMMA ShownInit == Init => ShownInv
<1> SUFFICES ASSUME Init PROVE ShownInv
  OBVIOUS
<1> USE DEF Init, Streams
<1>1. written = [s \in Streams |-> <<>>] /\ <<>> \in Seq({}) /\ Len(<<>>) = 0
  OBVIOUS
<1>2. /\ read \in [Streams -> Nat] /\ done \in [Streams -> Nat] /\ rlist \in Seq(Streams)
      /\ \A s \in Streams : done[s] <= read[s] /\ read[s] <= Len(written[s])
  OBVIOUS
<1>3. ProcessLines(0, SubSeq(written["stdout"], 1, done["stdout"])) = 0
  <2> DEFINE none == SubSeq(written["stdout"], 1, done["stdout"])
  <2>1. none = <<>>
    OBVIOUS
  <2>2. DOMAIN none = 1 .. 0
    BY <2>1
  <2> HIDE DEF none
  <2>3. PICK h : ByLine(h, 0, none, 0)
    BY <2>2, ProcessedByLine
  <2> QED
    BY <2>3 DEF ByLine, none
<1> QED
  BY <1>1, <1>2, <1>3 DEF ShownInv, Progressed, Flushed

(* A line is written while the process is alive.                           *)
LEMMA WriteKeeps ==
  ASSUME ShownInv, NEW t \in Streams, NEW line, Write(t, line), Alive,
         UNCHANGED <<read, done, watcher>>
  PROVE  ShownInv'
<1>1. PICK S : written[t] \in Seq(S)
  BY DEF ShownInv, Progressed
<1>2. written'[t] = Append(written[t], line)
  BY DEF Write, ShownInv, Progressed
<1>3. /\ written'[t] \in Seq(S \cup {line}) /\ Len(written'[t]) = Len(written[t]) + 1
      /\ \A i \in 1 .. Len(written[t]) : written'[t][i] = written[t][i]
  BY <1>1, <1>2
<1>4. \A s \in Streams \ {t} : written'[s] = written[s]
  BY DEF Write, ShownInv, Progressed
<1>5. written' = [s \in Streams |-> written'[s]]
  BY DEF Write, ShownInv, Progressed
<1>6. \A s \in Streams : \E R : written'[s] \in Seq(R)
  BY <1>3, <1>4 DEF ShownInv, Progressed
<1>7. \A s \in Streams : Len(written[s]) <= Len(written'[s]) /\ Len(written[s]) \in Nat
  <2> TAKE s \in Streams
  <2>1. PICK R : written[s] \in Seq(R)
    BY DEF ShownInv, Progressed
  <2> QED
    BY <1>1, <1>3, <1>4, <2>1
<1>8. SubSeq(written'["stdout"], 1, done["stdout"]) = SubSeq(written["stdout"], 1, done["stdout"])
  <2>1. CASE t = "stdout"
    <3>1. done[t] \in Nat /\ done[t] <= Len(written[t])
      BY <1>7 DEF ShownInv, Progressed
    <3>2. SubSeq(written'[t], 1, done[t]) = SubSeq(written[t], 1, done[t])
      BY <1>1, <1>3, <3>1
    <3> QED
      BY <2>1, <3>2
  <2>2. CASE t # "stdout"
    BY <1>4, <2>2 DEF Streams
  <2> QED
    BY <2>1, <2>2
<1>9. Progressed'
  <2>1. \A s \in Streams : done[s] <= read[s] /\ read[s] <= Len(written'[s])
    <3> TAKE s \in Streams
    <3>1. read[s] \in Nat /\ done[s] <= read[s] /\ read[s] <= Len(written[s])
      BY DEF ShownInv, Progressed
    <3>2. PICK R : written'[s] \in Seq(R)
      BY <1>6
    <3> QED
      BY <1>7, <3>1, <3>2
  <2>2. bar' = ProcessLines(0, SubSeq(written'["stdout"], 1, done["stdout"]))
    BY <1>8 DEF ShownInv, Progressed, watcher
  <2> QED
    BY <1>5, <1>6, <2>1, <2>2 DEF ShownInv, Progressed, watcher
<1>10. Flushed'
  BY DEF ShownInv, Flushed, Write, watcher, Alive
<1> QED
  BY <1>9, <1>10 DEF ShownInv

(* Lines that were read are handled.                                       *)
LEMMA HandleKeeps ==
  ASSUME Progressed, NEW t \in Streams, NEW upto \in Nat,
         done[t] <= upto, upto <= read'[t], \A s \in Streams : read[s] <= read'[s] /\ read'[s] <= Len(written[s]),
         Handle(t, upto), read' \in [Streams -> Nat], rlist' \in Seq(Streams), UNCHANGED written
  PROVE  Progressed' /\ done'[t] = upto /\ \A s \in Streams \ {t} : done'[s] = done[s]
<1>1. done' = [done EXCEPT ![t] = upto] /\ done' \in [Streams -> Nat]
  BY DEF Handle, Progressed
<1>2. \A s \in Streams : done'[s] <= read'[s]
  BY <1>1 DEF Progressed
<1>3. bar' = ProcessLines(0, SubSeq(written["stdout"], 1, done'["stdout"]))
  <2>1. CASE t = "stdout"
    <3>1. PICK S : written[t] \in Seq(S)
      BY DEF Progressed
    <3>2. done[t] \in Nat /\ upto <= Len(written[t])
      BY <3>1 DEF Progressed
    <3>3. bar' = ProcessLines(ProcessLines(0, SubSeq(written[t], 1, done[t])), SubSeq(written[t], done[t] + 1, upto))
      BY <2>1 DEF Handle, Progressed
    <3>4. bar' = ProcessLines(0, SubSeq(written[t], 1, upto))
      BY <3>1, <3>2, <3>3, LinesInTwo
    <3> QED
      BY <1>1, <2>1, <3>4 DEF Progressed
  <2>2. CASE t # "stdout"
    BY <1>1, <2>2 DEF Handle, Progressed, Streams
  <2> QED
    BY <2>1, <2>2
<1> QED
  BY <1>1, <1>2, <1>3 DEF Progressed

(* Every step keeps it.                                                    *)
LEMMA ShownStep == ShownInv /\ [Next]_vars => ShownInv'
<1> SUFFICES ASSUME ShownInv, [Next]_vars PROVE ShownInv'
  OBVIOUS
<1>1. ASSUME UNCHANGED <<written, read, done, rlist, bar>> PROVE Progressed'
  BY <1>1 DEF ShownInv, Progressed
<1>2. ASSUME UNCHANGED <<pipes, watcher>>, Alive \/ UNCHANGED decoder
      PROVE  ShownInv'
  BY <1>1, <1>2 DEF ShownInv, Flushed, Handled, Alive, pipes, watcher
<1>3. \A s \in Streams : /\ Len(written[s]) \in Nat /\ done[s] \in Nat /\ read[s] \in Nat
                         /\ done[s] <= read[s] /\ read[s] <= Len(written[s])
  <2> TAKE s \in Streams
  <2>1. PICK R : written[s] \in Seq(R)
    BY DEF ShownInv, Progressed
  <2> QED
    BY <2>1 DEF ShownInv, Progressed
<1>4. CASE StartDecoder \/ Warn \/ Exit
  BY <1>4, WriteKeeps DEF StartDecoder, Starting, Warn, Exit, Streams, Alive, watcher
<1>5. CASE Decode \/ EndOfFile \/ Complain \/ Signal \/ \E s \in Streams : BrokenPipe(s)
  BY <1>2, <1>5 DEF Decode, EndOfFile, Complain, Signal, BrokenPipe, Alive
<1>6. ASSUME NEW c \in Consumers, ConsumerStep(c) PROVE ShownInv'
  <2>1. CASE RecognizeNothing(c) \/ SetProgress(c) \/ ConsumerFails(c)
    BY <2>1, WriteKeeps DEF RecognizeNothing, SetProgress, ConsumerFails, Streams, watcher
  <2>2. CASE Take(c) \/ Count(c) \/ Throw(c) \/ LeaveConsumer(c)
    BY <1>2, <2>2 DEF Take, Count, Throw, LeaveConsumer
  <2> QED
    BY <1>6, <2>1, <2>2 DEF ConsumerStep
<1>7. CASE Poll
  <2>1. rlist' \in Seq(Streams)
    BY <1>7 DEF Poll, Ready, ShownInv, Progressed, Streams
  <2>2. Progressed'
    BY <1>7, <2>1 DEF Poll, ShownInv, Progressed, pipes
  <2> QED
    BY <1>7, <2>2 DEF Poll, ShownInv, Flushed, Handled, Alive, pipes, child
<1>8. CASE ReadLine
  <2> DEFINE s == Head(rlist)
  <2>1. s \in Streams /\ rlist' \in Seq(Streams)
    BY <1>8 DEF ReadLine, ShownInv, Progressed
  <2>2. PICK upto \in Nat : done[s] <= upto /\ upto <= read[s] /\ Handle(s, upto)
    <3>1. CASE Complete(s) /\ Handle(s, done[s] + 1)
      BY <1>3, <2>1, <3>1 DEF Complete
    <3>2. CASE Handle(s, read[s])
      BY <1>3, <2>1, <3>2
    <3> QED
      BY <1>8, <3>1, <3>2 DEF ReadLine
  <2> HIDE DEF s
  <2>3. Progressed'
    <3>1. Progressed /\ UNCHANGED <<written, read>> /\ read' \in [Streams -> Nat]
      BY <1>8 DEF ReadLine, ShownInv, Progressed
    <3>2. upto <= read'[s] /\ \A r \in Streams : read[r] <= read'[r] /\ read'[r] <= Len(written[r])
      BY <1>3, <2>2, <3>1
    <3> QED
      BY <2>1, <2>2, <3>1, <3>2, HandleKeeps
  <2> QED
    BY <1>8, <2>3 DEF ReadLine, ShownInv, Flushed, Alive, child
<1>9. CASE ReadChunk
  <2> DEFINE s == Head(rlist)
  <2>1. s \in Streams
    BY <1>9 DEF ReadChunk, ShownInv, Progressed
  <2>2. PICK upto \in read[s] + 1 .. Len(written[s]) : read' = [read EXCEPT ![s] = upto]
    BY <1>9 DEF ReadChunk
  <2>3. UNCHANGED <<written, done, rlist, bar, runner, decoder>> /\ monitor = "read"
        /\ (UNCHANGED <<monitor, failed>> \/ (monitor' = "close" /\ failed'))
    BY <1>9 DEF ReadChunk, child
  <2> HIDE DEF s
  <2>4. Progressed'
    <3>1. /\ read' \in [Streams -> Nat]
          /\ \A r \in Streams : done[r] <= read'[r] /\ read'[r] <= Len(written[r])
      BY <1>3, <2>1, <2>2 DEF ShownInv, Progressed
    <3> QED
      BY <2>3, <3>1 DEF ShownInv, Progressed
  <2> QED
    BY <2>3, <2>4 DEF ShownInv, Flushed, Alive
<1>10. ASSUME NEW s \in Streams, FlushRemainingOutput(s) PROVE ShownInv'
  <2> DEFINE all == Len(written[s])
  <2>1. read' = [read EXCEPT ![s] = all] /\ all \in Nat /\ UNCHANGED <<written, rlist, decoder, runner>>
    BY <1>3, <1>10 DEF FlushRemainingOutput, child
  <2>2. /\ read' \in [Streams -> Nat] /\ read'[s] = all
        /\ \A r \in Streams : read[r] <= read'[r] /\ read'[r] <= Len(written[r])
    BY <1>3, <2>1 DEF ShownInv, Progressed
  <2>3. CASE Valid(s, all)
    <3>1. Handle(s, all)
      BY <1>10, <2>3 DEF FlushRemainingOutput
    <3>2. Progressed' /\ done'[s] = all /\ \A r \in Streams \ {s} : done'[r] = done[r]
      <4>1. Progressed /\ rlist' \in Seq(Streams)
        BY <2>1 DEF ShownInv, Progressed
      <4>2. done[s] <= all /\ all <= read'[s]
        BY <1>3, <2>1, <2>2
      <4> HIDE DEF all
      <4> QED
        BY <2>1, <2>2, <3>1, <4>1, <4>2, HandleKeeps
    <3>3. Handled(s)' /\ \A r \in Streams \ {s} : Handled(r) => Handled(r)'
      BY <2>1, <3>2 DEF Handled
    <3> QED
      BY <1>10, <2>1, <2>3, <3>2, <3>3 DEF FlushRemainingOutput, ShownInv, Flushed, Alive, Streams
  <2>4. CASE ~ Valid(s, all)
    <3>1. UNCHANGED <<done, bar>> /\ failed' /\ monitor' = "close" /\ monitor # "done"
      BY <1>10, <2>4 DEF FlushRemainingOutput
    <3>2. Progressed'
      BY <1>3, <2>1, <2>2, <3>1 DEF ShownInv, Progressed
    <3> QED
      BY <2>1, <3>1, <3>2 DEF ShownInv, Flushed
  <2> QED
    BY <2>3, <2>4
<1>11. CASE EndOfList \/ CloseStreams
  BY <1>1, <1>11 DEF EndOfList, CloseStreams, ShownInv, Flushed, Handled, Alive, pipes, child
<1>12. CASE RunnerStep
  BY <1>1, <1>12 DEF RunnerStep, WaitProcess, JoinMonitor, ShownInv, Flushed, Handled, Alive, pipes, child
<1>13. CASE Stopped \/ UNCHANGED vars
  BY <1>2, <1>13 DEF Stopped, vars, child
<1> QED
  BY <1>4, <1>5, <1>6, <1>7, <1>8, <1>9, <1>10, <1>11, <1>12, <1>13 DEF Next, MainStep, MonitorStep

(* When a run is over and the monitor did not fail, every line of both     *)
(* streams was handled, also what buffers and pipes still held when the    *)
(* process ended, and the bar is where the lines put it.                   *)
THEOREM ShownCorrect == Spec => []EverythingShown
<1>1. ShownInv => EverythingShown
  <2> SUFFICES ASSUME ShownInv, runner \in {"succeeded", "failed"}, ~ failed
               PROVE  /\ \A s \in Streams : done[s] = Len(written[s])
                      /\ bar = ProcessLines(0, written["stdout"])
    BY DEF EverythingShown
  <2>1. \A s \in Streams : done[s] = Len(written[s])
    BY DEF ShownInv, Flushed, Handled
  <2>2. PICK S : written["stdout"] \in Seq(S)
    BY DEF ShownInv, Progressed, Streams
  <2>3. SubSeq(written["stdout"], 1, Len(written["stdout"])) = written["stdout"]
    BY <2>2
  <2> QED
    BY <2>1, <2>3 DEF ShownInv, Progressed, Streams
<1> QED
  BY ShownInit, ShownStep, <1>1, PTL DEF Spec
=============================================================================
