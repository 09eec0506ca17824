------------------------------- MODULE Decoder -------------------------------
(***************************************************************************)
(* ffmpeg/decoder.cpp: from a video file and a starting frame to the calls *)
(* of the callback.  The constructor looks for a place to start from, by   *)
(* bisection as files that are being recorded refuse to seek; run() sends  *)
(* packets to the codec and passes on the frames that come out.            *)
(*                                                                         *)
(* FFmpeg is external: seeking to a frame fails or goes to the last I      *)
(* frame that is not later; the codec keeps up to Delay frames and emits   *)
(* them in the order of their time.  A frame is its index in Packets.      *)
(***************************************************************************)
EXTENDS Integers, Sequences, FiniteSets

CONSTANTS
  Packets,    \* what the file holds, in order: [video, pts, type] records
  Delay,      \* frames the codec keeps back
  FrameRate,  \* frames per second ...
  TimeBase,   \* ... and units of pts per second
  MaxStart    \* bound on the starting frame

Indices == 1 .. Len(Packets)
Types == {"I", "P", "B", "other"}

ASSUME DecoderAssumption ==
  /\ Packets \in Seq([video : BOOLEAN, pts : Nat, type : Types])
  /\ Delay \in Nat /\ FrameRate \in Nat \ {0} /\ TimeBase \in Nat \ {0}
  /\ MaxStart \in Nat

VARIABLES
  filter,          \* the picture types asked for
  starting_frame,
  seekable,        \* the frame numbers avformat_seek_file succeeds for
  min, max, last_working,
  position,        \* the packet the file was last positioned at by a seek
  next,            \* the packet av_read_frame returns next
  held,            \* the frames in the codec
  phase,
  flushing,        \* the null packet was sent
  delivered,       \* the frames the callback got
  outcome          \* how run() came to its end; its callers are not told

input == <<filter, starting_frame, seekable>>
bisection == <<min, max, last_working>>
vars == <<input, bisection, position, next, held, phase, flushing, delivered, outcome>>

TypeOK ==
  /\ filter \in SUBSET {"I", "P", "B"}
  /\ starting_frame \in 0 .. MaxStart
  /\ seekable \subseteq 0 .. starting_frame
  /\ max \in 0 .. starting_frame /\ min \in 0 .. max /\ last_working \in 0 .. max
  /\ position \in Indices /\ next \in position .. Len(Packets) + 1
  /\ held \subseteq position .. next - 1
  /\ phase \in {"seek", "read", "receive", "ended"}
  /\ flushing \in BOOLEAN
  /\ delivered \in Seq(Indices)
  /\ outcome \in {"none", "eof", "error", "stopped"}

(* Frame numbers and times are converted with truncation: two frames may   *)
(* have the same number.                                                   *)
FrameNumber(pts) == (pts * FrameRate) \div TimeBase
Timestamp(number) == (number * TimeBase) \div FrameRate

Init ==
  /\ filter \in {{"I"}, {"I", "P"}, {"I", "P", "B"}}
  /\ starting_frame \in 0 .. MaxStart
  /\ seekable \in SUBSET (0 .. starting_frame)
  /\ min = 0 /\ max = starting_frame /\ last_working = 0
  /\ position = 1 /\ next = 1
  /\ held = {}
  /\ phase = "seek"
  /\ flushing = FALSE
  /\ delivered = <<>>
  /\ outcome = "none"

-----------------------------------------------------------------------------
(* The constructor: seek_to_closest_frame(0, starting_frame, 0).           *)

Latest(S) == CHOOSE i \in S : \A j \in S : j <= i

(* Mutant: the seek may go forward, as with a max_ts of INT64_MAX. *)
Landing_Forward(number) ==
  LET after == {i \in Indices : /\ Packets[i].video /\ Packets[i].type = "I"
                                /\ Packets[i].pts >= Timestamp(number)}
  IN  IF after = {} THEN Len(Packets) ELSE CHOOSE i \in after : \A j \in after : i <= j

Landing(number) ==
  Latest({1} \cup {i \in Indices : /\ Packets[i].video /\ Packets[i].type = "I"
                                   /\ Packets[i].pts <= Timestamp(number)})

(* A seek that fails leaves the file where it was.                         *)
SeekTo(number) ==
  position' = IF number \in seekable THEN Landing(number) ELSE position

StartReading ==
  /\ phase' = "read"
  /\ next' = position'
  /\ UNCHANGED <<input, bisection, held, flushing, delivered, outcome>>

SeekStart ==
  /\ phase = "seek" /\ max = 0
  /\ SeekTo(last_working)
  /\ StartReading

SeekMax ==
  /\ phase = "seek" /\ max # 0 /\ max \in seekable
  /\ SeekTo(max)
  /\ StartReading

Middle == min + ((max - min) \div 2)

(* Mutant: only one end of the interval is tested. *)
TooDeep_OneEnd == Middle = max

TooDeep == Middle \in {min, max}

SeekLast ==
  /\ phase = "seek" /\ max # 0 /\ max \notin seekable
  /\ TooDeep
  /\ SeekTo(last_working)
  /\ StartReading

SeekMiddle ==
  /\ phase = "seek" /\ max # 0 /\ max \notin seekable
  /\ ~TooDeep
  /\ SeekTo(Middle)
  /\ next' = position'
  /\ IF Middle \in seekable
     THEN min' = Middle /\ last_working' = Middle /\ UNCHANGED max
     ELSE max' = Middle /\ UNCHANGED <<min, last_working>>
  /\ UNCHANGED <<input, held, phase, flushing, delivered, outcome>>

-----------------------------------------------------------------------------
(* run() and handle_decoded_frames().                                      *)

End(how) ==
  /\ phase' = "ended"
  /\ outcome' = how
  /\ UNCHANGED <<input, bisection, position, next, held, flushing, delivered>>

SkipPacket ==
  /\ phase = "read" /\ next \in Indices /\ ~Packets[next].video
  /\ next' = next + 1
  /\ UNCHANGED <<input, bisection, position, held, phase, flushing, delivered, outcome>>

Send ==
  /\ phase = "read" /\ next \in Indices /\ Packets[next].video
  /\ held' = held \cup {next}
  /\ next' = next + 1
  /\ phase' = "receive"
  /\ UNCHANGED <<input, bisection, position, flushing, delivered, outcome>>

(* Mutant: the frames in the codec are not asked for. *)
Flush_Not == phase = "read" /\ End("eof")

(* av_read_frame fails, at the end of the file or anywhere else.           *)
Flush ==
  /\ phase = "read"
  /\ flushing' = TRUE
  /\ phase' = "receive"
  /\ UNCHANGED <<input, bisection, position, next, held, delivered, outcome>>

SendFails == phase = "read" /\ End("error")

Emits == held # {} /\ (flushing \/ Cardinality(held) > Delay)

(* AVERROR(EAGAIN) and AVERROR_EOF.                                        *)
NoFrame ==
  /\ phase = "receive" /\ ~Emits
  /\ IF flushing
     THEN End("eof")
     ELSE phase' = "read"
          /\ UNCHANGED <<input, bisection, position, next, held, flushing, delivered, outcome>>

ReceiveFails == phase = "receive" /\ End("error")

Receive(f) ==
  /\ phase = "receive" /\ Emits
  /\ f \in held /\ \A g \in held : Packets[f].pts <= Packets[g].pts
  /\ held' = held \ {f}

(* picture_type_to_filter: an unknown type counts as I.                    *)
Passes(f) ==
  (IF Packets[f].type \in {"P", "B"} THEN Packets[f].type ELSE "I") \in filter

(* Mutant: the starting frame itself is skipped. *)
BeforeStart_Inclusive(f) == FrameNumber(Packets[f].pts) <= starting_frame

BeforeStart(f) == FrameNumber(Packets[f].pts) < starting_frame

SkipFrame(f) ==
  /\ Receive(f)
  /\ ~Passes(f) \/ BeforeStart(f)
  /\ UNCHANGED <<input, bisection, position, next, phase, flushing, delivered, outcome>>

TransferFails(f) ==
  /\ Receive(f) /\ Passes(f)
  /\ phase' = "ended" /\ outcome' = "error"
  /\ UNCHANGED <<input, bisection, position, next, flushing, delivered>>

(* The callback takes the frame, and may ask to stop.                      *)
Deliver(f) ==
  /\ Receive(f) /\ Passes(f) /\ ~BeforeStart(f)
  /\ delivered' = Append(delivered, f)
  /\ \/ UNCHANGED <<phase, outcome>>
     \/ phase' = "ended" /\ outcome' = "stopped"
  /\ UNCHANGED <<input, bisection, position, next, flushing>>

Step ==
  \/ SeekStart \/ SeekMax \/ SeekLast \/ SeekMiddle
  \/ SkipPacket \/ Send \/ SendFails \/ Flush \/ NoFrame \/ ReceiveFails
  \/ \E f \in Indices : SkipFrame(f) \/ TransferFails(f) \/ Deliver(f)

Next == Step \/ (phase = "ended" /\ UNCHANGED vars)

Spec == Init /\ [][Next]_vars

(* One thread runs it; FFmpeg returns from every call.                     *)
FairSpec == Spec /\ WF_vars(Step)
-----------------------------------------------------------------------------
Wanted(f) ==
  Packets[f].video /\ Passes(f) /\ FrameNumber(Packets[f].pts) >= starting_frame

(* Wherever the bisection leaves the file, no frame that was asked for is  *)
(* before it: seek_to_closest_frame never goes past the starting frame.    *)
SeekIsBehind == \A f \in Indices : Wanted(f) => f >= position

(* When FFmpeg can seek up to some frame and no further, the bisection     *)
(* finds that frame.                                                       *)
SeekIsClosest ==
  \A n \in 0 .. starting_frame :
    phase # "seek" /\ seekable = 0 .. n => position = Landing(n)

(* The callback gets frames that were asked for, in the order of their     *)
(* time, and none that was read is left out in between.                    *)
NoGap ==
  /\ \A i, j \in DOMAIN delivered :
       i < j => Packets[delivered[i]].pts < Packets[delivered[j]].pts
  /\ \A i \in DOMAIN delivered : Wanted(delivered[i])
  /\ \A i \in DOMAIN delivered : \A f \in position .. next - 1 :
       Wanted(f) /\ Packets[f].pts < Packets[delivered[i]].pts
         => \E j \in 1 .. i : delivered[j] = f

(* A run that ends by itself has delivered every frame it read.            *)
EndsComplete ==
  outcome = "eof" =>
    \A f \in position .. next - 1 : Wanted(f) => \E i \in DOMAIN delivered : delivered[i] = f

(* The bisection and the run come to an end.                               *)
RunEnds == <>(phase = "ended")
-----------------------------------------------------------------------------
(* What the theorems assume of a file and its codec.                       *)

(* What the codecs guarantee of a key frame: no picture that comes before  *)
(* it in the file is shown after it.                                       *)
KeyFramesInOrder ==
  \A i, j \in Indices :
    i < j /\ Packets[i].video /\ Packets[j].video /\ Packets[j].type = "I"
      => Packets[i].pts < Packets[j].pts

(* A codec keeps back as many frames as may come before a frame in the     *)
(* file and be shown after it.                                             *)
ReorderFits ==
  \A k \in Indices :
    Packets[k].video =>
      Cardinality({i \in 1 .. k - 1 : Packets[i].video /\ Packets[i].pts > Packets[k].pts})
        <= Delay

(* No two pictures are shown at the same time.                             *)
DistinctTimes ==
  \A i, j \in Indices :
    i # j /\ Packets[i].video /\ Packets[j].video => Packets[i].pts # Packets[j].pts
=============================================================================
