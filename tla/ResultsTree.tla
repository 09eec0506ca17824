----------------------------- MODULE ResultsTree -----------------------------
(***************************************************************************)
(* The tree of days, hours, minutes and frames that                        *)
(* viewer/views/search_results_view.cpp builds from the table of results,  *)
(* and the ways viewer/views/frame_view.cpp goes through it.               *)
(*                                                                         *)
(* The tree is the sequence of its frames from left to right, each with    *)
(* its position: the owner_idx of its day, hour, minute and of itself,     *)
(* counted from 1.  Time is counted in frames, which are as far apart as   *)
(* the videos' frame rate says.                                            *)
(***************************************************************************)
EXTENDS Integers, Sequences, SequencesExt, FiniteSetsExt

CONSTANTS
  StartTime(_),     \* of a video, from its name
  DayLength, FramesPerMinute, MinutesPerHour

ASSUME TreeAssumption ==
  /\ DayLength \in Nat \ {0}
  /\ FramesPerMinute \in Nat \ {0}
  /\ MinutesPerHour \in Nat \ {0}

(* What results::store computes for a match: the day is that of the start  *)
(* of the video, hour and minute are counted from that start.              *)
Timestamp(row) == StartTime(row.video) + row.frame
Day(row) == StartTime(row.video) \div DayLength
Hour(row) == row.frame \div (FramesPerMinute * MinutesPerHour)
Minute(row) == (row.frame \div FramesPerMinute) % MinutesPerHour

(* SELECT ... ORDER BY timestamp                                           *)
Earliest(rows) == CHOOSE r \in rows : \A s \in rows : Timestamp(r) <= Timestamp(s)

Selection(rows) ==
  MapThenFoldSet(LAMBDA first, others : <<first>> \o others, <<>>, LAMBDA row : row, Earliest, rows)
-----------------------------------------------------------------------------
NoFrame == <<>>

Root == [at |-> <<0, 0, 0, 0>>, day |-> -1, hour |-> -1, minute |-> -1, number |-> -1]

(* Mutant: the minute of the hour before is gone on with. *)
Place_KeepsMinute(last, row) ==
  LET i == last.at IN
  CASE last.day # Day(row) -> <<i[1] + 1, 1, 1, 1>>
    [] last.day = Day(row) /\ last.minute # Minute(row) -> <<i[1], i[2], i[3] + 1, 1>>
    [] last.day = Day(row) /\ last.minute = Minute(row)
         /\ last.number # row.frame -> <<i[1], i[2], i[3], i[4] + 1>>
    [] OTHER -> i

(* Where the frame of a row goes, given the frame the row before it went   *)
(* to: a new day, hour or minute makes all below it new.                   *)
Place(last, row) ==
  LET i == last.at IN
  CASE last.day # Day(row) -> <<i[1] + 1, 1, 1, 1>>
    [] last.day = Day(row) /\ last.hour # Hour(row) -> <<i[1], i[2] + 1, 1, 1>>
    [] last.day = Day(row) /\ last.hour = Hour(row) /\ last.minute # Minute(row)
         -> <<i[1], i[2], i[3] + 1, 1>>
    [] last.day = Day(row) /\ last.hour = Hour(row) /\ last.minute = Minute(row)
         /\ last.number # row.frame -> <<i[1], i[2], i[3], i[4] + 1>>
    [] OTHER -> i

(* update_frame_text: the number of texts becomes part of the name.        *)
Named(frame) == [frame EXCEPT !.name = @ \o <<Len(frame.texts)>>]

NewFrame(place, row) ==
  [at |-> place, day |-> Day(row), hour |-> Hour(row), minute |-> Minute(row),
   number |-> row.frame, video |-> row.video, texts |-> <<row>>, name |-> <<row.frame>>]

AddRow(tree, row) ==
  LET last == IF tree = <<>> THEN Root ELSE Last(tree)
      place == Place(last, row) IN
  IF place = last.at
  THEN [tree EXCEPT ![Len(tree)].texts = Append(@, row)]
  ELSE Append(IF tree = <<>> THEN tree ELSE [tree EXCEPT ![Len(tree)] = Named(@)],
              NewFrame(place, row))

(* sort_results(), over the rows in the order they are selected.           *)
SortResults(rows) ==
  LET tree == FoldLeft(AddRow, <<>>, Selection(rows)) IN
  IF tree = <<>> THEN tree ELSE [tree EXCEPT ![Len(tree)] = Named(@)]
-----------------------------------------------------------------------------
(* The children of the node at a path are numbered 1 .. NumBelow.          *)
Under(path, place) == SubSeq(place, 1, Len(path)) = path
NumBelow(tree, path) ==
  Max({tree[i].at[Len(path) + 1] : i \in {j \in DOMAIN tree : Under(path, tree[j].at)}})

FirstUnder(path) == [i \in 1 .. 4 |-> IF i <= Len(path) THEN path[i] ELSE 1]
LastUnder(tree, path) == tree[Max({j \in DOMAIN tree : Under(path, tree[j].at)})].at

JumpToNextDay(tree, p) ==
  IF p[1] = NumBelow(tree, <<>>) THEN LastUnder(tree, <<>>) ELSE FirstUnder(<<p[1] + 1>>)

JumpToPreviousDay(tree, p) ==
  IF p[1] = 1 THEN FirstUnder(<<>>) ELSE LastUnder(tree, <<p[1] - 1>>)

JumpToNextHour(tree, p, shift) ==
  IF shift \/ p[2] = NumBelow(tree, <<p[1]>>)
  THEN JumpToNextDay(tree, p)
  ELSE FirstUnder(<<p[1], p[2] + 1>>)

JumpToPreviousHour(tree, p, shift) ==
  IF shift \/ p[2] = 1
  THEN JumpToPreviousDay(tree, p)
  ELSE LastUnder(tree, <<p[1], p[2] - 1>>)

JumpToNextMinute(tree, p, shift) ==
  IF p[3] = NumBelow(tree, <<p[1], p[2]>>)
  THEN JumpToNextHour(tree, p, shift)
  ELSE FirstUnder(<<p[1], p[2], p[3] + 1>>)

JumpToPreviousMinute(tree, p, shift) ==
  IF p[3] = 1
  THEN JumpToPreviousHour(tree, p, shift)
  ELSE LastUnder(tree, <<p[1], p[2], p[3] - 1>>)

JumpToNextFrame(tree, p, shift) ==
  IF p[4] = NumBelow(tree, <<p[1], p[2], p[3]>>)
  THEN JumpToNextMinute(tree, p, shift)
  ELSE <<p[1], p[2], p[3], p[4] + 1>>

(* Mutant: the first frame of a minute goes to the first one of the minute before. *)
JumpToPreviousFrame_Start(tree, p, shift) ==
  IF p[4] = 1
  THEN FirstUnder(SubSeq(JumpToPreviousMinute(tree, p, shift), 1, 3))
  ELSE <<p[1], p[2], p[3], p[4] - 1>>

JumpToPreviousFrame(tree, p, shift) ==
  IF p[4] = 1
  THEN JumpToPreviousMinute(tree, p, shift)
  ELSE <<p[1], p[2], p[3], p[4] - 1>>

(* handle_jump_hotkeys                                                     *)
Keys == {"up", "down", "left", "right", "page_up", "page_down"}

Jump(tree, p, key, shift) ==
  CASE key = "up" -> JumpToPreviousFrame(tree, p, shift)
    [] key = "down" -> JumpToNextFrame(tree, p, shift)
    [] key = "left" -> JumpToPreviousMinute(tree, p, shift)
    [] key = "right" -> JumpToNextMinute(tree, p, shift)
    [] key = "page_up" -> JumpToPreviousHour(tree, p, shift)
    [] key = "page_down" -> JumpToNextHour(tree, p, shift)
=============================================================================
