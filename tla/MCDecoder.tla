----------------------------- MODULE MCDecoder -----------------------------
(* A short video for TLC: three groups of pictures, a sound packet, frames *)
(* out of order and, at 10 units and 3 frames a second, numbers used twice *)
(* (0 0 2 3 3 5 6).                                                        *)
EXTENDS Decoder

Video(pts, type) == [video |-> TRUE, pts |-> pts, type |-> type]
Sound(pts) == [video |-> FALSE, pts |-> pts, type |-> "other"]

ShortVideo ==
  <<Video(0, "I"), Sound(2), Video(7, "P"), Video(3, "B"),
    Video(10, "I"), Video(17, "other"), Video(13, "B"), Video(20, "I")>>

(* The file keeps what the theorems assume of files.                       *)
ASSUME ShortVideoIsRegular == KeyFramesInOrder /\ ReorderFits /\ DistinctTimes
=============================================================================
