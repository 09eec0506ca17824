------------------------------ MODULE MCViewer ------------------------------
(* Small instances of Viewer for TLC.                                      *)
EXTENDS Viewer

ThreeDatabases == 1 .. 3
TwoTexts == {"cat", "dog"}

(* Two minutes of two frames make an hour, and 12 frames a day.            *)
SomeStarts(d) == <<0, 6, 12>>[d]
SomeHits(d, text) ==
  IF text = "cat" THEN <<{1, 2}, {0, 4}, {1}>>[d] ELSE <<{1}, {1}, {1, 5}>>[d]

(* Databases that were empty are first in a thread that has others too; in *)
(* the second layout the other thread has none.                            *)
SomeLayouts == {<<2, 0, 1>>, <<0, 0, 3>>}
=============================================================================
