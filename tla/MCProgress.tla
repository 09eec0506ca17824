----------------------------- MODULE MCProgress -----------------------------
(* Small instances of Progress for TLC.                                    *)
EXTENDS Progress, TLC

CONSTANTS w1, w2

TwoThreads == {w1, w2}
SixFrames == {0, 1, 2, 4, 5, 6}
TextFrames == {0, 1, 2, 5, 6}
TwoRepeated == {1, 5}
FrameFour == {4}
=============================================================================
