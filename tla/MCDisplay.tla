------------------------------ MODULE MCDisplay ------------------------------
(* Small instances of Display for TLC.                                     *)
EXTENDS Display, TLC

CONSTANTS t1, t2, t3, t4

FourNames == {t1, t2, t3, t4}
TwoFrames == {"f1", "f2"}
TwoAndOne == [f \in TwoFrames |-> IF f = "f1" THEN 2 ELSE 1]

Word(letters, blanks, boxed, position, confidence) ==
  [letters |-> letters, blanks |-> blanks, boxed |-> boxed, position |-> position, confidence |-> confidence]

SomePages ==
  {<<>>,
   <<Word(4, 0, TRUE, "p1", 99999)>>,
   <<Word(3, 1, TRUE, "p1", 0), Word(2, 1, TRUE, "p2", 51234), Word(3, 0, TRUE, "p3", 51239)>>,
   <<Word(2, 0, TRUE, "p1", 70000), Word(5, 0, FALSE, "p2", 80005), Word(6, 2, TRUE, "p3", 99990)>>}

Position == [text |-> <<3, 0>>, position |-> "p9"]
SomeDocuments == {[entries |-> <<Position>>], [entries |-> <<Position, [text |-> <<3, 0>>]>>], [file |-> <<>>]}
=============================================================================
