---------------------------- MODULE MCMigration ----------------------------
(* Small instances of Migration for TLC: repeated texts, repeated rows and *)
(* frames, and a file with nothing but frame 0.                            *)
EXTENDS Migration, TLC

CONSTANTS p1, p2, p3

ThreeOpeners == {p1, p2, p3}
OpenerSymmetry == Permutations(ThreeOpeners)

Row(f, t) == [frame |-> f, text |-> t]

SmallFiles ==
  {<<>>, <<Row(0, "a")>>, <<Row(2, "a"), Row(1, "b"), Row(1, "a")>>,
   <<Row(1, "b"), Row(1, "b"), Row(3, "a")>>}
=============================================================================
