---------------------------- MODULE MCRecognition ----------------------------
(* Small instances of Recognition for TLC.                                 *)
EXTENDS Recognition, TLC

CONSTANTS c1, c2

TwoConsumers == {c1, c2}
MainAndFirst == {Main, c1}
EveryWorker == {Main} \cup {c1, c2}
=============================================================================
