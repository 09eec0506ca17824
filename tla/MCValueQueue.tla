---------------------------- MODULE MCValueQueue ----------------------------
(* Small instances of ValueQueue for TLC.                                  *)
EXTENDS ValueQueue, TLC

CONSTANTS c1, c2

TwoConsumers == {c1, c2}
OneConsumer == {c1}
NoFailures == {}
EveryWorker == {Main} \cup {c1, c2}
=============================================================================
