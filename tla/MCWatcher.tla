------------------------------ MODULE MCWatcher ------------------------------
(* Small instances of Watcher for TLC.                                     *)
EXTENDS Watcher

CONSTANTS i1, i2

TwoInstances == {i1, i2}
OneFile == {1}
=============================================================================
