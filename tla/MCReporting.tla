----------------------------- MODULE MCReporting -----------------------------
(* Small instances of Reporting for TLC.                                   *)
EXTENDS Reporting

CONSTANTS c1, c2

TwoConsumers == {c1, c2}
KnownCount == {3}
=============================================================================
