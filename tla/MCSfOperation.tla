---------------------------- MODULE MCSfOperation ----------------------------
(* Instances of SfOperation for TLC: the operations of SfPrograms.          *)
EXTENDS SfOperation, SfPrograms

CONSTANTS t1, t2
MCThreads == {t1, t2}
=============================================================================
