---------------------------- MODULE MCZarrCache ----------------------------
(* Instances of ZarrCache for TLC.                                          *)
EXTENDS ZarrCache, FiniteSetsExt

CONSTANTS h1, h2

MCHandles == {h1, h2}
(* Chunks 0 and 2 are whole and share a bucket when there are two; 1 is     *)
(* short or absent.                                                         *)
MCKeys == 0 .. 2
MCWhole == {0, 2}
MCAddresses == 0 .. 6
(* The lowest free address: a freed chunk's is the next one used.           *)
MCMalloc(F) == IF F = {} THEN {} ELSE {Min(F)}
=============================================================================
