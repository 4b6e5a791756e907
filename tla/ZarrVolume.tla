----------------------------- MODULE ZarrVolume -----------------------------
(* What zarr_u8.h promises of a family of handles, with no cache at all:    *)
(* each read is answered from the volume.  A failure to open or to hold a   *)
(* chunk lets reads of that chunk, and of no other, be fill.                *)
CONSTANTS Handles, Keys, Whole, Nil, Fill
VARIABLES
  open,     \* handles opened or cloned and not closed
  answer,   \* the key each handle read last and what it got
  faulty    \* keys whose read has failed

NoAnswer == [key |-> Nil, value |-> Fill]

Init ==
  /\ open = {}
  /\ answer = [h \in Handles |-> NoAnswer]
  /\ faulty = {}

Value(k) == IF k \in Whole THEN k ELSE Fill

Join(h) ==
  /\ h \notin open
  /\ open' = open \cup {h}
  /\ UNCHANGED <<answer, faulty>>

Close(h) ==
  /\ h \in open
  /\ open' = open \ {h}
  /\ answer' = [answer EXCEPT ![h] = NoAnswer]
  /\ UNCHANGED faulty

Fail(k) ==
  /\ k \in Whole
  /\ faulty' = faulty \cup {k}
  /\ UNCHANGED <<open, answer>>

(* A read, which may be the one that fails. *)
Read(h, k) ==
  /\ h \in open
  /\ faulty' \in {faulty, faulty \cup {k}}
  /\ \E v \in {Value(k)} \cup (IF k \in faulty' THEN {Fill} ELSE {}) :
       answer' = [answer EXCEPT ![h] = [key |-> k, value |-> v]]
  /\ UNCHANGED open

Next ==
  \/ \E h \in Handles : Join(h) \/ Close(h) \/ \E k \in Keys : Read(h, k)
  \/ \E k \in Keys : Fail(k)

Spec == Init /\ [][Next]_<<open, answer, faulty>>
=============================================================================
