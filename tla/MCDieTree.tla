------------------------------ MODULE MCDieTree ------------------------------
(* DieTree with five DIEs of the producer's, three of which have attributes,   *)
(* and CUs of up to eight entries from elsewhere.                          *)
EXTENDS DieTree

DieNumbers == 1..5
PayloadOf == <<3, 0, 2, 0, 1>>
=============================================================================
