-------------------------- MODULE MCNorRecFs --------------------------
(* The recorder file system for TLC.  The properties say nothing of the    *)
(* flash once a recording went astray: the run follows that recording to   *)
(* its end, and goes no further.                                           *)
EXTENDS NorRecFs

OneStray == astray => mode \in {"write", "spilt"}
=============================================================================
