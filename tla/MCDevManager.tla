--------------------------- MODULE MCDevManager ---------------------------
(* DevManager with one device that has a recording folder and one that has none. *)
EXTENDS DevManager, TLC

CONSTANTS sd0, sd0_rec, virfat

MCLogo == {sd0, sd0_rec, virfat}
MCRec == (sd0 :> sd0_rec)
Heap == Permutations(Addr)
=============================================================================
