----------------------------- MODULE RecShelf -----------------------------
(***************************************************************************)
(* What the recorder file system promises: a shelf of numbered recordings. *)
(* A new recording gets a number above all others.  Making room takes the  *)
(* oldest recordings away first, and nothing else takes one away but a     *)
(* deletion of the newest: neither a recording that is given up nor a loss *)
(* of power.  The promise is void once a recording has gone astray.        *)
(***************************************************************************)
EXTENDS Integers

VARIABLES shelf,   \* the numbers of the recordings that are there
          astray   \* whether a recording has gone astray

ShelfInit == shelf = {} /\ ~astray

\* The oldest recordings make room; none of the others is touched.
MakeRoom == /\ shelf' \subseteq shelf
            /\ \A gone \in shelf \ shelf', kept \in shelf' : gone < kept

Publish == \E i \in shelf' : /\ \A j \in shelf : j < i
                             /\ shelf' = shelf \cup {i}

DeleteNewest == \E i \in shelf : /\ \A j \in shelf : j <= i
                                 /\ shelf' = shelf \ {i}

ShelfNext == astray' \/ MakeRoom \/ Publish \/ DeleteNewest

ShelfSpec == ShelfInit /\ [][ShelfNext]_<<shelf, astray>>
=============================================================================
