------------------------------- MODULE MCSync -------------------------------
(***************************************************************************)
(* Instances of SyncEngine for TLC.                                        *)
(***************************************************************************)
EXTENDS SyncEngine, TLC

CONSTANTS p1, p2, u1, u2, c1

(* One writer and one reader.                                              *)
OneAuthor == [u \in Updates |-> p1]

(* Each of two peers writes.                                               *)
TwoAuthors == (u1 :> p1) @@ (u2 :> p2)

OneCollection == [u \in Updates |-> c1]

(* Updates of one author to one collection are interchangeable.            *)
UpdateSymmetry == Permutations(Updates)
=============================================================================
