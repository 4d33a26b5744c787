---------------------------- MODULE MCPublishPush ----------------------------
(***************************************************************************)
(* PublishPush on a small instance.  The lanes run the same script, so     *)
(* their names are interchangeable.                                        *)
(***************************************************************************)
EXTENDS PublishPush, TLC

LaneSymmetry == Permutations(Lanes)
=============================================================================
