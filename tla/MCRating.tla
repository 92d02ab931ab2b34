------------------------------- MODULE MCRating -------------------------------
(* Instances of Rating for TLC. *)
EXTENDS Rating, TLC

CONSTANTS s1, s2, m1, m2
=============================================================================
