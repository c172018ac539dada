---------------------------- MODULE MCMediaListing ----------------------------
(* MediaListing with interchangeable media. *)
EXTENDS MediaListing, TLC

Symmetry == Permutations(Media)

\* Nothing, too few and too many.
MCAsked == {NaN, 0 - 1, 9}
=============================================================================
