---------------------------- MODULE MCMediaAccess ----------------------------
(* Two users share a media with its owner: the lists are disjoint but for *)
(* the owner, who may be named in one.                                     *)
EXTENDS MediaAccess

CONSTANTS a, b

MCOthers == {a, b}
MCAdditions == {{a}, {b, Owner}}

=============================================================================
