---------------------------- MODULE MediaCatalog ----------------------------
(***************************************************************************)
(* What the media service promises about the media of its catalogue,       *)
(* whatever stores it is spread over: a media becomes live only once its   *)
(* objects are stored, leaves the catalogue once and never returns, and    *)
(* the service discards objects of no live media.  Only the retention      *)
(* rule of the bucket may take the objects of a live media.                *)
(***************************************************************************)
CONSTANT Media

VARIABLES
  live,     \* media a read can find
  gone,     \* media that were deleted
  stored,   \* media whose objects are all in the store
  expired   \* media whose objects reached the end of their retention

vars == <<live, gone, stored, expired>>

Init == live = {} /\ gone = {} /\ stored = {} /\ expired = {}

Store(m) ==
  /\ m \notin live \cup gone
  /\ stored' = stored \cup {m}
  /\ UNCHANGED <<live, gone, expired>>

Publish(m) ==
  /\ m \in stored
  /\ m \notin gone
  /\ live' = live \cup {m}
  /\ UNCHANGED <<gone, stored, expired>>

Retire(m) ==
  /\ m \in live
  /\ live' = live \ {m}
  /\ gone' = gone \cup {m}
  /\ UNCHANGED <<stored, expired>>

Discard(m) ==
  /\ m \notin live
  /\ stored' = stored \ {m}
  /\ UNCHANGED <<live, gone, expired>>

Expire(m) ==
  /\ stored' = stored \ {m}
  /\ expired' = expired \cup {m}
  /\ UNCHANGED <<live, gone>>

Next == \E m \in Media :
  Store(m) \/ Publish(m) \/ Retire(m) \/ Discard(m) \/ Expire(m)

Spec == Init /\ [][Next]_vars

=============================================================================
