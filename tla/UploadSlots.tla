----------------------------- MODULE UploadSlots -----------------------------
(***************************************************************************)
(* What the limit on concurrent uploads promises of the requests of one    *)
(* user, whatever it is made of: each is let in or refused at one moment,  *)
(* it is let in only while there is room, and refused only while all slots *)
(* are taken, by requests or by failures.  The count may be lost under     *)
(* requests that are in; then anybody is let in until it is lost again     *)
(* with nobody in.                                                         *)
(***************************************************************************)
EXTENDS Naturals, FiniteSets

CONSTANTS Requests, Max

VARIABLES
  in,       \* requests let in and not gone yet
  refused,  \* requests refused and not gone yet
  lost,     \* slots nobody holds that failures left taken
  unsure    \* the count was last lost under requests

vars == <<in, refused, lost, unsure>>

Inside == in \cup refused
Room == unsure \/ Cardinality(in) < Max
Full == Cardinality(Inside) + lost >= Max

Init == in = {} /\ refused = {} /\ lost = 0 /\ unsure = FALSE

Enter(r) ==
  /\ r \notin Inside /\ Room
  /\ in' = in \cup {r}
  /\ UNCHANGED <<refused, lost, unsure>>

Refuse(r) ==
  /\ r \notin Inside /\ Full
  /\ refused' = refused \cup {r}
  /\ UNCHANGED <<in, lost, unsure>>

\* A request goes; a failure may leave its slot taken.
Leave(r) ==
  /\ r \in Inside
  /\ in' = in \ {r} /\ refused' = refused \ {r}
  /\ (lost' = lost \/ lost' = lost + 1)
  /\ UNCHANGED unsure

\* A failure takes a slot for nobody.
Lose == lost' = lost + 1 /\ UNCHANGED <<in, refused, unsure>>

Forget ==
  /\ lost' = 0 /\ unsure' = (Inside # {})
  /\ UNCHANGED <<in, refused>>

Next ==
  \/ \E r \in Requests : Enter(r) \/ Refuse(r) \/ Leave(r)
  \/ Lose
  \/ Forget

Spec == Init /\ [][Next]_vars

=============================================================================
