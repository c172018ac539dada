---------------------------- MODULE QuotaAccount ----------------------------
(***************************************************************************)
(* What requests and the quota row promise each other about the files of   *)
(* one user, whatever is between them: a media is counted once at most,    *)
(* and only after it was saved; each release is of a saved media and takes *)
(* one file off, as long as there is one; nothing else moves the count.    *)
(***************************************************************************)
EXTENDS Naturals

CONSTANT Media

VARIABLES
  files,    \* files_count
  saved,    \* media whose row was saved
  counted,  \* media that were counted
  released  \* how often each was released

vars == <<files, saved, counted, released>>

Init ==
  /\ files = 0 /\ saved = {} /\ counted = {}
  /\ released = [m \in Media |-> 0]

Save(m) ==
  /\ saved' = saved \cup {m}
  /\ UNCHANGED <<files, counted, released>>

Count(m) ==
  /\ m \in saved \ counted
  /\ files' = files + 1
  /\ counted' = counted \cup {m}
  /\ UNCHANGED <<saved, released>>

\* A release may come before the count it is to undo, and finds nothing then.
Release(m) ==
  /\ m \in saved
  /\ files' = IF files > 0 THEN files - 1 ELSE 0
  /\ released' = [released EXCEPT ![m] = @ + 1]
  /\ UNCHANGED <<saved, counted>>

Next == \E m \in Media : Save(m) \/ Count(m) \/ Release(m)

Spec == Init /\ [][Next]_vars

=============================================================================
