------------------------ MODULE MCAccessLogPartitions ------------------------
(* Replicas and connections are interchangeable. *)
EXTENDS AccessLogPartitions, TLC

Symmetry == Permutations(Replicas) \cup Permutations(Slots)

=============================================================================
