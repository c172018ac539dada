--------------------------- MODULE MCMediaPipeline ---------------------------
(* MediaPipeline on small sets of requests. *)
EXTENDS MediaPipeline, TLC

\* Requests and contents are only compared for equality.
Symmetry == Permutations(Uploads) \cup Permutations(Deletes)
              \cup Permutations(Contents)

AllThumbs == {"none", "good", "bad"}
=============================================================================
