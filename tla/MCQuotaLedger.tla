---------------------------- MODULE MCQuotaLedger ----------------------------
(* QuotaLedger for one user on a few requests. *)
EXTENDS QuotaLedger, TLC

\* Requests and replicas are only compared for equality.
Symmetry == Permutations(Uploads) \cup Permutations(Deletes)
              \cup Permutations(Replicas)

=============================================================================
