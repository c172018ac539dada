------------------------------ MODULE Deployment ------------------------------
(***************************************************************************)
(* The processes of the service that run side by side.  They share nothing *)
(* but the stores.                                                         *)
(***************************************************************************)
CONSTANT Replicas

=============================================================================
