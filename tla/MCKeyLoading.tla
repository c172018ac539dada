---------------------------- MODULE MCKeyLoading ----------------------------
(* A token that verifies and one that does not, of one device. *)
EXTENDS KeyLoading

CONSTANTS t1, forged, phone

MCTokens == {t1, forged}
MCDeviceOf == [t \in MCTokens |-> phone]

=============================================================================
