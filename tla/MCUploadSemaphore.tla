-------------------------- MODULE MCUploadSemaphore --------------------------
(* UploadSemaphore on a few requests; its configuration gives the constants. *)
EXTENDS UploadSemaphore

MCRequests == {"r1", "r2", "r3"}
=============================================================================
