----------------------------- MODULE UploadChecks -----------------------------
(***************************************************************************)
(* An upload request from its arrival to the stores: what it passes before *)
(* its content is looked at (ConversationGate), and the checks of the      *)
(* content then (ContentChecks).                                           *)
(***************************************************************************)
EXTENDS ConversationGate, ContentChecks

\* What the gate and the checks look at in a request.
Kinds == {<<r.ctx, r.mime>> : r \in Requests}

\* The gate only asks whether a file is opaque: the files such a request may bring.
Brings(kind) == {c \in Contents : (c.type = OPAQUE) = (kind[2] = "octet-stream")}

\* The requests whose files are stored only if they are fit.
Safe ==
  {kind \in Kinds :
     \A c \in Brings(kind) : Outcome(Questions(kind[1], c)) = 201 => Fit(kind[1], c)}

\* Whatever file comes with a request that got through the gate, and however much of
\* its verdict clamd delivers: it is stored only if it is fit.  No check alone says
\* so: each passes the types it does not know.
OnlyFitIsStored == \A u \in Uploads : pc[u] = "passed" => <<req[u].ctx, req[u].mime>> \in Safe

=============================================================================
