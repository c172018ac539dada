-------------------------- MODULE MCConversationGate --------------------------
(* UploadChecks: a conversation and its requests, and files of a few kinds. *)
EXTENDS UploadChecks, TLC
CONSTANTS ada, g1

\* Ada is an admin of the group.
MCAdmins == {<<ada, g1>>}

\* Requests are only compared for equality.
Symmetry == Permutations(Uploads)

\* Of each kind one, and one that no table knows.
MCTypes == {"image/jpeg", "image/heif", "application/pdf", OPAQUE, "text/plain"}

\* Nothing known, a JPEG, a HEIF, and a PDF.
MCHeaders == {{}, {<<0, "ffd8ff">>}, {<<4, "ftyp">>, <<8, "mif1">>}, {<<0, "%PDF">>}}

MCSizes == {1, 6 * MB}
MCAreas == {0, MAX_PIXELS + 1}
MCScripts == {0, PDF_JS_SCAN_BYTES, PDF_JS_SCAN_BYTES + 1}
=============================================================================
