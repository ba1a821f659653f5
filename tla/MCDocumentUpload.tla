-------------------------- MODULE MCDocumentUpload --------------------------
(* Instances of DocumentUpload for TLC.                                      *)
EXTENDS DocumentUpload, TLC

CONSTANTS u1, u2, u3

MCTwo       == { u1, u2 }
MCThree     == { u1, u2, u3 }
MCWeb       == { u1 }
MCNone      == {}
MCAllCauses == { "connect", "timeout", "server_error", "client_error", "bad_body", "other" }
MCSymmetry  == Permutations(Uploads)
=============================================================================
