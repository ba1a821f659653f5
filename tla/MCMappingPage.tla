--------------------------- MODULE MCMappingPage ---------------------------
(* Instances of MappingPage for TLC; the cfg file gives every constant.      *)
EXTENDS MappingPage
=============================================================================
