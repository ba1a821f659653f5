------------------------ MODULE MCLanguageDetection ------------------------
(* Instances of LanguageDetection for TLC.  Two requests that share two     *)
(* threads race for the detector; a third finds it built or the pool full.  *)
EXTENDS LanguageDetection

CONSTANTS r1, r2, r3

MCRequests  == { r1, r2, r3 }
MCDocuments == { r1 }
=============================================================================
