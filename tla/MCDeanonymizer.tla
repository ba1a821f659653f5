--------------------------- MODULE MCDeanonymizer ---------------------------
(* Instance of Deanonymizer for TLC: placeholders with and without a closing *)
(* bracket, one of them the beginning of another, and originals that may     *)
(* have a digit in common with them.                                         *)
EXTENDS Deanonymizer

MCKeys == { << "<", "1" >>, << "<", "1", "0" >>, << "<", "1", ">" >>, << "<", "0", ">" >> }
MCValues == { << "1" >>, << "x" >>, << >> }
=============================================================================
