---------------------------- MODULE MCAnonymizer ----------------------------
(* A small instance of Anonymizer for TLC: one text in which a one-symbol and *)
(* a two-symbol string occur twice, and every list of up to MaxResults        *)
(* entities over it.                                                          *)
EXTENDS Anonymizer

CONSTANTS a, b

MCSymbols == {a, b}
MCTexts   == { << a, b, a, b >> }
=============================================================================
