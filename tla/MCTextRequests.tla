--------------------------- MODULE MCTextRequests ---------------------------
(* Instances of TextRequests for TLC.  The text holds three words of two     *)
(* types with scores on both sides of every threshold and floor.             *)
EXTENDS TextRequests, TLC

CONSTANTS api, web

Padded(word) == [ word |-> word, padded |-> TRUE ]

MCApi == { api }
MCWeb == { web }

MCFindings ==
  { [ type |-> t, word |-> w, score |-> s ] :
      t \in { "PERSON", "CITY" }, w \in { "ann", "bonn" }, s \in 1 .. 3 }

MCInstanceLists == { << >>, << Term("bonn"), Term(""), Term("bonn") >> }
MCTermLists ==
  { << >>, << Term("ann") >>, << Padded("ann"), Term("") >>, << Term("bonn"), Term("ann") >>,
    << Term("ann"), Term("ann") >>, << Term("long") >>, << Term("ann"), Term("bonn"), Term("cy") >> }

MCInstanceFloors == { << >>, "PERSON" :> 2 }
MCRequestFloors  == { << >>, "PERSON" :> 1, ("PERSON" :> 3) @@ ("CITY" :> 2) }
MCThresholds     == { 1, 2 }
=============================================================================
