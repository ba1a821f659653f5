------------------------- MODULE MCDocumentPipeline -------------------------
(* Instances of DocumentPipeline for TLC: files of up to three texts in each *)
(* format, and a workbook and a JSON document over the limits.  The columns  *)
(* have two letters, so the third column's name has two.                     *)
EXTENDS DocumentPipeline

Cell(s, r, c) == [ sheet |-> s, row |-> r, column |-> c ]
At(r, c)      == [ row |-> r, column |-> c ]
Part(n)       == [ table |-> FALSE, part |-> n ]
InTable(r, c) == [ table |-> TRUE, part |-> 1, row |-> r, column |-> c ]
Key(symbols)  == [ list |-> FALSE, symbols |-> symbols ]
Index(digits) == [ list |-> TRUE, symbols |-> digits ]

a  == Key(<< "a" >>)
b  == Key(<< "b" >>)
ab == Key(<< "a", ".", "b" >>)
at0 == Index(<< "0" >>)
at1 == Index(<< "1" >>)

MCLayouts ==
  [ text |-> { << >>, << Part(1) >>, << Part(1), Part(2) >>,
               << Part(2), InTable(1, 1), InTable(1, 2) >> },
    csv  |-> { << >>, << At(1, 1) >>, << At(1, 1), At(2, 1) >>,
               << At(1, 1), At(1, 2), At(3, 1) >> },
    xlsx |-> { << >>, << Cell("S", 1, 1) >>, << Cell("S", 1, 1), Cell("S", 2, 1) >>,
               << Cell("S", 1, 1), Cell("S", 1, 3), Cell("T", 1, 1) >>,
               << Cell("S", 1, 1), Cell("S", 1, 2), Cell("S", 1, 3), Cell("S", 1, 4) >> },
    json |-> { << >>, << << >> >>, << << a >>, << b >> >>, << << at0, a, b >> >>,
               << << at0 >>, << at1, a >>, << at1, b >> >> } ]

MCSharedPaths == [ json |-> { << << ab >>, << a, b >> >> } ]
=============================================================================
