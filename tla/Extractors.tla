----------------------------- MODULE Extractors -----------------------------
(***************************************************************************)
(* services/extractors.py: the references under which the texts of a file  *)
(* are handed on, by which some outputs are put together again, and the    *)
(* limits a file is refused for.                                           *)
(*                                                                         *)
(* A place is where a text stands in a parsed file: row and column of a    *)
(* CSV file; sheet, row and column of a workbook; the steps from the root  *)
(* of a JSON document, each a key or an index; in any other format the     *)
(* part, and in a table the row and column.  A reference is a sequence of  *)
(* symbols, as the code builds a string.                                   *)
(***************************************************************************)
EXTENDS Naturals, Sequences, SequencesExt

CONSTANTS
  Letters,    \* letters of the alphabet that columns are named with
  MaxDepth,   \* _MAX_JSON_DEPTH
  MaxCells    \* max_xlsx_cells

ASSUME LimitAssumption == Letters \in Nat \ {0} /\ MaxDepth \in Nat /\ MaxCells \in Nat

\* 1 is A, and the column after the last letter is AA
_col_num_to_letter(column) ==
  LET name[c \in 0 .. column] ==
        IF c = 0 THEN << >> ELSE name[(c - 1) \div Letters] \o << (c - 1) % Letters >>
  IN name[column]

\* a step that is a key has the symbols of the key, an index its digits
JsonPath(steps) ==
  LET Extend(path, step) ==
        IF step.list THEN path \o << "[" >> \o step.symbols \o << "]" >>
        ELSE (IF path = << >> THEN << "$" >> ELSE path) \o << "." >> \o step.symbols
      path == FoldLeft(Extend, << >>, steps)
  IN IF path = << >> THEN << "$" >> ELSE path

CsvReference(place)  == << "R", place.row, "C", place.column >>
XlsxReference(place) == << place.sheet, "!", _col_num_to_letter(place.column), place.row >>

\* paragraph_3, page_2, content; table_1_R2C1
PartReference(place) ==
  IF place.table THEN << "table", place.part, "R", place.row, "C", place.column >>
  ELSE << "part", place.part >>

Reference(format, place) ==
  CASE format = "csv"  -> CsvReference(place)
    [] format = "xlsx" -> XlsxReference(place)
    [] format = "json" -> JsonPath(place)
    [] format = "text" -> PartReference(place)

\* ExtractionError: any node of a JSON document, a number or a container as well as
\* a text, lies deeper than the limit
TooDeep(depths) == \E d \in depths : d > MaxDepth

\* ExtractionError: the workbook has too many texts
TooManyCells(texts) == texts > MaxCells
=============================================================================
