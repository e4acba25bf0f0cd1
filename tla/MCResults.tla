----------------------------- MODULE MCResults -----------------------------
(* Answers with up to three rows and two columns, labels that are the same *)
(* or differ by case, and the cells that the converter tells apart.        *)
EXTENDS Results

MCModes == {{}, {"trim"}, {"empty", "case"}, {"empty", "trim", "case"}}

Cells  == {NULL, Empty, Blanks, Padded, <<"null">>}
Number == <<<<"1">>, <<"2">>, <<"3">>>>

MCColumns == {<<>>, <<"ID">>, <<"ID", "v">>, <<"v", "v">>, <<"id", "ID">>}

(* The first column has the cells, the second the number of the row. *)
RowsOver(columns, cells) ==
  [i \in DOMAIN cells |-> SubSeq(<<cells[i], Number[i]>>, 1, Len(columns))]

MCCells ==
  {<<>>} \cup {<<c>> : c \in Cells}
  \cup {<<NULL, <<"null">>>>, <<Padded, NULL>>, <<Padded, Padded>>}

MCAnswers ==
  {[verb |-> "select", columns |-> c, rows |-> RowsOver(c, cells), affected |-> Len(cells)] :
     c \in MCColumns, cells \in MCCells}
  \cup {[verb |-> "select", columns |-> <<"ID", "v">>, affected |-> 3,
         rows |-> RowsOver(<<"ID", "v">>, <<Padded, NULL, Padded>>)]}
  \cup {[verb |-> "insert", columns |-> <<>>, rows |-> <<>>, affected |-> 2],
        [verb |-> "returning", columns |-> <<"ID", "v">>, affected |-> 1,
         rows |-> RowsOver(<<"ID", "v">>, <<Padded>>)]}

MCKindsOf == ("r1" :> {"numeric", "associative", "indexed"}) @@ ("r2" :> {"keyValue", "one"})
=============================================================================
