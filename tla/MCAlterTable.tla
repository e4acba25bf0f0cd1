---------------------------- MODULE MCAlterTable ----------------------------
EXTENDS AlterTable

ThreeColumns == {"a", "b", "c"}
TwoTypes == {"int", "text"}
Lists1 == {<<"a">>, <<"b">>, <<"a", "b">>, <<"c">>}
OneName == {<<"n">>}

Cols(cs) == [i \in DOMAIN cs |-> Entry(cs[i], "int")]
Empty == [ columns |-> Cols(<<"a", "b">>), indexes |-> <<>>, foreignKeys |-> <<>>,
           uniqueConstraints |-> <<>>, renamed |-> <<>>, primaryKeyName |-> NoName ]
Linked == AddUniqueConstraint(AddForeignKeyConstraint(SetPrimaryKey(Empty, <<"a">>, NoName).table,
             <<"b">>, <<"n">>).table, <<"a", "b">>, NoName).table
Starts == {Empty, Linked}
=============================================================================
