----------------------- MODULE MCConstraintMigration -----------------------
(* A table with the columns a and b, and the versions of its constraints   *)
(* between which it is migrated, pairwise.                                 *)
EXTENDS ConstraintMigration

CONSTANTS one, two
MCInstances == {one, two}

Primary(cols) == Index("primary", cols, "primary")
Plain == Index("idx", <<"b">>, "regular")
Unique == Index("uniq", <<"b">>, "unique")
Key == [ForeignKey("fk", <<"b">>, "u") EXCEPT !.onDelete = "CASCADE"]

WithIndexes(indexes) == Table("int", indexes, <<>>)
WithKeys(keys) == Constructed(Table("int", <<Primary(<<"a">>)>>, keys))

MCTables ==
  {WithIndexes(<<>>), WithIndexes(<<Primary(<<"a">>)>>), WithIndexes(<<Primary(<<"a", "b">>), Unique>>),
   WithIndexes(<<Plain>>), WithIndexes(<<[Plain EXCEPT !.name = "idx2"]>>),
   WithIndexes(<<[Plain EXCEPT !.kind = "unique"]>>), WithIndexes(<<Primary(<<"a">>), Unique>>),
   [WithIndexes(<<Plain, Unique>>) EXCEPT !.type = "bigint"],
   WithIndexes(<<[Plain EXCEPT !.where = "plain"]>>),
   WithIndexes(<<[Plain EXCEPT !.where = "in parentheses"]>>),
   WithIndexes(<<[Plain EXCEPT !.flag = "fulltext"]>>),
   WithIndexes(<<[Index("idx", <<"a", "b">>, "regular") EXCEPT !.lengths = <<0, 8>>]>>),
   WithKeys(<<Key>>), WithKeys(<<[Key EXCEPT !.name = "fk2"]>>), WithKeys(<<[Key EXCEPT !.onDelete = "RESTRICT"]>>),
   WithKeys(<<[Key EXCEPT !.deferral = "deferred"]>>),
   WithKeys(<<[Key EXCEPT !.onDelete = ""], [Key EXCEPT !.name = "fk2"]>>),
   WithKeys(<<[Key EXCEPT !.name = "fk2"], [Key EXCEPT !.onDelete = ""]>>),
   [WithKeys(<<Key, ForeignKey("fk3", <<"a", "b">>, "u")>>) EXCEPT !.type = "bigint"]}

MCAdmissible(p, t) ==
  /\ \A i \in ToSet(t.indexes) :
       (i.flag # "" \/ LengthsByIndex(i) # {}) => p \in MySQL
  /\ \A k \in ToSet(t.keys) :
       /\ k.deferral # "" => p \in {"pg", "sqlite"}
       /\ k.onDelete = "RESTRICT" => p # "sqlserver"
=============================================================================
