-------------------------- MODULE MCQueryBuilder --------------------------
(* The programs that QueryBuilder is checked with, one topic each. *)
EXTENDS QueryBuilder

MCPrograms ==
  { {"select", "addSelect", "distinct", "groupBy", "addGroupBy", "resetGroupBy",
     "orderBy", "addOrderBy", "resetOrderBy", "limit", "forUpdate"},
    {"select", "where", "having"},
    {"select", "from", "join"},
    {"modify", "values", "setValue", "set"},
    {"modify", "named", "positional", "with data"},
    {"select", "union", "addUnion", "with", "orderBy"} }
MCTexts   == {"p", "q"}
MCAliases == {"a", "b", "c"}
MCFields  == {"f", "g"}
=============================================================================
