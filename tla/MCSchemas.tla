----------------------------- MODULE MCSchemas -----------------------------
(* Four names of tables over two bases and three namespaces, two sequences *)
(* one of which is that of an auto-increment column.                       *)
EXTENDS Schemas

Name(ns, base) == [ns |-> ns, base |-> base]

MCTableNames ==
  {Name("none", "users"), Name("none", "orders"), Name("app", "orders"), Name("public", "users")}
MCSequenceNames   == {Name("none", "users_id_seq"), Name("app", "ids")}
MCForeign         == Name("public", "audit")
MCAutoIncrementOf == [b \in {"users"} |-> "users_id_seq"]
=============================================================================
