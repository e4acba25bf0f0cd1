---------------------------- MODULE MCConnection ----------------------------
(***************************************************************************)
(* Instances of Connection for TLC: an application changes auto-commit     *)
(* at any time, on two writes.                                             *)
(***************************************************************************)
EXTENDS Connection

Changing  == {TRUE, FALSE}

TwoWrites == {"w1", "w2"}
=============================================================================
