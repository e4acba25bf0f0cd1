------------------------ MODULE MCPrimaryReadReplica ------------------------
(***************************************************************************)
(* Instances of PrimaryReadReplica for TLC.                                *)
(***************************************************************************)
EXTENDS PrimaryReadReplica

TwoTasks == {"t1", "t2"}

Either == {TRUE, FALSE}

AllCalls == {"read", "write", "begin", "commit", "rollBack", "toPrimary", "toReplica", "close"}
(* One user makes every call, another one reads and writes at the same time. *)
MCCalls  == [t1 |-> AllCalls, t2 |-> {"read", "write"}]
=============================================================================
