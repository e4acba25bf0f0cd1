------------------------------ MODULE MCPool ------------------------------
(* Two Connections, one of them used by two tasks, on one pool. *)
EXTENDS Pool

MCTasks     == {"t1", "t2", "u1"}
MCOwners    == {"t1", "u1"}
MCAdapterOf == [t \in MCTasks |-> IF t = "u1" THEN "u" ELSE "t"]

(* Each Connection needs a client at most, with mssql two. *)
MCPools == [pg |-> {"c1"}, mysql2 |-> {"c1"}, mssql |-> {"c1", "c2"}]

(* A BEGIN that fails leaves pg's and mysql2's adapter with a client. *)
MCFaults == ({"pg", "mysql2", "mssql"} \X {"write", "begin", "end"})
            \ {<<"pg", "begin">>, <<"mysql2", "begin">>}
=============================================================================
