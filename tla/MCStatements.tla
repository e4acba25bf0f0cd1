--------------------------- MODULE MCStatements ---------------------------
(* Two tasks and one prepared statement on one Connection. *)
EXTENDS Statements

(* One failure of each kind that matters to the Connection. *)
MCKinds == {"unique", "denied", "reset", "lost", "requestTimeout", "cannotOpen"}
=============================================================================
