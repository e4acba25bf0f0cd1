-------------------------- MODULE NestedTransaction --------------------------
(***************************************************************************)
(* What nested transactions promise (docs/transactions.md, "Transaction    *)
(* Nesting"), without drivers, savepoints or connections: a stack of       *)
(* levels, each with the writes that are its own to undo.  Committing a    *)
(* nested level hands its writes to the level below, rolling one back      *)
(* drops them and nothing else, and only the end of the outermost level    *)
(* makes writes durable: all that the stack holds, or none.                *)
(* Connection is shown to implement it.                                    *)
(***************************************************************************)
EXTENDS Naturals, Sequences

CONSTANT Writes

VARIABLES stack, durable

NTInit == stack = <<>> /\ durable = {}

Opened == {<<>>, <<{}>>}  \* what follows the end of the outermost level

(* A level more; the first may come with the implicit transaction that an  *)
(* auto-commit-off connection opens below it.                              *)
Begin ==
  /\ \/ stack' = Append(stack, {})
     \/ stack = <<>> /\ stack' = <<{}, {}>>
  /\ UNCHANGED durable

(* A write belongs to the innermost level.  Without one it is durable at   *)
(* once, unless it opens the implicit transaction.                         *)
Write(w) ==
  \/ /\ stack # <<>>
     /\ stack' = [stack EXCEPT ![Len(stack)] = @ \cup {w}]
     /\ UNCHANGED durable
  \/ /\ stack = <<>>
     /\ \/ durable' = durable \cup {w} /\ UNCHANGED stack
        \/ stack' = <<{w}>> /\ UNCHANGED durable

CommitNested ==
  /\ Len(stack) > 1
  /\ stack' = [ [n \in 1 .. Len(stack) - 1 |-> stack[n]]
                EXCEPT ![Len(stack) - 1] = @ \cup stack[Len(stack)] ]
  /\ UNCHANGED durable

RollBackNested ==
  /\ Len(stack) > 1
  /\ stack' = [n \in 1 .. Len(stack) - 1 |-> stack[n]]
  /\ UNCHANGED durable

CommitOutermost ==
  /\ Len(stack) = 1
  /\ stack' \in Opened
  /\ durable' = durable \cup stack[1]

RollBackOutermost ==
  /\ Len(stack) = 1
  /\ stack' \in Opened
  /\ UNCHANGED durable

(* close() gives up every level. *)
Abandon ==
  /\ stack # <<>>
  /\ stack' = <<>>
  /\ UNCHANGED durable

NTNext ==
  \/ Begin
  \/ \E w \in Writes : Write(w)
  \/ CommitNested
  \/ RollBackNested
  \/ CommitOutermost
  \/ RollBackOutermost
  \/ Abandon

NTSpec == NTInit /\ [][NTNext]_<<stack, durable>>
=============================================================================
