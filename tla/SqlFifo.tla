------------------------------ MODULE SqlFifo ------------------------------
(***************************************************************************)
(* What execute_sql_async promises its callers: a bounded first-in         *)
(* first-out hand-over of SQL statements.  A statement that was accepted   *)
(* is taken by the executor at most once, in the order of acceptance, and  *)
(* never more than Capacity accepted statements wait to be taken.          *)
(* MysqlExecutor (threads, mutex, condition variable, ring of slots) is    *)
(* shown to implement this module.                                         *)
(***************************************************************************)
EXTENDS Naturals, Sequences

CONSTANTS Statements,   \* the SQL statements callers may submit
          Capacity      \* how many accepted statements may wait

VARIABLES accepted,     \* every statement accepted so far, in order
          taken         \* every statement taken so far, in order

fifoVars == <<accepted, taken>>

Init == /\ accepted = <<>>
        /\ taken = <<>>

Accept(s) == /\ Len(accepted) - Len(taken) < Capacity
             /\ accepted' = Append(accepted, s)
             /\ UNCHANGED taken

Take == /\ Len(taken) < Len(accepted)
        /\ taken' = Append(taken, accepted[Len(taken) + 1])
        /\ UNCHANGED accepted

Next == \/ \E s \in Statements : Accept(s)
        \/ Take

Spec == Init /\ [][Next]_fifoVars
=============================================================================
