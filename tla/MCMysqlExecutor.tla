-------------------------- MODULE MCMysqlExecutor --------------------------
(***************************************************************************)
(* MysqlExecutor on two producers and a ring of three slots, so that it    *)
(* fills, wraps around and abandons a statement.                           *)
(***************************************************************************)
EXTENDS MysqlExecutor

CONSTANTS p1, p2

MCProducers == {p1, p2}
=============================================================================
