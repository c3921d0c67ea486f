---------------------------- MODULE MCMergeTasks ----------------------------
(***************************************************************************)
(* TLC instance of MergeTasks: up to three todos, the same UID in two of   *)
(* them included, and up to three Google tasks out of four.                *)
(***************************************************************************)
EXTENDS MergeTasks

UpTo(n, S) == UNION {[1 .. k -> S] : k \in 0 .. n}

MCTodoTrees == UpTo(3, Ids)
MCTaskTrees == {s \in UpTo(3, Ids) : Distinct(s)}
=============================================================================
