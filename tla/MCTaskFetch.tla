---------------------------- MODULE MCTaskFetch -----------------------------
(***************************************************************************)
(* TLC instance of TaskFetch: lists of up to three tasks (four after an    *)
(* edit), pages of one or two, an edit by another client at any moment.    *)
(***************************************************************************)
EXTENDS TaskFetch

MCInitialLists == {s \in UNION {[1 .. n -> Tasks] : n \in 0 .. 3} : Distinct(s)}
MCLists == <<"l1", "l2", "l3">>
=============================================================================
