-------------------------- MODULE MCConfiguration ---------------------------
(***************************************************************************)
(* TLC instance of Configuration: every command line of up to four of nine *)
(* words, and files that set the user only, both credentials, or the rest. *)
(***************************************************************************)
EXTENDS Configuration

NoSettings == [f \in {} |-> NULL]
Settings == {[gmail_username |-> "u1"],
             [gmail_username |-> "u2", gmail_password |-> "p2", ipv4_only |-> TRUE],
             [client_id |-> "id", gmail_password |-> "p3", ipv4_only |-> FALSE]}

MCFiles == [kind : {"settings"}, settings : Settings]
             \cup [kind : Kinds \ {"settings"}, settings : {NoSettings}]
MCWords == {"-4", "-t", "-c", "--config=A", "--", "-x", "-h", "A", "B"}
=============================================================================
