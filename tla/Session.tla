------------------------------ MODULE Session -------------------------------
(***************************************************************************)
(* What gtasks2ical promises to the user's account: it reads tasks only    *)
(* after a login that Google accepted and with a token Google issued       *)
(* afterwards, one step after the other, and may give up at any time.      *)
(***************************************************************************)
CONSTANTS NULL, Token

VARIABLES
  stage,       \* how far the program believes to be
  signed_in,   \* what Google believes
  tokens,      \* the tokens Google has issued
  bearer       \* the token the program uses

vars == <<stage, signed_in, tokens, bearer>>

Init ==
  /\ stage = "anonymous"
  /\ signed_in = FALSE
  /\ tokens = {}
  /\ bearer = NULL

\* Google accepts the credentials.
SignIn ==
  /\ stage = "anonymous"
  /\ signed_in' = TRUE
  /\ UNCHANGED <<stage, tokens, bearer>>

LogIn ==
  /\ stage = "anonymous"
  /\ signed_in
  /\ stage' = "logged_in"
  /\ UNCHANGED <<signed_in, tokens, bearer>>

\* Google issues a token to a session that is logged in on both sides.
Issue ==
  /\ stage = "logged_in"
  /\ tokens' = tokens \cup {Token}
  /\ UNCHANGED <<stage, signed_in, bearer>>

ReadTasks ==
  /\ stage = "logged_in"
  /\ bearer' \in tokens
  /\ stage' = "reading"
  /\ UNCHANGED <<signed_in, tokens>>

End ==
  /\ stage' = "ended"
  /\ UNCHANGED <<signed_in, tokens, bearer>>

Next == SignIn \/ LogIn \/ Issue \/ ReadTasks \/ End

Spec == Init /\ [][Next]_vars
=============================================================================
