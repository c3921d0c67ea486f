--------------------------- MODULE MCGtasks2ical ----------------------------
(***************************************************************************)
(* TLC instance of Gtasks2ical: command lines that are right, wrong, ask   *)
(* for help or name a third file; files with right and wrong credentials   *)
(* and clients, alone and mixed; and Google's pages with and without form, *)
(* whose inputs may name another user, or ask for one more than once.      *)
(***************************************************************************)
EXTENDS Gtasks2ical, Sequences

Settings == {[gmail_username |-> "user", gmail_password |-> "password"],
             [client_id |-> "client", client_password |-> "secret"],
             [client_id |-> "unknown", gmail_password |-> "typo"],
             [gmail_username |-> "other"]}

MCFiles == [kind : {"settings"}, settings : Settings]
             \cup [kind : {"no such file", "no group", "malformed"},
                   settings : {[f \in {} |-> NULL]}]
MCWords == {"--config=A", "-t", "-h", "A"}

Url(page) == <<"https://accounts.google.com">> \o page
Form(url, fields) == [action |-> url, name |-> NULL, value |-> NULL, input_fields |-> fields]
Field(name, value) == [name |-> name, value |-> value]

MCLoginPages ==
  {<<>>, <<Form(Url(<<"ServiceLogin">>),
                <<Field("GALX", "x"), Field("Email", "other"), Field("Passwd", NULL)>>)>>,
   <<[Form(Url(<<"ServiceLogin", "Twice">>),
           <<Field("Email", "first"), Field("Email", "second")>>)
        EXCEPT !.name = "Email", !.value = "form"]>>}
MCConsentPages ==
  {<<>>, <<Form(Url(<<"o/oauth2", "approval">>), <<Field("submit_access", "true")>>)>>}
=============================================================================
