---------------------------- MODULE Gtasks2ical -----------------------------
(***************************************************************************)
(* The whole program as main runs it: initialize_configuration first, then *)
(* the login and all that follows with what it left in global_config,      *)
(* whatever it returned.  The modules of the two parts are composed: they  *)
(* share the configuration, which the second one only reads.               *)
(***************************************************************************)
EXTENDS Naturals

CONSTANTS
  Words, MaxWords, Files,                    \* of Configuration
  LoginPages, ConsentPages, Now, ExpiresIn,  \* of Authorization
  NULL

VARIABLES
  setup, command_line, argv, pass, rest, options, arguments, option_error,
  configuration, custom, files, credentials, success,
  program, net, request, body, gmail_login, device_code, access_code, google, sent

Setup == INSTANCE Configuration WITH pc <- setup

\* The environment variable of the user, when it has the form the program
\* wants, holds the credentials Google knows.
Value(v, right) == IF v = "environment" THEN right ELSE v

global_config ==
  [username        |-> Value(configuration.gmail_username, "user"),
   password        |-> Value(configuration.gmail_password, "password"),
   client_id       |-> configuration.client_id,
   client_password |-> configuration.client_password]

Account == INSTANCE Authorization WITH pc <- program, config <- global_config

\* What the two parts assume of their constants.
ASSUME SetupAssumption ==
  Setup!MaxWordsAssumption /\ Setup!NullAssumption /\ Setup!FilesAssumption
ASSUME AccountAssumption ==
  /\ Account!NowAssumption /\ Account!PagesAssumption
  /\ Account!NoPasswordAssumption /\ Account!NullAssumption

setup_vars   == <<setup, command_line, argv, pass, rest, options, arguments,
                  option_error, configuration, custom, files, credentials, success>>
program_vars == <<program, net, request, body, gmail_login, device_code,
                  access_code, google, sent>>
vars == <<setup_vars, program_vars>>

Init == Setup!Init /\ Account!Init

initialize_configuration == Setup!Next /\ UNCHANGED program_vars

\* main does not look at "success".
main ==
  /\ setup = "returned"
  /\ UNCHANGED setup_vars
  /\ Account!Client

Google == UNCHANGED setup_vars /\ Account!Google

Gone == \/ setup \in {"exit_success", "exit_failure", "crash"}
        \/ program \in Account!Ended

Next == initialize_configuration \/ main \/ Google \/ (Gone /\ UNCHANGED vars)

Spec == Init /\ [][Next]_vars

-----------------------------------------------------------------------------
(* What the user has configured: the environment, once it has been read and  *)
(* is set, or else the last file with the setting.                           *)

Configured(f) ==
  CASE credentials \in {NULL, "unset"} -> Setup!FromFiles(f)
    [] credentials = "plain"  -> NULL
    [] credentials = "spaced" -> "environment"

User     == Value(Configured("gmail_username"), "user")
Password == Value(Configured("gmail_password"), "password")

Posted(r, name) ==
  {r.fields[i].value : i \in {j \in DOMAIN r.fields : r.fields[j].name = name}}

Forms(url) ==
  {form \in UNION {{page[i] : i \in DOMAIN page} : page \in LoginPages \cup ConsentPages} :
     form.action = url}

IsLogin(url) == Account!IsPrefix(Account!GOOGLE_GMAIL_LOGIN, url)

\* What Google's forms bring along for that address as name: a form may have a
\* field of that name itself, and any number of inputs, of which modify_form fills
\* in the first when it is the login form.
Prefilled(url, name) ==
  {form.value : form \in {f \in Forms(url) : f.name = name}}
    \cup UNION {
      LET inputs == form.input_fields
      IN  {inputs[i].value : i \in {j \in DOMAIN inputs :
             /\ inputs[j].name = name
             /\ IsLogin(url) => \E k \in 1 .. j - 1 : inputs[k].name = name}} :
      form \in Forms(url)}

\* The user name and the password in any request are those the user
\* configured, and there are none if none are: neither an earlier file, nor the
\* value Google filled in, nor a configuration that failed half-way, whose
\* failure main ignores, puts another name or password there.  Only what stands
\* in a form besides the first input of that name is posted as Google has it;
\* the login form has the configured ones all the same.
CredentialsAsConfigured ==
  \A r \in sent, n \in Account!login_inputs :
    LET value == IF n = "Email" THEN User ELSE Password
    IN  /\ Posted(r, n) \subseteq ({value} \cup Prefilled(r.url, n)) \ {NULL}
        /\ IsLogin(r.url) /\ r.fields # <<>> /\ value # NULL => value \in Posted(r, n)

\* Tokens are issued only for the client of the last file that names one, to
\* the user who is configured, unless Google's own login form names the account
\* in a second field; the password is the configured one in any case.
TokensAsConfigured ==
  google.tokens # {} => /\ \/ User = "user"
                           \/ \E r \in sent :
                                IsLogin(r.url) /\ "user" \in Prefilled(r.url, "Email")
                        /\ Password = "password"
                        /\ Setup!FromFiles("client_id") = "client"
                        /\ Setup!FromFiles("client_password") = "secret"
=============================================================================
