---------------------------- MODULE Authorization ---------------------------
(***************************************************************************)
(* main, login_to_gmail and authorize_application: log in to Gmail with    *)
(* the forms a browser would use, approve the application, exchange the    *)
(* code for tokens and read a task.                                        *)
(*                                                                         *)
(* The program is sequential: it sends one request, waits for the reply    *)
(* without a timeout and goes on.  pc is the place where it waits or, at   *)
(* the end, how the process ended.  The function of each step is the one   *)
(* whose code runs from the reply up to the next request.                  *)
(*                                                                         *)
(* Google is not part of the repository; the variable "google" and the     *)
(* actions of Google are what the client relies on.  A reply may be lost  *)
(* (NULL, the buffer no byte was written to), be another page than the one *)
(* hoped for, or be cut short.                                             *)
(*                                                                         *)
(* A reply body is a record of what the client looks for in it: the forms, *)
(* the marks of a logged in Gmail page, the text after "=" in the title,   *)
(* and the members of a JSON object (none when the body is not JSON).      *)
(***************************************************************************)
EXTENDS HtmlForms

CONSTANTS
  LoginPages,     \* the pages Google may show at the login URL
  ConsentPages,   \* the pages it may show when the application asks
  Now,            \* time() when the tokens arrive
  ExpiresIn       \* the lifetime of an access token

ASSUME NowAssumption == Now \in Nat \ {0}

\* A page is the sequence of its forms.
ASSUME PagesAssumption ==
  LoginPages \cup ConsentPages \subseteq
    Seq([action : Seq(STRING) \cup {NULL},
         name : STRING \cup {NULL}, value : STRING \cup {NULL},
         input_fields : Seq([name : STRING \cup {NULL}, value : STRING \cup {NULL}])])

\* The passwords the user may have configured, the right one and a wrong one.
Passwords == {"password", "typo"}

\* No page comes with a password of the user filled in.
ASSUME NoPasswordAssumption ==
  \A page \in LoginPages \cup ConsentPages : \A i \in DOMAIN page :
    /\ page[i].value \notin Passwords
    /\ \A j \in DOMAIN page[i].input_fields : page[i].input_fields[j].value \notin Passwords

VARIABLES
  config,         \* the credentials of global_config; any may be NULL
  pc,
  net,            \* "idle", "sent" or "answered"
  request,        \* the last request sent
  body,           \* the reply to it
  gmail_login,    \* what login_to_gmail returned
  device_code,    \* user_code->device_code
  access_code,    \* what authorize_application returned
  google,         \* external: what Google knows of this client
  sent            \* every request sent so far (history)

vars == <<config, pc, net, request, body, gmail_login, device_code,
          access_code, google, sent>>

\* URLs by their parts, as in HtmlForms.
Accounts                 == "https://accounts.google.com"
GOOGLE_GMAIL_LOGIN       == <<Accounts, "ServiceLogin">>
GOOGLE_OAUTH2_DEVICECODE == <<Accounts, "o/oauth2", "auth">>
GOOGLE_OAUTH2_APPROVAL   == <<Accounts, "o/oauth2", "approval">>
GOOGLE_OAUTH2_TOKEN      == <<Accounts, "o/oauth2", "token">>
GOOGLE_TASKS_API         == <<"https://www.googleapis.com", "tasks/v1">>

login_inputs     == {"Email", "Passwd"}
auth_input_names == {"submit_access"}

\* The four strings login_to_gmail searches the reply for.
Markers == {"ads preferences", "plus profile", "AddSession", "GMAIL_CB"}

Ended == {"exit_0", "exit_failure", "crash"}

-----------------------------------------------------------------------------
(* Requests and replies. *)

Field(name, value) == [name |-> name, value |-> value]
Get(url, auth) == [url |-> url, fields |-> <<>>, authorization |-> auth]
Post(form) == [url |-> form.action, fields |-> post_form(form), authorization |-> NULL]
Carries(r, name, value) == \E i \in DOMAIN r.fields : r.fields[i] = Field(name, value)

NoJson == [m \in {} |-> NULL]
Body == [forms |-> <<>>, markers |-> {}, title |-> NULL, json |-> NoJson]

Send(r, next) ==
  /\ request' = r
  /\ sent' = sent \cup {r}
  /\ net' = "sent"
  /\ pc' = next
  /\ UNCHANGED <<config, body, google>>

Stop(how) ==
  /\ pc' = how
  /\ net' = "idle"
  /\ UNCHANGED <<config, request, body, google, sent>>

Received(place) == pc = place /\ net = "answered"

-----------------------------------------------------------------------------
(* login_to_gmail *)

\* What main does first; the result of initialize_configuration is not looked
\* at, so any of the credentials may be missing.
main ==
  /\ pc = "main"
  /\ Send(Get(GOOGLE_GMAIL_LOGIN, NULL), "login_page")
  /\ UNCHANGED <<gmail_login, device_code, access_code>>

login_form_of(page) == find_form(page, GOOGLE_GMAIL_LOGIN, login_inputs)

filled_form ==
  modify_form(login_form_of(body.forms),
              <<Field("Email", config.username), Field("Passwd", config.password)>>)

post_login_form ==
  /\ Received("login_page")
  /\ body # NULL
  /\ login_form_of(body.forms) # NULL
  /\ \E form \in {filled_form} :
       Send(Post(form), "login_response")
  /\ UNCHANGED <<gmail_login, device_code, access_code>>

\* get_forms exits when libtidy is given no page or cannot repair it; without a
\* form modify_form dereferences NULL.
no_login_form ==
  /\ Received("login_page")
  /\ \/ Stop("exit_failure")
     \/ body # NULL /\ login_form_of(body.forms) = NULL /\ Stop("crash")
  /\ UNCHANGED <<gmail_login, device_code, access_code>>

request_url == IF config.client_id = NULL
               THEN GOOGLE_OAUTH2_DEVICECODE
               ELSE Append(GOOGLE_OAUTH2_DEVICECODE, config.client_id)

\* Mutant: one of the strings is enough.
logged_in_by_any(page) == page.markers # {}

logged_in(page) == page.markers = Markers

\* Mutant: main goes on whatever login_to_gmail returned.
login_result_ignored ==
  /\ Received("login_response")
  /\ body # NULL
  /\ gmail_login' = logged_in(body)
  /\ Send(Get(request_url, NULL), "consent_page")
  /\ UNCHANGED <<device_code, access_code>>

\* The end of login_to_gmail and, when it succeeded, the start of
\* obtain_device_code; otherwise main tells the user and exits with 0.
login_answered ==
  /\ Received("login_response")
  /\ body # NULL
  /\ gmail_login' = logged_in(body)
  /\ IF gmail_login'
     THEN Send(Get(request_url, NULL), "consent_page")
     ELSE Stop("exit_0")
  /\ UNCHANGED <<device_code, access_code>>

\* strlen(NULL)
no_login_response ==
  /\ Received("login_response")
  /\ body = NULL
  /\ Stop("crash")
  /\ UNCHANGED <<gmail_login, device_code, access_code>>

-----------------------------------------------------------------------------
(* obtain_device_code *)

authorization_form(page) ==
  find_form(page, GOOGLE_OAUTH2_APPROVAL, auth_input_names)

post_authorization_form ==
  /\ Received("consent_page")
  /\ body # NULL
  /\ authorization_form(body.forms) # NULL
  /\ Send(Post(authorization_form(body.forms)), "approval")
  /\ UNCHANGED <<gmail_login, device_code, access_code>>

\* Mutant: ask for the page again until it has the form.
consent_page_retried ==
  /\ Received("consent_page")
  /\ \/ Stop("exit_failure")
     \/ /\ body # NULL
        /\ authorization_form(body.forms) = NULL
        /\ Send(Get(request_url, NULL), "consent_page")
  /\ UNCHANGED <<gmail_login, device_code, access_code>>

\* The same exit of get_forms; without the form there is no code and no access,
\* and main exits with 0.
no_authorization_form ==
  /\ Received("consent_page")
  /\ \/ Stop("exit_failure")
     \/ body # NULL /\ authorization_form(body.forms) = NULL /\ Stop("exit_0")
  /\ UNCHANGED <<gmail_login, device_code, access_code>>

\* The request_form of obtain_access_code, when it is no device request.
request_form(code) ==
  [action |-> GOOGLE_OAUTH2_TOKEN, name |-> NULL, value |-> NULL,
   input_fields |-> <<Field("code", code),
                      Field("client_id", config.client_id),
                      Field("client_secret", config.client_password),
                      Field("redirect_uri", "urn:ietf:wg:oauth:2.0:oob"),
                      Field("grant_type", "authorization_code")>>]

token_request(code) == Post(request_form(code))

\* The regular expression takes what follows the first "=" of the title,
\* whatever stands before it.  Then obtain_access_code sends its request.
code_in_title ==
  /\ Received("approval")
  /\ body # NULL
  /\ body.title # NULL
  /\ device_code' = body.title
  /\ Send(token_request(body.title), "tokens")
  /\ UNCHANGED <<gmail_login, access_code>>

\* Without a reply the match object is freed uninitialised: the process may
\* die or go on as if the title had not matched.
no_code_in_title ==
  /\ Received("approval")
  /\ \/ body = NULL /\ Stop("crash")
     \/ (body # NULL => body.title = NULL) /\ Stop("exit_0")
  /\ UNCHANGED <<gmail_login, device_code, access_code>>

-----------------------------------------------------------------------------
(* obtain_access_code *)

Member(json, name) == IF name \in DOMAIN json THEN json[name] ELSE NULL

\* g_strcmp0 is not 0 for every member but "expires_in": each of those sets
\* the expiration to now plus its value as an integer, 0 for a string.
parse_tokens_json(json) ==
  [access_token  |-> Member(json, "access_token"),
   refresh_token |-> Member(json, "refresh_token"),
   expiration_timestamp |-> IF DOMAIN json \ {"expires_in"} # {} THEN Now ELSE 0]

\* Mutant: a missing access token is not noticed.
incomplete_without_access(code) == code.refresh_token = NULL /\ code.access_token # NULL

\* Mutant: a missing refresh token is not noticed.
incomplete_without_refresh(code) ==
  code.access_token = NULL \/ code.expiration_timestamp = 0

incomplete(code) ==
  \/ code.access_token = NULL
  \/ code.refresh_token = NULL
  \/ code.expiration_timestamp = 0

task_uri == Append(GOOGLE_TASKS_API, "task")

\* With both tokens main asks for the task.
tokens_answered ==
  /\ Received("tokens")
  /\ body # NULL
  /\ LET code == parse_tokens_json(body.json)
     IN  IF incomplete(code)
         THEN access_code' = NULL /\ Stop("exit_0")
         ELSE /\ access_code' = code
              /\ Send(Get(task_uri, code.access_token), "task")
  /\ UNCHANGED <<gmail_login, device_code>>

\* strlen(NULL) in decode_json_reply
no_tokens ==
  /\ Received("tokens")
  /\ body = NULL
  /\ Stop("crash")
  /\ UNCHANGED <<gmail_login, device_code, access_code>>

\* get_specified_task decodes any body and main exits; strlen(NULL) otherwise.
task_answered ==
  /\ Received("task")
  /\ Stop(IF body = NULL THEN "crash" ELSE "exit_0")
  /\ UNCHANGED <<gmail_login, device_code, access_code>>

-----------------------------------------------------------------------------
(* Google, external. *)

\* Google's answer: a page, or NULL when the reply is lost.
Answer(replies, knowledge) ==
  /\ net = "sent"
  /\ body' \in replies \cup {NULL}
  /\ google' = knowledge
  /\ net' = "answered"
  /\ UNCHANGED <<config, pc, request, gmail_login, device_code, access_code, sent>>

ShowForms(pages) == {[Body EXCEPT !.forms = p] : p \in pages}
ShowMarkers(sets) == {[Body EXCEPT !.markers = s] : s \in sets}
ShowTitle(titles) == {[Body EXCEPT !.title = t] : t \in titles}
ShowJson(objects) == {[Body EXCEPT !.json = o] : o \in objects}

ServeLoginPage ==
  /\ request = Get(GOOGLE_GMAIL_LOGIN, NULL)
  /\ Answer(ShowForms(LoginPages), google)

\* The right credentials at the right address sign the client in, even if the
\* page that would show it is cut short.  Only a signed in client sees all the
\* marks, but some of them are on other pages too.
CheckPassword ==
  /\ request.fields # <<>> /\ IsPrefix(GOOGLE_GMAIL_LOGIN, request.url)
  /\ \/ /\ Carries(request, "Email", "user") /\ Carries(request, "Passwd", "password")
        /\ Answer(ShowMarkers(SUBSET Markers), [google EXCEPT !.signed_in = TRUE])
     \/ Answer(ShowMarkers((SUBSET Markers) \ {Markers}), google)

\* A client that is not signed in is shown the login page instead.
ServeConsentPage ==
  /\ IsPrefix(GOOGLE_OAUTH2_DEVICECODE, request.url)
  /\ LET known == google.signed_in
                  /\ request.url = Append(GOOGLE_OAUTH2_DEVICECODE, "client")
     IN  Answer(ShowForms(IF known THEN ConsentPages ELSE LoginPages), google)

\* The title of the reply is "Success code=..." or "Denied error=...".
Approve ==
  /\ request.fields # <<>> /\ IsPrefix(GOOGLE_OAUTH2_APPROVAL, request.url)
  /\ \/ Answer(ShowTitle({"code"}), [google EXCEPT !.code = "code"])
     \/ Answer(ShowTitle({"access_denied", NULL}), google)

\* A code is good for one exchange by the client it was issued to.
ExchangeCode ==
  /\ request.url = GOOGLE_OAUTH2_TOKEN
  /\ IF /\ google.code # NULL
        /\ Carries(request, "code", google.code)
        /\ Carries(request, "client_id", "client")
        /\ Carries(request, "client_secret", "secret")
     THEN Answer(ShowJson({[access_token |-> "token", expires_in |-> ExpiresIn,
                            refresh_token |-> "refresh", token_type |-> "Bearer"],
                           [access_token |-> "token", expires_in |-> ExpiresIn,
                            token_type |-> "Bearer"],
                           NoJson}),
                 [google EXCEPT !.code = NULL, !.tokens = @ \cup {"token"}])
     ELSE Answer(ShowJson({[error |-> "invalid_grant"], NoJson}), google)

ServeTask ==
  /\ IsPrefix(GOOGLE_TASKS_API, request.url)
  /\ Answer({Body}, google)

-----------------------------------------------------------------------------
Init ==
  /\ config \in [username : {"user", "stranger", NULL}, password : Passwords \cup {NULL},
                 client_id : {"client", "unknown", NULL},
                 client_password : {"secret", NULL}]
  /\ pc = "main"
  /\ net = "idle"
  /\ request = Get(<<>>, NULL)
  /\ body = NULL
  /\ gmail_login = FALSE
  /\ device_code = NULL
  /\ access_code = NULL
  /\ google = [signed_in |-> FALSE, code |-> NULL, tokens |-> {}]
  /\ sent = {}

login_to_gmail ==
  post_login_form \/ no_login_form \/ login_answered \/ no_login_response

obtain_device_code ==
  \/ post_authorization_form \/ no_authorization_form
  \/ code_in_title \/ no_code_in_title

obtain_access_code == tokens_answered \/ no_tokens

Client == main \/ login_to_gmail \/ obtain_device_code \/ obtain_access_code
          \/ task_answered

Google == ServeLoginPage \/ CheckPassword \/ ServeConsentPage \/ Approve
          \/ ExchangeCode \/ ServeTask

\* The process is gone.
Gone == pc \in Ended /\ UNCHANGED vars

Next == Client \/ Google \/ Gone

Spec == Init /\ [][Next]_vars

\* The process runs whenever it has a reply to work on.  That Google answers
\* every request, or the connection breaks, is an assumption: the code sets no
\* timeout and waits for as long as it takes.
FairSpec == Spec /\ WF_vars(Client) /\ WF_vars(Google)

-----------------------------------------------------------------------------
(* Properties. *)

Codes == {"code", "access_denied"}

AccessCodes == [access_token : {"token"}, refresh_token : {"refresh"},
                expiration_timestamp : Nat \ {0}]

\* A pointer to something is not NULL.
ASSUME NullAssumption ==
  NULL \notin AccessCodes \cup login_inputs \cup {GOOGLE_GMAIL_LOGIN, GOOGLE_OAUTH2_APPROVAL}

\* The places, the requests and what the functions returned; an access code
\* that obtain_access_code returned is complete.
TypeOK ==
  /\ pc \in Ended \cup {"main", "login_page", "login_response", "consent_page",
                        "approval", "tokens", "task"}
  /\ net \in {"idle", "sent", "answered"}
  /\ gmail_login \in BOOLEAN
  /\ device_code \in Codes \cup {NULL}
  /\ access_code \in AccessCodes \cup {NULL}
  /\ google \in [signed_in : BOOLEAN, code : {"code", NULL}, tokens : SUBSET {"token"}]

\* login_to_gmail reports success only when Google has signed the client in,
\* although it can tell only from strings on the page.
LoginIsReal == gmail_login => google.signed_in

\* No request of authorize_application or get_specified_task is made by a
\* client that is not signed in (obtain_device_code: "The CURL session must
\* include the user's login to Google").
SignedInBeforeConsent ==
  [][\A r \in sent' \ sent :
       IsPrefix(GOOGLE_GMAIL_LOGIN, r.url) \/ google.signed_in]_vars

\* The password leaves the program only in the login form, never in the form
\* of some other page that happens to ask for an e-mail address.
PasswordOnlyToLogin ==
  \A r \in sent :
    config.password # NULL /\ Carries(r, "Passwd", config.password)
      => IsPrefix(GOOGLE_GMAIL_LOGIN, r.url)

\* A task is asked for with a token that Google issued in this session, never
\* with one made up from an error reply.
TokenIsIssued ==
  \A r \in sent : IsPrefix(GOOGLE_TASKS_API, r.url) => r.authorization \in google.tokens

\* login_to_gmail: "@return TRUE if the login was successfull, or FALSE
\* otherwise."  The process does not die of an answer before the login succeeded.
LoginReturns == pc = "crash" => gmail_login

\* The process ends, one way or another.
Terminates == <>(pc \in Ended)

-----------------------------------------------------------------------------
(* The abstract session. *)

Session == INSTANCE Session WITH
  stage     <- IF pc \in Ended THEN "ended"
               ELSE IF pc = "task" THEN "reading"
               ELSE IF gmail_login THEN "logged_in" ELSE "anonymous",
  signed_in <- google.signed_in,
  tokens    <- google.tokens,
  Token     <- "token",
  bearer    <- IF access_code = NULL THEN NULL ELSE access_code.access_token

\* The program is a session: log in, get a token, use it, in that order.
IsSession == Session!Spec
=============================================================================
