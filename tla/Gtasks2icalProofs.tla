------------------------- MODULE Gtasks2icalProofs --------------------------
(***************************************************************************)
(* Whatever the files, the environment and the command line say and in     *)
(* whatever way initialize_configuration ends, the requests carry the      *)
(* credentials and the client the user configured, and nobody else's       *)
(* tokens are asked for.                                                   *)
(*                                                                         *)
(* The invariants of the two parts are those of their own proofs, taken    *)
(* over by instances of the proof modules with the substitutions of Setup  *)
(* and Account.                                                            *)
(***************************************************************************)
EXTENDS Gtasks2ical, SequenceTheorems, TLAPS

C == INSTANCE ConfigurationProofs WITH pc <- setup
A == INSTANCE AuthorizationProofs WITH pc <- program, config <- global_config

-----------------------------------------------------------------------------
(* Setup and C, Account and A define the same. *)

LEMMA SetupAssumed == C!MaxWordsAssumption /\ C!NullAssumption /\ C!FilesAssumption
  BY SetupAssumption
     DEF Setup!MaxWordsAssumption, Setup!NullAssumption, Setup!FilesAssumption,
         Setup!Credentials, Setup!FileFields,
         C!MaxWordsAssumption, C!NullAssumption, C!FilesAssumption, C!Credentials,
         C!FileFields

LEMMA SameSetup == (Setup!Init => C!Init) /\ (Setup!Next => C!Next)
<1>1. Setup!Init => C!Init
  BY DEF Setup!Init, Setup!CommandLines, Setup!reset_configuration,
         C!Init, C!CommandLines, C!reset_configuration
<1>2. Setup!Next => C!Next
  BY DEF Setup!Next, Setup!decode_commandline, Setup!apply_configuration_files,
         Setup!files_applied, Setup!decode_flag, Setup!decode_task, Setup!decode_config,
         Setup!decode_error, Setup!print_and_exit, Setup!skip_argument, Setup!end_of_options,
         Setup!help_and_exit, Setup!first_pass_decoded, Setup!destroy_configuration,
         Setup!second_pass_decoded, Setup!wrong_arguments,
         Setup!apply_one_configuration_file, Setup!malformed_file, Setup!file_without_group,
         Setup!SecondPass, Setup!Environment, Setup!NextIs, Setup!Flags, Setup!TakeOption,
         Setup!FieldOf, Setup!TaskWords, Setup!HasArgument, Setup!Width, Setup!ArgvOptind,
         Setup!FileWords, Setup!Unknown, Setup!Separate, Setup!Messages, Setup!Exit,
         Setup!Options, Setup!EndOfOptions, Setup!reset_configuration, Setup!scan,
         Setup!NamedArguments, Setup!Read, Setup!Ignored, Setup!Scan, Setup!Credentials,
         Setup!set_environment_configuration, Setup!Kinds,
         C!Next, C!decode_commandline, C!apply_configuration_files, C!files_applied,
         C!decode_flag, C!decode_task, C!decode_config, C!decode_error, C!print_and_exit,
         C!skip_argument, C!end_of_options, C!help_and_exit, C!first_pass_decoded,
         C!destroy_configuration, C!second_pass_decoded, C!wrong_arguments,
         C!apply_one_configuration_file, C!malformed_file, C!file_without_group,
         C!SecondPass, C!Environment, C!NextIs, C!Flags, C!TakeOption, C!FieldOf,
         C!TaskWords, C!HasArgument, C!Width, C!ArgvOptind, C!FileWords, C!Unknown,
         C!Separate, C!Messages, C!Exit, C!Options, C!EndOfOptions, C!reset_configuration,
         C!scan, C!NamedArguments, C!Read, C!Ignored, C!Scan, C!Credentials,
         C!set_environment_configuration, C!Kinds
<1> QED BY <1>1, <1>2

LEMMA AccountAssumed == /\ A!NowAssumption /\ A!PagesAssumption
                        /\ A!NoPasswordAssumption /\ A!NullAssumption
  BY AccountAssumption
     DEF Account!NowAssumption, Account!PagesAssumption, Account!NoPasswordAssumption,
         Account!NullAssumption, Account!AccessCodes, Account!login_inputs,
         Account!GOOGLE_GMAIL_LOGIN, Account!GOOGLE_OAUTH2_APPROVAL, Account!Accounts,
         Account!Passwords,
         A!NowAssumption, A!PagesAssumption, A!NoPasswordAssumption, A!NullAssumption,
         A!AccessCodes, A!login_inputs, A!GOOGLE_GMAIL_LOGIN, A!GOOGLE_OAUTH2_APPROVAL,
         A!Accounts, A!Passwords

LEMMA SameForms ==
  /\ \A page, action, names :
       Account!find_form(page, action, names) = A!find_form(page, action, names)
  /\ \A form, inputs : Account!modify_form(form, inputs) = A!modify_form(form, inputs)
  /\ \A form : Account!post_form(form) = A!post_form(form)
<1>1. \A page, action, names :
        Account!find_form(page, action, names) = A!find_form(page, action, names)
  BY DEF Account!find_form, Account!FirstIn, Account!search_form_by_action_and_inputs,
         Account!search_input_by_name, Account!SelectInSeq, Account!Min, Account!IsPrefix,
         A!find_form, A!FirstIn, A!search_form_by_action_and_inputs, A!search_input_by_name,
         A!SelectInSeq, A!Min, A!IsPrefix
<1>2. \A form, inputs : Account!modify_form(form, inputs) = A!modify_form(form, inputs)
  BY DEF Account!modify_form, Account!modify_form_inputs, Account!fill_form_with_input,
         Account!search_input_by_name, Account!add_input_to_form, Account!formadd_accepts,
         Account!SelectInSeq, Account!Min, Account!IsPrefix,
         A!modify_form, A!modify_form_inputs, A!fill_form_with_input, A!search_input_by_name,
         A!add_input_to_form, A!formadd_accepts, A!SelectInSeq, A!Min, A!IsPrefix
<1>3. \A form : Account!post_form(form) = A!post_form(form)
  BY DEF Account!post_form, Account!own_field, Account!posted_fields,
         Account!fill_form_with_input, Account!formadd_accepts,
         A!post_form, A!own_field, A!posted_fields, A!fill_form_with_input,
         A!formadd_accepts
<1> QED BY <1>1, <1>2, <1>3

LEMMA SameAccount ==
  (Account!Init => A!Init) /\ (Account!Client => A!Client) /\ (Account!Google => A!Google)
<1>1. Account!Init => A!Init
  BY DEF Account!Init, Account!Passwords, Account!main, Account!Get, Account!Send,
         Account!GOOGLE_GMAIL_LOGIN, Account!Accounts,
         A!Init, A!Passwords, A!main, A!Get, A!Send, A!GOOGLE_GMAIL_LOGIN, A!Accounts
<1>2. Account!Client => A!Client
  BY SameForms
     DEF Account!Client, Account!main, Account!login_to_gmail, Account!obtain_device_code,
         Account!obtain_access_code, Account!task_answered, Account!Send, Account!Get,
         Account!GOOGLE_GMAIL_LOGIN, Account!post_login_form, Account!no_login_form,
         Account!login_answered, Account!no_login_response, Account!post_authorization_form,
         Account!no_authorization_form, Account!code_in_title, Account!no_code_in_title,
         Account!tokens_answered, Account!no_tokens, Account!Received, Account!Stop,
         Account!Accounts, Account!login_form_of, Account!filled_form, Account!Post,
         Account!logged_in, Account!request_url, Account!authorization_form,
         Account!token_request, Account!request_form, Account!parse_tokens_json, Account!incomplete,
         Account!task_uri, Account!login_inputs, Account!Field, Account!Markers,
         Account!GOOGLE_OAUTH2_DEVICECODE, Account!GOOGLE_OAUTH2_APPROVAL,
         Account!auth_input_names, Account!GOOGLE_OAUTH2_TOKEN, Account!Member,
         Account!GOOGLE_TASKS_API,
         A!Client, A!main, A!login_to_gmail, A!obtain_device_code, A!obtain_access_code,
         A!task_answered, A!Send, A!Get, A!GOOGLE_GMAIL_LOGIN, A!post_login_form,
         A!no_login_form, A!login_answered, A!no_login_response, A!post_authorization_form,
         A!no_authorization_form, A!code_in_title, A!no_code_in_title, A!tokens_answered,
         A!no_tokens, A!Received, A!Stop, A!Accounts, A!login_form_of, A!filled_form, A!Post,
         A!logged_in, A!request_url, A!authorization_form, A!token_request,
         A!request_form,
         A!parse_tokens_json, A!incomplete, A!task_uri, A!login_inputs, A!Field, A!Markers,
         A!GOOGLE_OAUTH2_DEVICECODE, A!GOOGLE_OAUTH2_APPROVAL, A!auth_input_names,
         A!GOOGLE_OAUTH2_TOKEN, A!Member, A!GOOGLE_TASKS_API
<1>3. Account!Google => A!Google
  BY DEF Account!Google, Account!ServeLoginPage, Account!CheckPassword,
         Account!ServeConsentPage, Account!Approve, Account!ExchangeCode, Account!ServeTask,
         Account!Get, Account!GOOGLE_GMAIL_LOGIN, Account!Answer, Account!ShowForms,
         Account!Carries, Account!ShowMarkers, Account!Markers,
         Account!GOOGLE_OAUTH2_DEVICECODE, Account!GOOGLE_OAUTH2_APPROVAL, Account!ShowTitle,
         Account!GOOGLE_OAUTH2_TOKEN, Account!ShowJson, Account!NoJson,
         Account!GOOGLE_TASKS_API, Account!Body, Account!Accounts, Account!Field,
         Account!IsPrefix,
         A!Google, A!ServeLoginPage, A!CheckPassword, A!ServeConsentPage, A!Approve,
         A!ExchangeCode, A!ServeTask, A!Get, A!GOOGLE_GMAIL_LOGIN, A!Answer, A!ShowForms,
         A!Carries, A!ShowMarkers, A!Markers, A!GOOGLE_OAUTH2_DEVICECODE,
         A!GOOGLE_OAUTH2_APPROVAL, A!ShowTitle, A!GOOGLE_OAUTH2_TOKEN, A!ShowJson, A!NoJson,
         A!GOOGLE_TASKS_API, A!Body, A!Accounts, A!Field, A!IsPrefix
<1> QED BY <1>1, <1>2, <1>3

-----------------------------------------------------------------------------
(* What the user has configured. *)

\* The values main hands on.
Settled ==
  /\ global_config.username = User /\ global_config.password = Password
  /\ global_config.client_id = Setup!FromFiles("client_id")
  /\ global_config.client_password = Setup!FromFiles("client_password")

LEMMA ProvenanceSettles == C!ProvenanceInv => Settled
<1> SUFFICES ASSUME C!ProvenanceInv PROVE Settled
  OBVIOUS
<1>1. \A f : Setup!FromFiles(f) = C!FromFiles(f)
  BY DEF Setup!FromFiles, C!FromFiles, Setup!reset_configuration, C!reset_configuration,
         Setup!Greatest, C!Greatest
<1>2. /\ configuration.client_id = Setup!FromFiles("client_id")
      /\ configuration.client_password = Setup!FromFiles("client_password")
  BY <1>1 DEF C!ProvenanceInv, C!ClientFields
<1>3. \A f \in {"gmail_username", "gmail_password"} : configuration[f] = Configured(f)
  BY <1>1 DEF C!ProvenanceInv, C!CredentialFields, C!Credentials, Configured
<1>4. /\ configuration.gmail_username = Configured("gmail_username")
      /\ configuration.gmail_password = Configured("gmail_password")
  BY <1>3
<1> QED BY <1>2, <1>4 DEF Settled, global_config, User, Password

LEMMA AlwaysSettled == Spec => []Settled
<1>1. Init => C!Init
  BY SameSetup DEF Init
<1>2. [Next]_vars => [C!Next]_C!vars
  BY SameSetup DEF Next, initialize_configuration, main, Google, vars, setup_vars, C!vars, C!scan
<1>3. C!Spec => []C!ProvenanceInv
  BY SetupAssumed, C!Provenance
<1> QED BY <1>1, <1>2, <1>3, ProvenanceSettles, PTL DEF Spec, C!Spec
-----------------------------------------------------------------------------
(* What the requests carry. *)

\* Before initialize_configuration has returned nothing has happened.
Waiting ==
  setup # "returned" =>
    /\ program = "main" /\ net = "idle" /\ sent = {}
    /\ ~ google.signed_in /\ google.tokens = {}

\* A request for tokens is made for the client of the configuration.
ClientAsConfigured ==
  \A r \in sent : r.url = A!GOOGLE_OAUTH2_TOKEN =>
    /\ Posted(r, "client_id") \subseteq {Setup!FromFiles("client_id")}
    /\ Posted(r, "client_secret") \subseteq {Setup!FromFiles("client_password")}

\* A login form of Google has named the account in a second field.
AccountNamed == \E r \in sent : IsLogin(r.url) /\ "user" \in Prefilled(r.url, "Email")

\* The client is signed in as the user of the configuration.
UserAsConfigured ==
  google.signed_in => (User = "user" \/ AccountNamed) /\ Password = "password"

IInv ==
  /\ A!AccountInv
  /\ Waiting
  /\ CredentialsAsConfigured
  /\ ClientAsConfigured
  /\ UserAsConfigured
  /\ TokensAsConfigured

LEMMA IInvInit == Init => IInv
<1> SUFFICES ASSUME Init PROVE IInv
  OBVIOUS
<1>1. A!AccountInv
  BY AccountAssumed, SameAccount, A!InvInit DEF Init
<1>2. /\ program = "main" /\ net = "idle" /\ sent = {}
      /\ ~ google.signed_in /\ google.tokens = {}
  BY DEF Init, Account!Init
<1> QED BY <1>1, <1>2 DEF IInv, Waiting, CredentialsAsConfigured, ClientAsConfigured,
                          UserAsConfigured, TokensAsConfigured

\* A value that is carried is posted.
LEMMA CarriedIsPosted ==
  ASSUME NEW r, NEW name, NEW value, A!Carries(r, name, value)
  PROVE  value \in Posted(r, name)
<1>1. PICK i \in DOMAIN r.fields : r.fields[i] = [name |-> name, value |-> value]
  BY DEF A!Carries, A!Field
<1> QED BY <1>1 DEF Posted

\* A form that is found is one of a page of Google.
LEMMA OnAPage ==
  ASSUME NEW page \in A!Pages, NEW i \in 1 .. Len(page)
  PROVE  page \in LoginPages \cup ConsentPages /\ i \in DOMAIN page
<1>1. page \in Seq(A!Forms)
  BY AccountAssumed, A!PagesAreForms
<1>2. DOMAIN page = 1 .. Len(page)
  BY <1>1, LenProperties
<1>3. page # <<>>
  BY <1>2
<1> QED BY <1>2, <1>3 DEF A!Pages

LEMMA SameLogin == \A url : IsLogin(url) <=> A!IsPrefix(A!GOOGLE_GMAIL_LOGIN, url)
  BY DEF IsLogin, Account!IsPrefix, A!IsPrefix, Account!GOOGLE_GMAIL_LOGIN,
         A!GOOGLE_GMAIL_LOGIN, Account!Accounts, A!Accounts

\* What a form of a page brings along is prefilled.
LEMMA BroughtIsPrefilled ==
  ASSUME NEW page \in A!Pages, NEW form, NEW i \in 1 .. Len(page), form = page[i], NEW field,
         NEW url, url = form.action,
         \/ A!Own(form, field)
         \/ A!Brought(form.input_fields, field, IsLogin(url))
  PROVE  field.value \in Prefilled(url, field.name)
<1> PICK name : name = field.name
  OBVIOUS
<1>1. form \in Forms(url)
  <2>1. page \in LoginPages \cup ConsentPages /\ i \in DOMAIN page
    BY OnAPage
  <2> QED BY <2>1 DEF Forms
<1>2. CASE A!Own(form, field)
  BY <1>1, <1>2 DEF A!Own, Prefilled
<1>3. CASE A!Brought(form.input_fields, field, IsLogin(url))
  <2> PICK inputs : inputs = form.input_fields
    OBVIOUS
  <2>1. PICK j \in DOMAIN inputs :
          /\ inputs[j] = field
          /\ IsLogin(url) => \E k \in 1 .. j - 1 : inputs[k].name = name
    BY <1>3 DEF A!Brought
  <2> PICK J : J = {l \in DOMAIN inputs :
                      /\ inputs[l].name = name
                      /\ IsLogin(url) => \E k \in 1 .. l - 1 : inputs[k].name = name}
    OBVIOUS
  <2>2. j \in J
    BY <2>1
  <2>3. field.value \in {inputs[l].value : l \in J}
    BY <2>1, <2>2
  <2> QED BY <1>1, <2>3 DEF Prefilled
<1> QED BY <1>2, <1>3

\* No password of the user is prefilled.
LEMMA NoPasswordPrefilled ==
  ASSUME NEW url, NEW name
  PROVE  "password" \notin Prefilled(url, name)
<1> SUFFICES ASSUME "password" \in Prefilled(url, name) PROVE FALSE
  OBVIOUS
<1>1. ASSUME NEW form \in Forms(url)
      PROVE  /\ form.value # "password"
             /\ \A j \in DOMAIN form.input_fields : form.input_fields[j].value # "password"
  <2> PICK page \in LoginPages \cup ConsentPages : \E i \in DOMAIN page : form = page[i]
    BY DEF Forms
  <2> QED BY AccountAssumed DEF A!NoPasswordAssumption, A!Passwords
<1>2. CASE \E form \in Forms(url) : form.value = "password"
  BY <1>1, <1>2
<1>3. CASE \E form \in Forms(url) : \E j \in DOMAIN form.input_fields :
             form.input_fields[j].value = "password"
  BY <1>1, <1>3
<1> QED BY <1>2, <1>3 DEF Prefilled

\* The fields of a request are as CredentialsAsConfigured says.
AsConfigured(r) ==
  \A n \in Account!login_inputs :
    LET value == IF n = "Email" THEN User ELSE Password
    IN  /\ Posted(r, n) \subseteq ({value} \cup Prefilled(r.url, n)) \ {NULL}
        /\ IsLogin(r.url) /\ r.fields # <<>> /\ value # NULL => value \in Posted(r, n)

\* The same field by field.
LEMMA FieldByField ==
  ASSUME NEW r,
         \A k \in DOMAIN r.fields, n \in A!login_inputs : r.fields[k].name = n =>
           /\ r.fields[k].value # NULL
           /\ \/ r.fields[k].value = (IF n = "Email" THEN User ELSE Password)
              \/ r.fields[k].value \in Prefilled(r.url, n),
         \A n \in A!login_inputs :
           IsLogin(r.url) /\ r.fields # <<>> /\ (IF n = "Email" THEN User ELSE Password) # NULL =>
             \E k \in DOMAIN r.fields :
               /\ r.fields[k].name = n
               /\ r.fields[k].value = (IF n = "Email" THEN User ELSE Password)
  PROVE  AsConfigured(r)
<1> SUFFICES ASSUME NEW n \in A!login_inputs,
                    NEW value, value = (IF n = "Email" THEN User ELSE Password)
             PROVE  /\ Posted(r, n) \subseteq ({value} \cup Prefilled(r.url, n)) \ {NULL}
                    /\ IsLogin(r.url) /\ r.fields # <<>> /\ value # NULL => value \in Posted(r, n)
  BY DEF AsConfigured, Account!login_inputs, A!login_inputs
<1> QED BY DEF Posted

\* Every request of the program.
LEMMA NewRequest ==
  ASSUME IInv, Settled, Account!Client, NEW r \in sent' \ sent
  PROVE  /\ AsConfigured(r)
         /\ r.url = A!GOOGLE_OAUTH2_TOKEN =>
              /\ Posted(r, "client_id") \subseteq {Setup!FromFiles("client_id")}
              /\ Posted(r, "client_secret") \subseteq {Setup!FromFiles("client_password")}
<1>1. A!AccountInv /\ A!Next
  BY SameAccount DEF IInv, A!Next
<1>2. \/ r.fields = <<>> /\ r.url # A!GOOGLE_OAUTH2_TOKEN
      \/ A!LogsIn(r) \/ A!Approves(r) \/ A!Exchanges(r)
  BY <1>1, AccountAssumed, A!WhatIsSent
<1>3. /\ A!LogsIn(r) => IsLogin(r.url) /\ A!Elsewhere(r.url)
      /\ A!Approves(r) => ~ IsLogin(r.url) /\ A!Elsewhere(r.url)
      /\ A!Exchanges(r) => ~ IsLogin(r.url)
  BY AccountAssumed, SameLogin, A!WhereSent
<1>4. A!Elsewhere(r.url) => r.url # A!GOOGLE_OAUTH2_TOKEN
  BY DEF A!Elsewhere
<1> PICK url : url = r.url
  OBVIOUS
<1> PICK posted : posted = r.fields
  OBVIOUS
<1>5. CASE r.fields = <<>> /\ r.url # A!GOOGLE_OAUTH2_TOKEN
  <2>1. AsConfigured(r)
    BY <1>5, FieldByField
  <2> QED BY <1>5, <2>1
<1>6. CASE A!LogsIn(r)
  <2>1. PICK page \in A!Pages :
          /\ A!login_form_of(page) # NULL
          /\ posted = A!post_form(A!Filled(page)) /\ url = A!Filled(page).action
    BY <1>6 DEF A!LogsIn, A!Post
  <2> PICK form : form = A!login_form_of(page)
    OBVIOUS
  <2>2. A!GOOGLE_GMAIL_LOGIN # NULL
    BY AccountAssumed DEF A!NullAssumption
  <2>3. PICK i \in 1 .. Len(page) : form = page[i]
    BY <2>1, <2>2, AccountAssumed, A!FoundForm DEF A!login_form_of
  <2>4. url = form.action /\ IsLogin(url)
    BY <1>3, <1>6, <2>1, AccountAssumed, A!LoginForm
  <2>5. \A n \in A!login_inputs :
          A!Configured(n) = (IF n = "Email" THEN User ELSE Password)
    BY DEF A!Configured, Settled
  <2>6. /\ \A k \in DOMAIN posted : posted[k].name \in A!login_inputs =>
             /\ posted[k].value # NULL
             /\ \/ posted[k].value = A!Configured(posted[k].name)
                \/ A!Own(form, posted[k])
                \/ A!Brought(form.input_fields, posted[k], TRUE)
        /\ \A n \in A!login_inputs : A!Configured(n) # NULL =>
             \E k \in DOMAIN posted : posted[k] = A!Field(n, A!Configured(n))
    BY <2>1, AccountAssumed, A!LoginInputs
  <2>7. ASSUME NEW k \in DOMAIN posted, posted[k].name \in A!login_inputs,
               posted[k].value # A!Configured(posted[k].name)
        PROVE  posted[k].value \in Prefilled(url, posted[k].name)
    <3>1. \/ A!Own(form, posted[k])
          \/ A!Brought(form.input_fields, posted[k], IsLogin(url))
      BY <2>4, <2>6, <2>7
    <3> QED BY <2>3, <2>4, <3>1, BroughtIsPrefilled
  <2>8. \A n \in A!login_inputs : A!Configured(n) # NULL =>
          \E k \in DOMAIN posted : posted[k].name = n /\ posted[k].value = A!Configured(n)
    <3>1. \A n, v : A!Field(n, v).name = n /\ A!Field(n, v).value = v
      BY DEF A!Field
    <3> QED BY <2>6, <3>1
  <2>9. AsConfigured(r)
    <3>1. \A k \in DOMAIN posted, n \in A!login_inputs : posted[k].name = n =>
            /\ posted[k].value # NULL
            /\ \/ posted[k].value = (IF n = "Email" THEN User ELSE Password)
               \/ posted[k].value \in Prefilled(url, n)
      BY <2>5, <2>6, <2>7
    <3>2. \A n \in A!login_inputs :
            IsLogin(url) /\ posted # <<>> /\ (IF n = "Email" THEN User ELSE Password) # NULL =>
              \E k \in DOMAIN posted :
                /\ posted[k].name = n
                /\ posted[k].value = (IF n = "Email" THEN User ELSE Password)
      BY <2>5, <2>8
    <3>3. posted = r.fields /\ url = r.url
      OBVIOUS
    <3> QED BY ONLY <3>1, <3>2, <3>3, FieldByField
  <2> QED BY <1>3, <1>4, <1>6, <2>9
<1>7. CASE A!Approves(r)
  <2>1. PICK page \in A!Pages :
          /\ A!authorization_form(page) # NULL
          /\ posted = A!post_form(A!authorization_form(page))
          /\ url = A!authorization_form(page).action
    BY <1>7 DEF A!Approves, A!Post
  <2> PICK form : form = A!authorization_form(page)
    OBVIOUS
  <2>2. A!GOOGLE_OAUTH2_APPROVAL # NULL
    BY AccountAssumed DEF A!NullAssumption
  <2>3. PICK i \in 1 .. Len(page) : form = page[i]
    BY <2>1, <2>2, AccountAssumed, A!FoundForm DEF A!authorization_form
  <2>4. ~ IsLogin(url)
    BY <1>3, <1>7
  <2>5. \A k \in DOMAIN posted :
          /\ posted[k].value \notin A!Passwords \cup {NULL}
          /\ A!Own(form, posted[k]) \/ A!Brought(form.input_fields, posted[k], FALSE)
    BY <2>1, AccountAssumed, A!ApprovalInputs
  <2>6. ASSUME NEW k \in DOMAIN posted
        PROVE  /\ posted[k].value # NULL
               /\ posted[k].value \in Prefilled(url, posted[k].name)
    <3>1. \/ A!Own(form, posted[k])
          \/ A!Brought(form.input_fields, posted[k], IsLogin(url))
      BY <2>4, <2>5 DEF A!Brought
    <3>2. posted[k].value \in Prefilled(url, posted[k].name)
      BY <2>1, <2>3, <3>1, BroughtIsPrefilled
    <3> QED BY <2>5, <3>2
  <2>7. AsConfigured(r)
    BY <2>4, <2>6, FieldByField
  <2> QED BY <1>3, <1>4, <1>7, <2>7
<1>8. CASE A!Exchanges(r)
  <2>1. PICK code : r = A!token_request(code)
    BY <1>8 DEF A!Exchanges
  <2>2. \A k \in DOMAIN r.fields :
          /\ r.fields[k].name \notin A!login_inputs
          /\ r.fields[k].name = "client_id" => r.fields[k].value = global_config.client_id
          /\ r.fields[k].name = "client_secret"
               => r.fields[k].value = global_config.client_password
    BY <2>1, AccountAssumed, A!TokenInputs
  <2>3. AsConfigured(r)
    BY <1>3, <1>8, <2>2, FieldByField
  <2> QED BY <2>2, <2>3 DEF Posted, Settled
<1> QED BY <1>2, <1>5, <1>6, <1>7, <1>8

LEMMA MainStep ==
  ASSUME IInv, Settled, main
  PROVE  IInv'
<1>1. A!AccountInv'
  <2>1. A!AccountInv /\ [A!Next]_A!vars
    BY SameAccount DEF IInv, main, A!Next
  <2> QED BY <2>1, AccountAssumed, A!InvStep
<1>2. setup = "returned" /\ UNCHANGED setup_vars
  BY DEF main
<1>3. /\ User' = User /\ Password' = Password
      /\ Setup!FromFiles("client_id")' = Setup!FromFiles("client_id")
      /\ Setup!FromFiles("client_password")' = Setup!FromFiles("client_password")
  BY <1>2 DEF setup_vars, User, Password, Configured, Setup!FromFiles
<1>4. google' = google
  BY DEF main, Account!Client, Account!main, Account!login_to_gmail,
         Account!post_login_form, Account!no_login_form, Account!login_answered,
         Account!no_login_response, Account!obtain_device_code,
         Account!post_authorization_form, Account!no_authorization_form,
         Account!code_in_title, Account!no_code_in_title, Account!obtain_access_code,
         Account!tokens_answered, Account!no_tokens, Account!task_answered, Account!Send,
         Account!Stop
<1>5. Waiting'
  BY <1>2 DEF Waiting, setup_vars
<1>6. \A r \in sent' \ sent :
        /\ AsConfigured(r)
        /\ r.url = A!GOOGLE_OAUTH2_TOKEN =>
             /\ Posted(r, "client_id") \subseteq {Setup!FromFiles("client_id")}
             /\ Posted(r, "client_secret") \subseteq {Setup!FromFiles("client_password")}
  BY NewRequest DEF main
<1>7. CredentialsAsConfigured'
  <2>1. \A r \in sent' : AsConfigured(r)
    BY <1>6 DEF IInv, CredentialsAsConfigured, AsConfigured
  <2> QED BY <1>3, <2>1 DEF CredentialsAsConfigured, AsConfigured, Posted
<1>8. ClientAsConfigured'
  BY <1>3, <1>6 DEF IInv, ClientAsConfigured, Posted, A!GOOGLE_OAUTH2_TOKEN, A!Accounts
<1>9. UserAsConfigured' /\ TokensAsConfigured'
  <2>1. sent \subseteq sent'
    BY DEF main, Account!Client, Account!main, Account!login_to_gmail,
         Account!post_login_form, Account!no_login_form, Account!login_answered,
         Account!no_login_response, Account!obtain_device_code,
         Account!post_authorization_form, Account!no_authorization_form,
         Account!code_in_title, Account!no_code_in_title, Account!obtain_access_code,
         Account!tokens_answered, Account!no_tokens, Account!task_answered, Account!Send,
         Account!Stop
  <2>2. AccountNamed => AccountNamed'
    BY <2>1 DEF AccountNamed
  <2> QED BY <1>3, <1>4, <2>2 DEF IInv, UserAsConfigured, TokensAsConfigured, AccountNamed
<1> QED BY <1>1, <1>5, <1>7, <1>8, <1>9 DEF IInv

LEMMA GoogleStep ==
  ASSUME IInv, Google
  PROVE  IInv'
<1>1. A!AccountInv'
  <2>1. A!AccountInv /\ [A!Next]_A!vars
    BY SameAccount DEF IInv, Google, A!Next
  <2> QED BY <2>1, AccountAssumed, A!InvStep
<1>2. /\ UNCHANGED setup_vars
      /\ User' = User /\ Password' = Password
      /\ Setup!FromFiles("client_id")' = Setup!FromFiles("client_id")
      /\ Setup!FromFiles("client_password")' = Setup!FromFiles("client_password")
  BY DEF Google, setup_vars, User, Password, Configured, Setup!FromFiles
<1>3. net = "sent"
  BY DEF Google, Account!Google, Account!ServeLoginPage, Account!CheckPassword,
         Account!ServeConsentPage, Account!Approve, Account!ExchangeCode,
         Account!ServeTask, Account!Answer
<1>4. setup = "returned" /\ setup' = setup
  BY <1>2, <1>3 DEF IInv, Waiting, setup_vars
<1>5. Waiting'
  BY <1>4 DEF Waiting
<1>6. /\ sent' = sent
      /\ google'.signed_in =>
           \/ google.signed_in
           \/ \E r \in sent : /\ A!IsPrefix(A!GOOGLE_GMAIL_LOGIN, r.url)
                             /\ A!Carries(r, "Email", "user")
                             /\ A!Carries(r, "Passwd", "password")
      /\ google'.tokens # {} =>
           \/ google.tokens # {}
           \/ /\ google.signed_in
              /\ \E r \in sent : /\ r.url = A!GOOGLE_OAUTH2_TOKEN
                                /\ A!Carries(r, "client_id", "client")
                                /\ A!Carries(r, "client_secret", "secret")
  <2>1. A!AccountInv /\ A!Google
    BY SameAccount DEF IInv, Google
  <2> QED BY <2>1, AccountAssumed, A!WhatGoogleLearns
<1>7. CredentialsAsConfigured' /\ ClientAsConfigured'
  <2>1. sent' = sent
    BY <1>6
  <2>2. CredentialsAsConfigured'
    BY <1>2, <2>1 DEF IInv, CredentialsAsConfigured, Posted
  <2>3. ClientAsConfigured'
    BY <1>2, <2>1 DEF IInv, ClientAsConfigured, Posted, A!GOOGLE_OAUTH2_TOKEN, A!Accounts
  <2> QED BY <2>2, <2>3
<1>8. ASSUME NEW r \in sent, A!IsPrefix(A!GOOGLE_GMAIL_LOGIN, r.url),
             A!Carries(r, "Email", "user"), A!Carries(r, "Passwd", "password")
      PROVE  (User = "user" \/ AccountNamed) /\ Password = "password"
  <2>1. IsLogin(r.url) /\ "user" \in Posted(r, "Email") /\ "password" \in Posted(r, "Passwd")
    BY <1>8, SameLogin, CarriedIsPosted
  <2>2. AsConfigured(r)
    BY DEF IInv, CredentialsAsConfigured, AsConfigured
  <2>3. /\ "user" \in {User} \cup Prefilled(r.url, "Email")
        /\ "password" \in {Password} \cup Prefilled(r.url, "Passwd")
    BY <2>1, <2>2 DEF AsConfigured, Account!login_inputs
  <2> QED BY <2>1, <2>3, NoPasswordPrefilled DEF AccountNamed
<1>9. UserAsConfigured'
  <2>1. AccountNamed' <=> AccountNamed
    BY <1>6 DEF AccountNamed
  <2> QED BY <1>2, <1>6, <1>8, <2>1 DEF IInv, UserAsConfigured
<1>10. ASSUME NEW r \in sent, r.url = A!GOOGLE_OAUTH2_TOKEN,
              A!Carries(r, "client_id", "client"), A!Carries(r, "client_secret", "secret")
       PROVE  /\ Setup!FromFiles("client_id") = "client"
              /\ Setup!FromFiles("client_password") = "secret"
  BY <1>10, CarriedIsPosted DEF IInv, ClientAsConfigured
<1>11. TokensAsConfigured'
  <2>1. sent' = sent
    BY <1>6
  <2> QED BY <1>2, <1>6, <1>10, <2>1 DEF IInv, TokensAsConfigured, UserAsConfigured, AccountNamed
<1> QED BY <1>1, <1>5, <1>7, <1>9, <1>11 DEF IInv

LEMMA SetupStep ==
  ASSUME IInv, initialize_configuration
  PROVE  IInv'
<1>1. UNCHANGED program_vars /\ setup # "returned"
  BY DEF initialize_configuration, Setup!Next, Setup!decode_commandline,
         Setup!decode_flag, Setup!decode_task, Setup!decode_config, Setup!decode_error,
         Setup!print_and_exit, Setup!skip_argument, Setup!end_of_options,
         Setup!help_and_exit, Setup!first_pass_decoded, Setup!destroy_configuration,
         Setup!second_pass_decoded, Setup!wrong_arguments,
         Setup!apply_configuration_files, Setup!apply_one_configuration_file,
         Setup!malformed_file, Setup!file_without_group, Setup!files_applied,
         Setup!NextIs, Setup!Read, Setup!SecondPass
<1>2. A!AccountInv'
  BY <1>1, AccountAssumed, A!ConfigurationChanges DEF IInv, program_vars
<1>3. /\ program' = "main" /\ net' = "idle" /\ sent' = {}
      /\ ~ google'.signed_in /\ google'.tokens = {}
  BY <1>1 DEF IInv, Waiting, program_vars
<1> QED BY <1>2, <1>3 DEF IInv, Waiting, CredentialsAsConfigured, ClientAsConfigured,
                          UserAsConfigured, TokensAsConfigured

LEMMA Invariance == Spec => []IInv
<1>1. IInv /\ Settled /\ [Next]_vars => IInv'
  <2> SUFFICES ASSUME IInv, Settled, [Next]_vars PROVE IInv'
    OBVIOUS
  <2>1. CASE UNCHANGED vars
    <3>1. UNCHANGED setup_vars /\ UNCHANGED program_vars
      BY <2>1 DEF vars
    <3>2. A!AccountInv'
      BY <3>1, AccountAssumed, A!ConfigurationChanges DEF IInv, program_vars
    <3>3. /\ User' = User /\ Password' = Password
          /\ Setup!FromFiles("client_id")' = Setup!FromFiles("client_id")
          /\ Setup!FromFiles("client_password")' = Setup!FromFiles("client_password")
      BY <3>1 DEF setup_vars, User, Password, Configured, Setup!FromFiles
    <3>4. (Waiting /\ UserAsConfigured /\ TokensAsConfigured)'
      BY <3>1, <3>3 DEF setup_vars, program_vars, IInv, Waiting, UserAsConfigured,
                        TokensAsConfigured, AccountNamed
    <3>5. (CredentialsAsConfigured /\ ClientAsConfigured)'
      BY <3>1, <3>3 DEF program_vars, IInv, CredentialsAsConfigured, ClientAsConfigured,
                        Posted, A!GOOGLE_OAUTH2_TOKEN, A!Accounts
    <3> QED BY <3>2, <3>4, <3>5 DEF IInv
  <2> QED BY <2>1, MainStep, GoogleStep, SetupStep DEF Next
<1> QED BY <1>1, IInvInit, AlwaysSettled, PTL DEF Spec

\* The user name and the password in any request are the user's own, or what
\* Google's page has in a field that is not filled in; a login posts the former.
THEOREM CredentialsSound == Spec => []CredentialsAsConfigured
<1>1. IInv => CredentialsAsConfigured
  BY DEF IInv
<1> QED BY <1>1, Invariance, PTL

\* Tokens are issued only to the configured user, or the one Google's login form
\* names in a second field, and for the configured client.
THEOREM TokensSound == Spec => []TokensAsConfigured
<1>1. IInv => TokensAsConfigured
  BY DEF IInv
<1> QED BY <1>1, Invariance, PTL
=============================================================================
