------------------------- MODULE AuthorizationProofs ------------------------
(***************************************************************************)
(* The login is real, the token is Google's and the program implements     *)
(* Session, for any pages Google may show and any credentials.             *)
(***************************************************************************)
EXTENDS Authorization, SequenceTheorems, TLAPS

-----------------------------------------------------------------------------
(* What is known of the forms of a page (LoginPageProofs). *)

H == INSTANCE LoginPageProofs WITH
       Trees <- {}, UserNames <- {}, html <- <<>>, username <- NULL, forms <- <<>>,
       login_form <- NULL, form_post <- <<>>, stage <- "tidy"

\* Inputs and forms over any names, values and actions.
InputsOf(N, V)   == [name : N, value : V]
FormsOf(U, N, V) ==
  [action : U, name : N, value : V, input_fields : Seq(InputsOf(N, V))]

\* The inputs of old with a new value for the first one of that name, which is
\* added at the end if there is none.
Updated(old, new, name, value) == H!Updated(old, new, name, value)

LEMMA FormsAssumed == H!TreesAssumption /\ H!FieldNullAssumption /\ H!FormNullAssumption
  BY NullAssumption DEF H!TreesAssumption, H!FieldNullAssumption, H!FormNullAssumption,
         H!login_inputs, H!GOOGLE_GMAIL_LOGIN, login_inputs, GOOGLE_GMAIL_LOGIN, Accounts

LEMMA SameForms ==
  /\ \A page, form_action, names :
       find_form(page, form_action, names) = H!find_form(page, form_action, names)
  /\ \A form, form_action, names :
       search_form_by_action_and_inputs(form, form_action, names)
         = H!search_form_by_action_and_inputs(form, form_action, names)
  /\ \A form, inputs : modify_form(form, inputs) = H!modify_form(form, inputs)
  /\ \A form : post_form(form) = H!post_form(form)
  /\ \A N, V : InputsOf(N, V) = H!InputsOf(N, V)
  /\ \A U, N, V : FormsOf(U, N, V) = H!FormsOf(U, N, V)
<1>1. \A page, form_action, names :
        find_form(page, form_action, names) = H!find_form(page, form_action, names)
  BY DEF find_form, FirstIn, search_form_by_action_and_inputs, search_input_by_name,
         SelectInSeq, Min, IsPrefix,
         H!find_form, H!FirstIn, H!search_form_by_action_and_inputs, H!search_input_by_name,
         H!SelectInSeq, H!Min, H!IsPrefix
<1>2. \A form, form_action, names :
        search_form_by_action_and_inputs(form, form_action, names)
          = H!search_form_by_action_and_inputs(form, form_action, names)
  BY DEF search_form_by_action_and_inputs, search_input_by_name, IsPrefix,
         H!search_form_by_action_and_inputs, H!search_input_by_name, H!IsPrefix
<1>3. \A form, inputs : modify_form(form, inputs) = H!modify_form(form, inputs)
  BY DEF modify_form, modify_form_inputs, search_input_by_name, add_input_to_form,
         SelectInSeq, Min,
         H!modify_form, H!modify_form_inputs, H!search_input_by_name, H!add_input_to_form,
         H!SelectInSeq, H!Min
<1>4. \A form : post_form(form) = H!post_form(form)
  BY DEF post_form, own_field, posted_fields, fill_form_with_input, formadd_accepts,
         H!post_form, H!own_field, H!posted_fields, H!fill_form_with_input,
         H!formadd_accepts
<1>5. \A N, V : InputsOf(N, V) = H!InputsOf(N, V)
  BY DEF InputsOf, H!InputsOf
<1>6. \A U, N, V : FormsOf(U, N, V) = H!FormsOf(U, N, V)
  BY DEF InputsOf, H!InputsOf, FormsOf, H!FormsOf
<1> QED BY <1>1, <1>2, <1>3, <1>4, <1>5, <1>6

\* A sequence is one over any set that has its elements.
LEMMA SeqOver ==
  ASSUME NEW S, NEW T, NEW s \in Seq(S), \A i \in 1 .. Len(s) : s[i] \in T
  PROVE  s \in Seq(T)
<1>1. Len(s) \in Nat /\ s \in [1 .. Len(s) -> S]
  BY LenProperties
<1>2. s \in [1 .. Len(s) -> T]
  BY <1>1
<1> QED BY <1>1, <1>2

\* What is found is a form of the page that passes the test.
LEMMA FormFound ==
  ASSUME NEW F, NEW page \in Seq(F), NEW form_action, NEW names,
         NEW form, form = find_form(page, form_action, names), form # NULL
  PROVE  \E i \in 1 .. Len(page) :
           form = page[i] /\ search_form_by_action_and_inputs(form, form_action, names)
<1>1. form = H!find_form(page, form_action, names)
  BY SameForms
<1>2. \E i \in 1 .. Len(page) :
        form = page[i] /\ H!search_form_by_action_and_inputs(form, form_action, names)
  BY <1>1, FormsAssumed, H!FirstForm
<1> QED BY <1>2, SameForms

\* The field of the form element itself.
OwnRecord(form) == Field(form.name, form.value)

\* A field that is posted is the form's own or one of its inputs, and has a
\* value; an input with a name and a value is posted.
PostedFrom(posted, form, fs) ==
  /\ DOMAIN posted = 1 .. Len(posted)
  /\ \A k \in 1 .. Len(posted) :
       /\ posted[k].value # NULL
       /\ \/ posted[k] = OwnRecord(form) /\ form.name # NULL
          \/ \E i \in 1 .. Len(fs) : posted[k] = fs[i]
  /\ \A i \in 1 .. Len(fs) : fs[i].name # NULL /\ fs[i].value # NULL =>
       \E k \in 1 .. Len(posted) : posted[k] = fs[i]

LEMMA PostedFields ==
  ASSUME NEW form, NEW F, form.input_fields \in Seq(F)
  PROVE  PostedFrom(post_form(form), form, form.input_fields)
<1> PICK posted : posted = post_form(form)
  OBVIOUS
<1> PICK fs : fs = form.input_fields
  OBVIOUS
<1>1. posted = H!post_form(form)
  BY SameForms
<1>2. OwnRecord(form) = H!OwnRecord(form)
  BY DEF OwnRecord, Field, H!OwnRecord
<1>3. /\ DOMAIN posted = 1 .. Len(posted)
      /\ \A k \in 1 .. Len(posted) :
           /\ posted[k].value # NULL
           /\ \/ posted[k] = OwnRecord(form) /\ form.name # NULL
              \/ \E i \in 1 .. Len(fs) : posted[k] = fs[i]
      /\ \A i \in 1 .. Len(fs) : fs[i].name # NULL /\ fs[i].value # NULL =>
           \E k \in 1 .. Len(posted) : posted[k] = fs[i]
  BY <1>1, <1>2, FormsAssumed, H!PostedFields
<1> QED BY <1>3 DEF PostedFrom

\* Filling in keeps the attributes of the form and updates its inputs.
LEMMA FillsIn ==
  ASSUME NEW U, NEW N, NEW V, NEW form \in FormsOf(U, N, V),
         NEW a \in InputsOf(N, V), NEW b \in InputsOf(N, V), a.name # NULL, b.name # NULL,
         NEW new, new = modify_form(form, <<a, b>>)
  PROVE  /\ new \in FormsOf(U, N, V) /\ new.action = form.action
         /\ new.name = form.name /\ new.value = form.value
         /\ \E mid \in Seq(InputsOf(N, V)) :
              /\ Updated(form.input_fields, mid, a.name, a.value)
              /\ Updated(mid, new.input_fields, b.name, b.value)
<1>1. /\ form \in H!FormsOf(U, N, V) /\ a \in H!InputsOf(N, V) /\ b \in H!InputsOf(N, V)
      /\ new = H!modify_form(form, <<a, b>>)
  BY SameForms
<1>2. /\ new \in H!FormsOf(U, N, V) /\ new.action = form.action
      /\ new.name = form.name /\ new.value = form.value
      /\ \E mid \in Seq(H!InputsOf(N, V)) :
           /\ H!Updated(form.input_fields, mid, a.name, a.value)
           /\ H!Updated(mid, new.input_fields, b.name, b.value)
  <2>1. /\ new \in H!FormsOf(U, N, V) /\ H!SameElement(form, new)
        /\ \E mid \in Seq(H!InputsOf(N, V)) :
             /\ H!Updated(form.input_fields, mid, a.name, a.value)
             /\ H!Updated(mid, new.input_fields, b.name, b.value)
    BY <1>1, FormsAssumed, H!FillsIn
  <2> QED BY <2>1 DEF H!SameElement
<1> QED BY <1>2, SameForms DEF Updated

\* One input holds the field, the first of its name; the other inputs of the name
\* stand behind that one and stay, as do those of other names.
FirstIs(field, old, new) ==
  /\ \E i \in 1 .. Len(new) : new[i] = field
  /\ Len(old) <= Len(new)
  /\ \A k \in 1 .. Len(old) : /\ new[k].name = old[k].name
                              /\ old[k].name # field.name => new[k] = old[k]
  /\ \A k \in 1 .. Len(new) :
       \/ new[k] = field
       \/ /\ k \in 1 .. Len(old) /\ new[k] = old[k]
          /\ old[k].name = field.name => \E j \in 1 .. k - 1 : old[j].name = field.name

LEMMA UpdatesFirst ==
  ASSUME NEW F, NEW old \in Seq(F), NEW new \in Seq(F), NEW name, NEW value,
         Updated(old, new, name, value)
  PROVE  FirstIs(Field(name, value), old, new)
<1> PICK n \in Nat : n = Len(old)
  BY LenProperties
<1> PICK field : field = Field(name, value)
  OBVIOUS
<1>0. field = [name |-> name, value |-> value] /\ field.name = name
  BY DEF Field
<1>1. ASSUME NEW m \in 1 .. n, old[m].name = name, \A j \in 1 .. m - 1 : old[j].name # name,
             Len(new) = n, new[m] = field,
             \A j \in 1 .. n : j # m => new[j] = old[j]
      PROVE  /\ \E i \in 1 .. Len(new) : new[i] = field
             /\ n <= Len(new)
             /\ \A k \in 1 .. n : /\ new[k].name = old[k].name
                                  /\ old[k].name # name => new[k] = old[k]
             /\ \A k \in 1 .. Len(new) :
                  \/ new[k] = field
                  \/ /\ k \in 1 .. n /\ new[k] = old[k]
                     /\ old[k].name = name => \E j \in 1 .. k - 1 : old[j].name = name
  <2>1. \A k \in 1 .. n : k = m \/ new[k] = old[k]
    BY <1>1
  <2>2. \A k \in 1 .. n : k # m /\ old[k].name = name => m \in 1 .. k - 1
    BY <1>1
  <2>3. new[m].name = old[m].name
    BY <1>0, <1>1
  <2> QED BY ONLY <1>1, <2>1, <2>2, <2>3, n \in Nat
<1>2. ASSUME \A j \in 1 .. n : old[j].name # name, Len(new) = n + 1, new[n + 1] = field,
             \A j \in 1 .. n : new[j] = old[j]
      PROVE  /\ \E i \in 1 .. Len(new) : new[i] = field
             /\ n <= Len(new)
             /\ \A k \in 1 .. n : /\ new[k].name = old[k].name
                                  /\ old[k].name # name => new[k] = old[k]
             /\ \A k \in 1 .. Len(new) :
                  \/ new[k] = field
                  \/ /\ k \in 1 .. n /\ new[k] = old[k]
                     /\ old[k].name = name => \E j \in 1 .. k - 1 : old[j].name = name
  <2>1. \A k \in 1 .. Len(new) : k \in 1 .. n \/ k = n + 1
    BY <1>2
  <2>2. n + 1 \in 1 .. Len(new) /\ n <= Len(new)
    BY <1>2
  <2> QED BY ONLY <1>2, <2>1, <2>2
<1>3. FirstIs(field, old, new)
  BY <1>0, <1>1, <1>2 DEF Updated, H!Updated, FirstIs
<1> QED BY <1>3

-----------------------------------------------------------------------------
(* Pages. *)

\* The forms of Google's pages, and those the program fills in.
Inputs == InputsOf(STRING \cup {NULL}, (STRING \cup {NULL}) \ Passwords)
Forms  == FormsOf(Seq(STRING) \cup {NULL}, STRING \cup {NULL},
                  (STRING \cup {NULL}) \ Passwords)

-----------------------------------------------------------------------------
(* URLs and forms. *)

\* The parts of URLs; the provers do not know that a text is a STRING.
Parts == STRING \cup {Accounts, "ServiceLogin", "o/oauth2", "auth", "approval",
                     "token", "https://www.googleapis.com", "tasks/v1", "task",
                     "client", "unknown"}

\* A URL has the parts of its prefix.
LEMMA PrefixParts ==
  ASSUME NEW S, NEW s \in Seq(S), NEW t \in Seq(S), IsPrefix(s, t),
         NEW i \in 1 .. Len(s)
  PROVE  i \in 1 .. Len(t) /\ t[i] = s[i]
<1>1. Len(s) \in Nat /\ Len(t) \in Nat /\ Len(s) <= Len(t)
  BY LenProperties DEF IsPrefix
<1>2. \A j \in 1 .. Len(s) : s[j] \in S /\ t[j] \in S
  BY <1>1, ElementOfSeq
<1>3. SubSeq(s, 1, Len(s))[i] = s[i]
  BY <1>1, <1>2, SubSeqProperties
<1>4. SubSeq(t, 1, Len(s))[i] = t[i]
  BY <1>1, <1>2, SubSeqProperties
<1> QED BY <1>1, <1>3, <1>4 DEF IsPrefix

\* What a reply may show: a page of Google, or no form at all.
Pages == LoginPages \cup ConsentPages \cup {<<>>}

LEMMA PagesAreForms == Pages \subseteq Seq(Forms)
<1> SUFFICES ASSUME NEW page \in LoginPages \cup ConsentPages
             PROVE  page \in Seq(Forms)
  BY EmptySeq DEF Pages
<1> DEFINE AnyForms == FormsOf(Seq(STRING) \cup {NULL}, STRING \cup {NULL}, STRING \cup {NULL})
<1>1. page \in Seq(AnyForms)
  BY PagesAssumption DEF FormsOf, InputsOf
<1>2. ASSUME NEW i \in 1 .. Len(page)
      PROVE  page[i] \in Forms
  <2> PICK form \in AnyForms : form = page[i]
    <3> HIDE DEF AnyForms
    <3> QED BY <1>1, ElementOfSeq
  <2> PICK fs \in Seq(InputsOf(STRING \cup {NULL}, STRING \cup {NULL})) :
         fs = form.input_fields
    BY DEF FormsOf
  <2>1. DOMAIN fs = 1 .. Len(fs) /\ DOMAIN page = 1 .. Len(page)
    BY <1>1, LenProperties
  <2>2. \A j \in 1 .. Len(fs) : fs[j] \in Inputs
    <3>1. \A j \in 1 .. Len(fs) : fs[j] \in InputsOf(STRING \cup {NULL}, STRING \cup {NULL})
      BY ElementOfSeq
    <3>2. \A j \in 1 .. Len(fs) : fs[j].value \notin Passwords
      BY <2>1, NoPasswordAssumption
    <3> QED BY <3>1, <3>2 DEF InputsOf, Inputs
  <2>3. fs \in Seq(Inputs)
    BY <2>2, SeqOver
  <2>4. form.value \notin Passwords
    BY <2>1, NoPasswordAssumption
  <2> QED BY <2>3, <2>4 DEF Forms, FormsOf, Inputs
<1> QED BY <1>1, <1>2, SeqOver

\* A form that is found is one of the page and has the action.
LEMMA FoundForm ==
  ASSUME NEW page \in Pages, NEW form_action, NEW names,
         find_form(page, form_action, names) # NULL, form_action # NULL
  PROVE  /\ \E i \in 1 .. Len(page) : find_form(page, form_action, names) = page[i]
         /\ find_form(page, form_action, names) \in Forms
         /\ find_form(page, form_action, names).action # NULL
         /\ find_form(page, form_action, names).action \in Seq(Parts)
         /\ IsPrefix(form_action, find_form(page, form_action, names).action)
<1> PICK form : form = find_form(page, form_action, names)
  OBVIOUS
<1>0. page \in Seq(Forms)
  BY PagesAreForms
<1>1. PICK i \in 1 .. Len(page) :
         form = page[i] /\ search_form_by_action_and_inputs(form, form_action, names)
  BY <1>0, FormFound
<1>2. form \in Forms
  BY <1>0, <1>1, ElementOfSeq
<1>3. form.action \in Seq(STRING) \cup {NULL}
  BY <1>2 DEF Forms, FormsOf
<1>4. form.action # NULL /\ IsPrefix(form_action, form.action)
  BY <1>1 DEF search_form_by_action_and_inputs
<1>5. form.action \in Seq(Parts)
  BY <1>3, <1>4, SeqMonotonic DEF Parts
<1> QED BY <1>1, <1>2, <1>4, <1>5

\* The URLs the program knows, part by part.
LEMMA Urls ==
  /\ GOOGLE_GMAIL_LOGIN \in Seq(Parts) /\ Len(GOOGLE_GMAIL_LOGIN) = 2
  /\ GOOGLE_GMAIL_LOGIN[1] = Accounts /\ GOOGLE_GMAIL_LOGIN[2] = "ServiceLogin"
  /\ GOOGLE_OAUTH2_APPROVAL \in Seq(Parts) /\ Len(GOOGLE_OAUTH2_APPROVAL) = 3
  /\ GOOGLE_OAUTH2_APPROVAL[1] = Accounts /\ GOOGLE_OAUTH2_APPROVAL[2] = "o/oauth2"
  /\ GOOGLE_OAUTH2_APPROVAL[3] = "approval"
  /\ GOOGLE_OAUTH2_TOKEN \in Seq(Parts) /\ Len(GOOGLE_OAUTH2_TOKEN) = 3
  /\ GOOGLE_OAUTH2_TOKEN[1] = Accounts /\ GOOGLE_OAUTH2_TOKEN[2] = "o/oauth2"
  /\ GOOGLE_OAUTH2_TOKEN[3] = "token"
  /\ GOOGLE_TASKS_API \in Seq(Parts) /\ Len(GOOGLE_TASKS_API) = 2
  /\ GOOGLE_TASKS_API[1] = "https://www.googleapis.com"
  /\ GOOGLE_OAUTH2_DEVICECODE \in Seq(Parts) /\ Len(GOOGLE_OAUTH2_DEVICECODE) = 3
  /\ GOOGLE_OAUTH2_DEVICECODE[1] = Accounts /\ GOOGLE_OAUTH2_DEVICECODE[3] = "auth"
  /\ Accounts # "https://www.googleapis.com"
<1>1. Accounts \in Parts /\ Accounts # "https://www.googleapis.com"
  BY DEF Accounts, Parts
<1>2. /\ GOOGLE_GMAIL_LOGIN \in Seq(Parts) /\ Len(GOOGLE_GMAIL_LOGIN) = 2
      /\ GOOGLE_GMAIL_LOGIN[1] = Accounts /\ GOOGLE_GMAIL_LOGIN[2] = "ServiceLogin"
  BY <1>1 DEF Parts, GOOGLE_GMAIL_LOGIN
<1>3. /\ GOOGLE_OAUTH2_APPROVAL \in Seq(Parts) /\ Len(GOOGLE_OAUTH2_APPROVAL) = 3
      /\ GOOGLE_OAUTH2_APPROVAL[1] = Accounts /\ GOOGLE_OAUTH2_APPROVAL[2] = "o/oauth2"
      /\ GOOGLE_OAUTH2_APPROVAL[3] = "approval"
  BY <1>1 DEF Parts, GOOGLE_OAUTH2_APPROVAL
<1>4. /\ GOOGLE_OAUTH2_TOKEN \in Seq(Parts) /\ Len(GOOGLE_OAUTH2_TOKEN) = 3
      /\ GOOGLE_OAUTH2_TOKEN[1] = Accounts /\ GOOGLE_OAUTH2_TOKEN[2] = "o/oauth2"
      /\ GOOGLE_OAUTH2_TOKEN[3] = "token"
  BY <1>1 DEF Parts, GOOGLE_OAUTH2_TOKEN
<1>5. /\ GOOGLE_TASKS_API \in Seq(Parts) /\ Len(GOOGLE_TASKS_API) = 2
      /\ GOOGLE_TASKS_API[1] = "https://www.googleapis.com"
  BY DEF Parts, GOOGLE_TASKS_API
<1>6. /\ GOOGLE_OAUTH2_DEVICECODE \in Seq(Parts) /\ Len(GOOGLE_OAUTH2_DEVICECODE) = 3
      /\ GOOGLE_OAUTH2_DEVICECODE[1] = Accounts /\ GOOGLE_OAUTH2_DEVICECODE[3] = "auth"
  BY <1>1 DEF Parts, GOOGLE_OAUTH2_DEVICECODE
<1> QED BY <1>1, <1>2, <1>3, <1>4, <1>5, <1>6

\* A URL at the accounts server is not one of the Tasks API.
LEMMA NotTasksApi ==
  ASSUME NEW S, Parts \subseteq S, NEW url \in Seq(S), url[1] = Accounts
  PROVE  ~ IsPrefix(GOOGLE_TASKS_API, url)
<1>1. 1 \in 1 .. Len(GOOGLE_TASKS_API) /\ GOOGLE_TASKS_API \in Seq(S)
  BY Urls, SeqMonotonic
<1>2. IsPrefix(GOOGLE_TASKS_API, url) => url[1] = GOOGLE_TASKS_API[1]
  BY <1>1, PrefixParts
<1> QED BY <1>2, Urls

\* What the URL of a request is not: the task's or the tokens'.
Elsewhere(url) == ~ IsPrefix(GOOGLE_TASKS_API, url) /\ url # GOOGLE_OAUTH2_TOKEN

LEMMA LoginElsewhere ==
  ASSUME NEW url \in Seq(Parts), IsPrefix(GOOGLE_GMAIL_LOGIN, url)
  PROVE  Elsewhere(url)
<1>1. 1 \in 1 .. Len(GOOGLE_GMAIL_LOGIN) /\ 2 \in 1 .. Len(GOOGLE_GMAIL_LOGIN)
      /\ GOOGLE_GMAIL_LOGIN \in Seq(Parts)
  BY Urls
<1>2. url[1] = GOOGLE_GMAIL_LOGIN[1] /\ url[2] = GOOGLE_GMAIL_LOGIN[2]
  BY <1>1, PrefixParts
<1>3. url[1] = Accounts /\ url[2] = "ServiceLogin"
  BY <1>2, Urls
<1>4. ~ IsPrefix(GOOGLE_TASKS_API, url)
  BY <1>3, NotTasksApi
<1>5. url # GOOGLE_OAUTH2_TOKEN
  BY <1>3, Urls
<1> QED BY <1>4, <1>5 DEF Elsewhere

LEMMA ApprovalElsewhere ==
  ASSUME NEW url \in Seq(Parts), IsPrefix(GOOGLE_OAUTH2_APPROVAL, url)
  PROVE  Elsewhere(url)
<1>1. 1 \in 1 .. Len(GOOGLE_OAUTH2_APPROVAL) /\ 3 \in 1 .. Len(GOOGLE_OAUTH2_APPROVAL)
      /\ GOOGLE_OAUTH2_APPROVAL \in Seq(Parts)
  BY Urls
<1>2. url[1] = GOOGLE_OAUTH2_APPROVAL[1] /\ url[3] = GOOGLE_OAUTH2_APPROVAL[3]
  BY <1>1, PrefixParts
<1>3. url[1] = Accounts /\ url[3] = "approval"
  BY <1>2, Urls
<1>4. ~ IsPrefix(GOOGLE_TASKS_API, url)
  BY <1>3, NotTasksApi
<1>5. url # GOOGLE_OAUTH2_TOKEN
  BY <1>3, Urls
<1> QED BY <1>4, <1>5 DEF Elsewhere

\* Neither of these is a login URL.
LEMMA NotLogin ==
  /\ ~ IsPrefix(GOOGLE_GMAIL_LOGIN, GOOGLE_OAUTH2_TOKEN)
  /\ \A url \in Seq(Parts) : IsPrefix(GOOGLE_OAUTH2_APPROVAL, url)
                              => ~ IsPrefix(GOOGLE_GMAIL_LOGIN, url)
<1>1. ASSUME NEW url \in Seq(Parts), IsPrefix(GOOGLE_GMAIL_LOGIN, url)
      PROVE  url[2] = "ServiceLogin"
  <2>1. 2 \in 1 .. Len(GOOGLE_GMAIL_LOGIN) /\ GOOGLE_GMAIL_LOGIN \in Seq(Parts)
        /\ GOOGLE_GMAIL_LOGIN[2] = "ServiceLogin"
    BY Urls
  <2>2. url[2] = GOOGLE_GMAIL_LOGIN[2]
    BY <1>1, <2>1, PrefixParts
  <2> QED BY <2>1, <2>2
<1>2. ASSUME NEW url \in Seq(Parts), IsPrefix(GOOGLE_OAUTH2_APPROVAL, url)
      PROVE  url[2] = "o/oauth2"
  <2>1. 2 \in 1 .. Len(GOOGLE_OAUTH2_APPROVAL) /\ GOOGLE_OAUTH2_APPROVAL \in Seq(Parts)
        /\ GOOGLE_OAUTH2_APPROVAL[2] = "o/oauth2"
    BY Urls
  <2>2. url[2] = GOOGLE_OAUTH2_APPROVAL[2]
    BY <1>2, <2>1, PrefixParts
  <2> QED BY <2>1, <2>2
<1> QED BY <1>1, <1>2, Urls

LEMMA FirstPart ==
  ASSUME NEW S, NEW s \in Seq(S), NEW p \in S, 1 \in 1 .. Len(s)
  PROVE  Append(s, p)[1] = s[1]
  BY AppendProperties

LEMMA LongerUrl ==
  ASSUME NEW S, NEW s \in Seq(S), NEW p \in S, Len(s) = 3
  PROVE  Append(s, p) \in Seq(S) /\ Len(Append(s, p)) = 4 /\ Append(s, p)[1] = s[1]
<1> DEFINE t == Append(s, p)
<1>1. t \in Seq(S) /\ Len(t) = Len(s) + 1
  <2>1. Append(s, p) \in Seq(S) /\ Len(Append(s, p)) = Len(s) + 1
    BY ONLY s \in Seq(S), p \in S, AppendProperties
  <2> QED BY <2>1, Zenon
<1>2. 1 \in 1 .. Len(s)
  OBVIOUS
<1>3. t[1] = s[1]
  BY <1>2, FirstPart
<1> HIDE DEF t
<1>4. t \in Seq(S) /\ Len(t) = 4 /\ t[1] = s[1]
  BY <1>1, <1>3
<1> USE DEF t
<1> QED BY <1>4, Zenon

\* The consent page, whatever the client ID.
LEMMA RequestElsewhere == Elsewhere(request_url)
<1>1. GOOGLE_OAUTH2_DEVICECODE \in Seq(Parts) /\ Len(GOOGLE_OAUTH2_DEVICECODE) = 3
      /\ GOOGLE_OAUTH2_DEVICECODE[1] = Accounts
  BY Urls
<1>2. Elsewhere(GOOGLE_OAUTH2_DEVICECODE)
  BY Urls, NotTasksApi DEF Elsewhere
<1> PICK client : client = config.client_id
  OBVIOUS
<1> PICK S : S = Parts \cup {client}
  OBVIOUS
<1> PICK url : url = Append(GOOGLE_OAUTH2_DEVICECODE, client)
  OBVIOUS
<1>3. GOOGLE_OAUTH2_DEVICECODE \in Seq(S) /\ client \in S /\ Parts \subseteq S
  BY <1>1, SeqMonotonic
<1>4. url \in Seq(S) /\ Len(url) = 4 /\ url[1] = Accounts
  BY <1>1, <1>3, LongerUrl
<1>5. url # GOOGLE_OAUTH2_TOKEN
  BY <1>4, Urls
<1>6. ~ IsPrefix(GOOGLE_TASKS_API, url)
  BY <1>3, <1>4, NotTasksApi
<1>7. Elsewhere(url)
  BY <1>5, <1>6 DEF Elsewhere
<1> QED BY <1>2, <1>7 DEF request_url

LEMMA TaskElsewhere == task_uri # GOOGLE_OAUTH2_TOKEN
<1>1. Append(GOOGLE_TASKS_API, "task")[1] = "https://www.googleapis.com"
  BY Urls, FirstPart DEF Parts
<1> QED BY <1>1, Urls DEF task_uri

LEMMA GmailElsewhere == Elsewhere(GOOGLE_GMAIL_LOGIN) /\ IsPrefix(GOOGLE_GMAIL_LOGIN, GOOGLE_GMAIL_LOGIN)
<1>1. IsPrefix(GOOGLE_GMAIL_LOGIN, GOOGLE_GMAIL_LOGIN)
  BY Urls DEF IsPrefix
<1> QED BY <1>1, Urls, LoginElsewhere

-----------------------------------------------------------------------------
(* The invariant. *)

Anonymous == {"main", "login_page", "login_response"}
LoggedIn  == {"consent_page", "approval", "tokens"}

\* How far the program is tells what it has.
StageInv ==
  /\ pc \in Anonymous => ~ gmail_login
  /\ pc \in LoggedIn \cup {"task"} => gmail_login
  /\ pc \in Anonymous \cup LoggedIn => access_code = NULL
  /\ pc \in Ended => net = "idle"
  /\ net = "sent" => request \in sent
  /\ net = "sent" /\ request.url = GOOGLE_OAUTH2_TOKEN => pc = "tokens"

\* What a reply shows is what Google knows.
Truthful(reply, known) ==
  /\ reply.forms \in Pages
  /\ reply.markers = Markers => known.signed_in
  /\ reply.title \in Codes \cup {NULL}
  /\ Member(reply.json, "access_token") \in known.tokens \cup {NULL}
  /\ Member(reply.json, "refresh_token") \in {"refresh", NULL}

BodyInv == body # NULL => Truthful(body, google)

\* What holds whatever the configuration is.
AccountInv ==
  /\ TypeOK
  /\ LoginIsReal
  /\ TokenIsIssued
  /\ StageInv
  /\ BodyInv

LEMMA InvInit == Init => AccountInv
<1> SUFFICES ASSUME Init PROVE AccountInv
  OBVIOUS
<1>1. TypeOK
  <2>1. google \in [signed_in : BOOLEAN, code : {"code", NULL}, tokens : SUBSET {"token"}]
    BY DEF Init
  <2>2. /\ pc = "main" /\ net = "idle" /\ gmail_login = FALSE
        /\ device_code = NULL /\ access_code = NULL
    BY DEF Init
  <2> QED BY <2>1, <2>2 DEF TypeOK
<1>2. LoginIsReal /\ TokenIsIssued /\ BodyInv
  BY DEF Init, LoginIsReal, TokenIsIssued, BodyInv
<1>3. StageInv
  <2>1. /\ pc = "main" /\ net = "idle" /\ gmail_login = FALSE /\ access_code = NULL
    BY DEF Init
  <2> QED BY <2>1 DEF StageInv, Anonymous, LoggedIn, Ended
<1> QED BY <1>1, <1>2, <1>3 DEF AccountInv

-----------------------------------------------------------------------------
(* The two ways a step of the program ends. *)

LEMMA StopKeeps ==
  ASSUME AccountInv, NEW how \in Ended, Stop(how),
         gmail_login' \in {FALSE, gmail_login}, UNCHANGED device_code,
         access_code' \in {NULL, access_code}
  PROVE  AccountInv'
<1>1. TypeOK'
  BY DEF AccountInv, TypeOK, Stop
<1>2. (LoginIsReal /\ BodyInv)'
  <2>1. body' = body /\ google' = google
    BY DEF Stop
  <2>2. LoginIsReal'
    BY <2>1 DEF AccountInv, LoginIsReal
  <2>3. BodyInv'
    BY <2>1 DEF AccountInv, BodyInv, Truthful, Member
  <2> QED BY <2>2, <2>3
<1>5. TokenIsIssued'
  <2>1. sent' = sent /\ google' = google
    BY DEF Stop
  <2> QED BY <2>1 DEF AccountInv, TokenIsIssued
<1>3. StageInv'
  BY DEF AccountInv, Stop, StageInv, Anonymous, LoggedIn, Ended
<1> QED BY <1>1, <1>2, <1>3, <1>5 DEF AccountInv

LEMMA SendKeeps ==
  ASSUME AccountInv, NEW r, NEW next \in Anonymous \cup LoggedIn \cup {"task"}, Send(r, next),
         r.url = GOOGLE_OAUTH2_TOKEN => next = "tokens",
         IsPrefix(GOOGLE_TASKS_API, r.url) => r.authorization \in google.tokens,
         gmail_login' \in BOOLEAN, gmail_login' => google.signed_in,
         gmail_login' <=> next \notin Anonymous,
         device_code' \in Codes \cup {NULL},
         access_code' \in AccessCodes \cup {NULL},
         next # "task" => access_code' = NULL
  PROVE  AccountInv'
<1>1. TypeOK'
  BY DEF AccountInv, TypeOK, Send, Anonymous, LoggedIn
<1>2. (LoginIsReal /\ BodyInv)'
  BY DEF AccountInv, Send, LoginIsReal, BodyInv, Truthful, Member
<1>3. TokenIsIssued'
  <2>1. \A q \in sent' : q \in sent \/ q = r
    BY DEF Send
  <2>2. google' = google
    BY DEF Send
  <2> QED BY <2>1, <2>2 DEF AccountInv, TokenIsIssued
<1>4. StageInv'
  BY DEF AccountInv, Send, StageInv, Anonymous, LoggedIn, Ended
<1> QED BY <1>1, <1>2, <1>3, <1>4 DEF AccountInv

-----------------------------------------------------------------------------
(* The steps of the program. *)

LEMMA MainKeeps ==
  ASSUME AccountInv, main
  PROVE  AccountInv'
<1> DEFINE r == Get(GOOGLE_GMAIL_LOGIN, NULL)
<1>1. r.url = GOOGLE_GMAIL_LOGIN
  BY DEF Get
<1>2. Elsewhere(r.url)
  BY <1>1, GmailElsewhere
<1>3. /\ Send(r, "login_page") /\ pc = "main"
      /\ gmail_login' = gmail_login /\ device_code' = device_code /\ access_code' = access_code
  BY DEF main
<1>4. ~ gmail_login /\ access_code = NULL
  BY <1>3 DEF AccountInv, StageInv, Anonymous
<1>5. gmail_login \in BOOLEAN /\ device_code \in Codes \cup {NULL}
  BY DEF AccountInv, TypeOK
<1> HIDE DEF r
<1> QED BY <1>2, <1>3, <1>4, <1>5, SendKeeps DEF Elsewhere, Anonymous

\* The login form of a page, filled in with the configuration.
Filled(page) ==
  modify_form(login_form_of(page),
              <<Field("Email", config.username), Field("Passwd", config.password)>>)

\* It has the action of the form on the page, and its inputs are updated.
LEMMA LoginForm ==
  ASSUME NEW page \in Pages, login_form_of(page) # NULL, NEW N, NEW V,
         N = STRING \cup {NULL, "Email", "Passwd"},
         V = STRING \cup {NULL, config.username, config.password}
  PROVE  /\ Filled(page).action \in Seq(Parts)
         /\ IsPrefix(GOOGLE_GMAIL_LOGIN, Filled(page).action)
         /\ Filled(page).action = login_form_of(page).action
         /\ Filled(page).name = login_form_of(page).name
         /\ Filled(page).value = login_form_of(page).value
         /\ login_form_of(page).input_fields \in Seq(InputsOf(N, V))
         /\ Filled(page).input_fields \in Seq(InputsOf(N, V))
         /\ \E mid \in Seq(InputsOf(N, V)) :
              /\ Updated(login_form_of(page).input_fields, mid, "Email", config.username)
              /\ Updated(mid, Filled(page).input_fields, "Passwd", config.password)
<1> PICK form : form = login_form_of(page)
  OBVIOUS
<1>1. /\ form \in Forms /\ form.action \in Seq(Parts)
      /\ IsPrefix(GOOGLE_GMAIL_LOGIN, form.action)
  BY FoundForm, NullAssumption DEF login_form_of
<1> DEFINE U == Seq(STRING) \cup {NULL}
           email == Field("Email", config.username)
           passwd == Field("Passwd", config.password)
<1>2. /\ email \in InputsOf(N, V) /\ passwd \in InputsOf(N, V)
      /\ email.name = "Email" /\ passwd.name = "Passwd"
      /\ email.value = config.username /\ passwd.value = config.password
      /\ email.name # NULL /\ passwd.name # NULL
  BY NullAssumption DEF InputsOf, Field, login_inputs
<1>3. form.input_fields \in Seq(InputsOf(N, V)) /\ form \in FormsOf(U, N, V)
  <2>1. /\ form.input_fields \in Seq(Inputs) /\ form.action \in U
        /\ form.name \in N /\ form.value \in V
        /\ form = [action |-> form.action, name |-> form.name, value |-> form.value,
                   input_fields |-> form.input_fields]
    BY <1>1 DEF Forms, FormsOf, Inputs
  <2>2. Inputs \subseteq InputsOf(N, V)
    BY DEF Inputs, InputsOf
  <2>3. form.input_fields \in Seq(InputsOf(N, V))
    BY <2>1, <2>2, SeqMonotonic
  <2> QED BY <2>1, <2>3 DEF FormsOf
<1> PICK new : new = Filled(page)
  OBVIOUS
<1>4. new = modify_form(form, <<email, passwd>>)
  BY DEF Filled
<1> HIDE DEF U, email, passwd
<1>5. /\ new \in FormsOf(U, N, V) /\ new.action = form.action
      /\ new.name = form.name /\ new.value = form.value
      /\ \E mid \in Seq(InputsOf(N, V)) :
           /\ Updated(form.input_fields, mid, email.name, email.value)
           /\ Updated(mid, new.input_fields, passwd.name, passwd.value)
  BY ONLY <1>2, <1>3, <1>4, FillsIn
<1>6. new.input_fields \in Seq(InputsOf(N, V))
  BY <1>5 DEF FormsOf
<1> QED BY <1>1, <1>2, <1>3, <1>5, <1>6

LEMMA LoginAction ==
  ASSUME AccountInv, post_login_form
  PROVE  /\ body.forms \in Pages /\ login_form_of(body.forms) # NULL
         /\ filled_form = Filled(body.forms)
         /\ filled_form.action \in Seq(Parts)
         /\ IsPrefix(GOOGLE_GMAIL_LOGIN, filled_form.action)
<1>1. body.forms \in Pages
  BY DEF AccountInv, BodyInv, Truthful, post_login_form
<1>2. login_form_of(body.forms) # NULL
  BY DEF post_login_form
<1>3. filled_form = Filled(body.forms)
  BY DEF filled_form, Filled
<1> QED BY <1>1, <1>2, <1>3, LoginForm

LEMMA PostLoginKeeps ==
  ASSUME AccountInv, post_login_form
  PROVE  AccountInv'
<1> DEFINE r == Post(filled_form)
<1>1. r.url = filled_form.action
  BY DEF Post
<1>2. IsPrefix(GOOGLE_GMAIL_LOGIN, r.url) /\ Elsewhere(r.url)
  BY <1>1, LoginAction, LoginElsewhere
<1>5. /\ Send(r, "login_response") /\ pc = "login_page"
      /\ gmail_login' = gmail_login /\ device_code' = device_code /\ access_code' = access_code
  BY DEF post_login_form, Received
<1>6. ~ gmail_login /\ access_code = NULL
  BY <1>5 DEF AccountInv, StageInv, Anonymous
<1>7. gmail_login \in BOOLEAN /\ device_code \in Codes \cup {NULL}
  BY DEF AccountInv, TypeOK
<1> HIDE DEF r
<1> QED BY <1>2, <1>5, <1>6, <1>7, SendKeeps DEF Elsewhere, Anonymous

LEMMA LoginAnsweredKeeps ==
  ASSUME AccountInv, login_answered
  PROVE  AccountInv'
<1>1. /\ pc = "login_response" /\ body # NULL /\ gmail_login' = logged_in(body)
      /\ device_code' = device_code /\ access_code' = access_code
  BY DEF login_answered, Received
<1>2. gmail_login' \in BOOLEAN /\ (gmail_login' => google.signed_in)
  BY <1>1 DEF AccountInv, BodyInv, Truthful, logged_in
<1>3. gmail_login = FALSE /\ access_code = NULL /\ device_code \in Codes \cup {NULL}
  BY <1>1 DEF AccountInv, TypeOK, StageInv, Anonymous
<1>4. CASE gmail_login' = TRUE
  <2> DEFINE r == Get(request_url, NULL)
  <2>1. Send(r, "consent_page")
    BY <1>4 DEF login_answered
  <2>2. Elsewhere(r.url)
    BY RequestElsewhere DEF Get
  <2> HIDE DEF r
  <2> QED BY <1>1, <1>2, <1>3, <1>4, <2>1, <2>2, SendKeeps DEF Elsewhere, Anonymous, LoggedIn
<1>5. CASE gmail_login' = FALSE
  <2>1. Stop("exit_0")
    BY <1>5 DEF login_answered
  <2> QED BY <1>1, <1>5, <2>1, StopKeeps DEF Ended
<1> QED BY <1>2, <1>4, <1>5

LEMMA PostAuthorizationKeeps ==
  ASSUME AccountInv, post_authorization_form
  PROVE  AccountInv'
<1> DEFINE form == authorization_form(body.forms)
           r == Post(form)
<1>1. body.forms \in Pages
  BY DEF AccountInv, BodyInv, Truthful, post_authorization_form
<1>2. form # NULL
  BY DEF post_authorization_form
<1>3. /\ form \in Forms /\ form.action \in Seq(Parts)
      /\ IsPrefix(GOOGLE_OAUTH2_APPROVAL, form.action)
  BY <1>1, <1>2, FoundForm, NullAssumption DEF authorization_form
<1>4. Elsewhere(r.url)
  <2>1. r.url = form.action
    BY DEF Post
  <2> QED BY <1>3, <2>1, ApprovalElsewhere
<1>5. /\ Send(r, "approval") /\ pc = "consent_page"
      /\ gmail_login' = gmail_login /\ device_code' = device_code /\ access_code' = access_code
  BY DEF post_authorization_form, Received
<1>6. gmail_login = TRUE /\ access_code = NULL
  BY <1>5 DEF AccountInv, TypeOK, StageInv, LoggedIn
<1>7. device_code \in Codes \cup {NULL} /\ google.signed_in
  BY <1>6 DEF AccountInv, TypeOK, LoginIsReal
<1> HIDE DEF r
<1> QED BY <1>4, <1>5, <1>6, <1>7, SendKeeps DEF Elsewhere, Anonymous, LoggedIn

LEMMA CodeInTitleKeeps ==
  ASSUME AccountInv, code_in_title
  PROVE  AccountInv'
<1> DEFINE r == token_request(body.title)
<1>1. ~ IsPrefix(GOOGLE_TASKS_API, r.url)
  <2>1. r.url = GOOGLE_OAUTH2_TOKEN
    BY DEF token_request, request_form, Post
  <2>2. GOOGLE_OAUTH2_TOKEN \in Seq(Parts) /\ GOOGLE_OAUTH2_TOKEN[1] = Accounts
    BY Urls
  <2> QED BY <2>1, <2>2, NotTasksApi
<1>2. /\ Send(r, "tokens") /\ pc = "approval" /\ device_code' = body.title
      /\ gmail_login' = gmail_login /\ access_code' = access_code
  BY DEF code_in_title, Received
<1>3. body.title \in Codes \cup {NULL}
  BY DEF AccountInv, BodyInv, Truthful, code_in_title
<1>4. gmail_login = TRUE /\ access_code = NULL
  BY <1>2 DEF AccountInv, TypeOK, StageInv, LoggedIn
<1>5. google.signed_in
  BY <1>4 DEF AccountInv, LoginIsReal
<1> HIDE DEF r
<1> QED BY <1>1, <1>2, <1>3, <1>4, <1>5, SendKeeps DEF Anonymous, LoggedIn

\* A complete access code holds tokens of Google.
LEMMA CompleteCode ==
  ASSUME AccountInv, body # NULL, ~ incomplete(parse_tokens_json(body.json))
  PROVE  /\ parse_tokens_json(body.json) \in AccessCodes
         /\ parse_tokens_json(body.json).access_token \in google.tokens
<1> DEFINE code == parse_tokens_json(body.json)
<1>1. code = [access_token  |-> Member(body.json, "access_token"),
              refresh_token |-> Member(body.json, "refresh_token"),
              expiration_timestamp |->
                IF DOMAIN body.json \ {"expires_in"} # {} THEN Now ELSE 0]
  BY DEF parse_tokens_json
<1>2. /\ code.access_token # NULL /\ code.refresh_token # NULL
      /\ code.expiration_timestamp # 0
  BY DEF incomplete
<1>3. code.access_token \in google.tokens /\ code.refresh_token = "refresh"
      /\ code.expiration_timestamp = Now
  BY <1>1, <1>2 DEF AccountInv, BodyInv, Truthful
<1>4. google.tokens \subseteq {"token"}
  BY DEF AccountInv, TypeOK
<1> QED BY <1>1, <1>3, <1>4, NowAssumption DEF AccessCodes

LEMMA TokensAnsweredKeeps ==
  ASSUME AccountInv, tokens_answered
  PROVE  AccountInv'
<1> DEFINE code == parse_tokens_json(body.json)
<1>1. /\ pc = "tokens" /\ body # NULL
      /\ gmail_login' = gmail_login /\ device_code' = device_code
  BY DEF tokens_answered, Received
<1>2. gmail_login = TRUE /\ device_code \in Codes \cup {NULL} /\ google.signed_in
  BY <1>1 DEF AccountInv, TypeOK, StageInv, LoggedIn, LoginIsReal
<1>3. CASE incomplete(code)
  <2>1. access_code' = NULL /\ Stop("exit_0")
    BY <1>3 DEF tokens_answered
  <2> QED BY <1>1, <2>1, StopKeeps DEF Ended
<1>4. CASE ~ incomplete(code)
  <2> DEFINE r == Get(task_uri, code.access_token)
  <2>1. access_code' = code /\ Send(r, "task")
    BY <1>4 DEF tokens_answered
  <2>2. code \in AccessCodes /\ r.authorization \in google.tokens
    BY <1>1, <1>4, CompleteCode DEF Get
  <2>3. r.url # GOOGLE_OAUTH2_TOKEN
    BY TaskElsewhere DEF Get
  <2> HIDE DEF r, code
  <2> QED BY <1>1, <1>2, <2>1, <2>2, <2>3, SendKeeps DEF Anonymous, LoggedIn
<1> QED BY <1>3, <1>4

\* Every other step of the program ends it.
LEMMA ClientKeeps ==
  ASSUME AccountInv, Client
  PROVE  AccountInv'
<1>1. CASE no_login_form
  BY <1>1, StopKeeps DEF no_login_form, Ended
<1>2. CASE no_login_response
  BY <1>2, StopKeeps DEF no_login_response, Ended
<1>3. CASE no_authorization_form
  BY <1>3, StopKeeps DEF no_authorization_form, Ended
<1>4. CASE no_code_in_title
  BY <1>4, StopKeeps DEF no_code_in_title, Ended
<1>5. CASE no_tokens
  BY <1>5, StopKeeps DEF no_tokens, Ended
<1>6. CASE task_answered
  BY <1>6, StopKeeps DEF task_answered, Ended
<1> QED BY <1>1, <1>2, <1>3, <1>4, <1>5, <1>6, MainKeeps, PostLoginKeeps,
           LoginAnsweredKeeps, PostAuthorizationKeeps, CodeInTitleKeeps, TokensAnsweredKeeps
        DEF Client, login_to_gmail, obtain_device_code, obtain_access_code

-----------------------------------------------------------------------------
(* The answers of Google. *)

Knowledge == [signed_in : BOOLEAN, code : {"code", NULL}, tokens : SUBSET {"token"}]

LEMMA AnswerKeeps ==
  ASSUME AccountInv, NEW replies, NEW known \in Knowledge, Answer(replies, known),
         google.signed_in => known.signed_in, google.tokens \subseteq known.tokens,
         \A reply \in replies : Truthful(reply, known)
  PROVE  AccountInv'
<1>1. /\ body' \in replies \cup {NULL} /\ google' = known
      /\ net = "sent" /\ net' = "answered"
      /\ UNCHANGED <<config, pc, request, gmail_login, device_code, access_code, sent>>
  BY DEF Answer
<1>2. TypeOK'
  BY <1>1 DEF AccountInv, TypeOK, Knowledge
<1>3. LoginIsReal'
  BY <1>1 DEF AccountInv, LoginIsReal
<1>4. TokenIsIssued'
  BY <1>1 DEF AccountInv, TokenIsIssued
<1>5. BodyInv'
  <2>1. body' # NULL => Truthful(body', google')
    BY <1>1
  <2> QED BY <2>1 DEF BodyInv, Truthful, Member
<1>6. StageInv'
  BY <1>1 DEF AccountInv, StageInv
<1> QED BY <1>2, <1>3, <1>4, <1>5, <1>6 DEF AccountInv

\* The replies without tokens.
LEMMA PlainReplies ==
  ASSUME NEW known
  PROVE  /\ \A p \in Pages : Truthful([Body EXCEPT !.forms = p], known)
         /\ \A m \in SUBSET Markers :
              m # Markers \/ known.signed_in => Truthful([Body EXCEPT !.markers = m], known)
         /\ \A t \in Codes \cup {NULL} : Truthful([Body EXCEPT !.title = t], known)
         /\ Truthful(Body, known)
<1>1. /\ Body.forms = <<>> /\ Body.markers = {} /\ Body.title = NULL
      /\ Body.json = NoJson
      /\ Body = [forms |-> Body.forms, markers |-> Body.markers,
                 title |-> Body.title, json |-> Body.json]
  BY DEF Body
<1>2. \A name : Member(NoJson, name) = NULL
  BY DEF Member, NoJson
<1>3. <<>> \in Pages /\ {} # Markers
  BY DEF Markers, Pages
<1> QED BY <1>1, <1>2, <1>3 DEF Truthful

LEMMA ServeLoginPageKeeps == ASSUME AccountInv, ServeLoginPage PROVE AccountInv'
<1>1. \A reply \in ShowForms(LoginPages) : Truthful(reply, google)
  BY PlainReplies DEF ShowForms, Pages
<1>2. google \in Knowledge
  BY DEF AccountInv, TypeOK, Knowledge
<1> QED BY <1>1, <1>2, AnswerKeeps DEF ServeLoginPage

LEMMA CheckPasswordKeeps == ASSUME AccountInv, CheckPassword PROVE AccountInv'
<1>1. google \in Knowledge
  BY DEF AccountInv, TypeOK, Knowledge
<1>2. CASE Answer(ShowMarkers(SUBSET Markers), [google EXCEPT !.signed_in = TRUE])
  <2> DEFINE known == [google EXCEPT !.signed_in = TRUE]
  <2>1. known \in Knowledge /\ known.signed_in /\ known.tokens = google.tokens
    BY <1>1 DEF Knowledge
  <2> HIDE DEF known
  <2>2. \A reply \in ShowMarkers(SUBSET Markers) : Truthful(reply, known)
    BY <2>1, PlainReplies DEF ShowMarkers
  <2>3. Answer(ShowMarkers(SUBSET Markers), known)
    BY <1>2 DEF known
  <2> QED BY <2>1, <2>2, <2>3, AnswerKeeps
<1>3. CASE Answer(ShowMarkers((SUBSET Markers) \ {Markers}), google)
  <2>1. \A reply \in ShowMarkers((SUBSET Markers) \ {Markers}) : Truthful(reply, google)
    BY PlainReplies DEF ShowMarkers
  <2> QED BY <1>1, <1>3, <2>1, AnswerKeeps
<1> QED BY <1>2, <1>3 DEF CheckPassword

LEMMA ServeConsentPageKeeps == ASSUME AccountInv, ServeConsentPage PROVE AccountInv'
<1>1. PICK pages \in {LoginPages, ConsentPages} : Answer(ShowForms(pages), google)
  BY DEF ServeConsentPage
<1>2. \A reply \in ShowForms(pages) : Truthful(reply, google)
  BY PlainReplies DEF ShowForms, Pages
<1>3. google \in Knowledge
  BY DEF AccountInv, TypeOK, Knowledge
<1> QED BY <1>1, <1>2, <1>3, AnswerKeeps

LEMMA ApproveKeeps == ASSUME AccountInv, Approve PROVE AccountInv'
<1>1. google \in Knowledge
  BY DEF AccountInv, TypeOK, Knowledge
<1> DEFINE known == [google EXCEPT !.code = "code"]
<1>2. known \in Knowledge /\ known.signed_in = google.signed_in
      /\ known.tokens = google.tokens
  BY <1>1 DEF Knowledge
<1>3. Answer(ShowTitle({"code"}), known) \/ Answer(ShowTitle({"access_denied", NULL}), google)
  BY DEF Approve
<1> HIDE DEF known
<1>4. /\ \A reply \in ShowTitle({"code"}) : Truthful(reply, known)
      /\ \A reply \in ShowTitle({"access_denied", NULL}) : Truthful(reply, google)
  BY PlainReplies DEF ShowTitle, Codes
<1> QED BY <1>1, <1>2, <1>3, <1>4, AnswerKeeps

LEMMA ServeTaskKeeps == ASSUME AccountInv, ServeTask PROVE AccountInv'
<1>1. google \in Knowledge
  BY DEF AccountInv, TypeOK, Knowledge
<1>2. Truthful(Body, google)
  BY PlainReplies
<1> QED BY <1>1, <1>2, AnswerKeeps DEF ServeTask

\* The replies to the exchange of a code: with tokens if it was the right one.
LEMMA ExchangeCodeKeeps == ASSUME AccountInv, ExchangeCode PROVE AccountInv'
<1>1. google \in Knowledge
  BY DEF AccountInv, TypeOK, Knowledge
<1>2. ASSUME NEW json, NEW known, Member(json, "access_token") \in known.tokens \cup {NULL},
             Member(json, "refresh_token") \in {"refresh", NULL}
      PROVE  Truthful([Body EXCEPT !.json = json], known)
  <2>1. /\ [Body EXCEPT !.json = json].forms = <<>> /\ [Body EXCEPT !.json = json].markers = {}
        /\ [Body EXCEPT !.json = json].title = NULL /\ [Body EXCEPT !.json = json].json = json
    BY DEF Body
  <2>2. <<>> \in Pages /\ {} # Markers
    BY DEF Markers, Pages
  <2> QED BY <1>2, <2>1, <2>2 DEF Truthful
<1> DEFINE known == [google EXCEPT !.code = NULL, !.tokens = @ \cup {"token"}]
           both  == [access_token |-> "token", expires_in |-> ExpiresIn,
                     refresh_token |-> "refresh", token_type |-> "Bearer"]
           one   == [access_token |-> "token", expires_in |-> ExpiresIn,
                     token_type |-> "Bearer"]
           none  == [error |-> "invalid_grant"]
<1>3. known \in Knowledge /\ known.signed_in = google.signed_in
      /\ google.tokens \subseteq known.tokens /\ "token" \in known.tokens
  BY <1>1 DEF Knowledge
<1>4. /\ Member(both, "access_token") = "token" /\ Member(both, "refresh_token") = "refresh"
      /\ Member(one, "access_token") = "token" /\ Member(one, "refresh_token") = NULL
      /\ Member(none, "access_token") = NULL /\ Member(none, "refresh_token") = NULL
      /\ Member(NoJson, "access_token") = NULL /\ Member(NoJson, "refresh_token") = NULL
  BY DEF Member, NoJson
<1>5. Answer(ShowJson({both, one, NoJson}), known) \/ Answer(ShowJson({none, NoJson}), google)
  BY DEF ExchangeCode
<1> HIDE DEF known, both, one, none
<1>6. \A reply \in ShowJson({both, one, NoJson}) : Truthful(reply, known)
  BY <1>2, <1>3, <1>4 DEF ShowJson
<1>7. \A reply \in ShowJson({none, NoJson}) : Truthful(reply, google)
  BY <1>2, <1>4 DEF ShowJson
<1> QED BY <1>1, <1>3, <1>5, <1>6, <1>7, AnswerKeeps

LEMMA InvStep == AccountInv /\ [Next]_vars => AccountInv'
<1> SUFFICES ASSUME AccountInv, [Next]_vars PROVE AccountInv'
  OBVIOUS
<1>1. CASE Client
  BY <1>1, ClientKeeps
<1>2. CASE Google
  BY <1>2, ServeLoginPageKeeps, CheckPasswordKeeps, ServeConsentPageKeeps, ApproveKeeps,
     ExchangeCodeKeeps, ServeTaskKeeps DEF Google
<1>3. CASE UNCHANGED vars
  BY <1>3 DEF vars, AccountInv, TypeOK, LoginIsReal, TokenIsIssued, StageInv, BodyInv, Truthful, Member
<1> QED BY <1>1, <1>2, <1>3 DEF Next, Gone

\* It says nothing about the configuration.
LEMMA ConfigurationChanges ==
  ASSUME AccountInv, UNCHANGED <<pc, net, request, body, gmail_login, device_code,
                                 access_code, google, sent>>
  PROVE  AccountInv'
  BY DEF AccountInv, TypeOK, LoginIsReal, TokenIsIssued, StageInv, BodyInv, Truthful, Member

LEMMA Invariance == Spec => []AccountInv
  BY InvInit, InvStep, PTL DEF Spec

-----------------------------------------------------------------------------
(* What is sent. *)

\* The requests with a form: the login form, filled in; the form that approves
\* the application, as it is on the page; and the one for the tokens.
LogsIn(r) ==
  \E page \in Pages :
    /\ login_form_of(page) # NULL
    /\ r = Post(Filled(page))
Approves(r) ==
  \E page \in Pages :
    /\ authorization_form(page) # NULL
    /\ r = Post(authorization_form(page))
Exchanges(r) == \E code \in Codes : r = token_request(code)

\* There is no other request with a form.
LEMMA WhatIsSent ==
  ASSUME AccountInv, Next, NEW r \in sent' \ sent
  PROVE  \/ r.fields = <<>> /\ r.url # GOOGLE_OAUTH2_TOKEN
         \/ LogsIn(r) \/ Approves(r) \/ Exchanges(r)
<1>1. ASSUME NEW q, NEW next, Send(q, next) PROVE r = q
  BY <1>1 DEF Send
<1>2. ASSUME NEW url, NEW auth, r = Get(url, auth) PROVE r.fields = <<>> /\ r.url = url
  BY <1>2 DEF Get
<1>3. CASE main
  BY <1>1, <1>2, <1>3, GmailElsewhere DEF main, Elsewhere
<1>4. CASE post_login_form
  <2> DEFINE q == Post(filled_form)
  <2>1. Send(q, "login_response")
    BY <1>4 DEF post_login_form
  <2>2. r = q
    <3> HIDE DEF q
    <3> QED BY <1>1, <2>1
  <2> QED BY <1>4, <2>2, LoginAction DEF LogsIn
<1>5. CASE login_answered
  <2>1. Send(Get(request_url, NULL), "consent_page")
    BY <1>5 DEF login_answered, Stop
  <2> QED BY <1>1, <1>2, <2>1, RequestElsewhere DEF Elsewhere
<1>6. CASE post_authorization_form
  <2>1. body.forms \in Pages /\ authorization_form(body.forms) # NULL
    BY <1>6 DEF AccountInv, BodyInv, Truthful, post_authorization_form
  <2> DEFINE q == Post(authorization_form(body.forms))
  <2>2. Send(q, "approval")
    BY <1>6 DEF post_authorization_form
  <2>3. r = q
    <3> HIDE DEF q
    <3> QED BY <1>1, <2>2
  <2> QED BY <2>1, <2>3 DEF Approves
<1>7. CASE code_in_title
  <2>1. body.title \in Codes
    BY <1>7 DEF AccountInv, BodyInv, Truthful, code_in_title
  <2>2. r = token_request(body.title)
    BY <1>1, <1>7 DEF code_in_title
  <2> QED BY <2>1, <2>2 DEF Exchanges
<1>8. CASE tokens_answered
  <2>1. PICK auth : Send(Get(task_uri, auth), "task")
    BY <1>8 DEF tokens_answered, Stop
  <2> QED BY <1>1, <1>2, <2>1, TaskElsewhere
<1>9. sent' = sent => FALSE
  OBVIOUS
<1>10. CASE \/ no_login_form \/ no_login_response \/ no_authorization_form
           \/ no_code_in_title \/ no_tokens \/ task_answered
  BY <1>9, <1>10 DEF no_login_form, no_login_response, no_authorization_form,
                    no_code_in_title, no_tokens, task_answered, Stop
<1>11. CASE Google
  BY <1>9, <1>11 DEF Google, ServeLoginPage, CheckPassword, ServeConsentPage, Approve,
                    ExchangeCode, ServeTask, Answer
<1>12. CASE Gone
  BY <1>9, <1>12 DEF Gone, vars
<1> QED BY <1>3, <1>4, <1>5, <1>6, <1>7, <1>8, <1>10, <1>11, <1>12
        DEF Next, Client, login_to_gmail, obtain_device_code, obtain_access_code

\* Where each of them goes.
LEMMA WhereSent ==
  ASSUME NEW r
  PROVE  /\ LogsIn(r) => IsPrefix(GOOGLE_GMAIL_LOGIN, r.url) /\ Elsewhere(r.url)
         /\ Approves(r) => ~ IsPrefix(GOOGLE_GMAIL_LOGIN, r.url) /\ Elsewhere(r.url)
         /\ Exchanges(r) => ~ IsPrefix(GOOGLE_GMAIL_LOGIN, r.url)
<1>1. ASSUME LogsIn(r) PROVE IsPrefix(GOOGLE_GMAIL_LOGIN, r.url) /\ Elsewhere(r.url)
  <2>1. PICK page \in Pages : login_form_of(page) # NULL /\ r.url = Filled(page).action
    BY <1>1 DEF LogsIn, Post
  <2> QED BY <2>1, LoginForm, LoginElsewhere
<1>2. ASSUME Approves(r) PROVE ~ IsPrefix(GOOGLE_GMAIL_LOGIN, r.url) /\ Elsewhere(r.url)
  <2>1. PICK page \in Pages :
          authorization_form(page) # NULL /\ r.url = authorization_form(page).action
    BY <1>2 DEF Approves, Post
  <2>2. /\ authorization_form(page).action \in Seq(Parts)
        /\ IsPrefix(GOOGLE_OAUTH2_APPROVAL, authorization_form(page).action)
    BY <2>1, FoundForm, NullAssumption DEF authorization_form
  <2> QED BY <2>1, <2>2, ApprovalElsewhere, NotLogin
<1>3. ASSUME Exchanges(r) PROVE ~ IsPrefix(GOOGLE_GMAIL_LOGIN, r.url)
  BY <1>3, NotLogin DEF Exchanges, token_request, request_form, Post
<1> QED BY <1>1, <1>2, <1>3

\* What a form of Google's page brings along for a field: its own value, or an
\* input, in the login form one that is not the first of its name.
Own(form, field) == form.name = field.name /\ form.value = field.value
Brought(inputs, field, filled) ==
  \E j \in DOMAIN inputs :
    /\ inputs[j] = field
    /\ filled => \E k \in 1 .. j - 1 : inputs[k].name = field.name

\* What is posted to approve the application is on Google's page.
LEMMA ApprovalInputs ==
  ASSUME NEW page \in Pages, authorization_form(page) # NULL, NEW posted,
         posted = post_form(authorization_form(page))
  PROVE  \A i \in DOMAIN posted :
           /\ posted[i].value \notin Passwords \cup {NULL}
           /\ \/ Own(authorization_form(page), posted[i])
              \/ Brought(authorization_form(page).input_fields, posted[i], FALSE)
<1> PICK form \in Forms : form = authorization_form(page)
  BY FoundForm, NullAssumption DEF authorization_form
<1> PICK fs \in Seq(Inputs) : fs = form.input_fields
  BY DEF Forms, FormsOf, Inputs
<1>1. /\ DOMAIN posted = 1 .. Len(posted)
      /\ \A k \in 1 .. Len(posted) :
           /\ posted[k].value # NULL
           /\ \/ posted[k] = OwnRecord(form) /\ form.name # NULL
              \/ \E i \in 1 .. Len(fs) : posted[k] = fs[i]
  BY PostedFields DEF PostedFrom
<1>2. form.value \notin Passwords
  BY DEF Forms, FormsOf
<1>3. \A i \in 1 .. Len(fs) : fs[i].value \notin Passwords
  <2>1. \A i \in 1 .. Len(fs) : fs[i] \in Inputs
    BY ElementOfSeq
  <2> QED BY ONLY <2>1 DEF Inputs, InputsOf
<1>4. DOMAIN fs = 1 .. Len(fs)
  BY LenProperties
<1>5. OwnRecord(form).name = form.name /\ OwnRecord(form).value = form.value
  BY DEF OwnRecord, Field
<1>6. ASSUME NEW k \in 1 .. Len(posted)
      PROVE  /\ posted[k].value \notin Passwords \cup {NULL}
             /\ Own(form, posted[k]) \/ Brought(fs, posted[k], FALSE)
  <2>1. CASE posted[k] = OwnRecord(form)
    BY <1>1, <1>2, <1>5, <2>1 DEF Own
  <2>2. CASE \E i \in 1 .. Len(fs) : posted[k] = fs[i]
    <3> PICK i \in 1 .. Len(fs) : posted[k] = fs[i]
      BY <2>2
    <3> QED BY <1>1, <1>3, <1>4 DEF Brought
  <2> QED BY <1>1, <2>1, <2>2
<1> QED BY <1>1, <1>6

\* The configured value of a login input.
Configured(name) == IF name = "Email" THEN config.username ELSE config.password

\* In the login form, filled in, an input of a login name holds the configured
\* value or stands behind the one that does.
LEMMA FilledInputs ==
  ASSUME NEW F, NEW old \in Seq(F), NEW mid \in Seq(F), NEW new \in Seq(F),
         Updated(old, mid, "Email", config.username),
         Updated(mid, new, "Passwd", config.password)
  PROVE  /\ \A name \in login_inputs :
              \E k \in 1 .. Len(new) : new[k] = Field(name, Configured(name))
         /\ \A k \in 1 .. Len(new) : new[k].name \in login_inputs =>
              \/ new[k].value = Configured(new[k].name)
              \/ Brought(old, new[k], TRUE)
<1> PICK l \in Nat : l = Len(old)
  BY LenProperties
<1> PICK m \in Nat : m = Len(mid)
  BY LenProperties
<1> PICK n \in Nat : n = Len(new)
  BY LenProperties
<1> PICK email : email = Field("Email", config.username)
  OBVIOUS
<1> PICK passwd : passwd = Field("Passwd", config.password)
  OBVIOUS
<1>1. /\ email.name = "Email" /\ email.value = Configured("Email")
      /\ passwd.name = "Passwd" /\ passwd.value = Configured("Passwd")
      /\ "Email" # "Passwd" /\ login_inputs = {"Email", "Passwd"}
  BY DEF Field, Configured, login_inputs
<1>2. /\ \E i \in 1 .. m : mid[i] = email
      /\ l <= m
      /\ \A k \in 1 .. l : /\ mid[k].name = old[k].name
                           /\ old[k].name # "Email" => mid[k] = old[k]
      /\ \A k \in 1 .. m :
           \/ mid[k] = email
           \/ /\ k \in 1 .. l /\ mid[k] = old[k]
              /\ old[k].name = "Email" => \E j \in 1 .. k - 1 : old[j].name = "Email"
  <2>1. FirstIs(email, old, mid)
    BY UpdatesFirst
  <2> QED BY ONLY <1>1, <2>1, l = Len(old), m = Len(mid) DEF FirstIs
<1>3. /\ \E i \in 1 .. n : new[i] = passwd
      /\ m <= n
      /\ \A k \in 1 .. m : /\ new[k].name = mid[k].name
                           /\ mid[k].name # "Passwd" => new[k] = mid[k]
      /\ \A k \in 1 .. n :
           \/ new[k] = passwd
           \/ /\ k \in 1 .. m /\ new[k] = mid[k]
              /\ mid[k].name = "Passwd" => \E j \in 1 .. k - 1 : mid[j].name = "Passwd"
  <2>1. FirstIs(passwd, mid, new)
    BY UpdatesFirst
  <2> QED BY ONLY <1>1, <2>1, m = Len(mid), n = Len(new) DEF FirstIs
<1>4. \E k \in 1 .. n : new[k] = email
  <2> PICK i \in 1 .. m : mid[i] = email
    BY <1>2
  <2>1. i \in 1 .. n
    BY <1>3
  <2>2. new[i] = mid[i]
    BY ONLY <1>1, <1>3, i \in 1 .. m, mid[i] = email
  <2> QED BY <2>1, <2>2
<1>5. DOMAIN old = 1 .. l
  BY LenProperties
<1>6. ASSUME NEW k \in 1 .. n, new[k].name = "Email"
      PROVE  new[k].value = Configured("Email") \/ Brought(old, new[k], TRUE)
  <2>1. k \in 1 .. m /\ new[k] = mid[k]
    BY ONLY <1>1, <1>3, <1>6
  <2>2. CASE mid[k] = email
    BY <1>1, <2>1, <2>2
  <2>3. CASE k \in 1 .. l /\ mid[k] = old[k] /\ \E j \in 1 .. k - 1 : old[j].name = "Email"
    BY <1>5, <1>6, <2>1, <2>3 DEF Brought
  <2> QED BY ONLY <1>2, <1>6, <2>1, <2>2, <2>3
<1>7. ASSUME NEW k \in 1 .. n, new[k].name = "Passwd"
      PROVE  new[k].value = Configured("Passwd") \/ Brought(old, new[k], TRUE)
  <2>1. CASE new[k] = passwd
    BY <1>1, <2>1
  <2>2. CASE new[k] # passwd
    <3>1. k \in 1 .. m /\ new[k] = mid[k] /\ \E j \in 1 .. k - 1 : mid[j].name = "Passwd"
      BY ONLY <1>3, <1>7, <2>2
    <3>2. k \in 1 .. l /\ mid[k] = old[k]
      BY ONLY <1>1, <1>2, <1>7, <3>1
    <3>3. \E j \in 1 .. k - 1 : old[j].name = "Passwd"
      <4> PICK j \in 1 .. k - 1 : mid[j].name = "Passwd"
        BY <3>1
      <4>1. j \in 1 .. l
        BY <3>2
      <4>2. old[j].name = "Passwd"
        BY <1>2, <4>1
      <4> QED BY <4>2
    <3> QED BY <1>5, <1>7, <3>1, <3>2, <3>3 DEF Brought
  <2> QED BY <2>1, <2>2
<1>8. /\ email = Field("Email", Configured("Email"))
      /\ passwd = Field("Passwd", Configured("Passwd"))
  BY DEF Configured
<1> QED BY <1>1, <1>3, <1>4, <1>6, <1>7, <1>8

\* What is posted to log in under the name of a login input is what the user has
\* configured, or stands in the form besides it; and the former is posted.
LEMMA LoginInputs ==
  ASSUME NEW page \in Pages, login_form_of(page) # NULL,
         NEW posted, posted = post_form(Filled(page))
  PROVE  /\ \A k \in DOMAIN posted : posted[k].name \in login_inputs =>
              /\ posted[k].value # NULL
              /\ \/ posted[k].value = Configured(posted[k].name)
                 \/ Own(login_form_of(page), posted[k])
                 \/ Brought(login_form_of(page).input_fields, posted[k], TRUE)
         /\ \A name \in login_inputs : Configured(name) # NULL =>
              \E k \in DOMAIN posted : posted[k] = Field(name, Configured(name))
<1> PICK N : N = STRING \cup {NULL, "Email", "Passwd"}
  OBVIOUS
<1> PICK V : V = STRING \cup {NULL, config.username, config.password}
  OBVIOUS
<1> PICK F : F = InputsOf(N, V)
  OBVIOUS
<1> PICK old \in Seq(F) : old = login_form_of(page).input_fields
  BY LoginForm
<1> PICK new \in Seq(F) : new = Filled(page).input_fields
  BY LoginForm
<1> PICK mid \in Seq(F) :
      /\ Updated(old, mid, "Email", config.username)
      /\ Updated(mid, new, "Passwd", config.password)
  BY LoginForm
<1>1. /\ \A name \in login_inputs :
           \E k \in 1 .. Len(new) : new[k] = Field(name, Configured(name))
      /\ \A k \in 1 .. Len(new) : new[k].name \in login_inputs =>
           new[k].value = Configured(new[k].name) \/ Brought(old, new[k], TRUE)
  <2>1. /\ old \in Seq(F) /\ mid \in Seq(F) /\ new \in Seq(F)
        /\ Updated(old, mid, "Email", config.username)
        /\ Updated(mid, new, "Passwd", config.password)
    OBVIOUS
  <2> QED BY ONLY <2>1, FilledInputs
<1> PICK form : form = Filled(page)
  OBVIOUS
<1>2. /\ DOMAIN posted = 1 .. Len(posted)
      /\ \A k \in 1 .. Len(posted) :
           /\ posted[k].value # NULL
           /\ \/ posted[k] = OwnRecord(form) /\ form.name # NULL
              \/ \E i \in 1 .. Len(new) : posted[k] = new[i]
      /\ \A i \in 1 .. Len(new) : new[i].name # NULL /\ new[i].value # NULL =>
           \E k \in 1 .. Len(posted) : posted[k] = new[i]
  <2>1. form.input_fields \in Seq(F) /\ new = form.input_fields /\ posted = post_form(form)
    OBVIOUS
  <2>2. PostedFrom(posted, form, new)
    BY ONLY <2>1, PostedFields
  <2> QED BY ONLY <2>2 DEF PostedFrom
<1>3. /\ OwnRecord(form).name = login_form_of(page).name
      /\ OwnRecord(form).value = login_form_of(page).value
  BY LoginForm DEF OwnRecord, Field
<1>4. ASSUME NEW k \in 1 .. Len(posted), posted[k].name \in login_inputs
      PROVE  \/ posted[k].value = Configured(posted[k].name)
             \/ Own(login_form_of(page), posted[k])
             \/ Brought(old, posted[k], TRUE)
  <2>1. CASE posted[k] = OwnRecord(form)
    BY <1>3, <2>1 DEF Own
  <2>2. CASE \E i \in 1 .. Len(new) : posted[k] = new[i]
    BY ONLY <1>1, <1>4, <2>2
  <2> QED BY <1>2, <2>1, <2>2
<1>5. ASSUME NEW name \in login_inputs, Configured(name) # NULL
      PROVE  \E k \in 1 .. Len(posted) : posted[k] = Field(name, Configured(name))
  <2> PICK i \in 1 .. Len(new) : new[i] = Field(name, Configured(name))
    BY <1>1
  <2>1. new[i].name # NULL /\ new[i].value # NULL
    BY <1>5, NullAssumption DEF Field
  <2> QED BY <1>2, <2>1
<1> QED BY <1>2, <1>4, <1>5

\* What is posted for the tokens.
LEMMA TokenInputs ==
  ASSUME NEW code
  PROVE  \A i \in DOMAIN token_request(code).fields :
           /\ token_request(code).fields[i].name \notin login_inputs
           /\ token_request(code).fields[i].name = "client_id"
                => token_request(code).fields[i].value = config.client_id
           /\ token_request(code).fields[i].name = "client_secret"
                => token_request(code).fields[i].value = config.client_password
<1> DEFINE fs == <<Field("code", code), Field("client_id", config.client_id),
                   Field("client_secret", config.client_password),
                   Field("redirect_uri", "urn:ietf:wg:oauth:2.0:oob"),
                   Field("grant_type", "authorization_code")>>
           names == {fs[i].name : i \in 1 .. 5}
           values == {fs[i].value : i \in 1 .. 5}
           F == InputsOf(names, values)
<1>1. Len(fs) = 5 /\ \A i \in 1 .. 5 : fs[i] \in F
  BY DEF Field, InputsOf
<1>2. fs \in Seq(F)
  <2> QED BY <1>1
<1> PICK form : form = request_form(code)
  OBVIOUS
<1> PICK posted : posted = post_form(form)
  OBVIOUS
<1>3. token_request(code).fields = posted
  BY DEF token_request, Post
<1>4. /\ DOMAIN posted = 1 .. Len(posted)
      /\ \A k \in 1 .. Len(posted) :
           \/ posted[k] = OwnRecord(form) /\ form.name # NULL
           \/ \E j \in 1 .. Len(fs) : posted[k] = fs[j]
  <2>1. form.input_fields = fs
    BY DEF request_form
  <2> HIDE DEF fs, F
  <2> QED BY <1>2, <2>1, PostedFields DEF PostedFrom
<1>5. form.name = NULL
  BY DEF request_form
<1> DEFINE Right(input) ==
             /\ input.name \notin login_inputs
             /\ input.name = "client_id" => input.value = config.client_id
             /\ input.name = "client_secret" => input.value = config.client_password
<1>6. \A j \in 1 .. 5 : Right(fs[j])
  BY DEF Field, login_inputs
<1> HIDE DEF fs, F, Right
<1>7. \A i \in DOMAIN posted : \E j \in 1 .. 5 : posted[i] = fs[j]
  BY <1>1, <1>4, <1>5
<1>8. \A i \in DOMAIN posted : Right(posted[i])
  BY <1>6, <1>7
<1> QED BY <1>3, <1>8 DEF Right

\* Google signs a client in for a request with the right credentials, and issues
\* a token for one with the right client to a client that is signed in.
LEMMA WhatGoogleLearns ==
  ASSUME AccountInv, Google
  PROVE  /\ sent' = sent
         /\ google'.signed_in =>
              \/ google.signed_in
              \/ \E r \in sent : /\ IsPrefix(GOOGLE_GMAIL_LOGIN, r.url)
                                /\ Carries(r, "Email", "user")
                                /\ Carries(r, "Passwd", "password")
         /\ google'.tokens # {} =>
              \/ google.tokens # {}
              \/ /\ google.signed_in
                 /\ \E r \in sent : /\ r.url = GOOGLE_OAUTH2_TOKEN
                                   /\ Carries(r, "client_id", "client")
                                   /\ Carries(r, "client_secret", "secret")
<1>1. net = "sent" /\ sent' = sent
  BY DEF Google, ServeLoginPage, CheckPassword, ServeConsentPage, Approve, ExchangeCode,
         ServeTask, Answer
<1>2. request \in sent
  BY <1>1 DEF AccountInv, StageInv
<1>3. google \in Knowledge
  BY DEF AccountInv, TypeOK, Knowledge
<1>4. CASE CheckPassword
  <2>1. \/ google' = google
        \/ /\ google' = [google EXCEPT !.signed_in = TRUE]
           /\ IsPrefix(GOOGLE_GMAIL_LOGIN, request.url)
           /\ Carries(request, "Email", "user")
           /\ Carries(request, "Passwd", "password")
    BY <1>4 DEF CheckPassword, Answer
  <2>2. google'.tokens = google.tokens
    BY <1>3, <2>1 DEF Knowledge
  <2> QED BY <1>1, <1>2, <2>1, <2>2
<1>5. CASE ExchangeCode
  <2>1. \/ google' = google
        \/ /\ google' = [google EXCEPT !.code = NULL, !.tokens = @ \cup {"token"}]
           /\ Carries(request, "client_id", "client")
           /\ Carries(request, "client_secret", "secret")
    BY <1>5 DEF ExchangeCode, Answer
  <2>2. google'.signed_in = google.signed_in
    BY <1>3, <2>1 DEF Knowledge
  <2>3. request.url = GOOGLE_OAUTH2_TOKEN
    BY <1>5 DEF ExchangeCode
  <2>4. google.signed_in
    BY <1>1, <2>3 DEF AccountInv, StageInv, LoginIsReal, LoggedIn
  <2> QED BY <1>1, <1>2, <2>1, <2>2, <2>3, <2>4
<1>6. CASE ServeLoginPage \/ ServeConsentPage \/ Approve \/ ServeTask
  <2>1. google' = google \/ google' = [google EXCEPT !.code = "code"]
    BY <1>6 DEF ServeLoginPage, ServeConsentPage, Approve, ServeTask, Answer
  <2>2. google'.signed_in = google.signed_in /\ google'.tokens = google.tokens
    BY <1>3, <2>1 DEF Knowledge
  <2> QED BY <1>1, <2>2
<1> QED BY <1>4, <1>5, <1>6 DEF Google

-----------------------------------------------------------------------------
(* The theorems. *)

\* What the functions return and where the program is are always of their type;
\* an access code that was returned is complete.
THEOREM TypeCorrect == Spec => []TypeOK
<1>1. AccountInv => TypeOK
  BY DEF AccountInv
<1> QED BY <1>1, Invariance, PTL

\* login_to_gmail reports success only to a client that Google has signed in,
\* whatever the pages look like.
THEOREM LoginReal == Spec => []LoginIsReal
<1>1. AccountInv => LoginIsReal
  BY DEF AccountInv
<1> QED BY <1>1, Invariance, PTL

\* A task is asked for only with a token Google has issued in this session.
THEOREM TokensIssued == Spec => []TokenIsIssued
<1>1. AccountInv => TokenIsIssued
  BY DEF AccountInv
<1> QED BY <1>1, Invariance, PTL

\* The password is posted only to the login URL, never to another page.
THEOREM PasswordKept == Spec => []PasswordOnlyToLogin
<1> DEFINE IInv == config.password \in Passwords \cup {NULL} /\ PasswordOnlyToLogin
<1>1. Init => IInv
  BY DEF Init, PasswordOnlyToLogin
<1>2. AccountInv /\ IInv /\ [Next]_vars => IInv'
  <2> SUFFICES ASSUME AccountInv, IInv, [Next]_vars PROVE IInv'
    OBVIOUS
  <2>1. config' = config
    BY DEF Next, Client, login_to_gmail, obtain_device_code, obtain_access_code, main,
           post_login_form, no_login_form, login_answered, no_login_response,
           post_authorization_form, no_authorization_form, code_in_title, no_code_in_title,
           tokens_answered, no_tokens, task_answered, Send, Stop, Google, ServeLoginPage,
           CheckPassword, ServeConsentPage, Approve, ExchangeCode, ServeTask, Answer,
           Gone, vars
  <2>2. ASSUME NEW r \in sent' \ sent, config.password # NULL,
               Carries(r, "Passwd", config.password)
        PROVE  IsPrefix(GOOGLE_GMAIL_LOGIN, r.url)
    <3>1. PICK i \in DOMAIN r.fields : r.fields[i] = Field("Passwd", config.password)
      BY <2>2 DEF Carries
    <3>2. r.fields[i].name = "Passwd" /\ r.fields[i].value \in Passwords
      BY <2>2, <3>1 DEF Field
    <3>3. r.fields # <<>>
      BY <3>1
    <3>4. ~ Exchanges(r)
      BY <3>2, TokenInputs DEF Exchanges, login_inputs
    <3>5. ~ Approves(r)
      <4> SUFFICES ASSUME NEW page \in Pages, authorization_form(page) # NULL,
                          r.fields = post_form(authorization_form(page))
                   PROVE  FALSE
        BY DEF Approves, Post
      <4> QED BY <3>1, <3>2, ApprovalInputs
    <3>6. Next
      BY <2>2 DEF vars
    <3> QED BY <3>3, <3>4, <3>5, <3>6, WhatIsSent, WhereSent
  <2>3. PasswordOnlyToLogin'
    BY <2>1, <2>2 DEF PasswordOnlyToLogin, Carries
  <2> QED BY <2>1, <2>3
<1>3. IInv => PasswordOnlyToLogin
  OBVIOUS
<1> QED BY <1>1, <1>2, <1>3, Invariance, PTL DEF Spec

\* A place behind the login has a client that is signed in.
LEMMA BehindLogin ==
  ASSUME AccountInv, pc \in LoggedIn
  PROVE  google.signed_in
  BY DEF AccountInv, TypeOK, StageInv, LoginIsReal

\* Nothing but the login is sent by a client that is not signed in: neither
\* obtain_device_code nor what follows it.
THEOREM SignedInFirst == Spec => SignedInBeforeConsent
<1> DEFINE Allowed == \A r \in sent' \ sent :
                        IsPrefix(GOOGLE_GMAIL_LOGIN, r.url) \/ google.signed_in
<1>1. AccountInv /\ [Next]_vars => [Allowed]_vars
  <2> SUFFICES ASSUME AccountInv, Next, NEW r \in sent' \ sent
               PROVE  IsPrefix(GOOGLE_GMAIL_LOGIN, r.url) \/ google.signed_in
    BY DEF vars
  <2>1. CASE main
    <3>1. r.url = GOOGLE_GMAIL_LOGIN
      BY <2>1 DEF main, Send, Get
    <3> QED BY <3>1, Urls DEF IsPrefix
  <2>2. CASE post_login_form
    <3>1. r.url = filled_form.action
      BY <2>2 DEF post_login_form, Send, Post
    <3> QED BY <2>2, <3>1, LoginAction
  <2>3. CASE login_answered
    <3>1. body # NULL /\ logged_in(body)
      BY <2>3 DEF login_answered, Stop
    <3> QED BY <3>1 DEF AccountInv, BodyInv, Truthful, logged_in
  <2>4. CASE post_authorization_form \/ code_in_title
    <3>1. pc \in LoggedIn
      BY <2>4 DEF post_authorization_form, code_in_title, Received, LoggedIn
    <3> QED BY <3>1, BehindLogin
  <2>5. CASE tokens_answered
    <3>1. pc \in LoggedIn
      BY <2>5 DEF tokens_answered, Received, LoggedIn
    <3> QED BY <3>1, BehindLogin
  <2>6. sent' = sent => FALSE
    OBVIOUS
  <2>7. CASE \/ no_login_form \/ no_login_response \/ no_authorization_form
             \/ no_code_in_title \/ no_tokens \/ task_answered
    BY <2>6, <2>7 DEF no_login_form, no_login_response, no_authorization_form,
                      no_code_in_title, no_tokens, task_answered, Stop
  <2>8. CASE Google
    BY <2>6, <2>8 DEF Google, ServeLoginPage, CheckPassword, ServeConsentPage, Approve,
                      ExchangeCode, ServeTask, Answer
  <2>9. CASE Gone
    BY <2>6, <2>9 DEF Gone, vars
  <2> QED BY <2>1, <2>2, <2>3, <2>4, <2>5, <2>7, <2>8, <2>9
          DEF Next, Client, login_to_gmail, obtain_device_code, obtain_access_code
<1> QED BY <1>1, Invariance, PTL DEF Spec, SignedInBeforeConsent

-----------------------------------------------------------------------------
(* The refinement. *)

\* What the mapping makes of the state.
Stage == IF pc \in Ended THEN "ended"
         ELSE IF pc = "task" THEN "reading"
         ELSE IF gmail_login THEN "logged_in" ELSE "anonymous"
Bearer == IF access_code = NULL THEN NULL ELSE access_code.access_token

SessionUnchanged == /\ Stage' = Stage /\ Bearer' = Bearer
                    /\ google'.signed_in = google.signed_in
                    /\ google'.tokens = google.tokens

LEMMA SessionStutters == SessionUnchanged => UNCHANGED Session!vars
  BY DEF SessionUnchanged, Stage, Bearer, Session!vars

\* A step that ends the program ends the session.
LEMMA StoppedSession ==
  ASSUME AccountInv, NEW how \in Ended, Stop(how), Bearer' = Bearer
  PROVE  Session!Next
<1>1. Stage' = "ended" /\ google' = google
  BY DEF Stop, Stage
<1>2. Session!End
  BY <1>1 DEF Session!End, Stage, Bearer
<1> QED BY <1>2 DEF Session!Next

LEMMA SentSession ==
  ASSUME AccountInv, NEW r, NEW next, Send(r, next), UNCHANGED <<gmail_login, access_code>>,
         \/ pc \in Anonymous /\ next \in Anonymous
         \/ pc \in LoggedIn /\ next \in LoggedIn
  PROVE  UNCHANGED Session!vars
<1>1. Stage' = Stage
  BY DEF Send, Stage, Anonymous, LoggedIn, Ended
<1>2. Bearer' = Bearer /\ google' = google
  BY DEF Send, Bearer
<1> QED BY <1>1, <1>2, SessionStutters DEF SessionUnchanged

LEMMA LoginSession ==
  ASSUME AccountInv, login_answered
  PROVE  Session!Next
<1>1. /\ pc = "login_response" /\ body # NULL /\ gmail_login' = logged_in(body)
      /\ access_code' = access_code
  BY DEF login_answered, Received
<1>2. Bearer' = Bearer
  BY <1>1 DEF Bearer
<1>3. CASE gmail_login'
  <2>1. google.signed_in
    BY <1>1, <1>3 DEF AccountInv, BodyInv, Truthful, logged_in
  <2>2. pc' = "consent_page" /\ google' = google
    BY <1>3 DEF login_answered, Send
  <2>3. Stage = "anonymous"
    BY <1>1 DEF AccountInv, StageInv, Stage, Anonymous, Ended
  <2>4. Stage' = "logged_in"
    BY <1>3, <2>2 DEF Stage, Ended
  <2>5. Session!LogIn
    BY <1>2, <2>1, <2>2, <2>3, <2>4 DEF Session!LogIn, Stage, Bearer
  <2> QED BY <2>5 DEF Session!Next
<1>4. CASE ~ gmail_login'
  <2>1. Stop("exit_0")
    BY <1>4 DEF login_answered
  <2> QED BY <1>2, <2>1, StoppedSession DEF Ended
<1> QED BY <1>3, <1>4

LEMMA TokensSession ==
  ASSUME AccountInv, tokens_answered
  PROVE  Session!Next
<1> DEFINE code == parse_tokens_json(body.json)
<1>1. pc = "tokens" /\ body # NULL /\ gmail_login' = gmail_login
  BY DEF tokens_answered, Received
<1>2. access_code = NULL /\ gmail_login
  BY <1>1 DEF AccountInv, StageInv, LoggedIn
<1>3. CASE incomplete(code)
  <2>1. access_code' = NULL /\ Stop("exit_0")
    BY <1>3 DEF tokens_answered
  <2>2. Bearer' = Bearer
    BY <1>2, <2>1 DEF Bearer
  <2> QED BY <2>1, <2>2, StoppedSession DEF Ended
<1>4. CASE ~ incomplete(code)
  <2>1. access_code' = code /\ pc' = "task" /\ google' = google
    BY <1>4 DEF tokens_answered, Send
  <2>2. code # NULL /\ code.access_token \in google.tokens
    BY <1>1, <1>4, CompleteCode, NullAssumption
  <2>3. Bearer' \in google.tokens
    BY <2>1, <2>2 DEF Bearer
  <2>4. Stage = "logged_in" /\ Stage' = "reading"
    BY <1>1, <1>2, <2>1 DEF Stage, Ended
  <2>5. Session!ReadTasks
    BY <2>1, <2>3, <2>4 DEF Session!ReadTasks, Stage, Bearer
  <2> QED BY <2>5 DEF Session!Next
<1> QED BY <1>3, <1>4

\* What Google does to its own knowledge is a login, a token or nothing.
LEMMA GoogleSession ==
  ASSUME AccountInv, Google
  PROVE  Session!Next \/ UNCHANGED Session!vars
<1>1. UNCHANGED <<pc, gmail_login, access_code>> /\ net = "sent"
  BY DEF Google, ServeLoginPage, CheckPassword, ServeConsentPage, Approve, ExchangeCode,
         ServeTask, Answer
<1>2. Stage' = Stage /\ Bearer' = Bearer
  BY <1>1 DEF Stage, Bearer
<1>3. google \in Knowledge
  BY DEF AccountInv, TypeOK, Knowledge
<1>4. CASE google'.signed_in = google.signed_in /\ google'.tokens = google.tokens
  BY <1>2, <1>4, SessionStutters DEF SessionUnchanged
<1>5. CASE google' = [google EXCEPT !.signed_in = TRUE]
  <2>1. google'.signed_in = TRUE /\ google'.tokens = google.tokens
    BY <1>3, <1>5 DEF Knowledge
  <2>2. CASE Stage = "anonymous"
    <3>1. Session!SignIn
      BY <1>2, <2>1, <2>2 DEF Session!SignIn, Stage, Bearer
    <3> QED BY <3>1 DEF Session!Next
  <2>3. CASE Stage # "anonymous"
    <3>1. google.signed_in = TRUE
      BY <1>1, <1>3, <2>3 DEF AccountInv, TypeOK, LoginIsReal, StageInv, Stage, LoggedIn, Knowledge
    <3> QED BY <1>2, <2>1, <3>1, SessionStutters DEF SessionUnchanged
  <2> QED BY <2>2, <2>3
<1>6. CASE /\ request.url = GOOGLE_OAUTH2_TOKEN
           /\ google' = [google EXCEPT !.code = NULL, !.tokens = @ \cup {"token"}]
  <2>1. google'.signed_in = google.signed_in /\ google'.tokens = google.tokens \cup {"token"}
    BY <1>3, <1>6 DEF Knowledge
  <2>2. pc = "tokens"
    BY <1>1, <1>6 DEF AccountInv, StageInv
  <2>3. Stage = "logged_in"
    BY <2>2 DEF AccountInv, StageInv, Stage, LoggedIn, Ended
  <2>4. Session!Issue
    BY <1>2, <2>1, <2>3 DEF Session!Issue, Stage, Bearer
  <2> QED BY <2>4 DEF Session!Next
<1>7. \/ google' = google
      \/ google' = [google EXCEPT !.signed_in = TRUE]
      \/ google' = [google EXCEPT !.code = "code"]
      \/ /\ request.url = GOOGLE_OAUTH2_TOKEN
         /\ google' = [google EXCEPT !.code = NULL, !.tokens = @ \cup {"token"}]
  BY DEF Google, ServeLoginPage, CheckPassword, ServeConsentPage, Approve, ExchangeCode,
         ServeTask, Answer
<1>8. CASE google' = [google EXCEPT !.code = "code"]
  BY <1>3, <1>4, <1>8 DEF Knowledge
<1> QED BY <1>4, <1>5, <1>6, <1>7, <1>8

LEMMA ClientSession ==
  ASSUME AccountInv, Client
  PROVE  Session!Next \/ UNCHANGED Session!vars
<1> USE DEF Received
<1>1. CASE main
  BY <1>1, SentSession DEF main, Anonymous
<1>2. CASE post_login_form
  BY <1>2, SentSession DEF post_login_form, Anonymous
<1>3. CASE post_authorization_form
  BY <1>3, SentSession DEF post_authorization_form, LoggedIn
<1>4. CASE code_in_title
  BY <1>4, SentSession DEF code_in_title, LoggedIn
<1>5. CASE login_answered
  BY <1>5, LoginSession
<1>6. CASE tokens_answered
  BY <1>6, TokensSession
<1>7. ASSUME NEW how \in Ended, Stop(how), UNCHANGED access_code
      PROVE  Session!Next
  <2>1. Bearer' = Bearer
    BY <1>7 DEF Bearer
  <2> QED BY <1>7, <2>1, StoppedSession
<1>8. CASE no_login_form \/ no_login_response
  BY <1>7, <1>8 DEF no_login_form, no_login_response, Ended
<1>9. CASE no_authorization_form \/ no_code_in_title
  BY <1>7, <1>9 DEF no_authorization_form, no_code_in_title, Ended
<1>10. CASE no_tokens \/ task_answered
  BY <1>7, <1>10 DEF no_tokens, task_answered, Ended
<1> QED BY <1>1, <1>2, <1>3, <1>4, <1>5, <1>6, <1>8, <1>9, <1>10
        DEF Client, login_to_gmail, obtain_device_code, obtain_access_code

\* The program is a session, whatever Google shows or loses: it logs in, gets a
\* token and uses it in that order, and never acts on a login or a token that
\* Google does not know of.
THEOREM ImplementsSession == Spec => IsSession
<1>1. Init => Session!Init
  BY DEF Init, Session!Init, Ended
<1>2. AccountInv /\ [Next]_vars => [Session!Next]_Session!vars
  <2> SUFFICES ASSUME AccountInv, [Next]_vars
               PROVE  Session!Next \/ UNCHANGED Session!vars
    OBVIOUS
  <2>1. CASE Client
    BY <2>1, ClientSession
  <2>2. CASE Google
    BY <2>2, GoogleSession
  <2>3. CASE UNCHANGED vars
    <3>1. SessionUnchanged
      BY <2>3 DEF vars, SessionUnchanged, Stage, Bearer
    <3> QED BY <3>1, SessionStutters
  <2> QED BY <2>1, <2>2, <2>3 DEF Next, Gone
<1> QED BY <1>1, <1>2, Invariance, PTL DEF Spec, IsSession, Session!Spec
=============================================================================
