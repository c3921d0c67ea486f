----------------------------- MODULE LoginPage ------------------------------
(***************************************************************************)
(* What login_to_gmail does with one page: tidy it, read its forms, find   *)
(* the login form, fill in the credentials, post the form.  The results of *)
(* HtmlTree and HtmlForms are compared with reference definitions.         *)
(***************************************************************************)
EXTENDS HtmlForms, HtmlTree

CONSTANTS
  Trees,       \* the trees libxml2 may make of a page, <<>> for none
  UserNames    \* the configured user names, NULL for none

\* A tree is in document order, and what is empty in HTML has no children.
IsTree(tree) ==
  /\ tree \in Seq({tree[i] : i \in DOMAIN tree})
  /\ tree # <<>> => tree[1].depth = 0
  /\ \A i \in 2 .. Len(tree) :
       tree[i].depth \in 1 .. tree[i - 1].depth
                              + (IF tree[i - 1].kind \in {"input", "text"} THEN 0 ELSE 1)

ASSUME TreesAssumption == \A tree \in Trees : IsTree(tree)

\* The parts of the login URL.
GOOGLE_GMAIL_LOGIN == <<"https://accounts.google.com", "ServiceLogin">>
login_inputs       == {"Email", "Passwd"}

Credentials(user) == <<[name |-> "Email", value |-> user],
                       [name |-> "Passwd", value |-> "secret"]>>

\* A pointer to something is not NULL.
ASSUME FieldNullAssumption == NULL \notin login_inputs /\ NULL # GOOGLE_GMAIL_LOGIN
ASSUME FormNullAssumption ==
  \A tree \in Trees, user \in UserNames : \A form \in Range(get_forms(tree)) :
    NULL \notin {form, modify_form(form, Credentials(user))}

VARIABLES
  html,         \* the tree of the page
  username,     \* the configured user name
  forms,        \* what get_forms returns
  login_form,   \* the form that was found, before and after it is filled in
  form_post,    \* the fields that are posted
  stage
vars == <<html, username, forms, login_form, form_post, stage>>

Init ==
  /\ html \in Trees
  /\ username \in UserNames
  /\ forms = <<>>
  /\ login_form = NULL
  /\ form_post = <<>>
  /\ stage = "tidy"

Tidy ==
  /\ stage = "tidy"
  /\ \E diagnosed, saved \in -1 .. 2, forced \in BOOLEAN :
       stage' = IF tidy_failed(diagnosed, forced, saved) THEN "exit" ELSE "read"
  /\ UNCHANGED <<html, username, forms, login_form, form_post>>

ReadForms ==
  /\ stage = "read"
  /\ forms' = get_forms(html)
  /\ stage' = "find"
  /\ UNCHANGED <<html, username, login_form, form_post>>

Find ==
  /\ stage = "find"
  /\ login_form' = find_form(forms, GOOGLE_GMAIL_LOGIN, login_inputs)
  /\ stage' = IF login_form' = NULL THEN "end" ELSE "modify"
  /\ UNCHANGED <<html, username, forms, form_post>>

Modify ==
  /\ stage = "modify"
  /\ login_form' = modify_form(login_form, Credentials(username))
  /\ stage' = "post"
  /\ UNCHANGED <<html, username, forms, form_post>>

Post ==
  /\ stage = "post"
  /\ form_post' = post_form(login_form)
  /\ stage' = "end"
  /\ UNCHANGED <<html, username, forms, login_form>>

End == stage \in {"end", "exit"} /\ UNCHANGED vars

Next == Tidy \/ ReadForms \/ Find \/ Modify \/ Post \/ End

Spec == Init /\ [][Next]_vars

-----------------------------------------------------------------------------
(* Reference definitions over the tree.                                      *)

IsForm(i)  == html[i].kind = "form"
IsInput(i) == html[i].kind = "input"

\* The nodes inside node i.
Inside(i) == {j \in DOMAIN html :
                i < j /\ \A k \in i + 1 .. j : html[k].depth > html[i].depth}

OutermostForms ==
  {i \in DOMAIN html : IsForm(i) /\ ~ \E f \in DOMAIN html : IsForm(f) /\ i \in Inside(f)}

\* The place of i among the numbers K.
Rank(K, i) == Cardinality({j \in K : j <= i})

\* get_forms finds the forms of the page in document order, at whatever depth,
\* each with its own attributes; a form inside another one is not a form of its
\* own.
FormsInDocumentOrder ==
  stage = "find" =>
    /\ Len(forms) = Cardinality(OutermostForms)
    /\ \A i \in OutermostForms :
         LET form == forms[Rank(OutermostForms, i)]
         IN  /\ form.action = html[i].action
             /\ form.name = html[i].name /\ form.value = html[i].value

\* A form has the inputs that stand anywhere inside it, those of forms nested
\* in it included, each once, in document order; no input is in two forms.
InputsOfForms ==
  stage = "find" =>
    \A i \in OutermostForms :
      LET inputs == {j \in Inside(i) : IsInput(j)}
          input_fields == forms[Rank(OutermostForms, i)].input_fields
      IN  /\ Len(input_fields) = Cardinality(inputs)
          /\ \A j \in inputs : input_fields[Rank(inputs, j)] =
                                 [name |-> html[j].name, value |-> html[j].value]

\* The reference definition of a login form.
IsLoginForm(f) ==
  /\ f.action # NULL
  /\ Len(f.action) >= 2 /\ SubSeq(f.action, 1, 2) = GOOGLE_GMAIL_LOGIN
  /\ \E i \in DOMAIN f.input_fields : f.input_fields[i].name \in login_inputs

\* The form found is the first form of the page whose action continues the
\* login URL and that has one of the inputs, and one is found if there is one.
FirstLoginForm ==
  /\ stage = "end" /\ login_form = NULL => \A i \in DOMAIN forms : ~ IsLoginForm(forms[i])
  /\ stage = "modify" =>
       \E i \in DOMAIN forms :
         /\ forms[i] = login_form
         /\ IsLoginForm(login_form)
         /\ \A j \in 1 .. i - 1 : ~ IsLoginForm(forms[j])

\* The index of the first input of that name in a sequence of inputs, or 0.
FirstNamed(s, n) == SelectInSeq(s, LAMBDA f : f.name = n)

\* Filling in gives the first input of each name the new value, keeps every
\* other input and its place, and adds what was not there at the end.
FilledIn ==
  stage = "post" =>
    LET old == find_form(forms, GOOGLE_GMAIL_LOGIN, login_inputs).input_fields
        new == login_form.input_fields
        value == [n \in login_inputs |-> IF n = "Email" THEN username ELSE "secret"]
    IN  /\ \A n \in login_inputs : new[FirstNamed(new, n)].value = value[n]
        /\ \A i \in DOMAIN old :
             /\ new[i].name = old[i].name
             /\ new[i].value = IF \E n \in login_inputs : FirstNamed(old, n) = i
                               THEN value[old[i].name] ELSE old[i].value
        /\ \A i \in Len(old) + 1 .. Len(new) :
             FirstNamed(old, new[i].name) = 0 /\ new[i].name \in login_inputs

\* A field that curl_formadd can post.
Complete(field) == field.name # NULL /\ field.value # NULL

\* What is posted: the name and value of the form element itself, if it has both,
\* and then the inputs with a name and a value, all of them once, in the order of
\* the form; credentials that are not configured are left out.
PostedInOrder ==
  stage = "end" /\ login_form # NULL =>
    LET all == login_form.input_fields
        kept == {i \in DOMAIN all : Complete(all[i])}
        own == IF Complete(login_form) THEN 1 ELSE 0
    IN  /\ Len(form_post) = own + Cardinality(kept)
        /\ own = 1 => form_post[1] = [name |-> login_form.name, value |-> login_form.value]
        /\ \A i \in kept : form_post[own + Rank(kept, i)] = all[i]
=============================================================================
