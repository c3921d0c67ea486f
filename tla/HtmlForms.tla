----------------------------- MODULE HtmlForms ------------------------------
(***************************************************************************)
(* Finding a form on a page, filling it in and posting it: find_form and   *)
(* modify_form (oauth2-google.c), add_input_to_form, fill_form_with_input  *)
(* and post_form (postform.c).                                             *)
(*                                                                         *)
(* A page is the sequence of the forms get_forms finds on it, in document  *)
(* order; a form has an action, a name and a value of its own and a        *)
(* sequence of inputs; an input has a name and a value.  Any of the        *)
(* attributes may be missing in the HTML: NULL.                            *)
(* A URL is the sequence of its parts, so that strncmp with the length of  *)
(* the search criterion is IsPrefix.                                       *)
(***************************************************************************)
EXTENDS SequencesExt

CONSTANT NULL

(***************************************************************************)
(* The criteria: input_names is the set of the names in the C array.       *)
(***************************************************************************)
search_input_by_name(input, input_names) ==
  \/ input_names = {}
  \/ input.name # NULL /\ input.name \in input_names

\* Mutant: the action is not compared.
search_form_ignoring_action(form, form_action, input_names) ==
  \E i \in DOMAIN form.input_fields :
    search_input_by_name(form.input_fields[i], input_names)

search_form_by_action_and_inputs(form, form_action, input_names) ==
  /\ \/ form_action = NULL
     \/ form.action # NULL /\ IsPrefix(form_action, form.action)
  /\ \E i \in DOMAIN form.input_fields :
       search_input_by_name(form.input_fields[i], input_names)

\* The first element of s that passes Test, NULL if none does: what
\* g_slist_find_custom returns.
FirstIn(s, Test(_)) ==
  LET i == SelectInSeq(s, Test)
  IN  IF i = 0 THEN NULL ELSE s[i]

\* Mutant: the last form that matches.
find_last_form(page, form_action, input_names) ==
  LET Matches(f) == search_form_by_action_and_inputs(f, form_action, input_names)
      i == SelectLastInSeq(page, Matches)
  IN  IF i = 0 THEN NULL ELSE page[i]

find_form(page, form_action, input_names) ==
  FirstIn(page, LAMBDA f :
    search_form_by_action_and_inputs(f, form_action, input_names))

(***************************************************************************)
(* Filling in.                                                             *)
(***************************************************************************)
add_input_to_form(form, name, value) ==
  [form EXCEPT !.input_fields = Append(@, [name |-> name, value |-> value])]

\* Mutant: the input is always added, never updated.
modify_by_adding(form, input_field) ==
  add_input_to_form(form, input_field.name, input_field.value)

modify_form_inputs(form, input_field) ==
  LET i == SelectInSeq(form.input_fields,
                       LAMBDA f : search_input_by_name(f, {input_field.name}))
  IN  IF i # 0
      THEN [form EXCEPT !.input_fields[i].value = input_field.value]
      ELSE add_input_to_form(form, input_field.name, input_field.value)

modify_form(form, inputs_to_modify) ==
  LET upto[i \in 0 .. Len(inputs_to_modify)] ==
        IF i = 0 THEN form ELSE modify_form_inputs(upto[i - 1], inputs_to_modify[i])
  IN  upto[Len(inputs_to_modify)]

(***************************************************************************)
(* Posting: the form's own name and value come first, if it has a name,    *)
(* then fill_form_with_input is called for the inputs in order.            *)
(* curl_formadd refuses a field whose name or value is NULL; nobody looks  *)
(* at the refusal.                                                         *)
(***************************************************************************)
formadd_accepts(input) == input.name # NULL /\ input.value # NULL

fill_form_with_input(form_post, input) ==
  IF formadd_accepts(input) THEN Append(form_post, input) ELSE form_post

posted_fields(input_fields) ==
  LET upto[i \in 0 .. Len(input_fields)] ==
        IF i = 0 THEN <<>> ELSE fill_form_with_input(upto[i - 1], input_fields[i])
  IN  upto[Len(input_fields)]

\* The field of the form element itself.
own_field(form) ==
  IF form.name = NULL THEN <<>>
  ELSE fill_form_with_input(<<>>, [name |-> form.name, value |-> form.value])

\* Mutant: the form's own field comes behind the inputs.
own_field_last(form) == posted_fields(form.input_fields) \o own_field(form)

post_form(form) == own_field(form) \o posted_fields(form.input_fields)
=============================================================================
