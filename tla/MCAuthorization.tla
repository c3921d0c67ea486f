-------------------------- MODULE MCAuthorization ---------------------------
(***************************************************************************)
(* TLC instance of Authorization: every combination of right, wrong and    *)
(* missing credentials, and pages with none, one or two forms in either    *)
(* order, the wanted form also with an input missing (a page cut short);   *)
(* the login form also posts a field of its own with the name of an input. *)
(***************************************************************************)
EXTENDS Authorization

NewsletterForm == [action |-> <<Accounts, "Newsletter">>, name |-> NULL, value |-> NULL,
                   input_fields |-> <<Field("Email", "")>>]
LoginForm == [action |-> GOOGLE_GMAIL_LOGIN \o <<"Auth">>,
              name |-> "Email", value |-> "form",
              input_fields |-> <<Field("GALX", "x"), Field("Email", ""),
                                 Field("Passwd", NULL)>>]
CutLoginForm == [LoginForm EXCEPT !.input_fields = SubSeq(@, 1, 2)]
ApprovalForm == [action |-> GOOGLE_OAUTH2_APPROVAL \o <<"?as=">>,
                 name |-> "form", value |-> NULL,
                 input_fields |-> <<Field("bgresponse", "js"),
                                    Field("submit_access", "true")>>]
CutApprovalForm == [ApprovalForm EXCEPT !.input_fields = SubSeq(@, 1, 1)]

MCLoginPages == {<<>>, <<NewsletterForm>>, <<LoginForm>>, <<CutLoginForm>>,
                 <<NewsletterForm, LoginForm>>}
MCConsentPages == {<<>>, <<CutApprovalForm>>, <<ApprovalForm>>,
                   <<NewsletterForm, ApprovalForm>>}
=============================================================================
