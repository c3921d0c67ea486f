------------------------------ MODULE HtmlTree ------------------------------
(***************************************************************************)
(* Reading the forms off a page: get_forms, get_form_fields and            *)
(* get_input_fields (oauth2-google.c).                                     *)
(*                                                                         *)
(* libtidy and libxml2 make a tree of the page.  It is the sequence of its *)
(* nodes in document order, each with its depth, the root first; a node is *)
(* a "form" or "input" element with the attributes that are read, another  *)
(* element, or a "text".  A node is the index in that sequence, 0 for the  *)
(* pointer NULL.                                                           *)
(***************************************************************************)
EXTENDS SequencesExt

xmlChildrenNode(tree, node) ==
  IF node < Len(tree) /\ tree[node + 1].depth > tree[node].depth
  THEN node + 1 ELSE 0

\* What follows the subtree of node is its sibling, unless it is less deep.
next_node(tree, node) ==
  LET i == SelectInSubSeq(tree, node + 1, Len(tree),
                          LAMBDA n : n.depth <= tree[node].depth)
  IN  IF i # 0 /\ tree[i].depth = tree[node].depth THEN i ELSE 0

\* Mutant: only the children of the form are looked at.
input_children(tree, parent_node) ==
  LET from[node \in 0 .. Len(tree)] ==
        IF node = 0 THEN <<>>
        ELSE (IF tree[node].kind = "input"
              THEN <<[name |-> tree[node].name, value |-> tree[node].value]>>
              ELSE <<>>) \o from[next_node(tree, node)]
  IN  from[xmlChildrenNode(tree, parent_node)]

\* The inputs at any depth below parent_node: from[node] are those of node
\* and of the siblings after it.
get_input_fields(tree, parent_node) ==
  LET from[node \in 0 .. Len(tree)] ==
        IF node = 0 THEN <<>>
        ELSE (CASE tree[node].kind = "input" ->
                     <<[name |-> tree[node].name, value |-> tree[node].value]>>
                [] tree[node].kind = "text" -> <<>>
                [] OTHER -> from[xmlChildrenNode(tree, node)])
             \o from[next_node(tree, node)]
  IN  from[xmlChildrenNode(tree, parent_node)]

form_at(tree, node) == [action |-> tree[node].action,
                        name |-> tree[node].name, value |-> tree[node].value,
                        input_fields |-> get_input_fields(tree, node)]

\* Mutant: the walk also descends into a form that was found.
forms_and_nested_forms(tree, root) ==
  LET from[node \in 0 .. Len(tree)] ==
        IF node = 0 THEN <<>>
        ELSE (IF tree[node].kind = "form" THEN <<form_at(tree, node)>> ELSE <<>>)
             \o from[xmlChildrenNode(tree, node)]
             \o from[next_node(tree, node)]
  IN  from[root]

\* The forms at any depth; what is in a form is not searched for forms.
get_form_fields(tree, root) ==
  LET from[node \in 0 .. Len(tree)] ==
        IF node = 0 THEN <<>>
        ELSE (CASE tree[node].kind = "form" -> <<form_at(tree, node)>>
                [] tree[node].kind = "text" -> <<>>
                [] OTHER -> from[xmlChildrenNode(tree, node)])
             \o from[next_node(tree, node)]
  IN  from[root]

\* The statuses of libtidy: negative when a stage failed, which skips the
\* stages after it, 1 for warnings, 2 for errors, which want the output to be
\* forced.  The process exits when there is no output.
tidy_failed(diagnosed, forced, saved) ==
  \/ diagnosed < 0
  \/ diagnosed > 1 /\ ~forced
  \/ saved < 0

\* libxml2 may not find a document, or no root in it.
get_forms(tree) == IF tree = <<>> THEN <<>> ELSE get_form_fields(tree, 1)
=============================================================================
