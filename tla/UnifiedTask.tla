---------------------------- MODULE UnifiedTask -----------------------------
(***************************************************************************)
(* How the data of a task travels: from the members of a JSON object into  *)
(* a gtask_t (copy_task_values, copy_link in gtasks.c), and from there     *)
(* into a unified_task_t (create_new_google_task in merge.c).              *)
(*                                                                         *)
(* A string is a pointer to its text and the structure that owns the       *)
(* memory: the parser of the reply, the Google task or the unified task.   *)
(* A date is a text, or UNSET when a GTimeVal nobody has written to is     *)
(* converted.  The node of a member is a record with its kind and value; a *)
(* number is 0 or any other integer.                                       *)
(***************************************************************************)
EXTENDS Naturals, Sequences

CONSTANTS NULL, UNSET

Str(text, owner) == [text |-> text, owner |-> owner]

StringMembers == {"id", "etag", "title", "parent", "notes", "status",
                  "selfLink", "position"}
DateMembers   == {"updated", "due", "completed"}
FlagMembers   == {"deleted", "hidden"}
Members       == StringMembers \cup DateMembers \cup FlagMembers \cup {"links"}
LinkMembers   == {"type", "description", "link"}

\* g_new0
new_gtask == [m \in Members |-> CASE m \in FlagMembers -> FALSE
                                  [] m = "links"       -> <<>>
                                  [] OTHER             -> NULL]
new_link == [m \in LinkMembers |-> NULL]

-----------------------------------------------------------------------------
(* From the reply to the Google task. *)

\* decode_json_foreach_wrapper passes on what holds a value or an array.
holds_value_or_array(node) == node.kind \notin {"null", "object"}

\* Mutant: the string of the parser is used.
json_node_get_string(node) ==
  IF node.kind = "string" THEN Str(node.value, "reply") ELSE NULL

json_node_dup_string(node) ==
  IF node.kind = "string" THEN Str(node.value, "task") ELSE NULL

\* External: a number is TRUE unless it is 0, and what is neither a number nor a
\* Boolean is FALSE.
json_node_get_boolean(node) ==
  \/ node.kind = "boolean" /\ node.value
  \/ node.kind = "number" /\ node.value # 0

\* External: only dates of this form are known.
Dates == {"2012-01-01T00:00:00Z"}

\* The result of g_time_val_from_iso8601 is not looked at: without a date the
\* GTimeVal on the stack is used as it is.
date_time(node) ==
  IF node.kind = "string" /\ node.value \in Dates THEN node.value ELSE UNSET

copy_link_attributes(link, name, node) ==
  IF name \in LinkMembers /\ holds_value_or_array(node)
  THEN [link EXCEPT ![name] = json_node_dup_string(node)] ELSE link

\* An element that is no object has no members, and gives an empty link.
copy_link(node) ==
  IF node.kind = "object"
  THEN [m \in LinkMembers |->
          IF m \in DOMAIN node.value
          THEN copy_link_attributes(new_link, m, node.value[m])[m] ELSE NULL]
  ELSE new_link

copy_task_values(task, name, node) ==
  IF ~holds_value_or_array(node) THEN task
  ELSE CASE name \in StringMembers -> [task EXCEPT ![name] = json_node_dup_string(node)]
         [] name \in DateMembers   -> [task EXCEPT ![name] = date_time(node)]
         [] name \in FlagMembers   -> [task EXCEPT ![name] = json_node_get_boolean(node)]
         [] name = "links" /\ node.kind = "array" ->
              [task EXCEPT !.links = @ \o [i \in DOMAIN node.value |-> copy_link(node.value[i])]]
         [] OTHER -> task

-----------------------------------------------------------------------------
(* From the Google task to the unified task. *)

g_strdup(string) == IF string = NULL THEN NULL ELSE [string EXCEPT !.owner = "unified"]

\* g_strconcat, whose arguments end at the first NULL.
unified_uid(id) ==
  IF id = NULL THEN NULL ELSE Str(<<id.text, "@google.com">>, "unified")

google_string_to_status(status) ==
  IF status # NULL /\ status.text = "completed"
  THEN "STATUS_COMPLETED" ELSE "STATUS_NEEDS_ACTION"

\* Mutant: the links are put in front of the list.
links_prepended(attach, link) == <<link>> \o attach

\* The link is copied, and then the Google task's own one is put into the list.
copy_google_link(attach, link) == Append(attach, link)

copied_links(links) ==
  LET upto[n \in 0 .. Len(links)] ==
        IF n = 0 THEN <<>> ELSE copy_google_link(upto[n - 1], links[n])
  IN  upto[Len(links)]

\* Dates are copied by adding 0 years, which gives NULL for NULL.
create_new_google_task(task) ==
  [uid |-> unified_uid(task.id),
   title |-> g_strdup(task.title),
   description |-> g_strdup(task.notes),
   url |-> g_strdup(task.selfLink),
   last_modified |-> task.updated,
   related |-> <<g_strdup(task.parent)>>,
   x_google_task_position |-> g_strdup(task.position),
   due |-> task.due,
   status |-> google_string_to_status(task.status),
   completed |-> task.completed,
   attach |-> copied_links(task.links),
   x_google_task_deleted |-> task.deleted,
   x_google_task_hidden |-> task.hidden,
   seq |-> 1]
=============================================================================
