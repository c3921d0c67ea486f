---------------------------- MODULE TaskSources -----------------------------
(***************************************************************************)
(* The two collections merge_tasks compares come from Google's replies and *)
(* from iCalendar files.  A behaviour reads one of them: a JSON object,    *)
(* whose members are decoded in any order into a Google task, which        *)
(* becomes a unified task; or one file after the other.                    *)
(***************************************************************************)
EXTENDS UnifiedTask, ICalFile

CONSTANTS
  Objects,   \* the JSON objects that may be decoded
  Texts      \* the texts of the strings in them

Node(kind, value) == [kind |-> kind, value |-> value]

IsText(node) == node.kind = "string" => node.value \in Texts
IsLink(node) ==
  node.kind = "object" => \A m \in DOMAIN node.value : IsText(node.value[m])
IsMember(node) ==
  /\ IsText(node)
  /\ node.kind = "boolean" => node \in {Node("boolean", TRUE), Node("boolean", FALSE)}
  /\ node.kind = "number" => node.value \in Int
  /\ node.kind = "array" =>
       /\ node.value \in Seq({node.value[i] : i \in DOMAIN node.value})
       /\ \A i \in DOMAIN node.value : IsLink(node.value[i])

ASSUME ObjectsAssumption == \A members \in Objects : \A m \in DOMAIN members : IsMember(members[m])

\* NULL is no string, as text and as pointer.
ASSUME NullAssumption ==
  /\ NULL \notin Texts \cup Dates \cup {"completed"}
  /\ NULL \notin [text : Texts \cup (Texts \X {"@google.com"}),
                  owner : {"reply", "task", "unified"}]

VARIABLES
  source,     \* "reply" or "file"
  object,     \* the members of the JSON object
  decoded,    \* those that have been decoded
  task, unified,
  step

reply_vars == <<object, decoded, task, unified, step>>
vars == <<source, reply_vars, ical_vars>>

Init ==
  /\ ICalInit
  /\ decoded = {}
  /\ task = new_gtask
  /\ unified = NULL
  /\ step = "decode"
  /\ \/ source = "file" /\ object = <<>>
     \/ source = "reply" /\ object \in Objects

DecodeMember ==
  /\ step = "decode"
  /\ \E m \in DOMAIN object \ decoded :
       /\ task' = copy_task_values(task, m, object[m])
       /\ decoded' = decoded \cup {m}
  /\ UNCHANGED <<object, unified, step>>

ReleaseParser ==
  /\ step = "decode"
  /\ decoded = DOMAIN object
  /\ step' = "decoded"
  /\ UNCHANGED <<object, decoded, task, unified>>

CreateTask ==
  /\ step = "decoded"
  /\ unified' = create_new_google_task(task)
  /\ step' = "created"
  /\ UNCHANGED <<object, decoded, task>>

Created == step = "created" /\ UNCHANGED reply_vars

Next ==
  \/ /\ source = "reply"
     /\ DecodeMember \/ ReleaseParser \/ CreateTask \/ Created
     /\ UNCHANGED <<source, ical_vars>>
  \/ source = "file" /\ ICalNext /\ UNCHANGED <<source, reply_vars>>

Spec == Init /\ [][Next]_vars

-----------------------------------------------------------------------------
(* What the unified task should hold, read off the JSON object. *)

Text(string) == IF string = NULL THEN NULL ELSE string.text

\* The text of a member that is there and is a string.
StringIn(members, m) ==
  IF m \in DOMAIN members /\ members[m].kind = "string" THEN members[m].value ELSE NULL

\* A date, where there is one; nothing where there is no value at all.
DateIn(m) == IF StringIn(object, m) \in Dates THEN StringIn(object, m) ELSE NULL
HasNoDate(m) == m \in DOMAIN object /\ holds_value_or_array(object[m])
                /\ StringIn(object, m) \notin Dates

\* true and, as json-glib has it, any number but 0.
FlagIn(m) == /\ m \in DOMAIN object
             /\ \/ object[m] = Node("boolean", TRUE)
                \/ object[m].kind = "number" /\ object[m].value # 0

LinksIn == IF "links" \in DOMAIN object /\ object["links"].kind = "array"
           THEN object["links"].value ELSE <<>>

FieldOf == [title |-> "title", description |-> "notes", url |-> "selfLink",
            x_google_task_position |-> "position"]
FlagOf  == [x_google_task_deleted |-> "deleted", x_google_task_hidden |-> "hidden"]
DateOf  == [last_modified |-> "updated", due |-> "due", completed |-> "completed"]

\* A unified task holds what the reply said, whatever the order of the members
\* and whatever else stood there: each member in its own field, no text for a
\* member that is missing or no string, a flag only for true or a number, the
\* links in their order; so a task made of an error reply holds nothing.  What
\* becomes of a member that should be a date and cannot be read as one is left
\* open.
CarriedOver ==
  step = "created" =>
    /\ \A f \in DOMAIN FieldOf : Text(unified[f]) = StringIn(object, FieldOf[f])
    /\ \A f \in DOMAIN DateOf : HasNoDate(DateOf[f]) \/ unified[f] = DateIn(DateOf[f])
    /\ \A f \in DOMAIN FlagOf : unified[f] = FlagIn(FlagOf[f])
    /\ unified.related # <<>> => Text(unified.related[1]) = StringIn(object, "parent")
    /\ Text(unified.uid) = IF StringIn(object, "id") = NULL THEN NULL
                           ELSE <<StringIn(object, "id"), "@google.com">>
    /\ unified.status = IF StringIn(object, "status") = "completed"
                        THEN "STATUS_COMPLETED" ELSE "STATUS_NEEDS_ACTION"
    /\ Len(unified.attach) = Len(LinksIn)
    /\ \A i \in DOMAIN LinksIn, m \in LinkMembers :
         Text(unified.attach[i][m]) =
           IF LinksIn[i].kind = "object" THEN StringIn(LinksIn[i].value, m) ELSE NULL

StringFields == DOMAIN FieldOf \cup {"uid"}

\* The reply and the Google task may be released before the unified task: the
\* strings of either task are its own.  The links are the exception:
\* copy_google_link puts those of the Google task into the unified one.
StringsOwned ==
  /\ step # "decode" =>
       /\ \A m \in StringMembers : task[m] # NULL => task[m].owner = "task"
       /\ \A i \in DOMAIN task.links, m \in LinkMembers :
            task.links[i][m] # NULL => task.links[i][m].owner = "task"
  /\ step = "created" =>
       /\ \A f \in StringFields : unified[f] # NULL => unified[f].owner = "unified"
       /\ \A i \in DOMAIN unified.related :
            unified.related[i] # NULL => unified.related[i].owner = "unified"
=============================================================================
