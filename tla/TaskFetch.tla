----------------------------- MODULE TaskFetch ------------------------------
(***************************************************************************)
(* The Tasks API client (gtasks.c): get_gtasks_lists,                      *)
(* get_specified_gtasks_list, get_all_list_tasks and get_specified_task,   *)
(* with the server's task list beside them, which other clients may edit   *)
(* between two requests.                                                   *)
(*                                                                         *)
(* get_all_list_tasks reads one page, calls itself for the page its reply  *)
(* names and appends what that call returns; "stack" is its call stack.    *)
(*                                                                         *)
(* Abstractions: a task or a list is its ID, and its other members are     *)
(* copied with it.  A page token is the number of tasks on the pages       *)
(* before it, 0 being no token (NULL): Google's tokens are opaque, and     *)
(* this one shows what an edit between two pages does.  A reply is NULL    *)
(* when nothing was received; one that is not a JSON object, or an object  *)
(* that describes an error, has none of the members the decoders look for. *)
(***************************************************************************)
EXTENDS Integers, Sequences

CONSTANTS
  Tasks,       \* the IDs of tasks
  InitialLists,  \* the task lists the server may start with
  Lists,       \* the user's task lists, in the order the server has them
  PageSize,    \* the most entries of one page
  NULL,
  MaxCalls,    \* bound: calls of the four functions
  MaxEdits     \* bound: edits by other clients

ASSUME PageSizeAssumption == PageSize \in Nat \ {0}
ASSUME NullAssumption == NULL # "title"
ASSUME ListAssumption == InitialLists \subseteq Seq(Tasks)
ASSUME ListsAssumption == Lists \in Seq(STRING)

VARIABLES
  task_list,   \* external: the tasks of the list on the server
  op,          \* the function that was called last
  pc,
  stack,       \* the active calls of get_all_list_tasks
  response,    \* json_response, decoded
  tasks,       \* what get_all_list_tasks returned last
  lists,       \* what get_gtasks_lists returned
  list_entry,  \* what get_specified_gtasks_list returned
  task,        \* what get_specified_task returned
  wanted,      \* the task asked for
  quiet,       \* no edit since the call began (history)
  whole,       \* no error reply since the call began (history)
  calls, edits

server == <<task_list, edits>>
results == <<tasks, lists, list_entry, task>>
vars == <<task_list, op, pc, stack, response, tasks, lists, list_entry, task,
          wanted, quiet, whole, calls, edits>>

Functions == {"get_gtasks_lists", "get_specified_gtasks_list",
              "get_all_list_tasks", "get_specified_task"}

NoToken == 0

\* A decoded reply: the array "items", "nextPageToken", "id" and "title".
NoMembers == [items |-> <<>>, nextPageToken |-> NoToken, id |-> NULL, title |-> NULL]

Frame(token) == [page_token |-> token, tasks |-> <<>>]

Top == stack[Len(stack)]
Below == SubSeq(stack, 1, Len(stack) - 1)

-----------------------------------------------------------------------------
(* The calls. *)

Call(f, frames) ==
  /\ pc = "idle"
  /\ calls < MaxCalls
  /\ calls' = calls + 1
  /\ op' = f
  /\ stack' = frames
  /\ pc' = "sent"
  /\ quiet' = TRUE
  /\ whole' = TRUE
  /\ UNCHANGED <<server, results, response>>

get_gtasks_lists == Call("get_gtasks_lists", <<>>) /\ UNCHANGED wanted

get_specified_gtasks_list ==
  Call("get_specified_gtasks_list", <<>>) /\ UNCHANGED wanted

get_all_list_tasks ==
  Call("get_all_list_tasks", <<Frame(NoToken)>>) /\ UNCHANGED wanted

get_specified_task ==
  Call("get_specified_task", <<>>) /\ wanted' \in Tasks

-----------------------------------------------------------------------------
(* The server, external. *)

Reply(r, isWhole) ==
  /\ pc = "sent"
  /\ response' = r
  /\ whole' = (whole /\ isWhole)
  /\ pc' = "answered"
  /\ UNCHANGED <<server, op, stack, results, wanted, quiet, calls>>

\* The n entries of s after the first t, and the token of what follows them.
Page(s, t, n) ==
  [NoMembers EXCEPT
     !.items = SubSeq(s, t + 1, IF t + n < Len(s) THEN t + n ELSE Len(s)),
     !.nextPageToken = IF t + n < Len(s) THEN t + n ELSE NoToken]

\* A page holds any positive number of tasks up to its size.
ServeTasks(n) ==
  /\ op = "get_all_list_tasks"
  /\ Reply(Page(task_list, Top.page_token, n), TRUE)

ServeLists ==
  /\ op = "get_gtasks_lists"
  /\ Reply(Page(Lists, 0, PageSize), TRUE)

ServeList ==
  /\ op = "get_specified_gtasks_list"
  /\ Reply([NoMembers EXCEPT !.id = "list", !.title = "title"], TRUE)

ServeTask ==
  /\ op = "get_specified_task"
  /\ \E i \in DOMAIN task_list : task_list[i] = wanted
  /\ Reply([NoMembers EXCEPT !.id = wanted, !.title = "title"], TRUE)

\* The token has expired, the list or the task is gone, the quota is used up.
ServeError == Reply(NoMembers, FALSE)

\* Nothing is received.
LoseReply == Reply(NULL, FALSE)

\* Another client adds a task in front or at the end, or deletes one.
Edited(s) ==
  {<<t>> \o s : t \in Tasks} \cup {Append(s, t) : t \in Tasks}
    \cup {SubSeq(s, 1, i - 1) \o SubSeq(s, i + 1, Len(s)) : i \in DOMAIN s}

Distinct(s) == \A i, j \in DOMAIN s : s[i] = s[j] => i = j

Edit ==
  /\ edits < MaxEdits
  /\ edits' = edits + 1
  /\ task_list' \in {s \in Edited(task_list) : Distinct(s)}
  /\ quiet' = FALSE
  /\ UNCHANGED <<op, pc, stack, response, results, wanted, whole, calls>>

-----------------------------------------------------------------------------
(* The replies. *)

\* strlen(NULL) in decode_json_reply, whatever the function.
no_reply ==
  /\ pc = "answered"
  /\ response = NULL
  /\ pc' = "crash"
  /\ UNCHANGED <<server, op, stack, response, results, wanted, quiet, whole, calls>>

Decode(f) == pc = "answered" /\ response # NULL /\ op = f

\* Mutant: the page just read is requested again.
decode_page_again ==
  /\ Decode("get_all_list_tasks")
  /\ IF response.nextPageToken # NoToken
     THEN /\ stack' = Append(Append(Below, [Top EXCEPT !.tasks = response.items]),
                             Frame(Top.page_token))
          /\ pc' = "sent"
          /\ UNCHANGED tasks
     ELSE /\ tasks' = response.items
          /\ stack' = Below
          /\ pc' = "return"
  /\ UNCHANGED <<server, op, response, lists, list_entry, task, wanted, quiet,
                 whole, calls>>

\* Mutant: a page without any task is requested again.
decode_page_retrying ==
  /\ Decode("get_all_list_tasks")
  /\ \/ /\ response.nextPageToken # NoToken
        /\ stack' = Append(Append(Below, [Top EXCEPT !.tasks = response.items]),
                           Frame(response.nextPageToken))
        /\ pc' = "sent"
        /\ UNCHANGED tasks
     \/ /\ response.nextPageToken = NoToken /\ response.items # <<>>
        /\ tasks' = response.items
        /\ stack' = Below
        /\ pc' = "return"
     \/ /\ response = NoMembers
        /\ pc' = "sent"
        /\ UNCHANGED <<stack, tasks>>
  /\ UNCHANGED <<server, op, response, lists, list_entry, task, wanted, quiet,
                 whole, calls>>

\* The tasks of the reply are this call's page.  If the reply names another
\* page the function calls itself for it, otherwise it returns.
decode_task_page ==
  /\ Decode("get_all_list_tasks")
  /\ IF response.nextPageToken # NoToken
     THEN /\ stack' = Append(Append(Below, [Top EXCEPT !.tasks = response.items]),
                             Frame(response.nextPageToken))
          /\ pc' = "sent"
          /\ UNCHANGED tasks
     ELSE /\ tasks' = response.items
          /\ stack' = Below
          /\ pc' = "return"
  /\ UNCHANGED <<server, op, response, lists, list_entry, task, wanted, quiet,
                 whole, calls>>

\* Mutant: the page is appended to the tasks of the pages after it.
append_in_front ==
  /\ pc = "return"
  /\ stack # <<>>
  /\ tasks' = tasks \o Top.tasks
  /\ stack' = Below
  /\ UNCHANGED <<server, op, pc, response, lists, list_entry, task, wanted,
                 quiet, whole, calls>>

\* A call is back in the one that made it, which appends what it returned to
\* its own page and returns in turn.
append_tasks ==
  /\ pc = "return"
  /\ stack # <<>>
  /\ tasks' = Top.tasks \o tasks
  /\ stack' = Below
  /\ UNCHANGED <<server, op, pc, response, lists, list_entry, task, wanted,
                 quiet, whole, calls>>

\* Mutant: the first call to return ends the whole read.
return_at_once ==
  /\ pc = "return"
  /\ pc' = "idle"
  /\ UNCHANGED <<server, op, stack, response, results, wanted, quiet, whole, calls>>

return_tasks ==
  /\ pc = "return"
  /\ stack = <<>>
  /\ pc' = "idle"
  /\ UNCHANGED <<server, op, stack, response, results, wanted, quiet, whole, calls>>

\* Only the array "items" is looked at: a further page is not asked for.
decode_tasklists_json ==
  /\ Decode("get_gtasks_lists")
  /\ lists' = response.items
  /\ pc' = "idle"
  /\ UNCHANGED <<server, op, stack, response, tasks, list_entry, task, wanted,
                 quiet, whole, calls>>

\* An entry without a title is taken for an error.
copy_list_name_values ==
  /\ Decode("get_specified_gtasks_list")
  /\ list_entry' = IF response.title = NULL THEN NULL ELSE response.id
  /\ pc' = "idle"
  /\ UNCHANGED <<server, op, stack, response, tasks, lists, task, wanted, quiet,
                 whole, calls>>

\* Mutant: a member the reply does not have keeps its value.
copy_task_over(old) == [id    |-> IF response.id = NULL THEN old.id ELSE response.id,
                        title |-> IF response.title = NULL THEN old.title ELSE response.title]
task_reused ==
  /\ Decode("get_specified_task")
  /\ task' = IF task = NULL THEN [id |-> response.id, title |-> response.title]
             ELSE copy_task_over(task)
  /\ pc' = "idle"
  /\ UNCHANGED <<server, op, stack, response, tasks, lists, list_entry, wanted,
                 quiet, whole, calls>>

\* The members of the reply, if it has any, are copied into a new task.
copy_task_values ==
  /\ Decode("get_specified_task")
  /\ task' = [id |-> response.id, title |-> response.title]
  /\ pc' = "idle"
  /\ UNCHANGED <<server, op, stack, response, tasks, lists, list_entry, wanted,
                 quiet, whole, calls>>

-----------------------------------------------------------------------------
Init ==
  /\ task_list \in InitialLists
  /\ op = "none"
  /\ pc = "idle"
  /\ stack = <<>>
  /\ response = NULL
  /\ tasks = <<>>
  /\ lists = <<>>
  /\ list_entry = NULL
  /\ task = NULL
  /\ wanted = NULL
  /\ quiet = TRUE
  /\ whole = TRUE
  /\ calls = 0
  /\ edits = 0

Caller ==
  get_gtasks_lists \/ get_specified_gtasks_list \/ get_all_list_tasks
    \/ get_specified_task

Client ==
  \/ no_reply \/ decode_task_page \/ append_tasks \/ return_tasks
  \/ decode_tasklists_json \/ copy_list_name_values \/ copy_task_values

Server ==
  \/ \E n \in 1 .. PageSize : ServeTasks(n)
  \/ ServeLists \/ ServeList \/ ServeTask \/ ServeError \/ LoseReply

\* The process is gone, or its caller has no more calls to make.
Finished ==
  /\ pc = "crash" \/ (pc = "idle" /\ calls = MaxCalls)
  /\ UNCHANGED vars

Next == Caller \/ Client \/ Server \/ Edit \/ Finished

Spec == Init /\ [][Next]_vars

\* The client runs when it has a reply; that there is one, an answer or a
\* broken connection, is an assumption, as the code sets no timeout.
FairSpec == Spec /\ WF_vars(Client) /\ WF_vars(Server)

-----------------------------------------------------------------------------
(* Properties. *)

\* The call stack exists only while tasks are being read.
TypeOK ==
  /\ pc \in {"idle", "sent", "answered", "return", "crash"}
  /\ op \in Functions \cup {"none"}
  /\ \A i \in DOMAIN stack :
       stack[i].page_token \in Nat /\ stack[i].tasks \in Seq(Tasks)
  /\ tasks \in Seq(Tasks)
  /\ pc = "idle" => stack = <<>>
  /\ pc \in {"sent", "answered"} /\ op = "get_all_list_tasks" => stack # <<>>

TasksReturned == pc = "idle" /\ op = "get_all_list_tasks"

\* When nobody edits the list and every reply is a page, the tasks returned
\* are those of the list, in its order, in whatever pages they came.
CompleteWhenQuiet == TasksReturned /\ quiet /\ whole => tasks = task_list

\* When nobody edits the list, an error reply can only cut the result short:
\* no task is missing from the middle, doubled or out of order.
PrefixWhenQuiet ==
  TasksReturned /\ quiet => \E n \in 0 .. Len(task_list) : tasks = SubSeq(task_list, 1, n)

\* The recursion is no deeper than the list has tasks.
DepthBounded == quiet => Len(stack) <= 1 \/ Len(stack) <= Len(task_list)

\* Every call returns or ends the process.
CallsEnd == [](pc = "sent" => <>(pc \in {"idle", "crash"}))

\* What get_specified_task and get_specified_gtasks_list return is their own
\* reply's, and nothing after an error reply: no member is left over from the
\* call before.  The lists of get_gtasks_lists are the user's, in their order and
\* from the first one on.
OwnReplyOnly ==
  pc = "idle" =>
    /\ op = "get_specified_task" =>
         task = IF whole THEN [id |-> wanted, title |-> "title"]
                         ELSE [id |-> NULL, title |-> NULL]
    /\ op = "get_specified_gtasks_list" => list_entry = IF whole THEN "list" ELSE NULL
    /\ op = "get_gtasks_lists" => \E n \in 0 .. Len(Lists) : lists = SubSeq(Lists, 1, n)
=============================================================================
