----------------------------- MODULE MergeTasks -----------------------------
(***************************************************************************)
(* merge_tasks (merge.c): compare the iCalendar todos with the Google      *)
(* Tasks and sort them into merged tasks, unmatched todos, unmatched       *)
(* Google tasks and problems.                                              *)
(*                                                                         *)
(* Both collections are trees that g_tree_foreach walks in key order until *)
(* the callback returns TRUE; one step of the model is one callback.  A    *)
(* collection is the sequence of what the walk would visit: the UIDs of    *)
(* the todos, whose keys nobody looks at, and the IDs of the Google tasks, *)
(* which are the keys of their tree.  x_google_task_id is NULL in every    *)
(* task gtasks.c decodes, so the second lookup never finds anything.       *)
(***************************************************************************)
EXTENDS Integers, Sequences

CONSTANTS
  Ids,          \* the UIDs of todos and IDs of Google tasks
  NULL,
  TodoTrees,    \* the collections of todos merge_tasks may be given
  TaskTrees     \* the collections of Google tasks it may be given

Distinct(s) == \A i, j \in DOMAIN s : s[i] = s[j] => i = j
Elements(s) == {s[i] : i \in DOMAIN s}

ASSUME TreesAssumption ==
  /\ NULL \notin Ids
  /\ TodoTrees \subseteq Seq(Ids)
  /\ TaskTrees \subseteq {s \in Seq(Ids) : Distinct(s)}

VARIABLES
  icalendar_todos, google_tasks,   \* the arguments
  pc,                              \* "todos", "google" or "done"
  next,                            \* the index of the walk
  merged_tasks,                    \* the keys of the tree of merged tasks
  problems, unmatched_icalendar_todos, unmatched_google_tasks

arguments == <<icalendar_todos, google_tasks>>
vars == <<icalendar_todos, google_tasks, pc, next, merged_tasks, problems,
          unmatched_icalendar_todos, unmatched_google_tasks>>

\* g_tree_lookup in the tree of Google tasks.
Lookup(id) == IF id \in Elements(google_tasks) THEN id ELSE NULL

\* Merging two tasks is not written yet: there is never a merged task, and
\* the tree for them is never created.
merge_matching_tasks(uid, id) == NULL

google_task_is_in_problems_list(id) == id \in Elements(problems)

Init ==
  /\ icalendar_todos \in TodoTrees
  /\ google_tasks \in TaskTrees
  /\ pc = "todos"
  /\ next = 1
  /\ merged_tasks = {}
  /\ problems = <<>>
  /\ unmatched_icalendar_todos = <<>>
  /\ unmatched_google_tasks = <<>>

\* Mutant: a todo that has a match is also added to the unmatched todos.
match_also_unmatched ==
  LET uid == icalendar_todos[next]
  IN  /\ pc = "todos"
      /\ next <= Len(icalendar_todos)
      /\ unmatched_icalendar_todos' = Append(unmatched_icalendar_todos, uid)
      /\ IF Lookup(uid) # NULL
         THEN problems' = Append(problems, uid) /\ pc' = "google" /\ next' = 1
         ELSE next' = next + 1 /\ UNCHANGED <<pc, problems>>
      /\ UNCHANGED <<arguments, merged_tasks, unmatched_google_tasks>>

\* Mutant: what is added to the unmatched todos is what the lookup returned.
lookup_result_unmatched ==
  LET uid == icalendar_todos[next]
  IN  /\ pc = "todos"
      /\ next <= Len(icalendar_todos)
      /\ IF Lookup(uid) # NULL
         THEN /\ problems' = Append(problems, uid) /\ pc' = "google" /\ next' = 1
              /\ UNCHANGED unmatched_icalendar_todos
         ELSE /\ unmatched_icalendar_todos' =
                   Append(unmatched_icalendar_todos, Lookup(uid))
              /\ next' = next + 1
              /\ UNCHANGED <<pc, problems>>
      /\ UNCHANGED <<arguments, merged_tasks, unmatched_google_tasks>>

\* Mutant: the todo without a match is the problem.
unmatched_is_problem ==
  LET uid == icalendar_todos[next]
  IN  /\ pc = "todos"
      /\ next <= Len(icalendar_todos)
      /\ IF Lookup(uid) # NULL
         THEN pc' = "google" /\ next' = 1 /\ UNCHANGED problems
         ELSE problems' = Append(problems, uid) /\ next' = next + 1 /\ UNCHANGED pc
      /\ UNCHANGED <<arguments, merged_tasks, unmatched_icalendar_todos,
                     unmatched_google_tasks>>

(***************************************************************************)
(* A todo with a match is a problem unless the two can be merged, and      *)
(* stops the walk; a todo without one is unmatched.                        *)
(***************************************************************************)
merge_one_icalendar_match ==
  LET uid         == icalendar_todos[next]
      google_task == Lookup(uid)
  IN  /\ pc = "todos"
      /\ next <= Len(icalendar_todos)
      /\ \/ /\ google_task # NULL
            /\ problems' = IF merge_matching_tasks(uid, google_task) = NULL
                           THEN Append(problems, uid) ELSE problems
            /\ pc' = "google"
            /\ next' = 1
            /\ UNCHANGED unmatched_icalendar_todos
         \/ /\ google_task = NULL
            /\ unmatched_icalendar_todos' = Append(unmatched_icalendar_todos, uid)
            /\ next' = next + 1
            /\ UNCHANGED <<pc, problems>>
      /\ UNCHANGED <<arguments, merged_tasks, unmatched_google_tasks>>

\* The walk over the todos ends, the walk over the Google tasks begins.
todos_walked ==
  /\ pc = "todos"
  /\ next > Len(icalendar_todos)
  /\ pc' = "google"
  /\ next' = 1
  /\ UNCHANGED <<arguments, merged_tasks, problems, unmatched_icalendar_todos,
                 unmatched_google_tasks>>

\* Mutant: the walk stops at the first task that is unmatched.
missing_stops_walk ==
  LET id == google_tasks[next]
  IN  /\ pc = "google"
      /\ next <= Len(google_tasks)
      /\ IF id \notin merged_tasks /\ ~google_task_is_in_problems_list(id)
         THEN /\ unmatched_google_tasks' = Append(unmatched_google_tasks, id)
              /\ next' = Len(google_tasks) + 1
         ELSE UNCHANGED unmatched_google_tasks /\ next' = next + 1
      /\ UNCHANGED <<arguments, pc, merged_tasks, problems,
                     unmatched_icalendar_todos>>

\* Mutant: the task is put in front of the list.
missing_prepended ==
  LET id == google_tasks[next]
  IN  /\ pc = "google"
      /\ next <= Len(google_tasks)
      /\ next' = next + 1
      /\ unmatched_google_tasks' =
           IF id \notin merged_tasks /\ ~google_task_is_in_problems_list(id)
           THEN <<id>> \o unmatched_google_tasks
           ELSE unmatched_google_tasks
      /\ UNCHANGED <<arguments, pc, merged_tasks, problems,
                     unmatched_icalendar_todos>>

\* A Google task that is neither merged nor a problem is unmatched.
find_missing_google_matches ==
  LET id == google_tasks[next]
  IN  /\ pc = "google"
      /\ next <= Len(google_tasks)
      /\ next' = next + 1
      /\ unmatched_google_tasks' =
           IF id \notin merged_tasks /\ ~google_task_is_in_problems_list(id)
           THEN Append(unmatched_google_tasks, id)
           ELSE unmatched_google_tasks
      /\ UNCHANGED <<arguments, pc, merged_tasks, problems,
                     unmatched_icalendar_todos>>

google_walked ==
  /\ pc = "google"
  /\ next > Len(google_tasks)
  /\ pc' = "done"
  /\ UNCHANGED <<arguments, next, merged_tasks, problems,
                 unmatched_icalendar_todos, unmatched_google_tasks>>

\* merge_tasks has returned.
Returned == pc = "done" /\ UNCHANGED vars

Next ==
  \/ merge_one_icalendar_match \/ todos_walked
  \/ find_missing_google_matches \/ google_walked
  \/ Returned

Spec == Init /\ [][Next]_vars

-----------------------------------------------------------------------------
(* Properties. *)

\* The lists hold IDs; the index runs over the collection being walked.
TypeOK ==
  /\ icalendar_todos \in Seq(Ids)
  /\ google_tasks \in Seq(Ids)
  /\ pc \in {"todos", "google", "done"}
  /\ next \in 1 .. Len(IF pc = "todos" THEN icalendar_todos ELSE google_tasks) + 1
  /\ merged_tasks \subseteq Ids
  /\ problems \in Seq(Ids)
  /\ unmatched_icalendar_todos \in Seq(Ids)
  /\ unmatched_google_tasks \in Seq(Ids)

\* No Google task is lost and none is sorted into two classes: when
\* merge_tasks returns, each one is unmatched or a problem, not both.
NoGoogleTaskLost ==
  pc = "done" =>
    \A id \in Elements(google_tasks) :
      id \in Elements(unmatched_google_tasks) <=> id \notin Elements(problems)

\* A todo is called unmatched only if no Google task has its UID, however
\* early the walk over the todos stopped.
UnmatchedTodosHaveNoTask ==
  /\ Elements(unmatched_icalendar_todos) \subseteq Elements(icalendar_todos)
  /\ Elements(unmatched_icalendar_todos) \cap Elements(google_tasks) = {}

\* A problem is a todo that has a Google task, which the second walk must
\* then not call unmatched.
ProblemsAreMatches ==
  /\ Elements(problems) \subseteq Elements(icalendar_todos) \cap Elements(google_tasks)
  /\ Elements(problems) \cap Elements(unmatched_google_tasks) = {}

\* The unmatched lists keep the order of the trees they come from.
InTreeOrder ==
  /\ \A i, j \in DOMAIN unmatched_google_tasks :
       i < j => \E k, l \in DOMAIN google_tasks :
                  /\ k < l
                  /\ google_tasks[k] = unmatched_google_tasks[i]
                  /\ google_tasks[l] = unmatched_google_tasks[j]
  /\ \A i \in DOMAIN unmatched_icalendar_todos :
       unmatched_icalendar_todos[i] = icalendar_todos[i]

-----------------------------------------------------------------------------
(* What the comments say and the code does not do. *)

\* merge.c: "This function finds all matches and adds the iCalendar entries
\* without a match to the iCalendar-unmatched list."
AllTodosClassified ==
  pc = "done" =>
    Elements(icalendar_todos) =
      Elements(unmatched_icalendar_todos) \cup Elements(problems) \cup merged_tasks
=============================================================================
