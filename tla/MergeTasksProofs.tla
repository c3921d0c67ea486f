-------------------------- MODULE MergeTasksProofs --------------------------
(***************************************************************************)
(* The safety properties of merge_tasks for collections of any size.       *)
(***************************************************************************)
EXTENDS MergeTasks, SequenceTheorems, TLAPS

\* What Append adds to the elements of a sequence.
LEMMA ElementsOfAppend ==
  ASSUME NEW S, NEW s \in Seq(S), NEW e \in S
  PROVE  Elements(Append(s, e)) = Elements(s) \cup {e}
<1>1. /\ DOMAIN s = 1 .. Len(s) /\ Len(s) \in Nat
      /\ DOMAIN Append(s, e) = 1 .. Len(s) + 1
      /\ \A i \in 1 .. Len(s) : Append(s, e)[i] = s[i]
      /\ Append(s, e)[Len(s) + 1] = e
  BY AppendProperties, LenProperties
<1>2. 1 .. Len(s) + 1 = (1 .. Len(s)) \cup {Len(s) + 1}
  BY <1>1
<1> QED BY <1>1, <1>2 DEF Elements

-----------------------------------------------------------------------------
(* Types. *)

LEMMA TypeInit == Init => TypeOK
<1> SUFFICES ASSUME Init PROVE TypeOK
  OBVIOUS
<1>1. icalendar_todos \in Seq(Ids) /\ google_tasks \in Seq(Ids)
  BY TreesAssumption DEF Init
<1>2. Len(icalendar_todos) \in Nat
  BY <1>1
<1> QED BY <1>1, <1>2 DEF Init, TypeOK

LEMMA TypeStep == TypeOK /\ [Next]_vars => TypeOK'
<1> SUFFICES ASSUME TypeOK, [Next]_vars PROVE TypeOK'
  OBVIOUS
<1>1. /\ icalendar_todos \in Seq(Ids) /\ google_tasks \in Seq(Ids)
      /\ Len(icalendar_todos) \in Nat /\ Len(google_tasks) \in Nat
  BY DEF TypeOK
<1>2. CASE merge_one_icalendar_match
  <2>1. icalendar_todos[next] \in Ids
    BY <1>1, <1>2 DEF merge_one_icalendar_match, TypeOK
  <2>2. UNCHANGED <<arguments, merged_tasks, unmatched_google_tasks>>
    BY <1>2 DEF merge_one_icalendar_match
  <2>3. problems' \in Seq(Ids) /\ unmatched_icalendar_todos' \in Seq(Ids)
    <3>1. /\ Append(problems, icalendar_todos[next]) \in Seq(Ids)
          /\ Append(unmatched_icalendar_todos, icalendar_todos[next]) \in Seq(Ids)
      BY <2>1, AppendProperties DEF TypeOK
    <3> QED BY <1>2, <3>1 DEF merge_one_icalendar_match, TypeOK
  <2>4. \/ pc' = "google" /\ next' = 1
        \/ pc' = "todos" /\ next' \in 1 .. Len(icalendar_todos) + 1
    BY <1>1, <1>2 DEF merge_one_icalendar_match, TypeOK
  <2> QED BY <1>1, <2>2, <2>3, <2>4 DEF arguments, TypeOK
<1>3. CASE todos_walked
  BY <1>1, <1>3 DEF todos_walked, arguments, TypeOK
<1>4. CASE find_missing_google_matches
  <2>1. google_tasks[next] \in Ids
    BY <1>1, <1>4 DEF find_missing_google_matches, TypeOK
  <2> QED BY <1>1, <1>4, <2>1 DEF find_missing_google_matches, arguments, TypeOK
<1>5. CASE google_walked
  BY <1>1, <1>5 DEF google_walked, arguments, TypeOK
<1>6. CASE Returned \/ UNCHANGED vars
  BY <1>6 DEF Returned, vars, TypeOK
<1> QED BY <1>2, <1>3, <1>4, <1>5, <1>6 DEF Next

\* The lists of merge_tasks hold IDs and its walks stay inside the trees.
THEOREM TypeCorrect == Spec => []TypeOK
  BY TypeInit, TypeStep, PTL DEF Spec

-----------------------------------------------------------------------------
(* The walk over the todos. *)

TodosInv ==
  /\ UnmatchedTodosHaveNoTask
  /\ Elements(problems) \subseteq Elements(icalendar_todos) \cap Elements(google_tasks)

LEMMA TodosInit == Init => TodosInv
  BY DEF Init, TodosInv, UnmatchedTodosHaveNoTask, Elements

LEMMA TodosStep == TypeOK /\ TodosInv /\ [Next]_vars => TodosInv'
<1> SUFFICES ASSUME TypeOK, TodosInv, [Next]_vars PROVE TodosInv'
  OBVIOUS
<1>1. CASE merge_one_icalendar_match
  <2> DEFINE uid == icalendar_todos[next]
  <2>1. uid \in Ids /\ uid \in Elements(icalendar_todos)
    BY <1>1 DEF merge_one_icalendar_match, TypeOK, Elements
  <2>2. /\ UNCHANGED <<icalendar_todos, google_tasks>>
        /\ Elements(icalendar_todos)' = Elements(icalendar_todos)
        /\ Elements(google_tasks)' = Elements(google_tasks)
    BY <1>1 DEF merge_one_icalendar_match, arguments, Elements
  <2>3. CASE uid \in Elements(google_tasks)
    <3>1. Lookup(uid) # NULL
      BY <2>1, <2>3, TreesAssumption DEF Lookup
    <3>2. /\ problems' = Append(problems, uid)
          /\ UNCHANGED unmatched_icalendar_todos
      BY <1>1, <3>1 DEF merge_one_icalendar_match, merge_matching_tasks
    <3>3. Elements(problems)' = Elements(problems) \cup {uid}
      BY <2>1, <3>2, ElementsOfAppend DEF TypeOK
    <3>4. Elements(unmatched_icalendar_todos)' = Elements(unmatched_icalendar_todos)
      BY <3>2 DEF Elements
    <3> QED BY <2>1, <2>2, <2>3, <3>3, <3>4 DEF TodosInv, UnmatchedTodosHaveNoTask
  <2>4. CASE uid \notin Elements(google_tasks)
    <3>1. Lookup(uid) = NULL
      BY <2>4 DEF Lookup
    <3>2. /\ unmatched_icalendar_todos' = Append(unmatched_icalendar_todos, uid)
          /\ UNCHANGED problems
      BY <1>1, <3>1 DEF merge_one_icalendar_match
    <3>3. Elements(unmatched_icalendar_todos)' =
            Elements(unmatched_icalendar_todos) \cup {uid}
      BY <2>1, <3>2, ElementsOfAppend DEF TypeOK
    <3>4. Elements(problems)' = Elements(problems)
      BY <3>2 DEF Elements
    <3> QED BY <2>1, <2>2, <2>4, <3>3, <3>4 DEF TodosInv, UnmatchedTodosHaveNoTask
  <2> QED BY <2>3, <2>4
<1>2. ASSUME UNCHANGED <<icalendar_todos, google_tasks, problems,
                         unmatched_icalendar_todos>>
      PROVE  TodosInv'
  BY <1>2 DEF TodosInv, UnmatchedTodosHaveNoTask, Elements
<1>3. CASE todos_walked \/ find_missing_google_matches \/ google_walked
  BY <1>2, <1>3 DEF todos_walked, find_missing_google_matches, google_walked, arguments
<1>4. CASE Returned \/ UNCHANGED vars
  BY <1>2, <1>4 DEF Returned, vars
<1> QED BY <1>1, <1>3, <1>4 DEF Next

\* A todo that merge_one_icalendar_match calls unmatched has no Google task.
THEOREM UnmatchedTodosSound == Spec => []UnmatchedTodosHaveNoTask
<1>1. TypeOK /\ TodosInv => UnmatchedTodosHaveNoTask
  BY DEF TodosInv
<1> QED BY <1>1, TypeInit, TypeStep, TodosInit, TodosStep, PTL DEF Spec

-----------------------------------------------------------------------------
(* The walk over the Google tasks. *)

\* The tasks before the index are sorted, each into the class it belongs to;
\* the problems are complete before this walk begins.
Walked == IF pc = "todos" THEN {}
          ELSE IF pc = "google" THEN {google_tasks[i] : i \in 1 .. next - 1}
          ELSE Elements(google_tasks)

GoogleInv ==
  /\ merged_tasks = {}
  /\ Elements(unmatched_google_tasks) = Walked \ Elements(problems)

LEMMA GoogleInit == Init => GoogleInv
  BY DEF Init, GoogleInv, Walked, Elements

LEMMA GoogleStep == TypeOK /\ GoogleInv /\ [Next]_vars => GoogleInv'
<1> SUFFICES ASSUME TypeOK, GoogleInv, [Next]_vars PROVE GoogleInv'
  OBVIOUS
<1> USE DEF GoogleInv
<1>1. DOMAIN google_tasks = 1 .. Len(google_tasks) /\ Len(google_tasks) \in Nat
  BY DEF TypeOK
<1>2. CASE merge_one_icalendar_match
  <2>1. /\ merged_tasks' = {}
        /\ Elements(unmatched_google_tasks)' = {}
    BY <1>2 DEF merge_one_icalendar_match, Walked, Elements
  <2>2. Walked' = {}
    BY <1>2 DEF merge_one_icalendar_match, Walked
  <2> QED BY <2>1, <2>2
<1>3. CASE todos_walked
  <2>1. /\ merged_tasks' = {}
        /\ Elements(unmatched_google_tasks)' = {}
    BY <1>3 DEF todos_walked, Walked, Elements
  <2>2. Walked' = {}
    BY <1>3 DEF todos_walked, Walked
  <2> QED BY <2>1, <2>2
<1>4. CASE find_missing_google_matches
  <2> DEFINE id == google_tasks[next]
  <2>1. next \in 1 .. Len(google_tasks) /\ id \in Ids
    BY <1>1, <1>4 DEF find_missing_google_matches, TypeOK
  <2>2. Walked' = Walked \cup {id}
    BY <1>4, <2>1 DEF find_missing_google_matches, arguments, Walked
  <2>3. /\ Elements(problems)' = Elements(problems)
        /\ merged_tasks' = {}
    BY <1>4 DEF find_missing_google_matches, Elements
  <2>4. CASE id \in Elements(problems)
    <3>1. Elements(unmatched_google_tasks)' = Elements(unmatched_google_tasks)
      BY <1>4, <2>4 DEF find_missing_google_matches,
                        google_task_is_in_problems_list, Elements
    <3> QED BY <2>2, <2>3, <2>4, <3>1
  <2>5. CASE id \notin Elements(problems)
    <3>1. unmatched_google_tasks' = Append(unmatched_google_tasks, id)
      BY <1>4, <2>5 DEF find_missing_google_matches, google_task_is_in_problems_list
    <3>2. Elements(unmatched_google_tasks)' =
            Elements(unmatched_google_tasks) \cup {id}
      BY <2>1, <3>1, ElementsOfAppend DEF TypeOK
    <3> QED BY <2>2, <2>3, <2>5, <3>2
  <2> QED BY <2>4, <2>5
<1>5. CASE google_walked
  <2>1. Walked' = Elements(google_tasks)
    BY <1>5 DEF google_walked, Walked, arguments, Elements
  <2>2. Walked = Elements(google_tasks)
    <3>1. next - 1 = Len(google_tasks)
      BY <1>1, <1>5 DEF google_walked, TypeOK
    <3> QED BY <1>1, <1>5, <3>1 DEF google_walked, Walked, Elements
  <2>3. UNCHANGED <<merged_tasks, problems, unmatched_google_tasks>>
    BY <1>5 DEF google_walked
  <2> QED BY <2>1, <2>2, <2>3 DEF Elements
<1>6. CASE Returned \/ UNCHANGED vars
  BY <1>6 DEF Returned, vars, Walked, Elements
<1> QED BY <1>2, <1>3, <1>4, <1>5, <1>6 DEF Next

\* No Google task is lost by merge_tasks: at the end each one is either
\* unmatched or a problem, and not both.
THEOREM NoTaskLost == Spec => []NoGoogleTaskLost
<1>1. TypeOK /\ GoogleInv => NoGoogleTaskLost
  BY DEF GoogleInv, Walked, NoGoogleTaskLost
<1> QED BY <1>1, TypeInit, TypeStep, GoogleInit, GoogleStep, PTL DEF Spec

\* A problem is a todo with a Google task, and that task is not unmatched.
THEOREM ProblemsSound == Spec => []ProblemsAreMatches
<1>1. TodosInv /\ GoogleInv => ProblemsAreMatches
  BY DEF TodosInv, GoogleInv, ProblemsAreMatches
<1> QED BY <1>1, TypeInit, TypeStep, TodosInit, TodosStep, GoogleInit, GoogleStep,
           PTL DEF Spec

-----------------------------------------------------------------------------
(* The order of the lists. *)

\* The unmatched todos are the first todos, as many as the walk has passed.
TodosOrder ==
  /\ Len(unmatched_icalendar_todos) <= Len(icalendar_todos)
  /\ pc = "todos" => Len(unmatched_icalendar_todos) = next - 1
  /\ \A i \in 1 .. Len(unmatched_icalendar_todos) :
       unmatched_icalendar_todos[i] = icalendar_todos[i]

\* The unmatched tasks stand in front of the index, in the order of the tree.
GoogleOrder ==
  /\ pc = "todos" => unmatched_google_tasks = <<>>
  /\ \A i \in 1 .. Len(unmatched_google_tasks) :
       \E k \in 1 .. Len(google_tasks) :
         k < next /\ google_tasks[k] = unmatched_google_tasks[i]
  /\ \A i, j \in 1 .. Len(unmatched_google_tasks) :
       i < j => \E k, l \in 1 .. Len(google_tasks) :
                  /\ k < l
                  /\ google_tasks[k] = unmatched_google_tasks[i]
                  /\ google_tasks[l] = unmatched_google_tasks[j]

LEMMA OrderInit == Init => TodosOrder /\ GoogleOrder
<1> SUFFICES ASSUME Init PROVE TodosOrder /\ GoogleOrder
  OBVIOUS
<1>1. Len(icalendar_todos) \in Nat
  BY TreesAssumption DEF Init
<1> QED BY <1>1 DEF Init, TodosOrder, GoogleOrder

LEMMA TodosOrderStep == TypeOK /\ TodosOrder /\ [Next]_vars => TodosOrder'
<1> SUFFICES ASSUME TypeOK, TodosOrder, [Next]_vars PROVE TodosOrder'
  OBVIOUS
<1>1. /\ Len(icalendar_todos) \in Nat /\ Len(unmatched_icalendar_todos) \in Nat
      /\ unmatched_icalendar_todos \in Seq(Ids)
  BY DEF TypeOK
<1>2. CASE merge_one_icalendar_match
  <2> DEFINE uid == icalendar_todos[next]
             n   == Len(unmatched_icalendar_todos)
  <2>1. /\ icalendar_todos' = icalendar_todos /\ pc = "todos" /\ n = next - 1
        /\ next \in 1 .. Len(icalendar_todos) /\ uid \in Ids
    BY <1>1, <1>2 DEF merge_one_icalendar_match, arguments, TodosOrder, TypeOK
  <2>2. CASE Lookup(uid) # NULL
    <3>1. UNCHANGED unmatched_icalendar_todos /\ pc' = "google"
      BY <1>2, <2>2 DEF merge_one_icalendar_match
    <3> QED BY <2>1, <3>1 DEF TodosOrder
  <2>3. CASE Lookup(uid) = NULL
    <3>1. /\ unmatched_icalendar_todos' = Append(unmatched_icalendar_todos, uid)
          /\ next' = next + 1
      BY <1>2, <2>3 DEF merge_one_icalendar_match
    <3>2. /\ Len(unmatched_icalendar_todos') = n + 1
          /\ \A i \in 1 .. n : unmatched_icalendar_todos'[i] = unmatched_icalendar_todos[i]
          /\ unmatched_icalendar_todos'[n + 1] = uid
      BY <1>1, <2>1, <3>1, AppendProperties
    <3> QED BY <1>1, <2>1, <3>1, <3>2 DEF TodosOrder
  <2> QED BY <2>2, <2>3
<1>3. CASE todos_walked \/ find_missing_google_matches \/ google_walked
  BY <1>3 DEF todos_walked, find_missing_google_matches, google_walked, arguments, TodosOrder
<1>4. CASE Returned \/ UNCHANGED vars
  BY <1>4 DEF Returned, vars, TodosOrder
<1> QED BY <1>2, <1>3, <1>4 DEF Next

LEMMA GoogleOrderStep == TypeOK /\ GoogleOrder /\ [Next]_vars => GoogleOrder'
<1> SUFFICES ASSUME TypeOK, GoogleOrder, [Next]_vars PROVE GoogleOrder'
  OBVIOUS
<1>1. Len(google_tasks) \in Nat /\ unmatched_google_tasks \in Seq(Ids)
  BY DEF TypeOK
<1>2. CASE merge_one_icalendar_match \/ todos_walked
  <2>1. unmatched_google_tasks' = <<>>
    BY <1>2 DEF merge_one_icalendar_match, todos_walked, GoogleOrder
  <2> QED BY <2>1 DEF GoogleOrder
<1>3. CASE find_missing_google_matches
  <2> DEFINE id == google_tasks[next]
             n  == Len(unmatched_google_tasks)
  <2>1. /\ google_tasks' = google_tasks /\ pc' = "google" /\ next' = next + 1
        /\ next \in 1 .. Len(google_tasks) /\ id \in Ids /\ n \in Nat
    BY <1>1, <1>3 DEF find_missing_google_matches, arguments, TypeOK
  <2>2. CASE UNCHANGED unmatched_google_tasks
    BY <2>1, <2>2 DEF GoogleOrder
  <2>3. CASE unmatched_google_tasks' = Append(unmatched_google_tasks, id)
    <3>1. /\ Len(unmatched_google_tasks') = n + 1
          /\ \A i \in 1 .. n : unmatched_google_tasks'[i] = unmatched_google_tasks[i]
          /\ unmatched_google_tasks'[n + 1] = id
      BY <1>1, <2>1, <2>3, AppendProperties
    <3>2. ASSUME NEW i \in 1 .. n + 1
          PROVE  \E k \in 1 .. Len(google_tasks) :
                   k < next' /\ google_tasks[k] = unmatched_google_tasks'[i]
      <4>1. CASE i = n + 1
        BY <2>1, <3>1, <4>1
      <4>2. CASE i \in 1 .. n
        <5>1. PICK k \in 1 .. Len(google_tasks) :
                k < next /\ google_tasks[k] = unmatched_google_tasks[i]
          BY <4>2 DEF GoogleOrder
        <5> QED BY <2>1, <3>1, <4>2, <5>1
      <4> QED BY <2>1, <4>1, <4>2
    <3>3. ASSUME NEW i \in 1 .. n + 1, NEW j \in 1 .. n + 1, i < j
          PROVE  \E k, l \in 1 .. Len(google_tasks) :
                   /\ k < l
                   /\ google_tasks[k] = unmatched_google_tasks'[i]
                   /\ google_tasks[l] = unmatched_google_tasks'[j]
      <4>1. i \in 1 .. n
        BY <2>1, <3>3
      <4>2. CASE j = n + 1
        <5>1. PICK k \in 1 .. Len(google_tasks) :
                k < next /\ google_tasks[k] = unmatched_google_tasks[i]
          BY <4>1 DEF GoogleOrder
        <5> QED BY <2>1, <3>1, <4>1, <4>2, <5>1
      <4>3. CASE j \in 1 .. n
        <5>1. PICK k \in 1 .. Len(google_tasks), l \in 1 .. Len(google_tasks) :
                /\ k < l
                /\ google_tasks[k] = unmatched_google_tasks[i]
                /\ google_tasks[l] = unmatched_google_tasks[j]
          BY <3>3, <4>1, <4>3 DEF GoogleOrder
        <5>2. /\ unmatched_google_tasks'[i] = unmatched_google_tasks[i]
              /\ unmatched_google_tasks'[j] = unmatched_google_tasks[j]
          BY <3>1, <4>1, <4>3
        <5> QED BY <5>1, <5>2
      <4> QED BY <2>1, <4>2, <4>3
    <3> QED BY <2>1, <3>1, <3>2, <3>3 DEF GoogleOrder
  <2> QED BY <1>3, <2>2, <2>3 DEF find_missing_google_matches
<1>4. CASE google_walked
  BY <1>4 DEF google_walked, arguments, GoogleOrder
<1>5. CASE Returned \/ UNCHANGED vars
  <2>1. UNCHANGED <<pc, next, google_tasks, unmatched_google_tasks>>
    BY <1>5 DEF Returned, vars
  <2> QED BY <2>1 DEF GoogleOrder
<1> QED BY <1>2, <1>3, <1>4, <1>5 DEF Next

\* The unmatched todos and the unmatched Google tasks are in the order of
\* their trees, whatever the trees contain.
THEOREM ListsInOrder == Spec => []InTreeOrder
<1>1. TypeOK /\ TodosOrder /\ GoogleOrder => InTreeOrder
  <2> SUFFICES ASSUME TypeOK, TodosOrder, GoogleOrder PROVE InTreeOrder
    OBVIOUS
  <2>1. /\ DOMAIN google_tasks = 1 .. Len(google_tasks)
        /\ DOMAIN unmatched_google_tasks = 1 .. Len(unmatched_google_tasks)
        /\ DOMAIN unmatched_icalendar_todos = 1 .. Len(unmatched_icalendar_todos)
    BY DEF TypeOK
  <2>2. \A i, j \in DOMAIN unmatched_google_tasks :
          i < j => \E k, l \in DOMAIN google_tasks :
                     /\ k < l
                     /\ google_tasks[k] = unmatched_google_tasks[i]
                     /\ google_tasks[l] = unmatched_google_tasks[j]
    <3> SUFFICES ASSUME NEW i \in DOMAIN unmatched_google_tasks,
                        NEW j \in DOMAIN unmatched_google_tasks, i < j
                 PROVE  \E k, l \in DOMAIN google_tasks :
                          /\ k < l
                          /\ google_tasks[k] = unmatched_google_tasks[i]
                          /\ google_tasks[l] = unmatched_google_tasks[j]
      OBVIOUS
    <3>1. PICK k \in 1 .. Len(google_tasks), l \in 1 .. Len(google_tasks) :
            /\ k < l
            /\ google_tasks[k] = unmatched_google_tasks[i]
            /\ google_tasks[l] = unmatched_google_tasks[j]
      BY <2>1 DEF GoogleOrder
    <3> QED BY <2>1, <3>1
  <2>3. \A i \in DOMAIN unmatched_icalendar_todos :
          unmatched_icalendar_todos[i] = icalendar_todos[i]
    BY <2>1 DEF TodosOrder
  <2> QED BY <2>2, <2>3, Zenon DEF InTreeOrder
<1> QED BY <1>1, TypeInit, TypeStep, OrderInit, TodosOrderStep, GoogleOrderStep,
           PTL DEF Spec
=============================================================================
