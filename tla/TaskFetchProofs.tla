-------------------------- MODULE TaskFetchProofs ---------------------------
(***************************************************************************)
(* get_all_list_tasks returns the whole list, or a prefix of it when a     *)
(* reply is an error, for every list and every division into pages.        *)
(***************************************************************************)
EXTENDS TaskFetch, SequenceTheorems, TLAPS

Frames == [page_token : Nat, tasks : Seq(Tasks)]

-----------------------------------------------------------------------------
(* The call stack. *)

\* What is left of a stack when its last call has returned.
LEMMA Popped ==
  ASSUME NEW F, NEW s \in Seq(F), s # <<>>
  PROVE  LET below == SubSeq(s, 1, Len(s) - 1)
         IN  /\ below \in Seq(F)
             /\ Len(s) \in Nat \ {0}
             /\ Len(below) = Len(s) - 1
             /\ \A i \in 1 .. Len(s) - 1 : below[i] = s[i]
             /\ s[Len(s)] \in F
<1>1. Len(s) \in Nat \ {0}
  BY EmptySeq
<1>2. \A i \in 1 .. Len(s) : s[i] \in F
  BY ElementOfSeq
<1> DEFINE n == Len(s) - 1
<1>3. /\ SubSeq(s, 1, n) \in Seq(F)
      /\ Len(SubSeq(s, 1, n)) = IF 1 <= n THEN n - 1 + 1 ELSE 0
      /\ \A i \in 1 .. n - 1 + 1 : SubSeq(s, 1, n)[i] = s[1 + i - 1]
  BY <1>1, <1>2, SubSeqProperties
<1>4. n \in Nat
  BY <1>1
<1> HIDE DEF n
<1>5. Len(SubSeq(s, 1, n)) = n
  BY <1>3, <1>4
<1>6. \A i \in 1 .. n : SubSeq(s, 1, n)[i] = s[i]
  <2> SUFFICES ASSUME NEW i \in 1 .. n PROVE SubSeq(s, 1, n)[i] = s[i]
    OBVIOUS
  <2>1. i \in 1 .. n - 1 + 1 /\ 1 + i - 1 = i
    BY <1>4
  <2> QED BY <1>3, <2>1
<1>7. s[Len(s)] \in F
  BY <1>1, <1>2
<1> QED BY <1>1, <1>3, <1>5, <1>6, <1>7 DEF n

\* A page continues the list: the tasks after the first t up to some m, and
\* m is the token of the next page or the end of the list.
LEMMA PageContinues ==
  ASSUME NEW s \in Seq(Tasks), NEW t \in 0 .. Len(s), NEW n \in Nat \ {0}
  PROVE  \E m \in t .. Len(s) :
           /\ Page(s, t, n).items = SubSeq(s, t + 1, m)
           /\ Page(s, t, n).nextPageToken # NoToken =>
                Page(s, t, n).nextPageToken = m /\ t < m /\ m < Len(s)
           /\ Page(s, t, n).nextPageToken = NoToken => m = Len(s)
<1>1. Len(s) \in Nat
  OBVIOUS
<1>2. CASE t + n < Len(s)
  <2>1. /\ Page(s, t, n).items = SubSeq(s, t + 1, t + n)
        /\ Page(s, t, n).nextPageToken = t + n
    BY <1>2 DEF Page, NoMembers
  <2>2. t + n \in t .. Len(s) /\ t + n # NoToken /\ t < t + n
    BY <1>1, <1>2 DEF NoToken
  <2> QED BY <1>2, <2>1, <2>2
<1>3. CASE ~(t + n < Len(s))
  <2>1. /\ Page(s, t, n).items = SubSeq(s, t + 1, Len(s))
        /\ Page(s, t, n).nextPageToken = NoToken
    BY <1>3 DEF Page, NoMembers
  <2>2. Len(s) \in t .. Len(s)
    BY <1>1
  <2> QED BY <2>1, <2>2
<1> QED BY <1>2, <1>3

\* A page is made of tasks, wherever it starts.
LEMMA PageTyped ==
  ASSUME NEW s \in Seq(Tasks), NEW t \in Nat, NEW n \in Nat \ {0}
  PROVE  Page(s, t, n).items \in Seq(Tasks) /\ Page(s, t, n).nextPageToken \in Nat
<1> DEFINE m == IF t + n < Len(s) THEN t + n ELSE Len(s)
<1>1. Len(s) \in Nat /\ \A i \in 1 .. Len(s) : s[i] \in Tasks
  BY ElementOfSeq
<1>2. m \in Int /\ m <= Len(s)
  BY <1>1
<1>3. \A i \in t + 1 .. m : s[i] \in Tasks
  BY <1>1, <1>2
<1> HIDE DEF m
<1>4. SubSeq(s, t + 1, m) \in Seq(Tasks)
  BY <1>2, <1>3, SubSeqProperties
<1>5. Page(s, t, n).items = SubSeq(s, t + 1, m)
  BY DEF Page, NoMembers, m
<1>6. Page(s, t, n).nextPageToken \in Nat
  BY <1>1 DEF Page, NoMembers, NoToken
<1> QED BY <1>4, <1>5, <1>6

-----------------------------------------------------------------------------
(* Types. *)

ReadingTasks == op = "get_all_list_tasks"

TypeInv ==
  /\ task_list \in Seq(Tasks)
  /\ pc \in {"idle", "sent", "answered", "return", "crash"}
  /\ op \in Functions \cup {"none"}
  /\ stack \in Seq(Frames)
  /\ tasks \in Seq(Tasks)
  /\ quiet \in BOOLEAN /\ whole \in BOOLEAN
  /\ pc = "idle" => stack = <<>>
  /\ pc = "return" => ReadingTasks
  /\ ~ReadingTasks => stack = <<>>
  /\ pc \in {"sent", "answered"} /\ ReadingTasks => stack # <<>>
  /\ pc = "answered" /\ ReadingTasks /\ response # NULL =>
       response.items \in Seq(Tasks) /\ response.nextPageToken \in Nat

LEMMA TypeInvImpliesTypeOK == TypeInv => TypeOK
<1> SUFFICES ASSUME TypeInv PROVE TypeOK
  OBVIOUS
<1>1. \A i \in DOMAIN stack : stack[i] \in Frames
  BY DEF TypeInv
<1> QED BY <1>1 DEF TypeInv, TypeOK, Frames, ReadingTasks

LEMMA TypeInvInit == Init => TypeInv
<1> SUFFICES ASSUME Init PROVE TypeInv
  OBVIOUS
<1>1. task_list \in Seq(Tasks)
  BY ListAssumption DEF Init
<1> QED BY <1>1 DEF Init, TypeInv, ReadingTasks

\* An edit leaves a sequence of tasks.
LEMMA EditedTyped ==
  ASSUME NEW s \in Seq(Tasks), NEW e \in Edited(s)
  PROVE  e \in Seq(Tasks)
<1>1. CASE \E t \in Tasks : e = <<t>> \o s \/ e = Append(s, t)
  <2>1. PICK t \in Tasks : e = <<t>> \o s \/ e = Append(s, t)
    BY <1>1
  <2>2. <<t>> \in Seq(Tasks)
    OBVIOUS
  <2>3. <<t>> \o s \in Seq(Tasks)
    BY <2>2, ConcatProperties
  <2>4. Append(s, t) \in Seq(Tasks)
    BY AppendProperties
  <2> QED BY <2>1, <2>3, <2>4
<1>2. CASE \E i \in DOMAIN s : e = SubSeq(s, 1, i - 1) \o SubSeq(s, i + 1, Len(s))
  <2>1. PICK i \in 1 .. Len(s) : e = SubSeq(s, 1, i - 1) \o SubSeq(s, i + 1, Len(s))
    <3>1. DOMAIN s = 1 .. Len(s)
      OBVIOUS
    <3> QED BY <1>2, <3>1, Zenon
  <2>2. \A j \in 1 .. Len(s) : s[j] \in Tasks
    BY ElementOfSeq
  <2>3. Len(s) \in Nat /\ i - 1 \in Int /\ i + 1 \in Int
    BY <2>1
  <2>4. \A j \in 1 .. i - 1 : s[j] \in Tasks
    BY <2>2, <2>3
  <2>5. \A j \in i + 1 .. Len(s) : s[j] \in Tasks
    BY <2>2, <2>3
  <2>6. SubSeq(s, 1, i - 1) \in Seq(Tasks)
    BY <2>3, <2>4, SubSeqProperties
  <2>7. SubSeq(s, i + 1, Len(s)) \in Seq(Tasks)
    BY <2>3, <2>5, SubSeqProperties
  <2> QED BY <2>1, <2>6, <2>7, ConcatProperties
<1> QED BY <1>1, <1>2 DEF Edited

LEMMA TypeInvStep == TypeInv /\ [Next]_vars => TypeInv'
<1> SUFFICES ASSUME TypeInv, [Next]_vars PROVE TypeInv'
  OBVIOUS
<1> USE DEF ReadingTasks
<1>1. CASE Caller
  <2>1. <<Frame(NoToken)>> \in Seq(Frames) /\ <<Frame(NoToken)>> # <<>>
    <3>1. Frame(NoToken) \in Frames
      BY DEF Frame, NoToken, Frames
    <3> QED BY <3>1
  <2>2. CASE get_all_list_tasks
    BY <2>1, <2>2 DEF get_all_list_tasks, Call, server, results, TypeInv, Functions
  <2>3. CASE get_gtasks_lists \/ get_specified_gtasks_list \/ get_specified_task
    BY <2>3 DEF get_gtasks_lists, get_specified_gtasks_list, get_specified_task,
                Call, server, results, TypeInv, Functions
  <2> QED BY <1>1, <2>2, <2>3 DEF Caller
<1>2. CASE Server
  <2>1. ASSUME NEW r, NEW w \in BOOLEAN, Reply(r, w),
               op = "get_all_list_tasks" /\ r # NULL =>
                 r.items \in Seq(Tasks) /\ r.nextPageToken \in Nat
        PROVE  TypeInv'
    <3>1. whole' \in BOOLEAN
      BY <2>1 DEF Reply
    <3> QED BY <2>1, <3>1 DEF Reply, server, results, TypeInv
  <2>2. CASE \E n \in 1 .. PageSize : ServeTasks(n)
    <3>1. PICK n \in 1 .. PageSize : ServeTasks(n)
      BY <2>2
    <3>2. n \in Nat \ {0}
      BY PageSizeAssumption
    <3>3. Top \in Frames
      <4>1. stack # <<>> /\ stack \in Seq(Frames)
        BY <3>1 DEF ServeTasks, Reply, TypeInv
      <4> QED BY <4>1, Popped DEF Top
    <3>4. Top.page_token \in Nat
      BY <3>3 DEF Frames
    <3>5. LET p == Page(task_list, Top.page_token, n)
          IN  p.items \in Seq(Tasks) /\ p.nextPageToken \in Nat
      BY <3>2, <3>4, PageTyped DEF TypeInv
    <3> QED BY <2>1, <3>1, <3>5 DEF ServeTasks
  <2>3. CASE ServeLists \/ ServeList \/ ServeTask
    BY <2>1, <2>3 DEF ServeLists, ServeList, ServeTask
  <2>4. CASE ServeError
    <3>1. NoMembers.items \in Seq(Tasks) /\ NoMembers.nextPageToken \in Nat
      BY DEF NoMembers, NoToken
    <3> QED BY <2>1, <2>4, <3>1 DEF ServeError
  <2>5. CASE LoseReply
    BY <2>1, <2>5 DEF LoseReply
  <2> QED BY <1>2, <2>2, <2>3, <2>4, <2>5 DEF Server
<1>3. CASE Edit
  <2>1. task_list' \in Seq(Tasks)
    BY <1>3, EditedTyped DEF Edit, TypeInv
  <2> QED BY <1>3, <2>1 DEF Edit, results, TypeInv
<1>4. CASE decode_task_page
  <2>1. /\ stack \in Seq(Frames) /\ stack # <<>>
        /\ response.items \in Seq(Tasks) /\ response.nextPageToken \in Nat
    BY <1>4 DEF decode_task_page, Decode, TypeInv
  <2>2. /\ Below \in Seq(Frames)
        /\ Top \in Frames
    BY <2>1, Popped DEF Below, Top
  <2>3. /\ [Top EXCEPT !.tasks = response.items] \in Frames
        /\ Frame(response.nextPageToken) \in Frames
    <3>1. \A x \in Seq(Tasks), f \in Frames : [f EXCEPT !.tasks = x] \in Frames
      BY DEF Frames
    <3>2. \A n \in Nat : Frame(n) \in Frames
      BY DEF Frames, Frame
    <3> QED BY <2>1, <2>2, <3>1, <3>2, Zenon
  <2>4. LET t == Append(Append(Below, [Top EXCEPT !.tasks = response.items]),
                        Frame(response.nextPageToken))
        IN  t \in Seq(Frames) /\ t # <<>>
    BY <2>2, <2>3
  <2> QED BY <1>4, <2>1, <2>2, <2>4 DEF decode_task_page, Decode, server, TypeInv
<1>5. CASE append_tasks
  <2>1. stack \in Seq(Frames) /\ stack # <<>>
    BY <1>5 DEF append_tasks, TypeInv
  <2>2. Below \in Seq(Frames) /\ Top \in Frames
    BY <2>1, Popped DEF Below, Top
  <2>3. Top.tasks \o tasks \in Seq(Tasks)
    BY <2>2 DEF Frames, TypeInv
  <2> QED BY <1>5, <2>2, <2>3 DEF append_tasks, server, TypeInv
<1>6. CASE return_tasks
  BY <1>6 DEF return_tasks, server, results, TypeInv
<1>7. CASE no_reply
  BY <1>7 DEF no_reply, server, results, TypeInv
<1>8. CASE decode_tasklists_json \/ copy_list_name_values \/ copy_task_values
  BY <1>8 DEF decode_tasklists_json, copy_list_name_values, copy_task_values,
              Decode, server, TypeInv
<1>9. CASE Finished \/ UNCHANGED vars
  BY <1>9 DEF Finished, vars, TypeInv
<1> QED BY <1>1, <1>2, <1>3, <1>4, <1>5, <1>6, <1>7, <1>8, <1>9 DEF Next, Client

\* The calls of get_all_list_tasks are on the stack exactly while it reads,
\* and what it collects are tasks.
THEOREM TypeCorrect == Spec => []TypeOK
  BY TypeInvInit, TypeInvStep, TypeInvImpliesTypeOK, PTL DEF Spec

-----------------------------------------------------------------------------
(* What a read has collected, while nobody edits the list. *)

\* The tasks of the list after the first a, up to and including number b.
Segment(a, b) == SubSeq(task_list, a + 1, b)

\* Each active call but the last holds the tasks from its own token up to the
\* token of the call it made.  The first call has no token.
StackContinues ==
  /\ stack # <<>> => stack[1].page_token = 0
  /\ \A i \in 1 .. Len(stack) - 1 :
       /\ stack[i].page_token <= stack[i + 1].page_token
       /\ stack[i].tasks = Segment(stack[i].page_token, stack[i + 1].page_token)
  /\ \A i \in 1 .. Len(stack) : stack[i].page_token \in 0 .. Len(task_list)

\* Every call has read at least one task before it makes the next.
StackAdvances ==
  /\ \A i \in 1 .. Len(stack) : stack[i].page_token >= i - 1
  /\ \A i \in 2 .. Len(stack) : stack[i].page_token < Len(task_list)

\* A reply holds the tasks from the token of the request up to task m.
AnswerContinues(m) ==
  /\ response.items = Segment(Top.page_token, m)
  /\ response.nextPageToken # NoToken =>
       /\ response.nextPageToken = m
       /\ Top.page_token < m
       /\ m < Len(task_list)
  /\ response.nextPageToken = NoToken /\ whole => m = Len(task_list)

\* The call that has returned was given the token k and read up to task m.
ReturnContinues(k, m) ==
  /\ tasks = Segment(k, m)
  /\ whole => m = Len(task_list)
  /\ stack = <<>> => k = 0
  /\ stack # <<>> => /\ Top.page_token <= k
                     /\ Top.tasks = Segment(Top.page_token, k)

QuietInv ==
  quiet /\ ReadingTasks =>
    /\ StackContinues
    /\ StackAdvances
    /\ pc = "answered" /\ response # NULL =>
         \E m \in Top.page_token .. Len(task_list) : AnswerContinues(m)
    /\ pc \in {"return", "idle"} =>
         \E m \in 0 .. Len(task_list) : \E k \in 0 .. m : ReturnContinues(k, m)

LEMMA QuietInvInit == Init => QuietInv
  BY DEF Init, QuietInv, ReadingTasks

\* Nothing of this depends on more than the list and the stack.
LEMMA StackUnchanged ==
  ASSUME StackContinues, StackAdvances, UNCHANGED <<task_list, stack>>
  PROVE  StackContinues' /\ StackAdvances'
  BY DEF StackContinues, StackAdvances, Segment

\* The last call of a stack.
LEMMA TopTyped ==
  ASSUME TypeInv, stack # <<>>
  PROVE  /\ Len(stack) \in Nat \ {0}
         /\ Top \in Frames /\ Top.page_token \in Nat /\ Top.tasks \in Seq(Tasks)
<1>1. stack \in Seq(Frames)
  BY DEF TypeInv
<1>2. Len(stack) \in Nat \ {0} /\ Top \in Frames
  BY <1>1, Popped DEF Top
<1> QED BY <1>2 DEF Frames

\* A reply that continues the list keeps the invariant.
LEMMA QuietReply ==
  ASSUME TypeInv, QuietInv, quiet, ReadingTasks, NEW r, NEW w \in BOOLEAN,
         Reply(r, w),
         r # NULL =>
           \E m \in Top.page_token .. Len(task_list) :
             /\ r.items = SubSeq(task_list, Top.page_token + 1, m)
             /\ r.nextPageToken # NoToken =>
                  r.nextPageToken = m /\ Top.page_token < m /\ m < Len(task_list)
             /\ r.nextPageToken = NoToken /\ w => m = Len(task_list)
  PROVE  QuietInv'
<1>1. StackContinues' /\ StackAdvances'
  BY StackUnchanged DEF QuietInv, Reply, server
<1>2. /\ task_list' = task_list /\ stack' = stack /\ response' = r
      /\ pc' = "answered" /\ whole' = (whole /\ w)
  BY DEF Reply, server
<1>3. Top' = Top
  BY <1>2 DEF Top
<1>4. ASSUME response' # NULL
      PROVE  \E m \in Top'.page_token .. Len(task_list') : AnswerContinues(m)'
  <2>1. PICK m \in Top.page_token .. Len(task_list) :
             /\ r.items = SubSeq(task_list, Top.page_token + 1, m)
             /\ r.nextPageToken # NoToken =>
                  r.nextPageToken = m /\ Top.page_token < m /\ m < Len(task_list)
             /\ r.nextPageToken = NoToken /\ w => m = Len(task_list)
    BY <1>2, <1>4
  <2>2. r.items = Segment(Top.page_token, m)'
    BY <1>2, <1>3, <2>1 DEF Segment
  <2>3. AnswerContinues(m)'
    BY <1>2, <1>3, <2>1, <2>2 DEF AnswerContinues, Segment
  <2> QED BY <1>2, <1>3, <2>1, <2>3
<1> QED BY <1>1, <1>2, <1>4 DEF QuietInv
\* A call that makes another for the page its reply names.
LEMMA QuietPush ==
  ASSUME TypeInv, QuietInv, quiet, ReadingTasks, decode_task_page,
         response.nextPageToken # NoToken
  PROVE  QuietInv'
<1>0. PICK n : n = Len(stack)
  OBVIOUS
<1>1. /\ stack \in Seq(Frames) /\ stack # <<>>
      /\ response.items \in Seq(Tasks) /\ response.nextPageToken \in Nat
      /\ task_list' = task_list /\ pc' = "sent"
      /\ stack' = Append(Append(Below, [Top EXCEPT !.tasks = response.items]),
                         Frame(response.nextPageToken))
  BY DEF decode_task_page, Decode, server, TypeInv
<1>2. n \in Nat \ {0} /\ Top \in Frames /\ Top.page_token \in Nat
  BY <1>0, <1>1, TopTyped
<1>3. PICK x \in Frames, y \in Frames :
        /\ x.page_token = Top.page_token /\ x.tasks = response.items
        /\ y.page_token = response.nextPageToken
        /\ stack' = Append(Append(SubSeq(stack, 1, n - 1), x), y)
  <2>1. \A q \in Seq(Tasks), f \in Frames :
          LET g == [f EXCEPT !.tasks = q]
          IN  g \in Frames /\ g.page_token = f.page_token /\ g.tasks = q
    BY DEF Frames
  <2>2. \A k \in Nat : Frame(k) \in Frames /\ Frame(k).page_token = k
    BY DEF Frames, Frame
  <2>3. stack' = Append(Append(SubSeq(stack, 1, n - 1),
                               [Top EXCEPT !.tasks = response.items]),
                        Frame(response.nextPageToken))
    BY <1>0, <1>1 DEF Below
  <2> QED BY <1>1, <1>2, <2>1, <2>2, <2>3, Zenon
<1>4. /\ Len(stack') = n + 1
      /\ \A i \in 1 .. n - 1 : stack'[i] = stack[i]
      /\ stack'[n] = x /\ stack'[n + 1] = y
      /\ stack' # <<>>
  <2>1. PICK b : b = SubSeq(stack, 1, n - 1)
    OBVIOUS
  <2>2. b \in Seq(Frames) /\ Len(b) = n - 1 /\ \A i \in 1 .. n - 1 : b[i] = stack[i]
    BY <1>0, <1>1, <2>1, Popped
  <2>3. stack' = Append(Append(b, x), y)
    BY <1>3, <2>1
  <2> QED BY <1>2, <2>2, <2>3
<1>5. PICK m \in Top.page_token .. Len(task_list) : AnswerContinues(m)
  BY DEF QuietInv, decode_task_page, Decode
<1>6. /\ response.items = Segment(Top.page_token, m)
      /\ response.nextPageToken = m /\ Top.page_token < m /\ m < Len(task_list)
  BY <1>5 DEF AnswerContinues
<1>7. StackContinues /\ StackAdvances
  BY DEF QuietInv
<1>8. Len(task_list) \in Nat /\ m \in Nat
  BY <1>2 DEF TypeInv
<1>9. Top = stack[n]
  BY <1>0 DEF Top
<1>10. \A i \in 1 .. n : stack'[i].page_token = stack[i].page_token
  BY <1>2, <1>3, <1>4, <1>9
<1>11. StackContinues'
  <2>1. stack'[1].page_token = 0
    BY <1>0, <1>1, <1>2, <1>7, <1>10 DEF StackContinues
  <2>2. ASSUME NEW i \in 1 .. n
        PROVE  /\ stack'[i].page_token <= stack'[i + 1].page_token
               /\ stack'[i].tasks =
                    SubSeq(task_list, stack'[i].page_token + 1, stack'[i + 1].page_token)
    <3>1. CASE i < n
      <4>1. i \in 1 .. n - 1 /\ i + 1 \in 1 .. n
        BY <1>2, <3>1
      <4>2. /\ stack'[i] = stack[i]
            /\ stack'[i + 1].page_token = stack[i + 1].page_token
        BY <1>4, <1>10, <4>1
      <4> QED BY <1>0, <1>7, <4>1, <4>2 DEF StackContinues, Segment
    <3>2. CASE i = n
      <4>1. stack'[i].page_token = Top.page_token /\ stack'[i + 1].page_token = m
        BY <1>3, <1>4, <1>6, <3>2
      <4>2. stack'[i].tasks = SubSeq(task_list, Top.page_token + 1, m)
        BY <1>3, <1>4, <1>6, <3>2 DEF Segment
      <4> QED BY <1>2, <1>6, <1>8, <4>1, <4>2
    <3> QED BY <1>2, <3>1, <3>2
  <2>3. \A i \in 1 .. n + 1 : stack'[i].page_token \in 0 .. Len(task_list)
    BY <1>0, <1>2, <1>3, <1>4, <1>6, <1>7, <1>8, <1>10 DEF StackContinues
  <2>4. Len(stack') = n + 1 /\ Len(stack') - 1 = n
    BY <1>2, <1>4
  <2> QED BY <1>1, <2>1, <2>2, <2>3, <2>4, Zenon DEF StackContinues, Segment
<1>12. StackAdvances'
  <2>1. \A i \in 1 .. n + 1 : stack'[i].page_token >= i - 1
    <3>1. \A i \in 1 .. n : stack[i].page_token >= i - 1
      BY <1>0, <1>7 DEF StackAdvances
    <3>2. \A i \in 1 .. n : stack'[i].page_token >= i - 1
      BY <1>10, <3>1
    <3>3. stack'[n + 1].page_token >= (n + 1) - 1
      <4>1. n \in 1 .. n /\ Top.page_token >= n - 1 /\ Top.page_token \in Int
        BY <1>0, <1>2, <1>9, <3>1
      <4> QED BY <1>2, <1>3, <1>4, <1>6, <1>8, <4>1
    <3> QED BY <1>2, <3>2, <3>3
  <2>2. \A i \in 2 .. n + 1 : stack'[i].page_token < Len(task_list)
    <3>1. \A i \in 2 .. n : stack'[i].page_token < Len(task_list)
      BY <1>0, <1>7, <1>10 DEF StackAdvances
    <3>2. stack'[n + 1].page_token < Len(task_list)
      BY <1>3, <1>4, <1>6
    <3> QED BY <1>2, <3>1, <3>2
  <2> QED BY <1>1, <1>4, <2>1, <2>2 DEF StackAdvances
<1> QED BY <1>1, <1>11, <1>12 DEF QuietInv

\* Dropping the last call from the stack.
LEMMA StackPopped ==
  ASSUME TypeInv, stack # <<>>, StackContinues, StackAdvances,
         stack' = Below, task_list' = task_list
  PROVE  /\ StackContinues' /\ StackAdvances'
         /\ Top.page_token \in 0 .. Len(task_list)
         /\ stack' = <<>> => Top.page_token = 0
         /\ stack' # <<>> =>
              /\ Top'.page_token \in 0 .. Top.page_token
              /\ Top'.tasks = Segment(Top'.page_token, Top.page_token)
<1>0. PICK n : n = Len(stack)
  OBVIOUS
<1>1. stack \in Seq(Frames)
  BY DEF TypeInv
<1>2. /\ n \in Nat \ {0} /\ Len(stack') = n - 1
      /\ \A i \in 1 .. n - 1 : stack'[i] = stack[i]
      /\ stack' \in Seq(Frames)
  BY <1>0, <1>1, Popped DEF Below
<1>3. stack' = <<>> => n = 1
  BY <1>2
<1>4. stack' # <<>> => n >= 2
  BY <1>2, EmptySeq
<1>5. Top = stack[n] /\ (stack' # <<>> => Top' = stack[n - 1])
  BY <1>0, <1>2, <1>4 DEF Top
<1>6. StackContinues' /\ StackAdvances'
  <2>1. \A i \in 1 .. n - 1 : i \in 1 .. n /\ stack'[i] = stack[i]
    BY <1>2
  <2>2. \A i \in 1 .. n - 1 - 1 :
          i \in 1 .. n - 1 /\ stack'[i] = stack[i] /\ stack'[i + 1] = stack[i + 1]
    BY <1>2
  <2>3. stack' # <<>> => stack'[1] = stack[1]
    BY <1>2, <1>4
  <2>4. StackContinues'
    BY <1>2, <2>1, <2>2, <2>3, <1>0 DEF StackContinues, Segment
  <2>5. StackAdvances'
    <3>1. /\ \A i \in 1 .. n : stack[i].page_token >= i - 1
          /\ \A i \in 2 .. n : stack[i].page_token < Len(task_list)
      BY <1>0 DEF StackAdvances
    <3>2. \A i \in 1 .. n - 1 : stack'[i].page_token >= i - 1
      BY <2>1, <3>1, Zenon
    <3>3. \A i \in 2 .. n - 1 : stack'[i] = stack[i] /\ i \in 2 .. n
      BY <1>2
    <3>4. \A i \in 2 .. n - 1 : stack'[i].page_token < Len(task_list)
      BY <3>1, <3>3, Zenon
    <3>5. Len(stack') = n - 1 /\ task_list' = task_list
      BY <1>2
    <3> QED BY <3>2, <3>4, <3>5, Zenon DEF StackAdvances
  <2> QED BY <2>4, <2>5
<1>7. Top.page_token \in 0 .. Len(task_list)
  BY <1>2, <1>5, <1>0 DEF StackContinues
<1>8. stack' = <<>> => Top.page_token = 0
  BY <1>3, <1>5, <1>0 DEF StackContinues
<1>9. ASSUME stack' # <<>>
      PROVE  /\ Top'.page_token \in 0 .. Top.page_token
             /\ Top'.tasks = Segment(Top'.page_token, Top.page_token)
  <2>1. n - 1 \in 1 .. n - 1 /\ n - 1 + 1 = n
    BY <1>2, <1>4, <1>9
  <2> QED BY <1>2, <1>5, <1>9, <2>1, <1>0 DEF StackContinues
<1> QED BY <1>6, <1>7, <1>8, <1>9
\* A call that reads the last page, or an error, and returns.
LEMMA QuietReturn ==
  ASSUME TypeInv, QuietInv, quiet, ReadingTasks, decode_task_page,
         response.nextPageToken = NoToken
  PROVE  QuietInv'
<1>1. /\ stack # <<>> /\ stack' = Below /\ tasks' = response.items
      /\ task_list' = task_list /\ whole' = whole /\ pc' = "return"
  BY DEF decode_task_page, Decode, server, TypeInv
<1>2. PICK m \in Top.page_token .. Len(task_list) : AnswerContinues(m)
  BY DEF QuietInv, decode_task_page, Decode
<1>3. /\ StackContinues' /\ StackAdvances'
      /\ Top.page_token \in 0 .. Len(task_list)
      /\ stack' = <<>> => Top.page_token = 0
      /\ stack' # <<>> =>
           /\ Top'.page_token \in 0 .. Top.page_token
           /\ Top'.tasks = Segment(Top'.page_token, Top.page_token)
  BY <1>1, StackPopped DEF QuietInv
<1>4. m \in 0 .. Len(task_list) /\ Top.page_token \in 0 .. m
  BY <1>2, <1>3
<1>5. PICK k \in 0 .. m : k = Top.page_token
  BY <1>4
<1>6. ReturnContinues(k, m)'
  <2>1. (tasks = Segment(k, m))'
    BY <1>1, <1>2, <1>5 DEF AnswerContinues, Segment
  <2>2. whole' => m = Len(task_list')
    BY <1>1, <1>2 DEF AnswerContinues
  <2>3. stack' # <<>> => /\ Top'.page_token <= k
                         /\ Top'.tasks = SubSeq(task_list', Top'.page_token + 1, k)
    BY <1>1, <1>3, <1>5 DEF Segment
  <2> QED BY <1>3, <1>5, <2>1, <2>2, <2>3 DEF ReturnContinues, Segment
<1> QED BY <1>1, <1>3, <1>4, <1>6 DEF QuietInv

\* A call that appends what the call it made has returned, and returns.
LEMMA QuietAppend ==
  ASSUME TypeInv, QuietInv, quiet, ReadingTasks, append_tasks
  PROVE  QuietInv'
<1>1. /\ stack # <<>> /\ stack' = Below /\ tasks' = Top.tasks \o tasks
      /\ task_list' = task_list /\ whole' = whole /\ pc = "return" /\ pc' = "return"
  BY DEF append_tasks, server
<1>2. PICK m \in 0 .. Len(task_list) : \E i \in 0 .. m : ReturnContinues(i, m)
  BY <1>1 DEF QuietInv
<1>2a. PICK j \in 0 .. m : ReturnContinues(j, m)
  BY <1>2
<1>3. /\ StackContinues' /\ StackAdvances'
      /\ Top.page_token \in 0 .. Len(task_list)
      /\ stack' = <<>> => Top.page_token = 0
      /\ stack' # <<>> =>
           /\ Top'.page_token \in 0 .. Top.page_token
           /\ Top'.tasks = Segment(Top'.page_token, Top.page_token)
  BY <1>1, StackPopped DEF QuietInv
<1>4. /\ Top.page_token <= j /\ Top.tasks = Segment(Top.page_token, j)
      /\ tasks = Segment(j, m)
      /\ whole => m = Len(task_list)
  BY <1>1, <1>2a DEF ReturnContinues
<1>5. Len(task_list) \in Nat /\ task_list \in Seq(Tasks)
  BY DEF TypeInv
<1>6. PICK k \in 0 .. m : k = Top.page_token
  BY <1>3, <1>4, <1>5
<1>7. Top.tasks \o tasks = SubSeq(task_list, k + 1, m)
  <2>1. /\ k + 1 \in 1 .. Len(task_list) + 1 /\ j \in k + 1 - 1 .. Len(task_list)
        /\ m \in j .. Len(task_list)
    BY <1>2, <1>4, <1>5, <1>6
  <2>2. SubSeq(task_list, k + 1, j) \o SubSeq(task_list, j + 1, m)
          = SubSeq(task_list, k + 1, m)
    BY <1>5, <2>1, ConcatAdjacentSubSeq
  <2> QED BY <1>4, <1>6, <2>2 DEF Segment
<1>8. ReturnContinues(k, m)'
  <2>1. (tasks = Segment(k, m))'
    BY <1>1, <1>7 DEF Segment
  <2>2. stack' # <<>> => /\ Top'.page_token <= k
                         /\ Top'.tasks = SubSeq(task_list', Top'.page_token + 1, k)
    BY <1>1, <1>3, <1>6 DEF Segment
  <2> QED BY <1>1, <1>3, <1>4, <1>6, <2>1, <2>2 DEF ReturnContinues, Segment
<1> QED BY <1>1, <1>2, <1>3, <1>8 DEF QuietInv
LEMMA QuietInvStep == TypeInv /\ QuietInv /\ [Next]_vars => QuietInv'
<1> SUFFICES ASSUME TypeInv, QuietInv, [Next]_vars, quiet', ReadingTasks'
             PROVE  QuietInv'
  BY DEF QuietInv
<1>1. CASE get_all_list_tasks
  <2>1. stack' = <<Frame(NoToken)>> /\ pc' = "sent" /\ task_list' = task_list
    BY <1>1 DEF get_all_list_tasks, Call, server
  <2>2. Len(stack') = 1 /\ stack'[1].page_token = 0 /\ Len(task_list) \in Nat
    BY <2>1 DEF Frame, NoToken, TypeInv
  <2>3. StackContinues'
    BY <2>1, <2>2 DEF StackContinues
  <2>4. StackAdvances'
    BY <2>1, <2>2 DEF StackAdvances
  <2> QED BY <2>1, <2>3, <2>4 DEF QuietInv
<1>2. CASE get_gtasks_lists \/ get_specified_gtasks_list \/ get_specified_task
  BY <1>2 DEF get_gtasks_lists, get_specified_gtasks_list, get_specified_task,
              Call, ReadingTasks
<1>3. CASE Server
  <2>1. quiet /\ ReadingTasks /\ pc = "sent" /\ stack # <<>>
    BY <1>3 DEF Server, ServeTasks, ServeLists, ServeList, ServeTask, ServeError,
                LoseReply, Reply, ReadingTasks, TypeInv
  <2>2. /\ task_list \in Seq(Tasks) /\ Len(task_list) \in Nat
        /\ Top.page_token \in 0 .. Len(task_list)
    <3>1. StackContinues
      BY <2>1 DEF QuietInv
    <3>2. Len(stack) \in 1 .. Len(stack)
      BY <2>1, TopTyped
    <3> QED BY <3>1, <3>2 DEF StackContinues, Top, TypeInv
  <2>3. CASE \E n \in 1 .. PageSize : ServeTasks(n)
    <3>1. PICK n \in 1 .. PageSize : ServeTasks(n)
      BY <2>3
    <3>2. n \in Nat \ {0}
      BY PageSizeAssumption
    <3>3. PICK m \in Top.page_token .. Len(task_list) :
            LET p == Page(task_list, Top.page_token, n)
            IN  /\ p.items = SubSeq(task_list, Top.page_token + 1, m)
                /\ p.nextPageToken # NoToken =>
                     p.nextPageToken = m /\ Top.page_token < m /\ m < Len(task_list)
                /\ p.nextPageToken = NoToken => m = Len(task_list)
      BY <2>2, <3>2, PageContinues
    <3> QED BY <2>1, <3>1, <3>3, QuietReply DEF ServeTasks
  <2>4. CASE ServeError
    <3>1. /\ NoMembers.items = SubSeq(task_list, Top.page_token + 1, Top.page_token)
          /\ NoMembers.nextPageToken = NoToken
      <4>1. SubSeq(task_list, Top.page_token + 1, Top.page_token) = <<>>
        BY <2>2, SubSeqEmpty
      <4> QED BY <4>1 DEF NoMembers
    <3>2. Top.page_token \in Top.page_token .. Len(task_list)
      BY <2>2
    <3> QED BY <2>1, <2>4, <3>1, <3>2, QuietReply DEF ServeError
  <2>5. CASE LoseReply
    BY <2>1, <2>5, QuietReply DEF LoseReply
  <2> QED BY <1>3, <2>1, <2>3, <2>4, <2>5
          DEF Server, ServeLists, ServeList, ServeTask, ReadingTasks
<1>4. CASE Edit
  BY <1>4 DEF Edit
<1>5. CASE decode_task_page
  <2>1. quiet /\ ReadingTasks
    BY <1>5 DEF decode_task_page, ReadingTasks
  <2> QED BY <1>5, <2>1, QuietPush, QuietReturn
<1>6. CASE append_tasks
  <2>1. quiet /\ ReadingTasks
    BY <1>6 DEF append_tasks, ReadingTasks
  <2> QED BY <1>6, <2>1, QuietAppend
<1>7. CASE return_tasks
  <2>1. /\ pc = "return" /\ pc' = "idle" /\ quiet /\ ReadingTasks
        /\ UNCHANGED <<task_list, stack, tasks, whole>>
    BY <1>7 DEF return_tasks, server, results, ReadingTasks
  <2>2. StackContinues' /\ StackAdvances'
    BY <2>1, StackUnchanged DEF QuietInv
  <2>3. PICK m \in 0 .. Len(task_list) : \E k \in 0 .. m : ReturnContinues(k, m)
    BY <2>1 DEF QuietInv
  <2>4. PICK k \in 0 .. m : ReturnContinues(k, m)
    BY <2>3
  <2>5. ReturnContinues(k, m)'
    BY <2>1, <2>4 DEF ReturnContinues, Segment, Top
  <2> QED BY <2>1, <2>2, <2>3, <2>4, <2>5 DEF QuietInv
<1>8. CASE no_reply
  <2>1. /\ pc' = "crash" /\ quiet /\ ReadingTasks /\ UNCHANGED <<task_list, stack>>
    BY <1>8 DEF no_reply, server, ReadingTasks
  <2>2. StackContinues' /\ StackAdvances'
    BY <2>1, StackUnchanged DEF QuietInv
  <2> QED BY <2>1, <2>2 DEF QuietInv
<1>9. CASE decode_tasklists_json \/ copy_list_name_values \/ copy_task_values
  BY <1>9 DEF decode_tasklists_json, copy_list_name_values, copy_task_values,
              Decode, ReadingTasks
<1>10. CASE Finished \/ UNCHANGED vars
  <2>1. /\ UNCHANGED <<task_list, stack, tasks, whole, response, pc>>
        /\ quiet /\ ReadingTasks
    BY <1>10 DEF Finished, vars, ReadingTasks
  <2>2. StackContinues' /\ StackAdvances'
    BY <2>1, StackUnchanged DEF QuietInv
  <2>3. ASSUME pc' = "answered", response' # NULL
        PROVE  \E m \in Top'.page_token .. Len(task_list') : AnswerContinues(m)'
    <3>1. PICK m \in Top.page_token .. Len(task_list) : AnswerContinues(m)
      BY <2>1, <2>3 DEF QuietInv
    <3>2. Top' = Top
      BY <2>1 DEF Top
    <3>3. AnswerContinues(m)'
      BY <2>1, <3>1, <3>2 DEF AnswerContinues, Segment
    <3> QED BY <2>1, <3>1, <3>2, <3>3
  <2>4. ASSUME pc' \in {"return", "idle"}
        PROVE  \E m \in 0 .. Len(task_list') : \E k \in 0 .. m : ReturnContinues(k, m)'
    <3>1. PICK m \in 0 .. Len(task_list) : \E k \in 0 .. m : ReturnContinues(k, m)
      BY <2>1, <2>4 DEF QuietInv
    <3>2. PICK k \in 0 .. m : ReturnContinues(k, m)
      BY <3>1
    <3>3. ReturnContinues(k, m)'
      BY <2>1, <3>2 DEF ReturnContinues, Segment, Top
    <3> QED BY <2>1, <3>1, <3>2, <3>3
  <2> QED BY <2>2, <2>3, <2>4 DEF QuietInv
<1> QED BY <1>1, <1>2, <1>3, <1>4, <1>5, <1>6, <1>7, <1>8, <1>9, <1>10
        DEF Next, Caller, Client

LEMMA QuietInvCorrect == Spec => [](TypeInv /\ QuietInv)
  BY TypeInvInit, TypeInvStep, QuietInvInit, QuietInvStep, PTL DEF Spec

\* What a read has returned is the list up to some task m.
LEMMA ReturnedPrefix ==
  ASSUME TypeInv, QuietInv, TasksReturned, quiet
  PROVE  \E m \in 0 .. Len(task_list) :
           tasks = SubSeq(task_list, 1, m) /\ (whole => m = Len(task_list))
<1>1. stack = <<>> /\ ReadingTasks /\ pc = "idle"
  BY DEF TypeInv, TasksReturned, ReadingTasks
<1>2. PICK m \in 0 .. Len(task_list) : \E k \in 0 .. m : ReturnContinues(k, m)
  BY <1>1 DEF QuietInv
<1>3. ReturnContinues(0, m)
  BY <1>1, <1>2 DEF ReturnContinues
<1> QED BY <1>1, <1>2, <1>3 DEF ReturnContinues, Segment

\* A read that no edit and no error disturbs returns the whole list, in order,
\* for every list and every way of dividing it into pages.
THEOREM ReadsComplete == Spec => []CompleteWhenQuiet
<1>1. TypeInv /\ QuietInv => CompleteWhenQuiet
  <2> SUFFICES ASSUME TypeInv, QuietInv, TasksReturned, quiet, whole
               PROVE  tasks = task_list
    BY DEF CompleteWhenQuiet
  <2>1. tasks = SubSeq(task_list, 1, Len(task_list))
    BY ReturnedPrefix
  <2> QED BY <2>1, SubSeqFull DEF TypeInv
<1> QED BY <1>1, QuietInvCorrect, PTL

\* An error reply can only cut the result short.
THEOREM ReadsPrefix == Spec => []PrefixWhenQuiet
<1>1. TypeInv /\ QuietInv => PrefixWhenQuiet
  BY ReturnedPrefix DEF PrefixWhenQuiet
<1> QED BY <1>1, QuietInvCorrect, PTL

\* The recursion ends: there is at most one active call for each task.
THEOREM RecursionBounded == Spec => []DepthBounded
<1>1. TypeInv /\ QuietInv => DepthBounded
  <2> SUFFICES ASSUME TypeInv, QuietInv, quiet, ~(Len(stack) <= 1)
               PROVE  Len(stack) <= Len(task_list)
    BY DEF DepthBounded
  <2>1. Len(stack) \in Nat /\ Len(task_list) \in Nat
    BY DEF TypeInv
  <2>2. stack # <<>> /\ ReadingTasks
    BY <2>1 DEF TypeInv
  <2>3. StackContinues /\ StackAdvances
    BY <2>2 DEF QuietInv
  <2>4. /\ Top.page_token \in Nat
        /\ Top.page_token >= Len(stack) - 1
        /\ Top.page_token < Len(task_list)
    BY <2>1, <2>2, <2>3, TopTyped DEF StackAdvances, Top
  <2> QED BY <2>1, <2>4
<1> QED BY <1>1, QuietInvCorrect, PTL

-----------------------------------------------------------------------------
(* The three functions that read one reply. *)

\* What the reply under way holds, if anything was received.
Expected ==
  IF ~whole THEN NoMembers
  ELSE CASE op = "get_specified_task" -> [NoMembers EXCEPT !.id = wanted, !.title = "title"]
         [] op = "get_specified_gtasks_list" -> [NoMembers EXCEPT !.id = "list", !.title = "title"]
         [] op = "get_gtasks_lists" -> Page(Lists, 0, PageSize)

OneReply == {"get_gtasks_lists", "get_specified_gtasks_list", "get_specified_task"}

OwnReplyInv ==
  /\ pc = "sent" /\ op \in OneReply => whole
  /\ pc = "answered" /\ op \in OneReply /\ response # NULL => response = Expected
  /\ OwnReplyOnly

LEMMA OwnReplyInit == Init => OwnReplyInv
  BY DEF Init, OwnReplyInv, OwnReplyOnly, OneReply

\* What the members of such a reply are.
LEMMA ExpectedMembers ==
  /\ op = "get_specified_task" =>
       /\ Expected.id = IF whole THEN wanted ELSE NULL
       /\ Expected.title = IF whole THEN "title" ELSE NULL
  /\ op = "get_specified_gtasks_list" =>
       /\ Expected.id = IF whole THEN "list" ELSE NULL
       /\ Expected.title = IF whole THEN "title" ELSE NULL
  /\ op = "get_gtasks_lists" =>
       Expected.items = IF whole THEN Page(Lists, 0, PageSize).items ELSE <<>>
  BY DEF Expected, NoMembers

\* What the reply lists is the beginning of the lists.
LEMMA ExpectedLists ==
  op = "get_gtasks_lists" => \E n \in 0 .. Len(Lists) : Expected.items = SubSeq(Lists, 1, n)
<1> DEFINE m == IF PageSize < Len(Lists) THEN PageSize ELSE Len(Lists)
<1>1. Lists \in Seq(STRING) /\ Len(Lists) \in Nat
  BY ListsAssumption
<1>2. Page(Lists, 0, PageSize).items = SubSeq(Lists, 1, m)
  BY <1>1, PageSizeAssumption DEF Page, NoMembers
<1>3. m \in 0 .. Len(Lists)
  BY <1>1, PageSizeAssumption
<1>4. <<>> = SubSeq(Lists, 1, 0) /\ 0 \in 0 .. Len(Lists)
  BY <1>1, SubSeqEmpty
<1> HIDE DEF m
<1> QED BY <1>2, <1>3, <1>4, ExpectedMembers

LEMMA OwnReplyStep == TypeInv /\ OwnReplyInv /\ [Next]_vars => OwnReplyInv'
<1> SUFFICES ASSUME TypeInv, OwnReplyInv, [Next]_vars PROVE OwnReplyInv'
  OBVIOUS
<1>1. CASE Caller
  <2>1. pc' = "sent" /\ whole' = TRUE
    BY <1>1 DEF Caller, get_gtasks_lists, get_specified_gtasks_list,
                get_all_list_tasks, get_specified_task, Call
  <2> QED BY <2>1 DEF OwnReplyInv, OwnReplyOnly
<1>2. CASE Server
  <2>1. /\ pc = "sent" /\ pc' = "answered" /\ UNCHANGED <<op, wanted>>
        /\ whole' \in BOOLEAN
    BY <1>2 DEF Server, ServeTasks, ServeLists, ServeList, ServeTask, ServeError,
                LoseReply, Reply, TypeInv
  <2>2. ASSUME op \in OneReply, response' # NULL PROVE response' = Expected'
    <3>1. CASE ServeError
      BY <3>1 DEF ServeError, Reply, Expected
    <3>2. CASE ServeLists \/ ServeList \/ ServeTask
      <4>1. whole' = TRUE
        BY <2>1, <2>2, <3>2 DEF ServeLists, ServeList, ServeTask, Reply, OwnReplyInv
      <4> QED BY <2>1, <3>2, <4>1 DEF ServeLists, ServeList, ServeTask, Reply, Expected
    <3>3. CASE LoseReply
      BY <2>2, <3>3 DEF LoseReply, Reply
    <3>4. CASE \E n \in 1 .. PageSize : ServeTasks(n)
      BY <2>2, <3>4 DEF ServeTasks, OneReply
    <3> QED BY <1>2, <3>1, <3>2, <3>3, <3>4 DEF Server
  <2> QED BY <2>1, <2>2 DEF OwnReplyInv, OwnReplyOnly
<1>3. ASSUME UNCHANGED <<op, pc, response, results, wanted, whole>>
      PROVE  OwnReplyInv'
  BY <1>3 DEF OwnReplyInv, OwnReplyOnly, Expected, results
<1>4. CASE Edit
  BY <1>3, <1>4 DEF Edit
<1>5. CASE Finished \/ UNCHANGED vars
  BY <1>3, <1>5 DEF Finished, vars, results
<1>6. CASE decode_tasklists_json \/ copy_list_name_values \/ copy_task_values
  <2>1. /\ op \in OneReply /\ pc = "answered" /\ response # NULL /\ response = Expected
        /\ pc' = "idle" /\ UNCHANGED <<op, wanted, whole>>
    BY <1>6 DEF decode_tasklists_json, copy_list_name_values, copy_task_values,
                Decode, OneReply, OwnReplyInv
  <2>2. OwnReplyOnly'
    <3>1. CASE decode_tasklists_json
      <4>1. lists' = Expected.items /\ op = "get_gtasks_lists"
        BY <2>1, <3>1 DEF decode_tasklists_json, Decode
      <4> QED BY <2>1, <4>1, ExpectedLists DEF OwnReplyOnly
    <3>2. CASE copy_list_name_values
      BY <2>1, <3>2, ExpectedMembers, NullAssumption
         DEF copy_list_name_values, Decode, OwnReplyOnly
    <3>3. CASE copy_task_values
      BY <2>1, <3>3, ExpectedMembers DEF copy_task_values, Decode, OwnReplyOnly
    <3> QED BY <1>6, <3>1, <3>2, <3>3
  <2> QED BY <2>1, <2>2 DEF OwnReplyInv
<1>7. CASE decode_task_page \/ append_tasks \/ return_tasks
  <2>1. op' = "get_all_list_tasks"
    BY <1>7 DEF decode_task_page, append_tasks, return_tasks, Decode, TypeInv, ReadingTasks
  <2> QED BY <2>1 DEF OwnReplyInv, OwnReplyOnly, OneReply
<1>8. CASE no_reply
  BY <1>8 DEF no_reply, OwnReplyInv, OwnReplyOnly
<1> QED BY <1>1, <1>2, <1>4, <1>5, <1>6, <1>7, <1>8 DEF Next, Client

\* get_specified_gtasks_list and get_specified_task return what their own reply
\* holds, and nothing after an error reply; get_gtasks_lists returns the user's
\* lists from the first one on.
THEOREM OwnReplies == Spec => []OwnReplyOnly
<1>1. OwnReplyInv => OwnReplyOnly
  BY DEF OwnReplyInv
<1> QED BY <1>1, TypeInvInit, TypeInvStep, OwnReplyInit, OwnReplyStep, PTL DEF Spec
=============================================================================
