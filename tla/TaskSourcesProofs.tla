-------------------------- MODULE TaskSourcesProofs --------------------------
(***************************************************************************)
(* What merge_tasks is given.  The list of todos is in the order of the    *)
(* files and complete, for any number of files of any size.  A unified     *)
(* task holds what the JSON object said, for any object, and owns its      *)
(* strings.                                                                *)
(***************************************************************************)
EXTENDS TaskSources, SequenceTheorems, WellFoundedInduction, TLAPS

-----------------------------------------------------------------------------
(* The links. *)

\* A set of numbers that is not empty has a smallest one.
LEMMA Smallest ==
  ASSUME NEW S, S \subseteq Nat, S # {}
  PROVE  \E m \in S : \A i \in S : m <= i
<1> DEFINE R == OpToRel(<, Nat)
<1>1. IsWellFoundedOn(R, Nat)
  BY NatLessThanWellFounded
<1>2. PICK m \in S : \A i \in S : ~ (<<i, m>> \in R)
  <2> HIDE DEF R
  <2> QED BY <1>1, WFMin
<1>3. ASSUME NEW p \in Nat \X Nat, p[1] < p[2]
      PROVE  p \in R
  BY <1>3, Zenon DEF OpToRel
<1> HIDE DEF R
<1>4. ASSUME NEW i \in S, ~ (m <= i)
      PROVE  FALSE
  <2>1. <<i, m>> \in Nat \X Nat /\ <<i, m>>[1] < <<i, m>>[2]
    BY <1>4
  <2> QED BY <2>1, <1>2, <1>3
<1> QED BY <1>4

\* Although copy_google_link puts one link after the other into the list, what
\* results is the list of the links of the Google task.
LEMMA CopiedLinks ==
  ASSUME NEW S, NEW links \in Seq(S)
  PROVE  copied_links(links) = links
<1> PICK n \in Nat : n = Len(links)
  BY LenProperties
<1> DEFINE F(g) == [i \in 0 .. n |-> IF i = 0 THEN <<>> ELSE copy_google_link(g[i - 1], links[i])]
           first(i) == [j \in 1 .. i |-> links[j]]
           f == [i \in 0 .. n |-> first(i)]
           u == CHOOSE g : g = F(g)
<1>1. \A i \in 1 .. n : links[i] \in S
  BY ElementOfSeq
<1>2. ASSUME NEW i \in 0 .. n
      PROVE  first(i) \in Seq(S) /\ Len(first(i)) = i
  BY <1>1
<1>3. ASSUME NEW i \in 1 .. n
      PROVE  copy_google_link(first(i - 1), links[i]) = first(i)
  <2>1. i - 1 \in 0 .. n /\ i \in 0 .. n /\ links[i] \in S
    BY <1>1
  <2> PICK s \in Seq(S) : s = first(i - 1) /\ Len(s) = i - 1
    BY <1>2, <2>1
  <2> PICK t \in Seq(S) : t = first(i) /\ Len(t) = i
    BY <1>2, <2>1
  <2>2. /\ Append(s, links[i]) \in Seq(S) /\ Len(Append(s, links[i])) = i
        /\ \A j \in 1 .. i - 1 : Append(s, links[i])[j] = s[j]
        /\ Append(s, links[i])[i] = links[i]
    BY <2>1, AppendProperties
  <2>3. \A j \in 1 .. i : Append(s, links[i])[j] = t[j]
    BY <2>2
  <2>4. Append(s, links[i]) = t
    BY <2>2, <2>3, SeqEqual
  <2> QED BY <2>4 DEF copy_google_link
<1>4. f = F(f)
  <2>1. \A i \in 1 .. n : i - 1 \in 0 .. n /\ f[i - 1] = first(i - 1)
    OBVIOUS
  <2>2. first(0) = <<>>
    OBVIOUS
  <2>3. \A i \in 0 .. n : i # 0 => i \in 1 .. n
    OBVIOUS
  <2>4. \A i \in 0 .. n : first(i) = IF i = 0 THEN <<>> ELSE copy_google_link(f[i - 1], links[i])
    <3> HIDE DEF f, first
    <3> QED BY <1>3, <2>1, <2>2, <2>3
  <2> QED BY <2>4
<1>5. u = F(u)
  <2> HIDE DEF f
  <2> QED BY <1>4
<1>6. copied_links(links) = u[n]
  BY DEF copied_links
<1> HIDE DEF u
<1>7. ASSUME NEW i \in 0 .. n, u[i] # first(i)
      PROVE  FALSE
  <2> DEFINE W == {k \in 0 .. n : u[k] # first(k)}
  <2>1. PICK m \in W : \A k \in W : m <= k
    <3>1. i \in W
      <4> HIDE DEF first
      <4> QED BY <1>7
    <3>2. W \subseteq Nat
      OBVIOUS
    <3> HIDE DEF W
    <3> QED BY <3>1, <3>2, Smallest
  <2>2. u[0] = first(0)
    BY <1>5
  <2>3. m \in 1 .. n /\ m - 1 \in 0 .. n /\ m - 1 \notin W
    BY <2>1, <2>2
  <2>4. u[m - 1] = first(m - 1)
    BY <2>3
  <2>5. u[m] = copy_google_link(u[m - 1], links[m])
    BY <1>5, <2>3
  <2> QED BY <1>3, <2>1, <2>3, <2>4, <2>5
<1>8. first(n) = links
  BY LenProperties
<1>9. u[n] = first(n)
  <2>1. n \in 0 .. n
    OBVIOUS
  <2> HIDE DEF first
  <2> QED BY ONLY <1>7, <2>1
<1> QED BY ONLY <1>6, <1>8, <1>9

-----------------------------------------------------------------------------
(* The members of the Google task. *)

CopiedFrom(node) == [i \in DOMAIN node.value |-> copy_link(node.value[i])]

\* What copy_task_values makes of the node of a member.
Value(m, node) ==
  CASE m \in StringMembers -> json_node_dup_string(node)
    [] m \in DateMembers   -> date_time(node)
    [] m \in FlagMembers   -> json_node_get_boolean(node)
    [] m = "links"         -> IF node.kind = "array" THEN CopiedFrom(node) ELSE <<>>

IsTask(t) == t = [m \in Members |-> t[m]]

LEMMA LinksOfNode ==
  ASSUME NEW node, IsMember(node), node.kind = "array"
  PROVE  /\ CopiedFrom(node) \in Seq({copy_link(node.value[i]) : i \in DOMAIN node.value})
         /\ DOMAIN CopiedFrom(node) = DOMAIN node.value
         /\ Len(CopiedFrom(node)) = Len(node.value)
<1> PICK s : s = node.value
  OBVIOUS
<1> DEFINE S == {s[i] : i \in DOMAIN s}
<1>1. s \in Seq(S)
  BY DEF IsMember
<1>2. PICK n \in Nat : n = Len(s) /\ DOMAIN s = 1 .. n
  <2> HIDE DEF S
  <2> QED BY <1>1, LenProperties
<1>3. CopiedFrom(node) = [i \in 1 .. n |-> copy_link(s[i])]
  BY <1>2 DEF CopiedFrom
<1> QED BY <1>2, <1>3

LEMMA DecodesMember ==
  ASSUME NEW t, IsTask(t), NEW name, NEW node, IsMember(node),
         name = "links" => t["links"] = <<>>, holds_value_or_array(node)
  PROVE  copy_task_values(t, name, node) =
           IF name \in Members THEN [t EXCEPT ![name] = Value(name, node)] ELSE t
<1>1. CASE name \in StringMembers
  <2>1. name \notin DateMembers \cup FlagMembers \cup {"links"} /\ name \in Members
    BY <1>1 DEF StringMembers, DateMembers, FlagMembers, Members
  <2> QED BY <1>1, <2>1 DEF copy_task_values, Value
<1>2. CASE name \in DateMembers
  <2>1. name \notin StringMembers \cup FlagMembers \cup {"links"} /\ name \in Members
    BY <1>2 DEF StringMembers, DateMembers, FlagMembers, Members
  <2> QED BY <1>2, <2>1 DEF copy_task_values, Value
<1>3. CASE name \in FlagMembers
  <2>1. name \notin StringMembers \cup DateMembers \cup {"links"} /\ name \in Members
    BY <1>3 DEF StringMembers, DateMembers, FlagMembers, Members
  <2>2. copy_task_values(t, name, node) = [t EXCEPT ![name] = json_node_get_boolean(node)]
    BY <1>3, <2>1 DEF copy_task_values
  <2>3. Value(name, node) = json_node_get_boolean(node)
    BY <1>3, <2>1 DEF Value
  <2> QED BY <2>1, <2>2, <2>3
<1>4. CASE name = "links"
  <2>1. name \notin StringMembers \cup DateMembers \cup FlagMembers /\ name \in Members
    BY <1>4 DEF StringMembers, DateMembers, FlagMembers, Members
  <2>2. CASE node.kind = "array"
    <3>1. <<>> \o CopiedFrom(node) = CopiedFrom(node)
      BY <2>2, LinksOfNode
    <3>2. copy_task_values(t, name, node) = [t EXCEPT !["links"] = <<>> \o CopiedFrom(node)]
      BY <1>4, <2>1, <2>2 DEF copy_task_values, CopiedFrom
    <3> QED BY <1>4, <2>1, <2>2, <3>1, <3>2 DEF Value
  <2>3. CASE node.kind # "array"
    <3>1. copy_task_values(t, name, node) = t
      BY <1>4, <2>1, <2>3 DEF copy_task_values
    <3>2. t = [t EXCEPT ![name] = <<>>]
      BY <1>4, <2>1 DEF IsTask
    <3> QED BY <1>4, <2>1, <2>3, <3>1, <3>2 DEF Value
  <2> QED BY <2>2, <2>3
<1>5. CASE name \notin Members
  BY <1>5 DEF copy_task_values, Members
<1> QED BY <1>1, <1>2, <1>3, <1>4, <1>5 DEF Members

\* The members that have been decoded and whose node holds something.
Held(m) == m \in decoded /\ holds_value_or_array(object[m])

DecodedTask == [m \in Members |-> IF Held(m) THEN Value(m, object[m]) ELSE new_gtask[m]]

TaskInv ==
  /\ \A m \in DOMAIN object : IsMember(object[m])
  /\ decoded \subseteq DOMAIN object
  /\ step \in {"decode", "decoded", "created"}
  /\ step # "decode" => decoded = DOMAIN object
  /\ task = DecodedTask
  /\ step = "created" => unified = create_new_google_task(task)

LEMMA TaskInit == Init => TaskInv
<1> SUFFICES ASSUME Init PROVE TaskInv
  OBVIOUS
<1>1. \A m \in DOMAIN object : IsMember(object[m])
  BY ObjectsAssumption DEF Init
<1>2. task = DecodedTask
  <2>1. \A m \in Members : ~ Held(m)
    BY DEF Init, Held
  <2>2. new_gtask = [m \in Members |-> new_gtask[m]]
    BY DEF new_gtask
  <2> QED BY <2>1, <2>2 DEF Init, DecodedTask
<1> QED BY <1>1, <1>2 DEF Init, TaskInv

LEMMA DecodeStep == TaskInv /\ DecodeMember => TaskInv'
<1> SUFFICES ASSUME TaskInv, DecodeMember PROVE TaskInv'
  OBVIOUS
<1> PICK name \in DOMAIN object \ decoded :
       /\ task' = copy_task_values(task, name, object[name])
       /\ decoded' = decoded \cup {name}
  BY DEF DecodeMember
<1>1. UNCHANGED <<object, unified, step>> /\ step = "decode"
  BY DEF DecodeMember
<1>2. IsMember(object[name]) /\ ~ Held(name)
  BY DEF TaskInv, Held
<1>3. task = DecodedTask /\ IsTask(task)
  BY DEF TaskInv, DecodedTask, IsTask
<1>4. \A m : m # name => (Held(m)' <=> Held(m))
  BY <1>1 DEF Held
<1>5. Held(name)' <=> holds_value_or_array(object[name])
  BY <1>1 DEF Held
<1>6. DecodedTask' = [m \in Members |-> IF Held(m)' THEN Value(m, object[m]) ELSE new_gtask[m]]
  BY <1>1 DEF DecodedTask
<1>7. task' = DecodedTask'
  <2>1. CASE ~ holds_value_or_array(object[name])
    <3>1. task' = task
      BY <2>1 DEF copy_task_values
    <3>2. \A m \in Members : Held(m)' <=> Held(m)
      BY <1>2, <1>4, <1>5, <2>1
    <3> QED BY <1>3, <1>6, <3>1, <3>2 DEF DecodedTask
  <2>2. CASE holds_value_or_array(object[name])
    <3>1. name = "links" => task["links"] = <<>>
      BY <1>2, <1>3 DEF DecodedTask, Members, new_gtask, FlagMembers
    <3>2. task' = IF name \in Members THEN [task EXCEPT ![name] = Value(name, object[name])]
                  ELSE task
      BY <1>2, <1>3, <2>2, <3>1, DecodesMember
    <3>3. CASE name \in Members
      <4>1. task' = [task EXCEPT ![name] = Value(name, object[name])]
        BY <3>2, <3>3
      <4>2. \A m \in Members : task[m] = IF Held(m) THEN Value(m, object[m]) ELSE new_gtask[m]
        BY <1>3 DEF DecodedTask
      <4>3. Held(name)'
        BY <1>5, <2>2
      <4>4. task' = [m \in Members |-> IF m = name THEN Value(m, object[m]) ELSE task[m]]
        BY <1>3, <4>1 DEF IsTask
      <4> QED BY <1>4, <1>6, <4>2, <4>3, <4>4
    <3>4. CASE name \notin Members
      <4>1. \A m \in Members : Held(m)' <=> Held(m)
        BY <1>4, <3>4
      <4> QED BY <1>3, <1>6, <3>2, <3>4, <4>1 DEF DecodedTask
    <3> QED BY <3>3, <3>4
  <2> QED BY <2>1, <2>2
<1> QED BY <1>1, <1>7 DEF TaskInv

LEMMA TaskStep == TaskInv /\ [Next]_vars => TaskInv'
<1> SUFFICES ASSUME TaskInv, Next \/ UNCHANGED vars PROVE TaskInv'
  BY DEF vars
<1>1. CASE ReleaseParser
  BY <1>1 DEF ReleaseParser, TaskInv, DecodedTask, Held
<1>2. CASE CreateTask
  BY <1>2 DEF CreateTask, TaskInv, DecodedTask, Held
<1>3. CASE UNCHANGED reply_vars
  BY <1>3 DEF reply_vars, TaskInv, DecodedTask, Held
<1> QED BY <1>1, <1>2, <1>3, DecodeStep DEF Next, Created, vars

-----------------------------------------------------------------------------
(* The strings. *)

Strings(owner) == {Str(text, owner) : text \in Texts}

LEMMA StringsAreNotNull ==
  /\ NULL \notin Texts \cup Strings("task") \cup Strings("unified")
  /\ \A text \in Texts : Str(<<text, "@google.com">>, "unified") # NULL
<1>1. \A text \in Texts \cup (Texts \X {"@google.com"}), owner \in {"reply", "task", "unified"} :
        Str(text, owner) \in [text : Texts \cup (Texts \X {"@google.com"}),
                              owner : {"reply", "task", "unified"}]
  BY DEF Str
<1>2. \A text \in Texts, owner \in {"task", "unified"} : Str(text, owner) # NULL
  BY <1>1, NullAssumption
<1>3. \A text \in Texts : Str(<<text, "@google.com">>, "unified") # NULL
  BY <1>1, NullAssumption
<1> QED BY <1>2, <1>3, NullAssumption DEF Strings

\* A string member of the task is the string of the object.
LEMMA StringMember ==
  ASSUME TaskInv, step # "decode", NEW m \in StringMembers
  PROVE  /\ StringIn(object, m) \in Texts \cup {NULL}
         /\ task[m] = IF StringIn(object, m) = NULL THEN NULL
                      ELSE Str(StringIn(object, m), "task")
<1>1. m \in Members /\ m \notin DateMembers \cup FlagMembers \cup {"links"}
  BY DEF StringMembers, DateMembers, FlagMembers, Members
<1>2. decoded = DOMAIN object /\ new_gtask[m] = NULL
  BY <1>1 DEF TaskInv, new_gtask
<1>3. task[m] = IF Held(m) THEN json_node_dup_string(object[m]) ELSE NULL
  <2>1. task[m] = IF Held(m) THEN Value(m, object[m]) ELSE new_gtask[m]
    BY <1>1 DEF TaskInv, DecodedTask
  <2>2. Value(m, object[m]) = json_node_dup_string(object[m])
    BY <1>1 DEF Value
  <2> QED BY <1>2, <2>1, <2>2
<1>4. CASE m \in DOMAIN object /\ object[m].kind = "string"
  <2>1. object[m].value \in Texts
    BY <1>4 DEF TaskInv, IsMember, IsText
  <2>2. Held(m)
    BY <1>2, <1>4 DEF Held, holds_value_or_array
  <2> QED BY <1>3, <1>4, <2>1, <2>2, NullAssumption DEF StringIn, json_node_dup_string
<1>5. CASE ~ (m \in DOMAIN object /\ object[m].kind = "string")
  <2>1. StringIn(object, m) = NULL
    BY <1>5 DEF StringIn
  <2>2. task[m] = NULL
    BY <1>2, <1>3, <1>5 DEF Held, json_node_dup_string
  <2> QED BY <2>1, <2>2
<1> QED BY <1>4, <1>5

\* The links of the task are those of the object.
LEMMA LinksMember ==
  ASSUME TaskInv, step # "decode"
  PROVE  /\ Len(task.links) = Len(LinksIn) /\ DOMAIN task.links = DOMAIN LinksIn
         /\ \E S : task.links \in Seq(S)
         /\ \A i \in DOMAIN LinksIn : IsLink(LinksIn[i]) /\ task.links[i] = copy_link(LinksIn[i])
<1>1. /\ "links" \in Members
      /\ "links" \notin StringMembers \cup DateMembers \cup FlagMembers
  BY DEF StringMembers, DateMembers, FlagMembers, Members
<1>2. decoded = DOMAIN object /\ new_gtask["links"] = <<>>
  BY <1>1 DEF TaskInv, new_gtask
<1>3. task.links = IF Held("links") THEN Value("links", object["links"]) ELSE <<>>
  BY <1>1, <1>2 DEF TaskInv, DecodedTask
<1>4. CASE "links" \in DOMAIN object /\ object["links"].kind = "array"
  <2> PICK node : node = object["links"]
    OBVIOUS
  <2>1. Held("links") /\ IsMember(node)
    BY <1>2, <1>4 DEF Held, holds_value_or_array, TaskInv
  <2>2. task.links = CopiedFrom(node)
    BY <1>1, <1>3, <1>4, <2>1 DEF Value
  <2>3. LinksIn = node.value
    BY <1>4 DEF LinksIn
  <2>4. \A i \in DOMAIN node.value : IsLink(node.value[i])
    BY <1>4, <2>1 DEF IsMember
  <2>5. \A i \in DOMAIN node.value : CopiedFrom(node)[i] = copy_link(node.value[i])
    BY DEF CopiedFrom
  <2> QED BY <1>4, <2>1, <2>2, <2>3, <2>4, <2>5, LinksOfNode
<1>5. CASE ~ ("links" \in DOMAIN object /\ object["links"].kind = "array")
  <2>1. LinksIn = <<>>
    BY <1>5 DEF LinksIn
  <2>2. task.links = <<>>
    BY <1>1, <1>2, <1>3, <1>5 DEF Held, Value
  <2>3. <<>> \in Seq({}) /\ DOMAIN <<>> = {}
    OBVIOUS
  <2> QED BY <2>1, <2>2, <2>3
<1> QED BY <1>4, <1>5

\* A link has the strings of its object, and nothing where there is none.
LEMMA LinkStrings ==
  ASSUME NEW node, IsLink(node), NEW m \in LinkMembers
  PROVE  IF node.kind = "object" /\ StringIn(node.value, m) # NULL
         THEN /\ StringIn(node.value, m) \in Texts
              /\ copy_link(node)[m] = Str(StringIn(node.value, m), "task")
         ELSE copy_link(node)[m] = NULL
<1>1. new_link[m] = NULL /\ new_link = [k \in LinkMembers |-> new_link[k]]
  BY DEF new_link
<1>2. CASE node.kind # "object"
  BY <1>1, <1>2 DEF copy_link
<1>3. CASE node.kind = "object" /\ m \notin DOMAIN node.value
  BY <1>3 DEF copy_link, StringIn
<1>4. CASE node.kind = "object" /\ m \in DOMAIN node.value
  <2> PICK n : n = node.value[m]
    OBVIOUS
  <2>1. copy_link(node)[m] = copy_link_attributes(new_link, m, n)[m]
    BY <1>4 DEF copy_link
  <2>2. copy_link(node)[m] = IF holds_value_or_array(n) THEN json_node_dup_string(n) ELSE NULL
    BY <1>1, <2>1 DEF copy_link_attributes
  <2>3. n.kind = "string" => n.value \in Texts
    BY <1>4 DEF IsLink, IsText
  <2> QED BY <1>4, <2>2, <2>3, NullAssumption
          DEF StringIn, json_node_dup_string, holds_value_or_array
<1> QED BY <1>2, <1>3, <1>4

LEMMA Copied ==
  ASSUME NEW text \in Texts
  PROVE  /\ g_strdup(Str(text, "task")) = Str(text, "unified")
         /\ Text(Str(text, "unified")) = text /\ Text(Str(text, "task")) = text
         /\ Text(NULL) = NULL /\ g_strdup(NULL) = NULL
         /\ unified_uid(Str(text, "task")) = Str(<<text, "@google.com">>, "unified")
         /\ Text(unified_uid(Str(text, "task"))) = <<text, "@google.com">>
<1>1. Str(text, "task") \in Strings("task") /\ Str(text, "unified") \in Strings("unified")
  BY DEF Strings
<1> QED BY <1>1, StringsAreNotNull DEF g_strdup, Text, unified_uid, Str

\* Each string field of the unified task is made of its member.
LEMMA StringField ==
  ASSUME TaskInv, step = "created", NEW f \in DOMAIN FieldOf
  PROVE  /\ FieldOf[f] \in StringMembers
         /\ unified[f] = g_strdup(task[FieldOf[f]])
         /\ Text(unified[f]) = StringIn(object, FieldOf[f])
         /\ unified[f] # NULL => unified[f].owner = "unified"
<1>1. f \in {"title", "description", "url", "x_google_task_position"}
  BY DEF FieldOf
<1>2. unified = create_new_google_task(task)
  BY DEF TaskInv
<1>3. FieldOf[f] \in StringMembers /\ unified[f] = g_strdup(task[FieldOf[f]])
  BY <1>1, <1>2 DEF FieldOf, StringMembers, create_new_google_task
<1> PICK m \in StringMembers : m = FieldOf[f]
  BY <1>3
<1>4. CASE StringIn(object, m) = NULL
  <2>1. task[m] = NULL
    BY <1>4, StringMember
  <2>2. unified[f] = NULL /\ Text(NULL) = NULL
    BY <1>3, <2>1 DEF g_strdup, Text
  <2> QED BY <1>3, <1>4, <2>2
<1>5. CASE StringIn(object, m) # NULL
  <2> PICK text : text = StringIn(object, m)
    OBVIOUS
  <2>1. text \in Texts /\ task[m] = Str(text, "task")
    BY <1>5, StringMember
  <2>2. g_strdup(Str(text, "task")) = Str(text, "unified") /\ Text(Str(text, "unified")) = text
    BY ONLY <2>1, Copied
  <2>3. unified[f] = Str(text, "unified") /\ Text(unified[f]) = text
    BY <1>3, <2>1, <2>2
  <2> QED BY <1>3, <2>3 DEF Str
<1> QED BY <1>4, <1>5

LEMMA OwnerOfStr == \A text, owner : Str(text, owner).owner = owner
  BY DEF Str

LEMMA Owned == TaskInv => StringsOwned
<1> SUFFICES ASSUME TaskInv PROVE StringsOwned
  OBVIOUS
<1>1. ASSUME step # "decode", NEW m \in StringMembers, task[m] # NULL
      PROVE  task[m].owner = "task"
  <2>1. task[m] = Str(StringIn(object, m), "task")
    BY <1>1, StringMember
  <2> QED BY <2>1, OwnerOfStr
<1>2. ASSUME step # "decode", NEW i \in DOMAIN task.links, NEW m \in LinkMembers,
             task.links[i][m] # NULL
      PROVE  task.links[i][m].owner = "task"
  <2> PICK node : node = LinksIn[i]
    OBVIOUS
  <2>1. IsLink(node) /\ task.links[i] = copy_link(node)
    BY <1>2, LinksMember
  <2>2. copy_link(node)[m] = Str(StringIn(node.value, m), "task")
    BY <1>2, <2>1, LinkStrings
  <2> QED BY <2>1, <2>2, OwnerOfStr
<1>3. ASSUME step = "created"
      PROVE  /\ unified.uid # NULL => unified.uid.owner = "unified"
             /\ unified.related = <<g_strdup(task.parent)>>
             /\ g_strdup(task.parent) # NULL => g_strdup(task.parent).owner = "unified"
  <2>1. unified = create_new_google_task(task)
    BY <1>3 DEF TaskInv
  <2>2. unified.uid = unified_uid(task.id) /\ unified.related = <<g_strdup(task.parent)>>
    BY <2>1 DEF create_new_google_task
  <2>3. "id" \in StringMembers /\ "parent" \in StringMembers
    BY DEF StringMembers
  <2>4. task["parent"] # NULL => \E text \in Texts : task["parent"] = Str(text, "task")
    BY <1>3, <2>3, StringMember
  <2>5. g_strdup(task.parent) # NULL => g_strdup(task.parent).owner = "unified"
    BY <2>4, Copied DEF g_strdup, Str
  <2> QED BY <2>2, <2>5 DEF unified_uid, Str
<1>4. ASSUME step = "created"
      PROVE  \A f \in StringFields : unified[f] # NULL => unified[f].owner = "unified"
  BY <1>3, <1>4, StringField DEF StringFields
<1>5. ASSUME step = "created"
      PROVE  \A i \in DOMAIN unified.related :
               unified.related[i] # NULL => unified.related[i].owner = "unified"
  BY <1>3, <1>5
<1> QED BY <1>1, <1>2, <1>4, <1>5 DEF StringsOwned

LEMMA Carried == TaskInv => CarriedOver
<1> SUFFICES ASSUME TaskInv, step = "created" PROVE CarriedOver
  BY DEF CarriedOver
<1>1. unified = create_new_google_task(task)
  BY DEF TaskInv
<1>2. \A f \in DOMAIN FieldOf : Text(unified[f]) = StringIn(object, FieldOf[f])
  BY StringField
<1>3. ASSUME NEW f \in DOMAIN DateOf
      PROVE  HasNoDate(DateOf[f]) \/ unified[f] = DateIn(DateOf[f])
  <2>1. f \in {"last_modified", "due", "completed"}
    BY DEF DateOf
  <2>2. DateOf[f] \in DateMembers /\ unified[f] = task[DateOf[f]]
    BY <1>1, <2>1 DEF DateOf, DateMembers, create_new_google_task
  <2> PICK m \in DateMembers : m = DateOf[f]
    BY <2>2
  <2>3. m \in Members /\ m \notin StringMembers \cup FlagMembers \cup {"links"}
    BY DEF StringMembers, DateMembers, FlagMembers, Members
  <2>4. decoded = DOMAIN object /\ new_gtask[m] = NULL
    BY <2>3 DEF TaskInv, new_gtask
  <2>5. Value(m, object[m]) = date_time(object[m])
    BY <2>3 DEF Value
  <2>6. task[m] = IF Held(m) THEN date_time(object[m]) ELSE NULL
    BY <2>3, <2>4, <2>5 DEF TaskInv, DecodedTask
  <2>7. ASSUME Held(m), ~ HasNoDate(m) PROVE task[m] = DateIn(m)
    <3>1. m \in DOMAIN object /\ holds_value_or_array(object[m]) /\ StringIn(object, m) \in Dates
      BY <2>4, <2>7 DEF Held, HasNoDate
    <3>2. object[m].kind = "string" /\ object[m].value \in Dates
          /\ StringIn(object, m) = object[m].value
      BY <3>1, NullAssumption DEF StringIn
    <3> QED BY <2>6, <2>7, <3>2 DEF DateIn, date_time
  <2>8. ASSUME ~ Held(m) PROVE task[m] = DateIn(m)
    <3>1. task[m] = NULL /\ ~ (m \in DOMAIN object /\ object[m].kind = "string")
      BY <2>4, <2>6, <2>8 DEF Held, holds_value_or_array
    <3>2. StringIn(object, m) = NULL
      BY <3>1 DEF StringIn
    <3> QED BY <3>1, <3>2, NullAssumption DEF DateIn
  <2> QED BY <2>2, <2>7, <2>8
<1>4. ASSUME NEW f \in DOMAIN FlagOf
      PROVE  unified[f] = FlagIn(FlagOf[f])
  <2>1. f \in {"x_google_task_deleted", "x_google_task_hidden"}
    BY DEF FlagOf
  <2>2. FlagOf[f] \in FlagMembers /\ unified[f] = task[FlagOf[f]]
    BY <1>1, <2>1 DEF FlagOf, FlagMembers, create_new_google_task
  <2> PICK m \in FlagMembers : m = FlagOf[f]
    BY <2>2
  <2>3. m \in Members /\ m \notin StringMembers \cup DateMembers \cup {"links"}
    BY DEF StringMembers, DateMembers, FlagMembers, Members
  <2>4. decoded = DOMAIN object /\ new_gtask[m] = FALSE
    BY <2>3 DEF TaskInv, new_gtask
  <2>5. Value(m, object[m]) = json_node_get_boolean(object[m])
    BY <2>3 DEF Value
  <2>6. task[m] = IF Held(m) THEN json_node_get_boolean(object[m]) ELSE FALSE
    BY <2>3, <2>4, <2>5 DEF TaskInv, DecodedTask
  <2>7. CASE ~ Held(m)
    <3>1. m \in DOMAIN object => object[m].kind \in {"null", "object"}
      BY <2>4, <2>7 DEF Held, holds_value_or_array
    <3>2. ~ FlagIn(m)
      BY <3>1 DEF FlagIn, Node
    <3> QED BY <2>2, <2>6, <2>7, <3>2 DEF FlagIn
  <2>8. CASE Held(m)
    <3>1. m \in DOMAIN object /\ task[m] = json_node_get_boolean(object[m])
      BY <2>4, <2>6, <2>8 DEF Held
    <3>2. IsMember(object[m])
      BY <3>1 DEF TaskInv
    <3>3. object[m].kind = "boolean" =>
            object[m] \in {Node("boolean", TRUE), Node("boolean", FALSE)}
      BY <3>2 DEF IsMember
    <3>4. CASE object[m].kind = "boolean" /\ object[m] = Node("boolean", TRUE)
      BY <2>2, <3>1, <3>4 DEF json_node_get_boolean, FlagIn, Node
    <3>5. CASE object[m].kind = "boolean" /\ object[m] = Node("boolean", FALSE)
      BY <2>2, <3>1, <3>5 DEF json_node_get_boolean, FlagIn, Node
    <3>6. CASE object[m].kind # "boolean"
      <4>1. object[m] # Node("boolean", TRUE)
        BY <3>6 DEF Node
      <4> QED BY <2>2, <3>1, <3>6, <4>1 DEF json_node_get_boolean, FlagIn
    <3> QED BY <3>3, <3>4, <3>5, <3>6
  <2> QED BY <2>7, <2>8
<1>5. {"id", "parent", "status"} \subseteq StringMembers
  BY DEF StringMembers
<1>6. unified.related # <<>> => Text(unified.related[1]) = StringIn(object, "parent")
  <2>1. unified.related[1] = g_strdup(task.parent)
    BY <1>1 DEF create_new_google_task
  <2>2. /\ StringIn(object, "parent") \in Texts \cup {NULL}
        /\ task["parent"] = IF StringIn(object, "parent") = NULL THEN NULL
                            ELSE Str(StringIn(object, "parent"), "task")
    BY <1>5, StringMember
  <2>3. ASSUME NEW text \in Texts
        PROVE  Text(g_strdup(Str(text, "task"))) = text
    BY Copied
  <2>4. Text(g_strdup(NULL)) = NULL
    BY DEF g_strdup, Text
  <2> QED BY <2>1, <2>2, <2>3, <2>4
<1>7. Text(unified.uid) = IF StringIn(object, "id") = NULL THEN NULL
                          ELSE <<StringIn(object, "id"), "@google.com">>
  <2>1. unified.uid = unified_uid(task.id)
    BY <1>1 DEF create_new_google_task
  <2>2. /\ StringIn(object, "id") \in Texts \cup {NULL}
        /\ task["id"] = IF StringIn(object, "id") = NULL THEN NULL
                        ELSE Str(StringIn(object, "id"), "task")
    BY <1>5, StringMember
  <2>3. StringIn(object, "id") # NULL =>
          Text(unified_uid(task["id"])) = <<StringIn(object, "id"), "@google.com">>
    <3>1. ASSUME NEW text \in Texts
          PROVE  Text(unified_uid(Str(text, "task"))) = <<text, "@google.com">>
      BY Copied
    <3> QED BY <2>2, <3>1
  <2> QED BY <2>1, <2>2, <2>3 DEF unified_uid, Text
<1>8. unified.status = IF StringIn(object, "status") = "completed"
                       THEN "STATUS_COMPLETED" ELSE "STATUS_NEEDS_ACTION"
  <2>1. unified.status = google_string_to_status(task.status)
    BY <1>1 DEF create_new_google_task
  <2>2. /\ StringIn(object, "status") \in Texts \cup {NULL}
        /\ task["status"] = IF StringIn(object, "status") = NULL THEN NULL
                            ELSE Str(StringIn(object, "status"), "task")
    BY <1>5, StringMember
  <2>3. \A text \in Texts : Str(text, "task") # NULL /\ Str(text, "task").text = text
    BY StringsAreNotNull DEF Strings, Str
  <2> QED BY <2>1, <2>2, <2>3, NullAssumption DEF google_string_to_status
<1>9. unified.attach = task.links
  <2>1. unified.attach = copied_links(task.links)
    BY <1>1 DEF create_new_google_task
  <2> QED BY <2>1, LinksMember, CopiedLinks
<1>10. ASSUME NEW i \in DOMAIN LinksIn, NEW m \in LinkMembers
       PROVE  Text(unified.attach[i][m]) =
                IF LinksIn[i].kind = "object" THEN StringIn(LinksIn[i].value, m) ELSE NULL
  <2> PICK node : node = LinksIn[i]
    OBVIOUS
  <2>1. IsLink(node) /\ unified.attach[i] = copy_link(node)
    BY <1>9, LinksMember
  <2>2. CASE node.kind = "object" /\ StringIn(node.value, m) # NULL
    <3> PICK text : text = StringIn(node.value, m)
      OBVIOUS
    <3>1. text \in Texts /\ copy_link(node)[m] = Str(text, "task")
      BY <2>1, <2>2, LinkStrings
    <3> QED BY <2>1, <2>2, <3>1, Copied
  <2>3. CASE ~ (node.kind = "object" /\ StringIn(node.value, m) # NULL)
    <3>1. copy_link(node)[m] = NULL
      BY <2>1, <2>3, LinkStrings
    <3> QED BY <2>1, <2>3, <3>1 DEF Text
  <2> QED BY <2>2, <2>3
<1>11. Len(unified.attach) = Len(LinksIn)
  BY <1>9, LinksMember
<1> QED BY <1>2, <1>3, <1>4, <1>6, <1>7, <1>8, <1>10, <1>11 DEF CarriedOver

\* create_new_google_task, after copy_task_values has been called for each
\* member in any order: the unified task holds what the JSON object says, for
\* any object.
THEOREM TasksCarriedOver == Spec => []CarriedOver
<1> QED BY TaskInit, TaskStep, Carried, PTL DEF Spec

\* The parser may be released, and then the Google task but for its links:
\* each string of a task is its own, for any object.
THEOREM OwnStrings == Spec => []StringsOwned
<1> QED BY TaskInit, TaskStep, Owned, PTL DEF Spec

-----------------------------------------------------------------------------
(* The list of todos. *)

Places == Nat \X Nat \X Nat

Open == at \in {"component", "subcomponent"}

TypeInv ==
  /\ at \in {"idle", "component", "subcomponent", "abort"}
  /\ reads \in Nat
  /\ ical_set \in Seq(Seq(STRING))
  /\ component \in Nat \ {0} /\ c \in Nat \ {0}
  /\ ical_todos \in Seq(Places)
  /\ at = "subcomponent" => component \in 1 .. Len(ical_set)

LEMMA TypeInit == ICalInit => TypeInv
  BY DEF ICalInit, TypeInv

LEMMA TypeStep == TypeInv /\ [ICalNext]_ical_vars => TypeInv'
<1> SUFFICES ASSUME TypeInv, [ICalNext]_ical_vars PROVE TypeInv'
  OBVIOUS
<1>1. CASE open_set
  <2>1. ical_set' \in Seq(Seq(STRING))
    BY <1>1, FilesAssumption DEF open_set
  <2> QED BY <1>1, <2>1 DEF open_set, TypeInv
<1>2. CASE append_subcomponent
  <2>1. <<reads, component, c>> \in Places
    BY DEF TypeInv, Places
  <2>2. Append(ical_todos, <<reads, component, c>>) \in Seq(Places)
    BY <2>1, AppendProperties DEF TypeInv
  <2> QED BY <1>2, <2>2 DEF append_subcomponent, TypeInv
<1>3. CASE no_set
  BY <1>3 DEF no_set, TypeInv
<1>4. CASE first_subcomponent \/ next_component
  BY <1>4 DEF first_subcomponent, next_component, TypeInv
<1>5. CASE free_set
  <2>1. ical_set' \in Seq(Seq(STRING))
    BY <1>5 DEF free_set
  <2> QED BY <1>5, <2>1 DEF free_set, TypeInv
<1>6. CASE ICalDone \/ UNCHANGED ical_vars
  BY <1>6 DEF ICalDone, ical_vars, TypeInv
<1> QED BY <1>1, <1>2, <1>3, <1>4, <1>5, <1>6 DEF ICalNext

-----------------------------------------------------------------------------
(* Places. *)

\* The places of an open file.
LEMMA PlacesOfFile ==
  ASSUME NEW set \in Seq(Seq(STRING)), NEW call \in Nat, NEW t
  PROVE  t \in Subcomponents(set, call) <=>
           \E i \in 1 .. Len(set) : \E j \in 1 .. Len(set[i]) : t = <<call, i, j>>
<1>1. DOMAIN set = 1 .. Len(set) /\ \A i \in 1 .. Len(set) : DOMAIN set[i] = 1 .. Len(set[i])
  BY ElementOfSeq
<1> QED BY <1>1 DEF Subcomponents

\* What Append adds to the elements of a list of places.
LEMMA ElementsOfAppend ==
  ASSUME NEW s \in Seq(Places), NEW e \in Places
  PROVE  /\ {Append(s, e)[i] : i \in DOMAIN Append(s, e)} = {s[i] : i \in DOMAIN s} \cup {e}
         /\ DOMAIN Append(s, e) = 1 .. Len(s) + 1 /\ DOMAIN s = 1 .. Len(s)
         /\ Len(s) \in Nat
         /\ \A i \in 1 .. Len(s) : Append(s, e)[i] = s[i]
         /\ Append(s, e)[Len(s) + 1] = e
<1>1. /\ DOMAIN s = 1 .. Len(s) /\ Len(s) \in Nat
      /\ DOMAIN Append(s, e) = 1 .. Len(s) + 1
      /\ \A i \in 1 .. Len(s) : Append(s, e)[i] = s[i]
      /\ Append(s, e)[Len(s) + 1] = e
  BY AppendProperties, LenProperties
<1>2. 1 .. Len(s) + 1 = (1 .. Len(s)) \cup {Len(s) + 1}
  BY <1>1
<1> QED BY <1>1, <1>2

-----------------------------------------------------------------------------
(* The loops. *)

InOrder == \A i, j \in DOMAIN ical_todos : i < j => Before(ical_todos[i], ical_todos[j])

\* No todo of the list is ahead of the loops.
Behind == \A t \in Todos : IF Open THEN Before(t, Here) ELSE t[1] <= reads

Complete ==
  Open => \A t \in Subcomponents(ical_set, reads) :
            t \in Todos <=> Before(t, Here) /\ ical_set[t[2]][t[3]] = "VTODO"

OrderInv == InOrder /\ Behind /\ Complete

LEMMA OrderInit == ICalInit => OrderInv
  BY DEF ICalInit, OrderInv, InOrder, Behind, Complete, Todos, Open

LEMMA TodosTyped == TypeInv => \A t \in Todos : t \in Places
  BY ElementOfSeq DEF TypeInv, Todos

\* A step that leaves the list alone.
LEMMA SameList ==
  ASSUME TypeInv, InOrder, UNCHANGED ical_todos
  PROVE  InOrder' /\ Todos' = Todos
  BY DEF InOrder, Todos, Before

LEMMA OpenStep == TypeInv /\ OrderInv /\ open_set => OrderInv'
<1> SUFFICES ASSUME TypeInv, OrderInv, open_set PROVE OrderInv'
  OBVIOUS
<1>1. InOrder' /\ Todos' = Todos
  BY SameList DEF open_set, OrderInv
<1>2. /\ at = "idle" /\ reads \in Nat /\ reads' = reads + 1
      /\ Here' = <<reads + 1, 1, 0>> /\ Open'
      /\ ical_set' \in Seq(Seq(STRING))
  BY FilesAssumption DEF open_set, TypeInv, Here, Open
<1>3. \A t \in Todos : t \in Places /\ t[1] <= reads
  BY <1>2, TodosTyped DEF OrderInv, Behind, Open
<1>4. Behind'
  BY <1>1, <1>2, <1>3 DEF Behind, Before, Places
<1>5. Complete'
  <2> SUFFICES ASSUME NEW t \in Subcomponents(ical_set, reads)'
               PROVE  t \notin Todos /\ ~Before(t, <<reads + 1, 1, 0>>)
    BY <1>1, <1>2 DEF Complete
  <2>1. PICK i \in 1 .. Len(ical_set') : \E j \in 1 .. Len(ical_set'[i]) : t = <<reads + 1, i, j>>
    <3>1. t \in Subcomponents(ical_set', reads + 1)
      BY <1>2
    <3>2. reads + 1 \in Nat
      BY <1>2
    <3> QED BY <1>2, <3>1, <3>2, PlacesOfFile
  <2>2. PICK j \in 1 .. Len(ical_set'[i]) : t = <<reads + 1, i, j>>
    BY <2>1
  <2>3. i >= 1 /\ j >= 1 /\ i \in Int /\ j \in Int
    OBVIOUS
  <2> QED BY <1>2, <1>3, <2>2, <2>3 DEF Before
<1> QED BY <1>1, <1>4, <1>5 DEF OrderInv

\* The loops go on and the list stays: what is at or in front of the new place
\* was so for the old one.
LEMMA WalkStep ==
  TypeInv /\ OrderInv /\ (first_subcomponent \/ next_component) => OrderInv'
<1> SUFFICES ASSUME TypeInv, OrderInv, first_subcomponent \/ next_component
             PROVE  OrderInv'
  OBVIOUS
<1>1. InOrder' /\ Todos' = Todos
  BY SameList DEF first_subcomponent, next_component, OrderInv
<1>2. UNCHANGED <<reads, ical_set>> /\ Open /\ Open'
  BY DEF first_subcomponent, next_component, Open
<1>3. /\ reads \in Nat /\ component \in Nat /\ c \in Nat /\ ical_set \in Seq(Seq(STRING))
  BY DEF TypeInv
<1>4. \/ Here = <<reads, component, 0>> /\ Here' = <<reads, component, 1>>
      \/ /\ Here = <<reads, component, c>> /\ Here' = <<reads, component + 1, 0>>
         /\ c > Len(ical_set[component])
  BY DEF first_subcomponent, next_component, Here
<1>5. Behind'
  <2> SUFFICES ASSUME NEW t \in Todos PROVE Before(t, Here')
    BY <1>1, <1>2 DEF Behind
  <2>1. t \in Places /\ Before(t, Here)
    BY <1>2, TodosTyped DEF OrderInv, Behind
  <2> QED BY <1>3, <1>4, <2>1 DEF Before, Places
<1>6. Complete'
  <2> SUFFICES ASSUME NEW t \in Subcomponents(ical_set, reads)
               PROVE  Before(t, Here') <=> Before(t, Here)
    BY <1>1, <1>2 DEF Complete, OrderInv
  <2>1. PICK i \in 1 .. Len(ical_set) : \E j \in 1 .. Len(ical_set[i]) : t = <<reads, i, j>>
    BY <1>3, PlacesOfFile
  <2>2. PICK j \in 1 .. Len(ical_set[i]) : t = <<reads, i, j>>
    BY <2>1
  <2>3. Len(ical_set[i]) \in Nat
    BY <1>3, ElementOfSeq, LenProperties
  <2>4. i >= 1 /\ j >= 1 /\ i \in Int /\ j \in Int
    BY <2>3
  <2>5. i = component => j <= Len(ical_set[component])
    BY <2>3
  <2>6. CASE Here = <<reads, component, 0>> /\ Here' = <<reads, component, 1>>
    BY ONLY <1>3, <2>2, <2>4, <2>6 DEF Before
  <2>7. CASE /\ Here = <<reads, component, c>> /\ Here' = <<reads, component + 1, 0>>
             /\ c > Len(ical_set[component])
    <3>1. i = component => j < c
      BY <1>3, <2>3, <2>4, <2>5, <2>7
    <3> QED BY ONLY <1>3, <2>2, <2>4, <2>7, <3>1 DEF Before
  <2> QED BY <1>4, <2>6, <2>7
<1> QED BY <1>1, <1>5, <1>6 DEF OrderInv

LEMMA AppendStep == TypeInv /\ OrderInv /\ append_subcomponent => OrderInv'
<1> SUFFICES ASSUME TypeInv, OrderInv, append_subcomponent PROVE OrderInv'
  OBVIOUS
<1> DEFINE e == <<reads, component, c>>
<1>1. /\ reads \in Nat /\ component \in Nat /\ c \in Nat
      /\ ical_set \in Seq(Seq(STRING)) /\ ical_todos \in Seq(Places) /\ e \in Places
  BY DEF TypeInv, Places
<1>2. /\ UNCHANGED <<reads, ical_set>> /\ Open /\ Open'
      /\ Here = e /\ Here' = <<reads, component, c + 1>>
  BY DEF append_subcomponent, Open, Here
<1>3. \A t \in Places : Before(t, Here') <=> Before(t, e) \/ t = e
  BY <1>1, <1>2 DEF Before, Places
<1>4. \A t \in Todos : t \in Places /\ Before(t, e)
  BY <1>2, TodosTyped DEF OrderInv, Behind
<1>5. \A t \in Subcomponents(ical_set, reads) : t \in Places
  <2> SUFFICES ASSUME NEW t \in Subcomponents(ical_set, reads) PROVE t \in Places
    OBVIOUS
  <2>1. PICK i \in 1 .. Len(ical_set) : \E j \in 1 .. Len(ical_set[i]) : t = <<reads, i, j>>
    BY <1>1, PlacesOfFile
  <2> QED BY <1>1, <2>1 DEF Places
<1>6. e \notin Todos /\ ~Before(e, e)
  BY <1>1, <1>4 DEF Before
<1>7. CASE ical_set[component][c] = "VTODO"
  <2>1. ical_todos' = Append(ical_todos, e)
    BY <1>7 DEF append_subcomponent
  <2>2. Todos' = Todos \cup {e}
    <3>1. {Append(ical_todos, e)[i] : i \in DOMAIN Append(ical_todos, e)} = Todos \cup {e}
      BY <1>1, ElementsOfAppend DEF Todos
    <3> QED BY <2>1, <3>1 DEF Todos
  <2>3. InOrder'
    <3> SUFFICES ASSUME NEW i \in DOMAIN ical_todos', NEW j \in DOMAIN ical_todos', i < j
                 PROVE  Before(ical_todos'[i], ical_todos'[j])
      BY DEF InOrder, Before
    <3>1. /\ DOMAIN ical_todos' = 1 .. Len(ical_todos) + 1
          /\ DOMAIN ical_todos = 1 .. Len(ical_todos) /\ Len(ical_todos) \in Nat
          /\ \A k \in 1 .. Len(ical_todos) : ical_todos'[k] = ical_todos[k]
          /\ ical_todos'[Len(ical_todos) + 1] = e
      BY <1>1, <2>1, ElementsOfAppend
    <3>2. i \in 1 .. Len(ical_todos) /\ ical_todos'[i] = ical_todos[i]
      BY <3>1
    <3>3. CASE j \in 1 .. Len(ical_todos)
      BY <3>1, <3>2, <3>3 DEF OrderInv, InOrder
    <3>4. CASE j = Len(ical_todos) + 1
      <4>1. ical_todos[i] \in Todos
        BY <3>1, <3>2 DEF Todos
      <4> QED BY <1>4, <3>1, <3>2, <3>4, <4>1
    <3> QED BY <3>1, <3>3, <3>4
  <2>4. Behind'
    BY <1>2, <1>3, <1>1, <1>4, <2>2 DEF Behind
  <2>5. e[2] = component /\ e[3] = c
    OBVIOUS
  <2>6. Complete'
    <3> SUFFICES ASSUME NEW t \in Subcomponents(ical_set, reads)
                 PROVE  t \in Todos' <=> Before(t, Here') /\ ical_set[t[2]][t[3]] = "VTODO"
      BY <1>2 DEF Complete
    <3>1. t \in Todos <=> Before(t, e) /\ ical_set[t[2]][t[3]] = "VTODO"
      BY <1>2 DEF OrderInv, Complete
    <3> QED BY <1>3, <1>5, <1>7, <2>2, <2>5, <3>1
  <2> QED BY <2>3, <2>4, <2>6 DEF OrderInv
<1>8. CASE ical_set[component][c] # "VTODO"
  <2>1. InOrder' /\ Todos' = Todos
    BY <1>8, SameList DEF append_subcomponent, OrderInv
  <2>2. Behind'
    BY <1>2, <1>3, <1>4, <2>1 DEF Behind
  <2>3. e[2] = component /\ e[3] = c
    OBVIOUS
  <2>4. Complete'
    <3> SUFFICES ASSUME NEW t \in Subcomponents(ical_set, reads)
                 PROVE  t \in Todos' <=> Before(t, Here') /\ ical_set[t[2]][t[3]] = "VTODO"
      BY <1>2 DEF Complete
    <3>1. t \in Todos <=> Before(t, e) /\ ical_set[t[2]][t[3]] = "VTODO"
      BY <1>2 DEF OrderInv, Complete
    <3> QED BY <1>3, <1>5, <1>8, <2>1, <2>3, <3>1
  <2> QED BY <2>1, <2>2, <2>4 DEF OrderInv
<1> QED BY <1>7, <1>8

\* The file is closed, or could not be opened.
LEMMA CloseStep == TypeInv /\ OrderInv /\ (free_set \/ no_set) => OrderInv'
<1> SUFFICES ASSUME TypeInv, OrderInv, free_set \/ no_set PROVE OrderInv'
  OBVIOUS
<1>1. InOrder' /\ Todos' = Todos
  BY SameList DEF free_set, no_set, OrderInv
<1>2. ~Open' /\ reads \in Nat /\ reads' >= reads /\ reads' \in Nat
  BY DEF free_set, no_set, Open, TypeInv
<1>3. Behind'
  <2> SUFFICES ASSUME NEW t \in Todos PROVE t[1] <= reads'
    BY <1>1, <1>2 DEF Behind
  <2>1. t \in Places
    BY TodosTyped
  <2>2. t[1] <= reads
    BY <1>2, <2>1 DEF OrderInv, Behind, Before, Here, Places
  <2> QED BY <1>2, <2>1, <2>2 DEF Places
<1> QED BY <1>1, <1>2, <1>3 DEF OrderInv, Complete

LEMMA OrderStep == TypeInv /\ OrderInv /\ [ICalNext]_ical_vars => OrderInv'
<1> SUFFICES ASSUME TypeInv, OrderInv, ICalNext \/ UNCHANGED ical_vars PROVE OrderInv'
  OBVIOUS
<1>1. CASE ICalDone \/ UNCHANGED ical_vars
  BY <1>1 DEF ICalDone, ical_vars, OrderInv, InOrder, Behind, Complete, Todos, Open,
              Here, Before, Subcomponents
<1> QED BY <1>1, OpenStep, WalkStep, AppendStep, CloseStep DEF ICalNext

LEMMA ReadsFiles == [Next]_vars => [ICalNext]_ical_vars
  BY DEF Next, vars, ical_vars

\* read_vtodo_from_ical_file appends the todos of each file in its order and
\* misses none, however many files are read and whatever they contain.
THEOREM FilesInOrder == Spec => []TodosInFileOrder
<1>1. OrderInv => TodosInFileOrder
  BY DEF OrderInv, InOrder, Complete, Open, TodosInFileOrder
<1>2. Init => ICalInit
  BY DEF Init
<1> QED BY <1>1, <1>2, ReadsFiles, TypeInit, TypeStep, OrderInit, OrderStep, PTL DEF Spec
=============================================================================
