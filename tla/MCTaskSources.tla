--------------------------- MODULE MCTaskSources ----------------------------
(***************************************************************************)
(* TLC instance of TaskSources: objects with a few of the members of a     *)
(* task, each of any type, or with the member of an error reply; and four  *)
(* files.                                                                  *)
(***************************************************************************)
EXTENDS TaskSources, FiniteSetsExt

CONSTANT MaxMembers   \* bound: the members of an object

Null   == Node("null", NULL)
Number == Node("number", 5)
Zero   == Node("number", 0)

Links == {<<>>,
          <<Node("object", [m \in LinkMembers |-> Node("string", m)]),
            Node("object", [m \in {"link"} |-> Node("string", "second")])>>,
          <<Number, Node("object", [m \in {"type"} |-> Null])>>}

\* A string is the name of its member, so that a mix-up shows.
NodesOf(m) ==
  CASE m = "status" -> {Node("string", v) : v \in {"completed", "needsAction", "new"}}
    [] m \in StringMembers \ {"status"} -> {Node("string", m), Null, Number}
    [] m \in DateMembers -> {Node("string", d) : d \in Dates \cup {"tomorrow"}}
                              \cup {Null, Node("object", <<>>)}
    [] m \in FlagMembers -> {Node("boolean", TRUE), Node("boolean", FALSE), Number, Zero, Node("string", m)}
    [] m = "links" -> {Node("array", s) : s \in Links} \cup {Number}
    [] m = "error" -> {Node("object", <<>>)}

MCIcalFiles == {<<>>, <<<<"VTODO">>>>, <<<<"VEVENT", "VTODO">>, <<"VTODO", "VTODO">>>>,
                <<<<>>, <<"VTODO", "VEVENT">>>>}

MCObjects ==
  UNION {{members \in [names -> UNION {NodesOf(m) : m \in names}] :
            \A m \in names : members[m] \in NodesOf(m)} :
           names \in UNION {kSubset(n, Members \cup {"error"}) : n \in 0 .. MaxMembers}}

MCTexts == Members \cup LinkMembers \cup Dates
           \cup {"completed", "needsAction", "new", "tomorrow", "second"}
=============================================================================
