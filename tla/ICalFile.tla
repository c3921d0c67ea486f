------------------------------ MODULE ICalFile ------------------------------
(***************************************************************************)
(* read_vtodo_from_ical_file (icalendar.c): append the VTODO components of *)
(* a file to a list of todos, file after file.                             *)
(*                                                                         *)
(* A file is the sequence of its components, each the sequence of the      *)
(* kinds of its subcomponents.  libical owns the components of a file that *)
(* is open; a subcomponent is <<the number of the call, its component, its *)
(* place there>>.                                                          *)
(***************************************************************************)
EXTENDS Integers, Sequences

CONSTANTS
  IcalFiles,   \* the contents of the files
  MaxReads     \* bound: the files read

ASSUME MaxReadsAssumption == MaxReads \in Nat
ASSUME FilesAssumption == \A file \in IcalFiles : file \in Seq(Seq(STRING))

VARIABLES
  at,           \* "idle", "component", "subcomponent" or "abort"
  reads,        \* the calls made
  ical_set,     \* the file that is open
  component, c, \* the places of both loops
  ical_todos,   \* the list, of pointers
  live          \* the components whose memory is allocated

ical_vars == <<at, reads, ical_set, component, c, ical_todos, live>>

Subcomponents(set, call) ==
  UNION {{<<call, i, j>> : j \in DOMAIN set[i]} : i \in DOMAIN set}

ICalInit ==
  /\ at = "idle"
  /\ reads = 0
  /\ ical_set = <<>>
  /\ component = 1 /\ c = 1
  /\ ical_todos = <<>>
  /\ live = {}

open_set ==
  /\ at = "idle"
  /\ reads < MaxReads
  /\ reads' = reads + 1
  /\ ical_set' \in IcalFiles
  /\ live' = live \cup Subcomponents(ical_set', reads')
  /\ component' = 1
  /\ c' = 1
  /\ at' = "component"
  /\ UNCHANGED ical_todos

\* A file that cannot be opened gives NULL, and libical, as it was built, ends
\* the process or reports an error: then there are no components.
no_set ==
  /\ at = "idle"
  /\ reads < MaxReads
  /\ reads' = reads + 1
  /\ at' \in {"abort", "idle"}
  /\ UNCHANGED <<ical_set, component, c, ical_todos, live>>

first_subcomponent ==
  /\ at = "component"
  /\ component <= Len(ical_set)
  /\ c' = 1
  /\ at' = "subcomponent"
  /\ UNCHANGED <<reads, ical_set, component, ical_todos, live>>

\* Mutant: the todo is put in front of the list.
prepend_subcomponent ==
  /\ at = "subcomponent"
  /\ c <= Len(ical_set[component])
  /\ ical_todos' = IF ical_set[component][c] = "VTODO"
                   THEN <<<<reads, component, c>>>> \o ical_todos ELSE ical_todos
  /\ c' = c + 1
  /\ UNCHANGED <<at, reads, ical_set, component, live>>

\* What is appended is the pointer.
append_subcomponent ==
  /\ at = "subcomponent"
  /\ c <= Len(ical_set[component])
  /\ ical_todos' = IF ical_set[component][c] = "VTODO"
                   THEN Append(ical_todos, <<reads, component, c>>) ELSE ical_todos
  /\ c' = c + 1
  /\ UNCHANGED <<at, reads, ical_set, component, live>>

\* icalcomponent_free leaves a component alone that belongs to a set.
next_component ==
  /\ at = "subcomponent"
  /\ c > Len(ical_set[component])
  /\ component' = component + 1
  /\ at' = "component"
  /\ UNCHANGED <<reads, ical_set, c, ical_todos, live>>

\* icalfileset_free frees the file with all its components.
free_set ==
  /\ at = "component"
  /\ component > Len(ical_set)
  /\ live' = live \ Subcomponents(ical_set, reads)
  /\ ical_set' = <<>>
  /\ at' = "idle"
  /\ UNCHANGED <<reads, component, c, ical_todos>>

ICalDone ==
  /\ at = "abort" \/ (at = "idle" /\ reads = MaxReads)
  /\ UNCHANGED ical_vars

ICalNext == open_set \/ no_set \/ first_subcomponent \/ append_subcomponent
            \/ next_component \/ free_set \/ ICalDone

ICalSpec == ICalInit /\ [][ICalNext]_ical_vars

-----------------------------------------------------------------------------
(* Properties. *)

Before(s, t) == \/ s[1] < t[1]
                \/ s[1] = t[1] /\ s[2] < t[2]
                \/ s[1] = t[1] /\ s[2] = t[2] /\ s[3] < t[3]

Todos == {ical_todos[i] : i \in DOMAIN ical_todos}

\* Where both loops are; everything before it has been passed.
Here == <<reads, component, IF at = "component" THEN 0 ELSE c>>

\* The list has the todos of the files in the order they were read and in the
\* order of each file, and has every todo of the open file that was passed.
TodosInFileOrder ==
  /\ \A i, j \in DOMAIN ical_todos : i < j => Before(ical_todos[i], ical_todos[j])
  /\ at \in {"component", "subcomponent"} =>
       \A t \in Subcomponents(ical_set, reads) :
         t \in Todos <=> Before(t, Here) /\ ical_set[t[2]][t[3]] = "VTODO"

-----------------------------------------------------------------------------
(* What the comments say and the code does not do. *)

\* icalendar.c: "copy the component into our iCalendar todo list".
TodosOutliveFile == at = "idle" => Todos \subseteq live
=============================================================================
