---------------------------- MODULE MCLoginPage -----------------------------
(***************************************************************************)
(* TLC instance of LoginPage: pages with every mix of attributes, and      *)
(* pages of every small shape.                                             *)
(***************************************************************************)
EXTENDS LoginPage

\* The parts of the URLs, the names and the values that occur on a page.
Urls   == {GOOGLE_GMAIL_LOGIN, GOOGLE_GMAIL_LOGIN \o <<"Auth">>,
           <<"https://accounts.google.com">>, <<"other">>, NULL}
Names  == {"Email", "Passwd", "extra", NULL}
Values == {"old", NULL}

UpTo(n, S) == UNION {[1 .. k -> S] : k \in 0 .. n}

(* Pages with every mix of attributes and a flat tree: forms with inputs.    *)
Input(name, value) == [depth |-> 2, kind |-> "input", name |-> name, value |-> value]
Inputs     == {Input(n, v) : n \in Names, v \in Values}
FormNodes(names, values) ==
  [depth : {1}, kind : {"form"}, action : Urls, name : names, value : values]
Root       == [depth |-> 0, kind |-> "other"]
LargeForms == {<<f>> \o s : f \in FormNodes({NULL}, {NULL}), s \in UpTo(3, Inputs)}
                \cup {<<f>> \o s : f \in FormNodes({"Email", NULL}, {"own", NULL}),
                                   s \in UpTo(2, Inputs)}
SmallForms == {<<f>> \o s : f \in FormNodes({NULL}, {NULL}),
                            s \in UpTo(1, {Input(n, "old") : n \in Names})}
FlatTrees  == {<<Root>> \o f : f \in LargeForms \cup {a \o b : a, b \in SmallForms}}

(* Trees of every shape, whose attributes tell the nodes apart; only forms   *)
(* and other elements have children.                                         *)
CONSTANT MaxNodes   \* bound: the nodes below the root
Kinds == {"form", "input", "other", "text"}

Depths(n) == {d \in [1 .. n -> 1 .. n] :
                /\ n > 0 => d[1] = 1
                /\ \A i \in 2 .. n : d[i] <= d[i - 1] + 1}

NodeAt(i, depth, kind) ==
  CASE kind = "form" -> [depth |-> depth, kind |-> kind,
                         action |-> Append(GOOGLE_GMAIL_LOGIN, ToString(i)),
                         name |-> "form", value |-> ToString(i)]
    [] kind = "input" -> [depth |-> depth, kind |-> kind, value |-> ToString(i),
                          name |-> IF i % 2 = 0 THEN "Email" ELSE "Passwd"]
    [] OTHER -> [depth |-> depth, kind |-> kind]

DeepTree(n, d, k) == <<Root>> \o [i \in 1 .. n |-> NodeAt(i, d[i], k[i])]

Shaped(n, d) ==
  {DeepTree(n, d, k) : k \in {kinds \in [1 .. n -> Kinds] :
     \A i \in 1 .. n - 1 : kinds[i] \in {"input", "text"} => d[i + 1] <= d[i]}}

MCTrees     == {<<>>} \cup FlatTrees
               \cup UNION {UNION {Shaped(n, d) : d \in Depths(n)} : n \in 0 .. MaxNodes}
MCUserNames == {"me", NULL}
=============================================================================
