-------------------------------- MODULE Flow --------------------------------
(***************************************************************************)
(* Why two iterations of a wrapper stand for all: a table of the contents  *)
(* each location may have before each step, which every step leads from    *)
(* one row to the next and the end of the timed loop back to its start.    *)
(* Wrapper is any wrapper; here it is one that comes with such a table.    *)
(***************************************************************************)
EXTENDS Wrapper

CONSTANT Flow
  \* backend -> benchmark -> part of the wrapper -> the rows before each of
  \* its steps and after the last; a row gives each location its contents

Within(row, other) == \A v \in Loc : row[v] \subseteq other[v]

(* What a step makes of a row it is written for.                           *)
After(s, row) ==
  [v \in Loc |-> IF v \in DOMAIN s.gives THEN {s.gives[v]} ELSE row[v]]

End(p, table, ph) == table[ph][Len(p[ph]) + 1]

IsFlow(p, table) ==
  /\ \A v \in Loc : Unset \in table["pre"][1][v]
  /\ \A ph \in CodePhases : \A i \in 1 .. Len(p[ph]) :
       /\ \A v \in DOMAIN p[ph][i].needs : table[ph][i][v] \subseteq p[ph][i].needs[v]
       /\ Within(After(p[ph][i], table[ph][i]), table[ph][i + 1])
  /\ Within(End(p, table, "pre"), table["body"][1])
  /\ Within(End(p, table, "body"), table["body"][1])
  /\ Within(End(p, table, "body"), table["post"][1])
  /\ Within(End(p, table, "post"), table["check"][1])
  /\ End(p, table, "check")["verdict"] \subseteq {"passed"}

(* What a wrapper carries from one iteration to the next is what the next  *)
(* one is written for, whatever their number: the rows of its table hold   *)
(* what its steps need, and lead back to the start of the loop.            *)
IterationsCompose == IsFlow(prog, Flow[backend][bench])
=============================================================================
