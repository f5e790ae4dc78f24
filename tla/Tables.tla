------------------------------- MODULE Tables -------------------------------
(***************************************************************************)
(* The table of contents of a program (see Flow): once through the loop    *)
(* from what the inputs are, and again from that or what the first         *)
(* iteration left.                                                         *)
(***************************************************************************)
EXTENDS Flow

LOCAL INSTANCE SequencesExt

LastRow(rows) == rows[Len(rows)]

(* The rows from `row' on: after each step, what it gives over what was.   *)
Rows(code, row) ==
  FoldLeft(LAMBDA rows, s : Append(rows, [v \in DOMAIN s.gives |-> {s.gives[v]}] @@ LastRow(rows)),
           <<row>>, code)

TableOf(p) ==
  LET pre == Rows(p.pre, [v \in Loc |-> {Unset}] @@ <<>>)
      once == Rows(p.body, LastRow(pre))
      body == Rows(p.body, [v \in Loc |-> LastRow(pre)[v] \union LastRow(once)[v]] @@ <<>>)
      post == Rows(p.post, LastRow(body))
  IN [pre |-> pre, body |-> body, post |-> post, check |-> Rows(p.check, LastRow(post))]

TablesOf(programs) ==
  [b \in DOMAIN programs |-> [k \in DOMAIN programs[b] |-> TableOf(programs[b][k])]]
=============================================================================
