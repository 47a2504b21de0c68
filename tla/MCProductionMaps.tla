--------------------------- MODULE MCProductionMaps ---------------------------
(***************************************************************************)
(* Small maps: the orders an operator's client runs, those the store must  *)
(* refuse and those it holds from before a rule, with one live feed.       *)
(***************************************************************************)
EXTENDS ProductionMaps

MCColors == "pechat7" :> 7 @@ "pechat8" :> 8 @@ "pechat9" :> 9
MCLaminators == {"laminatsiya"}
MCNodeIds == <<"a", "b", "check", "end", "start", "task">>
MCNames == {"order_qty", "meters", "rolls", "spare"}

None == [op |-> ""]
Number(n) == [op |-> "number", value |-> n]
Variable(name) == [op |-> "variable", name |-> name]
Op(left, op, right) == [op |-> op, left |-> left, right |-> right]

Node(id, kind) == [id |-> id, kind |-> kind, title |-> "", target |-> "",
                   expression |-> None, qty |-> None, group |-> "", assigned |-> ""]
Press(id, title) == [Node(id, "apparatus") EXCEPT !.title = title]
Formula(id, target, e) == [Node(id, "formula") EXCEPT !.target = target, !.expression = e]
Condition(e) == [Node("check", "condition") EXCEPT !.expression = e]
Task(qty) == [Node("task", "task") EXCEPT !.qty = qty]
Ends2 == <<Node("start", "start"), Node("end", "end")>>

Edge(from, to) == [from |-> from, to |-> to, branch |-> ""]
Yes(to) == [from |-> "check", to |-> to, branch |-> "ha"]
No(to) == [from |-> "check", to |-> to, branch |-> "yo'q"]
Map(id, nodes, edges) ==
  [id |-> id, product |-> "film", rolls |-> 7, width |-> 800, flexo |-> FALSE,
   nodes |-> Ends2 \o nodes, edges |-> edges]

\* A press, then a task.
Plain(id) == Map(id, <<Press("a", "pechat8"), Task(None)>>,
  <<Edge("start", "a"), Edge("a", "task"), Edge("task", "end")>>)

\* How much is cut depends on the meters, which depend on the rolls, and
\* both are asked for; one branch uses what only the client can give.
Asking == Map("one",
  <<Condition(Op(Variable("rolls"), ">", Number(1))),
    Formula("a", "meters", Op(Op(Variable("order_qty"), "*", Variable("rolls")), "-", Number(2))),
    Task(Op(Number(6), "/", Variable("meters"))), Node("b", "wait")>>,
  <<Edge("start", "b"), Edge("b", "check"), Yes("a"), No("end"),
    Edge("a", "task"), Edge("task", "end")>>)

AskingTwice == Map("one",
  <<Formula("a", "meters", Op(Variable("order_qty"), "+", Number(1))), Task(Variable("meters")),
    Condition(Op(Op(Variable("rolls"), "-", Variable("spare")), "!=", Number(0))),
    Node("b", "output")>>,
  <<Edge("start", "a"), Edge("a", "task"), Edge("task", "check"),
    Yes("b"), No("end"), Edge("b", "end"), Edge("b", "end")>>)

\* Two ways from the start, one of them through the other's last node.
Forked == Map("one", <<Node("a", "material"), Task(None), Node("b", "location")>>,
  <<Edge("start", "a"), Edge("start", "b"), Edge("a", "task"), Edge("b", "a"),
    Edge("task", "end")>>)

\* The walk would come back to where it has been.
Looped == Map("one", <<Node("a", "material"), Task(None)>>,
  <<Edge("start", "a"), Edge("a", "task"), Edge("task", "a")>>)

\* Orders that may not leave their press: no size stated, or flexo.
Unsized == [Plain("two") EXCEPT !.rolls = -1, !.width = 0]
Flexo == [Plain("two") EXCEPT !.flexo = TRUE, !.width = 0]

\* An order that may go to either of two laminators, assigned to one.
Laminated == [Map("two", <<
    [Press("a", "laminatsiya") EXCEPT !.group = "g", !.assigned = "laminatsiya"]>>,
  <<Edge("start", "a"), Edge("a", "end")>>) EXCEPT !.width = 1200]
MCMoves == {<<"two", "pechat8", to>> : to \in {"pechat7", "pechat9"}}

MCInitialMaps == {<<Asking, Plain("two")>>, <<AskingTwice>>, <<Forked, Unsized>>,
                  <<Looped, Flexo>>, <<Laminated>>}
MCDrafts == {Asking, Looped, Unsized, Laminated}
MCSequences == {<<"one">>}
MCTables == {{"row"}}
MCInputs == {<<2, NoVariables>>, <<3, "rolls" :> 1>>}
MCAnswers == {1, 2}
=============================================================================
