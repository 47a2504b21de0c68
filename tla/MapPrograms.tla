----------------------------- MODULE MapPrograms -----------------------------
(***************************************************************************)
(* A production map: the graph of an order's work, checked and compiled to *)
(* a program when it is saved or listed, and run for a quantity.  An       *)
(* expression is its tree; the text it is parsed from and the titles,      *)
(* codes and locations of the nodes are left out.                          *)
(***************************************************************************)
EXTENDS PechatRules, FiniteSets, TLC

CONSTANTS
  NodeIds,   \* the ids of nodes, in the order of their strings
  Names      \* the names that are identifiers

WorkKinds == {"material", "apparatus", "kk_product", "task", "wait", "output"}
Arithmetic == {"+", "-", "*", "/"}
NoVariables == <<>>

-----------------------------------------------------------------------------
(* Expressions *)

Known(value) == [error |-> "", value |-> value, variable |-> ""]
Unknown(name) == [error |-> "unknown", value |-> 0, variable |-> name]
Failed(error) == [error |-> error, value |-> 0, variable |-> ""]

RECURSIVE Parses(_)
Parses(e) ==
  \/ e.op \in {"number", "variable"}
  \/ e.op \in Arithmetic /\ Parses(e.left) /\ Parses(e.right)

Truth(holds) == Known(IF holds THEN 1 ELSE 0)

\* Quotients are whole here: the maps of an instance divide evenly.
Combined(op, a, b) ==
  CASE op = "+" -> Known(a + b)
    [] op = "-" -> Known(a - b)
    [] op = "*" -> Known(a * b)
    [] op = "/" -> IF b = 0 THEN Failed("division by zero") ELSE Known(a \div b)
    [] op = ">" -> Truth(a > b)
    [] op = ">=" -> Truth(a >= b)
    [] op = "<" -> Truth(a < b)
    [] op = "<=" -> Truth(a <= b)
    [] op = "==" -> Truth(a = b)
    [] op = "!=" -> Truth(a # b)

\* The left operand is read first, and its error ends the evaluation: what
\* does not parse to the right of an unknown variable is not met.
RECURSIVE Evaluate(_, _)
Evaluate(e, variables) ==
  CASE e.op = "number" -> Known(e.value)
    [] e.op = "variable" -> IF e.name \in DOMAIN variables
                            THEN Known(variables[e.name]) ELSE Unknown(e.name)
    [] e.op \in {"", "invalid"} -> Failed("invalid")
    [] OTHER -> LET left == Evaluate(e.left, variables)
                    right == Evaluate(e.right, variables)
                IN  IF left.error # "" THEN left
                    ELSE IF right.error # "" THEN right
                    ELSE Combined(e.op, left.value, right.value)

-----------------------------------------------------------------------------
(* Checking and compiling *)

Branch(text) ==
  CASE text \in {"ha", "yes", "true", "1"} -> "true"
    [] text \in {"yo'q", "yoq", "no", "false", "0"} -> "false"
    [] OTHER -> text

Normalized(map) ==
  [map EXCEPT !.rolls = Max({Unstated, map.rolls}),
              !.width = Max({Unstated, map.width}),
              !.edges = [i \in DOMAIN map.edges |->
                           [map.edges[i] EXCEPT !.branch = Branch(map.edges[i].branch)]]]

\* A condition is tried without variables: only what fails before the
\* first one is refused.
ValidNode(n) ==
  CASE n.kind = "formula" -> n.target \in Names /\ Parses(n.expression)
    [] n.kind = "condition" ->
         Evaluate(n.expression, NoVariables).error \in {"", "unknown"}
    [] n.kind \in WorkKinds -> n.qty.op = "" \/ Parses(n.qty)
    [] OTHER -> TRUE

IdsOf(map) == {n.id : n \in Range(map.nodes)}
EdgesFrom(map, id) == SelectSeq(map.edges, LAMBDA e : e.from = id)
OnlyOne(map, kind) == Cardinality({i \in DOMAIN map.nodes : map.nodes[i].kind = kind}) = 1

Valid(map) ==
  /\ ~LaminatsiyaRubberTooLarge(map)
  /\ Cardinality(IdsOf(map)) = Len(map.nodes)
  /\ \A n \in Range(map.nodes) : ValidNode(n)
  /\ OnlyOne(map, "start") /\ OnlyOne(map, "end")
  /\ \A e \in Range(map.edges) : {e.from, e.to} \subseteq IdsOf(map)
  /\ \A n \in Range(map.nodes) : n.kind = "condition" =>
       {"true", "false"} \subseteq
         {Branch(e.branch) : e \in Range(EdgesFrom(map, n.id))}

\* Nodes with no edge left to them, in turn: the last edge to a node from
\* what is ordered frees it, so one edge drawn twice frees it once.
RECURSIVE Ordered(_, _, _)
Ordered(map, queue, order) ==
  IF queue = <<>> THEN order
  ELSE LET done == Append(order, Head(queue))
           children == EdgesFrom(map, Head(queue))
           ready(id) == \A e \in Range(map.edges) : e.to = id => e.from \in Range(done)
           freed == {i \in DOMAIN children :
                       /\ ready(children[i].to)
                       /\ \A j \in i+1..Len(children) : children[j].to # children[i].to}
           inOrder == SetToSortSeq(freed, <)
       IN  Ordered(map, Tail(queue) \o [k \in DOMAIN inOrder |-> children[inOrder[k]].to],
                   done)

TopologicalOrder(map) ==
  LET free(id) == id \in IdsOf(map) /\ \A e \in Range(map.edges) : e.to # id
  IN  Ordered(map, SelectSeq(NodeIds, free), <<>>)

OpCode(kind) ==
  CASE kind = "location" -> "warehouse_location"
    [] kind = "material" -> "require_material"
    [] kind = "formula" -> "calculate"
    [] kind = "task" -> "create_task"
    [] kind = "wait" -> "wait_dependency"
    [] kind = "output" -> "produce_output"
    [] OTHER -> kind

NodeOf(map, id) == CHOOSE n \in Range(map.nodes) : n.id = id

\* Every node was freed: the edges go in no circle.

Complete_BadUnchecked(order, map) == Range(order) \subseteq IdsOf(map)

Complete(order, map) == Len(order) = Len(map.nodes)

Compiles(map) == Valid(map) /\ Complete(TopologicalOrder(map), map)
Program(map) ==
  LET order == TopologicalOrder(map)
  IN  [i \in DOMAIN order |-> [node |-> order[i], op |-> OpCode(NodeOf(map, order[i]).kind)]]

-----------------------------------------------------------------------------
(* Running *)

Ends(run, status) == [run EXCEPT !.status = status]

Calculated(run, n) ==
  LET result == Evaluate(n.expression, run.variables)
  IN  IF result.error # "" THEN Ends(run, "failed")
      ELSE [run EXCEPT !.variables = (n.target :> result.value) @@ @]

\* A condition on a variable nobody has given yet hands the run back.
Decided(run, n) ==
  LET result == Evaluate(n.expression, run.variables)
  IN  CASE result.error = "" -> [run EXCEPT !.variables =
                                   (n.id :> IF result.value # 0 THEN 1 ELSE 0) @@ @]
        [] result.error = "unknown" -> [run EXCEPT !.status = "awaiting",
                                                   !.awaiting = result.variable]
        [] OTHER -> Ends(run, "failed")

Drafted(run, n, qty) ==
  LET result == IF n.qty.op = "" THEN Known(qty) ELSE Evaluate(n.qty, run.variables)
  IN  IF result.error # "" \/ result.value <= 0 THEN Ends(run, "failed")
      ELSE [run EXCEPT !.tasks =
              Append(@, [node |-> n.id, op |-> OpCode(n.kind), qty |-> result.value])]

Visit(run, n, qty) ==
  LET seen == [run EXCEPT !.visited = Append(@, n.id)]
  IN  CASE n.kind = "end" -> Ends(seen, "done")
        [] n.kind = "formula" -> Calculated(seen, n)
        [] n.kind = "condition" -> Decided(seen, n)
        [] n.kind \in WorkKinds -> Drafted(seen, n, qty)
        [] OTHER -> seen

\* A condition takes the first edge of its branch, any other node the first
\* edge drawn; where there is none the run is done, at the end or not.
Follow(map, run, n) ==
  LET taken(e) == n.kind # "condition" \/
                  Branch(e.branch) = IF run.variables[n.id] # 0 THEN "true" ELSE "false"
      edges == SelectSeq(EdgesFrom(map, n.id), taken)
  IN  IF edges # <<>> THEN edges[1].to ELSE ""

RECURSIVE Walk(_, _, _, _)
Walk(map, qty, run, at) ==
  IF at = "" \/ at \in Range(run.visited) THEN Ends(run, "done")
  ELSE LET n == NodeOf(map, at)
           visited == Visit(run, n, qty)
       IN  IF visited.status # "" THEN visited
           ELSE Walk(map, qty, visited, Follow(map, visited, n))

\* The quantity asked for is the caller's, whatever variables it sends.
Start(qty, input) ==
  [status |-> "", variables |-> ("order_qty" :> qty) @@ input,
   tasks |-> <<>>, visited |-> <<>>, awaiting |-> ""]

RunMap(map, qty, input) ==
  IF qty <= 0 \/ ~Compiles(map) THEN Ends(Start(qty, input), "failed")
  ELSE Walk(map, qty, Start(qty, input),
            (CHOOSE n \in Range(map.nodes) : n.kind = "start").id)
=============================================================================
