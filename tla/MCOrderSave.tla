---------------------------- MODULE MCOrderSave ----------------------------
(***************************************************************************)
(* Two admins and two order numbers, each admin saving orders of its own,  *)
(* the numbers contested.                                                  *)
(***************************************************************************)
EXTENDS OrderSave

CONSTANTS z1, z2, n1, n2, title, title2, k1, k2, ann, bob

Blank(t) == [number |-> NoNumber, title |-> t]
Numbered(n) == [number |-> n, title |-> title]
With(i, m, t, code, k) ==
  [id |-> i, map |-> m, template |-> t, code |-> code, kind |-> k, exact |-> TRUE,
   product |-> m.title]

\* ann saves z1 with a template or without, tries to renumber and to retitle
\* it, and deletes its template; bob saves z2 or opens it from a quick template,
\* under a number z1 may have; the template bob stores names another product.
OwnRequests ==
  ann :> {With(z1, Numbered(n1), "own", n1, k1)}
  @@ bob :> {[With(z2, Numbered(n2), "own", n2, k2) EXCEPT !.product = title2],
             With(z2, Numbered(n2), "clone", n2, k2)}
OwnPlainSaves ==
  ann :> {[id |-> z1, map |-> Numbered(n2)],
          [id |-> z1, map |-> [number |-> n1, title |-> title2]]}
  @@ bob :> {}
OwnDeletes == ann :> {n1} @@ bob :> {}

\* rename: z1 is saved without a number, and then with another one.
RenumberSaves ==
  ann :> {[id |-> z1, map |-> Blank(title)], [id |-> z1, map |-> Numbered(n2)]}
  @@ bob :> {}

\* spelling: ann sends the id of her new order as "Zakaz-...".
SpelledRequests ==
  ann :> {[With(z1, Numbered(n1), "own", n1, k1) EXCEPT !.exact = FALSE]} @@ bob :> {}
NoSaves == ann :> {} @@ bob :> {}

\* products: the two orders, each with its template.
TemplateRequests ==
  ann :> {With(z1, Numbered(n1), "own", n1, k1)}
  @@ bob :> {[With(z2, Numbered(n2), "own", n2, k2) EXCEPT !.product = title2]}
=============================================================================
