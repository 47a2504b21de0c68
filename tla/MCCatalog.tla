------------------------------ MODULE MCCatalog ------------------------------
(* Instances of Catalog, each with the tables some readers join.             *)
EXTENDS Catalog, TLC

Item(disabled, stock) == [disabled |-> disabled, stock |-> stock, group |-> "g1"]
Sellable == Item(FALSE, TRUE)
Party(disabled, phone) == [disabled |-> disabled, phone |-> phone, details |-> "90"]
Group(parent) == [parent |-> parent]
Link == [linked |-> TRUE]

\* Items change hands: one is deleted with its link as another is made, one
\* is disabled or stops being stocked, a link goes, a link comes again.
Parties(parties, links, changes) ==
  [changes |-> changes, tables |-> <<"items", parties, links>>, links |-> {links},
   rows |-> "items" :> ("i1" :> Sellable) @@ parties :> ("p" :> Party(FALSE, "")) @@
            links :> (<<"i1", "p">> :> Link),
   edits |-> { <<"items", "i2">> :> Sellable @@ <<links, <<"i2", "p">>>> :> Link,
               <<"items", "i1">> :> Gone @@ <<links, <<"i1", "p">>>> :> Gone,
               <<"items", "i1">> :> Item(FALSE, FALSE),
               <<parties, "p">> :> Party(TRUE, "91") }]

\* One table, and changes enough to hide a row between two queries.
Groups ==
  [changes |-> 3, tables |-> <<"item_groups">>, links |-> {},
   rows |-> "item_groups" :> ("g1" :> Group("")),
   edits |-> { <<"item_groups", "g1">> :> Gone, <<"item_groups", "g2">> :> Group("g1"),
               <<"item_groups", "g2">> :> Gone, <<"item_groups", "g1">> :> Group("g2") }]

MCInstances ==
  { Parties("suppliers", "item_suppliers", 3), Parties("customers", "item_customers", 2), Groups }
=============================================================================
