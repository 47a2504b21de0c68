----------------------------- MODULE MCPrinting -----------------------------
(* Instance of Printing: one operator with a batch, one item, a clock of    *)
(* two values, two jobs. Quantities are multiples of the least weight.      *)
EXTENDS Printing

CONSTANTS film, store

MCItems == {film}
MCWarehouses == {store}

Receipt(item, gross, tare) == [item |-> item, warehouse |-> store, gross |-> gross, tare |-> tare]
MCReceiptRequests == {Receipt(film, 1, 0), Receipt(film, 1, 1), Receipt(Blank, 1, 0)}

MCBatchRequests == {[item |-> film, warehouse |-> store, tare |-> 1],
                    [item |-> Blank, warehouse |-> store, tare |-> 0]}
MCGrosses == {2}

Output(item, qty, scrap, qr) ==
  [item |-> item, warehouse |-> store, qty |-> qty, scrap |-> scrap, qr |-> qr]
MCSplitRequests ==
  { <<Output(film, 1, FALSE, TRUE), Output(film, 1, FALSE, TRUE)>>,
    <<Output(film, 2, FALSE, TRUE), Output(Blank, 1, TRUE, TRUE)>>,
    <<Output(film, 1, FALSE, FALSE), Output(Blank, 1, TRUE, FALSE)>>,
    <<Output(film, 2, FALSE, TRUE)>> }

(* Restarts choose salts at random; these stand for different draws. *)
MCSalt(kind, boot) == {IF kind = "receipt" THEN 1 ELSE 2, 3 + boot}

=============================================================================
