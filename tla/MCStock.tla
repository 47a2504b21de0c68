------------------------------- MODULE MCStock -------------------------------
(* Instance of Stock: one supplier the admin lets in and one it has blocked, *)
(* one customer and a stranger, two requests at a time.                      *)
EXTENDS Stock, TLC

CONSTANTS s1, s2, c1, c2, barcode

MCDecisions == { [accepted |-> 2, returned |-> 0], [accepted |-> 1, returned |-> 1],
                 [accepted |-> 0, returned |-> 2], [accepted |-> 3, returned |-> 0],
                 [accepted |-> -1, returned |-> 0] }

Alike == Permutations(Handlers)

Line(qty, key) == [customer |-> c1, qty |-> qty, key |-> key]
MCIssueRequests == { <<Line(2, barcode)>>, <<Line(0, None), Line(2, None)>> }

Response(mode, returned) == [mode |-> mode, returned |-> returned]
MCResponses ==
  { Response("AcceptAll", 0), Response("RejectAll", 0), Response("AcceptPartial", 1),
    Response("ClaimAfterAccept", 1) }
==============================================================================
