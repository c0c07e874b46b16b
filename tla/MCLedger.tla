------------------------------ MODULE MCLedger ------------------------------
(* Three organizations in a chain (c below p below r) and one that an order*)
(* opens below p, the transfers that compete for their rows, and the       *)
(* wallet promise the ledger implements.                                   *)
EXTENDS Ledger, TLC

MCOrgs == {"c", "p", "r", "n"}
MCLimit == [o \in MCOrgs |-> IF o = "c" THEN 1 ELSE 0]
MCRank == [a \in MCOrgs \union {"SYSTEM"} |->
             CASE a = "r" -> 1 [] a = "c" -> 2 [] a = "SYSTEM" -> 3 [] a = "p" -> 4 [] OTHER -> 5]
MCRows == {"checkpoint c", "checkpoint p", "correction", "order"}

T(src, tgt, amount, key, hold, row) ==
  [source |-> src, target |-> tgt, amount |-> amount, key |-> key, hold |-> hold,
   row |-> row, refs |-> {}]

(* observe() for a binding of c and for one of p, as the workers run it.   *)
CascadeC == <<T("c", "p", 2, "u1c", 0, "checkpoint c"), T("p", "r", 1, "u1p", 0, "checkpoint c")>>
UsageP == <<T("p", "r", 1, "u2p", 0, "checkpoint p")>>
(* usage_batch: the same usage of p, then one of c.                        *)
Batch == <<T("p", "r", 1, "u2p", 2, "checkpoint p"),
           T("c", "p", 1, "u3c", 4, "checkpoint c"), T("p", "r", 1, "u3p", 4, "checkpoint c")>>
(* The same client key sent for two organizations.                         *)
FundC == <<T("SYSTEM", "c", 1, "f1", 0, "none")>>
FundP == <<T("SYSTEM", "p", 1, "f1", 0, "none")>>
(* A correction of p, and the approval of an order that p has sold.        *)
DebitP == <<T("p", "SYSTEM", 1, "a1", 0, "correction")>>
OpenN == <<[T("SYSTEM", "n", 1, "o1", 0, "order") EXCEPT !.refs = {"p", "r"}]>>
(* A zero-priced contract above p.                                         *)
FreeEdge == <<T("p", "r", 0, "z1", 0, "checkpoint p")>>

MCJobs == {CascadeC, UsageP, Batch, FundC, FundP, DebitP, OpenN, FreeEdge}

(* Two plain observations, of c and of p, and a funding.                   *)
ObservedJobs == {CascadeC, UsageP, FundC}

(* The callers keep to what AllOrNothing rests on.                         *)
ASSUME MCCascades == WholeCascades
=============================================================================
