----------------------------- MODULE MCBilling ------------------------------
(* A chain leaf - mid - root.  The binding of leaf cascades over both      *)
(* edges; the binding of mid competes for mid's credit.                    *)
EXTENDS Billing

MCOrgs == {"leaf", "mid"}
MCPath == [b \in Bindings |-> IF b = "bLeaf" THEN <<"leaf", "mid">> ELSE <<"mid">>]
(* mid resells below its own price, so that a cascade may stop at mid.     *)
MCPrice == [o \in MCOrgs |-> IF o = "leaf" THEN 2 ELSE 4]
MCCoefficient == [b \in Bindings |-> 1]
MCTraffic == [b \in Bindings |-> IF b = "bLeaf" THEN 2 ELSE 1]
MCResets == [b \in Bindings |-> IF b = "bLeaf" THEN 1 ELSE 0]
(* The collector keeps one reading of each binding in the run with two     *)
(* bindings, two of them in the others, and may post each time and again;  *)
(* the reset run goes without it.                                          *)
NoneKept == [b \in Bindings |-> 0]
OneKept == [b \in Bindings |-> 1]
TwoKept == [b \in Bindings |-> 2]
(* leaf pays on credit alone, mid by what leaf pays it and what it tops up.*)
MCLimit == [o \in MCOrgs |-> IF o = "leaf" THEN 2 ELSE 0]
MCBalance == [o \in MCOrgs |-> IF o = "leaf" THEN -2 ELSE 1]
(* For the progress run: a price that rounds one unit of traffic to zero,  *)
(* enough traffic to get past it, and a leaf that is funded too.           *)
FinePrice == [o \in MCOrgs |-> IF o = "leaf" THEN 1 ELSE 2]
LongTraffic == [b \in Bindings |-> 3]
FullBalance == [o \in MCOrgs |-> 1]
OneAccepted == [b \in Bindings |-> 1]
TwoAccepted == [b \in Bindings |-> 2]
=============================================================================
