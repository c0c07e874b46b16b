---------------------------- MODULE OrderFunnel -----------------------------
(***************************************************************************)
(* What the order funnel promises a customer and a seller, without         *)
(* sessions or row locks: an order is priced once, the price is agreed     *)
(* before it is paid, and only a paid order becomes an account, opened     *)
(* with exactly the agreed terms.                                          *)
(***************************************************************************)
CONSTANTS Orders, Terms, NoTerms

VARIABLES state, deal, opened

vars == <<state, deal, opened>>

Init ==
  /\ state = [o \in Orders |-> "none"]
  /\ deal = [o \in Orders |-> NoTerms]
  /\ opened = {}

Request(o) ==
  /\ state[o] = "none"
  /\ state' = [state EXCEPT ![o] = "pending"]
  /\ UNCHANGED <<deal, opened>>

Price(o, t) ==
  /\ state[o] \in {"none", "pending"}
  /\ state' = [state EXCEPT ![o] = "quoted"]
  /\ deal' = [deal EXCEPT ![o] = t]
  /\ UNCHANGED opened

Agree(o) ==
  /\ state[o] = "quoted"
  /\ state' = [state EXCEPT ![o] = "confirmed"]
  /\ UNCHANGED <<deal, opened>>

Pay(o) ==
  /\ state[o] = "confirmed"
  /\ state' = [state EXCEPT ![o] = "payment_declared"]
  /\ UNCHANGED <<deal, opened>>

Open(o) ==
  /\ state[o] = "payment_declared"
  /\ state' = [state EXCEPT ![o] = "approved"]
  /\ opened' = opened \union {[order |-> o, terms |-> deal[o]]}
  /\ UNCHANGED deal

(* The customer may withdraw until payment is declared, the seller until   *)
(* the account exists.                                                     *)
Close(o, outcome) ==
  /\ \/ outcome = "cancelled" /\ state[o] \in {"pending", "quoted", "confirmed"}
     \/ outcome = "rejected" /\ state[o] \in {"pending", "quoted", "confirmed", "payment_declared"}
  /\ state' = [state EXCEPT ![o] = outcome]
  /\ UNCHANGED <<deal, opened>>

Next == \E o \in Orders :
  \/ Request(o) \/ Agree(o) \/ Pay(o) \/ Open(o)
  \/ \E t \in Terms : Price(o, t)
  \/ \E outcome \in {"cancelled", "rejected"} : Close(o, outcome)

Spec == Init /\ [][Next]_vars
=============================================================================
