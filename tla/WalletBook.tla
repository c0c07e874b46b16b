----------------------------- MODULE WalletBook -----------------------------
(***************************************************************************)
(* What the ledger promises its callers, without sessions, locks or        *)
(* statements: money moves only by posting a group of double entries under *)
(* keys never used before, paid by organizations that are active at that   *)
(* moment and that stay within their credit.                               *)
(***************************************************************************)
EXTENDS Integers, FiniteSetsExt

CONSTANTS
  Orgs, System, CreditLimit,
  Orders   \* the groups of postings callers may ask for together

VARIABLES balance, ledger, status

vars == <<balance, ledger, status>>

Accounts == Orgs \union {System}

Total(T) == MapThenSumSet(LAMBDA t : t.amount, T)
Net(T, a) == Total({t \in T : t.target = a}) - Total({t \in T : t.source = a})

Init ==
  /\ balance = [a \in Accounts |-> 0]
  /\ ledger = {}
  /\ status = [o \in Orgs |-> "active"]

(* One committed transaction: the postings T, some or all of one order.    *)
Post(T) ==
  /\ T # {}
  /\ ledger' = ledger \union T
  /\ \A t, u \in T : t.key = u.key => t = u
  /\ \A t \in T, u \in ledger : t.key # u.key
  /\ \A t \in T : t.source \in Orgs => status[t.source] = "active"
  /\ balance' = [a \in Accounts |-> balance[a] + Net(T, a)]
  /\ \A t \in T : t.source \in Orgs => balance'[t.source] >= -CreditLimit[t.source]
  /\ UNCHANGED status

Toggle(o) ==
  /\ status' = [status EXCEPT ![o] = IF @ = "active" THEN "suspended" ELSE "active"]
  /\ UNCHANGED <<balance, ledger>>

Next ==
  \/ \E order \in Orders : \E T \in SUBSET order : Post(T)
  \/ \E o \in Orgs : Toggle(o)

Spec == Init /\ [][Next]_vars
=============================================================================
