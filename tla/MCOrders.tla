------------------------------ MODULE MCOrders ------------------------------
(* One seller's panel, a plan on it, a shelf, one customer's order, and    *)
(* one panel admin that another organization may take.                     *)
EXTENDS Orders, TLC

BuyerOf == [o \in Orders |-> "customer"]
PanelOf == [o \in Orders |-> "panel"]
OwnerOf == [p \in {"panel"} |-> "seller"]
KeeperOf == [c \in Shelves |-> "seller"]
Symmetry == Permutations(Orders) \union Permutations(Terms) \union Permutations(Sessions)
=============================================================================
