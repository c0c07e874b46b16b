---------------------------- MODULE MCApprovals ----------------------------
(* A root workspace and a reseller below it, one manager in each.  The     *)
(* workspace has no parent, so only the root administrator may fund it;    *)
(* the reseller's manager belongs to another branch than its own parent.   *)
EXTENDS Approvals

ParentOf == [o \in {"root", "mid"} |-> IF o = "mid" THEN "root" ELSE NoOne]
HomeOf == [a \in {"admin", "manager"} |-> IF a = "admin" THEN "root" ELSE "mid"]
LimitOf == [o \in {"root", "mid"} |-> IF o = "mid" THEN 1 ELSE 0]
Signed == {-2, 1}
=============================================================================
