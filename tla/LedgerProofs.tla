---------------------------- MODULE LedgerProofs ----------------------------
(***************************************************************************)
(* Safety of the ledger for every hierarchy, set of jobs and number of     *)
(* database sessions.                                                      *)
(***************************************************************************)
EXTENDS Ledger, TLAPS, FiniteSetTheorems

USE DEF Accounts

-----------------------------------------------------------------------------
(* Facts about a running job.                                              *)

LEMMA CurIsTransfer ==
  ASSUME TypeOK, NEW s \in Sessions, pos[s] \in 1..Len(job[s])
  PROVE  /\ job[s] \in Jobs
         /\ Cur(s) \in Transfer
         /\ Cur(s).source # Cur(s).target
         /\ Posting(Cur(s)) \in Postings
<1>1. job[s] # <<>> /\ job[s] \in Jobs
  BY DEF TypeOK
<1>2. job[s] \in Seq(Transfer)
  BY <1>1, JobAssumption
<1>3. Cur(s) \in Transfer
  BY <1>2 DEF Cur
<1>4. Cur(s).source # Cur(s).target
  BY <1>1, JobAssumption DEF Cur
<1> QED
  BY <1>1, <1>3, <1>4 DEF Transfer, Posting, Postings

LEMMA InitType == Init => TypeOK
BY DEF Init, TypeOK, NoDelta

LEMMA ReleaseType ==
  ASSUME TypeOK, NEW s \in Sessions, Release(s)
  PROVE  /\ accLock' \in [Accounts -> Sessions \union {NoSession}]
         /\ orgLock' \in [Orgs -> Sessions \union {NoSession}]
         /\ rowLock' \in [Rows -> Sessions \union {NoSession}]
         /\ orgShare' \in [Orgs -> SUBSET Sessions]
         /\ pc' \in [Sessions -> {"idle", "check", "lock", "org", "apply"}]
         /\ job' \in [Sessions -> Jobs \union {<<>>}]
         /\ pos' \in [Sessions -> Nat]
         /\ sb' \in [Sessions -> Int]
         /\ delta' \in [Sessions -> [Accounts -> Int]]
         /\ mine' \in [Sessions -> SUBSET Postings]
BY DEF TypeOK, Release, NoDelta

LEMMA RollbackType ==
  ASSUME TypeOK, NEW s \in Sessions, Rollback(s)
  PROVE  TypeOK'
<1>1. Release(s) /\ UNCHANGED dbVars
  BY DEF Rollback
<1> QED
  BY <1>1, ReleaseType DEF TypeOK, dbVars

(* A caller's own row and the rows its INSERTs refer to are locked without *)
(* touching anything that transfers read or write.                         *)
Prepares(s) == LockRow(s) \/ ShareOrg(s)

LEMMA PreparesKeeps ==
  ASSUME NEW s \in Sessions, Prepares(s)
  PROVE  /\ UNCHANGED <<balance, ledger, status, accLock, orgLock, pc, job, pos, sb, delta, mine>>
         /\ pc[s] = "check" /\ pos[s] \in 1..Len(job[s])
BY DEF Prepares, LockRow, ShareOrg, Running

LEMMA GoToType ==
  ASSUME TypeOK, NEW s \in Sessions, GoTo(s, pos[s] + 1)
  PROVE  /\ pos' \in [Sessions -> Nat]
         /\ pc' \in [Sessions -> {"idle", "check", "lock", "org", "apply"}]
<1>1. pos[s] + 1 \in Nat
  BY DEF TypeOK
<1> QED
  BY <1>1 DEF GoTo, TypeOK

LEMMA NextType == TypeOK /\ [Next]_vars => TypeOK'
<1> SUFFICES ASSUME TypeOK, [Next]_vars PROVE TypeOK'
  OBVIOUS
<1>1. ASSUME NEW s \in Sessions, Begin(s) PROVE TypeOK'
  BY <1>1 DEF Begin, TypeOK
<1>2. ASSUME NEW s \in Sessions, CheckKey(s) PROVE TypeOK'
  <2>1. CASE GoTo(s, pos[s] + 1)
    BY <1>2, <2>1, GoToType DEF CheckKey, Running, TypeOK
  <2>2. CASE pc' = [pc EXCEPT ![s] = "lock"] /\ UNCHANGED pos
    BY <1>2, <2>2 DEF CheckKey, TypeOK
  <2> QED
    BY <1>2, <2>1, <2>2 DEF CheckKey
<1>3. ASSUME NEW s \in Sessions, RefuseAmount(s) PROVE TypeOK'
  BY <1>3, RollbackType DEF RefuseAmount
<1>4. ASSUME NEW s \in Sessions, LockAccount(s) PROVE TypeOK'
  BY <1>4 DEF LockAccount, TypeOK
<1>5. ASSUME NEW s \in Sessions, Recheck(s) PROVE TypeOK'
  <2>1. Cur(s) \in Transfer
    BY <1>5, CurIsTransfer DEF Recheck, Running
  <2>2. balance[Cur(s).source] + delta[s][Cur(s).source] \in Int
    BY <2>1 DEF Transfer, TypeOK
  <2>3. CASE KeySeen(s)
    <3>1. GoTo(s, pos[s] + 1) /\ UNCHANGED sb
      BY <1>5, <2>3 DEF Recheck
    <3> QED
      BY <1>5, <3>1, GoToType DEF Recheck, Running, TypeOK
  <2>4. CASE ~KeySeen(s)
    BY <1>5, <2>2, <2>4 DEF Recheck, TypeOK
  <2> QED
    BY <2>3, <2>4
<1>6. ASSUME NEW s \in Sessions, LockOrg(s) PROVE TypeOK'
  BY <1>6 DEF LockOrg, TypeOK
<1>7. ASSUME NEW s \in Sessions, Refuse(s) PROVE TypeOK'
  BY <1>7, RollbackType DEF Refuse
<1>8. ASSUME NEW s \in Sessions, HoldItem(s) PROVE TypeOK'
  <2>1. Cur(s).hold \in Nat
    BY <1>8, CurIsTransfer DEF HoldItem, Running, Transfer
  <2> QED
    BY <1>8, <2>1 DEF HoldItem, GoTo, TypeOK
<1>9. ASSUME NEW s \in Sessions, Apply(s) PROVE TypeOK'
  <2>1. Cur(s) \in Transfer /\ Posting(Cur(s)) \in Postings
    BY <1>9, CurIsTransfer DEF Apply, Running
  <2>2. Cur(s).amount \in Int
    BY <2>1 DEF Transfer
  <2>3. delta' \in [Sessions -> [Accounts -> Int]]
    BY <1>9, <2>2 DEF Apply, TypeOK
  <2> QED
    BY <1>9, <2>1, <2>3 DEF Apply, GoTo, TypeOK
<1>10. ASSUME NEW s \in Sessions, Commit(s) PROVE TypeOK'
  <2>1. Release(s)
    BY <1>10 DEF Commit
  <2>2. balance' \in [Accounts -> Int] /\ ledger' \subseteq Postings
    BY <1>10 DEF Commit, TypeOK
  <2> QED
    BY <1>10, <2>1, <2>2, ReleaseType DEF Commit, TypeOK
<1>11. ASSUME NEW s \in Sessions, Disconnect(s) \/ DeadlockAbort(s) PROVE TypeOK'
  BY <1>11, RollbackType DEF Disconnect, DeadlockAbort
<1>12. ASSUME NEW o \in Orgs, SetStatus(o) PROVE TypeOK'
  BY <1>12 DEF SetStatus, TypeOK
<1>13. CASE UNCHANGED vars
  BY <1>13 DEF TypeOK, vars
<1>14. ASSUME NEW s \in Sessions, LockRow(s) PROVE TypeOK'
  BY <1>14 DEF LockRow, TypeOK
<1>15. ASSUME NEW s \in Sessions, ShareOrg(s) PROVE TypeOK'
  <2>1. orgShare' \in [Orgs -> SUBSET Sessions]
    <3>1. PICK o \in Unshared(s) : orgShare' = [orgShare EXCEPT ![o] = @ \union {s}]
      BY <1>15 DEF ShareOrg
    <3>2. orgShare \in [Orgs -> SUBSET Sessions]
      BY DEF TypeOK
    <3>3. \A q \in SUBSET Sessions : q \union {s} \in SUBSET Sessions
      OBVIOUS
    <3> QED
      BY <3>1, <3>2, <3>3
  <2> QED
    BY <1>15, <2>1 DEF ShareOrg, TypeOK
<1> QED
  BY <1>1, <1>2, <1>3, <1>4, <1>5, <1>6, <1>7, <1>8, <1>9, <1>10, <1>11, <1>12, <1>13, <1>14, <1>15
  DEF Next, Statement

(* Every variable keeps its type under every statement of every session.   *)
THEOREM LedgerTypeOK == Spec => []TypeOK
BY InitType, NextType, PTL DEF Spec

-----------------------------------------------------------------------------
(* A statement of one session leaves the private state of every other      *)
(* session, and the rows it holds, alone.                                  *)

SameFor(r) ==
  /\ pc'[r] = pc[r] /\ job'[r] = job[r] /\ pos'[r] = pos[r] /\ sb'[r] = sb[r]
  /\ delta'[r] = delta[r] /\ mine'[r] = mine[r]
  /\ \A a \in Accounts : accLock'[a] = r <=> accLock[a] = r

SessionStep(s) == Begin(s) \/ Statement(s) \/ Disconnect(s) \/ DeadlockAbort(s)

LEMMA LeastNeeded ==
  ASSUME NEW s \in Sessions, Needed(s) # {}, TypeOK, pos[s] \in 1..Len(job[s])
  PROVE  /\ Needed(s) \subseteq Accounts
         /\ \E a \in Needed(s) : \A b \in Needed(s) : Rank[a] <= Rank[b]
<1>1. Needed(s) \subseteq {Cur(s).source, Cur(s).target}
  BY DEF Needed
<1>2. Cur(s).source \in Accounts /\ Cur(s).target \in Accounts
  BY CurIsTransfer DEF Transfer
<1>3. \A a \in Accounts : Rank[a] \in Nat
  BY RankAssumption
<1>4. \E a \in Needed(s) : \A b \in Needed(s) : Rank[a] <= Rank[b]
  BY <1>1, <1>2, <1>3
<1> QED
  BY <1>1, <1>2, <1>4

LEMMA NextRowFree ==
  ASSUME NEW s \in Sessions, Needed(s) # {}, TypeOK, pos[s] \in 1..Len(job[s])
  PROVE  NextRow(s) \in Needed(s) /\ Needed(s) \subseteq Accounts
BY LeastNeeded DEF NextRow

LEMMA ReleaseFrame ==
  ASSUME TypeOK, NEW s \in Sessions, Release(s), NEW r \in Sessions, r # s
  PROVE  SameFor(r)
BY SessionAssumption DEF TypeOK, Release, SameFor

LEMMA Frame ==
  ASSUME TypeOK, NEW s \in Sessions, SessionStep(s), NEW r \in Sessions, r # s
  PROVE  SameFor(r)
<1>1. CASE Begin(s)
  BY <1>1 DEF Begin, SameFor, TypeOK
<1>2. CASE CheckKey(s)
  <2>1. CASE GoTo(s, pos[s] + 1)
    BY <1>2, <2>1 DEF CheckKey, GoTo, SameFor, TypeOK
  <2>2. CASE pc' = [pc EXCEPT ![s] = "lock"] /\ UNCHANGED pos
    BY <1>2, <2>2 DEF CheckKey, SameFor, TypeOK
  <2> QED
    BY <1>2, <2>1, <2>2 DEF CheckKey
<1>3. CASE LockAccount(s)
  <2>1. NextRow(s) \in Accounts /\ accLock[NextRow(s)] = NoSession
    BY <1>3, NextRowFree DEF LockAccount, Running
  <2> QED
    BY <1>3, <2>1, SessionAssumption DEF LockAccount, SameFor, TypeOK
<1>4. CASE Recheck(s)
  <2>1. CASE KeySeen(s)
    <3>1. GoTo(s, pos[s] + 1) /\ UNCHANGED sb
      BY <1>4, <2>1 DEF Recheck
    <3> QED
      BY <1>4, <3>1 DEF Recheck, GoTo, SameFor, TypeOK
  <2>2. CASE ~KeySeen(s)
    BY <1>4, <2>2 DEF Recheck, SameFor, TypeOK
  <2> QED
    BY <2>1, <2>2
<1>5. CASE LockOrg(s)
  BY <1>5 DEF LockOrg, SameFor, TypeOK
<1>6. CASE HoldItem(s)
  BY <1>6 DEF HoldItem, GoTo, SameFor, TypeOK
<1>7. CASE Apply(s)
  BY <1>7 DEF Apply, GoTo, SameFor, TypeOK
<1>8. CASE RefuseAmount(s) \/ Refuse(s) \/ Commit(s) \/ Disconnect(s) \/ DeadlockAbort(s)
  BY <1>8, ReleaseFrame
  DEF RefuseAmount, Refuse, Commit, Disconnect, DeadlockAbort, Rollback
<1>9. CASE Prepares(s)
  BY <1>9, PreparesKeeps DEF SameFor
<1> QED
  BY <1>1, <1>2, <1>3, <1>4, <1>5, <1>6, <1>7, <1>8, <1>9 DEF SessionStep, Statement, Prepares

-----------------------------------------------------------------------------
(* Ownership, one session at a time.                                       *)

Owns(s) ==
  /\ \A a \in Accounts : accLock[a] # s => delta[s][a] = 0
  /\ \A t \in mine[s] : accLock[t.source] = s /\ accLock[t.target] = s /\ Ordered(t)
  /\ pc[s] \in PaidStates =>
       /\ pos[s] \in 1..Len(job[s])
       /\ accLock[Cur(s).source] = s
       /\ accLock[Cur(s).target] = s
       /\ pc[s] = "org" => Cur(s).source \in Orgs

LEMMA OwnsFrame ==
  ASSUME TypeOK, NEW r \in Sessions, Owns(r), SameFor(r)
  PROVE  Owns(r)'
<1>1. Cur(r)' = Cur(r)
  BY DEF SameFor, Cur
<1>2. \A a \in Accounts : (accLock[a] # r => delta[r][a] = 0)'
  BY DEF Owns, SameFor
<1>3. \A t \in mine'[r] : t \in mine[r] /\ t.source \in Accounts /\ t.target \in Accounts
  BY DEF SameFor, TypeOK, Postings
<1>4. \A t \in mine'[r] : accLock'[t.source] = r /\ accLock'[t.target] = r /\ Ordered(t)
  BY <1>3 DEF Owns, SameFor
<1>5. ASSUME pc'[r] \in PaidStates
      PROVE  /\ pos'[r] \in 1..Len(job'[r])
             /\ accLock'[Cur(r).source] = r
             /\ accLock'[Cur(r).target] = r
             /\ pc'[r] = "org" => Cur(r).source \in Orgs
  <2>1. pc[r] \in PaidStates /\ pos[r] \in 1..Len(job[r])
    BY <1>5 DEF SameFor, Owns
  <2>2. Cur(r).source \in Accounts /\ Cur(r).target \in Accounts
    BY <2>1, CurIsTransfer DEF Transfer
  <2> QED
    BY <2>1, <2>2 DEF SameFor, Owns
<1>6. \A t : Ordered(t)' <=> Ordered(t)
  BY DEF Ordered, Posting
<1> QED
  BY <1>1, <1>2, <1>4, <1>5, <1>6 DEF Owns

LEMMA ReleaseOwns ==
  ASSUME TypeOK, NEW s \in Sessions, Release(s)
  PROVE  Owns(s)'
BY DEF TypeOK, Release, Owns, NoDelta, PaidStates

LEMMA OwnsStep ==
  ASSUME TypeOK, NEW s \in Sessions, Owns(s), SessionStep(s)
  PROVE  Owns(s)'
<1>0. \A t : Ordered(t)' <=> Ordered(t)
  BY DEF Ordered, Posting
<1>1. CASE Begin(s)
  BY <1>0, <1>1 DEF Begin, Owns, TypeOK, PaidStates
<1>2. CASE CheckKey(s)
  <2>1. pc'[s] \notin PaidStates /\ UNCHANGED <<accLock, delta, mine>>
    <3>1. CASE GoTo(s, pos[s] + 1)
      BY <1>2, <3>1 DEF CheckKey, GoTo, TypeOK, PaidStates
    <3>2. CASE pc' = [pc EXCEPT ![s] = "lock"]
      BY <1>2, <3>2 DEF CheckKey, TypeOK, PaidStates
    <3> QED
      BY <1>2, <3>1, <3>2 DEF CheckKey
  <2> QED
    BY <1>0, <2>1 DEF Owns
<1>3. CASE LockAccount(s)
  <2>1. NextRow(s) \in Accounts /\ pc'[s] \notin PaidStates
    BY <1>3, NextRowFree DEF LockAccount, Running, PaidStates
  <2>2. \A a \in Accounts : accLock[a] = s => accLock'[a] = s
    BY <1>3, <2>1 DEF LockAccount, TypeOK
  <2>3. \A t \in mine[s] : t.source \in Accounts /\ t.target \in Accounts
    BY DEF TypeOK, Postings
  <2>4. delta' = delta /\ mine' = mine
    BY <1>3 DEF LockAccount
  <2> QED
    BY <1>0, <2>1, <2>2, <2>3, <2>4 DEF Owns
<1>4. CASE Recheck(s)
  <2>0. UNCHANGED <<accLock, delta, mine, job>> /\ pos[s] \in 1..Len(job[s])
    BY <1>4 DEF Recheck, Running
  <2>1. CASE KeySeen(s)
    <3>1. pc'[s] \notin PaidStates
      BY <1>4, <2>1 DEF Recheck, GoTo, TypeOK, PaidStates
    <3> QED
      BY <1>0, <2>0, <3>1 DEF Owns
  <2>2. CASE ~KeySeen(s)
    <3>1. pos' = pos /\ Cur(s)' = Cur(s)
      BY <1>4, <2>0, <2>2 DEF Recheck, Cur
    <3>2. accLock[Cur(s).source] = s /\ accLock[Cur(s).target] = s
      BY <1>4 DEF Recheck, Needed
    <3>3. Cur(s).source \in Accounts
      BY <2>0, CurIsTransfer DEF Transfer
    <3>4. pc'[s] = "org" => Cur(s).source \in Orgs
      BY <1>4, <2>2, <3>3 DEF Recheck, TypeOK
    <3> QED
      BY <1>0, <2>0, <3>1, <3>2, <3>4 DEF Owns
  <2> QED
    BY <2>1, <2>2
<1>5. CASE LockOrg(s)
  <2>1. pc[s] = "org" /\ pc'[s] = "apply"
    BY <1>5 DEF LockOrg, Running, TypeOK
  <2>2. UNCHANGED <<accLock, delta, mine, job, pos>> /\ Cur(s)' = Cur(s)
    BY <1>5 DEF LockOrg, Cur
  <2> QED
    BY <1>0, <2>1, <2>2 DEF Owns, PaidStates
<1>6. CASE HoldItem(s)
  <2>1. pc'[s] \notin PaidStates /\ UNCHANGED <<accLock, delta, mine>>
    BY <1>6 DEF HoldItem, GoTo, TypeOK, PaidStates
  <2> QED
    BY <1>0, <2>1 DEF Owns
<1>7. CASE Apply(s)
  <2>1. /\ pc[s] \in PaidStates /\ pos[s] \in 1..Len(job[s])
        /\ accLock[Cur(s).source] = s /\ accLock[Cur(s).target] = s
    BY <1>7 DEF Apply, Running, PaidStates, Owns
  <2>2. pc'[s] \notin PaidStates /\ accLock' = accLock
    BY <1>7 DEF Apply, GoTo, TypeOK, PaidStates
  <2>3. \A a \in Accounts : accLock[a] # s => delta'[s][a] = delta[s][a]
    BY <1>7, <2>1 DEF Apply, TypeOK
  <2>4. Ordered(Posting(Cur(s)))
    BY <2>1, CurIsTransfer DEF Ordered, Cur
  <2>5. mine'[s] = mine[s] \union {Posting(Cur(s))}
    BY <1>7 DEF Apply, TypeOK
  <2>6. Posting(Cur(s)).source = Cur(s).source /\ Posting(Cur(s)).target = Cur(s).target
    BY DEF Posting
  <2> QED
    BY <1>0, <2>1, <2>2, <2>3, <2>4, <2>5, <2>6 DEF Owns
<1>8. CASE RefuseAmount(s) \/ Refuse(s) \/ Commit(s) \/ Disconnect(s) \/ DeadlockAbort(s)
  BY <1>8, ReleaseOwns
  DEF RefuseAmount, Refuse, Commit, Disconnect, DeadlockAbort, Rollback
<1>9. CASE Prepares(s)
  BY <1>9, PreparesKeeps, OwnsFrame DEF SameFor
<1> QED
  BY <1>1, <1>2, <1>3, <1>4, <1>5, <1>6, <1>7, <1>8, <1>9 DEF SessionStep, Statement, Prepares

LEMMA OwnershipInit == Init => Ownership
BY SessionAssumption DEF Init, Ownership, NoDelta, PaidStates

LEMMA OwnershipNext == TypeOK /\ Ownership /\ [Next]_vars => Ownership'
<1> SUFFICES ASSUME TypeOK, Ownership, [Next]_vars, NEW r \in Sessions
             PROVE  Owns(r)'
  BY DEF Ownership, Owns
<1>1. Owns(r)
  BY DEF Ownership, Owns
<1>2. ASSUME NEW s \in Sessions, SessionStep(s) PROVE Owns(r)'
  BY <1>1, <1>2, OwnsStep, OwnsFrame, Frame
<1>3. CASE UNCHANGED <<accLock, pc, job, pos, sb, delta, mine>>
  BY <1>1, <1>3, OwnsFrame DEF SameFor
<1> QED
  BY <1>2, <1>3 DEF Next, SessionStep, SetStatus, vars

(* A session writes only to account rows it has locked: the balance it     *)
(* read and the key it looked up cannot change before its commit.          *)
THEOREM LedgerOwnership == Spec => []Ownership
BY LedgerTypeOK, OwnershipInit, OwnershipNext, PTL DEF Spec

-----------------------------------------------------------------------------
(* The credit floor.  A session other than the acting one sees its balances*)
(* move only at a commit, and then on rows that it does not own.           *)

Reads(s) ==
  /\ \A o \in Orgs : balance[o] + delta[s][o] >= -CreditLimit[o]
  /\ pc[s] = "org" => sb[s] = balance[Cur(s).source] + delta[s][Cur(s).source]
  /\ pc[s] = "apply" /\ Cur(s).source \in Orgs =>
       balance[Cur(s).source] + delta[s][Cur(s).source]
         + CreditLimit[Cur(s).source] >= Cur(s).amount

LEMMA ReadsFrame ==
  ASSUME TypeOK, NEW r \in Sessions, Owns(r), Reads(r), SameFor(r), UNCHANGED balance
  PROVE  Reads(r)'
<1>1. Cur(r)' = Cur(r)
  BY DEF SameFor, Cur
<1> QED
  BY <1>1 DEF Reads, SameFor

LEMMA CommitReads ==
  ASSUME TypeOK, Ownership, ReadsHold, NEW s \in Sessions, Commit(s)
  PROVE  /\ CreditFloor'
         /\ \A r \in Sessions : Reads(r)'
<1>1. \A a \in Accounts : balance'[a] = balance[a] + delta[s][a]
  BY DEF Commit
<1>2. CreditFloor'
  BY <1>1 DEF ReadsHold, CreditFloor, Reads
<1>3. Release(s)
  BY DEF Commit
<1>t. TypeOK'
  BY NextType DEF Next, Statement
<1>4. Reads(s)'
  <2>1. pc'[s] = "idle" /\ \A a \in Accounts : delta'[s][a] = 0
    BY <1>3 DEF Release, TypeOK, NoDelta
  <2>2. \A o \in Orgs : balance'[o] \in Int /\ balance'[o] >= -CreditLimit[o]
    BY <1>2, <1>t DEF CreditFloor, TypeOK
  <2> QED
    BY <2>1, <2>2 DEF Reads
<1>5. ASSUME NEW r \in Sessions, r # s PROVE Reads(r)'
  <2>1. SameFor(r) /\ Cur(r)' = Cur(r)
    BY <1>3, <1>5, ReleaseFrame DEF SameFor, Cur
  <2>2. \A a \in Accounts : accLock[a] = r => balance'[a] = balance[a]
    BY <1>1, <1>5 DEF Ownership, TypeOK
  <2>3. ASSUME NEW o \in Orgs
        PROVE  balance'[o] + delta[r][o] >= -CreditLimit[o]
    <3>1. CASE accLock[o] = r
      BY <2>2, <3>1 DEF ReadsHold
    <3>2. CASE accLock[o] # r
      <4>1. delta[r][o] = 0
        BY <3>2 DEF Ownership
      <4>2. balance'[o] \in Int /\ balance'[o] >= -CreditLimit[o]
        BY <1>2, <1>t DEF CreditFloor, TypeOK
      <4> QED
        BY <4>1, <4>2
    <3> QED
      BY <3>1, <3>2
  <2>4. pc[r] \in PaidStates => accLock[Cur(r).source] = r /\ Cur(r).source \in Accounts
    BY CurIsTransfer DEF Ownership, Transfer
  <2>5. pc[r] \in PaidStates => balance'[Cur(r).source] = balance[Cur(r).source]
    BY <2>2, <2>4
  <2> QED
    BY <2>1, <2>3, <2>5 DEF Reads, ReadsHold, SameFor, PaidStates
<1> QED
  BY <1>2, <1>4, <1>5

LEMMA ReadsStep ==
  ASSUME TypeOK, Ownership, CreditFloor, NEW s \in Sessions, Reads(s),
         SessionStep(s), ~Commit(s)
  PROVE  UNCHANGED balance /\ Reads(s)'
<1>1. CASE Begin(s)
  BY <1>1 DEF Begin, Reads, TypeOK
<1>2. CASE CheckKey(s)
  <2>1. pc'[s] \notin PaidStates /\ UNCHANGED <<balance, delta>>
    <3>1. CASE GoTo(s, pos[s] + 1)
      BY <1>2, <3>1 DEF CheckKey, GoTo, TypeOK, PaidStates
    <3>2. CASE pc' = [pc EXCEPT ![s] = "lock"]
      BY <1>2, <3>2 DEF CheckKey, TypeOK, PaidStates
    <3> QED
      BY <1>2, <3>1, <3>2 DEF CheckKey
  <2> QED
    BY <2>1 DEF Reads, PaidStates
<1>3. CASE LockAccount(s)
  BY <1>3 DEF LockAccount, Reads, Running
<1>4. CASE Recheck(s)
  <2>0. UNCHANGED <<balance, delta, job>> /\ pos[s] \in 1..Len(job[s])
    BY <1>4 DEF Recheck, Running
  <2>1. CASE KeySeen(s)
    <3>1. pc'[s] \notin PaidStates
      BY <1>4, <2>1 DEF Recheck, GoTo, TypeOK, PaidStates
    <3> QED
      BY <2>0, <3>1 DEF Reads, PaidStates
  <2>2. CASE ~KeySeen(s)
    <3>1. pos' = pos /\ Cur(s)' = Cur(s)
      BY <1>4, <2>0, <2>2 DEF Recheck, Cur
    <3>2. sb'[s] = balance[Cur(s).source] + delta[s][Cur(s).source]
      BY <1>4, <2>2 DEF Recheck, TypeOK
    <3>3. pc'[s] = IF Cur(s).source = System THEN "apply" ELSE "org"
      BY <1>4, <2>2 DEF Recheck, TypeOK
    <3>4. pc'[s] = "apply" => Cur(s).source \notin Orgs
      BY <3>3, SystemAssumption
    <3> QED
      BY <2>0, <3>1, <3>2, <3>4 DEF Reads
  <2> QED
    BY <2>1, <2>2
<1>5. CASE LockOrg(s)
  <2>1. pc[s] = "org" /\ pc'[s] = "apply" /\ CoveredBy(s)
    BY <1>5 DEF LockOrg, Running, TypeOK
  <2>2. UNCHANGED <<balance, delta, job, pos>> /\ Cur(s)' = Cur(s)
    BY <1>5 DEF LockOrg, Cur
  <2> QED
    BY <2>1, <2>2 DEF Reads, CoveredBy
<1>6. CASE HoldItem(s)
  <2>1. pc'[s] = "check" /\ UNCHANGED <<balance, delta>>
    BY <1>6 DEF HoldItem, GoTo, TypeOK
  <2> QED
    BY <2>1 DEF Reads
<1>7. CASE Apply(s)
  <2>1. pc[s] = "apply" /\ pc'[s] = "check" /\ UNCHANGED balance
    BY <1>7 DEF Apply, GoTo, Running, TypeOK
  <2>2. Cur(s) \in Transfer
    BY <1>7, CurIsTransfer DEF Apply, Running
  <2>3. ASSUME NEW o \in Orgs
        PROVE  balance[o] + delta'[s][o] >= -CreditLimit[o]
    <3>1. balance[o] \in Int /\ delta[s][o] \in Int /\ CreditLimit[o] \in Nat /\ Cur(s).amount \in Nat
      BY <2>2, LimitAssumption DEF TypeOK, Transfer
    <3>2. balance[o] + delta[s][o] >= -CreditLimit[o]
      BY DEF Reads
    <3>3. delta'[s][o] = CASE o = Cur(s).source -> delta[s][o] - Cur(s).amount
                           [] o = Cur(s).target -> delta[s][o] + Cur(s).amount
                           [] OTHER -> delta[s][o]
      BY <1>7 DEF Apply, TypeOK
    <3>4. CASE o = Cur(s).source
      BY <2>1, <3>1, <3>3, <3>4 DEF Reads
    <3>5. CASE o # Cur(s).source
      BY <3>1, <3>2, <3>3, <3>5
    <3> QED
      BY <3>4, <3>5
  <2> QED
    BY <2>1, <2>3 DEF Reads
<1>8. CASE RefuseAmount(s) \/ Refuse(s) \/ Disconnect(s) \/ DeadlockAbort(s)
  <2>1. Release(s) /\ UNCHANGED balance
    BY <1>8 DEF RefuseAmount, Refuse, Disconnect, DeadlockAbort, Rollback, dbVars
  <2>2. pc'[s] = "idle" /\ \A a \in Accounts : delta'[s][a] = 0
    BY <2>1 DEF Release, TypeOK, NoDelta
  <2>3. \A o \in Orgs : balance[o] \in Int /\ balance[o] >= -CreditLimit[o]
    BY DEF CreditFloor, TypeOK
  <2> QED
    BY <2>1, <2>2, <2>3 DEF Reads
<1>9. CASE Prepares(s)
  BY <1>9, PreparesKeeps, ReadsFrame DEF SameFor, Ownership, Owns
<1> QED
  BY <1>1, <1>2, <1>3, <1>4, <1>5, <1>6, <1>7, <1>8, <1>9 DEF SessionStep, Statement, Prepares

LEMMA ReadsInit == Init => ReadsHold
BY LimitAssumption DEF Init, ReadsHold, CreditFloor, NoDelta

LEMMA ReadsNext == TypeOK /\ Ownership /\ ReadsHold /\ [Next]_vars => ReadsHold'
<1> SUFFICES ASSUME TypeOK, Ownership, ReadsHold, [Next]_vars
             PROVE  CreditFloor' /\ \A r \in Sessions : Reads(r)'
  BY DEF ReadsHold, Reads
<1>1. CreditFloor /\ \A r \in Sessions : Reads(r) /\ Owns(r)
  BY DEF ReadsHold, Reads, Ownership, Owns
<1>2. ASSUME NEW s \in Sessions, SessionStep(s)
      PROVE  CreditFloor' /\ \A r \in Sessions : Reads(r)'
  <2>1. CASE Commit(s)
    BY <2>1, CommitReads
  <2>2. CASE ~Commit(s)
    <3>1. UNCHANGED balance /\ Reads(s)'
      BY <1>1, <1>2, <2>2, ReadsStep
    <3>2. ASSUME NEW r \in Sessions, r # s PROVE Reads(r)'
      BY <1>1, <1>2, <3>1, <3>2, Frame, ReadsFrame
    <3> QED
      BY <1>1, <3>1, <3>2 DEF CreditFloor
  <2> QED
    BY <2>1, <2>2
<1>3. CASE UNCHANGED <<balance, accLock, pc, job, pos, sb, delta, mine>>
  BY <1>1, <1>3, ReadsFrame DEF SameFor, CreditFloor
<1> QED
  BY <1>2, <1>3 DEF Next, SessionStep, SetStatus, vars

(* No interleaving of concurrent transfers, rollbacks and disconnections   *)
(* takes an organization below its credit limit.                           *)
THEOREM LedgerCreditFloor == Spec => []CreditFloor
<1>1. Spec => []ReadsHold
  BY LedgerTypeOK, LedgerOwnership, ReadsInit, ReadsNext, PTL DEF Spec
<1>2. ReadsHold => CreditFloor
  BY DEF ReadsHold
<1> QED
  BY <1>1, <1>2, PTL

-----------------------------------------------------------------------------
(* Idempotency keys.  Two transfers of the same key need a common account  *)
(* row, so the second one is behind the lock of the first until it commits.*)

LEMMA SharedRow ==
  ASSUME TypeOK, NEW s \in Sessions, pos[s] \in 1..Len(job[s]),
         NEW x, Ordered(x), x.key = Cur(s).key
  PROVE  {x.source, x.target} \cap {Cur(s).source, Cur(s).target} # {}
<1>1. job[s] \in Jobs
  BY CurIsTransfer
<1>0. PICK j \in Jobs : \E i \in 1..Len(j) : x = Posting(j[i])
  BY DEF Ordered
<1>2. PICK i \in 1..Len(j) : x = Posting(j[i])
  BY <1>0
<1>3. x.key = j[i].key /\ x.source = j[i].source /\ x.target = j[i].target
  BY <1>2 DEF Posting
<1> QED
  BY <1>1, <1>2, <1>3, KeyAssumption DEF Cur

LEMMA OwnRowsDiffer ==
  ASSUME TypeOK, Ownership, NEW s \in Sessions, NEW t \in Sessions, t # s,
         pos[s] \in 1..Len(job[s]),
         accLock[Cur(s).source] = s, accLock[Cur(s).target] = s
  PROVE  Cur(s).key \notin Keys(mine[t])
<1> SUFFICES ASSUME NEW x \in mine[t], x.key = Cur(s).key PROVE FALSE
  BY DEF Keys
<1>1. Ordered(x) /\ accLock[x.source] = t /\ accLock[x.target] = t
  BY DEF Ownership
<1> QED
  BY <1>1, SharedRow

Fresh(s) == pc[s] \in PaidStates =>
  /\ Cur(s).key \notin Keys(ledger)
  /\ \A t \in Sessions : Cur(s).key \notin Keys(mine[t])

(* A step that adds nothing to the ledger or to open transactions keeps    *)
(* the key of a paying transfer unused.                                    *)
LEMMA FreshKept ==
  ASSUME TypeOK, NEW s \in Sessions, Fresh(s), pc'[s] \in PaidStates => pc[s] \in PaidStates,
         job'[s] = job[s], pos'[s] = pos[s],
         Keys(ledger') \subseteq Keys(ledger) \union UNION {Keys(mine[t]) : t \in Sessions},
         \A t \in Sessions : mine'[t] \subseteq mine[t]
  PROVE  Fresh(s)'
<1>1. Cur(s)' = Cur(s)
  BY DEF Cur
<1>2. \A t \in Sessions : Keys(mine'[t]) \subseteq Keys(mine[t])
  BY DEF Keys
<1> QED
  BY <1>1, <1>2 DEF Fresh

LEMMA FreshOther ==
  ASSUME TypeOK, Ownership, NEW u \in Sessions, SessionStep(u),
         NEW s \in Sessions, s # u, Fresh(s)
  PROVE  Fresh(s)'
<1>0. SameFor(s)
  BY Frame
<1>1. CASE Apply(u)
  <2>1. /\ ledger' = ledger /\ \A t \in Sessions \ {u} : mine'[t] = mine[t]
        /\ mine'[u] = mine[u] \union {Posting(Cur(u))}
    BY <1>1 DEF Apply, TypeOK
  <2>2. pos[u] \in 1..Len(job[u]) /\ accLock[Cur(u).source] = u /\ accLock[Cur(u).target] = u
    BY <1>1 DEF Apply, Running, Ownership, PaidStates
  <2>3. ASSUME pc[s] \in PaidStates PROVE Cur(s).key # Cur(u).key
    <3>1. /\ pos[s] \in 1..Len(job[s])
          /\ accLock[Cur(s).source] = s /\ accLock[Cur(s).target] = s
      BY <2>3 DEF Ownership
    <3>2. Ordered(Posting(Cur(u)))
      BY <2>2, CurIsTransfer DEF Ordered, Cur
    <3>3. /\ Posting(Cur(u)).key = Cur(u).key
          /\ Posting(Cur(u)).source = Cur(u).source
          /\ Posting(Cur(u)).target = Cur(u).target
      BY DEF Posting
    <3> QED
      BY <2>2, <3>1, <3>2, <3>3, SharedRow
  <2>4. Cur(s)' = Cur(s) /\ pc'[s] = pc[s]
    BY <1>0 DEF SameFor, Cur
  <2>5. \A k \in Keys(mine'[u]) : k \in Keys(mine[u]) \/ k = Cur(u).key
    <3>1. Posting(Cur(u)).key = Cur(u).key
      BY DEF Posting
    <3>2. \A x \in mine'[u] : x \in mine[u] \/ x = Posting(Cur(u))
      BY <2>1
    <3> QED
      BY <3>1, <3>2 DEF Keys
  <2> QED
    BY <2>1, <2>3, <2>4, <2>5 DEF Fresh
<1>2. CASE ~Apply(u)
  <2>1. \A t \in Sessions : mine'[t] \subseteq mine[t]
    BY <1>2 DEF SessionStep, Statement, LockRow, ShareOrg, Begin, CheckKey, RefuseAmount,
       LockAccount, Recheck, LockOrg, Refuse, HoldItem, Commit, Disconnect, DeadlockAbort, Rollback, Release, TypeOK
  <2>2. Keys(ledger') \subseteq Keys(ledger) \union UNION {Keys(mine[t]) : t \in Sessions}
    <3>1. ledger' = ledger \/ ledger' = ledger \union mine[u]
      BY <1>2 DEF SessionStep, Statement, LockRow, ShareOrg, Begin, CheckKey, RefuseAmount,
         LockAccount, Recheck, LockOrg, Refuse, HoldItem, Commit, Disconnect, DeadlockAbort, Rollback, dbVars
    <3> QED
      BY <3>1 DEF Keys
  <2> QED
    BY <1>0, <2>1, <2>2, FreshKept DEF SameFor
<1> QED
  BY <1>1, <1>2

LEMMA FreshSelf ==
  ASSUME TypeOK, Ownership, NEW s \in Sessions, SessionStep(s), Fresh(s)
  PROVE  Fresh(s)'
<1>1. CASE Recheck(s) /\ ~KeySeen(s)
  <2>1. UNCHANGED <<ledger, mine, job, pos>> /\ Cur(s)' = Cur(s)
    BY <1>1 DEF Recheck, Cur
  <2>2. /\ pos[s] \in 1..Len(job[s])
        /\ accLock[Cur(s).source] = s /\ accLock[Cur(s).target] = s
    BY <1>1 DEF Recheck, Running, Needed
  <2>3. \A t \in Sessions : t # s => Cur(s).key \notin Keys(mine[t])
    BY <2>2, OwnRowsDiffer
  <2> QED
    BY <1>1, <2>1, <2>3 DEF Fresh, KeySeen
<1>2. CASE LockOrg(s)
  <2>1. pc[s] \in PaidStates /\ UNCHANGED <<ledger, mine, job, pos>>
    BY <1>2 DEF LockOrg, Running, PaidStates
  <2> QED
    BY <2>1, FreshKept
<1>3. CASE ~LockOrg(s) /\ ~(Recheck(s) /\ ~KeySeen(s))
  <2>1. CASE Begin(s)
    BY <2>1 DEF Begin, Fresh, PaidStates, TypeOK
  <2>2. CASE CheckKey(s)
    <3>1. CASE GoTo(s, pos[s] + 1)
      BY <2>2, <3>1 DEF CheckKey, GoTo, Fresh, TypeOK, PaidStates
    <3>2. CASE pc' = [pc EXCEPT ![s] = "lock"]
      BY <2>2, <3>2 DEF CheckKey, Fresh, TypeOK, PaidStates
    <3> QED
      BY <2>2, <3>1, <3>2 DEF CheckKey
  <2>3. CASE LockAccount(s)
    BY <2>3 DEF LockAccount, Running, Fresh, PaidStates
  <2>4. CASE Recheck(s)
    BY <1>3, <2>4 DEF Recheck, GoTo, Fresh, PaidStates, TypeOK
  <2>5. CASE HoldItem(s) \/ Apply(s)
    BY <2>5 DEF HoldItem, Apply, GoTo, Fresh, PaidStates, TypeOK
  <2>6. CASE RefuseAmount(s) \/ Refuse(s) \/ Commit(s) \/ Disconnect(s) \/ DeadlockAbort(s)
    BY <2>6 DEF RefuseAmount, Refuse, Commit, Disconnect, DeadlockAbort, Rollback, Release,
       Fresh, PaidStates, TypeOK
  <2>7. CASE Prepares(s)
    BY <2>7, PreparesKeeps DEF Fresh, PaidStates
  <2> QED
    BY <1>3, <2>1, <2>2, <2>3, <2>4, <2>5, <2>6, <2>7 DEF SessionStep, Statement, Prepares
<1> QED
  BY <1>1, <1>2, <1>3

LEMMA KeysFreshInit == Init => KeysFresh
BY DEF Init, KeysFresh, PaidStates

LEMMA KeysFreshNext == TypeOK /\ Ownership /\ KeysFresh /\ [Next]_vars => KeysFresh'
<1> SUFFICES ASSUME TypeOK, Ownership, KeysFresh, [Next]_vars, NEW s \in Sessions
             PROVE  Fresh(s)'
  BY DEF KeysFresh, Fresh
<1>1. Fresh(s)
  BY DEF KeysFresh, Fresh
<1>2. ASSUME NEW u \in Sessions, SessionStep(u) PROVE Fresh(s)'
  BY <1>1, <1>2, FreshOther, FreshSelf
<1>3. CASE UNCHANGED <<ledger, pc, job, pos, mine>>
  BY <1>1, <1>3, FreshKept
<1> QED
  BY <1>2, <1>3 DEF Next, SessionStep, SetStatus, vars

(* However requests with the same idempotency key are interleaved, at most *)
(* one of them ever reaches its INSERT.                                    *)
THEOREM LedgerReplay == Spec => []ReplayNeverPostsTwice
<1>1. Spec => []KeysFresh
  BY LedgerTypeOK, LedgerOwnership, KeysFreshInit, KeysFreshNext, PTL DEF Spec
<1>2. KeysFresh => ReplayNeverPostsTwice
  BY DEF KeysFresh, ReplayNeverPostsTwice, PaidStates
<1> QED
  BY <1>1, <1>2, PTL
-----------------------------------------------------------------------------
(* Row locks of one transfer are taken in one order, so a wait cycle needs *)
(* a session that kept rows from a transfer before.                        *)

LEMMA LeastNatural ==
  ASSUME NEW T, T \subseteq Nat, T # {}
  PROVE  \E x \in T : \A y \in T : x <= y
<1>1. \E x \in T : \A y \in T : ~ (<<y, x>> \in OpToRel(<, Nat))
  BY NatLessThanWellFounded, WFMin
<1>2. PICK x \in T : \A y \in T : ~ (<<y, x>> \in OpToRel(<, Nat))
  BY <1>1
<1>3. \A y \in T : ~(y < x)
  BY <1>2 DEF OpToRel
<1>4. \A y \in T : x \in Nat /\ y \in Nat
  OBVIOUS
<1> QED
  BY <1>3, <1>4

First(s) ==
  /\ pc[s] = "idle" => ~HoldsAccount(s) /\ ~HoldsOrg(s)
  /\ pc[s] = "lock" => pos[s] \in 1..Len(job[s])
  /\ pos[s] = 1 =>
       /\ pc[s] = "check" => ~HoldsAccount(s)
       /\ pc[s] \in {"check", "lock", "org"} => ~HoldsOrg(s)
       /\ pc[s] = "lock" =>
            \A a \in Accounts : accLock[a] = s => \A b \in Needed(s) : Rank[a] < Rank[b]

(* What a statement does to the organization rows of other sessions.       *)
LEMMA OrgFrame ==
  ASSUME TypeOK, NEW s \in Sessions, SessionStep(s), NEW r \in Sessions, r # s, NEW o \in Orgs
  PROVE  orgLock'[o] = r <=> orgLock[o] = r
<1>1. CASE LockOrg(s) \/ HoldItem(s)
  <2>1. orgLock' = [orgLock EXCEPT ![Cur(s).source] = s] /\ orgLock[Cur(s).source] \in {s, NoSession}
    BY <1>1 DEF LockOrg, HoldItem, OrgRowFree
  <2>2. NoSession # r
    BY SessionAssumption
  <2> QED
    BY <2>1, <2>2 DEF TypeOK
<1>2. CASE Release(s)
  BY <1>2, SessionAssumption DEF Release, TypeOK
<1>3. CASE UNCHANGED orgLock
  BY <1>3
<1>4. Begin(s) \/ CheckKey(s) \/ LockAccount(s) \/ Recheck(s) \/ Apply(s) => UNCHANGED orgLock
  BY DEF Begin, CheckKey, LockAccount, Recheck, Apply
<1>5. RefuseAmount(s) \/ Refuse(s) \/ Commit(s) \/ Disconnect(s) \/ DeadlockAbort(s) => Release(s)
  BY DEF RefuseAmount, Refuse, Commit, Disconnect, DeadlockAbort, Rollback
<1>6. Prepares(s) => UNCHANGED orgLock
  BY PreparesKeeps
<1> QED
  BY <1>1, <1>2, <1>3, <1>4, <1>5, <1>6 DEF SessionStep, Statement, Prepares

LEMMA FirstFrame ==
  ASSUME TypeOK, NEW r \in Sessions, First(r), SameFor(r),
         \A o \in Orgs : orgLock'[o] = r => orgLock[o] = r
  PROVE  First(r)'
<1>1. HoldsAccount(r)' => HoldsAccount(r)
  BY DEF SameFor, HoldsAccount
<1>2. HoldsOrg(r)' => HoldsOrg(r)
  BY DEF HoldsOrg
<1>3. Cur(r)' = Cur(r)
  BY DEF SameFor, Cur
<1>4. ASSUME pc[r] = "lock", pos[r] = 1, NEW a \in Accounts, accLock[a] = r, NEW b \in Needed(r)'
      PROVE  Rank[a] < Rank[b]
  <2>1. Cur(r).source \in Accounts /\ Cur(r).target \in Accounts
    BY <1>4, CurIsTransfer DEF First, Transfer
  <2>2. CASE b \in Needed(r)
    BY <1>4, <2>2 DEF First
  <2>3. CASE b \notin Needed(r)
    <3>1. b \in {Cur(r).source, Cur(r).target} /\ accLock'[b] # r /\ accLock[b] = r
      BY <1>3, <1>4, <2>3 DEF Needed
    <3> QED
      BY <2>1, <3>1 DEF SameFor
  <2> QED
    BY <2>2, <2>3
<1> QED
  BY <1>1, <1>2, <1>4 DEF First, SameFor

LEMMA FirstStep ==
  ASSUME TypeOK, NEW s \in Sessions, First(s), SessionStep(s)
  PROVE  First(s)'
<1>1. CASE Begin(s)
  <2>1. pc[s] = "idle" /\ pc'[s] = "check" /\ UNCHANGED <<accLock, orgLock>>
    BY <1>1 DEF Begin, TypeOK
  <2> QED
    BY <2>1 DEF First, HoldsAccount, HoldsOrg
<1>2. CASE CheckKey(s)
  <2>1. UNCHANGED <<accLock, orgLock, job>> /\ pc[s] = "check" /\ pos[s] \in 1..Len(job[s])
    BY <1>2 DEF CheckKey, Running
  <2>2. CASE KeySeen(s)
    <3>1. pc'[s] = "check" /\ pos'[s] = pos[s] + 1
      BY <1>2, <2>2 DEF CheckKey, GoTo, TypeOK
    <3>2. pos'[s] # 1
      BY <2>1, <3>1 DEF TypeOK
    <3> QED
      BY <3>1, <3>2 DEF First
  <2>3. CASE ~KeySeen(s)
    <3>1. pc'[s] = "lock" /\ pos' = pos
      BY <1>2, <2>3 DEF CheckKey, TypeOK
    <3>2. pos[s] = 1 => ~HoldsAccount(s) /\ ~HoldsOrg(s)
      BY <2>1 DEF First
    <3> QED
      BY <2>1, <3>1, <3>2 DEF First, HoldsAccount, HoldsOrg
  <2> QED
    BY <2>2, <2>3
<1>3. CASE LockAccount(s)
  <2>0. pc[s] = "lock" /\ pos[s] \in 1..Len(job[s]) /\ UNCHANGED <<orgLock, pc, pos, job>>
    BY <1>3 DEF LockAccount, Running
  <2> DEFINE n == NextRow(s)
  <2>1. n \in Needed(s) /\ Needed(s) \subseteq Accounts /\ (\A b \in Needed(s) : Rank[n] <= Rank[b])
    <3>1. n \in Needed(s) /\ Needed(s) \subseteq Accounts
      BY <1>3, <2>0, NextRowFree DEF LockAccount
    <3>2. \E a \in Needed(s) : \A b \in Needed(s) : Rank[a] <= Rank[b]
      BY <1>3, <2>0, LeastNeeded DEF LockAccount
    <3>3. \A b \in Needed(s) : Rank[n] <= Rank[b]
      BY <3>2 DEF NextRow
    <3> QED
      BY <3>1, <3>3
  <2>2. accLock' = [accLock EXCEPT ![n] = s]
    BY <1>3 DEF LockAccount
  <2> HIDE DEF n
  <2>3. Cur(s)' = Cur(s) /\ \A b \in Needed(s)' : b \in Needed(s) /\ b # n
    BY <2>0, <2>1, <2>2 DEF Cur, Needed, TypeOK
  <2>4. ASSUME pos[s] = 1, NEW a \in Accounts, accLock'[a] = s, NEW b \in Needed(s)'
        PROVE  Rank[a] < Rank[b]
    <3>1. b \in Needed(s) /\ b # n /\ b \in Accounts
      BY <2>1, <2>3, <2>4
    <3>2. CASE a = n
      <4>1. Rank[n] <= Rank[b] /\ Rank[n] # Rank[b] /\ Rank[n] \in Nat /\ Rank[b] \in Nat
        BY <2>1, <2>4, <3>1, <3>2, RankAssumption
      <4> QED
        BY <3>2, <4>1
    <3>3. CASE a # n
      BY <2>0, <2>2, <2>4, <3>1, <3>3 DEF First, TypeOK
    <3> QED
      BY <3>2, <3>3
  <2> QED
    BY <2>0, <2>4 DEF First, HoldsOrg
<1>4. CASE Recheck(s)
  <2>1. UNCHANGED <<accLock, orgLock, job>> /\ pc[s] = "lock" /\ pos[s] \in 1..Len(job[s])
    BY <1>4 DEF Recheck, Running
  <2>2. CASE KeySeen(s)
    <3>1. pc'[s] = "check" /\ pos'[s] = pos[s] + 1
      BY <1>4, <2>2 DEF Recheck, GoTo, TypeOK
    <3>2. pos'[s] # 1
      BY <2>1, <3>1 DEF TypeOK
    <3> QED
      BY <3>1, <3>2 DEF First
  <2>3. CASE ~KeySeen(s)
    <3>1. pc'[s] \in {"org", "apply"} /\ pos' = pos
      BY <1>4, <2>3 DEF Recheck, TypeOK
    <3>2. pos[s] = 1 => ~HoldsOrg(s)
      BY <2>1 DEF First
    <3> QED
      BY <2>1, <3>1, <3>2 DEF First, HoldsOrg
  <2> QED
    BY <2>2, <2>3
<1>5. CASE LockOrg(s)
  <2>1. pc'[s] = "apply"
    BY <1>5 DEF LockOrg, TypeOK
  <2> QED
    BY <2>1 DEF First
<1>6. CASE HoldItem(s)
  <2>1. pos[s] \in 1..Len(job[s]) /\ Cur(s).hold # 0 /\ pc'[s] = "check" /\ pos'[s] = Cur(s).hold
    BY <1>6 DEF HoldItem, Running, GoTo, TypeOK
  <2>2. job[s] \in Jobs
    BY <2>1, CurIsTransfer
  <2>3. pos'[s] \in (pos[s] + 1)..(Len(job[s]) + 1)
    BY <2>1, <2>2, JobAssumption DEF Cur
  <2>4. pos'[s] # 1
    BY <2>1, <2>3
  <2> QED
    BY <2>1, <2>4 DEF First
<1>7. CASE Apply(s)
  <2>1. pos[s] \in 1..Len(job[s]) /\ pc'[s] = "check" /\ pos'[s] = pos[s] + 1
    BY <1>7 DEF Apply, Running, GoTo, TypeOK
  <2>2. pos'[s] # 1
    BY <2>1
  <2> QED
    BY <2>1, <2>2 DEF First
<1>8. CASE RefuseAmount(s) \/ Refuse(s) \/ Commit(s) \/ Disconnect(s) \/ DeadlockAbort(s)
  <2>1. Release(s)
    BY <1>8 DEF RefuseAmount, Refuse, Commit, Disconnect, DeadlockAbort, Rollback
  <2>2. pc'[s] = "idle" /\ pos'[s] = 0
    BY <2>1 DEF Release, TypeOK
  <2>3. ~HoldsAccount(s)' /\ ~HoldsOrg(s)'
    BY <2>1, SessionAssumption DEF Release, HoldsAccount, HoldsOrg
  <2> QED
    BY <2>2, <2>3 DEF First
<1>9. CASE Prepares(s)
  BY <1>9, PreparesKeeps, FirstFrame DEF SameFor
<1> QED
  BY <1>1, <1>2, <1>3, <1>4, <1>5, <1>6, <1>7, <1>8, <1>9 DEF SessionStep, Statement, Prepares

LEMMA FirstInit == Init => FirstTransfer
BY SessionAssumption DEF Init, FirstTransfer, HoldsAccount, HoldsOrg

LEMMA FirstNext == TypeOK /\ FirstTransfer /\ [Next]_vars => FirstTransfer'
<1> SUFFICES ASSUME TypeOK, FirstTransfer, [Next]_vars, NEW r \in Sessions
             PROVE  First(r)'
  BY DEF FirstTransfer, First
<1>1. First(r)
  BY DEF FirstTransfer, First
<1>2. ASSUME NEW s \in Sessions, SessionStep(s) PROVE First(r)'
  <2>1. CASE r = s
    BY <1>1, <1>2, <2>1, FirstStep
  <2>2. CASE r # s
    BY <1>1, <1>2, <2>2, Frame, OrgFrame, FirstFrame
  <2> QED
    BY <2>1, <2>2
<1>3. CASE UNCHANGED <<accLock, orgLock, pc, job, pos, sb, delta, mine>>
  BY <1>1, <1>3, FirstFrame DEF SameFor
<1> QED
  BY <1>2, <1>3 DEF Next, SessionStep, SetStatus, vars

(* Rows of callers, one session at a time.                                 *)
RowOf(s) ==
  /\ pc[s] = "idle" => \A r \in Rows : rowLock[r] # s
  /\ pos[s] = 1 => \A r \in Rows : rowLock[r] = s => r = Cur(s).row

LEMMA RowFrame ==
  ASSUME TypeOK, NEW s \in Sessions, SessionStep(s), NEW t \in Sessions, t # s, NEW r \in Rows,
         rowLock'[r] = t
  PROVE  rowLock[r] = t
<1>1. CASE LockRow(s)
  <2>1. rowLock' = [rowLock EXCEPT ![Cur(s).row] = s]
    BY <1>1 DEF LockRow
  <2> QED
    BY <2>1 DEF TypeOK
<1>2. CASE Release(s)
  BY <1>2, SessionAssumption DEF Release
<1>3. Begin(s) \/ ShareOrg(s) \/ CheckKey(s) \/ LockAccount(s) \/ Recheck(s) \/ LockOrg(s)
        \/ HoldItem(s) \/ Apply(s) => UNCHANGED rowLock
  BY DEF Begin, ShareOrg, CheckKey, LockAccount, Recheck, LockOrg, HoldItem, Apply
<1>4. RefuseAmount(s) \/ Refuse(s) \/ Commit(s) \/ Disconnect(s) \/ DeadlockAbort(s) => Release(s)
  BY DEF RefuseAmount, Refuse, Commit, Disconnect, DeadlockAbort, Rollback
<1> QED
  BY <1>1, <1>2, <1>3, <1>4 DEF SessionStep, Statement

LEMMA RowStep ==
  ASSUME TypeOK, NEW s \in Sessions, RowOf(s), SessionStep(s)
  PROVE  RowOf(s)'
<1>1. CASE Begin(s)
  BY <1>1 DEF Begin, RowOf, TypeOK
<1>2. CASE LockRow(s)
  <2>1. /\ UNCHANGED <<pc, pos, job>> /\ pc[s] = "check" /\ Cur(s)' = Cur(s)
        /\ rowLock' = [rowLock EXCEPT ![Cur(s).row] = s]
    BY <1>2 DEF LockRow, Running, Cur
  <2> QED
    BY <2>1 DEF RowOf, TypeOK
<1>3. CASE Release(s)
  <2>1. pos'[s] = 0 /\ \A r \in Rows : rowLock'[r] # s
    BY <1>3, SessionAssumption DEF Release, TypeOK
  <2> QED
    BY <2>1 DEF RowOf
<1>4. CASE pc'[s] # "idle" /\ pos'[s] # 1
  BY <1>4 DEF RowOf
<1>5. CASE pc'[s] # "idle" /\ UNCHANGED <<pos, job, rowLock>>
  BY <1>5 DEF RowOf, Cur
<1>6. ShareOrg(s) \/ LockAccount(s) \/ LockOrg(s) => pc'[s] # "idle" /\ UNCHANGED <<pos, job, rowLock>>
  BY DEF ShareOrg, LockAccount, LockOrg, Running, TypeOK
<1>7. CASE CheckKey(s) \/ Recheck(s)
  <2>1. pos[s] \in 1..Len(job[s]) /\ UNCHANGED <<job, rowLock>>
    BY <1>7 DEF CheckKey, Recheck, Running
  <2>2. CASE KeySeen(s)
    <3>1. pc'[s] = "check" /\ pos'[s] = pos[s] + 1
      BY <1>7, <2>2 DEF CheckKey, Recheck, GoTo, TypeOK
    <3> QED
      BY <1>4, <2>1, <3>1
  <2>3. CASE ~KeySeen(s)
    <3>1. pc'[s] # "idle" /\ pos' = pos
      BY <1>7, <2>3 DEF CheckKey, Recheck, TypeOK
    <3> QED
      BY <1>5, <2>1, <3>1
  <2> QED
    BY <2>2, <2>3
<1>8. CASE HoldItem(s)
  <2>1. pos[s] \in 1..Len(job[s]) /\ Cur(s).hold # 0 /\ pc'[s] = "check" /\ pos'[s] = Cur(s).hold
    BY <1>8 DEF HoldItem, Running, GoTo, TypeOK
  <2>2. job[s] \in Jobs
    BY <2>1, CurIsTransfer
  <2>3. pos'[s] \in (pos[s] + 1)..(Len(job[s]) + 1)
    BY <2>1, <2>2, JobAssumption DEF Cur
  <2> QED
    BY <1>4, <2>1, <2>3
<1>9. CASE Apply(s)
  <2>1. pos[s] \in 1..Len(job[s]) /\ pc'[s] = "check" /\ pos'[s] = pos[s] + 1
    BY <1>9 DEF Apply, Running, GoTo, TypeOK
  <2> QED
    BY <1>4, <2>1
<1>10. RefuseAmount(s) \/ Refuse(s) \/ Commit(s) \/ Disconnect(s) \/ DeadlockAbort(s) => Release(s)
  BY DEF RefuseAmount, Refuse, Commit, Disconnect, DeadlockAbort, Rollback
<1> QED
  BY <1>1, <1>2, <1>3, <1>5, <1>6, <1>7, <1>8, <1>9, <1>10 DEF SessionStep, Statement

LEMMA RowInit == Init => FirstRow
BY SessionAssumption DEF Init, FirstRow

LEMMA RowNext == TypeOK /\ FirstRow /\ [Next]_vars => FirstRow'
<1> SUFFICES ASSUME TypeOK, FirstRow, [Next]_vars, NEW t \in Sessions
             PROVE  RowOf(t)'
  BY DEF FirstRow, RowOf
<1>1. RowOf(t)
  BY DEF FirstRow, RowOf
<1>2. ASSUME NEW s \in Sessions, SessionStep(s) PROVE RowOf(t)'
  <2>1. CASE t = s
    BY <1>1, <1>2, <2>1, RowStep
  <2>2. CASE t # s
    <3>1. pc'[t] = pc[t] /\ pos'[t] = pos[t] /\ Cur(t)' = Cur(t)
      BY <1>2, <2>2, Frame DEF SameFor, Cur
    <3>2. \A r \in Rows : rowLock'[r] = t => rowLock[r] = t
      BY <1>2, <2>2, RowFrame
    <3> QED
      BY <1>1, <3>1, <3>2 DEF RowOf
  <2> QED
    BY <2>1, <2>2
<1>3. CASE UNCHANGED <<rowLock, pc, job, pos>>
  BY <1>1, <1>3 DEF RowOf, Cur
<1> QED
  BY <1>2, <1>3 DEF Next, SessionStep, SetStatus, vars

(* Sessions at their first transfers that wait, none of them for a row     *)
(* another one's INSERTs have locked: nobody waits for an organization,    *)
(* and nobody for a session that has not begun to lock accounts.  So they  *)
(* wait for account rows, each for a higher one than whoever waits for it. *)
LEMMA WaitsForAccount ==
  ASSUME TypeOK, Ownership, FirstTransfer, FirstRow,
         NEW r \in Sessions, NEW s \in Sessions, NEW t \in Sessions, NEW u \in Sessions,
         WaitsFor(r, s), WaitsFor(s, t), WaitsFor(t, u), ~WaitsForShare(r, s), ~WaitsForShare(s, t),
         pos[r] <= 1, pos[s] <= 1, pos[t] <= 1
  PROVE  pc[s] = "lock" /\ Needed(s) # {} /\ accLock[NextRow(s)] = t
<1>1. \A x \in {r, s, t} : pos[x] = 1 /\ pos[x] \in 1..Len(job[x])
  BY DEF WaitsFor, WaitsForShare, Running
<1>2. \A x \in {s, t} : pc[x] \in {"check", "lock", "org"}
  BY DEF WaitsFor, WaitsForShare, Running
<1>3. ~HoldsOrg(s) /\ ~HoldsOrg(t)
  BY <1>1, <1>2 DEF FirstTransfer
<1>4. \A x \in {r, s} : Cur(x).source \in Accounts /\ Cur(x).refs \subseteq Orgs
  BY <1>1, CurIsTransfer DEF Transfer
<1>5. \A x \in {r, s} : pc[x] = "org" => Cur(x).source \in Orgs
  BY DEF Ownership, PaidStates
<1>6. CASE pc[s] = "check"
  <2>1. RowWanted(s)
    BY <1>3, <1>4, <1>6 DEF WaitsFor, WaitsForShare, Running, Unshared, HoldsOrg
  <2>2. ~HoldsAccount(s)
    BY <1>1, <1>6 DEF FirstTransfer
  <2>3. \A x \in Rows : rowLock[x] # s
    BY <1>1, <2>1 DEF FirstRow, RowWanted
  <2>4. pc[r] = "check" => Cur(r).row \in Rows \/ ~RowWanted(r)
    BY <1>1, CurIsTransfer DEF RowWanted, Transfer
  <2>5. pc[r] = "lock" /\ Needed(r) # {} => NextRow(r) \in Accounts
    BY <1>1, NextRowFree
  <2> QED
    BY <1>3, <1>4, <1>5, <2>2, <2>3, <2>4, <2>5
    DEF WaitsFor, Running, Unshared, HoldsOrg, HoldsAccount
<1>7. CASE pc[s] = "org"
  BY <1>3, <1>5, <1>7 DEF WaitsFor, Running, HoldsOrg
<1>8. CASE pc[s] = "lock"
  BY <1>8 DEF WaitsFor, WaitsForShare, Running
<1> QED
  BY <1>2, <1>6, <1>7, <1>8

LEMMA WaitsUpwards ==
  ASSUME TypeOK, FirstTransfer, NEW s \in Sessions, NEW t \in Sessions,
         pc[s] = "lock", Needed(s) # {}, accLock[NextRow(s)] = t, pos[s] \in 1..Len(job[s]),
         pc[t] = "lock", Needed(t) # {}, pos[t] = 1, pos[t] \in 1..Len(job[t])
  PROVE  Rank[NextRow(s)] < Rank[NextRow(t)]
<1>1. NextRow(s) \in Accounts /\ NextRow(t) \in Needed(t)
  BY NextRowFree
<1> QED
  BY <1>1 DEF FirstTransfer

LEMMA CycleHasHolder ==
  TypeOK /\ Ownership /\ FirstTransfer /\ FirstRow => DeadlockNeedsEarlierLocks
<1> SUFFICES ASSUME TypeOK, Ownership, FirstTransfer, FirstRow,
                    NEW C \in SUBSET Sessions, C # {}, WaitCycle(C),
                    \A s \in C : ~(pos[s] > 1) /\ \A t \in C : ~WaitsForShare(s, t)
             PROVE  FALSE
  BY DEF DeadlockNeedsEarlierLocks
<1>1. \A s \in C : pos[s] <= 1
  BY DEF TypeOK
<1>2. \A s \in C : (\E t \in C : WaitsFor(s, t)) /\ (\E t \in C : WaitsFor(t, s))
  BY DEF WaitCycle
<1>3. \A s \in C : /\ pc[s] = "lock" /\ Needed(s) # {}
                   /\ pos[s] = 1 /\ pos[s] \in 1..Len(job[s])
                   /\ \E t \in C : accLock[NextRow(s)] = t
  <2> TAKE s \in C
  <2>1. PICK r \in C, t \in C : WaitsFor(r, s) /\ WaitsFor(s, t)
    BY <1>2
  <2>2. PICK u \in C : WaitsFor(t, u)
    BY <1>2
  <2>3. pc[s] = "lock" /\ Needed(s) # {} /\ accLock[NextRow(s)] = t
    BY <1>1, <2>1, <2>2, WaitsForAccount
  <2>4. pos[s] \in 1..Len(job[s])
    BY <2>3 DEF FirstTransfer
  <2> QED
    BY <1>1, <2>3, <2>4
<1>5. \A s \in C : \E t \in C : Rank[NextRow(t)] < Rank[NextRow(s)]
  <2> TAKE s \in C
  <2>1. PICK r \in C, u \in C : WaitsFor(r, s) /\ WaitsFor(u, r)
    BY <1>2
  <2>2. PICK t \in C : WaitsFor(s, t)
    BY <1>2
  <2>3. pc[r] = "lock" /\ Needed(r) # {} /\ accLock[NextRow(r)] = s
    BY <1>1, <2>1, <2>2, WaitsForAccount
  <2> QED
    BY <1>3, <2>3, WaitsUpwards
<1> DEFINE R == {Rank[NextRow(s)] : s \in C}
<1>6. \A s \in C : Rank[NextRow(s)] \in Nat
  BY <1>3, NextRowFree, RankAssumption
<1>7. PICK x \in R : \A y \in R : x <= y
  <2>1. R \subseteq Nat /\ R # {}
    BY <1>6
  <2> HIDE DEF R
  <2> QED
    BY <2>1, LeastNatural
<1>8. PICK s \in C, t \in C : x = Rank[NextRow(s)] /\ Rank[NextRow(t)] < Rank[NextRow(s)]
  BY <1>5, <1>7
<1>9. Rank[NextRow(s)] <= Rank[NextRow(t)]
  BY <1>7, <1>8
<1> QED
  BY <1>6, <1>8, <1>9

(* However many sessions, organizations and jobs there are, transfers that *)
(* are the first of their transactions never deadlock among themselves,    *)
(* unless one waits for a row that INSERTs of another have locked: the     *)
(* sorted row locks order them.                                            *)
THEOREM LedgerDeadlock == Spec => []DeadlockNeedsEarlierLocks
<1>1. Spec => []FirstTransfer
  BY LedgerTypeOK, FirstInit, FirstNext, PTL DEF Spec
<1>2. Spec => []FirstRow
  BY LedgerTypeOK, RowInit, RowNext, PTL DEF Spec
<1> QED
  BY LedgerTypeOK, LedgerOwnership, <1>1, <1>2, CycleHasHolder, PTL
-----------------------------------------------------------------------------
(* All or nothing.  A cascade that commits is past every one of its edges, *)
(* and nobody else can have posted only some of them.                      *)

Progress(s) ==
  /\ pc[s] = "idle" => mine[s] = {}
  /\ mine[s] \subseteq PostingsOf(job[s])
  /\ RollsBack(job[s]) /\ Len(job[s]) > 1 =>
       \A i \in 1..Len(job[s]) : i < pos[s] => Posting(job[s][i]) \in ledger \union mine[s]

(* Only a commit writes to the ledger, and it adds what the session wrote. *)
LEMMA LedgerStep ==
  ASSUME NEW s \in Sessions, SessionStep(s)
  PROVE  /\ Commit(s) => ledger' = ledger \union mine[s] /\ Release(s)
         /\ ~Commit(s) => UNCHANGED <<balance, ledger, status>>
         /\ UNCHANGED status
<1>1. Begin(s) \/ CheckKey(s) \/ LockAccount(s) \/ Recheck(s) \/ LockOrg(s) \/ HoldItem(s) \/ Apply(s)
        => UNCHANGED <<balance, ledger, status>>
  BY DEF Begin, CheckKey, LockAccount, Recheck, LockOrg, HoldItem, Apply
<1>4. Prepares(s) => UNCHANGED <<balance, ledger, status>> /\ ~Commit(s)
  BY PreparesKeeps DEF Prepares, LockRow, ShareOrg, Running, Commit
<1>2. RefuseAmount(s) \/ Refuse(s) \/ Disconnect(s) \/ DeadlockAbort(s) => UNCHANGED <<balance, ledger, status>>
  BY DEF RefuseAmount, Refuse, Disconnect, DeadlockAbort, Rollback, dbVars
<1>3. Commit(s) => ledger' = ledger \union mine[s] /\ Release(s) /\ UNCHANGED status
  BY DEF Commit
<1> QED
  BY <1>1, <1>2, <1>3, <1>4 DEF SessionStep, Statement, Prepares

LEMMA ProgressFrame ==
  ASSUME NEW r \in Sessions, Progress(r), SameFor(r), ledger \subseteq ledger'
  PROVE  Progress(r)'
<1>1. PostingsOf(job[r])' = PostingsOf(job[r]) /\ RollsBack(job[r])' = RollsBack(job[r])
  BY DEF SameFor, PostingsOf, Posting, RollsBack
<1>2. \A i : Posting(job[r][i])' = Posting(job[r][i])
  BY DEF SameFor, Posting
<1> QED
  BY <1>1, <1>2 DEF Progress, SameFor

(* A key that is already there belongs to the very posting that is due.    *)
LEMMA SeenIsPosted ==
  ASSUME WholeCascades, TypeOK, Ownership, \A t \in ledger : Ordered(t),
         NEW s \in Sessions, pos[s] \in 1..Len(job[s]), KeySeen(s),
         RollsBack(job[s]), Len(job[s]) > 1
  PROVE  Posting(Cur(s)) \in ledger \union mine[s]
<1>1. PICK x \in ledger \union mine[s] : x.key = Cur(s).key
  BY DEF KeySeen, Keys
<1>2. Ordered(x)
  BY <1>1 DEF Ownership
<1>3. PICK k \in Jobs : \E n \in 1..Len(k) : x = Posting(k[n])
  BY <1>2 DEF Ordered
<1>4. PICK n \in 1..Len(k) : x = Posting(k[n])
  BY <1>3
<1>5. k[n].key = job[s][pos[s]].key
  BY <1>1, <1>4 DEF Posting, Cur
<1>6. job[s] \in Jobs
  BY CurIsTransfer
<1>7. Posting(k[n]) = Posting(job[s][pos[s]])
  BY <1>5, <1>6 DEF WholeCascades
<1> QED
  BY <1>1, <1>4, <1>7 DEF Cur

LEMMA ProgressMoves ==
  ASSUME TypeOK, NEW s \in Sessions, Progress(s), pos[s] \in 1..Len(job[s]),
         job'[s] = job[s], pos'[s] = pos[s] + 1, pc'[s] = "check", ledger' = ledger,
         mine[s] \subseteq mine'[s], mine'[s] \subseteq PostingsOf(job[s]),
         RollsBack(job[s]) /\ Len(job[s]) > 1 => Posting(Cur(s)) \in ledger \union mine'[s]
  PROVE  Progress(s)'
<1>1. PostingsOf(job[s])' = PostingsOf(job[s]) /\ RollsBack(job[s])' = RollsBack(job[s])
  BY DEF PostingsOf, Posting, RollsBack
<1>2. \A i : Posting(job[s][i])' = Posting(job[s][i])
  BY DEF Posting
<1>3. ASSUME RollsBack(job[s]), Len(job[s]) > 1, NEW i \in 1..Len(job[s]), i < pos[s] + 1
      PROVE  Posting(job[s][i]) \in ledger \union mine'[s]
  <2>1. CASE i = pos[s]
    BY <1>3, <2>1 DEF Cur
  <2>2. CASE i # pos[s]
    <3>1. i < pos[s]
      BY <1>3, <2>2 DEF TypeOK
    <3> QED
      BY <1>3, <3>1 DEF Progress
  <2> QED
    BY <2>1, <2>2
<1> QED
  BY <1>1, <1>2, <1>3 DEF Progress

LEMMA ProgressStays ==
  ASSUME NEW s \in Sessions, Progress(s), pc[s] # "idle",
         job'[s] = job[s], pos'[s] = pos[s], ledger' = ledger, mine'[s] = mine[s], pc'[s] # "idle"
  PROVE  Progress(s)'
<1>1. PostingsOf(job[s])' = PostingsOf(job[s]) /\ RollsBack(job[s])' = RollsBack(job[s])
  BY DEF PostingsOf, Posting, RollsBack
<1>2. \A i : Posting(job[s][i])' = Posting(job[s][i])
  BY DEF Posting
<1> QED
  BY <1>1, <1>2 DEF Progress

LEMMA ProgressStep ==
  ASSUME WholeCascades, TypeOK, Ownership, \A t \in ledger : Ordered(t),
         NEW s \in Sessions, Progress(s), SessionStep(s)
  PROVE  Progress(s)'
<1>1. CASE Begin(s)
  <2>1. mine[s] = {} /\ mine'[s] = {} /\ pos'[s] = 1 /\ job'[s] \in Jobs
    BY <1>1 DEF Begin, Progress, TypeOK
  <2>2. ~(\E i \in 1..Len(job'[s]) : i < 1)
    OBVIOUS
  <2> QED
    BY <2>1, <2>2 DEF Progress
<1>2. CASE CheckKey(s)
  <2>1. /\ pc[s] = "check" /\ pos[s] \in 1..Len(job[s]) /\ UNCHANGED <<ledger, job, mine>>
    BY <1>2 DEF CheckKey, Running
  <2>2. CASE KeySeen(s)
    <3>1. pc'[s] = "check" /\ pos'[s] = pos[s] + 1
      BY <1>2, <2>2 DEF CheckKey, GoTo, TypeOK
    <3>2. mine'[s] \subseteq PostingsOf(job[s])
      BY <2>1 DEF Progress
    <3>3. RollsBack(job[s]) /\ Len(job[s]) > 1 => Posting(Cur(s)) \in ledger \union mine'[s]
      BY <2>1, <2>2, SeenIsPosted
    <3> QED
      BY <2>1, <3>1, <3>2, <3>3, ProgressMoves
  <2>3. CASE ~KeySeen(s)
    <3>1. pc'[s] = "lock" /\ pos' = pos
      BY <1>2, <2>3 DEF CheckKey, TypeOK
    <3> QED
      BY <2>1, <3>1, ProgressStays
  <2> QED
    BY <2>2, <2>3
<1>3. CASE LockAccount(s)
  <2>1. pc[s] = "lock" /\ UNCHANGED <<ledger, job, mine, pos, pc>>
    BY <1>3 DEF LockAccount, Running
  <2> QED
    BY <2>1, ProgressStays
<1>4. CASE Recheck(s)
  <2>1. /\ pc[s] = "lock" /\ pos[s] \in 1..Len(job[s]) /\ UNCHANGED <<ledger, job, mine>>
    BY <1>4 DEF Recheck, Running
  <2>2. CASE KeySeen(s)
    <3>1. pc'[s] = "check" /\ pos'[s] = pos[s] + 1
      BY <1>4, <2>2 DEF Recheck, GoTo, TypeOK
    <3>2. mine'[s] \subseteq PostingsOf(job[s])
      BY <2>1 DEF Progress
    <3>3. RollsBack(job[s]) /\ Len(job[s]) > 1 => Posting(Cur(s)) \in ledger \union mine'[s]
      BY <2>1, <2>2, SeenIsPosted
    <3> QED
      BY <2>1, <3>1, <3>2, <3>3, ProgressMoves
  <2>3. CASE ~KeySeen(s)
    <3>1. pc'[s] \in {"org", "apply"} /\ pos' = pos
      BY <1>4, <2>3 DEF Recheck, TypeOK
    <3> QED
      BY <2>1, <3>1, ProgressStays
  <2> QED
    BY <2>2, <2>3
<1>5. CASE LockOrg(s)
  <2>1. pc[s] = "org" /\ pc'[s] = "apply" /\ UNCHANGED <<ledger, job, mine, pos>>
    BY <1>5 DEF LockOrg, Running, TypeOK
  <2> QED
    BY <2>1, ProgressStays
<1>6. CASE HoldItem(s)
  <2>1. /\ pos[s] \in 1..Len(job[s]) /\ Cur(s).hold # 0 /\ pc'[s] = "check"
        /\ UNCHANGED <<ledger, job, mine>>
    BY <1>6 DEF HoldItem, Running, GoTo, TypeOK
  <2>2. ~RollsBack(job[s])' /\ PostingsOf(job[s])' = PostingsOf(job[s])
    BY <2>1 DEF RollsBack, Cur, PostingsOf, Posting
  <2> QED
    BY <2>1, <2>2 DEF Progress
<1>7. CASE Apply(s)
  <2>1. /\ pos[s] \in 1..Len(job[s]) /\ pc'[s] = "check" /\ pos'[s] = pos[s] + 1
        /\ mine'[s] = mine[s] \union {Posting(Cur(s))} /\ UNCHANGED <<ledger, job>>
    BY <1>7 DEF Apply, Running, GoTo, TypeOK
  <2>2. Posting(Cur(s)) \in PostingsOf(job[s])
    BY <2>1 DEF PostingsOf, Cur
  <2>3. mine'[s] \subseteq PostingsOf(job[s])
    BY <2>1, <2>2 DEF Progress
  <2> QED
    BY <2>1, <2>3, ProgressMoves
<1>8. CASE RefuseAmount(s) \/ Refuse(s) \/ Commit(s) \/ Disconnect(s) \/ DeadlockAbort(s)
  <2>1. Release(s)
    BY <1>8 DEF RefuseAmount, Refuse, Commit, Disconnect, DeadlockAbort, Rollback
  <2>2. mine'[s] = {} /\ job'[s] = <<>>
    BY <2>1 DEF Release, TypeOK
  <2>3. ~(Len(job'[s]) > 1)
    BY <2>2
  <2> QED
    BY <2>2, <2>3 DEF Progress
<1>9. CASE Prepares(s)
  BY <1>9, PreparesKeeps, ProgressFrame DEF SameFor
<1> QED
  BY <1>1, <1>2, <1>3, <1>4, <1>5, <1>6, <1>7, <1>8, <1>9 DEF SessionStep, Statement, Prepares

LEMMA CascadeInit == Init => CascadeProgress /\ AllOrNothing
<1> SUFFICES ASSUME Init PROVE CascadeProgress /\ AllOrNothing
  OBVIOUS
<1>1. ledger = {} /\ \A s \in Sessions : mine[s] = {} /\ job[s] = <<>>
  BY DEF Init
<1>2. \A s \in Sessions : ~(Len(job[s]) > 1)
  BY <1>1
<1> QED
  BY <1>1, <1>2 DEF CascadeProgress, AllOrNothing

LEMMA CommitWhole ==
  ASSUME WholeCascades, TypeOK, CascadeProgress, AllOrNothing, NEW s \in Sessions, Commit(s)
  PROVE  AllOrNothing'
<1> SUFFICES ASSUME NEW j \in Jobs, RollsBack(j)
             PROVE  PostingsOf(j) \subseteq ledger' \/ PostingsOf(j) \cap ledger' = {}
  BY DEF AllOrNothing, RollsBack, PostingsOf, Posting
<1>1. ledger' = ledger \union mine[s] /\ pos[s] = Len(job[s]) + 1
  BY DEF Commit
<1>2. PostingsOf(j) \subseteq ledger \/ PostingsOf(j) \cap ledger = {}
  BY DEF AllOrNothing
<1>3. Len(j) \in Nat /\ Len(job[s]) \in Nat
  BY JobAssumption DEF TypeOK
<1>4. CASE Len(j) <= 1
  <2>1. \A i, n \in 1..Len(j) : i = n
    BY <1>3, <1>4
  <2>2. \A x, y \in PostingsOf(j) : x = y
    BY <2>1 DEF PostingsOf
  <2> QED
    BY <2>2
<1>5. CASE Len(j) > 1
  <2>1. CASE PostingsOf(j) \cap mine[s] = {}
    BY <1>1, <1>2, <2>1
  <2>2. CASE PostingsOf(j) \cap mine[s] # {}
    <3>1. PICK x \in PostingsOf(j) : x \in PostingsOf(job[s])
      BY <2>2 DEF CascadeProgress
    <3>2. PICK i \in 1..Len(j), n \in 1..Len(job[s]) : x = Posting(j[i]) /\ x = Posting(job[s][n])
      BY <3>1 DEF PostingsOf
    <3>3. j[i].key = job[s][n].key
      BY <3>2 DEF Posting
    <3>4. job[s] \in Jobs
      <4>1. job[s] # <<>>
        BY <3>2
      <4> QED
        BY <4>1 DEF TypeOK
    <3>5. RollsBack(job[s]) /\ Len(job[s]) = Len(j) /\ PostingsOf(job[s]) = PostingsOf(j)
      BY <1>5, <3>3, <3>4 DEF WholeCascades
    <3>6. \A m \in 1..Len(job[s]) : m < pos[s]
      BY <1>1, <1>3
    <3>7. \A m \in 1..Len(job[s]) : Posting(job[s][m]) \in ledger \union mine[s]
      BY <1>5, <3>5, <3>6 DEF CascadeProgress
    <3>8. PostingsOf(job[s]) \subseteq ledger'
      BY <1>1, <3>7 DEF PostingsOf
    <3> QED
      BY <3>5, <3>8
  <2> QED
    BY <2>1, <2>2
<1> QED
  BY <1>3, <1>4, <1>5

LEMMA CascadeNext ==
  ASSUME WholeCascades, TypeOK, Ownership, CascadeProgress, AllOrNothing, [Next]_vars
  PROVE  CascadeProgress' /\ AllOrNothing'
<1>0. \A t : Ordered(t)' <=> Ordered(t)
  BY DEF Ordered, Posting
<1>1. (\A t \in ledger : Ordered(t)) /\ \A r \in Sessions : Progress(r)
  BY DEF CascadeProgress, Progress
<1>2. ASSUME NEW s \in Sessions, SessionStep(s)
      PROVE  (\A t \in ledger' : Ordered(t)) /\ (\A r \in Sessions : Progress(r)') /\ AllOrNothing'
  <2>1. ledger \subseteq ledger' /\ ledger' \subseteq ledger \union mine[s]
    BY <1>2, LedgerStep
  <2>2. \A t \in ledger' : Ordered(t)
    BY <1>1, <2>1 DEF Ownership
  <2>3. Progress(s)'
    BY <1>1, <1>2, ProgressStep
  <2>4. ASSUME NEW r \in Sessions, r # s PROVE Progress(r)'
    BY <1>1, <1>2, <2>1, <2>4, Frame, ProgressFrame
  <2>5. AllOrNothing'
    <3>1. CASE Commit(s)
      BY <3>1, CommitWhole
    <3>2. CASE ~Commit(s)
      BY <1>2, <3>2, LedgerStep DEF AllOrNothing, RollsBack, PostingsOf, Posting
    <3> QED
      BY <3>1, <3>2
  <2> QED
    BY <2>2, <2>3, <2>4, <2>5
<1>3. ASSUME UNCHANGED <<ledger, accLock, pc, job, pos, sb, delta, mine>>
      PROVE  (\A t \in ledger' : Ordered(t)) /\ (\A r \in Sessions : Progress(r)') /\ AllOrNothing'
  <2>1. \A r \in Sessions : Progress(r)'
    BY <1>1, <1>3, ProgressFrame DEF SameFor
  <2>2. AllOrNothing'
    BY <1>3 DEF AllOrNothing, RollsBack, PostingsOf, Posting
  <2>3. \A t \in ledger' : Ordered(t)
    BY <1>1, <1>3
  <2> QED
    BY <2>1, <2>2, <2>3
<1>4. (\A t \in ledger' : Ordered(t)) /\ (\A r \in Sessions : Progress(r)') /\ AllOrNothing'
  BY <1>1, <1>2, <1>3 DEF Next, SessionStep, SetStatus, vars
<1>5. (\A t \in ledger : Ordered(t))'
  BY <1>0, <1>4
<1>6. (\A r \in Sessions : Progress(r))'
  BY <1>4
<1>7. CascadeProgress'
  BY <1>5, <1>6 DEF CascadeProgress, Progress
<1> QED
  BY <1>4, <1>7

(* Whatever sessions interleave, abort or hold in between, the ledger has  *)
(* a cascade whose caller rolls back with all its edges or with none, when *)
(* the keys of a cascade are used for no other transfers.                  *)
THEOREM LedgerAllOrNothing == WholeCascades => (Spec => []AllOrNothing)
<1> SUFFICES ASSUME WholeCascades PROVE Spec => []AllOrNothing
  OBVIOUS
<1>1. TypeOK /\ Ownership /\ CascadeProgress /\ AllOrNothing /\ [Next]_vars
        => CascadeProgress' /\ AllOrNothing'
  BY CascadeNext
<1> QED
  BY LedgerTypeOK, LedgerOwnership, CascadeInit, <1>1, PTL DEF Spec
-----------------------------------------------------------------------------
(* The amounts of a finite set of postings add up in any order.  The       *)
(* inductions go by a smallest subset for which the claim would fail.      *)

(* Among sets of subsets of a finite set one has no proper subset in it.   *)
LEMMA LeastSubset ==
  ASSUME NEW S, IsFiniteSet(S), NEW B, B \subseteq SUBSET S, B # {}
  PROVE  \E U \in B : \A V \in B : ~ (V \subseteq U /\ V # U)
<1>1. IsWellFoundedOn(StrictSubsetOrdering(S), FiniteSubsetsOf(S))
  BY FS_StrictSubsetOrderingWellFounded
<1>2. B \subseteq FiniteSubsetsOf(S)
  <2>1. \A U \in SUBSET S : IsFiniteSet(U)
    BY FS_Subset
  <2> QED
    BY <2>1 DEF FiniteSubsetsOf
<1>3. \E U \in B : \A V \in B : ~ (<<V, U>> \in StrictSubsetOrdering(S))
  BY <1>1, <1>2, WFMin
<1>4. PICK U \in B : \A V \in B : ~ (<<V, U>> \in StrictSubsetOrdering(S))
  BY <1>3
<1>5. \A V \in B : ~ (V \subseteq U /\ V # U)
  BY <1>4 DEF StrictSubsetOrdering
<1> QED
  BY <1>5

(* The fold behind WalletBook's Total, as the recursive function it is.     *)
Pick(s) == CHOOSE x \in s : TRUE
IsTotal(it, S) == it = [s \in SUBSET S |-> IF s = {} THEN 0 ELSE Pick(s).amount + it[s \ {Pick(s)}]]
Iter(S) == CHOOSE it : IsTotal(it, S)

LEMMA TotalIs == ASSUME NEW S PROVE Book!Total(S) = Iter(S)[S]
BY DEF Book!Total, Book!MapThenSumSet, Book!MapThenFoldSet, Iter, IsTotal, Pick

LEMMA PickIs == ASSUME NEW s, s # {} PROVE Pick(s) \in s
BY DEF Pick

LEMMA TotalUnique ==
  ASSUME NEW A, NEW B, NEW f, NEW g, IsTotal(f, A), IsTotal(g, B),
         NEW S, IsFiniteSet(S), S \subseteq A, S \subseteq B
  PROVE  f[S] = g[S]
<1> DEFINE Bad == {C \in SUBSET S : f[C] # g[C]}
<1> SUFFICES ASSUME Bad # {} PROVE FALSE
  OBVIOUS
<1>1. PICK C \in Bad : \A V \in Bad : ~ (V \subseteq C /\ V # C)
  <2>1. Bad \subseteq SUBSET S
    OBVIOUS
  <2> HIDE DEF Bad
  <2> QED
    BY <2>1, LeastSubset
<1>2. C \subseteq S /\ f[C] # g[C] /\ \A V \in SUBSET C : V # C => f[V] = g[V]
  BY <1>1
<1>3. f[C] = IF C = {} THEN 0 ELSE Pick(C).amount + f[C \ {Pick(C)}]
  BY <1>2 DEF IsTotal
<1>4. g[C] = IF C = {} THEN 0 ELSE Pick(C).amount + g[C \ {Pick(C)}]
  BY <1>2 DEF IsTotal
<1>5. C # {} => C \ {Pick(C)} \in SUBSET C /\ C \ {Pick(C)} # C
  BY PickIs
<1> QED
  BY <1>2, <1>3, <1>4, <1>5

LEMMA TotalExists ==
  ASSUME NEW S, IsFiniteSet(S)
  PROVE  \A U \in SUBSET S : IsTotal(Iter(U), U)
<1> DEFINE Bad == {U \in SUBSET S : ~ IsTotal(Iter(U), U)}
<1> SUFFICES ASSUME Bad # {} PROVE FALSE
  OBVIOUS
<1>1. PICK U \in Bad : \A V \in Bad : ~ (V \subseteq U /\ V # U)
  <2>1. Bad \subseteq SUBSET S
    OBVIOUS
  <2> HIDE DEF Bad
  <2> QED
    BY <2>1, LeastSubset
<1>2. U \subseteq S /\ ~ IsTotal(Iter(U), U) /\ \A V \in SUBSET U : V # U => IsTotal(Iter(V), V)
  BY <1>1
<1>f. \A V \in SUBSET U : IsFiniteSet(V)
  BY <1>2, FS_Subset
<1> HIDE DEF Bad
<1> DEFINE it == [s \in SUBSET U |-> IF s = {} THEN 0
                                     ELSE Pick(s).amount + Iter(s \ {Pick(s)})[s \ {Pick(s)}]]
<1>3. ASSUME NEW s \in SUBSET U, s # {}
      PROVE  it[s \ {Pick(s)}] = Iter(s \ {Pick(s)})[s \ {Pick(s)}]
  <2> DEFINE r == s \ {Pick(s)}
  <2>1. r \in SUBSET U /\ r # U /\ IsTotal(Iter(r), r) /\ IsFiniteSet(r)
    BY <1>2, <1>f, <1>3, PickIs
  <2> HIDE DEF r
  <2>2. Iter(r)[r] = IF r = {} THEN 0 ELSE Pick(r).amount + Iter(r)[r \ {Pick(r)}]
    BY <2>1 DEF IsTotal
  <2>3. ASSUME r # {} PROVE Iter(r)[r \ {Pick(r)}] = Iter(r \ {Pick(r)})[r \ {Pick(r)}]
    <3> DEFINE q == r \ {Pick(r)}
    <3>1. q \in SUBSET U /\ q # U /\ q \subseteq r
      BY <2>1, <2>3, PickIs
    <3> HIDE DEF q
    <3>2. IsTotal(Iter(q), q) /\ IsFiniteSet(q)
      BY <3>1, <1>2, <1>f
    <3>3. Iter(r)[q] = Iter(q)[q]
      BY <2>1, <3>1, <3>2, TotalUnique
    <3> QED
      BY <3>3 DEF q
  <2>4. it[r] = IF r = {} THEN 0 ELSE Pick(r).amount + Iter(r \ {Pick(r)})[r \ {Pick(r)}]
    BY <2>1
  <2>5. it[r] = Iter(r)[r]
    BY <2>2, <2>3, <2>4
  <2> QED
    BY <2>5 DEF r
<1>4. IsTotal(it, U)
  <2> DEFINE jt == [s \in SUBSET U |-> IF s = {} THEN 0 ELSE Pick(s).amount + it[s \ {Pick(s)}]]
  <2>1. \A s \in SUBSET U : it[s] = IF s = {} THEN 0
                                     ELSE Pick(s).amount + Iter(s \ {Pick(s)})[s \ {Pick(s)}]
    OBVIOUS
  <2>2. \A s \in SUBSET U : it[s] = jt[s]
    BY <1>3, <2>1
  <2>3. it = jt
    BY <2>2
  <2> QED
    BY <2>3 DEF IsTotal
<1> HIDE DEF it
<1>5. IsTotal(Iter(U), U)
  BY <1>4 DEF Iter
<1> QED
  BY <1>2, <1>5

(* The total of a set is the amount of any of its members and the total of *)
(* the others.                                                             *)
LEMMA TotalPick ==
  ASSUME NEW S, IsFiniteSet(S)
  PROVE  Book!Total(S) = IF S = {} THEN 0 ELSE Pick(S).amount + Book!Total(S \ {Pick(S)})
<1>1. IsTotal(Iter(S), S)
  BY TotalExists
<1>2. Iter(S)[S] = IF S = {} THEN 0 ELSE Pick(S).amount + Iter(S)[S \ {Pick(S)}]
  BY <1>1 DEF IsTotal
<1> DEFINE r == S \ {Pick(S)}
<1>3. r \in SUBSET S
  OBVIOUS
<1> HIDE DEF r
<1>4. IsTotal(Iter(r), r) /\ IsFiniteSet(r)
  BY <1>3, TotalExists, FS_Subset
<1>5. Iter(S)[r] = Iter(r)[r]
  BY <1>1, <1>3, <1>4, TotalUnique
<1> QED
  BY <1>2, <1>5, TotalIs DEF r

LEMMA TotalRemove ==
  ASSUME NEW S, IsFiniteSet(S), \A t \in S : t.amount \in Int
  PROVE  \A U \in SUBSET S : Book!Total(U) \in Int /\ \A y \in U : Book!Total(U) = y.amount + Book!Total(U \ {y})
<1> DEFINE P(U) == Book!Total(U) \in Int /\ \A y \in U : Book!Total(U) = y.amount + Book!Total(U \ {y})
           Bad == {U \in SUBSET S : ~P(U)}
<1> SUFFICES ASSUME Bad # {} PROVE FALSE
  OBVIOUS
<1>1. PICK U \in Bad : \A V \in Bad : ~ (V \subseteq U /\ V # U)
  <2>1. Bad \subseteq SUBSET S
    OBVIOUS
  <2> HIDE DEF Bad
  <2> QED
    BY <2>1, LeastSubset
<1>2. U \subseteq S /\ ~P(U) /\ \A V \in SUBSET U : V # U => P(V)
  BY <1>1
<1>3. IsFiniteSet(U)
  BY <1>2, FS_Subset
<1> HIDE DEF Bad, P
<1>4. U # {}
  <2> SUFFICES ASSUME U = {} PROVE P(U)
    BY <1>2
  <2>1. Book!Total(U) = 0
    BY <1>3, TotalPick
  <2> QED
    BY <2>1 DEF P
<1> DEFINE z == Pick(U)
<1>5. z \in U /\ Book!Total(U) = z.amount + Book!Total(U \ {z}) /\ z.amount \in Int
  BY <1>2, <1>3, <1>4, PickIs, TotalPick
<1> HIDE DEF z
<1>6. P(U \ {z})
  BY <1>2, <1>5
<1>7. Book!Total(U \ {z}) \in Int /\ Book!Total(U) \in Int
  BY <1>5, <1>6 DEF P
<1>8. ASSUME NEW y \in U, y # z PROVE Book!Total(U) = y.amount + Book!Total(U \ {y})
  <2> DEFINE r == U \ {y, z}
  <2>1. (U \ {z}) \ {y} = r /\ (U \ {y}) \ {z} = r /\ y \in U \ {z} /\ z \in U \ {y}
    BY <1>5, <1>8
  <2>2. P(U \ {y})
    BY <1>2, <1>8
  <2>3. P(r)
    BY <1>2, <1>8
  <2> HIDE DEF r
  <2>4. Book!Total(U \ {z}) = y.amount + Book!Total(r)
    BY <1>6, <2>1 DEF P
  <2>5. Book!Total(U \ {y}) = z.amount + Book!Total(r)
    BY <2>1, <2>2 DEF P
  <2>6. y.amount \in Int /\ Book!Total(r) \in Int
    BY <1>2, <2>3 DEF P
  <2> QED
    BY <1>5, <2>4, <2>5, <2>6
<1> QED
  BY <1>2, <1>5, <1>7, <1>8 DEF P

LEMMA NetEmpty == \A a : Book!Net({}, a) = 0
<1>1. Book!Total({}) = 0
  BY TotalPick, FS_EmptySet
<1>2. \A a : {t \in {} : t.target = a} = {} /\ {t \in {} : t.source = a} = {}
  OBVIOUS
<1> QED
  BY <1>1, <1>2 DEF Book!Net

LEMMA TotalAdd ==
  ASSUME NEW T, IsFiniteSet(T), \A t \in T : t.amount \in Int, NEW x, x \notin T, x.amount \in Int
  PROVE  Book!Total(T) \in Int /\ Book!Total(T \union {x}) = Book!Total(T) + x.amount
<1> DEFINE U == T \union {x}
<1>1. IsFiniteSet(U) /\ \A t \in U : t.amount \in Int
  BY FS_AddElement
<1>2. U \in SUBSET U /\ x \in U /\ U \ {x} = T
  OBVIOUS
<1>3. T \in SUBSET U
  OBVIOUS
<1> HIDE DEF U
<1>4. Book!Total(U) = x.amount + Book!Total(U \ {x}) /\ Book!Total(T) \in Int
  BY <1>1, <1>2, <1>3, TotalRemove
<1>5. Book!Total(U) = x.amount + Book!Total(T)
  BY ONLY <1>2, <1>4
<1>6. Book!Total(U) = Book!Total(T) + x.amount
  BY <1>4, <1>5
<1> QED
  BY <1>4, <1>6 DEF U

(* One more double entry moves the balance of its two accounts and no      *)
(* other.                                                                  *)
LEMMA NetAdd ==
  ASSUME NEW T, IsFiniteSet(T), T \subseteq Postings, NEW x \in Postings, x \notin T,
         x.source # x.target, NEW a \in Accounts
  PROVE  /\ Book!Net(T, a) \in Int
         /\ Book!Net(T \union {x}, a) = CASE a = x.source -> Book!Net(T, a) - x.amount
                                          [] a = x.target -> Book!Net(T, a) + x.amount
                                          [] OTHER -> Book!Net(T, a)
<1> DEFINE in == {t \in T : t.target = a}
           out == {t \in T : t.source = a}
           inX == {t \in T \union {x} : t.target = a}
           outX == {t \in T \union {x} : t.source = a}
<1>1. \A t \in T \union {x} : t.amount \in Int
  BY DEF Postings
<1>2. /\ IsFiniteSet(in) /\ IsFiniteSet(out) /\ x \notin in /\ x \notin out
      /\ (\A t \in in : t.amount \in Int) /\ (\A t \in out : t.amount \in Int) /\ x.amount \in Int
  <2>1. in \in SUBSET T /\ out \in SUBSET T
    OBVIOUS
  <2>2. IsFiniteSet(in) /\ IsFiniteSet(out)
    BY <2>1, FS_Subset
  <2>3. (\A t \in in : t.amount \in Int) /\ (\A t \in out : t.amount \in Int) /\ x.amount \in Int
    BY <1>1, <2>1
  <2>4. x \notin in /\ x \notin out
    BY <2>1
  <2> QED
    BY <2>2, <2>3, <2>4
<1>3. inX = IF a = x.target THEN in \union {x} ELSE in
  OBVIOUS
<1>4. outX = IF a = x.source THEN out \union {x} ELSE out
  OBVIOUS
<1>5. Book!Net(T, a) = Book!Total(in) - Book!Total(out)
      /\ Book!Net(T \union {x}, a) = Book!Total(inX) - Book!Total(outX)
  BY DEF Book!Net
<1> HIDE DEF in, out, inX, outX
<1>6. /\ Book!Total(in) \in Int /\ Book!Total(in \union {x}) = Book!Total(in) + x.amount
      /\ Book!Total(out) \in Int /\ Book!Total(out \union {x}) = Book!Total(out) + x.amount
  BY <1>2, TotalAdd
<1> QED
  BY <1>2, <1>3, <1>4, <1>5, <1>6
-----------------------------------------------------------------------------
(* The wallet book.  What a session has written is at every moment a group *)
(* that the book would post if the session committed now.                  *)

Group(s) ==
  /\ IsFiniteSet(mine[s])
  /\ \A t, u \in mine[s] : t.key = u.key => t = u
  /\ Keys(mine[s]) \cap Keys(ledger) = {}
  /\ \A t \in mine[s] : PayerHeld(s, t.source)
  /\ pc[s] = "apply" => PayerHeld(s, Cur(s).source)
  /\ \A a \in Accounts : delta[s][a] = Book!Net(mine[s], a)

(* Two sessions never write under one key.                                 *)
LEMMA GroupsDisjoint ==
  ASSUME TypeOK, Ownership, NEW r \in Sessions, NEW s \in Sessions, r # s
  PROVE  Keys(mine[r]) \cap Keys(mine[s]) = {}
<1> SUFFICES ASSUME NEW x \in mine[r], NEW y \in mine[s], x.key = y.key PROVE FALSE
  BY DEF Keys
<1>1. /\ Ordered(x) /\ accLock[x.source] = r /\ accLock[x.target] = r
      /\ Ordered(y) /\ accLock[y.source] = s /\ accLock[y.target] = s
  BY DEF Ownership
<1>2. PICK j \in Jobs : \E i \in 1..Len(j) : x = Posting(j[i])
  BY <1>1 DEF Ordered
<1>3. PICK k \in Jobs : \E n \in 1..Len(k) : y = Posting(k[n])
  BY <1>1 DEF Ordered
<1>4. PICK i \in 1..Len(j) : x = Posting(j[i])
  BY <1>2
<1>5. PICK n \in 1..Len(k) : y = Posting(k[n])
  BY <1>3
<1>6. /\ x.key = j[i].key /\ x.source = j[i].source /\ x.target = j[i].target
      /\ y.key = k[n].key /\ y.source = k[n].source /\ y.target = k[n].target
  BY <1>4, <1>5 DEF Posting
<1>7. {x.source, x.target} \cap {y.source, y.target} # {}
  BY <1>6, KeyAssumption
<1> QED
  BY <1>1, <1>7

LEMMA GroupFrame ==
  ASSUME TypeOK, Ownership, NEW r \in Sessions, Group(r), SameFor(r),
         \A o \in Orgs : orgLock[o] = r => orgLock'[o] = r /\ status'[o] = status[o],
         Keys(ledger') \cap Keys(mine[r]) = {}
  PROVE  Group(r)'
<1>1. Cur(r)' = Cur(r)
  BY DEF SameFor, Cur
<1>2. \A o : PayerHeld(r, o) => PayerHeld(r, o)'
  BY DEF PayerHeld
<1>3. \A t \in mine'[r] : PayerHeld(r, t.source)'
  BY <1>2 DEF Group, SameFor
<1>4. pc'[r] = "apply" => PayerHeld(r, Cur(r).source)'
  <2>1. pc'[r] = "apply" => PayerHeld(r, Cur(r).source)
    BY DEF Group, SameFor
  <2>2. PayerHeld(r, Cur(r).source) /\ Cur(r).source \in Orgs =>
          orgLock'[Cur(r).source] = r /\ status'[Cur(r).source] = "active"
    BY DEF PayerHeld
  <2> QED
    BY <1>1, <2>1, <2>2 DEF PayerHeld
<1>5. \A a \in Accounts : delta'[r][a] = Book!Net(mine'[r], a)
  BY DEF Group, SameFor
<1>6. IsFiniteSet(mine'[r]) /\ (\A t, u \in mine'[r] : t.key = u.key => t = u)
      /\ Keys(mine'[r]) \cap Keys(ledger') = {}
  BY DEF Group, SameFor
<1> QED
  BY <1>1, <1>3, <1>4, <1>5, <1>6 DEF Group

(* A statement that writes nothing and is not about to write.              *)
LEMMA GroupStays ==
  ASSUME NEW s \in Sessions, Group(s), mine'[s] = mine[s], delta'[s] = delta[s], ledger' = ledger,
         status' = status, \A o \in Orgs : orgLock[o] = s => orgLock'[o] = s,
         pc'[s] = "apply" => PayerHeld(s, Cur(s).source)'
  PROVE  Group(s)'
<1>1. \A t \in mine'[s] : PayerHeld(s, t.source)'
  BY DEF Group, PayerHeld
<1>2. \A a \in Accounts : delta'[s][a] = Book!Net(mine'[s], a)
  BY DEF Group
<1>3. IsFiniteSet(mine'[s]) /\ (\A t, u \in mine'[s] : t.key = u.key => t = u)
      /\ Keys(mine'[s]) \cap Keys(ledger') = {}
  BY DEF Group
<1> QED
  BY <1>1, <1>2, <1>3 DEF Group

LEMMA GroupStarts ==
  ASSUME TypeOK, NEW s \in Sessions, Release(s)
  PROVE  Group(s)'
<1>1. mine'[s] = {} /\ pc'[s] = "idle" /\ \A a \in Accounts : delta'[s][a] = 0
  BY DEF Release, TypeOK, NoDelta
<1> QED
  BY <1>1, NetEmpty, FS_EmptySet DEF Group, Keys

LEMMA GroupGrows ==
  ASSUME TypeOK, Ownership, KeysFresh, NEW s \in Sessions, Group(s), Apply(s)
  PROVE  Group(s)'
<1> DEFINE x == Posting(Cur(s))
<1>0. /\ pc[s] = "apply" /\ pos[s] \in 1..Len(job[s]) /\ pc'[s] = "check"
      /\ mine'[s] = mine[s] \union {x} /\ UNCHANGED <<ledger, status, orgLock>>
  BY DEF Apply, Running, GoTo, TypeOK
<1>1. /\ x \in Postings /\ x.source = Cur(s).source /\ x.target = Cur(s).target
      /\ x.amount = Cur(s).amount /\ x.key = Cur(s).key /\ x.source # x.target
  BY <1>0, CurIsTransfer DEF Posting
<1>2. \A a \in Accounts :
        delta'[s][a] = CASE a = x.source -> delta[s][a] - x.amount
                         [] a = x.target -> delta[s][a] + x.amount
                         [] OTHER -> delta[s][a]
  BY <1>1 DEF Apply, TypeOK
<1>3. x.key \notin Keys(ledger) /\ x.key \notin Keys(mine[s])
  BY <1>0, <1>1 DEF KeysFresh, PaidStates
<1> HIDE DEF x
<1>4. x \notin mine[s] /\ IsFiniteSet(mine[s]) /\ mine[s] \subseteq Postings
  BY <1>3 DEF Keys, Group, TypeOK
<1>5. \A a \in Accounts : delta'[s][a] = Book!Net(mine'[s], a)
  <2> TAKE a \in Accounts
  <2>1. Book!Net(mine[s] \union {x}, a) = CASE a = x.source -> Book!Net(mine[s], a) - x.amount
                                            [] a = x.target -> Book!Net(mine[s], a) + x.amount
                                            [] OTHER -> Book!Net(mine[s], a)
    BY <1>1, <1>4, NetAdd
  <2>2. delta[s][a] = Book!Net(mine[s], a)
    BY DEF Group
  <2> QED
    BY <1>0, <1>2, <2>1, <2>2
<1>6. IsFiniteSet(mine'[s])
  BY <1>0, <1>4, FS_AddElement
<1>7. \A t, u \in mine'[s] : t.key = u.key => t = u
  BY <1>0, <1>3 DEF Group, Keys
<1>8. Keys(mine'[s]) \cap Keys(ledger') = {}
  BY <1>0, <1>3 DEF Group, Keys
<1>9. \A t \in mine'[s] : PayerHeld(s, t.source)'
  <2>1. PayerHeld(s, x.source)
    BY <1>0, <1>1 DEF Group
  <2>2. \A t \in mine'[s] : PayerHeld(s, t.source)
    BY <1>0, <2>1 DEF Group
  <2> QED
    BY <1>0, <2>2 DEF PayerHeld
<1> QED
  BY <1>0, <1>5, <1>6, <1>7, <1>8, <1>9 DEF Group

LEMMA GroupStep ==
  ASSUME TypeOK, Ownership, KeysFresh, NEW s \in Sessions, Group(s), SessionStep(s)
  PROVE  Group(s)'
<1>1. CASE Begin(s) \/ CheckKey(s) \/ LockAccount(s)
  <2>1. UNCHANGED <<mine, delta, ledger, status, orgLock>>
    BY <1>1 DEF Begin, CheckKey, LockAccount
  <2>2. pc'[s] # "apply"
    BY <1>1 DEF Begin, CheckKey, LockAccount, GoTo, Running, TypeOK
  <2> QED
    BY <2>1, <2>2, GroupStays
<1>2. CASE Recheck(s)
  <2>1. UNCHANGED <<mine, delta, ledger, status, orgLock, job>>
    BY <1>2 DEF Recheck
  <2>2. pc'[s] = "apply" => pos' = pos /\ Cur(s).source = System
    BY <1>2 DEF Recheck, GoTo, TypeOK
  <2>3. pc'[s] = "apply" => PayerHeld(s, Cur(s).source)'
    BY <2>1, <2>2, SystemAssumption DEF PayerHeld, Cur
  <2> QED
    BY <2>1, <2>3, GroupStays
<1>3. CASE LockOrg(s)
  <2>1. UNCHANGED <<mine, delta, ledger, status, job, pos>> /\ Cur(s)' = Cur(s)
    BY <1>3 DEF LockOrg, Cur
  <2>2. orgLock' = [orgLock EXCEPT ![Cur(s).source] = s] /\ status[Cur(s).source] = "active"
    BY <1>3 DEF LockOrg, OrgActive
  <2>3. PayerHeld(s, Cur(s).source)' /\ \A o \in Orgs : orgLock[o] = s => orgLock'[o] = s
    BY <2>1, <2>2 DEF PayerHeld, TypeOK
  <2> QED
    BY <2>1, <2>3, GroupStays
<1>4. CASE HoldItem(s)
  <2>1. /\ UNCHANGED <<mine, delta, ledger, status>> /\ pc'[s] = "check"
        /\ orgLock' = [orgLock EXCEPT ![Cur(s).source] = s]
    BY <1>4 DEF HoldItem, GoTo, TypeOK
  <2>2. \A o \in Orgs : orgLock[o] = s => orgLock'[o] = s
    BY <2>1 DEF TypeOK
  <2> QED
    BY <2>1, <2>2, GroupStays
<1>5. CASE Apply(s)
  BY <1>5, GroupGrows
<1>6. CASE RefuseAmount(s) \/ Refuse(s) \/ Commit(s) \/ Disconnect(s) \/ DeadlockAbort(s)
  <2>1. Release(s)
    BY <1>6 DEF RefuseAmount, Refuse, Commit, Disconnect, DeadlockAbort, Rollback
  <2> QED
    BY <2>1, GroupStarts
<1>7. CASE Prepares(s)
  <2>1. /\ UNCHANGED <<mine, delta, ledger, status, orgLock>> /\ pc'[s] # "apply"
    BY <1>7, PreparesKeeps
  <2> QED
    BY <2>1, GroupStays
<1> QED
  BY <1>1, <1>2, <1>3, <1>4, <1>5, <1>6, <1>7 DEF SessionStep, Statement, Prepares

LEMMA GroupInit == Init => OneGroup
BY NetEmpty, FS_EmptySet DEF Init, OneGroup, Keys, NoDelta

LEMMA GroupNext == TypeOK /\ Ownership /\ KeysFresh /\ OneGroup /\ [Next]_vars => OneGroup'
<1> SUFFICES ASSUME TypeOK, Ownership, KeysFresh, OneGroup, [Next]_vars, NEW r \in Sessions
             PROVE  Group(r)'
  BY DEF OneGroup, Group
<1>1. Group(r)
  BY DEF OneGroup, Group
<1>2. ASSUME NEW s \in Sessions, SessionStep(s) PROVE Group(r)'
  <2>1. CASE r = s
    BY <1>1, <1>2, <2>1, GroupStep
  <2>2. CASE r # s
    <3>1. SameFor(r)
      BY <1>2, <2>2, Frame
    <3>2. \A o \in Orgs : orgLock[o] = r => orgLock'[o] = r /\ status'[o] = status[o]
      BY <1>2, <2>2, OrgFrame, LedgerStep
    <3>3. Keys(ledger') \cap Keys(mine[r]) = {}
      <4>1. ledger' \subseteq ledger \union mine[s]
        BY <1>2, LedgerStep
      <4>2. Keys(mine[r]) \cap Keys(mine[s]) = {}
        BY <2>2, GroupsDisjoint
      <4> QED
        BY <1>1, <4>1, <4>2 DEF Group, Keys
    <3> QED
      BY <1>1, <3>1, <3>2, <3>3, GroupFrame
  <2> QED
    BY <2>1, <2>2
<1>3. ASSUME NEW o \in Orgs, SetStatus(o) PROVE Group(r)'
  <2>1. SameFor(r) /\ UNCHANGED <<orgLock, ledger>> /\ orgLock[o] # r
    BY <1>3, SessionAssumption DEF SetStatus, SameFor
  <2>2. \A p \in Orgs : orgLock[p] = r => orgLock'[p] = r /\ status'[p] = status[p]
    BY <1>3, <2>1 DEF SetStatus, TypeOK
  <2>3. Keys(ledger') \cap Keys(mine[r]) = {}
    BY <1>1, <2>1 DEF Group
  <2> QED
    BY <1>1, <2>1, <2>2, <2>3, GroupFrame
<1>4. CASE UNCHANGED vars
  <2>1. SameFor(r) /\ UNCHANGED <<orgLock, ledger, status>>
    BY <1>4 DEF vars, SameFor
  <2>2. Keys(ledger') \cap Keys(mine[r]) = {}
    BY <1>1, <2>1 DEF Group
  <2> QED
    BY <1>1, <2>1, <2>2, GroupFrame
<1> QED
  BY <1>2, <1>3, <1>4 DEF Next, SessionStep

-----------------------------------------------------------------------------
(* Every step of the sessions is a step of the wallet book or none.        *)

(* A session writes only what its job asks for.                            *)
WritesItsJob == \A s \in Sessions : mine[s] \subseteq PostingsOf(job[s]) /\ (pc[s] = "idle" => mine[s] = {})

LEMMA WritesInit == Init => WritesItsJob
BY DEF Init, WritesItsJob

LEMMA WritesNext == TypeOK /\ WritesItsJob /\ [Next]_vars => WritesItsJob'
<1> SUFFICES ASSUME TypeOK, WritesItsJob, [Next]_vars, NEW r \in Sessions
             PROVE  mine'[r] \subseteq PostingsOf(job'[r]) /\ (pc'[r] = "idle" => mine'[r] = {})
  BY DEF WritesItsJob, PostingsOf, Posting
<1>1. mine[r] \subseteq PostingsOf(job[r]) /\ (pc[r] = "idle" => mine[r] = {})
  BY DEF WritesItsJob
<1>2. CASE SameFor(r)
  BY <1>1, <1>2 DEF SameFor
<1>3. ASSUME SessionStep(r)
      PROVE  mine'[r] \subseteq PostingsOf(job'[r]) /\ (pc'[r] = "idle" => mine'[r] = {})
  <2>1. CASE Begin(r)
    <3>1. mine[r] = {} /\ mine' = mine
      BY <1>1, <2>1 DEF Begin
    <3> QED
      BY <3>1
  <2>2. CASE CheckKey(r) \/ LockAccount(r) \/ Recheck(r) \/ LockOrg(r) \/ HoldItem(r)
    <3>1. UNCHANGED <<mine, job>> /\ pc'[r] # "idle"
      BY <2>2 DEF CheckKey, LockAccount, Recheck, LockOrg, HoldItem, GoTo, Running, TypeOK
    <3> QED
      BY <1>1, <3>1
  <2>3. CASE Apply(r)
    <3>1. /\ pos[r] \in 1..Len(job[r]) /\ mine'[r] = mine[r] \union {Posting(Cur(r))}
          /\ job' = job /\ pc'[r] = "check"
      BY <2>3 DEF Apply, Running, GoTo, TypeOK
    <3>2. Posting(Cur(r)) \in PostingsOf(job[r])
      BY <3>1 DEF PostingsOf, Cur
    <3> QED
      BY <1>1, <3>1, <3>2
  <2>4. CASE RefuseAmount(r) \/ Refuse(r) \/ Commit(r) \/ Disconnect(r) \/ DeadlockAbort(r)
    <3>1. Release(r)
      BY <2>4 DEF RefuseAmount, Refuse, Commit, Disconnect, DeadlockAbort, Rollback
    <3>2. mine'[r] = {}
      BY <3>1 DEF Release, TypeOK
    <3> QED
      BY <3>2
  <2>5. CASE Prepares(r)
    BY <1>1, <2>5, PreparesKeeps
  <2> QED
    BY <1>3, <2>1, <2>2, <2>3, <2>4, <2>5 DEF SessionStep, Statement, Prepares
<1>4. ASSUME NEW s \in Sessions, SessionStep(s), s # r PROVE SameFor(r)
  BY <1>4, Frame
<1>5. CASE UNCHANGED <<accLock, pc, job, pos, sb, delta, mine>>
  BY <1>1, <1>5
<1> QED
  BY <1>2, <1>3, <1>4, <1>5 DEF Next, SessionStep, SetStatus, vars

LEMMA CommitPosts ==
  ASSUME TypeOK, ReadsHold, OneGroup, WritesItsJob, NEW s \in Sessions, Commit(s)
  PROVE  [Book!Next]_(Book!vars)
<1> DEFINE T == mine[s]
<1>1. /\ ledger' = ledger \union T /\ status' = status
      /\ balance' = [a \in Accounts |-> balance[a] + delta[s][a]]
  BY DEF Commit
<1>2. \A a \in Accounts : delta[s][a] = Book!Net(T, a) /\ delta[s][a] \in Int /\ balance[a] \in Int
  BY DEF OneGroup, TypeOK
<1>3. CASE T = {}
  <2>1. \A a \in Accounts : balance'[a] = balance[a]
    BY <1>1, <1>2, <1>3, NetEmpty
  <2>2. balance' = balance
    BY <1>1, <2>1 DEF TypeOK
  <2> QED
    BY <1>1, <1>3, <2>2 DEF Book!vars
<1>4. CASE T # {}
  <2>1. T \subseteq PostingsOf(job[s])
    BY DEF WritesItsJob
  <2>2. job[s] \in Jobs
    <3>1. PICK x : x \in PostingsOf(job[s])
      BY <1>4, <2>1
    <3>2. job[s] # <<>>
      BY <3>1 DEF PostingsOf
    <3> QED
      BY <3>2 DEF TypeOK
  <2>3. T \in SUBSET PostingsOf(job[s]) /\ PostingsOf(job[s]) \in Orders
    BY <2>1, <2>2 DEF Orders
  <2>4. /\ \A t, u \in T : t.key = u.key => t = u
        /\ \A t \in T, u \in ledger : t.key # u.key
        /\ \A t \in T : t.source \in Orgs => status[t.source] = "active"
    BY DEF OneGroup, Keys, PayerHeld
  <2>5. balance' = [a \in Book!Accounts |-> balance[a] + Book!Net(T, a)]
    BY <1>1, <1>2 DEF Book!Accounts
  <2>6. \A o \in Orgs : balance'[o] >= -CreditLimit[o]
    BY <1>1 DEF ReadsHold
  <2> HIDE DEF T
  <2>7. Book!Post(T)
    BY <1>1, <1>4, <2>4, <2>5, <2>6 DEF Book!Post
  <2> QED
    BY <2>3, <2>7 DEF Book!Next
<1> QED
  BY <1>3, <1>4

LEMMA BookInit == Init => Book!Init
BY DEF Init, NoDelta, Book!Init, Book!Accounts

LEMMA BookNext ==
  TypeOK /\ ReadsHold /\ OneGroup /\ WritesItsJob /\ [Next]_vars => [Book!Next]_(Book!vars)
<1> SUFFICES ASSUME TypeOK, ReadsHold, OneGroup, WritesItsJob, [Next]_vars
             PROVE  [Book!Next]_(Book!vars)
  OBVIOUS
<1>1. ASSUME NEW s \in Sessions, SessionStep(s) PROVE [Book!Next]_(Book!vars)
  <2>1. CASE Commit(s)
    BY <2>1, CommitPosts
  <2>2. CASE ~Commit(s)
    BY <1>1, <2>2, LedgerStep DEF Book!vars
  <2> QED
    BY <2>1, <2>2
<1>2. ASSUME NEW o \in Orgs, SetStatus(o) PROVE [Book!Next]_(Book!vars)
  <2>1. Book!Toggle(o)
    BY <1>2 DEF SetStatus, Book!Toggle
  <2> QED
    BY <2>1 DEF Book!Next
<1>3. CASE UNCHANGED vars
  BY <1>3 DEF vars, Book!vars
<1> QED
  BY <1>1, <1>2, <1>3 DEF Next, SessionStep

(* Concurrent sessions with their locks, key lookups and aborts keep the   *)
(* wallet's promise: whoever looks at committed rows only sees groups of   *)
(* double entries posted at once, under new keys, paid by active           *)
(* organizations within their credit.                                      *)
THEOREM LedgerRefinesBook == Spec => ImplementsWalletBook
<1>1. Spec => []ReadsHold
  BY LedgerTypeOK, LedgerOwnership, ReadsInit, ReadsNext, PTL DEF Spec
<1>2. Spec => []KeysFresh
  BY LedgerTypeOK, LedgerOwnership, KeysFreshInit, KeysFreshNext, PTL DEF Spec
<1>3. Spec => []OneGroup
  BY LedgerTypeOK, LedgerOwnership, <1>2, GroupInit, GroupNext, PTL DEF Spec
<1>4. Spec => []WritesItsJob
  BY LedgerTypeOK, WritesInit, WritesNext, PTL DEF Spec
<1> QED
  BY LedgerTypeOK, <1>1, <1>3, <1>4, BookInit, BookNext, PTL DEF Spec, ImplementsWalletBook, Book!Spec
=============================================================================
