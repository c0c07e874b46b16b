------------------------------- MODULE Ledger -------------------------------
(***************************************************************************)
(* The wallet ledger under concurrent database sessions: transfer() of     *)
(* app.py as the sequence of SQL statements it issues, run by API workers, *)
(* the billing worker and the Telegram consumers at once, each in a READ   *)
(* COMMITTED transaction of PostgreSQL.                                    *)
(*                                                                         *)
(* A job is the list of transfers one database transaction makes: one for  *)
(* a funding or an adjustment, one per parent edge for an observed usage,  *)
(* several cascades in a row for a usage batch.  A statement that waits    *)
(* for a row lock is a step that is disabled until the row is free; what a *)
(* session wrote is visible to it alone until it commits.                  *)
(***************************************************************************)
EXTENDS Integers, Sequences, FiniteSets

CONSTANTS
  Orgs,         \* organizations; each owns one wallet account
  System,       \* owner of the SYSTEM account, the other side of fundings
  CreditLimit,  \* organizations.credit_limit_irr, set once at creation
  Switched,     \* those the root administrator suspends and activates
  Rank,         \* order of accounts.id, by which rows are locked
  Jobs,         \* what a database transaction may be asked to transfer
  Rows,         \* checkpoints, requests, corrections and orders: what callers lock
  NoRow,        \* what a caller locks that locks nothing
  Sessions,     \* concurrent database sessions
  NoSession     \* the owner of a row nobody has locked

Accounts == Orgs \union {System}

(* One call of transfer().  hold is what its caller does about             *)
(* "insufficient credit": 0 when the caller rolls back, otherwise the      *)
(* position in the job at which the batch goes on with the next            *)
(* observation.  Only SYSTEM pays without a credit check (enforce=False).  *)
(* row is the row its caller locks before it, and refs the organizations   *)
(* its caller has referred to in an INSERT by then (the approval of an     *)
(* order creates an organization, its closure and its contract first).     *)
Transfer == [source: Accounts, target: Accounts, amount: Nat, key: STRING, hold: Nat,
             row: Rows \union {NoRow}, refs: SUBSET Orgs]

ASSUME SystemAssumption == System \notin Orgs
ASSUME SessionAssumption == NoSession \notin Sessions
ASSUME RowAssumption == NoRow \notin Rows
ASSUME LimitAssumption == CreditLimit \in [Orgs -> Nat]
ASSUME RankAssumption ==
  /\ Rank \in [Accounts -> Nat]
  /\ \A a, b \in Accounts : Rank[a] = Rank[b] => a = b
ASSUME JobAssumption ==
  /\ Jobs \subseteq Seq(Transfer)
  /\ \A j \in Jobs : \A i \in 1..Len(j) :
       /\ j[i].source # j[i].target
       /\ j[i].hold # 0 => j[i].hold \in (i + 1)..(Len(j) + 1)
(* Callers derive the key from what is settled (usage:, approval:,         *)
(* funding-request:, panel-order:) or take it from the client of /fund,    *)
(* whose source is always SYSTEM: equal keys share an account row.         *)
ASSUME KeyAssumption ==
  \A j, k \in Jobs : \A i \in 1..Len(j), n \in 1..Len(k) :
    j[i].key = k[n].key =>
      {j[i].source, j[i].target} \cap {k[n].source, k[n].target} # {}

VARIABLES
  balance,   \* accounts.balance_irr, committed
  ledger,    \* committed rows of transactions with their two entries
  status,    \* organizations.status, committed
  accLock,   \* session holding the FOR UPDATE lock of an account row
  orgLock,   \* session holding the FOR UPDATE lock of an organization row
  rowLock,   \* session holding the FOR UPDATE lock of a caller's row
  orgShare,  \* sessions holding a FOR KEY SHARE lock of an organization row
  pc,        \* next statement of a session
  job,       \* the transfers its transaction makes
  pos,       \* the one it is at
  sb,        \* source balance as read by the current transfer
  delta,     \* its uncommitted balance updates
  mine       \* its uncommitted transactions rows

dbVars == <<balance, ledger, status>>
vars == <<balance, ledger, status, accLock, orgLock, rowLock, orgShare, pc, job, pos, sb, delta, mine>>

Posting(t) == [source |-> t.source, target |-> t.target, amount |-> t.amount, key |-> t.key]
Postings == [source: Accounts, target: Accounts, amount: Nat, key: STRING]
PostingsOf(j) == {Posting(j[i]) : i \in 1..Len(j)}
Keys(T) == {t.key : t \in T}
NoDelta == [a \in Accounts |-> 0]

Cur(s) == job[s][pos[s]]
Running(s, p) == pc[s] = p /\ pos[s] \in 1..Len(job[s])

(* Fault: the key is not looked up again once the rows are locked.         *)
KeySeenOnce(s) == pc[s] = "check" /\ Cur(s).key \in Keys(ledger) \union Keys(mine[s])

(* A SELECT on transactions sees committed rows and the session's own.     *)
KeySeen(s) == Cur(s).key \in Keys(ledger) \union Keys(mine[s])

(* Fault: the account rows are read without FOR UPDATE.                    *)
NoneNeeded(s) == {}

(* Account rows of the current transfer that the session has yet to lock,  *)
(* taken in the order of their ids.                                        *)
Needed(s) == {a \in {Cur(s).source, Cur(s).target} : accLock[a] # s}
(* Fault: the payer's row first instead of the lower id first.             *)
PayerRowFirst(s) ==
  IF Cur(s).source \in Needed(s) THEN Cur(s).source ELSE Cur(s).target
NextRow(s) == CHOOSE a \in Needed(s) : \A b \in Needed(s) : Rank[a] <= Rank[b]

-----------------------------------------------------------------------------

Init ==
  /\ balance = NoDelta
  /\ ledger = {}
  /\ status = [o \in Orgs |-> "active"]
  /\ accLock = [a \in Accounts |-> NoSession]
  /\ orgLock = [o \in Orgs |-> NoSession]
  /\ rowLock = [r \in Rows |-> NoSession]
  /\ orgShare = [o \in Orgs |-> {}]
  /\ pc = [s \in Sessions |-> "idle"]
  /\ job = [s \in Sessions |-> <<>>]
  /\ pos = [s \in Sessions |-> 0]
  /\ sb = [s \in Sessions |-> 0]
  /\ delta = [s \in Sessions |-> NoDelta]
  /\ mine = [s \in Sessions |-> {}]

(* A request or a poll opens a transaction.                                *)
Begin(s) ==
  /\ pc[s] = "idle"
  /\ \E j \in Jobs :
       /\ j # <<>>
       /\ job' = [job EXCEPT ![s] = j]
  /\ pos' = [pos EXCEPT ![s] = 1]
  /\ pc' = [pc EXCEPT ![s] = "check"]
  /\ UNCHANGED <<balance, ledger, status, accLock, orgLock, sb, delta, mine, rowLock, orgShare>>

(* End of a transaction: every row lock is released and the session's      *)
(* private state is dropped.                                               *)
Release(s) ==
  /\ accLock' = [a \in Accounts |-> IF accLock[a] = s THEN NoSession ELSE accLock[a]]
  /\ orgLock' = [o \in Orgs |-> IF orgLock[o] = s THEN NoSession ELSE orgLock[o]]
  /\ rowLock' = [r \in Rows |-> IF rowLock[r] = s THEN NoSession ELSE rowLock[r]]
  /\ orgShare' = [o \in Orgs |-> orgShare[o] \ {s}]
  /\ pc' = [pc EXCEPT ![s] = "idle"]
  /\ job' = [job EXCEPT ![s] = <<>>]
  /\ pos' = [pos EXCEPT ![s] = 0]
  /\ sb' = [sb EXCEPT ![s] = 0]
  /\ delta' = [delta EXCEPT ![s] = NoDelta]
  /\ mine' = [mine EXCEPT ![s] = {}]

(* Fault: a refused transfer commits what the transaction wrote before it. *)
CommitInstead(s) ==
  /\ Release(s)
  /\ balance' = [a \in Accounts |-> balance[a] + delta[s][a]]
  /\ ledger' = ledger \union mine[s]
  /\ UNCHANGED status

Rollback(s) == Release(s) /\ UNCHANGED dbVars

GoTo(s, n) ==
  /\ pos' = [pos EXCEPT ![s] = n]
  /\ pc' = [pc EXCEPT ![s] = "check"]

(* What the caller does before transfer() looks at the key: it has its row *)
(* locked, and the INSERTs it has made (flushed by itself or, at the       *)
(* latest, by transfer) keep the rows they refer to from being deleted or  *)
(* given another key: a lock that goes with others of its kind and with an *)
(* ordinary UPDATE, but not with FOR UPDATE.                               *)
RowWanted(s) == Cur(s).row # NoRow /\ rowLock[Cur(s).row] # s
Unshared(s) == {o \in Cur(s).refs : s \notin orgShare[o]}

LockRow(s) ==
  /\ Running(s, "check")
  /\ RowWanted(s)
  /\ rowLock[Cur(s).row] = NoSession
  /\ rowLock' = [rowLock EXCEPT ![Cur(s).row] = s]
  /\ UNCHANGED <<balance, ledger, status, accLock, orgLock, orgShare, pc, job, pos, sb, delta, mine>>

ShareOrg(s) ==
  /\ Running(s, "check")
  /\ ~RowWanted(s)
  /\ \E o \in Unshared(s) :
       /\ orgLock[o] \in {s, NoSession}
       /\ orgShare' = [orgShare EXCEPT ![o] = @ \union {s}]
  /\ UNCHANGED <<balance, ledger, status, accLock, orgLock, rowLock, pc, job, pos, sb, delta, mine>>

(* transfer() starts: a known key returns the existing transaction, and an *)
(* amount that is not positive is refused before anything is locked.       *)
CheckKey(s) ==
  /\ Running(s, "check")
  /\ ~RowWanted(s)
  /\ Unshared(s) = {}
  /\ Cur(s).amount > 0
  /\ IF KeySeen(s)
       THEN GoTo(s, pos[s] + 1)
       ELSE pc' = [pc EXCEPT ![s] = "lock"] /\ UNCHANGED pos
  /\ UNCHANGED <<balance, ledger, status, accLock, orgLock, job, sb, delta, mine, rowLock, orgShare>>

RefuseAmount(s) ==
  /\ Running(s, "check")
  /\ ~RowWanted(s)
  /\ Cur(s).amount <= 0
  /\ Rollback(s)

LockAccount(s) ==
  /\ Running(s, "lock")
  /\ Needed(s) # {}
  /\ accLock[NextRow(s)] = NoSession
  /\ accLock' = [accLock EXCEPT ![NextRow(s)] = s]
  /\ UNCHANGED <<balance, ledger, status, orgLock, pc, job, pos, sb, delta, mine, rowLock, orgShare>>

(* Both rows are locked: look for the key again, then read the balance.    *)
Recheck(s) ==
  /\ Running(s, "lock")
  /\ Needed(s) = {}
  /\ IF KeySeen(s)
       THEN GoTo(s, pos[s] + 1) /\ UNCHANGED sb
       ELSE /\ sb' = [sb EXCEPT ![s] = balance[Cur(s).source] + delta[s][Cur(s).source]]
            /\ pc' = [pc EXCEPT ![s] = IF Cur(s).source = System THEN "apply" ELSE "org"]
            /\ UNCHANGED pos
  /\ UNCHANGED <<balance, ledger, status, accLock, orgLock, job, delta, mine, rowLock, orgShare>>

(* The paying organization's row, locked FOR UPDATE and read afresh.       *)
OrgRowFree(s) ==
  /\ orgLock[Cur(s).source] \in {s, NoSession}
  /\ orgShare[Cur(s).source] \subseteq {s}
(* Fault: the status check is dropped.                                     *)
AnyStatus(s) == TRUE
OrgActive(s) == status[Cur(s).source] = "active"
CoveredBy(s) == sb[s] + CreditLimit[Cur(s).source] >= Cur(s).amount

LockOrg(s) ==
  /\ Running(s, "org")
  /\ OrgRowFree(s)
  /\ OrgActive(s)
  /\ CoveredBy(s)
  /\ orgLock' = [orgLock EXCEPT ![Cur(s).source] = s]
  /\ pc' = [pc EXCEPT ![s] = "apply"]
  /\ UNCHANGED <<balance, ledger, status, accLock, job, pos, sb, delta, mine, rowLock, orgShare>>

(* "organization suspended", or "insufficient credit" met by a caller that *)
(* rolls back (usage, poll, adjustments).                                  *)
Refuse(s) ==
  /\ Running(s, "org")
  /\ OrgRowFree(s)
  /\ \/ ~OrgActive(s)
     \/ OrgActive(s) /\ ~CoveredBy(s) /\ Cur(s).hold = 0
  /\ Rollback(s)

(* Fault: the batch tries the refused observation again.                   *)
HoldItemAgain(s) ==
  /\ Running(s, "org")
  /\ OrgRowFree(s)
  /\ OrgActive(s)
  /\ ~CoveredBy(s)
  /\ Cur(s).hold # 0
  /\ orgLock' = [orgLock EXCEPT ![Cur(s).source] = s]
  /\ GoTo(s, pos[s])
  /\ UNCHANGED <<balance, ledger, status, accLock, rowLock, orgShare, job, sb, delta, mine>>

(* "insufficient credit" met by usage_batch, which keeps what it has       *)
(* written and goes on with the next observation.                          *)
HoldItem(s) ==
  /\ Running(s, "org")
  /\ OrgRowFree(s)
  /\ OrgActive(s)
  /\ ~CoveredBy(s)
  /\ Cur(s).hold # 0
  /\ orgLock' = [orgLock EXCEPT ![Cur(s).source] = s]
  /\ GoTo(s, Cur(s).hold)
  /\ UNCHANGED <<balance, ledger, status, accLock, job, sb, delta, mine, rowLock, orgShare>>

(* The two relative UPDATEs and the INSERT of the transaction's rows.      *)
Apply(s) ==
  /\ Running(s, "apply")
  /\ delta' = [delta EXCEPT ![s] = [a \in Accounts |->
       CASE a = Cur(s).source -> delta[s][a] - Cur(s).amount
         [] a = Cur(s).target -> delta[s][a] + Cur(s).amount
         [] OTHER -> delta[s][a]]]
  /\ mine' = [mine EXCEPT ![s] = @ \union {Posting(Cur(s))}]
  /\ GoTo(s, pos[s] + 1)
  /\ UNCHANGED <<balance, ledger, status, accLock, orgLock, job, sb, rowLock, orgShare>>

Commit(s) ==
  /\ pc[s] = "check"
  /\ pos[s] = Len(job[s]) + 1
  /\ balance' = [a \in Accounts |-> balance[a] + delta[s][a]]
  /\ ledger' = ledger \union mine[s]
  /\ Release(s)
  /\ UNCHANGED status

(* The process dies or loses its connection in the middle.                 *)
Disconnect(s) == pc[s] # "idle" /\ Rollback(s)

(* The session t holds a row that s waits for: the caller's row, one its   *)
(* INSERTs refer to, an account row, or the payer's row, which t may also  *)
(* have locked by referring to it.                                         *)
WaitsForShare(s, t) == t # s /\ Running(s, "org") /\ t \in orgShare[Cur(s).source]

WaitsFor(s, t) ==
  /\ t # s
  /\ \/ Running(s, "check") /\ RowWanted(s) /\ rowLock[Cur(s).row] = t
     \/ Running(s, "check") /\ ~RowWanted(s) /\ \E o \in Unshared(s) : orgLock[o] = t
     \/ Running(s, "lock") /\ Needed(s) # {} /\ accLock[NextRow(s)] = t
     \/ Running(s, "org") /\ orgLock[Cur(s).source] = t
     \/ WaitsForShare(s, t)

(* Every session of a wait cycle waits for another one of it.              *)
WaitCycle(C) ==
  \A s \in C : (\E t \in C : WaitsFor(s, t)) /\ (\E t \in C : WaitsFor(t, s))

(* PostgreSQL's deadlock detector aborts one transaction of a wait cycle.  *)
DeadlockAbort(s) ==
  /\ \E C \in SUBSET Sessions : s \in C /\ WaitCycle(C)
  /\ Rollback(s)

(* Fault: a third status value, which no reader of the row knows.          *)
Freeze(o) ==
  /\ o \in Switched
  /\ orgLock[o] = NoSession
  /\ status' = [status EXCEPT ![o] = IF @ = "active" THEN "frozen" ELSE "active"]
  /\ UNCHANGED <<balance, ledger, accLock, orgLock, pc, job, pos, sb, delta, mine, rowLock, orgShare>>

(* The root administrator suspends or reactivates an organization; the     *)
(* UPDATE waits for the row like any other writer.                         *)
SetStatus(o) ==
  /\ o \in Switched
  /\ orgLock[o] = NoSession
  /\ status' = [status EXCEPT ![o] = IF @ = "active" THEN "suspended" ELSE "active"]
  /\ UNCHANGED <<balance, ledger, accLock, orgLock, pc, job, pos, sb, delta, mine, rowLock, orgShare>>

Statement(s) ==
  \/ LockRow(s) \/ ShareOrg(s)
  \/ CheckKey(s) \/ RefuseAmount(s)
  \/ LockAccount(s) \/ Recheck(s)
  \/ LockOrg(s) \/ Refuse(s) \/ HoldItem(s)
  \/ Apply(s) \/ Commit(s)

Next ==
  \/ \E s \in Sessions : Begin(s) \/ Statement(s) \/ Disconnect(s) \/ DeadlockAbort(s)
  \/ \E o \in Orgs : SetStatus(o)

Spec == Init /\ [][Next]_vars

(* A connected session issues its next statement; a row is handed to its   *)
(* waiters in turn (PostgreSQL queues them), so a session that keeps       *)
(* finding the row free again gets it; the deadlock detector runs after    *)
(* deadlock_timeout.  Nothing obliges a client to send a request.  That a  *)
(* row shared by one session after another comes free at all is a matter   *)
(* of how many sessions there are: two of them always leave gaps.          *)
Fairness ==
  \A s \in Sessions : SF_vars(Statement(s)) /\ WF_vars(DeadlockAbort(s))

FairSpec == Spec /\ Fairness

-----------------------------------------------------------------------------

TypeOK ==
  /\ balance \in [Accounts -> Int]
  /\ ledger \subseteq Postings
  /\ status \in [Orgs -> {"active", "suspended"}]
  /\ accLock \in [Accounts -> Sessions \union {NoSession}]
  /\ orgLock \in [Orgs -> Sessions \union {NoSession}]
  /\ rowLock \in [Rows -> Sessions \union {NoSession}]
  /\ orgShare \in [Orgs -> SUBSET Sessions]
  /\ pc \in [Sessions -> {"idle", "check", "lock", "org", "apply"}]
  /\ job \in [Sessions -> Jobs \union {<<>>}]
  /\ pos \in [Sessions -> Nat]
  /\ sb \in [Sessions -> Int]
  /\ delta \in [Sessions -> [Accounts -> Int]]
  /\ mine \in [Sessions -> SUBSET Postings]

(* No interleaving of transfers takes an organization below its credit     *)
(* limit, although the balance is read before the organization's row is    *)
(* waited for and the update is made after it.                             *)
CreditFloor == \A o \in Orgs : balance[o] >= -CreditLimit[o]

(* A transfer that reached its INSERT is the only one of its key: neither  *)
(* the committed ledger nor any open transaction holds the key, so a       *)
(* replayed request is answered with the old row and never posts again     *)
(* (nor runs into the unique index).                                       *)
ReplayNeverPostsTwice ==
  \A s \in Sessions : pc[s] = "apply" =>
    \A t \in Sessions : Cur(s).key \notin Keys(ledger) \union Keys(mine[t])

(* A usage cascade or any other job whose caller rolls back on refusal is  *)
(* in the ledger with all its edges or with none.                          *)
RollsBack(j) == \A i \in 1..Len(j) : j[i].hold = 0

AllOrNothing ==
  \A j \in Jobs : RollsBack(j) =>
    PostingsOf(j) \subseteq ledger \/ PostingsOf(j) \cap ledger = {}

(* What AllOrNothing takes for granted of the callers: the key of an edge  *)
(* names the binding, the interval and the payer, so that whoever asks for *)
(* one edge of a cascade asks for the same cascade.  A batch that holds in *)
(* the middle of the same interval is the exception, which the Billing     *)
(* module follows.                                                         *)
WholeCascades ==
  \A j, k \in Jobs : RollsBack(j) /\ Len(j) > 1 =>
    \A i \in 1..Len(j), n \in 1..Len(k) : j[i].key = k[n].key =>
      /\ RollsBack(k) /\ Len(k) = Len(j)
      /\ PostingsOf(k) = PostingsOf(j)
      /\ Posting(k[n]) = Posting(j[i])

(* Within one transfer the sorted row locks do what the comment on them    *)
(* says: a wait cycle has a member that still holds rows of an earlier     *)
(* transfer of its own job, or one that its own INSERTs have locked before *)
(* its first transfer.  The second case is an order of a seller whose      *)
(* wallet is corrected at the same time: the approval of the order has     *)
(* locked the seller's row by referring to it and waits for the SYSTEM     *)
(* account, which the correction holds while it waits for that row.        *)
DeadlockNeedsEarlierLocks ==
  \A C \in SUBSET Sessions : C # {} /\ WaitCycle(C) =>
    \E s \in C : pos[s] > 1 \/ \E t \in C : WaitsForShare(s, t)

(* "Take the account row locks in a deterministic order so parallel        *)
(* transfers cannot deadlock."                                             *)
NoDeadlock == \A C \in SUBSET Sessions : C # {} => ~WaitCycle(C)

(* Every transaction that is opened ends: waiting for rows never lasts     *)
(* forever.                                                                *)
JobsEnd == \A s \in Sessions : pc[s] # "idle" ~> pc[s] = "idle"

(* A commit of a session is one Post of the wallet book; every other       *)
(* statement, rollback and abort leaves the book as it is.                 *)
Orders == {PostingsOf(j) : j \in Jobs}
Book == INSTANCE WalletBook
ImplementsWalletBook == Book!Spec

-----------------------------------------------------------------------------
(* Why the properties hold: the parts of the inductive invariant that      *)
(* LedgerProofs establishes.                                               *)

PaidStates == {"org", "apply"}

(* Whatever a session has written or is about to write lies on account     *)
(* rows it has locked.                                                     *)
Ordered(t) == \E j \in Jobs : \E i \in 1..Len(j) : t = Posting(j[i])

Ownership ==
  \A s \in Sessions :
    /\ \A a \in Accounts : accLock[a] # s => delta[s][a] = 0
    /\ \A t \in mine[s] : accLock[t.source] = s /\ accLock[t.target] = s /\ Ordered(t)
    /\ pc[s] \in PaidStates =>
         /\ pos[s] \in 1..Len(job[s])
         /\ accLock[Cur(s).source] = s
         /\ accLock[Cur(s).target] = s
         /\ pc[s] = "org" => Cur(s).source \in Orgs

(* The balance a session has read is still the balance it will debit, and  *)
(* every open transaction would leave every organization within its credit.*)
ReadsHold ==
  /\ CreditFloor
  /\ \A s \in Sessions :
       /\ \A o \in Orgs : balance[o] + delta[s][o] >= -CreditLimit[o]
       /\ pc[s] = "org" => sb[s] = balance[Cur(s).source] + delta[s][Cur(s).source]
       /\ pc[s] = "apply" /\ Cur(s).source \in Orgs =>
            balance[Cur(s).source] + delta[s][Cur(s).source]
              + CreditLimit[Cur(s).source] >= Cur(s).amount

(* From the second look at the key to the INSERT the key stays unused.     *)
KeysFresh ==
  \A s, t \in Sessions : pc[s] \in PaidStates =>
    Cur(s).key \notin Keys(ledger) \union Keys(mine[t])

(* A session at the first transfer of its job holds no row but those of    *)
(* that transfer, the account row of the lower id before the other, and an *)
(* organization's row only once it waits for nothing more.                 *)
HoldsAccount(s) == \E a \in Accounts : accLock[a] = s
HoldsOrg(s) == \E o \in Orgs : orgLock[o] = s

FirstTransfer ==
  \A s \in Sessions :
    /\ pc[s] = "idle" => ~HoldsAccount(s) /\ ~HoldsOrg(s)
    /\ pc[s] = "lock" => pos[s] \in 1..Len(job[s])
    /\ pos[s] = 1 =>
         /\ pc[s] = "check" => ~HoldsAccount(s)
         /\ pc[s] \in {"check", "lock", "org"} => ~HoldsOrg(s)
         /\ pc[s] = "lock" =>
              \A a \in Accounts : accLock[a] = s => \A b \in Needed(s) : Rank[a] < Rank[b]

(* Nor does it hold a row of a caller other than the one of that transfer. *)
FirstRow ==
  \A s \in Sessions :
    /\ pc[s] = "idle" => \A r \in Rows : rowLock[r] # s
    /\ pos[s] = 1 => \A r \in Rows : rowLock[r] = s => r = Cur(s).row

(* Nothing is in the ledger or in an open transaction that no job asked    *)
(* for, and a job that rolls back on refusal has posted, or found posted   *)
(* before, every transfer it is past.                                      *)
CascadeProgress ==
  /\ \A t \in ledger : Ordered(t)
  /\ \A s \in Sessions :
       /\ pc[s] = "idle" => mine[s] = {}
       /\ mine[s] \subseteq PostingsOf(job[s])
       /\ RollsBack(job[s]) /\ Len(job[s]) > 1 =>
            \A i \in 1..Len(job[s]) : i < pos[s] => Posting(job[s][i]) \in ledger \union mine[s]

(* What an open transaction has written is a group the wallet book would   *)
(* post: new keys, payers that are active and stay so, and the balances    *)
(* moved by the sum of its entries.                                        *)
PayerHeld(s, o) == o \in Orgs => orgLock[o] = s /\ status[o] = "active"

OneGroup ==
  \A s \in Sessions :
    /\ IsFiniteSet(mine[s])
    /\ \A t, u \in mine[s] : t.key = u.key => t = u
    /\ Keys(mine[s]) \cap Keys(ledger) = {}
    /\ \A t \in mine[s] : PayerHeld(s, t.source)
    /\ pc[s] = "apply" => PayerHeld(s, Cur(s).source)
    /\ \A a \in Accounts : delta[s][a] = Book!Net(mine[s], a)
=============================================================================
