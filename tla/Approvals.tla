----------------------------- MODULE Approvals -----------------------------
(***************************************************************************)
(* Funding requests and wallet corrections.  A reseller asks for credit    *)
(* and the direct parent releases it; a correction is asked for by a       *)
(* manager and decided by the root administrator before it expires.  Web   *)
(* and bot decide in database transactions of their own: a handler reads   *)
(* the clock, waits for the row, checks what it finds, moves the money and *)
(* commits.  transfer() is one step here; Ledger has its statements.       *)
(***************************************************************************)
EXTENDS Integers, FiniteSets

CONSTANTS
  Orgs,         \* organizations
  Parent,       \* organizations.parent_id
  Actors,       \* people whose role may request and decide
  Home,         \* organization of an actor's active membership
  Root,         \* the actor of ROOT_TELEGRAM_ID
  CreditLimit,  \* organizations.credit_limit_irr
  Requests,     \* rows of funding_requests that may come to exist
  Corrections,  \* rows of approval_requests that may come to exist
  Fundings,     \* amounts asked for
  Adjustments,  \* amounts of corrections, of either sign
  Ttl,          \* APPROVAL_TTL_SECONDS
  MaxClock,     \* bound: the clock stops there
  Sessions,     \* concurrent database sessions
  NoOne         \* no organization, no actor, no session

ASSUME PeopleAssumption ==
  /\ Parent \in [Orgs -> Orgs \union {NoOne}]
  /\ Home \in [Actors -> Orgs]
  /\ Root \in Actors
  /\ NoOne \notin Orgs \union Actors \union Sessions
ASSUME AmountAssumption ==
  /\ CreditLimit \in [Orgs -> Nat]
  /\ Fundings \subseteq Nat \ {0}
  /\ Adjustments \subseteq Int \ {0}
  /\ Ttl \in Nat /\ MaxClock \in Nat
ASSUME RowAssumption == Requests \intersect Corrections = {}

Rows == Requests \union Corrections

VARIABLES
  requests,     \* funding_requests
  corrections,  \* approval_requests
  balance,      \* accounts.balance_irr
  ledger,       \* transactions of funding requests and corrections
  status,       \* organizations.status
  events,       \* outbox rows of topic approval.granted, by approval
  clock,
  lock,         \* session holding a request's or an approval's row
  pc,
  task,         \* what a session was asked to do
  asked         \* the time it read before it waited for the row

dbVars == <<requests, corrections, balance, ledger, status, events>>
vars == <<dbVars, clock, lock, pc, task, asked>>

Request == [status: {"pending", "approved", "rejected"}, org: Orgs, amount: Fundings,
            by: Actors \union {NoOne}]
Correction == [status: {"pending", "executed", "rejected", "expired"}, org: Orgs,
               amount: Adjustments, requester: Actors, by: Actors \union {NoOne},
               deadline: 0..(MaxClock + Ttl)]
None == [status |-> "none"]
Posting == [key: Rows, org: Orgs, amount: Int]
Decision == [row: Rows, actor: Actors, verdict: {"approve", "reject"}]
Switch == [org: Orgs, was: {"active", "suspended"}]
Nothing == [row |-> NoOne]

Init ==
  /\ requests = [r \in Requests |-> None]
  /\ corrections = [c \in Corrections |-> None]
  /\ balance = [o \in Orgs |-> 0]
  /\ ledger = {}
  /\ status = [o \in Orgs |-> "active"]
  /\ events = {}
  /\ clock = 0
  /\ lock = [r \in Rows |-> NoOne]
  /\ pc = [s \in Sessions |-> "idle"]
  /\ task = [s \in Sessions |-> Nothing]
  /\ asked = [s \in Sessions |-> 0]

-----------------------------------------------------------------------------
(* Money.  A posting is found again by its key; only what leaves a wallet  *)
(* is checked.                                                             *)

Covered(o, amount) ==
  amount < 0 => status[o] = "active" /\ balance[o] + CreditLimit[o] >= -amount

Post(r, o, amount) ==
  LET posted == \E t \in ledger : t.key = r
  IN /\ ledger' = IF posted THEN ledger
                  ELSE ledger \union {[key |-> r, org |-> o, amount |-> amount]}
     /\ balance' = IF posted THEN balance ELSE [balance EXCEPT ![o] = @ + amount]

(* Usage that is settled meanwhile, under the same credit check.           *)
Spend(o) ==
  /\ Covered(o, -1)
  /\ balance' = [balance EXCEPT ![o] = @ - 1]
  /\ UNCHANGED <<requests, corrections, ledger, status, events, clock, lock, pc, task, asked>>

-----------------------------------------------------------------------------
(* Asking.                                                                 *)

RequestFunding(r, a, amount) ==
  /\ requests[r] = None
  /\ requests' = [requests EXCEPT ![r] =
       [status |-> "pending", org |-> Home[a], amount |-> amount, by |-> NoOne]]
  /\ UNCHANGED <<corrections, balance, ledger, status, events, clock, lock, pc, task, asked>>

(* One's own organization or a direct child.                               *)
InReach(a, o) == o = Home[a] \/ Parent[o] = Home[a]

Asked(a, o, amount) ==
  [status |-> "pending", org |-> o, amount |-> amount, requester |-> a, by |-> NoOne,
   deadline |-> clock + Ttl]

RequestAdjustment(c, a, o, amount) ==
  /\ a # Root
  /\ corrections[c] = None
  /\ InReach(a, o)
  /\ corrections' = [corrections EXCEPT ![c] = Asked(a, o, amount)]
  /\ UNCHANGED <<requests, balance, ledger, status, events, clock, lock, pc, task, asked>>

(* The root administrator's own correction is applied at once; when the    *)
(* transfer is refused, the approval is rolled back with it.               *)
AdjustDirectly(c, o, amount) ==
  /\ corrections[c] = None
  /\ InReach(Root, o)
  /\ Covered(o, amount)
  /\ corrections' = [corrections EXCEPT ![c] =
       [Asked(Root, o, amount) EXCEPT !.status = "executed", !.by = Root]]
  /\ Post(c, o, amount)
  /\ UNCHANGED <<requests, status, events, clock, lock, pc, task, asked>>

-----------------------------------------------------------------------------
(* Deciding.                                                               *)

(* A decision arrives; now() is an argument of locked_pending_approval(),  *)
(* so the time is read before the row is waited for.                       *)
Ask(s, d) ==
  /\ pc[s] = "idle"
  /\ d.row \in Requests => requests[d.row] # None
  /\ d.row \in Corrections => corrections[d.row] # None /\ d.actor = Root
  /\ pc' = [pc EXCEPT ![s] = "lock"]
  /\ task' = [task EXCEPT ![s] = d]
  /\ asked' = [asked EXCEPT ![s] = clock]
  /\ UNCHANGED <<dbVars, clock, lock>>

EndHoldingRow(s) ==  \* fault: the transaction is left open
  /\ pc' = [pc EXCEPT ![s] = "idle"]
  /\ task' = [task EXCEPT ![s] = Nothing]
  /\ asked' = [asked EXCEPT ![s] = 0]
  /\ UNCHANGED <<clock, lock>>
End(s) ==
  /\ lock' = [r \in Rows |-> IF lock[r] = s THEN NoOne ELSE lock[r]]
  /\ pc' = [pc EXCEPT ![s] = "idle"]
  /\ task' = [task EXCEPT ![s] = Nothing]
  /\ asked' = [asked EXCEPT ![s] = 0]
  /\ UNCHANGED clock

Rollback(s) == End(s) /\ UNCHANGED dbVars

RowFree(s) == pc[s] = "lock" /\ lock[task[s].row] = NoOne

PendingOrLapsed(r) ==  \* fault: only a settled row refuses a decision
  IF r \in Requests THEN requests[r].status # "approved"
  ELSE corrections[r].status # "executed"
Pending(r) ==
  IF r \in Requests THEN requests[r].status = "pending"
  ELSE corrections[r].status = "pending"

(* The direct parent releases the credit; an organization without parent   *)
(* is left to the root administrator.                                      *)
OwnBranch(a, r) ==
  r \in Requests =>
    \/ Parent[requests[r].org] = Home[a]
    \/ a = Root /\ Parent[requests[r].org] = NoOne

LapsedLate(s) ==  \* fault: the deadline itself still counts as in time
  task[s].row \in Corrections /\ corrections[task[s].row].deadline < asked[s]
Lapsed(s) ==
  task[s].row \in Corrections /\ corrections[task[s].row].deadline <= asked[s]

(* 409 "already processed" or 403: the transaction ends.                   *)
Refuse(s) ==
  /\ RowFree(s)
  /\ ~(Pending(task[s].row) /\ OwnBranch(task[s].actor, task[s].row))
  /\ Rollback(s)

(* 410: the expiry is committed by the handler that refuses it.            *)
ExpireAsLapsed(s) ==  \* fault: a status the table does not know
  /\ RowFree(s) /\ Pending(task[s].row) /\ Lapsed(s)
  /\ corrections' = [corrections EXCEPT ![task[s].row].status = "lapsed"]
  /\ End(s)
  /\ UNCHANGED <<requests, balance, ledger, status, events>>
Expire(s) ==
  /\ RowFree(s) /\ Pending(task[s].row) /\ Lapsed(s)
  /\ corrections' = [corrections EXCEPT ![task[s].row].status = "expired"]
  /\ End(s)
  /\ UNCHANGED <<requests, balance, ledger, status, events>>

ReadRow(s) ==  \* fault: the row is read without FOR UPDATE
  /\ pc[s] = "lock" /\ Pending(task[s].row) /\ ~Lapsed(s)
  /\ OwnBranch(task[s].actor, task[s].row)
  /\ pc' = [pc EXCEPT ![s] = "decide"]
  /\ UNCHANGED <<dbVars, clock, lock, task, asked>>
LockRow(s) ==
  /\ RowFree(s) /\ Pending(task[s].row) /\ ~Lapsed(s)
  /\ OwnBranch(task[s].actor, task[s].row)
  /\ lock' = [lock EXCEPT ![task[s].row] = s]
  /\ pc' = [pc EXCEPT ![s] = "decide"]
  /\ UNCHANGED <<dbVars, clock, task, asked>>

Deciding(s, verdict) == pc[s] = "decide" /\ task[s].verdict = verdict

DecideRequest(s, verdict) ==
  LET r == task[s].row
  IN /\ r \in Requests
     /\ requests' = [requests EXCEPT ![r].status = verdict, ![r].by = task[s].actor]
     /\ UNCHANGED <<corrections, events>>

(* Granted or not, the decision on a correction is announced.              *)
DecideCorrection(s, verdict) ==
  LET c == task[s].row
  IN /\ c \in Corrections
     /\ corrections' = [corrections EXCEPT ![c].status = verdict, ![c].by = task[s].actor]
     /\ events' = events \union {c}
     /\ UNCHANGED requests

Reject(s) ==
  /\ Deciding(s, "reject")
  /\ DecideRequest(s, "rejected") \/ DecideCorrection(s, "rejected")
  /\ End(s)
  /\ UNCHANGED <<balance, ledger, status>>

ApproveRequest(s) ==
  LET r == task[s].row
  IN /\ Deciding(s, "approve")
     /\ DecideRequest(s, "approved")
     /\ Post(r, requests[r].org, requests[r].amount)
     /\ End(s)
     /\ UNCHANGED status

(* A correction is covered by the wallet or it is refused and stays        *)
(* pending.                                                                *)
ApproveUncovered(s) ==  \* fault: the correction is not enforced
  LET c == task[s].row
  IN /\ Deciding(s, "approve")
     /\ DecideCorrection(s, "executed")
     /\ Post(c, corrections[c].org, corrections[c].amount)
     /\ End(s)
     /\ UNCHANGED status
ApproveCorrection(s) ==
  LET c == task[s].row
  IN /\ Deciding(s, "approve")
     /\ DecideCorrection(s, "executed")
     /\ Covered(corrections[c].org, corrections[c].amount)
     /\ Post(c, corrections[c].org, corrections[c].amount)
     /\ End(s)
     /\ UNCHANGED status

ApproveRefused(s) ==
  /\ Deciding(s, "approve")
  /\ task[s].row \in Corrections
  /\ ~Covered(corrections[task[s].row].org, corrections[task[s].row].amount)
  /\ Rollback(s)

(* A deadlock victim, a lost connection, a killed worker.                  *)
Disconnect(s) == pc[s] # "idle" /\ Rollback(s)

-----------------------------------------------------------------------------
(* admin_set_reseller_status(): read, then write the other value.          *)

ReadStatus(s, o) ==
  /\ pc[s] = "idle"
  /\ Parent[o] = Home[Root]
  /\ pc' = [pc EXCEPT ![s] = "switch"]
  /\ task' = [task EXCEPT ![s] = [org |-> o, was |-> status[o]]]
  /\ UNCHANGED <<dbVars, clock, lock, asked>>

WriteStatus(s) ==
  /\ pc[s] = "switch"
  /\ status' = [status EXCEPT ![task[s].org] =
       IF task[s].was = "active" THEN "suspended" ELSE "active"]
  /\ End(s)
  /\ UNCHANGED <<requests, corrections, balance, ledger, events>>

Tick ==
  /\ clock < MaxClock
  /\ clock' = clock + 1
  /\ UNCHANGED <<dbVars, lock, pc, task, asked>>

TryRow(s) == Refuse(s) \/ Expire(s) \/ LockRow(s)
Settle(s) == Reject(s) \/ ApproveRequest(s) \/ ApproveCorrection(s) \/ ApproveRefused(s)

Next ==
  \/ \E o \in Orgs : Spend(o)
  \/ \E r \in Requests, a \in Actors, amount \in Fundings : RequestFunding(r, a, amount)
  \/ \E c \in Corrections, o \in Orgs, amount \in Adjustments :
       \/ AdjustDirectly(c, o, amount)
       \/ \E a \in Actors : RequestAdjustment(c, a, o, amount)
  \/ \E s \in Sessions :
       \/ \E d \in Decision : Ask(s, d)
       \/ TryRow(s) \/ Settle(s) \/ Disconnect(s)
       \/ \E o \in Orgs : ReadStatus(s, o)
       \/ WriteStatus(s)
  \/ Tick

Spec == Init /\ [][Next]_vars

(* PostgreSQL queues the waiters of a row, and a handler that has its row  *)
(* runs to its end.                                                        *)
Fairness ==
  \A s \in Sessions :
    /\ SF_vars(TryRow(s))
    /\ WF_vars(Settle(s))
    /\ WF_vars(WriteStatus(s))
FairSpec == Spec /\ Fairness

-----------------------------------------------------------------------------

(* Every variable has its type.                                            *)
TypeOK ==
  /\ requests \in [Requests -> Request \union {None}]
  /\ corrections \in [Corrections -> Correction \union {None}]
  /\ balance \in [Orgs -> Int]
  /\ ledger \subseteq Posting
  /\ status \in [Orgs -> {"active", "suspended"}]
  /\ events \subseteq Corrections
  /\ clock \in 0..MaxClock
  /\ lock \in [Rows -> Sessions \union {NoOne}]
  /\ pc \in [Sessions -> {"idle", "lock", "decide", "switch"}]
  /\ task \in [Sessions -> Decision \union Switch \union {Nothing}]
  /\ asked \in [Sessions -> 0..MaxClock]

Granted == {r \in Requests : requests[r].status = "approved"}
Executed == {c \in Corrections : corrections[c].status = "executed"}
PostingOf(r) ==
  IF r \in Requests
  THEN [key |-> r, org |-> requests[r].org, amount |-> requests[r].amount]
  ELSE [key |-> r, org |-> corrections[r].org, amount |-> corrections[r].amount]

PostedAsDecided == ledger = {PostingOf(r) : r \in Granted \union Executed}
ReleasedByBranch ==
  \A r \in Granted :
    LET parent == Parent[requests[r].org]
    IN IF parent = NoOne THEN requests[r].by = Root ELSE Home[requests[r].by] = parent
AnnouncedAsDecided ==
  \A c \in Corrections :
    c \in events <=> /\ corrections[c].status \in {"executed", "rejected"}
                     /\ corrections[c].by # corrections[c].requester

(* What handlers of web and bot that decide one row at the same time leave *)
(* behind fits together.  Money moved for a row exactly when it ends up    *)
(* granted: one posting, of the amount asked for, to the organization it   *)
(* was asked for, released by a manager of the parent; and a correction is *)
(* announced exactly when the root administrator decided somebody else's   *)
(* request.  A rejected, expired, refused or interrupted decision leaves   *)
(* no posting.                                                             *)
MoneyFollowsDecision == PostedAsDecided /\ ReleasedByBranch /\ AnnouncedAsDecided

(* No correction takes an organization below its agreed credit, though     *)
(* usage is settled between the request, the lock and the decision         *)
(* (comment in apply_wallet_adjustment).                                   *)
WithinCredit == \A o \in Orgs : balance[o] >= -CreditLimit[o]

Decided(r) ==
  IF r \in Requests THEN requests[r].status \in {"approved", "rejected"}
  ELSE corrections[r].status \in {"executed", "rejected", "expired"}

FinalStep ==
  /\ \A r \in Requests : Decided(r) => requests'[r] = requests[r]
  /\ \A c \in Corrections : Decided(c) => corrections'[c] = corrections[c]

InTimeStep ==
  \A c \in Corrections :
    corrections[c].status = "pending" /\ corrections'[c].status = "executed" =>
      \E s \in Sessions : /\ pc[s] = "decide" /\ task[s].row = c
                          /\ asked[s] < corrections[c].deadline

(* A decision is final: no late, repeated or concurrent handler changes    *)
(* the verdict, the decider or the amount of a decided row.                *)
DecidedForGood == [][FinalStep]_vars

(* A pending correction is executed only by a handler that was asked       *)
(* before the deadline, however long it waited for the row.                *)
OnlyAskedInTime == [][InTimeStep]_vars

(* Every decision that was asked for is answered, though others compete    *)
(* for the row, expire it or decide it first.                              *)
DecisionsEnd == \A s \in Sessions : pc[s] = "lock" ~> pc[s] = "idle"

(* What a handler has found out about its row holds until it commits.      *)
RowsHeld ==
  \A s \in Sessions :
    /\ pc[s] \in {"lock", "decide"} =>
         /\ task[s] \in Decision
         /\ task[s].row \in Requests => requests[task[s].row] # None
         /\ task[s].row \in Corrections =>
              corrections[task[s].row] # None /\ task[s].actor = Root
    /\ pc[s] = "decide" =>
         /\ lock[task[s].row] = s
         /\ Pending(task[s].row)
         /\ OwnBranch(task[s].actor, task[s].row)
         /\ ~Lapsed(s)
    /\ pc[s] = "switch" => task[s] \in Switch

(* What waits for the root administrator was asked for by somebody else.   *)
OthersAsk ==
  \A c \in Corrections : corrections[c].status = "pending" => corrections[c].requester # Root
=============================================================================
