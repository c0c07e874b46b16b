------------------------------- MODULE Billing ------------------------------
(***************************************************************************)
(* From panel counters to money: observe() and its three callers.  The     *)
(* billing worker reads every admin's lifetime counter once per poll and   *)
(* observes the bindings one after the other, each in its own database     *)
(* transaction; a collector posts readings to /v1/internal/usage and to    *)
(* /v1/internal/usage/batch at the same time, and may post any of them     *)
(* late, again, and out of order: observed_at is stored and never compared.*)
(*                                                                         *)
(* A database transaction is one step here.  observe() locks the           *)
(* binding's checkpoint row first, and the Ledger module shows that the    *)
(* transfers of concurrent transactions commit as if made one at a time.   *)
(* What stays visible is the time between reading a counter and observing  *)
(* it.  Ledger rows are represented by their idempotency keys.             *)
(***************************************************************************)
EXTENDS Integers, Sequences, FiniteSets, SequencesExt

CONSTANTS
  Bindings,       \* bindings of organizations to panel admins
  Orgs,           \* organizations that pay somebody: all but the root
  Root,           \* the root organization, paid by the top of every path
  Path,           \* edges(): payers from the binding's owner up to the root
  Price,          \* contracts.price_per_gib_irr of the edge above a payer
  Coefficient,    \* panels.usage_coefficient of the binding's panel
  Gib,            \* traffic units in a GiB
  CreditLimit,    \* organizations.credit_limit_irr
  ConfirmReadings,\* USAGE_RESET_CONFIRM_READINGS
  MaxTraffic,     \* bound: units of traffic of each binding
  MaxResets,      \* bound: resets of each binding's panel counter
  MaxKept,        \* bound: readings the collector keeps of each binding
  MaxAccepted,    \* bound: with more usage accepted, nothing is posted
  FundAmount,     \* one funding of a payer
  MaxBalance,     \* bound: no funding lifts a payer above its one
  Suspendable,    \* bound: the payers the administrator suspends
  NoReading

Payers == Orgs \union {Root}

ASSUME PathAssumption == Path \in [Bindings -> Seq(Orgs)]
ASSUME PriceAssumption ==
  /\ Price \in [Orgs -> Nat]
  /\ Coefficient \in [Bindings -> Nat]
  /\ CreditLimit \in [Orgs -> Nat]
  /\ Gib \in Nat \ {0}
  /\ ConfirmReadings \in Nat \ {0}
ASSUME BoundAssumption ==
  /\ IsFiniteSet(Bindings) /\ Suspendable \subseteq Orgs
  /\ MaxTraffic \in [Bindings -> Nat] /\ MaxResets \in [Bindings -> Nat]
  /\ MaxKept \in [Bindings -> Nat] /\ MaxAccepted \in [Bindings -> Nat]
  /\ FundAmount \in Nat

VARIABLES
  db,       \* committed database state, a record of tables
  counter,  \* lifetime_used_traffic as the panel reports it
  used,     \* traffic really used, which no reset takes back
  resets,   \* times the panel's counter was reset
  polled,   \* worker: readings of the current poll still to be observed
  posted,   \* collector: readings it has taken and may still post
  stray,    \* history: posts below the checkpoint since it moved
  cut       \* history: bindings a batch left charged on some levels only

vars == <<db, counter, used, resets, polled, posted, stray, cut>>

Readings == UNION {0..MaxTraffic[b] : b \in Bindings}

(* usage_checkpoints.  A missing row is NoReading.                         *)
Checkpoint == [bytes: Readings, anomalies: 0..(ConfirmReadings - 1)]

(* The transaction of one cascade edge, by its key usage:b:from:to:child.  *)
Settlement == [binding: Bindings, from: Readings, to: Readings, payer: Orgs]

ASSUME NoReadingAssumption == NoReading \notin Readings \union Checkpoint

Databases == [cp: [Bindings -> Checkpoint \union {NoReading}],
              balance: [Payers -> Int],
              settled: SUBSET Settlement,
              accepted: [Bindings -> Nat],
              holds: SUBSET Bindings,
              held: SUBSET Bindings,
              suspended: SUBSET Orgs]

(* Half-up rounding of bytes * rate * coefficient / GIB.                   *)
PriceUsage(b, o, bytes) == (2 * bytes * Price[o] * Coefficient[b] + Gib) \div (2 * Gib)

Parent(b, o) ==
  LET i == CHOOSE n \in 1..Len(Path[b]) : Path[b][n] = o
  IN  IF i = Len(Path[b]) THEN Root ELSE Path[b][i + 1]

-----------------------------------------------------------------------------
(* observe(), as the database state and the outcome it leads to.           *)

(* transfer() of one edge on top of the edges before it.                   *)
SettleEdge(b, from, to, acc, o) ==
  LET amount == PriceUsage(b, o, to - from)
      row == [binding |-> b, from |-> from, to |-> to, payer |-> o]
      d == acc.db
  IN  CASE acc.outcome # "accepted" -> acc
        [] acc.outcome = "accepted" /\ amount <= 0 -> [acc EXCEPT !.outcome = "error"]
        [] acc.outcome = "accepted" /\ amount > 0 /\ row \in d.settled -> acc
        [] OTHER ->
             IF o \in d.suspended THEN [acc EXCEPT !.outcome = "error"]
             ELSE IF d.balance[o] + CreditLimit[o] < amount THEN [acc EXCEPT !.outcome = "hold"]
             ELSE [acc EXCEPT !.db = [d EXCEPT !.settled = @ \union {row},
                                               !.balance = [d.balance EXCEPT
                                                              ![o] = @ - amount,
                                                              ![Parent(b, o)] = @ + amount]]]

Cascade(d, b, from, to) ==
  IF to = from THEN [db |-> d, outcome |-> "accepted"]
  ELSE FoldLeft(LAMBDA acc, o : SettleEdge(b, from, to, acc, o),
                [db |-> d, outcome |-> "accepted"], Path[b])

Baseline(d, b, reading) ==
  [d EXCEPT !.cp[b] = [bytes |-> reading, anomalies |-> 0]]

(* A reading below the checkpoint counts as an anomaly; enough of them in  *)
(* a row are taken for a reset of the counter (and announced to the        *)
(* organization, which changes nothing here).                              *)
RegressionLate(d, b, reading) ==  \* fault: off by one
  IF d.cp[b].anomalies + 1 > ConfirmReadings
    THEN Baseline(d, b, reading)
    ELSE [d EXCEPT !.cp[b].anomalies = @ + 1]
Regression(d, b, reading) ==
  IF d.cp[b].anomalies + 1 >= ConfirmReadings
    THEN Baseline(d, b, reading)
    ELSE [d EXCEPT !.cp[b].anomalies = @ + 1]

(* The checkpoint moves, and the accepted usage is recorded.               *)
AcceptKeepsAnomalies(d, b, reading) ==  \* fault: the count is not cleared
  [d EXCEPT !.cp[b].bytes = reading, !.accepted[b] = @ + (reading - d.cp[b].bytes)]
Accept(d, b, reading) ==
  [Baseline(d, b, reading) EXCEPT !.accepted[b] = @ + (reading - d.cp[b].bytes)]

Observe(d, b, reading) ==
  CASE d.cp[b] = NoReading ->
         [db |-> Baseline(d, b, reading), outcome |-> "accepted"]
    [] d.cp[b] # NoReading /\ reading < d.cp[b].bytes ->
         [db |-> Regression(d, b, reading), outcome |-> "accepted"]
    [] OTHER ->
         LET r == Cascade(d, b, d.cp[b].bytes, reading)
         IN  IF r.outcome = "accepted" THEN [r EXCEPT !.db = Accept(r.db, b, reading)] ELSE r

(* record_hold(): one pending event per binding.                           *)
NoHold(d, b) == d  \* fault: the refused observation is only rolled back
RecordHold(d, b) == [d EXCEPT !.holds = @ \union {b}]

(* The worker and /usage roll a refused observation back and record the    *)
(* hold in a transaction of its own; any other error only rolls back.      *)
ObserveNoRollback(d, b, reading) ==  \* fault: edges charged so far are kept
  LET r == Observe(d, b, reading)
  IN  IF r.outcome = "hold" THEN RecordHold(r.db, b) ELSE r.db
ObserveAlone(d, b, reading) ==
  LET r == Observe(d, b, reading)
  IN  CASE r.outcome = "accepted" -> r.db
        [] r.outcome = "hold" -> RecordHold(d, b)
        [] r.outcome = "error" -> d

(* /usage/batch catches a hold without a rollback, and commits at the end; *)
(* any other error discards the whole batch.                               *)
BatchItem(acc, b, x) ==
  IF acc.outcome = "error" THEN acc
  ELSE LET r == Observe(acc.db, b, x)
       IN  IF r.outcome = "hold" THEN [r EXCEPT !.db = RecordHold(r.db, b)] ELSE r

BatchItems(d, items, reading) ==
  FoldLeft(LAMBDA acc, b : BatchItem(acc, b, reading[b]), [db |-> d, outcome |-> "accepted"], items)

ObserveBatch(d, items, reading) ==
  LET r == BatchItems(d, items, reading)
  IN  IF r.outcome = "error" THEN d ELSE r.db

(* Intervals of b charged to some payers of its path and not to all.       *)
Unfinished(d, b) ==
  {r \in d.settled : r.binding = b /\
     \E o \in ToSet(Path[b]) : [r EXCEPT !.payer = o] \notin d.settled}

(* A reading behind the checkpoint.                                        *)
Late(b, x) == IF x # NoReading /\ db.cp[b] # NoReading /\ x < db.cp[b].bytes THEN 1 ELSE 0

(* Late posts in a row, when the transaction that leaves the checkpoint k  *)
(* observed x: another one if x was posted, none if x moved the checkpoint.*)
(* The count stays once it has come to all but one of ConfirmReadings.     *)
Strays(b, x, k, post) ==
  IF k = db.cp[b] \/ stray[b] = ConfirmReadings - 1 THEN stray[b]
  ELSE IF Late(b, x) = 1 THEN stray[b] + post
  ELSE 0

-----------------------------------------------------------------------------

Init ==
  /\ db = [cp |-> [b \in Bindings |-> NoReading],
           balance |-> [o \in Payers |-> 0],
           settled |-> {},
           accepted |-> [b \in Bindings |-> 0],
           holds |-> {},
           held |-> {},
           suspended |-> {}]
  /\ counter = [b \in Bindings |-> 0]
  /\ used = [b \in Bindings |-> 0]
  /\ resets = [b \in Bindings |-> 0]
  /\ polled = [b \in Bindings |-> NoReading]
  /\ posted = [b \in Bindings |-> {}]
  /\ stray = [b \in Bindings |-> 0]
  /\ cut = {}

(* Subscribers use traffic.                                                *)
Traffic(b) ==
  /\ used[b] < MaxTraffic[b]
  /\ used' = [used EXCEPT ![b] = @ + 1]
  /\ counter' = [counter EXCEPT ![b] = @ + 1]
  /\ UNCHANGED <<db, resets, polled, posted, stray, cut>>

(* The panel forgets its counter (reinstalled, restored, admin recreated). *)
PanelReset(b) ==
  /\ resets[b] < MaxResets[b]
  /\ counter[b] > 0
  /\ counter' = [counter EXCEPT ![b] = 0]
  /\ resets' = [resets EXCEPT ![b] = @ + 1]
  /\ UNCHANGED <<db, used, polled, posted, stray, cut>>

(* poll(): the bindings that are active now, and one answer of the panel.  *)
PollStart ==
  /\ \A b \in Bindings : polled[b] = NoReading
  /\ Bindings \ db.held # {}
  /\ polled' = [b \in Bindings |-> IF b \in db.held THEN NoReading ELSE counter[b]]
  /\ UNCHANGED <<db, counter, used, resets, posted, stray, cut>>

PollObserve(b) ==
  /\ polled[b] # NoReading
  /\ db' = ObserveAlone(db, b, polled[b])
  /\ polled' = [polled EXCEPT ![b] = NoReading]
  /\ stray' = [stray EXCEPT ![b] = Strays(b, polled[b], db'.cp[b], 0)]
  /\ UNCHANGED <<counter, used, resets, posted, cut>>

(* The worker dies; the bindings it had not reached wait for the next poll.*)
PollDies ==
  /\ \E b \in Bindings : polled[b] # NoReading
  /\ polled' = [b \in Bindings |-> NoReading]
  /\ UNCHANGED <<db, counter, used, resets, posted, stray, cut>>

(* The collector takes a reading, to post it now or later.                 *)
CollectorReads(b) ==
  /\ Cardinality(posted[b] \union {counter[b]}) <= MaxKept[b]
  /\ posted' = [posted EXCEPT ![b] = @ \union {counter[b]}]
  /\ UNCHANGED <<db, counter, used, resets, polled, stray, cut>>

(* A post, or its repetition: the reading stays with the collector.        *)
PostUsage(b, x) ==
  /\ x \in posted[b] /\ db.accepted[b] <= MaxAccepted[b]
  /\ db' = ObserveAlone(db, b, x)
  /\ stray' = [stray EXCEPT ![b] = Strays(b, x, db'.cp[b], 1)]
  /\ UNCHANGED <<counter, used, resets, polled, posted, cut>>

PostBatch(items, reading) ==
  /\ \A b \in ToSet(items) : reading[b] \in posted[b] /\ db.accepted[b] <= MaxAccepted[b]
  /\ db' = ObserveBatch(db, items, reading)
  /\ stray' = [b \in Bindings |-> IF b \in ToSet(items)
                                  THEN Strays(b, reading[b], db'.cp[b], 1) ELSE stray[b]]
  /\ cut' = cut \union {b \in ToSet(items) : Unfinished(db', b) # {}}
  /\ UNCHANGED <<counter, used, resets, polled, posted>>

(* The collector does not post this reading any more.                      *)
GiveUp(b, x) ==
  /\ x \in posted[b]
  /\ posted' = [posted EXCEPT ![b] = @ \ {x}]
  /\ UNCHANGED <<db, counter, used, resets, polled, stray, cut>>

(* The outbox worker delivers billing.hold_required.                       *)
DeliverHold(b) ==
  /\ b \in db.holds
  /\ db' = [db EXCEPT !.holds = @ \ {b}, !.held = @ \union {b}]
  /\ UNCHANGED <<counter, used, resets, polled, posted, stray, cut>>

(* Or gives its row up after the attempts it has: the binding stays active.*)
HoldDies(b) ==
  /\ b \in db.holds
  /\ db' = [db EXCEPT !.holds = @ \ {b}]
  /\ UNCHANGED <<counter, used, resets, polled, posted, stray, cut>>

Fund(o) ==
  /\ db.balance[o] + FundAmount <= MaxBalance[o]
  /\ db' = [db EXCEPT !.balance[o] = @ + FundAmount]
  /\ UNCHANGED <<counter, used, resets, polled, posted, stray, cut>>

ToggleSuspension(o) ==
  /\ db' = [db EXCEPT !.suspended = IF o \in @ THEN @ \ {o} ELSE @ \union {o}]
  /\ UNCHANGED <<counter, used, resets, polled, posted, stray, cut>>

Next ==
  \/ \E b \in Bindings :
       \/ Traffic(b) \/ PanelReset(b)
       \/ PollObserve(b)
       \/ CollectorReads(b)
       \/ \E x \in Readings : PostUsage(b, x) \/ GiveUp(b, x)
       \/ DeliverHold(b) \/ HoldDies(b)
  \/ \E S \in SUBSET Bindings \ {{}} :
       \E items \in SetToSeqs(S), reading \in [S -> Readings] : PostBatch(items, reading)
  \/ PollStart \/ PollDies
  \/ \E o \in Orgs : Fund(o)
  \/ \E o \in Suspendable : ToggleSuspension(o)

Spec == Init /\ [][Next]_vars

(* The worker polls for ever and is not killed in the middle of every poll *)
(* (restart: unless-stopped); the collector repeats no reading for ever.   *)
(* Nothing is asked of the delivery of holds.                              *)
Fairness ==
  /\ WF_vars(PollStart)
  /\ \A b \in Bindings :
       SF_vars(PollObserve(b)) /\ \A x \in Readings : WF_vars(GiveUp(b, x))

FairSpec == Spec /\ Fairness

-----------------------------------------------------------------------------

Reading == Readings \union {NoReading}

TypeOK ==
  /\ db \in Databases
  /\ counter \in [Bindings -> Readings] /\ used \in [Bindings -> Readings]
  /\ resets \in [Bindings -> Nat] /\ \A b \in Bindings : resets[b] <= MaxResets[b]
  /\ cut \subseteq Bindings
  /\ polled \in [Bindings -> Reading] /\ posted \in [Bindings -> SUBSET Readings]
  /\ stray \in [Bindings -> 0..(ConfirmReadings - 1)]

(* A counter never runs ahead of the traffic; TypeOK is inductive with it. *)
CountersTell == \A b \in Bindings : counter[b] <= used[b]

(* Units of traffic of b that the payer o was charged for.                 *)
Units(rows) == MapThenSumSet(LAMBDA r : r.to - r.from, rows)
Charged(b, o) == Units({r \in db.settled : r.binding = b /\ r.payer = o})

(* Every level of the path is charged for accepted usage only, whatever    *)
(* polls, posts, holds and retries race.  The exception is a binding that  *)
(* a batch left charged on some levels only, until the same reading is     *)
(* observed again and charges the other levels.                            *)
ChargesMatchAccepted ==
  \A b \in Bindings : b \notin cut \/ Unfinished(db, b) = {} =>
    \A o \in ToSet(Path[b]) : Charged(b, o) <= db.accepted[b]

(* The panel of b was never reset, and the late posts in a row never came  *)
(* to ConfirmReadings but one: enough of them do confirm a reset that never*)
(* was, with the one late reading that the worker may add.                 *)
Orderly(b) == resets[b] = 0 /\ stray[b] < ConfirmReadings - 1

(* Readings that arrive late, in whatever number, order and repetition,    *)
(* are not mistaken for a reset unless they come in a row: a binding has   *)
(* no more usage accepted than it used.                                    *)
UsageNeverInvented ==
  \A b \in Bindings : Orderly(b) => db.accepted[b] <= used[b]

(* The inductive form of UsageNeverInvented.  Of the anomalies counted     *)
(* since the checkpoint moved, the worker brought at most one: a poll that *)
(* starts later reads a counter that is not behind the checkpoint.         *)
FewLateReadings ==
  \A b \in Bindings : Orderly(b) =>
    /\ counter[b] = used[b]
    /\ polled[b] # NoReading => polled[b] <= used[b]
    /\ \A x \in posted[b] : x <= used[b]
    /\ db.cp[b] = NoReading => db.accepted[b] = 0
    /\ db.cp[b] # NoReading =>
         /\ db.accepted[b] <= db.cp[b].bytes /\ db.cp[b].bytes <= used[b]
         /\ db.cp[b].anomalies + Late(b, polled[b]) <= stray[b] + 1

(* The inductive form of ChargesMatchAccepted.  An interval is charged to  *)
(* the last payer missing only by an observation that is accepted, and     *)
(* what a payer owes for intervals that all payers of the path were        *)
(* charged for stays within the accepted usage, even between a cut batch   *)
(* and its retry.                                                          *)
IntervalsPaid ==
  /\ IsFiniteSet(db.settled)
  /\ \A r \in db.settled : PriceUsage(r.binding, r.payer, r.to - r.from) > 0
  /\ \A b \in Bindings :
       /\ Unfinished(db, b) # {} => b \in cut
       /\ \A o \in ToSet(Path[b]) :
            Units({r \in db.settled : r.binding = b /\ r.payer = o} \ Unfinished(db, b))
              <= db.accepted[b]

(* Traffic does not stay unpaid: an active binding's checkpoint catches up *)
(* with its counter again and again, or a hold is on record for it, unless *)
(* a payer is suspended or the rest rounds to nothing at the price of one. *)
CaughtUp(b) ==
  \/ b \in db.held \union db.holds
  \/ ToSet(Path[b]) \cap db.suspended # {}
  \/ db.cp[b] # NoReading /\
       \/ db.cp[b].bytes = counter[b]
       \/ \E o \in ToSet(Path[b]) :
            Price[o] * Coefficient[b] > 0 /\ PriceUsage(b, o, counter[b] - db.cp[b].bytes) = 0
BilledOrHeld == \A b \in Bindings : []<>CaughtUp(b)

(* "Usage: periodic checkpoints, detection of reset and regression without *)
(* duplicate billing": no level pays for more traffic than was used.       *)
NeverChargedTwice ==
  \A b \in Bindings : resets[b] = 0 =>
    \A o \in ToSet(Path[b]) : Charged(b, o) <= used[b]

(* The same for a binding that no batch left charged on some levels only,  *)
(* and without a row of late posts.                                        *)
NotTwiceOutsideBatches ==
  \A b \in Bindings : Orderly(b) /\ b \notin cut =>
    \A o \in ToSet(Path[b]) : Charged(b, o) <= used[b]

(* Usage that was accepted is charged to every level, after a reset too.   *)
AcceptedIsCharged ==
  \A b \in Bindings : \A o \in ToSet(Path[b]) : Charged(b, o) >= db.accepted[b]
=============================================================================
