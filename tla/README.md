# Formal models of the PasarGuard control plane

This directory holds TLA+ models of the control plane in `src/src/control_plane`
(Python, FastAPI, SQLAlchemy on PostgreSQL, Redis), TLC configurations that check
them on small instances, and TLAPS proofs of the safety properties for instances of every
size. Line references are to the files under `src/`; `app.py`, `web_api.py`, ...
stand for `src/src/control_plane/app.py` and so on. `PROJECT.json` maps every
definition to the lines it stands for.

## 1. The system

The control plane sells traffic of PasarGuard VPN panels through a tree of
organizations. Each organization has a prepaid wallet with a credit limit, a
contract with its parent that fixes the price of a GiB, and bindings to admins of
panels. Usage of an admin is read from the panel and charged on every edge from the
organization up to the root. Panel accounts are sold through an order funnel, in a
Telegram bot and in a web app. Side effects on panels and on Telegram go through
a transactional outbox.

Processes that run at once: several API workers (`main.py`), a billing worker
(`worker.py`), an outbox worker (`outbox.py`), a Telegram gateway
(`telegram_gateway.py`) and a Telegram consumer (`telegram_consumer.py`). They share
one PostgreSQL database (READ COMMITTED, row locks by `with_for_update`, unique
indexes) and one Redis. Nothing else is shared: no process calls another one, except
through the tables, the Redis stream and Telegram itself.

| Component | State | Operations | Interacts through |
|---|---|---|---|
| wallet ledger (`app.py` 278-304) | `accounts`, `transactions`, `ledger_entries`, `organizations.status` | `transfer`; suspend and activate | row locks on accounts and organizations; called by everything that moves money |
| usage billing (`app.py` 305-352, `domain.py`, `worker.py`, `api.py` 86-102) | `usage_checkpoints`, holds | `observe`, `record_hold`, `poll`, `/usage`, `/usage/batch` | panel counters; `transfer`; outbox |
| outbox (`outbox.py`) | `outbox` rows, `bindings.status` | `enqueue`, `claim`, handlers, `complete`, `retry`, `reclaim_stale`, worker loop | panel (`modify_admin`), Telegram |
| order funnel (`web_api.py` 762-1138) | `panel_orders`; makes organizations, contracts, bindings | place, quote, confirm, declare payment, cancel, reject, approve | catalog, `transfer`, outbox; same functions from web and bot |
| plan catalog (`web_api.py` 1145-1322) | `plans`, `plan_categories`, `panels.saleable` | create, price, move, open, close, delete | read by orders without a lock; foreign keys |
| funding and approvals (`web_api.py` 475-540, 641-735) | `funding_requests`, `approval_requests` | request, approve, reject, expire | `transfer` |
| hierarchy and bootstrap (`app.py` 269-277, `web_api.py` 234-304 and 575-602, `api.py`, bot) | `organizations`, `closure`, `contracts`, `memberships`, `actors` | first setup, five ways to create an organization, linking people | read by billing (edges) and rbac |
| gateway and consumer group (`telegram_gateway.py`, `telegram_consumer.py` 1326-1357) | Redis dedupe keys, stream, consumer group | webhook, read, acknowledge | Telegram, bot |
| bot conversations (`telegram_consumer.py`) | `bot-state:<chat>` in Redis with a TTL | buttons, questions, answers, /cancel | gateway; commits in order funnel, catalog, approvals, hierarchy |
| panel operations, PasarGuard client (`web_api.py` 413-470) | none of its own (`panels.usage_coefficient`) | HTTP calls | panels |
| rbac, authentication, secrets, rate limiter, metrics, migrations, web app, scripts | constants or per-process counters | checks | guard the handlers |

### What is hard here, and what makes each part correct

* **Ledger.** A transfer looks its idempotency key up twice, locks two account rows,
  reads a balance, waits for the organization's row, then updates. A cascade makes
  several transfers in one transaction. Correct: no wallet below its credit limit; a
  key posts once; a refused or interrupted cascade leaves nothing; no suspended payer;
  every transaction ends.
* **Billing.** Counters are read well before they are observed, by a worker and by a
  collector that may post any reading late and again, from panels that may reset them.
  Correct: every level pays for accepted usage and for nothing else; late readings are no
  reset unless they come in a row; traffic is charged or a hold is on record.
* **Outbox.** At-least-once delivery with takeovers: a slow handler and its successor,
  crashes between the panel call, the notification, the handler's commit and
  `complete`, and a partial unique index that constrains what may be pending. Correct:
  done means delivered, and stays done; a suspension is never without the cut-off; every
  row ends.
* **Orders and catalog.** Customer and seller act on one order at once, from two front
  ends, on screens of any age, while the catalog is edited. Correct: the price agreed to
  is the price opened with; an account exists exactly for approved orders; nothing an
  order or a plan stands on is deleted.
* **Funding and approvals.** Two deciders, an expiry that is committed inside a refused
  request, maker and checker in one person. Correct: one decision and at most one
  posting for each request.
* **Hierarchy.** Five handlers copy the closure rows of a parent; they check slugs,
  depths and memberships without a lock and insert later. Correct: the closure table and
  the contracts are the tree's; no organization is too deep; where the web looks first (a
  second setup, a reseller for somebody who has an organization), a check that failed to
  hold was made while another transaction was about the same person.
* **Gateway and consumer.** An update id is marked before the update is queued, and an
  entry is acknowledged only after it was handled without an exception. Correct: an
  update told to be received is in the stream, and once, but for a write that was
  reported as failed and was not; an entry has one handler; every
  update is handled, or one of a few named accidents came between.
* **Conversations.** Chat state is read, changed and written back without a lock; it
  expires; buttons of old messages still work; a handler may stop between its commit and
  clearing the state. Correct: no flow skips or repeats a question, and each
  conversation comes to one end.

`PROJECT.json` lists these hazards at their lines with the properties that cover them.

## 2. Modules

| Module | What it is |
|---|---|
| `Ledger` | `transfer` statement by statement in concurrent sessions |
| `WalletBook` | the promise of the ledger: groups of postings, no sessions or locks |
| `Billing` | `observe` and its callers, over panel counters and readings |
| `Outbox` | rows, workers, claims, handlers, crashes |
| `Orders` | order handlers with row locks, approvals, and the catalog |
| `OrderFunnel` | the promise of the funnel: states, deals and opened accounts |
| `Approvals` | funding requests, corrections, their deciders, expiry, the status switch |
| `Hierarchy` | organizations, closure, contracts, memberships |
| `Gateway` | webhook, dedupe keys, stream, consumer group |
| `Conversation` | the bot's handlers on top of `Gateway` |
| `LedgerProofs`, `BillingProofs`, `OrdersProofs`, `ApprovalsProofs`, `OutboxProofs`, `HierarchyProofs`, `GatewayProofs`, `ConversationProofs` | proofs about the module of that name; `ConversationProofs` builds on `GatewayProofs`; `LedgerProofs` also shows that `Ledger` implements `WalletBook`, and `OrdersProofs` that `Orders` implements `OrderFunnel` |
| `MCLedger`, `MCBilling`, `MCOutbox`, `MCOrders`, `MCApprovals`, `MCConversation`, `MCHierarchy` | the instances TLC checks |

Some modules contain operators marked *fault*: a plausible bug in the definition that
follows. No specification uses them. They are put in the place of that definition to
confirm that each property notices one.

### Ledger

One session is one database transaction: `pc` is the statement it comes to, `job[s]`
the transfers its transaction makes, `delta[s]` and `mine[s]` what it has written and
not yet committed. `balance`, `ledger` and `status` are the committed tables. `CheckKey`,
`LockAccount`, `Recheck`, `LockOrg`, `Apply` and `Commit` are the statements in their
order; a statement that waits for a row is disabled until the row is free. `hold` tells
the callers apart: 0 is a caller that rolls back on "insufficient credit" (poll,
`/usage`, approvals), another number is where `/usage/batch` continues. What a caller
locks before `transfer` is part of the job: `row` is the row it has selected FOR UPDATE
(the checkpoint of an observation, a funding request, a correction, an order), and `refs`
are the organizations its INSERTs refer to. PostgreSQL locks those FOR KEY SHARE when
the approval of an order flushes the new organization, its closure rows and its contract
(`web_api.py` 1092-1103, `app.py:283`); such a lock goes with others of its kind and with
the UPDATE of a status, and waits for and keeps out FOR UPDATE (`LockRow`, `ShareOrg`,
`OrgRowFree`). The other creations of organizations take the same locks and make no
transfer, so they wait for nothing afterwards and are no jobs. An observation without
traffic locks its checkpoint and commits, as one does whose key is known. `DeadlockAbort`
is PostgreSQL's detector, `Disconnect` a process that dies. `SetStatus` is the
root administrator's suspension of one of the `Switched` organizations; it waits for the
row like any other UPDATE. Ledger
entries are not a variable of their own: a posting stands for the transaction row and
its two entries, which one `Apply` writes together.

`WalletBook` says the same without sessions: `Post(T)` adds postings under fresh keys,
paid by active organizations that stay within their credit. `ImplementsWalletBook`, at the
end of `Ledger`, is the refinement, which is the identity on the three committed tables.

### Billing

A database transaction is one step. That is justified by the checkpoint row, which
`observe` locks first, and by `ImplementsWalletBook` for the transfers inside. What
remains visible is the time between reading a counter and observing it (`polled`,
`posted`). `Observe` is a function from the database to the database and an outcome,
because its three callers differ in what they do with it: `ObserveAlone` rolls back and
then records a hold, `ObserveBatch` records the hold and keeps what was written.
`Cascade` folds `SettleEdge` over the path. `PriceUsage` is the integer arithmetic of
`Decimal` and ROUND_HALF_UP on non-negative operands. `db` is a record of the tables (`Databases`); ledger
rows are represented by their keys, which is all that `observe` looks up. There is one
worker, with one reading of each binding in hand. A collector keeps readings of its own
(`CollectorReads`), posts any of them at any time, alone or in a batch, as often as it
likes (`PostUsage`, `PostBatch`), and drops one some day (`GiveUp`): `observed_at` is never
compared, so nothing in the code tells a repeated or late post from a new one. An
outbox row of a hold is delivered, or dies after its attempts with the binding left active
(`DeliverHold`, `HoldDies`). `used`, `cut` and `stray` are history variables; `stray` counts
posts that were below the checkpoint since it moved, up to `ConfirmReadings - 1`.

### Outbox

`status`, `attempts`, `due` and `stale` are the columns; the clock is the freedom of
`BackoffEnds` and `ClaimExpires`. `batch[w]` holds the rows as the worker's session
has loaded them, since `complete` and `retry` compare and write what was loaded, and a
rollback expires the loaded rows (`Forgotten`). `MayBePending` is the partial unique
index `uq_outbox_pending_per_aggregate`. Claiming, the panel call, the notification,
the handler's commit and `complete` are separate steps with `Crash` between any two.
The order among due rows and the limit of a claim are abstracted to "any `Limit` of the
due rows". `limit` is the traffic limit of a binding's admin on the panel: `CutOff` sets it
for a hold, and `RaiseLimit` is `web_set_admin_limit` (`web_api.py` 448-455), by which an
organization that owns the panel takes the limit of its own admin away again, whatever the
status of the binding. Rows of one topic and aggregate are numbered in the order of their
insertion, which is a matter of naming.

### Orders

A handler locks the order (`LockOrder`), checks the transition, the person and the
seller, and commits a move (`Quote`, `Advance`, `Approve`), or rolls back. Placing an
order reads panel and plan without a lock (`Place`) and inserts later (`Insert`), so the
catalog may change in between; the foreign key to `plans` is what `InsertRefused` stands
for. Requests may be late, repeated, or from anybody; the one thing a request to confirm
knows is the quote that was on the screen. `agreed` is a history variable. Amount, price,
credit and payment text of an order are one value, `terms`.

The catalog is `plans` (panel, shelf, terms, status), `shelves` (status) and `saleable`.
A plan may be ordered while it and its shelf are open; the two statuses are apart.
`CreateShelf`, `SetShelfStatus`, `DeleteShelf`, `CreatePlan`, `SetPlanStatus`,
`UpdatePlan` and `DeletePlan` are the handlers of `web_api.py` 1145-1322. An edit is one
step: what it looks up first, the foreign keys check again at the commit, and an edit that
loses is refused as if it had come later. Names and descriptions are left out, and with them
the renaming of a shelf; a form that sends old values back is an `UpdatePlan` with old terms.
An id that was deleted is not used again. `panels.status` is not a variable, since no code
changes it. `Bind` is another organization taking the panel admin by `POST /v1/bindings`.

`OrderFunnel` is what remains when sessions, locks, plans and bindings are hidden.

### Approvals

Two tables, one protocol. `RequestFunding` and `RequestAdjustment` insert a pending row;
`AdjustDirectly` is the root administrator's own correction, which inserts the approval
and applies it in one transaction (`web_api.py` 675-703). A decision arrives with `Ask`,
from `decide_funding_request` (501-527), `decide_approval` (715-735) or their twins in
the bot (`telegram_consumer.py` 477-497 and 520-539), and notes the time: `now()` is an
argument of `locked_pending_approval` (641-651), so it is read before the row is waited
for. `LockRow` gets the row with everything checked; `Refuse` is 409 or 403; `Expire` is
410, whose handler commits the expiry. `Reject`, `ApproveRequest` and
`ApproveCorrection` decide, move the money and commit; `ApproveRefused` is a transfer
that `apply_wallet_adjustment` (655-667) could not make. `ReadStatus` and `WriteStatus`
are the switch of a reseller's status (605-617), whose read and write lie apart. `Spend`
is usage that is billed meanwhile.

`transfer` is one step here. A handler holds one account pair, and what happens inside
is `Ledger`'s business. Memberships are constant; audit rows and `decided_at` are left out.

### Hierarchy

An organization is known by its slug. A request is a transaction of two steps: `Ask...`
reads and checks without locks, `Commit` inserts what a unique index does not refuse
(`Clash`). The five creations are the web's child and reseller, `POST /v1/organizations`,
the bot's reseller and the approval of an order; with `AskBootstrap` they all end in
`Create`, which writes the organization, the closure rows (`Path`) and the contract. The
setup reads the setting a second time when SQLAlchemy merges it (`MergeSetting`), and the
middleware of `main.py` 96-113 lets only the root administrator reach it. `AskBind` and
`AskOrder` link people and make them known; an order is placed by anybody, since the bot
asks for no permission (`telegram_consumer.py` 644-654). Which membership of a person a request uses is
the choice that `pick_membership` and the bot's `context` leave (`WebMembership`,
`BotMembership`). `unchecked` and `crossed` are history: which organizations were
created without a look at the depth, and about whom two transactions ran at once.
`Ledger` and `Billing` take the tree as a constant.

### Gateway

Every call to Redis is a step and may fail, with or without having been carried out.
`hook[u]` is the request that has marked update `u`; `marks` are the keys
`tg:update:<id>`; `told` are the updates Telegram has had a 200 for and will not send again.
`Extend` is XADD with an approximate `maxlen`: anything beyond it may be gone. The consumer
group is `cursor` and `batch`: an entry is given to one consumer once, and an entry whose
handler raised, or whose consumer died, stays pending (`missed`), since no code reclaims it.
`cursed` and `doubled` name the accidents the code cannot avoid. The consumers may find
entries that were handled and acknowledged before they start (`QueueStart`). Keys live for a day,
which is as long as Telegram retries; that is an external assumption of the module.

### Conversation

`Conversation` EXTENDS `Gateway` and says what a consumer does with the entry in its
hand. `state[h]` is `bot-state:<chat>`; `pc[c]` is the handler's next call. `Begin`, `Pick`,
`Decide`, `Menu`, `Answer` and `Cancel` are what an update may lead to: a button that begins
a flow, a button that answers, a decision, a menu label, a text, /cancel. Each is followed by
writing the state, or by a commit and the clearing of the state, and by a reply
(`SetState`, `Commit`, `Refused`, `ClearState`, `Replied`). Any of these may raise: in the
handler of a button the exception is caught (`Caught`), in that of a text it escapes and the
entry stays pending (`Escapes`). The reseller flow replies inside its `try`, so a reply that
fails clears the state a second time (`ClearAgain`). `Forget` is the TTL. A conversation is known by the
entry that began it, and its `data` by the entries taken as answers, so that a property
can say which answer came from where. `Questions` lists the flows and their questions in
order; what an answer must look like is the choice to refuse it. What a commit does in the
database is in `Orders`, `Approvals` and `Hierarchy`.

## 3. Runs

All runs use `tlc -workers 2 -config X.cfg M`. `bot` and `hierarchy` do not check deadlock:
there the updates and the slugs run out, and the system has nothing more to do. All
others do.

| Run | States | Question and answer |
|---|---|---|
| `ledger` | 189,732 | Do interleaved transactions keep credit limits, idempotency, atomicity and the wallet promise, and do they all end? Yes. |
| `ledger_deadlock` | violation | Do sorted row locks exclude deadlocks between observed usages? No (finding 1). |
| `billing` | 1.77 M | Are levels charged for accepted usage only, with late and repeated posts, resets and holds that die? Yes. |
| `billing_progress` | 239,332 | Is traffic always charged in the end, or a hold on record? Yes, up to suspended payers and remainders that round to nothing. Is usage never invented by late posts? Yes, while they do not come in a row. |
| `billing_batch` | violation | Does a level never pay for more than was used? Not after a batch that met a hold (finding 2). |
| `billing_reset` | violation | Is all accepted usage charged? Not when settlement keys repeat after a reset (finding 3). |
| `outbox` | 762,948 | With two workers, a crash, failures and twin events: is a done row delivered, is a suspension never without the cut-off (unless an owner of the panel undoes its own), is a row shared, or put back once done, only after a claim grew stale, does every row end? Yes, unless a row is wedged behind its twin. An event without a handler, as `panel_order.approved` (`web_api.py:1114`) is one, ends dead. |
| `outbox_wedge` | violation | Does every claimed row of a dead worker end? Not when its twin is pending (finding 4). |
| `orders` | 622,456 | Do concurrent handlers, a catalog that is edited and a contested panel admin keep the promise of the funnel, and does nothing that is used get deleted? Yes. |
| `approvals` | 173,784 | With concurrent deciders, a deadline and spending in between: does money move exactly for what was granted, once, in time, within the credit, and is every decision answered? Yes. |
| `bot` | 172,808 | With failing calls, dying consumers, an expiring state and two consumers in one chat: does no update vanish or run twice, does no flow skip a question, does a conversation end once, is every update handled? Yes, up to the accidents the properties name. |
| `hierarchy` | 504,554 | Do concurrent transactions keep the closure table, the contracts and the depth cap, and do the early checks of the setup and of the web's resellers hold at the commit? Yes, but for the depth of the bot's resellers and for overlapping transactions about one person. |

### Bounds and why they are enough

* **Ledger**: two sessions, a chain of three organizations, and a fourth that an order
  opens below the middle one. Every invariant relates
  at most two sessions, and so does a deadlock among two-row transfers. The jobs are
  chosen so that they compete for the middle organization, overlap in keys (a funding key
  sent for two organizations, a usage observed by two collectors), pay with a debt, meet a
  zero price, continue after a hold, and close both cycles that a deadlock can be made of:
  two cascades, and the approval of an order against a correction of its seller. Only the
  two organizations that pay are suspended. `Rank` puts the middle account last, so that row
  order and tree order disagree. Each key posts once, which bounds the ledger. The proofs
  drop all of these bounds for the proved invariants.
* **Billing**: a chain leaf - mid - root, one binding on each payer, two units of traffic
  and one reset for the leaf's binding, one unit for the other; mid pays more than it
  earns, so that a cascade may stop at its second edge. Two observed intervals are what
  a repeated settlement key needs. The collector keeps one reading of each binding there,
  which it may post again and again (`MaxKept`); it posts nothing more of a binding with
  more than one unit accepted (`MaxAccepted`), and fundings stop at `MaxBalance`.
  `ConfirmReadings` is 2, and 3 in the progress run, so that an anomaly count has a value
  between none and confirmed. The progress run has the leaf's binding alone, two kept
  readings, prices that round one unit to zero and three units of traffic to get past it;
  there late posts, a late poll and a reset can meet. Only mid is suspended. The proofs
  drop all of these bounds.
* **Outbox**: two workers (a takeover needs two), any two of three events: two of one
  aggregate (the index needs two), whose organization owns the panel, and one without a
  handler; `MaxAttempts` 2 (a retry and
  a death), one crash, a claim of up to two rows. The attempt count saturates at
  `MaxAttempts`: the code asks only whether it has been reached, and a dead row that a late
  `retry` counts again stays dead. The safety properties are also proved without these bounds.
* **Orders**: one order, two handlers, one plan, one shelf, two terms, one panel admin. Orders
  interact only through the panel admin, which `Bind` contests on behalf of every other
  organization, and through the row of the plan; slugs are unique for each order. Terms
  and sessions are symmetric, and the temporal property is a safety property. All six
  properties are also proved without these bounds.
* **Hierarchy**: three slugs, the root administrator and one more person, two
  transactions at a time, a limit of one level. The limit is reached by a child of the
  workspace and passed by one more, which only the bot makes. Of the roles that
  `/actor-bindings` gives only one is used, the one that may create and decide. Slugs
  are symmetric. All four properties are also proved without these bounds.
* **Bot**: one chat, six updates and two consumers with a batch of two, so that entries
  wait behind others and two handlers may meet; a stream of two, so that trimming bites;
  two faults. Some updates are handled before the consumers start, as those of any
  running bot are: the group goes on where it was, which starting at the end of
  the stream would not. The updates follow ten scripts (`Talks`, `Quiet`, `Reseller`): a
  repeated last answer, a conversation begun over another, buttons out of order, /cancel, a
  decision inside a flow, an update that still has to be posted, a reseller about to be
  made. Chats meet in nothing but the stream. The proofs drop the scripts as well: there
  the updates say anything, and any conversation may be open at the start.
* **Approvals**: a workspace and a reseller, with one manager each; two handlers, which is
  what a race for a row needs; one row of each table, as rows meet only in a wallet, and two
  suffice for that. The correction may be a credit of 1 or a debit of 2 against a credit
  limit of 1, so that it is covered only after the funding and before the spending. `Ttl`
  and `MaxClock` are 1: the deadline may pass while a handler waits for the row. The
  safety properties are also proved without these bounds.

### Fairness and why the code justifies it

* `Ledger!FairSpec`: strong fairness of a session's statements. PostgreSQL queues the
  waiters of a row, so that a session whose row keeps becoming free gets it. Weak fairness
  of the deadlock detector, which runs after `deadlock_timeout`. No fairness of requests,
  disconnections or suspensions.
* `Billing!FairSpec`: the worker polls forever (`worker.py:28`), and is not killed in
  every poll before it reaches a binding (the container restarts unless stopped); the
  collector repeats no reading for ever. No fairness of traffic, posts, resets, fundings or
  the delivery of holds: its row may die or be wedged, and `BilledOrHeld` is content with
  a hold on record, which a refused observation must leave again and again.
* `Outbox!FairSpec`: a worker loops forever, and a killed one is restarted; a
  handler either goes on or fails, and nothing says which; time passes.
* `Approvals!FairSpec`: strong fairness of getting the row, since PostgreSQL queues its
  waiters, and weak fairness of a handler that has it. Nobody has to ask or to decide, and
  time need not pass.

* `Conversation!FairBotSpec`: weak fairness of an update's webhook, since Telegram posts
  until it is answered and a request that runs goes on or fails; weak fairness of each
  consumer, which reads and handles for ever and is restarted when it dies. A handler
  either goes on or fails, and no fault has to happen.

The liveness results and the violation of `outbox_wedge` depend on it; the other
violations are finite behaviours.

## 4. Findings

1. `ledger_deadlock`: the comment at `app.py:285` says that parallel transfers cannot
   deadlock. It holds for transactions of one transfer that have locked nothing else, and
   not for `observe`, which makes one transfer for each parent edge in one transaction.
   `DeadlockNeedsEarlierLocks` states that there is one other way: the approval of an order
   has share-locked the seller's row by its INSERTs (`web_api.py:1092`) and waits for the
   SYSTEM account, while a debit correction of that seller (`web_api.py:665`) holds it and
   waits for the seller's row (`app.py:293`). PostgreSQL aborts one of the two, the caller
   sees an error, and the next poll, or a second click, repeats it. `JobsEnd` shows that
   nothing hangs.
2. `billing_batch`: `/usage/batch` keeps what a refused observation has already
   transferred (`api.py:98`), and the checkpoint does not move. A later, longer interval
   charges the lower levels again.
3. `billing_reset`: a settlement key names binding, interval and child (`app.py:345`).
   After a reset the same interval can come again, and then the old transaction is returned
   and nothing is charged.
4. `outbox_wedge`: `reclaim_stale` returns a row to pending beside a newer pending twin
   (`outbox.py:187`). The unique index refuses the commit, the exception ends the process,
   and each restart meets the same rows. Nothing else is claimed from then on: whatever is
   pending, an event without a handler included, stays so.

Other places where words and code differ, without a run:

* `/usage` takes a reading however old it is and however often it has come
  (`api.py` 86-90; `app.py:330` compares the counter alone). As many posts behind the
  checkpoint in a row as confirm a reset (one less, if a late poll joins them) are
  taken for one that never was, and the traffic after it is accepted a second time.
  `UsageNeverInvented` and its theorem say how many it takes.
* A contract price of 0 is allowed (`api.py:19`, `ge=0`); `transfer` refuses the amount 0
  (`app.py:279`), so no usage below such a contract is ever accepted or charged, on any
  level. `BilledOrHeld` does not excuse it; the prices of its run are above 0.
* `src/SECURITY.md:23` says that requester and approver of a correction cannot be one
  person. `request_adjustment` lets the root administrator request and approve one in
  one call (`web_api.py:688`); it is the action `AdjustDirectly`.
* `src/SECURITY.md:20` says that the bootstrap happens once. `bootstrap_workspace` looks
  for the setting without a lock (`web_api.py:238`) and writes it by a merge (250), so two
  setups that overlap can both commit; `OnlyOverlapsSlip` says that nothing else can.
* `admin_create_reseller` refuses a person who has an organization (`web_api.py` 574-602); the
  bot's `create_reseller`, `bind_actor` and the approval of an order do not ask and give a
  second one.
* The depth cap of `src/README.md:176` is not asked where the bot creates a reseller
  (`telegram_consumer.py` 542-561); `DepthWithinCap` names it as the only exception.
* The comment at `telegram_gateway.py:25` promises that a lost queue write does not
  consume the update id. It can, if a duplicate is answered before the mark is deleted,
  or if the process dies between SET and XADD; `NoUpdateVanishes` names these cases.
* The bot's question about a plan's credit offers "automatic" for the plan's amount and 0
  for none (`telegram_consumer.py` 864-865); both are stored as 0, which `web_api.py:924`
  takes for the amount.
* `outbox.py:1` promises that an event is never duplicated, while a message sent before a
  crash is sent again.
* `src/README.md:38` says that usage is held until it is settled. An organization that is
  bound to a panel of its own can raise its limit at once (`web_api.py:449`), and
  a suspended binding is not polled, so that no poll bills this traffic;
  `SuspendedIsCutOff` names it as the only exception.
* `src/docs/ARCHITECTURE.md:41` describes a funding that settles all levels, while an
  approval makes one transfer from SYSTEM to the organization.

## 5. Proofs

`LedgerProofs` proves, for every set of organizations and sessions, every set of jobs of
any length, every credit limit and every order of account ids:

| Theorem | Statement |
|---|---|
| `LedgerTypeOK` | `Spec => []TypeOK` |
| `LedgerOwnership` | `Spec => []Ownership` |
| `LedgerCreditFloor` | `Spec => []CreditFloor` |
| `LedgerReplay` | `Spec => []ReplayNeverPostsTwice` |
| `LedgerDeadlock` | `Spec => []DeadlockNeedsEarlierLocks` |
| `LedgerAllOrNothing` | `WholeCascades => (Spec => []AllOrNothing)` |
| `LedgerRefinesBook` | `Spec => ImplementsWalletBook` |

Assumptions: SYSTEM is no organization; no session is called `NoSession` and no row `NoRow`; limits are
natural numbers; account ids are distinct; a transfer has two different accounts; a held
job goes on further down in it; and two transfers with one key share an account row. The last, `KeyAssumption`, is where the
code's keys matter: a key made from a binding, a request or an order fixes its accounts,
and a key chosen by a client occurs in fundings only, all of which are paid by
SYSTEM. A client that chose a key in the form the code builds for itself is outside the
assumption.

`CreditFloor` is not inductive: a session that has read its balance is about to debit it.
The inductive invariant is `TypeOK /\ Ownership /\ ReadsHold`. `Ownership` says that
uncommitted updates, postings and the transfer under way lie on account rows the session
has locked; so no other session can change a balance between the read in `Recheck` and the
commit. `ReadsHold` says that the balance read is still the balance, that a debit
which passed the check is covered, and that each open transaction would leave
each organization within its limit. The floor then survives `Commit`. For
`ReplayNeverPostsTwice` the invariant is `TypeOK /\ Ownership /\ KeysFresh`: between the
second look at the key and the INSERT nobody posts it, since a transfer of that key
shares an account row, which the session holds. The proofs have one step for each action;
`Frame`, `OwnsFrame` and `FreshOther` say once what a step of another session leaves
alone. All three parts were checked by TLC first.

`LedgerDeadlock` needs `FirstTransfer` and `FirstRow`: a session at its first transfer
holds no account and organization rows but those of this transfer, the accounts of a lower
rank than any it still needs, and no row of a caller but its own. In a cycle of such
sessions in which nobody waits for a shared row, everybody waits for an account row, and
whoever waits for a session waits for a lower row than the session does; but one of the
awaited rows is the lowest.

`LedgerAllOrNothing` has a hypothesis about the callers, `WholeCascades`: a key of a
cascade belongs to the same cascade wherever it occurs. It is what `app.py:345` builds, where
the key names the binding, both ends of the interval and the payer. `MCLedger` satisfies
it (TLC evaluates it as `MCCascades`). The exception in the code is a batch that holds in
the middle of an interval and a poll that observes the same interval; `Billing` follows that case
(`cut`), and finding 2 is about it. `AllOrNothing` becomes inductive with `CascadeProgress`:
nothing is in the ledger that no job asked for, a session writes transfers of its own job
only, and one that runs a cascade has every transfer it is past in the ledger or among what
it has written. At a commit it is past all of them.

`LedgerRefinesBook` maps `Commit` to `Post(mine[s])`, `SetStatus` to `Toggle` and every
other step to a stutter. What `Post` asks of the group comes from `OneGroup` (the balance updates
of a session are the net of its postings, no two of them have the same key, none of the
keys is in the ledger, and every payer is active and its row is locked by the session) and from
the invariants of the floor. `Net` is a fold over a set of postings; that a posting that is
added changes it by its amount, is a lemma about every finite set.

`BillingProofs` proves, for every tree, path, price list, set of bindings, amount of
traffic and number of resets:

| Theorem | Statement |
|---|---|
| `BillingTypeOK` | `Spec => []TypeOK` |
| `BillingUsage` | `Spec => []UsageNeverInvented` |
| `BillingCharges` | `Spec => []ChargesMatchAccepted` |
| `BillingNotTwice` | `Spec => []NotTwiceOutsideBatches` |

Assumptions: prices, coefficients, limits and bounds are natural numbers, a GiB and the
number of confirmations are positive, there are finitely many bindings, a path consists of
paying organizations, as do those that are suspended, and `NoReading` is no reading. No
number of readings, posts or repetitions is assumed. What the two statements say of a binding
they say while it is `Orderly`: its panel was not reset, and fewer than `ConfirmReadings - 1`
posts in a row were behind the checkpoint (at the default 3 of `app.py:322`, at most one).
The instance of `billing_progress` reaches three in a row, and there usage is invented.

A step of the database is described for each binding (`BindingStep`): its checkpoint,
accepted usage and settled rows stay, or one reading was observed and moved them
(`Moved`), or a batch kept what a refused observation had written (`Refused`). `ObserveMoves`
shows it of `observe`, by `EdgeStep` and an induction along the path, `AloneMoves` of poll and
`/usage`, `BatchMoves` of a batch. `UsageNeverInvented` needs `FewLateReadings`: the anomalies
counted since the checkpoint moved are the late posts of `stray` and at most one reading of
the worker, because a poll that starts later reads a counter that is not behind the
checkpoint; so they stay below what confirms a reset. `ChargesMatchAccepted` needs `IntervalsPaid`: only an accepted
observation completes an interval, and what a payer was charged for complete intervals
stays within what was accepted, also between a cut batch and its retry. Both were
checked by TLC on `MCBilling` first. `BillingNotTwice` follows from the two: what a README
line promises and `billing_batch` refutes (finding 2) holds for every orderly binding which no
batch has left charged on some levels only.

Sums and cascades are folds of the community modules, and the library's induction theorems
cannot be used for them. `FoldExists` and `FoldUnique` show, for any finite set, that the recursive
function behind a fold exists and is unique, from the well-foundedness of strict inclusion
(`LeastSubset`, `SetInduction`): a counterexample would have a least one. In `LedgerProofs`
the same argument is made for `Net`.

`OrdersProofs` proves, for every number of orders, plans, shelves, panels, sellers, panel
admins and sessions:

| Theorem | Statement |
|---|---|
| `OrdersTypeOK` | `Spec => []TypeOK` |
| `OrdersReadsHold` | `Spec => []SessionsHold` |
| `OrdersAccountIffApproved` | `Spec => []AccountIffApproved` |
| `OrdersConfirmedAsShown` | `Spec => []ConfirmedAsShown` |
| `OrdersOpenedAsAgreed` | `Spec => []OpenedAsAgreed` |
| `OrdersNothingUsedIsDeleted` | `Spec => []NothingUsedIsDeleted` |
| `OrdersImplementFunnel` | `Spec => ImplementsFunnel` |

The one assumption is `OrdersAssumption`: the values that stand for "none" are no
plan, shelf, terms, admin, session or order. The inductive invariant is `IInv`, the conjunction of
`TypeOK`, `PricedWhenQuoted` and `SessionsHold`. `SessionsHold` is the heart: a handler that
has locked a row holds what it has read and checked until it commits; an order about to be
inserted is known to no other session; and the quote that a waiting confirmation
shows is the quote of the row, since a row with terms is not quoted again
(`PricedWhenQuoted`). `TypeOK` needs both, for an account takes its terms and its parent from
the row and the request. The three properties about accounts and agreed terms are proved
together (`Sound`), because each uses another one: an agreement changes only while there is no
account. A commit is described once (`InsertWrites`, `QuoteWrites`, `AdvanceWrites`,
`ApproveWrites`), and `OtherRow` says that it cannot touch a row another session holds. The
refinement maps each of the four commits to its step of `OrderFunnel`.

`ApprovalsProofs` proves, for every tree, every set of people, rows, sessions and amounts,
every deadline and every clock:

| Theorem | Statement |
|---|---|
| `ApprovalsTypeOK` | `Spec => []TypeOK` |
| `ApprovalsMoneyFollowsDecision` | `Spec => []MoneyFollowsDecision` |
| `ApprovalsWithinCredit` | `Spec => []WithinCredit` |
| `ApprovalsDecidedForGood` | `Spec => DecidedForGood` |
| `ApprovalsOnlyAskedInTime` | `Spec => OnlyAskedInTime` |

Assumptions: a funding asks for a positive amount and a correction for one other than zero
(the request models of `web_api.py`); limits, `Ttl` and the clock's bound are natural numbers;
`NoOne` is no organization, actor or session; and the two tables share no row. The
inductive invariant is `TypeOK /\ RowsHeld /\ OthersAsk /\ MoneyFollowsDecision /\
WithinCredit`. `RowsHeld` is the reason why two deciders cannot both succeed: a handler that
has found its row pending, in its branch and in time holds the row's lock, so the row is
still so when it decides. `MoneyFollowsDecision` needs it, because a posting is found by its
key: if a row could be decided twice, the second verdict would find the first posting.
`OthersAsk` says that a pending correction was not asked for by the root administrator,
whose corrections are applied at once; hence every verdict of a handler is announced and
no direct one is.

`OutboxProofs` proves, for every finite set of numbered events, every number of workers, every
claim limit and number of attempts, rows and crashes:

| Theorem | Statement |
|---|---|
| `OutboxTypes` | `Spec => []TypeOK` |
| `DoneIsDelivered` | `Spec => []DoneMeansDelivered` |
| `SuspensionsAreCutOff` | `Spec => []SuspendedIsCutOff` |
| `ClaimsAreExclusive` | `Spec => []SharedOnlyWhenOverdue` |
| `DoneStays` | `Spec => DoneStaysUnlessOverdue` |

The assumption is `OutboxAssumption`. The inductive invariant is `OutboxInv`: `TypeOK`,
`DoneMeansDelivered`, `CutInv`, `WorkerInv` and `ClaimInv`. That a message was sent, an
admin cut off or a binding suspended is never unmade (`Grows`), so a worker's
position says what has happened to the event at the head of its batch: this is `WorkerInv`,
and `complete` needs it, for it marks a row done without looking. `CutInv` splits
`SuspendedIsCutOff` into what the handler does and what owners may do. `ClaimInv` says that a row
in a worker's batch is claimed, or a claim on it has grown stale, and that two workers
have a row only in the second case; a claim takes pending rows, so it cannot take one
that somebody holds. `DoneStays` follows: what puts a row back is a `retry` or a
`reclaim_stale` of a worker that had or has read the row as claimed, and if it is done by
then, another worker has completed it.

`HierarchyProofs` proves, for every number of organizations, people and transactions and
every depth limit:

| Theorem | Statement |
|---|---|
| `HierarchyTypes` | `Spec => []TypeOK` |
| `ClosureIsTheTree` | `Spec => []ClosureIsTreeOrder` |
| `NoneTooDeep` | `Spec => []DepthWithinCap` |
| `SlipsNeedOverlap` | `Spec => OnlyOverlapsSlip` |

The assumption is `HierarchyAssumption` (values for "none" are no organization and
no person, the root administrator is a person, the limit is a number). The inductive
invariant `HInv` adds `ReadsInv` and `MetInv`. `ReadsInv` says that what an open
transaction has read is still so: its parent exists, with the depth it was allowed for,
because organizations and closure rows are only added and the rows below an organization
never change. What can stop being true is that a person has no organization and
that the workspace is not set up; `MetInv` says that whoever made it false met the
transaction, so the person is in `crossed`. `SlipsNeedOverlap` speaks of the two
handlers that look whether it was made false, the first setup and the web's reseller. `ClosureIsTreeOrder` is stated row by row,
without paths or recursion, which makes it inductive by itself: a new organization adds
the rows of its parent, one deeper, and nobody stands below it.

`GatewayProofs` and `ConversationProofs` prove, for every number of updates, consumers,
chats and faults, every batch size and stream length, and whatever the updates say:

| Theorem | Statement |
|---|---|
| `QueueIsSafe` | `QueueSpec => [](NoUpdateVanishes /\ QueuedOnce /\ EachEntryOnce)`, with the types |
| `BotTypeCorrect` | `BotSpec => []BotTypeOK` |
| `NothingVanishes` | `BotSpec => []NoUpdateVanishes` |
| `OnceInTheStream` | `BotSpec => []QueuedOnce` |
| `OneHandlerPerEntry` | `BotSpec => []EachEntryOnce` |
| `AllQuestionsAnswered` | `BotSpec => []EveryQuestionAnswered` |
| `ConversationsEndOnce` | `BotSpec => []EndsOnce` |

Assumptions: `GatewayAssumption` (positive batch and stream length; a backlog holds an
update once) and `StartAssumption` (updates say something of the known forms). The
gateway's invariant `QInv` adds that an update that is marked is queued, on its way or
cursed; that a running request has its mark; and that an update which may be queued
again although it is in the stream was written by a call that was reported as failed
(`HookHolds`). That one is `doubled`: `QueuedOnce` says of all others that they are in
the stream once, and `EachEntryOnce` speaks of entries, so a doubled update may be handled
once for each of its two. It carries over to the bot, since each of its steps is a step of the queue
or leaves the queue alone (`BotQueue`). `BotInv` then adds what a handler holds between
two calls (`HandlerInv`), that states, handlers and results have one answer for each
question so far (`AnswersInv`), that a conversation belongs to the chat of the entry that
began it (`PlaceInv`), and the order of a chat: while no two handlers have overlapped in
it, an entry under way is older than all that wait, and a conversation is older than its
answers (`OrderInv`). With `OrderInv`, a conversation that has ended is nowhere but
with the handler that is about to clear it (`EndInv`): only an entry that comes later can
begin another one, and it has another number. Without the order this would fail, and
`EndsOnce` excuses exactly that case.

Every invariant, action property and refinement that a passing run checks is stated by a
theorem. Only model-checked: liveness (`JobsEnd`, `BilledOrHeld`, `SettlesUnlessWedged`,
`DecisionsEnd`, `HandledInTheEnd`), which needs fairness and ENABLED,
both out of reach of this prover. The four violations are counterexamples TLC finds.

## 6. Not modelled

* Panel operations and the PasarGuard client: one HTTP call for each request, without
  state of their own. The two calls that matter for money, which set the limit of an admin,
  are in `Outbox`.
* RBAC, authentication, secrets: pure checks and conversions. In the models the checks
  appear as who may act (`Permitted` in `Orders`, `Matrix` in `Hierarchy`, the guards of `Approvals`).
* Rate limiter and metrics: counters of one process that no other state depends on. (The
  limiter's docstring at `observability.py:85` calls its sliding window a fixed one.)
* Migrations: one process applies idempotent files under an advisory lock; the constraints
  they make are in `Outbox`, `Orders` and `Hierarchy`.
* Web app, scripts, deployment: every decision is made again by the server.
* Inside the modelled parts: audit rows, names and descriptions, the audience of a
  notification as single messages, the enqueue of a notice after a usage reset, two first
  readings of one binding at the same moment, two observations of one binding in one
  batch, and what a bot's answer must look like.
* In `Ledger`: the INSERT of a wallet that does not exist yet, and whether a row waited for
  FOR UPDATE is ever free when ever new transactions share it, which two sessions cannot show.
* Hazards without a property, each with its reason in `PROJECT.json`: that a suspended
  binding is never activated again, that a person with two memberships acts for different
  ones in bot and web, that part of an audience gets a message twice, that the second of two twin
  producers fails, and that the announcement of a decision goes to nobody.

## 7. Plan

Done: every module of the first plan; the catalog in full; the safety of every module
proved.

Next, in this order:

1. A small module of the rate limiter (`observability.py` 90-118): a window that slides
   while requests of one key come at once.
2. The refinement of the bot's commits to the moves of `Orders`, so that what a
   conversation shows before a confirmation is what `ConfirmedAsShown` speaks of.
3. The promise of `Outbox` and of `Approvals` as abstract specifications of their own, in
   the way of `WalletBook` and `OrderFunnel`.
