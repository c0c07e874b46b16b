------------------------------- MODULE Orders -------------------------------
(***************************************************************************)
(* The customer funnel and the plan catalog.  Web and bot handlers run the *)
(* same functions in database transactions of their own: a handler locks   *)
(* the order's row, checks the transition, the person and the seller, and  *)
(* commits the change; an approval also creates the customer's             *)
(* organization, its contract, its opening transfer and its binding.       *)
(* Plans, their shelves and the sale list are read without a lock while    *)
(* they are edited; what the edits check first, the foreign keys check     *)
(* again, so that an edit is one step.                                     *)
(* Amount, price, credit and payment text of an order are one value here.  *)
(***************************************************************************)
EXTENDS FiniteSets

CONSTANTS
  Orders,     \* orders that may come to exist; an order's slug stands for it
  Buyer,      \* actor who places an order
  Panel,      \* panel it is placed on
  Owner,      \* panel_owners.organization_id
  RoomBelow,  \* organizations under which the depth cap leaves room
  Plans,      \* plans the catalog may come to hold
  Shelves,    \* plan categories it may come to hold
  Keeper,     \* plan_categories.organization_id
  Terms,      \* commercial terms somebody may quote
  Admins,     \* panel admin ids
  Sessions,   \* concurrent database sessions
  NoOne, NoPlan, NoShelf, NoTerms, NoAdmin

Buyers == {Buyer[o] : o \in Orders}
Panels == {Panel[o] : o \in Orders}
Sellers == {Owner[p] : p \in Panels}

ASSUME OrdersAssumption ==
  /\ NoPlan \notin Plans /\ NoShelf \notin Shelves /\ NoTerms \notin Terms
  /\ NoAdmin \notin Admins /\ NoOne \notin Sessions /\ NoOne \notin Orders

Statuses == {"pending", "quoted", "confirmed", "payment_declared",
             "approved", "rejected", "cancelled"}

ReopenedFlow(from) ==  \* fault: a quoted order may be quoted again
  CASE from = "pending" -> {"quoted", "rejected", "cancelled"}
    [] from = "quoted" -> {"quoted", "confirmed", "rejected", "cancelled"}
    [] from = "confirmed" -> {"payment_declared", "rejected", "cancelled"}
    [] from = "payment_declared" -> {"approved", "rejected"}
    [] OTHER -> {}
OrderFlow(from) ==
  CASE from = "pending" -> {"quoted", "rejected", "cancelled"}
    [] from = "quoted" -> {"confirmed", "rejected", "cancelled"}
    [] from = "confirmed" -> {"payment_declared", "rejected", "cancelled"}
    [] from = "payment_declared" -> {"approved", "rejected"}
    [] OTHER -> {}

OrderRow == [status: Statuses \union {"none"}, plan: Plans \union {NoPlan},
             terms: Terms \union {NoTerms}, admin: Admins \union {NoAdmin}]
NoRow == [status |-> "none", plan |-> NoPlan, terms |-> NoTerms, admin |-> NoAdmin]

(* A request to move an order.  terms: what a seller quotes, or what the   *)
(* customer has on the screen when confirming; admin: the panel admin a    *)
(* seller attaches to a quote or to an approval.                           *)
CustomerMoves == {"confirmed", "payment_declared", "cancelled"}
SellerMoves == {"quoted", "rejected", "approved"}
Request == [order: Orders, to: CustomerMoves \union SellerMoves, by: Buyers \union Sellers,
            terms: Terms \union {NoTerms}, admin: Admins \union {NoAdmin}]
(* A request to place an order, by hand or for a plan.                     *)
Placement == [order: Orders, plan: Plans \union {NoPlan}]
Nothing == [order |-> NoOne]

VARIABLES
  orders,    \* panel_orders
  plans,     \* plans: panel, shelf, terms and status
  shelves,   \* plan_categories.status
  saleable,  \* panels on the sale list
  accounts,  \* organizations made by approvals, with opening terms and binding
  bound,     \* bindings other organizations have: panel and panel admin
  lock,      \* session holding an order's row
  pc,
  req,       \* the request a session works on
  seen,      \* the row it has read: of the order, or of the one it inserts
  agreed     \* history: the quote an order's customer said yes to

dbVars == <<orders, plans, shelves, saleable, accounts, bound>>
sessionVars == <<lock, pc, req, seen>>
vars == <<dbVars, sessionVars, agreed>>

(* An id that is deleted is never used again.                              *)
PlanRow == [panel: Panels, shelf: Shelves \union {NoShelf}, terms: Terms,
            status: {"active", "inactive"}]
NotYet == [status |-> "unused"]
Gone == [status |-> "gone"]
Listed(p) == plans[p].status \in {"active", "inactive"}
Account == [order: Orders, parent: Sellers, terms: Terms,
            panel: Panels, admin: Admins \union {NoAdmin}]

Init ==
  /\ orders = [o \in Orders |-> NoRow]
  /\ plans = [p \in Plans |-> NotYet]
  /\ shelves = [c \in Shelves |-> "none"]
  /\ saleable = Panels
  /\ accounts = {}
  /\ bound = {}
  /\ lock = [o \in Orders |-> NoOne]
  /\ pc = [s \in Sessions |-> "idle"]
  /\ req = [s \in Sessions |-> Nothing]
  /\ seen = [s \in Sessions |-> NoRow]
  /\ agreed = [o \in Orders |-> NoTerms]

-----------------------------------------------------------------------------
(* Placing an order.                                                       *)

End(s) ==
  /\ lock' = [o \in Orders |-> IF lock[o] = s THEN NoOne ELSE lock[o]]
  /\ pc' = [pc EXCEPT ![s] = "idle"]
  /\ req' = [req EXCEPT ![s] = Nothing]
  /\ seen' = [seen EXCEPT ![s] = NoRow]

Rollback(s) == End(s) /\ UNCHANGED <<dbVars, agreed>>

(* create_panel_order(): an open panel and, for a plan, an open plan on    *)
(* it and on an open shelf; the plan prices the order and makes it quoted  *)
(* at once.                                                                *)
OpenFor(x) ==
  /\ Panel[x.order] \in saleable
  /\ x.plan # NoPlan =>
       /\ plans[x.plan].status = "active"
       /\ plans[x.plan].panel = Panel[x.order]
       /\ plans[x.plan].shelf # NoShelf =>
            /\ shelves[plans[x.plan].shelf] = "active"
            /\ Keeper[plans[x.plan].shelf] = Owner[plans[x.plan].panel]
PricedStatus(x) ==  \* fault: a status that no transition knows
  IF x.plan = NoPlan THEN [NoRow EXCEPT !.status = "pending"]
  ELSE [NoRow EXCEPT !.status = "priced", !.plan = x.plan, !.terms = plans[x.plan].terms]
Priced(x) ==
  IF x.plan = NoPlan THEN [NoRow EXCEPT !.status = "pending"]
  ELSE [NoRow EXCEPT !.status = "quoted", !.plan = x.plan, !.terms = plans[x.plan].terms]

Place(s, x) ==
  /\ pc[s] = "idle"
  /\ orders[x.order].status = "none"
  /\ \A t \in Sessions : req[t].order # x.order  \* a new row has an id of its own
  /\ OpenFor(x)
  /\ pc' = [pc EXCEPT ![s] = "placing"]
  /\ req' = [req EXCEPT ![s] = x]
  /\ seen' = [seen EXCEPT ![s] = Priced(x)]
  /\ UNCHANGED <<dbVars, lock, agreed>>

(* The INSERT is sent with the commit; its foreign key needs the plan.     *)
InsertUnreferenced(s) ==  \* fault: plan_id does not reference plans
  /\ pc[s] = "placing"
  /\ orders' = [orders EXCEPT ![req[s].order] = seen[s]]
  /\ End(s)
  /\ UNCHANGED <<plans, shelves, saleable, accounts, bound, agreed>>
Insert(s) ==
  /\ pc[s] = "placing"
  /\ seen[s].plan # NoPlan => Listed(seen[s].plan)
  /\ orders' = [orders EXCEPT ![req[s].order] = seen[s]]
  /\ End(s)
  /\ UNCHANGED <<plans, shelves, saleable, accounts, bound, agreed>>

InsertRefused(s) ==
  /\ pc[s] = "placing"
  /\ seen[s].plan # NoPlan /\ ~Listed(seen[s].plan)
  /\ Rollback(s)

-----------------------------------------------------------------------------
(* Moving an order along.                                                  *)

(* Nobody confirms a quote that was not on the screen; a click may be      *)
(* handled late, twice, or come from somebody else's account.              *)
Begin(s, r) ==
  /\ pc[s] = "idle"
  /\ orders[r.order].status # "none"
  /\ r.to = "confirmed" => r.terms = orders[r.order].terms
  /\ pc' = [pc EXCEPT ![s] = "waiting"]
  /\ req' = [req EXCEPT ![s] = r]
  /\ UNCHANGED <<dbVars, lock, seen, agreed>>

Permitted(r) ==
  IF r.to \in CustomerMoves THEN r.by = Buyer[r.order] ELSE r.by = Owner[Panel[r.order]]

ReadOrder(s) ==  \* fault: SELECT without FOR UPDATE
  /\ pc[s] = "waiting"
  /\ req[s].to \in OrderFlow(orders[req[s].order].status)
  /\ Permitted(req[s])
  /\ seen' = [seen EXCEPT ![s] = orders[req[s].order]]
  /\ pc' = [pc EXCEPT ![s] = "holding"]
  /\ UNCHANGED <<dbVars, lock, req, agreed>>

(* locked_order(), then the checks of the person and of the seller.        *)
LockOrder(s) ==
  /\ pc[s] = "waiting"
  /\ lock[req[s].order] = NoOne
  /\ req[s].to \in OrderFlow(orders[req[s].order].status)
  /\ Permitted(req[s])
  /\ lock' = [lock EXCEPT ![req[s].order] = s]
  /\ seen' = [seen EXCEPT ![s] = orders[req[s].order]]
  /\ pc' = [pc EXCEPT ![s] = "holding"]
  /\ UNCHANGED <<dbVars, req, agreed>>

Refuse(s) ==
  /\ pc[s] = "waiting"
  /\ lock[req[s].order] = NoOne
  /\ \/ req[s].to \notin OrderFlow(orders[req[s].order].status)
     \/ ~Permitted(req[s])
  /\ Rollback(s)

Holding(s, moves) == pc[s] = "holding" /\ req[s].to \in moves

Quote(s) ==
  /\ Holding(s, {"quoted"})
  /\ orders' = [orders EXCEPT ![req[s].order].status = "quoted",
                              ![req[s].order].terms = req[s].terms,
                              ![req[s].order].admin = req[s].admin]
  /\ End(s)
  /\ UNCHANGED <<plans, shelves, saleable, accounts, bound, agreed>>

(* advance_customer_order() and reject_panel_order(): only the status (and *)
(* who decided) changes.                                                   *)
Advance(s) ==
  /\ Holding(s, CustomerMoves \union {"rejected"})
  /\ orders' = [orders EXCEPT ![req[s].order].status = req[s].to]
  /\ agreed' = IF req[s].to = "confirmed"
                 THEN [agreed EXCEPT ![req[s].order] = req[s].terms] ELSE agreed
  /\ End(s)
  /\ UNCHANGED <<plans, shelves, saleable, accounts, bound>>

(* The admin to bind: the one of the quote, else the one attached now.     *)
AdminToBind(s) == IF seen[s].admin = NoAdmin THEN req[s].admin ELSE seen[s].admin

(* Unique slug of organizations, unique (panel, admin) of bindings, and    *)
(* assert_depth_allowed().                                                 *)
Bound == bound \union {[panel |-> a.panel, admin |-> a.admin] : a \in accounts}
MayOpen(s) ==
  /\ req[s].by \in RoomBelow
  /\ \A a \in accounts : a.order # req[s].order
  /\ AdminToBind(s) # NoAdmin =>
       [panel |-> Panel[req[s].order], admin |-> AdminToBind(s)] \notin Bound

ApproveAtPlanPrice(s) ==  \* fault: a plan order is funded at the plan's present price
  LET o == req[s].order
      price == IF seen[s].plan # NoPlan /\ Listed(seen[s].plan)
               THEN plans[seen[s].plan].terms ELSE seen[s].terms
  IN  /\ Holding(s, {"approved"})
      /\ MayOpen(s)
      /\ accounts' = accounts \union
           {[order |-> o, parent |-> req[s].by, terms |-> price,
             panel |-> Panel[o], admin |-> AdminToBind(s)]}
      /\ orders' = [orders EXCEPT ![o].status = "approved", ![o].admin = AdminToBind(s)]
      /\ End(s)
      /\ UNCHANGED <<plans, shelves, saleable, bound, agreed>>

(* approve_panel_order(): organization, contract, opening transfer,        *)
(* membership and binding in the transaction that marks the order.         *)
Approve(s) ==
  LET o == req[s].order
  IN  /\ Holding(s, {"approved"})
      /\ MayOpen(s)
      /\ accounts' = accounts \union
           {[order |-> o, parent |-> req[s].by, terms |-> seen[s].terms,
             panel |-> Panel[o], admin |-> AdminToBind(s)]}
      /\ orders' = [orders EXCEPT ![o].status = "approved", ![o].admin = AdminToBind(s)]
      /\ End(s)
      /\ UNCHANGED <<plans, shelves, saleable, bound, agreed>>

ApproveRefused(s) ==
  /\ Holding(s, {"approved"})
  /\ ~MayOpen(s)
  /\ Rollback(s)

Disconnect(s) == pc[s] # "idle" /\ Rollback(s)

-----------------------------------------------------------------------------
(* The catalog.                                                            *)

Bought(p) == \E o \in Orders : orders[o].status # "none" /\ orders[o].plan = p

OnShelf(c) == {p \in Plans : Listed(p) /\ plans[p].shelf = c}

CreateShelf(c) ==
  /\ shelves[c] = "none"
  /\ shelves' = [shelves EXCEPT ![c] = "active"]
  /\ UNCHANGED <<orders, plans, saleable, accounts, bound, sessionVars, agreed>>

SetShelfStatus(c, st) ==
  /\ shelves[c] # "none"
  /\ shelves' = [shelves EXCEPT ![c] = st]
  /\ UNCHANGED <<orders, plans, saleable, accounts, bound, sessionVars, agreed>>

DeleteShelfAnyway(c) ==  \* fault: its plans are not asked for, nor kept by the database
  /\ shelves[c] # "none"
  /\ shelves' = [shelves EXCEPT ![c] = "none"]
  /\ UNCHANGED <<orders, plans, saleable, accounts, bound, sessionVars, agreed>>
DeleteShelf(c) ==
  /\ shelves[c] # "none"
  /\ OnShelf(c) = {}
  /\ shelves' = [shelves EXCEPT ![c] = "none"]
  /\ UNCHANGED <<orders, plans, saleable, accounts, bound, sessionVars, agreed>>

(* validated_plan(): a shelf of the seller who owns the panel.             *)
MayStand(panel, c) == c # NoShelf => shelves[c] # "none" /\ Keeper[c] = Owner[panel]

CreatePlan(p, panel, c, t) ==
  /\ plans[p] = NotYet
  /\ MayStand(panel, c)
  /\ plans' = [plans EXCEPT ![p] = [panel |-> panel, shelf |-> c, terms |-> t, status |-> "active"]]
  /\ UNCHANGED <<orders, shelves, saleable, accounts, bound, sessionVars, agreed>>

SetPlanStatus(p, st) ==
  /\ Listed(p)
  /\ plans' = [plans EXCEPT ![p].status = st]
  /\ UNCHANGED <<orders, shelves, saleable, accounts, bound, sessionVars, agreed>>

(* A new price, another shelf, or another panel of the same seller.        *)
UpdatePlan(p, panel, c, t) ==
  /\ Listed(p)
  /\ Owner[panel] = Owner[plans[p].panel]
  /\ MayStand(panel, c)
  /\ plans' = [plans EXCEPT ![p].panel = panel, ![p].shelf = c, ![p].terms = t]
  /\ UNCHANGED <<orders, shelves, saleable, accounts, bound, sessionVars, agreed>>

DeletePlan(p) ==
  /\ Listed(p)
  /\ ~Bought(p)
  /\ plans' = [plans EXCEPT ![p] = Gone]
  /\ UNCHANGED <<orders, shelves, saleable, accounts, bound, sessionVars, agreed>>

(* From the web and from the bot, whose toggle_catalog() reads the status  *)
(* and writes the other one.                                               *)
EditShelf(c) ==
  \/ CreateShelf(c) \/ DeleteShelf(c)
  \/ \E st \in {"active", "inactive"} : SetShelfStatus(c, st)
EditPlan(p) ==
  \/ DeletePlan(p)
  \/ \E st \in {"active", "inactive"} : SetPlanStatus(p, st)
  \/ \E panel \in Panels, c \in Shelves \union {NoShelf}, t \in Terms :
       CreatePlan(p, panel, c, t) \/ UpdatePlan(p, panel, c, t)

SetSaleable(p) ==
  /\ saleable' = IF p \in saleable THEN saleable \ {p} ELSE saleable \union {p}
  /\ UNCHANGED <<orders, plans, shelves, accounts, bound, sessionVars, agreed>>

(* POST /v1/bindings, for an organization that did not order here.         *)
Bind(p, x) ==
  /\ [panel |-> p, admin |-> x] \notin Bound
  /\ bound' = bound \union {[panel |-> p, admin |-> x]}
  /\ UNCHANGED <<orders, plans, shelves, saleable, accounts, sessionVars, agreed>>

Handle(s) ==
  \/ Insert(s) \/ InsertRefused(s)
  \/ LockOrder(s) \/ Refuse(s)
  \/ Quote(s) \/ Advance(s) \/ Approve(s) \/ ApproveRefused(s)

(* The requests the forms allow: terms are required to quote, and an admin *)
(* may come with a quote or an approval.                                   *)
WellFormed(r) ==
  /\ r.terms # NoTerms <=> r.to \in {"quoted", "confirmed"}
  /\ r.admin # NoAdmin => r.to \in {"quoted", "approved"}

Next ==
  \/ \E s \in Sessions :
       \/ \E x \in Placement : Place(s, x)
       \/ \E r \in Request : WellFormed(r) /\ Begin(s, r)
       \/ Handle(s) \/ Disconnect(s)
  \/ \E c \in Shelves : EditShelf(c)
  \/ \E p \in Plans : EditPlan(p)
  \/ \E p \in Panels : SetSaleable(p) \/ \E x \in Admins : Bind(p, x)

Spec == Init /\ [][Next]_vars

-----------------------------------------------------------------------------

TypeOK ==
  /\ orders \in [Orders -> OrderRow]
  /\ plans \in [Plans -> PlanRow \union {NotYet, Gone}]
  /\ shelves \in [Shelves -> {"none", "active", "inactive"}]
  /\ saleable \subseteq Panels
  /\ accounts \subseteq Account
  /\ bound \subseteq [panel: Panels, admin: Admins]
  /\ lock \in [Orders -> Sessions \union {NoOne}]
  /\ pc \in [Sessions -> {"idle", "placing", "waiting", "holding"}]
  /\ req \in [Sessions -> Request \union Placement \union {Nothing}]
  /\ seen \in [Sessions -> OrderRow]
  /\ agreed \in [Orders -> Terms \union {NoTerms}]

(* An order has an account exactly when it is approved: neither a rejection*)
(* nor a cancellation that raced with the approval leaves an organization  *)
(* and its opening balance behind, and no approval is lost.                *)
AccountIffApproved ==
  \A o \in Orders : orders[o].status = "approved" <=> \E a \in accounts : a.order = o

(* The quote a customer was shown when confirming is the quote the order   *)
(* still carries, however late the click and whoever priced it meanwhile.  *)
ConfirmedAsShown ==
  \A o \in Orders : orders[o].status \in {"confirmed", "payment_declared", "approved"} =>
    orders[o].terms = agreed[o]

(* The account is opened with the terms its customer agreed to, below the  *)
(* owner of the ordered panel, once (approve_panel_order); repricing the   *)
(* plan changes the next sale only.                                        *)
OpenedAsAgreed ==
  /\ \A a \in accounts : a.terms = agreed[a.order] /\ a.parent = Owner[Panel[a.order]]
  /\ \A a, b \in accounts : a.order = b.order => a = b

(* "An order keeps its price history, so a plan that was ever bought is    *)
(* only ever closed", and a plan stands on a shelf of its own seller that  *)
(* is still there, whatever was placed, moved and deleted at once          *)
(* (web_delete_plan, web_delete_category, validated_plan).                 *)
NothingUsedIsDeleted == \A p \in Plans :
  /\ Bought(p) => Listed(p)
  /\ Listed(p) => MayStand(plans[p].panel, plans[p].shelf)

(* Every commit is one step of the funnel; sessions, locks and the catalog *)
(* are not visible in it.                                                  *)
Funnel == INSTANCE OrderFunnel WITH
  state <- [o \in Orders |-> orders[o].status],
  deal <- [o \in Orders |-> orders[o].terms],
  opened <- {[order |-> a.order, terms |-> a.terms] : a \in accounts}
ImplementsFunnel == Funnel!Spec

-----------------------------------------------------------------------------
(* Why the properties hold: the parts of the inductive invariant that      *)
(* OrdersProofs establishes.                                               *)

(* An order is without terms until it is quoted, and never after.          *)
PricedWhenQuoted ==
  \A o \in Orders :
    /\ orders[o].status \in {"none", "pending"} => orders[o].terms = NoTerms
    /\ orders[o].status \in {"quoted", "confirmed", "payment_declared", "approved"} =>
         orders[o].terms # NoTerms

(* What a session is about to insert is nobody else's; a row it waits for  *)
(* exists, and shows the quote it confirms; a row it has locked is still   *)
(* the row it has read and checked.                                        *)
PlacesAlone(s) ==
  /\ req[s] \in Placement
  /\ orders[req[s].order].status = "none"
  /\ \A t \in Sessions \ {s} : req[t].order # req[s].order
  /\ seen[s].status \in {"pending", "quoted"}
  /\ seen[s].status = "pending" <=> seen[s].terms = NoTerms
Asks(s) ==
  /\ req[s] \in Request /\ WellFormed(req[s])
  /\ orders[req[s].order].status # "none"
  /\ req[s].to = "confirmed" => req[s].terms = orders[req[s].order].terms
HoldsRow(s) ==
  /\ lock[req[s].order] = s
  /\ seen[s] = orders[req[s].order]
  /\ req[s].to \in OrderFlow(seen[s].status)
  /\ Permitted(req[s])

SessionsHold ==
  \A s \in Sessions :
    /\ pc[s] = "idle" => req[s] = Nothing
    /\ pc[s] = "placing" => PlacesAlone(s)
    /\ pc[s] \in {"waiting", "holding"} => Asks(s)
    /\ pc[s] = "holding" => HoldsRow(s)
=============================================================================
