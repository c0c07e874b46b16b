---------------------------- MODULE OrdersProofs ----------------------------
(***************************************************************************)
(* Safety of the order funnel for every number of orders, plans, panels,   *)
(* sellers and database sessions, and the promise it implements.           *)
(***************************************************************************)
EXTENDS Orders, TLAPS

IInv == TypeOK /\ PricedWhenQuoted /\ SessionsHold

-----------------------------------------------------------------------------
(* Facts about requests and about the ways a transaction ends.             *)

LEMMA PlacesOrder ==
  ASSUME SessionsHold, NEW s \in Sessions, pc[s] = "placing"
  PROVE  req[s].order \in Orders /\ PlacesAlone(s)
BY DEF SessionsHold, PlacesAlone, Placement

LEMMA AsksOrder ==
  ASSUME SessionsHold, NEW s \in Sessions, pc[s] \in {"waiting", "holding"}
  PROVE  /\ req[s].order \in Orders /\ Asks(s)
         /\ req[s].terms \in Terms \union {NoTerms}
         /\ req[s].admin \in Admins \union {NoAdmin}
         /\ req[s].to \in CustomerMoves \union SellerMoves
BY DEF SessionsHold, Asks, Request

LEMMA HeldRow ==
  ASSUME SessionsHold, NEW s \in Sessions, pc[s] = "holding"
  PROVE  HoldsRow(s)
BY DEF SessionsHold

LEMMA EndType ==
  ASSUME TypeOK, NEW s \in Sessions, End(s)
  PROVE  /\ lock' \in [Orders -> Sessions \union {NoOne}]
         /\ pc' \in [Sessions -> {"idle", "placing", "waiting", "holding"}]
         /\ req' \in [Sessions -> Request \union Placement \union {Nothing}]
         /\ seen' \in [Sessions -> OrderRow]
BY DEF TypeOK, End, OrderRow, NoRow

LEMMA RollbackType ==
  ASSUME TypeOK, NEW s \in Sessions, Rollback(s)
  PROVE  TypeOK'
<1>1. End(s) /\ UNCHANGED <<dbVars, agreed>>
  BY DEF Rollback
<1> QED
  BY <1>1, EndType DEF TypeOK, dbVars

(* The three ways an order's row is changed.                               *)
LEMMA RowMoved ==
  ASSUME NEW row \in OrderRow, NEW st \in Statuses
  PROVE  [row EXCEPT !.status = st] \in OrderRow
BY DEF OrderRow

LEMMA RowWritten ==
  ASSUME NEW row \in OrderRow, NEW st \in Statuses,
         NEW t \in Terms \union {NoTerms}, NEW x \in Admins \union {NoAdmin}
  PROVE  [row EXCEPT !.status = st, !.terms = t, !.admin = x] \in OrderRow
BY DEF OrderRow

LEMMA RowApproved ==
  ASSUME NEW row \in OrderRow, NEW st \in Statuses, NEW x \in Admins \union {NoAdmin}
  PROVE  [row EXCEPT !.status = st, !.admin = x] \in OrderRow
BY DEF OrderRow

(* An approval opens a well-formed account.                                *)
LEMMA ApprovedAccount ==
  ASSUME TypeOK, PricedWhenQuoted, SessionsHold, NEW s \in Sessions, Holding(s, {"approved"})
  PROVE  /\ [order |-> req[s].order, parent |-> req[s].by, terms |-> seen[s].terms,
             panel |-> Panel[req[s].order], admin |-> AdminToBind(s)] \in Account
         /\ orders[req[s].order].status = "payment_declared"
         /\ seen[s] = orders[req[s].order]
         /\ req[s].by = Owner[Panel[req[s].order]]
         /\ AdminToBind(s) \in Admins \union {NoAdmin}
<1>1. pc[s] = "holding" /\ req[s].to = "approved"
  BY DEF Holding
<1>2. /\ req[s].order \in Orders
      /\ req[s].admin \in Admins \union {NoAdmin}
      /\ HoldsRow(s)
  BY <1>1, AsksOrder, HeldRow
<1>3. seen[s] = orders[req[s].order] /\ seen[s] \in OrderRow
  BY <1>2 DEF HoldsRow, TypeOK
<1>4. seen[s].status = "payment_declared"
  BY <1>1, <1>2, <1>3 DEF HoldsRow, OrderFlow, OrderRow, Statuses
<1>5. seen[s].terms \in Terms
  BY <1>2, <1>3, <1>4 DEF PricedWhenQuoted, OrderRow
<1>6. req[s].by = Owner[Panel[req[s].order]] /\ req[s].by \in Sellers
  BY <1>1, <1>2 DEF HoldsRow, Permitted, CustomerMoves, Sellers, Panels
<1>7. AdminToBind(s) \in Admins \union {NoAdmin}
  BY <1>2, <1>3 DEF AdminToBind, OrderRow
<1> QED
  BY <1>2, <1>3, <1>4, <1>5, <1>6, <1>7 DEF Account, Panels

-----------------------------------------------------------------------------
(* Types.                                                                  *)

LEMMA InitInv == Init => IInv
<1> SUFFICES ASSUME Init PROVE IInv
  OBVIOUS
<1>1. TypeOK
  BY DEF Init, TypeOK, OrderRow, NoRow, PlanRow
<1>2. PricedWhenQuoted
  BY DEF Init, PricedWhenQuoted, NoRow
<1>3. SessionsHold
  BY DEF Init, SessionsHold
<1> QED
  BY <1>1, <1>2, <1>3 DEF IInv

LEMMA PlaceType ==
  ASSUME TypeOK, NEW s \in Sessions, NEW x \in Placement, Place(s, x)
  PROVE  TypeOK'
<1>1. Priced(x) \in OrderRow
  <2>1. CASE x.plan = NoPlan
    BY <2>1 DEF Priced, NoRow, OrderRow, Statuses
  <2>2. CASE x.plan # NoPlan
    <3>1. x.plan \in Plans /\ x.order \in Orders
      BY <2>2 DEF Placement
    <3>2. plans[x.plan].status = "active"
      BY <2>2 DEF Place, OpenFor
    <3>3. plans[x.plan] \in PlanRow
      BY <3>1, <3>2 DEF TypeOK, Gone, NotYet
    <3>4. plans[x.plan].terms \in Terms
      BY <3>3 DEF PlanRow
    <3> QED
      BY <2>2, <3>1, <3>4 DEF Priced, NoRow, OrderRow, Statuses
  <2> QED
    BY <2>1, <2>2
<1> QED
  BY <1>1 DEF Place, TypeOK, dbVars

LEMMA CommitType ==
  ASSUME IInv, NEW s \in Sessions, Insert(s) \/ Quote(s) \/ Advance(s) \/ Approve(s)
  PROVE  TypeOK'
<1> USE DEF IInv
<1>0. orders \in [Orders -> OrderRow]
  BY DEF TypeOK
<1>1. CASE Insert(s)
  <2>1. End(s) /\ orders' \in [Orders -> OrderRow]
    BY <1>1, PlacesOrder DEF Insert, TypeOK
  <2> QED
    BY <1>1, <2>1, EndType DEF Insert, TypeOK
<1>2. CASE Quote(s)
  <2>1. orders' \in [Orders -> OrderRow]
    <3>1. /\ req[s].order \in Orders
          /\ req[s].terms \in Terms \union {NoTerms}
          /\ req[s].admin \in Admins \union {NoAdmin}
      BY <1>2, AsksOrder DEF Quote, Holding
    <3>2. orders' = [orders EXCEPT ![req[s].order] =
            [@ EXCEPT !.status = "quoted", !.terms = req[s].terms, !.admin = req[s].admin]]
      BY <1>2 DEF Quote
    <3> QED
      <4>1. [orders[req[s].order] EXCEPT !.status = "quoted", !.terms = req[s].terms,
                                         !.admin = req[s].admin] \in OrderRow
        <5>1. orders[req[s].order] \in OrderRow /\ "quoted" \in Statuses
          BY <1>0, <3>1 DEF Statuses
        <5> QED
          BY <3>1, <5>1, RowWritten
      <4> QED
        BY <1>0, <3>2, <4>1
  <2> QED
    BY <1>2, <2>1, EndType DEF Quote, TypeOK
<1>3. CASE Advance(s)
  <2>1. /\ End(s) /\ req[s].order \in Orders
        /\ req[s].to \in Statuses /\ req[s].terms \in Terms \union {NoTerms}
    BY <1>3, AsksOrder DEF Advance, Holding, CustomerMoves, Statuses
  <2>2. orders' \in [Orders -> OrderRow]
    <3>1. orders' = [orders EXCEPT ![req[s].order] = [@ EXCEPT !.status = req[s].to]]
      BY <1>3 DEF Advance
    <3> QED
      BY <1>0, <2>1, <3>1, RowMoved
  <2>3. agreed' \in [Orders -> Terms \union {NoTerms}]
    BY <1>3, <2>1 DEF Advance, TypeOK
  <2> QED
    BY <1>3, <2>1, <2>2, <2>3, EndType DEF Advance, TypeOK
<1>4. CASE Approve(s)
  <2>1. Holding(s, {"approved"})
    BY <1>4 DEF Approve
  <2>2. accounts' \subseteq Account
    BY <1>4, <2>1, ApprovedAccount DEF Approve, TypeOK
  <2>3. orders' \in [Orders -> OrderRow]
    <3>1. orders' = [orders EXCEPT ![req[s].order] =
            [@ EXCEPT !.status = "approved", !.admin = AdminToBind(s)]]
      BY <1>4 DEF Approve
    <3>2. req[s].order \in Orders /\ AdminToBind(s) \in Admins \union {NoAdmin}
      BY <2>1, AsksOrder, ApprovedAccount DEF Holding
    <3> QED
      <4>1. [orders[req[s].order] EXCEPT !.status = "approved", !.admin = AdminToBind(s)]
              \in OrderRow
        BY <1>0, <3>2, RowApproved DEF Statuses
      <4> QED
        BY <1>0, <3>1, <4>1
  <2>4. End(s)
    BY <1>4 DEF Approve
  <2> QED
    BY <1>4, <2>2, <2>3, <2>4, EndType DEF Approve, TypeOK
<1> QED
  BY <1>1, <1>2, <1>3, <1>4

LEMMA ListedAreRows ==
  ASSUME TypeOK, NEW p \in Plans
  PROVE  Listed(p) <=> plans[p] \in PlanRow
<1>1. \A r \in PlanRow : r.status \in {"active", "inactive"}
  BY DEF PlanRow
<1>2. NotYet.status \notin {"active", "inactive"} /\ Gone.status \notin {"active", "inactive"}
  BY DEF NotYet, Gone
<1>3. plans[p] \in PlanRow \union {NotYet, Gone}
  BY DEF TypeOK
<1> QED
  BY <1>1, <1>2, <1>3 DEF Listed

(* What an edit does to the catalog.                                       *)
EditedOnly(p) ==
  /\ UNCHANGED <<orders, shelves, saleable, accounts, bound, sessionVars, agreed>>
  /\ \E row : plans' = [plans EXCEPT ![p] = row]

LEMMA PlanEdited ==
  ASSUME TypeOK, NEW p \in Plans, EditPlan(p)
  PROVE  /\ EditedOnly(p)
         /\ \/ plans'[p] = Gone /\ ~Bought(p)
            \/ /\ plans'[p] \in PlanRow /\ Listed(p)
               /\ plans'[p].panel = plans[p].panel /\ plans'[p].shelf = plans[p].shelf
            \/ plans'[p] \in PlanRow /\ MayStand(plans'[p].panel, plans'[p].shelf)
<1>1. CASE DeletePlan(p)
  BY <1>1 DEF DeletePlan, EditedOnly, TypeOK
<1>2. ASSUME NEW st \in {"active", "inactive"}, SetPlanStatus(p, st)
      PROVE  /\ EditedOnly(p)
             /\ plans'[p] \in PlanRow /\ Listed(p)
             /\ plans'[p].panel = plans[p].panel /\ plans'[p].shelf = plans[p].shelf
  <2>1. plans[p] \in PlanRow /\ Listed(p)
    BY <1>2, ListedAreRows DEF SetPlanStatus
  <2> DEFINE row == [plans[p] EXCEPT !.status = st]
  <2>2. row \in PlanRow /\ row.panel = plans[p].panel /\ row.shelf = plans[p].shelf
    BY <2>1 DEF PlanRow
  <2>3. plans' = [plans EXCEPT ![p] = row]
    BY <1>2 DEF SetPlanStatus
  <2>4. plans'[p] = row
    BY <2>3 DEF TypeOK
  <2> QED
    BY <1>2, <2>1, <2>2, <2>3, <2>4 DEF EditedOnly, SetPlanStatus
<1>3. ASSUME NEW panel \in Panels, NEW c \in Shelves \union {NoShelf}, NEW t \in Terms,
             CreatePlan(p, panel, c, t) \/ UpdatePlan(p, panel, c, t)
      PROVE  /\ EditedOnly(p)
             /\ plans'[p] \in PlanRow /\ MayStand(plans'[p].panel, plans'[p].shelf)
  <2>1. CASE CreatePlan(p, panel, c, t)
    <3> DEFINE row == [panel |-> panel, shelf |-> c, terms |-> t, status |-> "active"]
    <3>1. row \in PlanRow /\ row.panel = panel /\ row.shelf = c
      BY DEF PlanRow
    <3>2. plans' = [plans EXCEPT ![p] = row] /\ plans'[p] = row
      BY <2>1 DEF CreatePlan, TypeOK
    <3> QED
      BY <2>1, <3>1, <3>2 DEF EditedOnly, CreatePlan
  <2>2. CASE UpdatePlan(p, panel, c, t)
    <3>1. plans[p] \in PlanRow
      BY <2>2, ListedAreRows DEF UpdatePlan
    <3> DEFINE row == [plans[p] EXCEPT !.panel = panel, !.shelf = c, !.terms = t]
    <3>2. row \in PlanRow /\ row.panel = panel /\ row.shelf = c
      BY <3>1 DEF PlanRow
    <3>3. plans' = [plans EXCEPT ![p] = row]
      BY <2>2 DEF UpdatePlan
    <3>4. plans'[p] = row
      BY <3>3 DEF TypeOK
    <3> QED
      BY <2>2, <3>2, <3>3, <3>4 DEF EditedOnly, UpdatePlan
  <2> QED
    BY <1>3, <2>1, <2>2
<1> QED
  BY <1>1, <1>2, <1>3 DEF EditPlan

LEMMA ShelfEdited ==
  ASSUME TypeOK, NEW c \in Shelves, EditShelf(c)
  PROVE  /\ UNCHANGED <<orders, plans, saleable, accounts, bound, sessionVars, agreed>>
         /\ shelves' \in [Shelves -> {"none", "active", "inactive"}]
         /\ \A d \in Shelves \ {c} : shelves'[d] = shelves[d]
         /\ shelves'[c] # "none" \/ OnShelf(c) = {}
BY DEF EditShelf, CreateShelf, DeleteShelf, SetShelfStatus, TypeOK

LEMMA CatalogType ==
  ASSUME TypeOK, \/ \E p \in Plans : EditPlan(p)
                 \/ \E c \in Shelves : EditShelf(c)
  PROVE  TypeOK'
<1>1. ASSUME NEW p \in Plans, EditPlan(p) PROVE TypeOK'
  <2>1. EditedOnly(p) /\ plans'[p] \in PlanRow \union {Gone}
    BY <1>1, PlanEdited
  <2>2. PICK row : plans' = [plans EXCEPT ![p] = row]
    BY <2>1 DEF EditedOnly
  <2>3. plans'[p] = row
    BY <2>2 DEF TypeOK
  <2>4. plans' \in [Plans -> PlanRow \union {NotYet, Gone}]
    BY <2>1, <2>2, <2>3 DEF TypeOK
  <2> QED
    BY <2>1, <2>4 DEF EditedOnly, TypeOK, sessionVars
<1>2. ASSUME NEW c \in Shelves, EditShelf(c) PROVE TypeOK'
  BY <1>2, ShelfEdited DEF TypeOK, sessionVars
<1> QED
  BY <1>1, <1>2

LEMMA NextType == IInv /\ [Next]_vars => TypeOK'
<1> SUFFICES ASSUME IInv, [Next]_vars PROVE TypeOK'
  OBVIOUS
<1> USE DEF IInv
<1>1. ASSUME NEW s \in Sessions, NEW x \in Placement, Place(s, x) PROVE TypeOK'
  BY <1>1, PlaceType
<1>2. ASSUME NEW s \in Sessions, NEW r \in Request, Begin(s, r) PROVE TypeOK'
  BY <1>2 DEF Begin, TypeOK, dbVars
<1>3. ASSUME NEW s \in Sessions, LockOrder(s) PROVE TypeOK'
  <2>1. req[s].order \in Orders
    BY <1>3, AsksOrder DEF LockOrder
  <2> QED
    BY <1>3, <2>1 DEF LockOrder, TypeOK, dbVars
<1>4. ASSUME NEW s \in Sessions, Insert(s) \/ Quote(s) \/ Advance(s) \/ Approve(s)
      PROVE  TypeOK'
  BY <1>4, CommitType
<1>5. ASSUME NEW s \in Sessions,
             InsertRefused(s) \/ Refuse(s) \/ ApproveRefused(s) \/ Disconnect(s)
      PROVE  TypeOK'
  BY <1>5, RollbackType DEF InsertRefused, Refuse, ApproveRefused, Disconnect
<1>6. ASSUME (\E p \in Plans : EditPlan(p)) \/ (\E c \in Shelves : EditShelf(c))
      PROVE  TypeOK'
  BY <1>6, CatalogType
<1>7. ASSUME NEW p \in Panels, SetSaleable(p) PROVE TypeOK'
  BY <1>7 DEF SetSaleable, TypeOK, sessionVars
<1>8. ASSUME NEW p \in Panels, NEW x \in Admins, Bind(p, x) PROVE TypeOK'
  BY <1>8 DEF Bind, TypeOK, sessionVars
<1>9. CASE UNCHANGED vars
  BY <1>9 DEF TypeOK, vars, dbVars, sessionVars
<1> QED
  BY <1>1, <1>2, <1>3, <1>4, <1>5, <1>6, <1>7, <1>8, <1>9 DEF Next, Handle

-----------------------------------------------------------------------------
(* What a commit does to the table of orders.                              *)

LEMMA FlowFacts ==
  ASSUME NEW from, NEW to, to \in OrderFlow(from)
  PROVE  /\ to \in Statuses
         /\ to = "quoted" => from = "pending"
         /\ to = "confirmed" => from = "quoted"
         /\ to = "payment_declared" => from = "confirmed"
         /\ to = "approved" => from = "payment_declared"
         /\ to = "rejected" => from \in {"pending", "quoted", "confirmed", "payment_declared"}
         /\ to = "cancelled" => from \in {"pending", "quoted", "confirmed"}
BY DEF OrderFlow, Statuses

(* The row of the session's order gets status st and terms t, and no other *)
(* row changes.                                                            *)
Writes(s, st, t) ==
  LET o == req[s].order
  IN  /\ o \in Orders
      /\ orders'[o].status = st /\ orders'[o].terms = t
      /\ \A q \in Orders \ {o} : orders'[q] = orders[q]

LEMMA InsertWrites ==
  ASSUME IInv, NEW s \in Sessions, Insert(s)
  PROVE  /\ PlacesAlone(s)
         /\ Writes(s, seen[s].status, seen[s].terms)
         /\ orders'[req[s].order] = seen[s]
<1>1. PlacesAlone(s) /\ req[s].order \in Orders
  BY PlacesOrder DEF Insert, IInv
<1>2. orders' = [orders EXCEPT ![req[s].order] = seen[s]]
  BY DEF Insert
<1>3. orders \in [Orders -> OrderRow]
  BY DEF IInv, TypeOK
<1> QED
  BY <1>1, <1>2, <1>3 DEF Writes

(* Before a held order moves.                                              *)
LEMMA HeldFlow ==
  ASSUME IInv, NEW s \in Sessions, pc[s] = "holding"
  PROVE  /\ req[s].order \in Orders
         /\ Asks(s) /\ HoldsRow(s)
         /\ orders[req[s].order] \in OrderRow
         /\ req[s].to \in OrderFlow(orders[req[s].order].status)
<1>1. Asks(s) /\ HoldsRow(s) /\ req[s].order \in Orders
  BY AsksOrder, HeldRow DEF IInv
<1> QED
  BY <1>1 DEF HoldsRow, IInv, TypeOK

LEMMA QuoteWrites ==
  ASSUME IInv, NEW s \in Sessions, Quote(s)
  PROVE  /\ pc[s] = "holding"
         /\ Writes(s, "quoted", req[s].terms)
         /\ orders[req[s].order].status = "pending"
         /\ req[s].terms \in Terms
         /\ orders'[req[s].order].plan = orders[req[s].order].plan
<1>1. pc[s] = "holding" /\ req[s].to = "quoted"
  BY DEF Quote, Holding
<1>2. /\ req[s].order \in Orders
      /\ orders[req[s].order] \in OrderRow
      /\ orders[req[s].order].status = "pending"
  BY <1>1, HeldFlow, FlowFacts
<1>3. req[s].terms \in Terms /\ req[s].admin \in Admins \union {NoAdmin}
  <2>1. WellFormed(req[s])
    BY <1>1, HeldFlow DEF Asks
  <2>2. /\ req[s].terms \in Terms \union {NoTerms}
        /\ req[s].admin \in Admins \union {NoAdmin}
    BY <1>1, AsksOrder DEF IInv
  <2> QED
    BY <1>1, <2>1, <2>2 DEF WellFormed
<1>4. orders' = [orders EXCEPT ![req[s].order] =
        [@ EXCEPT !.status = "quoted", !.terms = req[s].terms, !.admin = req[s].admin]]
  BY DEF Quote
<1>5. orders \in [Orders -> OrderRow]
  BY DEF IInv, TypeOK
<1>6. LET new == [orders[req[s].order] EXCEPT !.status = "quoted", !.terms = req[s].terms,
                                              !.admin = req[s].admin]
      IN  new.status = "quoted" /\ new.terms = req[s].terms
            /\ new.plan = orders[req[s].order].plan
  BY <1>2 DEF OrderRow
<1> QED
  BY <1>1, <1>2, <1>3, <1>4, <1>5, <1>6 DEF Writes

LEMMA AdvanceWrites ==
  ASSUME IInv, NEW s \in Sessions, Advance(s)
  PROVE  /\ pc[s] = "holding"
         /\ Writes(s, req[s].to, orders[req[s].order].terms)
         /\ req[s].to \in {"confirmed", "payment_declared", "cancelled", "rejected"}
         /\ orders'[req[s].order].plan = orders[req[s].order].plan
<1>1. pc[s] = "holding" /\ req[s].to \in {"confirmed", "payment_declared", "cancelled", "rejected"}
  BY DEF Advance, Holding, CustomerMoves
<1>2. req[s].order \in Orders /\ orders[req[s].order] \in OrderRow /\ req[s].to \in Statuses
  BY <1>1, HeldFlow, FlowFacts
<1>3. orders' = [orders EXCEPT ![req[s].order] = [@ EXCEPT !.status = req[s].to]]
  BY DEF Advance
<1>4. orders \in [Orders -> OrderRow]
  BY DEF IInv, TypeOK
<1>5. LET new == [orders[req[s].order] EXCEPT !.status = req[s].to]
      IN  new.status = req[s].to /\ new.terms = orders[req[s].order].terms
            /\ new.plan = orders[req[s].order].plan
  BY <1>2 DEF OrderRow
<1> QED
  BY <1>1, <1>2, <1>3, <1>4, <1>5 DEF Writes

LEMMA ApproveWrites ==
  ASSUME IInv, NEW s \in Sessions, Approve(s)
  PROVE  /\ pc[s] = "holding"
         /\ Writes(s, "approved", orders[req[s].order].terms)
         /\ orders[req[s].order].status = "payment_declared"
         /\ orders'[req[s].order].plan = orders[req[s].order].plan
<1>1. Holding(s, {"approved"}) /\ pc[s] = "holding"
  BY DEF Approve, Holding
<1>2. req[s].order \in Orders /\ orders[req[s].order] \in OrderRow
  BY <1>1, HeldFlow
<1>3. /\ orders[req[s].order].status = "payment_declared"
      /\ AdminToBind(s) \in Admins \union {NoAdmin}
  BY <1>1, ApprovedAccount DEF IInv
<1>4. orders' = [orders EXCEPT ![req[s].order] =
        [@ EXCEPT !.status = "approved", !.admin = AdminToBind(s)]]
  BY DEF Approve
<1>5. orders \in [Orders -> OrderRow]
  BY DEF IInv, TypeOK
<1>6. LET new == [orders[req[s].order] EXCEPT !.status = "approved", !.admin = AdminToBind(s)]
      IN  new.status = "approved" /\ new.terms = orders[req[s].order].terms
            /\ new.plan = orders[req[s].order].plan
  BY <1>2 DEF OrderRow
<1> QED
  BY <1>1, <1>2, <1>3, <1>4, <1>5, <1>6 DEF Writes

Commits(s) == Insert(s) \/ Quote(s) \/ Advance(s) \/ Approve(s)

(* An order that exists keeps existing, and once it has terms it keeps     *)
(* them.                                                                   *)
LEMMA TermsStay ==
  ASSUME IInv, NEW s \in Sessions, Commits(s),
         NEW o \in Orders, orders[o].status # "none"
  PROVE  /\ orders'[o].status # "none"
         /\ orders[o].terms # NoTerms => orders'[o].terms = orders[o].terms
<1>1. CASE Insert(s)
  BY <1>1, InsertWrites DEF Writes, PlacesAlone
<1>2. CASE Quote(s)
  <2>1. orders[req[s].order].terms = NoTerms
    BY <1>2, QuoteWrites DEF IInv, PricedWhenQuoted, Writes
  <2> QED
    BY <1>2, <2>1, QuoteWrites DEF Writes
<1>3. CASE Advance(s)
  BY <1>3, AdvanceWrites DEF Writes
<1>4. CASE Approve(s)
  BY <1>4, ApproveWrites DEF Writes
<1> QED
  BY <1>1, <1>2, <1>3, <1>4 DEF Commits

LEMMA CommitPriced ==
  ASSUME IInv, NEW s \in Sessions, Commits(s)
  PROVE  PricedWhenQuoted'
<1>1. PricedWhenQuoted /\ NoTerms \notin Terms
  BY OrdersAssumption DEF IInv
<1>2. CASE Insert(s)
  BY <1>1, <1>2, InsertWrites DEF PricedWhenQuoted, Writes, PlacesAlone
<1>3. CASE Quote(s)
  BY <1>1, <1>3, QuoteWrites DEF PricedWhenQuoted, Writes
<1>4. CASE Advance(s)
  <2>1. /\ orders[req[s].order].status \in {"pending", "quoted", "confirmed", "payment_declared"}
        /\ req[s].to \in {"confirmed", "payment_declared"} =>
             orders[req[s].order].status \in {"quoted", "confirmed"}
    BY <1>4, AdvanceWrites, HeldFlow, FlowFacts
  <2> QED
    BY <1>1, <1>4, <2>1, AdvanceWrites DEF PricedWhenQuoted, Writes
<1>5. CASE Approve(s)
  BY <1>1, <1>5, ApproveWrites DEF PricedWhenQuoted, Writes
<1> QED
  BY <1>2, <1>3, <1>4, <1>5 DEF Commits

-----------------------------------------------------------------------------
(* A step of one session seen from the others.                             *)

SameFor(r) ==
  /\ pc'[r] = pc[r] /\ req'[r] = req[r] /\ seen'[r] = seen[r]
  /\ \A o \in Orders : lock'[o] = r <=> lock[o] = r

SessionStep(s) ==
  \/ \E x \in Placement : Place(s, x)
  \/ \E r \in Request : WellFormed(r) /\ Begin(s, r)
  \/ Handle(s) \/ Disconnect(s)

LEMMA EndFrame ==
  ASSUME TypeOK, NEW s \in Sessions, End(s), NEW r \in Sessions, r # s
  PROVE  SameFor(r)
BY OrdersAssumption DEF TypeOK, End, SameFor

LEMMA Frame ==
  ASSUME TypeOK, SessionsHold, NEW s \in Sessions, SessionStep(s), NEW r \in Sessions, r # s
  PROVE  SameFor(r)
<1>1. ASSUME NEW x \in Placement, Place(s, x) PROVE SameFor(r)
  BY <1>1 DEF Place, SameFor, TypeOK
<1>2. ASSUME NEW x \in Request, Begin(s, x) PROVE SameFor(r)
  BY <1>2 DEF Begin, SameFor, TypeOK
<1>3. CASE LockOrder(s)
  BY <1>3, OrdersAssumption DEF LockOrder, SameFor, TypeOK
<1>4. CASE End(s)
  BY <1>4, EndFrame
<1>5. Insert(s) \/ InsertRefused(s) \/ Refuse(s) \/ Quote(s) \/ Advance(s) \/ Approve(s)
        \/ ApproveRefused(s) \/ Disconnect(s) => End(s)
  BY DEF Insert, InsertRefused, Refuse, Quote, Advance, Approve, ApproveRefused,
         Disconnect, Rollback
<1> QED
  BY <1>1, <1>2, <1>3, <1>4, <1>5 DEF SessionStep, Handle

(* Only a commit changes orders, accounts or agreed.                       *)
LEMMA OnlyCommits ==
  ASSUME NEW s \in Sessions, SessionStep(s)
  PROVE  Commits(s) \/ UNCHANGED <<orders, accounts, agreed>>
BY DEF SessionStep, Handle, Commits, Place, Begin, LockOrder, InsertRefused, Refuse,
       ApproveRefused, Disconnect, Rollback, dbVars

(* What s does next, or what it is left with.                              *)
LEMMA OwnStep ==
  ASSUME IInv, NEW s \in Sessions, SessionStep(s)
  PROVE  \/ pc'[s] = "idle" /\ req'[s] = Nothing
         \/ /\ pc[s] = "idle" /\ pc'[s] = "placing"
            /\ req'[s] \in Placement
            /\ UNCHANGED orders
            /\ orders[req'[s].order].status = "none"
            /\ \A t \in Sessions : req[t].order # req'[s].order
            /\ seen'[s].status \in {"pending", "quoted"}
            /\ seen'[s].status = "pending" <=> seen'[s].terms = NoTerms
         \/ /\ pc[s] = "idle" /\ pc'[s] = "waiting"
            /\ req'[s] \in Request /\ WellFormed(req'[s])
            /\ UNCHANGED orders
            /\ orders[req'[s].order].status # "none"
            /\ req'[s].to = "confirmed" => req'[s].terms = orders[req'[s].order].terms
         \/ /\ pc[s] = "waiting" /\ pc'[s] = "holding"
            /\ UNCHANGED <<orders, req>>
            /\ lock'[req[s].order] = s
            /\ seen'[s] = orders[req[s].order]
            /\ req[s].to \in OrderFlow(seen'[s].status)
            /\ Permitted(req[s])
<1> USE DEF IInv
<1>1. ASSUME NEW x \in Placement, Place(s, x)
      PROVE  /\ pc[s] = "idle" /\ pc'[s] = "placing"
             /\ req'[s] = x
             /\ UNCHANGED orders
             /\ orders[x.order].status = "none"
             /\ \A t \in Sessions : req[t].order # x.order
             /\ seen'[s].status \in {"pending", "quoted"}
             /\ seen'[s].status = "pending" <=> seen'[s].terms = NoTerms
  <2>1. seen'[s] = Priced(x)
    BY <1>1 DEF Place, TypeOK
  <2>2. CASE x.plan = NoPlan
    BY <1>1, <2>1, <2>2 DEF Place, TypeOK, Priced, NoRow, dbVars
  <2>3. CASE x.plan # NoPlan
    <3>1. x.plan \in Plans
      BY <2>3 DEF Placement
    <3>2. plans[x.plan].status = "active"
      BY <1>1, <2>3 DEF Place, OpenFor
    <3>3. plans[x.plan].terms \in Terms
      BY <3>1, <3>2 DEF TypeOK, Gone, NotYet, PlanRow
    <3>4. seen'[s].status = "quoted" /\ seen'[s].terms = plans[x.plan].terms
      BY <2>1, <2>3 DEF Priced, NoRow
    <3> QED
      BY <1>1, <3>3, <3>4, OrdersAssumption DEF Place, TypeOK, dbVars
  <2> QED
    BY <2>2, <2>3
<1>2. ASSUME NEW r \in Request, WellFormed(r), Begin(s, r)
      PROVE  /\ pc[s] = "idle" /\ pc'[s] = "waiting"
             /\ req'[s] = r
             /\ UNCHANGED orders
             /\ orders[r.order].status # "none"
             /\ r.to = "confirmed" => r.terms = orders[r.order].terms
  BY <1>2 DEF Begin, TypeOK, dbVars
<1>3. CASE LockOrder(s)
  <2>1. req[s].order \in Orders
    BY <1>3, AsksOrder DEF LockOrder
  <2> QED
    BY <1>3, <2>1 DEF LockOrder, TypeOK, dbVars
<1>4. CASE End(s)
  BY <1>4 DEF End, TypeOK
<1>5. Insert(s) \/ InsertRefused(s) \/ Refuse(s) \/ Quote(s) \/ Advance(s) \/ Approve(s)
        \/ ApproveRefused(s) \/ Disconnect(s) => End(s)
  BY DEF Insert, InsertRefused, Refuse, Quote, Advance, Approve, ApproveRefused,
         Disconnect, Rollback
<1> QED
  <2>1. CASE \E x \in Placement : Place(s, x)
    BY <2>1, <1>1
  <2>2. CASE \E r \in Request : WellFormed(r) /\ Begin(s, r)
    BY <2>2, <1>2
  <2>3. CASE Handle(s) \/ Disconnect(s)
    BY <2>3, <1>3, <1>4, <1>5 DEF Handle
  <2> QED
    BY <2>1, <2>2, <2>3 DEF SessionStep

(* A commit leaves alone the row another session has locked, and the order *)
(* another session is about to insert.                                     *)
LEMMA OtherRow ==
  ASSUME IInv, NEW s \in Sessions, Commits(s),
         NEW t \in Sessions \ {s}, pc[t] \in {"placing", "holding"}
  PROVE  req[t].order \in Orders /\ orders'[req[t].order] = orders[req[t].order]
<1>1. /\ req[t].order \in Orders
      /\ pc[t] = "placing" => PlacesAlone(t)
      /\ pc[t] = "holding" => HoldsRow(t)
  BY PlacesOrder, AsksOrder, HeldRow DEF IInv
<1>2. CASE Insert(s)
  BY <1>1, <1>2, InsertWrites DEF PlacesAlone, Writes
<1>3. ASSUME pc[s] = "holding" PROVE req[t].order # req[s].order
  <2>1. HoldsRow(s)
    BY <1>3, HeldFlow
  <2> QED
    BY <1>1, <2>1 DEF HoldsRow, PlacesAlone
<1>4. CASE Quote(s)
  BY <1>1, <1>3, <1>4, QuoteWrites DEF Writes
<1>5. CASE Advance(s)
  BY <1>1, <1>3, <1>5, AdvanceWrites DEF Writes
<1>6. CASE Approve(s)
  BY <1>1, <1>3, <1>6, ApproveWrites DEF Writes
<1> QED
  BY <1>2, <1>4, <1>5, <1>6 DEF Commits

LEMMA OthersHold ==
  ASSUME IInv, NEW s \in Sessions, SessionStep(s), NEW t \in Sessions \ {s}
  PROVE  /\ pc'[t] = "idle" => req'[t] = Nothing
         /\ pc'[t] = "placing" => PlacesAlone(t)'
         /\ pc'[t] \in {"waiting", "holding"} => Asks(t)'
         /\ pc'[t] = "holding" => HoldsRow(t)'
<1>1. SameFor(t)
  BY Frame DEF IInv
<1>2. pc[t] = "idle" => req[t] = Nothing
  BY DEF IInv, SessionsHold
<1>3. Commits(s) \/ UNCHANGED <<orders, accounts, agreed>>
  BY OnlyCommits
<1>4. ASSUME pc[t] = "placing" PROVE PlacesAlone(t)'
  <2>1. PlacesAlone(t) /\ req[t].order \in Orders
    BY <1>4, PlacesOrder DEF IInv
  <2>2. orders'[req[t].order] = orders[req[t].order]
    BY <1>3, <1>4, OtherRow
  <2>3. req'[s].order # req[t].order
    <3>1. Nothing.order # req[t].order
      BY <2>1, OrdersAssumption DEF Nothing
    <3>2. req[s].order # req[t].order
      BY <2>1 DEF PlacesAlone
    <3> QED
      BY <2>1, <3>1, <3>2, OwnStep DEF PlacesAlone
  <2>4. \A u \in Sessions \ {t} : req'[u].order # req'[t].order
    <3>1. ASSUME NEW u \in Sessions \ {t}, u # s PROVE req'[u] = req[u]
      BY <3>1, Frame DEF IInv, SameFor
    <3> QED
      BY <1>1, <2>1, <2>3, <3>1 DEF SameFor, PlacesAlone
  <2> QED
    BY <1>1, <2>1, <2>2, <2>4 DEF SameFor, PlacesAlone
<1>5. ASSUME pc[t] \in {"waiting", "holding"} PROVE Asks(t)'
  <2>1. Asks(t) /\ req[t].order \in Orders /\ req[t].terms \in Terms \union {NoTerms}
    BY <1>5, AsksOrder DEF IInv
  <2>2. /\ orders'[req[t].order].status # "none"
        /\ orders[req[t].order].terms # NoTerms =>
             orders'[req[t].order].terms = orders[req[t].order].terms
    BY <1>3, <2>1, TermsStay DEF Asks
  <2>3. req[t].to = "confirmed" => req[t].terms # NoTerms
    BY <2>1 DEF Asks, WellFormed
  <2> QED
    BY <1>1, <2>1, <2>2, <2>3 DEF SameFor, Asks
<1>6. ASSUME pc[t] = "holding" PROVE HoldsRow(t)'
  <2>1. HoldsRow(t) /\ req[t].order \in Orders
    BY <1>6, HeldFlow
  <2>2. orders'[req[t].order] = orders[req[t].order]
    BY <1>3, <1>6, OtherRow
  <2> QED
    BY <1>1, <2>1, <2>2 DEF SameFor, HoldsRow
<1> QED
  BY <1>1, <1>2, <1>4, <1>5, <1>6 DEF SameFor

LEMMA OwnHolds ==
  ASSUME IInv, NEW s \in Sessions, SessionStep(s)
  PROVE  /\ pc'[s] = "idle" => req'[s] = Nothing
         /\ pc'[s] = "placing" => PlacesAlone(s)'
         /\ pc'[s] \in {"waiting", "holding"} => Asks(s)'
         /\ pc'[s] = "holding" => HoldsRow(s)'
<1>1. ASSUME NEW t \in Sessions \ {s} PROVE req'[t] = req[t]
  BY <1>1, Frame DEF IInv, SameFor
<1>2. pc[s] = "waiting" => Asks(s)
  BY DEF IInv, SessionsHold
<1>3. CASE pc'[s] = "placing"
  BY <1>1, <1>3, OwnStep DEF PlacesAlone
<1>4. CASE pc'[s] = "waiting"
  BY <1>4, OwnStep DEF Asks
<1>5. CASE pc'[s] = "holding"
  BY <1>2, <1>5, OwnStep DEF Asks, HoldsRow
<1>6. CASE pc'[s] = "idle"
  BY <1>6, OwnStep
<1> QED
  BY <1>3, <1>4, <1>5, <1>6, OwnStep

(* Steps of the catalog and of other organizations.                        *)
CatalogStep ==
  \/ \E c \in Shelves : EditShelf(c)
  \/ \E p \in Plans : EditPlan(p)
  \/ \E p \in Panels : SetSaleable(p) \/ \E x \in Admins : Bind(p, x)

LEMMA CatalogFrame ==
  ASSUME CatalogStep \/ UNCHANGED vars
  PROVE  UNCHANGED <<orders, accounts, sessionVars, agreed>>
<1>1. ASSUME NEW c \in Shelves, EditShelf(c) PROVE UNCHANGED <<orders, accounts, sessionVars, agreed>>
  BY <1>1 DEF EditShelf, CreateShelf, DeleteShelf, SetShelfStatus
<1>2. ASSUME NEW p \in Plans, EditPlan(p) PROVE UNCHANGED <<orders, accounts, sessionVars, agreed>>
  BY <1>2 DEF EditPlan, CreatePlan, SetPlanStatus, DeletePlan, UpdatePlan
<1>3. ASSUME NEW p \in Panels, SetSaleable(p) PROVE UNCHANGED <<orders, accounts, sessionVars, agreed>>
  BY <1>3 DEF SetSaleable
<1>4. ASSUME NEW p \in Panels, NEW x \in Admins, Bind(p, x)
      PROVE  UNCHANGED <<orders, accounts, sessionVars, agreed>>
  BY <1>4 DEF Bind
<1>5. CASE UNCHANGED vars
  BY <1>5 DEF vars, dbVars
<1> QED
  BY <1>1, <1>2, <1>3, <1>4, <1>5 DEF CatalogStep

LEMMA Steps ==
  ASSUME [Next]_vars
  PROVE  (\E s \in Sessions : SessionStep(s)) \/ CatalogStep \/ UNCHANGED vars
BY DEF Next, SessionStep, CatalogStep

LEMMA NextInv == IInv /\ [Next]_vars => IInv'
<1> SUFFICES ASSUME IInv, [Next]_vars PROVE IInv'
  OBVIOUS
<1>1. TypeOK'
  BY NextType
<1>2. ASSUME NEW s \in Sessions, SessionStep(s) PROVE PricedWhenQuoted' /\ SessionsHold'
  <2>1. PricedWhenQuoted'
    BY <1>2, OnlyCommits, CommitPriced DEF IInv, PricedWhenQuoted
  <2>2. SessionsHold'
    BY <1>2, OwnHolds, OthersHold DEF SessionsHold
  <2> QED
    BY <2>1, <2>2
<1>3. ASSUME CatalogStep \/ UNCHANGED vars PROVE PricedWhenQuoted' /\ SessionsHold'
  <2>1. UNCHANGED <<orders, sessionVars>>
    BY <1>3, CatalogFrame
  <2> QED
    BY <2>1 DEF IInv, PricedWhenQuoted, SessionsHold, sessionVars, PlacesAlone, Asks, HoldsRow
<1> QED
  BY <1>1, <1>2, <1>3, Steps DEF IInv

(* The tables and the sessions keep their types, whatever handlers race.   *)
THEOREM OrdersTypeOK == Spec => []TypeOK
<1>1. IInv => TypeOK
  BY DEF IInv
<1> QED
  BY <1>1, InitInv, NextInv, PTL DEF Spec

(* A handler that has locked an order decides on the row as it is: what it *)
(* has read is what the table holds until it commits (locked_order).       *)
THEOREM OrdersReadsHold == Spec => []SessionsHold
<1>1. IInv => SessionsHold
  BY DEF IInv
<1> QED
  BY <1>1, InitInv, NextInv, PTL DEF Spec

-----------------------------------------------------------------------------
(* What the customer agreed to, and what is opened.                        *)

Sound == AccountIffApproved /\ ConfirmedAsShown /\ OpenedAsAgreed

(* The step from payment_declared to approved.                             *)
LEMMA ApproveOpens ==
  ASSUME IInv, NEW s \in Sessions, Approve(s)
  PROVE  \E a \in Account :
           /\ accounts' = accounts \union {a}
           /\ a.order = req[s].order /\ a.terms = orders[req[s].order].terms
           /\ a.parent = Owner[Panel[req[s].order]]
           /\ UNCHANGED agreed
<1>1. Holding(s, {"approved"})
  BY DEF Approve
<1> DEFINE a == [order |-> req[s].order, parent |-> req[s].by, terms |-> seen[s].terms,
                 panel |-> Panel[req[s].order], admin |-> AdminToBind(s)]
<1>2. /\ a \in Account
      /\ seen[s] = orders[req[s].order]
      /\ req[s].by = Owner[Panel[req[s].order]]
  BY <1>1, ApprovedAccount DEF IInv
<1>3. accounts' = accounts \union {a} /\ UNCHANGED agreed
  BY DEF Approve
<1> QED
  BY <1>2, <1>3

LEMMA CommitAccounts ==
  ASSUME IInv, AccountIffApproved, NEW s \in Sessions, Commits(s)
  PROVE  AccountIffApproved'
<1>1. CASE Insert(s)
  <2>1. UNCHANGED accounts
    BY <1>1 DEF Insert
  <2> QED
    BY <1>1, <2>1, InsertWrites DEF AccountIffApproved, Writes, PlacesAlone
<1>2. CASE Quote(s)
  <2>1. UNCHANGED accounts
    BY <1>2 DEF Quote
  <2> QED
    BY <1>2, <2>1, QuoteWrites DEF AccountIffApproved, Writes
<1>3. CASE Advance(s)
  <2>1. UNCHANGED accounts
    BY <1>3 DEF Advance
  <2>2. orders[req[s].order].status # "approved"
    BY <1>3, AdvanceWrites, HeldFlow, FlowFacts
  <2> QED
    BY <1>3, <2>1, <2>2, AdvanceWrites DEF AccountIffApproved, Writes
<1>4. CASE Approve(s)
  BY <1>4, ApproveWrites, ApproveOpens DEF AccountIffApproved, Writes
<1> QED
  BY <1>1, <1>2, <1>3, <1>4 DEF Commits

LEMMA CommitAgreed ==
  ASSUME IInv, ConfirmedAsShown, NEW s \in Sessions, Commits(s)
  PROVE  ConfirmedAsShown'
<1>1. CASE Insert(s)
  <2>1. UNCHANGED agreed
    BY <1>1 DEF Insert
  <2> QED
    BY <1>1, <2>1, InsertWrites DEF ConfirmedAsShown, Writes, PlacesAlone
<1>2. CASE Quote(s)
  <2>1. UNCHANGED agreed
    BY <1>2 DEF Quote
  <2> QED
    BY <1>2, <2>1, QuoteWrites DEF ConfirmedAsShown, Writes
<1>3. CASE Advance(s)
  <2>1. /\ Asks(s)
        /\ req[s].to = "payment_declared" => orders[req[s].order].status = "confirmed"
    BY <1>3, AdvanceWrites, HeldFlow, FlowFacts
  <2>2. CASE req[s].to = "confirmed"
    <3>1. agreed' = [agreed EXCEPT ![req[s].order] = orders[req[s].order].terms]
      BY <1>3, <2>1, <2>2 DEF Advance, Asks
    <3>2. agreed \in [Orders -> Terms \union {NoTerms}]
      BY DEF IInv, TypeOK
    <3> QED
      BY <1>3, <2>2, <3>1, <3>2, AdvanceWrites DEF ConfirmedAsShown, Writes
  <2>3. CASE req[s].to # "confirmed"
    <3>1. UNCHANGED agreed
      BY <1>3, <2>3 DEF Advance
    <3> QED
      BY <1>3, <2>1, <2>3, <3>1, AdvanceWrites DEF ConfirmedAsShown, Writes
  <2> QED
    BY <2>2, <2>3
<1>4. CASE Approve(s)
  <2>1. UNCHANGED agreed
    BY <1>4 DEF Approve
  <2> QED
    BY <1>4, <2>1, ApproveWrites DEF ConfirmedAsShown, Writes
<1> QED
  BY <1>1, <1>2, <1>3, <1>4 DEF Commits

LEMMA CommitOpened ==
  ASSUME IInv, Sound, NEW s \in Sessions, Commits(s)
  PROVE  OpenedAsAgreed'
<1> USE DEF Sound
<1>1. CASE Insert(s) \/ Quote(s)
  <2>1. UNCHANGED <<accounts, agreed>>
    BY <1>1 DEF Insert, Quote
  <2> QED
    BY <2>1 DEF OpenedAsAgreed
<1>2. CASE Advance(s)
  <2>1. UNCHANGED accounts
    BY <1>2 DEF Advance
  <2>2. accounts \subseteq Account
    BY DEF IInv, TypeOK
  <2>3. ASSUME NEW a \in accounts PROVE agreed'[a.order] = agreed[a.order]
    <3>1. a.order \in Orders
      BY <2>2 DEF Account
    <3>2. orders[a.order].status = "approved"
      BY <3>1 DEF AccountIffApproved
    <3>3. a.order # req[s].order
      BY <1>2, <3>2, AdvanceWrites, HeldFlow, FlowFacts
    <3> QED
      BY <1>2, <3>1, <3>3 DEF Advance, IInv, TypeOK
  <2> QED
    BY <2>1, <2>3 DEF OpenedAsAgreed
<1>3. CASE Approve(s)
  <2>1. PICK a \in Account :
           /\ accounts' = accounts \union {a}
           /\ a.order = req[s].order /\ a.terms = orders[req[s].order].terms
           /\ a.parent = Owner[Panel[req[s].order]]
           /\ UNCHANGED agreed
    BY <1>3, ApproveOpens
  <2>2. /\ req[s].order \in Orders
        /\ orders[req[s].order].status = "payment_declared"
    BY <1>3, ApproveWrites DEF Writes
  <2>3. orders[req[s].order].terms = agreed[req[s].order]
    BY <2>2 DEF ConfirmedAsShown
  <2>4. \A b \in accounts : b.order # req[s].order
    BY <2>2 DEF AccountIffApproved
  <2> QED
    BY <2>1, <2>3, <2>4 DEF OpenedAsAgreed
<1> QED
  BY <1>1, <1>2, <1>3 DEF Commits

LEMMA SoundInit == Init => Sound
BY DEF Init, Sound, AccountIffApproved, ConfirmedAsShown, OpenedAsAgreed, NoRow

LEMMA SoundNext == IInv /\ Sound /\ [Next]_vars => Sound'
<1> SUFFICES ASSUME IInv, Sound, [Next]_vars PROVE Sound'
  OBVIOUS
<1>1. ASSUME UNCHANGED <<orders, accounts, agreed>> PROVE Sound'
  BY <1>1 DEF Sound, AccountIffApproved, ConfirmedAsShown, OpenedAsAgreed
<1>2. ASSUME NEW s \in Sessions, Commits(s) PROVE Sound'
  BY <1>2, CommitAccounts, CommitAgreed, CommitOpened DEF Sound
<1> QED
  BY <1>1, <1>2, Steps, OnlyCommits, CatalogFrame

(* An order has an account exactly when it is approved, for every number   *)
(* of handlers (approve_panel_order, reject_panel_order).                  *)
THEOREM OrdersAccountIffApproved == Spec => []AccountIffApproved
<1>1. Sound => AccountIffApproved
  BY DEF Sound
<1> QED
  BY <1>1, InitInv, NextInv, SoundInit, SoundNext, PTL DEF Spec

(* The terms a customer was shown when confirming are those the order      *)
(* carries from then on (advance_customer_order, quote_panel_order).       *)
THEOREM OrdersConfirmedAsShown == Spec => []ConfirmedAsShown
<1>1. Sound => ConfirmedAsShown
  BY DEF Sound
<1> QED
  BY <1>1, InitInv, NextInv, SoundInit, SoundNext, PTL DEF Spec

(* An account is opened once, with the agreed terms, below the owner of    *)
(* the ordered panel (approve_panel_order).                                *)
THEOREM OrdersOpenedAsAgreed == Spec => []OpenedAsAgreed
<1>1. Sound => OpenedAsAgreed
  BY DEF Sound
<1> QED
  BY <1>1, InitInv, NextInv, SoundInit, SoundNext, PTL DEF Spec

-----------------------------------------------------------------------------
(* Plans.                                                                  *)

LEMMA CommitBought ==
  ASSUME IInv, NothingUsedIsDeleted, NEW s \in Sessions, Commits(s)
  PROVE  NothingUsedIsDeleted'
<1>1. UNCHANGED <<plans, shelves>>
  BY DEF Commits, Insert, Quote, Advance, Approve
<1>2. CASE Insert(s)
  <2>1. seen[s].plan # NoPlan => Listed(seen[s].plan)
    BY <1>2 DEF Insert
  <2>2. NoPlan \notin Plans
    BY OrdersAssumption
  <2> QED
    BY <1>1, <1>2, <2>1, <2>2, InsertWrites DEF NothingUsedIsDeleted, Bought, Listed, MayStand, Writes
<1>3. ASSUME pc[s] = "holding", orders'[req[s].order].plan = orders[req[s].order].plan,
             \A q \in Orders \ {req[s].order} : orders'[q] = orders[q]
      PROVE  NothingUsedIsDeleted'
  <2>1. orders[req[s].order].status # "none"
    BY <1>3, HeldFlow DEF Asks
  <2>2. \A p \in Plans : Bought(p)' => Bought(p)
    BY <1>3, <2>1 DEF Bought
  <2> QED
    BY <1>1, <2>2 DEF NothingUsedIsDeleted, Listed, MayStand
<1>4. CASE Quote(s)
  BY <1>3, <1>4, QuoteWrites DEF Writes
<1>5. CASE Advance(s)
  BY <1>3, <1>5, AdvanceWrites DEF Writes
<1>6. CASE Approve(s)
  BY <1>3, <1>6, ApproveWrites DEF Writes
<1> QED
  BY <1>2, <1>4, <1>5, <1>6 DEF Commits

LEMMA BoughtNext == IInv /\ NothingUsedIsDeleted /\ [Next]_vars => NothingUsedIsDeleted'
<1> SUFFICES ASSUME IInv, NothingUsedIsDeleted, [Next]_vars PROVE NothingUsedIsDeleted'
  OBVIOUS
<1> USE DEF IInv
<1>1. ASSUME UNCHANGED <<orders, plans, shelves>> PROVE NothingUsedIsDeleted'
  BY <1>1 DEF NothingUsedIsDeleted, Bought, Listed, MayStand
<1>2. ASSUME NEW s \in Sessions, SessionStep(s) PROVE NothingUsedIsDeleted'
  <2>1. Commits(s) \/ UNCHANGED <<orders, plans, shelves>>
    BY <1>2 DEF SessionStep, Handle, Commits, Place, Begin, LockOrder, InsertRefused, Refuse,
                ApproveRefused, Disconnect, Rollback, dbVars
  <2> QED
    BY <1>1, <2>1, CommitBought
<1>3. ASSUME NEW p \in Plans, EditPlan(p) PROVE NothingUsedIsDeleted'
  <2>1. UNCHANGED <<orders, shelves>> /\ \A q \in Plans \ {p} : plans'[q] = plans[q]
    BY <1>3, PlanEdited DEF EditedOnly, TypeOK
  <2>2. \A q \in Plans : Bought(q)' = Bought(q)
    BY <2>1 DEF Bought
  <2>3. ASSUME NEW q \in Plans, q # p
        PROVE  /\ Bought(q)' => Listed(q)'
               /\ Listed(q)' => MayStand(plans[q].panel, plans[q].shelf)'
    BY <2>1, <2>2, <2>3 DEF NothingUsedIsDeleted, Listed, MayStand
  <2>4. CASE plans'[p] = Gone /\ ~Bought(p)
    <3>1. ~Listed(p)'
      BY <2>4 DEF Listed, Gone
    <3> QED
      BY <2>2, <2>3, <2>4, <3>1 DEF NothingUsedIsDeleted
  <2>5. CASE plans'[p] \in PlanRow /\ MayStand(plans'[p].panel, plans'[p].shelf)
    <3>1. Listed(p)'
      BY <2>5 DEF Listed, PlanRow
    <3>2. MayStand(plans[p].panel, plans[p].shelf)'
      BY <2>1, <2>5 DEF MayStand
    <3> QED
      BY <2>3, <3>1, <3>2 DEF NothingUsedIsDeleted
  <2>6. CASE /\ plans'[p] \in PlanRow /\ Listed(p)
             /\ plans'[p].panel = plans[p].panel /\ plans'[p].shelf = plans[p].shelf
    <3>1. MayStand(plans'[p].panel, plans'[p].shelf)
      BY <2>6 DEF NothingUsedIsDeleted
    <3> QED
      BY <2>5, <2>6, <3>1
  <2> QED
    BY <1>3, <2>4, <2>5, <2>6, PlanEdited
<1>4. ASSUME NEW c \in Shelves, EditShelf(c) PROVE NothingUsedIsDeleted'
  <2>1. /\ UNCHANGED <<orders, plans>>
        /\ \A d \in Shelves \ {c} : shelves'[d] = shelves[d]
        /\ shelves'[c] # "none" \/ OnShelf(c) = {}
    BY <1>4, ShelfEdited
  <2>2. ASSUME NEW p \in Plans, Listed(p) PROVE MayStand(plans[p].panel, plans[p].shelf)'
    <3>1. MayStand(plans[p].panel, plans[p].shelf)
      BY <2>2 DEF NothingUsedIsDeleted
    <3>2. plans[p].shelf \in Shelves \union {NoShelf}
      BY <2>2, ListedAreRows DEF PlanRow
    <3>3. plans[p].shelf = c => shelves'[c] # "none"
      BY <2>1, <2>2 DEF OnShelf
    <3> QED
      BY <2>1, <3>1, <3>2, <3>3 DEF MayStand
  <2>3. \A p \in Plans : Bought(p)' = Bought(p) /\ Listed(p)' = Listed(p)
    BY <2>1 DEF Bought, Listed
  <2> QED
    BY <2>2, <2>3 DEF NothingUsedIsDeleted
<1>5. ASSUME NEW p \in Panels, SetSaleable(p) \/ \E x \in Admins : Bind(p, x)
      PROVE  NothingUsedIsDeleted'
  BY <1>1, <1>5 DEF SetSaleable, Bind
<1>6. CASE UNCHANGED vars
  BY <1>1, <1>6 DEF vars, dbVars
<1> QED
  BY <1>2, <1>3, <1>4, <1>5, <1>6, Steps DEF CatalogStep

(* A plan that was ever bought is never deleted, although an order of it   *)
(* is priced before it is inserted, and no shelf is deleted under a plan   *)
(* (web_delete_plan, web_delete_category, create_panel_order).             *)
THEOREM OrdersNothingUsedIsDeleted == Spec => []NothingUsedIsDeleted
<1>1. Init => NothingUsedIsDeleted
  BY DEF Init, NothingUsedIsDeleted, Bought, Listed, NotYet, NoRow
<1> QED
  BY <1>1, InitInv, NextInv, BoughtNext, PTL DEF Spec

-----------------------------------------------------------------------------
(* The promise of the funnel.                                              *)

LEMMA FunnelInit == Init => Funnel!Init
BY DEF Init, Funnel!Init, NoRow

(* The rows of the abstract state after a commit.                          *)
LEMMA FunnelRow ==
  ASSUME NEW o \in Orders, NEW st, NEW t,
         orders'[o].status = st, orders'[o].terms = t,
         \A q \in Orders \ {o} : orders'[q] = orders[q]
  PROVE  /\ [q \in Orders |-> orders'[q].status] =
              [[q \in Orders |-> orders[q].status] EXCEPT ![o] = st]
         /\ [q \in Orders |-> orders'[q].terms] =
              [[q \in Orders |-> orders[q].terms] EXCEPT ![o] = t]
         /\ orders[o].terms = t =>
              [q \in Orders |-> orders'[q].terms] = [q \in Orders |-> orders[q].terms]
OBVIOUS

LEMMA FunnelCommit ==
  ASSUME IInv, NEW s \in Sessions, Commits(s)
  PROVE  Funnel!Next
<1>1. CASE Insert(s)
  <2>1. PICK o \in Orders : o = req[s].order
    BY <1>1, InsertWrites DEF Writes
  <2>2. PICK st, t : st = seen[s].status /\ t = seen[s].terms
    OBVIOUS
  <2>3. /\ orders[o].status = "none" /\ orders[o].terms = NoTerms
        /\ orders'[o].status = st /\ orders'[o].terms = t
        /\ \A q \in Orders \ {o} : orders'[q] = orders[q]
        /\ st \in {"pending", "quoted"}
        /\ st = "pending" <=> t = NoTerms
    BY <1>1, <2>1, <2>2, InsertWrites DEF PlacesAlone, Writes, IInv, PricedWhenQuoted
  <2>4. UNCHANGED accounts
    BY <1>1 DEF Insert
  <2>5. CASE st = "pending"
    <3>1. Funnel!Request(o)
      BY <2>3, <2>4, <2>5, FunnelRow DEF Funnel!Request
    <3> QED
      BY <3>1 DEF Funnel!Next
  <2>6. CASE st = "quoted"
    <3>1. t \in Terms
      BY <2>2, <2>3, <2>6 DEF IInv, TypeOK, OrderRow
    <3>2. Funnel!Price(o, t)
      BY <2>3, <2>4, <2>6, FunnelRow DEF Funnel!Price
    <3> QED
      BY <3>1, <3>2 DEF Funnel!Next
  <2> QED
    BY <2>3, <2>5, <2>6
<1>2. CASE Quote(s)
  <2>1. PICK o \in Orders, t \in Terms : o = req[s].order /\ t = req[s].terms
    BY <1>2, QuoteWrites DEF Writes
  <2>2. /\ orders[o].status = "pending"
        /\ orders'[o].status = "quoted" /\ orders'[o].terms = t
        /\ \A q \in Orders \ {o} : orders'[q] = orders[q]
    BY <1>2, <2>1, QuoteWrites DEF Writes
  <2>3. UNCHANGED accounts
    BY <1>2 DEF Quote
  <2>4. Funnel!Price(o, t)
    BY <2>2, <2>3, FunnelRow DEF Funnel!Price
  <2> QED
    BY <2>4 DEF Funnel!Next
<1>3. CASE Advance(s)
  <2>1. PICK o \in Orders : o = req[s].order
    BY <1>3, AdvanceWrites DEF Writes
  <2>2. PICK to : to = req[s].to
    OBVIOUS
  <2>3. /\ orders'[o].status = to /\ orders'[o].terms = orders[o].terms
        /\ \A q \in Orders \ {o} : orders'[q] = orders[q]
        /\ to \in {"confirmed", "payment_declared", "cancelled", "rejected"}
        /\ to \in OrderFlow(orders[o].status)
    BY <1>3, <2>1, <2>2, AdvanceWrites, HeldFlow DEF Writes
  <2>4. /\ to = "confirmed" => orders[o].status = "quoted"
        /\ to = "payment_declared" => orders[o].status = "confirmed"
        /\ to = "rejected" =>
             orders[o].status \in {"pending", "quoted", "confirmed", "payment_declared"}
        /\ to = "cancelled" => orders[o].status \in {"pending", "quoted", "confirmed"}
    BY <2>3, FlowFacts
  <2>5. UNCHANGED accounts
    BY <1>3 DEF Advance
  <2>6. CASE to = "confirmed"
    <3>1. Funnel!Agree(o)
      BY <2>3, <2>4, <2>5, <2>6, FunnelRow DEF Funnel!Agree
    <3> QED
      BY <3>1 DEF Funnel!Next
  <2>7. CASE to = "payment_declared"
    <3>1. Funnel!Pay(o)
      BY <2>3, <2>4, <2>5, <2>7, FunnelRow DEF Funnel!Pay
    <3> QED
      BY <3>1 DEF Funnel!Next
  <2>8. CASE to \in {"cancelled", "rejected"}
    <3>1. Funnel!Close(o, to)
      BY <2>3, <2>4, <2>5, <2>8, FunnelRow DEF Funnel!Close
    <3> QED
      BY <2>8, <3>1 DEF Funnel!Next
  <2> QED
    BY <2>3, <2>6, <2>7, <2>8
<1>4. CASE Approve(s)
  <2>1. PICK o \in Orders : o = req[s].order
    BY <1>4, ApproveWrites DEF Writes
  <2>2. /\ orders[o].status = "payment_declared"
        /\ orders'[o].status = "approved" /\ orders'[o].terms = orders[o].terms
        /\ \A q \in Orders \ {o} : orders'[q] = orders[q]
    BY <1>4, <2>1, ApproveWrites DEF Writes
  <2>3. {[order |-> a.order, terms |-> a.terms] : a \in accounts'} =
          {[order |-> a.order, terms |-> a.terms] : a \in accounts} \union
            {[order |-> o, terms |-> orders[o].terms]}
    BY <1>4, <2>1, ApproveOpens
  <2>4. Funnel!Open(o)
    BY <2>2, <2>3, FunnelRow DEF Funnel!Open
  <2> QED
    BY <2>4 DEF Funnel!Next
<1> QED
  BY <1>1, <1>2, <1>3, <1>4 DEF Commits

LEMMA FunnelNext == IInv /\ [Next]_vars => [Funnel!Next]_(Funnel!vars)
<1> SUFFICES ASSUME IInv, [Next]_vars PROVE [Funnel!Next]_(Funnel!vars)
  OBVIOUS
<1>1. ASSUME UNCHANGED <<orders, accounts, agreed>> PROVE UNCHANGED Funnel!vars
  BY <1>1 DEF Funnel!vars
<1> QED
  BY <1>1, Steps, OnlyCommits, CatalogFrame, FunnelCommit

(* Every commit of every handler is one step of the funnel: priced, agreed,*)
(* paid, opened with the deal, or closed (order_flow, require_transition). *)
THEOREM OrdersImplementFunnel == Spec => ImplementsFunnel
BY InitInv, NextInv, FunnelInit, FunnelNext, PTL DEF Spec, ImplementsFunnel, Funnel!Spec
=============================================================================
