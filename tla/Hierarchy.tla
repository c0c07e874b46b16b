------------------------------ MODULE Hierarchy ------------------------------
(***************************************************************************)
(* The tree of organizations: the first setup, the five places that create *)
(* an organization below another one, the closure table and the contracts  *)
(* they keep, and the memberships that say for which organization a person *)
(* acts.  A request is a transaction of two steps: it reads and checks     *)
(* without locks, then inserts and commits; only the unique indexes look   *)
(* again at what it has checked.  An organization is known by its slug.    *)
(***************************************************************************)
EXTENDS Integers, FiniteSets

CONSTANTS
  Slugs,       \* organizations.slug
  People,      \* Telegram ids
  Root,        \* ROOT_TELEGRAM_ID
  NoOrg, NoOne,
  DepthLimit,  \* MAX_TREE_DEPTH, or organizations.max_depth where that is less: no code sets it
  Guests,      \* bound: people who are linked to organizations and place orders
  BoundRoles,  \* bound: roles given by /actor-bindings
  Sessions

(* rbac.py: who may do what; the other roles may do nothing of this.       *)
Roles == {"reseller_admin", "operator", "finance", "support", "viewer", "customer"}
Matrix == [manage_resellers |-> {"system_admin", "reseller_admin"},
           decide_orders    |-> {"system_admin", "reseller_admin"}]

ASSUME HierarchyAssumption ==
  /\ NoOrg \notin Slugs /\ NoOne \notin People /\ Root \in People
  /\ DepthLimit \in Nat /\ BoundRoles \subseteq Roles /\ Guests \subseteq People

VARIABLES
  orgs,      \* organizations
  parent,    \* organizations.parent_id
  closure,   \* organization_closure
  contracts, \* active contracts, as <<parent, child>>
  actors,    \* people with a row in actors
  members,   \* active memberships
  workspace, \* setting bootstrap_complete
  orders,    \* panel orders that are paid and not decided
  tx,        \* what a session's transaction has read and will insert
  unchecked, \* history: organizations created without a look at the depth
  crossed    \* history: people two transactions were about at once

tables == <<orgs, parent, closure, contracts, actors, members, workspace, orders>>
vars == <<tables, tx, unchecked, crossed>>

Creations == {"bootstrap", "child", "reseller", "org", "bot", "approval"}
Kinds == Creations \union {"bind", "order"}
Idle == [kind |-> "idle"]
Transactions ==
  [kind: Kinds, slug: Slugs, parent: Slugs \union {NoOrg}, actor: People \union {NoOne},
   role: Roles, newActor: BOOLEAN, over: {"unread", "insert", "update"}]

Init ==
  /\ orgs = {} /\ closure = {} /\ contracts = {}
  /\ parent = [o \in Slugs |-> NoOrg]
  /\ actors = {} /\ members = {} /\ orders = {}
  /\ workspace = NoOrg
  /\ tx = [s \in Sessions |-> Idle]
  /\ unchecked = {}
  /\ crossed = {}

-----------------------------------------------------------------------------
(* What the handlers read.                                                 *)

(* depth_of(parent) + 1 is within the limit.                               *)
DepthReached(p) == \A r \in closure : r.below = p => r.depth <= DepthLimit  \* fault: one level too many
DepthAllowed(p) == \A r \in closure : r.below = p => r.depth + 1 <= DepthLimit

EffectiveRole(m) == IF m.actor = Root THEN "system_admin" ELSE m.role
Can(m, permission) == EffectiveRole(m) \in Matrix[permission]
Linked(p) == \E m \in members : m.actor = p

(* pick_membership(): the root's is the one in the workspace; which one is *)
(* the oldest of another person's is left open.                            *)
WebMembership(p) ==
  LET mine == {m \in members : m.actor = p}
      preferred == {m \in mine : p = Root /\ m.org = workspace}
  IN IF preferred # {} THEN preferred ELSE mine
(* context() of the bot: any of them.                                      *)
BotMembership(p) == {m \in members : m.actor = p}

Request(kind, slug, above, actor, role) ==
  [kind |-> kind, slug |-> slug, parent |-> above, actor |-> actor, role |-> role,
   newActor |-> actor # NoOne /\ actor \notin actors, over |-> "unread"]

(* A session begins a transaction with its reads.                          *)
Open(s, t) ==
  /\ tx[s] = Idle
  /\ tx' = [tx EXCEPT ![s] = t]
  /\ crossed' = IF \E z \in Sessions \ {s} : tx[z] # Idle /\ tx[z].actor = t.actor
                THEN crossed \union ({t.actor} \ {NoOne}) ELSE crossed
  /\ UNCHANGED <<tables, unchecked>>

AskAnytime(s, slug) ==  \* fault: the setting is not looked at
  /\ slug \notin orgs
  /\ Open(s, Request("bootstrap", slug, NoOrg, Root, "reseller_admin"))

(* bootstrap_workspace(): main.py lets only the root administrator through.*)
AskBootstrap(s, slug) ==
  /\ workspace = NoOrg
  /\ slug \notin orgs
  /\ Open(s, Request("bootstrap", slug, NoOrg, Root, "reseller_admin"))

(* put_setting() is a merge: it reads again whether the row exists.        *)
MergeSetting(s) ==
  /\ tx[s] # Idle /\ tx[s].kind = "bootstrap" /\ tx[s].over = "unread"
  /\ tx' = [tx EXCEPT ![s].over = IF workspace = NoOrg THEN "insert" ELSE "update",
                      ![s].newActor = Root \notin actors]
  /\ UNCHANGED <<tables, unchecked, crossed>>

(* web_create_child(): no person is linked.                                *)
AskChild(s, slug) ==
  \E p \in People : \E m \in WebMembership(p) :
    /\ Can(m, "manage_resellers")
    /\ slug \notin orgs
    /\ DepthAllowed(m.org)
    /\ Open(s, Request("child", slug, m.org, NoOne, "reseller_admin"))

(* admin_create_reseller(): the root administrator, for a person who has   *)
(* no organization yet.                                                    *)
AskReseller(s, slug, actor) ==
  \E m \in WebMembership(Root) :
    /\ DepthAllowed(m.org)
    /\ slug \notin orgs
    /\ ~Linked(actor)
    /\ Open(s, Request("reseller", slug, m.org, actor, "reseller_admin"))

AskOrgUnseen(s, slug) ==  \* fault: the parent is not looked up
  \E above \in Slugs \union {NoOrg} :
    /\ slug \notin orgs
    /\ above # NoOrg => DepthAllowed(above)
    /\ Open(s, Request("org", slug, above, NoOne, "reseller_admin"))

(* create_org(): the internal API, with a parent or as another root.       *)
AskOrg(s, slug) ==
  \E above \in orgs \union {NoOrg} :
    /\ slug \notin orgs
    /\ above # NoOrg => DepthAllowed(above)
    /\ Open(s, Request("org", slug, above, NoOne, "reseller_admin"))

(* create_reseller() of the bot: neither depth nor memberships are asked.  *)
AskBot(s, slug, actor) ==
  \E p \in People : \E m \in BotMembership(p) :
    /\ Can(m, "manage_resellers")
    /\ slug \notin orgs
    /\ Open(s, Request("bot", slug, m.org, actor, "reseller_admin"))

(* create_panel_order(): anybody may order through the bot, which asks for *)
(* no membership and no permission.                                        *)
AskOrder(s, slug, actor) ==
  /\ slug \notin orgs /\ \A o \in orders : o.slug # slug
  /\ Open(s, Request("order", slug, NoOrg, actor, "customer"))

(* approve_panel_order(), which holds the row of the order; any            *)
(* organization may be the seller.                                         *)
AskApproval(s, o) ==
  \E p \in People : \E m \in BotMembership(p) :
    /\ Can(m, "decide_orders")
    /\ \A z \in Sessions : tx[z] # Idle => ~(tx[z].kind = "approval" /\ tx[z].slug = o.slug)
    /\ DepthAllowed(m.org)
    /\ o.slug \notin orgs
    /\ Open(s, Request("approval", o.slug, m.org, o.actor, "customer"))

(* bind_actor(): a person is linked to an organization that exists.        *)
AskBind(s, org, actor, role) ==
  /\ org \in orgs
  /\ \A m \in members : ~(m.actor = actor /\ m.org = org)
  /\ Open(s, Request("bind", org, NoOrg, actor, role))

-----------------------------------------------------------------------------
(* The inserts and the commit.                                             *)

(* What a unique index refuses: the slug of an organization or an order,   *)
(* the Telegram id of an actor, a membership, the key of a setting.        *)
Clash(t) ==
  \/ t.kind \in Creations /\ t.slug \in orgs
  \/ t.kind = "order" /\ \E o \in orders : o.slug = t.slug
  \/ t.newActor /\ t.actor \in actors
  \/ t.kind = "bind" /\ \E m \in members : m.actor = t.actor /\ m.org = t.slug
  \/ t.over = "insert" /\ workspace # NoOrg

PathAtParent(t) ==  \* fault: the parent's rows are copied with their depth
  {[above |-> t.slug, below |-> t.slug, depth |-> 0]} \union
  {[r EXCEPT !.below = t.slug] : r \in {x \in closure : x.below = t.parent}}

(* The rows of the new organization: itself, and its parent's, one deeper. *)
Path(t) ==
  {[above |-> t.slug, below |-> t.slug, depth |-> 0]} \union
  {[above |-> r.above, below |-> t.slug, depth |-> r.depth + 1] : r \in {x \in closure : x.below = t.parent}}

Create(t) ==
  /\ orgs' = orgs \union {t.slug}
  /\ parent' = [parent EXCEPT ![t.slug] = t.parent]
  /\ closure' = closure \union Path(t)
  /\ contracts' = IF t.parent = NoOrg THEN contracts ELSE contracts \union {<<t.parent, t.slug>>}
  /\ unchecked' = IF t.kind = "bot" THEN unchecked \union {t.slug} ELSE unchecked

Commit(s) ==
  LET t == tx[s]
  IN /\ t # Idle /\ (t.kind = "bootstrap" => t.over # "unread")
     /\ ~Clash(t)
     /\ IF t.kind \in Creations THEN Create(t)
        ELSE UNCHANGED <<orgs, parent, closure, contracts, unchecked>>
     /\ actors' = actors \union ({t.actor} \ {NoOne})
     /\ members' = IF t.actor = NoOne \/ t.kind = "order" THEN members
                   ELSE members \union {[actor |-> t.actor, org |-> t.slug, role |-> t.role]}
     /\ workspace' = IF t.kind = "bootstrap" THEN t.slug ELSE workspace
     /\ orders' = CASE t.kind = "order" -> orders \union {[actor |-> t.actor, slug |-> t.slug]}
                    [] t.kind = "approval" -> {o \in orders : o.slug # t.slug}
                    [] OTHER -> orders
     /\ tx' = [tx EXCEPT ![s] = Idle]
     /\ UNCHANGED crossed

(* A unique index refuses an insert, or the connection is lost.            *)
Rollback(s) ==
  /\ tx[s] # Idle
  /\ tx' = [tx EXCEPT ![s] = Idle]
  /\ UNCHANGED <<tables, unchecked, crossed>>

Ask(s) ==
  \/ \E slug \in Slugs : AskBootstrap(s, slug) \/ AskChild(s, slug) \/ AskOrg(s, slug)
  \/ \E slug \in Slugs, actor \in Guests :
       AskReseller(s, slug, actor) \/ AskBot(s, slug, actor) \/ AskOrder(s, slug, actor)
  \/ \E o \in orders : AskApproval(s, o)
  \/ \E org \in orgs, actor \in Guests, role \in BoundRoles : AskBind(s, org, actor, role)

Next == \E s \in Sessions : Ask(s) \/ MergeSetting(s) \/ Commit(s) \/ Rollback(s)

Spec == Init /\ [][Next]_vars

-----------------------------------------------------------------------------
TypeOK ==
  /\ orgs \subseteq Slugs
  /\ parent \in [Slugs -> Slugs \union {NoOrg}]
  /\ closure \subseteq [above: orgs, below: orgs, depth: Nat]
  /\ contracts \subseteq orgs \X orgs
  /\ actors \subseteq People
  /\ members \subseteq [actor: actors, org: orgs, role: Roles]
  /\ workspace \in orgs \union {NoOrg}
  /\ orders \subseteq [actor: actors, slug: Slugs]
  /\ tx \in [Sessions -> Transactions \union {Idle}]
  /\ unchecked \subseteq orgs
  /\ crossed \subseteq People

(* The closure table is the tree: it has the distance of every two         *)
(* organizations one of which is above the other, once, and nothing else;  *)
(* it ends at a root; and every organization but a root has exactly its    *)
(* contract with its parent, so that edges() reaches the root and finds    *)
(* a price on every level.                                                 *)
Row(a, b, d) == [above |-> a, below |-> b, depth |-> d] \in closure
ClosureIsTreeOrder ==
  /\ \A o \in orgs : Row(o, o, 0)
  /\ \A r \in closure : r.depth = 0 <=> r.above = r.below
  /\ \A r \in closure : r.above # r.below =>
       parent[r.below] \in orgs /\ Row(r.above, parent[r.below], r.depth - 1)
  /\ \A r \in closure : parent[r.above] # NoOrg => Row(parent[r.above], r.below, r.depth + 1)
  /\ \A q, r \in closure : q.above = r.above /\ q.below = r.below => q = r
  /\ contracts = {<<parent[o], o>> : o \in {x \in orgs : parent[x] # NoOrg}}

(* README.md:176, MAX_TREE_DEPTH: no organization is created deeper than   *)
(* the limit, except by the bot, which does not ask.  Below one that is at *)
(* the limit, or that the bot has created too deep, nobody but the bot     *)
(* creates another.                                                        *)
DepthWithinCap ==
  \A r \in closure : r.depth > DepthLimit => r.below \in unchecked

(* What two handlers check before their inserts holds at the commit, or    *)
(* two transactions about that person overlapped at some time:             *)
(* bootstrap_workspace() does not set the workspace up a second time, and  *)
(* admin_create_reseller(), the request from the web, links nobody who     *)
(* already has an organization.  Nothing is said of bind_actor(),          *)
(* create_reseller() of the bot and approve_panel_order(): they do not ask *)
(* whether the person has one, and link a second time with no overlap.     *)
NewlyLinked(p) ==
  \E s \in Sessions : /\ tx[s] # Idle /\ tx[s].kind = "reseller" /\ tx[s].actor = p
                      /\ tx'[s] = Idle /\ tx[s].slug \in orgs' \ orgs
SlipsByOverlap ==
  /\ workspace' # workspace => workspace = NoOrg \/ Root \in crossed
  /\ \A p \in People : NewlyLinked(p) => ~Linked(p) \/ p \in crossed
OnlyOverlapsSlip == [][SlipsByOverlap]_vars
=============================================================================
