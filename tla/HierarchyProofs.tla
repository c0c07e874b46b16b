--------------------------- MODULE HierarchyProofs ---------------------------
(***************************************************************************)
(* The tree of organizations for every number of organizations, people and *)
(* transactions and every limit of the depth.  What a transaction has read *)
(* stays true until it commits, because organizations and rows are only    *)
(* added; what does not is what two transactions about one person may      *)
(* both have seen, and those are in crossed.                               *)
(***************************************************************************)
EXTENDS Hierarchy, TLAPS

(* What a transaction that is open may rely on.                            *)
Reads(t) ==
  /\ t.kind \in Creations => t.parent \in orgs \union {NoOrg}
  /\ t.kind \in Creations \ {"bot"} /\ t.parent # NoOrg => DepthAllowed(t.parent)
  /\ t.kind = "bind" => t.slug \in orgs
  /\ t.kind \in {"bind", "order"} => t.actor # NoOne
  /\ t.kind = "bootstrap" => t.parent = NoOrg /\ t.actor = Root
MayHaveSlipped(t) ==
  /\ t.kind = "bootstrap" /\ workspace # NoOrg => Root \in crossed
  /\ t.kind = "reseller" /\ Linked(t.actor) => t.actor \in crossed

Running(s) == tx[s] # Idle
ReadsInv == \A s \in Sessions : Running(s) => Reads(tx[s]) /\ MayHaveSlipped(tx[s])

(* Two open transactions about one person have met.                        *)
MetInv == \A s, z \in Sessions :
  s # z /\ Running(s) /\ Running(z) /\ tx[s].actor = tx[z].actor /\ tx[s].actor # NoOne => tx[s].actor \in crossed

HInv == TypeOK /\ ClosureIsTreeOrder /\ DepthWithinCap /\ ReadsInv /\ MetInv

-----------------------------------------------------------------------------
(* What a request opens.                                                   *)

Opens(s, t) == Open(s, t) /\ t \in Transactions /\ Reads(t) /\ MayHaveSlipped(t)

LEMMA RequestIs ==
  ASSUME NEW kind \in Kinds, NEW slug \in Slugs, NEW above \in Slugs \union {NoOrg},
         NEW actor \in People \union {NoOne}, NEW role \in Roles
  PROVE  LET t == Request(kind, slug, above, actor, role)
         IN /\ t \in Transactions /\ t.kind = kind /\ t.slug = slug /\ t.parent = above
            /\ t.actor = actor
BY DEF Request, Transactions

LEMMA KindsAre == /\ Creations \subseteq Kinds /\ {"bind", "order"} \subseteq Kinds
                  /\ {"reseller_admin", "customer"} \subseteq Roles
                  /\ "bind" \notin Creations /\ "order" \notin Creations
                  /\ {"bootstrap", "child", "reseller", "org", "bot", "approval"} \subseteq Creations
BY DEF Kinds, Creations, Roles

(* A request with legal fields is a transaction that carries them.         *)
LEMMA RequestOpens ==
  ASSUME NEW kind \in Kinds, NEW slug \in Slugs, NEW above \in Slugs \union {NoOrg},
         NEW actor \in People \union {NoOne}, NEW role \in Roles,
         NEW s \in Sessions, Open(s, Request(kind, slug, above, actor, role)),
         kind \in Creations => above \in orgs \union {NoOrg},
         kind \in Creations \ {"bot"} /\ above # NoOrg => DepthAllowed(above),
         kind = "bind" => slug \in orgs,
         kind \in {"bind", "order"} => actor # NoOne,
         kind = "bootstrap" => above = NoOrg /\ actor = Root /\ workspace = NoOrg,
         kind = "reseller" => ~Linked(actor)
  PROVE  \E t : Opens(s, t)
<1> DEFINE t == Request(kind, slug, above, actor, role)
<1>1. t \in Transactions /\ t.kind = kind /\ t.slug = slug /\ t.parent = above /\ t.actor = actor
  BY RequestIs
<1>2. Open(s, t)
  OBVIOUS
<1> HIDE DEF t
<1>3. Reads(t)
  BY <1>1 DEF Reads
<1>4. MayHaveSlipped(t)
  BY <1>1 DEF MayHaveSlipped
<1> QED
  BY <1>1, <1>2, <1>3, <1>4 DEF Opens

LEMMA AskOpens ==
  ASSUME TypeOK, NEW s \in Sessions, Ask(s)
  PROVE  \E t : Opens(s, t)
<1>0. /\ orgs \subseteq Slugs /\ members \subseteq [actor: actors, org: orgs, role: Roles]
      /\ orders \subseteq [actor: actors, slug: Slugs] /\ actors \subseteq People
  BY DEF TypeOK
<1>m. \A p : (\A m \in WebMembership(p) : m.org \in orgs) /\ (\A m \in BotMembership(p) : m.org \in orgs)
  BY <1>0 DEF WebMembership, BotMembership
<1>k. /\ {"bootstrap", "child", "reseller", "org", "bot", "approval", "bind", "order"} \subseteq Kinds
      /\ {"reseller_admin", "customer"} \subseteq Roles
      /\ "bind" \notin Creations /\ "order" \notin Creations
  BY KindsAre
<1>p. Root \in People /\ NoOne \notin People /\ Guests \subseteq People /\ BoundRoles \subseteq Roles
  BY HierarchyAssumption
<1>o. \A o \in orgs : o \in Slugs \union {NoOrg} /\ o \in orgs \union {NoOrg}
  BY <1>0
<1>1. ASSUME NEW slug \in Slugs, AskBootstrap(s, slug) PROVE \E t : Opens(s, t)
  <2>1. Open(s, Request("bootstrap", slug, NoOrg, Root, "reseller_admin")) /\ workspace = NoOrg
    BY <1>1 DEF AskBootstrap
  <2>2. Root \in People \union {NoOne} /\ NoOrg \in Slugs \union {NoOrg} /\ NoOrg \in orgs \union {NoOrg}
    BY <1>p
  <2> QED
    BY <1>k, <2>1, <2>2, RequestOpens
<1>2. ASSUME NEW slug \in Slugs, AskChild(s, slug) PROVE \E t : Opens(s, t)
  <2>1. PICK p \in People : \E m \in WebMembership(p) :
          DepthAllowed(m.org) /\ Open(s, Request("child", slug, m.org, NoOne, "reseller_admin"))
    BY <1>2 DEF AskChild
  <2>2. PICK o \in orgs : DepthAllowed(o) /\ Open(s, Request("child", slug, o, NoOne, "reseller_admin"))
    BY <1>m, <2>1
  <2>3. o \in Slugs \union {NoOrg} /\ o \in orgs \union {NoOrg} /\ NoOne \in People \union {NoOne}
    BY <1>o
  <2> QED
    BY <1>k, <2>2, <2>3, RequestOpens
<1>3. ASSUME NEW slug \in Slugs, NEW actor \in Guests, AskReseller(s, slug, actor) PROVE \E t : Opens(s, t)
  <2>1. PICK o \in orgs : DepthAllowed(o) /\ Open(s, Request("reseller", slug, o, actor, "reseller_admin"))
    BY <1>3, <1>m DEF AskReseller
  <2>2. ~Linked(actor)
    BY <1>3 DEF AskReseller
  <2>3. o \in Slugs \union {NoOrg} /\ o \in orgs \union {NoOrg} /\ actor \in People \union {NoOne}
    BY <1>o, <1>p
  <2> QED
    BY <1>k, <2>1, <2>2, <2>3, RequestOpens
<1>4. ASSUME NEW slug \in Slugs, AskOrg(s, slug) PROVE \E t : Opens(s, t)
  <2>1. PICK above \in orgs \union {NoOrg} :
          /\ above # NoOrg => DepthAllowed(above)
          /\ Open(s, Request("org", slug, above, NoOne, "reseller_admin"))
    BY <1>4 DEF AskOrg
  <2>2. above \in Slugs \union {NoOrg} /\ NoOne \in People \union {NoOne}
    BY <1>o
  <2> QED
    BY <1>k, <2>1, <2>2, RequestOpens
<1>5. ASSUME NEW slug \in Slugs, NEW actor \in Guests, AskBot(s, slug, actor) PROVE \E t : Opens(s, t)
  <2>1. PICK p \in People : \E m \in BotMembership(p) :
          Open(s, Request("bot", slug, m.org, actor, "reseller_admin"))
    BY <1>5 DEF AskBot
  <2>2. PICK o \in orgs : Open(s, Request("bot", slug, o, actor, "reseller_admin"))
    BY <1>m, <2>1
  <2>3. o \in Slugs \union {NoOrg} /\ o \in orgs \union {NoOrg} /\ actor \in People \union {NoOne}
    BY <1>o, <1>p
  <2> QED
    BY <1>k, <2>2, <2>3, RequestOpens
<1>6. ASSUME NEW slug \in Slugs, NEW actor \in Guests, AskOrder(s, slug, actor) PROVE \E t : Opens(s, t)
  <2>1. Open(s, Request("order", slug, NoOrg, actor, "customer"))
    BY <1>6 DEF AskOrder
  <2>2. NoOrg \in Slugs \union {NoOrg} /\ actor \in People \union {NoOne} /\ actor # NoOne
    BY <1>p
  <2> QED
    BY <1>k, <2>1, <2>2, RequestOpens
<1>7. ASSUME NEW r \in orders, AskApproval(s, r) PROVE \E t : Opens(s, t)
  <2>1. PICK p \in People : \E m \in BotMembership(p) :
          DepthAllowed(m.org) /\ Open(s, Request("approval", r.slug, m.org, r.actor, "customer"))
    BY <1>7 DEF AskApproval
  <2>2. r.slug \in Slugs /\ r.actor \in People
    BY <1>0
  <2>3. PICK o \in orgs, slug \in Slugs, actor \in People :
          DepthAllowed(o) /\ Open(s, Request("approval", slug, o, actor, "customer"))
    BY <1>m, <2>1, <2>2
  <2>4. o \in Slugs \union {NoOrg} /\ o \in orgs \union {NoOrg} /\ actor \in People \union {NoOne}
    BY <1>o
  <2> QED
    BY <1>k, <2>3, <2>4, RequestOpens
<1>8. ASSUME NEW org \in orgs, NEW actor \in Guests, NEW role \in BoundRoles, AskBind(s, org, actor, role)
      PROVE  \E t : Opens(s, t)
  <2>1. Open(s, Request("bind", org, NoOrg, actor, role))
    BY <1>8 DEF AskBind
  <2>2. org \in Slugs /\ NoOrg \in Slugs \union {NoOrg} /\ actor \in People \union {NoOne} /\ actor # NoOne
        /\ role \in Roles
    BY <1>0, <1>p
  <2> QED
    BY <1>k, <2>1, <2>2, RequestOpens
<1> QED
  BY <1>1, <1>2, <1>3, <1>4, <1>5, <1>6, <1>7, <1>8 DEF Ask

-----------------------------------------------------------------------------
(* The steps, by what they change.                                         *)

LEMMA CommitIs ==
  ASSUME TypeOK, ReadsInv, NEW s \in Sessions, Commit(s)
  PROVE  /\ tx[s] # Idle /\ tx[s] \in Transactions /\ Reads(tx[s]) /\ MayHaveSlipped(tx[s])
         /\ tx[s].kind \in Creations => Create(tx[s]) /\ tx[s].slug \in Slugs \ orgs
         /\ tx[s].kind \notin Creations => UNCHANGED <<orgs, parent, closure, contracts, unchecked>>
         /\ actors' = actors \union ({tx[s].actor} \ {NoOne})
         /\ members' \in {members, members \union {[actor |-> tx[s].actor, org |-> tx[s].slug, role |-> tx[s].role]}}
         /\ tx[s].actor = NoOne \/ tx[s].kind = "order" => members' = members
         /\ workspace' = IF tx[s].kind = "bootstrap" THEN tx[s].slug ELSE workspace
         /\ tx'[s] = Idle /\ \A z \in Sessions \ {s} : tx'[z] = tx[z]
         /\ tx' \in [Sessions -> Transactions \union {Idle}]
         /\ crossed' = crossed
<1>1. tx[s] # Idle /\ tx \in [Sessions -> Transactions \union {Idle}] /\ ~Clash(tx[s])
  BY DEF Commit, TypeOK
<1>2. tx[s] \in Transactions
  BY <1>1
<1>3. Reads(tx[s]) /\ MayHaveSlipped(tx[s])
  BY <1>1 DEF ReadsInv, Running
<1>4. tx[s].slug \in Slugs
  BY <1>2 DEF Transactions
<1>5. tx[s].kind \in Creations => tx[s].slug \notin orgs
  BY <1>1 DEF Clash
<1>6. tx' = [tx EXCEPT ![s] = Idle]
  BY DEF Commit
<1>7. members' \in {members, members \union {[actor |-> tx[s].actor, org |-> tx[s].slug, role |-> tx[s].role]}}
      /\ (tx[s].actor = NoOne \/ tx[s].kind = "order" => members' = members)
  BY DEF Commit
<1>8. /\ tx[s].kind \in Creations => Create(tx[s])
      /\ tx[s].kind \notin Creations => UNCHANGED <<orgs, parent, closure, contracts, unchecked>>
      /\ actors' = actors \union ({tx[s].actor} \ {NoOne})
      /\ workspace' = IF tx[s].kind = "bootstrap" THEN tx[s].slug ELSE workspace
      /\ crossed' = crossed
  BY DEF Commit
<1>9. tx'[s] = Idle /\ (\A z \in Sessions \ {s} : tx'[z] = tx[z])
      /\ tx' \in [Sessions -> Transactions \union {Idle}]
  BY <1>1, <1>6
<1> QED
  BY <1>1, <1>2, <1>3, <1>4, <1>5, <1>7, <1>8, <1>9

LEMMA MergeIs ==
  ASSUME TypeOK, NEW s \in Sessions, MergeSetting(s)
  PROVE  /\ tx[s] # Idle /\ tx[s].kind = "bootstrap" /\ tx'[s] # Idle
         /\ tx' \in [Sessions -> Transactions \union {Idle}]
         /\ tx'[s].kind = tx[s].kind /\ tx'[s].slug = tx[s].slug /\ tx'[s].parent = tx[s].parent
         /\ tx'[s].actor = tx[s].actor
         /\ tx'[s].over = IF workspace = NoOrg THEN "insert" ELSE "update"
         /\ \A z \in Sessions \ {s} : tx'[z] = tx[z]
         /\ UNCHANGED <<tables, unchecked, crossed>>
<1> DEFINE o == IF workspace = NoOrg THEN "insert" ELSE "update"
           t == tx[s]
           n == [t EXCEPT !.over = o, !.newActor = Root \notin actors]
<1>1. t # Idle /\ t.kind = "bootstrap" /\ tx \in [Sessions -> Transactions \union {Idle}]
      /\ UNCHANGED <<tables, unchecked, crossed>>
  BY DEF MergeSetting, TypeOK
<1>2. t \in Transactions
  BY <1>1
<1>3. tx' = [tx EXCEPT ![s] = n]
  BY <1>1 DEF MergeSetting
<1>4. o \in {"insert", "update"} /\ (Root \notin actors) \in BOOLEAN
  OBVIOUS
<1>5. /\ n \in Transactions /\ n.kind = t.kind /\ n.slug = t.slug /\ n.parent = t.parent
      /\ n.actor = t.actor /\ n.over = o
  BY <1>2, <1>4 DEF Transactions
<1>6. n # Idle
  BY <1>1, <1>5 DEF Idle
<1> HIDE DEF n, t, o
<1>7. tx'[s] = n /\ (\A z \in Sessions \ {s} : tx'[z] = tx[z])
      /\ tx' \in [Sessions -> Transactions \union {Idle}]
  BY <1>1, <1>3, <1>5
<1> QED
  BY <1>1, <1>5, <1>6, <1>7 DEF t, o

LEMMA OpensIs ==
  ASSUME TypeOK, NEW s \in Sessions, NEW t, Opens(s, t)
  PROVE  /\ tx[s] = Idle /\ tx'[s] = t /\ \A z \in Sessions \ {s} : tx'[z] = tx[z]
         /\ tx' \in [Sessions -> Transactions \union {Idle}]
         /\ t \in Transactions /\ Reads(t) /\ MayHaveSlipped(t)
         /\ crossed \subseteq crossed' /\ crossed' \subseteq crossed \union ({t.actor} \ {NoOne})
         /\ \A z \in Sessions \ {s} :
              tx[z] # Idle /\ tx[z].actor = t.actor /\ t.actor # NoOne => t.actor \in crossed'
         /\ UNCHANGED <<tables, unchecked>>
BY DEF Opens, Open, TypeOK

LEMMA RollbackIs ==
  ASSUME TypeOK, NEW s \in Sessions, Rollback(s)
  PROVE  /\ tx'[s] = Idle /\ \A z \in Sessions \ {s} : tx'[z] = tx[z]
         /\ tx' \in [Sessions -> Transactions \union {Idle}]
         /\ UNCHANGED <<tables, unchecked, crossed>>
BY DEF Rollback, TypeOK

-----------------------------------------------------------------------------
(* The new organization.                                                   *)

LEMMA PathIs ==
  ASSUME NEW t, NEW r
  PROVE  r \in Path(t) <=>
           \/ r = [above |-> t.slug, below |-> t.slug, depth |-> 0]
           \/ \E q \in closure : /\ q.below = t.parent
                               /\ r = [above |-> q.above, below |-> t.slug, depth |-> q.depth + 1]
BY DEF Path

LEMMA CreateTypes ==
  ASSUME TypeOK, NEW t \in Transactions, Create(t), t.parent \in orgs \union {NoOrg}
  PROVE  /\ orgs' \subseteq Slugs /\ orgs \subseteq orgs'
         /\ parent' \in [Slugs -> Slugs \union {NoOrg}]
         /\ parent'[t.slug] = t.parent /\ \A o \in Slugs \ {t.slug} : parent'[o] = parent[o]
         /\ closure' \subseteq [above: orgs', below: orgs', depth: Nat]
         /\ contracts' \subseteq orgs' \X orgs'
         /\ unchecked' \subseteq orgs'
<1>1. t.slug \in Slugs /\ t.parent \in Slugs \union {NoOrg}
  BY DEF Transactions
<1>2. /\ orgs' = orgs \union {t.slug} /\ parent' = [parent EXCEPT ![t.slug] = t.parent]
      /\ closure' = closure \union Path(t)
      /\ contracts' = IF t.parent = NoOrg THEN contracts ELSE contracts \union {<<t.parent, t.slug>>}
      /\ unchecked' = IF t.kind = "bot" THEN unchecked \union {t.slug} ELSE unchecked
  BY DEF Create
<1>3. ASSUME NEW r \in closure' PROVE r \in [above: orgs', below: orgs', depth: Nat]
  <2>1. \A q \in closure : q \in [above: orgs, below: orgs, depth: Nat]
    BY DEF TypeOK
  <2>2. CASE r \in closure
    BY <1>2, <2>1, <2>2
  <2>3. CASE r \in Path(t)
    BY <1>2, <2>1, <2>3, PathIs
  <2> QED
    BY <1>2, <2>2, <2>3
<1> QED
  BY <1>1, <1>2, <1>3 DEF TypeOK

(* The closure row (a, b, d) is there after the step. *)
NewRow(a, b, d) == [above |-> a, below |-> b, depth |-> d] \in closure'
LEMMA CreateTree ==
  ASSUME TypeOK, ClosureIsTreeOrder, NEW t \in Transactions, Create(t), t.slug \notin orgs,
         t.parent \in orgs \union {NoOrg}
  PROVE  ClosureIsTreeOrder'
<1> DEFINE n == t.slug
           p == t.parent
<1>1. /\ n \in Slugs \ orgs /\ NoOrg \notin Slugs /\ NoOrg \notin orgs /\ orgs \subseteq Slugs
  BY HierarchyAssumption DEF Transactions, TypeOK
<1>2. /\ orgs' = orgs \union {n} /\ closure' = closure \union Path(t)
      /\ contracts' = IF p = NoOrg THEN contracts ELSE contracts \union {<<p, n>>}
  BY DEF Create
<1>3. parent'[n] = p /\ \A o \in Slugs \ {n} : parent'[o] = parent[o]
  BY CreateTypes
<1>4. \A q \in closure : /\ q.above \in orgs /\ q.below \in orgs /\ q.depth \in Nat
                          /\ q = [above |-> q.above, below |-> q.below, depth |-> q.depth]
  BY DEF TypeOK
<1>5. /\ \A o \in orgs : Row(o, o, 0)
      /\ \A r \in closure : r.depth = 0 <=> r.above = r.below
      /\ \A r \in closure : r.above # r.below =>
           parent[r.below] \in orgs /\ Row(r.above, parent[r.below], r.depth - 1)
      /\ \A r \in closure : parent[r.above] # NoOrg => Row(parent[r.above], r.below, r.depth + 1)
      /\ \A q, r \in closure : q.above = r.above /\ q.below = r.below => q = r
      /\ contracts = {<<parent[o], o>> : o \in {x \in orgs : parent[x] # NoOrg}}
  BY DEF ClosureIsTreeOrder
<1> HIDE DEF n, p
<1>6. \A a, b, d : NewRow(a, b, d) <=>
        \/ Row(a, b, d)
        \/ a = n /\ b = n /\ d = 0
        \/ \E q \in closure : q.below = p /\ a = q.above /\ b = n /\ d = q.depth + 1
  <2> SUFFICES ASSUME NEW a, NEW b, NEW d
               PROVE  NewRow(a, b, d) <=>
                        \/ Row(a, b, d)
                        \/ a = n /\ b = n /\ d = 0
                        \/ \E q \in closure : q.below = p /\ a = q.above /\ b = n /\ d = q.depth + 1
    OBVIOUS
  <2> DEFINE r == [above |-> a, below |-> b, depth |-> d]
  <2>1. NewRow(a, b, d) <=> r \in closure \/ r \in Path(t)
    BY <1>2 DEF NewRow
  <2>2. r \in Path(t) <=>
           \/ a = n /\ b = n /\ d = 0
           \/ \E q \in closure : q.below = p /\ a = q.above /\ b = n /\ d = q.depth + 1
    BY PathIs DEF n, p
  <2> QED
    BY <2>1, <2>2 DEF Row
<1>7. ASSUME NEW r \in closure'
      PROVE  \/ r \in closure
             \/ r.above = n /\ r.below = n /\ r.depth = 0
             \/ \E q \in closure : q.below = p /\ r.above = q.above /\ r.below = n /\ r.depth = q.depth + 1
  BY <1>2, PathIs DEF n, p
<1>8. \A o \in orgs' : NewRow(o, o, 0)
  BY <1>2, <1>5, <1>6
<1>9. ASSUME NEW r \in closure' PROVE r.depth = 0 <=> r.above = r.below
  <2>1. CASE r \in closure
    BY <1>5, <2>1
  <2>2. CASE r.above = n /\ r.below = n /\ r.depth = 0
    BY <2>2
  <2>3. ASSUME NEW q \in closure, r.above = q.above, r.below = n, r.depth = q.depth + 1
        PROVE  r.depth # 0 /\ r.above # r.below
    BY <1>1, <1>4, <2>3
  <2> QED
    BY <1>7, <2>1, <2>2, <2>3
<1>10. ASSUME NEW r \in closure', r.above # r.below
       PROVE  parent'[r.below] \in orgs' /\ NewRow(r.above, parent'[r.below], r.depth - 1)
  <2>1. CASE r \in closure
    <3>1. parent'[r.below] = parent[r.below]
      BY <1>1, <1>3, <1>4, <2>1
    <3> QED
      BY <1>2, <1>5, <1>6, <1>10, <2>1, <3>1
  <2>2. ASSUME NEW q \in closure, q.below = p, r.above = q.above, r.below = n, r.depth = q.depth + 1
        PROVE  parent'[r.below] \in orgs' /\ NewRow(r.above, parent'[r.below], r.depth - 1)
    <3>1. parent'[r.below] = p /\ p \in orgs /\ r.depth - 1 = q.depth
      BY <1>3, <1>4, <2>2
    <3>2. Row(q.above, q.below, q.depth)
      BY <1>4 DEF Row
    <3> QED
      BY <1>2, <1>6, <2>2, <3>1, <3>2
  <2> QED
    BY <1>7, <1>10, <2>1, <2>2
<1>11. ASSUME NEW r \in closure', parent'[r.above] # NoOrg
       PROVE  NewRow(parent'[r.above], r.below, r.depth + 1)
  <2>1. CASE r \in closure
    <3>1. parent'[r.above] = parent[r.above]
      BY <1>1, <1>3, <1>4, <2>1
    <3> QED
      BY <1>5, <1>6, <1>11, <2>1, <3>1
  <2>2. CASE r.above = n /\ r.below = n /\ r.depth = 0
    <3>1. p \in orgs /\ parent'[r.above] = p
      BY <1>3, <1>11, <2>2 DEF p
    <3>2. PICK q \in closure : q.above = p /\ q.below = p /\ q.depth = 0
      BY <1>5, <3>1 DEF Row
    <3>3. \E x \in closure : x.below = p /\ p = x.above /\ n = n /\ 1 = x.depth + 1
      BY <3>2
    <3>4. NewRow(p, n, 1)
      BY <1>6, <3>3
    <3> QED
      BY <2>2, <3>1, <3>4
  <2>3. ASSUME NEW q \in closure, q.below = p, r.above = q.above, r.below = n, r.depth = q.depth + 1
        PROVE  NewRow(parent'[r.above], r.below, r.depth + 1)
    <3>1. parent'[r.above] = parent[q.above] /\ parent[q.above] # NoOrg
      BY <1>1, <1>3, <1>4, <1>11, <2>3
    <3>2. Row(parent[q.above], p, q.depth + 1)
      BY <1>5, <2>3, <3>1
    <3>3. PICK x \in closure : x.above = parent[q.above] /\ x.below = p /\ x.depth = q.depth + 1
      BY <3>2 DEF Row
    <3>4. NewRow(parent[q.above], n, x.depth + 1)
      BY <1>6, <3>3
    <3> QED
      BY <2>3, <3>1, <3>3, <3>4
  <2> QED
    BY <1>7, <2>1, <2>2, <2>3
<1>12. ASSUME NEW q \in closure', NEW r \in closure', q.above = r.above, q.below = r.below
       PROVE  q = r
  <2>0. \A x \in closure' : x = [above |-> x.above, below |-> x.below, depth |-> x.depth]
    BY CreateTypes DEF n, p
  <2>1. CASE q.below \in orgs
    <3>1. q \in closure /\ r \in closure
      BY <1>1, <1>7, <1>12, <2>1
    <3> QED
      BY <1>5, <1>12, <3>1
  <2>2. CASE q.below = n
    <3>1. q \notin closure /\ r \notin closure
      BY <1>1, <1>4, <1>12, <2>2
    <3>2. CASE q.above = n
      <4>1. \A x \in closure : x.above # n
        BY <1>1, <1>4
      <4>2. q.depth = 0 /\ r.depth = 0
        BY <1>7, <1>12, <3>1, <3>2, <4>1
      <4> QED
        BY <1>12, <2>0, <4>2
    <3>3. CASE q.above # n
      <4>1. PICK x \in closure : x.below = p /\ q.above = x.above /\ q.depth = x.depth + 1
        BY <1>7, <3>1, <3>3
      <4>2. PICK y \in closure : y.below = p /\ r.above = y.above /\ r.depth = y.depth + 1
        BY <1>7, <1>12, <3>1, <3>3
      <4>3. x = y
        BY <1>5, <1>12, <4>1, <4>2
      <4> QED
        BY <1>12, <2>0, <4>1, <4>2, <4>3
    <3> QED
      BY <3>2, <3>3
  <2>3. q.below \in orgs \/ q.below = n
    BY <1>4, <1>7
  <2> QED
    BY <2>1, <2>2, <2>3
<1>13. contracts' = {<<parent'[o], o>> : o \in {x \in orgs' : parent'[x] # NoOrg}}
  <2>1. \A o \in orgs : parent'[o] = parent[o]
    BY <1>1, <1>3
  <2>2. CASE p = NoOrg
    <3>1. {x \in orgs' : parent'[x] # NoOrg} = {x \in orgs : parent[x] # NoOrg}
      BY <1>2, <1>3, <2>1, <2>2
    <3> QED
      BY <1>2, <1>5, <2>1, <2>2, <3>1
  <2>3. CASE p # NoOrg
    <3>1. {x \in orgs' : parent'[x] # NoOrg} = {x \in orgs : parent[x] # NoOrg} \union {n}
      BY <1>2, <1>3, <2>1, <2>3
    <3> QED
      BY <1>2, <1>3, <1>5, <2>1, <2>3, <3>1
  <2> QED
    BY <2>2, <2>3
<1> QED
  BY <1>8, <1>9, <1>10, <1>11, <1>12, <1>13 DEF ClosureIsTreeOrder, Row, NewRow


-----------------------------------------------------------------------------
(* The invariant is kept.                                                  *)

(* A step that leaves the tables alone.                                    *)
LEMMA TablesKept ==
  ASSUME TypeOK, ClosureIsTreeOrder, DepthWithinCap, UNCHANGED <<tables, unchecked>>,
         tx' \in [Sessions -> Transactions \union {Idle}], crossed' \subseteq People
  PROVE  TypeOK' /\ ClosureIsTreeOrder' /\ DepthWithinCap'
BY DEF tables, TypeOK, ClosureIsTreeOrder, Row, DepthWithinCap

LEMMA ReadsKept ==
  ASSUME NEW t, Reads(t), UNCHANGED tables PROVE Reads(t)'
BY DEF tables, Reads, DepthAllowed

LEMMA CommitTypes ==
  ASSUME TypeOK, ReadsInv, NEW s \in Sessions, Commit(s)
  PROVE  TypeOK'
<1> DEFINE t == tx[s]
<1>1. /\ t \in Transactions /\ Reads(t)
      /\ t.kind \in Creations => Create(t)
      /\ t.kind \notin Creations => UNCHANGED <<orgs, parent, closure, contracts, unchecked>>
      /\ actors' = actors \union ({t.actor} \ {NoOne})
      /\ members' \in {members, members \union {[actor |-> t.actor, org |-> t.slug, role |-> t.role]}}
      /\ t.actor = NoOne \/ t.kind = "order" => members' = members
      /\ workspace' = IF t.kind = "bootstrap" THEN t.slug ELSE workspace
      /\ tx' \in [Sessions -> Transactions \union {Idle}]
      /\ crossed' = crossed
  BY CommitIs
<1>2. t.kind \in Kinds /\ t.slug \in Slugs /\ t.actor \in People \union {NoOne} /\ t.role \in Roles
  BY <1>1 DEF Transactions
<1>3. orders' \subseteq orders \union {[actor |-> t.actor, slug |-> t.slug]}
      /\ (t.kind # "order" => orders' \subseteq orders)
  BY DEF Commit
<1> HIDE DEF t
<1>4. /\ orgs' \subseteq Slugs /\ orgs \subseteq orgs'
      /\ parent' \in [Slugs -> Slugs \union {NoOrg}]
      /\ closure' \subseteq [above: orgs', below: orgs', depth: Nat]
      /\ contracts' \subseteq orgs' \X orgs'
      /\ unchecked' \subseteq orgs'
      /\ t.kind \in Creations => t.slug \in orgs'
  <2>1. CASE t.kind \in Creations
    <3>1. Create(t) /\ t.parent \in orgs \union {NoOrg}
      BY <1>1, <2>1 DEF Reads
    <3>2. t.slug \in orgs'
      BY <3>1 DEF Create
    <3> QED
      BY <1>1, <3>1, <3>2, CreateTypes
  <2>2. CASE t.kind \notin Creations
    BY <1>1, <2>2 DEF TypeOK
  <2> QED
    BY <2>1, <2>2
<1>5. t.kind # "order" => t.slug \in orgs'
  <2>1. t.kind = "bind" => t.slug \in orgs
    BY <1>1 DEF Reads
  <2> QED
    BY <1>2, <1>4, <2>1, KindsAre DEF Kinds
<1>6. actors' \subseteq People /\ actors \subseteq actors' /\ (t.actor # NoOne => t.actor \in actors')
  BY <1>1, <1>2 DEF TypeOK
<1>7. members' \subseteq [actor: actors', org: orgs', role: Roles]
  <2>1. members \subseteq [actor: actors', org: orgs', role: Roles]
    BY <1>4, <1>6 DEF TypeOK
  <2>2. CASE t.actor = NoOne \/ t.kind = "order"
    BY <1>1, <2>1, <2>2
  <2>3. CASE t.actor # NoOne /\ t.kind # "order"
    <3>1. [actor |-> t.actor, org |-> t.slug, role |-> t.role] \in [actor: actors', org: orgs', role: Roles]
      BY <1>2, <1>5, <1>6, <2>3
    <3> QED
      BY <1>1, <2>1, <3>1
  <2> QED
    BY <2>2, <2>3
<1>8. workspace' \in orgs' \union {NoOrg}
  BY <1>1, <1>4, <1>5 DEF TypeOK
<1>9. orders' \subseteq [actor: actors', slug: Slugs]
  <2>1. orders \subseteq [actor: actors', slug: Slugs]
    BY <1>6 DEF TypeOK
  <2>2. t.kind = "order" => [actor |-> t.actor, slug |-> t.slug] \in [actor: actors', slug: Slugs]
    BY <1>1, <1>2, <1>6 DEF Reads
  <2> QED
    BY <1>3, <2>1, <2>2
<1> QED
  BY <1>1, <1>4, <1>6, <1>7, <1>8, <1>9 DEF TypeOK

LEMMA CommitTree ==
  ASSUME TypeOK, ClosureIsTreeOrder, ReadsInv, NEW s \in Sessions, Commit(s)
  PROVE  ClosureIsTreeOrder'
<1>1. CASE tx[s].kind \in Creations
  BY <1>1, CommitIs, CreateTree DEF Reads
<1>2. CASE tx[s].kind \notin Creations
  <2>1. UNCHANGED <<orgs, parent, closure, contracts>>
    BY <1>2, CommitIs
  <2> QED
    BY <2>1 DEF ClosureIsTreeOrder, Row
<1> QED
  BY <1>1, <1>2

LEMMA CommitDepth ==
  ASSUME TypeOK, DepthWithinCap, ReadsInv, NEW s \in Sessions, Commit(s)
  PROVE  DepthWithinCap'
<1> DEFINE t == tx[s]
<1>1. t \in Transactions /\ Reads(t)
  BY CommitIs
<1>2. CASE t.kind \notin Creations
  <2>1. UNCHANGED <<closure, unchecked>>
    BY <1>2, CommitIs
  <2> QED
    BY <2>1 DEF DepthWithinCap
<1>3. CASE t.kind \in Creations
  <2>1. Create(t)
    BY <1>3, CommitIs
  <2> HIDE DEF t
  <2>2. /\ closure' = closure \union Path(t)
        /\ unchecked \subseteq unchecked' /\ (t.kind = "bot" => t.slug \in unchecked')
    BY <2>1 DEF Create
  <2> SUFFICES ASSUME NEW r \in closure', r.depth > DepthLimit PROVE r.below \in unchecked'
    BY DEF DepthWithinCap
  <2>3. CASE r \in closure
    BY <2>2, <2>3 DEF DepthWithinCap
  <2>4. CASE r = [above |-> t.slug, below |-> t.slug, depth |-> 0]
    BY <2>4, HierarchyAssumption
  <2>5. ASSUME NEW q \in closure, q.below = t.parent,
               r = [above |-> q.above, below |-> t.slug, depth |-> q.depth + 1]
        PROVE  r.below \in unchecked'
    <3>1. t.parent # NoOrg /\ q.depth \in Nat
      BY <2>5, HierarchyAssumption DEF TypeOK
    <3>2. CASE t.kind = "bot"
      BY <2>2, <2>5, <3>2
    <3>3. CASE t.kind # "bot"
      <4>1. DepthAllowed(t.parent)
        BY <1>1, <1>3, <3>1, <3>3 DEF Reads
      <4>2. q.depth + 1 <= DepthLimit
        BY <2>5, <4>1 DEF DepthAllowed
      <4>3. r.depth = q.depth + 1
        BY <2>5
      <4> QED
        BY <3>1, <4>2, <4>3, HierarchyAssumption
    <3> QED
      BY <3>2, <3>3
  <2> QED
    BY <2>2, <2>3, <2>4, <2>5, PathIs
<1> QED
  BY <1>2, <1>3

(* What an open transaction has read is not changed by the commit of       *)
(* another one, but for what concerns the same person.                     *)
LEMMA CommitReads ==
  ASSUME TypeOK, ReadsInv, MetInv, NEW s \in Sessions, Commit(s), NEW z \in Sessions, z # s, Running(z)
  PROVE  Reads(tx[z])' /\ MayHaveSlipped(tx[z])'
<1> DEFINE t == tx[s]
           u == tx[z]
<1>1. /\ t # Idle /\ t \in Transactions /\ Reads(t)
      /\ t.kind \in Creations => Create(t) /\ t.slug \in Slugs \ orgs
      /\ t.kind \notin Creations => UNCHANGED <<orgs, closure>>
      /\ members' \in {members, members \union {[actor |-> t.actor, org |-> t.slug, role |-> t.role]}}
      /\ t.actor = NoOne => members' = members
      /\ workspace' = IF t.kind = "bootstrap" THEN t.slug ELSE workspace
      /\ tx'[z] = tx[z] /\ crossed' = crossed
  BY CommitIs
<1>2. Reads(u) /\ MayHaveSlipped(u) /\ u \in Transactions
  BY DEF ReadsInv, Running, TypeOK
<1>3. u.actor = t.actor /\ u.actor # NoOne => u.actor \in crossed
  BY <1>1 DEF MetInv, Running
<1>a. tx'[z] = u
  BY <1>1
<1> HIDE DEF t, u
<1>4. orgs \subseteq orgs'
  BY <1>1 DEF Create
<1>5. ASSUME NEW p \in orgs, DepthAllowed(p) PROVE DepthAllowed(p)'
  <2>1. CASE t.kind \in Creations
    <3> SUFFICES ASSUME NEW r \in closure', r.below = p PROVE r.depth + 1 <= DepthLimit
      BY DEF DepthAllowed
    <3>1. p # t.slug /\ closure' = closure \union Path(t)
      BY <1>1, <2>1 DEF Create
    <3>2. r \in closure
      BY <3>1, PathIs
    <3> QED
      BY <1>5, <3>2 DEF DepthAllowed
  <2>2. CASE t.kind \notin Creations
    BY <1>1, <1>5, <2>2 DEF DepthAllowed
  <2> QED
    BY <2>1, <2>2
<1>7. /\ u.kind \in Creations => u.parent \in orgs' \union {NoOrg}
      /\ u.kind \in Creations \ {"bot"} /\ u.parent # NoOrg =>
           \A r \in closure' : r.below = u.parent => r.depth + 1 <= DepthLimit
      /\ u.kind = "bind" => u.slug \in orgs'
      /\ u.kind \in {"bind", "order"} => u.actor # NoOne
      /\ u.kind = "bootstrap" => u.parent = NoOrg /\ u.actor = Root
  <2>1. u.kind \in Creations \ {"bot"} /\ u.parent # NoOrg =>
           \A r \in closure' : r.below = u.parent => r.depth + 1 <= DepthLimit
    BY <1>2, <1>5 DEF Reads, DepthAllowed
  <2> QED
    BY <1>2, <1>4, <2>1 DEF Reads
<1>8. u.kind = "bootstrap" /\ workspace' # NoOrg => Root \in crossed'
  <2>1. CASE workspace # NoOrg
    BY <1>1, <1>2, <2>1 DEF MayHaveSlipped
  <2>2. CASE workspace = NoOrg /\ t.kind = "bootstrap"
    <3>1. u.kind = "bootstrap" => u.actor = Root /\ t.actor = Root /\ Root # NoOne
      BY <1>1, <1>2, <2>2, HierarchyAssumption DEF Reads
    <3> QED
      BY <1>1, <1>3, <3>1
  <2> QED
    BY <1>1, <2>1, <2>2
<1>9. u.kind = "reseller" /\ (\E m \in members' : m.actor = u.actor) => u.actor \in crossed'
  <2> SUFFICES ASSUME u.kind = "reseller", NEW m \in members', m.actor = u.actor PROVE u.actor \in crossed
    BY <1>1
  <2>1. CASE m \in members
    BY <1>2, <2>1 DEF MayHaveSlipped, Linked
  <2>2. CASE m \notin members
    <3>1. m.actor = t.actor /\ t.actor # NoOne
      BY <1>1, <2>2
    <3> QED
      BY <1>3, <3>1
  <2> QED
    BY <2>1, <2>2
<1>10. Reads(tx[z])'
  BY <1>7, <1>a DEF Reads, DepthAllowed
<1>11. MayHaveSlipped(tx[z])'
  BY <1>8, <1>9, <1>a DEF MayHaveSlipped, Linked
<1> QED
  BY <1>10, <1>11

LEMMA HStep == HInv /\ [Next]_vars => HInv'
<1> SUFFICES ASSUME HInv, [Next]_vars PROVE HInv'
  OBVIOUS
<1>0. TypeOK /\ ClosureIsTreeOrder /\ DepthWithinCap /\ ReadsInv /\ MetInv /\ crossed \subseteq People
  BY DEF HInv, TypeOK
<1>a. ASSUME UNCHANGED <<tables, unchecked>>, tx' \in [Sessions -> Transactions \union {Idle}],
             crossed' \subseteq People, crossed \subseteq crossed', NEW s \in Sessions,
             \A z \in Sessions \ {s} : tx'[z] = tx[z],
             Running(s)' => Reads(tx'[s]) /\ MayHaveSlipped(tx'[s]),
             \A z \in Sessions \ {s} :
               Running(s)' /\ Running(z) /\ tx[z].actor = tx'[s].actor /\ tx[z].actor # NoOne => tx[z].actor \in crossed'
      PROVE  HInv'
  <2>1. TypeOK' /\ ClosureIsTreeOrder' /\ DepthWithinCap'
    BY <1>0, <1>a, TablesKept
  <2>2. ASSUME NEW z \in Sessions, Running(z)' PROVE Reads(tx[z])' /\ MayHaveSlipped(tx[z])'
    <3>1. Reads(tx'[z]) /\ MayHaveSlipped(tx'[z])
      <4>1. CASE z = s
        BY <1>a, <2>2, <4>1
      <4>2. CASE z # s
        BY <1>0, <1>a, <2>2, <4>2 DEF ReadsInv, Running
      <4> QED
        BY <4>1, <4>2
    <3> QED
      BY <1>a, <3>1 DEF Reads, MayHaveSlipped, tables, DepthAllowed, Linked
  <2>3. ASSUME NEW x \in Sessions, NEW z \in Sessions, x # z, Running(x)', Running(z)',
               tx'[x].actor = tx'[z].actor, tx'[x].actor # NoOne
        PROVE  tx'[x].actor \in crossed'
    <3>1. CASE x # s /\ z # s
      BY <1>0, <1>a, <2>3, <3>1 DEF MetInv, Running
    <3>2. CASE x = s \/ z = s
      BY <1>a, <2>3, <3>2 DEF Running
    <3> QED
      BY <3>1, <3>2
  <2>4. ReadsInv' /\ MetInv'
    BY <2>2, <2>3 DEF ReadsInv, MetInv
  <2> QED
    BY <2>1, <2>4 DEF HInv
<1>1. ASSUME NEW s \in Sessions, Ask(s) PROVE HInv'
  <2>1. PICK t : Opens(s, t)
    BY <1>0, <1>1, AskOpens
  <2>2. /\ tx[s] = Idle /\ tx'[s] = t /\ \A z \in Sessions \ {s} : tx'[z] = tx[z]
        /\ tx' \in [Sessions -> Transactions \union {Idle}]
        /\ t \in Transactions /\ Reads(t) /\ MayHaveSlipped(t)
        /\ crossed \subseteq crossed' /\ crossed' \subseteq crossed \union ({t.actor} \ {NoOne})
        /\ \A z \in Sessions \ {s} :
             tx[z] # Idle /\ tx[z].actor = t.actor /\ t.actor # NoOne => t.actor \in crossed'
        /\ UNCHANGED <<tables, unchecked>>
    BY <1>0, <2>1, OpensIs
  <2>3. t.actor \in People \union {NoOne}
    BY <2>2 DEF Transactions
  <2>4. crossed' \subseteq People
    BY <1>0, <2>2, <2>3
  <2>5. Reads(tx'[s]) /\ MayHaveSlipped(tx'[s])
    BY <2>2
  <2> QED
    BY <1>a, <2>2, <2>4, <2>5 DEF Running
<1>2. ASSUME NEW s \in Sessions, MergeSetting(s) PROVE HInv'
  <2> DEFINE n == tx'[s]
  <2>1. /\ tx[s] # Idle /\ tx' \in [Sessions -> Transactions \union {Idle}]
        /\ n.kind = tx[s].kind /\ n.slug = tx[s].slug /\ n.parent = tx[s].parent /\ n.actor = tx[s].actor
        /\ \A z \in Sessions \ {s} : tx'[z] = tx[z]
        /\ UNCHANGED <<tables, unchecked, crossed>>
    BY <1>0, <1>2, MergeIs
  <2>2. Reads(tx[s]) /\ MayHaveSlipped(tx[s])
    BY <1>0, <2>1 DEF ReadsInv, Running
  <2>3. Reads(n) /\ MayHaveSlipped(n)
    BY <2>1, <2>2 DEF Reads, MayHaveSlipped
  <2>4. \A z \in Sessions \ {s} :
          tx[z] # Idle /\ tx[z].actor = n.actor /\ tx[z].actor # NoOne => tx[z].actor \in crossed
    BY <1>0, <2>1 DEF MetInv, Running
  <2>5. \A z \in Sessions \ {s} :
          Running(z) /\ tx[z].actor = n.actor /\ tx[z].actor # NoOne => tx[z].actor \in crossed'
    BY <2>1, <2>4 DEF Running
  <2>6. crossed' \subseteq People /\ crossed \subseteq crossed'
    BY <1>0, <2>1
  <2> QED
    BY <1>a, <2>1, <2>3, <2>5, <2>6
<1>3. ASSUME NEW s \in Sessions, Rollback(s) PROVE HInv'
  <2>1. /\ tx'[s] = Idle /\ \A z \in Sessions \ {s} : tx'[z] = tx[z]
        /\ tx' \in [Sessions -> Transactions \union {Idle}]
        /\ UNCHANGED <<tables, unchecked, crossed>>
    BY <1>0, <1>3, RollbackIs
  <2>2. ~Running(s)'
    BY <2>1 DEF Running, Idle
  <2> QED
    BY <1>0, <1>a, <2>1, <2>2
<1>4. ASSUME NEW s \in Sessions, Commit(s) PROVE HInv'
  <2>1. TypeOK' /\ ClosureIsTreeOrder' /\ DepthWithinCap'
    BY <1>0, <1>4, CommitTypes, CommitTree, CommitDepth
  <2>2. tx'[s] = Idle /\ (\A z \in Sessions \ {s} : tx'[z] = tx[z]) /\ crossed' = crossed
    BY <1>0, <1>4, CommitIs
  <2>3. ASSUME NEW z \in Sessions, Running(z)' PROVE z # s /\ Running(z)
    BY <2>2, <2>3 DEF Running, Idle
  <2>4. ReadsInv'
    BY <1>0, <1>4, <2>3, CommitReads DEF ReadsInv
  <2>5. MetInv'
    BY <1>0, <2>2, <2>3 DEF MetInv
  <2> QED
    BY <2>1, <2>4, <2>5 DEF HInv
<1>5. CASE UNCHANGED vars
  <2>1. UNCHANGED <<tables, unchecked>> /\ tx' = tx /\ crossed' = crossed
    BY <1>5 DEF vars
  <2>2. TypeOK' /\ ClosureIsTreeOrder' /\ DepthWithinCap'
    BY <1>0, <2>1, TablesKept DEF TypeOK
  <2>3. ReadsInv' /\ MetInv'
    BY <1>0, <2>1 DEF ReadsInv, MetInv, Reads, MayHaveSlipped, Running, tables, DepthAllowed, Linked
  <2> QED
    BY <2>2, <2>3 DEF HInv
<1> QED
  BY <1>1, <1>2, <1>3, <1>4, <1>5 DEF Next

LEMMA HStart == Init => HInv
<1> SUFFICES ASSUME Init PROVE HInv
  OBVIOUS
<1>1. \A s \in Sessions : tx[s] = Idle
  BY DEF Init
<1>2. TypeOK
  BY HierarchyAssumption DEF Init, TypeOK
<1>3. ClosureIsTreeOrder /\ DepthWithinCap
  BY DEF Init, ClosureIsTreeOrder, DepthWithinCap
<1>4. ReadsInv /\ MetInv
  BY <1>1 DEF ReadsInv, MetInv, Running
<1> QED
  BY <1>2, <1>3, <1>4 DEF HInv

LEMMA HSafe == Spec => []HInv
BY HStart, HStep, PTL DEF Spec

-----------------------------------------------------------------------------
(* The theorems.                                                           *)

(* The types of the hierarchy's tables.                                    *)
THEOREM HierarchyTypes == Spec => []TypeOK
<1>1. HInv => TypeOK
  BY DEF HInv
<1> QED
  BY <1>1, HSafe, PTL

(* create_organization, create_org, create_reseller and the approval of an *)
(* order keep organization_closure and the contracts equal to the tree.    *)
THEOREM ClosureIsTheTree == Spec => []ClosureIsTreeOrder
<1>1. HInv => ClosureIsTreeOrder
  BY DEF HInv
<1> QED
  BY <1>1, HSafe, PTL

(* MAX_TREE_DEPTH: a check made before the inserts is still true at the    *)
(* commit; only what the bot creates, unchecked, is deeper.                *)
THEOREM NoneTooDeep == Spec => []DepthWithinCap
<1>1. HInv => DepthWithinCap
  BY DEF HInv
<1> QED
  BY <1>1, HSafe, PTL

(* bootstrap_workspace() sets up one workspace, and the web request of     *)
(* admin_create_reseller() links nobody who has an organization, unless    *)
(* two transactions about that person overlapped at some time.  The other  *)
(* ways to link a person do not ask and are not spoken of.                 *)
THEOREM SlipsNeedOverlap == Spec => OnlyOverlapsSlip
<1>1. HInv /\ [Next]_vars => [SlipsByOverlap]_vars
  <2> SUFFICES ASSUME HInv, Next PROVE SlipsByOverlap
    BY DEF SlipsByOverlap
  <2>0. TypeOK /\ ReadsInv
    BY DEF HInv
  <2>1. ASSUME workspace' # workspace PROVE workspace = NoOrg \/ Root \in crossed
    <3>1. PICK s \in Sessions : Commit(s)
      <4>1. \A s \in Sessions : Ask(s) => workspace' = workspace
        BY <2>0, AskOpens, OpensIs DEF tables
      <4>2. \A s \in Sessions : MergeSetting(s) \/ Rollback(s) => workspace' = workspace
        BY DEF MergeSetting, Rollback, tables
      <4> QED
        BY <2>1, <4>1, <4>2 DEF Next
    <3>2. tx[s].kind = "bootstrap" /\ MayHaveSlipped(tx[s])
      BY <2>0, <2>1, <3>1, CommitIs
    <3> QED
      BY <3>2 DEF MayHaveSlipped
  <2>2. ASSUME NEW p \in People, NewlyLinked(p) PROVE ~Linked(p) \/ p \in crossed
    <3>1. PICK s \in Sessions : tx[s] # Idle /\ tx[s].kind = "reseller" /\ tx[s].actor = p
      BY <2>2 DEF NewlyLinked
    <3> QED
      BY <2>0, <3>1 DEF ReadsInv, MayHaveSlipped, Running
  <2> QED
    BY <2>1, <2>2 DEF SlipsByOverlap
<1> QED
  BY <1>1, HSafe, PTL DEF Spec, OnlyOverlapsSlip
=============================================================================
