-------------------------- MODULE ApprovalsProofs --------------------------
(***************************************************************************)
(* Safety of funding requests and corrections for every tree of            *)
(* organizations and every number of people, rows and database sessions.   *)
(***************************************************************************)
EXTENDS Approvals, TLAPS

IInv == TypeOK /\ RowsHeld /\ OthersAsk /\ MoneyFollowsDecision /\ WithinCredit

USE DEF Rows

-----------------------------------------------------------------------------
(* Facts about rows and decisions.                                         *)

LEMMA RequestRow ==
  ASSUME TypeOK, NEW r \in Requests, requests[r] # None
  PROVE  requests[r] \in Request
BY DEF TypeOK

LEMMA CorrectionRow ==
  ASSUME TypeOK, NEW c \in Corrections, corrections[c] # None
  PROVE  corrections[c] \in Correction
BY DEF TypeOK

(* What a session that waits for a row or has it knows about its decision. *)
LEMMA Decides ==
  ASSUME RowsHeld, NEW s \in Sessions, pc[s] \in {"lock", "decide"}
  PROVE  /\ task[s] \in Decision
         /\ task[s].row \in Rows /\ task[s].actor \in Actors
         /\ task[s].row \in Requests => requests[task[s].row] # None
         /\ task[s].row \in Corrections =>
              corrections[task[s].row] # None /\ task[s].actor = Root
BY DEF RowsHeld, Decision

LEMMA Holds ==
  ASSUME RowsHeld, NEW s \in Sessions, pc[s] = "decide"
  PROVE  /\ lock[task[s].row] = s /\ Pending(task[s].row)
         /\ OwnBranch(task[s].actor, task[s].row) /\ ~Lapsed(s)
BY DEF RowsHeld

(* A session that decides has its row alone.                               *)
LEMMA HoldsAlone ==
  ASSUME RowsHeld, NEW s \in Sessions, NEW t \in Sessions, s # t,
         pc[s] = "decide", pc[t] = "decide"
  PROVE  task[s].row # task[t].row
BY DEF RowsHeld

LEMMA EndType ==
  ASSUME TypeOK, NEW s \in Sessions, End(s)
  PROVE  /\ lock' \in [Rows -> Sessions \union {NoOne}]
         /\ pc' \in [Sessions -> {"idle", "lock", "decide", "switch"}]
         /\ task' \in [Sessions -> Decision \union Switch \union {Nothing}]
         /\ asked' \in [Sessions -> 0..MaxClock]
         /\ clock' \in 0..MaxClock
BY AmountAssumption DEF TypeOK, End

(* The end of one session leaves the others what they have.                *)
LEMMA EndLeaves ==
  ASSUME TypeOK, RowsHeld, NEW s \in Sessions, End(s), NEW t \in Sessions
  PROVE  \/ t = s /\ pc'[t] = "idle"
         \/ /\ t # s /\ pc'[t] = pc[t] /\ task'[t] = task[t] /\ asked'[t] = asked[t]
            /\ pc[t] = "decide" => lock'[task[t].row] = t
<1>1. CASE t = s
  BY <1>1 DEF End, TypeOK
<1>2. CASE t # s
  <2>1. pc'[t] = pc[t] /\ task'[t] = task[t] /\ asked'[t] = asked[t]
    BY <1>2 DEF End, TypeOK
  <2>2. ASSUME pc[t] = "decide" PROVE lock'[task[t].row] = t
    <3>1. task[t].row \in Rows /\ lock[task[t].row] = t
      BY <2>2, Decides, Holds
    <3> QED
      BY <1>2, <3>1 DEF End
  <2> QED
    BY <1>2, <2>1, <2>2
<1> QED
  BY <1>1, <1>2

-----------------------------------------------------------------------------
(* Types.                                                                  *)

LEMMA PostType ==
  ASSUME TypeOK, NEW r \in Rows, NEW o \in Orgs, NEW amount \in Int, Post(r, o, amount)
  PROVE  ledger' \subseteq Posting /\ balance' \in [Orgs -> Int]
BY DEF TypeOK, Post, Posting

LEMMA DecideRequestType ==
  ASSUME TypeOK, RowsHeld, NEW s \in Sessions, pc[s] = "decide",
         NEW v \in {"approved", "rejected"}, DecideRequest(s, v)
  PROVE  /\ requests' \in [Requests -> Request \union {None}]
         /\ corrections' = corrections /\ events' = events
<1>1. task[s].row \in Requests /\ requests[task[s].row] # None /\ task[s].actor \in Actors
  BY Decides DEF DecideRequest
<1>2. requests[task[s].row] \in Request
  BY <1>1, RequestRow
<1> QED
  BY <1>1, <1>2 DEF DecideRequest, TypeOK, Request

LEMMA DecideCorrectionType ==
  ASSUME TypeOK, RowsHeld, NEW s \in Sessions, pc[s] = "decide",
         NEW v \in {"executed", "rejected"}, DecideCorrection(s, v)
  PROVE  /\ corrections' \in [Corrections -> Correction \union {None}]
         /\ requests' = requests /\ events' \subseteq Corrections
<1>1. task[s].row \in Corrections /\ corrections[task[s].row] # None /\ task[s].actor \in Actors
  BY Decides DEF DecideCorrection
<1>2. corrections[task[s].row] \in Correction
  BY <1>1, CorrectionRow
<1> QED
  BY <1>1, <1>2 DEF DecideCorrection, TypeOK, Correction

LEMMA AskedType ==
  ASSUME TypeOK, NEW a \in Actors, NEW o \in Orgs, NEW amount \in Adjustments
  PROVE  /\ Asked(a, o, amount) \in Correction
         /\ [Asked(Root, o, amount) EXCEPT !.status = "executed", !.by = Root] \in Correction
<1>1. clock + Ttl \in 0..(MaxClock + Ttl)
  BY AmountAssumption DEF TypeOK
<1> QED
  BY <1>1, PeopleAssumption DEF Asked, Correction

LEMMA InitInv == Init => IInv
<1> SUFFICES ASSUME Init PROVE IInv
  OBVIOUS
<1>1. TypeOK
  BY AmountAssumption DEF Init, TypeOK
<1>2. RowsHeld /\ OthersAsk
  BY DEF Init, RowsHeld, OthersAsk, None
<1>3. MoneyFollowsDecision
  <2>1. Granted = {} /\ Executed = {}
    BY DEF Init, Granted, Executed, None
  <2> QED
    BY <2>1 DEF Init, MoneyFollowsDecision, PostedAsDecided, ReleasedByBranch,
                AnnouncedAsDecided, None
<1>4. WithinCredit
  BY AmountAssumption DEF Init, WithinCredit
<1> QED
  BY <1>1, <1>2, <1>3, <1>4 DEF IInv

LEMMA TypeStep ==
  ASSUME IInv, [Next]_vars
  PROVE  TypeOK'
<1> USE DEF IInv
<1>1. ASSUME NEW o \in Orgs, Spend(o) PROVE TypeOK'
  BY <1>1 DEF Spend, TypeOK
<1>2. ASSUME NEW r \in Requests, NEW a \in Actors, NEW m \in Fundings, RequestFunding(r, a, m)
      PROVE  TypeOK'
  BY <1>2, PeopleAssumption DEF RequestFunding, TypeOK, Request
<1>3. ASSUME NEW c \in Corrections, NEW o \in Orgs, NEW m \in Adjustments, AdjustDirectly(c, o, m)
      PROVE  TypeOK'
  <2>1. m \in Int /\ Root \in Actors
    BY AmountAssumption, PeopleAssumption
  <2>2. ledger' \subseteq Posting /\ balance' \in [Orgs -> Int]
    BY <1>3, <2>1, PostType DEF AdjustDirectly
  <2>3. [Asked(Root, o, m) EXCEPT !.status = "executed", !.by = Root] \in Correction
    BY <2>1, AskedType
  <2> QED
    BY <1>3, <2>2, <2>3 DEF AdjustDirectly, TypeOK
<1>4. ASSUME NEW c \in Corrections, NEW o \in Orgs, NEW m \in Adjustments, NEW a \in Actors,
             RequestAdjustment(c, a, o, m)
      PROVE  TypeOK'
  <2>1. Asked(a, o, m) \in Correction
    BY AskedType
  <2> QED
    BY <1>4, <2>1 DEF RequestAdjustment, TypeOK
<1>5. ASSUME NEW s \in Sessions, NEW d \in Decision, Ask(s, d) PROVE TypeOK'
  BY <1>5 DEF Ask, TypeOK, dbVars
<1>6. ASSUME NEW s \in Sessions, Rollback(s) PROVE TypeOK'
  <2>1. End(s) /\ UNCHANGED dbVars
    BY <1>6 DEF Rollback
  <2> QED
    BY <2>1, EndType DEF TypeOK, dbVars
<1>7. ASSUME NEW s \in Sessions, Expire(s) PROVE TypeOK'
  <2>1. task[s].row \in Corrections /\ corrections[task[s].row] # None
    BY <1>7, Decides DEF Expire, RowFree, Lapsed
  <2>2. corrections[task[s].row] \in Correction
    BY <2>1, CorrectionRow
  <2>3. corrections' \in [Corrections -> Correction \union {None}]
    <3>1. [corrections[task[s].row] EXCEPT !.status = "expired"] \in Correction
      BY <2>2 DEF Correction
    <3> QED
      BY <1>7, <2>1, <3>1 DEF Expire, TypeOK
  <2>4. End(s)
    BY <1>7 DEF Expire
  <2> QED
    BY <1>7, <2>3, <2>4, EndType DEF Expire, TypeOK
<1>8. ASSUME NEW s \in Sessions, LockRow(s) PROVE TypeOK'
  BY <1>8 DEF LockRow, TypeOK, dbVars
<1>9. ASSUME NEW s \in Sessions, Reject(s) PROVE TypeOK'
  <2>1. End(s) /\ pc[s] = "decide"
    BY <1>9 DEF Reject, Deciding
  <2>2. CASE DecideRequest(s, "rejected")
    BY <1>9, <2>1, <2>2, EndType, DecideRequestType DEF Reject, TypeOK
  <2>3. CASE DecideCorrection(s, "rejected")
    BY <1>9, <2>1, <2>3, EndType, DecideCorrectionType DEF Reject, TypeOK
  <2> QED
    BY <1>9, <2>2, <2>3 DEF Reject
<1>10. ASSUME NEW s \in Sessions, ApproveRequest(s) PROVE TypeOK'
  <2>1. /\ End(s) /\ pc[s] = "decide" /\ DecideRequest(s, "approved")
        /\ Post(task[s].row, requests[task[s].row].org, requests[task[s].row].amount)
    BY <1>10 DEF ApproveRequest, Deciding
  <2>2. task[s].row \in Requests /\ requests[task[s].row] \in Request
    BY <2>1, Decides, RequestRow DEF DecideRequest
  <2>3. requests[task[s].row].org \in Orgs /\ requests[task[s].row].amount \in Int
    <3>1. requests[task[s].row].org \in Orgs /\ requests[task[s].row].amount \in Fundings
      BY <2>2 DEF Request
    <3>2. Fundings \subseteq Int
      BY AmountAssumption
    <3> QED
      BY <3>1, <3>2
  <2>4. ledger' \subseteq Posting /\ balance' \in [Orgs -> Int]
    BY <2>1, <2>2, <2>3, PostType
  <2> QED
    BY <1>10, <2>1, <2>4, EndType, DecideRequestType DEF ApproveRequest, TypeOK
<1>11. ASSUME NEW s \in Sessions, ApproveCorrection(s) PROVE TypeOK'
  <2>1. /\ End(s) /\ pc[s] = "decide" /\ DecideCorrection(s, "executed")
        /\ Post(task[s].row, corrections[task[s].row].org, corrections[task[s].row].amount)
    BY <1>11 DEF ApproveCorrection, Deciding
  <2>2. task[s].row \in Corrections /\ corrections[task[s].row] \in Correction
    BY <2>1, Decides, CorrectionRow DEF DecideCorrection
  <2>3. corrections[task[s].row].org \in Orgs /\ corrections[task[s].row].amount \in Int
    BY <2>2, AmountAssumption DEF Correction
  <2>4. ledger' \subseteq Posting /\ balance' \in [Orgs -> Int]
    BY <2>1, <2>2, <2>3, PostType
  <2> QED
    BY <1>11, <2>1, <2>4, EndType, DecideCorrectionType DEF ApproveCorrection, TypeOK
<1>12. ASSUME NEW s \in Sessions, NEW o \in Orgs, ReadStatus(s, o) PROVE TypeOK'
  <2>1. [org |-> o, was |-> status[o]] \in Switch
    BY DEF TypeOK, Switch
  <2> QED
    BY <1>12, <2>1 DEF ReadStatus, TypeOK, dbVars
<1>13. ASSUME NEW s \in Sessions, WriteStatus(s) PROVE TypeOK'
  <2>1. End(s) /\ status' \in [Orgs -> {"active", "suspended"}]
    BY <1>13 DEF WriteStatus, TypeOK
  <2> QED
    BY <1>13, <2>1, EndType DEF WriteStatus, TypeOK
<1>14. CASE Tick
  BY <1>14, AmountAssumption DEF Tick, TypeOK, dbVars
<1>15. CASE UNCHANGED vars
  BY <1>15 DEF vars, dbVars, TypeOK
<1> QED
  BY <1>1, <1>2, <1>3, <1>4, <1>5, <1>6, <1>7, <1>8, <1>9, <1>10, <1>11, <1>12, <1>13, <1>14, <1>15
  DEF Next, TryRow, Settle, Refuse, ApproveRefused, Disconnect

-----------------------------------------------------------------------------
(* Sessions.                                                               *)

(* A decided row was pending until the session that held it decided it.    *)
LEMMA HeldPending ==
  ASSUME TypeOK, RowsHeld, NEW s \in Sessions, pc[s] = "decide"
  PROVE  /\ task[s].row \in Requests =>
              requests[task[s].row] \in Request /\ requests[task[s].row].status = "pending"
         /\ task[s].row \in Corrections =>
              corrections[task[s].row] \in Correction /\ corrections[task[s].row].status = "pending"
BY RowAssumption, Decides, Holds, RequestRow, CorrectionRow DEF Pending

(* Sessions hold what they held when no row they depend on changes.        *)
LEMMA OthersHold ==
  ASSUME TypeOK, RowsHeld, NEW t \in Sessions,
         pc'[t] = pc[t], task'[t] = task[t], asked'[t] = asked[t],
         pc[t] = "decide" => lock'[task[t].row] = t,
         \A r \in Requests :
           \/ requests'[r] = requests[r]
           \/ requests[r] = None /\ requests'[r] # None
           \/ /\ requests'[r] # None
              /\ pc[t] = "decide" => task[t].row # r,
         \A c \in Corrections :
           \/ corrections'[c] = corrections[c]
           \/ corrections[c] = None /\ corrections'[c] # None
           \/ /\ corrections'[c] # None
              /\ pc[t] = "decide" => task[t].row # c
  PROVE  /\ pc'[t] \in {"lock", "decide"} =>
              /\ task'[t] \in Decision
              /\ task'[t].row \in Requests => requests'[task'[t].row] # None
              /\ task'[t].row \in Corrections =>
                   corrections'[task'[t].row] # None /\ task'[t].actor = Root
         /\ pc'[t] = "decide" =>
              /\ lock'[task'[t].row] = t
              /\ Pending(task[t].row)'
              /\ OwnBranch(task[t].actor, task[t].row)'
              /\ ~Lapsed(t)'
         /\ pc'[t] = "switch" => task'[t] \in Switch
<1>1. CASE pc[t] = "lock"
  BY <1>1, Decides DEF RowsHeld
<1>2. CASE pc[t] = "decide"
  <2>1. task[t].row \in Requests => requests'[task[t].row] = requests[task[t].row]
    BY <1>2, Decides
  <2>2. task[t].row \in Corrections => corrections'[task[t].row] = corrections[task[t].row]
    BY <1>2, Decides
  <2>3. task[t].row \in Requests \/ task[t].row \in Corrections
    BY <1>2, Decides
  <2>4. Pending(task[t].row)'
    BY <1>2, <2>1, <2>2, <2>3, Holds DEF Pending
  <2>5. OwnBranch(task[t].actor, task[t].row)'
    BY <1>2, <2>1, Holds DEF OwnBranch
  <2>6. ~Lapsed(t)'
    BY <1>2, <2>2, Holds DEF Lapsed
  <2> QED
    BY <1>2, <2>1, <2>2, <2>3, <2>4, <2>5, <2>6, Decides
<1>3. CASE pc[t] \notin {"lock", "decide"}
  BY <1>3 DEF RowsHeld
<1> QED
  BY <1>1, <1>2, <1>3

(* The rows another session holds when a session s changes one: a new row, *)
(* or the row s holds itself.                                              *)
LEMMA EndHolds ==
  ASSUME TypeOK, RowsHeld, NEW s \in Sessions, End(s),
         \A r \in Requests :
           \/ requests'[r] = requests[r]
           \/ /\ requests'[r] # None
              /\ \A t \in Sessions \ {s} : pc[t] = "decide" => task[t].row # r,
         \A c \in Corrections :
           \/ corrections'[c] = corrections[c]
           \/ /\ corrections'[c] # None
              /\ \A t \in Sessions \ {s} : pc[t] = "decide" => task[t].row # c
  PROVE  RowsHeld'
<1> SUFFICES ASSUME NEW t \in Sessions
             PROVE  /\ pc'[t] \in {"lock", "decide"} =>
                         /\ task'[t] \in Decision
                         /\ task'[t].row \in Requests => requests'[task'[t].row] # None
                         /\ task'[t].row \in Corrections =>
                              corrections'[task'[t].row] # None /\ task'[t].actor = Root
                    /\ pc'[t] = "decide" =>
                         /\ lock'[task'[t].row] = t
                         /\ Pending(task[t].row)'
                         /\ OwnBranch(task[t].actor, task[t].row)'
                         /\ ~Lapsed(t)'
                    /\ pc'[t] = "switch" => task'[t] \in Switch
  BY DEF RowsHeld
<1>1. CASE t = s
  <2>1. pc'[t] = "idle"
    BY <1>1 DEF End, TypeOK
  <2> QED
    BY <2>1
<1>2. CASE t # s
  <2>1. /\ pc'[t] = pc[t] /\ task'[t] = task[t] /\ asked'[t] = asked[t]
        /\ pc[t] = "decide" => lock'[task[t].row] = t
    BY <1>2, EndLeaves
  <2> QED
    BY <1>2, <2>1, OthersHold
<1> QED
  BY <1>1, <1>2

(* A step that ends nobody's transaction and decides no row.               *)
LEMMA AddHolds ==
  ASSUME TypeOK, RowsHeld, UNCHANGED <<lock, pc, task, asked>>,
         \A r \in Requests :
           requests'[r] = requests[r] \/ (requests[r] = None /\ requests'[r] # None),
         \A c \in Corrections :
           corrections'[c] = corrections[c] \/ (corrections[c] = None /\ corrections'[c] # None)
  PROVE  RowsHeld'
<1> SUFFICES ASSUME NEW t \in Sessions
             PROVE  /\ pc'[t] \in {"lock", "decide"} =>
                         /\ task'[t] \in Decision
                         /\ task'[t].row \in Requests => requests'[task'[t].row] # None
                         /\ task'[t].row \in Corrections =>
                              corrections'[task'[t].row] # None /\ task'[t].actor = Root
                    /\ pc'[t] = "decide" =>
                         /\ lock'[task'[t].row] = t
                         /\ Pending(task[t].row)'
                         /\ OwnBranch(task[t].actor, task[t].row)'
                         /\ ~Lapsed(t)'
                    /\ pc'[t] = "switch" => task'[t] \in Switch
  BY DEF RowsHeld
<1>1. pc[t] = "decide" => lock'[task[t].row] = t
  BY Holds
<1> QED
  BY <1>1, OthersHold

LEMMA HeldByNoOther ==
  ASSUME RowsHeld, NEW s \in Sessions, pc[s] = "lock", RowFree(s)
  PROVE  \A t \in Sessions \ {s} : pc[t] = "decide" => task[t].row # task[s].row
BY PeopleAssumption, Holds DEF RowFree

LEMMA DecideRequestHolds ==
  ASSUME TypeOK, RowsHeld, NEW s \in Sessions, pc[s] = "decide", End(s),
         NEW v, DecideRequest(s, v)
  PROVE  RowsHeld'
<1>1. \A t \in Sessions \ {s} : pc[t] = "decide" => task[t].row # task[s].row
  BY HoldsAlone
<1>2. task[s].row \in Requests /\ requests[task[s].row] \in Request
  BY HeldPending DEF DecideRequest
<1>3. \A r \in Requests : r # task[s].row => requests'[r] = requests[r]
  BY <1>2 DEF DecideRequest, TypeOK
<1>4. requests'[task[s].row] # None
  <2>1. requests'[task[s].row].by = task[s].actor /\ task[s].actor \in Actors
    BY <1>2, Decides DEF DecideRequest, TypeOK, Request
  <2>2. DOMAIN requests'[task[s].row] = {"status", "org", "amount", "by"}
    BY <1>2 DEF DecideRequest, TypeOK, Request
  <2>3. DOMAIN None = {"status"}
    BY DEF None
  <2> QED
    BY <2>2, <2>3
<1>5. corrections' = corrections
  BY DEF DecideRequest
<1> QED
  BY <1>1, <1>3, <1>4, <1>5, EndHolds

LEMMA DecideCorrectionHolds ==
  ASSUME TypeOK, RowsHeld, NEW s \in Sessions, pc[s] = "decide", End(s),
         NEW v, DecideCorrection(s, v)
  PROVE  RowsHeld'
<1>1. \A t \in Sessions \ {s} : pc[t] = "decide" => task[t].row # task[s].row
  BY HoldsAlone
<1>2. task[s].row \in Corrections /\ corrections[task[s].row] \in Correction
  BY HeldPending DEF DecideCorrection
<1>3. \A c \in Corrections : c # task[s].row => corrections'[c] = corrections[c]
  BY <1>2 DEF DecideCorrection, TypeOK
<1>4. corrections'[task[s].row] # None
  <2>1. DOMAIN corrections'[task[s].row]
          = {"status", "org", "amount", "requester", "by", "deadline"}
    BY <1>2 DEF DecideCorrection, TypeOK, Correction
  <2>2. DOMAIN None = {"status"}
    BY DEF None
  <2> QED
    BY <2>1, <2>2
<1>5. requests' = requests
  BY DEF DecideCorrection
<1> QED
  BY <1>1, <1>3, <1>4, <1>5, EndHolds

LEMMA NotNone ==
  /\ \A r \in Request : r # None
  /\ \A c \in Correction : c # None
BY DEF Request, Correction, None

LEMMA HeldStep ==
  ASSUME IInv, [Next]_vars
  PROVE  RowsHeld'
<1> USE DEF IInv
<1>1. ASSUME NEW o \in Orgs, Spend(o) PROVE RowsHeld'
  BY <1>1, AddHolds DEF Spend
<1>2. ASSUME NEW r \in Requests, NEW a \in Actors, NEW m \in Fundings, RequestFunding(r, a, m)
      PROVE  RowsHeld'
  <2>1. requests'[r] \in Request /\ requests[r] = None
    BY <1>2, PeopleAssumption DEF RequestFunding, TypeOK, Request
  <2>2. \A q \in Requests : q # r => requests'[q] = requests[q]
    BY <1>2 DEF RequestFunding, TypeOK
  <2> QED
    BY <1>2, <2>1, <2>2, NotNone, AddHolds DEF RequestFunding
<1>3. ASSUME NEW c \in Corrections, NEW o \in Orgs, NEW m \in Adjustments, AdjustDirectly(c, o, m)
      PROVE  RowsHeld'
  <2>1. [Asked(Root, o, m) EXCEPT !.status = "executed", !.by = Root] \in Correction
    BY PeopleAssumption, AskedType
  <2>2. corrections'[c] \in Correction /\ corrections[c] = None
    BY <1>3, <2>1 DEF AdjustDirectly, TypeOK
  <2>3. \A d \in Corrections : d # c => corrections'[d] = corrections[d]
    BY <1>3 DEF AdjustDirectly, TypeOK
  <2> QED
    BY <1>3, <2>2, <2>3, NotNone, AddHolds DEF AdjustDirectly
<1>4. ASSUME NEW c \in Corrections, NEW o \in Orgs, NEW m \in Adjustments, NEW a \in Actors,
             RequestAdjustment(c, a, o, m)
      PROVE  RowsHeld'
  <2>1. corrections'[c] \in Correction /\ corrections[c] = None
    BY <1>4, AskedType DEF RequestAdjustment, TypeOK
  <2>2. \A d \in Corrections : d # c => corrections'[d] = corrections[d]
    BY <1>4 DEF RequestAdjustment, TypeOK
  <2> QED
    BY <1>4, <2>1, <2>2, NotNone, AddHolds DEF RequestAdjustment
<1>5. ASSUME NEW s \in Sessions, NEW d \in Decision, Ask(s, d) PROVE RowsHeld'
  BY <1>5 DEF Ask, RowsHeld, TypeOK, dbVars, Pending, OwnBranch, Lapsed
<1>6. ASSUME NEW s \in Sessions, Rollback(s) PROVE RowsHeld'
  <2>1. End(s) /\ requests' = requests /\ corrections' = corrections
    BY <1>6 DEF Rollback, dbVars
  <2> QED
    BY <2>1, EndHolds
<1>7. ASSUME NEW s \in Sessions, Expire(s) PROVE RowsHeld'
  <2>1. End(s) /\ requests' = requests /\ RowFree(s) /\ pc[s] = "lock"
    BY <1>7 DEF Expire, RowFree
  <2>2. task[s].row \in Corrections /\ corrections[task[s].row] \in Correction
    BY <1>7, <2>1, Decides, CorrectionRow DEF Expire, Lapsed
  <2>3. /\ \A c \in Corrections : c # task[s].row => corrections'[c] = corrections[c]
        /\ corrections'[task[s].row] = [corrections[task[s].row] EXCEPT !.status = "expired"]
    BY <1>7, <2>2 DEF Expire, TypeOK
  <2>4. [corrections[task[s].row] EXCEPT !.status = "expired"] \in Correction
    BY <2>2 DEF Correction
  <2> QED
    BY <2>1, <2>3, <2>4, NotNone, HeldByNoOther, EndHolds
<1>8. ASSUME NEW s \in Sessions, LockRow(s) PROVE RowsHeld'
  <2>1. pc[s] = "lock" /\ lock[task[s].row] = NoOne /\ task[s].row \in Rows
    BY <1>8, Decides DEF LockRow, RowFree
  <2>2. \A t \in Sessions : pc[t] = "decide" => lock'[task[t].row] = t
    BY <1>8, <2>1, PeopleAssumption, Holds DEF LockRow, TypeOK
  <2>3. /\ pc'[s] = "decide" /\ lock'[task[s].row] = s
        /\ \A t \in Sessions \ {s} : pc'[t] = pc[t]
        /\ UNCHANGED <<task, asked, requests, corrections>>
    BY <1>8, <2>1 DEF LockRow, TypeOK, dbVars
  <2>4. Pending(task[s].row) /\ OwnBranch(task[s].actor, task[s].row) /\ ~Lapsed(s)
    BY <1>8 DEF LockRow
  <2> QED
    BY <2>1, <2>2, <2>3, <2>4 DEF RowsHeld, Pending, OwnBranch, Lapsed
<1>9. ASSUME NEW s \in Sessions, Reject(s) PROVE RowsHeld'
  BY <1>9, DecideRequestHolds, DecideCorrectionHolds DEF Reject, Deciding
<1>10. ASSUME NEW s \in Sessions, ApproveRequest(s) PROVE RowsHeld'
  BY <1>10, DecideRequestHolds DEF ApproveRequest, Deciding
<1>11. ASSUME NEW s \in Sessions, ApproveCorrection(s) PROVE RowsHeld'
  BY <1>11, DecideCorrectionHolds DEF ApproveCorrection, Deciding
<1>12. ASSUME NEW s \in Sessions, NEW o \in Orgs, ReadStatus(s, o) PROVE RowsHeld'
  <2>1. [org |-> o, was |-> status[o]] \in Switch
    BY DEF TypeOK, Switch
  <2> QED
    BY <1>12, <2>1 DEF ReadStatus, RowsHeld, TypeOK, dbVars, Pending, OwnBranch, Lapsed
<1>13. ASSUME NEW s \in Sessions, WriteStatus(s) PROVE RowsHeld'
  BY <1>13, EndHolds DEF WriteStatus
<1>14. CASE Tick
  BY <1>14, AddHolds DEF Tick, dbVars
<1>15. CASE UNCHANGED vars
  BY <1>15, AddHolds DEF vars, dbVars
<1> QED
  BY <1>1, <1>2, <1>3, <1>4, <1>5, <1>6, <1>7, <1>8, <1>9, <1>10, <1>11, <1>12, <1>13, <1>14, <1>15
  DEF Next, TryRow, Settle, Refuse, ApproveRefused, Disconnect

-----------------------------------------------------------------------------
(* Money.                                                                  *)

Settled == Granted \union Executed

LEMMA SettledRow ==
  ASSUME NEW r \in Rows
  PROVE  /\ r \in Requests => (r \in Settled <=> requests[r].status = "approved")
         /\ r \in Corrections => (r \in Settled <=> corrections[r].status = "executed")
BY RowAssumption DEF Settled, Granted, Executed

(* What is not settled has no posting, so transfer() adds one.             *)
LEMMA PostStep ==
  ASSUME PostedAsDecided, NEW r \in Rows, r \notin Settled, NEW o, NEW m, Post(r, o, m),
         Settled' = Settled \union {r},
         \A x \in Settled : PostingOf(x)' = PostingOf(x),
         PostingOf(r)' = [key |-> r, org |-> o, amount |-> m]
  PROVE  PostedAsDecided'
<1>1. \A x : PostingOf(x).key = x
  BY DEF PostingOf
<1>2. ledger = {PostingOf(x) : x \in Settled}
  BY DEF PostedAsDecided, Settled
<1>3. ~ \E t \in ledger : t.key = r
  BY <1>1, <1>2
<1>4. ledger' = ledger \union {[key |-> r, org |-> o, amount |-> m]}
  BY <1>3 DEF Post
<1>5. ledger' = {PostingOf(x)' : x \in Settled'}
  BY <1>2, <1>4
<1> QED
  BY <1>5 DEF PostedAsDecided, Settled

LEMMA NoPostStep ==
  ASSUME PostedAsDecided, ledger' = ledger, Settled' = Settled,
         \A x \in Settled : PostingOf(x)' = PostingOf(x)
  PROVE  PostedAsDecided'
<1>1. ledger = {PostingOf(x) : x \in Settled}
  BY DEF PostedAsDecided, Settled
<1>2. ledger' = {PostingOf(x)' : x \in Settled'}
  BY <1>1
<1> QED
  BY <1>2 DEF PostedAsDecided, Settled

(* A step that leaves rows, postings and events alone.                     *)
LEMMA MoneyKept ==
  ASSUME MoneyFollowsDecision, OthersAsk, UNCHANGED <<requests, corrections, ledger, events>>
  PROVE  MoneyFollowsDecision' /\ OthersAsk'
<1>1. PostedAsDecided'
  BY DEF MoneyFollowsDecision, PostedAsDecided, PostingOf, Granted, Executed
<1>2. ReleasedByBranch'
  BY DEF MoneyFollowsDecision, ReleasedByBranch, Granted
<1>3. AnnouncedAsDecided' /\ OthersAsk'
  BY DEF MoneyFollowsDecision, AnnouncedAsDecided, OthersAsk
<1> QED
  BY <1>1, <1>2, <1>3 DEF MoneyFollowsDecision

(* A correction that was not settled is written.                           *)
LEMMA CorrectionWritten ==
  ASSUME TypeOK, MoneyFollowsDecision, OthersAsk, NEW c \in Corrections, requests' = requests,
         corrections[c].status \in {"none", "pending"},
         \A d \in Corrections : d # c => corrections'[d] = corrections[d],
         corrections'[c].status \in {"pending", "rejected", "expired"} => ledger' = ledger,
         corrections'[c].status \in {"pending", "rejected", "expired", "executed"},
         corrections'[c].status = "executed" =>
           Post(c, corrections'[c].org, corrections'[c].amount),
         corrections'[c].status = "pending" => corrections'[c].requester # Root,
         \/ /\ events' = events
            /\ \/ corrections'[c].status \in {"pending", "expired"}
               \/ corrections'[c].by = corrections'[c].requester
         \/ /\ events' = events \union {c}
            /\ corrections'[c].status \in {"executed", "rejected"}
            /\ corrections'[c].by # corrections'[c].requester
  PROVE  MoneyFollowsDecision' /\ OthersAsk'
<1>1. c \in Rows /\ c \notin Settled /\ c \notin Requests
  BY RowAssumption, SettledRow
<1>2. \A x \in Settled : PostingOf(x)' = PostingOf(x)
  BY <1>1 DEF PostingOf, Settled, Granted, Executed
<1>3. Granted' = Granted
  BY DEF Granted
<1>4. PostedAsDecided'
  <2>1. CASE corrections'[c].status = "executed"
    <3>1. Executed' = Executed \union {c}
      BY <2>1 DEF Executed
    <3>2. Settled' = Settled \union {c}
      BY <1>3, <3>1 DEF Settled
    <3>3. PostingOf(c)' = [key |-> c, org |-> corrections'[c].org,
                           amount |-> corrections'[c].amount]
      BY <1>1 DEF PostingOf
    <3> QED
      BY <1>1, <1>2, <2>1, <3>2, <3>3, PostStep DEF MoneyFollowsDecision
  <2>2. CASE corrections'[c].status # "executed"
    <3>1. Executed' = Executed
      BY <2>2 DEF Executed
    <3>2. Settled' = Settled
      BY <1>3, <3>1 DEF Settled
    <3> QED
      BY <1>2, <2>2, <3>2, NoPostStep DEF MoneyFollowsDecision
  <2> QED
    BY <2>1, <2>2
<1>5. ReleasedByBranch'
  BY <1>3 DEF MoneyFollowsDecision, ReleasedByBranch
<1>6. AnnouncedAsDecided'
  <2>1. c \notin events
    BY DEF MoneyFollowsDecision, AnnouncedAsDecided
  <2> QED
    BY <2>1 DEF MoneyFollowsDecision, AnnouncedAsDecided
<1>7. OthersAsk'
  BY DEF OthersAsk
<1> QED
  BY <1>4, <1>5, <1>6, <1>7 DEF MoneyFollowsDecision

(* A funding request that was not settled is written.                      *)
LEMMA RequestWritten ==
  ASSUME TypeOK, MoneyFollowsDecision, OthersAsk, NEW r \in Requests,
         UNCHANGED <<corrections, events>>,
         requests[r].status \in {"none", "pending"},
         \A q \in Requests : q # r => requests'[q] = requests[q],
         requests'[r].status \in {"pending", "rejected", "approved"},
         requests'[r].status \in {"pending", "rejected"} => ledger' = ledger,
         requests'[r].status = "approved" =>
           /\ Post(r, requests'[r].org, requests'[r].amount)
           /\ requests'[r].by \in Actors
           /\ \/ Parent[requests'[r].org] = Home[requests'[r].by]
              \/ requests'[r].by = Root /\ Parent[requests'[r].org] = NoOne
  PROVE  MoneyFollowsDecision' /\ OthersAsk'
<1>1. r \in Rows /\ r \notin Settled
  BY SettledRow
<1>2. \A x \in Settled : PostingOf(x)' = PostingOf(x)
  BY <1>1 DEF PostingOf
<1>3. Executed' = Executed
  BY DEF Executed
<1>4. PostedAsDecided' /\ ReleasedByBranch'
  <2>1. CASE requests'[r].status = "approved"
    <3>1. Granted' = Granted \union {r}
      BY <2>1 DEF Granted
    <3>2. Settled' = Settled \union {r}
      BY <1>3, <3>1 DEF Settled
    <3>3. PostingOf(r)' = [key |-> r, org |-> requests'[r].org, amount |-> requests'[r].amount]
      BY DEF PostingOf
    <3>4. PostedAsDecided'
      BY <1>1, <1>2, <2>1, <3>2, <3>3, PostStep DEF MoneyFollowsDecision
    <3>5. Home[requests'[r].by] # NoOne
      BY <2>1, PeopleAssumption
    <3>6. \A q \in Granted : q # r
      BY DEF Granted
    <3>7. ReleasedByBranch'
      BY <2>1, <3>1, <3>5, <3>6 DEF MoneyFollowsDecision, ReleasedByBranch, Granted
    <3> QED
      BY <3>4, <3>7
  <2>2. CASE requests'[r].status # "approved"
    <3>1. Granted' = Granted
      BY <2>2 DEF Granted
    <3>2. Settled' = Settled
      BY <1>3, <3>1 DEF Settled
    <3>3. PostedAsDecided'
      BY <1>2, <2>2, <3>2, NoPostStep DEF MoneyFollowsDecision
    <3>4. \A q \in Granted : q # r
      BY DEF Granted
    <3> QED
      BY <3>1, <3>3, <3>4 DEF MoneyFollowsDecision, ReleasedByBranch, Granted
  <2> QED
    BY <2>1, <2>2
<1>5. AnnouncedAsDecided' /\ OthersAsk'
  BY DEF MoneyFollowsDecision, AnnouncedAsDecided, OthersAsk
<1> QED
  BY <1>4, <1>5 DEF MoneyFollowsDecision

(* The row a session decides, before and after.                            *)
LEMMA RequestDecided ==
  ASSUME TypeOK, RowsHeld, NEW s \in Sessions, pc[s] = "decide",
         NEW v \in {"approved", "rejected"}, DecideRequest(s, v)
  PROVE  LET r == task[s].row
         IN /\ r \in Requests /\ requests[r].status = "pending" /\ requests[r] \in Request
            /\ \A q \in Requests : q # r => requests'[q] = requests[q]
            /\ requests'[r].status = v /\ requests'[r].by = task[s].actor
            /\ requests'[r].org = requests[r].org /\ requests'[r].amount = requests[r].amount
            /\ UNCHANGED <<corrections, events>>
<1>1. task[s].row \in Requests /\ requests[task[s].row].status = "pending"
      /\ requests[task[s].row] \in Request
  BY HeldPending DEF DecideRequest
<1> QED
  BY <1>1 DEF DecideRequest, TypeOK, Request

LEMMA CorrectionDecided ==
  ASSUME TypeOK, RowsHeld, OthersAsk, NEW s \in Sessions, pc[s] = "decide",
         NEW v \in {"executed", "rejected"}, DecideCorrection(s, v)
  PROVE  LET c == task[s].row
         IN /\ c \in Corrections /\ corrections[c].status = "pending"
            /\ corrections[c] \in Correction
            /\ \A d \in Corrections : d # c => corrections'[d] = corrections[d]
            /\ corrections'[c].status = v /\ corrections'[c].by # corrections'[c].requester
            /\ corrections'[c].org = corrections[c].org
            /\ corrections'[c].amount = corrections[c].amount
            /\ requests' = requests /\ events' = events \union {c}
<1>1. task[s].row \in Corrections /\ corrections[task[s].row].status = "pending"
      /\ corrections[task[s].row] \in Correction
  BY HeldPending DEF DecideCorrection
<1>2. task[s].actor = Root /\ corrections[task[s].row].requester # Root
  BY <1>1, Decides DEF OthersAsk
<1>3. /\ corrections'[task[s].row].by = task[s].actor
      /\ corrections'[task[s].row].requester = corrections[task[s].row].requester
      /\ corrections'[task[s].row].status = v
      /\ corrections'[task[s].row].org = corrections[task[s].row].org
      /\ corrections'[task[s].row].amount = corrections[task[s].row].amount
  BY <1>1 DEF DecideCorrection, TypeOK, Correction
<1> QED
  BY <1>1, <1>2, <1>3 DEF DecideCorrection, TypeOK

LEMMA MoneyStep ==
  ASSUME IInv, [Next]_vars
  PROVE  MoneyFollowsDecision' /\ OthersAsk'
<1> USE DEF IInv
<1> DEFINE Goal == MoneyFollowsDecision' /\ OthersAsk'
<1>1. ASSUME NEW r \in Requests, NEW a \in Actors, NEW m \in Fundings, RequestFunding(r, a, m)
      PROVE  Goal
  <2>1. requests[r].status = "none" /\ requests'[r].status = "pending"
    BY <1>1 DEF RequestFunding, TypeOK, None
  <2>2. \A q \in Requests : q # r => requests'[q] = requests[q]
    BY <1>1 DEF RequestFunding, TypeOK
  <2> QED
    BY <1>1, <2>1, <2>2, RequestWritten DEF RequestFunding
<1>2. ASSUME NEW c \in Corrections, NEW o \in Orgs, NEW m \in Adjustments, AdjustDirectly(c, o, m)
      PROVE  Goal
  <2>1. corrections[c].status = "none" /\ Post(c, o, m)
    BY <1>2 DEF AdjustDirectly, None
  <2>2. \A d \in Corrections : d # c => corrections'[d] = corrections[d]
    BY <1>2 DEF AdjustDirectly, TypeOK
  <2>3. /\ corrections'[c].status = "executed" /\ corrections'[c].by = Root
        /\ corrections'[c].requester = Root
        /\ corrections'[c].org = o /\ corrections'[c].amount = m
    BY <1>2 DEF AdjustDirectly, Asked, TypeOK
  <2> QED
    BY <1>2, <2>1, <2>2, <2>3, CorrectionWritten DEF AdjustDirectly
<1>3. ASSUME NEW c \in Corrections, NEW o \in Orgs, NEW m \in Adjustments, NEW a \in Actors,
             RequestAdjustment(c, a, o, m)
      PROVE  Goal
  <2>1. corrections[c].status = "none"
    BY <1>3 DEF RequestAdjustment, None
  <2>2. \A d \in Corrections : d # c => corrections'[d] = corrections[d]
    BY <1>3 DEF RequestAdjustment, TypeOK
  <2>3. corrections'[c].status = "pending" /\ corrections'[c].requester # Root
    BY <1>3 DEF RequestAdjustment, Asked, TypeOK
  <2> QED
    BY <1>3, <2>1, <2>2, <2>3, CorrectionWritten DEF RequestAdjustment
<1>4. ASSUME NEW s \in Sessions, Expire(s) PROVE Goal
  <2>1. pc[s] = "lock" /\ task[s].row \in Corrections
    BY <1>4 DEF Expire, RowFree, Lapsed
  <2>2. corrections[task[s].row] \in Correction /\ corrections[task[s].row].status = "pending"
    BY <1>4, <2>1, RowAssumption, Decides, CorrectionRow DEF Expire, Pending
  <2>3. \A d \in Corrections : d # task[s].row => corrections'[d] = corrections[d]
    BY <1>4, <2>1 DEF Expire, TypeOK
  <2>4. corrections'[task[s].row].status = "expired"
    BY <1>4, <2>1, <2>2 DEF Expire, TypeOK, Correction
  <2> QED
    BY <1>4, <2>1, <2>2, <2>3, <2>4, CorrectionWritten DEF Expire
<1>5. ASSUME NEW s \in Sessions, Reject(s) PROVE Goal
  <2>1. pc[s] = "decide" /\ ledger' = ledger
    BY <1>5 DEF Reject, Deciding
  <2>2. CASE DecideRequest(s, "rejected")
    BY <2>1, <2>2, RequestDecided, RequestWritten
  <2>3. CASE DecideCorrection(s, "rejected")
    BY <2>1, <2>3, CorrectionDecided, CorrectionWritten
  <2> QED
    BY <1>5, <2>2, <2>3 DEF Reject
<1>6. ASSUME NEW s \in Sessions, ApproveRequest(s) PROVE Goal
  <2>1. /\ pc[s] = "decide" /\ DecideRequest(s, "approved")
        /\ Post(task[s].row, requests[task[s].row].org, requests[task[s].row].amount)
    BY <1>6 DEF ApproveRequest, Deciding
  <2>2. task[s].actor \in Actors /\ OwnBranch(task[s].actor, task[s].row)
    BY <2>1, Decides, Holds
  <2> QED
    BY <2>1, <2>2, RequestDecided, RequestWritten DEF OwnBranch
<1>7. ASSUME NEW s \in Sessions, ApproveCorrection(s) PROVE Goal
  <2>1. /\ pc[s] = "decide" /\ DecideCorrection(s, "executed")
        /\ Post(task[s].row, corrections[task[s].row].org, corrections[task[s].row].amount)
    BY <1>7 DEF ApproveCorrection, Deciding
  <2> QED
    BY <2>1, CorrectionDecided, CorrectionWritten
<1>8. ASSUME UNCHANGED <<requests, corrections, ledger, events>> PROVE Goal
  BY <1>8, MoneyKept
<1> QED
  BY <1>1, <1>2, <1>3, <1>4, <1>5, <1>6, <1>7, <1>8
  DEF Next, TryRow, Settle, Spend, Ask, Refuse, LockRow, ApproveRefused, Disconnect, Rollback,
      ReadStatus, WriteStatus, Tick, vars, dbVars

-----------------------------------------------------------------------------
(* Credit.                                                                 *)

LEMMA CoveredPost ==
  ASSUME TypeOK, WithinCredit, NEW r \in Rows, NEW o \in Orgs, NEW m \in Int,
         Covered(o, m), Post(r, o, m)
  PROVE  WithinCredit'
<1>1. CreditLimit \in [Orgs -> Nat] /\ balance \in [Orgs -> Int]
  BY AmountAssumption DEF TypeOK
<1>2. balance' = balance \/ balance' = [balance EXCEPT ![o] = @ + m]
  BY DEF Post
<1>3. balance[o] + m >= -CreditLimit[o]
  BY <1>1 DEF Covered, WithinCredit
<1> QED
  BY <1>1, <1>2, <1>3 DEF WithinCredit

LEMMA CreditStep ==
  ASSUME IInv, [Next]_vars
  PROVE  WithinCredit'
<1> USE DEF IInv
<1>1. ASSUME NEW o \in Orgs, Spend(o) PROVE WithinCredit'
  <2>1. CreditLimit \in [Orgs -> Nat] /\ balance \in [Orgs -> Int]
    BY AmountAssumption DEF TypeOK
  <2>2. balance[o] + CreditLimit[o] >= 1
    BY <1>1, <2>1 DEF Spend, Covered
  <2>3. balance' = [balance EXCEPT ![o] = @ - 1]
    BY <1>1 DEF Spend
  <2> QED
    BY <2>1, <2>2, <2>3 DEF WithinCredit
<1>2. ASSUME NEW c \in Corrections, NEW o \in Orgs, NEW m \in Adjustments, AdjustDirectly(c, o, m)
      PROVE  WithinCredit'
  BY <1>2, AmountAssumption, CoveredPost DEF AdjustDirectly
<1>3. ASSUME NEW s \in Sessions, ApproveRequest(s) PROVE WithinCredit'
  <2>1. pc[s] = "decide" /\ task[s].row \in Requests
    BY <1>3 DEF ApproveRequest, Deciding, DecideRequest
  <2>2. requests[task[s].row] \in Request
    BY <2>1, HeldPending
  <2>3. requests[task[s].row].org \in Orgs /\ requests[task[s].row].amount \in Fundings
    BY <2>2 DEF Request
  <2>4. requests[task[s].row].amount \in Int /\ ~(requests[task[s].row].amount < 0)
    <3>1. \A m \in Fundings : m \in Nat
      BY AmountAssumption
    <3>2. requests[task[s].row].amount \in Nat
      BY <2>3, <3>1
    <3>3. \A n \in Nat : n \in Int /\ ~(n < 0)
      OBVIOUS
    <3> QED
      BY <3>2, <3>3
  <2>5. Covered(requests[task[s].row].org, requests[task[s].row].amount)
    BY <2>4 DEF Covered
  <2> QED
    BY <1>3, <2>1, <2>3, <2>4, <2>5, CoveredPost DEF ApproveRequest
<1>4. ASSUME NEW s \in Sessions, ApproveCorrection(s) PROVE WithinCredit'
  <2>1. pc[s] = "decide" /\ task[s].row \in Corrections
    BY <1>4 DEF ApproveCorrection, Deciding, DecideCorrection
  <2>2. corrections[task[s].row] \in Correction
    BY <2>1, HeldPending
  <2>3. corrections[task[s].row].org \in Orgs /\ corrections[task[s].row].amount \in Int
    BY <2>2, AmountAssumption DEF Correction
  <2> QED
    BY <1>4, <2>1, <2>3, CoveredPost DEF ApproveCorrection
<1>5. ASSUME UNCHANGED balance PROVE WithinCredit'
  BY <1>5 DEF WithinCredit
<1> QED
  BY <1>1, <1>2, <1>3, <1>4, <1>5
  DEF Next, TryRow, Settle, RequestFunding, RequestAdjustment, Ask, Refuse, Expire, LockRow,
      Reject, ApproveRefused, Disconnect, Rollback, ReadStatus, WriteStatus, Tick, vars, dbVars

-----------------------------------------------------------------------------
(* Decisions are final.                                                    *)

LEMMA DecisionStep ==
  ASSUME IInv, [Next]_vars
  PROVE  FinalStep /\ InTimeStep
<1> USE DEF IInv
<1> DEFINE Goal == FinalStep /\ InTimeStep
<1>0. \A c \in Corrections : c \notin Requests
  BY RowAssumption
<1>1. ASSUME NEW r \in Requests, NEW a \in Actors, NEW m \in Fundings, RequestFunding(r, a, m)
      PROVE  Goal
  BY <1>1, <1>0 DEF RequestFunding, FinalStep, InTimeStep, Decided, TypeOK, None
<1>2. ASSUME NEW c \in Corrections, corrections[c] = None, requests' = requests,
             \A d \in Corrections : d # c => corrections'[d] = corrections[d]
      PROVE  Goal
  BY <1>2, <1>0 DEF FinalStep, InTimeStep, Decided, None
<1>3. ASSUME NEW s \in Sessions, Expire(s) PROVE Goal
  <2>1. task[s].row \in Corrections /\ corrections[task[s].row].status = "pending"
    BY <1>3, <1>0 DEF Expire, RowFree, Lapsed, Pending
  <2>2. corrections[task[s].row] \in Correction
    BY <1>3, <2>1, Decides, CorrectionRow DEF Expire, RowFree
  <2>3. /\ requests' = requests
        /\ \A d \in Corrections : d # task[s].row => corrections'[d] = corrections[d]
        /\ corrections'[task[s].row].status = "expired"
    BY <1>3, <2>1, <2>2 DEF Expire, TypeOK, Correction
  <2> QED
    BY <1>0, <2>1, <2>3 DEF FinalStep, InTimeStep, Decided
<1>4. ASSUME NEW s \in Sessions, pc[s] = "decide", NEW v \in {"approved", "rejected"},
             DecideRequest(s, v)
      PROVE  Goal
  BY <1>4, <1>0, RequestDecided DEF FinalStep, InTimeStep, Decided
<1>5. ASSUME NEW s \in Sessions, pc[s] = "decide", NEW v \in {"executed", "rejected"},
             DecideCorrection(s, v)
      PROVE  Goal
  <2>1. /\ task[s].row \in Corrections /\ corrections[task[s].row].status = "pending"
        /\ corrections[task[s].row] \in Correction
        /\ \A d \in Corrections : d # task[s].row => corrections'[d] = corrections[d]
        /\ requests' = requests
    BY <1>5, CorrectionDecided
  <2>2. asked[s] \in Int /\ corrections[task[s].row].deadline \in Int
    BY <2>1, AmountAssumption DEF TypeOK, Correction
  <2>3. asked[s] < corrections[task[s].row].deadline
    BY <1>5, <2>1, <2>2, Holds DEF Lapsed
  <2> QED
    BY <1>0, <1>5, <2>1, <2>3 DEF FinalStep, InTimeStep, Decided
<1>6. ASSUME NEW c \in Corrections, NEW o \in Orgs, NEW m \in Adjustments, AdjustDirectly(c, o, m)
      PROVE  Goal
  BY <1>2, <1>6 DEF AdjustDirectly, TypeOK
<1>7. ASSUME NEW c \in Corrections, NEW o \in Orgs, NEW m \in Adjustments, NEW a \in Actors,
             RequestAdjustment(c, a, o, m)
      PROVE  Goal
  BY <1>2, <1>7 DEF RequestAdjustment, TypeOK
<1>8. ASSUME NEW s \in Sessions, Settle(s) PROVE Goal
  BY <1>4, <1>5, <1>8 DEF Settle, Reject, ApproveRequest, ApproveCorrection, ApproveRefused,
                          Deciding, Rollback, dbVars, FinalStep, InTimeStep
<1>9. ASSUME UNCHANGED <<requests, corrections>> PROVE Goal
  BY <1>9 DEF FinalStep, InTimeStep
<1> QED
  BY <1>1, <1>3, <1>6, <1>7, <1>8, <1>9
  DEF Next, TryRow, Spend, Ask, Refuse, LockRow, Disconnect, Rollback, ReadStatus,
      WriteStatus, Tick, vars, dbVars

-----------------------------------------------------------------------------
(* The theorems.                                                           *)

LEMMA StepInv ==
  ASSUME IInv, [Next]_vars
  PROVE  IInv'
<1>1. TypeOK' /\ RowsHeld'
  BY TypeStep, HeldStep
<1>2. MoneyFollowsDecision' /\ OthersAsk'
  BY MoneyStep
<1>3. WithinCredit'
  BY CreditStep
<1> QED
  BY <1>1, <1>2, <1>3 DEF IInv

(* The inductive invariant holds in every state.                           *)
THEOREM ApprovalsInv == Spec => []IInv
<1>1. Init => IInv
  BY InitInv
<1>2. IInv /\ [Next]_vars => IInv'
  BY StepInv
<1> QED
  BY <1>1, <1>2, PTL DEF Spec

(* Tables, row locks and handlers have their types.                        *)
THEOREM ApprovalsTypeOK == Spec => []TypeOK
<1>1. IInv => TypeOK
  BY DEF IInv
<1> QED
  BY <1>1, ApprovalsInv, PTL

(* Money, deciders and announcements are those of the final decisions,     *)
(* however decide_funding_request(), decide_approval(), request_adjustment *)
(* and their copies in the bot overlap.                                    *)
THEOREM ApprovalsMoneyFollowsDecision == Spec => []MoneyFollowsDecision
<1>1. IInv => MoneyFollowsDecision
  BY DEF IInv
<1> QED
  BY <1>1, ApprovalsInv, PTL

(* apply_wallet_adjustment() never takes an organization below its credit. *)
THEOREM ApprovalsWithinCredit == Spec => []WithinCredit
<1>1. IInv => WithinCredit
  BY DEF IInv
<1> QED
  BY <1>1, ApprovalsInv, PTL

(* No handler changes a row that has been decided.                         *)
THEOREM ApprovalsDecidedForGood == Spec => DecidedForGood
<1>1. IInv /\ [Next]_vars => [FinalStep]_vars
  BY DecisionStep
<1>2. Spec => [][FinalStep]_vars
  BY <1>1, ApprovalsInv, PTL DEF Spec
<1> QED
  BY <1>2 DEF DecidedForGood

(* locked_pending_approval(): a correction is executed only by a handler   *)
(* that was asked before its deadline.                                     *)
THEOREM ApprovalsOnlyAskedInTime == Spec => OnlyAskedInTime
<1>1. IInv /\ [Next]_vars => [InTimeStep]_vars
  BY DecisionStep
<1>2. Spec => [][InTimeStep]_vars
  BY <1>1, ApprovalsInv, PTL DEF Spec
<1> QED
  BY <1>2 DEF OnlyAskedInTime
=============================================================================
