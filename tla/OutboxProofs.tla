---------------------------- MODULE OutboxProofs ----------------------------
(***************************************************************************)
(* Safety of the outbox for every number of events, workers, attempts and  *)
(* crashes.  That a message was sent, an admin cut off or a binding        *)
(* suspended stays so, hence the position of a worker says what has        *)
(* happened to the event at the head of its batch; and a row a worker      *)
(* holds is claimed, unless a claim on it has grown stale.                 *)
(***************************************************************************)
EXTENDS Outbox, FiniteSetTheorems, TLAPS

(* What the position of a worker says.                                     *)
Busy == {"handle", "panel", "notify", "commit", "complete"}
IsHold(e) == Topic[e] = HoldTopic
WorkerOK(w) ==
  /\ pc[w] \in Busy <=> batch[w] # <<>>
  /\ pc[w] = "panel" => IsHold(Ev(w))
  /\ dirty[w] => /\ pc[w] \in {"notify", "commit"}
                 /\ IsHold(Ev(w)) /\ limit[Aggregate[Ev(w)]] # "open"
  /\ pc[w] \in {"notify", "commit"} /\ IsHold(Ev(w)) =>
       dirty[w] \/ binding[Aggregate[Ev(w)]] = "suspended"
  /\ pc[w] = "complete" /\ IsHold(Ev(w)) => binding[Aggregate[Ev(w)]] = "suspended"
  /\ pc[w] \in {"commit", "complete"} => notified[Ev(w)]
WorkerInv == \A w \in Workers : WorkerOK(w)

(* A suspension follows the cut-off, and only owners of panels take a      *)
(* limit away.                                                             *)
CutInv ==
  /\ \A b \in Bindings : binding[b] = "suspended" => limit[b] # "open"
  /\ \A b \in Bindings : limit[b] = "raised" => b \in OwnPanel

(* Whose a row is.                                                         *)
Ids(b) == {b[i].id : i \in 1..Len(b)}
Distinct(b) == \A i, j \in 1..Len(b) : b[i].id = b[j].id => i = j
HeldOK(w) ==
  /\ Distinct(batch[w])
  /\ \A e \in Ids(batch[w]) : status[e] = "claimed" \/ e \in overdue
  /\ expired[w] \subseteq overdue
ClaimInv ==
  /\ \A w \in Workers : HeldOK(w)
  /\ \A w, z \in Workers : w # z => Ids(batch[w]) \intersect Ids(batch[z]) \subseteq overdue
  /\ \A e \in Events : stale[e] => e \in overdue

OutboxInv ==
  TypeOK /\ CutInv /\ DoneMeansDelivered /\ WorkerInv /\ ClaimInv

-----------------------------------------------------------------------------
(* Batches.                                                                *)

LEMMA HeadIs ==
  ASSUME NEW b \in Seq(Loaded), b # <<>>
  PROVE  /\ Head(b) \in Loaded /\ Head(b).id \in Events
         /\ Tail(b) \in Seq(Loaded)
         /\ Ids(b) = {Head(b).id} \union Ids(Tail(b))
         /\ Distinct(b) => Distinct(Tail(b)) /\ Head(b).id \notin Ids(Tail(b))
<1>1. /\ Len(b) \in Nat \ {0} /\ Len(Tail(b)) = Len(b) - 1
      /\ Head(b) = b[1] /\ b[1] \in Loaded /\ Tail(b) \in Seq(Loaded)
      /\ \A i \in 1..(Len(b) - 1) : Tail(b)[i] = b[i + 1]
  OBVIOUS
<1>2. Head(b).id \in Events
  BY <1>1 DEF Loaded
<1>3. Ids(b) = {Head(b).id} \union Ids(Tail(b))
  <2>1. ASSUME NEW i \in 1..Len(b), i # 1
        PROVE  i - 1 \in 1..Len(Tail(b)) /\ Tail(b)[i - 1] = b[i]
    BY <1>1, <2>1
  <2>2. ASSUME NEW i \in 1..Len(Tail(b)) PROVE i + 1 \in 1..Len(b) /\ Tail(b)[i] = b[i + 1]
    BY <1>1
  <2>3. 1 \in 1..Len(b)
    BY <1>1
  <2> QED
    BY <1>1, <2>1, <2>2, <2>3 DEF Ids
<1>4. ASSUME Distinct(b) PROVE Distinct(Tail(b)) /\ Head(b).id \notin Ids(Tail(b))
  <2>1. ASSUME NEW i \in 1..Len(Tail(b)), NEW j \in 1..Len(Tail(b)), Tail(b)[i].id = Tail(b)[j].id
        PROVE  i = j
    <3>1. i + 1 \in 1..Len(b) /\ j + 1 \in 1..Len(b) /\ b[i + 1].id = b[j + 1].id
      BY <1>1, <2>1
    <3> QED
      BY <1>4, <3>1 DEF Distinct
  <2>2. ASSUME NEW i \in 1..Len(Tail(b)), Tail(b)[i].id = Head(b).id PROVE FALSE
    <3>1. i + 1 \in 1..Len(b) /\ 1 \in 1..Len(b) /\ b[i + 1].id = b[1].id /\ i + 1 # 1
      BY <1>1, <2>2
    <3> QED
      BY <1>4, <3>1 DEF Distinct
  <2> QED
    BY <2>1, <2>2 DEF Distinct, Ids
<1> QED
  BY <1>1, <1>2, <1>3, <1>4

LEMMA IdsAreEvents ==
  ASSUME NEW b \in Seq(Loaded) PROVE Ids(b) \subseteq Events
<1>1. \A i \in 1..Len(b) : b[i] \in Loaded
  OBVIOUS
<1>2. \A row \in Loaded : row.id \in Events
  BY DEF Loaded
<1> QED
  BY <1>1, <1>2 DEF Ids

LEMMA NothingHeld == Ids(<<>>) = {} /\ Distinct(<<>>)
BY DEF Ids, Distinct

(* The handler refreshes the row at the head.                              *)
LEMMA RefreshedIs ==
  ASSUME NEW b \in Seq(Loaded), b # <<>>, NEW row \in Loaded, row.id = Head(b).id
  PROVE  LET n == <<row>> \o Tail(b)
         IN  /\ n \in Seq(Loaded) /\ n # <<>> /\ Head(n) = row
             /\ Ids(n) = Ids(b)
             /\ Distinct(b) => Distinct(n)
<1> DEFINE n == <<row>> \o Tail(b)
<1>1. /\ n \in Seq(Loaded) /\ n # <<>> /\ Head(n) = row /\ Len(n) = Len(b)
      /\ n[1] = row /\ \A i \in 2..Len(b) : n[i] = b[i]
  OBVIOUS
<1>2. \A i \in 1..Len(b) : n[i].id = b[i].id
  <2>1. b[1].id = row.id
    OBVIOUS
  <2> QED
    BY <1>1, <2>1
<1> HIDE DEF n
<1>3. Ids(n) = Ids(b)
  BY <1>1, <1>2 DEF Ids
<1>4. Distinct(b) => Distinct(n)
  BY <1>1, <1>2 DEF Distinct
<1> QED
  BY <1>1, <1>3, <1>4 DEF n

(* A rollback expires the rows a session has loaded.                       *)
LEMMA ForgottenIs ==
  ASSUME NEW b \in Seq(Loaded)
  PROVE  LET n == [i \in DOMAIN b |-> Forgotten(b[i])]
         IN  n \in Seq(Loaded) /\ Ids(n) = Ids(b) /\ (Distinct(b) => Distinct(n))
<1> DEFINE n == [i \in DOMAIN b |-> Forgotten(b[i])]
<1>1. DOMAIN b = 1..Len(b) /\ Len(b) \in Nat /\ \A i \in 1..Len(b) : b[i] \in Loaded
  OBVIOUS
<1>2. ASSUME NEW row \in Loaded PROVE Forgotten(row) \in Loaded /\ Forgotten(row).id = row.id
  BY DEF Loaded, Forgotten
<1>3. \A i \in 1..Len(b) : n[i] \in Loaded /\ n[i].id = b[i].id
  BY <1>1, <1>2
<1>4. n \in Seq(Loaded) /\ Len(n) = Len(b)
  BY <1>1, <1>3
<1> HIDE DEF n
<1>5. Ids(n) = Ids(b)
  BY <1>3, <1>4 DEF Ids
<1>6. Distinct(b) => Distinct(n)
  BY <1>3, <1>4 DEF Distinct
<1> QED
  BY <1>4, <1>5, <1>6 DEF n

(* What claim() loads.                                                     *)
LEMMA ClaimedIs ==
  ASSUME TypeOK, NEW S \in SUBSET Events, NEW order \in SetToSeqs(S)
  PROVE  LET n == [i \in DOMAIN order |-> LoadedAs(order[i])]
         IN  /\ n \in Seq(Loaded) /\ Ids(n) \subseteq S /\ Distinct(n)
             /\ n = <<>> <=> S = {}
<1> DEFINE n == [i \in DOMAIN order |-> LoadedAs(order[i])]
<1>1. IsFiniteSet(S)
  BY FS_Subset, OutboxAssumption
<1>2. Cardinality(S) \in Nat /\ (Cardinality(S) = 0 <=> S = {})
  BY <1>1, FS_CardinalityType, FS_EmptySet
<1>3. /\ order \in [1..Cardinality(S) -> S]
      /\ \A i, j \in 1..Cardinality(S) : i # j => order[i] # order[j]
  BY DEF SetToSeqs
<1>4. ASSUME NEW e \in Events PROVE LoadedAs(e) \in Loaded /\ LoadedAs(e).id = e
  BY DEF LoadedAs, Loaded, Statuses, TypeOK
<1>5. \A i \in 1..Cardinality(S) : n[i] \in Loaded /\ n[i].id = order[i] /\ order[i] \in S
  BY <1>3, <1>4
<1>6. n \in Seq(Loaded) /\ Len(n) = Cardinality(S)
  BY <1>2, <1>3, <1>5
<1>7. n = <<>> <=> S = {}
  BY <1>2, <1>6
<1> HIDE DEF n
<1>8. Ids(n) \subseteq S /\ Distinct(n)
  BY <1>3, <1>5, <1>6 DEF Ids, Distinct
<1> QED
  BY <1>6, <1>7, <1>8 DEF n

-----------------------------------------------------------------------------
(* Types.                                                                  *)

LEMMA ReadIs ==
  ASSUME TypeOK, NEW w \in Workers, batch[w] # <<>>
  PROVE  /\ Read(w) \in Loaded /\ Read(w).id = Ev(w) /\ Ev(w) \in Events
         /\ Read(w).attempts \in 0..MaxAttempts
<1>1. Head(batch[w]) \in Loaded /\ Ev(w) \in Events
  BY HeadIs DEF TypeOK, Ev
<1>2. attempts[Ev(w)] \in 0..MaxAttempts /\ status[Ev(w)] \in Statuses
  BY <1>1 DEF TypeOK
<1>3. Head(batch[w]).id = Ev(w)
  BY DEF Ev
<1> QED
  BY <1>1, <1>2, <1>3 DEF Read, Loaded

LEMMA HoldIsBinding ==
  ASSUME NEW e \in Events, IsHold(e) PROVE Aggregate[e] \in Bindings
BY DEF IsHold, Bindings

LEMMA RetryTypes ==
  ASSUME TypeOK, NEW w \in Workers, NEW counted \in 0..MaxAttempts,
         NEW others \in Seq(Loaded), Ev(w) \in Events, Retry(w, counted, others)
  PROVE  TypeOK'
<1> DEFINE tries == IF counted < MaxAttempts THEN counted + 1 ELSE MaxAttempts
<1>1. tries \in 0..MaxAttempts
  BY OutboxAssumption
<1>2. UNCHANGED <<world, crashes, overdue>>
  BY DEF Retry
<1>3. CASE UNCHANGED rows /\ Killed(w)
  BY <1>2, <1>3 DEF Killed, Goto, TypeOK, rows, world
<1>4. CASE ~(UNCHANGED rows /\ Killed(w))
  <2>1. /\ attempts' = [attempts EXCEPT ![Ev(w)] = tries]
        /\ status' = [status EXCEPT ![Ev(w)] = IF tries = MaxAttempts THEN "dead" ELSE "pending"]
        /\ due' = [due EXCEPT ![Ev(w)] = FALSE]
        /\ stale' = [stale EXCEPT ![Ev(w)] = FALSE]
        /\ NextEvent(w, others)
        /\ dirty' = [dirty EXCEPT ![w] = FALSE]
        /\ UNCHANGED expired
    BY <1>4 DEF Retry
  <2> HIDE DEF tries
  <2>2. attempts' \in [Events -> 0..MaxAttempts]
    BY <1>1, <2>1 DEF TypeOK
  <2>3. status' \in [Events -> Statuses]
    BY <2>1 DEF TypeOK, Statuses
  <2>4. batch' \in [Workers -> Seq(Loaded)]
    BY <2>1 DEF TypeOK, NextEvent
  <2> QED
    BY <1>2, <2>1, <2>2, <2>3, <2>4 DEF TypeOK, NextEvent, Goto, world
<1> QED
  BY <1>3, <1>4

LEMMA RetryCases ==
  ASSUME TypeOK, WorkerInv, NEW w \in Workers, HandlerFails(w) \/ NoHandler(w)
  PROVE  /\ pc[w] \in {"handle", "panel", "notify"} /\ batch[w] # <<>>
         /\ \E counted \in 0..MaxAttempts, others \in Seq(Loaded) :
              /\ Retry(w, counted, others)
              /\ Ids(others) = Ids(Tail(batch[w]))
              /\ Distinct(Tail(batch[w])) => Distinct(others)
<1>1. pc[w] \in {"handle", "panel", "notify"} /\ batch[w] # <<>>
  BY DEF HandlerFails, NoHandler, WorkerInv, WorkerOK, Busy
<1>2. batch[w] \in Seq(Loaded) /\ Tail(batch[w]) \in Seq(Loaded) /\ Ev(w) \in Events
  BY <1>1, HeadIs DEF TypeOK, Ev
<1>3. CASE HandlerFails(w)
  <2>1. attempts[Ev(w)] \in 0..MaxAttempts
    BY <1>2 DEF TypeOK
  <2> DEFINE others == [i \in DOMAIN Tail(batch[w]) |-> Forgotten(Tail(batch[w])[i])]
  <2>2. /\ others \in Seq(Loaded) /\ Ids(others) = Ids(Tail(batch[w]))
        /\ Distinct(Tail(batch[w])) => Distinct(others)
    BY <1>2, ForgottenIs
  <2>3. Retry(w, attempts[Ev(w)], others)
    BY <1>3 DEF HandlerFails
  <2> HIDE DEF others
  <2> QED
    BY <1>1, <2>1, <2>2, <2>3
<1>4. CASE NoHandler(w)
  BY <1>1, <1>2, <1>4, ReadIs DEF NoHandler
<1> QED
  BY <1>3, <1>4

LEMMA TypesStay ==
  ASSUME TypeOK, WorkerInv, Next
  PROVE  TypeOK'
<1>1. ASSUME NEW e \in Events, Enqueue(e) \/ BackoffEnds(e) \/ ClaimExpires(e) PROVE TypeOK'
  <2>1. CASE Enqueue(e)
    <3>1. /\ status' = [status EXCEPT ![e] = "pending"]
          /\ due' = [due EXCEPT ![e] = TRUE]
          /\ UNCHANGED <<attempts, stale, world, worker, crashes, overdue>>
      BY <2>1 DEF Enqueue
    <3> QED
      BY <3>1 DEF TypeOK, Statuses, world, worker
  <2>2. CASE BackoffEnds(e) \/ ClaimExpires(e)
    BY <2>2 DEF BackoffEnds, ClaimExpires, TypeOK, Statuses, world, worker
  <2> QED
    BY <1>1, <2>1, <2>2
<1>0. ASSUME NEW b \in Bindings, RaiseLimit(b) PROVE TypeOK'
  BY <1>0 DEF RaiseLimit, TypeOK, rows, worker
<1> SUFFICES ASSUME NEW w \in Workers, Running(w) \/ HandlerFails(w) \/ Crash(w) PROVE TypeOK'
  BY <1>0, <1>1 DEF Next
<1>2. /\ batch[w] \in Seq(Loaded)
      /\ batch[w] # <<>> => /\ Ev(w) \in Events /\ Tail(batch[w]) \in Seq(Loaded)
                            /\ IsHold(Ev(w)) => Aggregate[Ev(w)] \in Bindings
  BY HeadIs, HoldIsBinding DEF TypeOK, Ev
<1>3. CASE ReadStale(w)
  BY <1>3 DEF ReadStale, StaleRows, Goto, TypeOK, rows, world
<1>4. CASE Reclaim(w)
  BY <1>4 DEF Reclaim, Goto, TypeOK, Statuses, world
<1>5. CASE ReclaimRejected(w)
  BY <1>5 DEF ReclaimRejected, Goto, TypeOK, rows, world
<1>6. CASE Claim(w)
  <2>1. PICK S \in SUBSET Waiting :
          /\ status' = [e \in Events |-> IF e \in S THEN "claimed" ELSE status[e]]
          /\ \E order \in SetToSeqs(S) :
               batch' = [batch EXCEPT ![w] = [i \in DOMAIN order |-> LoadedAs(order[i])]]
          /\ Goto(w, IF S = {} THEN "idle" ELSE "handle")
    BY <1>6 DEF Claim
  <2>2. PICK order \in SetToSeqs(S) :
          batch' = [batch EXCEPT ![w] = [i \in DOMAIN order |-> LoadedAs(order[i])]]
    BY <2>1
  <2>3. S \in SUBSET Events
    BY DEF Waiting
  <2>4. [i \in DOMAIN order |-> LoadedAs(order[i])] \in Seq(Loaded)
    BY <2>3, ClaimedIs
  <2>5. batch' \in [Workers -> Seq(Loaded)]
    BY <2>2, <2>4 DEF TypeOK
  <2>6. status' \in [Events -> Statuses]
    BY <2>1 DEF TypeOK, Statuses
  <2> QED
    BY <1>6, <2>1, <2>5, <2>6 DEF Claim, Goto, TypeOK, world
<1>7. CASE StartHandler(w)
  <2>1. batch[w] # <<>>
    BY <1>7 DEF StartHandler, WorkerInv, WorkerOK, Busy
  <2>2. <<Read(w)>> \o Tail(batch[w]) \in Seq(Loaded)
    BY <1>2, <2>1, ReadIs
  <2>3. batch' = [batch EXCEPT ![w] = <<Read(w)>> \o Tail(batch[w])]
    BY <1>7 DEF StartHandler, TypeOK
  <2>4. batch' \in [Workers -> Seq(Loaded)]
    BY <2>2, <2>3 DEF TypeOK
  <2> QED
    BY <1>7, <2>4 DEF StartHandler, Goto, TypeOK, rows, world
<1>8. CASE CutOff(w)
  BY <1>8 DEF CutOff, Goto, TypeOK, rows
<1>9. CASE Notify(w)
  BY <1>9 DEF Notify, Goto, TypeOK, rows
<1>10. CASE CommitHandler(w)
  BY <1>10 DEF CommitHandler, Goto, TypeOK, rows
<1>11. CASE Complete(w)
  <2>1. batch[w] # <<>>
    BY <1>11 DEF Complete, WorkerInv, WorkerOK, Busy
  <2>2. batch' \in [Workers -> Seq(Loaded)]
    BY <1>2, <1>11, <2>1 DEF Complete, NextEvent, TypeOK
  <2>3. status' \in [Events -> Statuses] /\ stale' \in [Events -> BOOLEAN]
    BY <1>11 DEF Complete, TypeOK, Statuses
  <2> QED
    BY <1>11, <2>2, <2>3 DEF Complete, NextEvent, Goto, TypeOK, world
<1>12. CASE NoHandler(w) \/ HandlerFails(w)
  BY <1>2, <1>12, RetryCases, RetryTypes
<1>13. CASE Crash(w)
  BY <1>13, OutboxAssumption DEF Crash, Killed, Goto, TypeOK, rows, world
<1> QED
  BY <1>3, <1>4, <1>5, <1>6, <1>7, <1>8, <1>9, <1>10, <1>11, <1>12, <1>13 DEF Running

-----------------------------------------------------------------------------
(* What has happened outside.                                              *)

LEMMA RetryLeaves ==
  ASSUME TypeOK, NEW w \in Workers, NEW counted \in 0..MaxAttempts,
         NEW others \in Seq(Loaded), Ev(w) \in Events, Retry(w, counted, others)
  PROVE  /\ UNCHANGED world /\ ~dirty'[w]
         /\ \/ pc'[w] = "idle" /\ batch'[w] = <<>>
            \/ pc'[w] = "handle" /\ batch'[w] = others /\ others # <<>>
         /\ \A z \in Workers \ {w} : pc'[z] = pc[z] /\ batch'[z] = batch[z] /\ dirty'[z] = dirty[z]
         /\ \A e \in Events : status'[e] = "done" => status[e] = "done"
BY DEF Retry, Killed, NextEvent, Goto, TypeOK, rows

(* Nobody takes back a message or a suspension, or undoes that there was a *)
(* cut-off.                                                                *)
Grows ==
  /\ \A e \in Events : notified[e] => notified'[e]
  /\ \A b \in Bindings : limit[b] # "open" => limit'[b] # "open"
  /\ \A b \in Bindings : binding[b] = "suspended" => binding'[b] = "suspended"

LEMMA WorldGrows ==
  ASSUME TypeOK, WorkerInv, Next PROVE Grows
<1>1. ASSUME NEW e \in Events, Enqueue(e) \/ BackoffEnds(e) \/ ClaimExpires(e) PROVE Grows
  BY <1>1 DEF Enqueue, BackoffEnds, ClaimExpires, Grows, world
<1>0. ASSUME NEW b \in Bindings, RaiseLimit(b) PROVE Grows
  BY <1>0 DEF RaiseLimit, Grows, TypeOK
<1> SUFFICES ASSUME NEW w \in Workers, Running(w) \/ HandlerFails(w) \/ Crash(w) PROVE Grows
  BY <1>0, <1>1 DEF Next
<1>2. CASE HandlerFails(w) \/ NoHandler(w)
  BY <1>2 DEF HandlerFails, NoHandler, Retry, Grows, world
<1>3. CASE CutOff(w) \/ Notify(w) \/ CommitHandler(w)
  BY <1>3 DEF CutOff, Notify, CommitHandler, Grows, TypeOK
<1> QED
  BY <1>2, <1>3 DEF Running, ReadStale, Reclaim, ReclaimRejected, Claim, StartHandler, Complete, Crash,
       Grows, world

(* So a worker that does nothing keeps what its position says.             *)
LEMMA OthersStay ==
  ASSUME TypeOK, Grows, NEW z \in Workers, WorkerOK(z),
         pc'[z] = pc[z], batch'[z] = batch[z], dirty'[z] = dirty[z]
  PROVE  WorkerOK(z)'
<1>1. Ev(z)' = Ev(z)
  BY DEF Ev
<1>2. pc[z] \in Busy => Ev(z) \in Events /\ (IsHold(Ev(z)) => Aggregate[Ev(z)] \in Bindings)
  BY HeadIs, HoldIsBinding DEF TypeOK, WorkerOK, Ev
<1>3. (pc[z] \in Busy <=> batch[z] # <<>>)'
  BY DEF WorkerOK
<1>4. (pc[z] = "panel" => IsHold(Ev(z)))'
  BY <1>1 DEF WorkerOK, IsHold
<1>5. (dirty[z] => /\ pc[z] \in {"notify", "commit"}
                   /\ IsHold(Ev(z)) /\ limit[Aggregate[Ev(z)]] # "open")'
  BY <1>1, <1>2 DEF WorkerOK, IsHold, Grows, Busy
<1>6. (pc[z] \in {"notify", "commit"} /\ IsHold(Ev(z)) =>
         dirty[z] \/ binding[Aggregate[Ev(z)]] = "suspended")'
  BY <1>1, <1>2 DEF WorkerOK, IsHold, Grows, Busy
<1>7. (pc[z] = "complete" /\ IsHold(Ev(z)) => binding[Aggregate[Ev(z)]] = "suspended")'
  BY <1>1, <1>2 DEF WorkerOK, IsHold, Grows, Busy
<1>8. (pc[z] \in {"commit", "complete"} => notified[Ev(z)])'
  BY <1>1, <1>2 DEF WorkerOK, Grows, Busy
<1> QED
  BY <1>3, <1>4, <1>5, <1>6, <1>7, <1>8 DEF WorkerOK

LEMMA PositionsStay ==
  ASSUME TypeOK, WorkerInv, Next
  PROVE  WorkerInv'
<1>0. Grows
  BY WorldGrows
<1>1. ASSUME NEW e \in Events, Enqueue(e) \/ BackoffEnds(e) \/ ClaimExpires(e) PROVE WorkerInv'
  BY <1>0, <1>1, OthersStay DEF Enqueue, BackoffEnds, ClaimExpires, WorkerInv, worker
<1>b. ASSUME NEW b \in Bindings, RaiseLimit(b) PROVE WorkerInv'
  BY <1>0, <1>b, OthersStay DEF RaiseLimit, WorkerInv, worker
<1> SUFFICES ASSUME NEW w \in Workers, Running(w) \/ HandlerFails(w) \/ Crash(w) PROVE WorkerInv'
  BY <1>1, <1>b DEF Next
<1> SUFFICES /\ \A z \in Workers \ {w} : pc'[z] = pc[z] /\ batch'[z] = batch[z] /\ dirty'[z] = dirty[z]
             /\ WorkerOK(w)'
  BY <1>0, OthersStay DEF WorkerInv
<1> DEFINE Alone == \A z \in Workers \ {w} :
             pc'[z] = pc[z] /\ batch'[z] = batch[z] /\ dirty'[z] = dirty[z]
<1>2. /\ batch[w] \in Seq(Loaded) /\ WorkerOK(w)
      /\ batch[w] # <<>> => /\ Ev(w) \in Events /\ Tail(batch[w]) \in Seq(Loaded)
                            /\ IsHold(Ev(w)) => Aggregate[Ev(w)] \in Bindings
  BY HeadIs, HoldIsBinding DEF TypeOK, Ev, WorkerInv
<1>3. CASE ReadStale(w) \/ Reclaim(w) \/ ReclaimRejected(w)
  <2>1. Alone
    BY <1>3 DEF ReadStale, Reclaim, ReclaimRejected, Goto, TypeOK
  <2>2. /\ pc[w] \notin Busy /\ pc'[w] \notin Busy
        /\ batch'[w] = batch[w] /\ dirty'[w] = dirty[w]
    BY <1>3 DEF ReadStale, Reclaim, ReclaimRejected, Goto, TypeOK, Busy
  <2> QED
    BY <1>2, <2>1, <2>2 DEF WorkerOK, Busy
<1>4. CASE Claim(w)
  <2>1. PICK S \in SUBSET Waiting :
          /\ \E order \in SetToSeqs(S) :
               batch' = [batch EXCEPT ![w] = [i \in DOMAIN order |-> LoadedAs(order[i])]]
          /\ Goto(w, IF S = {} THEN "idle" ELSE "handle")
    BY <1>4 DEF Claim
  <2>2. PICK order \in SetToSeqs(S) :
          batch' = [batch EXCEPT ![w] = [i \in DOMAIN order |-> LoadedAs(order[i])]]
    BY <2>1
  <2>3. S \in SUBSET Events
    BY DEF Waiting
  <2>4. [i \in DOMAIN order |-> LoadedAs(order[i])] = <<>> <=> S = {}
    BY <2>3, ClaimedIs
  <2>5. batch'[w] = <<>> <=> S = {}
    BY <2>2, <2>4 DEF TypeOK
  <2>6. /\ pc[w] = "claim" /\ dirty' = dirty
        /\ pc'[w] = IF S = {} THEN "idle" ELSE "handle"
    BY <1>4, <2>1 DEF Claim, Goto, TypeOK
  <2>7. Alone
    BY <2>1, <2>2, <2>6 DEF Goto, TypeOK
  <2>8. ~dirty[w]
    BY <1>2, <2>6 DEF WorkerOK
  <2> QED
    BY <2>5, <2>6, <2>7, <2>8 DEF WorkerOK, Busy
<1>5. CASE StartHandler(w)
  <2>1. batch[w] # <<>>
    BY <1>2, <1>5 DEF StartHandler, WorkerOK, Busy
  <2>2. batch'[w] = <<Read(w)>> \o Tail(batch[w])
    BY <1>5 DEF StartHandler, TypeOK
  <2>3. batch'[w] # <<>> /\ Head(batch'[w]) = Read(w)
    BY <1>2, <2>1, <2>2, ReadIs, RefreshedIs DEF Ev
  <2>4. Ev(w)' = Ev(w)
    BY <2>1, <2>3, ReadIs DEF Ev
  <2>5. ~dirty[w]
    BY <1>2, <1>5 DEF StartHandler, WorkerOK
  <2>6. Alone /\ dirty' = dirty /\ UNCHANGED world
        /\ pc'[w] = IF IsHold(Ev(w)) /\ binding[Aggregate[Ev(w)]] = "active" THEN "panel" ELSE "notify"
    BY <1>5 DEF StartHandler, Goto, TypeOK, IsHold
  <2>7. IsHold(Ev(w)) => binding[Aggregate[Ev(w)]] \in {"active", "suspended"}
    BY <1>2, <2>1 DEF TypeOK
  <2> QED
    BY <2>3, <2>4, <2>5, <2>6, <2>7 DEF WorkerOK, Busy, IsHold, world
<1>6. CASE CutOff(w)
  <2>1. batch[w] # <<>> /\ IsHold(Ev(w)) /\ Ev(w)' = Ev(w)
    BY <1>2, <1>6 DEF CutOff, WorkerOK, Busy, Ev
  <2>2. Alone /\ pc'[w] = "notify" /\ batch'[w] = batch[w] /\ limit'[Aggregate[Ev(w)]] # "open"
    BY <1>2, <1>6, <2>1 DEF CutOff, Goto, TypeOK
  <2>3. dirty'[w]
    BY <1>6 DEF CutOff, TypeOK
  <2> QED
    BY <2>1, <2>2, <2>3 DEF WorkerOK, Busy, IsHold
<1>7. CASE Notify(w)
  <2>1. batch[w] # <<>> /\ Ev(w)' = Ev(w)
    BY <1>2, <1>7 DEF Notify, WorkerOK, Busy, Ev
  <2>2. Alone /\ pc'[w] = "commit" /\ batch'[w] = batch[w] /\ dirty' = dirty /\ notified'[Ev(w)]
        /\ pc[w] = "notify" /\ UNCHANGED <<binding, limit>>
    BY <1>2, <1>7, <2>1 DEF Notify, Goto, TypeOK
  <2> QED
    BY <1>2, <2>1, <2>2 DEF WorkerOK, Busy, IsHold
<1>8. CASE CommitHandler(w)
  <2>1. batch[w] # <<>> /\ Ev(w)' = Ev(w)
    BY <1>2, <1>8 DEF CommitHandler, WorkerOK, Busy, Ev
  <2>2. Alone /\ pc'[w] = "complete" /\ batch'[w] = batch[w] /\ pc[w] = "commit"
        /\ notified' = notified
    BY <1>8 DEF CommitHandler, Goto, TypeOK
  <2>3. ~dirty'[w]
    BY <1>8 DEF CommitHandler, TypeOK
  <2>4. IsHold(Ev(w)) => binding'[Aggregate[Ev(w)]] = "suspended"
    BY <1>2, <1>8, <2>1, <2>2 DEF CommitHandler, WorkerOK, TypeOK
  <2> QED
    BY <1>2, <2>1, <2>2, <2>3, <2>4 DEF WorkerOK, Busy, IsHold
<1>9. CASE Complete(w)
  <2>1. Alone /\ batch'[w] = Tail(batch[w]) /\ dirty' = dirty /\ pc[w] = "complete"
        /\ pc'[w] = IF Tail(batch[w]) = <<>> THEN "idle" ELSE "handle"
    BY <1>9 DEF Complete, NextEvent, Goto, TypeOK
  <2>2. ~dirty[w]
    BY <1>2, <2>1 DEF WorkerOK
  <2> QED
    BY <2>1, <2>2 DEF WorkerOK, Busy
<1>10. CASE NoHandler(w) \/ HandlerFails(w)
  <2>1. PICK counted \in 0..MaxAttempts, others \in Seq(Loaded) :
          batch[w] # <<>> /\ Retry(w, counted, others)
    BY <1>10, RetryCases
  <2>2. /\ \/ pc'[w] = "idle" /\ batch'[w] = <<>>
           \/ pc'[w] = "handle" /\ batch'[w] = others /\ others # <<>>
        /\ Alone /\ ~dirty'[w]
    BY <1>2, <2>1, RetryLeaves
  <2> QED
    BY <2>2 DEF WorkerOK, Busy
<1>11. CASE Crash(w)
  <2>1. Alone /\ pc'[w] = "idle" /\ batch'[w] = <<>>
    BY <1>11 DEF Crash, Killed, Goto, TypeOK
  <2>2. ~dirty'[w]
    BY <1>11 DEF Crash, Killed, TypeOK
  <2> QED
    BY <2>1, <2>2 DEF WorkerOK, Busy
<1> QED
  BY <1>3, <1>4, <1>5, <1>6, <1>7, <1>8, <1>9, <1>10, <1>11 DEF Running

(* A suspension is committed after the cut-off, and a row is done only     *)
(* after complete().                                                       *)
LEMMA SuspensionsStay ==
  ASSUME TypeOK, CutInv, WorkerInv, Next
  PROVE  CutInv'
<1>1. Grows
  BY WorldGrows
<1>2. ASSUME NEW w \in Workers, CommitHandler(w) PROVE \A b \in Bindings : binding'[b] = "suspended" => limit'[b] # "open"
  <2>1. WorkerOK(w) /\ limit' = limit
    BY <1>2 DEF WorkerInv, CommitHandler
  <2>2. ASSUME dirty[w] PROVE limit[Aggregate[Ev(w)]] # "open"
    BY <2>1, <2>2 DEF WorkerOK
  <2>3. \A b \in Bindings : binding'[b] = "suspended" =>
          binding[b] = "suspended" \/ (dirty[w] /\ b = Aggregate[Ev(w)])
    <3>1. CASE dirty[w]
      BY <1>2, <3>1 DEF CommitHandler, TypeOK
    <3>2. CASE ~dirty[w]
      BY <1>2, <3>2 DEF CommitHandler
    <3> QED
      BY <3>1, <3>2
  <2> QED
    BY <2>1, <2>2, <2>3 DEF CutInv
<1>4. \A b \in Bindings : limit'[b] = "raised" => b \in OwnPanel
  <2>1. ASSUME NEW b \in Bindings, RaiseLimit(b) PROVE \A c \in Bindings : limit'[c] = "raised" => c \in OwnPanel
    BY <2>1 DEF RaiseLimit, TypeOK, CutInv
  <2>2. ASSUME NEW w \in Workers, CutOff(w) PROVE \A c \in Bindings : limit'[c] = "raised" => c \in OwnPanel
    BY <2>2 DEF CutOff, TypeOK, CutInv
  <2>3. (\A b \in Bindings : ~RaiseLimit(b)) /\ (\A w \in Workers : ~CutOff(w)) => UNCHANGED limit
    BY DEF Next, Running, Enqueue, BackoffEnds, ClaimExpires, ReadStale, Reclaim, ReclaimRejected, Claim,
       StartHandler, NoHandler, CommitHandler, Notify, Complete, HandlerFails, Crash, Retry, world
  <2> QED
    BY <2>1, <2>2, <2>3 DEF CutInv
<1>3. (\A w \in Workers : ~CommitHandler(w)) => UNCHANGED binding
  BY DEF Next, Running, Enqueue, BackoffEnds, ClaimExpires, ReadStale, Reclaim, ReclaimRejected, Claim,
     StartHandler, NoHandler, CutOff, Notify, Complete, HandlerFails, Crash, Retry, world, RaiseLimit
<1> QED
  BY <1>1, <1>2, <1>3, <1>4 DEF CutInv, Grows

LEMMA DoneIsCompleted ==
  ASSUME TypeOK, WorkerInv, Next, NEW e \in Events, status'[e] = "done", status[e] # "done"
  PROVE  \E w \in Workers : Complete(w) /\ e = Ev(w)
<1>1. ASSUME NEW w \in Workers, NoHandler(w) \/ HandlerFails(w) PROVE FALSE
  <2>1. PICK counted \in 0..MaxAttempts, others \in Seq(Loaded) :
          batch[w] # <<>> /\ Retry(w, counted, others)
    BY <1>1, RetryCases
  <2>2. Ev(w) \in Events
    BY <2>1, HeadIs DEF TypeOK, Ev
  <2> QED
    BY <2>1, <2>2, RetryLeaves
<1>2. ASSUME NEW f \in Events, Enqueue(f) \/ BackoffEnds(f) \/ ClaimExpires(f) PROVE FALSE
  BY <1>2 DEF Enqueue, BackoffEnds, ClaimExpires, TypeOK
<1>3. ASSUME NEW w \in Workers, Reclaim(w) \/ Claim(w) PROVE FALSE
  BY <1>3 DEF Reclaim, Claim, TypeOK
<1>4. ASSUME NEW w \in Workers, Complete(w) PROVE e = Ev(w)
  BY <1>4 DEF Complete, TypeOK
<1> QED
  BY <1>1, <1>2, <1>3, <1>4 DEF Next, Running, ReadStale, ReclaimRejected, StartHandler, CutOff, Notify,
     CommitHandler, Crash, RaiseLimit, rows

LEMMA DeliveriesStay ==
  ASSUME TypeOK, CutInv, DoneMeansDelivered, WorkerInv, Next
  PROVE  DoneMeansDelivered'
<1> SUFFICES ASSUME NEW e \in Events, status'[e] = "done"
             PROVE  /\ notified'[e]
                    /\ IsHold(e) => limit'[Aggregate[e]] # "open" /\ binding'[Aggregate[e]] = "suspended"
  BY DEF DoneMeansDelivered, IsHold, CutBefore
<1>1. Grows /\ (IsHold(e) => Aggregate[e] \in Bindings)
  BY WorldGrows, HoldIsBinding
<1>2. CASE status[e] = "done"
  BY <1>1, <1>2 DEF DoneMeansDelivered, Grows, IsHold, CutBefore
<1>3. CASE status[e] # "done"
  <2>1. PICK w \in Workers : Complete(w) /\ e = Ev(w)
    BY <1>3, DoneIsCompleted
  <2>2. notified[e] /\ (IsHold(e) => binding[Aggregate[e]] = "suspended")
    BY <2>1 DEF Complete, WorkerInv, WorkerOK
  <2> QED
    BY <1>1, <2>2 DEF CutInv, Grows
<1> QED
  BY <1>2, <1>3

-----------------------------------------------------------------------------
(* Whose a row is.                                                         *)

(* Nothing new is held, and what is held stays claimed.                    *)
HoldsNoMore ==
  /\ \A z \in Workers : Ids(batch'[z]) \subseteq Ids(batch[z]) /\ Distinct(batch'[z])
  /\ \A z \in Workers : expired'[z] \subseteq overdue'
  /\ overdue \subseteq overdue'
  /\ \A z \in Workers : \A e \in Ids(batch'[z]) :
       status[e] = "claimed" => status'[e] = "claimed" \/ e \in overdue'
  /\ \A e \in Events : stale'[e] => stale[e] \/ e \in overdue'

LEMMA ClaimsStay ==
  ASSUME ClaimInv, HoldsNoMore PROVE ClaimInv'
<1>1. ASSUME NEW z \in Workers PROVE HeldOK(z)'
  BY DEF ClaimInv, HeldOK, HoldsNoMore
<1>2. ASSUME NEW w \in Workers, NEW z \in Workers, w # z
      PROVE  Ids(batch'[w]) \intersect Ids(batch'[z]) \subseteq overdue'
  BY <1>2 DEF ClaimInv, HoldsNoMore
<1>3. \A e \in Events : stale'[e] => e \in overdue'
  BY DEF ClaimInv, HoldsNoMore
<1> QED
  BY <1>1, <1>2, <1>3 DEF ClaimInv

(* A worker is done with the row at its head.                              *)
LEMMA HeadLeaves ==
  ASSUME TypeOK, ClaimInv, NEW w \in Workers, batch[w] # <<>>, NEW b \in Seq(Loaded),
         Ids(b) \subseteq Ids(Tail(batch[w])), Distinct(Tail(batch[w])) => Distinct(b),
         batch' = [batch EXCEPT ![w] = b], UNCHANGED <<expired, overdue>>,
         \A e \in Events \ {Ev(w)} : status'[e] = status[e],
         \A e \in Events : stale'[e] => stale[e]
  PROVE  HoldsNoMore
<1>1. /\ batch[w] \in Seq(Loaded) /\ Ev(w) \in Events
      /\ Ids(batch[w]) = {Ev(w)} \union Ids(Tail(batch[w]))
      /\ Distinct(b) /\ Ev(w) \notin Ids(b)
  BY HeadIs DEF TypeOK, Ev, ClaimInv, HeldOK
<1>2. batch'[w] = b /\ \A z \in Workers \ {w} : batch'[z] = batch[z]
  BY DEF TypeOK
<1>3. ASSUME NEW z \in Workers PROVE Ids(batch'[z]) \subseteq Ids(batch[z]) /\ Distinct(batch'[z])
  BY <1>1, <1>2 DEF ClaimInv, HeldOK
<1>4. ASSUME NEW z \in Workers, NEW e \in Ids(batch'[z]), status[e] = "claimed"
      PROVE  status'[e] = "claimed" \/ e \in overdue'
  <2>1. e \in Events
    BY <1>3, <1>4, IdsAreEvents DEF TypeOK
  <2>2. CASE e # Ev(w)
    BY <1>4, <2>1, <2>2
  <2>3. CASE e = Ev(w)
    <3>1. z # w
      BY <1>1, <1>2, <1>4, <2>3
    <3>2. e \in Ids(batch[w]) \intersect Ids(batch[z])
      BY <1>1, <1>2, <1>4, <2>3, <3>1
    <3> QED
      BY <3>1, <3>2 DEF ClaimInv
  <2> QED
    BY <2>2, <2>3
<1> QED
  BY <1>3, <1>4 DEF HoldsNoMore, ClaimInv, HeldOK

LEMMA ClaimTakes ==
  ASSUME TypeOK, WorkerInv, ClaimInv, NEW w \in Workers, Claim(w)
  PROVE  ClaimInv'
<1>1. PICK S \in SUBSET Waiting :
        /\ status' = [e \in Events |-> IF e \in S THEN "claimed" ELSE status[e]]
        /\ \E order \in SetToSeqs(S) :
             batch' = [batch EXCEPT ![w] = [i \in DOMAIN order |-> LoadedAs(order[i])]]
  BY DEF Claim
<1>2. PICK order \in SetToSeqs(S) :
        batch' = [batch EXCEPT ![w] = [i \in DOMAIN order |-> LoadedAs(order[i])]]
  BY <1>1
<1> DEFINE b == [i \in DOMAIN order |-> LoadedAs(order[i])]
<1>3. S \in SUBSET Events /\ \A e \in S : status[e] = "pending"
  BY DEF Waiting
<1>4. Ids(b) \subseteq S /\ Distinct(b)
  BY <1>3, ClaimedIs
<1>5. batch'[w] = b /\ \A z \in Workers \ {w} : batch'[z] = batch[z]
  BY <1>2 DEF TypeOK
<1> HIDE DEF b
<1>6. UNCHANGED <<expired, overdue, stale>>
  BY DEF Claim
<1>7. ASSUME NEW z \in Workers, NEW e \in Ids(batch[z]) PROVE e \in Events
  BY IdsAreEvents DEF TypeOK
<1>8. ASSUME NEW z \in Workers, NEW e \in Ids(batch[z]), e \in S PROVE e \in overdue
  BY <1>3, <1>8 DEF ClaimInv, HeldOK
<1>9. HeldOK(w)'
  BY <1>1, <1>3, <1>4, <1>5, <1>6 DEF ClaimInv, HeldOK
<1>10. ASSUME NEW z \in Workers, z # w PROVE HeldOK(z)'
  BY <1>1, <1>5, <1>6, <1>7, <1>10 DEF ClaimInv, HeldOK
<1>11. ASSUME NEW y \in Workers, NEW z \in Workers, y # z
       PROVE  Ids(batch'[y]) \intersect Ids(batch'[z]) \subseteq overdue'
  BY <1>4, <1>5, <1>6, <1>8, <1>11 DEF ClaimInv
<1> QED
  BY <1>6, <1>9, <1>10, <1>11 DEF ClaimInv

LEMMA HoldersStay ==
  ASSUME TypeOK, WorkerInv, ClaimInv, Next
  PROVE  ClaimInv'
<1>1. ASSUME NEW e \in Events, BackoffEnds(e) \/ ClaimExpires(e) PROVE ClaimInv'
  <2>1. HoldsNoMore
    BY <1>1 DEF BackoffEnds, ClaimExpires, worker, TypeOK, HoldsNoMore, ClaimInv, HeldOK
  <2> QED
    BY <2>1, ClaimsStay
<1>2. ASSUME NEW e \in Events, Enqueue(e) PROVE ClaimInv'
  <2>1. \A f \in Events : status[f] = "claimed" => status'[f] = "claimed"
    BY <1>2 DEF Enqueue, TypeOK
  <2>2. \A z \in Workers : Ids(batch[z]) \subseteq Events
    BY IdsAreEvents DEF TypeOK
  <2>3. HoldsNoMore
    BY <1>2, <2>1, <2>2 DEF Enqueue, worker, HoldsNoMore, ClaimInv, HeldOK
  <2> QED
    BY <2>3, ClaimsStay
<1>b. ASSUME NEW b \in Bindings, RaiseLimit(b) PROVE ClaimInv'
  <2>1. HoldsNoMore
    BY <1>b DEF RaiseLimit, rows, worker, HoldsNoMore, ClaimInv, HeldOK
  <2> QED
    BY <2>1, ClaimsStay
<1> SUFFICES ASSUME NEW w \in Workers, Running(w) \/ HandlerFails(w) \/ Crash(w) PROVE ClaimInv'
  BY <1>1, <1>2, <1>b DEF Next
<1>3. CASE ReadStale(w)
  <2>1. StaleRows \subseteq overdue
    BY DEF StaleRows, ClaimInv
  <2>2. HoldsNoMore
    BY <1>3, <2>1 DEF ReadStale, rows, TypeOK, HoldsNoMore, ClaimInv, HeldOK
  <2> QED
    BY <2>2, ClaimsStay
<1>4. CASE Reclaim(w)
  <2>1. \A z \in Workers : Ids(batch[z]) \subseteq Events
    BY IdsAreEvents DEF TypeOK
  <2>2. HoldsNoMore
    BY <1>4, <2>1 DEF Reclaim, TypeOK, HoldsNoMore, ClaimInv, HeldOK
  <2> QED
    BY <2>2, ClaimsStay
<1>5. CASE Claim(w)
  BY <1>5, ClaimTakes
<1>6. CASE StartHandler(w)
  <2>1. batch[w] # <<>> /\ batch[w] \in Seq(Loaded)
    BY <1>6 DEF StartHandler, WorkerInv, WorkerOK, Busy, TypeOK
  <2>2. batch'[w] = <<Read(w)>> \o Tail(batch[w]) /\ \A z \in Workers \ {w} : batch'[z] = batch[z]
    BY <1>6 DEF StartHandler, TypeOK
  <2>3. Ids(batch'[w]) = Ids(batch[w]) /\ (Distinct(batch[w]) => Distinct(batch'[w]))
    BY <2>1, <2>2, ReadIs, RefreshedIs DEF Ev
  <2>4. UNCHANGED <<status, stale, expired, overdue>>
    BY <1>6 DEF StartHandler, rows
  <2>5. HoldsNoMore
    BY <2>2, <2>3, <2>4 DEF HoldsNoMore, ClaimInv, HeldOK
  <2> QED
    BY <2>5, ClaimsStay
<1>7. CASE ReclaimRejected(w) \/ CutOff(w) \/ Notify(w) \/ CommitHandler(w)
  <2>1. HoldsNoMore
    BY <1>7 DEF ReclaimRejected, CutOff, Notify, CommitHandler, rows, TypeOK, HoldsNoMore, ClaimInv, HeldOK
  <2> QED
    BY <2>1, ClaimsStay
<1>8. CASE Complete(w)
  <2>1. batch[w] # <<>> /\ Tail(batch[w]) \in Seq(Loaded)
    BY <1>8, HeadIs DEF Complete, WorkerInv, WorkerOK, Busy, TypeOK
  <2>2. /\ batch' = [batch EXCEPT ![w] = Tail(batch[w])] /\ UNCHANGED <<expired, overdue>>
        /\ \A e \in Events \ {Ev(w)} : status'[e] = status[e]
        /\ \A e \in Events : stale'[e] => stale[e]
    BY <1>8 DEF Complete, NextEvent, TypeOK
  <2> QED
    BY <2>1, <2>2, HeadLeaves, ClaimsStay
<1>9. CASE NoHandler(w) \/ HandlerFails(w)
  <2>1. PICK counted \in 0..MaxAttempts, others \in Seq(Loaded) :
          /\ batch[w] # <<>> /\ Retry(w, counted, others)
          /\ Ids(others) = Ids(Tail(batch[w]))
          /\ Distinct(Tail(batch[w])) => Distinct(others)
    BY <1>9, RetryCases
  <2>2. CASE Killed(w) /\ UNCHANGED rows
    <3>1. HoldsNoMore
      BY <2>1, <2>2, NothingHeld DEF Killed, Retry, rows, TypeOK, HoldsNoMore, ClaimInv, HeldOK
    <3> QED
      BY <3>1, ClaimsStay
  <2>3. CASE ~(Killed(w) /\ UNCHANGED rows)
    <3>1. /\ batch' = [batch EXCEPT ![w] = others] /\ UNCHANGED <<expired, overdue>>
          /\ \A e \in Events \ {Ev(w)} : status'[e] = status[e]
          /\ \A e \in Events : stale'[e] => stale[e]
      BY <2>1, <2>3 DEF Retry, NextEvent, TypeOK
    <3> QED
      BY <2>1, <3>1, HeadLeaves, ClaimsStay
  <2> QED
    BY <2>2, <2>3
<1>10. CASE Crash(w)
  <2>1. HoldsNoMore
    BY <1>10, NothingHeld DEF Crash, Killed, rows, TypeOK, HoldsNoMore, ClaimInv, HeldOK
  <2> QED
    BY <2>1, ClaimsStay
<1> QED
  BY <1>3, <1>4, <1>5, <1>6, <1>7, <1>8, <1>9, <1>10 DEF Running

-----------------------------------------------------------------------------
(* Together.                                                               *)

LEMMA OutboxStarts == Init => OutboxInv
<1> SUFFICES ASSUME Init PROVE OutboxInv
  OBVIOUS
<1>1. TypeOK
  BY OutboxAssumption DEF Init, TypeOK, Statuses
<1>2. CutInv /\ DoneMeansDelivered
  BY DEF Init, CutInv, DoneMeansDelivered
<1>3. WorkerInv
  BY DEF Init, WorkerInv, WorkerOK, Busy
<1>4. ClaimInv
  BY DEF Init, ClaimInv, HeldOK, Ids, Distinct
<1> QED
  BY <1>1, <1>2, <1>3, <1>4 DEF OutboxInv

LEMMA OutboxStays == OutboxInv /\ [Next]_vars => OutboxInv'
<1> SUFFICES ASSUME OutboxInv, [Next]_vars PROVE OutboxInv'
  OBVIOUS
<1>1. CASE Next
  BY <1>1, TypesStay, SuspensionsStay, DeliveriesStay, PositionsStay, HoldersStay DEF OutboxInv
<1>2. CASE UNCHANGED vars
  <2>1. TypeOK' /\ CutInv' /\ DoneMeansDelivered'
    BY <1>2 DEF OutboxInv, TypeOK, CutInv, DoneMeansDelivered, CutBefore, vars, rows, world, worker
  <2>2. WorkerInv' /\ ClaimInv'
    BY <1>2 DEF OutboxInv, WorkerInv, WorkerOK, ClaimInv, HeldOK, Ev, vars, rows, world, worker
  <2> QED
    BY <2>1, <2>2 DEF OutboxInv
<1> QED
  BY <1>1, <1>2

LEMMA OutboxAlways == Spec => []OutboxInv
<1> QED
  BY OutboxStarts, OutboxStays, PTL DEF Spec

LEMMA HeldByOne == OutboxInv => SharedOnlyWhenOverdue
<1> SUFFICES ASSUME OutboxInv, NEW e \in Events, e \notin overdue
             PROVE  ~(Cardinality(Holders(e)) > 1)
  BY DEF SharedOnlyWhenOverdue
<1>1. \A w \in Holders(e) : w \in Workers /\ e \in Ids(batch[w])
  BY DEF Holders, Ids, OutboxInv, TypeOK
<1>2. \A w, z \in Holders(e) : w = z
  BY <1>1 DEF OutboxInv, ClaimInv
<1>3. Holders(e) = {} \/ \E w : Holders(e) = {w}
  BY <1>2
<1>4. Cardinality(Holders(e)) \in {0, 1}
  BY <1>3, FS_EmptySet, FS_Singleton
<1> QED
  BY <1>4

(* The columns, the workers' batches and positions have their types.       *)
THEOREM OutboxTypes == Spec => []TypeOK
<1>1. OutboxInv => TypeOK
  BY DEF OutboxInv
<1> QED
  BY <1>1, OutboxAlways, PTL

(* complete() after a handler that came to its end, by whichever worker:   *)
(* a row that is done has been delivered, on the panel and on Telegram.    *)
THEOREM DoneIsDelivered == Spec => []DoneMeansDelivered
<1>1. OutboxInv => DoneMeansDelivered
  BY DEF OutboxInv
<1> QED
  BY <1>1, OutboxAlways, PTL

(* handle_billing_hold(): no binding is suspended whose admin can still    *)
(* sell traffic on the panel, unless its organization owns the panel and   *)
(* has taken the limit away (web_set_admin_limit).                         *)
THEOREM SuspensionsAreCutOff == Spec => []SuspendedIsCutOff
<1>1. OutboxInv => SuspendedIsCutOff
  BY DEF OutboxInv, TypeOK, CutInv, SuspendedIsCutOff, CutBefore
<1> QED
  BY <1>1, OutboxAlways, PTL

(* claim() and reclaim_stale(): two workers hold a row at once only when a *)
(* claim on it has grown stale.                                            *)
THEOREM ClaimsAreExclusive == Spec => []SharedOnlyWhenOverdue
<1> QED
  BY HeldByOne, OutboxAlways, PTL
LEMMA DoneLeft ==
  ASSUME OutboxInv, Next, NEW e \in Events, status[e] = "done", status'[e] # "done"
  PROVE  e \in overdue
<1> USE DEF OutboxInv
<1>1. ASSUME NEW w \in Workers, NoHandler(w) \/ HandlerFails(w) PROVE e \in overdue
  <2>1. PICK counted \in 0..MaxAttempts, others \in Seq(Loaded) :
          batch[w] # <<>> /\ Retry(w, counted, others)
    BY <1>1, RetryCases
  <2>2. Ev(w) \in Ids(batch[w])
    BY <2>1, HeadIs DEF TypeOK, Ev
  <2>3. e = Ev(w)
    BY <2>1 DEF Retry, rows, TypeOK
  <2> QED
    BY <2>2, <2>3 DEF ClaimInv, HeldOK
<1>2. ASSUME NEW w \in Workers, Reclaim(w) PROVE e \in overdue
  <2>1. e \in expired[w]
    BY <1>2 DEF Reclaim
  <2> QED
    BY <2>1 DEF ClaimInv, HeldOK
<1>3. ASSUME NEW w \in Workers, Claim(w) PROVE FALSE
  <2>1. PICK S \in SUBSET Waiting :
          status' = [f \in Events |-> IF f \in S THEN "claimed" ELSE status[f]]
    BY <1>3 DEF Claim
  <2> QED
    BY <2>1 DEF Waiting
<1>5. ASSUME NEW w \in Workers, Complete(w) PROVE FALSE
  BY <1>5 DEF Complete, TypeOK
<1>4. ASSUME NEW f \in Events, Enqueue(f) PROVE FALSE
  BY <1>4 DEF Enqueue, TypeOK
<1> QED
  BY <1>1, <1>2, <1>3, <1>4, <1>5 DEF Next, Running, BackoffEnds, ClaimExpires, ReadStale, ReclaimRejected,
     StartHandler, CutOff, Notify, CommitHandler, Crash, RaiseLimit, rows

(* complete(), retry() and reclaim_stale() of several workers: a row that  *)
(* is done is delivered again only when a claim on it has grown stale.     *)
THEOREM DoneStays == Spec => DoneStaysUnlessOverdue
<1>1. OutboxInv /\ [Next]_vars =>
        [\A e \in Events : status[e] = "done" /\ status'[e] # "done" => e \in overdue]_vars
  BY DoneLeft DEF vars, rows
<1> QED
  BY <1>1, OutboxAlways, PTL DEF Spec, DoneStaysUnlessOverdue
=============================================================================
