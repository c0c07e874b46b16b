---------------------------- MODULE GatewayProofs ----------------------------
(***************************************************************************)
(* Safety of the gateway, the stream and the consumer group for every      *)
(* number of updates, consumers and faults, every batch size and every     *)
(* length the stream is trimmed to.                                        *)
(***************************************************************************)
EXTENDS Gateway, TLAPS

(* What a mark stands for.                                                 *)
MarkedIsQueued ==
  \A u \in told \union marks : Queued(u) \/ hook[u] # "idle" \/ u \in cursed

(* A request that runs has its mark; an update that is in the stream and   *)
(* may be queued again was written by a call that was reported as failed.  *)
HookHolds == \A u \in Updates :
  /\ hook[u] # "idle" => u \in marks
  /\ Queued(u) /\ (hook[u] # "idle" \/ u \notin marks) => u \in doubled

WebInv == MarkedIsQueued /\ HookHolds /\ QueuedOnce
GroupInv == EachEntryOnce /\ missed \subseteq 1..cursor
QInv == QueueTypeOK /\ WebInv /\ GroupInv

-----------------------------------------------------------------------------
(* The stream and the cursor.                                              *)

LEMMA QueuedWhere ==
  ASSUME NEW u PROVE Queued(u) <=> \E i \in 1..Len(stream) : stream[i] = u
BY DEF Queued, Entries

(* After an XADD.                                                          *)
LEMMA ExtendStream ==
  ASSUME QueueTypeOK, NEW u \in Updates, Extend(u)
  PROVE  /\ stream' \in Seq(Updates)
         /\ trimmed' \in 0..Len(stream')
         /\ Len(stream') = Len(stream) + 1
         /\ \A i \in 1..Len(stream) : stream'[i] = stream[i]
         /\ stream'[Len(stream) + 1] = u
         /\ \A w : Queued(w)' <=> (Queued(w) \/ w = u)
         /\ UNCHANGED <<cursor, batch, acked, handled, missed>>
<1>1. stream \in Seq(Updates) /\ Len(stream) \in Nat /\ trimmed \in 0..Len(stream)
  BY DEF QueueTypeOK
<1>2. stream' = Append(stream, u)
  BY DEF Extend
<1>3. stream' \in Seq(Updates) /\ Len(stream') = Len(stream) + 1
  BY <1>1, <1>2
<1>4. /\ \A i \in 1..Len(stream) : stream'[i] = stream[i]
      /\ stream'[Len(stream) + 1] = u
  BY <1>1, <1>2
<1>5. trimmed' \in 0..Len(stream')
  <2>1. trimmed' = trimmed \/ trimmed' \in 1..Len(stream)
    BY DEF Extend, Entries
  <2> QED
    BY <1>1, <1>3, <2>1
<1>6. ASSUME NEW w PROVE Queued(w)' <=> (Queued(w) \/ w = u)
  <2>1. Queued(w)' <=> \E i \in 1..Len(stream') : stream'[i] = w
    BY DEF Queued, Entries
  <2>2. 1..Len(stream') = 1..Len(stream) \union {Len(stream) + 1}
    BY <1>1, <1>3
  <2> QED
    BY <2>1, <2>2, <1>4, QueuedWhere
<1> QED
  BY <1>3, <1>4, <1>5, <1>6 DEF Extend

(* What xreadgroup gives.                                                  *)
LEMMA Delivery ==
  ASSUME QueueTypeOK, Ahead # {}
  PROVE  /\ First \in Nat /\ Last \in Nat /\ cursor <= First /\ First < Last /\ Last <= Len(stream)
         /\ Last - First \in Nat
<1>1. /\ Len(stream) \in Nat /\ trimmed \in 0..Len(stream) /\ cursor \in 0..Len(stream)
      /\ BatchSize \in Nat /\ BatchSize > 0
  BY GatewayAssumption DEF QueueTypeOK
<1>2. PICK i \in 1..Len(stream) : cursor < i /\ trimmed < i
  BY DEF Ahead, Entries
<1>3. First \in Nat /\ cursor <= First /\ First < Len(stream)
  BY <1>1, <1>2 DEF First
<1>4. Last \in Nat /\ First < Last /\ Last <= Len(stream)
  BY <1>1, <1>3 DEF Last
<1> QED
  BY <1>3, <1>4

-----------------------------------------------------------------------------
(* The webhook.                                                            *)

LEMMA WebTypes ==
  ASSUME QueueTypeOK, NEW u \in Updates, Webhook(u)
  PROVE  QueueTypeOK' /\ (missed' = missed /\ handled' = handled /\ acked' = acked
                          /\ batch' = batch /\ cursor' = cursor)
<1>0. hook \in [Updates -> {"idle", "queueing", "freeing"}]
  BY DEF QueueTypeOK
<1>1. hook' \in [Updates -> {"idle", "queueing", "freeing"}]
  BY <1>0 DEF Webhook, Post, Mark, Duplicate, Queue, Free, MarkFails, QueueFails, FreeFails, Abandon, Go
<1>2. /\ told' \subseteq Updates /\ marks' \subseteq Updates
      /\ cursed' \subseteq Updates /\ doubled' \subseteq Updates
  BY DEF QueueTypeOK, Webhook, Post, Mark, Duplicate, Queue, Free, MarkFails, QueueFails, FreeFails, Abandon
<1>3. faults' \in 0..MaxFaults
  <2>1. faults' = faults \/ Fault
    BY DEF Webhook, Post, Mark, Duplicate, Queue, Free, MarkFails, QueueFails, FreeFails, Abandon
  <2> QED
    BY <2>1, GatewayAssumption DEF QueueTypeOK, Fault
<1>4. UNCHANGED <<stream, groupVars>> \/ Extend(u)
  BY DEF Webhook, Post, Mark, Duplicate, Queue, Free, MarkFails, QueueFails, FreeFails, Abandon
<1>5. /\ stream' \in Seq(Updates) /\ trimmed' \in 0..Len(stream') /\ cursor' \in 0..Len(stream')
      /\ UNCHANGED <<cursor, batch, acked, handled, missed>>
  <2>1. CASE UNCHANGED <<stream, groupVars>>
    BY <2>1 DEF groupVars, QueueTypeOK
  <2>2. CASE Extend(u)
    <3>1. Len(stream) \in Nat /\ cursor \in 0..Len(stream)
      BY DEF QueueTypeOK
    <3> QED
      BY <2>2, <3>1, ExtendStream
  <2> QED
    BY <1>4, <2>1, <2>2
<1> QED
  BY <1>1, <1>2, <1>3, <1>5 DEF QueueTypeOK

(* A step that adds nothing to the stream leaves what is queued.           *)
LEMMA SameStream ==
  ASSUME UNCHANGED stream
  PROVE  (\A w : Queued(w)' <=> Queued(w)) /\ (QueuedOnce /\ doubled \subseteq doubled' => QueuedOnce')
BY DEF Queued, Entries, QueuedOnce

LEMMA ExtendOnce ==
  ASSUME QueueTypeOK, QueuedOnce, NEW u \in Updates, Extend(u), doubled \subseteq doubled',
         Queued(u) => u \in doubled'
  PROVE  QueuedOnce'
<1> SUFFICES ASSUME NEW i \in 1..Len(stream'), NEW j \in 1..Len(stream'), i # j, stream'[i] = stream'[j]
             PROVE  stream'[i] \in doubled'
  BY DEF QueuedOnce, Entries
<1>1. Len(stream) \in Nat /\ Len(stream') = Len(stream) + 1
  BY ExtendStream DEF QueueTypeOK
<1>2. \A n \in 1..Len(stream') : n \in 1..Len(stream) \/ n = Len(stream) + 1
  BY <1>1
<1>3. /\ \A n \in 1..Len(stream) : stream'[n] = stream[n]
      /\ stream'[Len(stream) + 1] = u
  BY ExtendStream
<1>4. CASE i \in 1..Len(stream) /\ j \in 1..Len(stream)
  BY <1>3, <1>4 DEF QueuedOnce, Entries
<1>5. CASE i = Len(stream) + 1 \/ j = Len(stream) + 1
  <2>1. stream'[i] = u /\ Queued(u)
    BY <1>2, <1>3, <1>5, QueuedWhere
  <2> QED
    BY <2>1
<1> QED
  BY <1>2, <1>4, <1>5

LEMMA WebStep ==
  ASSUME QueueTypeOK, WebInv, NEW u \in Updates, Webhook(u)
  PROVE  WebInv'
<1>0. hook \in [Updates -> {"idle", "queueing", "freeing"}]
  BY DEF QueueTypeOK
<1> USE DEF WebInv
<1>a. ASSUME UNCHANGED stream, doubled' = doubled
      PROVE  QueuedOnce' /\ \A w : Queued(w)' <=> Queued(w)
  BY <1>a, SameStream
<1>1. CASE Mark(u)
  <2>1. \A w : Queued(w)' <=> Queued(w)
    BY <1>1, <1>a DEF Mark
  <2> QED
    BY <1>0, <1>1, <1>a, <2>1 DEF Mark, Go, MarkedIsQueued, HookHolds
<1>2. CASE Duplicate(u)
  BY <1>0, <1>2, <1>a DEF Duplicate, MarkedIsQueued, HookHolds
<1>3. CASE MarkFails(u)
  BY <1>0, <1>3, <1>a DEF MarkFails, MarkedIsQueued, HookHolds
<1>4. CASE Queue(u)
  <2>1. \A w : Queued(w)' <=> (Queued(w) \/ w = u)
    BY <1>4, ExtendStream DEF Queue
  <2>2. u \in marks /\ (Queued(u) => u \in doubled)
    BY <1>4 DEF Queue, HookHolds
  <2>3. QueuedOnce'
    BY <1>4, <2>2, ExtendOnce DEF Queue
  <2> QED
    BY <1>0, <1>4, <2>1, <2>2, <2>3 DEF Queue, Go, MarkedIsQueued, HookHolds
<1>5. CASE QueueFails(u)
  <2>2. u \in marks /\ (Queued(u) => u \in doubled)
    BY <1>5 DEF QueueFails, HookHolds
  <2>3. CASE Extend(u) /\ doubled' = doubled \union {u}
    <3>1. \A w : Queued(w)' <=> (Queued(w) \/ w = u)
      BY <2>3, ExtendStream
    <3>2. QueuedOnce'
      BY <2>2, <2>3, ExtendOnce
    <3> QED
      BY <1>0, <1>5, <2>2, <2>3, <3>1, <3>2 DEF QueueFails, Go, MarkedIsQueued, HookHolds
  <2>4. CASE UNCHANGED <<stream, groupVars, doubled>>
    <3>1. QueuedOnce' /\ \A w : Queued(w)' <=> Queued(w)
      BY <1>a, <2>4
    <3> QED
      BY <1>0, <1>5, <2>2, <2>4, <3>1 DEF QueueFails, Go, MarkedIsQueued, HookHolds
  <2> QED
    BY <1>5, <2>3, <2>4 DEF QueueFails
<1>6. CASE Free(u)
  <2>1. QueuedOnce' /\ \A w : Queued(w)' <=> Queued(w)
    BY <1>6, <1>a DEF Free
  <2>2. u \in marks /\ (Queued(u) => u \in doubled)
    BY <1>6 DEF Free, HookHolds
  <2>3. MarkedIsQueued'
    BY <1>0, <1>6, <2>1 DEF Free, Go, MarkedIsQueued
  <2> QED
    BY <1>0, <1>6, <2>1, <2>2, <2>3 DEF Free, Go, HookHolds
<1>7. CASE FreeFails(u)
  <2>1. QueuedOnce' /\ \A w : Queued(w)' <=> Queued(w)
    BY <1>7, <1>a DEF FreeFails
  <2> QED
    BY <1>0, <1>7, <2>1 DEF FreeFails, Go, MarkedIsQueued, HookHolds
<1>8. CASE Abandon(u)
  <2>1. QueuedOnce' /\ \A w : Queued(w)' <=> Queued(w)
    BY <1>8, <1>a DEF Abandon
  <2> QED
    BY <1>0, <1>8, <2>1 DEF Abandon, Go, MarkedIsQueued, HookHolds
<1> QED
  BY <1>1, <1>2, <1>3, <1>4, <1>5, <1>6, <1>7, <1>8 DEF Webhook, Post

LEMMA WebGroup ==
  ASSUME QueueTypeOK, GroupInv, NEW u \in Updates, Webhook(u)
  PROVE  GroupInv'
<1>1. UNCHANGED <<cursor, batch, acked, handled, missed>>
  BY WebTypes
<1>2. \A c \in Consumers : InHand(c)' = InHand(c)
  BY <1>1 DEF InHand
<1> QED
  BY <1>1, <1>2 DEF GroupInv, EachEntryOnce

-----------------------------------------------------------------------------
(* The consumers.                                                          *)

(* An entry leaves the hand of its consumer.                               *)
LEMMA TailOfHand ==
  ASSUME QueueTypeOK, EachEntryOnce, NEW c \in Consumers, batch[c] # <<>>, Done(c)
  PROVE  /\ batch' \in [Consumers -> Seq(Nat)]
         /\ Current(c) \in InHand(c)
         /\ InHand(c)' \subseteq InHand(c) \ {Current(c)}
         /\ \A m, n \in DOMAIN batch'[c] : m < n => batch'[c][m] < batch'[c][n]
         /\ \A d \in Consumers \ {c} : batch'[d] = batch[d] /\ InHand(d)' = InHand(d)
<1> DEFINE s == batch[c]
<1>1. batch \in [Consumers -> Seq(Nat)] /\ s \in Seq(Nat) /\ s # <<>>
  BY DEF QueueTypeOK
<1>2. /\ Tail(s) \in Seq(Nat) /\ Len(s) \in Nat \ {0} /\ Len(Tail(s)) = Len(s) - 1
      /\ \A n \in 1..Len(s) - 1 : Tail(s)[n] = s[n + 1]
  BY <1>1
<1>3. DOMAIN s = 1..Len(s) /\ DOMAIN Tail(s) = 1..Len(s) - 1 /\ Head(s) = s[1]
  BY <1>1, <1>2
<1>4. batch' = [batch EXCEPT ![c] = Tail(s)]
  BY <1>1 DEF Done
<1>5. \A m, n \in DOMAIN s : m < n => s[m] < s[n]
  BY DEF EachEntryOnce
<1>6. batch'[c] = Tail(s) /\ \A d \in Consumers \ {c} : batch'[d] = batch[d]
  BY <1>1, <1>4
<1>7. Current(c) = s[1] /\ Current(c) \in InHand(c)
  BY <1>2, <1>3 DEF Current, InHand
<1>8. InHand(c)' = {Tail(s)[n] : n \in 1..Len(s) - 1}
  BY <1>3, <1>6 DEF InHand
<1>9. ASSUME NEW n \in 1..Len(s) - 1
      PROVE  Tail(s)[n] \in InHand(c) /\ Tail(s)[n] # Current(c)
  <2>1. n + 1 \in DOMAIN s /\ 1 \in DOMAIN s /\ 1 < n + 1
    BY <1>2, <1>3, <1>9
  <2>2. s[1] < s[n + 1] /\ s[n + 1] \in Nat /\ s[1] \in Nat
    BY <1>1, <1>5, <2>1
  <2>3. s[1] # s[n + 1]
    BY <2>2
  <2> QED
    BY <1>2, <1>7, <2>1, <2>3 DEF InHand
<1>10. ASSUME NEW m \in 1..Len(s) - 1, NEW n \in 1..Len(s) - 1, m < n
       PROVE  Tail(s)[m] < Tail(s)[n]
  <2>1. m + 1 \in DOMAIN s /\ n + 1 \in DOMAIN s /\ m + 1 < n + 1
    BY <1>2, <1>3, <1>10
  <2> QED
    BY <1>2, <1>5, <2>1
<1> HIDE DEF s
<1>11. InHand(c)' \subseteq InHand(c) \ {Current(c)}
  BY <1>8, <1>9
<1>12. \A m, n \in DOMAIN batch'[c] : m < n => batch'[c][m] < batch'[c][n]
  BY <1>3, <1>6, <1>10
<1>13. batch' \in [Consumers -> Seq(Nat)]
  BY <1>1, <1>2, <1>4
<1>14. \A d \in Consumers \ {c} : InHand(d)' = InHand(d)
  BY <1>6 DEF InHand
<1> QED
  BY <1>6, <1>7, <1>11, <1>12, <1>13, <1>14

(* What Finish, AckFails and Raise have in common.                         *)
LEMMA DoneKeeps ==
  ASSUME QueueTypeOK, GroupInv, NEW c \in Consumers, batch[c] # <<>>, Done(c), cursor' = cursor,
         handled' \subseteq handled \union {Current(c)}, missed' \subseteq missed \union {Current(c)}
  PROVE  /\ \A d \in Consumers :
              /\ InHand(d)' \subseteq 1..cursor' \ (handled' \union missed')
              /\ \A m, n \in DOMAIN batch'[d] : m < n => batch'[d][m] < batch'[d][n]
              /\ \A e \in Consumers \ {d} : InHand(d)' \intersect InHand(e)' = {}
         /\ handled' \subseteq 1..cursor' /\ missed' \subseteq 1..cursor'
         /\ batch' \in [Consumers -> Seq(Nat)] /\ Current(c) \in 1..cursor
<1>1. EachEntryOnce /\ missed \subseteq 1..cursor
  BY DEF GroupInv
<1>2. /\ batch' \in [Consumers -> Seq(Nat)]
      /\ Current(c) \in InHand(c)
      /\ InHand(c)' \subseteq InHand(c) \ {Current(c)}
      /\ \A m, n \in DOMAIN batch'[c] : m < n => batch'[c][m] < batch'[c][n]
      /\ \A d \in Consumers \ {c} : batch'[d] = batch[d] /\ InHand(d)' = InHand(d)
  BY <1>1, TailOfHand
<1>3. /\ \A d \in Consumers :
           /\ InHand(d) \subseteq 1..cursor \ (handled \union missed)
           /\ \A m, n \in DOMAIN batch[d] : m < n => batch[d][m] < batch[d][n]
           /\ \A e \in Consumers \ {d} : InHand(d) \intersect InHand(e) = {}
      /\ handled \subseteq 1..cursor
  BY <1>1 DEF EachEntryOnce
<1>4. Current(c) \in 1..cursor
  BY <1>2, <1>3
<1>5. \A d \in Consumers : InHand(d)' \subseteq InHand(d) \ {Current(c)}
  <2>1. \A d \in Consumers \ {c} : Current(c) \notin InHand(d)
    BY <1>2, <1>3
  <2> QED
    BY <1>2, <2>1
<1>6. \A d \in Consumers : InHand(d)' \subseteq 1..cursor' \ (handled' \union missed')
  BY <1>3, <1>5
<1>7. \A d \in Consumers : \A m, n \in DOMAIN batch'[d] : m < n => batch'[d][m] < batch'[d][n]
  <2> SUFFICES ASSUME NEW d \in Consumers
               PROVE  \A m, n \in DOMAIN batch'[d] : m < n => batch'[d][m] < batch'[d][n]
    OBVIOUS
  <2>1. CASE d = c
    BY <1>2, <2>1
  <2>2. CASE d # c
    <3>1. batch'[d] = batch[d]
      BY <1>2, <2>2
    <3> QED
      BY <1>3, <3>1
  <2> QED
    BY <2>1, <2>2
<1>8. \A d \in Consumers : \A e \in Consumers \ {d} : InHand(d)' \intersect InHand(e)' = {}
  BY <1>3, <1>5
<1>9. handled' \subseteq 1..cursor' /\ missed' \subseteq 1..cursor'
  BY <1>1, <1>3, <1>4
<1> QED
  BY <1>2, <1>4, <1>6, <1>7, <1>8, <1>9

(* A step of the group leaves the webhook and the stream alone.            *)
LEMMA ConsumeWeb ==
  ASSUME QueueTypeOK, WebInv, NEW c \in Consumers, Consume(c)
  PROVE  WebInv'
<1>1. UNCHANGED <<webVars, stream>>
  BY DEF Consume, Read, ReadLost, Finish, AckFails, Raise, Die
<1>2. QueuedOnce' /\ \A w : Queued(w)' <=> Queued(w)
  BY <1>1, SameStream DEF webVars, WebInv
<1> QED
  BY <1>1, <1>2 DEF webVars, WebInv, MarkedIsQueued, HookHolds

LEMMA ConsumeTypes ==
  ASSUME QueueTypeOK, GroupInv, NEW c \in Consumers, Consume(c)
  PROVE  QueueTypeOK'
<1>1. UNCHANGED <<webVars, stream, trimmed>>
  BY DEF Consume, Read, ReadLost, Finish, AckFails, Raise, Die
<1>2. faults' \in 0..MaxFaults
  <2>1. faults' = faults \/ Fault
    BY DEF Consume, Read, ReadLost, Finish, AckFails, Raise, Die
  <2> QED
    BY <2>1, GatewayAssumption DEF QueueTypeOK, Fault
<1>3. /\ cursor' \in 0..Len(stream)
      /\ batch' \in [Consumers -> Seq(Nat)]
      /\ acked' \subseteq Nat /\ handled' \subseteq Nat /\ missed' \subseteq Nat
  <2>1. /\ batch \in [Consumers -> Seq(Nat)] /\ cursor \in 0..Len(stream) /\ Len(stream) \in Nat
        /\ acked \subseteq Nat /\ handled \subseteq Nat /\ missed \subseteq Nat
    BY DEF QueueTypeOK
  <2>2. CASE Read(c)
    <3>1. First \in Nat /\ Last \in Nat /\ Last <= Len(stream) /\ Last - First \in Nat
      BY <2>2, Delivery DEF Read
    <3>2. [n \in 1..(Last - First) |-> First + n] \in Seq(Nat)
      BY <3>1
    <3> QED
      BY <2>1, <2>2, <3>1, <3>2 DEF Read
  <2>3. CASE ReadLost(c)
    <3>1. Last \in Nat /\ Last <= Len(stream)
      BY <2>3, Delivery DEF ReadLost
    <3> QED
      BY <2>1, <2>3, <3>1 DEF ReadLost
  <2>4. CASE Finish(c) \/ AckFails(c) \/ Raise(c)
    <3>1. /\ batch[c] # <<>> /\ Done(c) /\ cursor' = cursor
          /\ handled' \subseteq handled \union {Current(c)} /\ missed' \subseteq missed \union {Current(c)}
          /\ acked' \subseteq acked \union {Current(c)}
      BY <2>4 DEF Finish, AckFails, Raise
    <3>2. batch' \in [Consumers -> Seq(Nat)] /\ Current(c) \in 1..cursor
      BY <3>1, DoneKeeps
    <3>3. Current(c) \in Nat
      BY <2>1, <3>2
    <3> QED
      BY <2>1, <3>1, <3>2, <3>3
  <2>5. CASE Die(c)
    <3>1. missed' = missed \union InHand(c) /\ batch' = [batch EXCEPT ![c] = <<>>]
          /\ UNCHANGED <<cursor, acked, handled>>
      BY <2>5 DEF Die, InHand
    <3>2. InHand(c) \subseteq 1..cursor
      BY DEF GroupInv, EachEntryOnce
    <3>3. InHand(c) \subseteq Nat
      BY <2>1, <3>2
    <3>4. batch' \in [Consumers -> Seq(Nat)]
      BY <2>1, <3>1
    <3> QED
      BY <2>1, <3>1, <3>3, <3>4
  <2> QED
    BY <2>2, <2>3, <2>4, <2>5 DEF Consume
<1> QED
  BY <1>1, <1>2, <1>3 DEF QueueTypeOK, webVars

(* Entries are given to a consumer for the first time.                     *)
LEMMA ReadGroup ==
  ASSUME QueueTypeOK, GroupInv, NEW c \in Consumers, Read(c)
  PROVE  GroupInv'
<1>1. /\ First \in Nat /\ Last \in Nat /\ cursor <= First /\ First < Last /\ Last - First \in Nat
      /\ cursor \in Nat
  BY Delivery DEF Read, QueueTypeOK
<1> DEFINE given == [n \in 1..(Last - First) |-> First + n]
<1>2. /\ batch' = [batch EXCEPT ![c] = given]
      /\ cursor' = Last /\ missed' = missed \union (cursor + 1 .. First)
      /\ acked' = acked /\ handled' = handled
  BY DEF Read
<1>3. batch \in [Consumers -> Seq(Nat)]
  BY DEF QueueTypeOK
<1>4. batch'[c] = given /\ \A d \in Consumers \ {c} : batch'[d] = batch[d]
  BY <1>2, <1>3
<1>5. InHand(c)' = {given[n] : n \in 1..(Last - First)}
  BY <1>4 DEF InHand
<1>6. InHand(c)' \subseteq 1..Last /\ \A i \in InHand(c)' : i > First
  BY <1>1, <1>5
<1>7. \A d \in Consumers \ {c} : InHand(d)' = InHand(d)
  BY <1>4 DEF InHand
<1>8. /\ \A d \in Consumers :
           /\ InHand(d) \subseteq 1..cursor \ (handled \union missed)
           /\ \A m, n \in DOMAIN batch[d] : m < n => batch[d][m] < batch[d][n]
           /\ \A e \in Consumers \ {d} : InHand(d) \intersect InHand(e) = {}
      /\ acked \subseteq handled /\ handled \subseteq 1..cursor /\ missed \subseteq 1..cursor
      /\ handled = acked \union (handled \intersect missed)
  BY DEF GroupInv, EachEntryOnce
<1>9. \A m, n \in DOMAIN given : m < n => given[m] < given[n]
  BY <1>1
<1> HIDE DEF given
<1>10. \A i \in 1..cursor : i \in 1..Last /\ i \notin cursor + 1..First /\ i \notin InHand(c)'
  BY <1>1, <1>6
<1>11. missed' \subseteq 1..cursor' /\ handled' \subseteq 1..cursor'
  BY <1>1, <1>2, <1>8
<1>12. \A d \in Consumers : InHand(d)' \subseteq 1..cursor' \ (handled' \union missed')
  <2>1. InHand(c)' \intersect (handled' \union missed') = {}
    <3>1. \A i \in missed' : i \in 1..cursor \/ i \in cursor + 1..First
      BY <1>2, <1>8
    <3>2. \A i \in cursor + 1..First : i \notin InHand(c)'
      BY <1>1, <1>6
    <3> QED
      BY <1>2, <1>8, <1>10, <3>1, <3>2
  <2>2. \A d \in Consumers \ {c} : InHand(d)' \subseteq 1..cursor' \ (handled' \union missed')
    BY <1>2, <1>7, <1>8, <1>10
  <2> QED
    BY <1>2, <1>6, <2>1, <2>2
<1>13. \A d \in Consumers : \A m, n \in DOMAIN batch'[d] : m < n => batch'[d][m] < batch'[d][n]
  <2> SUFFICES ASSUME NEW d \in Consumers
               PROVE  \A m, n \in DOMAIN batch'[d] : m < n => batch'[d][m] < batch'[d][n]
    OBVIOUS
  <2>1. CASE d = c
    BY <1>4, <1>9, <2>1
  <2>2. CASE d # c
    <3>1. batch'[d] = batch[d]
      BY <1>4, <2>2
    <3> QED
      BY <1>8, <3>1
  <2> QED
    BY <2>1, <2>2
<1>14. \A d \in Consumers : \A e \in Consumers \ {d} : InHand(d)' \intersect InHand(e)' = {}
  <2>1. \A d \in Consumers \ {c} : InHand(d)' \intersect InHand(c)' = {}
    BY <1>7, <1>8, <1>10
  <2> QED
    BY <1>7, <1>8, <2>1
<1>15. /\ acked' \subseteq handled'
       /\ handled' = acked' \union (handled' \intersect missed')
  <2>1. handled \intersect (cursor + 1..First) = {}
    BY <1>8, <1>10
  <2> QED
    BY <1>2, <1>8, <2>1
<1> QED
  BY <1>11, <1>12, <1>13, <1>14, <1>15 DEF GroupInv, EachEntryOnce

LEMMA ConsumeGroup ==
  ASSUME QueueTypeOK, GroupInv, NEW c \in Consumers, Consume(c)
  PROVE  GroupInv'
<1>0. /\ acked \subseteq handled /\ handled \subseteq 1..cursor /\ missed \subseteq 1..cursor
      /\ handled = acked \union (handled \intersect missed)
  BY DEF GroupInv, EachEntryOnce
<1>1. CASE Read(c)
  BY <1>1, ReadGroup
<1>2. CASE ReadLost(c)
  <2>1. /\ Last \in Nat /\ cursor < Last /\ cursor \in Nat
        /\ cursor' = Last /\ missed' = missed \union (cursor + 1 .. Last)
        /\ UNCHANGED <<batch, acked, handled>>
    BY <1>2, Delivery DEF ReadLost, QueueTypeOK
  <2>2. \A d \in Consumers : InHand(d)' = InHand(d)
    BY <2>1 DEF InHand
  <2>3. \A i \in 1..cursor : i \in 1..Last /\ i \notin cursor + 1..Last
    BY <2>1
  <2>4. missed' \subseteq 1..cursor' /\ handled' \subseteq 1..cursor'
    BY <1>0, <2>1
  <2>5. handled' = acked' \union (handled' \intersect missed')
    BY <1>0, <2>1, <2>3
  <2>6. \A d \in Consumers : InHand(d)' \subseteq 1..cursor' \ (handled' \union missed')
    BY <2>1, <2>2, <2>3 DEF GroupInv, EachEntryOnce
  <2> QED
    BY <2>1, <2>2, <2>4, <2>5, <2>6 DEF GroupInv, EachEntryOnce
<1>3. ASSUME batch[c] # <<>>, Done(c), cursor' = cursor,
             handled' \subseteq handled \union {Current(c)}, missed' \subseteq missed \union {Current(c)},
             acked' \subseteq handled', handled' = acked' \union (handled' \intersect missed')
      PROVE  GroupInv'
  BY <1>3, DoneKeeps DEF GroupInv, EachEntryOnce
<1>4. CASE Finish(c)
  BY <1>0, <1>3, <1>4 DEF Finish
<1>5. CASE AckFails(c)
  BY <1>0, <1>3, <1>5 DEF AckFails
<1>6. CASE Raise(c)
  BY <1>0, <1>3, <1>6 DEF Raise
<1>7. CASE Die(c)
  <2>1. missed' = missed \union InHand(c) /\ batch' = [batch EXCEPT ![c] = <<>>]
        /\ UNCHANGED <<cursor, acked, handled>> /\ batch \in [Consumers -> Seq(Nat)]
    BY <1>7 DEF Die, InHand, QueueTypeOK
  <2>2. batch'[c] = <<>> /\ \A d \in Consumers \ {c} : batch'[d] = batch[d]
    BY <2>1
  <2>3. InHand(c)' = {} /\ \A d \in Consumers \ {c} : InHand(d)' = InHand(d)
    BY <2>2 DEF InHand
  <2>4. /\ \A d \in Consumers :
             /\ InHand(d) \subseteq 1..cursor \ (handled \union missed)
             /\ \A e \in Consumers \ {d} : InHand(d) \intersect InHand(e) = {}
    BY DEF GroupInv, EachEntryOnce
  <2>5. \A d \in Consumers : InHand(d)' \subseteq 1..cursor' \ (handled' \union missed')
    BY <2>1, <2>3, <2>4
  <2>6. \A d \in Consumers : \A m, n \in DOMAIN batch'[d] : m < n => batch'[d][m] < batch'[d][n]
    BY <2>2 DEF GroupInv, EachEntryOnce
  <2>7. \A d \in Consumers : \A e \in Consumers \ {d} : InHand(d)' \intersect InHand(e)' = {}
    BY <2>3, <2>4
  <2>8. missed' \subseteq 1..cursor'
    BY <1>0, <2>1, <2>4
  <2>9. handled \intersect InHand(c) = {}
    BY <2>4
  <2> QED
    BY <1>0, <2>1, <2>5, <2>6, <2>7, <2>8, <2>9 DEF GroupInv, EachEntryOnce
<1> QED
  BY <1>1, <1>2, <1>4, <1>5, <1>6, <1>7 DEF Consume

-----------------------------------------------------------------------------
(* The specification.                                                      *)

LEMMA StartHolds ==
  ASSUME NEW backlog \in Backlogs, NEW done \in 0..Len(backlog), QueueStart(backlog, done) PROVE QInv
<1>1. /\ backlog \in Seq(Updates) /\ Len(backlog) \in Nat
      /\ \A i, j \in 1..Len(backlog) : backlog[i] = backlog[j] => i = j
  BY GatewayAssumption
<1>2. stream = backlog /\ trimmed = 0 /\ cursor = done /\ told = {stream[i] : i \in 1..Len(stream)} /\ marks = told
  BY DEF QueueStart
<1>3. told \subseteq Updates
  BY <1>1, <1>2
<1>4. QueueTypeOK
  BY <1>1, <1>2, <1>3, GatewayAssumption DEF QueueTypeOK, QueueStart
<1>5. \A u : Queued(u) <=> u \in told
  BY <1>2, QueuedWhere
<1>6. QueuedOnce
  BY <1>1, <1>2 DEF QueuedOnce, Entries
<1>7. MarkedIsQueued /\ HookHolds
  BY <1>2, <1>5 DEF MarkedIsQueued, HookHolds, QueueStart
<1>8. \A c \in Consumers : batch[c] = <<>> /\ InHand(c) = {}
  BY DEF QueueStart, InHand
<1>9. EachEntryOnce /\ missed \subseteq 1..cursor
  <2>1. acked = 1..cursor /\ handled = 1..cursor /\ missed = {}
    BY DEF QueueStart
  <2>2. \A c \in Consumers : \A m, n \in DOMAIN batch[c] : m < n => batch[c][m] < batch[c][n]
    BY <1>8
  <2> QED
    BY <1>8, <2>1, <2>2 DEF EachEntryOnce
<1> QED
  BY <1>4, <1>6, <1>7, <1>9 DEF QInv, WebInv, GroupInv

(* A step of the webhook or of a consumer, or one that leaves the queue    *)
(* alone.                                                                  *)
LEMMA QueueStep == QInv /\ (QueueNext \/ UNCHANGED queueVars) => QInv'
<1> SUFFICES ASSUME QInv, QueueNext \/ UNCHANGED queueVars PROVE QInv'
  OBVIOUS
<1>0. QueueTypeOK /\ WebInv /\ GroupInv
  BY DEF QInv
<1>1. CASE \E u \in Updates : Webhook(u)
  BY <1>0, <1>1, WebTypes, WebStep, WebGroup DEF QInv
<1>2. CASE \E c \in Consumers : Consume(c)
  BY <1>0, <1>2, ConsumeTypes, ConsumeWeb, ConsumeGroup DEF QInv
<1>3. CASE UNCHANGED queueVars
  <2>1. UNCHANGED <<webVars, stream, groupVars, faults>>
    BY <1>3 DEF queueVars
  <2>2. QueueTypeOK'
    BY <1>0, <2>1 DEF QueueTypeOK, webVars, groupVars
  <2>3. QueuedOnce' /\ \A w : Queued(w)' <=> Queued(w)
    BY <1>0, <2>1, SameStream DEF webVars, WebInv
  <2>4. WebInv'
    BY <1>0, <2>1, <2>3 DEF webVars, WebInv, MarkedIsQueued, HookHolds
  <2>5. \A c \in Consumers : InHand(c)' = InHand(c)
    BY <2>1 DEF InHand, groupVars
  <2>6. GroupInv'
    BY <1>0, <2>1, <2>5 DEF GroupInv, EachEntryOnce, groupVars
  <2> QED
    BY <2>2, <2>4, <2>6 DEF QInv
<1> QED
  BY <1>1, <1>2, <1>3 DEF QueueNext

(* What the inductive invariant says of the properties.                    *)
LEMMA QueueSafe ==
  ASSUME QInv PROVE QueueTypeOK /\ NoUpdateVanishes /\ QueuedOnce /\ EachEntryOnce
BY DEF QInv, WebInv, GroupInv, MarkedIsQueued, NoUpdateVanishes

(* The gateway alone, with consumers that do anything with an entry: the   *)
(* webhook's two Redis calls and their failures, and a consumer group that *)
(* never reads an entry again (telegram_gateway.py, main of                *)
(* telegram_consumer.py).  An update is in the stream at most once, except *)
(* one whose write was carried out and reported as failed, which may be    *)
(* there again; each entry of the stream is handled at most once.          *)
THEOREM QueueIsSafe ==
  QueueSpec => [](QueueTypeOK /\ NoUpdateVanishes /\ QueuedOnce /\ EachEntryOnce)
<1>1. QueueInit => QInv
  BY StartHolds DEF QueueInit
<1>2. QInv /\ [QueueNext]_queueVars => QInv'
  BY QueueStep
<1>3. QInv => QueueTypeOK /\ NoUpdateVanishes /\ QueuedOnce /\ EachEntryOnce
  BY QueueSafe
<1> QED
  BY <1>1, <1>2, <1>3, PTL DEF QueueSpec
=============================================================================
