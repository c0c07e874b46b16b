------------------------------- MODULE Outbox -------------------------------
(***************************************************************************)
(* The transactional outbox: events are inserted with the change that      *)
(* causes them, and outbox workers claim them, act on the PasarGuard panel *)
(* and on Telegram, and mark them done, or put them back with a backoff    *)
(* until they are dead.  Every commit and every call to the outside is a   *)
(* step; a worker may die between any two of them, a claim may be taken    *)
(* over once it is older than OUTBOX_CLAIM_TIMEOUT_SECONDS, and the clock  *)
(* is the freedom of an event to become due and of a claim to grow stale.  *)
(***************************************************************************)
EXTENDS Integers, Sequences, FiniteSets, SequencesExt

CONSTANTS
  Events,       \* rows the outbox table may come to hold
  Topic,        \* topic of a row
  Aggregate,    \* aggregate_id of a row
  OwnPanel,     \* bindings of organizations that own the panel they are bound to
  Handled,      \* topics with an entry in HANDLERS
  HoldTopic,    \* billing.hold_required, whose aggregate is a binding
  Workers,
  MaxAttempts,  \* OUTBOX_MAX_ATTEMPTS
  Limit,        \* rows taken by one claim
  MaxRows,      \* bound: rows inserted
  MaxCrashes    \* bound: workers killed in the middle of something

Bindings == {Aggregate[e] : e \in {x \in Events : Topic[x] = HoldTopic}}

ASSUME OutboxAssumption ==
  /\ IsFiniteSet(Events) /\ Events \subseteq Nat
  /\ MaxAttempts \in Nat \ {0}
  /\ Limit \in Nat \ {0}
  /\ MaxRows \in Nat /\ MaxCrashes \in Nat
  /\ HoldTopic \in Handled
  /\ OwnPanel \subseteq Bindings

VARIABLES
  status,     \* outbox.status; "none" before the row is inserted
  attempts,   \* outbox.attempts
  due,        \* next_attempt_at has come
  stale,      \* claimed_at is older than the claim timeout
  binding,    \* bindings.status
  limit,      \* limit of the binding's panel admin, as far as a hold is concerned
  notified,   \* the event's whole audience has had its message
  pc,         \* where a worker's run_once is
  batch,      \* claimed rows it still has to handle, as its session has them
  expired,    \* rows it found stale
  dirty,      \* its session holds an uncommitted suspension
  crashes,
  overdue     \* history: rows of which a claim has ever grown stale

rows == <<status, attempts, due, stale>>
world == <<binding, limit, notified>>
worker == <<pc, batch, expired, dirty>>
vars == <<rows, world, worker, crashes, overdue>>

(* A row as a session holds it; a rollback makes it Unread.                *)
Statuses == {"none", "pending", "claimed", "done", "dead"}
Unread == -1
Loaded == [id: Events, attempts: 0..MaxAttempts \union {Unread}, status: Statuses]

LoadedAs(e) == [id |-> e, attempts |-> attempts[e], status |-> "claimed"]
Forgotten(row) == [row EXCEPT !.attempts = Unread]

Ev(w) == Head(batch[w]).id
Read(w) == IF Head(batch[w]).attempts = Unread
           THEN [id |-> Ev(w), attempts |-> attempts[Ev(w)], status |-> status[Ev(w)]]
           ELSE Head(batch[w])

(* uq_outbox_pending_per_aggregate.                                        *)
Twins(e, f) == e # f /\ Topic[e] = Topic[f] /\ Aggregate[e] = Aggregate[f]
MayBePending(S) ==
  /\ \A e, f \in S : ~Twins(e, f)
  /\ \A e \in S, f \in Events \ S : Twins(e, f) => status[f] # "pending"

Init ==
  /\ status = [e \in Events |-> "none"]
  /\ attempts = [e \in Events |-> 0]
  /\ due = [e \in Events |-> FALSE]
  /\ stale = [e \in Events |-> FALSE]
  /\ binding = [b \in Bindings |-> "active"]
  /\ limit = [b \in Bindings |-> "open"]
  /\ notified = [e \in Events |-> FALSE]
  /\ pc = [w \in Workers |-> "idle"]
  /\ batch = [w \in Workers |-> <<>>]
  /\ expired = [w \in Workers |-> {}]
  /\ dirty = [w \in Workers |-> FALSE]
  /\ crashes = 0
  /\ overdue = {}

-----------------------------------------------------------------------------
(* Producers and the clock.                                                *)

(* enqueue(): a duplicate of a row that still waits is skipped.  Twins are *)
(* named in the order of their insertion.                                  *)
Enqueue(e) ==
  /\ status[e] = "none"
  /\ \A f \in Events : Twins(e, f) /\ f < e => status[f] # "none"
  /\ Cardinality({f \in Events : status[f] # "none"}) < MaxRows
  /\ MayBePending({e})
  /\ status' = [status EXCEPT ![e] = "pending"]
  /\ due' = [due EXCEPT ![e] = TRUE]
  /\ UNCHANGED <<attempts, stale, world, worker, crashes, overdue>>

BackoffEnds(e) ==
  /\ status[e] = "pending"
  /\ ~due[e]
  /\ due' = [due EXCEPT ![e] = TRUE]
  /\ UNCHANGED <<status, attempts, stale, world, worker, crashes, overdue>>

ClaimExpires(e) ==
  /\ status[e] = "claimed"
  /\ ~stale[e]
  /\ stale' = [stale EXCEPT ![e] = TRUE]
  /\ overdue' = overdue \union {e}
  /\ UNCHANGED <<status, attempts, due, world, worker, crashes>>

(* web_set_admin_limit(): an organization sets the limit of its own admin  *)
(* on a panel it owns, and the status of the binding is not asked.         *)
RaiseLimit(b) ==
  /\ b \in OwnPanel
  /\ limit[b] = "cut"
  /\ limit' = [limit EXCEPT ![b] = "raised"]
  /\ UNCHANGED <<rows, binding, notified, worker, crashes, overdue>>

-----------------------------------------------------------------------------
(* run_once(): reclaim, claim, then event by event.                        *)

Goto(w, p) == pc' = [pc EXCEPT ![w] = p]

StaleRows == {e \in Events : status[e] = "claimed" /\ stale[e]}

ReadPending(w) ==  \* fault: reclaim looks at the wrong status and finds nothing
  /\ pc[w] = "idle"
  /\ Goto(w, "claim")
  /\ UNCHANGED <<rows, world, batch, expired, dirty, crashes, overdue>>

(* reclaim_stale() reads the stale rows without locking them ...           *)
ReadStale(w) ==
  /\ pc[w] = "idle"
  /\ expired' = [expired EXCEPT ![w] = StaleRows]
  /\ Goto(w, IF StaleRows = {} THEN "claim" ELSE "reclaim")
  /\ UNCHANGED <<rows, world, batch, dirty, crashes, overdue>>

(* ... and makes them pending in one commit.                               *)
Reclaim(w) ==
  /\ pc[w] = "reclaim"
  /\ MayBePending(expired[w])
  /\ status' = [e \in Events |-> IF e \in expired[w] THEN "pending" ELSE status[e]]
  /\ stale' = [e \in Events |-> stale[e] /\ e \notin expired[w]]
  /\ due' = [e \in Events |-> due[e] \/ e \in expired[w]]
  /\ expired' = [expired EXCEPT ![w] = {}]
  /\ Goto(w, "claim")
  /\ UNCHANGED <<attempts, world, batch, dirty, crashes, overdue>>

(* The commit violates the unique index: the exception ends the process,   *)
(* whose restart begins with the same reclaim.                             *)
ReclaimRejected(w) ==
  /\ pc[w] = "reclaim"
  /\ ~MayBePending(expired[w])
  /\ expired' = [expired EXCEPT ![w] = {}]
  /\ Goto(w, "idle")
  /\ UNCHANGED <<rows, world, batch, dirty, crashes, overdue>>

Waiting == {e \in Events : status[e] = "pending" /\ due[e]}

ClaimUncommitted(w) ==  \* fault: the claim is not committed before the handlers run
  /\ pc[w] = "claim"
  /\ \E S \in SUBSET Waiting :
       /\ Cardinality(S) = (IF Cardinality(Waiting) < Limit THEN Cardinality(Waiting) ELSE Limit)
       /\ \E order \in SetToSeqs(S) :
            batch' = [batch EXCEPT ![w] =
              [i \in DOMAIN order |-> LoadedAs(order[i])]]
       /\ Goto(w, IF S = {} THEN "idle" ELSE "handle")
  /\ UNCHANGED <<rows, expired, dirty, world, crashes, overdue>>

(* claim(): FOR UPDATE SKIP LOCKED makes the choice exclusive.             *)
Claim(w) ==
  /\ pc[w] = "claim"
  /\ \E S \in SUBSET Waiting :
       /\ Cardinality(S) = (IF Cardinality(Waiting) < Limit THEN Cardinality(Waiting) ELSE Limit)
       /\ status' = [e \in Events |-> IF e \in S THEN "claimed" ELSE status[e]]
       /\ \E order \in SetToSeqs(S) :
            batch' = [batch EXCEPT ![w] =
              [i \in DOMAIN order |-> LoadedAs(order[i])]]
       /\ Goto(w, IF S = {} THEN "idle" ELSE "handle")
  /\ UNCHANGED <<attempts, due, stale, expired, dirty, world, crashes, overdue>>

CompleteFirst(w) ==  \* fault: the row is completed before its handler is run
  /\ pc[w] = "handle"
  /\ Topic[Ev(w)] \in Handled
  /\ status' = [status EXCEPT ![Ev(w)] = "done"]
  /\ stale' = [stale EXCEPT ![Ev(w)] = FALSE]
  /\ Goto(w, "notify")
  /\ UNCHANGED <<attempts, due, world, batch, expired, dirty, crashes, overdue>>

StartHandler(w) ==
  /\ pc[w] = "handle"
  /\ Topic[Ev(w)] \in Handled
  /\ Goto(w, IF Topic[Ev(w)] = HoldTopic /\ binding[Aggregate[Ev(w)]] = "active"
             THEN "panel" ELSE "notify")
  /\ batch' = [batch EXCEPT ![w] = <<Read(w)>> \o Tail(@)]
  /\ UNCHANGED <<rows, world, expired, dirty, crashes, overdue>>

SuspendOnly(w) ==  \* fault: the panel is not called
  /\ pc[w] = "panel"
  /\ dirty' = [dirty EXCEPT ![w] = TRUE]
  /\ Goto(w, "notify")
  /\ UNCHANGED <<rows, world, batch, expired, crashes, overdue>>

(* handle_billing_hold(): cut the admin off, then suspend the binding in   *)
(* the session.                                                            *)
CutOff(w) ==
  /\ pc[w] = "panel"
  /\ limit' = [limit EXCEPT ![Aggregate[Ev(w)]] = "cut"]
  /\ dirty' = [dirty EXCEPT ![w] = TRUE]
  /\ Goto(w, "notify")
  /\ UNCHANGED <<rows, binding, notified, batch, expired, crashes, overdue>>

Notify(w) ==
  /\ pc[w] = "notify"
  /\ notified' = [notified EXCEPT ![Ev(w)] = TRUE]
  /\ Goto(w, "commit")
  /\ UNCHANGED <<rows, binding, limit, batch, expired, dirty, crashes, overdue>>

CommitHandler(w) ==
  /\ pc[w] = "commit"
  /\ binding' = IF dirty[w] THEN [binding EXCEPT ![Aggregate[Ev(w)]] = "suspended"]
                ELSE binding
  /\ dirty' = [dirty EXCEPT ![w] = FALSE]
  /\ Goto(w, "complete")
  /\ UNCHANGED <<rows, limit, notified, batch, expired, crashes, overdue>>

NextEvent(w, others) ==
  /\ batch' = [batch EXCEPT ![w] = others]
  /\ Goto(w, IF others = <<>> THEN "idle" ELSE "handle")

(* complete(): the row is done, whoever holds the claim by now.  A session *)
(* that has read the row as done writes nothing.                           *)
Complete(w) ==
  /\ pc[w] = "complete"
  /\ IF Head(batch[w]).status = "done" THEN UNCHANGED <<status, stale>>
     ELSE /\ status' = [status EXCEPT ![Ev(w)] = "done"]
          /\ stale' = [stale EXCEPT ![Ev(w)] = FALSE]
  /\ NextEvent(w, Tail(batch[w]))
  /\ UNCHANGED <<attempts, due, world, expired, dirty, crashes, overdue>>

Killed(w) ==
  /\ Goto(w, "idle")
  /\ batch' = [batch EXCEPT ![w] = <<>>]
  /\ expired' = [expired EXCEPT ![w] = {}]
  /\ dirty' = [dirty EXCEPT ![w] = FALSE]

RetryOnceMore(w, counted, others) ==  \* fault: dead one attempt too late
  LET e == Ev(w)
      dead == counted >= MaxAttempts
  IN  /\ dead \/ MayBePending({e})
      /\ attempts' = [attempts EXCEPT ![e] = counted + 1]
      /\ status' = [status EXCEPT ![e] = IF dead THEN "dead" ELSE "pending"]
      /\ due' = [due EXCEPT ![e] = FALSE]
      /\ stale' = [stale EXCEPT ![e] = FALSE]
      /\ NextEvent(w, others)
      /\ dirty' = [dirty EXCEPT ![w] = FALSE]
      /\ UNCHANGED <<expired, world, crashes, overdue>>

(* retry(): one more attempt is counted; the row waits again or is dead.   *)
(* The count stops at MaxAttempts: the code only asks whether it is there. *)
(* A commit refused by the unique index ends the process.                  *)
Retry(w, counted, others) ==
  LET e == Ev(w)
      tries == IF counted < MaxAttempts THEN counted + 1 ELSE MaxAttempts
      dead == tries = MaxAttempts
  IN  /\ IF dead \/ MayBePending({e})
           THEN /\ attempts' = [attempts EXCEPT ![e] = tries]
                /\ status' = [status EXCEPT ![e] = IF dead THEN "dead" ELSE "pending"]
                /\ due' = [due EXCEPT ![e] = FALSE]
                /\ stale' = [stale EXCEPT ![e] = FALSE]
                /\ NextEvent(w, others)
                /\ dirty' = [dirty EXCEPT ![w] = FALSE]
                /\ UNCHANGED expired
           ELSE Killed(w) /\ UNCHANGED rows
      /\ UNCHANGED <<world, crashes, overdue>>

(* The panel or Telegram fails: the rollback makes the session read every  *)
(* row of the batch again.                                                 *)
HandlerFails(w) ==
  /\ pc[w] \in {"panel", "notify"}
  /\ Retry(w, attempts[Ev(w)],
           [i \in DOMAIN Tail(batch[w]) |-> Forgotten(Tail(batch[w])[i])])

NoHandlerSkips(w) ==  \* fault: a topic without handler is passed over
  /\ pc[w] = "handle"
  /\ Topic[Ev(w)] \notin Handled
  /\ NextEvent(w, Tail(batch[w]))
  /\ UNCHANGED <<rows, world, expired, dirty, crashes, overdue>>

NoHandler(w) ==
  /\ pc[w] = "handle"
  /\ Topic[Ev(w)] \notin Handled
  /\ Retry(w, Read(w).attempts, Tail(batch[w]))

Crash(w) ==
  /\ pc[w] # "idle"
  /\ crashes < MaxCrashes
  /\ crashes' = crashes + 1
  /\ Killed(w)
  /\ UNCHANGED <<rows, world, overdue>>

Running(w) ==
  \/ ReadStale(w) \/ Reclaim(w) \/ ReclaimRejected(w) \/ Claim(w)
  \/ StartHandler(w) \/ NoHandler(w) \/ CutOff(w) \/ Notify(w)
  \/ CommitHandler(w) \/ Complete(w)

Next ==
  \/ \E e \in Events : Enqueue(e) \/ BackoffEnds(e) \/ ClaimExpires(e)
  \/ \E w \in Workers : Running(w) \/ HandlerFails(w) \/ Crash(w)
  \/ \E b \in Bindings : RaiseLimit(b)

Spec == Init /\ [][Next]_vars

(* Workers loop for ever and are restarted, time passes; nothing obliges   *)
(* the panel to fail or a worker to die.                                   *)
Fairness ==
  /\ \A w \in Workers : WF_vars(Running(w) \/ HandlerFails(w))
  /\ \A e \in Events : WF_vars(BackoffEnds(e)) /\ WF_vars(ClaimExpires(e))
FairSpec == Spec /\ Fairness

-----------------------------------------------------------------------------
TypeOK ==
  /\ status \in [Events -> Statuses]
  /\ attempts \in [Events -> 0..MaxAttempts]
  /\ due \in [Events -> BOOLEAN]
  /\ stale \in [Events -> BOOLEAN]
  /\ binding \in [Bindings -> {"active", "suspended"}]
  /\ limit \in [Bindings -> {"open", "cut", "raised"}]
  /\ notified \in [Events -> BOOLEAN]
  /\ pc \in [Workers -> {"idle", "reclaim", "claim", "handle", "panel",
                          "notify", "commit", "complete"}]
  /\ batch \in [Workers -> Seq(Loaded)]
  /\ expired \in [Workers -> SUBSET Events]
  /\ dirty \in [Workers -> BOOLEAN]
  /\ crashes \in 0..MaxCrashes
  /\ overdue \subseteq Events

(* A row is done only when what it announces has happened: its audience    *)
(* has been told and, for billing.hold_required, the panel admin was cut   *)
(* off and the binding is suspended, whatever failed, died or was taken    *)
(* over on the way (handle_billing_hold, complete, retry, reclaim_stale).  *)
CutBefore(b) == limit[b] # "open"
DoneMeansDelivered ==
  \A e \in Events : status[e] = "done" =>
    /\ notified[e]
    /\ Topic[e] = HoldTopic => CutBefore(Aggregate[e]) /\ binding[Aggregate[e]] = "suspended"

(* A binding is suspended in the database only after its admin has been    *)
(* cut off on the panel, and stays cut off: the collector stops polling    *)
(* suspended bindings, so it would not bill traffic after that.  Only who  *)
(* owns the panel can take the limit of its own admin away again.          *)
SuspendedIsCutOff ==
  \A b \in Bindings : binding[b] = "suspended" =>
    limit[b] = "cut" \/ (b \in OwnPanel /\ CutBefore(b))

(* Two workers handle the same row only if a claim on it has outlived      *)
(* OUTBOX_CLAIM_TIMEOUT_SECONDS: claim() commits before the first handler  *)
(* runs and skips the rows another transaction has locked.                 *)
Holders(e) == {w \in Workers : \E i \in DOMAIN batch[w] : batch[w][i].id = e}
SharedOnlyWhenOverdue ==
  \A e \in Events : Cardinality(Holders(e)) > 1 => e \in overdue

(* A claimed row with a twin that is pending, or claimed as well: the two   *)
(* may not be pending at once.                                             *)
Wedged == \E e, f \in Events :
  Twins(e, f) /\ status[e] = "claimed" /\ status[f] \in {"claimed", "pending"}

Settled(e) == status[e] \in {"none", "done", "dead"}

(* Every row of the table ends done or dead, through crashes, takeovers    *)
(* and retries, as long as no claimed row is wedged behind its twin        *)
(* (main, run_once, reclaim_stale).                                        *)
SettlesUnlessWedged == \A e \in Events : []<>(Settled(e) \/ Wedged)

(* outbox.py:179: a worker that died must not strand the events it         *)
(* claimed; each of them ends done or dead.                                *)
NoEventStranded == \A e \in Events : []<>Settled(e)

(* A row that is done is not made pending again, and so not delivered a    *)
(* second time, unless a claim on it has outlived the claim timeout:       *)
(* neither reclaim_stale(), which writes rows it has read some time ago,   *)
(* nor a failing handler's retry() of another worker comes back to it      *)
(* (claim, complete, retry, reclaim_stale).                                *)
DoneStaysUnlessOverdue ==
  [][\A e \in Events : status[e] = "done" /\ status'[e] # "done" => e \in overdue]_vars
=============================================================================
