------------------------------- MODULE Gateway -------------------------------
(***************************************************************************)
(* How a Telegram update reaches the bot: the webhook marks the update id  *)
(* in Redis and queues the update in a stream, consumers of one group read *)
(* the stream, handle an entry and acknowledge it.  Telegram posts an      *)
(* update again until it is answered with 200.  Every call to Redis is a   *)
(* step of its own and may fail, with or without having been carried out;  *)
(* the gateway and the consumers may die between any two of them.  What    *)
(* handling an entry does is left to Conversation.                         *)
(*                                                                         *)
(* External assumption: a key lives for a day (ex=86400) and Telegram      *)
(* forgets an update it could not deliver in that time, so keys do not     *)
(* expire here.                                                            *)
(***************************************************************************)
EXTENDS Integers, Sequences, FiniteSets

CONSTANTS
  Updates,    \* update ids Telegram sends
  Consumers,  \* consumer processes of the group
  BatchSize,  \* count of xreadgroup
  MaxLen,     \* maxlen of the stream
  Backlogs,   \* what the stream may hold when the consumers start
  MaxFaults   \* bound: failed calls to Redis, abandoned requests, killed consumers

ASSUME GatewayAssumption ==
  /\ BatchSize \in Nat \ {0}
  /\ MaxLen \in Nat \ {0}
  /\ MaxFaults \in Nat
  /\ Backlogs \subseteq Seq(Updates)
  /\ \A b \in Backlogs : \A i, j \in 1..Len(b) : b[i] = b[j] => i = j

VARIABLES
  told,     \* updates Telegram has had a 200 for
  marks,    \* keys tg:update:<id>
  hook,     \* the request that has marked an update: what it does next
  stream,   \* telegram_updates, with the entries trimmed since
  trimmed,  \* so many entries at its head are trimmed
  cursor,   \* last entry delivered to the group
  batch,    \* entries a consumer has read and not finished
  acked,    \* entries acknowledged
  handled,  \* history: entries whose handler came to its end
  missed,   \* history: entries that stay pending in the group, or were skipped
  cursed,   \* history: updates whose mark may outlive a write that never happened
  doubled,  \* history: updates whose write was carried out but reported as failed
  faults

webVars == <<told, marks, hook, cursed, doubled>>
groupVars == <<trimmed, cursor, batch, acked, handled, missed>>
queueVars == <<webVars, stream, groupVars, faults>>

Entries == 1..Len(stream)
Queued(u) == \E i \in Entries : stream[i] = u

QueueStartAtEnd(backlog, done) ==  \* fault: the group is created from "$"
  /\ stream = backlog /\ trimmed = 0 /\ cursor = Len(backlog)
  /\ told = {backlog[i] : i \in 1..Len(backlog)} /\ marks = told
  /\ cursed = {} /\ doubled = {}
  /\ hook = [u \in Updates |-> "idle"]
  /\ batch = [c \in Consumers |-> <<>>]
  /\ acked = 1..done /\ handled = 1..done /\ missed = {}
  /\ faults = 0

(* xgroup_create from id 0: the group starts at the head of the stream,    *)
(* unless it is there already and has handled some entries.                *)
QueueStart(backlog, done) ==
  /\ stream = backlog /\ trimmed = 0 /\ cursor = done
  /\ told = {backlog[i] : i \in 1..Len(backlog)} /\ marks = told
  /\ cursed = {} /\ doubled = {}
  /\ hook = [u \in Updates |-> "idle"]
  /\ batch = [c \in Consumers |-> <<>>]
  /\ acked = 1..done /\ handled = 1..done /\ missed = {}
  /\ faults = 0
QueueInit == \E backlog \in Backlogs : \E done \in 0..Len(backlog) : QueueStart(backlog, done)

Fault ==
  /\ faults < MaxFaults
  /\ faults' = faults + 1

-----------------------------------------------------------------------------
(* webhook(), for a post with the right secret and an update id.           *)

Go(u, where) == hook' = [hook EXCEPT ![u] = where]

MarkAnyway(u) ==  \* fault: the key is set without NX
  /\ u \notin told
  /\ hook[u] = "idle"
  /\ marks' = marks \union {u}
  /\ Go(u, "queueing")
  /\ UNCHANGED <<told, cursed, doubled, stream, groupVars, faults>>

(* SET NX finds no key.                                                    *)
Mark(u) ==
  /\ u \notin told
  /\ u \notin marks
  /\ marks' = marks \union {u}
  /\ Go(u, "queueing")
  /\ UNCHANGED <<told, cursed, doubled, stream, groupVars, faults>>

(* SET raises, whether or not Redis has carried it out; Telegram gets 500. *)
MarkFails(u) ==
  /\ u \notin told
  /\ u \notin marks
  /\ Fault
  /\ \/ UNCHANGED <<marks, cursed>>
     \/ marks' = marks \union {u} /\ cursed' = cursed \union {u}
  /\ UNCHANGED <<told, hook, doubled, stream, groupVars>>

(* The key is there: answered with 200, handled by nobody.                 *)
Duplicate(u) ==
  /\ u \notin told
  /\ u \in marks
  /\ told' = told \union {u}
  /\ UNCHANGED <<marks, hook, cursed, doubled, stream, groupVars, faults>>

(* XADD with an approximate maxlen: what is beyond it may be trimmed.      *)
Extend(u) ==
  /\ stream' = Append(stream, u)
  /\ trimmed' \in {trimmed} \union {n \in Entries : trimmed < n /\ n <= Len(stream) + 1 - MaxLen}
  /\ UNCHANGED <<cursor, batch, acked, handled, missed>>

(* The answer may be lost on its way to Telegram, which then posts again.  *)
Queue(u) ==
  /\ hook[u] = "queueing"
  /\ Extend(u)
  /\ Go(u, "idle")
  /\ told' \in {told, told \union {u}}
  /\ UNCHANGED <<marks, cursed, doubled, faults>>

QueueFailsMarked(u) ==  \* fault: the mark of a lost write is kept
  /\ hook[u] = "queueing"
  /\ Fault
  /\ Go(u, "idle")
  /\ UNCHANGED <<told, marks, cursed, doubled, stream, groupVars>>

(* XADD raises, whether or not Redis has carried it out.                   *)
QueueFails(u) ==
  /\ hook[u] = "queueing"
  /\ Fault
  /\ Go(u, "freeing")
  /\ \/ Extend(u) /\ doubled' = doubled \union {u}
     \/ UNCHANGED <<stream, groupVars, doubled>>
  /\ UNCHANGED <<told, marks, cursed>>

(* The mark is deleted, and Telegram gets 500.  A duplicate answered       *)
(* meanwhile has ended its retries.                                        *)
Free(u) ==
  /\ hook[u] = "freeing"
  /\ marks' = marks \ {u}
  /\ Go(u, "idle")
  /\ cursed' = IF u \in told /\ ~Queued(u) THEN cursed \union {u} ELSE cursed
  /\ UNCHANGED <<told, doubled, stream, groupVars, faults>>

(* DELETE raises as well: Redis is down.                                   *)
FreeFails(u) ==
  /\ hook[u] = "freeing"
  /\ Fault
  /\ Go(u, "idle")
  /\ cursed' = cursed \union {u}
  /\ UNCHANGED <<told, marks, doubled, stream, groupVars>>

(* The process dies, or the request is cancelled, which no handler of      *)
(* Exception sees.                                                         *)
Abandon(u) ==
  /\ hook[u] # "idle"
  /\ Fault
  /\ Go(u, "idle")
  /\ cursed' = cursed \union {u}
  /\ UNCHANGED <<told, marks, doubled, stream, groupVars>>

-----------------------------------------------------------------------------
(* main(): the consumers.                                                  *)

(* What the group has not been given yet and the stream still has.         *)
Ahead == {i \in Entries : cursor < i /\ trimmed < i}
First == IF cursor < trimmed THEN trimmed ELSE cursor
Last == IF First + BatchSize < Len(stream) THEN First + BatchSize ELSE Len(stream)
Given == First + 1 .. Last

(* xreadgroup with ">": each entry goes to one consumer, once.             *)
Read(c) ==
  /\ batch[c] = <<>>
  /\ Ahead # {}
  /\ batch' = [batch EXCEPT ![c] = [n \in 1..(Last - First) |-> First + n]]
  /\ cursor' = Last
  /\ missed' = missed \union (cursor + 1 .. First)
  /\ UNCHANGED <<webVars, stream, trimmed, acked, handled, faults>>

(* The answer of xreadgroup is lost; the exception ends the process, and   *)
(* its successor asks for new entries only.                                *)
ReadLost(c) ==
  /\ batch[c] = <<>>
  /\ Ahead # {}
  /\ Fault
  /\ cursor' = Last
  /\ missed' = missed \union (cursor + 1 .. Last)
  /\ UNCHANGED <<webVars, stream, trimmed, batch, acked, handled>>

Current(c) == Head(batch[c])
Done(c) == batch' = [batch EXCEPT ![c] = Tail(@)]

(* The handler has returned; xack.                                         *)
Finish(c) ==
  /\ batch[c] # <<>>
  /\ handled' = handled \union {Current(c)}
  /\ acked' = acked \union {Current(c)}
  /\ Done(c)
  /\ UNCHANGED <<webVars, stream, trimmed, cursor, missed, faults>>

(* xack raises after the handler has returned.                             *)
AckFails(c) ==
  /\ batch[c] # <<>>
  /\ Fault
  /\ handled' = handled \union {Current(c)}
  /\ missed' = missed \union {Current(c)}
  /\ Done(c)
  /\ UNCHANGED <<webVars, stream, trimmed, cursor, acked>>

RaiseAcked(c) ==  \* fault: an entry is acknowledged although its handler raised
  /\ batch[c] # <<>>
  /\ acked' = acked \union {Current(c)}
  /\ Done(c)
  /\ UNCHANGED <<webVars, stream, trimmed, cursor, handled, missed, faults>>

(* The handler raises: printed, not acknowledged, and never read again.    *)
Raise(c) ==
  /\ batch[c] # <<>>
  /\ missed' = missed \union {Current(c)}
  /\ Done(c)
  /\ UNCHANGED <<webVars, stream, trimmed, cursor, acked, handled, faults>>

(* The process is killed; the restarted one asks for new entries only.     *)
Die(c) ==
  /\ batch[c] # <<>>
  /\ Fault
  /\ missed' = missed \union {batch[c][n] : n \in DOMAIN batch[c]}
  /\ batch' = [batch EXCEPT ![c] = <<>>]
  /\ UNCHANGED <<webVars, stream, trimmed, cursor, acked, handled>>

Post(u) == Mark(u) \/ Duplicate(u)
Webhook(u) ==
  \/ Post(u) \/ Queue(u) \/ Free(u)
  \/ MarkFails(u) \/ QueueFails(u) \/ FreeFails(u) \/ Abandon(u)
Consume(c) == Read(c) \/ ReadLost(c) \/ Finish(c) \/ AckFails(c) \/ Raise(c) \/ Die(c)

QueueNext ==
  \/ \E u \in Updates : Webhook(u)
  \/ \E c \in Consumers : Consume(c)

QueueSpec == QueueInit /\ [][QueueNext]_queueVars

-----------------------------------------------------------------------------
QueueTypeOK ==
  /\ told \subseteq Updates /\ marks \subseteq Updates
  /\ cursed \subseteq Updates /\ doubled \subseteq Updates
  /\ hook \in [Updates -> {"idle", "queueing", "freeing"}]
  /\ stream \in Seq(Updates)
  /\ trimmed \in 0..Len(stream) /\ cursor \in 0..Len(stream)
  /\ batch \in [Consumers -> Seq(Nat)]
  /\ acked \subseteq Nat /\ handled \subseteq Nat /\ missed \subseteq Nat
  /\ faults \in 0..MaxFaults

(* telegram_gateway.py:24: a lost queue write does not consume the update  *)
(* id.  An update Telegram will not send again is in the stream or on its  *)
(* way there, unless Redis failed around the mark itself, the gateway died *)
(* after marking, or a duplicate was answered while the write was still to *)
(* fail.                                                                   *)
NoUpdateVanishes ==
  \A u \in told : Queued(u) \/ hook[u] # "idle" \/ u \in cursed

(* The dedupe key admits an update once: it is in the stream twice only    *)
(* after a write that was carried out and reported as failed.              *)
QueuedOnce ==
  \A i, j \in Entries : i # j /\ stream[i] = stream[j] => stream[i] \in doubled

(* What the group has delivered is in the hands of one consumer, or        *)
(* handled and acknowledged, or stays pending for good: no entry is        *)
(* handled by two consumers or twice by one, and an acknowledged one was   *)
(* handled to its end (xreadgroup with ">", xack inside the try).          *)
InHand(c) == {batch[c][n] : n \in DOMAIN batch[c]}
EachEntryOnce ==
  /\ \A c \in Consumers :
       /\ InHand(c) \subseteq 1..cursor \ (handled \union missed)
       /\ \A m, n \in DOMAIN batch[c] : m < n => batch[c][m] < batch[c][n]
       /\ \A d \in Consumers \ {c} : InHand(c) \intersect InHand(d) = {}
  /\ acked \subseteq handled
  /\ handled \subseteq 1..cursor /\ handled = acked \union (handled \intersect missed)
=============================================================================
