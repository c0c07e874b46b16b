-------------------------- MODULE ConversationProofs -------------------------
(***************************************************************************)
(* Safety of the bot's conversations for every number of consumers, chats  *)
(* and updates, and whatever the updates say.  The gateway's invariant     *)
(* carries over because every step of the bot is one of the queue or       *)
(* leaves it alone; the rest rests on the order of the entries of a chat.  *)
(***************************************************************************)
EXTENDS Conversation, GatewayProofs

(* The entries in a consumer's hand whose handler is not done.             *)
Waiting(c) == {i \in InHand(c) : ~(pc[c] = "reply" /\ i = Current(c))}

(* What a handler holds between two calls.                                 *)
HandlerInv == \A c \in Consumers :
  /\ pc[c] # "idle" => batch[c] # <<>>
  /\ pc[c] \in {"idle", "reply"} => mine[c] = None
  /\ pc[c] \in {"set", "commit"} => mine[c] # None
  /\ pc[c] = "commit" => Content(Current(c)).kind = "text"
  /\ pc[c] = "clear" => (mine[c] = None => Content(Current(c)).kind # "cancel")
  /\ pc[c] = "clear" /\ mine[c] # None => Content(Current(c)).kind \in {"text", "cancel"}

(* The answers a state, a handler and a result have.                       *)
WellAsked(s) ==
  /\ s.step \in 1..Len(Questions[s.flow])
  /\ Complete(s.data, s.step - 1)
AnswersInv ==
  /\ \A h \in Chats : state[h] # None => WellAsked(state[h])
  /\ \A c \in Consumers : pc[c] = "set" => WellAsked(mine[c])
  /\ \A c \in Consumers : pc[c] = "commit" => Complete(mine[c].data, Len(Questions[mine[c].flow]))
  /\ \A r \in results : Complete(r.data, Len(Questions[r.flow]))

(* The chat of a conversation is the chat of the entry that began it.      *)
PlaceInv ==
  /\ \A h \in Chats : state[h] # None => state[h].conv \in 1..cursor /\ Chat(state[h].conv) = h
  /\ \A c \in Consumers : mine[c] # None =>
       mine[c].conv \in 1..cursor /\ Chat(mine[c].conv) = Here(c)
  /\ \A r \in results : r.conv \in 1..cursor
  /\ cancelled \subseteq 1..cursor

(* The order of things in a chat whose handlers did not overlap.           *)
Alone(k) == Chat(k) \notin overlap
Before(k, h) == \A c \in Consumers : \A i \in Waiting(c) : Chat(i) = h => k < i
InOrder(s) == \A d \in s.data : s.conv < d[2]
OrderInv ==
  /\ \A h \in Chats \ overlap : state[h] # None => Before(state[h].conv, h) /\ InOrder(state[h])
  /\ \A c \in Consumers : Inside(c) /\ Alone(Current(c)) =>
       /\ \A d \in Consumers : \A i \in Waiting(d) : Chat(i) = Here(c) => Current(c) <= i
       /\ mine[c] # None => /\ mine[c].conv <= Current(c)
                            /\ pc[c] # "set" => mine[c].conv < Current(c)
                            /\ InOrder(mine[c])
  /\ \A r \in results : Alone(r.conv) => Before(r.conv, Chat(r.conv)) /\ InOrder(r)
  /\ \A k \in cancelled : Alone(k) => Before(k, Chat(k))

(* A conversation that has ended is nowhere, but with the handler that is  *)
(* about to clear it.                                                      *)
Clearing(k) == \E c \in Consumers : pc[c] = "clear" /\ mine[c].conv = k
EndInv ==
  /\ \A h \in Chats \ overlap : \A r \in results :
       state[h].conv = r.conv => r.conv \in interrupted \/ Clearing(r.conv)
  /\ \A c \in Consumers :
       Inside(c) /\ Alone(Current(c)) /\ mine[c] # None
       /\ (pc[c] = "clear" => Content(Current(c)).kind = "cancel") =>
         /\ \A r \in results : r.conv = mine[c].conv => r.conv \in interrupted
         /\ mine[c].conv \notin cancelled
  /\ EndsOnce

BotInv == QInv /\ BotTypeOK /\ HandlerInv /\ AnswersInv /\ PlaceInv /\ OrderInv /\ EndInv

-----------------------------------------------------------------------------
(* The queue.                                                              *)

LEMMA BotStarts ==
  BotInit => \E backlog \in Backlogs : \E done \in 0..Len(backlog) : QueueStart(backlog, done)
<1> SUFFICES ASSUME BotInit
             PROVE  \E backlog \in Backlogs : \E done \in 0..Len(backlog) : QueueStart(backlog, done)
  OBVIOUS
<1>1. PICK s \in Starts : says = s.says /\ QueueStart(s.backlog, s.done)
  BY DEF BotInit
<1>2. s.backlog \in Backlogs /\ s.done \in 0..Len(s.backlog)
  BY <1>1, StartAssumption
<1> QED
  BY <1>1, <1>2

LEMMA BotQueue == BotNext => QueueNext \/ UNCHANGED queueVars
<1> SUFFICES ASSUME BotNext PROVE QueueNext \/ UNCHANGED queueVars
  OBVIOUS
<1>1. CASE \E u \in Updates : Webhook(u)
  BY <1>1 DEF QueueNext
<1>2. ASSUME NEW c \in Consumers, Fetch(c) PROVE QueueNext
  BY <1>2 DEF Fetch, QueueNext, Consume
<1>3. ASSUME NEW c \in Consumers, Handle(c) PROVE QueueNext \/ UNCHANGED queueVars
  <2>1. CASE Replied(c) \/ Escapes(c)
    BY <2>1 DEF Replied, Escapes, QueueNext, Consume
  <2>2. CASE ~(Replied(c) \/ Escapes(c))
    BY <1>3, <2>2 DEF Handle, Begin, Pick, Decide, Menu, Answer, Cancel, Handling,
                     SetState, Commit, Refused, ClearState, ClearAgain, Caught
  <2> QED
    BY <2>1, <2>2
<1>4. ASSUME NEW c \in Consumers, Killed(c) PROVE QueueNext
  BY <1>4 DEF Killed, QueueNext, Consume
<1>5. ASSUME NEW h \in Chats, Forget(h) PROVE UNCHANGED queueVars
  BY <1>5 DEF Forget
<1> QED
  BY <1>1, <1>2, <1>3, <1>4, <1>5 DEF BotNext

LEMMA BotQInv == BotSpec => []QInv
<1>1. BotInit => QInv
  BY BotStarts, StartHolds
<1>2. QInv /\ [BotNext]_botVars => QInv'
  BY QueueStep, BotQueue DEF botVars
<1> QED
  BY <1>1, <1>2, PTL DEF BotSpec

-----------------------------------------------------------------------------
(* The steps of the bot, by what they change.                              *)

LEMMA Lengths == \A f \in Flows : Len(Questions[f]) \in Nat \ {0}
BY DEF Questions, Flows

LEMMA AnEntry ==
  ASSUME QInv, BotTypeOK, NEW i \in 1..cursor
  PROVE  /\ i \in 1..Len(stream) /\ Chat(i) \in Chats /\ Content(i) \in Contents
<1>1. stream \in Seq(Updates) /\ cursor \in 0..Len(stream) /\ Len(stream) \in Nat
  BY DEF QInv, QueueTypeOK
<1>2. i \in 1..Len(stream)
  BY <1>1
<1>3. stream[i] \in Updates
  BY <1>1, <1>2
<1>4. says[stream[i]] \in [chat: Chats, content: Contents]
  BY <1>3 DEF BotTypeOK
<1> QED
  BY <1>2, <1>4 DEF Chat, Content

LEMMA InHandIn ==
  ASSUME QInv, NEW c \in Consumers
  PROVE  InHand(c) \subseteq 1..cursor /\ cursor \in Nat
BY DEF QInv, GroupInv, EachEntryOnce, QueueTypeOK

LEMMA InHandThen ==
  ASSUME QInv', NEW c \in Consumers PROVE InHand(c)' \subseteq 1..cursor'
BY DEF QInv, GroupInv, EachEntryOnce

(* The entry a handler works on is the first in the consumer's hand.       *)
LEMMA TheCurrent ==
  ASSUME QInv, BotTypeOK, NEW c \in Consumers, batch[c] # <<>>
  PROVE  /\ Current(c) \in InHand(c) /\ Current(c) \in 1..cursor
         /\ Here(c) \in Chats /\ Content(Current(c)) \in Contents
         /\ \A i \in InHand(c) : Current(c) <= i
<1> DEFINE b == batch[c]
<1>1. b \in Seq(Nat) /\ b # <<>> /\ DOMAIN b = 1..Len(b) /\ Len(b) \in Nat \ {0} /\ Head(b) = b[1]
  BY DEF QInv, QueueTypeOK
<1>2. Current(c) = b[1] /\ 1 \in DOMAIN b
  BY <1>1 DEF Current
<1>3. Current(c) \in InHand(c)
  BY <1>2 DEF InHand
<1>4. Current(c) \in 1..cursor
  BY <1>3, InHandIn
<1>5. \A m, n \in DOMAIN b : m < n => b[m] < b[n]
  BY DEF QInv, GroupInv, EachEntryOnce
<1>6. ASSUME NEW n \in DOMAIN b PROVE b[1] <= b[n]
  <2>1. n = 1 \/ 1 < n
    BY <1>1
  <2>2. b[1] \in Nat /\ b[n] \in Nat
    BY <1>1, <1>2
  <2> QED
    BY <1>2, <1>5, <2>1, <2>2
<1>7. \A i \in InHand(c) : Current(c) <= i
  BY <1>2, <1>6 DEF InHand
<1> QED
  BY <1>3, <1>4, <1>7, AnEntry DEF Here

(* What the first call of a handler can lead to.                           *)
OpenState(c) == state[Here(c)]
Leads(c, p, m) ==
  \/ p = "reply" /\ m = None
  \/ p = "set" /\ \E f \in Flows : m = Fresh(Current(c), f)
  \/ /\ p = "set" /\ OpenState(c) # None
     /\ OpenState(c).step < Len(Questions[OpenState(c).flow])
     /\ m = Answered(OpenState(c), Current(c))
  \/ /\ p = "commit" /\ Content(Current(c)).kind = "text" /\ OpenState(c) # None
     /\ OpenState(c).step = Len(Questions[OpenState(c).flow])
     /\ m = Answered(OpenState(c), Current(c))
  \/ p = "clear" /\ m = None /\ Content(Current(c)).kind = "decide"
  \/ p = "clear" /\ m = OpenState(c) /\ m # None /\ Content(Current(c)).kind = "cancel"

Passing ==
  /\ \/ \E u \in Updates : Webhook(u)
     \/ \E c \in Consumers : Read(c) \/ ReadLost(c)
  /\ UNCHANGED <<says, chatVars, pc, mine>>
Opened(c) == Handling(c) /\ \E p, m : Goto(c, p, m) /\ Leads(c, p, m)
Dropped(c) ==
  /\ UNCHANGED <<queueVars, says, chatVars>>
  /\ \/ pc[c] = "commit" /\ Goto(c, "clear", None)
     \/ /\ Inside(c) /\ Content(Current(c)).kind \in {"begin", "pick", "decide"}
        /\ Goto(c, "reply", None)
Left(c) == Leave(c) /\ (Finish(c) \/ AckFails(c) \/ Raise(c) \/ Die(c))
Shape ==
  \/ Passing
  \/ \E c \in Consumers :
       Opened(c) \/ SetState(c) \/ Commit(c) \/ ClearState(c) \/ ClearAgain(c) \/ Dropped(c) \/ Left(c)
  \/ \E h \in Chats : Forget(h)

LEMMA OpeningShape ==
  ASSUME QInv, BotTypeOK, AnswersInv, NEW c \in Consumers,
         Begin(c) \/ Pick(c) \/ Decide(c) \/ Menu(c) \/ Answer(c) \/ Cancel(c)
  PROVE  Opened(c)
<1>0. Handling(c)
  BY DEF Begin, Pick, Decide, Menu, Answer, Cancel
<1>1. Here(c) \in Chats /\ Content(Current(c)) \in Contents
  BY <1>0, TheCurrent DEF Handling
<1>2. /\ Content(Current(c)).kind = "begin" => Content(Current(c)).flow \in Flows
      /\ Content(Current(c)).kind = "text" =>
           Content(Current(c)).flow = NoFlow \/ Content(Current(c)).flow \in Flows
  BY <1>1 DEF Contents, Flows, Questions
<1>3. OpenState(c) # None => /\ OpenState(c).flow \in Flows
                            /\ OpenState(c).step \in 1..Len(Questions[OpenState(c).flow])
  <2>1. OpenState(c) \in States \union {None}
    BY <1>1 DEF BotTypeOK, OpenState
  <2>2. OpenState(c) # None => WellAsked(OpenState(c))
    BY <1>1 DEF AnswersInv, OpenState
  <2> QED
    BY <2>1, <2>2 DEF WellAsked, States
<1>4. CASE Begin(c)
  BY <1>0, <1>2, <1>4 DEF Begin, Opened, Leads
<1>5. CASE Pick(c)
  <2>1. CASE Goto(c, "reply", None)
    BY <1>0, <2>1 DEF Opened, Leads
  <2>2. CASE /\ OpenState(c) # None /\ OpenState(c).flow = "plan"
             /\ Question(OpenState(c)) = Content(Current(c)).question
             /\ Goto(c, "set", Answered(OpenState(c), Current(c)))
    <3>1. Content(Current(c)).question \in ByButton
      BY <1>1, <1>5 DEF Pick, Contents
    <3>2. OpenState(c).step \in 1..9 /\ Len(Questions["plan"]) = 9
      BY <1>3, <2>2 DEF Questions
    <3>3. Questions["plan"][OpenState(c).step] \in {"panel", "shelf"}
      BY <2>2, <3>1 DEF Question, ByButton
    <3>4. OpenState(c).step \in {1, 2}
      BY <3>2, <3>3 DEF Questions
    <3> QED
      BY <1>0, <2>2, <3>2, <3>4 DEF Opened, Leads
  <2> QED
    BY <1>5, <2>1, <2>2 DEF Pick, OpenState
<1>6. CASE Decide(c)
  BY <1>0, <1>6 DEF Decide, Opened, Leads
<1>7. CASE Menu(c)
  BY <1>0, <1>2, <1>7 DEF Menu, Opened, Leads
<1>8. CASE Answer(c)
  <2>1. CASE Goto(c, "reply", None)
    BY <1>0, <2>1 DEF Opened, Leads
  <2>2. CASE Goto(c, IF IsLast(OpenState(c)) THEN "commit" ELSE "set", Answered(OpenState(c), Current(c)))
    <3>1. OpenState(c) # None /\ Content(Current(c)).kind = "text"
      BY <1>8 DEF Answer, OpenState
    <3>2. IsLast(OpenState(c)) \/ OpenState(c).step < Len(Questions[OpenState(c).flow])
      BY <1>3, <3>1, Lengths DEF IsLast
    <3> QED
      BY <1>0, <2>2, <3>1, <3>2 DEF Opened, Leads, IsLast
  <2> QED
    BY <1>8, <2>1, <2>2 DEF Answer, OpenState
<1>9. CASE Cancel(c)
  BY <1>0, <1>9 DEF Cancel, Opened, Leads, OpenState
<1> QED
  BY <1>4, <1>5, <1>6, <1>7, <1>8, <1>9

LEMMA StepShape ==
  ASSUME QInv, BotTypeOK, AnswersInv, BotNext PROVE Shape
<1>1. CASE \E u \in Updates : Webhook(u) /\ UNCHANGED <<says, chatVars, pc, mine>>
  BY <1>1 DEF Shape, Passing
<1>2. ASSUME NEW c \in Consumers, Fetch(c) PROVE Shape
  BY <1>2 DEF Fetch, Shape, Passing
<1>3. ASSUME NEW c \in Consumers, Handle(c) PROVE Shape
  <2>1. CASE Begin(c) \/ Pick(c) \/ Decide(c) \/ Menu(c) \/ Answer(c) \/ Cancel(c)
    BY <2>1, OpeningShape DEF Shape
  <2>2. CASE SetState(c) \/ Commit(c) \/ ClearState(c) \/ ClearAgain(c)
    BY <2>2 DEF Shape
  <2>3. CASE Refused(c) \/ Caught(c)
    BY <2>3 DEF Shape, Refused, Caught, Dropped
  <2>4. CASE Replied(c) \/ Escapes(c)
    BY <2>4 DEF Shape, Replied, Escapes, Left
  <2> QED
    BY <1>3, <2>1, <2>2, <2>3, <2>4 DEF Handle
<1>4. ASSUME NEW c \in Consumers, Killed(c) PROVE Shape
  BY <1>4 DEF Killed, Shape, Left
<1>5. ASSUME NEW h \in Chats, Forget(h) PROVE Shape
  BY <1>5 DEF Shape
<1> QED
  BY <1>1, <1>2, <1>3, <1>4, <1>5 DEF BotNext

-----------------------------------------------------------------------------
(* Types, and what a handler holds.                                        *)

LEMMA FreshIs ==
  ASSUME NEW i \in Nat, NEW f \in Flows
  PROVE  /\ Fresh(i, f) \in States /\ (Fresh(i, f) # None \/ i = 0)
         /\ Fresh(i, f).conv = i /\ WellAsked(Fresh(i, f)) /\ InOrder(Fresh(i, f))
BY Lengths DEF Fresh, States, None, WellAsked, InOrder, Complete

LEMMA AnsweredIs ==
  ASSUME NEW s \in States, NEW i \in Nat, Complete(s.data, s.step - 1), s.step \in Nat \ {0}
  PROVE  /\ Answered(s, i) \in States
         /\ Answered(s, i).conv = s.conv /\ Answered(s, i).flow = s.flow
         /\ Answered(s, i).step = s.step + 1
         /\ Answered(s, i).data = s.data \union {<<s.step, i>>}
         /\ Complete(Answered(s, i).data, s.step)
<1> DEFINE new == s.data \union {<<s.step, i>>}
<1>1. /\ s.conv \in Nat /\ s.flow \in Flows /\ s.step \in Nat /\ s.data \subseteq Nat \X Nat
  BY DEF States
<1>2. Answered(s, i) = [s EXCEPT !.data = new, !.step = s.step + 1]
  BY DEF Answered
<1>3. new \subseteq Nat \X Nat
  BY <1>1
<1>4. Complete(new, s.step)
  <2>1. {d[1] : d \in s.data} = 1..s.step - 1
    BY DEF Complete
  <2>0. <<s.step, i>>[1] = s.step /\ <<s.step, i>> \in new
    OBVIOUS
  <2>2. {d[1] : d \in new} = {d[1] : d \in s.data} \union {s.step}
    <3>1. \A d \in new : d \in s.data \/ d[1] = s.step
      BY <2>0
    <3>2. \A d \in s.data : d \in new
      OBVIOUS
    <3> HIDE DEF new
    <3> QED
      BY <2>0, <3>1, <3>2
  <2>3. 1..s.step = (1..s.step - 1) \union {s.step}
    OBVIOUS
  <2>4. {d[1] : d \in new} = 1..s.step
    BY <2>1, <2>2, <2>3
  <2>5. ASSUME NEW d \in new, NEW e \in new, d[1] = e[1] PROVE d = e
    <3>1. \A x \in s.data : x[1] # s.step
      <4>1. \A x \in s.data : x[1] \in 1..s.step - 1
        BY <2>1
      <4> QED
        BY <4>1
    <3>2. \A x, y \in s.data : x[1] = y[1] => x = y
      BY DEF Complete
    <3>3. \A x \in new : x \in s.data \/ x = <<s.step, i>>
      OBVIOUS
    <3> HIDE DEF new
    <3> QED
      BY <2>0, <2>5, <3>1, <3>2, <3>3
  <2> QED
    BY <2>4, <2>5 DEF Complete
<1>5. s.step + 1 \in Nat
  OBVIOUS
<1> HIDE DEF new
<1>6. /\ Answered(s, i) \in States
      /\ Answered(s, i).conv = s.conv /\ Answered(s, i).flow = s.flow
      /\ Answered(s, i).step = s.step + 1 /\ Answered(s, i).data = new
  <2> DEFINE t == Answered(s, i)
  <2>1. t = [s EXCEPT !.data = new, !.step = s.step + 1]
    BY <1>2
  <2> HIDE DEF t
  <2>2. t \in States /\ t.conv = s.conv /\ t.flow = s.flow /\ t.step = s.step + 1 /\ t.data = new
    BY <1>1, <1>3, <1>5, <2>1 DEF States
  <2> QED
    BY <2>2 DEF t
<1> QED
  BY <1>4, <1>6 DEF new

LEMMA GotoIs ==
  ASSUME BotTypeOK, NEW c \in Consumers, NEW p, NEW m, Goto(c, p, m)
  PROVE  /\ pc'[c] = p /\ mine'[c] = m
         /\ \A d \in Consumers \ {c} : pc'[d] = pc[d] /\ mine'[d] = mine[d]
         /\ p \in {"idle", "set", "commit", "clear", "reply"} =>
              pc' \in [Consumers -> {"idle", "set", "commit", "clear", "reply"}]
         /\ m \in States \union {None} => mine' \in [Consumers -> States \union {None}]
BY DEF Goto, BotTypeOK

LEMMA LeadsTypes ==
  ASSUME QInv, BotTypeOK, AnswersInv, NEW c \in Consumers, batch[c] # <<>>, NEW p, NEW m, Leads(c, p, m)
  PROVE  /\ p \in {"set", "commit", "clear", "reply"} /\ m \in States \union {None}
         /\ p = "set" => m # None /\ WellAsked(m)
         /\ p = "commit" => m # None /\ Complete(m.data, Len(Questions[m.flow]))
<1>1. Current(c) \in Nat /\ Current(c) # 0 /\ Here(c) \in Chats
  BY TheCurrent, InHandIn
<1>2. OpenState(c) \in States \union {None}
  BY <1>1 DEF BotTypeOK, OpenState
<1>3. CASE p = "reply" /\ m = None
  BY <1>3
<1>4. CASE p = "set" /\ \E f \in Flows : m = Fresh(Current(c), f)
  <2>1. PICK f \in Flows : m = Fresh(Current(c), f)
    BY <1>4
  <2>2. m \in States /\ m # None /\ WellAsked(m)
    BY <1>1, <2>1, FreshIs
  <2> QED
    BY <1>4, <2>2
<1>5. ASSUME OpenState(c) # None, m = Answered(OpenState(c), Current(c))
      PROVE  /\ m \in States /\ m # None /\ m.flow = OpenState(c).flow
             /\ m.step = OpenState(c).step + 1 /\ Complete(m.data, OpenState(c).step)
             /\ OpenState(c).step \in 1..Len(Questions[m.flow]) /\ Len(Questions[m.flow]) \in Nat
  <2>1. OpenState(c) \in States /\ WellAsked(OpenState(c))
    BY <1>1, <1>2, <1>5 DEF AnswersInv, OpenState
  <2>2. OpenState(c).step \in Nat \ {0} /\ Complete(OpenState(c).data, OpenState(c).step - 1)
    BY <2>1, Lengths DEF WellAsked, States
  <2>3. /\ m \in States /\ m.flow = OpenState(c).flow
        /\ m.step = OpenState(c).step + 1 /\ Complete(m.data, OpenState(c).step)
    BY <1>1, <1>5, <2>1, <2>2, AnsweredIs
  <2>4. m # None
    BY <2>2, <2>3 DEF None
  <2> QED
    BY <2>1, <2>3, <2>4, Lengths DEF WellAsked, States
<1>6. CASE /\ p = "set" /\ OpenState(c) # None
           /\ OpenState(c).step < Len(Questions[OpenState(c).flow])
           /\ m = Answered(OpenState(c), Current(c))
  <2>1. /\ m \in States /\ m # None /\ m.flow = OpenState(c).flow
        /\ m.step = OpenState(c).step + 1 /\ Complete(m.data, m.step - 1)
        /\ m.step \in 1..Len(Questions[m.flow])
    BY <1>5, <1>6
  <2> QED
    BY <1>6, <2>1 DEF WellAsked
<1>7. CASE /\ p = "commit" /\ OpenState(c) # None
           /\ OpenState(c).step = Len(Questions[OpenState(c).flow])
           /\ m = Answered(OpenState(c), Current(c))
  BY <1>5, <1>7
<1>8. CASE p = "clear" /\ m \in {None, OpenState(c)}
  BY <1>2, <1>8
<1> QED
  BY <1>3, <1>4, <1>6, <1>7, <1>8 DEF Leads

LEMMA BotTypes ==
  ASSUME QInv, QInv', BotTypeOK, AnswersInv, HandlerInv, Shape
  PROVE  BotTypeOK'
<1> USE DEF chatVars
<1>0. QueueTypeOK'
  BY DEF QInv
<1>1. CASE Passing
  BY <1>0, <1>1 DEF Passing, BotTypeOK
<1>2. ASSUME NEW c \in Consumers, Opened(c) PROVE BotTypeOK'
  <2>1. PICK p, m : Goto(c, p, m) /\ Leads(c, p, m)
    BY <1>2 DEF Opened
  <2>2. batch[c] # <<>> /\ UNCHANGED <<says, state, results, interrupted, cancelled>>
    BY <1>2 DEF Opened, Handling
  <2>3. p \in {"set", "commit", "clear", "reply"} /\ m \in States \union {None}
    BY <2>1, <2>2, LeadsTypes
  <2>4. /\ pc' \in [Consumers -> {"idle", "set", "commit", "clear", "reply"}]
        /\ mine' \in [Consumers -> States \union {None}]
    BY <2>1, <2>3, GotoIs
  <2>5. Here(c) \in Chats
    BY <2>2, TheCurrent
  <2>6. overlap' \subseteq Chats
    BY <1>2, <2>5 DEF Opened, Handling, BotTypeOK
  <2> QED
    BY <1>0, <2>2, <2>4, <2>6 DEF BotTypeOK
<1>3. ASSUME NEW c \in Consumers, SetState(c) PROVE BotTypeOK'
  <2>1. Goto(c, "reply", None) /\ mine[c] \in States \union {None}
    BY <1>3 DEF SetState, BotTypeOK
  <2>2. /\ pc' \in [Consumers -> {"idle", "set", "commit", "clear", "reply"}]
        /\ mine' \in [Consumers -> States \union {None}]
    BY <2>1, GotoIs
  <2> QED
    BY <1>0, <1>3, <2>1, <2>2 DEF SetState, BotTypeOK
<1>4. ASSUME NEW c \in Consumers, Commit(c) PROVE BotTypeOK'
  <2>1. Goto(c, "clear", mine[c]) /\ mine[c] \in States
    BY <1>4 DEF Commit, BotTypeOK, HandlerInv
  <2>2. /\ pc' \in [Consumers -> {"idle", "set", "commit", "clear", "reply"}]
        /\ mine' \in [Consumers -> States \union {None}]
    BY <2>1, GotoIs
  <2>3. mine[c].conv \in Nat /\ mine[c].flow \in Flows /\ mine[c].data \subseteq Nat \X Nat
    BY <2>1 DEF States
  <2>4. \A r \in results' : r.conv \in Nat /\ r.flow \in Flows /\ r.data \subseteq Nat \X Nat
    BY <1>4, <2>3 DEF Commit, BotTypeOK
  <2> QED
    BY <1>0, <1>4, <2>2, <2>4 DEF Commit, BotTypeOK
<1>5. ASSUME NEW c \in Consumers, ClearState(c) PROVE BotTypeOK'
  <2>1. Goto(c, "reply", None) /\ mine[c] \in States \union {None}
    BY <1>5 DEF ClearState, BotTypeOK
  <2>2. /\ pc' \in [Consumers -> {"idle", "set", "commit", "clear", "reply"}]
        /\ mine' \in [Consumers -> States \union {None}]
    BY <2>1, GotoIs
  <2>3. mine[c].conv \in Nat
    BY <2>1 DEF States, None
  <2>4. cancelled' \subseteq Nat
    BY <1>5, <2>3 DEF ClearState, BotTypeOK
  <2> QED
    BY <1>0, <1>5, <2>2, <2>4 DEF ClearState, BotTypeOK
<1>9. ASSUME NEW c \in Consumers, ClearAgain(c) PROVE BotTypeOK'
  <2>1. /\ pc' \in [Consumers -> {"idle", "set", "commit", "clear", "reply"}]
        /\ mine' \in [Consumers -> States \union {None}]
    BY <1>9, GotoIs DEF ClearAgain
  <2> QED
    BY <1>0, <1>9, <2>1 DEF ClearAgain, BotTypeOK
<1>6. ASSUME NEW c \in Consumers, Dropped(c) PROVE BotTypeOK'
  <2>1. /\ pc' \in [Consumers -> {"idle", "set", "commit", "clear", "reply"}]
        /\ mine' \in [Consumers -> States \union {None}]
    BY <1>6, GotoIs DEF Dropped
  <2> QED
    BY <1>0, <1>6, <2>1 DEF Dropped, BotTypeOK
<1>7. ASSUME NEW c \in Consumers, Left(c) PROVE BotTypeOK'
  <2>1. Goto(c, "idle", None) /\ mine[c] \in States \union {None}
    BY <1>7 DEF Left, Leave, BotTypeOK
  <2>2. /\ pc' \in [Consumers -> {"idle", "set", "commit", "clear", "reply"}]
        /\ mine' \in [Consumers -> States \union {None}]
    BY <2>1, GotoIs
  <2>3. mine[c].conv \in Nat
    BY <2>1 DEF States, None
  <2>4. interrupted' \subseteq Nat
    BY <1>7, <2>3 DEF Left, Leave, BotTypeOK
  <2> QED
    BY <1>0, <1>7, <2>2, <2>4 DEF Left, Leave, BotTypeOK
<1>8. ASSUME NEW h \in Chats, Forget(h) PROVE BotTypeOK'
  BY <1>0, <1>8 DEF Forget, BotTypeOK
<1> QED
  BY <1>1, <1>2, <1>3, <1>4, <1>5, <1>6, <1>7, <1>8, <1>9 DEF Shape

-----------------------------------------------------------------------------
(* What every step keeps.                                                  *)

LEMMA StreamKept ==
  ASSUME QInv, BotTypeOK, Shape
  PROVE  /\ says' = says /\ cursor \in Nat /\ cursor' \in Nat /\ cursor <= cursor'
         /\ \A i \in 1..cursor : /\ i \in 1..cursor' /\ stream'[i] = stream[i]
                                /\ Chat(i)' = Chat(i) /\ Content(i)' = Content(i)
<1>0. QueueTypeOK /\ cursor \in 0..Len(stream) /\ Len(stream) \in Nat
  BY DEF QInv, QueueTypeOK
<1>1. says' = says
  BY DEF Shape, Passing, Opened, Handling, SetState, Commit, ClearState, ClearAgain, Dropped, Left, Leave, Forget
<1>2. /\ cursor' = cursor \/ (cursor' = Last /\ Ahead # {})
      /\ stream' = stream \/ \E u \in Updates : Webhook(u)
  <2>1. CASE Passing
    BY <2>1, <1>0, WebTypes DEF Passing, Read, ReadLost
  <2>2. CASE ~Passing
    BY <2>2 DEF Shape, Opened, Handling, SetState, Commit, ClearState, ClearAgain, Dropped, Left, Leave, Forget,
                Finish, AckFails, Raise, Die, queueVars, groupVars
  <2> QED
    BY <2>1, <2>2
<1>3. cursor' \in Nat /\ cursor <= cursor'
  <2>1. CASE cursor' = cursor
    BY <1>0, <2>1
  <2>2. CASE cursor' = Last /\ Ahead # {}
    <3>1. First \in Nat /\ Last \in Nat /\ cursor <= First /\ First < Last
      BY <1>0, <2>2, Delivery
    <3> QED
      BY <1>0, <2>2, <3>1
  <2> QED
    BY <1>2, <2>1, <2>2
<1>4. \A i \in 1..Len(stream) : stream'[i] = stream[i]
  <2>1. ASSUME NEW u \in Updates, Webhook(u) PROVE stream' = stream \/ Extend(u)
    BY <2>1 DEF Webhook, Post, Mark, Duplicate, Queue, Free, MarkFails, QueueFails, FreeFails, Abandon
  <2> QED
    BY <1>0, <1>2, <2>1, ExtendStream
<1>5. \A i \in 1..cursor : i \in 1..Len(stream) /\ i \in 1..cursor'
  BY <1>0, <1>3
<1> QED
  BY <1>0, <1>1, <1>3, <1>4, <1>5 DEF Chat, Content

(* The history only grows.                                                 *)
LEMMA HistoryKept ==
  ASSUME Shape
  PROVE  /\ overlap \subseteq overlap' /\ interrupted \subseteq interrupted'
         /\ results \subseteq results' /\ cancelled \subseteq cancelled'
BY DEF Shape, Passing, chatVars, Opened, Handling, SetState, Commit, ClearState, ClearAgain, Dropped, Left, Leave, Forget

(* An entry leaves the hand of the consumer whose handler has ended.       *)
LEMMA LeftHand ==
  ASSUME QInv, NEW c \in Consumers, Left(c)
  PROVE  /\ InHand(c)' \subseteq InHand(c) \ {Current(c)}
         /\ \A d \in Consumers \ {c} : batch'[d] = batch[d]
<1>0. QueueTypeOK /\ EachEntryOnce
  BY DEF QInv, GroupInv
<1>1. CASE Finish(c) \/ AckFails(c) \/ Raise(c)
  <2>1. batch[c] # <<>> /\ Done(c)
    BY <1>1 DEF Finish, AckFails, Raise
  <2> QED
    BY <1>0, <2>1, TailOfHand
<1>2. CASE Die(c)
  <2>1. batch' = [batch EXCEPT ![c] = <<>>] /\ batch \in [Consumers -> Seq(Nat)]
    BY <1>0, <1>2 DEF Die, QueueTypeOK
  <2>2. batch'[c] = <<>> /\ \A d \in Consumers \ {c} : batch'[d] = batch[d]
    BY <2>1
  <2>3. InHand(c)' = {}
    BY <2>2 DEF InHand
  <2> QED
    BY <2>2, <2>3
<1> QED
  BY <1>1, <1>2 DEF Left

LEMMA HandsKept ==
  ASSUME QInv, BotTypeOK, HandlerInv, Shape, NEW d \in Consumers
  PROVE  /\ pc'[d] # "idle" => batch[d] # <<>> /\ batch'[d] = batch[d]
         /\ \A i \in Waiting(d)' : i \in Waiting(d) \/ cursor < i
<1>0. QueueTypeOK
  BY DEF QInv
<1>a. ASSUME batch'[d] = batch[d], pc'[d] = pc[d] \/ pc[d] # "reply"
      PROVE  \A i \in Waiting(d)' : i \in Waiting(d)
  <2>1. InHand(d)' = InHand(d) /\ Current(d)' = Current(d)
    BY <1>a DEF InHand, Current
  <2> QED
    BY <1>a, <2>1 DEF Waiting
<1>b. pc[d] # "idle" => batch[d] # <<>>
  BY DEF HandlerInv
<1>1. CASE Passing
  <2>1. pc'[d] = pc[d]
    BY <1>1 DEF Passing
  <2>2. CASE batch'[d] = batch[d]
    BY <1>a, <1>b, <2>1, <2>2
  <2>3. CASE Read(d)
    <3>1. pc[d] = "idle" /\ Ahead # {}
      BY <1>b, <2>3 DEF Read
    <3>2. First \in Nat /\ cursor <= First /\ cursor \in Nat /\ Last - First \in Nat
      BY <1>0, <3>1, Delivery DEF QueueTypeOK
    <3>3. batch'[d] = [n \in 1..(Last - First) |-> First + n]
      BY <1>0, <2>3 DEF Read, QueueTypeOK
    <3>4. InHand(d)' = {First + n : n \in 1..(Last - First)}
      BY <3>3 DEF InHand
    <3>5. \A i \in InHand(d)' : cursor < i
      BY <3>2, <3>4
    <3> QED
      BY <2>1, <3>1, <3>5 DEF Waiting
  <2>4. batch'[d] = batch[d] \/ Read(d)
    <3>1. CASE \E u \in Updates : Webhook(u)
      BY <1>0, <3>1, WebTypes
    <3>2. CASE \E c \in Consumers : Read(c) \/ ReadLost(c)
      BY <1>0, <3>2 DEF Read, ReadLost, QueueTypeOK
    <3> QED
      BY <1>1, <3>1, <3>2 DEF Passing
  <2> QED
    BY <2>2, <2>3, <2>4
<1>2. ASSUME NEW c \in Consumers, NEW p, NEW m, UNCHANGED queueVars, Goto(c, p, m),
             pc[c] # "reply", batch[c] # <<>>
      PROVE  /\ pc'[d] # "idle" => batch[d] # <<>> /\ batch'[d] = batch[d]
             /\ \A i \in Waiting(d)' : i \in Waiting(d)
  <2>1. batch' = batch
    BY <1>2 DEF queueVars, groupVars
  <2>2. d = c \/ pc'[d] = pc[d]
    BY <1>2, GotoIs
  <2> QED
    BY <1>2, <1>a, <1>b, <2>1, <2>2
<1>3. CASE \E c \in Consumers : Opened(c)
  BY <1>2, <1>3 DEF Opened, Handling
<1>4. CASE \E c \in Consumers : SetState(c) \/ Commit(c) \/ ClearState(c) \/ ClearAgain(c)
  BY <1>2, <1>4 DEF SetState, Commit, ClearState, ClearAgain, HandlerInv
<1>5. CASE \E c \in Consumers : Dropped(c)
  BY <1>2, <1>5 DEF Dropped, Inside, HandlerInv
<1>6. ASSUME NEW c \in Consumers, Left(c)
      PROVE  /\ pc'[d] # "idle" => batch[d] # <<>> /\ batch'[d] = batch[d]
             /\ \A i \in Waiting(d)' : i \in Waiting(d)
  <2>1. CASE d = c
    <3>1. pc'[d] = "idle"
      BY <1>6, <2>1, GotoIs DEF Left, Leave
    <3>2. InHand(d)' \subseteq InHand(d) \ {Current(d)}
      BY <1>6, <2>1, LeftHand
    <3> QED
      BY <3>1, <3>2 DEF Waiting
  <2>2. CASE d # c
    <3>1. batch'[d] = batch[d]
      BY <1>6, <2>2, LeftHand
    <3>2. pc'[d] = pc[d]
      BY <1>6, <2>2, GotoIs DEF Left, Leave
    <3> QED
      BY <1>a, <1>b, <3>1, <3>2
  <2> QED
    BY <2>1, <2>2
<1>7. CASE \E h \in Chats : Forget(h)
  <2>1. batch'[d] = batch[d] /\ pc'[d] = pc[d]
    BY <1>7 DEF Forget, queueVars, groupVars
  <2> QED
    BY <1>a, <1>b, <2>1
<1> QED
  BY <1>1, <1>3, <1>4, <1>5, <1>6, <1>7 DEF Shape

(* A handler works on one entry until it ends.                             *)
LEMMA CurrentKept ==
  ASSUME QInv, BotTypeOK, HandlerInv, Shape, NEW d \in Consumers, pc'[d] # "idle"
  PROVE  /\ Current(d)' = Current(d) /\ Current(d) \in 1..cursor /\ Here(d)' = Here(d)
         /\ Content(Current(d))' = Content(Current(d)) /\ Here(d) \in Chats
<1>1. batch[d] # <<>> /\ batch'[d] = batch[d]
  BY HandsKept
<1>2. Current(d)' = Current(d)
  BY <1>1 DEF Current
<1>3. Current(d) \in 1..cursor /\ Here(d) \in Chats
  BY <1>1, TheCurrent
<1>4. Chat(Current(d))' = Chat(Current(d)) /\ Content(Current(d))' = Content(Current(d))
  <2>1. says' = says /\ stream'[Current(d)] = stream[Current(d)]
    BY <1>3, StreamKept
  <2> QED
    BY <1>2, <2>1 DEF Chat, Content
<1> QED
  BY <1>2, <1>3, <1>4 DEF Here

-----------------------------------------------------------------------------
(* What became of a handler, a state, a result, a cancelled conversation.  *)

Same(d) == pc'[d] = pc[d] /\ mine'[d] = mine[d]
LEMMA HandlerFrom ==
  ASSUME QInv, BotTypeOK, HandlerInv, Shape, NEW d \in Consumers
  PROVE  \/ Same(d)
         \/ pc[d] = "idle" /\ Opened(d) /\ Leads(d, pc'[d], mine'[d])
         \/ pc'[d] \in {"idle", "reply"} /\ mine'[d] = None
         \/ /\ pc[d] \in {"commit", "clear"} /\ Content(Current(d)).kind = "text"
            /\ pc'[d] = "clear" /\ mine'[d] = None
         \/ pc[d] = "commit" /\ pc'[d] = "clear" /\ mine'[d] = mine[d]
<1>1. CASE Passing
  BY <1>1 DEF Passing, Same
<1>2. ASSUME NEW c \in Consumers, Opened(c), d = c
      PROVE  pc[d] = "idle" /\ Leads(d, pc'[d], mine'[d])
  <2>1. PICK p, m : Goto(c, p, m) /\ Leads(c, p, m)
    BY <1>2 DEF Opened
  <2>2. pc'[c] = p /\ mine'[c] = m
    BY <2>1, GotoIs
  <2> QED
    BY <1>2, <2>1, <2>2 DEF Opened, Handling
<1>3. ASSUME NEW c \in Consumers, NEW p, NEW m, Goto(c, p, m), d # c PROVE Same(d)
  BY <1>3, GotoIs DEF Same
<1>4. CASE \E c \in Consumers : Opened(c)
  BY <1>2, <1>3, <1>4 DEF Opened
<1>5. CASE \E c \in Consumers : SetState(c) \/ ClearState(c) \/ ClearAgain(c)
  BY <1>3, <1>5, GotoIs DEF SetState, ClearState, ClearAgain
<1>6. CASE \E c \in Consumers : Commit(c)
  BY <1>3, <1>6, GotoIs DEF Commit
<1>7. CASE \E c \in Consumers : Dropped(c)
  BY <1>3, <1>7, GotoIs DEF Dropped, HandlerInv
<1>8. CASE \E c \in Consumers : Left(c)
  BY <1>3, <1>8, GotoIs DEF Left, Leave
<1>9. CASE \E h \in Chats : Forget(h)
  BY <1>9 DEF Forget, Same
<1> QED
  BY <1>1, <1>4, <1>5, <1>6, <1>7, <1>8, <1>9 DEF Shape

Result(s) == [conv |-> s.conv, flow |-> s.flow, data |-> s.data]
LEMMA StateFrom ==
  ASSUME QInv, BotTypeOK, HandlerInv, Shape, NEW h \in Chats
  PROVE  \/ state'[h] = state[h]
         \/ state'[h] = None
         \/ \E c \in Consumers :
              pc[c] = "set" /\ Here(c) = h /\ state'[h] = mine[c] /\ pc'[c] = "reply" /\ results' = results
<1>1. CASE \E c \in Consumers : SetState(c)
  <2>1. PICK c \in Consumers : SetState(c)
    BY <1>1
  <2>2. pc[c] = "set" /\ state' = [state EXCEPT ![Here(c)] = mine[c]] /\ results' = results
        /\ Goto(c, "reply", None)
    BY <2>1 DEF SetState
  <2>3. pc'[c] = "reply"
    BY <2>2, GotoIs
  <2> QED
    BY <2>2, <2>3 DEF BotTypeOK
<1>2. CASE \E c \in Consumers : ClearState(c) \/ ClearAgain(c)
  BY <1>2 DEF ClearState, ClearAgain, BotTypeOK
<1>3. CASE \E g \in Chats : Forget(g)
  BY <1>3 DEF Forget, BotTypeOK
<1>4. CASE \E c \in Consumers : Opened(c) \/ Commit(c) \/ Dropped(c) \/ Left(c)
  BY <1>4 DEF Opened, Handling, Commit, Dropped, Left, Leave, chatVars
<1>5. CASE Passing
  BY <1>5 DEF Passing, chatVars
<1> QED
  BY <1>1, <1>2, <1>3, <1>4, <1>5 DEF Shape

LEMMA ResultFrom ==
  ASSUME QInv, BotTypeOK, HandlerInv, Shape
  PROVE  \/ results' = results
         \/ \E c \in Consumers :
              /\ pc[c] = "commit" /\ pc'[c] = "clear" /\ mine'[c] = mine[c]
              /\ results' = results \union {Result(mine[c])}
              /\ UNCHANGED <<queueVars, says, state, overlap, interrupted, cancelled>>
              /\ \A d \in Consumers \ {c} : Same(d)
<1>1. CASE \E c \in Consumers : Commit(c)
  <2>1. PICK c \in Consumers : Commit(c)
    BY <1>1
  <2>2. Goto(c, "clear", mine[c]) /\ pc[c] = "commit"
    BY <2>1 DEF Commit
  <2>3. pc'[c] = "clear" /\ mine'[c] = mine[c] /\ \A d \in Consumers \ {c} : Same(d)
    BY <2>2, GotoIs DEF Same
  <2> QED
    BY <2>1, <2>2, <2>3 DEF Commit, Result
<1>2. CASE ~\E c \in Consumers : Commit(c)
  BY <1>2 DEF Shape, Passing, chatVars, Opened, Handling, SetState, ClearState, ClearAgain, Dropped, Left, Leave, Forget
<1> QED
  BY <1>1, <1>2

LEMMA CancelledFrom ==
  ASSUME QInv, BotTypeOK, HandlerInv, Shape
  PROVE  \/ cancelled' = cancelled
         \/ \E c \in Consumers :
              /\ pc[c] = "clear" /\ pc'[c] = "reply" /\ Content(Current(c)).kind = "cancel"
              /\ cancelled' = cancelled \union {mine[c].conv}
              /\ state' = [state EXCEPT ![Here(c)] = None]
              /\ UNCHANGED <<queueVars, says, overlap, interrupted, results>>
              /\ \A d \in Consumers \ {c} : Same(d)
<1>1. CASE \E c \in Consumers : ClearState(c) /\ Content(Current(c)).kind = "cancel"
  <2>1. PICK c \in Consumers : ClearState(c) /\ Content(Current(c)).kind = "cancel"
    BY <1>1
  <2>2. Goto(c, "reply", None)
    BY <2>1 DEF ClearState
  <2>3. pc'[c] = "reply" /\ \A d \in Consumers \ {c} : Same(d)
    BY <2>2, GotoIs DEF Same
  <2> QED
    BY <2>1, <2>3 DEF ClearState
<1>2. CASE ~\E c \in Consumers : ClearState(c) /\ Content(Current(c)).kind = "cancel"
  BY <1>2 DEF Shape, Passing, chatVars, Opened, Handling, SetState, ClearState, ClearAgain, Commit, Dropped, Left, Leave, Forget
<1> QED
  BY <1>1, <1>2

-----------------------------------------------------------------------------
(* The invariant is kept.                                                  *)

LEMMA HandlerStep ==
  ASSUME QInv, BotTypeOK, AnswersInv, HandlerInv, Shape
  PROVE  HandlerInv'
<1> SUFFICES ASSUME NEW c \in Consumers
             PROVE  (/\ pc[c] # "idle" => batch[c] # <<>>
                     /\ pc[c] \in {"idle", "reply"} => mine[c] = None
                     /\ pc[c] \in {"set", "commit"} => mine[c] # None
                     /\ pc[c] = "commit" => Content(Current(c)).kind = "text"
                     /\ pc[c] = "clear" => (mine[c] = None => Content(Current(c)).kind # "cancel")
                     /\ pc[c] = "clear" /\ mine[c] # None => Content(Current(c)).kind \in {"text", "cancel"})'
  BY DEF HandlerInv
<1>1. /\ pc[c] \in {"idle", "reply"} => mine[c] = None
      /\ pc[c] \in {"set", "commit"} => mine[c] # None
      /\ pc[c] = "commit" => Content(Current(c)).kind = "text"
      /\ pc[c] = "clear" => (mine[c] = None => Content(Current(c)).kind # "cancel")
      /\ pc[c] = "clear" /\ mine[c] # None => Content(Current(c)).kind \in {"text", "cancel"}
  BY DEF HandlerInv
<1>2. pc'[c] # "idle" => batch'[c] # <<>> /\ Content(Current(c))' = Content(Current(c))
  BY HandsKept, CurrentKept
<1>3. CASE Same(c)
  BY <1>1, <1>2, <1>3 DEF Same
<1>4. CASE Opened(c) /\ Leads(c, pc'[c], mine'[c])
  <2>1. batch[c] # <<>>
    BY <1>4 DEF Opened, Handling
  <2>2. pc'[c] \in {"set", "commit", "clear", "reply"} /\ (pc'[c] \in {"set", "commit"} => mine'[c] # None)
    BY <1>4, <2>1, LeadsTypes
  <2>3. /\ pc'[c] = "reply" => mine'[c] = None
        /\ pc'[c] = "commit" => Content(Current(c)).kind = "text"
        /\ pc'[c] = "clear" => \/ mine'[c] = None /\ Content(Current(c)).kind = "decide"
                               \/ mine'[c] # None /\ Content(Current(c)).kind = "cancel"
    BY <1>4 DEF Leads
  <2> QED
    BY <1>2, <2>2, <2>3
<1>5. CASE pc'[c] \in {"idle", "reply"} /\ mine'[c] = None
  BY <1>2, <1>5
<1>6. CASE /\ pc[c] = "commit" \/ Content(Current(c)).kind = "text"
           /\ pc'[c] = "clear" /\ (mine'[c] = None \/ mine'[c] = mine[c])
  BY <1>1, <1>2, <1>6
<1> QED
  BY <1>3, <1>4, <1>5, <1>6, HandlerFrom

LEMMA AnswersStep ==
  ASSUME QInv, BotTypeOK, AnswersInv, HandlerInv, Shape
  PROVE  AnswersInv'
<1>1. ASSUME NEW h \in Chats, state'[h] # None PROVE WellAsked(state'[h])
  BY <1>1, StateFrom DEF AnswersInv
<1>2. ASSUME NEW c \in Consumers
      PROVE  /\ pc'[c] = "set" => WellAsked(mine'[c])
             /\ pc'[c] = "commit" => Complete(mine'[c].data, Len(Questions[mine'[c].flow]))
  <2>1. CASE Same(c)
    BY <2>1 DEF AnswersInv, Same
  <2>2. CASE Opened(c) /\ Leads(c, pc'[c], mine'[c])
    <3>1. batch[c] # <<>>
      BY <2>2 DEF Opened, Handling
    <3> QED
      BY <2>2, <3>1, LeadsTypes
  <2> QED
    BY <2>1, <2>2, HandlerFrom
<1>3. ASSUME NEW r \in results' PROVE Complete(r.data, Len(Questions[r.flow]))
  <2>1. CASE r \in results
    BY <2>1 DEF AnswersInv
  <2>2. ASSUME NEW c \in Consumers, pc[c] = "commit", r = Result(mine[c])
        PROVE  Complete(r.data, Len(Questions[r.flow]))
    BY <2>2 DEF Result, AnswersInv
  <2> QED
    BY <2>1, <2>2, ResultFrom
<1>4. /\ \A s : WellAsked(s)' = WellAsked(s)
      /\ \A d, n : Complete(d, n)' = Complete(d, n)
  BY DEF WellAsked, Complete
<1> QED
  BY <1>1, <1>2, <1>3 DEF AnswersInv, WellAsked

(* The state a handler has opened belongs to its chat.                     *)
LEMMA LeadsPlace ==
  ASSUME QInv, BotTypeOK, AnswersInv, PlaceInv, NEW c \in Consumers, batch[c] # <<>>,
         NEW p, NEW m, Leads(c, p, m), m # None
  PROVE  /\ m.conv \in 1..cursor /\ Chat(m.conv) = Here(c)
         /\ \/ m.conv = Current(c) /\ p = "set" /\ m.data = {}
            \/ /\ OpenState(c) # None /\ m.conv = OpenState(c).conv
               /\ m.data \subseteq OpenState(c).data \union {<<OpenState(c).step, Current(c)>>}
<1>1. Current(c) \in 1..cursor /\ Current(c) \in Nat /\ Here(c) \in Chats
  BY TheCurrent, InHandIn
<1>2. OpenState(c) # None => /\ OpenState(c) \in States
                            /\ OpenState(c).conv \in 1..cursor /\ Chat(OpenState(c).conv) = Here(c)
                            /\ Complete(OpenState(c).data, OpenState(c).step - 1) /\ OpenState(c).step \in Nat \ {0}
  <2>1. OpenState(c) # None => OpenState(c) \in States /\ WellAsked(OpenState(c))
    BY <1>1 DEF BotTypeOK, OpenState, AnswersInv
  <2>2. OpenState(c) # None => OpenState(c).step \in Nat \ {0}
    BY <2>1, Lengths DEF WellAsked, States
  <2> QED
    BY <1>1, <2>1, <2>2 DEF PlaceInv, OpenState, WellAsked
<1>3. CASE p = "set" /\ \E f \in Flows : m = Fresh(Current(c), f)
  BY <1>1, <1>3 DEF Fresh, Here
<1>4. CASE OpenState(c) # None /\ m = Answered(OpenState(c), Current(c))
  <2>1. m.conv = OpenState(c).conv /\ m.data = OpenState(c).data \union {<<OpenState(c).step, Current(c)>>}
    BY <1>1, <1>2, <1>4, AnsweredIs
  <2> QED
    BY <1>2, <1>4, <2>1
<1>5. CASE m = OpenState(c)
  BY <1>2, <1>5
<1> QED
  BY <1>3, <1>4, <1>5 DEF Leads

LEMMA PlaceStep ==
  ASSUME QInv, BotTypeOK, AnswersInv, HandlerInv, PlaceInv, Shape
  PROVE  PlaceInv'
<1>0. \A i \in 1..cursor : i \in 1..cursor' /\ Chat(i)' = Chat(i)
  BY StreamKept
<1>1. ASSUME NEW h \in Chats, state'[h] # None
      PROVE  state'[h].conv \in 1..cursor /\ Chat(state'[h].conv) = h
  BY <1>1, StateFrom DEF PlaceInv
<1>2. ASSUME NEW c \in Consumers, mine'[c] # None
      PROVE  mine'[c].conv \in 1..cursor /\ Chat(mine'[c].conv) = Here(c) /\ pc'[c] # "idle"
  <2>1. pc[c] = "idle" => mine[c] = None
    BY DEF HandlerInv
  <2>2. CASE Same(c) \/ (pc[c] = "commit" /\ pc'[c] = "clear" /\ mine'[c] = mine[c])
    BY <1>2, <2>1, <2>2 DEF Same, PlaceInv
  <2>3. CASE Opened(c) /\ Leads(c, pc'[c], mine'[c])
    <3>1. batch[c] # <<>>
      BY <2>3 DEF Opened, Handling
    <3> QED
      BY <1>2, <2>3, <3>1, LeadsPlace, LeadsTypes
  <2> QED
    BY <1>2, <2>2, <2>3, HandlerFrom
<1>3. ASSUME NEW c \in Consumers, mine'[c] # None PROVE Here(c)' = Here(c)
  BY <1>2, <1>3, CurrentKept
<1>4. \A r \in results' : r.conv \in 1..cursor
  <2>1. \A c \in Consumers : pc[c] = "commit" => mine[c].conv \in 1..cursor /\ Result(mine[c]).conv = mine[c].conv
    BY DEF HandlerInv, PlaceInv, Result
  <2> QED
    BY <2>1, ResultFrom DEF PlaceInv
<1>5. cancelled' \subseteq 1..cursor
  <2>1. \A c \in Consumers : pc[c] = "clear" /\ Content(Current(c)).kind = "cancel" => mine[c].conv \in 1..cursor
    BY DEF HandlerInv, PlaceInv
  <2> QED
    BY <2>1, CancelledFrom DEF PlaceInv
<1>6. ASSUME NEW i \in 1..cursor PROVE i \in (1..cursor)' /\ \A h : Chat(i) = h => Chat(i)' = h
  BY <1>0
<1>7. \A h \in Chats : state'[h] # None => state'[h].conv \in (1..cursor)' /\ (Chat(state[h].conv) = h)'
  BY <1>0, <1>1 DEF Chat
<1>8. \A c \in Consumers : mine'[c] # None =>
         mine'[c].conv \in (1..cursor)' /\ (Chat(mine[c].conv) = Here(c))'
  BY <1>0, <1>2, <1>3 DEF Chat
<1> QED
  BY <1>0, <1>4, <1>5, <1>7, <1>8 DEF PlaceInv

(* No entry is in two hands.                                               *)
LEMMA TwoHands ==
  ASSUME QInv, NEW c \in Consumers, NEW d \in Consumers, NEW i \in InHand(c), i \in InHand(d)
  PROVE  c = d
BY DEF QInv, GroupInv, EachEntryOnce

LEMMA BeforeKept ==
  ASSUME QInv, QInv', BotTypeOK, HandlerInv, Shape, NEW k \in 1..cursor, NEW h, Before(k, h)
  PROVE  Before(k, h)'
<1> SUFFICES ASSUME NEW d \in Consumers, NEW i \in Waiting(d)', Chat(i)' = h PROVE k < i
  BY DEF Before
<1>1. i \in 1..cursor' /\ cursor \in Nat /\ cursor' \in Nat
  BY InHandThen, StreamKept DEF Waiting
<1>2. CASE i \in Waiting(d)
  <2>1. i \in 1..cursor
    BY <1>2, InHandIn DEF Waiting
  <2>2. Chat(i) = h
    BY <2>1, StreamKept
  <2> QED
    BY <1>2, <2>2 DEF Before
<1>3. CASE cursor < i
  BY <1>1, <1>3
<1> QED
  BY <1>2, <1>3, HandsKept

(* The handler of a chat whose handlers do not overlap is on its first     *)
(* entry.                                                                  *)
LEMMA FirstOfChat ==
  ASSUME QInv, QInv', BotTypeOK, HandlerInv, Shape, NEW c \in Consumers, pc'[c] # "idle",
         \A d \in Consumers : \A i \in Waiting(d) : Chat(i) = Here(c) => Current(c) <= i
  PROVE  (\A d \in Consumers : \A i \in Waiting(d) : Chat(i) = Here(c) => Current(c) <= i)'
<1>0. /\ Current(c)' = Current(c) /\ Current(c) \in 1..cursor /\ Here(c)' = Here(c)
      /\ cursor \in Nat /\ cursor' \in Nat
  BY CurrentKept, StreamKept
<1> SUFFICES ASSUME NEW d \in Consumers, NEW i \in Waiting(d)', Chat(i)' = Here(c) PROVE Current(c) <= i
  BY <1>0
<1>1. i \in 1..cursor'
  BY InHandThen DEF Waiting
<1>2. CASE i \in Waiting(d)
  <2>1. i \in 1..cursor
    BY <1>2, InHandIn DEF Waiting
  <2>2. Chat(i) = Here(c)
    BY <2>1, StreamKept
  <2> QED
    BY <1>2, <2>2
<1>3. CASE cursor < i
  BY <1>0, <1>1, <1>3
<1> QED
  BY <1>2, <1>3, HandsKept

StateOrder == \A h \in Chats \ overlap : state[h] # None => Before(state[h].conv, h) /\ InOrder(state[h])
HandlerOrder(c) ==
  Inside(c) /\ Alone(Current(c)) =>
    /\ \A d \in Consumers : \A i \in Waiting(d) : Chat(i) = Here(c) => Current(c) <= i
    /\ mine[c] # None => /\ mine[c].conv <= Current(c)
                         /\ pc[c] # "set" => mine[c].conv < Current(c)
                         /\ InOrder(mine[c])
EndedOrder ==
  /\ \A r \in results : Alone(r.conv) => Before(r.conv, Chat(r.conv)) /\ InOrder(r)
  /\ \A k \in cancelled : Alone(k) => Before(k, Chat(k))

LEMMA OrderParts == OrderInv <=> StateOrder /\ (\A c \in Consumers : HandlerOrder(c)) /\ EndedOrder
BY DEF OrderInv, StateOrder, HandlerOrder, EndedOrder

LEMMA StateOrderStep ==
  ASSUME QInv, QInv', BotTypeOK, HandlerInv, PlaceInv, OrderInv, Shape
  PROVE  StateOrder'
<1> SUFFICES ASSUME NEW h \in Chats, h \notin overlap', state'[h] # None
             PROVE  Before(state[h].conv, h)' /\ InOrder(state'[h])
  BY DEF StateOrder, InOrder
<1>0. h \notin overlap
  BY HistoryKept
<1>1. CASE state'[h] = state[h]
  <2>1. Before(state[h].conv, h) /\ InOrder(state[h]) /\ state[h].conv \in 1..cursor
    BY <1>0, <1>1 DEF OrderInv, PlaceInv
  <2> DEFINE k == state[h].conv
  <2>2. state'[h].conv = k /\ k \in 1..cursor
    BY <1>1, <2>1
  <2>3. \A x \in 1..cursor : Before(x, h) => Before(x, h)'
    BY BeforeKept
  <2>4. \A d \in Consumers : \A i \in Waiting(d)' : Chat(i)' = h => k < i
    BY <2>1, <2>2, <2>3 DEF Before
  <2> QED
    BY <1>1, <2>1, <2>2, <2>4 DEF Before
<1>2. ASSUME NEW c \in Consumers, pc[c] = "set", Here(c) = h, state'[h] = mine[c], pc'[c] = "reply"
      PROVE  Before(state[h].conv, h)' /\ InOrder(state'[h])
  <2>1. Inside(c) /\ Alone(Current(c)) /\ mine[c] # None
    BY <1>0, <1>2 DEF Inside, Alone, Here, HandlerInv
  <2>2. /\ \A d \in Consumers : \A i \in Waiting(d) : Chat(i) = Here(c) => Current(c) <= i
        /\ mine[c].conv <= Current(c) /\ InOrder(mine[c]) /\ mine[c].conv \in 1..cursor
    BY <2>1 DEF OrderInv, PlaceInv
  <2>3. /\ (\A d \in Consumers : \A i \in Waiting(d) : Chat(i) = Here(c) => Current(c) <= i)'
        /\ Current(c)' = Current(c) /\ Here(c)' = h /\ Current(c) \in 1..cursor
    BY <1>2, <2>2, FirstOfChat, CurrentKept
  <2>4. batch'[c] # <<>> /\ cursor \in Nat /\ cursor' \in Nat
    BY <1>2, HandsKept, StreamKept
  <2>5. ASSUME NEW d \in Consumers, NEW i \in Waiting(d)', Chat(i)' = h PROVE mine[c].conv < i
    <3>1. Current(c) <= i /\ i \in InHand(d)' /\ i \in 1..cursor'
      BY <2>3, <2>5, InHandThen DEF Waiting
    <3>2. i # Current(c)
      <4>1. CASE d = c
        BY <1>2, <2>3, <2>5, <4>1 DEF Waiting
      <4>2. CASE d # c
        <5>1. (i \in Waiting(d) /\ i \in InHand(d)) \/ cursor < i
          BY <2>5, HandsKept DEF Waiting
        <5>2. Current(c) \in InHand(c) /\ Current(c) <= cursor
          BY <1>2, <2>3, <2>4, TheCurrent DEF HandlerInv
        <5> QED
          BY <2>4, <3>1, <4>2, <5>1, <5>2, TwoHands
      <4> QED
        BY <4>1, <4>2
    <3> QED
      BY <2>2, <2>3, <2>4, <3>1, <3>2
  <2> QED
    BY <1>2, <2>2, <2>5 DEF Before
<1> QED
  BY <1>1, <1>2, StateFrom

LEMMA HandlerOrderStep ==
  ASSUME QInv, QInv', BotTypeOK, AnswersInv, HandlerInv, PlaceInv, OrderInv, Shape, NEW c \in Consumers
  PROVE  HandlerOrder(c)'
<1> SUFFICES ASSUME Inside(c)', Alone(Current(c))'
             PROVE  /\ (\A d \in Consumers : \A i \in Waiting(d) : Chat(i) = Here(c) => Current(c) <= i)'
                    /\ mine'[c] # None => /\ mine'[c].conv <= Current(c)
                                          /\ pc'[c] # "set" => mine'[c].conv < Current(c)
                                          /\ InOrder(mine'[c])
  <2>1. Inside(c)' => Current(c)' = Current(c)
    BY CurrentKept DEF Inside
  <2> QED
    BY <2>1 DEF HandlerOrder, InOrder
<1>0. /\ pc'[c] \in {"set", "commit", "clear"}
      /\ Current(c)' = Current(c) /\ Current(c) \in 1..cursor /\ Here(c)' = Here(c) /\ Here(c) \in Chats
  BY CurrentKept DEF Inside
<1>1. Here(c) \notin overlap' /\ Here(c) \notin overlap /\ Alone(Current(c))
  <2>1. Here(c)' \notin overlap'
    BY DEF Alone, Here
  <2> QED
    BY <1>0, <2>1, HistoryKept DEF Alone, Here
<1>2. CASE Same(c) \/ (pc[c] \in {"commit", "clear"} /\ pc'[c] = "clear" /\ mine'[c] \in {None, mine[c]})
  <2>1. Inside(c)
    BY <1>0, <1>2 DEF Same, Inside
  <2>2. /\ \A d \in Consumers : \A i \in Waiting(d) : Chat(i) = Here(c) => Current(c) <= i
        /\ mine[c] # None => /\ mine[c].conv <= Current(c)
                             /\ pc[c] # "set" => mine[c].conv < Current(c)
                             /\ InOrder(mine[c])
    BY <1>1, <2>1 DEF OrderInv
  <2>3. (\A d \in Consumers : \A i \in Waiting(d) : Chat(i) = Here(c) => Current(c) <= i)'
    BY <1>0, <2>2, FirstOfChat
  <2> QED
    BY <1>2, <2>2, <2>3 DEF Same
<1>3. CASE pc[c] = "idle" /\ Opened(c) /\ Leads(c, pc'[c], mine'[c])
  <2>1. batch[c] # <<>> /\ ~Overtakes(c)
    BY <1>1, <1>3 DEF Opened, Handling
  <2>2. \A d \in Consumers : \A i \in Waiting(d) : Chat(i) = Here(c) => Current(c) <= i
    <3> SUFFICES ASSUME NEW d \in Consumers, NEW i \in Waiting(d), Chat(i) = Here(c) PROVE Current(c) <= i
      OBVIOUS
    <3>1. ~(i < Current(c))
      BY <2>1 DEF Overtakes, Waiting
    <3>2. i \in 1..cursor /\ cursor \in Nat
      BY InHandIn DEF Waiting
    <3> QED
      BY <1>0, <3>1, <3>2
  <2>3. (\A d \in Consumers : \A i \in Waiting(d) : Chat(i) = Here(c) => Current(c) <= i)'
    BY <1>0, <2>2, FirstOfChat
  <2>4. ASSUME mine'[c] # None
        PROVE  /\ mine'[c].conv <= Current(c)
               /\ pc'[c] # "set" => mine'[c].conv < Current(c)
               /\ InOrder(mine'[c])
    <3>1. \/ mine'[c].conv = Current(c) /\ pc'[c] = "set" /\ mine'[c].data = {}
          \/ /\ OpenState(c) # None /\ mine'[c].conv = OpenState(c).conv
             /\ mine'[c].data \subseteq OpenState(c).data \union {<<OpenState(c).step, Current(c)>>}
      BY <1>3, <2>1, <2>4, LeadsPlace
    <3>2. cursor \in Nat /\ Current(c) \in Nat
      BY <1>0, InHandIn
    <3>3. ASSUME OpenState(c) # None
          PROVE  /\ OpenState(c).conv < Current(c) /\ InOrder(OpenState(c))
                 /\ OpenState(c).conv \in 1..cursor
      <4>1. Before(OpenState(c).conv, Here(c)) /\ InOrder(OpenState(c)) /\ OpenState(c).conv \in 1..cursor
        BY <1>0, <1>1, <3>3 DEF OrderInv, PlaceInv, OpenState
      <4>2. Current(c) \in Waiting(c) /\ Chat(Current(c)) = Here(c)
        BY <1>3, <2>1, TheCurrent DEF Waiting, Here
      <4> QED
        BY <4>1, <4>2 DEF Before
    <3>4. CASE mine'[c].conv = Current(c) /\ pc'[c] = "set" /\ mine'[c].data = {}
      BY <3>2, <3>4 DEF InOrder
    <3>5. CASE /\ OpenState(c) # None /\ mine'[c].conv = OpenState(c).conv
               /\ mine'[c].data \subseteq OpenState(c).data \union {<<OpenState(c).step, Current(c)>>}
      <4>1. \A d \in mine'[c].data : d \in OpenState(c).data \/ d[2] = Current(c)
        BY <3>5
      <4>2. InOrder(mine'[c])
        BY <3>3, <3>5, <4>1 DEF InOrder
      <4> QED
        BY <3>2, <3>3, <3>5, <4>2
    <3> QED
      BY <3>1, <3>4, <3>5
  <2> QED
    BY <2>3, <2>4
<1> QED
  BY <1>0, <1>2, <1>3, HandlerFrom

LEMMA EndedOrderStep ==
  ASSUME QInv, QInv', BotTypeOK, HandlerInv, PlaceInv, OrderInv, Shape
  PROVE  EndedOrder'
<1>0. \A i \in 1..cursor : Chat(i)' = Chat(i) /\ (Alone(i)' => Alone(i))
  BY StreamKept, HistoryKept DEF Alone
<1>1. ASSUME NEW k \in 1..cursor, Before(k, Chat(k))
      PROVE  Before(k, Chat(k))'
  <2>1. Before(k, Chat(k))' <=> \A c \in Consumers : \A i \in Waiting(c)' : Chat(i)' = Chat(k)' => k < i
    BY DEF Before
  <2> DEFINE h == Chat(k)
  <2>2. \A x : Before(k, x) => \A c \in Consumers : \A i \in Waiting(c)' : Chat(i)' = x => k < i
    <3> SUFFICES ASSUME NEW x, Before(k, x)
                 PROVE  \A c \in Consumers : \A i \in Waiting(c)' : Chat(i)' = x => k < i
      OBVIOUS
    <3>1. Before(k, x)'
      BY BeforeKept
    <3> QED
      BY <3>1 DEF Before
  <2> QED
    BY <1>0, <1>1, <2>1, <2>2
<1>2. ASSUME NEW c \in Consumers, Inside(c), pc[c] # "set", mine[c] # None, Alone(mine[c].conv)
      PROVE  /\ mine[c].conv \in 1..cursor /\ InOrder(mine[c])
             /\ Before(mine[c].conv, Chat(mine[c].conv))
  <2>1. mine[c].conv \in 1..cursor /\ Chat(mine[c].conv) = Here(c) /\ Alone(Current(c))
    BY <1>2 DEF PlaceInv, Alone, Here
  <2>2. /\ \A d \in Consumers : \A i \in Waiting(d) : Chat(i) = Here(c) => Current(c) <= i
        /\ mine[c].conv < Current(c) /\ InOrder(mine[c])
    BY <1>2, <2>1 DEF OrderInv
  <2>3. cursor \in Nat /\ Current(c) \in Nat
    BY <1>2, TheCurrent, InHandIn DEF HandlerInv, Inside
  <2>4. ASSUME NEW d \in Consumers, NEW i \in Waiting(d), Chat(i) = Here(c) PROVE mine[c].conv < i
    <3>1. i \in 1..cursor
      BY InHandIn DEF Waiting
    <3> QED
      BY <2>1, <2>2, <2>3, <2>4, <3>1
  <2> QED
    BY <2>1, <2>2, <2>4 DEF Before
<1>3. ASSUME NEW r \in results', Alone(r.conv)' PROVE Before(r.conv, Chat(r.conv))' /\ InOrder(r)
  <2>1. r.conv \in 1..cursor /\ Before(r.conv, Chat(r.conv)) /\ InOrder(r)
    <3>1. CASE r \in results
      BY <1>0, <1>3, <3>1 DEF OrderInv, PlaceInv
    <3>2. ASSUME NEW c \in Consumers, pc[c] = "commit", r = Result(mine[c])
          PROVE  r.conv \in 1..cursor /\ Before(r.conv, Chat(r.conv)) /\ InOrder(r)
      <4>1. mine[c] # None /\ Inside(c) /\ pc[c] # "set"
        BY <3>2 DEF HandlerInv, Inside
      <4>2. r.conv = mine[c].conv /\ r.data = mine[c].data /\ mine[c].conv \in 1..cursor
        BY <3>2, <4>1 DEF Result, PlaceInv
      <4>3. InOrder(mine[c]) /\ Before(mine[c].conv, Chat(mine[c].conv))
        BY <1>0, <1>2, <1>3, <4>1, <4>2
      <4> QED
        BY <4>2, <4>3 DEF InOrder
    <3> QED
      BY <3>1, <3>2, ResultFrom
  <2> QED
    BY <1>1, <2>1
<1>4. ASSUME NEW k \in cancelled', Alone(k)' PROVE Before(k, Chat(k))'
  <2>1. k \in 1..cursor /\ Before(k, Chat(k))
    <3>1. CASE k \in cancelled
      BY <1>0, <1>4, <3>1 DEF OrderInv, PlaceInv
    <3>2. ASSUME NEW c \in Consumers, pc[c] = "clear", Content(Current(c)).kind = "cancel", k = mine[c].conv
          PROVE  k \in 1..cursor /\ Before(k, Chat(k))
      <4>1. mine[c] # None /\ Inside(c) /\ pc[c] # "set" /\ k \in 1..cursor
        BY <3>2 DEF HandlerInv, Inside, PlaceInv
      <4> QED
        BY <1>0, <1>2, <1>4, <3>2, <4>1
    <3> QED
      BY <3>1, <3>2, CancelledFrom
  <2> QED
    BY <1>1, <2>1
<1> QED
  BY <1>3, <1>4 DEF EndedOrder, InOrder

LEMMA OrderStep ==
  ASSUME QInv, QInv', BotTypeOK, AnswersInv, HandlerInv, PlaceInv, OrderInv, Shape
  PROVE  OrderInv'
<1>1. StateOrder' /\ EndedOrder' /\ \A c \in Consumers : HandlerOrder(c)'
  BY StateOrderStep, HandlerOrderStep, EndedOrderStep
<1> QED
  BY <1>1 DEF OrderInv, StateOrder, HandlerOrder, EndedOrder

-----------------------------------------------------------------------------
(* How conversations end.                                                  *)

(* One handler at a time works on a chat without overlaps, and an idle     *)
(* consumer that begins another makes one.                                 *)
LEMMA OnlyOne ==
  ASSUME QInv, BotTypeOK, HandlerInv, OrderInv, NEW c \in Consumers, NEW d \in Consumers, c # d,
         Inside(c), batch[d] # <<>>, pc[d] # "reply", Here(c) = Here(d), Here(c) \notin overlap
  PROVE  ~Inside(d) /\ Overtakes(d)
<1>1. /\ batch[c] # <<>> /\ Alone(Current(c)) /\ Alone(Current(d)) /\ pc[c] # "reply"
  BY DEF HandlerInv, Inside, Alone, Here
<1>2. /\ Current(c) \in InHand(c) /\ Current(c) \in Waiting(c) /\ Current(c) \in 1..cursor
      /\ Current(d) \in InHand(d) /\ Current(d) \in Waiting(d) /\ Current(d) \in 1..cursor /\ cursor \in Nat
  BY <1>1, TheCurrent, InHandIn DEF Waiting
<1>3. Current(c) # Current(d)
  BY <1>2, TwoHands
<1>4. Current(c) <= Current(d)
  BY <1>1, <1>2 DEF OrderInv, Here
<1>5. Inside(d) => Current(d) <= Current(c)
  BY <1>1, <1>2 DEF OrderInv, Here
<1>6. Current(c) < Current(d)
  BY <1>2, <1>3, <1>4
<1>7. ~Inside(d)
  BY <1>2, <1>3, <1>4, <1>5
<1>8. Chat(Current(c)) = Here(d)
  BY DEF Here
<1> QED
  BY <1>1, <1>2, <1>6, <1>7, <1>8 DEF Overtakes

(* A handler that is to clear what it has committed does so, or dies.      *)
LEMMA ClearingFrom ==
  ASSUME QInv, BotTypeOK, HandlerInv, Shape, NEW c \in Consumers, pc[c] = "clear", mine[c] # None,
         NEW r \in results, r.conv = mine[c].conv
  PROVE  Same(c) \/ state'[Here(c)] = None \/ r.conv \in interrupted'
<1>0. Here(c) \in Chats
  BY TheCurrent DEF HandlerInv
<1>1. CASE Passing
  BY <1>1 DEF Passing, Same
<1>2. ASSUME NEW d \in Consumers, NEW p, NEW m, Goto(d, p, m), d # c PROVE Same(c)
  BY <1>2, GotoIs DEF Same
<1>3. CASE \E d \in Consumers : Opened(d)
  BY <1>2, <1>3 DEF Opened, Handling
<1>4. CASE \E d \in Consumers : SetState(d) \/ Commit(d)
  BY <1>2, <1>4 DEF SetState, Commit
<1>5. CASE \E d \in Consumers : ClearState(d) \/ ClearAgain(d)
  BY <1>0, <1>2, <1>5 DEF ClearState, ClearAgain, BotTypeOK
<1>6. CASE \E d \in Consumers : Dropped(d)
  <2>1. Content(Current(c)).kind \in {"text", "cancel"}
    BY DEF HandlerInv
  <2> QED
    BY <1>2, <1>6, <2>1 DEF Dropped
<1>7. CASE \E d \in Consumers : Left(d)
  BY <1>2, <1>7 DEF Left, Leave
<1>8. CASE \E h \in Chats : Forget(h)
  BY <1>8 DEF Forget, Same
<1> QED
  BY <1>1, <1>3, <1>4, <1>5, <1>6, <1>7, <1>8 DEF Shape

StateEnd == \A h \in Chats \ overlap : \A r \in results :
              state[h].conv = r.conv => r.conv \in interrupted \/ Clearing(r.conv)
HandlerEnd(c) ==
  Inside(c) /\ Alone(Current(c)) /\ mine[c] # None
  /\ (pc[c] = "clear" => Content(Current(c)).kind = "cancel") =>
    /\ \A r \in results : r.conv = mine[c].conv => r.conv \in interrupted
    /\ mine[c].conv \notin cancelled

LEMMA StateEndStep ==
  ASSUME QInv, BotTypeOK, HandlerInv, PlaceInv, PlaceInv', EndInv, Shape
  PROVE  StateEnd'
<1> SUFFICES ASSUME NEW h \in Chats, h \notin overlap', NEW r \in results', state'[h].conv = r.conv
             PROVE  r.conv \in interrupted' \/ Clearing(r.conv)'
  BY DEF StateEnd, Clearing
<1>0. h \notin overlap /\ interrupted \subseteq interrupted'
  BY HistoryKept
<1>1. r.conv \in 1..cursor' /\ cursor' \in Nat
  BY StreamKept DEF PlaceInv
<1>2. state'[h] # None
  BY <1>1 DEF None
<1>3. CASE state'[h] = state[h]
  <2>1. state[h].conv = r.conv /\ Chat(r.conv) = h
    BY <1>2, <1>3 DEF PlaceInv
  <2>2. CASE r \in results
    <3>1. CASE r.conv \in interrupted
      BY <1>0, <3>1
    <3>2. ASSUME NEW c \in Consumers, pc[c] = "clear", mine[c].conv = r.conv
          PROVE  r.conv \in interrupted' \/ Clearing(r.conv)'
      <4>1. mine[c] # None
        BY <1>1, <3>2 DEF None
      <4>2. Here(c) = h
        BY <2>1, <3>2, <4>1 DEF PlaceInv
      <4>3. Same(c) \/ r.conv \in interrupted'
        BY <1>2, <2>2, <3>2, <4>1, <4>2, ClearingFrom
      <4> QED
        BY <3>2, <4>3 DEF Same, Clearing
    <3> QED
      BY <1>0, <2>1, <2>2, <3>1, <3>2 DEF EndInv, Clearing
  <2>3. ASSUME NEW c \in Consumers, pc'[c] = "clear", mine'[c] = mine[c], r = Result(mine[c])
        PROVE  Clearing(r.conv)'
    <3>1. mine'[c].conv = r.conv
      BY <2>3 DEF Result
    <3> QED
      BY <2>3, <3>1 DEF Clearing
  <2> QED
    BY <2>2, <2>3, ResultFrom
<1>4. ASSUME NEW c \in Consumers, pc[c] = "set", Here(c) = h, state'[h] = mine[c], results' = results
      PROVE  r.conv \in interrupted'
  <2>1. Inside(c) /\ Alone(Current(c)) /\ mine[c] # None /\ pc[c] # "clear"
    BY <1>0, <1>4 DEF Inside, Alone, Here, HandlerInv
  <2> QED
    BY <1>0, <1>4, <2>1 DEF EndInv
<1> QED
  BY <1>2, <1>3, <1>4, StateFrom

LEMMA HandlerEndStep ==
  ASSUME QInv, BotTypeOK, AnswersInv, HandlerInv, PlaceInv, OrderInv, EndInv, Shape, NEW c \in Consumers
  PROVE  HandlerEnd(c)'
<1> SUFFICES ASSUME Inside(c)', Alone(Current(c))', mine'[c] # None,
                    pc'[c] = "clear" => Content(Current(c))'.kind = "cancel"
             PROVE  /\ \A r \in results' : r.conv = mine'[c].conv => r.conv \in interrupted'
                    /\ mine'[c].conv \notin cancelled'
  BY DEF HandlerEnd
<1>0. /\ pc'[c] \in {"set", "commit", "clear"}
      /\ Current(c)' = Current(c) /\ Current(c) \in 1..cursor /\ Here(c)' = Here(c) /\ Here(c) \in Chats
      /\ Content(Current(c))' = Content(Current(c))
  BY CurrentKept DEF Inside
<1>1. /\ Here(c) \notin overlap' /\ Here(c) \notin overlap /\ Alone(Current(c))
      /\ interrupted \subseteq interrupted'
  <2>1. Here(c)' \notin overlap'
    BY DEF Alone, Here
  <2> QED
    BY <1>0, <2>1, HistoryKept DEF Alone, Here
<1>2. CASE Same(c)
  <2>1. Inside(c) /\ mine[c] # None /\ mine'[c] = mine[c] /\ pc'[c] = pc[c]
        /\ (pc[c] = "clear" => Content(Current(c)).kind = "cancel")
    BY <1>0, <1>2 DEF Same, Inside
  <2>2. /\ \A r \in results : r.conv = mine[c].conv => r.conv \in interrupted
        /\ mine[c].conv \notin cancelled
    BY <1>1, <2>1 DEF EndInv
  <2>3. ASSUME NEW d \in Consumers, d # c, Inside(d), mine[d] # None PROVE mine[d].conv # mine[c].conv
    <3>1. Here(d) # Here(c)
      BY <1>1, <2>1, <2>3, OnlyOne DEF HandlerInv, Inside
    <3> QED
      BY <2>1, <2>3, <3>1 DEF PlaceInv
  <2>4. ASSUME NEW r \in results', r.conv = mine[c].conv PROVE r.conv \in interrupted'
    <3>1. CASE r \in results
      BY <1>1, <2>2, <2>4, <3>1
    <3>2. ASSUME NEW d \in Consumers, pc[d] = "commit", pc'[d] = "clear", r = Result(mine[d]) PROVE FALSE
      <4>1. d # c /\ Inside(d) /\ mine[d] # None
        BY <2>1, <3>2 DEF Inside, HandlerInv
      <4>2. r.conv = mine[d].conv
        BY <3>2 DEF Result
      <4> QED
        BY <2>3, <2>4, <4>1, <4>2
    <3> QED
      BY <3>1, <3>2, ResultFrom
  <2>5. mine[c].conv \notin cancelled'
    <3>1. ASSUME NEW d \in Consumers, pc[d] = "clear", pc'[d] = "reply", Content(Current(d)).kind = "cancel"
          PROVE  mine[d].conv # mine[c].conv
      <4>1. d # c /\ Inside(d) /\ mine[d] # None
        BY <2>1, <3>1 DEF Inside, HandlerInv
      <4> QED
        BY <2>3, <4>1
    <3> QED
      BY <2>2, <3>1, CancelledFrom
  <2> QED
    BY <2>1, <2>4, <2>5
<1>3. CASE pc[c] = "idle" /\ Opened(c) /\ Leads(c, pc'[c], mine'[c])
  <2>1. /\ batch[c] # <<>> /\ ~Overtakes(c)
        /\ UNCHANGED <<results, interrupted, cancelled>>
    BY <1>1, <1>3 DEF Opened, Handling
  <2>2. Current(c) \in Waiting(c) /\ Chat(Current(c)) = Here(c) /\ Current(c) \in Nat
    BY <1>3, <2>1, TheCurrent, InHandIn DEF Waiting, Here
  <2>3. ~Before(Current(c), Here(c))
    BY <2>2 DEF Before
  <2>4. CASE mine'[c].conv = Current(c)
    <3>1. \A r \in results : r.conv # Current(c)
      BY <1>1, <2>2, <2>3 DEF OrderInv
    <3>2. Current(c) \notin cancelled
      BY <1>1, <2>2, <2>3 DEF OrderInv
    <3> QED
      BY <2>1, <2>4, <3>1, <3>2
  <2>5. CASE OpenState(c) # None /\ mine'[c].conv = OpenState(c).conv
    <3>1. state[Here(c)] # None /\ mine'[c].conv = state[Here(c)].conv /\ Chat(state[Here(c)].conv) = Here(c)
          /\ state[Here(c)].conv \in 1..cursor
      BY <1>0, <2>5 DEF OpenState, PlaceInv
    <3>2. mine'[c].conv \notin cancelled
      BY <1>0, <1>1, <3>1 DEF EndInv, EndsOnce
    <3>3. ASSUME NEW r \in results, r.conv = mine'[c].conv PROVE r.conv \in interrupted
      <4>1. r.conv \in interrupted \/ Clearing(r.conv)
        BY <1>0, <1>1, <3>1, <3>3 DEF EndInv
      <4>2. ASSUME NEW d \in Consumers, pc[d] = "clear", mine[d].conv = r.conv PROVE FALSE
        <5>1. mine[d] # None /\ d # c /\ Inside(d)
          BY <1>3, <3>1, <3>3, <4>2 DEF None, Inside
        <5>2. Here(d) = Here(c)
          BY <3>1, <3>3, <4>2, <5>1 DEF PlaceInv
        <5> QED
          BY <1>1, <1>3, <2>1, <5>1, <5>2, OnlyOne
      <4> QED
        BY <4>1, <4>2 DEF Clearing
    <3> QED
      BY <2>1, <3>2, <3>3
  <2> QED
    BY <1>3, <2>1, <2>4, <2>5, LeadsPlace
<1>4. CASE pc[c] = "commit" /\ pc'[c] = "clear"
  <2>1. Content(Current(c)).kind = "text"
    BY <1>4 DEF HandlerInv
  <2> QED
    BY <1>0, <1>4, <2>1
<1> QED
  BY <1>0, <1>2, <1>3, <1>4, HandlerFrom

LEMMA EndsOnceStep ==
  ASSUME QInv, BotTypeOK, HandlerInv, PlaceInv, PlaceInv', EndInv, Shape
  PROVE  EndsOnce'
<1>0. /\ \A i \in 1..cursor : Chat(i)' = Chat(i)
      /\ overlap \subseteq overlap' /\ interrupted \subseteq interrupted'
      /\ results \subseteq results' /\ cancelled \subseteq cancelled'
  BY StreamKept, HistoryKept
<1>1. \A k \in 1..cursor : Excused(k) => Excused(k)'
  BY <1>0 DEF Excused
<1>2. ASSUME NEW c \in Consumers, Inside(c), mine[c] # None,
             pc[c] = "clear" => Content(Current(c)).kind = "cancel"
      PROVE  /\ mine[c].conv \in 1..cursor /\ Chat(mine[c].conv) = Here(c)
             /\ \A r \in results : r.conv = mine[c].conv => Excused(r.conv)
             /\ mine[c].conv \in cancelled => Excused(mine[c].conv) /\ Here(c) \in overlap
  <2>1. mine[c].conv \in 1..cursor /\ Chat(mine[c].conv) = Here(c)
    BY <1>2 DEF PlaceInv
  <2>2. CASE Here(c) \in overlap
    BY <2>1, <2>2 DEF Excused
  <2>3. CASE Here(c) \notin overlap
    <3>1. Alone(Current(c))
      BY <2>3 DEF Alone, Here
    <3> QED
      BY <1>2, <2>1, <3>1 DEF EndInv, Excused
  <2> QED
    BY <2>2, <2>3
<1>3. ASSUME NEW c \in Consumers, pc[c] = "commit"
      PROVE  /\ Result(mine[c]).conv = mine[c].conv /\ mine[c].conv \in 1..cursor
             /\ \A r \in results : r.conv = mine[c].conv => Excused(r.conv)
             /\ mine[c].conv \in cancelled => Excused(mine[c].conv)
  <2>1. Inside(c) /\ mine[c] # None
    BY <1>3 DEF Inside, HandlerInv
  <2> QED
    BY <1>2, <1>3, <2>1 DEF Result
<1>4. \A r \in results : r.conv \in 1..cursor
  BY DEF PlaceInv
<1>5. ASSUME NEW r \in results', NEW q \in results', r # q, r.conv = q.conv PROVE Excused(r.conv)'
  <2>1. CASE results' = results
    BY <1>1, <1>4, <1>5, <2>1 DEF EndInv, EndsOnce
  <2>2. ASSUME NEW c \in Consumers, pc[c] = "commit", results' = results \union {Result(mine[c])}
        PROVE  Excused(r.conv)'
    <3>1. r \in results \/ q \in results
      BY <1>5, <2>2
    <3>2. CASE r \in results /\ q \in results
      BY <1>1, <1>4, <1>5, <3>2 DEF EndInv, EndsOnce
    <3>3. CASE r \notin results \/ q \notin results
      <4>1. r = Result(mine[c]) \/ q = Result(mine[c])
        BY <2>2, <3>3
      <4>2. Excused(r.conv) /\ r.conv \in 1..cursor
        BY <1>3, <1>4, <1>5, <2>2, <3>1, <4>1
      <4> QED
        BY <1>1, <4>2
    <3> QED
      BY <3>2, <3>3
  <2> QED
    BY <2>1, <2>2, ResultFrom
<1>6. ASSUME NEW r \in results', r.conv \in cancelled' PROVE Excused(r.conv)'
  <2>1. CASE r \in results /\ r.conv \in cancelled
    BY <1>1, <1>4, <2>1 DEF EndInv, EndsOnce
  <2>2. ASSUME NEW c \in Consumers, pc[c] = "commit", r = Result(mine[c]), cancelled' = cancelled
        PROVE  Excused(r.conv)'
    BY <1>1, <1>3, <1>6, <2>2
  <2>3. ASSUME NEW c \in Consumers, pc[c] = "clear", Content(Current(c)).kind = "cancel",
               r.conv = mine[c].conv, r \in results
        PROVE  Excused(r.conv)'
    <3>1. Inside(c) /\ mine[c] # None
      BY <2>3 DEF Inside, HandlerInv
    <3> QED
      BY <1>1, <1>2, <2>3, <3>1
  <2>4. CASE results' = results
    BY <1>6, <2>1, <2>3, <2>4, CancelledFrom
  <2>5. CASE results' # results
    BY <1>6, <2>1, <2>2, <2>5, ResultFrom
  <2> QED
    BY <2>4, <2>5
<1>7. ASSUME NEW h \in Chats, state'[h].conv \in cancelled' PROVE h \in overlap'
  <2>1. state'[h] # None
    <3>1. state'[h].conv \in 1..cursor' /\ cursor' \in Nat
      BY <1>7, StreamKept DEF PlaceInv
    <3> QED
      BY <3>1 DEF None
  <2>2. CASE state'[h] = state[h]
    <3>1. state[h].conv \in 1..cursor /\ Chat(state[h].conv) = h
      BY <2>1, <2>2 DEF PlaceInv
    <3>2. CASE state[h].conv \in cancelled
      BY <1>0, <3>2 DEF EndInv, EndsOnce
    <3>3. ASSUME NEW c \in Consumers, pc[c] = "clear", Content(Current(c)).kind = "cancel",
                 state' = [state EXCEPT ![Here(c)] = None], state[h].conv = mine[c].conv
          PROVE  FALSE
      <4>1. Here(c) = h
        BY <3>1, <3>3 DEF HandlerInv, PlaceInv
      <4> QED
        BY <2>1, <3>3, <4>1 DEF BotTypeOK
    <3> QED
      BY <1>7, <2>2, <3>2, <3>3, CancelledFrom
  <2>3. ASSUME NEW c \in Consumers, pc[c] = "set", Here(c) = h, state'[h] = mine[c], pc'[c] = "reply"
        PROVE  h \in overlap'
    <3>1. cancelled' = cancelled
      BY <2>3, CancelledFrom DEF Same
    <3>2. Inside(c) /\ mine[c] # None /\ pc[c] # "clear"
      BY <2>3 DEF Inside, HandlerInv
    <3> QED
      BY <1>0, <1>2, <1>7, <2>3, <3>1, <3>2
  <2> QED
    BY <2>1, <2>2, <2>3, StateFrom
<1> QED
  BY <1>5, <1>6, <1>7 DEF EndsOnce

LEMMA EndStep ==
  ASSUME QInv, BotTypeOK, AnswersInv, HandlerInv, PlaceInv, PlaceInv', OrderInv, EndInv, Shape
  PROVE  EndInv'
<1>1. StateEnd' /\ EndsOnce' /\ \A c \in Consumers : HandlerEnd(c)'
  BY StateEndStep, HandlerEndStep, EndsOnceStep
<1> QED
  BY <1>1 DEF EndInv, StateEnd, HandlerEnd

-----------------------------------------------------------------------------
(* The theorems.                                                           *)

LEMMA BotStart == BotInit => BotInv
<1> SUFFICES ASSUME BotInit PROVE BotInv
  OBVIOUS
<1>1. QInv
  BY BotStarts, StartHolds
<1>2. /\ pc = [c \in Consumers |-> "idle"] /\ mine = [c \in Consumers |-> None]
      /\ results = {} /\ overlap = {} /\ interrupted = {} /\ cancelled = {}
      /\ says \in [Updates -> [chat: Chats, content: Contents]]
      /\ state \in [Chats -> States \union {None}]
  BY StartAssumption DEF BotInit
<1>3. BotTypeOK
  BY <1>1, <1>2 DEF BotTypeOK, QInv
<1>4. ASSUME NEW h \in Chats, state[h] # None
      PROVE  /\ WellAsked(state[h]) /\ InOrder(state[h])
             /\ state[h].conv \in 1..cursor /\ Chat(state[h].conv) = h
  <2>1. PICK s \in Starts : says = s.says /\ state = s.state /\ QueueStart(s.backlog, s.done)
    BY DEF BotInit
  <2>2. stream = s.backlog /\ cursor = s.done
    BY <2>1 DEF QueueStart
  <2>3. Begun(s, h)
    BY <1>4, <2>1, StartAssumption
  <2> QED
    BY <2>1, <2>2, <2>3 DEF Begun, WellAsked, InOrder, Chat
<1>5. \A c \in Consumers : Waiting(c) = {} /\ ~Inside(c)
  <2>1. \A c \in Consumers : InHand(c) = {}
    BY DEF BotInit, QueueStart, InHand
  <2> QED
    BY <1>2, <2>1 DEF Waiting, Inside
<1>6. HandlerInv /\ AnswersInv /\ PlaceInv
  BY <1>2, <1>4 DEF HandlerInv, AnswersInv, PlaceInv
<1>7. OrderInv
  BY <1>2, <1>4, <1>5 DEF OrderInv, Before
<1>8. EndInv
  BY <1>2, <1>5 DEF EndInv, EndsOnce
<1> QED
  BY <1>1, <1>3, <1>6, <1>7, <1>8 DEF BotInv

LEMMA BotStep == BotInv /\ [BotNext]_botVars => BotInv'
<1> SUFFICES ASSUME BotInv, [BotNext]_botVars PROVE BotInv'
  OBVIOUS
<1> USE DEF BotInv
<1>1. QInv'
  BY QueueStep, BotQueue DEF botVars
<1>2. CASE BotNext
  <2>1. Shape
    BY <1>2, StepShape
  <2>2. BotTypeOK' /\ HandlerInv' /\ AnswersInv' /\ PlaceInv'
    BY <1>1, <2>1, BotTypes, HandlerStep, AnswersStep, PlaceStep
  <2>3. OrderInv' /\ EndInv'
    BY <1>1, <2>1, <2>2, OrderStep, EndStep
  <2> QED
    BY <1>1, <2>2, <2>3
<1>3. CASE UNCHANGED botVars
  <2> USE <1>3 DEF botVars, queueVars, groupVars, webVars, chatVars
  <2>1. BotTypeOK'
    <3>1. QueueTypeOK'
      BY <1>1 DEF QInv
    <3> QED
      BY <3>1 DEF BotTypeOK
  <2>2. /\ \A i : Chat(i)' = Chat(i) /\ Content(i)' = Content(i)
        /\ \A c \in Consumers : /\ Current(c)' = Current(c) /\ Here(c)' = Here(c)
                               /\ Content(Current(c))' = Content(Current(c)) /\ Inside(c)' = Inside(c)
                               /\ Waiting(c)' = Waiting(c)
    BY DEF Chat, Content, Current, Here, Inside, Waiting, InHand
  <2>3. HandlerInv' /\ AnswersInv' /\ PlaceInv'
    BY <2>2 DEF HandlerInv, AnswersInv, PlaceInv, WellAsked, Complete, Chat
  <2>4. OrderInv'
    BY <2>2 DEF OrderInv, Before, Alone, InOrder, Chat
  <2>5. EndInv'
    BY <2>2 DEF EndInv, EndsOnce, Excused, Alone, Clearing, Chat
  <2> QED
    BY <1>1, <2>1, <2>3, <2>4, <2>5
<1> QED
  BY <1>2, <1>3

LEMMA BotSafe == BotSpec => []BotInv
BY BotStart, BotStep, PTL DEF BotSpec

(* The types of the bot's variables.                                       *)
THEOREM BotTypeCorrect == BotSpec => []BotTypeOK
<1>1. BotInv => BotTypeOK
  BY DEF BotInv
<1> QED
  BY <1>1, BotSafe, PTL

(* telegram_gateway.py:24 for the whole bot: an update Telegram has been   *)
(* told is in, is in the stream, on its way, or one of the named losses.   *)
THEOREM NothingVanishes == BotSpec => []NoUpdateVanishes
<1>1. QInv => NoUpdateVanishes
  BY QueueSafe
<1> QED
  BY <1>1, BotQInv, PTL

(* The dedupe key lets an update into the stream once, except one of whose *)
(* writes Redis reported a failure after carrying it out: the gateway      *)
(* frees the mark and Telegram's next post queues that one again           *)
(* (telegram_gateway.py:31-46).                                            *)
THEOREM OnceInTheStream == BotSpec => []QueuedOnce
<1>1. QInv => QueuedOnce
  BY QueueSafe
<1> QED
  BY <1>1, BotQInv, PTL

(* The group gives every entry to one consumer, once.                      *)
THEOREM OneHandlerPerEntry == BotSpec => []EachEntryOnce
<1>1. QInv => EachEntryOnce
  BY QueueSafe
<1> QED
  BY <1>1, BotQInv, PTL

(* No flow skips or repeats a question, and without overlapping handlers   *)
(* every answer is younger than its conversation (continue_*, plsel, plsh).*)
THEOREM AllQuestionsAnswered == BotSpec => []EveryQuestionAnswered
<1>1. BotInv => EveryQuestionAnswered
  BY DEF BotInv, AnswersInv, OrderInv, WellAsked, Alone, InOrder, EveryQuestionAnswered
<1> QED
  BY <1>1, BotSafe, PTL

(* A conversation comes to one end: committed once, or cancelled           *)
(* (continue_state, clear_state).                                          *)
THEOREM ConversationsEndOnce == BotSpec => []EndsOnce
<1>1. BotInv => EndsOnce
  BY DEF BotInv, EndInv
<1> QED
  BY <1>1, BotSafe, PTL
=============================================================================
