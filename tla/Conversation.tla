----------------------------- MODULE Conversation ----------------------------
(***************************************************************************)
(* What the bot does with an update: questions asked one after the other,  *)
(* whose answers are kept in Redis (bot-state:<chat>, with a TTL) until    *)
(* the last one makes an order, a quote, a plan, ...  A handler reads the  *)
(* state, decides, writes the state or commits to the database and clears  *)
(* the state, and replies; each of these calls is a step, two consumers    *)
(* may handle updates of one chat at once, and any call may raise.  The    *)
(* updates come through Gateway.  What a commit does in the database is    *)
(* the business of Orders and Approvals.                                   *)
(***************************************************************************)
EXTENDS Gateway

CONSTANTS
  Chats,
  Starts    \* bound: what the updates say, which of them are queued when the consumers
            \* start, how many are handled, and what bot-state:<chat> holds

(* The flows, and their questions in order.  An order of a plan is the     *)
(* flow "order" with a plan_id, which skips the two questions about size.  *)
Questions == [
  reseller   |-> <<"name", "slug", "telegram_id", "price", "credit">>,
  order      |-> <<"business_name", "user_count", "daily_gib", "note">>,
  plan_order |-> <<"business_name", "note">>,
  quote      |-> <<"amount", "credit", "price", "instructions", "pg_admin_id">>,
  category   |-> <<"name", "description">>,
  plan       |-> <<"panel", "shelf", "name", "price_per_gib_irr", "daily_gib", "duration_days",
                   "user_count", "credit_limit_irr", "instructions">>,
  attach     |-> <<"pg_admin_id">>,
  credit     |-> <<"amount">>]
Flows == DOMAIN Questions
ByButton == {"panel", "shelf"}
NoFlow == "none"

(* A button that begins a flow, picks a panel or a shelf, or decides an    *)
(* order; a text, which may be the label of a menu entry that begins one.  *)
Contents ==
  [kind: {"begin"}, flow: Flows] \union [kind: {"pick"}, question: ByButton]
    \union [kind: {"decide", "cancel"}] \union [kind: {"text"}, flow: {NoFlow, "reseller", "credit"}]

(* A conversation is known by the entry that began it; data holds the      *)
(* entries taken for answers, by the number of their question.             *)
None == [conv |-> 0, step |-> 0, data |-> {}]
States == [conv: Nat, flow: Flows, step: Nat, data: SUBSET (Nat \X Nat)]
Fresh(i, f) == [conv |-> i, flow |-> f, step |-> 1, data |-> {}]
Question(s) == Questions[s.flow][s.step]
IsLast(s) == s.step = Len(Questions[s.flow])
Answered(s, i) == [s EXCEPT !.data = @ \union {<<s.step, i>>}, !.step = @ + 1]

(* One answer to each of the first n questions.                            *)
Complete(data, n) ==
  /\ {d[1] : d \in data} = 1..n
  /\ \A d, e \in data : d[1] = e[1] => d = e

(* A conversation the bot was stopped in the middle of.                    *)
Begun(s, h) == LET open == s.state[h] IN
  /\ open.conv \in 1..s.done /\ s.says[s.backlog[open.conv]].chat = h
  /\ open.step \in 1..Len(Questions[open.flow]) /\ Complete(open.data, open.step - 1)
  /\ \A d \in open.data : open.conv < d[2] /\ d[2] <= s.done

ASSUME StartAssumption == \A s \in Starts :
  /\ s.says \in [Updates -> [chat: Chats, content: Contents]]
  /\ s.backlog \in Backlogs /\ s.done \in 0..Len(s.backlog)
  /\ s.state \in [Chats -> States \union {None}]
  /\ \A h \in Chats : s.state[h] # None => Begun(s, h)

VARIABLES
  says,       \* what each update says, and in which chat
  state,      \* bot-state:<chat>
  pc,         \* next call of a consumer's handler
  mine,       \* the state it has read or is about to write
  results,    \* conversations that came to their commit, with their answers
  overlap,    \* history: chats in which a handler began before an earlier one was done
  interrupted,\* history: conversations committed by a handler that did not clear them
  cancelled   \* history: conversations ended by /cancel

chatVars == <<state, results, overlap, interrupted, cancelled>>
botVars == <<queueVars, says, chatVars, pc, mine>>

Chat(i) == says[stream[i]].chat
Content(i) == says[stream[i]].content
Here(c) == Chat(Current(c))

BotInit ==
  /\ \E s \in Starts : says = s.says /\ state = s.state /\ QueueStart(s.backlog, s.done)
  /\ pc = [c \in Consumers |-> "idle"]
  /\ mine = [c \in Consumers |-> None]
  /\ results = {} /\ overlap = {} /\ interrupted = {} /\ cancelled = {}

-----------------------------------------------------------------------------
(* The first call of a handler, and what it leads to.                      *)

Goto(c, p, s) == pc' = [pc EXCEPT ![c] = p] /\ mine' = [mine EXCEPT ![c] = s]

Inside(d) == pc[d] \in {"set", "commit", "clear"}

(* Another consumer is not done with an earlier entry of the chat.         *)
Overtakes(c) ==
  \E d \in Consumers : \E i \in InHand(d) :
    /\ i < Current(c) /\ Chat(i) = Here(c)
    /\ ~(pc[d] = "reply" /\ i = Current(d))

Handling(c) ==
  /\ pc[c] = "idle" /\ batch[c] # <<>>
  /\ overlap' = IF Overtakes(c) THEN overlap \union {Here(c)} ELSE overlap
  /\ UNCHANGED <<queueVars, says, state, results, interrupted, cancelled>>

(* begin_*(): a new state replaces whatever was there.  The plan may be    *)
(* sold out, the panel missing, or the permission.                         *)
Begin(c) ==
  /\ Handling(c)
  /\ Content(Current(c)).kind = "begin"
  /\ \/ Goto(c, "set", Fresh(Current(c), Content(Current(c)).flow))
     \/ Goto(c, "reply", None)

PickAnywhere(c) ==  \* fault: the button does not look at the step
  /\ Handling(c)
  /\ Content(Current(c)).kind = "pick"
  /\ LET s == state[Here(c)]
         at == IF Content(Current(c)).question = "panel" THEN 1 ELSE 2
     IN IF s # None /\ s.flow = "plan"
        THEN Goto(c, "set", [s EXCEPT !.data = @ \union {<<at, Current(c)>>}, !.step = at + 1])
        ELSE Goto(c, "reply", None)

(* plsel, plsh: buttons that answer, on a screen of any age.               *)
Pick(c) ==
  /\ Handling(c)
  /\ Content(Current(c)).kind = "pick"
  /\ LET s == state[Here(c)]
     IN IF s # None /\ s.flow = "plan" /\ Question(s) = Content(Current(c)).question
        THEN Goto(c, "set", Answered(s, Current(c)))
        ELSE Goto(c, "reply", None)

(* An approval or rejection without a question: apply_approval() clears    *)
(* the state of the chat, whatever flow it belongs to.                     *)
Decide(c) ==
  /\ Handling(c)
  /\ Content(Current(c)).kind = "decide"
  /\ Goto(c, "clear", None)

MenuAnything(c) ==  \* fault: a text that is no label begins a conversation
  /\ Handling(c)
  /\ Content(Current(c)).kind \in {"text", "cancel"}
  /\ state[Here(c)] = None
  /\ \/ /\ Content(Current(c)).kind = "text"
        /\ Goto(c, "set", Fresh(Current(c), Content(Current(c)).flow))
     \/ Goto(c, "reply", None)

(* A text while no question is open: a label of the menu, or nothing.      *)
Menu(c) ==
  /\ Handling(c)
  /\ Content(Current(c)).kind \in {"text", "cancel"}
  /\ state[Here(c)] = None
  /\ \/ /\ Content(Current(c)).kind = "text" /\ Content(Current(c)).flow # NoFlow
        /\ Goto(c, "set", Fresh(Current(c), Content(Current(c)).flow))
     \/ Goto(c, "reply", None)

(* A text while a question is open is its answer, unless it does not fit.  *)
Answer(c) ==
  LET s == state[Here(c)]
  IN /\ Handling(c)
     /\ Content(Current(c)).kind = "text"
     /\ s # None
     /\ \/ Goto(c, "reply", None)
        \/ /\ Question(s) \notin ByButton
           /\ Goto(c, IF IsLast(s) THEN "commit" ELSE "set", Answered(s, Current(c)))

Cancel(c) ==
  /\ Handling(c)
  /\ Content(Current(c)).kind = "cancel"
  /\ state[Here(c)] # None
  /\ Goto(c, "clear", state[Here(c)])

-----------------------------------------------------------------------------
(* The calls that follow.                                                  *)

SetState(c) ==
  /\ pc[c] = "set"
  /\ state' = [state EXCEPT ![Here(c)] = mine[c]]
  /\ Goto(c, "reply", None)
  /\ UNCHANGED <<queueVars, says, results, overlap, interrupted, cancelled>>

CommitOnly(c) ==  \* fault: the answered conversation is not cleared
  /\ pc[c] = "commit"
  /\ results' = results \union
       {[conv |-> mine[c].conv, flow |-> mine[c].flow, data |-> mine[c].data]}
  /\ Goto(c, "reply", None)
  /\ UNCHANGED <<queueVars, says, state, overlap, interrupted, cancelled>>

(* place_order, apply_quote, create_shelf, save_plan, create_reseller, a   *)
(* funding request, or the approval with its admin id.                     *)
Commit(c) ==
  /\ pc[c] = "commit"
  /\ results' = results \union
       {[conv |-> mine[c].conv, flow |-> mine[c].flow, data |-> mine[c].data]}
  /\ Goto(c, "clear", mine[c])
  /\ UNCHANGED <<queueVars, says, state, overlap, interrupted, cancelled>>

(* The commit is refused: abort_flow(), or the handlers of attach and      *)
(* reseller, clear the state.  In the flow "credit" the refusal escapes.   *)
Refused(c) ==
  /\ pc[c] = "commit"
  /\ mine[c].flow # "credit"
  /\ Goto(c, "clear", None)
  /\ UNCHANGED <<queueVars, says, chatVars>>

(* DEL of the state, after a commit, a refusal, a decision or /cancel.     *)
ClearState(c) ==
  /\ pc[c] = "clear"
  /\ state' = [state EXCEPT ![Here(c)] = None]
  /\ cancelled' = IF Content(Current(c)).kind = "cancel"
                  THEN cancelled \union {mine[c].conv} ELSE cancelled
  /\ Goto(c, "reply", None)
  /\ UNCHANGED <<queueVars, says, results, overlap, interrupted>>

(* The try of the flow "reseller" holds its reply as well: when that       *)
(* fails, the state of the chat is cleared a second time.                  *)
ClearAgain(c) ==
  /\ pc[c] = "clear" /\ Content(Current(c)).kind = "text"
  /\ mine[c] # None /\ mine[c].flow = "reseller"
  /\ state' = [state EXCEPT ![Here(c)] = None]
  /\ Goto(c, "clear", None)
  /\ UNCHANGED <<queueVars, says, results, overlap, interrupted, cancelled>>

(* The state is older than STATE_TTL.                                      *)
Forget(h) ==
  /\ state[h] # None
  /\ state' = [state EXCEPT ![h] = None]
  /\ UNCHANGED <<queueVars, says, results, overlap, interrupted, cancelled, pc, mine>>

-----------------------------------------------------------------------------
(* The end of a handler.                                                   *)

Leave(c) ==
  /\ Goto(c, "idle", None)
  /\ interrupted' = IF pc[c] = "clear" /\ \E r \in results : r.conv = mine[c].conv
                    THEN interrupted \union {mine[c].conv} ELSE interrupted
  /\ UNCHANGED <<says, state, results, overlap, cancelled>>

(* Redis, Telegram or the database raises in the handler of a button:      *)
(* handle_callback() says so and returns.                                  *)
Caught(c) ==
  /\ Inside(c)
  /\ Content(Current(c)).kind \in {"begin", "pick", "decide"}
  /\ Goto(c, "reply", None)
  /\ UNCHANGED <<queueVars, says, chatVars>>

Replied(c) == pc[c] = "reply" /\ Leave(c) /\ (Finish(c) \/ AckFails(c))

(* In the handler of a text it escapes; so does a reply that fails.  The   *)
(* flow "reseller" catches whatever its commit raises.                     *)
Escapes(c) ==
  /\ pc[c] # "idle"
  /\ Content(Current(c)).kind \in {"text", "cancel"} \/ pc[c] = "reply"
  /\ pc[c] = "commit" => mine[c].flow # "reseller"
  /\ Leave(c) /\ Raise(c)

(* A consumer dies, in a handler or between two.                           *)
Killed(c) == Leave(c) /\ Die(c)

Fetch(c) == (Read(c) \/ ReadLost(c)) /\ UNCHANGED <<says, chatVars, pc, mine>>

Handle(c) ==
  \/ Begin(c) \/ Pick(c) \/ Decide(c) \/ Menu(c) \/ Answer(c) \/ Cancel(c)
  \/ SetState(c) \/ Commit(c) \/ Refused(c) \/ ClearState(c) \/ ClearAgain(c)
  \/ Caught(c) \/ Replied(c) \/ Escapes(c)

BotNext ==
  \/ \E u \in Updates : Webhook(u) /\ UNCHANGED <<says, chatVars, pc, mine>>
  \/ \E c \in Consumers : Fetch(c) \/ Handle(c) \/ Killed(c)
  \/ \E h \in Chats : Forget(h)

BotSpec == BotInit /\ [][BotNext]_botVars

(* Telegram posts until it is answered, a request that runs goes on or     *)
(* fails, and a consumer reads and handles for ever (restart:              *)
(* unless-stopped); nobody has to fail.                                    *)
Fairness ==
  /\ \A u \in Updates : WF_botVars(Webhook(u) /\ UNCHANGED <<says, chatVars, pc, mine>>)
  /\ \A c \in Consumers : WF_botVars(Fetch(c) \/ Handle(c))
FairBotSpec == BotSpec /\ Fairness

-----------------------------------------------------------------------------
BotTypeOK ==
  /\ QueueTypeOK
  /\ says \in [Updates -> [chat: Chats, content: Contents]]
  /\ state \in [Chats -> States \union {None}]
  /\ pc \in [Consumers -> {"idle", "set", "commit", "clear", "reply"}]
  /\ mine \in [Consumers -> States \union {None}]
  /\ \A r \in results : r.conv \in Nat /\ r.flow \in Flows /\ r.data \subseteq Nat \X Nat
  /\ overlap \subseteq Chats
  /\ interrupted \subseteq Nat /\ cancelled \subseteq Nat

(* The answers kept are those to the questions before the open one, one    *)
(* each, and every commit has an answer to each question of its flow,      *)
(* given after the conversation was begun: no button of an old screen,     *)
(* menu, expiry or second handler makes a flow skip or repeat a question   *)
(* (continue_*, plsel, plsh).  Only with overlapping handlers may an       *)
(* answer be older than its conversation.                                  *)
EveryQuestionAnswered ==
  /\ \A h \in Chats : state[h] # None =>
       /\ state[h].step \in 1..Len(Questions[state[h].flow])
       /\ Complete(state[h].data, state[h].step - 1)
  /\ \A r \in results :
       /\ Complete(r.data, Len(Questions[r.flow]))
       /\ Chat(r.conv) \notin overlap => \A d \in r.data : r.conv < d[2]

(* A conversation ends once: it leads to one order, quote, plan, ..., or   *)
(* to none when it is cancelled, and does not go on after that.  A         *)
(* repeated last answer finds the state cleared, unless two handlers       *)
(* worked on the chat at once or one ended between its commit and the      *)
(* clearing (continue_*, continue_state, clear_state).                     *)
Excused(conv) == conv \in interrupted \/ Chat(conv) \in overlap
EndsOnce ==
  /\ \A r, q \in results : r # q /\ r.conv = q.conv => Excused(r.conv)
  /\ \A r \in results : r.conv \in cancelled => Excused(r.conv)
  /\ \A h \in Chats : state[h].conv \in cancelled => h \in overlap

(* Every update Telegram sends is handled in the end, or it was queued and *)
(* its entry stays pending (handler raised, consumer died, trimmed), or    *)
(* its mark outlived a write that never happened.                          *)
HandledInTheEnd ==
  \A u \in Updates : <>(u \in cursed \/ \E i \in Entries : stream[i] = u /\ i \in handled \union missed)
=============================================================================
