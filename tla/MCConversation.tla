---------------------------- MODULE MCConversation ---------------------------
(* One chat and six updates.  In most scripts two of them are handled, the *)
(* chat has no state when the consumers start, and four are in the stream: *)
(* a plan order whose last answer comes twice; a credit request begun by   *)
(* its menu label; a plan whose buttons are pressed out of order; an admin *)
(* id asked for twice; /cancel; a decision in the middle of another flow;  *)
(* one flow begun over another.  In one script the last update is still to *)
(* be posted, in another a reseller is about to be given a price and a     *)
(* credit.                                                                 *)
EXTENDS Conversation

Say(content) == [chat |-> "chat", content |-> content]
BeginFlow(f) == Say([kind |-> "begin", flow |-> f])
Text == Say([kind |-> "text", flow |-> NoFlow])
Label(f) == Say([kind |-> "text", flow |-> f])
PickOf(q) == Say([kind |-> "pick", question |-> q])
Other(k) == Say([kind |-> k])

MCUpdates == 1..6
Queue6 == <<1, 2, 3, 4, 5, 6>>
Queue5 == <<1, 2, 3, 4, 5>>
MCBacklogs == {Queue6, Queue5}
Talks == {
  <<BeginFlow("plan_order"), Text, Text, Text>>,
  <<Label("credit"), Text, Label("credit"), Text>>,
  <<BeginFlow("plan"), PickOf("panel"), PickOf("shelf"), PickOf("panel")>>,
  <<BeginFlow("plan"), PickOf("panel"), PickOf("panel"), Text>>,
  <<BeginFlow("attach"), Text, BeginFlow("attach"), Text>>,
  <<BeginFlow("plan_order"), Text, Other("cancel"), Text>>,
  <<BeginFlow("category"), Text, Other("decide"), Text>>,
  <<BeginFlow("category"), BeginFlow("plan_order"), Text, Text>>}
Quiet == <<Text, Text, Text, Text>>
Before == <<Text, Text>>
Reseller == <<Label("reseller"), Text, Text, Text, Text, Text>>
Asked == [conv |-> 1, flow |-> "reseller", step |-> 4, data |-> {<<1, 2>>, <<2, 3>>, <<3, 4>>}]

Start(talk, backlog, done, open) ==
  [says |-> talk, backlog |-> backlog, done |-> done, state |-> [h \in {"chat"} |-> open]]
MCStarts ==
  {Start(Before \o s, Queue6, 2, None) : s \in Talks}
    \union {Start(Before \o Quiet, Queue5, 3, None), Start(Reseller, Queue6, 4, Asked)}
=============================================================================
