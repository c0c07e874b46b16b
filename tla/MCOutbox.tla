------------------------------ MODULE MCOutbox ------------------------------
(* Small instances of the outbox: two hold events for one binding (the     *)
(* second may be enqueued as soon as the first is no longer pending) and   *)
(* one event whose topic has no handler.                                   *)
EXTENDS Outbox

OneHandled == {"hold"}
TopicOf == <<"hold", "hold", "order">>
AggregateOf == <<"b", "b", "o">>
=============================================================================
