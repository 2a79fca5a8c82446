---------------------------- MODULE MCMessageBus ----------------------------
(* Instances of MessageBus. *)
EXTENDS MessageBus, TLC

CONSTANTS a, b, c

\* a sends, b receives, moves and ends; c, if it is there, was there before.
SenderAndReceiver ==
    (a :> {"block", "broadcast", "direct"})
    @@ (b :> {"block", "subscribe", "reset", "detach", "join"}) @@ (c :> {})

\* a sends to itself, b processes now and then, c registers late.
SoloAndLatecomer == (a :> {"block", "direct"}) @@ (b :> {"block"}) @@ (c :> {})

=============================================================================
