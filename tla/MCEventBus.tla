----------------------------- MODULE MCEventBus -----------------------------
(***************************************************************************)
(* A small bus for TLC: three listeners under two codes, a queue of three  *)
(* deliveries and an arena of four bytes, so that both run out; payloads   *)
(* of one and two bytes with alignments 1 and 2 at an even and at an odd   *)
(* address, so that copies need padding; and one argument of each kind     *)
(* that the code refuses.                                                  *)
(***************************************************************************)
EXTENDS EventBus

CONSTANTS
    alice, bob, onMove, onQuit,
    RefusedArguments    \* TRUE: also pass arguments that are refused

Subscriber(code, subscriber, callback) ==
    [code |-> code, subscriber |-> subscriber, callback |-> callback]

Event(code, publisher, payload, alignment) ==
    [code |-> code, publisher |-> publisher, payload |-> payload,
     alignment |-> alignment]

MCDescriptors ==
    {Subscriber(0, alice, onMove), Subscriber(0, bob, onMove),
     Subscriber(1, alice, onQuit)}
    \cup
    IF RefusedArguments
    THEN {Subscriber(0, bob, onQuit), Subscriber(MaxEventTypes, bob, onMove),
          Subscriber(1, bob, Null)}
    ELSE {}

MCEvents ==
    {Event(0, alice, <<1>>, 1), Event(1, Null, <<2, 1>>, 2)}
    \cup
    IF RefusedArguments
    THEN {Event(0, bob, Null, 1), Event(0, bob, <<>>, 1), Event(0, bob, <<1>>, 3),
          Event(0, bob, <<1>>, 0), Event(MaxEventTypes, bob, <<1>>, 1)}
    ELSE {}

=============================================================================
