---------------------------- MODULE EventDelivery ----------------------------
(***************************************************************************)
(* What an event bus promises its users, with no arena, no queue array, no *)
(* cursor and no checkpoint: a first-in first-out mailbox of messages.     *)
(*                                                                         *)
(*  - A publication reaches every listener of its code, or none: the       *)
(*    messages for all of them enter the mailbox in one step, in the order *)
(*    of subscription, or the call is refused and nothing changes.         *)
(*  - A pass over the mailbox hands over each message once, oldest first,  *)
(*    with the bytes that were published.  It ends when nothing is left,   *)
(*    the messages that callbacks published meanwhile included.            *)
(*  - A bus closed by a callback hands over nothing more, and is gone when *)
(*    that callback returns.                                               *)
(*                                                                         *)
(* Module EventBus implements this specification.                          *)
(***************************************************************************)
EXTENDS Naturals, Sequences

CONSTANTS
    Null,           \* no message
    Codes,          \* the event codes with a place in the registry
    Listeners,      \* what a subscription registers under its code
    Contexts        \* the events that can be published

VARIABLES
    live,           \* the bus exists
    listeners,      \* the listeners of each code, in order of subscription
    pending,        \* the mailbox: messages published and not handed over
    phase,          \* "idle", "pass" or "closing"
    received,       \* the message a running callback was handed, or Null
    result          \* what the last completed call returned

vars == <<live, listeners, pending, phase, received, result>>

\* The copy of an event that one listener is sent.
Message(listener, context) ==
    [callback   |-> listener.callback,
     subscriber |-> listener.subscriber,
     code       |-> listener.code,
     publisher  |-> context.publisher,
     payload    |-> context.payload,
     alignment  |-> context.alignment]

MessagesFor(recipients, context) ==
    [k \in 1 .. Len(recipients) |-> Message(recipients[k], context)]

NoListeners == [code \in Codes |-> <<>>]

-----------------------------------------------------------------------------

Init ==
    /\ live = FALSE
    /\ listeners = NoListeners
    /\ pending = <<>>
    /\ phase = "idle"
    /\ received = Null
    /\ result = FALSE

\* The application runs, outside a pass or in a callback.
ApplicationRuns == phase = "idle" \/ received # Null

Open ==
    /\ ~live
    /\ live' = TRUE
    /\ result' = TRUE
    /\ UNCHANGED <<listeners, pending, phase, received>>

Subscribe(listener) ==
    /\ live
    /\ ApplicationRuns
    /\ phase # "closing"
    /\ listeners' = [listeners EXCEPT ![listener.code] = Append(@, listener)]
    /\ result' = TRUE
    /\ UNCHANGED <<live, pending, phase, received>>

\* A callback may also publish what it received (with the bytes it finds in
\* its own copy), so any context whose code is registered can be published.
Publish(context) ==
    /\ live
    /\ ApplicationRuns
    /\ phase # "closing"
    /\ listeners[context.code] # <<>>
    /\ result' = TRUE
    /\ UNCHANGED <<live, listeners, phase, received>>
    /\ pending' = pending \o MessagesFor(listeners[context.code], context)

\* Any call may be refused; it then changes nothing.
Refuse ==
    /\ ApplicationRuns
    /\ result' = FALSE
    /\ UNCHANGED <<live, listeners, pending, phase, received>>

\* A pass over an empty mailbox is over at once.
EmptyPass ==
    /\ live
    /\ phase = "idle"
    /\ pending = <<>>
    /\ result' = TRUE
    /\ UNCHANGED <<live, listeners, pending, phase, received>>

BeginPass ==
    /\ phase = "idle"
    /\ pending # <<>>
    /\ phase' = "pass"
    /\ UNCHANGED <<live, listeners, pending, received, result>>

HandOver ==
    /\ phase = "pass"
    /\ received = Null
    /\ pending # <<>>
    /\ received' = Head(pending)
    /\ pending' = Tail(pending)
    /\ UNCHANGED <<live, listeners, phase, result>>

Return ==
    /\ phase = "pass"
    /\ received # Null
    /\ received' = Null
    /\ UNCHANGED <<live, listeners, pending, phase, result>>

EndPass ==
    /\ phase = "pass"
    /\ received = Null
    /\ pending = <<>>
    /\ phase' = "idle"
    /\ result' = TRUE
    /\ UNCHANGED <<live, listeners, pending, received>>

RequestClose ==
    /\ phase = "pass"
    /\ received # Null
    /\ phase' = "closing"
    /\ UNCHANGED <<live, listeners, pending, received, result>>

Gone ==
    /\ live' = FALSE
    /\ listeners' = NoListeners
    /\ pending' = <<>>
    /\ phase' = "idle"
    /\ received' = Null

\* Outside a pass the bus closes at once.
CloseNow ==
    /\ live
    /\ phase = "idle"
    /\ Gone
    /\ UNCHANGED result

\* In a pass it closes when the callback that asked for it returns.
CloseAfterCallback ==
    /\ phase = "closing"
    /\ Gone
    /\ result' = FALSE

Next ==
    \/ Open
    \/ \E listener \in Listeners : Subscribe(listener)
    \/ \E context \in Contexts : Publish(context)
    \/ Refuse
    \/ EmptyPass
    \/ BeginPass
    \/ HandOver
    \/ Return
    \/ EndPass
    \/ RequestClose
    \/ CloseNow
    \/ CloseAfterCallback

Spec == Init /\ [][Next]_vars

\* Callbacks return and a pass that has begun goes on.
Fairness ==
    /\ WF_vars(HandOver)
    /\ WF_vars(EndPass)
    /\ SF_vars(Return)
    /\ WF_vars(CloseAfterCallback)

FairSpec == Spec /\ Fairness

=============================================================================
