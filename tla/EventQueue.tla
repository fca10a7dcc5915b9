------------------------------ MODULE EventQueue -------------------------------
(***************************************************************************)
(* What the evdemo driver promises about its events: a bounded queue that   *)
(* makes room for a new event by dropping the oldest one, and hands every   *)
(* event it keeps to one reader, in the order of arrival.                   *)
(***************************************************************************)
EXTENDS Integers, Sequences

CONSTANTS Readers, Kinds, NoEvent,
          Capacity  \* how many events are kept

VARIABLES events,   \* the queued events, oldest first
          ev        \* what each reader has in its hands

queueVars == <<events, ev>>

QueueInit == events = <<>> /\ ev = [r \in Readers |-> NoEvent]

\* The events that stay when a new one arrives.
Kept == IF Len(events) = Capacity THEN Tail(events) ELSE events

Post(e) == events' = Append(Kept, e) /\ UNCHANGED ev

Take(r) ==
    /\ events # <<>>
    /\ events' = Tail(events)
    /\ ev' = [ev EXCEPT ![r] = Head(events)]

Forget(r) == ev' = [ev EXCEPT ![r] = NoEvent] /\ UNCHANGED events

QueueNext ==
    \/ \E e \in Kinds : Post(e)
    \/ \E r \in Readers : Take(r) \/ Forget(r)

QueueSpec == QueueInit /\ [][QueueNext]_queueVars
==============================================================================
