----------------------------- MODULE EventQueue -----------------------------
(***************************************************************************)
(* The event list of the m68k emulator (m68k/amiga/event.c): a linked list   *)
(* of events sorted by time, in which a time of 0 marks an event as not      *)
(* linked.  The list is the sequence active; fire_events runs after each     *)
(* emulated instruction (amiga_emulate), and the callbacks it makes set and  *)
(* unset events themselves.                                                *)
(***************************************************************************)
EXTENDS EventList

CONSTANTS
    Events,
    MaxTime,        \* bound: the latest time an event is set to
    MaxStep,        \* bound: the longest instruction
    CallbackOps     \* bound: events set or unset by one callback

ASSUME QueueBounds == MaxTime \in Nat /\ MaxStep \in Nat /\ CallbackOps \in Nat

VARIABLES
    alive,          \* events allocated
    active,         \* base->active_events
    time,           \* event->time
    current_time,
    firing, ops     \* inside fire_events; what a callback may still do

queueVars == <<alive, active, time, current_time, firing, ops>>

QueueInit ==
    /\ alive = {} /\ active = <<>> /\ time = [e \in Events |-> 0]
    /\ current_time = 0 /\ firing = FALSE /\ ops = 0

\* Outside fire_events the emulated instruction calls; inside, the callback.
Caller ==
    /\ firing => ops > 0
    /\ ops' = IF firing THEN ops - 1 ELSE ops
    /\ UNCHANGED <<current_time, firing>>

EventAlloc(e) ==
    /\ e \notin alive /\ Caller
    /\ alive' = alive \cup {e}
    /\ UNCHANGED <<active, time>>

Unset(e) ==
    IF time[e] = 0 THEN UNCHANGED <<active, time>>
    ELSE active' = Unlink(active, e) /\ time' = [time EXCEPT ![e] = 0]

EventUnset(e) == e \in alive /\ Caller /\ Unset(e) /\ UNCHANGED alive

EventDestroy(e) == e \in alive /\ Caller /\ Unset(e) /\ alive' = alive \ {e}

\* Mutant of EventSet: a callback may set an event for the present time.
EventSet_Now(e, t) ==
    /\ e \in alive /\ Caller
    /\ t >= current_time
    /\ time' = [time EXCEPT ![e] = t]
    /\ active' = Link(IF time[e] = 0 THEN active ELSE Unlink(active, e), e, time')
    /\ UNCHANGED alive

\* event_set, and event_set_delta with t = current_time + delta.  Every caller
\* names a time after the current one.
EventSet(e, t) ==
    /\ e \in alive /\ Caller
    /\ t > current_time
    /\ time' = [time EXCEPT ![e] = t]
    /\ active' = Link(IF time[e] = 0 THEN active ELSE Unlink(active, e), e, time')
    /\ UNCHANGED alive

\* amiga_emulate after an instruction: the clock moves on, then fire_events.
Advance(d) ==
    /\ ~firing
    /\ current_time + d <= MaxTime
    /\ current_time' = current_time + d
    /\ firing' = TRUE /\ ops' = 0
    /\ UNCHANGED <<alive, active, time>>

\* Mutant of HeadIsDue: an event due now waits for the next pass.
HeadIsDue_Late == active # <<>> /\ time[Head(active)] < current_time

HeadIsDue == active # <<>> /\ time[Head(active)] <= current_time

\* One turn of fire_events' loop, up to the callback.
Fire ==
    /\ firing /\ HeadIsDue
    /\ active' = Tail(active)
    /\ time' = [time EXCEPT ![Head(active)] = 0]
    /\ ops' = CallbackOps
    /\ UNCHANGED <<alive, current_time, firing>>

FireDone ==
    /\ firing /\ ~HeadIsDue
    /\ firing' = FALSE /\ ops' = 0
    /\ UNCHANGED <<alive, active, time, current_time>>

QueueNext ==
    \/ \E e \in Events :
         \/ EventAlloc(e) \/ EventUnset(e) \/ EventDestroy(e)
         \/ \E t \in 1..MaxTime : EventSet(e, t)
    \/ \E d \in 0..MaxStep : Advance(d)
    \/ Fire \/ FireDone

\* fire_events runs to its end before the next instruction.
QueueSpec == QueueInit /\ [][QueueNext]_queueVars /\ WF_queueVars(Fire \/ FireDone)

-----------------------------------------------------------------------------
\* The time field tells exactly the linked events, each linked once, in order of
\* time, whatever callbacks set and unset: event_unset trusts the field, and
\* removing an event that is not linked would never end.
WellLinked ==
    /\ \A i, j \in DOMAIN active : active[i] = active[j] => i = j
    /\ {e \in Events : time[e] # 0} = ToSet(active)
    /\ \A i, j \in DOMAIN active : i < j => time[active[i]] <= time[active[j]]

\* The list keeps the promise of module Timers: no event fires early, late, twice
\* or out of order.
TimersPromise == INSTANCE Timers WITH due <- time, now <- current_time
ImplementsTimers == TimersPromise!TSpec

\* fire_events ends, although its callbacks arm events again: they do so for a
\* later time only.
PassEnds == firing ~> ~firing
=============================================================================
