------------------------------- MODULE Timers -------------------------------
(***************************************************************************)
(* What the discrete-event simulation of the m68k emulator promises to its   *)
(* users: each event is either off or due at one time, a pass of the clock   *)
(* fires the events that are due, earliest first, and the pass ends when     *)
(* none is.  EventQueue implements it with a sorted linked list.             *)
(***************************************************************************)
EXTENDS Naturals

CONSTANTS Events, MaxTime

VARIABLES due, now, firing

timerVars == <<due, now, firing>>

Off == 0

Armed == {e \in Events : due[e] # Off}

TInit == due = [e \in Events |-> Off] /\ now = 0 /\ firing = FALSE

\* Setting an armed event moves it; a callback may set events, its own too.
TSet(e, t) == due' = [due EXCEPT ![e] = t] /\ UNCHANGED <<now, firing>>

TUnset(e) == due' = [due EXCEPT ![e] = Off] /\ UNCHANGED <<now, firing>>

TPass(t) == ~firing /\ t >= now /\ now' = t /\ firing' = TRUE /\ UNCHANGED due

TFire(e) ==
    /\ firing /\ e \in Armed /\ due[e] <= now
    /\ \A f \in Armed : due[e] <= due[f]
    /\ due' = [due EXCEPT ![e] = Off]
    /\ UNCHANGED <<now, firing>>

TDone ==
    /\ firing /\ \A e \in Armed : due[e] > now
    /\ firing' = FALSE
    /\ UNCHANGED <<due, now>>

TNext ==
    \/ \E e \in Events : TUnset(e) \/ TFire(e) \/ \E t \in 1..MaxTime : TSet(e, t)
    \/ \E t \in 0..MaxTime : TPass(t)
    \/ TDone

TSpec == TInit /\ [][TNext]_timerVars
=============================================================================
