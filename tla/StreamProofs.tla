---------------------------- MODULE StreamProofs ----------------------------
(***************************************************************************)
(* Invariants of the generic stream layer for every PLL parameter, every    *)
(* source of flux and every sequence of calls: the bounds of a model-checked *)
(* run (the sets of intervals, the length of the track) are constants here.  *)
(* Then those of the SuperCard Pro source driving it, for every dump, and of *)
(* the image sources, for every image.                                       *)
(***************************************************************************)
EXTENDS StreamSources, ListProofs

(* What makes the invariants inductive: a bit that has been started was asked  *)
(* for, and was started within the limit of revolutions.                       *)
BitInProgress ==
    phase = "pull" => left > 0 /\ nr_index <= max_revolutions

IInv == TypeOK /\ BitInProgress /\ ClockClamped /\ FluxConserved
        /\ IndexTimerExact /\ RevolutionLimit

-----------------------------------------------------------------------------
(* The arithmetic of the PLL. *)

LEMMA CDivInt == ASSUME NEW a \in Int, NEW b \in Nat \ {0}
                 PROVE  CDiv(a, b) \in Int
  BY DEF CDiv

(* Whole percentages below and above 100 round to either side of the cell. *)
LEMMA PercentBelow == ASSUME NEW c \in Nat, NEW m \in 0..100
                      PROVE  (c * (100 - m)) \div 100 \in 0..c
  <1> DEFINE q == c * (100 - m)
  <1>1. q \in Nat /\ q <= 100 * c
    <2>1. c * m \in Nat
      OBVIOUS
    <2>2. c * m <= 100 * c
      OBVIOUS
    <2>3. q = 100 * c - c * m
      OBVIOUS
    <2> HIDE DEF q
    <2> QED BY <2>1, <2>2, <2>3
  <1> HIDE DEF q
  <1>2. q \div 100 \in 0..c
    BY <1>1
  <1> QED BY <1>2 DEF q

LEMMA PercentAbove == ASSUME NEW c \in Nat, NEW m \in 0..100
                      PROVE  /\ (c * (100 + m)) \div 100 \in Nat
                             /\ c <= (c * (100 + m)) \div 100
  <1> DEFINE q == c * (100 + m)
  <1>1. q \in Nat /\ 100 * c <= q
    <2>1. c * m \in Nat
      OBVIOUS
    <2>2. q = 100 * c + c * m
      OBVIOUS
    <2> HIDE DEF q
    <2> QED BY <2>1, <2>2
  <1> HIDE DEF q
  <1>2. q \div 100 \in Nat /\ c <= q \div 100
    BY <1>1
  <1> QED BY <1>2 DEF q

(* The clamp's range is a range, and the selected cell width lies in it. *)
LEMMA ClockRange == ASSUME NEW c \in Centres
                    PROVE  /\ ClockMin(c) \in Int /\ ClockMax(c) \in Int
                           /\ ClockMin(c) <= c /\ c <= ClockMax(c)
  <1>1. c \in Nat /\ MaxAdj \in 0..100
    BY PllAssumption
  <1>2. ClockMin(c) \in 0..c
    BY <1>1, PercentBelow DEF ClockMin
  <1>3. ClockMax(c) \in Nat /\ c <= ClockMax(c)
    BY <1>1, PercentAbove DEF ClockMax
  <1> QED BY <1>1, <1>2, <1>3

LEMMA ClampInRange == ASSUME NEW lo \in Int, NEW hi \in Int, NEW x \in Int, lo <= hi
                      PROVE  Clamp(lo, hi, x) \in lo..hi
  BY DEF Clamp

(* Whatever the phase error, the clock ends in the range. *)
LEMMA PllClockInRange ==
    ASSUME TypeOK, NEW err \in Int
    PROVE  PllClock(err) \in ClockMin(clock_centre)..ClockMax(clock_centre)
  <1> DEFINE a == err * PeriodPct
             b == (clock_centre - clock) * PeriodPct
             x == clock + IF clocked_zeros <= 3 THEN CDiv(a, 100) ELSE CDiv(b, 100)
  <1>1. clock_centre \in Centres /\ clock_centre \in Int /\ clock \in Int
        /\ PeriodPct \in Int
    BY PllAssumption DEF TypeOK
  <1>2. a \in Int /\ b \in Int
    BY <1>1
  <1>3. CDiv(a, 100) \in Int /\ CDiv(b, 100) \in Int
    <2> HIDE DEF a, b
    <2> QED BY <1>2, CDivInt
  <1>4. x \in Int
    <2> HIDE DEF a, b
    <2> QED BY <1>1, <1>3
  <1>5. ClockMin(clock_centre) \in Int /\ ClockMax(clock_centre) \in Int
        /\ ClockMin(clock_centre) <= ClockMax(clock_centre)
    BY <1>1, ClockRange
  <1>6. PllClock(err) = Clamp(ClockMin(clock_centre), ClockMax(clock_centre), x)
    BY DEF PllClock
  <1> HIDE DEF x
  <1> QED BY <1>4, <1>5, <1>6, ClampInRange

LEMMA PllPhaseInt == ASSUME NEW err \in Int PROVE PllPhase(err) \in Int
  <1>1. PhasePct \in Int
    BY PllAssumption
  <1>2. err * (100 - PhasePct) \in Int
    BY <1>1
  <1> QED BY <1>2, CDivInt DEF PllPhase

-----------------------------------------------------------------------------
(* One lemma per group of actions, and the arithmetic they share. *)

LEMMA Counted == ASSUME NEW m \in Nat PROVE 0 <= m + 1
  OBVIOUS

LEMMA InitInv == Init => IInv
  <1> SUFFICES ASSUME Init PROVE IInv
    OBVIOUS
  <1>1. InitCentre \in Centres /\ InitCentre \in Nat
    BY PllAssumption
  <1>2. TypeOK
    <2>1. /\ flux = 0 /\ clock = InitCentre /\ clock_centre = InitCentre
          /\ clocked_zeros = 0 /\ latency = 0
          /\ index_offset_bc = 0 /\ index_offset_ns = 0
          /\ track_len_bc = 0 /\ track_len_ns = 0
          /\ ns_to_index = 0 /\ nr_index = 0 /\ max_revolutions = 0
          /\ op = "none" /\ left = 0 /\ phase = "closed" /\ rc = 0
          /\ now = 0 /\ pulled = 0 /\ fails = 0
          /\ mark = -1 /\ lastMark = -1 /\ trueLen = -1
      BY Zenon DEF Init, NoMark
    <2>2. ended \in BOOLEAN
      BY Zenon DEF Init
    <2> QED BY <1>1, <2>1, <2>2 DEF TypeOK
  <1>3. ClockClamped
    BY <1>1, ClockRange DEF Init, ClockClamped
  <1>4. BitInProgress /\ FluxConserved /\ IndexTimerExact /\ RevolutionLimit
    BY DEF Init, BitInProgress, FluxConserved, IndexTimerExact, RevolutionLimit, NoMark
  <1> QED BY <1>2, <1>3, <1>4 DEF IInv

(* _stream_reset leaves every field it sets in its type. *)
LEMMA ResetTyped ==
    ASSUME ResetState
    PROVE  /\ flux' = 0 /\ now' = 0 /\ pulled' = 0 /\ mark' = NoMark /\ nr_index' = 0
           /\ clocked_zeros' \in Nat /\ latency' \in Int
           /\ index_offset_bc' \in Nat /\ index_offset_ns' \in Int
           /\ track_len_bc' \in Nat /\ track_len_ns' \in Int /\ ns_to_index' \in Int
           /\ ended' \in BOOLEAN
           /\ fails' \in Nat
           /\ lastMark' \in Int /\ trueLen' \in Int
  <1>1. ended' \in BOOLEAN
    BY Zenon DEF ResetState
  <1>2. /\ flux' = 0 /\ now' = 0 /\ pulled' = 0 /\ mark' = NoMark /\ nr_index' = 0
        /\ clocked_zeros' = 0 /\ latency' = 0
        /\ index_offset_bc' = BadLen /\ index_offset_ns' = BadLen
        /\ track_len_bc' = BadLen /\ track_len_ns' = BadLen /\ ns_to_index' = IntMax
        /\ fails' = 0
        /\ lastMark' = -1 /\ trueLen' = -1
    BY Zenon DEF ResetState, NoMark
  <1>3. BadLen \in Nat /\ IntMax \in Nat
    BY StreamAssumption
  <1> QED BY <1>1, <1>2, <1>3

(* stream_reset and stream_select_track, before the first bit. *)
LEMMA BeginResetInv ==
    ASSUME IInv, BeginReset, max_revolutions' \in Nat, MinRevs <= max_revolutions'
    PROVE  IInv'
  <1>1. TypeOK'
    <2>1. clock' \in Int /\ clock_centre' \in Centres
      BY PllAssumption DEF IInv, BeginReset, TypeOK
    <2>2. op' = "lock" /\ left' = LockBits /\ phase' = "start" /\ rc' = 0
      BY DEF BeginReset, Begin
    <2>3. ResetState /\ LockBits \in Nat
      BY StreamAssumption DEF BeginReset
    <2> QED BY <2>1, <2>2, <2>3, ResetTyped DEF TypeOK, NoMark
  <1>2. ClockClamped'
    <2>1. clock' = clock_centre /\ clock_centre' = clock_centre /\ clock_centre \in Centres
          /\ clock_centre \in Nat
      BY PllAssumption DEF IInv, TypeOK, BeginReset
    <2> QED BY <2>1, ClockRange DEF ClockClamped
  <1>3. (BitInProgress /\ FluxConserved /\ IndexTimerExact /\ RevolutionLimit)'
    <2>1. /\ phase' = "start" /\ flux' = 0 /\ now' = 0 /\ pulled' = 0
          /\ mark' = NoMark /\ nr_index' = 0
      BY ResetTyped DEF BeginReset, Begin
    <2>2. FluxConserved'
      BY <2>1 DEF FluxConserved
    <2>3. BitInProgress'
      BY <2>1 DEF BitInProgress
    <2>4. IndexTimerExact'
      BY <2>1 DEF IndexTimerExact
    <2>5. RevolutionLimit'
      <3>1. 0 <= max_revolutions' + 1
        BY Counted
      <3> QED BY <2>1, <3>1 DEF RevolutionLimit
    <2> QED BY <2>2, <2>3, <2>4, <2>5
  <1> QED BY <1>1, <1>2, <1>3 DEF IInv

LEMMA CallInv == IInv /\ Call => IInv'
  <1> SUFFICES ASSUME IInv, Call PROVE IInv'
    OBVIOUS
  <1> USE DEF IInv
  <1>1. CASE Reset
    <2>1. max_revolutions' \in Nat /\ MinRevs <= max_revolutions'
      BY <1>1 DEF Reset, TypeOK, RevolutionLimit
    <2> QED BY <1>1, <2>1, BeginResetInv DEF Reset
  <1>2. ASSUME NEW m \in TypeRevs \cup {0}, SelectTrack(m) PROVE IInv'
    <2>1. max_revolutions' \in Nat /\ MinRevs <= max_revolutions'
      BY <1>2, StreamAssumption DEF SelectTrack
    <2> QED BY <1>2, <2>1, BeginResetInv DEF SelectTrack
  <1>3. CASE SelectFails
    <2>1. TypeOK' /\ BitInProgress' /\ RevolutionLimit'
      BY <1>3 DEF SelectFails, TypeOK, BitInProgress, RevolutionLimit,
                  pllVars, indexVars, history
    <2>2. (ClockClamped /\ FluxConserved /\ IndexTimerExact)'
      BY <1>3 DEF SelectFails, ClockClamped, FluxConserved, IndexTimerExact,
                  ClockMin, ClockMax, pllVars, indexVars, history
    <2> QED BY <2>1, <2>2
  <1>4. ASSUME NEW n \in 1..MaxBits, NextBits(n) PROVE IInv'
    <2>1. TypeOK' /\ BitInProgress' /\ RevolutionLimit'
      BY <1>4, StreamAssumption DEF NextBits, Begin, TypeOK, BitInProgress,
                  RevolutionLimit, pllVars, indexVars, history
    <2>2. (ClockClamped /\ FluxConserved /\ IndexTimerExact)'
      BY <1>4 DEF NextBits, ClockClamped, FluxConserved, IndexTimerExact,
                  ClockMin, ClockMax, pllVars, indexVars, history
    <2> QED BY <2>1, <2>2
  <1>5. CASE NextIndex
    <2>1. TypeOK' /\ BitInProgress' /\ RevolutionLimit'
      BY <1>5 DEF NextIndex, Begin, TypeOK, BitInProgress,
                  RevolutionLimit, pllVars, indexVars, history
    <2>2. (ClockClamped /\ FluxConserved /\ IndexTimerExact)'
      BY <1>5 DEF NextIndex, ClockClamped, FluxConserved, IndexTimerExact,
                  ClockMin, ClockMax, pllVars, indexVars, history
    <2> QED BY <2>1, <2>2
  <1>6. ASSUME NEW c \in Centres, SetDensity(c) PROVE IInv'
    <2>1. TypeOK' /\ BitInProgress' /\ RevolutionLimit'
      BY <1>6, PllAssumption DEF SetDensity, TypeOK, BitInProgress,
                  RevolutionLimit, indexVars, callVars, history
    <2>2. (FluxConserved /\ IndexTimerExact)'
      BY <1>6 DEF SetDensity, FluxConserved, IndexTimerExact, indexVars, history
    <2>3. ClockClamped'
      <3>1. clock' = c /\ clock_centre' = c /\ c \in Nat
        BY <1>6, PllAssumption DEF SetDensity
      <3> QED BY <3>1, ClockRange DEF ClockClamped
    <2> QED BY <2>1, <2>2, <2>3
  <1>7. CASE ZeroLatency
    <2>1. TypeOK' /\ BitInProgress' /\ RevolutionLimit'
      BY <1>7 DEF ZeroLatency, TypeOK, BitInProgress, RevolutionLimit,
                  pllVars, indexVars, callVars, history
    <2>2. (ClockClamped /\ FluxConserved /\ IndexTimerExact)'
      BY <1>7 DEF ZeroLatency, ClockClamped, FluxConserved, IndexTimerExact,
                  ClockMin, ClockMax, pllVars, indexVars, history
    <2> QED BY <2>1, <2>2
  <1> QED BY <1>1, <1>2, <1>3, <1>4, <1>5, <1>6, <1>7 DEF Call

(* The source: whatever it delivers is added to the flux waiting, and the pulse *)
(* it reports is placed by the flux waiting before it.                          *)
LEMMA PullInv ==
    ASSUME IInv, NEW d \in Int, NEW i \in Int, Pull(d, i)
    PROVE  IInv'
  <1> USE DEF IInv
  <1>1. TypeOK' /\ BitInProgress' /\ RevolutionLimit'
    BY DEF Pull, Sight, TypeOK, BitInProgress, RevolutionLimit, callVars
  <1>2. ClockClamped'
    BY DEF Pull, ClockClamped, ClockMin, ClockMax
  <1>3. FluxConserved'
    BY DEF Pull, FluxConserved, TypeOK
  <1>4. IndexTimerExact'
    BY DEF Pull, Sight, IndexTimerExact, FluxConserved, TypeOK, NoMark
  <1> QED BY <1>1, <1>2, <1>3, <1>4

LEMMA PullEndInv == ASSUME IInv, NEW i \in Int, PullEnd(i) PROVE IInv'
  <1> USE DEF IInv
  <1>1. TypeOK' /\ BitInProgress' /\ RevolutionLimit'
    BY DEF PullEnd, Sight, Fail, TypeOK, BitInProgress, RevolutionLimit, pllVars
  <1>2. ClockClamped' /\ FluxConserved'
    BY DEF PullEnd, ClockClamped, FluxConserved, ClockMin, ClockMax, pllVars
  <1>3. IndexTimerExact'
    BY DEF PullEnd, Sight, IndexTimerExact, FluxConserved, TypeOK, NoMark, pllVars
  <1> QED BY <1>1, <1>2, <1>3

(* A bitcell: the window and the index timer together. *)
LEMMA BitDoneInv == ASSUME IInv, BitDone PROVE IInv'
  <1> USE DEF IInv
  <1> DEFINE lat == latency' - latency
  <1>1. flux \in Int /\ clock \in Int /\ clock_centre \in Int /\ latency \in Int
        /\ flux - clock \in Int
    BY PllAssumption DEF TypeOK
  <1>2. flux' \in Int /\ latency' \in Int /\ clocked_zeros' \in Nat
        /\ clock' \in ClockMin(clock_centre)..ClockMax(clock_centre)
    BY <1>1, PllPhaseInt, PllClockInRange DEF BitDone, Window, TypeOK, ClockClamped
  <1>3. latency' = latency + clock + ((flux - clock) - flux')
    BY DEF BitDone, Window
  <1>4. clock' \in Int
    BY <1>2, ClockRange DEF TypeOK
  <1>5. lat \in Int /\ now' = now + lat
    BY <1>1, <1>2 DEF BitDone
  <1>6. IndexTimer(lat)
    BY DEF BitDone
  <1>7. TypeOK'
    <2>1. flux' \in Int /\ clock' \in Int /\ clock_centre' \in Centres
          /\ clocked_zeros' \in Nat /\ latency' \in Int /\ now' \in Int
          /\ pulled' \in Int /\ max_revolutions' \in Nat /\ ended' \in BOOLEAN
          /\ fails' \in Nat /\ rc' \in {0, -1}
      BY <1>2, <1>4, <1>5 DEF BitDone, TypeOK
    <2>2. index_offset_bc' \in Nat /\ index_offset_ns' \in Int /\ track_len_bc' \in Nat
          /\ track_len_ns' \in Int /\ ns_to_index' \in Int /\ nr_index' \in Nat
          /\ mark' \in Int /\ lastMark' \in Int /\ trueLen' \in Int
      BY <1>5, <1>6, StreamAssumption DEF IndexTimer, TypeOK, NoMark
    <2>3. op' \in {"none", "lock", "bits", "index"} /\ left' \in Nat
          /\ phase' \in {"closed", "idle", "start", "pull"}
      BY DEF BitDone, TypeOK, BitInProgress
    <2> QED BY <2>1, <2>2, <2>3 DEF TypeOK
  <1>8. BitInProgress' /\ RevolutionLimit'
    <2>1. phase' = "start" /\ phase = "pull" /\ max_revolutions' = max_revolutions
      BY DEF BitDone
    <2>2. nr_index' <= nr_index + 1
      BY <1>6 DEF IndexTimer, TypeOK
    <2> QED BY <1>7, <2>1, <2>2 DEF BitInProgress, RevolutionLimit, TypeOK
  <1>9. ClockClamped'
    BY <1>2 DEF BitDone, ClockClamped, ClockMin, ClockMax
  <1>10. FluxConserved'
    <2>1. pulled' = pulled /\ now \in Int /\ pulled \in Int
      BY DEF BitDone, TypeOK
    <2>2. now + flux = pulled
      BY DEF FluxConserved
    <2>3. now' = now + (clock + ((flux - clock) - flux'))
      <3>1. flux' \in Int /\ latency' \in Int
        BY <1>2
      <3> QED BY <1>1, <1>3, <1>5, <3>1
    <2>4. flux' \in Int
      BY <1>2
    <2>5. now' + flux' = pulled'
      <3> DEFINE rest == flux'
                 total == now'
      <3>1. rest \in Int /\ total = now + (clock + ((flux - clock) - rest))
        BY <2>3, <2>4
      <3> HIDE DEF rest, total
      <3>2. total + rest = now + flux
        BY <1>1, <2>1, <3>1
      <3> QED BY <2>1, <2>2, <3>2 DEF rest, total
    <2> QED BY <2>5, Zenon DEF FluxConserved
  <1>11. IndexTimerExact'
    BY <1>5, <1>6 DEF IndexTimer, IndexTimerExact, TypeOK, NoMark
  <1> QED BY <1>7, <1>8, <1>9, <1>10, <1>11

LEMMA RunInv == IInv /\ Run => IInv'
  <1> SUFFICES ASSUME IInv, Run PROVE IInv'
    OBVIOUS
  <1> USE DEF IInv
  <1>1. CASE BitRefused
    <2>1. TypeOK' /\ BitInProgress' /\ RevolutionLimit'
      BY <1>1 DEF BitRefused, Fail, TypeOK, BitInProgress, RevolutionLimit,
                  pllVars, indexVars, history
    <2>2. (ClockClamped /\ FluxConserved /\ IndexTimerExact)'
      BY <1>1 DEF BitRefused, ClockClamped, FluxConserved, IndexTimerExact,
                  ClockMin, ClockMax, pllVars, indexVars, history
    <2> QED BY <2>1, <2>2
  <1>2. CASE BitStart
    <2>1. TypeOK' /\ BitInProgress' /\ RevolutionLimit'
      BY <1>2 DEF BitStart, TypeOK, BitInProgress, RevolutionLimit, pllVars, history
    <2>2. (ClockClamped /\ FluxConserved /\ IndexTimerExact)'
      BY <1>2 DEF BitStart, ClockClamped, FluxConserved, IndexTimerExact,
                  ClockMin, ClockMax, pllVars, history
    <2> QED BY <2>1, <2>2
  <1>3. CASE BitDone
    BY <1>3, BitDoneInv
  <1>4. CASE LockDone
    <2>1. clock' = clock /\ clock_centre' = clock_centre
          /\ max_revolutions' = max_revolutions
      BY <1>4 DEF LockDone
    <2>2. ResetState /\ op' = "index" /\ left' = 1 /\ phase' = "start" /\ rc' = 0
      BY <1>4 DEF LockDone, Begin
    <2>3. /\ phase' = "start" /\ flux' = 0 /\ now' = 0 /\ pulled' = 0
          /\ mark' = NoMark /\ nr_index' = 0
      BY <2>2, ResetTyped
    <2>4. TypeOK'
      BY <2>1, <2>2, ResetTyped DEF TypeOK, NoMark
    <2>5. FluxConserved' /\ BitInProgress' /\ IndexTimerExact'
      BY <2>3 DEF FluxConserved, BitInProgress, IndexTimerExact
    <2>7. RevolutionLimit'
      <3>1. phase # "closed" /\ 0 <= max_revolutions + 1
        BY <1>4, Counted DEF LockDone, TypeOK
      <3> QED BY <2>1, <2>3, <3>1 DEF RevolutionLimit
    <2>6. ClockClamped'
      BY <2>1 DEF ClockClamped, ClockMin, ClockMax
    <2> QED BY <2>4, <2>5, <2>6, <2>7
  <1>5. CASE Return
    <2>1. TypeOK' /\ BitInProgress' /\ RevolutionLimit'
      BY <1>5 DEF Return, TypeOK, BitInProgress, RevolutionLimit,
                  pllVars, indexVars, history
    <2>2. (ClockClamped /\ FluxConserved /\ IndexTimerExact)'
      BY <1>5 DEF Return, ClockClamped, FluxConserved, IndexTimerExact,
                  ClockMin, ClockMax, pllVars, indexVars, history
    <2> QED BY <2>1, <2>2
  <1> QED BY <1>1, <1>2, <1>3, <1>4, <1>5 DEF Run

LEMMA StutterInv == IInv /\ UNCHANGED vars => IInv'
  BY DEF IInv, TypeOK, BitInProgress, ClockClamped, FluxConserved, IndexTimerExact,
         RevolutionLimit, ClockMin, ClockMax, vars, pllVars, indexVars, callVars, history

LEMMA NextInv == IInv /\ [Next]_vars => IInv'
  <1> SUFFICES ASSUME IInv, [Next]_vars PROVE IInv'
    OBVIOUS
  <1>1. CASE Call
    BY <1>1, CallInv
  <1>2. CASE AnyPull
    <2>1. ASSUME NEW d \in FluxSteps, NEW i \in {NoMark} \cup IndexSteps, Pull(d, i)
          PROVE  IInv'
      BY <2>1, PullInv, StreamAssumption DEF NoMark
    <2>2. ASSUME NEW i \in {NoMark} \cup IndexSteps, PullEnd(i)
          PROVE  IInv'
      BY <2>2, PullEndInv, StreamAssumption DEF NoMark
    <2> QED BY <1>2, <2>1, <2>2 DEF AnyPull
  <1>3. CASE Run
    BY <1>3, RunInv
  <1>4. CASE UNCHANGED vars
    BY <1>4, StutterInv
  <1> QED BY <1>1, <1>2, <1>3, <1>4 DEF Next

-----------------------------------------------------------------------------
(* How late a pulse is noticed.  The flux waiting is never further below zero   *)
(* than what the phase adjustment leaves of half a window; so is, when it is     *)
(* seen, the pulse; the bit that crosses it is as much shorter as less is left.  *)
HalfMax(c) == (ClockMax(c) + 1) \div 2
Early(x) == \E c \in Centres : 100 * x >= -((100 - PhasePct) * HalfMax(c))

FluxFloor == Early(flux)
SightNear == mark # NoMark => Early(ns_to_index)
CountNear == lastMark # NoMark =>
                 \E c \in Centres : (now - index_offset_ns) - lastMark \in 0..Lateness(c)

LateInv == FluxFloor /\ SightNear /\ CountNear /\ TrackLenAccurate

LEMMA ClockMaxNat == ASSUME NEW c \in Centres
                     PROVE  /\ ClockMax(c) \in Nat /\ HalfMax(c) \in Nat
                            /\ Lateness(c) = ClockMax(c) + HalfMax(c)
  <1>1. c \in Nat /\ ClockMax(c) \in Int /\ c <= ClockMax(c)
    BY PllAssumption, ClockRange
  <1> QED BY <1>1 DEF HalfMax, Lateness

LEMMA ClockPositive == ASSUME IInv
                       PROVE  clock \in Nat /\ clock_centre \in Centres
                              /\ clock <= ClockMax(clock_centre)
  <1>1. clock_centre \in Centres /\ clock \in Int
    BY DEF IInv, TypeOK
  <1>2. ClockMin(clock_centre) \in Nat
    BY <1>1, PllAssumption, PercentBelow DEF ClockMin
  <1> QED BY <1>1, <1>2, ClockRange DEF IInv, ClockClamped

(* A product grows with its factor. *)
LEMMA TimesMonotone == ASSUME NEW a \in Int, NEW b \in Int, NEW p \in Nat, a <= b
                       PROVE  a * p <= b * p /\ a * p \in Int /\ b * p \in Int
  OBVIOUS

(* What is left of the error: no more than there was, and no less than the share  *)
(* that is not moved, but for the ns that the division drops.                     *)
LEMMA PllPhaseBounds ==
    ASSUME NEW err \in Int
    PROVE  /\ err >= 0 => /\ PllPhase(err) >= 0
                          /\ 100 * PllPhase(err) >= err * (100 - PhasePct) - 99
           /\ err < 0 => /\ PllPhase(err) >= err
                         /\ 100 * PllPhase(err) >= err * (100 - PhasePct)
  <1> DEFINE x == err * (100 - PhasePct)
  <1>1. PhasePct \in 0..100
    BY PllAssumption
  <1>2. x \in Int /\ (err >= 0 => x >= 0) /\ (err < 0 => x <= 0 /\ x >= 100 * err)
    <2>1. x = 100 * err - err * PhasePct /\ err * PhasePct \in Int
      BY <1>1
    <2>2. err * PhasePct \in (IF err >= 0 THEN 0..(100 * err) ELSE (100 * err)..0)
      BY <1>1
    <2> HIDE DEF x
    <2> QED BY <2>1, <2>2
  <1>3. PllPhase(err) = CDiv(x, 100)
    BY DEF PllPhase
  <1> HIDE DEF x
  <1>4. CASE x >= 0
    BY <1>2, <1>3, <1>4 DEF CDiv, x
  <1>5. CASE x < 0
    <2>1. (-x) \div 100 \in Nat /\ 100 * ((-x) \div 100) <= -x
      BY <1>2, <1>5
    <2>2. err < 0 /\ -x <= 100 * (-err)
      BY <1>2, <1>5
    <2>3. PllPhase(err) = -((-x) \div 100)
      BY <1>2, <1>3, <1>5 DEF CDiv
    <2>4. PllPhase(err) >= err /\ 100 * PllPhase(err) >= x
      BY <2>1, <2>2, <2>3, <1>2
    <2> QED BY <2>2, <2>4 DEF x
  <1> QED BY <1>2, <1>4, <1>5

(* The bit that crosses a pulse ends at most a window and a half later. *)
LEMMA CrossedSoon ==
    ASSUME NEW M \in Nat, NEW H \in Nat, H = (M + 1) \div 2,
           NEW clk \in Nat, clk <= M,
           NEW err \in Int, NEW f \in Int, NEW p \in 0..100,
           NEW ns \in Int, 100 * ns >= -((100 - p) * H),
           \/ f = err
           \/ err < 0 /\ f >= err
           \/ err >= 0 /\ err < clk \div 2 /\ 100 * f >= err * (100 - p) - 99
    PROVE  (clk + (err - f)) - ns <= M + H
  <1> DEFINE qH == (100 - p) * H
             pH == p * H
  <1>1. qH = 100 * H - pH /\ pH \in Nat /\ qH \in Nat
    BY TimesMonotone
  <1> HIDE DEF qH, pH
  <1>2. 100 * ns >= -qH
    BY DEF qH
  <1>3. CASE err - f <= 0
    BY <1>1, <1>2, <1>3
  <1>4. CASE err >= 0 /\ err < clk \div 2 /\ 100 * f >= err * (100 - p) - 99
    <2> DEFINE ep == err * p
    <2>1. err <= H - 1
      BY <1>4
    <2>2. ep <= (H - 1) * p /\ ep \in Int /\ (H - 1) * p \in Int
      BY <2>1, TimesMonotone
    <2>3. (H - 1) * p = pH - p
      BY DEF pH
    <2>4. err * (100 - p) = 100 * err - ep
      OBVIOUS
    <2> HIDE DEF ep
    <2> QED BY <1>1, <1>2, <1>4, <2>2, <2>3, <2>4
  <1> QED BY <1>3, <1>4

(* Of two bounds, each in terms of some centre, the wider one serves for both. *)
LEMMA WiderBound ==
    ASSUME NEW c \in Centres, NEW d \in Centres
    PROVE  \E e \in Centres : /\ ClockMax(c) <= ClockMax(e) /\ ClockMax(d) <= ClockMax(e)
                              /\ HalfMax(c) <= HalfMax(e) /\ HalfMax(d) <= HalfMax(e)
                              /\ Lateness(c) <= Lateness(e) /\ Lateness(d) <= Lateness(e)
  <1>1. ClockMax(c) \in Nat /\ ClockMax(d) \in Nat
    BY ClockMaxNat
  <1>2. CASE ClockMax(c) <= ClockMax(d)
    BY <1>1, <1>2 DEF HalfMax, Lateness
  <1>3. CASE ClockMax(d) <= ClockMax(c)
    BY <1>1, <1>3 DEF HalfMax, Lateness
  <1> QED BY <1>1, <1>2, <1>3

LEMMA EarlyAfter == ASSUME NEW x \in Int, NEW y \in Int, x <= y, Early(x)
                    PROVE  Early(y)
  <1> PICK c \in Centres : 100 * x >= -((100 - PhasePct) * HalfMax(c))
    BY DEF Early
  <1>1. (100 - PhasePct) * HalfMax(c) \in Int
    BY PllAssumption, ClockMaxNat
  <1>2. 100 * y >= -((100 - PhasePct) * HalfMax(c))
    BY <1>1
  <1> QED BY <1>2 DEF Early

LEMMA NotEarly == ASSUME NEW x \in Nat PROVE Early(x)
  <1>1. (100 - PhasePct) * HalfMax(InitCentre) \in Nat
    <2>1. InitCentre \in Centres /\ 100 - PhasePct \in Nat
      BY PllAssumption
    <2>2. HalfMax(InitCentre) \in Nat
      BY <2>1, ClockMaxNat
    <2> QED BY <2>1, <2>2
  <1>2. 100 * x >= -((100 - PhasePct) * HalfMax(InitCentre))
    BY <1>1
  <1> QED BY <1>2, PllAssumption DEF Early

(* A window leaves no more than half a cell of error behind, less what is moved.     *)
LEMMA WindowError ==
    ASSUME IInv, LateInv, flux >= clock \div 2, Window
    PROVE  LET err == flux - clock
           IN  /\ flux' \in Int /\ Early(flux')
               /\ \/ flux' = err
                  \/ err < 0 /\ flux' >= err
                  \/ /\ err >= 0 /\ err < clock \div 2
                     /\ 100 * flux' >= err * (100 - PhasePct) - 99
  <1> DEFINE err == flux - clock
             K == ClockMax(clock_centre)
             H == HalfMax(clock_centre)
  <1>1. flux \in Int /\ clock \in Nat /\ clock_centre \in Centres /\ clock <= K
        /\ K \in Nat /\ H \in Nat /\ H = (K + 1) \div 2
    BY ClockPositive, ClockMaxNat DEF IInv, TypeOK, HalfMax
  <1>2. err \in Int /\ 100 - PhasePct \in Nat
    BY <1>1, PllAssumption
  <1>3. CASE err >= clock \div 2
    <2>1. flux' = err
      BY <1>3 DEF Window
    <2> QED BY <1>1, <1>3, <2>1, NotEarly
  <1>4. CASE err < clock \div 2
    <2>1. flux' = PllPhase(err)
      BY <1>1, <1>4 DEF Window
    <2>2. flux' \in Int
      BY <1>2, <2>1, PllPhaseInt
    <2>3. CASE err >= 0
      <3>1. flux' >= 0 /\ 100 * flux' >= err * (100 - PhasePct) - 99
        BY <1>2, <2>1, <2>3, PllPhaseBounds
      <3> QED BY <1>4, <2>2, <2>3, <3>1, NotEarly
    <2>4. CASE err < 0
      <3>1. flux' >= err /\ 100 * flux' >= err * (100 - PhasePct)
        BY <1>2, <2>1, <2>4, PllPhaseBounds
      <3>2. -H <= err
        BY <1>1
      <3>3. (-H) * (100 - PhasePct) <= err * (100 - PhasePct)
            /\ (-H) * (100 - PhasePct) \in Int /\ err * (100 - PhasePct) \in Int
        <4> HIDE DEF err, H
        <4> QED BY <1>1, <1>2, <3>2, TimesMonotone
      <3>4. (-H) * (100 - PhasePct) = -((100 - PhasePct) * H)
        <4> HIDE DEF H
        <4> QED BY <1>1, <1>2
      <3>5. 100 * flux' >= -((100 - PhasePct) * H)
        <4> HIDE DEF err, H
        <4> QED BY <2>2, <3>1, <3>3, <3>4
      <3> QED BY <1>1, <2>2, <2>4, <3>1, <3>5 DEF Early
    <2> QED BY <1>2, <2>3, <2>4
  <1> QED BY <1>1, <1>2, <1>3, <1>4

(* A bitcell: the pulse is passed in it, late by no more than the bound, or it is    *)
(* still to come.                                                                *)
LEMMA BitDoneLate == ASSUME IInv, LateInv, BitDone PROVE LateInv'
  <1> USE DEF LateInv
  <1> DEFINE lat == latency' - latency
  <1>1. /\ flux \in Int /\ clock \in Nat /\ latency \in Int /\ now \in Int
        /\ index_offset_ns \in Int /\ ns_to_index \in Int /\ track_len_ns \in Int
        /\ mark \in Int /\ lastMark \in Int /\ trueLen \in Int
        /\ clock_centre \in Centres
    BY ClockPositive DEF IInv, TypeOK
  <1>2. flux >= clock \div 2 /\ Window /\ IndexTimer(lat) /\ now' = now + lat
    BY DEF BitDone
  <1>3. /\ flux' \in Int /\ Early(flux')
        /\ \/ flux' = flux - clock
           \/ flux - clock < 0 /\ flux' >= flux - clock
           \/ /\ flux - clock >= 0 /\ flux - clock < clock \div 2
              /\ 100 * flux' >= (flux - clock) * (100 - PhasePct) - 99
    BY <1>2, WindowError
  <1>4. lat = clock + ((flux - clock) - flux') /\ lat \in Int
    <2>1. latency' = latency + clock + ((flux - clock) - flux')
      BY <1>2 DEF Window
    <2> QED BY <1>1, <1>3, <2>1
  <1>5. FluxFloor'
    BY <1>3 DEF FluxFloor, Early, HalfMax, ClockMax
  <1>6. SightNear' /\ CountNear' /\ TrackLenAccurate'
    <2> HIDE DEF lat
    <2>1. CASE ns_to_index - lat > 0
      <3>1. /\ ns_to_index' = ns_to_index - lat
            /\ index_offset_ns' = index_offset_ns + lat
            /\ mark' = mark /\ lastMark' = lastMark /\ trueLen' = trueLen
            /\ track_len_ns' = track_len_ns
        BY <1>2, <2>1 DEF IndexTimer
      <3>2. Early(ns_to_index')
        BY <1>1, <1>4, <2>1, <3>1, NotEarly
      <3>3. now' - index_offset_ns' = now - index_offset_ns
        BY <1>1, <1>2, <1>4, <3>1
      <3>4. SightNear'
        BY <3>2 DEF SightNear, Early, HalfMax, ClockMax
      <3>5. CountNear' /\ TrackLenAccurate'
        BY <3>1, <3>3 DEF CountNear, TrackLenAccurate, Lateness, ClockMax
      <3> QED BY <3>4, <3>5
    <2>2. CASE ~(ns_to_index - lat > 0)
      <3>1. /\ track_len_ns' = index_offset_ns + lat /\ index_offset_ns' = 0
            /\ mark' = NoMark /\ lastMark' = mark
            /\ trueLen' = IF NoMark \in {mark, lastMark} THEN NoMark ELSE mark - lastMark
        BY <1>2, <2>2 DEF IndexTimer
      <3>2. ASSUME mark # NoMark
            PROVE  \E c \in Centres : (now + lat) - mark \in 0..Lateness(c)
        <4>1. ns_to_index = mark - now
          BY <3>2 DEF IInv, IndexTimerExact
        <4>2. PICK d \in Centres : 100 * ns_to_index >= -((100 - PhasePct) * HalfMax(d))
          BY <3>2 DEF SightNear, Early
        <4>3. PICK e \in Centres : /\ ClockMax(clock_centre) <= ClockMax(e)
                                   /\ HalfMax(d) <= HalfMax(e)
          BY <1>1, WiderBound
        <4>4. /\ ClockMax(e) \in Nat /\ HalfMax(e) \in Nat /\ HalfMax(d) \in Nat
              /\ HalfMax(e) = (ClockMax(e) + 1) \div 2
              /\ Lateness(e) = ClockMax(e) + HalfMax(e)
              /\ clock <= ClockMax(e)
          BY <1>1, <4>3, ClockPositive, ClockMaxNat DEF HalfMax
        <4>5. PhasePct \in 0..100 /\ 100 - PhasePct \in Nat
          BY PllAssumption
        <4>6. 100 * ns_to_index >= -((100 - PhasePct) * HalfMax(e))
          <5>1. HalfMax(d) * (100 - PhasePct) <= HalfMax(e) * (100 - PhasePct)
                /\ HalfMax(d) * (100 - PhasePct) \in Int
                /\ HalfMax(e) * (100 - PhasePct) \in Int
            BY <4>3, <4>4, <4>5, TimesMonotone
          <5> QED BY <1>1, <4>2, <4>4, <4>5, <5>1
        <4>7. (clock + ((flux - clock) - flux')) - ns_to_index <= ClockMax(e) + HalfMax(e)
          <5> DEFINE err == flux - clock
                     f == flux'
          <5>1. /\ err \in Int /\ f \in Int
                /\ \/ f = err
                   \/ err < 0 /\ f >= err
                   \/ err >= 0 /\ err < clock \div 2 /\ 100 * f >= err * (100 - PhasePct) - 99
            BY <1>1, <1>3
          <5> HIDE DEF err, f
          <5>2. (clock + (err - f)) - ns_to_index <= ClockMax(e) + HalfMax(e)
            BY <1>1, <4>4, <4>5, <4>6, <5>1, CrossedSoon
          <5> QED BY <5>2 DEF err, f
        <4>8. (now + lat) - mark \in 0..Lateness(e)
          BY <1>1, <1>4, <2>2, <4>1, <4>4, <4>7
        <4> QED BY <4>8
      <3>3. SightNear'
        BY <3>1 DEF SightNear, NoMark
      <3>4. CountNear'
        <4>1. now' - index_offset_ns' = now + lat
          BY <1>1, <1>2, <1>4, <3>1
        <4> QED BY <3>1, <3>2, <4>1 DEF CountNear, Lateness, ClockMax, NoMark
      <3>5. TrackLenAccurate'
        <4>1. SUFFICES ASSUME mark # NoMark, lastMark # NoMark
              PROVE  \E e \in Centres :
                        (index_offset_ns + lat) - (mark - lastMark) \in -Lateness(e)..Lateness(e)
          BY <3>1 DEF TrackLenAccurate, Lateness, ClockMax, NoMark
        <4>2. PICK c \in Centres : (now + lat) - mark \in 0..Lateness(c)
          BY <3>2, <4>1
        <4>3. PICK d \in Centres : (now - index_offset_ns) - lastMark \in 0..Lateness(d)
          BY <4>1 DEF CountNear
        <4>4. PICK e \in Centres : Lateness(c) <= Lateness(e) /\ Lateness(d) <= Lateness(e)
          BY WiderBound
        <4>5. Lateness(c) \in Int /\ Lateness(d) \in Int /\ Lateness(e) \in Int
          BY ClockMaxNat
        <4>6. (index_offset_ns + lat) - (mark - lastMark)
                 = ((now + lat) - mark) - ((now - index_offset_ns) - lastMark)
          BY <1>1, <1>4
        <4>7. (index_offset_ns + lat) - (mark - lastMark) \in -Lateness(e)..Lateness(e)
          BY <1>1, <1>4, <4>2, <4>3, <4>4, <4>5, <4>6
        <4> QED BY <4>7
      <3> QED BY <3>3, <3>4, <3>5
    <2> QED BY <2>1, <2>2
  <1> QED BY <1>5, <1>6

(* The source adds flux, and places a pulse in what it adds.                        *)
LEMMA SightLate ==
    ASSUME IInv, LateInv, NEW i \in Int, i >= 0 \/ i = NoMark, Sight(i)
    PROVE  SightNear'
  <1>1. flux \in Int
    BY DEF IInv, TypeOK
  <1>2. CASE i = NoMark
    BY <1>2 DEF Sight, LateInv, SightNear, Early, HalfMax, ClockMax
  <1>3. CASE i # NoMark
    <2>1. ns_to_index' = flux + i
      BY <1>3 DEF Sight
    <2>2. Early(flux + i)
      BY <1>1, <1>3, EarlyAfter DEF LateInv, FluxFloor
    <2> QED BY <2>1, <2>2 DEF SightNear, Early, HalfMax, ClockMax
  <1> QED BY <1>2, <1>3

LEMMA PullLate ==
    ASSUME IInv, LateInv, NEW d \in Nat, NEW i \in Int, i >= 0 \/ i = NoMark, Pull(d, i)
    PROVE  LateInv'
  <1>1. flux \in Int /\ flux' = flux + d /\ Sight(i)
    BY DEF IInv, TypeOK, Pull
  <1>2. FluxFloor'
    <2>1. Early(flux + d)
      BY <1>1, EarlyAfter DEF LateInv, FluxFloor
    <2> QED BY <1>1, <2>1 DEF FluxFloor, Early, HalfMax, ClockMax
  <1>3. SightNear'
    BY <1>1, SightLate
  <1>4. CountNear' /\ TrackLenAccurate'
    BY DEF Pull, LateInv, CountNear, TrackLenAccurate, Lateness, ClockMax
  <1> QED BY <1>2, <1>3, <1>4 DEF LateInv

LEMMA PullEndLate ==
    ASSUME IInv, LateInv, NEW i \in Int, i >= 0 \/ i = NoMark, PullEnd(i)
    PROVE  LateInv'
  <1>1. SightNear'
    BY SightLate DEF PullEnd
  <1>2. FluxFloor'
    BY DEF PullEnd, LateInv, FluxFloor, Early, HalfMax, ClockMax, pllVars
  <1>3. CountNear' /\ TrackLenAccurate'
    BY DEF PullEnd, LateInv, CountNear, TrackLenAccurate, Lateness, ClockMax
  <1> QED BY <1>1, <1>2, <1>3 DEF LateInv

LEMMA ResetLate == ASSUME ResetState PROVE LateInv'
  <1>1. flux' = 0 /\ mark' = NoMark /\ lastMark' = NoMark /\ trueLen' = NoMark
    BY DEF ResetState
  <1>2. FluxFloor'
    <2>1. Early(0)
      BY NotEarly
    <2> QED BY <1>1, <2>1 DEF FluxFloor, Early, HalfMax, ClockMax
  <1>3. SightNear' /\ CountNear' /\ TrackLenAccurate'
    BY <1>1 DEF SightNear, CountNear, TrackLenAccurate
  <1> QED BY <1>2, <1>3 DEF LateInv

(* What the other steps leave alone is all that LateInv speaks of.                  *)
LEMMA SameLate ==
    ASSUME LateInv,
           UNCHANGED <<flux, ns_to_index, mark, lastMark, trueLen, now, index_offset_ns,
                       track_len_ns>>
    PROVE  LateInv'
  BY DEF LateInv, FluxFloor, SightNear, CountNear, TrackLenAccurate, Early, HalfMax,
         Lateness, ClockMax

LEMMA InitLate == Init => LateInv
  <1> SUFFICES ASSUME Init PROVE LateInv
    OBVIOUS
  <1>1. Early(flux)
    BY NotEarly DEF Init
  <1> QED BY <1>1 DEF Init, LateInv, FluxFloor, SightNear, CountNear, TrackLenAccurate

LEMMA NextLate == IInv /\ LateInv /\ [Next]_vars => LateInv'
  <1> SUFFICES ASSUME IInv, LateInv, [Next]_vars PROVE LateInv'
    OBVIOUS
  <1>1. CASE Reset \/ LockDone \/ \E m \in TypeRevs \cup {0} : SelectTrack(m)
    BY <1>1, ResetLate DEF Reset, LockDone, SelectTrack, BeginReset
  <1>2. CASE SelectFails
    BY <1>2, SameLate DEF SelectFails, pllVars, indexVars, history
  <1>3. CASE (\E n \in 1..MaxBits : NextBits(n)) \/ NextIndex
    BY <1>3, SameLate DEF NextBits, NextIndex, pllVars, indexVars, history
  <1>4. CASE \E c \in Centres : SetDensity(c)
    BY <1>4, SameLate DEF SetDensity, indexVars, history
  <1>5. CASE ZeroLatency
    BY <1>5, SameLate DEF ZeroLatency, pllVars, indexVars, history
  <1>6. CASE AnyPull
    <2>1. ASSUME NEW d \in FluxSteps, NEW i \in {NoMark} \cup IndexSteps, Pull(d, i)
          PROVE  LateInv'
      <3>1. d \in Nat /\ i \in Int /\ (i >= 0 \/ i = NoMark)
        BY StreamAssumption DEF NoMark
      <3> QED BY <2>1, <3>1, PullLate
    <2>2. ASSUME NEW i \in {NoMark} \cup IndexSteps, PullEnd(i)
          PROVE  LateInv'
      <3>1. i \in Int /\ (i >= 0 \/ i = NoMark)
        BY StreamAssumption DEF NoMark
      <3> QED BY <2>2, <3>1, PullEndLate
    <2> QED BY <1>6, <2>1, <2>2 DEF AnyPull
  <1>7. CASE BitRefused \/ Return
    BY <1>7, SameLate DEF BitRefused, Return, pllVars, indexVars, history
  <1>8. CASE BitStart
    BY <1>8, SameLate DEF BitStart, pllVars, history
  <1>9. CASE BitDone
    BY <1>9, BitDoneLate
  <1>10. CASE UNCHANGED vars
    BY <1>10, SameLate DEF vars, pllVars, indexVars, history
  <1> QED BY <1>1, <1>2, <1>3, <1>4, <1>5, <1>6, <1>7, <1>8, <1>9, <1>10
      DEF Next, Call, Run

-----------------------------------------------------------------------------
(* The strengthened invariant holds in every state of the stream layer, from     *)
(* stream_setup through any calls on the stream.                                *)
THEOREM SpecInv == Spec => []IInv
  <1> QED BY InitInv, NextInv, PTL DEF Spec

(* Every field of struct stream stays in its type, through every call.           *)
THEOREM StreamTyped == Spec => []TypeOK
  <1>1. IInv => TypeOK
    BY DEF IInv
  <1> QED BY SpecInv, <1>1, PTL

(* The PLL clock never leaves CLOCK_MAX_ADJ percent around the selected cell      *)
(* width, whatever intervals arrive and however often the density is changed.    *)
THEOREM ClockStaysClamped == Spec => []ClockClamped
  <1>1. IInv => ClockClamped
    BY DEF IInv
  <1> QED BY SpecInv, <1>1, PTL

(* The fields and the clock keep their ranges, through every call of the stream's    *)
(* interface.                                                                    *)
THEOREM StreamWellFormed == Spec => []WellFormed
  <1> QED BY StreamTyped, ClockStaysClamped, PTL DEF WellFormed

(* For any flux, any clock and any phase adjustment, the time accounted to the     *)
(* bits read plus the flux waiting is the flux delivered (flux_next_bit).         *)
THEOREM FluxIsConserved == Spec => []FluxConserved
  <1>1. IInv => FluxConserved
    BY DEF IInv
  <1> QED BY SpecInv, <1>1, PTL

(* The index timer stays exact between the pull that saw a pulse and the bit that  *)
(* crosses it (stream_next_bit).  It rests on the conservation of flux.           *)
THEOREM IndexTimerIsExact == Spec => []IndexTimerExact
  <1>1. IInv => IndexTimerExact
    BY DEF IInv
  <1> QED BY SpecInv, <1>1, PTL

(* No caller gets past max_revolutions + 1 index pulses, and each gets MinRevs at   *)
(* least, for any limit a source sets or leaves unset and any order of calls        *)
(* (stream_next_bit, stream_select_track).                                         *)
THEOREM RevolutionsLimited == Spec => []RevolutionLimit
  <1>1. IInv => RevolutionLimit
    BY DEF IInv
  <1> QED BY SpecInv, <1>1, PTL

(* A revolution is measured as long as it was to within a bitcell and a half, for   *)
(* any flux, any clock parameters and any change of density in between: the two     *)
(* pulses are noticed at the ends of the bits that cross them (stream_next_bit).     *)
THEOREM RevolutionsMeasured == Spec => []TrackLenAccurate
  <1>1. Init /\ [][Next]_vars /\ []IInv => []LateInv
    BY InitLate, NextLate, PTL
  <1>2. LateInv => TrackLenAccurate
    BY DEF LateInv
  <1> QED BY SpecInv, <1>1, <1>2, PTL DEF Spec

-----------------------------------------------------------------------------
(* The dump of an SCP track: what follows from the way it is stored.           *)

(* A function that never falls from one number to the next never falls.        *)
LEMMA NeverFalls ==
    ASSUME NEW n \in Nat, NEW f, \A k \in 0..n : f[k] \in Int,
           \A k \in 1..n : f[k - 1] <= f[k],
           NEW j \in 0..n, NEW k \in 0..n, j <= k
    PROVE  f[j] <= f[k]
  <1> DEFINE Bad == {i \in Nat : i >= j /\ i <= n /\ ~(f[j] <= f[i])}
  <1>1. Bad = {}
    <2> SUFFICES ASSUME Bad # {} PROVE FALSE
      OBVIOUS
    <2>1. Min(Bad) \in Bad /\ \A i \in Bad : Min(Bad) <= i
      BY LeastExists
    <2> DEFINE m == Min(Bad)
    <2>2. m \in Nat /\ m >= j /\ m <= n /\ ~(f[j] <= f[m])
      BY <2>1
    <2> HIDE DEF m
    <2>3. m # j
      BY <2>2
    <2>4. m - 1 \in Nat /\ m - 1 >= j /\ m - 1 <= n /\ m \in 1..n
      BY <2>2, <2>3
    <2>5. f[j] <= f[m - 1]
      <3>1. ~(m - 1 \in Bad)
        BY <2>1, <2>2, <2>4 DEF m
      <3> QED BY <2>4, <3>1
    <2>6. f[m - 1] <= f[m]
      BY <2>4
    <2>7. f[j] \in Int /\ f[m - 1] \in Int /\ f[m] \in Int
      BY <2>2, <2>4
    <2> QED BY <2>2, <2>5, <2>6, <2>7
  <1>2. k \in Nat /\ ~(k \in Bad)
    BY <1>1
  <1> QED BY <1>2

(* The numbers in a list of numbers. *)
LEMMA EntriesNat == ASSUME NEW s \in Seq(Nat)
                    PROVE  Len(s) \in Nat /\ \A k \in 1..Len(s) : s[k] \in Nat
  OBVIOUS

(* Revolutions lie within the dump, one after the other. *)
LEMMA ScpStored ==
    ASSUME NEW t \in DOMAIN ScpData, NEW D, D = ScpData[t]
    PROVE  /\ Len(D.index_off) = ScpRevs(t) /\ ScpRevs(t) \in Nat \ {0}
           /\ Len(D.dat) \in Nat /\ D.total_ticks \in Nat
           /\ \A k \in 1..Len(D.dat) : D.dat[k] \in Nat
           /\ \A r \in 1..ScpRevs(t) :
                 /\ D.index_off[r] \in 1..Len(D.dat)
                 /\ ScpFrom(D, r) \in 0..(D.index_off[r] - 1)
  <1> DEFINE R == ScpRevs(t)
             off == D.index_off
  <1>1. /\ D.dat \in Seq(Nat) /\ off \in Seq(Nat) /\ R > 0 /\ off[R] = Len(D.dat)
        /\ \A r \in 1..R : ScpFrom(D, r) < off[r]
        /\ D.total_ticks \in Nat
    BY ScpLayout
  <1>2. Len(off) = R
    BY DEF ScpRevs
  <1>3. R \in Nat \ {0} /\ Len(D.dat) \in Nat /\ (\A k \in 1..Len(D.dat) : D.dat[k] \in Nat)
        /\ \A r \in 1..R : off[r] \in Nat
    <2> HIDE DEF R, off
    <2>1. Len(off) \in Nat /\ \A r \in 1..Len(off) : off[r] \in Nat
      BY <1>1, EntriesNat
    <2>2. Len(D.dat) \in Nat /\ \A k \in 1..Len(D.dat) : D.dat[k] \in Nat
      BY <1>1, EntriesNat
    <2> QED BY <1>1, <1>2, <2>1, <2>2
  <1> HIDE DEF R
  <1>4. \A r \in 1..R : ScpFrom(D, r) \in Nat
    BY <1>3 DEF ScpFrom
  <1> DEFINE f == [k \in 0..R |-> IF k = 0 THEN 0 ELSE off[k]]
  <1>5. /\ \A k \in 0..R : f[k] \in Int
        /\ \A k \in 1..R : f[k - 1] <= f[k]
    <2>1. ASSUME NEW k \in 1..R PROVE f[k - 1] <= f[k]
      <3>1. k - 1 \in 0..R /\ k \in 0..R /\ f[k] = off[k] /\ off[k] \in Nat
        BY <1>3
      <3>2. f[k - 1] = ScpFrom(D, k)
        BY <1>3, <3>1 DEF ScpFrom
      <3>3. ScpFrom(D, k) < off[k] /\ ScpFrom(D, k) \in Nat
        BY <1>1, <1>4
      <3> HIDE DEF f, off
      <3> QED BY <3>1, <3>2, <3>3
    <2>2. \A k \in 0..R : f[k] \in Int
      BY <1>3
    <2> QED BY <2>1, <2>2
  <1>6. ASSUME NEW r \in 1..R PROVE off[r] <= off[R]
    <2>1. r \in 0..R /\ R \in 0..R /\ r <= R /\ R \in Nat
      BY <1>3
    <2>2. f[r] <= f[R]
      <3> HIDE DEF f
      <3> QED BY <1>5, <2>1, NeverFalls
    <2>3. f[r] = off[r] /\ f[R] = off[R]
      BY <1>3, <2>1
    <2> QED BY <2>2, <2>3
  <1>7. ASSUME NEW r \in 1..R
        PROVE  off[r] \in 1..Len(D.dat) /\ ScpFrom(D, r) \in 0..(off[r] - 1)
    <2>1. off[r] \in Nat /\ off[r] <= Len(D.dat) /\ ScpFrom(D, r) < off[r]
          /\ ScpFrom(D, r) \in Nat /\ Len(D.dat) \in Nat
      BY <1>1, <1>3, <1>4, <1>6, <1>7
    <2> HIDE DEF off
    <2> QED BY <2>1
  <1> QED BY <1>1, <1>2, <1>3, <1>7 DEF R

(* Time passes along the dump, and ends within the header's total. *)
LEMMA ScpTimes ==
    ASSUME NEW t \in DOMAIN ScpData, NEW D, D = ScpData[t]
    PROVE  /\ \A k \in 0..Len(D.dat) : D.at[k] \in Nat /\ D.at[k] <= D.total_ticks
           /\ D.at[0] = 0
           /\ \A k \in 1..Len(D.dat) : D.at[k] = D.at[k - 1] + ScpTicks(D.dat[k])
           /\ \A j, k \in 0..Len(D.dat) : j <= k => D.at[j] <= D.at[k]
  <1> DEFINE n == Len(D.dat)
  <1>1. /\ D.at \in [0..n -> Nat] /\ D.at[0] = 0
        /\ \A k \in 1..n : D.at[k] = D.at[k - 1] + ScpTicks(D.dat[k])
        /\ D.total_ticks \in Nat /\ D.at[n] <= D.total_ticks /\ Overflow \in Nat
    BY ScpLayout
  <1>2. n \in Nat /\ \A k \in 1..n : D.dat[k] \in Nat
    BY ScpStored
  <1> HIDE DEF n
  <1>3. \A k \in 1..n : D.at[k - 1] <= D.at[k]
    <2> TAKE k \in 1..n
    <2>1. ScpTicks(D.dat[k]) \in Nat
      BY <1>1, <1>2 DEF ScpTicks
    <2>2. D.at[k - 1] \in Nat /\ D.at[k] = D.at[k - 1] + ScpTicks(D.dat[k])
      <3>1. k - 1 \in 0..n
        BY <1>2
      <3> QED BY <1>1, <3>1
    <2> QED BY <2>1, <2>2
  <1>4. \A k \in 0..n : D.at[k] \in Nat
    BY <1>1
  <1>5. \A j, k \in 0..n : j <= k => D.at[j] <= D.at[k]
    <2> TAKE j, k \in 0..n
    <2> HAVE j <= k
    <2>1. \A i \in 0..n : D.at[i] \in Int
      BY <1>4
    <2> QED BY <1>2, <1>3, <2>1, NeverFalls
  <1>6. \A k \in 0..n : D.at[k] <= D.total_ticks
    BY <1>1, <1>2, <1>4, <1>5
  <1> QED BY <1>1, <1>4, <1>5, <1>6 DEF n

(* The scale of the times: ticks, and whole ns, in units of 1/DataRpm ns.         *)
LEMMA RateNat == Rate \in Nat /\ Trunc \in Nat /\ DataRpm \in Nat \ {0} /\ Overflow \in Nat
  <1>1. Tick \in Nat /\ DriveRpm \in Nat /\ DataRpm \in Nat \ {0} /\ Overflow \in Nat
    BY RpmAssumption, ScpLayout
  <1>2. Rate \in Nat
    BY <1>1 DEF Rate
  <1>3. Trunc \in Nat
    BY <1>1, <1>2 DEF Trunc
  <1> QED BY <1>1, <1>2, <1>3

LEMMA Scales ==
    ASSUME NEW k \in Nat, NEW x \in Int, NEW y \in Int
    PROVE  /\ k * x \in Int /\ k * y \in Int
           /\ k * (x + y) = k * x + k * y /\ k * (x - y) = k * x - k * y
           /\ x <= y => k * x <= k * y
           /\ x >= 0 => k * x >= 0
  <1>1. k * x \in Int /\ k * y \in Int /\ k * (x + y) = k * x + k * y
        /\ k * (x - y) = k * x - k * y
    OBVIOUS
  <1>2. x <= y => k * x <= k * y
    <2>1. x <= y => x * k <= y * k
      BY TimesMonotone
    <2>2. x * k = k * x /\ y * k = k * y
      OBVIOUS
    <2> QED BY <2>1, <2>2
  <1>3. x >= 0 => k * x >= 0
    <2>1. x \in Nat => k * x \in Nat
      OBVIOUS
    <2>2. x >= 0 => x \in Nat
      OBVIOUS
    <2> QED BY <1>1, <2>1, <2>2
  <1> QED BY <1>1, <1>2, <1>3

LEMMA RateTimes == ASSUME NEW x \in Int, NEW y \in Int, x <= y
                   PROVE  Rate * x <= Rate * y /\ Rate * x \in Int /\ Rate * y \in Int
  BY RateNat, Scales

LEMMA RateAdds == ASSUME NEW x \in Int, NEW y \in Int
                  PROVE  Rate * (x + y) = Rate * x + Rate * y
                         /\ Rate * x \in Int /\ Rate * y \in Int
  BY RateNat, Scales

(* An interval is truncated to whole ns: it loses less than one.                *)
LEMMA ScpNsTruncates ==
    ASSUME NEW v \in Nat
    PROVE  /\ ScpNs(v) \in Nat /\ DataRpm * ScpNs(v) \in Nat /\ Rate * v \in Nat
           /\ DataRpm * ScpNs(v) <= Rate * v /\ Rate * v <= DataRpm * ScpNs(v) + Trunc
  <1> DEFINE d == DataRpm
             x == Rate * v
             q == x \div d
             m == x % d
  <1>1. Rate \in Nat /\ Trunc \in Nat /\ d \in Nat \ {0}
    BY RateNat
  <1>2. x \in Nat
    BY <1>1
  <1>3. q \in Nat /\ m \in 0..(d - 1) /\ x = d * q + m /\ d * q \in Nat
    <2> HIDE DEF x, d
    <2> QED BY <1>1, <1>2
  <1>4. m <= Trunc
    <2>1. CASE Rate % d = 0
      <3> DEFINE w == Rate \div d
      <3>1. w \in Nat /\ Rate = d * w
        <4> HIDE DEF d
        <4> QED BY <1>1, <2>1
      <3> HIDE DEF w
      <3>2. x = d * (w * v) /\ w * v \in Nat
        BY <1>1, <3>1
      <3>3. m = 0
        <4> DEFINE y == w * v
        <4>1. x = d * y /\ y \in Nat
          BY <3>2
        <4> HIDE DEF y, x, d, q, m
        <4>2. d * q <= d * y /\ (y >= q + 1 => d * y >= d * q + d)
          <5>1. d * (q + 1) = d * q + d /\ (q + 1 <= y => d * (q + 1) <= d * y)
            BY <1>1, <1>3, <4>1, Scales
          <5> QED BY <1>1, <1>3, <4>1, <5>1
        <4>3. ~(y >= q + 1)
          BY <1>1, <1>3, <4>1, <4>2
        <4>4. y <= q => d * y <= d * q
          BY <1>1, <1>3, <4>1, Scales
        <4> QED BY <1>1, <1>3, <4>1, <4>2, <4>3, <4>4
      <3> QED BY <1>1, <3>3
    <2>2. CASE Rate % d # 0
      BY <1>1, <1>3, <2>2 DEF Trunc
    <2> QED BY <2>1, <2>2
  <1>5. ScpNs(v) = q
    BY DEF ScpNs
  <1> HIDE DEF q, m, x
  <1>6. d * q <= x /\ x <= d * q + Trunc
    BY <1>1, <1>2, <1>3, <1>4
  <1> QED BY <1>2, <1>3, <1>5, <1>6 DEF x, d

(* Reading a word on the way to a reversal that is late enough: it is still to  *)
(* come, or this is the one.                                                   *)
LEMMA ScpReads ==
    ASSUME NEW t \in DOMAIN ScpData, NEW D, D = ScpData[t], NEW r \in 1..ScpRevs(t),
           NEW k \in Nat, k < D.index_off[r], ScpAhead(D, r, k)
    PROVE  \/ ScpAhead(D, r, k + 1)
           \/ /\ D.dat[k + 1] # 0
              /\ ScpLong(ScpLeast(D, ScpFrom(D, r), k + 1))
  <1> PICK m \in (k + 1)..D.index_off[r] :
         D.dat[m] # 0 /\ ScpLong(ScpLeast(D, ScpFrom(D, r), m))
    BY DEF ScpAhead
  <1>1. D.index_off[r] \in Nat
    BY ScpStored
  <1>2. CASE m = k + 1
    BY <1>2
  <1>3. CASE m # k + 1
    <2>1. m \in ((k + 1) + 1)..D.index_off[r]
      BY <1>1, <1>3
    <2> QED BY <2>1 DEF ScpAhead
  <1> QED BY <1>2, <1>3

(* At the end of a revolution nothing of it is left. *)
LEMMA ScpNoneAhead ==
    ASSUME NEW t \in DOMAIN ScpData, NEW D, D = ScpData[t], NEW r \in 1..ScpRevs(t)
    PROVE  ~ScpAhead(D, r, D.index_off[r])
  <1>1. D.index_off[r] \in Nat
    BY ScpStored
  <1> QED BY <1>1 DEF ScpAhead

(* What is longer than a cell stays so. *)
LEMMA ScpLonger == ASSUME NEW x \in Int, NEW y \in Int, x <= y, ScpLong(x)
                   PROVE  ScpLong(y)
  <1> SUFFICES ASSUME NEW c \in Centres PROVE y > DataRpm * ClockMax(c)
    BY DEF ScpLong
  <1>1. x > DataRpm * ClockMax(c) /\ DataRpm * ClockMax(c) \in Int
    <2>1. ClockMax(c) \in Int /\ DataRpm \in Nat
      BY ClockMaxNat, RateNat
    <2> QED BY <2>1, Scales DEF ScpLong
  <1> QED BY <1>1

(* Counting on by one, round and round. *)
LEMMA CountOn ==
    ASSUME NEW R \in Nat \ {0}, NEW n \in Nat \ {0}
    PROVE  /\ n % R \in 0..(R - 1) /\ (n - 1) % R \in 0..(R - 1)
           /\ n % R # 0 => (n - 1) % R = (n % R) - 1
           /\ n % R = 0 => (n - 1) % R = R - 1
  <1> DEFINE q == n \div R
             m == n % R
             p == (n - 1) \div R
             l == (n - 1) % R
  <1>1. q \in Nat /\ m \in 0..(R - 1) /\ n = R * q + m
    OBVIOUS
  <1>2. p \in Nat /\ l \in 0..(R - 1) /\ n - 1 = R * p + l
    <2>1. n - 1 \in Nat
      OBVIOUS
    <2> QED BY <2>1
  <1> HIDE DEF q, m, p, l
  <1>3. CASE p >= q + 1
    <2>1. R * (q + 1) <= R * p /\ R * (q + 1) = R * q + R /\ R * p \in Nat /\ R * q \in Nat
      BY <1>1, <1>2, <1>3, TimesMonotone
    <2> QED BY <1>1, <1>2, <2>1
  <1>4. CASE p = q
    BY <1>1, <1>2, <1>4 DEF m, l
  <1>5. CASE p = q - 1
    <2>1. R * p = R * q - R /\ R * q \in Nat
      BY <1>1, <1>2, <1>5
    <2> QED BY <1>1, <1>2, <2>1 DEF m, l
  <1>6. CASE p <= q - 2
    <2>1. R * (p + 2) <= R * q /\ R * (p + 2) = R * p + R + R /\ R * p \in Nat /\ R * q \in Nat
      BY <1>1, <1>2, <1>6, TimesMonotone
    <2> QED BY <1>1, <1>2, <2>1
  <1> QED BY <1>1, <1>2, <1>3, <1>4, <1>5, <1>6

-----------------------------------------------------------------------------
(* The invariant of an SCP stream.  s, a, i and p stand for src, acc, idx and   *)
(* passes, so that it can be said of the locals of a call in the middle of it.  *)

(* A lone revolution is jittered, and nothing is said of its time. *)
Steady == ~ScpApplyJitter(track)

(* The revolution cued: a pulse that has not been crossed is not yet counted. *)
ScpCur(i) ==
    ((IF mark = NoMark /\ i = NoMark THEN nr_index - 1 ELSE nr_index) % ScpRevs(track)) + 1

ScpLocal(s, a, i, p) ==
    /\ s \in [dat_idx : Nat, index_pos : Nat, jitter : Int, acc_ticks : Int, seen : BOOLEAN]
    /\ a \in Nat /\ i \in {NoMark, 0} /\ p \in Nat

ScpPlaced(s, a, i, p) ==
    /\ s.acc_ticks + a = ScpData[track].at[s.dat_idx]
    /\ \/ /\ s.index_pos = 0 /\ s.dat_idx = 0 /\ a = 0 /\ i = NoMark /\ p = 0
          /\ pulled = 0 /\ nr_index = 0 /\ mark = NoMark /\ lastMark = NoMark
       \/ /\ s.index_pos = ScpData[track].index_off[ScpCur(i)]
          /\ s.dat_idx \in ScpFrom(ScpData[track], ScpCur(i))..s.index_pos

(* The pulse is in sight or was counted: the flux since then is that of the     *)
(* revolution, or what there was before it of the interval with the pulse.      *)
ScpSince(s) ==
    LET D == ScpData[track]
        r == ScpCur(NoMark)
        M == IF mark # NoMark THEN mark ELSE lastMark
    IN  /\ M # NoMark /\ (nr_index # 0 \/ mark # NoMark)
        /\ s.acc_ticks >= D.at[ScpFrom(D, r)]
        /\ DataRpm * (pulled - M) <= Rate * (s.acc_ticks + (ScpBefore(D, r) + ScpReplay(D, r)))
        /\ mark # NoMark =>
              \/ ScpLong(DataRpm * (pulled - mark))
              \/ /\ Rate * (s.acc_ticks - D.at[ScpFrom(D, r)])
                       - Trunc * (s.dat_idx - ScpFrom(D, r)) <= DataRpm * (pulled - mark)
                 /\ ScpAhead(D, r, s.dat_idx)

(* The pulse was met in this call, and is handed over with the flux. *)
ScpMet(s) ==
    LET D == ScpData[track]
        r == ScpCur(0)
    IN  /\ s.acc_ticks >= -ScpBefore(D, r) /\ s.acc_ticks <= D.at[ScpFrom(D, r)]
        /\ ScpAhead(D, r, s.dat_idx) \/ ScpLongSilence(D, r)

(* What was delivered, after p passes and the given ticks and words.            *)
ScpWithin(p, ticks, words) ==
    LET D    == ScpData[track]
        owed == Rate * (p * D.total_ticks + ticks) - DataRpm * pulled
    IN  owed >= 0 /\ owed <= Trunc * (p * Len(D.dat) + words)

(* A word not yet handed over has lost nothing; neither have those of a revolution *)
(* whose pulse is not yet handed over.                                          *)
ScpLost(s, i) == IF i = NoMark THEN s.dat_idx ELSE ScpFrom(ScpData[track], ScpCur(0))

ScpTimed(s, i, p) ==
    /\ pulled \in Nat
    /\ ScpWithin(p, s.acc_ticks, ScpLost(s, i))
    /\ s.index_pos # 0 /\ i = NoMark => ScpSince(s)
    /\ i # NoMark => ScpMet(s)

(* The index timer: a pulse in sight is crossed by the bit being read; without  *)
(* one, the timer is about INT_MAX.                                            *)
ScpTimer ==
    IF mark # NoMark THEN phase = "pull" /\ ns_to_index < clock \div 2
    ELSE ns_to_index + now >= IntMax + IF lastMark = NoMark THEN 0 ELSE lastMark

ScpCall ==
    IF busy THEN phase = "pull" /\ flux < clock \div 2 /\ (src.seen <=> idx = 0)
            ELSE acc = 0 /\ idx = NoMark

ScpPlaying ==
    /\ track \in DOMAIN ScpData /\ busy \in BOOLEAN
    /\ ScpLocal(src, acc, idx, passes) /\ ScpPlaced(src, acc, idx, passes) /\ ScpCall
    /\ Steady => ScpTimed(src, idx, passes)
    /\ Steady \/ src.index_pos = 0 => LateInv /\ ScpTimer

ScpInv ==
    kind = "scp" =>
        /\ IInv
        /\ IF phase = "closed" THEN track = NoTrack /\ busy = FALSE /\ acc = 0 /\ idx = NoMark
                               ELSE ScpPlaying

-----------------------------------------------------------------------------
(* Cueing a revolution. *)

(* Some revolution of the dump is always cued. *)
LEMMA ScpCurIn == ASSUME IInv, track \in DOMAIN ScpData, NEW i
                  PROVE  ScpCur(i) \in 1..ScpRevs(track)
  <1>1. ScpRevs(track) \in Nat \ {0} /\ nr_index \in Nat
    BY ScpStored DEF IInv, TypeOK
  <1>2. nr_index % ScpRevs(track) \in 0..(ScpRevs(track) - 1)
        /\ (nr_index - 1) % ScpRevs(track) \in 0..(ScpRevs(track) - 1)
    BY <1>1
  <1> QED BY <1>1, <1>2 DEF ScpCur

(* Jitter is for lone revolutions only (scp_select_track). *)
LEMMA ScpJitteredAlone == ASSUME ~Steady PROVE ScpRevs(track) = 1
  BY DEF Steady, ScpApplyJitter

(* The place where a revolution ends. *)
LEMMA ScpAtEnd ==
    ASSUME IInv, track \in DOMAIN ScpData,
           ScpLocal(src, acc, idx, passes), ScpPlaced(src, acc, idx, passes),
           src.dat_idx >= src.index_pos
    PROVE  \/ /\ src.index_pos = 0 /\ src.dat_idx = 0 /\ acc = 0 /\ idx = NoMark /\ passes = 0
              /\ pulled = 0 /\ nr_index = 0 /\ mark = NoMark /\ lastMark = NoMark
              /\ ScpRev = 0 /\ ~ScpWraps /\ src.acc_ticks = 0
           \/ /\ src.index_pos = ScpData[track].index_off[ScpCur(idx)]
              /\ src.dat_idx = src.index_pos /\ src.index_pos # 0
              /\ ScpWraps <=> ScpRev = 0
  <1> DEFINE D == ScpData[track]
             r == ScpCur(idx)
  <1>1. ScpRevs(track) \in Nat \ {0} /\ nr_index \in Nat /\ r \in 1..ScpRevs(track)
    BY ScpStored, ScpCurIn DEF IInv, TypeOK
  <1>2. D.index_off[r] \in Nat /\ D.index_off[r] # 0 /\ ScpFrom(D, r) \in Nat
    BY <1>1, ScpStored
  <1>3. src.dat_idx \in Nat /\ src.index_pos \in Nat /\ src.acc_ticks \in Int
    BY DEF ScpLocal
  <1> HIDE DEF D, r
  <1>4. CASE src.index_pos = 0
    <2>1. /\ src.dat_idx = 0 /\ acc = 0 /\ idx = NoMark /\ passes = 0
          /\ pulled = 0 /\ nr_index = 0 /\ mark = NoMark /\ lastMark = NoMark
      BY <1>2, <1>4 DEF ScpPlaced, D, r
    <2>2. ScpRev = 0 /\ ~ScpWraps
      BY <1>1, <1>4, <2>1 DEF ScpRev, ScpWraps
    <2>3. src.acc_ticks = 0
      <3>1. src.acc_ticks + 0 = D.at[0] /\ D.at[0] = 0
        BY <2>1, ScpTimes DEF ScpPlaced, D
      <3> QED BY <1>3, <3>1
    <2> QED BY <1>4, <2>1, <2>2, <2>3
  <1>5. CASE src.index_pos # 0
    <2>1. src.index_pos = D.index_off[r] /\ src.dat_idx \in ScpFrom(D, r)..src.index_pos
      BY <1>5 DEF ScpPlaced, D, r
    <2>2. src.dat_idx = src.index_pos
      BY <1>2, <1>3, <2>1
    <2>3. ScpWraps <=> ScpRev = 0
      BY <1>5 DEF ScpWraps
    <2> QED BY <1>5, <2>1, <2>2, <2>3 DEF D, r
  <1> QED BY <1>4, <1>5

(* The revolution that ends here is the one before the one that is cued, if its  *)
(* pulse was counted, and the same one if not.                                 *)
LEMMA ScpTurn ==
    ASSUME IInv, track \in DOMAIN ScpData,
           nr_index # 0 \/ mark # NoMark \/ idx # NoMark
    PROVE  /\ ScpCur(0) = ScpRev + 1 /\ ScpRev \in 0..(ScpRevs(track) - 1)
           /\ idx = NoMark /\ mark = NoMark =>
                 /\ ScpRev # 0 => ScpCur(idx) = ScpRev
                 /\ ScpRev = 0 => ScpCur(idx) = ScpRevs(track)
           /\ ~(idx = NoMark /\ mark = NoMark) => ScpCur(idx) = ScpRev + 1
  <1>1. ScpRevs(track) \in Nat \ {0} /\ nr_index \in Nat
    BY ScpStored DEF IInv, TypeOK
  <1>2. ScpRev \in 0..(ScpRevs(track) - 1)
    BY <1>1 DEF ScpRev
  <1>3. ScpCur(0) = ScpRev + 1
    BY DEF ScpCur, ScpRev, NoMark
  <1>4. ASSUME idx = NoMark, mark = NoMark
        PROVE  /\ ScpRev # 0 => ScpCur(idx) = ScpRev
               /\ ScpRev = 0 => ScpCur(idx) = ScpRevs(track)
    <2>1. ScpCur(idx) = ((nr_index - 1) % ScpRevs(track)) + 1
      BY <1>4 DEF ScpCur
    <2>2. nr_index \in Nat \ {0}
      BY <1>1, <1>4
    <2>3. /\ ScpRev # 0 => (nr_index - 1) % ScpRevs(track) = ScpRev - 1
          /\ ScpRev = 0 => (nr_index - 1) % ScpRevs(track) = ScpRevs(track) - 1
      BY <1>1, <2>2, CountOn DEF ScpRev
    <2> QED BY <1>1, <1>2, <2>1, <2>3
  <1>5. ASSUME ~(idx = NoMark /\ mark = NoMark)
        PROVE  ScpCur(idx) = ScpRev + 1
    BY <1>5 DEF ScpCur, ScpRev
  <1> QED BY <1>2, <1>3, <1>4, <1>5

(* Once cued, the stream is at the start of the revolution, or at the end of one *)
(* that it has just read without a reversal.                                   *)
LEMMA ScpCuedPlaced ==
    ASSUME IInv, track \in DOMAIN ScpData,
           ScpLocal(src, acc, idx, passes), ScpPlaced(src, acc, idx, passes),
           src.dat_idx >= src.index_pos, Steady /\ idx = NoMark => mark = NoMark,
           Steady /\ src.index_pos # 0 => nr_index # 0 \/ idx # NoMark,
           NEW v, v = IF ScpWraps THEN ScpData[track].total_ticks - src.acc_ticks ELSE acc,
           NEW p, p = IF ScpWraps THEN passes + 1 ELSE passes,
           NEW c, c = ScpCued(v)
    PROVE  /\ ScpLocal(c, v, 0, p) /\ c.index_pos # 0
           /\ c.acc_ticks + v = ScpData[track].at[c.dat_idx]
           /\ c.index_pos = ScpData[track].index_off[ScpCur(0)]
           /\ c.dat_idx \in ScpFrom(ScpData[track], ScpCur(0))..c.index_pos
           /\ idx = NoMark => c.dat_idx = ScpFrom(ScpData[track], ScpCur(0))
           /\ ScpCur(0) = ScpRev + 1
  <1> DEFINE D == ScpData[track]
             R == ScpRevs(track)
  <1>1. R \in Nat \ {0} /\ nr_index \in Nat /\ D.total_ticks \in Nat
    BY ScpStored DEF IInv, TypeOK
  <1>2. /\ c.acc_ticks = IF ScpWraps THEN -v ELSE src.acc_ticks
        /\ c.index_pos = D.index_off[ScpRev + 1]
        /\ c.dat_idx = IF ScpRev = 0 THEN 0 ELSE src.dat_idx
        /\ c.seen = TRUE /\ c.jitter = src.jitter
        /\ c = [dat_idx |-> c.dat_idx, index_pos |-> c.index_pos, jitter |-> c.jitter,
                acc_ticks |-> c.acc_ticks, seen |-> TRUE]
    BY DEF ScpCued, ScpLocal
  <1>3. ScpRev \in 0..(R - 1) /\ ScpCur(0) = ScpRev + 1 /\ ScpRev + 1 \in 1..R
    BY <1>1 DEF ScpCur, ScpRev, NoMark
  <1>4. /\ D.index_off[ScpRev + 1] \in Nat /\ D.index_off[ScpRev + 1] # 0
        /\ ScpFrom(D, ScpRev + 1) \in Nat /\ ScpFrom(D, ScpRev + 1) < D.index_off[ScpRev + 1]
    BY <1>3, ScpStored
  <1>5. /\ src.dat_idx \in Nat /\ src.acc_ticks \in Int /\ src.jitter \in Int
        /\ acc \in Nat /\ passes \in Nat
    BY DEF ScpLocal
  <1>6. D.at[0] = 0 /\ src.acc_ticks + acc = D.at[src.dat_idx]
    BY ScpTimes DEF ScpPlaced
  <1>7. c.dat_idx \in ScpFrom(D, ScpRev + 1)..D.index_off[ScpRev + 1]
        /\ (idx = NoMark => c.dat_idx = ScpFrom(D, ScpRev + 1))
    <2>1. CASE ScpRev = 0
      <3>1. ScpFrom(D, ScpRev + 1) = 0
        BY <2>1 DEF ScpFrom
      <3> QED BY <1>2, <1>4, <2>1, <3>1
    <2>2. CASE ScpRev # 0
      <3>1. Steady
        <4>1. R # 1
          BY <1>1, <1>3, <2>2
        <4> QED BY <4>1, ScpJitteredAlone
      <3>2. /\ src.index_pos = D.index_off[ScpCur(idx)]
            /\ src.dat_idx = src.index_pos /\ src.index_pos # 0
        BY <2>2, ScpAtEnd
      <3>3. CASE idx = NoMark
        <4>1. mark = NoMark /\ nr_index # 0
          BY <3>1, <3>2, <3>3
        <4>2. ScpCur(idx) = ScpRev
          BY <2>2, <3>3, <4>1, ScpTurn
        <4>3. ScpFrom(D, ScpRev + 1) = D.index_off[ScpRev]
          BY <1>3, <2>2 DEF ScpFrom
        <4> QED BY <1>2, <1>4, <2>2, <3>2, <4>2, <4>3
      <3>4. CASE idx # NoMark
        <4>1. ScpCur(idx) = ScpRev + 1
          BY <3>4, ScpTurn
        <4> QED BY <1>2, <1>4, <2>2, <3>2, <3>4, <4>1
      <3> QED BY <3>3, <3>4
    <2> QED BY <2>1, <2>2
  <1>8. v \in Nat
    <2>1. CASE ScpWraps
      <3>1. src.dat_idx \in 0..Len(D.dat)
        <4>1. src.dat_idx = D.index_off[ScpCur(idx)] /\ ScpCur(idx) \in 1..R
          BY <2>1, ScpAtEnd, ScpCurIn DEF ScpWraps
        <4>2. D.index_off[ScpCur(idx)] \in 1..Len(D.dat) /\ Len(D.dat) \in Nat
          BY <4>1, ScpStored
        <4> QED BY <4>1, <4>2
      <3>2. D.at[src.dat_idx] \in Nat /\ D.at[src.dat_idx] <= D.total_ticks
        BY <3>1, ScpTimes
      <3> QED BY <1>1, <1>5, <1>6, <2>1, <3>2
    <2> QED BY <1>5, <2>1
  <1>9. c.acc_ticks + v = D.at[c.dat_idx]
    <2>1. CASE ScpWraps
      <3>1. ScpRev = 0
        BY <2>1 DEF ScpWraps
      <3> QED BY <1>2, <1>6, <1>8, <2>1, <3>1
    <2>2. CASE ~ScpWraps
      <3>1. c.dat_idx = src.dat_idx
        <4>1. CASE ScpRev = 0
          BY <1>2, <2>2, <4>1, ScpAtEnd
        <4> QED BY <1>2, <4>1
      <3> QED BY <1>2, <1>6, <2>2, <3>1
    <2> QED BY <2>1, <2>2
  <1>10. ScpLocal(c, v, 0, p)
    <2>1. c.dat_idx \in Nat
      BY <1>4, <1>7
    <2>2. c.acc_ticks \in Int /\ c.jitter \in Int /\ c.index_pos \in Nat /\ p \in Nat
      BY <1>2, <1>4, <1>5, <1>8
    <2>3. c \in [dat_idx : Nat, index_pos : Nat, jitter : Int, acc_ticks : Int, seen : BOOLEAN]
      BY <1>2, <2>1, <2>2
    <2> QED BY <1>8, <2>2, <2>3 DEF ScpLocal
  <1> QED BY <1>2, <1>3, <1>4, <1>7, <1>9, <1>10

(* The account of what was delivered, seen from a later word or pass.            *)
LEMMA ScpWithinLater ==
    ASSUME track \in DOMAIN ScpData, pulled \in Int, NEW p \in Nat, NEW q \in Nat,
           NEW a \in Int, NEW b \in Int, NEW v \in Int, NEW w \in Int, ScpWithin(p, a, v),
           q * ScpData[track].total_ticks + b = p * ScpData[track].total_ticks + a,
           p * Len(ScpData[track].dat) + v <= q * Len(ScpData[track].dat) + w
    PROVE  ScpWithin(q, b, w)
  <1> DEFINE T == ScpData[track].total_ticks
             N == Len(ScpData[track].dat)
             x == p * T + a
             m == p * N + v
             n == q * N + w
             owed == Rate * x - DataRpm * pulled
  <1>1. T \in Nat /\ N \in Nat /\ Trunc \in Nat
    BY ScpStored, RateNat
  <1>2. x \in Int /\ m \in Int /\ n \in Int /\ m <= n
    <2>1. p * N + v <= q * N + w
      OBVIOUS
    <2> HIDE DEF T, N
    <2>2. p * T \in Nat /\ p * N \in Nat /\ q * N \in Nat
      BY <1>1
    <2> QED BY <2>1, <2>2
  <1>3. owed >= 0 /\ owed <= Trunc * m /\ q * T + b = x /\ owed \in Int
    <2>1. Rate * x \in Int /\ DataRpm * pulled \in Int
      BY <1>2, RateNat, Scales
    <2> QED BY <2>1 DEF ScpWithin
  <1> HIDE DEF T, N, x, m, n, owed
  <1>4. Trunc * m <= Trunc * n /\ Trunc * m \in Int /\ Trunc * n \in Int
    BY <1>1, <1>2, Scales
  <1>5. owed <= Trunc * n
    BY <1>3, <1>4
  <1> QED BY <1>3, <1>5 DEF ScpWithin, T, N, x, n, owed

LEMMA ScpWithinMore ==
    ASSUME track \in DOMAIN ScpData, pulled \in Int, NEW p \in Nat, NEW a \in Int,
           NEW v \in Int, NEW w \in Int, v <= w, ScpWithin(p, a, v)
    PROVE  ScpWithin(p, a, w)
  <1> DEFINE N == Len(ScpData[track].dat)
             T == ScpData[track].total_ticks
             owed == Rate * (p * T + a) - DataRpm * pulled
  <1>1. N \in Nat /\ T \in Nat
    BY ScpStored
  <1>2. owed >= 0 /\ owed <= Trunc * (p * N + v)
    BY DEF ScpWithin
  <1> HIDE DEF N, T
  <1>3. p * N \in Int /\ p * T + a \in Int
    <2>1. p * T \in Int
      BY <1>1
    <2> QED BY <1>1, <2>1
  <1>4. owed \in Int
    BY <1>3, RateNat, Scales
  <1>5. /\ Trunc * (p * N + v) <= Trunc * (p * N + w)
        /\ Trunc * (p * N + v) \in Int /\ Trunc * (p * N + w) \in Int
    <2>1. p * N + v <= p * N + w /\ p * N + v \in Int /\ p * N + w \in Int
      BY <1>3
    <2> QED BY <2>1, RateNat, Scales
  <1> HIDE DEF owed
  <1>6. owed >= 0 /\ owed <= Trunc * (p * N + w)
    BY <1>2, <1>4, <1>5
  <1> QED BY <1>6 DEF ScpWithin, owed, N, T

(* A further interval: what it loses is less than a ns.                         *)
LEMMA ScpNsOwed ==
    ASSUME NEW x \in Int, NEW u \in Int, NEW w \in Int, NEW v \in Nat,
           Rate * x - DataRpm * u >= 0, Rate * x - DataRpm * u <= Trunc * (w - 1)
    PROVE  /\ Rate * (x + v) - DataRpm * (u + ScpNs(v)) >= 0
           /\ Rate * (x + v) - DataRpm * (u + ScpNs(v)) <= Trunc * w
  <1> DEFINE d == ScpNs(v)
  <1>1. /\ d \in Nat /\ DataRpm * d \in Nat /\ Rate * v \in Nat
        /\ DataRpm * d <= Rate * v /\ Rate * v <= DataRpm * d + Trunc
    BY ScpNsTruncates
  <1> HIDE DEF d
  <1>2. Rate * (x + v) = Rate * x + Rate * v /\ Rate * x \in Int
    BY RateAdds
  <1>3. DataRpm * (u + d) = DataRpm * u + DataRpm * d /\ DataRpm * u \in Int
    BY <1>1, RateNat, Scales
  <1>4. Trunc * (w - 1) = Trunc * w - Trunc /\ Trunc * w \in Int /\ Trunc \in Nat
    <2>1. Trunc * (w - 1) = Trunc * w - Trunc * 1 /\ Trunc * w \in Int /\ Trunc \in Nat
      BY RateNat, Scales
    <2> QED BY <2>1
  <1>5. /\ Rate * (x + v) - DataRpm * (u + d) >= 0
        /\ Rate * (x + v) - DataRpm * (u + d) <= Trunc * w
    BY <1>1, <1>2, <1>3, <1>4
  <1> QED BY <1>5 DEF d

(* Cueing keeps the account of the ticks: a wrap adds the dump's total. *)
LEMMA ScpWrapTicks ==
    ASSUME IInv, track \in DOMAIN ScpData, ScpLocal(src, acc, idx, passes),
           ScpPlaced(src, acc, idx, passes), ScpTimed(src, idx, passes),
           src.dat_idx >= src.index_pos,
           NEW v, v = IF ScpWraps THEN ScpData[track].total_ticks - src.acc_ticks ELSE acc,
           NEW p, p = IF ScpWraps THEN passes + 1 ELSE passes,
           NEW c, c = ScpCued(v)
    PROVE  /\ ScpWithin(p, c.acc_ticks, IF idx = NoMark THEN c.dat_idx ELSE c.dat_idx - 1)
           /\ c.acc_ticks = IF ScpWraps THEN src.acc_ticks - ScpData[track].total_ticks
                                        ELSE src.acc_ticks
  <1> DEFINE T == ScpData[track].total_ticks
             N == Len(ScpData[track].dat)
             lost == ScpLost(src, idx)
             w == IF idx = NoMark THEN c.dat_idx ELSE c.dat_idx - 1
  <1>1. T \in Nat /\ N \in Nat /\ passes \in Nat /\ src.acc_ticks \in Int
        /\ src.dat_idx \in Nat /\ idx \in {NoMark, 0} /\ pulled \in Int
    BY ScpStored DEF ScpLocal, ScpTimed
  <1>2. /\ c.acc_ticks = IF ScpWraps THEN -v ELSE src.acc_ticks
        /\ c.dat_idx = IF ScpRev = 0 THEN 0 ELSE src.dat_idx
    BY DEF ScpCued, ScpLocal
  <1>3. ScpWithin(passes, src.acc_ticks, lost)
    BY DEF ScpTimed
  (* Where the words end that have been read. *)
  <1>4. src.dat_idx <= N /\ (idx # NoMark => lost \in Nat /\ lost + 1 <= src.dat_idx)
    <2>1. CASE src.index_pos = 0
      <3>1. ScpData[track].index_off[ScpCur(idx)] # 0
        BY ScpCurIn, ScpStored
      <3> QED BY <1>1, <2>1, <3>1, ScpAtEnd
    <2>2. CASE src.index_pos # 0
      <3>1. ScpCur(idx) \in 1..ScpRevs(track)
        BY ScpCurIn
      <3>2. src.dat_idx = ScpData[track].index_off[ScpCur(idx)]
        BY <2>2, ScpAtEnd
      <3>3. /\ ScpData[track].index_off[ScpCur(idx)] \in 1..N
            /\ ScpFrom(ScpData[track], ScpCur(idx))
                 \in 0..(ScpData[track].index_off[ScpCur(idx)] - 1)
        BY <3>1, ScpStored
      <3>4. idx # NoMark => lost = ScpFrom(ScpData[track], ScpCur(idx))
        BY <1>1 DEF ScpLost
      <3> HIDE DEF N, lost
      <3> QED BY <1>1, <3>2, <3>3, <3>4
    <2> QED BY <2>1, <2>2
  <1>5. idx = NoMark => lost = src.dat_idx
    BY DEF ScpLost
  <1> HIDE DEF T, N, lost
  <1>6. CASE ScpWraps
    <2>1. p = passes + 1 /\ v = T - src.acc_ticks /\ c.acc_ticks = -v /\ c.dat_idx = 0
      BY <1>2, <1>6 DEF T, ScpWraps
    <2>2. c.acc_ticks = src.acc_ticks - T
      BY <1>1, <2>1
    <2>3. p * T = passes * T + T /\ p * N = passes * N + N /\ passes * T \in Nat
          /\ passes * N \in Nat /\ p \in Nat
      BY <1>1, <2>1
    <2>4. p * T + c.acc_ticks = passes * T + src.acc_ticks
      BY <1>1, <2>2, <2>3
    <2>5. w \in Int /\ lost \in Int /\ passes * N + lost <= p * N + w /\ c.acc_ticks \in Int
      BY <1>1, <1>4, <1>5, <2>1, <2>2, <2>3
    <2> HIDE DEF w
    <2>6. ScpWithin(p, c.acc_ticks, w)
      BY <1>1, <1>3, <2>3, <2>4, <2>5, ScpWithinLater DEF T, N
    <2> QED BY <1>6, <2>2, <2>6 DEF T, w
  <1>7. CASE ~ScpWraps
    <2>1. p = passes /\ c.acc_ticks = src.acc_ticks
      BY <1>2, <1>7
    <2>2. c.dat_idx = src.dat_idx
      <3>1. CASE ScpRev = 0
        BY <1>2, <1>7, <3>1, ScpAtEnd
      <3> QED BY <1>2, <3>1
    <2>3. w \in Int /\ lost \in Int /\ lost <= w
      BY <1>1, <1>4, <1>5, <2>2
    <2>4. passes * N \in Nat
      BY <1>1
    <2>5. passes * N + lost <= p * N + w /\ p * T + c.acc_ticks = passes * T + src.acc_ticks
      BY <2>1, <2>3, <2>4
    <2> HIDE DEF w
    <2>6. ScpWithin(p, c.acc_ticks, w)
      BY <1>1, <1>3, <2>1, <2>3, <2>5, ScpWithinLater DEF T, N
    <2> QED BY <1>7, <2>1, <2>6 DEF w
  <1> QED BY <1>6, <1>7

(* A revolution cued when its predecessor's pulse was counted: what was gathered   *)
(* of the interval began in the revolution before.                               *)
LEMMA ScpCuedMet ==
    ASSUME IInv, track \in DOMAIN ScpData, Steady,
           ScpLocal(src, acc, idx, passes), ScpPlaced(src, acc, idx, passes),
           ScpTimed(src, idx, passes), src.dat_idx >= src.index_pos,
           idx = NoMark, mark = NoMark, src.index_pos # 0 => nr_index # 0,
           NEW v, v = IF ScpWraps THEN ScpData[track].total_ticks - src.acc_ticks ELSE acc,
           NEW p, p = IF ScpWraps THEN passes + 1 ELSE passes,
           NEW c, c = ScpCued(v)
    PROVE  ScpTimed(c, 0, p)
  <1> DEFINE D == ScpData[track]
             R == ScpRevs(track)
             T == D.total_ticks
  <1>1. R \in Nat \ {0} /\ T \in Nat /\ R = Len(D.index_off)
    BY ScpStored
  <1>2. /\ ScpLocal(c, v, 0, p) /\ c.index_pos # 0
        /\ c.acc_ticks + v = D.at[c.dat_idx]
        /\ c.dat_idx = ScpFrom(D, ScpCur(0)) /\ ScpCur(0) = ScpRev + 1
    BY ScpCuedPlaced
  <1>3. /\ ScpWithin(p, c.acc_ticks, c.dat_idx)
        /\ c.acc_ticks = IF ScpWraps THEN src.acc_ticks - T ELSE src.acc_ticks
    BY ScpWrapTicks
  <1>4. ScpCur(0) \in 1..R
    BY ScpCurIn
  <1>5. ScpAhead(D, ScpCur(0), ScpFrom(D, ScpCur(0))) \/ ScpLongSilence(D, ScpCur(0))
    BY <1>4, ScpPace DEF Steady
  <1>6. v \in Nat /\ c.acc_ticks \in Int /\ src.acc_ticks \in Int
    BY <1>2 DEF ScpLocal
  <1>7. /\ ScpFrom(D, ScpCur(0)) \in 0..Len(D.dat) /\ ScpFrom(D, R) \in 0..Len(D.dat)
        /\ D.at[ScpFrom(D, ScpCur(0))] \in Nat /\ D.at[ScpFrom(D, R)] \in Nat
        /\ D.at[ScpFrom(D, R)] <= T
    <2>1. /\ D.index_off[ScpCur(0)] \in 1..Len(D.dat)
          /\ ScpFrom(D, ScpCur(0)) \in 0..(D.index_off[ScpCur(0)] - 1)
          /\ D.index_off[R] \in 1..Len(D.dat)
          /\ ScpFrom(D, R) \in 0..(D.index_off[R] - 1) /\ Len(D.dat) \in Nat
      <3>1. R \in 1..R
        BY <1>1
      <3>2. Len(D.dat) \in Nat
            /\ \A r \in 1..R : /\ D.index_off[r] \in 1..Len(D.dat)
                              /\ ScpFrom(D, r) \in 0..(D.index_off[r] - 1)
        BY ScpStored
      <3> HIDE DEF D, R
      <3> QED BY <1>4, <3>1, <3>2
    <2>2. ScpFrom(D, ScpCur(0)) \in 0..Len(D.dat) /\ ScpFrom(D, R) \in 0..Len(D.dat)
      BY <2>1
    <2> QED BY <2>2, ScpTimes
  <1>8. c.acc_ticks <= D.at[ScpFrom(D, ScpCur(0))]
    BY <1>2, <1>6, <1>7
  <1>9. c.acc_ticks >= -ScpBefore(D, ScpCur(0))
    <2>1. CASE src.index_pos = 0
      <3>1. ScpRev = 0 /\ ~ScpWraps /\ src.acc_ticks = 0
        <4>1. D.index_off[ScpCur(idx)] # 0
          BY ScpCurIn, ScpStored
        <4> QED BY <2>1, <4>1, ScpAtEnd
      <3>2. ScpBefore(D, ScpCur(0)) = T - D.at[ScpFrom(D, R)]
        BY <1>1, <1>2, <3>1 DEF ScpBefore
      <3> QED BY <1>1, <1>3, <1>7, <3>1, <3>2
    <2>2. CASE src.index_pos # 0
      <3>1. ScpWraps <=> ScpRev = 0
        BY <2>2 DEF ScpWraps
      <3>2. src.acc_ticks >= D.at[ScpFrom(D, ScpCur(idx))]
        BY <2>2 DEF ScpTimed, ScpSince
      <3>3. CASE ScpRev = 0
        <4>1. ScpCur(idx) = R
          BY <2>2, <3>3, ScpTurn
        <4>2. ScpBefore(D, ScpCur(0)) = T - D.at[ScpFrom(D, R)]
          BY <1>1, <1>2, <3>3 DEF ScpBefore
        <4>3. c.acc_ticks = src.acc_ticks - T
          BY <1>1, <1>3, <1>6, <3>1, <3>3
        <4> HIDE DEF D, R, T
        <4>4. src.acc_ticks >= D.at[ScpFrom(D, R)]
          BY <3>2, <4>1
        <4> QED BY <1>1, <1>6, <1>7, <4>2, <4>3, <4>4
      <3>4. CASE ScpRev # 0
        <4>1. ScpCur(idx) = ScpRev /\ ScpRev \in 0..(R - 1)
          BY <2>2, <3>4, ScpTurn
        <4>2. ScpRev \in 1..R /\ ScpRev + 1 > 1 /\ (ScpRev + 1) - 1 = ScpRev
          BY <1>1, <3>4, <4>1
        <4>3. ScpBefore(D, ScpCur(0)) = -D.at[ScpFrom(D, ScpRev)]
          BY <1>2, <4>2 DEF ScpBefore
        <4>4. D.at[ScpFrom(D, ScpRev)] \in Nat
          <5>1. /\ ScpFrom(D, ScpRev) \in 0..(D.index_off[ScpRev] - 1)
                /\ D.index_off[ScpRev] \in 1..Len(D.dat) /\ Len(D.dat) \in Nat
            BY <4>2, ScpStored
          <5>2. ScpFrom(D, ScpRev) \in 0..Len(D.dat)
            BY <5>1
          <5> QED BY <5>2, ScpTimes
        <4> QED BY <1>3, <1>6, <3>1, <3>2, <3>4, <4>1, <4>3, <4>4
      <3> QED BY <3>3, <3>4
    <2> QED BY <2>1, <2>2
  <1>10. pulled \in Nat
    BY DEF ScpTimed
  <1>11. ScpMet(c)
    BY <1>2, <1>5, <1>8, <1>9 DEF ScpMet
  <1>12. ScpLost(c, 0) = c.dat_idx
    BY <1>2 DEF ScpLost, NoMark
  <1> QED BY <1>3, <1>10, <1>11, <1>12 DEF ScpTimed, NoMark

-----------------------------------------------------------------------------
(* Reading a word. *)

(* Where the word lies, and what it adds to the time. *)
LEMMA ScpWordPlace ==
    ASSUME IInv, track \in DOMAIN ScpData, NEW s, NEW a, NEW i, NEW p,
           ScpLocal(s, a, i, p), ScpPlaced(s, a, i, p), s.index_pos # 0,
           s.dat_idx < s.index_pos
    PROVE  LET D == ScpData[track] IN
           /\ ScpCur(i) \in 1..ScpRevs(track) /\ s.index_pos = D.index_off[ScpCur(i)]
           /\ ScpFrom(D, ScpCur(i)) \in Nat /\ s.dat_idx >= ScpFrom(D, ScpCur(i))
           /\ s.dat_idx \in Nat /\ s.dat_idx + 1 \in 1..Len(D.dat)
           /\ s.dat_idx + 1 <= s.index_pos
           /\ D.at[s.dat_idx + 1] = D.at[s.dat_idx] + ScpTicks(D.dat[s.dat_idx + 1])
           /\ D.at[s.dat_idx] \in Nat /\ D.at[s.dat_idx + 1] \in Nat
           /\ D.at[ScpFrom(D, ScpCur(i))] \in Nat
           /\ D.at[ScpFrom(D, ScpCur(i))] <= D.at[s.dat_idx]
           /\ D.dat[s.dat_idx + 1] \in Nat
  <1> DEFINE D == ScpData[track]
             r == ScpCur(i)
             k == s.dat_idx
  <1>1. r \in 1..ScpRevs(track)
    BY ScpCurIn
  <1>2. s.index_pos = D.index_off[r] /\ k \in ScpFrom(D, r)..s.index_pos /\ k \in Nat
    BY DEF ScpPlaced, ScpLocal
  <1>3. /\ D.index_off[r] \in 1..Len(D.dat) /\ ScpFrom(D, r) \in 0..(D.index_off[r] - 1)
        /\ Len(D.dat) \in Nat
    BY <1>1, ScpStored
  <1> HIDE DEF D, r, k
  <1>4. /\ k + 1 \in 1..Len(D.dat) /\ k \in 0..Len(D.dat) /\ k + 1 \in 0..Len(D.dat)
        /\ ScpFrom(D, r) \in 0..Len(D.dat) /\ ScpFrom(D, r) <= k /\ k < D.index_off[r]
        /\ ScpFrom(D, r) \in Nat
    BY <1>2, <1>3 DEF k
  <1>5. D.at[k + 1] = D.at[(k + 1) - 1] + ScpTicks(D.dat[k + 1])
    BY <1>4, ScpTimes DEF D
  <1>6. (k + 1) - 1 = k
    BY <1>2
  <1>7. /\ D.at[k] \in Nat /\ D.at[k + 1] \in Nat /\ D.at[ScpFrom(D, r)] \in Nat
        /\ D.at[ScpFrom(D, r)] <= D.at[k]
    BY <1>4, ScpTimes DEF D
  <1>8. D.dat[k + 1] \in Nat
    BY <1>4, ScpStored DEF D
  <1>9. k + 1 <= D.index_off[r]
    BY <1>2, <1>3, <1>4
  <1> QED BY <1>1, <1>2, <1>4, <1>5, <1>6, <1>7, <1>8, <1>9 DEF D, r, k

(* An overflow word is gathered. *)
LEMMA ScpGathers ==
    ASSUME IInv, track \in DOMAIN ScpData, NEW s, NEW a, NEW i, NEW p,
           ScpLocal(s, a, i, p), ScpPlaced(s, a, i, p), s.index_pos # 0,
           s.dat_idx < s.index_pos, ScpData[track].dat[s.dat_idx + 1] = 0,
           Steady => ScpTimed(s, i, p),
           NEW n, n = [s EXCEPT !.dat_idx = @ + 1]
    PROVE  /\ ScpLocal(n, a + Overflow, i, p) /\ ScpPlaced(n, a + Overflow, i, p)
           /\ n.index_pos # 0 /\ n.seen = s.seen
           /\ Steady => ScpTimed(n, i, p)
  <1> DEFINE D == ScpData[track]
             r == ScpCur(i)
  <1>1. /\ r \in 1..ScpRevs(track) /\ s.index_pos = D.index_off[r]
        /\ s.dat_idx >= ScpFrom(D, r) /\ ScpFrom(D, r) \in Nat
        /\ s.dat_idx \in Nat /\ s.dat_idx + 1 <= s.index_pos
        /\ D.at[s.dat_idx + 1] = D.at[s.dat_idx] + ScpTicks(D.dat[s.dat_idx + 1])
        /\ D.at[s.dat_idx] \in Nat
    BY ScpWordPlace
  <1>2. /\ n.dat_idx = s.dat_idx + 1 /\ n.index_pos = s.index_pos /\ n.seen = s.seen
        /\ n.acc_ticks = s.acc_ticks /\ n.jitter = s.jitter
        /\ n \in [dat_idx : Nat, index_pos : Nat, jitter : Int, acc_ticks : Int, seen : BOOLEAN]
    BY DEF ScpLocal
  <1>3. Overflow \in Nat /\ a \in Nat /\ s.acc_ticks \in Int /\ s.index_pos \in Nat
    BY ScpLayout DEF ScpLocal
  <1>4. ScpLocal(n, a + Overflow, i, p)
    BY <1>2, <1>3 DEF ScpLocal
  <1>5. ScpPlaced(n, a + Overflow, i, p)
    <2>1. n.acc_ticks + (a + Overflow) = D.at[n.dat_idx]
      <3>1. s.acc_ticks + a = D.at[s.dat_idx]
        BY DEF ScpPlaced
      <3> QED BY <1>1, <1>2, <1>3, <3>1 DEF ScpTicks
    <2>2. n.index_pos = D.index_off[r] /\ n.dat_idx \in ScpFrom(D, r)..n.index_pos
      BY <1>1, <1>2, <1>3
    <2> QED BY <2>1, <2>2 DEF ScpPlaced
  <1>6. ASSUME Steady PROVE ScpTimed(n, i, p)
    <2>1. ScpTimed(s, i, p)
      BY <1>6
    <2>2. ASSUME NEW q \in 1..ScpRevs(track), q = r, ScpAhead(D, q, s.dat_idx)
          PROVE  ScpAhead(D, q, n.dat_idx)
      BY <1>1, <1>2, <2>2, ScpReads
    <2>3. pulled \in Nat /\ ScpWithin(p, n.acc_ticks, ScpLost(n, i))
      <3>1. pulled \in Nat /\ ScpWithin(p, s.acc_ticks, ScpLost(s, i)) /\ p \in Nat
        BY <2>1 DEF ScpTimed, ScpLocal
      <3>2. CASE i = NoMark
        <4>1. ScpLost(s, i) = s.dat_idx /\ ScpLost(n, i) = s.dat_idx + 1
          BY <1>2, <3>2 DEF ScpLost
        <4>2. s.dat_idx <= s.dat_idx + 1 /\ s.dat_idx \in Int /\ s.dat_idx + 1 \in Int
          BY <1>1
        <4>3. ScpWithin(p, s.acc_ticks, s.dat_idx + 1)
          BY <1>3, <3>1, <4>1, <4>2, ScpWithinMore
        <4> QED BY <1>2, <3>1, <4>1, <4>3
      <3>3. CASE i # NoMark
        BY <1>2, <3>1, <3>3 DEF ScpLost
      <3> QED BY <3>2, <3>3
    <2>4. CASE i = NoMark
      <3>1. ScpSince(s)
        BY <2>1, <2>4 DEF ScpTimed
      <3>2. ScpAhead(D, r, s.dat_idx) => ScpAhead(D, r, n.dat_idx)
        BY <1>1, <2>2
      <3>3. ScpSince(n)
        <4> DEFINE F == ScpFrom(D, r)
                   x == Rate * (s.acc_ticks - D.at[F])
                   y == Trunc * (s.dat_idx - F)
                   z == Trunc * ((s.dat_idx + 1) - F)
                   u == DataRpm * (pulled - mark)
        <4>1. y <= z /\ y \in Int /\ z \in Int
          <5>1. s.dat_idx - F \in Int /\ (s.dat_idx + 1) - F \in Int
                /\ s.dat_idx - F <= (s.dat_idx + 1) - F
            BY <1>1
          <5> HIDE DEF F
          <5> QED BY <5>1, RateNat, Scales
        <4>2. x \in Int /\ u \in Int
          <5>1. D.at[F] \in Nat
            BY ScpWordPlace
          <5>2. pulled - mark \in Int /\ s.acc_ticks - D.at[F] \in Int
            <6>1. mark \in Int /\ pulled \in Int
              BY DEF IInv, TypeOK
            <6> HIDE DEF F
            <6> QED BY <1>3, <5>1, <6>1
          <5> HIDE DEF F
          <5> QED BY <5>2, RateNat, Scales
        <4>3. x - y <= u => x - z <= u
          <5> HIDE DEF x, y, z, u
          <5> QED BY <4>1, <4>2
        <4> HIDE DEF F
        <4> QED BY <1>2, <2>4, <3>1, <3>2, <4>3 DEF ScpSince, F
      <3> QED BY <2>3, <2>4, <3>3 DEF ScpTimed
    <2>5. CASE i # NoMark
      <3>1. ScpMet(s) /\ i = 0
        BY <2>1, <2>5 DEF ScpTimed, ScpLocal
      <3>2. ScpAhead(D, r, s.dat_idx) => ScpAhead(D, r, n.dat_idx)
        BY <1>1, <2>2
      <3>3. ScpMet(n)
        BY <1>2, <3>1, <3>2 DEF ScpMet
      <3> QED BY <2>3, <2>5, <3>3 DEF ScpTimed
    <2> QED BY <2>4, <2>5
  <1> QED BY <1>2, <1>4, <1>5, <1>6

(* The interval is handed over with a pulse or without: the revolution is the same. *)
LEMMA ScpCurKept ==
    ASSUME IInv, track \in DOMAIN ScpData, track' = track,
           NEW i \in {NoMark, 0}, NEW d, Pull(d, i), Steady /\ i = 0 => pulled \in Nat
    PROVE  ScpCur(NoMark)' = ScpCur(i)
  <1>1. nr_index' = nr_index /\ Sight(i) /\ nr_index \in Nat
    BY DEF Pull, IInv, TypeOK
  <1>2. CASE i = NoMark
    BY <1>1, <1>2 DEF Sight, ScpCur
  <1>3. CASE i = 0 /\ Steady
    <2>1. mark' = pulled /\ pulled # NoMark
      BY <1>1, <1>3 DEF Sight, NoMark
    <2> QED BY <1>1, <1>3, <2>1 DEF ScpCur, NoMark
  <1>4. CASE ~Steady
    <2>1. ScpRevs(track) = 1
      BY <1>4, ScpJitteredAlone
    <2> QED BY <1>1, <2>1 DEF ScpCur
  <1> QED BY <1>2, <1>3, <1>4

-----------------------------------------------------------------------------
(* Handing over an interval. *)

(* Both bounds of the pulse's distance are numbers. *)
LEMMA ScpBeforeInt ==
    ASSUME NEW t \in DOMAIN ScpData, NEW D, D = ScpData[t], NEW r \in 1..ScpRevs(t)
    PROVE  ScpBefore(D, r) \in Int /\ ScpReplay(D, r) \in Nat
  <1>1. Len(D.index_off) \in 1..ScpRevs(t) /\ D.total_ticks \in Nat /\ ScpRevs(t) \in Nat
    BY ScpStored
  <1>2. ASSUME NEW q \in 1..ScpRevs(t) PROVE D.at[ScpFrom(D, q)] \in Nat
    <2>1. /\ D.index_off[q] \in 1..Len(D.dat) /\ Len(D.dat) \in Nat
          /\ ScpFrom(D, q) \in 0..(D.index_off[q] - 1)
      BY ScpStored
    <2>2. ScpFrom(D, q) \in 0..Len(D.dat)
      BY <2>1
    <2> QED BY <2>2, ScpTimes
  <1>3. CASE r > 1
    <2>1. r - 1 \in 1..ScpRevs(t)
      BY <1>1, <1>3
    <2> QED BY <1>1, <1>2, <1>3, <2>1 DEF ScpBefore, ScpReplay
  <1>4. CASE ~(r > 1)
    BY <1>1, <1>2, <1>4 DEF ScpBefore, ScpReplay
  <1> QED BY <1>3, <1>4

(* With the word that ends it, an interval in which the pulse was met. *)
LEMMA ScpMetHanded ==
    ASSUME IInv, track \in DOMAIN ScpData, track' = track, Steady, NEW s, NEW a, NEW p,
           ScpLocal(s, a, 0, p), ScpPlaced(s, a, 0, p), ScpTimed(s, 0, p),
           s.index_pos # 0, s.dat_idx < s.index_pos,
           NEW w, w = ScpData[track].dat[s.dat_idx + 1], w # 0,
           Pull(ScpNs(a + w), 0),
           src'.dat_idx = s.dat_idx + 1, src'.acc_ticks = s.acc_ticks + (a + w)
    PROVE  ScpSince(src)'
  <1> DEFINE D == ScpData[track]
             r == ScpCur(0)
             from == D.at[ScpFrom(D, r)]
             t1 == D.at[s.dat_idx + 1]
             B == ScpBefore(D, r)
             G == ScpReplay(D, r)
             ns == ScpNs(a + w)
             m == (s.dat_idx + 1) - ScpFrom(D, r)
             least == Rate * (t1 - from) - Trunc * m
  <1>1. /\ r \in 1..ScpRevs(track) /\ s.index_pos = D.index_off[r]
        /\ s.dat_idx >= ScpFrom(D, r) /\ ScpFrom(D, r) \in Nat
        /\ s.dat_idx \in Nat /\ s.dat_idx + 1 <= s.index_pos
        /\ t1 = D.at[s.dat_idx] + w
        /\ D.at[s.dat_idx] \in Nat /\ t1 \in Nat /\ from \in Nat
        /\ from <= D.at[s.dat_idx] /\ w \in Nat
    BY ScpWordPlace DEF ScpTicks
  <1>2. a \in Nat /\ s.acc_ticks \in Int /\ s.acc_ticks + a = D.at[s.dat_idx]
    BY DEF ScpLocal, ScpPlaced
  <1>3. pulled \in Nat /\ ScpMet(s)
    BY DEF ScpTimed, NoMark
  <1>4. s.acc_ticks >= -B /\ s.acc_ticks <= from
        /\ (ScpAhead(D, r, s.dat_idx) \/ ScpLongSilence(D, r))
    BY <1>3 DEF ScpMet
  <1>5. ScpCur(NoMark)' = r
    BY <1>3, ScpCurKept
  <1>6. mark' = pulled /\ mark' # NoMark /\ pulled' = pulled + ns
    BY <1>3 DEF Pull, Sight, NoMark
  <1>7. B \in Int /\ G \in Nat
    BY <1>1, ScpBeforeInt
  <1>8. ScpAhead(D, r, s.dat_idx + 1) \/ ScpLong(least)
    <2>1. CASE ScpAhead(D, r, s.dat_idx)
      BY <1>1, <2>1, ScpReads DEF ScpLeast
    <2>2. CASE ScpLongSilence(D, r)
      <3>1. s.dat_idx + 1 \in (ScpFrom(D, r) + 1)..D.index_off[r]
        BY <1>1
      <3> QED BY <2>2, <3>1 DEF ScpLongSilence, ScpSilent
    <2> QED BY <1>4, <2>1, <2>2
  <1>9. /\ ns \in Nat /\ DataRpm * ns \in Nat /\ Rate * (a + w) \in Nat
        /\ DataRpm * ns <= Rate * (a + w) /\ Rate * (a + w) <= DataRpm * ns + Trunc
    <2>1. a + w \in Nat
      <3> HIDE DEF D, r, from, t1, B, G
      <3> QED BY <1>1, <1>2
    <2> QED BY <2>1, ScpNsTruncates
  <1>10. src'.acc_ticks = t1 /\ src'.dat_idx = s.dat_idx + 1 /\ m \in Int /\ m >= 1
    BY <1>1, <1>2
  <1> HIDE DEF D, r, from, t1, B, G, ns, m
  <1>11. least <= DataRpm * ns /\ least \in Int
    <2>1. Rate * (t1 - from) <= Rate * (a + w) /\ Rate * (t1 - from) \in Int
      <3>1. t1 - from <= a + w /\ t1 - from \in Int /\ a + w \in Int
        BY <1>1, <1>2, <1>4
      <3> QED BY <3>1, RateTimes
    <2>2. Trunc * 1 <= Trunc * m /\ Trunc * m \in Int /\ Trunc \in Nat
      BY <1>10, RateNat, Scales
    <2> QED BY <1>9, <2>1, <2>2
  <1> HIDE DEF least
  <1>12. DataRpm * ns <= Rate * (t1 + (B + G))
    <2>1. a + w <= t1 + (B + G) /\ a + w \in Int /\ t1 + (B + G) \in Int
      BY <1>1, <1>2, <1>4, <1>7
    <2>2. Rate * (a + w) <= Rate * (t1 + (B + G)) /\ Rate * (t1 + (B + G)) \in Int
      BY <2>1, RateTimes
    <2> QED BY <1>9, <2>2
  <1>13. pulled' - mark' = ns
    BY <1>3, <1>6, <1>9
  <1>14. ScpLong(least) => ScpLong(DataRpm * ns)
    BY <1>9, <1>11, ScpLonger
  <1>15. t1 >= from
    BY <1>1
  <1> QED BY <1>5, <1>6, <1>8, <1>10, <1>11, <1>12, <1>13, <1>14, <1>15
      DEF ScpSince, D, r, from, t1, B, G, m, least

(* A further interval of a revolution whose pulse was handed over before. *)
LEMMA ScpMoreHanded ==
    ASSUME IInv, track \in DOMAIN ScpData, track' = track, Steady, NEW s, NEW a, NEW p,
           ScpLocal(s, a, NoMark, p), ScpPlaced(s, a, NoMark, p), ScpTimed(s, NoMark, p),
           s.index_pos # 0, s.dat_idx < s.index_pos,
           NEW w, w = ScpData[track].dat[s.dat_idx + 1], w # 0,
           Pull(ScpNs(a + w), NoMark),
           src'.dat_idx = s.dat_idx + 1, src'.acc_ticks = s.acc_ticks + (a + w)
    PROVE  ScpSince(src)'
  <1> DEFINE D == ScpData[track]
             r == ScpCur(NoMark)
             from == D.at[ScpFrom(D, r)]
             t1 == D.at[s.dat_idx + 1]
             B == ScpBefore(D, r)
             G == ScpReplay(D, r)
             M == IF mark # NoMark THEN mark ELSE lastMark
             ns == ScpNs(a + w)
             m == s.dat_idx - ScpFrom(D, r)
             most == Rate * (s.acc_ticks + (B + G))
             least == Rate * (s.acc_ticks - from) - Trunc * m
             least1 == Rate * (t1 - from) - Trunc * ((s.dat_idx + 1) - ScpFrom(D, r))
  <1>1. /\ r \in 1..ScpRevs(track) /\ s.index_pos = D.index_off[r]
        /\ s.dat_idx >= ScpFrom(D, r) /\ ScpFrom(D, r) \in Nat
        /\ s.dat_idx \in Nat /\ s.dat_idx + 1 <= s.index_pos
        /\ t1 = D.at[s.dat_idx] + w
        /\ D.at[s.dat_idx] \in Nat /\ t1 \in Nat /\ from \in Nat
        /\ from <= D.at[s.dat_idx] /\ w \in Nat
    BY ScpWordPlace DEF ScpTicks
  <1>2. a \in Nat /\ s.acc_ticks \in Int /\ s.acc_ticks + a = D.at[s.dat_idx]
    BY DEF ScpLocal, ScpPlaced
  <1>3. pulled \in Nat /\ ScpSince(s)
    BY DEF ScpTimed
  <1>4. /\ M # NoMark /\ (nr_index # 0 \/ mark # NoMark) /\ s.acc_ticks >= from
        /\ DataRpm * (pulled - M) <= most
        /\ mark # NoMark =>
             \/ ScpLong(DataRpm * (pulled - mark))
             \/ /\ least <= DataRpm * (pulled - mark)
                /\ ScpAhead(D, r, s.dat_idx)
    BY <1>3 DEF ScpSince
  <1>5. ScpCur(NoMark)' = r
    BY <1>3, ScpCurKept
  <1>6. /\ mark' = mark /\ lastMark' = lastMark /\ nr_index' = nr_index
        /\ pulled' = pulled + ns
        /\ mark \in Int /\ lastMark \in Int /\ M \in Int
    BY DEF Pull, Sight, IInv, TypeOK
  <1>7. B \in Int /\ G \in Nat
    BY <1>1, ScpBeforeInt
  <1>8. ScpAhead(D, r, s.dat_idx) =>
           ScpAhead(D, r, s.dat_idx + 1) \/ ScpLong(least1)
    BY <1>1, ScpReads DEF ScpLeast
  <1>9. /\ ns \in Nat /\ DataRpm * ns \in Nat /\ Rate * (a + w) \in Nat
        /\ DataRpm * ns <= Rate * (a + w) /\ Rate * (a + w) <= DataRpm * ns + Trunc
    <2>1. a + w \in Nat
      <3> HIDE DEF D, r, from, t1, B, G
      <3> QED BY <1>1, <1>2
    <2> QED BY <2>1, ScpNsTruncates
  <1>10. src'.acc_ticks = t1 /\ src'.dat_idx = s.dat_idx + 1
         /\ m \in Int /\ (s.dat_idx + 1) - ScpFrom(D, r) = m + 1
    BY <1>1, <1>2
  <1> HIDE DEF D, r, from, t1, B, G, M, ns, m
  <1>11. Rate * (t1 + (B + G)) = most + Rate * (a + w) /\ most \in Int
    <2> DEFINE x == s.acc_ticks + (B + G)
               y == a + w
    <2>1. t1 + (B + G) = x + y /\ x \in Int /\ y \in Int
      BY <1>1, <1>2, <1>7
    <2> HIDE DEF x, y
    <2>2. Rate * (x + y) = Rate * x + Rate * y /\ Rate * x \in Int
      BY <2>1, RateAdds
    <2> QED BY <2>1, <2>2 DEF x, y
  <1>12. least1 = (least + Rate * (a + w)) - Trunc /\ least \in Int
    <2> DEFINE x == s.acc_ticks - from
               y == a + w
    <2>1. t1 - from = x + y /\ x \in Int /\ y \in Int
      BY <1>1, <1>2
    <2> HIDE DEF x, y
    <2>2. Rate * (x + y) = Rate * x + Rate * y /\ Rate * x \in Int
      BY <2>1, RateAdds
    <2>3. /\ Trunc * (m + 1) = Trunc * m + Trunc * 1 /\ Trunc * m \in Int
          /\ Trunc \in Nat
      BY <1>10, RateNat, Scales
    <2>4. Rate * (t1 - from) = Rate * x + Rate * y
      BY <2>1, <2>2
    <2>5. Trunc * ((s.dat_idx + 1) - ScpFrom(D, r)) = Trunc * m + Trunc
      BY <1>10, <2>3
    <2>6. Rate * y \in Nat
      BY <1>9 DEF y
    <2>7. (Rate * x + Rate * y) - (Trunc * m + Trunc)
             = ((Rate * x - Trunc * m) + Rate * y) - Trunc
      BY <2>2, <2>3, <2>6
    <2> QED BY <2>2, <2>3, <2>4, <2>5, <2>7 DEF x, y
  <1> HIDE DEF most, least, least1
  <1>13. pulled' \in Int /\ pulled \in Int
    BY <1>3, <1>6, <1>9
  <1>14. ASSUME NEW q \in Int
         PROVE  /\ DataRpm * (pulled' - q) = DataRpm * (pulled - q) + DataRpm * ns
                /\ DataRpm * (pulled - q) \in Int /\ DataRpm * (pulled' - q) \in Int
    <2>1. pulled' - q = (pulled - q) + ns /\ pulled - q \in Int
      BY <1>6, <1>9, <1>13
    <2>2. DataRpm * ((pulled - q) + ns) = DataRpm * (pulled - q) + DataRpm * ns
          /\ DataRpm * (pulled - q) \in Int
      BY <1>9, <2>1, RateNat, Scales
    <2> QED BY <1>9, <2>1, <2>2
  <1>15. DataRpm * (pulled' - M) <= Rate * (t1 + (B + G))
    <2>1. DataRpm * (pulled' - M) = DataRpm * (pulled - M) + DataRpm * ns
          /\ DataRpm * (pulled - M) \in Int
      BY <1>6, <1>14
    <2> QED BY <1>4, <1>9, <1>11, <2>1
  <1>16. t1 >= from
    BY <1>1
  <1>17. ASSUME mark # NoMark
         PROVE  \/ ScpLong(DataRpm * (pulled' - mark))
                \/ /\ least1 <= DataRpm * (pulled' - mark)
                   /\ ScpAhead(D, r, s.dat_idx + 1)
    <2> DEFINE u == DataRpm * (pulled - mark)
               u1 == DataRpm * (pulled' - mark)
    <2>1. u1 = u + DataRpm * ns /\ u \in Int /\ u1 \in Int
      BY <1>6, <1>14
    <2> HIDE DEF u, u1
    <2>2. CASE ScpLong(u)
      <3>1. u <= u1
        BY <1>9, <2>1
      <3> QED BY <2>1, <2>2, <3>1, ScpLonger DEF u1
    <2>3. CASE least <= u /\ ScpAhead(D, r, s.dat_idx)
      <3>1. least1 <= u1 /\ least1 \in Int
        BY <1>9, <1>12, <2>1, <2>3, RateNat
      <3>2. ScpLong(least1) => ScpLong(u1)
        BY <2>1, <3>1, ScpLonger
      <3> QED BY <1>8, <2>3, <3>1, <3>2 DEF u1
    <2> QED BY <1>4, <1>17, <2>2, <2>3 DEF u
  <1> QED BY <1>4, <1>5, <1>6, <1>10, <1>15, <1>16, <1>17
      DEF ScpSince, D, r, from, t1, B, G, M, least1

(* At the end of a revolution without a reversal: what was gathered of it, or, of  *)
(* the first one, a whole dump.                                                 *)
LEMMA ScpSilenceHanded ==
    ASSUME IInv, track \in DOMAIN ScpData, track' = track, Steady,
           ScpLocal(src, acc, idx, passes), ScpPlaced(src, acc, idx, passes),
           ScpTimed(src, idx, passes), idx = 0, src.dat_idx >= src.index_pos,
           NEW v, v = IF ScpWraps THEN ScpData[track].total_ticks - src.acc_ticks ELSE acc,
           NEW c, c = ScpCued(v), Pull(ScpNs(v), 0),
           src'.dat_idx = c.dat_idx, src'.acc_ticks = c.acc_ticks + v
    PROVE  ScpSince(src)'
  <1> DEFINE D == ScpData[track]
             r == ScpCur(0)
             from == D.at[ScpFrom(D, r)]
             t1 == D.at[c.dat_idx]
             B == ScpBefore(D, r)
             G == ScpReplay(D, r)
             T == D.total_ticks
             last == D.at[D.index_off[r]]
             ns == ScpNs(v)
             m == D.index_off[r] - ScpFrom(D, r)
             least == Rate * (last - from) - Trunc * m
  <1>1. /\ ScpLocal(c, v, 0, IF ScpWraps THEN passes + 1 ELSE passes)
        /\ c.acc_ticks + v = t1 /\ r = ScpRev + 1
    <2>1. idx # NoMark
      BY DEF NoMark
    <2> QED BY <2>1, ScpCuedPlaced
  <1>2. r \in 1..ScpRevs(track)
    BY ScpCurIn
  <1>3. /\ src.dat_idx = D.index_off[r] /\ (ScpWraps <=> ScpRev = 0)
    <2>1. idx # NoMark
      BY DEF NoMark
    <2> QED BY <2>1, ScpAtEnd
  <1>4. ScpMet(src) /\ pulled \in Nat
    BY DEF ScpTimed, NoMark
  <1>5. src.acc_ticks >= -B /\ src.acc_ticks <= from /\ ScpLongSilence(D, r)
    <2>1. ~ScpAhead(D, r, D.index_off[r])
      BY <1>2, ScpNoneAhead
    <2> QED BY <1>3, <1>4, <2>1 DEF ScpMet
  <1>6. ScpSilent(D, r) /\ ScpLong(least)
    BY <1>5 DEF ScpLongSilence, ScpLeast
  <1>7. /\ from \in Nat /\ last \in Nat /\ from <= last /\ last <= T /\ T \in Nat
        /\ D.at[0] = 0 /\ m \in Int /\ m >= 1
    <2>1. /\ D.index_off[r] \in 1..Len(D.dat) /\ Len(D.dat) \in Nat
          /\ ScpFrom(D, r) \in 0..(D.index_off[r] - 1)
      BY <1>2, ScpStored
    <2>2. /\ ScpFrom(D, r) \in 0..Len(D.dat) /\ D.index_off[r] \in 0..Len(D.dat)
          /\ ScpFrom(D, r) <= D.index_off[r] /\ m \in Int /\ m >= 1
      BY <2>1
    <2>3. T \in Nat
      BY ScpStored
    <2> QED BY <2>2, <2>3, ScpTimes
  <1>8. src.acc_ticks + acc = last /\ acc \in Nat /\ src.acc_ticks \in Int
    BY <1>3 DEF ScpPlaced, ScpLocal
  <1>9. v \in Nat /\ B \in Int /\ G \in Nat
    BY <1>1, <1>2, ScpBeforeInt DEF ScpLocal
  <1>10. v >= last - from /\ t1 >= from /\ v <= t1 + (B + G)
    <2>1. CASE ScpWraps
      <3>1. ScpRev = 0 /\ r = 1
        BY <1>1, <1>3, <2>1
      <3>2. v = T - src.acc_ticks
        BY <2>1
      <3>3. c.dat_idx = 0
        BY <3>1 DEF ScpCued, ScpLocal
      <3>4. t1 = 0
        BY <1>7, <3>3
      <3>5. from = 0
        BY <1>7, <3>1 DEF ScpFrom
      <3>6. G = T
        BY <1>6, <3>1 DEF ScpReplay
      <3> HIDE DEF D, r, from, t1, B, G, T, last
      <3> QED BY <1>5, <1>7, <1>8, <1>9, <3>2, <3>4, <3>5, <3>6
    <2>2. CASE ~ScpWraps
      <3>1. v = acc /\ c.dat_idx = src.dat_idx
        BY <1>3, <2>2 DEF ScpCued, ScpLocal
      <3>2. t1 = last
        BY <1>3, <3>1
      <3> HIDE DEF D, r, from, t1, B, G, T, last
      <3> QED BY <1>5, <1>7, <1>8, <1>9, <3>1, <3>2
    <2> QED BY <2>1, <2>2
  <1>11. ScpCur(NoMark)' = r
    BY <1>4, ScpCurKept
  <1>12. mark' = pulled /\ mark' # NoMark /\ pulled' = pulled + ns
    BY <1>4 DEF Pull, Sight, NoMark
  <1>13. c.acc_ticks \in Int
    BY <1>1 DEF ScpLocal
  <1> HIDE DEF D, r, from, t1, B, G, T, last, ns, m
  <1>14. src'.acc_ticks = t1 /\ t1 \in Int
    BY <1>1, <1>9, <1>13
  <1>15. /\ ns \in Nat /\ DataRpm * ns \in Nat /\ Rate * v \in Nat
         /\ DataRpm * ns <= Rate * v /\ Rate * v <= DataRpm * ns + Trunc
    BY <1>9, ScpNsTruncates DEF ns
  <1>16. pulled' - mark' = ns
    BY <1>4, <1>12, <1>15
  <1>17. DataRpm * ns <= Rate * (t1 + (B + G))
    <2>1. t1 + (B + G) \in Int /\ v \in Int
      BY <1>9, <1>14
    <2>2. Rate * v <= Rate * (t1 + (B + G)) /\ Rate * (t1 + (B + G)) \in Int
      BY <1>10, <2>1, RateTimes
    <2> QED BY <1>15, <2>2
  <1>18. ScpLong(DataRpm * ns)
    <2>1. last - from \in Int /\ v \in Int
      BY <1>7, <1>9
    <2>2. Rate * (last - from) <= Rate * v /\ Rate * (last - from) \in Int
      BY <1>10, <2>1, RateTimes
    <2>3. Trunc * 1 <= Trunc * m /\ Trunc * m \in Int /\ Trunc \in Nat
      BY <1>7, RateNat, Scales
    <2>4. least <= DataRpm * ns /\ least \in Int
      BY <1>15, <2>2, <2>3
    <2> HIDE DEF least
    <2> QED BY <1>6, <1>15, <2>4, ScpLonger
  <1> QED BY <1>10, <1>11, <1>12, <1>14, <1>16, <1>17, <1>18
      DEF ScpSince, D, r, from, t1, B, G

(* The stream and the source after an interval of d ns. *)
LEMMA ScpDelivered ==
    ASSUME IInv, track \in DOMAIN ScpData, track' = track, phase = "pull",
           NEW i \in {NoMark, 0}, NEW d \in Int, NEW p \in Nat, passes' = p,
           Deliver(d, i),
           src' \in [dat_idx : Nat, index_pos : Nat, jitter : Int, acc_ticks : Int,
                     seen : BOOLEAN],
           src'.acc_ticks = ScpData[track].at[src'.dat_idx],
           src'.index_pos # 0, src'.index_pos = ScpData[track].index_off[ScpCur(i)],
           src'.dat_idx \in ScpFrom(ScpData[track], ScpCur(i))..src'.index_pos,
           Steady => /\ LateInv /\ ScpTimer /\ pulled \in Nat /\ d \in Nat
                     /\ ScpWithin(passes, src.acc_ticks, src.dat_idx)'
                     /\ ScpSince(src)'
    PROVE  IInv' /\ phase' = "pull" /\ ScpPlaying'
  <1>1. Pull(d, i) /\ busy' = FALSE /\ acc' = 0 /\ idx' = NoMark /\ i \in Int
    BY DEF Deliver, Leave, NoMark
  <1>2. IInv'
    BY <1>1, PullInv
  <1>3. phase' = "pull"
    BY <1>1 DEF Pull, callVars
  <1>4. ScpCur(NoMark)' = ScpCur(i)
    BY <1>1, ScpCurKept
  <1>5. ScpLocal(src, acc, idx, passes)'
    BY <1>1 DEF ScpLocal
  <1>6. ScpPlaced(src, acc, idx, passes)'
    <2>1. src'.acc_ticks \in Int
      OBVIOUS
    <2>2. src'.acc_ticks + acc' = ScpData[track'].at[src'.dat_idx]
      BY <1>1, <2>1
    <2>3. idx' = NoMark
      BY <1>1
    <2>4. ScpCur(idx)' = ScpCur(i)
      BY <1>4, <2>3 DEF ScpCur
    <2> QED BY <2>2, <2>4 DEF ScpPlaced
  <1>7. ASSUME Steady
        PROVE  LateInv' /\ ScpTimer' /\ ScpTimed(src, idx, passes)'
    <2>1. LateInv'
      BY <1>1, <1>7, PullLate DEF NoMark
    <2>2. ScpTimer'
      <3>1. /\ clock' = clock /\ now' = now /\ lastMark' = lastMark /\ flux < clock \div 2
            /\ Sight(i) /\ flux \in Int
        BY <1>1 DEF Pull, IInv, TypeOK
      <3>2. CASE i = NoMark
        <4>1. mark' = mark /\ ns_to_index' = ns_to_index
          BY <3>1, <3>2 DEF Sight
        <4> QED BY <1>3, <1>7, <3>1, <4>1 DEF ScpTimer
      <3>3. CASE i = 0
        <4>1. mark' = pulled /\ ns_to_index' = flux /\ pulled # NoMark
          BY <1>7, <3>1, <3>3 DEF Sight, NoMark
        <4> QED BY <1>3, <3>1, <4>1 DEF ScpTimer
      <3> QED BY <3>2, <3>3
    <2>3. ScpTimed(src, idx, passes)'
      <3>1. pulled' = pulled + d
        BY <1>1 DEF Pull
      <3>2. pulled' \in Nat
        BY <1>7, <3>1
      <3>3. idx' = NoMark /\ ScpLost(src, idx)' = src'.dat_idx
        BY <1>1 DEF ScpLost
      <3>4. ScpWithin(passes, src.acc_ticks, ScpLost(src, idx))'
        BY <1>7, <3>3 DEF ScpWithin
      <3> QED BY <1>7, <3>2, <3>3, <3>4 DEF ScpTimed
    <2> QED BY <2>1, <2>2, <2>3
  <1>8. Steady' <=> Steady
    BY DEF Steady
  <1>9. ScpCall'
    BY <1>1 DEF ScpCall
  <1> QED BY <1>1, <1>2, <1>3, <1>5, <1>6, <1>7, <1>8, <1>9 DEF ScpPlaying

(* The end of scp_next_flux, with or without jitter. *)
LEMMA ScpFinishes ==
    ASSUME IInv, track \in DOMAIN ScpData, track' = track, phase = "pull",
           NEW n, NEW v, NEW i, NEW p, ScpLocal(n, v, i, p), passes' = p,
           ScpFinish(n, v, i),
           n.acc_ticks + v = ScpData[track].at[n.dat_idx],
           n.index_pos # 0, n.index_pos = ScpData[track].index_off[ScpCur(i)],
           n.dat_idx \in ScpFrom(ScpData[track], ScpCur(i))..n.index_pos,
           Steady => /\ LateInv /\ ScpTimer /\ pulled \in Nat
                     /\ ScpWithin(p, n.acc_ticks, n.dat_idx - 1),
           Steady /\ Pull(ScpNs(v), i) /\ src'.dat_idx = n.dat_idx
             /\ src'.acc_ticks = n.acc_ticks + v
           => ScpSince(src)'
    PROVE  IInv' /\ phase' = "pull" /\ ScpPlaying'
  <1> DEFINE rec == [dat_idx : Nat, index_pos : Nat, jitter : Int, acc_ticks : Int,
                     seen : BOOLEAN]
  <1>1. n \in rec /\ v \in Nat /\ i \in {NoMark, 0} /\ p \in Nat /\ n.acc_ticks \in Int
        /\ n.jitter \in Int
    BY DEF ScpLocal
  <1>2. CASE Steady
    <2>1. src' = [n EXCEPT !.acc_ticks = @ + v] /\ Deliver(ScpNs(v), i)
      BY <1>2 DEF ScpFinish, Steady
    <2>2. /\ src' \in rec /\ src'.dat_idx = n.dat_idx /\ src'.index_pos = n.index_pos
          /\ src'.acc_ticks = n.acc_ticks + v
      BY <1>1, <2>1
    <2>3. ScpNs(v) \in Nat
      BY <1>1, ScpNsTruncates
    <2>4. ScpSince(src)'
      BY <1>2, <2>1, <2>2 DEF Deliver
    <2>5. ScpWithin(passes, src.acc_ticks, src.dat_idx)'
      <3> DEFINE T == ScpData[track].total_ticks
                 N == Len(ScpData[track].dat)
                 x == p * T + n.acc_ticks
                 w == p * N + n.dat_idx
      <3>1. T \in Nat /\ N \in Nat /\ n.dat_idx \in Nat
        BY <1>1, ScpStored
      <3>2. x \in Int /\ p * T + (n.acc_ticks + v) = x + v
            /\ w \in Int /\ p * N + (n.dat_idx - 1) = w - 1
        <4>1. p * T \in Int /\ p * N \in Int
          BY <1>1, <3>1
        <4> HIDE DEF T, N
        <4> QED BY <1>1, <3>1, <4>1
      <3>3. Rate * x - DataRpm * pulled >= 0 /\ Rate * x - DataRpm * pulled <= Trunc * (w - 1)
        BY <1>2, <3>2 DEF ScpWithin
      <3>4. pulled' = pulled + ScpNs(v) /\ passes' = p /\ pulled \in Int
        BY <1>2, <2>1 DEF Deliver, Pull
      <3> HIDE DEF x, w, T, N
      <3>5. /\ Rate * (x + v) - DataRpm * pulled' >= 0
            /\ Rate * (x + v) - DataRpm * pulled' <= Trunc * w
        BY <1>1, <3>2, <3>3, <3>4, ScpNsOwed
      <3> QED BY <2>2, <3>2, <3>4, <3>5 DEF ScpWithin, w, T, N
    <2>6. ScpNs(v) \in Int
      BY <2>3
    <2>7. src'.acc_ticks = ScpData[track].at[src'.dat_idx] /\ src'.index_pos # 0
          /\ src'.index_pos = ScpData[track].index_off[ScpCur(i)]
          /\ src'.dat_idx \in ScpFrom(ScpData[track], ScpCur(i))..src'.index_pos
      BY <2>2
    <2> QED BY <1>1, <1>2, <2>1, <2>2, <2>3, <2>4, <2>5, <2>6, <2>7, ScpDelivered
  <1>3. CASE ~Steady
    <2>1. PICK j \in Int :
            LET ns == ScpNs(v + j)
                kept == [n EXCEPT !.acc_ticks = @ + v, !.jitter = @ - j]
            IN  \/ src' = kept /\ Deliver(ns, i)
                \/ /\ ns \in 0..(ShortPulse - 1)
                   /\ src' = [kept EXCEPT !.jitter = @ + ns]
                   /\ Deliver(0, i)
      <3>1. CDiv(n.jitter, 2) \in Int
        BY <1>1, CDivInt
      <3>2. \A j \in (IF n.jitter \in -3..3 THEN {-1, 0, 1} ELSE {CDiv(n.jitter, 2)}) : j \in Int
        BY <3>1
      <3> QED BY <1>3, <3>2 DEF ScpFinish, Steady
    <2> DEFINE ns == ScpNs(v + j)
    <2>2. ns \in Int
      <3> DEFINE y == Rate * (v + j)
      <3>1. y \in Int /\ DataRpm \in Nat \ {0}
        <4>1. v + j \in Int
          BY <1>1
        <4> QED BY <4>1, RateNat, Scales
      <3>2. ns = y \div DataRpm
        BY DEF ScpNs
      <3> HIDE DEF y, ns
      <3> QED BY <3>1, <3>2
    <2> HIDE DEF ns
    <2>3. /\ src' \in rec /\ src'.dat_idx = n.dat_idx /\ src'.index_pos = n.index_pos
          /\ src'.acc_ticks = n.acc_ticks + v
      <3> DEFINE kept == [n EXCEPT !.acc_ticks = @ + v, !.jitter = @ - j]
      <3>1. /\ kept \in rec /\ kept.dat_idx = n.dat_idx /\ kept.index_pos = n.index_pos
            /\ kept.acc_ticks = n.acc_ticks + v /\ kept.jitter \in Int
        <4>1. n.acc_ticks + v \in Int /\ n.jitter - j \in Int
          BY <1>1
        <4>2. /\ kept.dat_idx = n.dat_idx /\ kept.index_pos = n.index_pos
              /\ kept.acc_ticks = n.acc_ticks + v /\ kept.jitter = n.jitter - j
          BY <1>1
        <4>3. kept \in rec
          BY <1>1, <4>1
        <4> QED BY <4>1, <4>2, <4>3
      <3>2. src' = kept \/ src' = [kept EXCEPT !.jitter = @ + ns]
        BY <2>1 DEF ns
      <3> HIDE DEF kept
      <3> QED BY <2>2, <3>1, <3>2
    <2>7. Deliver(ns, i) \/ Deliver(0, i)
      BY <2>1 DEF ns
    <2>4. src'.acc_ticks = ScpData[track].at[src'.dat_idx] /\ src'.index_pos # 0
          /\ src'.index_pos = ScpData[track].index_off[ScpCur(i)]
          /\ src'.dat_idx \in ScpFrom(ScpData[track], ScpCur(i))..src'.index_pos
      BY <2>3
    <2>5. CASE Deliver(ns, i)
      BY <1>1, <1>3, <2>2, <2>3, <2>4, <2>5, ScpDelivered
    <2>6. CASE Deliver(0, i)
      <3>1. 0 \in Int
        OBVIOUS
      <3> QED BY <1>1, <1>3, <2>3, <2>4, <2>6, <3>1, ScpDelivered
    <2> QED BY <2>5, <2>6, <2>7
  <1> QED BY <1>2, <1>3

(* A pulse is crossed before the next revolution is cued: a revolution is longer    *)
(* than what the PLL may be early, and more than half a cell is not waiting.       *)
LEMMA EarlyAbove == ASSUME NEW x \in Int, Early(x)
                    PROVE  \E c \in Centres : x >= -HalfMax(c)
  <1> PICK c \in Centres : 100 * x >= -((100 - PhasePct) * HalfMax(c))
    BY DEF Early
  <1>1. HalfMax(c) \in Nat /\ PhasePct \in 0..100 /\ 100 - PhasePct \in Nat
    BY ClockMaxNat, PllAssumption
  <1>2. (100 - PhasePct) * HalfMax(c) <= 100 * HalfMax(c)
        /\ (100 - PhasePct) * HalfMax(c) \in Int
    <2>1. 100 - PhasePct <= 100
      BY <1>1
    <2> QED BY <1>1, <2>1, TimesMonotone
  <1>3. x >= -HalfMax(c)
    BY <1>1, <1>2
  <1> QED BY <1>3

(* A pulse in sight, when the flux is used up: no longer ago than a bitcell. *)
LEMMA SightRecent ==
    ASSUME IInv, LateInv, mark # NoMark, flux < clock \div 2
    PROVE  \E e \in Centres : pulled - mark <= ClockMax(e)
  <1>1. /\ ns_to_index = mark - now /\ now + flux = pulled
        /\ now \in Int /\ flux \in Int /\ mark \in Int /\ pulled \in Int
    BY DEF IInv, IndexTimerExact, FluxConserved, TypeOK
  <1>2. PICK c \in Centres : mark - now >= -HalfMax(c)
    <2>1. Early(mark - now) /\ mark - now \in Int
      BY <1>1 DEF LateInv, SightNear
    <2> QED BY <2>1, EarlyAbove
  <1>3. clock \in Nat /\ clock_centre \in Centres /\ clock <= ClockMax(clock_centre)
    BY ClockPositive
  <1>4. PICK e \in Centres : ClockMax(clock_centre) <= ClockMax(e) /\ HalfMax(c) <= HalfMax(e)
    BY <1>3, WiderBound
  <1>5. /\ ClockMax(e) \in Nat /\ HalfMax(e) = (ClockMax(e) + 1) \div 2
        /\ HalfMax(c) \in Nat /\ ClockMax(clock_centre) \in Nat
    BY <1>3, ClockMaxNat DEF HalfMax
  <1>6. pulled - mark <= ClockMax(e)
    BY <1>1, <1>2, <1>3, <1>4, <1>5
  <1> QED BY <1>6

(* So when the words of a revolution run out, its pulse is not in sight any more. *)
LEMMA ScpCrossed ==
    ASSUME IInv, LateInv, track \in DOMAIN ScpData, Steady,
           ScpLocal(src, acc, NoMark, passes), ScpPlaced(src, acc, NoMark, passes),
           ScpTimed(src, NoMark, passes), src.dat_idx >= src.index_pos,
           flux < clock \div 2
    PROVE  mark = NoMark
  <1> SUFFICES ASSUME mark # NoMark PROVE FALSE
    OBVIOUS
  <1> DEFINE D == ScpData[track]
             r == ScpCur(NoMark)
  <1>1. r \in 1..ScpRevs(track)
    BY ScpCurIn
  <1>2. /\ src.index_pos = D.index_off[r] /\ src.dat_idx \in ScpFrom(D, r)..src.index_pos
        /\ src.index_pos \in Nat /\ src.index_pos # 0
    <2>1. D.index_off[r] \in Nat \ {0}
      BY <1>1, ScpStored
    <2> QED BY <2>1 DEF ScpPlaced
  <1>3. src.dat_idx = D.index_off[r]
    <2>1. src.dat_idx \in Nat
      BY DEF ScpLocal
    <2> QED BY <1>2, <2>1
  <1>4. ScpSince(src)
    BY <1>2 DEF ScpTimed
  <1>5. ScpLong(DataRpm * (pulled - mark))
    <2>1. ~ScpAhead(D, r, D.index_off[r])
      BY <1>1, ScpNoneAhead
    <2> QED BY <1>3, <1>4, <2>1 DEF ScpSince
  <1>6. PICK e \in Centres : pulled - mark <= ClockMax(e)
    BY SightRecent
  <1>7. pulled - mark \in Int /\ ClockMax(e) \in Int
    BY ClockMaxNat DEF IInv, TypeOK
  <1>8. /\ DataRpm * (pulled - mark) <= DataRpm * ClockMax(e)
        /\ DataRpm * (pulled - mark) \in Int /\ DataRpm * ClockMax(e) \in Int
    BY <1>6, <1>7, RateNat, Scales
  <1>9. DataRpm * (pulled - mark) > DataRpm * ClockMax(e)
    BY <1>5 DEF ScpLong
  <1> QED BY <1>8, <1>9

-----------------------------------------------------------------------------
(* The steps of scp_next_flux. *)

(* The loop goes on with the next word. *)
LEMMA ScpGoesOn ==
    ASSUME IInv, ScpPlaying, busy, UNCHANGED <<vars, track, busy>>,
           ScpLocal(src', acc', idx', passes'), ScpPlaced(src', acc', idx', passes'),
           Steady => ScpTimed(src', idx', passes'),
           src'.index_pos # 0, src.index_pos = 0 \/ Steady => LateInv, src'.seen <=> idx' = 0
    PROVE  IInv' /\ ScpPlaying'
  <1>1. IInv'
    BY StutterInv
  <1>2. /\ nr_index' = nr_index /\ mark' = mark /\ lastMark' = lastMark /\ pulled' = pulled
        /\ phase' = phase /\ flux' = flux /\ clock' = clock /\ now' = now
        /\ ns_to_index' = ns_to_index /\ trueLen' = trueLen
        /\ index_offset_ns' = index_offset_ns /\ track_len_ns' = track_len_ns
    BY DEF vars, pllVars, indexVars, callVars, history
  <1>3. ScpLocal(src, acc, idx, passes)'
    BY DEF ScpLocal
  <1>4. ScpPlaced(src, acc, idx, passes)'
    BY <1>2 DEF ScpPlaced, ScpCur
  <1>5. ASSUME Steady PROVE ScpTimed(src, idx, passes)' /\ ScpTimer' /\ LateInv'
    <2>1. ScpTimed(src, idx, passes)'
      BY <1>2, <1>5 DEF ScpTimed, ScpWithin, ScpLost, ScpSince, ScpMet, ScpCur
    <2>2. ScpTimer'
      BY <1>2, <1>5 DEF ScpPlaying, ScpTimer
    <2>3. LateInv'
      BY <1>2, <1>5, SameLate
    <2> QED BY <2>1, <2>2, <2>3
  <1>6. ScpCall'
    BY <1>2 DEF ScpPlaying, ScpCall
  <1>7. Steady' <=> Steady
    BY DEF Steady
  <1> QED BY <1>1, <1>3, <1>4, <1>5, <1>6, <1>7 DEF ScpPlaying

(* One turn of the loop, whichever way it ends. *)
LEMMA ScpWordPlays ==
    ASSUME IInv, ScpPlaying, phase # "closed", ScpWord
    PROVE  IInv' /\ phase' # "closed" /\ ScpPlaying'
  <1> DEFINE D == ScpData[track]
             due == src.dat_idx >= src.index_pos
             val == IF due /\ ScpWraps THEN D.total_ticks - src.acc_ticks ELSE acc
             cued == IF due THEN ScpCued(val) ELSE src
             i == IF due THEN 0 ELSE idx
             word == D.dat[cued.dat_idx + 1]
             next == [cued EXCEPT !.dat_idx = @ + 1]
             p == IF due /\ ScpWraps THEN passes + 1 ELSE passes
  <1>1. /\ busy /\ track' = track /\ passes' = p
        /\ IF due /\ src.seen THEN ScpFinish(cued, val, i)
           ELSE IF word = 0 THEN src' = next /\ Continue(val + Overflow, i)
           ELSE ScpFinish(next, val + word, i)
    BY DEF ScpWord, In
  <1>2. /\ track \in DOMAIN ScpData /\ phase = "pull" /\ flux < clock \div 2
        /\ ScpLocal(src, acc, idx, passes) /\ ScpPlaced(src, acc, idx, passes)
        /\ (src.seen <=> idx = 0) /\ idx \in {NoMark, 0}
        /\ Steady => ScpTimed(src, idx, passes) /\ ScpTimer
        /\ Steady \/ src.index_pos = 0 => LateInv
    BY <1>1 DEF ScpPlaying, ScpCall, ScpLocal
  <1>3. src.dat_idx \in Nat /\ src.index_pos \in Nat /\ acc \in Nat
    BY <1>2 DEF ScpLocal
  <1> HIDE DEF D
  <1>4. ASSUME due, Steady, idx = NoMark
        PROVE  mark = NoMark
    BY <1>2, <1>4, ScpCrossed
  <1>5. ASSUME due, Steady, src.index_pos # 0
        PROVE  nr_index # 0 \/ idx # NoMark
    <2>1. CASE idx = NoMark
      BY <1>2, <1>4, <1>5, <2>1 DEF ScpTimed, ScpSince
    <2> QED BY <2>1
  <1>6. ASSUME due
        PROVE  /\ ScpLocal(cued, val, 0, p) /\ cued.index_pos # 0
               /\ cued.acc_ticks + val = D.at[cued.dat_idx]
               /\ cued.index_pos = D.index_off[ScpCur(0)]
               /\ cued.dat_idx \in ScpFrom(D, ScpCur(0))..cued.index_pos
               /\ idx = NoMark => cued.dat_idx = ScpFrom(D, ScpCur(0))
    <2>1. /\ val = IF ScpWraps THEN ScpData[track].total_ticks - src.acc_ticks ELSE acc
          /\ p = IF ScpWraps THEN passes + 1 ELSE passes
          /\ cued = ScpCued(val)
      BY <1>6 DEF D
    <2> HIDE DEF val, p, cued
    <2> QED BY <1>2, <1>4, <1>5, <1>6, <2>1, ScpCuedPlaced DEF D
  <1>7. ASSUME due, Steady
        PROVE  ScpWithin(p, cued.acc_ticks,
                         IF idx = NoMark THEN cued.dat_idx ELSE cued.dat_idx - 1)
    <2>1. /\ val = IF ScpWraps THEN ScpData[track].total_ticks - src.acc_ticks ELSE acc
          /\ p = IF ScpWraps THEN passes + 1 ELSE passes
          /\ cued = ScpCued(val)
      BY <1>7 DEF D
    <2> HIDE DEF val, p, cued
    <2> QED BY <1>2, <1>7, <2>1, ScpWrapTicks DEF D
  (* A revolution without a reversal has ended. *)
  <1>8. CASE due /\ src.seen
    <2>1. ScpFinish(cued, val, 0) /\ idx = 0
      BY <1>1, <1>2, <1>8
    <2>2. ASSUME Steady, Pull(ScpNs(val), 0), src'.dat_idx = cued.dat_idx,
                 src'.acc_ticks = cued.acc_ticks + val
          PROVE  ScpSince(src)'
      <3>1. /\ val = IF ScpWraps THEN ScpData[track].total_ticks - src.acc_ticks ELSE acc
            /\ cued = ScpCued(val)
        BY <1>8 DEF D
      <3> HIDE DEF val, p, cued
      <3> QED BY <1>1, <1>2, <1>8, <2>1, <2>2, <3>1, ScpSilenceHanded
    <2>3. /\ ScpLocal(cued, val, 0, p) /\ cued.index_pos # 0
          /\ cued.acc_ticks + val = D.at[cued.dat_idx]
          /\ cued.index_pos = D.index_off[ScpCur(0)]
          /\ cued.dat_idx \in ScpFrom(D, ScpCur(0))..cued.index_pos
      BY <1>6, <1>8
    <2>4. Steady => ScpWithin(p, cued.acc_ticks, cued.dat_idx - 1) /\ pulled \in Nat
      <3> HIDE DEF p, cued
      <3>1. idx # NoMark
        BY <2>1 DEF NoMark
      <3> QED BY <1>2, <1>7, <1>8, <3>1 DEF ScpTimed
    <2> HIDE DEF val, p, cued, i
    <2>5. Steady /\ Pull(ScpNs(val), 0) /\ src'.dat_idx = cued.dat_idx
             /\ src'.acc_ticks = cued.acc_ticks + val
          => ScpSince(src)'
      BY <2>2
    <2>6. Steady => /\ LateInv /\ ScpTimer /\ pulled \in Nat
                    /\ ScpWithin(p, cued.acc_ticks, cued.dat_idx - 1)
      BY <1>2, <2>4 DEF D
    <2>7. /\ track' = track /\ phase = "pull" /\ track \in DOMAIN ScpData /\ passes' = p
          /\ ScpLocal(cued, val, 0, p) /\ cued.index_pos # 0
          /\ cued.acc_ticks + val = ScpData[track].at[cued.dat_idx]
          /\ cued.index_pos = ScpData[track].index_off[ScpCur(0)]
          /\ cued.dat_idx \in ScpFrom(ScpData[track], ScpCur(0))..cued.index_pos
      BY <1>1, <1>2, <2>3 DEF D
    <2>8. IInv' /\ phase' = "pull" /\ ScpPlaying'
      BY <2>1, <2>5, <2>6, <2>7, ScpFinishes
    <2> QED BY <2>8
  (* The next word is read, in a revolution cued before or just now. *)
  <1>9. CASE ~(due /\ src.seen)
    <2>1. /\ ScpLocal(cued, val, i, p) /\ ScpPlaced(cued, val, i, p)
          /\ cued.index_pos # 0 /\ cued.dat_idx < cued.index_pos
          /\ Steady => ScpTimed(cued, i, p)
          /\ cued.seen <=> i = 0
      <3>1. CASE due
        <4>1. idx = NoMark /\ i = 0
          BY <1>2, <1>9, <3>1
        <4>2. /\ ScpLocal(cued, val, 0, p) /\ cued.index_pos # 0
              /\ cued.acc_ticks + val = D.at[cued.dat_idx]
              /\ cued.index_pos = D.index_off[ScpCur(0)]
              /\ cued.dat_idx \in ScpFrom(D, ScpCur(0))..cued.index_pos
              /\ cued.dat_idx = ScpFrom(D, ScpCur(0))
          BY <1>6, <3>1, <4>1
        <4>3. ScpPlaced(cued, val, 0, p)
          BY <4>2 DEF ScpPlaced, D
        <4>4. cued.dat_idx < cued.index_pos
          <5>1. ScpCur(0) \in 1..ScpRevs(track)
            BY <1>2, ScpCurIn
          <5>2. /\ D.index_off[ScpCur(0)] \in 1..Len(D.dat) /\ Len(D.dat) \in Nat
                /\ ScpFrom(D, ScpCur(0)) \in 0..(D.index_off[ScpCur(0)] - 1)
            BY <1>2, <5>1, ScpStored DEF D
          <5> HIDE DEF cued
          <5> QED BY <4>2, <5>2
        <4>5. ASSUME Steady PROVE ScpTimed(cued, 0, p)
          <5>1. /\ val = IF ScpWraps THEN ScpData[track].total_ticks - src.acc_ticks ELSE acc
                /\ p = IF ScpWraps THEN passes + 1 ELSE passes
                /\ cued = ScpCued(val)
            BY <3>1 DEF D
          <5>2. mark = NoMark /\ (src.index_pos # 0 => nr_index # 0)
            BY <1>4, <1>5, <3>1, <4>1, <4>5
          <5> HIDE DEF val, p, cued
          <5> QED BY <1>2, <3>1, <4>1, <4>5, <5>1, <5>2, ScpCuedMet
        <4>6. cued.seen = TRUE
          BY <1>2, <3>1 DEF ScpCued, ScpLocal
        <4> HIDE DEF cued, val, p
        <4> QED BY <4>1, <4>2, <4>3, <4>4, <4>5, <4>6
      <3>2. CASE ~due
        BY <1>2, <1>3, <3>2
      <3> QED BY <3>1, <3>2
    <2>2. Steady => LateInv /\ ScpTimer
      BY <1>2
    <2> HIDE DEF cued, val, i, p
    <2>3. CASE word = 0
      <3>1. src' = next /\ acc' = val + Overflow /\ idx' = i /\ UNCHANGED <<vars, busy>>
        BY <1>1, <1>9, <2>3 DEF Continue
      <3>2. /\ ScpLocal(next, val + Overflow, i, p) /\ ScpPlaced(next, val + Overflow, i, p)
            /\ next.index_pos # 0 /\ next.seen = cued.seen
            /\ Steady => ScpTimed(next, i, p)
        BY <1>2, <2>1, <2>3, ScpGathers DEF D
      <3>3. next.seen <=> i = 0
        BY <2>1, <3>2
      <3> HIDE DEF next
      <3>4. IInv' /\ ScpPlaying'
        BY <1>1, <1>2, <3>1, <3>2, <3>3, ScpGoesOn
      <3>5. phase' = phase
        BY <3>1 DEF vars, callVars
      <3> QED BY <3>4, <3>5
    <2>4. CASE word # 0
      <3>1. ScpFinish(next, val + word, i)
        BY <1>1, <1>9, <2>4
      <3>2. /\ ScpCur(i) \in 1..ScpRevs(track) /\ cued.index_pos = D.index_off[ScpCur(i)]
            /\ ScpFrom(D, ScpCur(i)) \in Nat /\ cued.dat_idx >= ScpFrom(D, ScpCur(i))
            /\ cued.dat_idx \in Nat /\ cued.dat_idx + 1 <= cued.index_pos
            /\ D.at[cued.dat_idx + 1] = D.at[cued.dat_idx] + word
            /\ D.at[cued.dat_idx] \in Nat /\ word \in Nat
        BY <1>2, <2>1, <2>4, ScpWordPlace DEF D, ScpTicks
      <3>3. /\ next.dat_idx = cued.dat_idx + 1 /\ next.index_pos = cued.index_pos
            /\ next.acc_ticks = cued.acc_ticks /\ cued.acc_ticks \in Int /\ val \in Nat
            /\ next \in [dat_idx : Nat, index_pos : Nat, jitter : Int, acc_ticks : Int,
                          seen : BOOLEAN]
            /\ cued.index_pos \in Nat /\ i \in {NoMark, 0} /\ p \in Nat
            /\ cued.acc_ticks + val = D.at[cued.dat_idx]
        BY <2>1 DEF ScpLocal, ScpPlaced, D
      <3>4. ASSUME Steady, Pull(ScpNs(val + word), i), src'.dat_idx = next.dat_idx,
                   src'.acc_ticks = next.acc_ticks + (val + word)
            PROVE  ScpSince(src)'
        <4>1. ScpTimed(cued, i, p) /\ src'.dat_idx = cued.dat_idx + 1
              /\ src'.acc_ticks = cued.acc_ticks + (val + word)
          BY <2>1, <3>3, <3>4
        <4>2. CASE i = NoMark
          BY <1>1, <1>2, <2>1, <2>4, <3>4, <4>1, <4>2, ScpMoreHanded DEF D
        <4>3. CASE i = 0
          BY <1>1, <1>2, <2>1, <2>4, <3>4, <4>1, <4>3, ScpMetHanded DEF D
        <4> QED BY <3>3, <4>2, <4>3
      <3>5. ASSUME Steady
            PROVE  ScpWithin(p, next.acc_ticks, next.dat_idx - 1) /\ pulled \in Nat
        <4>1. pulled \in Nat /\ ScpWithin(p, cued.acc_ticks, ScpLost(cued, i))
          BY <2>1, <3>5 DEF ScpTimed
        <4>2. /\ ScpLost(cued, i) \in Int /\ cued.dat_idx \in Int
              /\ ScpLost(cued, i) <= cued.dat_idx
          <5>1. i # NoMark => ScpLost(cued, i) = ScpFrom(D, ScpCur(i))
            BY <3>3 DEF ScpLost, D
          <5>2. i = NoMark => ScpLost(cued, i) = cued.dat_idx
            BY DEF ScpLost
          <5> QED BY <3>2, <5>1, <5>2
        <4>3. ScpWithin(p, cued.acc_ticks, cued.dat_idx)
          BY <1>2, <3>3, <4>1, <4>2, ScpWithinMore
        <4>4. next.dat_idx - 1 = cued.dat_idx
          BY <3>3, <4>2
        <4> QED BY <3>3, <4>1, <4>3, <4>4
      <3> HIDE DEF next, word
      <3>6. /\ ScpLocal(next, val + word, i, p)
            /\ next.acc_ticks + (val + word) = D.at[next.dat_idx]
            /\ next.index_pos # 0 /\ next.index_pos = D.index_off[ScpCur(i)]
            /\ next.dat_idx \in ScpFrom(D, ScpCur(i))..next.index_pos
        BY <2>1, <3>2, <3>3 DEF ScpLocal
      <3> DEFINE w == val + word
      <3>7. Steady /\ Pull(ScpNs(w), i) /\ src'.dat_idx = next.dat_idx
               /\ src'.acc_ticks = next.acc_ticks + w
            => ScpSince(src)'
        BY <3>4
      <3>8. Steady => /\ LateInv /\ ScpTimer /\ pulled \in Nat
                      /\ ScpWithin(p, next.acc_ticks, next.dat_idx - 1)
        BY <2>2, <3>5 DEF D
      <3>9. /\ track' = track /\ phase = "pull" /\ track \in DOMAIN ScpData /\ passes' = p
            /\ ScpLocal(next, w, i, p) /\ next.index_pos # 0 /\ ScpFinish(next, w, i)
            /\ next.acc_ticks + w = ScpData[track].at[next.dat_idx]
            /\ next.index_pos = ScpData[track].index_off[ScpCur(i)]
            /\ next.dat_idx \in ScpFrom(ScpData[track], ScpCur(i))..next.index_pos
        BY <1>1, <1>2, <3>1, <3>6 DEF D
      <3> HIDE DEF w
      <3>10. IInv' /\ phase' = "pull" /\ ScpPlaying'
        BY <3>7, <3>8, <3>9, ScpFinishes
      <3> QED BY <3>10
    <2> QED BY <2>3, <2>4
  <1> QED BY <1>8, <1>9

-----------------------------------------------------------------------------
(* Every other step of an SCP stream. *)

(* scp_next_flux is called. *)
LEMMA ScpEnters ==
    ASSUME IInv, ScpPlaying, phase # "closed", kind = "scp", Enter
    PROVE  IInv' /\ phase' # "closed" /\ ScpPlaying'
  <1>1. /\ phase = "pull" /\ flux < clock \div 2 /\ ~busy /\ busy' = TRUE /\ acc' = 0
        /\ UNCHANGED <<vars, kind, track, passes>>
    BY DEF Enter
  <1>2. src' = [src EXCEPT !.seen = FALSE] /\ idx' = NoMark
    BY DEF Enter
  <1>3. IInv'
    BY <1>1, StutterInv
  <1>4. /\ nr_index' = nr_index /\ mark' = mark /\ lastMark' = lastMark /\ pulled' = pulled
        /\ phase' = phase /\ flux' = flux /\ clock' = clock /\ now' = now
        /\ ns_to_index' = ns_to_index /\ trueLen' = trueLen
        /\ index_offset_ns' = index_offset_ns /\ track_len_ns' = track_len_ns
        /\ track' = track /\ passes' = passes
    BY <1>1 DEF vars, pllVars, indexVars, callVars, history
  <1>5. ScpLocal(src, acc, idx, passes) /\ acc = 0 /\ idx = NoMark
    BY <1>1 DEF ScpPlaying, ScpCall
  <1>6. /\ src' \in [dat_idx : Nat, index_pos : Nat, jitter : Int, acc_ticks : Int,
                     seen : BOOLEAN]
        /\ src'.dat_idx = src.dat_idx /\ src'.index_pos = src.index_pos
        /\ src'.acc_ticks = src.acc_ticks /\ src'.seen = FALSE
    BY <1>2, <1>5 DEF ScpLocal
  <1>7. ScpLocal(src, acc, idx, passes)'
    BY <1>1, <1>2, <1>4, <1>5, <1>6 DEF ScpLocal
  <1>8. ScpPlaced(src, acc, idx, passes)'
    BY <1>1, <1>2, <1>4, <1>5, <1>6 DEF ScpPlaying, ScpPlaced, ScpCur
  <1>9. ScpCall'
    BY <1>1, <1>2, <1>4, <1>6 DEF ScpCall, NoMark
  <1>10. Steady' <=> Steady
    BY <1>4 DEF Steady
  <1>11. ASSUME Steady PROVE ScpTimed(src, idx, passes)'
    BY <1>2, <1>4, <1>5, <1>6, <1>11
       DEF ScpPlaying, ScpTimed, ScpWithin, ScpLost, ScpSince, ScpCur
  <1>12. ASSUME Steady \/ src.index_pos = 0 PROVE LateInv' /\ ScpTimer'
    <2>1. LateInv'
      BY <1>4, <1>12, SameLate DEF ScpPlaying
    <2>2. ScpTimer'
      BY <1>4, <1>12 DEF ScpPlaying, ScpTimer
    <2> QED BY <2>1, <2>2
  <1>13. track' \in DOMAIN ScpData /\ busy' \in BOOLEAN /\ phase' # "closed"
    BY <1>1, <1>4 DEF ScpPlaying
  <1> QED BY <1>3, <1>6, <1>7, <1>8, <1>9, <1>10, <1>11, <1>12, <1>13 DEF ScpPlaying

(* A reset, or another track: everything starts again. *)
LEMMA ScpRewinds ==
    ASSUME IInv', ResetState, phase' = "start", kind = "scp", busy = FALSE, acc = 0, idx = NoMark,
           NEW t \in DOMAIN ScpData, RewindSource(t)
    PROVE  ScpPlaying'
  <1>1. /\ src' = [dat_idx |-> 0, index_pos |-> 0, jitter |-> 0, acc_ticks |-> 0, seen |-> FALSE]
        /\ passes' = 0 /\ track' = t /\ busy' = busy /\ acc' = 0 /\ idx' = NoMark
    BY DEF RewindSource, Rewound
  <1>2. /\ ns_to_index' = IntMax /\ nr_index' = 0 /\ mark' = NoMark /\ lastMark' = NoMark
        /\ pulled' = 0 /\ now' = 0
    BY DEF ResetState
  <1>3. ScpLocal(src, acc, idx, passes)'
    BY <1>1 DEF ScpLocal
  <1>4. ScpPlaced(src, acc, idx, passes)'
    <2>1. ScpData[t].at[0] = 0
      BY ScpTimes
    <2> QED BY <1>1, <1>2, <2>1 DEF ScpPlaced
  <1>5. ScpTimed(src, idx, passes)'
    <2>1. ScpData[t].total_ticks \in Nat /\ Len(ScpData[t].dat) \in Nat
      BY ScpStored
    <2>2. /\ Rate * (0 * ScpData[t].total_ticks + 0) = 0 /\ DataRpm * 0 = 0
          /\ Trunc * (0 * Len(ScpData[t].dat) + 0) = 0
      BY <2>1, RateNat
    <2>3. ScpLost(src, idx)' = 0
      BY <1>1 DEF ScpLost
    <2>4. ScpWithin(passes, src.acc_ticks, ScpLost(src, idx))'
      BY <1>1, <1>2, <2>2, <2>3 DEF ScpWithin
    <2> QED BY <1>1, <1>2, <2>4 DEF ScpTimed
  <1>6. ScpTimer'
    BY <1>2, StreamAssumption DEF ScpTimer
  <1>7. ScpCall' /\ track' \in DOMAIN ScpData /\ busy' \in BOOLEAN
    BY <1>1 DEF ScpCall
  <1>8. LateInv'
    BY ResetLate
  <1> QED BY <1>3, <1>4, <1>5, <1>6, <1>7, <1>8 DEF ScpPlaying

(* Steps that neither read flux nor end a bit. *)
LEMMA ScpStays ==
    ASSUME ScpPlaying, UNCHANGED srcVars,
           UNCHANGED <<flux, ns_to_index, mark, lastMark, trueLen, now, index_offset_ns,
                       track_len_ns, nr_index, pulled>>,
           ~busy, phase # "pull"
    PROVE  ScpPlaying'
  <1>1. /\ track' = track /\ src' = src /\ busy' = busy /\ acc' = acc /\ idx' = idx
        /\ passes' = passes
    BY DEF srcVars
  <1>2. ScpLocal(src, acc, idx, passes)' /\ ScpCall'
    BY <1>1 DEF ScpPlaying, ScpLocal, ScpCall
  <1>3. ScpPlaced(src, acc, idx, passes)'
    BY <1>1 DEF ScpPlaying, ScpPlaced, ScpCur
  <1>4. Steady' <=> Steady
    BY <1>1 DEF Steady
  <1>5. ASSUME Steady PROVE ScpTimed(src, idx, passes)'
    BY <1>1, <1>5
       DEF ScpPlaying, ScpTimed, ScpWithin, ScpLost, ScpSince, ScpMet, ScpCur
  <1>6. ASSUME Steady \/ src.index_pos = 0 PROVE LateInv' /\ ScpTimer'
    <2>1. LateInv'
      BY <1>6, SameLate DEF ScpPlaying
    <2>2. ScpTimer'
      BY <1>6 DEF ScpPlaying, ScpTimer
    <2> QED BY <2>1, <2>2
  <1> QED BY <1>1, <1>2, <1>3, <1>4, <1>5, <1>6 DEF ScpPlaying

(* A bit lasts more than half a cell, which is more than the PLL ever takes back. *)
LEMMA PllPhaseShrinks ==
    ASSUME NEW err \in Int
    PROVE  PllPhase(err) <= IF err >= 0 THEN err ELSE 0
  <1> DEFINE x == err * (100 - PhasePct)
  <1>1. PhasePct \in 0..100
    BY PllAssumption
  <1>2. x \in Int /\ (err >= 0 => x >= 0 /\ x <= 100 * err) /\ (err < 0 => x <= 0)
    <2>1. x = 100 * err - err * PhasePct /\ err * PhasePct \in Int
      BY <1>1
    <2>2. err * PhasePct \in (IF err >= 0 THEN 0..(100 * err) ELSE (100 * err)..0)
      BY <1>1
    <2> HIDE DEF x
    <2> QED BY <2>1, <2>2
  <1>3. PllPhase(err) = CDiv(x, 100)
    BY DEF PllPhase
  <1> HIDE DEF x
  <1>4. CASE err >= 0
    BY <1>2, <1>3, <1>4 DEF CDiv
  <1>5. CASE err < 0
    BY <1>2, <1>3, <1>5 DEF CDiv
  <1> QED BY <1>4, <1>5

(* The bit's time, and the flux it takes. *)
LEMMA BitLasts ==
    ASSUME IInv, BitDone
    PROVE  /\ latency' - latency \in Int /\ latency' - latency >= clock \div 2
           /\ now' = now + (latency' - latency) /\ now \in Int /\ clock \div 2 \in Nat
  <1> DEFINE err == flux - clock
             lat == latency' - latency
  <1>1. flux \in Int /\ clock \in Nat /\ latency \in Int /\ now \in Int /\ err \in Int
    BY ClockPositive DEF IInv, TypeOK
  <1>2. /\ flux >= clock \div 2 /\ now' = now + lat
        /\ flux' = IF err >= clock \div 2 THEN err ELSE PllPhase(err)
        /\ latency' = latency + clock + (err - flux')
    BY DEF BitDone, Window
  <1>3. PllPhase(err) \in Int /\ PllPhase(err) <= IF err >= 0 THEN err ELSE 0
    BY <1>1, PllPhaseInt, PllPhaseShrinks
  <1>4. flux' \in Int /\ flux' <= IF err >= 0 THEN err ELSE 0
    <2>1. err >= clock \div 2 => err >= 0
      BY <1>1
    <2> QED BY <1>1, <1>2, <1>3, <2>1
  <1>5. lat = flux - flux'
    BY <1>1, <1>2, <1>4
  <1>6. lat >= clock \div 2
    BY <1>1, <1>2, <1>4, <1>5
  <1> QED BY <1>1, <1>2, <1>4, <1>5, <1>6

(* Without a pulse in sight the timer does not expire before INT_MAX ns.              *)
LEMMA TimerRuns ==
    ASSUME IInv, BitDone, IInv', LateInv', NEW L \in Int, ns_to_index + now >= IntMax + L,
           \A c \in Centres : (pulled - L) + ClockMax(c) < IntMax
    PROVE  ns_to_index - (latency' - latency) > 0
  <1> DEFINE lat == latency' - latency
  <1>1. /\ lat \in Int /\ now' = now + lat /\ now \in Int
    BY BitLasts
  <1>2. PICK c \in Centres : flux' >= -HalfMax(c)
    <2>1. flux' \in Int
      BY DEF IInv, TypeOK
    <2>2. Early(flux')
      BY DEF LateInv, FluxFloor, Early, HalfMax, ClockMax
    <2> QED BY <2>1, <2>2, EarlyAbove
  <1>3. /\ now' + flux' = pulled /\ pulled \in Int /\ flux' \in Int /\ now' \in Int
        /\ ns_to_index \in Int /\ IntMax \in Nat
    BY StreamAssumption DEF IInv, TypeOK, FluxConserved, BitDone
  <1>4. HalfMax(c) \in Nat /\ ClockMax(c) \in Nat /\ HalfMax(c) <= ClockMax(c)
    BY ClockMaxNat DEF HalfMax
  <1>5. (pulled - L) + ClockMax(c) < IntMax
    OBVIOUS
  <1> DEFINE m == ClockMax(c)
             h == HalfMax(c)
             f == flux'
             n == now'
  <1>6. /\ h <= m /\ h \in Nat /\ m \in Nat /\ (pulled - L) + m < IntMax /\ f >= -h
        /\ n + f = pulled /\ n \in Int /\ f \in Int /\ n = now + lat
    BY <1>1, <1>2, <1>3, <1>4, <1>5
  <1> HIDE DEF m, h, f, n, lat
  <1>7. n <= pulled + h
    BY <1>3, <1>6
  <1>8. ns_to_index - lat = (ns_to_index + now) - n
    BY <1>1, <1>3, <1>6
  <1>9. ns_to_index - lat > 0
    BY <1>1, <1>3, <1>6, <1>7, <1>8
  <1> QED BY <1>9 DEF lat

(* Until the next pulse is met: no revolution is INT_MAX ns long. *)
LEMMA ScpNotYet ==
    ASSUME IInv, ScpPlaying, UNCHANGED srcVars, BitDone, IInv', LateInv', ~busy,
           Steady \/ src.index_pos = 0, mark = NoMark
    PROVE  ns_to_index - (latency' - latency) > 0
  <1> DEFINE L == IF lastMark = NoMark THEN 0 ELSE lastMark
             D == ScpData[track]
             r == ScpCur(NoMark)
  <1>1. ns_to_index + now >= IntMax + L
    BY DEF ScpPlaying, ScpTimer
  <1>2. pulled \in Int /\ lastMark \in Int /\ L \in Int /\ IntMax \in Nat
    BY StreamAssumption DEF IInv, TypeOK
  <1>3. \A c \in Centres : (pulled - L) + ClockMax(c) < IntMax
    <2> SUFFICES ASSUME NEW c \in Centres PROVE (pulled - L) + ClockMax(c) < IntMax
      OBVIOUS
    <2>1. ClockMax(c) < IntMax /\ ClockMax(c) \in Nat
      BY ClockMaxNat, ScpPace
    <2>2. track \in DOMAIN ScpData /\ acc = 0 /\ idx = NoMark
          /\ ScpLocal(src, acc, idx, passes) /\ ScpPlaced(src, acc, idx, passes)
      BY DEF ScpPlaying, ScpCall
    <2>3. r \in 1..ScpRevs(track)
      BY <2>2, ScpCurIn
    <2>4. D.index_off[r] \in 1..Len(D.dat) /\ ScpFrom(D, r) \in 0..(D.index_off[r] - 1)
          /\ Len(D.dat) \in Nat
      BY <2>2, <2>3, ScpStored
    <2>5. CASE src.index_pos = 0
      <3>1. pulled = 0 /\ lastMark = NoMark
        BY <2>2, <2>4, <2>5 DEF ScpPlaced
      <3> QED BY <1>2, <2>1, <3>1
    <2>6. CASE src.index_pos # 0
      <3>1. Steady /\ ScpSince(src)
        BY <2>2, <2>6 DEF ScpPlaying, ScpTimed
      <3> DEFINE B == ScpBefore(D, r) + ScpReplay(D, r)
      <3>2. L = lastMark /\ DataRpm * (pulled - lastMark) <= Rate * (src.acc_ticks + B)
        BY <3>1 DEF ScpSince
      <3>3. /\ src.acc_ticks + 0 = D.at[src.dat_idx] /\ src.index_pos = D.index_off[r]
            /\ src.dat_idx \in ScpFrom(D, r)..src.index_pos /\ src.acc_ticks \in Int
            /\ src.dat_idx \in Nat
        BY <2>2, <2>6 DEF ScpPlaced, ScpLocal
      <3>4. B \in Int
        BY <2>2, <2>3, ScpBeforeInt
      <3> HIDE DEF B
      <3>5. src.acc_ticks <= D.at[D.index_off[r]] /\ D.at[D.index_off[r]] \in Nat
        <4>1. src.dat_idx \in 0..Len(D.dat) /\ D.index_off[r] \in 0..Len(D.dat)
              /\ src.dat_idx <= D.index_off[r]
          <5> HIDE DEF D, r
          <5> QED BY <2>4, <3>3
        <4>2. D.at[src.dat_idx] <= D.at[D.index_off[r]] /\ D.at[D.index_off[r]] \in Nat
          BY <2>2, <4>1, ScpTimes
        <4> HIDE DEF D, r
        <4> QED BY <3>3, <4>2
      <3>6. Rate * (src.acc_ticks + B) <= Rate * (D.at[D.index_off[r]] + B)
            /\ Rate * (src.acc_ticks + B) \in Int /\ Rate * (D.at[D.index_off[r]] + B) \in Int
        <4> HIDE DEF D, r
        <4> QED BY <3>3, <3>4, <3>5, RateTimes
      <3>7. Rate * (D.at[D.index_off[r]] + B) + DataRpm * ClockMax(c) < DataRpm * IntMax
        BY <2>2, <2>3, <3>1, ScpPace DEF Steady, B
      <3> HIDE DEF D, r
      <3>8. /\ DataRpm * (pulled - L) \in Int /\ DataRpm * ClockMax(c) \in Int
            /\ DataRpm * ((pulled - L) + ClockMax(c))
                  = DataRpm * (pulled - L) + DataRpm * ClockMax(c)
        <4>1. pulled - L \in Int /\ ClockMax(c) \in Int
          BY <1>2, <2>1
        <4> QED BY <4>1, RateNat, Scales
      <3>9. ASSUME IntMax <= (pulled - L) + ClockMax(c) PROVE FALSE
        <4>1. DataRpm * IntMax <= DataRpm * ((pulled - L) + ClockMax(c))
              /\ DataRpm * IntMax \in Int
          BY <1>2, <2>1, <3>9, RateNat, Scales
        <4> QED BY <3>2, <3>6, <3>7, <3>8, <4>1
      <3> QED BY <1>2, <2>1, <3>9
    <2> QED BY <2>5, <2>6
  <1> HIDE DEF L
  <1> QED BY <1>1, <1>2, <1>3, TimerRuns

(* A bit ends: the timer expires if and only if a pulse is in sight. *)
LEMMA ScpBitDone ==
    ASSUME IInv, ScpPlaying, UNCHANGED srcVars, BitDone
    PROVE  IInv' /\ phase' # "closed" /\ ScpPlaying'
  <1> DEFINE lat == latency' - latency
  <1>1. IInv'
    BY BitDoneInv
  <1>2. /\ phase = "pull" /\ phase' = "start" /\ flux >= clock \div 2 /\ IndexTimer(lat)
        /\ pulled' = pulled
    BY DEF BitDone
  <1>3. /\ track' = track /\ src' = src /\ busy' = busy /\ acc' = acc /\ idx' = idx
        /\ passes' = passes
    BY DEF srcVars
  <1>4. ~busy /\ acc = 0 /\ idx = NoMark
    <2>1. flux \in Int /\ clock \in Int
      BY DEF IInv, TypeOK
    <2>2. ~busy
      BY <1>2, <2>1 DEF ScpPlaying, ScpCall
    <2> QED BY <2>2 DEF ScpPlaying, ScpCall
  <1>5. lat \in Int /\ lat >= clock \div 2 /\ now' = now + lat /\ now \in Int
        /\ clock \div 2 \in Nat
    BY BitLasts
  <1>6. ScpLocal(src, acc, idx, passes)' /\ ScpCall'
    BY <1>3, <1>4 DEF ScpPlaying, ScpLocal, ScpCall
  <1>7. Steady' <=> Steady
    BY <1>3 DEF Steady
  <1>8. /\ track \in DOMAIN ScpData /\ busy \in BOOLEAN /\ nr_index \in Nat
        /\ ScpLocal(src, acc, idx, passes) /\ ScpPlaced(src, acc, idx, passes)
    BY DEF ScpPlaying, IInv, TypeOK
  <1>9. src.index_pos = 0 => mark = NoMark
    <2>1. ScpCur(NoMark) \in 1..ScpRevs(track)
      BY <1>8, ScpCurIn
    <2>2. ScpData[track].index_off[ScpCur(NoMark)] # 0
      BY <1>8, <2>1, ScpStored
    <2> QED BY <1>4, <1>8, <2>2 DEF ScpPlaced
  <1> HIDE DEF lat
  (* What one revolution for ever needs; of its time nothing is said. *)
  <1>10. CASE ~Steady /\ src.index_pos # 0
    <2>1. ScpRevs(track) = 1 /\ nr_index' \in Nat
      BY <1>1, <1>10, ScpJitteredAlone DEF IInv, TypeOK
    <2>2. ScpCur(NoMark)' = 1 /\ ScpCur(NoMark) = 1
      <3>1. \A n \in Int : (n % 1) + 1 = 1
        OBVIOUS
      <3>2. ScpCur(NoMark) = 1
        <4>1. (IF mark = NoMark THEN nr_index - 1 ELSE nr_index) \in Int
          BY <1>8
        <4> QED BY <2>1, <3>1, <4>1 DEF ScpCur
      <3>3. ScpCur(NoMark)' = 1
        <4>1. (IF mark' = NoMark THEN nr_index' - 1 ELSE nr_index') \in Int
          BY <2>1
        <4> QED BY <1>3, <2>1, <3>1, <4>1 DEF ScpCur
      <3> QED BY <3>2, <3>3
    <2>3. ScpPlaced(src, acc, idx, passes)'
      BY <1>3, <1>4, <1>8, <1>10, <2>2 DEF ScpPlaced, ScpCur
    <2> QED BY <1>1, <1>2, <1>3, <1>6, <1>7, <1>8, <1>10, <2>3 DEF ScpPlaying
  <1>11. CASE Steady \/ src.index_pos = 0
    <2>1. LateInv /\ ScpTimer
      BY <1>11 DEF ScpPlaying
    <2>2. LateInv'
      BY <2>1, BitDoneLate
    (* The pulse in sight is crossed by this bit. *)
    <2>3. CASE mark # NoMark
      <3>1. ns_to_index < clock \div 2 /\ ns_to_index = mark - now /\ mark \in Int
            /\ ns_to_index \in Int
        BY <2>1, <2>3 DEF ScpTimer, IInv, IndexTimerExact, TypeOK
      <3>2. ~(ns_to_index - lat > 0)
        BY <1>5, <3>1
      <3>3. /\ nr_index' = nr_index + 1 /\ mark' = NoMark /\ lastMark' = mark
            /\ ns_to_index' = IntMax
        BY <1>2, <3>2 DEF IndexTimer
      <3>4. ScpCur(NoMark)' = ScpCur(NoMark) /\ nr_index' # 0
        <4>1. nr_index' - 1 = nr_index /\ nr_index' # 0
          BY <1>8, <3>3
        <4> QED BY <1>3, <2>3, <3>3, <4>1 DEF ScpCur
      <3>5. Steady /\ src.index_pos # 0
        BY <1>9, <1>11, <2>3
      <3>6. ScpPlaced(src, acc, idx, passes)'
        BY <1>3, <1>4, <1>8, <3>4, <3>5 DEF ScpPlaced, ScpCur
      <3>7. ScpTimed(src, idx, passes)'
        <4>1. ScpTimed(src, NoMark, passes) /\ ScpSince(src)
          BY <1>4, <3>5 DEF ScpPlaying, ScpTimed
        <4>2. ScpSince(src)'
          <5>1. ScpCur(NoMark)' = ScpCur(NoMark)
            BY <3>4
          <5> HIDE DEF ScpCur
          <5> QED BY <1>2, <1>3, <2>3, <3>3, <3>4, <4>1, <5>1 DEF ScpSince
        <4> QED BY <1>2, <1>3, <1>4, <4>1, <4>2 DEF ScpTimed, ScpWithin, ScpLost
      <3>8. ScpTimer'
        <4>1. IntMax \in Nat
          BY StreamAssumption
        <4>2. IntMax + now' >= IntMax + mark
          BY <1>5, <3>1, <3>2, <4>1
        <4> QED BY <2>3, <3>3, <4>2 DEF ScpTimer
      <3> QED BY <1>1, <1>2, <1>3, <1>6, <1>7, <1>8, <2>2, <3>6, <3>7, <3>8 DEF ScpPlaying
    <2>4. CASE mark = NoMark
      <3>1. ns_to_index - lat > 0
        BY <1>1, <1>4, <1>11, <2>2, <2>4, ScpNotYet DEF lat
      <3>2. /\ nr_index' = nr_index /\ mark' = mark /\ lastMark' = lastMark
            /\ ns_to_index' = ns_to_index - lat
        BY <1>2, <3>1 DEF IndexTimer
      <3>3. ScpPlaced(src, acc, idx, passes)'
        BY <1>2, <1>3, <1>8, <3>2 DEF ScpPlaced, ScpCur
      <3>4. ASSUME Steady PROVE ScpTimed(src, idx, passes)'
        <4>1. ScpTimed(src, idx, passes)
          BY <3>4 DEF ScpPlaying
        <4> QED BY <1>2, <1>3, <3>2, <4>1
            DEF ScpTimed, ScpWithin, ScpLost, ScpSince, ScpMet, ScpCur
      <3>5. ScpTimer'
        <4>1. ns_to_index' + now' = ns_to_index + now
          <5>1. ns_to_index \in Int
            BY DEF IInv, TypeOK
          <5> QED BY <1>5, <3>2, <5>1
        <4> QED BY <2>1, <2>4, <3>2, <4>1 DEF ScpTimer
      <3> QED BY <1>1, <1>2, <1>3, <1>6, <1>7, <1>8, <2>2, <3>3, <3>4, <3>5 DEF ScpPlaying
    <2> QED BY <2>3, <2>4
  <1> QED BY <1>10, <1>11

(* Any of the resets, from between two bits or from the closed stream. *)
LEMMA ScpRestarts ==
    ASSUME ScpInv, kind = "scp", IInv', ResetState, phase' = "start", phase # "pull",
           NEW t \in DOMAIN ScpData, RewindSource(t)
    PROVE  ScpInv'
  <1>1. busy = FALSE /\ acc = 0 /\ idx = NoMark
    BY DEF ScpInv, ScpPlaying, ScpCall
  <1>2. ScpPlaying'
    BY <1>1, ScpRewinds
  <1> QED BY <1>2 DEF ScpInv

(* The calls and bit steps that do not reach the source. *)
LEMMA ScpElsewhere == ASSUME ScpInv, kind = "scp", Elsewhere PROVE ScpInv'
  <1> USE DEF ScpInv
  <1>1. IInv /\ UNCHANGED srcVars /\ kind' = kind
    BY DEF Elsewhere, srcVars
  <1>2. CASE \/ \E n \in 1..MaxBits : NextBits(n)
             \/ NextIndex
             \/ \E c \in Centres : SetDensity(c)
             \/ BitRefused \/ BitStart \/ Return
    <2>1. IInv'
      BY <1>1, <1>2, CallInv, RunInv DEF Call, Run
    <2>2. /\ phase \in {"idle", "start"} /\ phase' # "closed"
          /\ UNCHANGED <<flux, ns_to_index, mark, lastMark, trueLen, now, index_offset_ns,
                         track_len_ns, nr_index, pulled>>
      <3>1. CASE (\E n \in 1..MaxBits : NextBits(n)) \/ NextIndex
        BY <3>1 DEF NextBits, NextIndex, Begin, pllVars, indexVars, history
      <3>2. CASE \E c \in Centres : SetDensity(c)
        BY <3>2 DEF SetDensity, indexVars, callVars, history
      <3>3. CASE BitRefused
        BY <3>3 DEF BitRefused, Fail, pllVars, indexVars, history
      <3>4. CASE BitStart
        BY <3>4 DEF BitStart, pllVars, history
      <3>5. CASE Return
        BY <3>5 DEF Return, pllVars, indexVars, history
      <3> QED BY <1>2, <3>1, <3>2, <3>3, <3>4, <3>5
    <2>3. ScpPlaying /\ phase # "pull"
      BY <2>2
    <2>4. ~busy
      BY <2>3 DEF ScpPlaying, ScpCall
    <2>5. ScpPlaying'
      BY <1>1, <2>2, <2>3, <2>4, ScpStays
    <2> QED BY <2>1, <2>2, <2>5
  <1>3. CASE BitDone
    <2>1. ScpPlaying
      BY <1>3 DEF BitDone
    <2> QED BY <1>1, <1>3, <2>1, ScpBitDone
  <1> QED BY <1>2, <1>3 DEF Elsewhere

(* Nothing happens, in the middle of a call or outside. *)
LEMMA ScpIdles ==
    ASSUME ScpInv, kind = "scp", phase # "closed", UNCHANGED <<vars, srcVars>>, IInv'
    PROVE  ScpInv'
  <1>1. /\ nr_index' = nr_index /\ mark' = mark /\ lastMark' = lastMark /\ pulled' = pulled
        /\ phase' = phase /\ flux' = flux /\ clock' = clock /\ now' = now
        /\ ns_to_index' = ns_to_index /\ trueLen' = trueLen
        /\ index_offset_ns' = index_offset_ns /\ track_len_ns' = track_len_ns
    BY DEF vars, pllVars, indexVars, callVars, history
  <1>2. /\ track' = track /\ src' = src /\ busy' = busy /\ acc' = acc /\ idx' = idx
        /\ passes' = passes /\ kind' = kind
    BY DEF srcVars
  <1>3. ScpPlaying
    BY DEF ScpInv
  <1>4. ScpLocal(src, acc, idx, passes)' /\ ScpCall'
    BY <1>1, <1>2, <1>3 DEF ScpPlaying, ScpLocal, ScpCall
  <1>5. ScpPlaced(src, acc, idx, passes)'
    BY <1>1, <1>2, <1>3 DEF ScpPlaying, ScpPlaced, ScpCur
  <1>6. Steady' <=> Steady
    BY <1>2 DEF Steady
  <1>7. ASSUME Steady PROVE ScpTimed(src, idx, passes)'
    BY <1>1, <1>2, <1>3, <1>7
       DEF ScpPlaying, ScpTimed, ScpWithin, ScpLost, ScpSince, ScpMet, ScpCur
  <1>8. ASSUME Steady \/ src.index_pos = 0 PROVE LateInv' /\ ScpTimer'
    <2>1. LateInv'
      BY <1>1, <1>3, <1>8, SameLate DEF ScpPlaying
    <2>2. ScpTimer'
      BY <1>1, <1>3, <1>8 DEF ScpPlaying, ScpTimer
    <2> QED BY <2>1, <2>2
  <1>9. ScpPlaying'
    BY <1>2, <1>3, <1>4, <1>5, <1>6, <1>7, <1>8 DEF ScpPlaying
  <1> QED BY <1>1, <1>9 DEF ScpInv

LEMMA ScpNextInv == ScpInv /\ [SrcNext]_allVars => ScpInv'
  <1> SUFFICES ASSUME ScpInv, [SrcNext]_allVars, kind' = "scp" PROVE ScpInv'
    BY DEF ScpInv
  <1>1. kind = "scp"
    BY DEF SrcNext, SrcSelect, SrcSelectFails, SrcReset, SrcLockDone, RewindSource, Elsewhere,
           SourceStep, Enter, ImageCell, KfsBlock, ScpWord, DrBit, Dfe2Byte, In, allVars, srcVars
  <1>2. IInv
    BY <1>1 DEF ScpInv
  <1>3. phase # "closed" => ScpPlaying /\ track \in DOMAIN ScpData
    BY <1>1 DEF ScpInv, ScpPlaying
  <1>4. ASSUME NEW t \in TrackNrs, SrcSelect(t) PROVE ScpInv'
    <2>1. t \in DOMAIN ScpData /\ RewindSource(t)
          /\ SelectTrack(IF track = t THEN 0 ELSE TypeMax("scp", t))
      BY <1>1, <1>4 DEF SrcSelect, TrackData
    <2>2. (IF track = t THEN 0 ELSE TypeMax("scp", t)) \in Nat
      BY <2>1, ScpStored DEF TypeMax
    <2>3. max_revolutions' \in Nat /\ MinRevs <= max_revolutions'
          /\ BeginReset /\ phase \in {"closed", "idle"}
      BY <2>1, <2>2, StreamAssumption DEF SelectTrack
    <2>4. IInv'
      BY <1>2, <2>3, BeginResetInv
    <2> QED BY <1>1, <2>1, <2>3, <2>4, ScpRestarts DEF BeginReset, Begin
  <1>5. ASSUME NEW t \in TrackNrs, SrcSelectFails(t) PROVE ScpInv'
    <2>1. /\ SelectFails /\ track' = NoTrack
          /\ UNCHANGED <<kind, src, busy, acc, idx, passes>>
      BY <1>1, <1>5 DEF SrcSelectFails
    <2>2. IInv' /\ phase' = "closed" /\ phase \in {"closed", "idle"}
      BY <1>2, <2>1, CallInv DEF Call, SelectFails
    <2>3. busy = FALSE /\ acc = 0 /\ idx = NoMark
      BY <1>1, <2>2 DEF ScpInv, ScpPlaying, ScpCall
    <2> QED BY <2>1, <2>2, <2>3 DEF ScpInv
  <1>6. CASE SrcReset
    <2>1. Reset /\ RewindSource(track) /\ phase = "idle" /\ BeginReset
      BY <1>6 DEF SrcReset, Reset
    <2>2. IInv'
      BY <1>2, <2>1, CallInv DEF Call
    <2> QED BY <1>1, <1>3, <2>1, <2>2, ScpRestarts DEF BeginReset, Begin
  <1>7. CASE SrcLockDone
    <2>1. LockDone /\ RewindSource(track) /\ phase = "start" /\ ResetState /\ phase' = "start"
      BY <1>7 DEF SrcLockDone, LockDone, Begin
    <2>2. IInv'
      BY <1>2, <2>1, RunInv DEF Run
    <2> QED BY <1>1, <1>3, <2>1, <2>2, ScpRestarts
  <1>8. CASE Elsewhere
    BY <1>1, <1>8, ScpElsewhere
  <1>9. CASE SourceStep
    <2>1. Enter \/ ScpWord
      BY <1>1, <1>9 DEF SourceStep, ImageCell, KfsBlock, DrBit, Dfe2Byte, In
    <2>2. phase # "closed"
      <3>1. CASE Enter
        BY <3>1 DEF Enter
      <3>2. CASE ScpWord
        BY <1>1, <3>2 DEF ScpWord, In, ScpInv
      <3> QED BY <2>1, <3>1, <3>2
    <2> QED BY <1>1, <1>2, <1>3, <2>1, <2>2, ScpEnters, ScpWordPlays DEF ScpInv
  <1>10. CASE UNCHANGED allVars
    <2>1. UNCHANGED srcVars /\ UNCHANGED vars
      BY <1>10 DEF allVars
    <2>2. IInv'
      BY <1>2, <2>1, StutterInv
    <2>3. CASE phase = "closed"
      BY <1>1, <2>1, <2>2, <2>3 DEF ScpInv, vars, callVars, srcVars
    <2>4. CASE phase # "closed"
      BY <1>1, <2>1, <2>2, <2>4, ScpIdles
    <2> QED BY <2>3, <2>4
  <1> QED BY <1>4, <1>5, <1>6, <1>7, <1>8, <1>9, <1>10 DEF SrcNext

(* The words read follow the pulses counted, in every state of every kind of stream. *)
THEOREM ScpSpecInv == SrcSpec => []ScpInv
  <1>1. SrcInit => ScpInv
    BY InitInv DEF SrcInit, Init, ScpInv
  <1> QED BY <1>1, ScpNextInv, PTL DEF SrcSpec

(* Between two bits an SCP stream reads the revolution whose number the pulses   *)
(* crossed give, whatever the PLL, the cell width and the calls made of it.       *)
THEOREM RevolutionsInStep == SrcSpec => []ScpRevInStep
  <1>1. ScpInv => ScpRevInStep
    <2> DEFINE D == ScpData[track]
               r == ((nr_index - 1) % ScpRevs(track)) + 1
    <2> SUFFICES ASSUME ScpInv, kind = "scp", phase \in {"idle", "start"}, nr_index > 0
                 PROVE  /\ src.index_pos = D.index_off[r]
                        /\ src.dat_idx \in ScpFrom(D, r)..D.index_off[r]
      BY DEF ScpRevInStep
    <2>1. ScpPlaying /\ nr_index \in Nat
      BY DEF ScpInv, IInv, TypeOK
    <2>2. idx = NoMark
      BY <2>1 DEF ScpPlaying, ScpCall
    <2>3. /\ src.index_pos = ScpData[track].index_off[ScpCur(NoMark)]
          /\ src.dat_idx \in ScpFrom(ScpData[track], ScpCur(NoMark))..src.index_pos
      BY <2>1, <2>2 DEF ScpPlaying, ScpPlaced
    <2>4. ScpCur(NoMark) = r
      <3>1. CASE Steady
        <4>1. mark = NoMark
          BY <2>1, <3>1 DEF ScpPlaying, ScpTimer
        <4> QED BY <4>1 DEF ScpCur
      <3>2. CASE ~Steady
        <4>1. ScpRevs(track) = 1
          BY <3>2, ScpJitteredAlone
        <4>2. \A n \in Int : (n % 1) + 1 = 1
          OBVIOUS
        <4>3. (IF mark = NoMark THEN nr_index - 1 ELSE nr_index) \in Int /\ nr_index - 1 \in Int
          BY <2>1
        <4> QED BY <4>1, <4>2, <4>3 DEF ScpCur
      <3> QED BY <3>1, <3>2
    <2> QED BY <2>3, <2>4
  <1> QED BY <1>1, ScpSpecInv, PTL

(* Replaying a dump keeps its time, at any ratio of the drive's speed to the data's: *)
(* what was delivered is what the wraps and the ticks into the dump add up to, less  *)
(* at most what one truncated division loses for each word read (scp_next_flux),    *)
(* unless jitter is added.                                                      *)
THEOREM ScpTimeIsKept == SrcSpec => []ScpTimeKept
  <1>1. ScpInv => ScpTimeKept
    <2> SUFFICES ASSUME ScpInv, kind = "scp", track # NoTrack, ~busy, ~ScpApplyJitter(track)
                 PROVE  ScpAccounted(passes, src.acc_ticks)
      BY DEF ScpTimeKept
    <2>1. ScpPlaying
      BY DEF ScpInv
    <2>2. /\ track \in DOMAIN ScpData /\ pulled \in Nat /\ src.dat_idx \in Nat
          /\ passes \in Nat /\ src.acc_ticks \in Int
          /\ ScpWithin(passes, src.acc_ticks, src.dat_idx)
      BY <2>1 DEF ScpPlaying, ScpCall, ScpLocal, ScpTimed, ScpLost, Steady
    <2> DEFINE T == ScpData[track].total_ticks
               N == Len(ScpData[track].dat)
    <2>3. T \in Nat /\ N \in Nat
      BY <2>2, ScpStored
    <2>4. /\ Rate * (passes * T + src.acc_ticks) \in Int /\ DataRpm * pulled \in Int
          /\ Trunc * (passes * N + src.dat_idx) \in Int
      <3>1. passes * T \in Int /\ passes * N \in Int
        BY <2>2, <2>3
      <3>2. passes * T + src.acc_ticks \in Int /\ passes * N + src.dat_idx \in Int
        BY <2>2, <3>1
      <3> HIDE DEF T, N
      <3> QED BY <2>2, <3>2, RateNat, Scales
    <2> QED BY <2>2, <2>4 DEF ScpAccounted, ScpWithin
  <1> QED BY <1>1, ScpSpecInv, PTL
-----------------------------------------------------------------------------
(* The invariant of a stream that plays an image: where the pulse last met lies. s, *)
(* a and i stand for src, acc and idx.                                         *)
ImgBase(i) == IF i # NoMark THEN pulled + i ELSE IF mark # NoMark THEN mark ELSE lastMark

ImgSpan(m) == \E read \in ImageReads[track] : m = ReadNs(read)

ImgPlaced(s, a, i) ==
    /\ s.read \in ImageReads[track] /\ s.pos \in 0..(Len(s.read.bits) - 1)
    /\ s = [read |-> s.read, pos |-> s.pos]
    /\ a \in Nat /\ (i = NoMark \/ i \in 0..a) /\ pulled \in Nat
    /\ IF ImgBase(i) = NoMark THEN pulled + a = s.read.at[s.pos + 1] - s.read.at[1]
                              ELSE (pulled + a) - ImgBase(i) = s.read.at[s.pos + 1]
    /\ i # NoMark => mark = NoMark /\ (lastMark # NoMark => ImgSpan((pulled + i) - lastMark))

(* Each pulse counted was met, a revolution after the one before. *)
ImgCounted ==
    /\ mark \in Nat \cup {NoMark} /\ lastMark \in Nat \cup {NoMark}
    /\ mark # NoMark /\ lastMark # NoMark => ImgSpan(mark - lastMark)
    /\ mark = NoMark => ns_to_index + now >= IntMax + IF lastMark = NoMark THEN 0 ELSE lastMark
    /\ nr_index > 0 => lastMark # NoMark
    /\ nr_index > 1 => trueLen # NoMark
    /\ trueLen # NoMark => ImgSpan(trueLen)

ImgCall ==
    IF busy THEN phase = "pull" /\ flux < clock \div 2 /\ (acc = 0 \/ acc < GapLimit)
            ELSE acc = 0 /\ idx = NoMark

ImgPlaying ==
    /\ track \in DOMAIN ImageReads /\ busy \in BOOLEAN /\ LateInv
    /\ ImgPlaced(src, acc, idx) /\ ImgCounted /\ ImgCall

ImgInv ==
    kind = "image" =>
        /\ IInv
        /\ IF phase = "closed" THEN track = NoTrack /\ busy = FALSE /\ acc = 0 /\ idx = NoMark
                               ELSE ImgPlaying

(* The read in hand: its cells, and how long it lasts. *)
LEMMA ImgRead ==
    ASSUME NEW t \in DOMAIN ImageReads, NEW read \in ImageReads[t]
    PROVE  /\ Len(read.bits) \in Nat \ {0} /\ ReadNs(read) \in Nat /\ GapLimit \in Nat
           /\ ReadNs(read) = read.at[Len(read.bits)] /\ read.at[0] = 0
           /\ \A k \in 1..Len(read.bits) :
                /\ read.at[k] = read.at[k - 1] + CellNs(read, k) /\ CellNs(read, k) \in Nat
                /\ read.at[k] \in Nat /\ read.at[k] <= ReadNs(read)
           /\ \A c \in Centres : /\ ReadNs(read) > ClockMax(c) + GapLimit
                                /\ ReadNs(read) + ClockMax(c) < IntMax
  <1> DEFINE n == Len(read.bits)
  <1>1. /\ n \in Nat \ {0} /\ read.speed \in [1..n -> Nat] /\ read.at \in [0..n -> Nat]
        /\ read.at[0] = 0 /\ GapLimit \in Nat /\ TrackNs \in Nat /\ SpeedAvg \in Nat \ {0}
        /\ \A k \in 1..n : read.at[k] = read.at[k - 1] + CellNs(read, k)
    <2>1. /\ read.bits \in Seq({0, 1}) /\ n > 0 /\ read.speed \in [1..n -> Nat]
          /\ read.at \in [0..n -> Nat] /\ read.at[0] = 0
          /\ \A k \in 1..n : read.at[k] = read.at[k - 1] + CellNs(read, k)
      BY ImageLayout
    <2>2. n \in Nat
      BY <2>1
    <2> HIDE DEF n
    <2> QED BY <2>1, <2>2, ImageLayout
  <1>2. ASSUME NEW k \in 1..n PROVE CellNs(read, k) \in Nat
    <2> DEFINE even == TrackNs \div n
               speed == read.speed[k]
               x == even * speed
    <2>1. speed \in Nat
      <3> HIDE DEF n
      <3> QED BY <1>1
    <2>2. even \in Nat
      <3> HIDE DEF n
      <3>1. n \in Nat \ {0} /\ TrackNs \in Nat
        BY <1>1
      <3> QED BY <3>1
    <2>3. x \in Nat
      <3> HIDE DEF even, speed
      <3> QED BY <2>1, <2>2
    <2>4. CellNs(read, k) = x \div SpeedAvg
      BY DEF CellNs
    <2> HIDE DEF x
    <2>5. SpeedAvg \in Nat \ {0}
      BY <1>1
    <2>6. x \div SpeedAvg \in Nat
      BY <2>3, <2>5
    <2> QED BY <2>4, <2>6
  <1>3. \A k \in 1..n : read.at[k - 1] <= read.at[k]
    <2> TAKE k \in 1..n
    <2>1. k - 1 \in 0..n
      <3> HIDE DEF n
      <3> QED BY <1>1
    <2>2. read.at[k - 1] \in Nat
      BY <1>1, <2>1
    <2> QED BY <1>1, <1>2, <2>2
  <1> HIDE DEF n
  <1>4. \A k \in 1..n : read.at[k] \in Nat /\ read.at[k] <= read.at[n]
    <2> TAKE k \in 1..n
    <2>1. k \in 0..n /\ n \in 0..n /\ k <= n
      BY <1>1
    <2>2. \A i \in 0..n : read.at[i] \in Int
      BY <1>1
    <2> QED BY <1>1, <1>3, <2>1, <2>2, NeverFalls
  <1>5. n \in 0..n
    BY <1>1
  <1> QED BY <1>1, <1>2, <1>4, <1>5, ImagePace DEF ReadNs, n

(* When the image wraps, the pulse before has been crossed: a turn is longer than what *)
(* the PLL may be early and one call may gather.                                  *)
LEMMA ImgCrossed ==
    ASSUME IInv, ImgPlaying, busy, src.pos + 1 >= Len(src.read.bits)
    PROVE  mark = NoMark /\ idx = NoMark
  <1>1. /\ track \in DOMAIN ImageReads /\ src.read \in ImageReads[track]
        /\ src.pos \in 0..(Len(src.read.bits) - 1) /\ acc \in Nat /\ pulled \in Nat
    BY DEF ImgPlaying, ImgPlaced, ImgCall
  <1> DEFINE n == ReadNs(src.read)
  <1>2. n \in Nat /\ src.pos + 1 = Len(src.read.bits) /\ n = src.read.at[src.pos + 1]
    <2>1. Len(src.read.bits) \in Nat \ {0} /\ n \in Nat /\ n = src.read.at[Len(src.read.bits)]
      BY <1>1, ImgRead
    <2>2. src.pos + 1 = Len(src.read.bits)
      BY <1>1, <2>1
    <2> QED BY <2>1, <2>2
  <1>3. GapLimit \in Nat
    BY ImageLayout
  <1>4. \A c \in Centres : n > ClockMax(c) + GapLimit /\ ClockMax(c) \in Nat
    BY <1>1, ImgRead, ClockMaxNat
  <1>5. acc <= GapLimit /\ flux < clock \div 2 /\ LateInv
    BY <1>1, <1>3 DEF ImgPlaying, ImgCall
  <1>6. ImgBase(idx) # NoMark => (pulled + acc) - ImgBase(idx) = n
    BY <1>2 DEF ImgPlaying, ImgPlaced
  <1> HIDE DEF n
  <1>7. ASSUME idx # NoMark PROVE FALSE
    <2>1. idx \in 0..acc
      BY <1>7 DEF ImgPlaying, ImgPlaced
    <2>2. ImgBase(idx) = pulled + idx /\ pulled + idx # NoMark
      BY <1>1, <1>7, <2>1 DEF ImgBase, NoMark
    <2>3. acc - idx = n
      BY <1>1, <1>2, <1>6, <2>1, <2>2
    <2>4. InitCentre \in Centres
      BY PllAssumption
    <2>5. n > ClockMax(InitCentre) + GapLimit /\ ClockMax(InitCentre) \in Nat
      BY <1>4, <2>4
    <2> QED BY <1>1, <1>2, <1>3, <1>5, <2>1, <2>3, <2>5
  <1>8. ASSUME mark # NoMark PROVE FALSE
    <2>1. PICK e \in Centres : pulled - mark <= ClockMax(e)
      BY <1>5, <1>8, SightRecent
    <2>2. ImgBase(idx) = mark /\ mark \in Nat
      BY <1>7, <1>8 DEF ImgBase, ImgPlaying, ImgCounted
    <2>3. (pulled + acc) - mark = n
      BY <1>6, <1>8, <2>2
    <2>4. n > ClockMax(e) + GapLimit /\ ClockMax(e) \in Nat
      BY <1>4
    <2> QED BY <1>1, <1>2, <1>3, <1>5, <2>1, <2>2, <2>3, <2>4
  <1> QED BY <1>7, <1>8

(* A cell is read, before it is told what becomes of it.                              *)
LEMMA ImgGathers ==
    ASSUME IInv, ImgPlaying, busy, ImageCell
    PROVE  \E a \in Nat, i \in Int :
              /\ ImgPlaced(src', a, i)
              /\ (Continue(a, i) /\ a < GapLimit) \/ Deliver(a, i)
              /\ UNCHANGED <<kind, track>>
  <1> DEFINE wraps == src.pos + 1 >= Len(src.read.bits)
             i == IF src'.pos = 0 THEN acc ELSE idx
             a == acc + CellNs(src'.read, src'.pos + 1)
  <1>1. /\ IF wraps THEN src' \in Rewound("image", track)
                    ELSE src' = [src EXCEPT !.pos = @ + 1]
        /\ (Continue(a, i) /\ a < GapLimit) \/ Deliver(a, i)
        /\ UNCHANGED <<kind, track>>
    BY DEF ImageCell, In
  <1>2. /\ track \in DOMAIN ImageReads /\ src.read \in ImageReads[track]
        /\ src.pos \in 0..(Len(src.read.bits) - 1) /\ acc \in Nat /\ pulled \in Nat
        /\ src = [read |-> src.read, pos |-> src.pos]
        /\ idx = NoMark \/ idx \in 0..acc
        /\ lastMark \in Nat \cup {NoMark} /\ mark \in Nat \cup {NoMark}
        /\ IF ImgBase(idx) = NoMark
           THEN pulled + acc = src.read.at[src.pos + 1] - src.read.at[1]
           ELSE (pulled + acc) - ImgBase(idx) = src.read.at[src.pos + 1]
        /\ idx # NoMark => mark = NoMark
                           /\ (lastMark # NoMark => ImgSpan((pulled + idx) - lastMark))
    BY DEF ImgPlaying, ImgPlaced, ImgCounted
  <1>3. Len(src.read.bits) \in Nat \ {0}
    BY <1>2, ImgRead
  <1>5. CASE wraps
    <2>1. mark = NoMark /\ idx = NoMark
      BY <1>5, ImgCrossed
    <2>2. PICK b \in ImageReads[track] : src' = [read |-> b, pos |-> 0]
      BY <1>1, <1>5 DEF Rewound
    <2>3. i = acc /\ acc # NoMark /\ i \in Int
      BY <1>2, <2>2 DEF NoMark
    <2>4. /\ Len(b.bits) \in Nat \ {0} /\ b.at[0] = 0
          /\ b.at[1] = b.at[1 - 1] + CellNs(b, 1) /\ CellNs(b, 1) \in Nat
      <3>1. Len(b.bits) \in Nat \ {0}
        BY <1>2, ImgRead
      <3>2. 1 \in 1..Len(b.bits)
        BY <3>1
      <3> QED BY <1>2, <3>1, <3>2, ImgRead
    <2>5. a = acc + CellNs(b, 1) /\ a \in Nat /\ b.at[0 + 1] = CellNs(b, 1)
      <3>1. src'.read = b /\ src'.pos + 1 = 1
        BY <2>2
      <3>2. a = acc + CellNs(b, 1)
        BY <3>1
      <3> HIDE DEF a
      <3> QED BY <1>2, <2>4, <3>2
    <2>6. ASSUME lastMark # NoMark PROVE ImgSpan((pulled + acc) - lastMark)
      <3>1. (pulled + acc) - lastMark = src.read.at[src.pos + 1]
        BY <1>2, <2>1, <2>6 DEF ImgBase
      <3>2. src.pos + 1 = Len(src.read.bits)
        BY <1>2, <1>3, <1>5
      <3> QED BY <1>2, <3>1, <3>2 DEF ImgSpan, ReadNs
    <2> HIDE DEF a, i
    <2>7. (pulled + a) - (pulled + acc) = b.at[0 + 1]
      BY <1>2, <2>4, <2>5
    <2>8. ImgBase(acc) = pulled + acc /\ pulled + acc # NoMark
      BY <1>2, <2>3 DEF ImgBase, NoMark
    <2>9. ImgPlaced(src', a, acc)
      <3>1. src'.read = b /\ src'.pos = 0 /\ 0 \in 0..(Len(b.bits) - 1) /\ acc \in 0..a
        BY <1>2, <2>2, <2>4, <2>5
      <3> QED BY <1>2, <2>1, <2>2, <2>5, <2>6, <2>7, <2>8, <3>1 DEF ImgPlaced
    <2> QED BY <1>1, <2>3, <2>5, <2>9
  <1>6. CASE ~wraps
    <2>1. src' = [read |-> src.read, pos |-> src.pos + 1]
      BY <1>1, <1>2, <1>6
    <2>2. i = idx /\ i \in Int
      BY <1>2, <2>1 DEF NoMark
    <2>3. src'.read = src.read /\ src'.pos = src.pos + 1
          /\ src.pos + 1 \in 0..(Len(src.read.bits) - 1)
      BY <1>2, <1>3, <1>6, <2>1
    <2> DEFINE k == (src.pos + 1) + 1
               w == CellNs(src.read, k)
    <2>4. /\ k \in 1..Len(src.read.bits) /\ src.pos + 1 \in 1..Len(src.read.bits)
          /\ k - 1 = src.pos + 1 /\ 1 \in 1..Len(src.read.bits)
      BY <1>2, <1>3, <2>3
    <2>5. /\ src.read.at[k] = src.read.at[src.pos + 1] + w /\ w \in Nat
          /\ src.read.at[src.pos + 1] \in Nat /\ src.read.at[k] \in Nat /\ src.read.at[1] \in Nat
      <3> HIDE DEF k
      <3> QED BY <1>2, <2>4, ImgRead
    <2>6. a = acc + w /\ a \in Nat
      <3>1. a = acc + w
        BY <2>3
      <3> HIDE DEF a, w
      <3> QED BY <1>2, <2>5, <3>1
    <2> HIDE DEF w, a, i
    <2>7. idx = NoMark \/ idx \in 0..a
      BY <1>2, <2>5, <2>6
    <2>8. IF ImgBase(idx) = NoMark THEN pulled + a = src.read.at[k] - src.read.at[1]
                                   ELSE (pulled + a) - ImgBase(idx) = src.read.at[k]
      <3> DEFINE x == src.read.at[1]
                 y == src.read.at[src.pos + 1]
                 z == src.read.at[k]
                 B == ImgBase(idx)
      <3>1. x \in Nat /\ y \in Nat /\ z = y + w
        BY <2>5
      <3>2. B \in Int
        BY <1>2 DEF ImgBase, NoMark
      <3>3. IF B = NoMark THEN pulled + acc = y - x ELSE (pulled + acc) - B = y
        BY <1>2
      <3> HIDE DEF x, y, z, B
      <3>4. pulled \in Nat /\ acc \in Nat /\ w \in Nat /\ a = acc + w
        BY <1>2, <2>5, <2>6
      <3>5. IF B = NoMark THEN pulled + a = z - x ELSE (pulled + a) - B = z
        BY <3>1, <3>2, <3>3, <3>4
      <3> QED BY <3>5 DEF x, y, z, B
    <2>9. ImgPlaced(src', a, idx)
      BY <1>2, <2>1, <2>3, <2>6, <2>7, <2>8 DEF ImgPlaced
    <2> QED BY <1>1, <2>2, <2>6, <2>9
  <1> QED BY <1>5, <1>6

LEMMA ImgCellPlays ==
    ASSUME IInv, ImgPlaying, busy, ImageCell
    PROVE  IInv' /\ phase' # "closed" /\ ImgPlaying'
  <1>1. PICK a \in Nat, i \in Int :
              /\ ImgPlaced(src', a, i)
              /\ (Continue(a, i) /\ a < GapLimit) \/ Deliver(a, i)
              /\ UNCHANGED <<kind, track>>
    BY ImgGathers
  <1>2. /\ phase = "pull" /\ flux < clock \div 2 /\ LateInv /\ ImgCounted
        /\ track \in DOMAIN ImageReads
        /\ mark \in Nat \cup {NoMark} /\ lastMark \in Nat \cup {NoMark}
    BY DEF ImgPlaying, ImgCall, ImgCounted
  <1>3. CASE Continue(a, i) /\ a < GapLimit
    <2>1. acc' = a /\ idx' = i /\ UNCHANGED vars /\ busy' = busy /\ track' = track
      BY <1>1, <1>3 DEF Continue
    <2>2. /\ nr_index' = nr_index /\ mark' = mark /\ lastMark' = lastMark /\ pulled' = pulled
          /\ phase' = phase /\ flux' = flux /\ clock' = clock /\ now' = now
          /\ ns_to_index' = ns_to_index /\ trueLen' = trueLen
          /\ index_offset_ns' = index_offset_ns /\ track_len_ns' = track_len_ns
      BY <2>1 DEF vars, pllVars, indexVars, callVars, history
    <2>3. IInv' /\ LateInv'
      BY <1>2, <2>1, <2>2, StutterInv, SameLate
    <2>4. ImgPlaced(src, acc, idx)'
      BY <1>1, <2>1, <2>2 DEF ImgPlaced, ImgBase, ImgSpan
    <2>5. ImgCounted'
      BY <1>2, <2>1, <2>2 DEF ImgCounted, ImgSpan
    <2>6. ImgCall'
      BY <1>2, <1>3, <2>1, <2>2 DEF ImgCall
    <2> QED BY <1>2, <2>1, <2>2, <2>3, <2>4, <2>5, <2>6 DEF ImgPlaying
  <1>4. CASE Deliver(a, i)
    <2>1. Pull(a, i) /\ busy' = FALSE /\ acc' = 0 /\ idx' = NoMark /\ track' = track
      BY <1>1, <1>4 DEF Deliver, Leave
    <2>2. i >= 0 \/ i = NoMark
      BY <1>1 DEF ImgPlaced
    <2>3. IInv' /\ LateInv'
      BY <1>2, <2>1, <2>2, PullInv, PullLate
    <2>4. /\ phase' = phase /\ pulled' = pulled + a /\ now' = now /\ lastMark' = lastMark
          /\ nr_index' = nr_index /\ trueLen' = trueLen /\ Sight(i)
      BY <2>1 DEF Pull, callVars
    <2>5. /\ pulled \in Nat /\ src'.read \in ImageReads[track]
          /\ src'.pos \in 0..(Len(src'.read.bits) - 1)
          /\ src' = [read |-> src'.read, pos |-> src'.pos]
          /\ IF ImgBase(i) = NoMark
             THEN pulled + a = src'.read.at[src'.pos + 1] - src'.read.at[1]
             ELSE (pulled + a) - ImgBase(i) = src'.read.at[src'.pos + 1]
          /\ i # NoMark => mark = NoMark /\ (lastMark # NoMark => ImgSpan((pulled + i) - lastMark))
      BY <1>1 DEF ImgPlaced
    <2>6. /\ mark' = IF i = NoMark THEN mark ELSE pulled + i
          /\ i # NoMark => pulled + i \in Nat /\ pulled + i # NoMark
          /\ i = NoMark => ns_to_index' = ns_to_index
      BY <2>2, <2>4, <2>5 DEF Sight, NoMark
    <2>7. ImgBase(NoMark)' = ImgBase(i)
      BY <2>4, <2>6 DEF ImgBase
    <2>8. ImgPlaced(src, acc, idx)'
      <3>1. pulled' \in Nat /\ pulled' + 0 = pulled + a
        BY <2>4, <2>5
      <3>2. ImgBase(idx)' = ImgBase(i)
        BY <2>1, <2>7 DEF ImgBase
      <3> QED BY <2>1, <2>5, <3>1, <3>2 DEF ImgPlaced
    <2>9. ImgCounted'
      <3>1. CASE i = NoMark
        BY <1>2, <2>1, <2>4, <2>6, <3>1 DEF ImgCounted, ImgSpan
      <3>2. CASE i # NoMark
        BY <1>2, <2>1, <2>4, <2>5, <2>6, <3>2 DEF ImgCounted, ImgSpan
      <3> QED BY <3>1, <3>2
    <2>10. ImgCall'
      BY <2>1 DEF ImgCall
    <2> QED BY <1>2, <2>1, <2>3, <2>4, <2>8, <2>9, <2>10 DEF ImgPlaying
  <1> QED BY <1>1, <1>3, <1>4

LEMMA ImgEnters ==
    ASSUME IInv, ImgPlaying, phase # "closed", kind = "image", Enter
    PROVE  IInv' /\ phase' # "closed" /\ ImgPlaying'
  <1>1. /\ phase = "pull" /\ flux < clock \div 2 /\ ~busy /\ busy' = TRUE /\ acc' = 0
        /\ UNCHANGED <<vars, kind, track, passes>> /\ src' = src /\ idx' = NoMark
    BY DEF Enter
  <1>2. /\ nr_index' = nr_index /\ mark' = mark /\ lastMark' = lastMark /\ pulled' = pulled
        /\ phase' = phase /\ flux' = flux /\ clock' = clock /\ now' = now
        /\ ns_to_index' = ns_to_index /\ trueLen' = trueLen
        /\ index_offset_ns' = index_offset_ns /\ track_len_ns' = track_len_ns
        /\ track' = track
    BY <1>1 DEF vars, pllVars, indexVars, callVars, history
  <1>3. acc = 0 /\ idx = NoMark
    BY <1>1 DEF ImgPlaying, ImgCall
  <1>4. IInv' /\ LateInv'
    BY <1>1, <1>2, StutterInv, SameLate DEF ImgPlaying
  <1>5. ImgPlaced(src, acc, idx)'
    BY <1>1, <1>2, <1>3 DEF ImgPlaying, ImgPlaced, ImgBase, ImgSpan
  <1>6. ImgCounted'
    BY <1>2 DEF ImgPlaying, ImgCounted, ImgSpan
  <1>7. ImgCall'
    BY <1>1, <1>2 DEF ImgCall
  <1> QED BY <1>1, <1>2, <1>4, <1>5, <1>6, <1>7 DEF ImgPlaying

(* A reset, or another track: the image plays from its first cell.              *)
LEMMA ImgRewinds ==
    ASSUME ResetState, kind = "image", busy = FALSE, acc = 0, idx = NoMark,
           NEW t \in DOMAIN ImageReads, RewindSource(t)
    PROVE  ImgPlaying'
  <1>1. /\ src' \in Rewound("image", t)
        /\ track' = t /\ busy' = FALSE /\ acc' = 0 /\ idx' = NoMark
    BY DEF RewindSource
  <1>2. PICK b \in ImageReads[t] : src' = [read |-> b, pos |-> 0]
    BY <1>1 DEF Rewound
  <1>3. /\ ns_to_index' = IntMax /\ nr_index' = 0 /\ mark' = NoMark /\ lastMark' = NoMark
        /\ pulled' = 0 /\ now' = 0 /\ trueLen' = NoMark
    BY DEF ResetState
  <1>4. LateInv' /\ IntMax \in Nat
    BY ResetLate, StreamAssumption
  <1>5. ImgPlaced(src, acc, idx)'
    <2>1. Len(b.bits) \in Nat \ {0} /\ b.at[0 + 1] - b.at[1] = 0
      <3>1. Len(b.bits) \in Nat \ {0}
        BY ImgRead
      <3>2. 1 \in 1..Len(b.bits)
        BY <3>1
      <3>3. b.at[1] \in Nat
        BY <3>2, ImgRead
      <3> QED BY <3>1, <3>3
    <2>2. ImgBase(NoMark)' = NoMark
      BY <1>3 DEF ImgBase
    <2>3. 0 \in 0..(Len(b.bits) - 1)
      BY <2>1
    <2>4. ImgBase(idx)' = NoMark
      BY <1>1, <2>2 DEF ImgBase
    <2> QED BY <1>1, <1>2, <1>3, <2>1, <2>3, <2>4 DEF ImgPlaced
  <1>6. ImgCounted'
    BY <1>3, <1>4 DEF ImgCounted, NoMark
  <1>7. ImgCall'
    BY <1>1 DEF ImgCall
  <1> QED BY <1>1, <1>4, <1>5, <1>6, <1>7 DEF ImgPlaying

(* Steps that neither read flux nor end a bit. *)
LEMMA ImgStays ==
    ASSUME ImgPlaying, UNCHANGED srcVars,
           UNCHANGED <<flux, ns_to_index, mark, lastMark, trueLen, now, index_offset_ns,
                       track_len_ns, nr_index, pulled>>,
           busy => UNCHANGED <<phase, clock>>
    PROVE  ImgPlaying'
  <1>1. track' = track /\ src' = src /\ busy' = busy /\ acc' = acc /\ idx' = idx
    BY DEF srcVars
  <1>2. LateInv'
    BY SameLate DEF ImgPlaying
  <1>3. ImgPlaced(src, acc, idx)'
    BY <1>1 DEF ImgPlaying, ImgPlaced, ImgBase, ImgSpan
  <1>4. ImgCounted'
    BY <1>1 DEF ImgPlaying, ImgCounted, ImgSpan
  <1>5. ImgCall'
    BY <1>1 DEF ImgPlaying, ImgCall
  <1> QED BY <1>1, <1>2, <1>3, <1>4, <1>5 DEF ImgPlaying

(* A bit ends: the timer does not expire but for a pulse.                         *)
LEMMA ImgBitDone ==
    ASSUME IInv, ImgPlaying, UNCHANGED srcVars, BitDone
    PROVE  IInv' /\ phase' # "closed" /\ ImgPlaying'
  <1> DEFINE lat == latency' - latency
  <1>1. IInv' /\ LateInv'
    BY BitDoneInv, BitDoneLate DEF ImgPlaying
  <1>2. /\ phase' = "start" /\ flux >= clock \div 2 /\ IndexTimer(lat) /\ pulled' = pulled
    BY DEF BitDone
  <1>3. track' = track /\ src' = src /\ busy' = busy /\ acc' = acc /\ idx' = idx
    BY DEF srcVars
  <1>4. ~busy /\ acc = 0 /\ idx = NoMark /\ busy \in BOOLEAN
    <2>1. flux \in Int /\ clock \in Int
      BY DEF IInv, TypeOK
    <2>2. ~busy /\ busy \in BOOLEAN
      BY <1>2, <2>1 DEF ImgPlaying, ImgCall
    <2> QED BY <2>2 DEF ImgPlaying, ImgCall
  <1>5. lat \in Int /\ now' = now + lat /\ now \in Int /\ ns_to_index \in Int /\ IntMax \in Nat
    BY BitLasts, StreamAssumption DEF IInv, TypeOK
  <1>6. /\ track \in DOMAIN ImageReads /\ ImgPlaced(src, 0, NoMark) /\ ImgCounted
        /\ mark \in Nat \cup {NoMark} /\ lastMark \in Nat \cup {NoMark} /\ nr_index \in Nat
    BY <1>4 DEF ImgPlaying, ImgCounted, IInv, TypeOK
  <1>7. ImgCall'
    BY <1>3, <1>4 DEF ImgCall
  <1>8. ASSUME mark = NoMark PROVE ns_to_index - lat > 0
    <2> DEFINE L == IF lastMark = NoMark THEN 0 ELSE lastMark
               n == ReadNs(src.read)
    <2>1. /\ src.read \in ImageReads[track] /\ src.pos \in 0..(Len(src.read.bits) - 1)
          /\ pulled \in Nat
          /\ IF lastMark = NoMark THEN pulled + 0 = src.read.at[src.pos + 1] - src.read.at[1]
                                  ELSE (pulled + 0) - lastMark = src.read.at[src.pos + 1]
      BY <1>6, <1>8 DEF ImgPlaced, ImgBase
    <2>2. /\ n \in Nat /\ src.read.at[1] \in Nat
          /\ src.read.at[src.pos + 1] \in Nat /\ src.read.at[src.pos + 1] <= n
      <3>1. Len(src.read.bits) \in Nat \ {0}
        BY <1>6, <2>1, ImgRead
      <3>2. 1 \in 1..Len(src.read.bits) /\ src.pos + 1 \in 1..Len(src.read.bits)
        BY <2>1, <3>1
      <3> QED BY <1>6, <2>1, <3>2, ImgRead
    <2>3. L \in Int /\ pulled - L <= n
      <3> DEFINE x == src.read.at[1]
                 y == src.read.at[src.pos + 1]
      <3>1. /\ x \in Nat /\ y \in Nat /\ y <= n
            /\ IF lastMark = NoMark THEN pulled + 0 = y - x ELSE (pulled + 0) - lastMark = y
        BY <2>1, <2>2
      <3> HIDE DEF x, y, n
      <3> QED BY <1>6, <2>1, <2>2, <3>1 DEF NoMark
    <2>4. \A c \in Centres : (pulled - L) + ClockMax(c) < IntMax
      <3> TAKE c \in Centres
      <3>1. n + ClockMax(c) < IntMax /\ ClockMax(c) \in Nat
        BY <1>6, <2>1, ImgRead, ClockMaxNat
      <3> HIDE DEF L, n
      <3> QED BY <1>5, <2>1, <2>2, <2>3, <3>1
    <2>5. ns_to_index + now >= IntMax + L
      BY <1>6, <1>8 DEF ImgCounted
    <2> HIDE DEF L
    <2> QED BY <1>1, <2>3, <2>4, <2>5, TimerRuns
  <1> HIDE DEF lat
  <1>9. CASE ns_to_index - lat > 0
    <2>1. /\ nr_index' = nr_index /\ mark' = mark /\ lastMark' = lastMark
          /\ trueLen' = trueLen /\ ns_to_index' = ns_to_index - lat
      BY <1>2, <1>9 DEF IndexTimer
    <2>2. ImgPlaced(src, acc, idx)'
      BY <1>2, <1>3, <1>4, <1>6, <2>1 DEF ImgPlaced, ImgBase, ImgSpan
    <2>3. ns_to_index' + now' = ns_to_index + now
      BY <1>5, <2>1
    <2>4. ImgCounted'
      BY <1>3, <1>6, <2>1, <2>3 DEF ImgCounted, ImgSpan
    <2> QED BY <1>1, <1>2, <1>3, <1>4, <1>6, <1>7, <2>2, <2>4 DEF ImgPlaying
  <1>10. CASE ~(ns_to_index - lat > 0)
    <2>1. mark # NoMark /\ mark \in Nat
      BY <1>6, <1>8, <1>10
    <2>2. /\ nr_index' = nr_index + 1 /\ mark' = NoMark /\ lastMark' = mark
          /\ ns_to_index' = IntMax
          /\ trueLen' = IF NoMark \in {mark, lastMark} THEN NoMark ELSE mark - lastMark
      BY <1>2, <1>10 DEF IndexTimer
    <2>3. IntMax + now' >= IntMax + mark
      <3>1. ns_to_index = mark - now
        BY <2>1 DEF IInv, IndexTimerExact
      <3> QED BY <1>5, <1>10, <2>1, <3>1
    <2>4. ImgPlaced(src, acc, idx)'
      <3>1. ImgBase(NoMark) = mark /\ ImgBase(NoMark)' = mark
        BY <2>1, <2>2 DEF ImgBase
      <3>2. ImgBase(idx)' = mark
        BY <1>3, <1>4, <3>1 DEF ImgBase
      <3> QED BY <1>2, <1>3, <1>4, <1>6, <3>1, <3>2 DEF ImgPlaced
    <2>5. ASSUME lastMark # NoMark PROVE trueLen' # NoMark /\ ImgSpan(trueLen')
      <3>1. trueLen' = mark - lastMark /\ ImgSpan(trueLen')
        BY <1>6, <2>1, <2>2, <2>5 DEF ImgCounted
      <3>2. PICK read \in ImageReads[track] : trueLen' = ReadNs(read)
        BY <3>1 DEF ImgSpan
      <3>3. trueLen' \in Nat
        BY <1>6, <3>2, ImgRead
      <3> QED BY <3>1, <3>3 DEF NoMark
    <2>6. ASSUME trueLen' # NoMark PROVE ImgSpan(trueLen)'
      <3>1. lastMark # NoMark
        BY <2>2, <2>6
      <3> QED BY <1>3, <2>5, <3>1 DEF ImgSpan
    <2>7. nr_index' > 1 => trueLen' # NoMark
      BY <1>6, <2>2, <2>5 DEF ImgCounted
    <2>8. ImgCounted'
      BY <2>1, <2>2, <2>3, <2>6, <2>7 DEF ImgCounted
    <2> QED BY <1>1, <1>2, <1>3, <1>4, <1>6, <1>7, <2>4, <2>8 DEF ImgPlaying
  <1> QED BY <1>9, <1>10

LEMMA ImgRestarts ==
    ASSUME ImgInv, kind = "image", IInv', ResetState, phase' = "start", phase # "pull",
           NEW t \in DOMAIN ImageReads, RewindSource(t)
    PROVE  ImgInv'
  <1>1. busy = FALSE /\ acc = 0 /\ idx = NoMark
    BY DEF ImgInv, ImgPlaying, ImgCall
  <1>2. ImgPlaying'
    BY <1>1, ImgRewinds
  <1> QED BY <1>2 DEF ImgInv

LEMMA ImgElsewhere == ASSUME ImgInv, kind = "image", Elsewhere PROVE ImgInv'
  <1> USE DEF ImgInv
  <1>1. IInv /\ UNCHANGED srcVars /\ kind' = kind
    BY DEF Elsewhere, srcVars
  <1>2. CASE \/ \E n \in 1..MaxBits : NextBits(n)
             \/ NextIndex
             \/ \E c \in Centres : SetDensity(c)
             \/ BitRefused \/ BitStart \/ Return
    <2>1. IInv'
      BY <1>1, <1>2, CallInv, RunInv DEF Call, Run
    <2>2. /\ phase \in {"idle", "start"} /\ phase' # "closed"
          /\ UNCHANGED <<flux, ns_to_index, mark, lastMark, trueLen, now, index_offset_ns,
                         track_len_ns, nr_index, pulled>>
      <3>1. CASE (\E n \in 1..MaxBits : NextBits(n)) \/ NextIndex
        BY <3>1 DEF NextBits, NextIndex, Begin, pllVars, indexVars, history
      <3>2. CASE \E c \in Centres : SetDensity(c)
        BY <3>2 DEF SetDensity, indexVars, callVars, history
      <3>3. CASE BitRefused
        BY <3>3 DEF BitRefused, Fail, pllVars, indexVars, history
      <3>4. CASE BitStart
        BY <3>4 DEF BitStart, pllVars, history
      <3>5. CASE Return
        BY <3>5 DEF Return, pllVars, indexVars, history
      <3> QED BY <1>2, <3>1, <3>2, <3>3, <3>4, <3>5
    <2>3. ImgPlaying /\ phase # "pull"
      BY <2>2
    <2>4. ~busy
      BY <2>3 DEF ImgPlaying, ImgCall
    <2>5. ImgPlaying'
      BY <1>1, <2>2, <2>3, <2>4, ImgStays
    <2> QED BY <2>1, <2>2, <2>5
  <1>3. CASE BitDone
    <2>1. ImgPlaying
      BY <1>3 DEF BitDone
    <2> QED BY <1>1, <1>3, <2>1, ImgBitDone
  <1> QED BY <1>2, <1>3 DEF Elsewhere

LEMMA ImgNextInv == ImgInv /\ [SrcNext]_allVars => ImgInv'
  <1> SUFFICES ASSUME ImgInv, [SrcNext]_allVars, kind' = "image" PROVE ImgInv'
    BY DEF ImgInv
  <1>1. kind = "image"
    BY DEF SrcNext, SrcSelect, SrcSelectFails, SrcReset, SrcLockDone, RewindSource, Elsewhere,
           SourceStep, Enter, ImageCell, KfsBlock, ScpWord, DrBit, Dfe2Byte, In, allVars, srcVars
  <1>2. IInv
    BY <1>1 DEF ImgInv
  <1>3. phase # "closed" => ImgPlaying /\ track \in DOMAIN ImageReads
    BY <1>1 DEF ImgInv, ImgPlaying
  <1>4. ASSUME NEW t \in TrackNrs, SrcSelect(t) PROVE ImgInv'
    <2>1. t \in DOMAIN ImageReads /\ RewindSource(t)
          /\ SelectTrack(IF track = t THEN 0 ELSE TypeMax("image", t))
      BY <1>1, <1>4 DEF SrcSelect, TrackData
    <2>2. TypeMax("image", t) = 0
      BY DEF TypeMax
    <2>3. max_revolutions' \in Nat /\ MinRevs <= max_revolutions'
          /\ BeginReset /\ phase \in {"closed", "idle"}
      BY <2>1, <2>2, StreamAssumption DEF SelectTrack
    <2>4. IInv'
      BY <1>2, <2>3, BeginResetInv
    <2> QED BY <1>1, <2>1, <2>3, <2>4, ImgRestarts DEF BeginReset, Begin
  <1>5. ASSUME NEW t \in TrackNrs, SrcSelectFails(t) PROVE ImgInv'
    <2>1. /\ SelectFails /\ track' = NoTrack
          /\ UNCHANGED <<kind, src, busy, acc, idx, passes>>
      BY <1>1, <1>5 DEF SrcSelectFails
    <2>2. IInv' /\ phase' = "closed" /\ phase \in {"closed", "idle"}
      BY <1>2, <2>1, CallInv DEF Call, SelectFails
    <2>3. busy = FALSE /\ acc = 0 /\ idx = NoMark
      BY <1>1, <2>2 DEF ImgInv, ImgPlaying, ImgCall
    <2> QED BY <2>1, <2>2, <2>3 DEF ImgInv
  <1>6. CASE SrcReset
    <2>1. Reset /\ RewindSource(track) /\ phase = "idle" /\ BeginReset
      BY <1>6 DEF SrcReset, Reset
    <2>2. IInv'
      BY <1>2, <2>1, CallInv DEF Call
    <2> QED BY <1>1, <1>3, <2>1, <2>2, ImgRestarts DEF BeginReset, Begin
  <1>7. CASE SrcLockDone
    <2>1. LockDone /\ RewindSource(track) /\ phase = "start" /\ ResetState /\ phase' = "start"
      BY <1>7 DEF SrcLockDone, LockDone, Begin
    <2>2. IInv'
      BY <1>2, <2>1, RunInv DEF Run
    <2> QED BY <1>1, <1>3, <2>1, <2>2, ImgRestarts
  <1>8. CASE Elsewhere
    BY <1>1, <1>8, ImgElsewhere
  <1>9. CASE SourceStep
    <2>1. CASE Enter
      <3>1. phase # "closed"
        BY <2>1 DEF Enter
      <3> QED BY <1>1, <1>2, <1>3, <2>1, <3>1, ImgEnters DEF ImgInv
    <2>2. CASE ImageCell
      <3>1. busy
        BY <2>2 DEF ImageCell, In
      <3>2. phase # "closed"
        BY <1>1, <3>1 DEF ImgInv
      <3> QED BY <1>2, <1>3, <2>2, <3>1, <3>2, ImgCellPlays DEF ImgInv
    <2> QED BY <1>1, <1>9, <2>1, <2>2 DEF SourceStep, KfsBlock, ScpWord, DrBit, Dfe2Byte, In
  <1>10. CASE UNCHANGED allVars
    <2>1. UNCHANGED srcVars /\ UNCHANGED vars
      BY <1>10 DEF allVars
    <2>2. IInv'
      BY <1>2, <2>1, StutterInv
    <2>3. /\ phase' = phase /\ clock' = clock /\ UNCHANGED <<kind, track, busy, acc, idx>>
          /\ UNCHANGED <<flux, ns_to_index, mark, lastMark, trueLen, now, index_offset_ns,
                         track_len_ns, nr_index, pulled>>
      BY <2>1 DEF vars, pllVars, indexVars, callVars, history, srcVars
    <2>4. phase # "closed" => ImgPlaying'
      BY <1>3, <2>1, <2>3, ImgStays
    <2> QED BY <1>1, <2>2, <2>3, <2>4 DEF ImgInv
  <1> QED BY <1>4, <1>5, <1>6, <1>7, <1>8, <1>9, <1>10 DEF SrcNext

(* Where an image is played, in every state of every kind of stream: no pulse of    *)
(* its is overtaken by the next, and none is counted that was not met.             *)
THEOREM ImgSpecInv == SrcSpec => []ImgInv
  <1>1. SrcInit => ImgInv
    BY InitInv DEF SrcInit, Init, ImgInv
  <1> QED BY <1>1, ImgNextInv, PTL DEF SrcSpec

(* A track image is measured at the length of one of its reads, whatever the PLL,  *)
(* the cell width and the calls made of the stream (next_flux of soft.c,          *)
(* disk_image.c and caps.c under stream_next_bit).                                *)
THEOREM ImageLengthsMeasured == SrcSpec => []ImageLengthMeasured
  <1>1. ImgInv => ImageLengthMeasured
    <2> SUFFICES ASSUME ImgInv, kind = "image", phase # "closed", nr_index > 1
                 PROVE  \E read \in ImageReads[track] : \E c \in Centres :
                            track_len_ns - ReadNs(read) \in -Lateness(c)..Lateness(c)
      BY DEF ImageLengthMeasured
    <2>1. LateInv /\ ImgCounted
      BY DEF ImgInv, ImgPlaying
    <2>2. trueLen # NoMark /\ ImgSpan(trueLen)
      BY <2>1 DEF ImgCounted
    <2>3. PICK c \in Centres : track_len_ns - trueLen \in -Lateness(c)..Lateness(c)
      BY <2>1, <2>2 DEF LateInv, TrackLenAccurate
    <2> QED BY <2>2, <2>3 DEF ImgSpan
  <1> QED BY <1>1, ImgSpecInv, PTL
=============================================================================
