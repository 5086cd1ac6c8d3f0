------------------------------- MODULE Stream -------------------------------
(***************************************************************************)
(* The generic layer of libdisk's stream readers (libdisk/stream/stream.c): *)
(* a software PLL that turns flux intervals into bitcells, the index-pulse   *)
(* bookkeeping, and the calls a format handler makes on a stream.           *)
(*                                                                         *)
(* What delivers the flux (a dump file, a device capture, an image) is left *)
(* open here: Pull hands over any interval and may say that the index pulse *)
(* passed inside it, PullEnd says that there is no more.  StreamSources      *)
(* replaces them by the decoders of the file formats.                       *)
(*                                                                         *)
(* One call of the C interface is many steps: the call itself, and then for *)
(* each bitcell BitStart, any number of pulls, and BitDone.                 *)
(***************************************************************************)
EXTENDS Integers

CONSTANTS
    Centres,        \* cell widths in ns a caller may select (set_density)
    InitCentre,     \* CLOCK_CENTRE
    MaxAdj,         \* CLOCK_MAX_ADJ, in percent
    PeriodPct,      \* pll_period_adj_pct
    PhasePct,       \* pll_phase_adj_pct
    LockBits,       \* bits read to lock the PLL in stream_reset (100)
    MinRevs,        \* the floor stream_select_track puts under max_revolutions
    TypeRevs,       \* what a source's select_track may leave in max_revolutions
    IntMax,         \* INT_MAX: the "no index pulse in sight" timer value
    BadLen,         \* 2^31-1: the "bad" offset before the first index pulse
    MaxBits,        \* bound: the longest stream_next_bits call modelled
    FluxSteps,      \* bound: the flux intervals a source may deliver
    IndexSteps,     \* bound: how far into an interval the index pulse may be
    PullLimit,      \* bound: ns of flux a source holds between two resets
    MaxFails        \* bound: bits asked of a source after its end, per reset

ASSUME PllAssumption ==
    /\ Centres \subseteq Nat \ {0} /\ InitCentre \in Centres
    /\ MaxAdj \in 0..100 /\ PeriodPct \in 0..100 /\ PhasePct \in 0..100

ASSUME StreamAssumption ==
    /\ LockBits \in Nat /\ MinRevs \in Nat /\ TypeRevs \subseteq Nat
    /\ IntMax \in Nat \ {0} /\ BadLen \in Nat /\ MaxBits \in Nat
    /\ FluxSteps \subseteq Nat /\ IndexSteps \subseteq Nat /\ PullLimit \in Nat
    /\ MaxFails \in Nat

VARIABLES
    flux, clock, clock_centre, clocked_zeros,   \* the PLL
    latency,                                    \* read latency, ns
    index_offset_bc, index_offset_ns,           \* position after the index
    track_len_bc, track_len_ns,                 \* length of the last revolution
    ns_to_index, nr_index, max_revolutions,
    op, left, phase, rc,    \* the call in progress and its loop, and its result
    ended,                  \* the source has run out of flux
    now, pulled,            \* history: ns read and ns of flux delivered since
                            \* the last _stream_reset
    mark, lastMark,         \* history: when the pulse in sight, and the last
    trueLen,                \* one counted, really passed; the distance between
                            \* the last two
    fails                   \* history: bits asked for in vain

pllVars == <<flux, clock, clock_centre, clocked_zeros>>
indexVars == <<index_offset_bc, index_offset_ns, track_len_bc, track_len_ns,
               ns_to_index, nr_index>>
callVars == <<op, left, phase, rc>>
history == <<now, pulled, mark, lastMark, trueLen, fails>>
vars == <<pllVars, indexVars, callVars, history, latency, max_revolutions, ended>>

NoMark == -1

-----------------------------------------------------------------------------
(* Arithmetic of the PLL. *)

\* Division of C ints, which truncates towards zero.
CDiv(a, b) == IF a >= 0 THEN a \div b ELSE -((-a) \div b)

ClockMin(c) == (c * (100 - MaxAdj)) \div 100
ClockMax(c) == (c * (100 + MaxAdj)) \div 100

Clamp(lo, hi, x) == IF x > hi THEN hi ELSE IF x < lo THEN lo ELSE x

\* The clock after a flux reversal that sits err ns off the window's centre:
\* in sync it follows the error, out of sync it drifts back to the centre.
PllClock(err) ==
    Clamp(ClockMin(clock_centre), ClockMax(clock_centre),
          clock + IF clocked_zeros <= 3
                  THEN CDiv(err * PeriodPct, 100)
                  ELSE CDiv((clock_centre - clock) * PeriodPct, 100))

\* What is left of the error after the window has been moved towards it.
PllPhase(err) == CDiv(err * (100 - PhasePct), 100)

-----------------------------------------------------------------------------
\* Mutant of ResetState: "bad" offsets are -1.
ResetState_MinusOne ==
    /\ flux' = 0 /\ clocked_zeros' = 0 /\ latency' = 0
    /\ nr_index' = 0 /\ ns_to_index' = IntMax
    /\ index_offset_bc' = -1 /\ index_offset_ns' = -1
    /\ track_len_bc' = -1 /\ track_len_ns' = -1
    /\ ended' = FALSE
    /\ now' = 0 /\ pulled' = 0 /\ fails' = 0
    /\ mark' = NoMark /\ lastMark' = NoMark /\ trueLen' = NoMark

(* _stream_reset: everything but the clock; the source is rewound too. *)
ResetState ==
    /\ flux' = 0 /\ clocked_zeros' = 0 /\ latency' = 0
    /\ nr_index' = 0 /\ ns_to_index' = IntMax
    /\ index_offset_bc' = BadLen /\ index_offset_ns' = BadLen
    /\ track_len_bc' = BadLen /\ track_len_ns' = BadLen
    /\ ended' = FALSE
    /\ now' = 0 /\ pulled' = 0 /\ fails' = 0
    /\ mark' = NoMark /\ lastMark' = NoMark /\ trueLen' = NoMark

Init ==
    /\ flux = 0 /\ clocked_zeros = 0 /\ latency = 0
    /\ clock = InitCentre /\ clock_centre = InitCentre
    /\ index_offset_bc = 0 /\ index_offset_ns = 0
    /\ track_len_bc = 0 /\ track_len_ns = 0
    /\ ns_to_index = 0 /\ nr_index = 0 /\ max_revolutions = 0
    /\ op = "none" /\ left = 0 /\ phase = "closed" /\ rc = 0 /\ ended = FALSE
    /\ now = 0 /\ pulled = 0 /\ fails = 0
    /\ mark = NoMark /\ lastMark = NoMark /\ trueLen = NoMark

Begin(o, n) == op' = o /\ left' = n /\ phase' = "start" /\ rc' = 0

\* stream_reset up to the first bit: 100 bit times for the PLL to lock.
BeginReset ==
    /\ clock' = clock_centre
    /\ ResetState
    /\ Begin("lock", LockBits)
    /\ UNCHANGED clock_centre

Reset == phase = "idle" /\ BeginReset /\ UNCHANGED max_revolutions

\* Mutant of SelectTrack: no floor under what the source sets.
SelectTrack_NoFloor(m) ==
    /\ phase \in {"closed", "idle"}
    /\ max_revolutions' = m
    /\ BeginReset

\* stream_select_track; a source that has the track cached leaves the 0 that
\* the call starts from, so m = 0 is always possible.
SelectTrack(m) ==
    /\ phase \in {"closed", "idle"}
    /\ max_revolutions' = IF m > MinRevs THEN m ELSE MinRevs
    /\ BeginReset

SelectFails ==
    /\ phase \in {"closed", "idle"}
    /\ max_revolutions' = 0
    /\ rc' = -1 /\ op' = "none" /\ left' = 0 /\ phase' = "closed"
    /\ UNCHANGED <<pllVars, indexVars, history, latency, ended>>

\* stream_next_bit, _next_bits and _next_bytes differ in the number of bits.
NextBits(n) ==
    /\ phase = "idle" /\ fails < MaxFails /\ Begin("bits", n)
    /\ UNCHANGED <<pllVars, indexVars, history, latency, max_revolutions, ended>>

NextIndex ==
    /\ phase = "idle" /\ fails < MaxFails /\ Begin("index", 1)
    /\ UNCHANGED <<pllVars, indexVars, history, latency, max_revolutions, ended>>

\* Mutant of SetDensity: the clock keeps running at its old rate.
SetDensity_CentreOnly(c) ==
    /\ phase = "idle"
    /\ clock_centre' = c
    /\ UNCHANGED <<clock, flux, clocked_zeros, indexVars, callVars, history,
                   latency, max_revolutions, ended>>

SetDensity(c) ==
    /\ phase = "idle"
    /\ clock' = c /\ clock_centre' = c
    /\ UNCHANGED <<flux, clocked_zeros, indexVars, callVars, history, latency,
                   max_revolutions, ended>>

\* A format handler measuring an interval zeroes s->latency between two bits.
ZeroLatency ==
    /\ phase = "idle" /\ latency' = 0
    /\ UNCHANGED <<pllVars, indexVars, callVars, history, max_revolutions, ended>>

-----------------------------------------------------------------------------
(* One bitcell. *)

\* The call stops looping: a lock goes on to its second reset, the others return.
Fail == rc' = -1 /\ left' = 0 /\ phase' = "start" /\ UNCHANGED op

\* Mutant of BitRefused: the limit is met, but the caller is not told.
BitRefused_Silent ==
    /\ phase = "start" /\ left > 0
    /\ nr_index > max_revolutions
    /\ UNCHANGED vars

BitRefused ==
    /\ phase = "start" /\ left > 0
    /\ nr_index > max_revolutions
    /\ Fail
    /\ UNCHANGED <<pllVars, indexVars, history, latency, max_revolutions, ended>>

\* Mutant of BitStart: no limit on revolutions.
BitStart_Unlimited ==
    /\ phase = "start" /\ left > 0
    /\ index_offset_bc' = index_offset_bc + 1
    /\ phase' = "pull"
    /\ UNCHANGED <<pllVars, index_offset_ns, track_len_bc, track_len_ns,
                   ns_to_index, nr_index, op, left, rc, history, latency,
                   max_revolutions, ended>>

BitStart ==
    /\ phase = "start" /\ left > 0
    /\ nr_index <= max_revolutions
    /\ index_offset_bc' = index_offset_bc + 1
    /\ phase' = "pull"
    /\ UNCHANGED <<pllVars, index_offset_ns, track_len_bc, track_len_ns,
                   ns_to_index, nr_index, op, left, rc, history, latency,
                   max_revolutions, ended>>

\* Mutant of Sight: the flux already waiting is forgotten.
Sight_FromZero(i) == IF i = NoMark THEN UNCHANGED <<ns_to_index, mark>>
                                   ELSE ns_to_index' = i /\ mark' = pulled + i

\* The index pulse passes i ns into what the source adds, counted from the flux
\* already waiting (i = NoMark: it does not).
Sight(i) == IF i = NoMark THEN UNCHANGED <<ns_to_index, mark>>
                          ELSE ns_to_index' = flux + i /\ mark' = pulled + i

\* The source adds d ns of flux.
Pull(d, i) ==
    /\ phase = "pull" /\ ~ended
    /\ flux < clock \div 2
    /\ flux' = flux + d
    /\ pulled' = pulled + d
    /\ Sight(i)
    /\ UNCHANGED <<clock, clock_centre, clocked_zeros, index_offset_bc,
                   index_offset_ns, track_len_bc, track_len_ns, nr_index,
                   callVars, now, lastMark, trueLen, fails, latency,
                   max_revolutions, ended>>

\* The source has no more: what it had begun is dropped, but not the index pulse
\* it may have met on the way.
PullEnd(i) ==
    /\ phase = "pull"
    /\ flux < clock \div 2
    /\ ended' = TRUE
    /\ Sight(i)
    /\ Fail /\ fails' = fails + 1
    /\ UNCHANGED <<pllVars, index_offset_bc, index_offset_ns, track_len_bc,
                   track_len_ns, nr_index, now, pulled, lastMark, trueLen,
                   latency, max_revolutions>>

\* Mutant of Window: the phase adjustment is not accounted to the bit.
Window_PhaseLost ==
    LET err   == flux - clock
        zero  == err >= clock \div 2
    IN  /\ flux' = IF zero THEN err ELSE PllPhase(err)
        /\ clock' = IF zero THEN clock ELSE PllClock(err)
        /\ clocked_zeros' = IF zero THEN clocked_zeros + 1 ELSE 0
        /\ latency' = latency + clock

\* The rest of flux_next_bit: one window, and the PLL if a reversal fell in it.
Window ==
    LET err   == flux - clock
        zero  == err >= clock \div 2
    IN  /\ flux' = IF zero THEN err ELSE PllPhase(err)
        /\ clock' = IF zero THEN clock ELSE PllClock(err)
        /\ clocked_zeros' = IF zero THEN clocked_zeros + 1 ELSE 0
        /\ latency' = latency + clock + (err - flux')

\* Mutant of IndexTimer: the time offset goes on over the index pulse.
IndexTimer_OffsetKept(lat) ==
    /\ index_offset_ns' = index_offset_ns + lat
    /\ IF ns_to_index - lat > 0
       THEN /\ ns_to_index' = ns_to_index - lat
            /\ UNCHANGED <<index_offset_bc, track_len_bc, track_len_ns, nr_index,
                           mark, lastMark, trueLen>>
       ELSE /\ track_len_bc' = index_offset_bc
            /\ track_len_ns' = index_offset_ns + lat
            /\ index_offset_bc' = 0
            /\ ns_to_index' = IntMax
            /\ nr_index' = nr_index + 1
            /\ mark' = NoMark /\ lastMark' = mark
            /\ trueLen' = IF NoMark \in {mark, lastMark} THEN NoMark
                          ELSE mark - lastMark

\* The rest of stream_next_bit: the index timer and the offsets.
IndexTimer(lat) ==
    IF ns_to_index - lat > 0
    THEN /\ ns_to_index' = ns_to_index - lat
         /\ index_offset_ns' = index_offset_ns + lat
         /\ UNCHANGED <<index_offset_bc, track_len_bc, track_len_ns, nr_index,
                        mark, lastMark, trueLen>>
    ELSE /\ track_len_bc' = index_offset_bc
         /\ track_len_ns' = index_offset_ns + lat
         /\ index_offset_bc' = 0 /\ index_offset_ns' = 0
         /\ ns_to_index' = IntMax
         /\ nr_index' = nr_index + 1
         /\ mark' = NoMark /\ lastMark' = mark
         /\ trueLen' = IF NoMark \in {mark, lastMark} THEN NoMark
                       ELSE mark - lastMark

BitDone ==
    /\ phase = "pull"
    /\ flux >= clock \div 2
    /\ Window
    /\ IndexTimer(latency' - latency)
    /\ now' = now + (latency' - latency)
    /\ phase' = "start"
    /\ left' = IF op # "index" THEN left - 1
               ELSE IF index_offset_bc' = 0 THEN 0 ELSE 1
    /\ UNCHANGED <<clock_centre, op, rc, pulled, fails, max_revolutions, ended>>

\* stream_reset after the lock: reset all but the clock, find an index pulse.
LockDone ==
    /\ phase = "start" /\ op = "lock" /\ left = 0
    /\ ResetState
    /\ Begin("index", 1)
    /\ UNCHANGED <<clock, clock_centre, max_revolutions>>

Return ==
    /\ phase = "start" /\ op # "lock" /\ left = 0
    /\ phase' = "idle" /\ op' = "none"
    /\ UNCHANGED <<left, rc, pllVars, indexVars, history, latency,
                   max_revolutions, ended>>

-----------------------------------------------------------------------------
Call ==
    \/ Reset
    \/ \E m \in TypeRevs \cup {0} : SelectTrack(m)
    \/ SelectFails
    \/ \E n \in 1..MaxBits : NextBits(n)
    \/ NextIndex
    \/ \E c \in Centres : SetDensity(c)
    \/ ZeroLatency

AnyPull ==
    \/ \E d \in FluxSteps :
         /\ pulled + d <= PullLimit
         /\ \E i \in {NoMark} \cup IndexSteps : i <= d /\ Pull(d, i)
    \/ \E i \in {NoMark} \cup IndexSteps : PullEnd(i)

Run == BitRefused \/ BitStart \/ BitDone \/ LockDone \/ Return

Next == Call \/ AnyPull \/ Run

Spec == Init /\ [][Next]_vars

-----------------------------------------------------------------------------
\* The fields stay in the ranges the rest of the code relies on.
TypeOK ==
    /\ flux \in Int /\ clock \in Int /\ clock_centre \in Centres
    /\ clocked_zeros \in Nat /\ latency \in Int
    /\ index_offset_bc \in Nat /\ index_offset_ns \in Int
    /\ track_len_bc \in Nat /\ track_len_ns \in Int
    /\ ns_to_index \in Int /\ nr_index \in Nat /\ max_revolutions \in Nat
    /\ op \in {"none", "lock", "bits", "index"} /\ left \in Nat
    /\ phase \in {"closed", "idle", "start", "pull"} /\ rc \in {0, -1}
    /\ ended \in BOOLEAN
    /\ now \in Int /\ pulled \in Int /\ fails \in Nat
    /\ mark \in Int /\ lastMark \in Int /\ trueLen \in Int

\* Whatever flux arrives, the PLL clock stays within CLOCK_MAX_ADJ percent of
\* the selected cell width (the clamp in flux_next_bit, and every other place
\* that sets the clock).
ClockClamped == clock \in ClockMin(clock_centre)..ClockMax(clock_centre)

\* The fields have their types and the clock its range, whatever flux arrives and
\* however the density is changed (flux_next_bit's clamp, stream_set_density).
WellFormed == TypeOK /\ ClockClamped

\* No time is lost or made up by the phase adjustment: the ns accounted to the
\* bits read plus the flux still waiting is all the flux delivered
\* (flux_next_bit moves err - new_flux from s->flux to s->latency).
FluxConserved == now + flux = pulled

\* Between two bits the index timer is the exact distance to the pulse in sight,
\* however many windows and phase adjustments lie between the pull that saw the
\* pulse and the bit that crosses it (stream_next_bit's ns_to_index -= lat).
IndexTimerExact == mark # NoMark => ns_to_index = mark - now

\* A revolution is measured as long as it was, to within a bitcell and a half (to
\* the next ns): each pulse is noticed at the end of the bit that crosses it, which
\* is up to a window and half a window late (track_len_ns against the true
\* distance of the two pulses).
Lateness(c) == (3 * ClockMax(c) + 1) \div 2

TrackLenAccurate ==
    trueLen # NoMark =>
        \E c \in Centres : track_len_ns - trueLen \in -Lateness(c)..Lateness(c)

\* A caller never gets past max_revolutions full revolutions: the pulse found by
\* the reset and one per revolution are counted, and no more (stream_next_bit's
\* nr_index > max_revolutions).  And it gets MinRevs of them at least, also of a
\* track whose source had it cached and set no limit (stream_select_track).
RevolutionLimit ==
    phase # "closed" => nr_index <= max_revolutions + 1 /\ MinRevs <= max_revolutions

\* Every call returns, however many bits the search for the index pulse takes
\* (stream_next_index has no other exit than a pulse or the end of the data).
CallReturns == phase = "start" ~> phase = "idle"
=============================================================================
