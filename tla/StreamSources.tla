--------------------------- MODULE StreamSources ---------------------------
(***************************************************************************)
(* The flux sources of libdisk/stream: the next_flux, reset and select_track *)
(* methods of each stream type, driving the generic layer of module Stream.  *)
(*                                                                         *)
(*   image  soft.c, disk_image.c, caps.c: a track image played round and    *)
(*          round; one with weak bits is read afresh on every revolution     *)
(*   kfs    kryoflux_stream.c: samples, with index positions decoded ahead   *)
(*   scp    supercard_scp.c: whole revolutions, replayed for ever            *)
(*   dr     diskread.c: bytes with a latency each, and an index flag         *)
(*   dfe2   discferret_dfe2.c: samples, carries and index marks in one list  *)
(*                                                                         *)
(* next_flux is a loop in all of them, so one call is several steps here:    *)
(* Enter, then one step per cell, block, word, bit or byte.  acc is the flux *)
(* put together so far and idx the index pulse met; the last step hands both *)
(* to Stream!Pull, or to Stream!PullEnd.  A wire format is a sequence of     *)
(* records, one per block; a record's fields are what the decoder extracts.  *)
(*                                                                         *)
(* A capture is played at data_rpm though the drive that made it turned at   *)
(* drive_rpm: each interval is scaled by their ratio, in whole ns, and the   *)
(* part of a ns that is left over is dropped.                               *)
(***************************************************************************)
EXTENDS Stream, SequencesExt

CONSTANTS
    Kinds,          \* the source types a run explores
    TrackNrs,       \* track numbers asked for
    DriveRpm, DataRpm,
    ImageReads,     \* track -> the [bits, speed, at] a read of it may give:
                    \* see ImageLayout
    TrackNs,        \* track_nsecs_from_rpm(data_rpm)
    SpeedAvg,       \* SPEED_AVG, 1000: the speed of a cell of even width
    GapLimit,       \* the 1 ms after which an image or dr source returns
    KfsData,        \* track -> <<[k, n, v], ...>>: n stream bytes, value v
    ScpData,        \* track -> [dat, index_off, total_ticks, at]: see ScpLayout
    Tick, Overflow, \* SCK_NS_PER_TICK, and the 0x10000 of an overflow word
    ShortPulse,     \* the 1 us below which a lone revolution may drop a pulse
    EdTicks,        \* ticks per reversal at or below which there is no jitter
    DrData,         \* track -> <<[lat, index, bits], ...>>, a byte each
    Dfe2Data,       \* track -> <<[k, v], ...>>, a byte each
    Dfe2Carry,      \* 127, the ticks of a carry byte
    KfsPs, Dfe2Ps,  \* SCK_PS_PER_TICK of the two types
    PsPerNs, Word,  \* 1000, and the 2^32 at which their product wraps
    NoLimit         \* ~0u: in max_revolutions, and as a position never reached

VARIABLES
    kind,           \* the stream's type
    track,          \* the track in the source's cache, or NoTrack
    src,            \* the source's position in it
    busy, acc, idx, \* inside next_flux, and its locals
    passes          \* history: times scp_next_flux has wrapped since the reset

srcVars == <<kind, track, src, busy, acc, idx, passes>>
allVars == <<vars, srcVars>>

NoTrack == -1

TrackData ==
    [image |-> ImageReads, kfs |-> KfsData, scp |-> ScpData, dr |-> DrData,
     dfe2 |-> Dfe2Data]

-----------------------------------------------------------------------------
(* Flux in ns.                                                               *)

ASSUME RpmAssumption ==
    /\ Tick \in Nat /\ DriveRpm \in Nat \ {0} /\ DataRpm \in Nat \ {0}

\* A tick of an SCP dump, in units of 1/DataRpm ns, and the most that one interval
\* loses of it: less than a ns, and nothing where ticks are whole ns.
Rate == Tick * DriveRpm
Trunc == IF Rate % DataRpm = 0 THEN 0 ELSE DataRpm - 1

\* The product is taken in 64 bits; the quotient is a flux interval below INT_MAX.
ScpNs(ticks) == (Rate * ticks) \div DataRpm

\* Samples of ps ps.  The first product is taken in 32 bits, and so is the second,
\* which cannot wrap: what is divided by 1000 has room for 500 rpm.
SampleNs(ps, ticks) == ((((ticks * ps) % Word) \div PsPerNs) * DriveRpm) \div DataRpm

-----------------------------------------------------------------------------
(* What select_track prepares. *)

\* kfs_decode_index: the positions of all index blocks up to the end of file.
KfsIndexes(t) ==
    LET eof    == SelectInSeq(KfsData[t], LAMBDA b : b.k = "eof")
        blocks == IF eof = 0 THEN KfsData[t] ELSE SubSeq(KfsData[t], 1, eof)
        posn   == SelectSeq(blocks, LAMBDA b : b.k = "index")
    IN  [i \in 1..Len(posn) |-> posn[i].v] \o <<NoLimit>>

\* scp_select_track leaves the revolutions end to end in dat, and in index_off
\* where each one ends.
ScpFrom(D, r) == IF r = 1 THEN 0 ELSE D.index_off[r - 1]
ScpRevs(t) == Len(ScpData[t].index_off)
ScpApplyJitter(t) ==
    /\ ScpRevs(t) = 1
    /\ ScpData[t].total_ticks \div Len(ScpData[t].dat) > EdTicks

\* A dump as the hardware records it: no revolution without a word, and no more
\* time in the words than up to the final index pulse.  at[k] is the time of the
\* first k words, each a number of ticks or, when 0, an overflow.  No interval is
\* so short that the jitter, which takes at most two ticks off it, exceeds it.
ScpTicks(w) == IF w = 0 THEN Overflow ELSE w

ASSUME ScpLayout ==
    /\ Overflow \in Nat
    /\ \A t \in DOMAIN ScpData :
         LET D == ScpData[t] IN
           /\ D.dat \in Seq(Nat) /\ D.index_off \in Seq(Nat)
           /\ ScpRevs(t) > 0 /\ D.index_off[ScpRevs(t)] = Len(D.dat)
           /\ \A r \in 1..ScpRevs(t) : ScpFrom(D, r) < D.index_off[r]
           /\ D.at \in [0..Len(D.dat) -> Nat] /\ D.at[0] = 0
           /\ \A k \in 1..Len(D.dat) : D.at[k] = D.at[k - 1] + ScpTicks(D.dat[k])
           /\ D.total_ticks \in Nat /\ D.at[Len(D.dat)] <= D.total_ticks
           /\ ScpApplyJitter(t) => \A k \in 1..Len(D.dat) : D.dat[k] # 1

\* A revolution lasts longer than a bitcell, and its pulse is never INT_MAX ns away:
\* the interval with the pulse may have begun in the revolution before, and over a
\* first revolution without any reversal it is longer by the whole dump.  Times are
\* in units of 1/DataRpm ns; ScpLeast is what is left of the time from the word
\* after j to word k if every one of them ends an interval and is truncated.
ScpSilent(D, r) == \A k \in (ScpFrom(D, r) + 1)..D.index_off[r] : D.dat[k] = 0
ScpLong(x) == \A c \in Centres : x > DataRpm * ClockMax(c)
ScpLeast(D, j, k) == Rate * (D.at[k] - D.at[j]) - Trunc * (k - j)
ScpAhead(D, r, k) ==
    \E m \in (k + 1)..D.index_off[r] :
        D.dat[m] # 0 /\ ScpLong(ScpLeast(D, ScpFrom(D, r), m))
ScpLongSilence(D, r) ==
    ScpSilent(D, r) /\ ScpLong(ScpLeast(D, ScpFrom(D, r), D.index_off[r]))
ScpBefore(D, r) ==
    IF r > 1 THEN -D.at[ScpFrom(D, r - 1)]
    ELSE D.total_ticks - D.at[ScpFrom(D, Len(D.index_off))]
ScpReplay(D, r) == IF r = 1 /\ ScpSilent(D, 1) THEN D.total_ticks ELSE 0

ASSUME ScpPace ==
    /\ \A c \in Centres : ClockMax(c) < IntMax
    /\ \A t \in DOMAIN ScpData : ~ScpApplyJitter(t) =>
         LET D == ScpData[t] IN
         \A r \in 1..ScpRevs(t) :
           /\ ScpAhead(D, r, ScpFrom(D, r)) \/ ScpLongSilence(D, r)
           /\ \A c \in Centres :
                Rate * (D.at[D.index_off[r]] + (ScpBefore(D, r) + ScpReplay(D, r)))
                    + DataRpm * ClockMax(c) < DataRpm * IntMax

\* A read of a track image: its bits, the speed of each cell, and in at[k] the time
\* of the first k cells.  ns_per_cell follows from the number of bits of this read.
\* A weak cell has the average speed; an image without speeds has it throughout.
CellNs(read, k) == ((TrackNs \div Len(read.bits)) * read.speed[k]) \div SpeedAvg

ASSUME ImageLayout ==
    /\ TrackNs \in Nat /\ SpeedAvg \in Nat \ {0} /\ GapLimit \in Nat
    /\ \A t \in DOMAIN ImageReads : \A read \in ImageReads[t] :
         LET n == Len(read.bits) IN
           /\ read.bits \in Seq({0, 1}) /\ n > 0 /\ read.speed \in [1..n -> Nat]
           /\ read.at \in [0..n -> Nat] /\ read.at[0] = 0
           /\ \A k \in 1..n : read.at[k] = read.at[k - 1] + CellNs(read, k)

\* A track image lasts longer than a bitcell and the 1 ms after which next_flux
\* returns, and less than INT_MAX ns.
ReadNs(read) == read.at[Len(read.bits)]

ASSUME ImagePace ==
    \A t \in DOMAIN ImageReads : \A read \in ImageReads[t] : \A c \in Centres :
        /\ ReadNs(read) > ClockMax(c) + GapLimit
        /\ ReadNs(read) + ClockMax(c) < IntMax

\* dr_reset skips the leading bytes that hold no flux reversal.
DrStart(t) ==
    LET n == SelectInSeq(DrData[t], LAMBDA b : 1 \in ToSet(b.bits))
    IN  IF n = 0 THEN Len(DrData[t]) + 1 ELSE n

\* The positions the type's reset method may leave; a weak image is read again.
Rewound(k, t) ==
    CASE k = "image" -> {[read |-> r, pos |-> 0] : r \in ImageReads[t]}
      [] k = "kfs"   -> {[i |-> 1, stream_idx |-> 0, idx_i |-> 1]}
      [] k = "scp"   -> {[dat_idx |-> 0, index_pos |-> 0, jitter |-> 0,
                          acc_ticks |-> 0, seen |-> FALSE]}
      [] k = "dr"    -> {[dat_idx |-> DrStart(t), bpos |-> 0, avg |-> 0]}
      [] k = "dfe2"  -> {[i |-> 1, stream_idx |-> 0, index_pos |-> NoLimit]}

\* What a select_track that really loads the track leaves in max_revolutions.
TypeMax(k, t) ==
    CASE k = "image" -> 0
      [] k = "scp"   -> ScpRevs(t) + 1
      [] OTHER       -> NoLimit

-----------------------------------------------------------------------------
SrcInit ==
    /\ Init
    /\ kind \in Kinds
    /\ track = NoTrack /\ src = <<>> /\ passes = 0
    /\ busy = FALSE /\ acc = 0 /\ idx = NoMark

RewindSource(t) ==
    /\ src' \in Rewound(kind, t)
    /\ passes' = 0 /\ track' = t
    /\ UNCHANGED <<kind, busy, acc, idx>>

SrcReset == Reset /\ RewindSource(track)
SrcLockDone == LockDone /\ RewindSource(track)

\* A type that has the track cached returns before it sets max_revolutions.
SrcSelect(t) ==
    /\ t \in DOMAIN TrackData[kind]
    /\ SelectTrack(IF track = t THEN 0 ELSE TypeMax(kind, t))
    /\ RewindSource(t)

\* diskread.c keeps its cached track when another one is out of range; so does
\* caps.c, but it never relies on the cache.
SrcSelectFails(t) ==
    /\ t \notin DOMAIN TrackData[kind]
    /\ SelectFails
    /\ track' = IF kind = "dr" THEN track ELSE NoTrack
    /\ UNCHANGED <<kind, src, busy, acc, idx, passes>>

\* The calls and bit steps that do not reach the source.
Elsewhere ==
    /\ \/ \E n \in 1..MaxBits : NextBits(n)
       \/ NextIndex
       \/ \E c \in Centres : SetDensity(c)
       \/ BitRefused \/ BitStart \/ BitDone \/ Return
    /\ UNCHANGED srcVars

-----------------------------------------------------------------------------
(* next_flux. *)

Enter ==
    /\ phase = "pull" /\ flux < clock \div 2 /\ ~busy
    /\ busy' = TRUE /\ acc' = 0
    /\ CASE kind = "kfs" /\ src.stream_idx >= KfsIndexes(track)[src.idx_i] ->
                src' = [src EXCEPT !.idx_i = @ + 1] /\ idx' = 0
         [] kind = "dfe2" /\ (src.stream_idx >= src.index_pos \/ src.i = 1) ->
                src' = [src EXCEPT !.index_pos = NoLimit] /\ idx' = 0
         [] kind = "scp" ->
                src' = [src EXCEPT !.seen = FALSE] /\ idx' = NoMark
         [] OTHER -> UNCHANGED src /\ idx' = NoMark
    /\ UNCHANGED <<vars, kind, track, passes>>

Leave == busy' = FALSE /\ acc' = 0 /\ idx' = NoMark

\* The three ways a step of the loop ends.
Continue(a, i) == acc' = a /\ idx' = i /\ UNCHANGED <<vars, busy>>
Deliver(d, i)  == Pull(d, i) /\ Leave
GiveUp         == PullEnd(idx) /\ Leave

In(k) == busy /\ kind = k /\ UNCHANGED <<kind, track>>

\* One cell of ss_next_flux, di_next_flux or caps_next_flux.
ImageCell ==
    /\ In("image")
    /\ IF src.pos + 1 >= Len(src.read.bits)
       THEN src' \in Rewound("image", track)
       ELSE src' = [src EXCEPT !.pos = @ + 1]
    /\ LET i == IF src'.pos = 0 THEN acc ELSE idx
           a == acc + CellNs(src'.read, src'.pos + 1)
       IN  IF src'.read.bits[src'.pos + 1] = 0 /\ a < GapLimit
           THEN Continue(a, i) ELSE Deliver(a, i)
    /\ UNCHANGED passes

\* One block of kfs_next_flux.  Only in-band blocks advance stream_idx.
KfsBlock ==
    /\ In("kfs")
    /\ UNCHANGED passes
    /\ IF src.i > Len(KfsData[track]) THEN GiveUp /\ UNCHANGED src
       ELSE LET b == KfsData[track][src.i]
                next == [src EXCEPT !.i = IF b.k = "eof" THEN Len(KfsData[track]) + 1
                                          ELSE @ + 1,
                                    !.stream_idx = @ + b.n]
            IN  /\ src' = next
                /\ IF b.k = "sample" THEN Deliver(SampleNs(KfsPs, acc + b.v), idx)
                   ELSE Continue(IF b.k = "overflow" THEN acc + Overflow ELSE acc, idx)

\* The end of scp_next_flux: book-keeping, jitter and the odd dropped pulse.
\* next is the position after the loop and val the ticks it gathered.
ScpFinish(next, val, i) ==
    IF ~ScpApplyJitter(track)
    THEN /\ src' = [next EXCEPT !.acc_ticks = @ + val]
         /\ Deliver(ScpNs(val), i)
    ELSE \E j \in IF next.jitter \in -3..3 THEN {-1, 0, 1}
                                           ELSE {CDiv(next.jitter, 2)} :
           LET ns == ScpNs(val + j)
               kept == [next EXCEPT !.acc_ticks = @ + val, !.jitter = @ - j]
           IN  \/ src' = kept /\ Deliver(ns, i)
               \/ /\ ns \in 0..(ShortPulse - 1)
                  /\ src' = [kept EXCEPT !.jitter = @ + ns]
                  /\ Deliver(0, i)

\* Mutant of ScpRev: the revolution after the next.
ScpRev_Ahead == (nr_index + 1) % ScpRevs(track)

\* At the end of a revolution: cue the next one, by the pulses counted so far.
ScpRev == nr_index % ScpRevs(track)
ScpWraps == ScpRev = 0 /\ src.index_pos # 0
\* Mutant of ScpCued: the ticks gathered start again from 0, not from -val.
ScpCued_FromZero(val) ==
    [src EXCEPT !.acc_ticks = IF ScpWraps THEN 0 ELSE @,
                !.index_pos = ScpData[track].index_off[ScpRev + 1],
                !.dat_idx = IF ScpRev = 0 THEN 0 ELSE @,
                !.seen = TRUE]

ScpCued(val) ==
    [src EXCEPT !.acc_ticks = IF ScpWraps THEN -val ELSE @,
                !.index_pos = ScpData[track].index_off[ScpRev + 1],
                !.dat_idx = IF ScpRev = 0 THEN 0 ELSE @,
                !.seen = TRUE]

\* One turn of scp_next_flux's loop.
ScpWord ==
    /\ In("scp")
    /\ LET due  == src.dat_idx >= src.index_pos
           val  == IF due /\ ScpWraps THEN ScpData[track].total_ticks - src.acc_ticks ELSE acc
           cued == IF due THEN ScpCued(val) ELSE src
           i    == IF due THEN 0 ELSE idx
           word == ScpData[track].dat[cued.dat_idx + 1]
           next == [cued EXCEPT !.dat_idx = @ + 1]
       IN  /\ passes' = IF due /\ ScpWraps THEN passes + 1 ELSE passes
           /\ IF due /\ src.seen THEN ScpFinish(cued, val, i)
              ELSE IF word = 0 THEN src' = next /\ Continue(val + Overflow, i)
              ELSE ScpFinish(next, val + word, i)

\* One bit of dr_next_flux: a byte's latency is smoothed and spread over its bits.
DrBit ==
    /\ In("dr")
    /\ UNCHANGED passes
    /\ IF src.bpos % 8 = 0 /\ src.dat_idx > Len(DrData[track])
       THEN GiveUp /\ UNCHANGED src
       ELSE LET fetch == src.bpos % 8 = 0
                n     == IF fetch THEN src.dat_idx ELSE src.dat_idx - 1
                byte  == DrData[track][n]
                old   == IF src.avg = 0 THEN byte.lat ELSE src.avg
                avg   == IF fetch THEN old + CDiv(byte.lat - old, 4) ELSE src.avg
                bpos  == IF fetch THEN 0 ELSE src.bpos
                a     == acc + avg \div 8 + IF bpos = 7 THEN avg % 8 ELSE 0
                i     == IF fetch /\ byte.index THEN acc ELSE idx
            IN  /\ src' = [dat_idx |-> n + 1, bpos |-> bpos + 1, avg |-> avg]
                /\ IF byte.bits[bpos + 1] = 0 /\ a < GapLimit
                   THEN Continue(a, i) ELSE Deliver(a, i)

\* One byte of dfe2_next_flux.  At the end of the data an index is made up
\* unless one was met within the last 5 ticks; ~0u, for none, is -1 there.
Dfe2End(s) ==
    IF s.i > Len(Dfe2Data[track])
       /\ s.stream_idx - (IF s.index_pos = NoLimit THEN -1 ELSE s.index_pos) > 5
    THEN [s EXCEPT !.index_pos = s.stream_idx] ELSE s

Dfe2Byte ==
    /\ In("dfe2")
    /\ UNCHANGED passes
    /\ IF src.i > Len(Dfe2Data[track])
       THEN GiveUp /\ src' = Dfe2End(src)
       ELSE LET b    == Dfe2Data[track][src.i]
                v    == IF b.k = "carry" THEN Dfe2Carry ELSE b.v
                next == [src EXCEPT !.i = @ + 1, !.stream_idx = @ + v,
                                    !.index_pos = IF b.k = "index"
                                                  THEN src.stream_idx + v ELSE @]
            IN  IF b.k = "sample"
                THEN src' = Dfe2End(next) /\ Deliver(SampleNs(Dfe2Ps, acc + v), idx)
                ELSE src' = next /\ Continue(acc + v, idx)

-----------------------------------------------------------------------------
SourceStep == Enter \/ ImageCell \/ KfsBlock \/ ScpWord \/ DrBit \/ Dfe2Byte

SrcNext ==
    \/ \E t \in TrackNrs : SrcSelect(t) \/ SrcSelectFails(t)
    \/ SrcReset \/ SrcLockDone
    \/ Elsewhere
    \/ SourceStep

\* The caller runs each call to its end.
SrcRun ==
    \/ SrcLockDone \/ SourceStep
    \/ (BitRefused \/ BitStart \/ BitDone \/ Return) /\ UNCHANGED srcVars

SrcSpec == SrcInit /\ [][SrcNext]_allVars /\ WF_allVars(SrcRun)

-----------------------------------------------------------------------------
\* Between two bits the revolution whose words an SCP stream reads is the one its
\* count of index pulses says, although the count is kept by stream_next_bit, only
\* when the pulse is crossed, and scp_next_flux reads it to cue the next one.
ScpRevInStep ==
    kind = "scp" /\ phase \in {"idle", "start"} /\ nr_index > 0 =>
        LET D == ScpData[track]
            r == ((nr_index - 1) % ScpRevs(track)) + 1
        IN  /\ src.index_pos = D.index_off[r]
            /\ src.dat_idx \in ScpFrom(D, r)..D.index_off[r]

\* What has been delivered of p passes and the given ticks falls short of them, if
\* at all, by less than a ns for each word read.
ScpAccounted(p, ticks) ==
    LET D == ScpData[track] IN
    Rate * (p * D.total_ticks + ticks) - DataRpm * pulled
        \in 0..(Trunc * (p * Len(D.dat) + src.dat_idx))

\* Replaying an SCP dump keeps its time, but for the parts of a ns that scaling by
\* the drive's speed drops: each wrap adds the dump's total ticks, whatever part of
\* them lay beyond the last flux reversal, and no interval is longer for it.
ScpTimeKept ==
    kind = "scp" /\ track # NoTrack /\ ~busy =>
        ScpApplyJitter(track) \/ ScpAccounted(passes, src.acc_ticks)

\* What the jitter adds to a lone SCP revolution is what "jitter" has booked
\* ("accumulated injected jitter"), so that it can be taken back.
JitterBooked ==
    kind = "scp" /\ track # NoTrack /\ ~busy =>
        ScpAccounted(passes, src.acc_ticks - src.jitter)

\* A track image is measured at the length of one of its reads, cell by cell, to
\* within three half bitcells.
ImageLengthMeasured ==
    kind = "image" /\ phase # "closed" /\ nr_index > 1 =>
        \E read \in ImageReads[track] : \E c \in Centres :
            track_len_ns - ReadNs(read) \in -Lateness(c)..Lateness(c)
=============================================================================
