----------------------------- MODULE FormatScan -----------------------------
(***************************************************************************)
(* A track handler at work.  The track holds what its read_raw wrote,      *)
(* followed by the gap disk.c fills, and turns under the head; write_raw   *)
(* scans it from the index pulse, wherever in the data that falls, until   *)
(* it has its sectors or the source ends.  One field may be unreadable,    *)
(* always or in the first revolution only.                                 *)
(***************************************************************************)
EXTENDS TrackLayout

CONSTANTS
    Formats,     \* name -> handler, laid out by TrackLayout
    OneWay,      \* those whose write_raw does not take what their read_raw wrote
    GivesUp,     \* those that do not try again after a bad read
    Moves,       \* those whose data_bitoff is not where read_raw starts
    Revs,        \* revolutions the source delivers (stream.c: at least 4)
    MaxStart,    \* bound: the index falls before one of the first MaxStart fields
    Slack        \* bits data_bitoff may be off: a lead-in of sync words or gap

ASSUME BoundsAssumption == Revs \in Nat \ {0} /\ MaxStart \in Nat /\ Slack \in Nat

ASSUME LaidOutAssumption ==
    LET laid == Formats IN \A x \in DOMAIN laid : IsLaidOut(laid[x])

VARIABLES
    fmt,      \* the handler in use
    start,    \* fields of the track that lie before the index
    hurt,     \* the unreadable field, 0 for none
    passing,  \* it is unreadable in the first revolution only
    pos,      \* fields that have passed the head
    stage,    \* 1, or 2 in the second scan of a handler that has one
    pc,       \* 0: scanning for a sync; else the group to read next
    sec,      \* the sector being read
    seen,     \* fields read since the sync, as Notes describes them
    block,    \* the track's block: which field was stored as which
    taken,    \* sectors stored
    mark,     \* the bit at which data_bitoff would put this candidate
    bitoff,   \* data_bitoff, counted from the first bit read_raw wrote
    result    \* "scan", then "block" or "null"

vars == <<fmt, start, hurt, passing, pos, stage, pc, sec, seen, block, taken, mark, bitoff, result>>

-----------------------------------------------------------------------------
Laid == Formats      \* an operator, so that TLC works it out once
h == Laid[fmt].h
Track == Laid[fmt].trk
Offset == Laid[fmt].off
Length == Len(Track)
Limit == Revs * Length

Place(p) == Wrap(p + start, Length)    \* the field that is p-th to pass
Under(p) == Track[Place(p)]
Readable(p) == ~(Place(p) = hurt /\ (passing => p <= Length))

(* bits that have passed when p fields have, from the first one emitted *)
TrackBits == Offset[Length + 1]
At(p) == ((p + start) \div Length) * TrackBits + Offset[((p + start) % Length) + 1]

(* the first field boundary at or after a bit *)
Past(p, bit) ==
    CHOOSE q \in p .. Limit : /\ q = Limit \/ At(q) >= bit
                              /\ q = p \/ At(q - 1) < bit

(* The field under the head is the one the handler expects there. *)
InStep(q, x) ==
    /\ q < Limit
    /\ LET t == Under(q + 1) IN
       IF x.k = "fill" THEN t.k = "fill" /\ t.v = x.v /\ t.l.b >= x.l.b
                       ELSE t.l = x.l

(* Reading fields f from field p on: where each starts, and whether the     *)
(* handler is still in step with the field boundaries.  A field out of step *)
(* is read as garbage.  A run is consumed to its end: nothing in it is a    *)
(* field boundary or a sync.                                                *)
NextRead(was, x) ==
    LET to == was.b + x.l.b
        q == Past(was.p, to)
    IN  IF ~was.lost /\ InStep(was.p, x)
        THEN [p |-> was.p + 1, b |-> At(was.p + 1), lost |-> FALSE, ok |-> Readable(was.p + 1)]
        ELSE [p |-> q, b |-> to, lost |-> was.lost \/ At(q) # to, ok |-> FALSE]

Further(was, n, x) == Append(was, NextRead(was[n], x))

FirstFields(p, f) ==    \* for each n, how the first n of them are read
    LET at[j \in 0 .. Len(f)] ==
            IF j = 0 THEN <<[p |-> p, b |-> At(p), lost |-> FALSE, ok |-> TRUE]>>
            ELSE Further(at[j - 1], j, f[j])
    IN  at

Reading(p, f) == Tail(FirstFields(p, f)[Len(f)])

-----------------------------------------------------------------------------
(* A mark ends with field q, all of whose words are readable. *)
GoodMark(q, m) ==
    \E n \in m.ends[Place(q)] : n <= q /\ \A i \in 0 .. n - 1 : Readable(q - i)

NextMarks(m) ==         \* for each field, the next one that ends a mark
    LET next[q \in 0 .. Limit] ==
            LET d == m.hop[Place(q)] IN
            IF d = 0 \/ q + d > Limit THEN Limit + 1
            ELSE IF GoodMark(q + d, m) THEN q + d ELSE next[q + d]
    IN  next

NextMark(p, m) == NextMarks(m)[p]

AllSectors == 0 .. h.nsec - 1
Groups == LET l == Laid[fmt] IN
          IF stage = 1 /\ sec + 1 \in DOMAIN l.then THEN l.take[1] \o l.then[sec + 1]
          ELSE l.take[stage]

Init ==
    /\ fmt \in DOMAIN Laid
    /\ start \in 0 .. (IF MaxStart < Length THEN MaxStart ELSE Length - 1)
    /\ hurt \in {0} \cup Laid[fmt].weak
    /\ passing \in BOOLEAN /\ (hurt = 0 => ~passing)
    /\ pos = 0 /\ stage = 1 /\ pc = 0 /\ sec = Whole /\ seen = {} /\ block = {} /\ taken = {}
    /\ bitoff = 0 /\ mark = 0
    /\ result = "scan"

-----------------------------------------------------------------------------
(* Mutant of Finish: the second scan is the first one again. *)
Finish_Again(p) ==
    IF stage = 1 /\ h.after # <<>>
    THEN stage' = stage /\ result' = "scan" /\ pos' = IF h.after[1].reset THEN 0 ELSE p
    ELSE stage' = stage /\ result' = "block" /\ pos' = p

(* The block of the first scan is there: it is the result, or a second scan *)
(* follows, from the start of the source or from where the first one ended. *)
(* The next index pulse tells whether the track is as long as it must be.   *)
Finish(p) ==
    IF stage = 1 /\ h.after # <<>>
    THEN /\ stage' = 2 /\ result' = "scan"
         /\ pos' = IF h.after[1].reset THEN 0 ELSE p
    ELSE /\ stage' = stage /\ pos' = p
         /\ result' = IF TrackBits >= h.long THEN "block" ELSE "null"

(* The source has ended, in the middle of a sector or between two. *)
GiveUp ==
    /\ IF /\ stage = 1 /\ h.mode = "each" /\ taken # {} /\ h.must \subseteq taken
          /\ h.need = "any" \/ (h.need = "clean" /\ pc = 0)
       THEN Finish(Limit)
       ELSE result' = "null" /\ pos' = Limit /\ stage' = stage
    /\ pc' = 0 /\ seen' = {}
    /\ UNCHANGED <<fmt, start, hurt, passing, sec, block, taken, mark, bitoff>>

(* while (stream_next_bit(s) != -1) { if (s->word != SYNC) continue; ... *)
Scan ==
    /\ result = "scan" /\ pc = 0
    /\ LET q == NextMark(pos, Laid[fmt].sync[stage])
           back == IF stage = 1 THEN h.back ELSE h.after[1].back
       IN
       IF q > Limit THEN GiveUp
       ELSE /\ pos' = q
            /\ seen' = {}
            /\ IF h.bysync /\ Under(q).s \in taken
               THEN UNCHANGED <<pc, sec, bitoff, mark>>
               ELSE /\ pc' = 1
                    /\ sec' = IF stage = 2 THEN Whole
                              ELSE IF h.bysync THEN Under(q).s
                              ELSE IF h.order THEN Cardinality(taken) ELSE Whole
                    /\ mark' = At(q) - back - 1
                    /\ bitoff' = IF (stage = 1 /\ h.mark = "sync")
                                    \/ (stage = 2 /\ h.after[1].sets)
                                 THEN mark' ELSE bitoff
            /\ UNCHANGED <<fmt, start, hurt, passing, stage, block, taken, result>>

(* What a group has read: for each named field the sector it was wanted    *)
(* for, the one it came from, whether it was readable and whether it is    *)
(* part of the track's block.                                              *)
Notes(f, at) ==
    {[n |-> f[j].v, want |-> f[j].s, got |-> IF at[j].ok THEN Under(at[j].p).s ELSE Whole,
      ok |-> at[j].ok, kept |-> f[j].k \in {"keep", "sealed"}] :
        j \in {i \in DOMAIN f : f[i].k \in {"is", "skip", "keep", "sealed", "sec"}}}

(* A checksum agrees: it covers at both ends the same fields, all were      *)
(* readable, and they are of the sector whose checksum this is.            *)
SumAgrees(x, t, notes) ==
    LET covered == {c \in notes : c.n \in x.o /\ (x.s = Whole \/ c.want = x.s)}
    IN  /\ t.k = "sum" /\ t.v = x.v /\ t.o = x.o
        /\ x.o \subseteq {c.n : c \in covered}
        /\ \A c \in covered : c.ok /\ c.got = (IF t.s = Whole THEN c.want ELSE t.s)

(* Mutant of Passes: the checksum is read but not compared. *)
Passes_NoSum(x, r, notes) ==
    LET t == Under(r.p) IN
    CASE x.k \in {"skip", "keep"} -> TRUE
      [] x.k \in {"fill", "sum"} -> r.ok
      [] x.k \in {"is", "sealed"} -> r.ok /\ t.v = x.v
      [] x.k = "sec"  -> IF x.s # Whole THEN r.ok /\ t.k = "sec" /\ t.s = x.s
                         ELSE r.ok => t.k = "sec" /\ t.s \notin taken

Passes(x, r, notes) ==
    LET t == Under(r.p) IN
    CASE x.k \in {"skip", "keep"} -> TRUE
      [] x.k = "fill" -> r.ok
      [] x.k \in {"is", "sealed"} -> r.ok /\ t.v = x.v
      [] x.k = "sum"  -> r.ok /\ SumAgrees(x, t, notes)
      [] x.k = "sec"  -> IF x.s # Whole THEN r.ok /\ t.k = "sec" /\ t.s = x.s
                         ELSE r.ok => t.k = "sec" /\ t.s \notin taken

(* The sector number a group yields.  An unreadable one is any number that  *)
(* is in range and not yet taken, or none that will do.                     *)
SectorsRead(f, at) ==
    LET js == {j \in DOMAIN f : Numbers(f[j])} IN
    IF js = {} THEN {sec}
    ELSE LET j == CHOOSE j \in js : TRUE IN
         IF at[j].ok THEN {Under(at[j].p).s} ELSE (AllSectors \ taken) \cup {Whole}

LastSeek == CHOOSE i \in 1 .. pc : /\ Groups[i].seek # {}
                                   /\ \A j \in i + 1 .. pc : Groups[j].seek = {}

(* stream_next_bits/bytes and the checks on what they brought. *)
ReadGroup ==
    /\ result = "scan" /\ pc > 0 /\ pc <= Len(Groups)
    /\ LET g == Groups[pc]
           at == Reading(pos, g.f)
           notes == seen \cup Notes(g.f, at)
           end == at[Len(g.f)]
           numbers == \E j \in DOMAIN g.f : Numbers(g.f[j])
       IN  /\ g.seek = {}
           /\ IF end.p = Limit /\ end.lost THEN GiveUp
              ELSE \E k \in SectorsRead(g.f, at) :
                LET good == /\ \A j \in DOMAIN g.f : Passes(g.f[j], at[j], notes)
                            /\ numbers => k # Whole
                IN  /\ pos' = end.p
                    /\ sec' = k
                    /\ seen' = IF good THEN notes ELSE {}
                    /\ pc' = IF good THEN pc + 1
                             ELSE IF g.bad = "seek" THEN LastSeek ELSE 0
                    /\ result' = IF ~good /\ g.bad = "stop" THEN "null" ELSE "scan"
                    /\ UNCHANGED <<fmt, start, hurt, passing, stage, block, taken, mark, bitoff>>

(* A second mark inside the sector, which must come soon (ibm_scan_dam). *)
SeekMark ==
    /\ result = "scan" /\ pc > 0 /\ pc <= Len(Groups)
    /\ Groups[pc].seek # {}
    /\ LET g == Groups[pc]
           q == NextMark(pos, Laid[fmt].seek)
           last == IF g.within = NoLimit THEN Limit ELSE Past(pos, At(pos) + g.within)
       IN  IF last = Limit /\ q > Limit THEN GiveUp
           ELSE /\ IF q <= last THEN pos' = q /\ pc' = pc + 1 /\ UNCHANGED seen
                                ELSE pos' = last /\ pc' = 0 /\ seen' = {}
                /\ UNCHANGED <<fmt, start, hurt, passing, stage, sec, block, taken,
                               mark, bitoff, result>>

(* Every check has passed: the sector, or the whole track, is stored. *)
Take ==
    /\ result = "scan" /\ pc = Len(Groups) + 1
    /\ LET stored == {[n |-> c.n, got |-> c.got, ok |-> c.ok,
                       want |-> IF c.want = Whole THEN sec ELSE c.want] :
                        c \in {x \in seen : x.kept}}
       IN  block' = block \cup stored
    /\ taken' = IF stage = 2 THEN taken
                ELSE IF h.mode = "once" THEN AllSectors ELSE taken \cup {sec}
    /\ bitoff' = IF stage = 1 /\ \/ h.mark = "taken" \/ (h.mark = "zero" /\ sec = 0)
                                 \/ (h.mark = "first" /\ taken = {})
                 THEN mark
                 ELSE IF stage = 1 /\ h.mark = "least" /\ \A k \in taken : k > sec
                      THEN mark - sec * h.stride ELSE bitoff
    /\ IF stage = 2 \/ taken' = AllSectors THEN Finish(pos)
       ELSE UNCHANGED <<stage, result, pos>>
    /\ pc' = 0 /\ seen' = {}
    /\ UNCHANGED <<fmt, start, hurt, passing, sec, mark>>

Ended == result # "scan"

Done == Ended /\ UNCHANGED vars      \* write_raw has returned

Next == Scan \/ ReadGroup \/ SeekMark \/ Take \/ Done

Spec == Init /\ [][Next]_vars

-----------------------------------------------------------------------------
(* What read_raw wrote: each stored field, once for each sector. *)
Written ==
    {[n |-> f.v, got |-> f.s, want |-> f.s, ok |-> TRUE] :
        f \in {x \in {h.emit[i] : i \in DOMAIN h.emit} : x.k \in {"keep", "sealed"}}}
Complete == result = "block" /\ taken = AllSectors /\ block = Written

(* A track that read_raw wrote is taken whole by write_raw, each field as   *)
(* what it was written as, wherever on the track the index falls.           *)
(* Handlers that number sectors as they find them need the first one first. *)
ReadsBack ==
    Ended /\ hurt = 0 /\ fmt \notin OneWay /\ (h.order => start = 0) => Complete

StoredReadable == \A c \in block : c.n \notin h.open => c.ok
StoredAsWritten == \A c \in block : c.n \notin h.open => c.got = c.want

(* No sector is stored with a field that could not be read, or with another *)
(* sector's: some check stands between every stored field and the block.    *)
DamageIsSeen ==
    Ended /\ result = "block" => StoredReadable /\ (StoredAsWritten \/ h.order \/ h.bare)

(* What one revolution spoils, the next makes good: a bad candidate does    *)
(* not keep the scan from the good one that follows.                        *)
Recovers ==
    Ended /\ passing /\ h.open = {} /\ ~h.order /\ ~h.bare /\ fmt \notin OneWay \cup GivesUp => Complete

(* Writing a track and analysing it again leaves it where it was, but for   *)
(* a lead-in: data_bitoff does not come from a candidate that was rejected  *)
(* or from a later sector.                                                  *)
StaysInPlace ==
    Ended /\ result = "block" /\ h.mark # "fixed" /\ fmt \notin OneWay \cup Moves =>
        LET d == bitoff % TrackBits IN d <= Slack \/ TrackBits - d <= Slack

(* What read_raw writes fits in the total_bits write_raw left: tbuf would   *)
(* run over the track's start.                                              *)
FitsTrack == \A t \in h.total : Laid[fmt].bits <= t

(* Every step takes more of the source or finishes with a candidate: with a *)
(* source that ends no handler scans for ever.  Only stream_reset goes back.*)
HeadMovesOn ==
    [][stage' > stage \/ pos' > pos \/ (pos' = pos /\ (pc' < pc \/ result' # "scan"))]_vars
=============================================================================
