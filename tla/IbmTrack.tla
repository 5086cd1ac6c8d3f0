------------------------------ MODULE IbmTrack ------------------------------
(***************************************************************************)
(* format/ibm.c and container/imd.c: a track of any number of IBM sectors  *)
(* of any size, in FM or MFM, found in a dump of several revolutions,      *)
(* saved in an IMD image or not, and written out again.  A medium is where *)
(* its sectors lie on a circle of bits; what is in between is gap.         *)
(* Sectors are told apart by their place, since two may bear the same      *)
(* number.  The tracks of DEC drives are left out.                         *)
(***************************************************************************)
EXTENDS Integers, Sequences, FiniteSets, SequencesExt

CONSTANTS
    Media,     \* the tracks that may be under the head
    Revs,      \* revolutions in a dump
    MaxBad     \* bound: marks and fields misread in the dump of a disk

ASSUME DumpAssumption == Revs \in Nat \ {0} /\ MaxBad \in Nat

VARIABLES
    medium,    \* the track under the head
    pc,        \* "scan", "data", "over", then "done"; "refused" when imd_open exits
    past,       \* bits that have passed since the first index
    id,        \* the header last read: its sector, and how far off its place
    ibm_secs,  \* the sectors found, in order of their place
    bad,       \* marks and fields misread
    wellRead,  \* history: sectors of the medium once read without error
    ti,        \* the track as analysed
    imd,       \* the IMD image
    kept       \* history: the track first analysed

ibmVars == <<medium, pc, past, id, ibm_secs, bad, wellRead, ti, imd, kept>>

scanned == <<medium, id, wellRead, ti, imd, kept>>

NoTrack == [type |-> "unformatted"]
NoFile == [mode |-> "none"]
NoHeader == [i |-> 0, j |-> 0]

-----------------------------------------------------------------------------
(* Lengths in bits.  In FM a mark's place is that of the zeros before it.    *)

Fm(type) == type \in {"ibm_fm_sd", "ibm_fm_dd", "ibm_fm_sd_recovery"}
Recovery(type) == type \in {"ibm_fm_sd_recovery", "ibm_mfm_dd_recovery"}

Size(no) == <<128, 256, 512, 1024, 2048, 4096, 8192, 16384>>[no + 1]
PreSync(type)    == 16 * IF Fm(type) THEN 6 ELSE 12
MarkBits(type)   == 16 * IF Fm(type) THEN 7 ELSE 4
HeaderBits(type) == MarkBits(type) + 16 * 6
ToData(type)     == 16 * IF Fm(type) THEN 31 ELSE 48    \* header to end of data mark
SectorBits(type, no) == 16 * ((IF Fm(type) THEN 33 ELSE 62) + Size(no))
Lead(type)       == 16 * IF Fm(type) THEN 40 ELSE 80
IamBits(type)    == 16 * IF Fm(type) THEN 7 ELSE 16

DefaultBits == 100150

\* What a revolution holds at the density of the type.
DensityBits(type) ==
    CASE type \in {"ibm_fm_sd", "ibm_fm_sd_recovery"} -> DefaultBits \div 2
      [] type = "ibm_mfm_hd" -> DefaultBits * 2
      [] OTHER -> DefaultBits

\* The clock of the stream follows bitcells up to a tenth off.
InStep(m) ==
    LET cells == CASE m.type \in {"ibm_fm_sd", "ibm_fm_sd_recovery"} -> 50000
                   [] m.type = "ibm_mfm_hd" -> 200000
                   [] OTHER -> 100000
    IN  9 * m.len <= 10 * cells /\ 11 * m.len >= 10 * cells

\* A medium as a drive writes it, or a dump of it shows it: no header is within 1000
\* bits of one that has data, round the circle, since a sector and its gaps take more.
\* Its data mark is less than that behind it.  What a header is off its place takes it
\* neither over the index nor that near to the next.
OffIndex(m, s) ==
    s.at \in Nat /\ s.no \in Nat /\ \A j \in m.wobble : s.at + j \in 0..(m.len - 1)
HasData(m, s) == s.data \in (HeaderBits(m.type) + 32)..1000
FarFrom(m, s, t) == s.at - t.at \in (1000 - m.len)..(-1000) \cup 1000..(m.len - 1000)
Behind(m, s, t) ==
    s.at > t.at => \A j, l \in m.wobble : (s.at + j) - (t.at + l) >= 1000

Layout(m) ==
    /\ m.len \in Nat \ {0} /\ m.long \in Nat /\ Len(m.secs) \in Nat
    /\ m.wobble \subseteq Int /\ \A j, l \in m.wobble : j - l < 1000
    /\ \A i \in 1..Len(m.secs) : OffIndex(m, m.secs[i])
    /\ \A i \in 1..Len(m.secs) : m.secs[i].data # 0 => HasData(m, m.secs[i])
    /\ \A i, k \in 1..Len(m.secs) :
          i # k /\ m.secs[k].data # 0 => FarFrom(m, m.secs[i], m.secs[k])
    /\ \A i, k \in 1..Len(m.secs) :
          m.secs[i].data # 0 /\ m.secs[k].data # 0 => Behind(m, m.secs[i], m.secs[k])

ASSUME MediaLayout == \A m \in Media : Layout(m)

-----------------------------------------------------------------------------
(* Marks as they pass the head.                                             *)

Limit == Revs * medium.len
Sector(i) == medium.secs[i]

Mark(k, r, i, end) ==
    [k |-> k, i |-> i, at |-> r * medium.len + Sector(i).at,
     end |-> r * medium.len + Sector(i).at + end]

Passes ==
    IF InStep(medium)
    THEN {m \in {Mark("id", r, i, MarkBits(medium.type)) :
                    r \in 0..(Revs - 1), i \in 1..Len(medium.secs)}
                \cup {Mark("data", r, i, Sector(i).data) :
                    r \in -1..(Revs - 1), i \in {j \in 1..Len(medium.secs) : Sector(j).data # 0}} :
            m.end <= Limit}
    ELSE {}

\* An MFM mark is known from its first two words on.
Seen(m) == m.end - IF Fm(medium.type) THEN 0 ELSE 32

First(marks) == CHOOSE m \in marks : \A n \in marks : m.end <= n.end

\* ibm_scan_idam goes over every other mark; ibm_scan_mark(s, 1000) looks for any.
Coming == {m \in Passes : m.k = "id" /\ Seen(m) > past}
Near   == {m \in Passes : Seen(m) \in past..(past + 999)}

\* The mark that comes is misread, or the field that it begins, or neither.
Harm == {"none", "mark", "field"}
Left(marks, harm) == IF harm = "mark" THEN marks \ {First(marks)} ELSE marks

Misread(harm) ==
    /\ harm # "none" => bad < MaxBad
    /\ bad' = IF harm = "none" THEN bad ELSE bad + 1

-----------------------------------------------------------------------------
(* ibm_mfm_write_raw and ibm_fm_write_raw.                                  *)

\* A header: it is remembered, unless its sum or its size is bad.
ReadHeader(m, harm) ==
    /\ Misread(harm)
    /\ IF m.at + HeaderBits(medium.type) > Limit
       THEN pc' = "over" /\ UNCHANGED <<past, id>>
       ELSE /\ past' = m.at + HeaderBits(medium.type)
            /\ IF harm = "field" \/ Sector(m.i).no > 7
               THEN pc' = "scan" /\ UNCHANGED id
               ELSE pc' = "data" /\ \E j \in medium.wobble : id' = [i |-> m.i, j |-> j]
    /\ UNCHANGED <<medium, ibm_secs, wellRead, ti, imd, kept>>

ScanHeader ==
    /\ pc = "scan" /\ Coming # {}
    /\ \E harm \in {"none", "field"} : ReadHeader(First(Coming), harm)

SourceEnds ==
    /\ pc = "scan" /\ Coming = {} /\ pc' = "over"
    /\ UNCHANGED <<scanned, past, ibm_secs, bad>>

\* No mark follows the header in time.
DataMissing ==
    /\ pc = "data"
    /\ \E harm \in {"none", "mark"} :
         /\ harm = "mark" => Near # {}
         /\ Left(Near, harm) = {} /\ Misread(harm)
    /\ pc' = "scan" /\ past' = past + 1000
    /\ UNCHANGED <<scanned, ibm_secs>>

\* redo_idam: another header follows it.
HeaderAgain ==
    /\ pc = "data" /\ Near # {}
    /\ \E harm \in Harm :
         LET marks == Left(Near, harm)
         IN marks # {} /\ First(marks).k = "id" /\ ReadHeader(First(marks), harm)

\* Where e comes in the list: behind all that lie 1000 bits or more before it.
PlaceOf(e) ==
    LET later == {k \in 1..Len(ibm_secs) : e.offset - ibm_secs[k].offset < 1000}
    IN  IF later = {} THEN Len(ibm_secs) + 1 ELSE Min(later)

\* The sector there is within 1000 bits, and so taken for the same.
SameAt(n, e) == n <= Len(ibm_secs) /\ ibm_secs[n].offset - e.offset < 1000

\* Mutant of Placed: a sector found before is never replaced.
Placed_FirstStays(e) ==
    LET n == PlaceOf(e)
    IN  IF SameAt(n, e) THEN ibm_secs ELSE InsertAt(ibm_secs, n, e)

\* The sectors found, when e is read: a new one, one found before, or a better copy.
Placed(e) ==
    LET n == PlaceOf(e)
    IN  IF ~SameAt(n, e) THEN InsertAt(ibm_secs, n, e)
        ELSE IF ibm_secs[n].idam = e.idam /\ e.good /\ ~ibm_secs[n].good
        THEN ReplaceAt(ibm_secs, n, e)
        ELSE ibm_secs

Idam(s) == [cyl |-> s.cyl, head |-> s.head, sec |-> s.sec, no |-> s.no]

ReadData ==
    /\ pc = "data" /\ Near # {}
    /\ \E harm \in Harm :
         LET marks == Left(Near, harm)
             m == First(marks)
             end == m.end + 16 * (Size(Sector(id.i).no) + 2)
             good == harm # "field" /\ Sector(m.i).crc /\ Sector(m.i).no = Sector(id.i).no
             e == [offset |-> (Sector(id.i).at + id.j) % medium.len,
                   end_offset |-> (end + id.j - 1) % medium.len,
                   i |-> id.i, good |-> good, idam |-> Idam(Sector(id.i)),
                   mark |-> Sector(m.i).mark,
                   dat |-> IF good THEN Sector(m.i).dat ELSE "junk"]
         IN  /\ marks # {} /\ m.k = "data" /\ Misread(harm)
             /\ IF end > Limit
                THEN pc' = "over" /\ UNCHANGED <<past, ibm_secs, wellRead>>
                ELSE /\ pc' = "scan" /\ past' = end
                     /\ ibm_secs' = IF good \/ Recovery(medium.type) THEN Placed(e)
                                    ELSE ibm_secs
                     /\ wellRead' = IF good /\ m.i = id.i THEN wellRead \cup {id.i} ELSE wellRead
    /\ UNCHANGED <<medium, id, ti, imd, kept>>

-----------------------------------------------------------------------------
(* The track found.                                                         *)

\* The sums of the first 0, 1, ... numbers of a list.
Sums(list) ==
    LET sum[n \in 0..Len(list)] == IF n = 0 THEN 0 ELSE sum[n - 1] + list[n] IN sum

CDiv(a, b) == IF a >= 0 THEN a \div b ELSE -((-a) \div b)

Gap(type, iam, gap_bits, nr_secs) ==
    LET left == gap_bits - Lead(type) - 16 * 40
    IN  IF iam THEN CDiv(left - IamBits(type), 16 * (nr_secs + 1)) ELSE CDiv(left, 16 * nr_secs)

\* Thousands of bits by which a track is lengthened until its gaps are of 10 bytes.
Lengthened(type, iam, gap_bits, nr_secs) ==
    LET need == Lead(type) + 16 * 40 + IF iam THEN IamBits(type) + 160 * (nr_secs + 1)
                                       ELSE 160 * nr_secs
    IN  IF gap_bits >= need THEN 0 ELSE (need - gap_bits + 999) \div 1000

\* Mutant of PostDataGap: the room made for the gaps is not booked.
PostDataGap_NotGrown(type, iam, gap_bits, nr_secs) ==
    LET k == Lengthened(type, iam, gap_bits, nr_secs)
    IN  [gap |-> Gap(type, iam, gap_bits + 1000 * k, nr_secs) % 256, grown |-> 0]

\* choose_post_data_gap: the gap, which is kept in a byte, and the bits added to make room.
PostDataGap(type, iam, gap_bits, nr_secs) ==
    LET k == Lengthened(type, iam, gap_bits, nr_secs)
    IN  [gap |-> Gap(type, iam, gap_bits + 1000 * k, nr_secs) % 256, grown |-> 1000 * k]

\* From the end of a sector to the next, round the track.
Distance(k) ==
    LET d == ibm_secs[(k % Len(ibm_secs)) + 1].offset - ibm_secs[k].end_offset
    IN  IF d <= 0 THEN d + medium.len ELSE d

\* The type of long track whose length is nearest.
NearestLong(m) ==
    CHOOSE n \in {102200, 103300, 104400, 105500, 106600} :
        /\ n = 106600 \/ m.len <= n + 550
        /\ n = 102200 \/ m.len > n - 550

\* ibm_mfm_dd_longtrack_write_raw: the length of the type, or, for ibm_mfm_dd_unknown_length
\* (1), that of the type nearest; 0 is a track of another type.
LongBits(m, total) ==
    CASE m.long = 0 -> total
      [] m.long = 1 -> IF m.len <= 101100 THEN total ELSE NearestLong(m)
      [] OTHER -> m.long

Analysed ==
    LET n == Len(ibm_secs)
        type == medium.type
        free == DensityBits(type) - medium.len
                    + Sums([k \in 1..n |-> Distance(k) - PreSync(type)])[n]
        chosen == PostDataGap(type, medium.iam, free, n)
    IN  [type |-> type, iam |-> medium.iam, gap |-> chosen.gap,
         total |-> LongBits(medium, DensityBits(type) + chosen.grown),
         secs |-> [k \in 1..n |-> [idam |-> ibm_secs[k].idam, mark |-> ibm_secs[k].mark,
                                   good |-> ibm_secs[k].good, dat |-> ibm_secs[k].dat]]]

Account ==
    /\ pc = "over" /\ pc' = "done"
    /\ ti' = IF ibm_secs = <<>> \/ \E k \in 1..Len(ibm_secs) : Distance(k) < 0
             THEN NoTrack ELSE Analysed
    /\ UNCHANGED <<medium, past, id, ibm_secs, bad, wellRead, imd, kept>>

-----------------------------------------------------------------------------
(* imd_close and imd_open of the one track.                                 *)

\* The cylinders and heads of the sectors are saved if they are not those of the track.
Saved(t, cyl, head) ==
    [mode |-> t.type, cyl |-> cyl, head |-> head, no |-> t.secs[1].idam.no,
     cyls |-> IF \E k \in 1..Len(t.secs) : t.secs[k].idam.cyl # cyl
              THEN [k \in 1..Len(t.secs) |-> t.secs[k].idam.cyl] ELSE <<>>,
     heads |-> IF \E k \in 1..Len(t.secs) : t.secs[k].idam.head # head
               THEN [k \in 1..Len(t.secs) |-> t.secs[k].idam.head] ELSE <<>>,
     secs |-> [k \in 1..Len(t.secs) |->
                 [sec |-> t.secs[k].idam.sec, deleted |-> t.secs[k].mark # "DAM",
                  dat |-> t.secs[k].dat]]]

SameSizes(t) == \A k \in 1..Len(t.secs) : t.secs[k].idam.no = t.secs[1].idam.no

CloseImd ==
    /\ pc = "done" /\ kept = NoTrack /\ ti # NoTrack
    /\ kept' = ti /\ pc' = "closed" /\ ti' = NoTrack
    /\ imd' = IF ~Recovery(ti.type) /\ SameSizes(ti)
              THEN Saved(ti, medium.cyl, medium.head) ELSE NoFile
    /\ UNCHANGED <<medium, past, id, ibm_secs, bad, wellRead>>

\* Single density is given the length of double density.
SetupBits(type) == IF type = "ibm_mfm_hd" THEN DefaultBits * 2 ELSE DefaultBits

SetupFree(type, no, n) == SetupBits(type) - n * SectorBits(type, no)

\* setup_ibm_mfm_track
Setup(type, no, secs) ==
    LET chosen == PostDataGap(type, TRUE, SetupFree(type, no, Len(secs)), Len(secs))
    IN  [type |-> type, iam |-> TRUE, gap |-> chosen.gap,
         total |-> SetupBits(type) + chosen.grown, secs |-> secs]

Loaded(k) ==
    [idam |-> [cyl |-> IF imd.cyls = <<>> THEN imd.cyl ELSE imd.cyls[k],
               head |-> IF imd.heads = <<>> THEN imd.head ELSE imd.heads[k],
               sec |-> imd.secs[k].sec, no |-> imd.no],
     mark |-> IF imd.secs[k].deleted THEN "DDAM" ELSE "DAM",
     good |-> TRUE, dat |-> imd.secs[k].dat]

OpenImd ==
    /\ pc = "closed"
    /\ IF imd = NoFile
       THEN pc' = "done" /\ UNCHANGED ti
       ELSE IF SetupFree(imd.mode, imd.no, Len(imd.secs)) < 0
       THEN pc' = "refused" /\ UNCHANGED ti
       ELSE pc' = "done" /\ ti' = Setup(imd.mode, imd.no,
                                       [k \in 1..Len(imd.secs) |-> Loaded(k)])
    /\ UNCHANGED <<medium, past, id, ibm_secs, bad, wellRead, imd, kept>>

-----------------------------------------------------------------------------
(* ibm_mfm_read_raw and ibm_fm_read_raw.                                    *)

\* Bits before the k-th sector, from data_bitoff.
Ahead(t, k) ==
    (IF t.iam THEN IamBits(t.type) + 16 * t.gap ELSE 0)
    + Sums([m \in 1..Len(t.secs) |-> SectorBits(t.type, t.secs[m].idam.no) + 16 * t.gap])[k - 1]

Fits(t) == Ahead(t, Len(t.secs) + 1) <= t.total

\* Every sum is written anew, so what was bad is bad no longer.
Written(t) ==
    [type |-> t.type, len |-> t.total, iam |-> t.iam, wobble |-> {0}, long |-> 0,
     cyl |-> medium.cyl, head |-> medium.head,
     secs |-> [k \in 1..Len(t.secs) |->
            LET s == t.secs[k] IN
            [at |-> (Lead(t.type) + Ahead(t, k) + (IF Fm(t.type) THEN 0 ELSE PreSync(t.type)))
                        % t.total,
             data |-> ToData(t.type), cyl |-> s.idam.cyl, head |-> s.idam.head,
             sec |-> s.idam.sec, no |-> s.idam.no, mark |-> s.mark, crc |-> TRUE,
             dat |-> s.dat]]]

\* The track is written to a medium, and that is dumped without a misreading.
\* One that laps the track buffer leaves nothing to rely on.
Rewrite ==
    /\ pc = "done" /\ ti # NoTrack /\ bad <= MaxBad
    /\ kept' = IF kept = NoTrack THEN ti ELSE kept
    /\ medium' = IF Fits(ti) THEN Written(ti) ELSE [Written(ti) EXCEPT !.secs = <<>>]
    /\ pc' = "scan" /\ past' = 0 /\ id' = NoHeader /\ ibm_secs' = <<>> /\ wellRead' = {}
    /\ bad' = MaxBad + 1 /\ ti' = NoTrack /\ UNCHANGED imd

IbmInit ==
    /\ medium \in Media /\ pc = "scan" /\ past = 0 /\ id = NoHeader
    /\ ibm_secs = <<>> /\ wellRead = {} /\ bad = 0
    /\ ti = NoTrack /\ imd = NoFile /\ kept = NoTrack

IbmNext ==
    \/ ScanHeader \/ SourceEnds \/ DataMissing \/ HeaderAgain \/ ReadData \/ Account
    \/ CloseImd \/ OpenImd \/ Rewrite

IbmSpec == IbmInit /\ [][IbmNext]_ibmVars

-----------------------------------------------------------------------------
(* What is asked of a track that is to be copied: its data is no nearer to the headers   *)
(* than a formatter writes it, its sectors lie apart, and with gaps of 10 bytes they     *)
(* fill no more than the track that is chosen for them and that a clock can follow.      *)

Readable(s) == s.data # 0 /\ s.no <= 7
Span(s) == s.data + 16 * (Size(s.no) + 2)    \* from a header to the end of its data

\* From the end of one to the next are gap bits or more, round the track.
Apart(m, gap) ==
    \A i, k \in {n \in 1..Len(m.secs) : Readable(m.secs[n])} :
        IF i = k THEN Span(m.secs[i]) + gap <= m.len
        ELSE \A j, l \in m.wobble :
                ((m.secs[k].at + l) - (m.secs[i].at + j)) % m.len >= Span(m.secs[i]) + gap

\* Bits that its sectors, or some of them, take at the most with gaps of 10 bytes, where
\* the gaps were of gap bits or more.
Most(m, gap) ==
    LET more == 159 + PreSync(m.type) - gap
    IN  m.len + (IF more >= 0 THEN Len(m.secs) * more ELSE more)
            + (Lead(m.type) + 16 * 40 + 999) + IF m.iam THEN IamBits(m.type) + 160 ELSE 0

Wide(m, gap) ==
    LET most == IF Most(m, gap) < DensityBits(m.type) THEN DensityBits(m.type) ELSE Most(m, gap)
    IN  /\ most <= LongBits(m, most)
        /\ InStep([type |-> m.type, len |-> LongBits(m, most)])

Roomy(m) ==
    /\ m.iam \in BOOLEAN
    /\ \A i \in 1..Len(m.secs) : Readable(m.secs[i]) => m.secs[i].data >= ToData(m.type)
    /\ \E gap \in 0..m.len : Apart(m, gap) /\ Wide(m, gap)

-----------------------------------------------------------------------------
(* A sector that passed once without error is in the list exactly once,     *)
(* with its own data, however often and in whatever order its header and its data were   *)
(* misread in the other revolutions, and the list is in order of place: a   *)
(* bad copy found first gives way to a good one, a good one never to a bad  *)
(* one.  It is about the search of the list in ibm.c, and about media whose *)
(* headers keep clear of the index by more than they wobble.                *)
GoodReadingKept ==
    /\ \A i \in wellRead :
          LET at == {k \in 1..Len(ibm_secs) : ibm_secs[k].i = i}
          IN  \E k \in at :
                  at = {k} /\ ibm_secs[k].good /\ ibm_secs[k].dat = Sector(i).dat
    /\ \A k, l \in 1..Len(ibm_secs) : k < l => ibm_secs[k].offset < ibm_secs[l].offset

\* What an image has room for: a mark is deleted or not.
Told(mark) == IF imd # NoFile /\ mark # "DAM" THEN "DDAM" ELSE mark

(* A track that was analysed, written out by read_raw, at once or from an    *)
(* IMD image, and analysed again has the same sectors in the same order      *)
(* with the same data: it was long enough for them, its gaps left room for   *)
(* the marks to be told apart, and nothing was changed on the way.  It is    *)
(* about choose_post_data_gap, setup_ibm_mfm_track and imd.c.  A track of    *)
(* single density does not come back from an IMD image (see SetupBits).      *)
CopyKeeps ==
    pc = "done" /\ kept # NoTrack /\ (bad > MaxBad \/ imd # NoFile)
        /\ ~(imd # NoFile /\ kept.type = "ibm_fm_sd")
    => /\ ti # NoTrack
       /\ ti.iam = (kept.iam \/ imd # NoFile)
       /\ ti.secs = [k \in 1..Len(kept.secs) |->
                       [kept.secs[k] EXCEPT !.mark = Told(@), !.good = TRUE]]
=============================================================================
