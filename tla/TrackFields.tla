---------------------------- MODULE TrackFields ----------------------------
(***************************************************************************)
(* The vocabulary the track handlers of libdisk/format are described in.   *)
(* A track is a sequence of fields.  A field has a layout (how the bits    *)
(* lie on the medium), a kind (what the handler does with it), a value or  *)
(* name, the names a checksum covers, and the sector it belongs to.        *)
(*                                                                         *)
(* read_raw of a handler emits fields; write_raw takes them back: it scans *)
(* for a sync, then reads groups of fields and checks them.  Both lists    *)
(* use the same vocabulary and are translated apart, one from each         *)
(* function, so that they can disagree as the two functions can.           *)
(***************************************************************************)
EXTENDS Integers, Sequences, FiniteSets, SequencesExt

Whole == -1    \* the sector of a field that belongs to no single sector

(* Layouts: coding, bits coded together, and bits on the medium. *)
Raw(n)     == [e |-> "raw", g |-> 0, b |-> n]
MFM(n)     == [e |-> "mfm", g |-> 0, b |-> 2 * n]
EO(n)      == [e |-> "eo", g |-> n, b |-> 2 * n]
OE(n)      == [e |-> "oe", g |-> n, b |-> 2 * n]
EOs(c, n)  == [e |-> "eo", g |-> n, b |-> 2 * n * c]
OEs(c, n)  == [e |-> "oe", g |-> n, b |-> 2 * n * c]
Filler(n)  == [e |-> "fill", g |-> 0, b |-> n]

Field(layout, kind, value, over) ==
    [l |-> layout, k |-> kind, v |-> value, o |-> over, s |-> Whole]

(* Kinds: a value known beforehand, compared; bits not looked at; data      *)
(* stored in the track's block; data that holds its own checksum or has a   *)
(* known one; the sector number; a checksum over named fields; a run of at  *)
(* least so many bits of one pattern.                                       *)
Is(l, v)          == Field(l, "is", v, {})
Skip(l, v)        == Field(l, "skip", v, {})
Keep(l, v)        == Field(l, "keep", v, {})
Sealed(l, v)      == Field(l, "sealed", v, {})
Sec(l)            == Field(l, "sec", "sec", {})
Check(l, v, over) == Field(l, "sum", v, over)
Fill(n, v)        == Field(Filler(n), "fill", v, {})

Is16(v) == Is(Raw(16), v)
Words(ws) == [i \in DOMAIN ws |-> Is16(ws[i])] \o <<>>
Pad(n, v) == <<Skip(MFM(n), v)>>    \* n bits of gap
IdamMark == <<"4489", "4489", "4489", "5554">>    \* A1 A1 A1 FE
DamMark  == <<"4489", "4489", "4489", "5545">>    \* A1 A1 A1 FB

(* fields for each of sectors 0..n-1 *)
Tag(fields, sector) == [j \in DOMAIN fields |-> [fields[j] EXCEPT !.s = sector]] \o <<>>
SectorsBy(n, F(_)) == FlattenSeq([i \in 1 .. n |-> Tag(F(i - 1), i - 1)])
Sectors(n, fields) == SectorsBy(n, LAMBDA i : fields)
Copies(n, fields) == FlattenSeq([i \in 1 .. n |-> fields])

(* A group of write_raw: fields streamed in together and then checked.  On *)
(* a mismatch Read scans on for the next sync ("continue"), Need gives up  *)
(* ("goto fail"), Again scans for the mark last sought.  Seek scans for a  *)
(* further mark, which must come within so many bits; Find has no limit.   *)
NoLimit == -1
Group(fields, seek, within, bad) ==
    [f |-> fields, seek |-> seek, within |-> within, bad |-> bad]
Read(fields) == Group(fields, {}, 0, "next")
Need(fields) == Group(fields, {}, 0, "stop")
Again(fields) == Group(fields, {}, 0, "seek")
Seek(marks, within) == Group(<<>>, marks, within, "next")
Find(marks) == Group(<<>>, marks, NoLimit, "next")

(* groups once for each of sectors 0..n-1 *)
PerSectorBy(n, G(_)) ==
    FlattenSeq([i \in 1 .. n |->
        LET groups == G(i - 1) IN
        [j \in DOMAIN groups |-> [groups[j] EXCEPT !.f = Tag(@, i - 1)]]])
PerSector(n, groups) == PerSectorBy(n, LAMBDA i : groups)

(* bits before each field of a sequence, and before what would follow: the  *)
(* ends of n fields from a are those of its two halves (TLC's stack is short) *)
Offsets(fields) ==
    LET ends[a \in 1 .. Len(fields), n \in 1 .. Len(fields)] ==
            IF n = 1 THEN <<fields[a].l.b>>
            ELSE LET k == n \div 2
                     left == ends[a, k]
                     right == ends[a + k, n - k]
                 IN  left \o [i \in 1 .. n - k |-> left[k] + right[i]]
    IN  <<0>> \o (IF fields = <<>> THEN <<>> ELSE ends[1, Len(fields)])
Bits(fields) == Offsets(fields)[Len(fields) + 1]

(* track_info.total_bits unless the handler sets it: 100150*300/rpm at 300 *)
DefaultBits == 100150
MeasuredBits == {}   \* total_bits = track_len_bc: whatever the source has

(***************************************************************************)
(* A handler, with the values most of them share:                          *)
(*   sync   the patterns of 16-bit words write_raw scans for               *)
(*   back   data_bitoff is index_offset_bc - back                          *)
(*   mark   which syncs set data_bitoff: "sync" every candidate, "zero"    *)
(*          that of sector 0, "taken" that of a sector taken, "first" that *)
(*          of the first one taken, "least" that of the lowest sector, put *)
(*          back by stride bits a sector; "fixed" a constant instead;      *)
(*          "none": only the second scan sets it                           *)
(*   mode   "once": the groups of take are the whole track;                *)
(*          "each": of one sector, and the scan goes on until all are read *)
(*   need   "each" only, when the source ends: "all" sectors are needed;   *)
(*          "any" will do; "clean": any, but a sector cut short is NULL    *)
(*   must   "each" only: sectors the block cannot do without              *)
(*   nsec   nr_sectors; 1 also where the handler leaves it 0               *)
(*   open   stored fields that no check of the handler covers              *)
(*   bysync the sync alone says which sector it is                         *)
(*   order  sectors are numbered in the order they are found               *)
(*   bare   no check covers the sector number                              *)
(*   take   the groups write_raw reads after a sync                        *)
(*   then   groups that differ by sector, read after take                  *)
(*   after  a second scan once the first has what it can get, where there *)
(*          is one: a sequence of one record made by After                *)
(*   emit   the fields read_raw writes                                     *)
(*   total  the values write_raw may leave in total_bits                   *)
(*   long   the bits the track must have (check_length)                    *)
(***************************************************************************)
Handler == [sync |-> {}, back |-> 15, mark |-> "sync", mode |-> "once",
            need |-> "all", must |-> {}, nsec |-> 1, bysync |-> FALSE, order |-> FALSE, bare |-> FALSE,
            stride |-> 0, open |-> {}, take |-> <<>>,
            then |-> <<>>, after |-> <<>>, emit |-> <<>>, total |-> {DefaultBits}, long |-> 0]

(* The second scan; reset: it starts with stream_reset; sets: it sets       *)
(* data_bitoff, index_offset_bc - back.                                     *)
After(reset, sync, sets, back, take) ==
    <<[reset |-> reset, sync |-> sync, sets |-> sets, back |-> back, take |-> take]>>
=============================================================================
