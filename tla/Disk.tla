-------------------------------- MODULE Disk --------------------------------
(***************************************************************************)
(* libdisk's open disk (libdisk/disk.c) and the containers it is kept in:     *)
(* DSK (container/dsk.c), ADF (adf.c) and extended ADF (eadf.c).  A disk is    *)
(* created or opened, its tracks are analysed from a stream or from sectors,   *)
(* metadata tags are attached, and close writes the image file back.          *)
(*                                                                         *)
(* A file is a sequence of chunks, each a header, a tag or a track's data; a   *)
(* chunk read beyond its end is all zeros, as read_exact leaves it.  What a format handler       *)
(* makes of a stream is open: any data, any sectors found, any length.         *)
(***************************************************************************)
EXTENDS Integers, FiniteSets, SequencesExt

CONSTANTS
    Names,          \* file name suffixes: a subset of {"dsk", "adf", "eadf"}
    NrTracks,       \* suffix -> number of tracks of a new disk
    Handlers,       \* type -> [secs, ados, writes]: number of sectors, whether it
                    \* can be saved as ADF, and whether it takes sectors
    Blank,          \* what read_exact leaves of data that is not there
    Bad,            \* "-=[BAD SECTOR]=-", what ADF keeps of other formats
    Payloads,       \* what a track's data may be: non-empty tuples
    SavedSectors,   \* sectors whose validity a DSK track header has room for
    TagIds,         \* tags a handler may set, all below EndTag
    SwizzledIds,    \* the tags that tag_swizzle knows
    TagValues,
    EndTag,         \* DSKTAG_end
    DefaultBits,    \* DEFAULT_BITS_PER_TRACK
    Weak,           \* TRK_WEAK: -1 as a signed length
    Lengths,        \* total_bits a handler may set, 0 and Weak among them
    Offsets,        \* data_bitoff a handler may set, negative ones among them
    Seen,           \* track_len_bc a stream may report
    MaxChanges      \* bound: tracks written and tags set while a disk is open

ASSUME TagAssumption ==
    /\ EndTag \in Nat /\ TagIds \subseteq 0..(EndTag - 1)
    /\ TagValues \subseteq Seq(Nat)
ASSUME LengthAssumption ==
    /\ Weak = -1 /\ DefaultBits \in Nat /\ DefaultBits > 1
    /\ Seen \subseteq Nat /\ MaxChanges \in Nat
    /\ Lengths \subseteq Nat \cup {Weak} /\ Offsets \subseteq Int
ASSUME FormatAssumption ==
    /\ Names \subseteq {"dsk", "adf", "eadf"} /\ \A n \in {"dsk", "adf", "eadf"} : NrTracks[n] \in Nat
    /\ {"unformatted", "raw_dd", "amigados"} \subseteq DOMAIN Handlers
    /\ \A type \in DOMAIN Handlers : Handlers[type].secs \in Nat
    /\ ~Handlers["unformatted"].ados /\ Handlers["amigados"].ados
    /\ <<>> \notin Payloads \cup {Blank, Bad}

VARIABLES
    name,           \* the image's suffix
    file,           \* its contents
    pc,             \* "closed", "open", "closing" or "spinning"
    container, readOnly, tracks, tags,      \* struct disk
    todo,           \* what close has still to write
    saved,          \* history: the disk as it was last closed, until it is changed
    whole,          \* history: the file is what a completed close left
    changes,        \* history: changes since the open
    lastTag,        \* history: the last tag set on this disk
    listed          \* history: whether its tag list was given its end marker

vars == <<name, file, pc, container, readOnly, tracks, tags, todo, saved, whole,
          changes, lastTag, listed>>

NoDat == <<>>
NotSaved == [by |-> "none"]
NoTag == [id |-> EndTag, val |-> <<>>]
Types == DOMAIN Handlers

-----------------------------------------------------------------------------
(* Tracks. *)

\* init_track_info, from a zeroed structure; the type's usual length.
InitTrack(type) ==
    [type |-> type, secs |-> Handlers[type].secs, valid |-> {}, dat |-> NoDat,
     len |-> IF type = "unformatted" THEN 0 ELSE 1, off |-> 0, total |-> 0]

\* track_mark_unformatted
Unformatted == [InitTrack("unformatted") EXCEPT !.total = Weak]

\* set_all_sectors_valid
AllValid(n) == 0..(n - 1)

\* adf_init_track, and the data read into it.
AdfTrack(d) ==
    [InitTrack("amigados") EXCEPT !.dat = d, !.off = 1, !.total = DefaultBits,
                                  !.valid = AllValid(Handlers["amigados"].secs)]

\* setup_uniform_raw_track, as eadf_open calls it.
RawTrack(bits) ==
    [InitTrack("raw_dd") EXCEPT !.dat = bits.dat, !.total = bits.len]

\* The length of the bits that track_read_raw produces.
BitLen(tr) == IF tr.total = Weak THEN DefaultBits ELSE tr.total

\* The bits themselves: a raw track holds them, another format encodes its data.
RawBits(tr) ==
    [dat |-> IF tr.type = "raw_dd" THEN tr.dat ELSE <<tr.type, tr.dat, tr.valid>>,
     len |-> BitLen(tr)]

\* The sector data adf_close finds in a track.
AdosData(tr) == IF Handlers[tr.type].ados THEN tr.dat ELSE Bad

-----------------------------------------------------------------------------
(* Tags. *)

\* tag_swizzle: between the host's byte order and the file's.
Swizzle(tag) ==
    IF tag.id \in SwizzledIds THEN [tag EXCEPT !.val = Reverse(@)] ELSE tag

End == [id |-> EndTag, val |-> <<>>]

\* Mutant of TagPlace: the end marker is not a place to link before.
TagPlace_NotAtEnd(id) ==
    SelectInSeq(tags, LAMBDA t : t.id >= id /\ t.id # EndTag)

\* The position at which disk_set_tag links a tag: the first that is not below.
TagPlace(id) == SelectInSeq(tags, LAMBDA t : t.id >= id)

\* disk_get_tag_by_id
TagById(id) ==
    LET n == SelectInSeq(tags, LAMBDA t : t.id = id)
    IN  IF n = 0 THEN NoTag ELSE tags[n]

-----------------------------------------------------------------------------
(* Images. *)

\* The tracks that have data, and the k-th of a set of tracks.
WithData(ts) == {i \in 1..Len(ts) : ts[i].len # 0}
Formatted(ts) == {i \in 1..Len(ts) : ts[i].type # "unformatted"}
Nth(I, k) == CHOOSE i \in I : Cardinality({j \in I : j <= i}) = k

\* Mutant of DataOff: the tags are not counted.
DataOff_NoTags(ts, tgs, i) == 1 + Len(ts) + Cardinality({j \in WithData(ts) : j < i})

\* dsk_close: where each track's data lies.
DataOff(ts, tgs, i) ==
    1 + Len(ts) + Len(tgs) + Cardinality({j \in WithData(ts) : j < i})

DskTrackHeader(ts, tgs, i) ==
    [k |-> "th", type |-> ts[i].type, secs |-> ts[i].secs,
     valid |-> ts[i].valid \cap AllValid(SavedSectors),
     at |-> DataOff(ts, tgs, i), len |-> ts[i].len, off |-> ts[i].off,
     total |-> ts[i].total]

Data(d) == [k |-> "data", dat |-> d]

DskImage(ts, tgs) ==
    <<[k |-> "dsk", n |-> Len(ts)]>>
    \o [i \in 1..Len(ts) |-> DskTrackHeader(ts, tgs, i)]
    \o [i \in 1..Len(tgs) |-> [k |-> "tag", tag |-> Swizzle(tgs[i])]]
    \o [k \in 1..Cardinality(WithData(ts)) |-> Data(ts[Nth(WithData(ts), k)].dat)]

AdfImage(ts) == [i \in 1..Len(ts) |-> Data(AdosData(ts[i]))]

\* eadf_close: a header each, and the bits of the tracks that have any.
EadfImage(ts) ==
    <<[k |-> "eadf", n |-> Len(ts)]>>
    \o [i \in 1..Len(ts) |->
          [k |-> "eth", ados |-> FALSE,
           len |-> IF ts[i].type = "unformatted" THEN 0 ELSE BitLen(ts[i])]]
    \o [k \in 1..Cardinality(Formatted(ts)) |->
          Data(RawBits(ts[Nth(Formatted(ts), k)]).dat)]

Image(c, ts, tgs) ==
    CASE c = "dsk"  -> DskImage(ts, tgs)
      [] c = "adf"  -> AdfImage(ts)
      [] c = "eadf" -> EadfImage(ts)

\* What each container promises to keep of a track, and of a disk: a DSK track
\* header has no room for the validity of the sectors beyond the first 64.
KeptTrack(c, tr) ==
    CASE c = "dsk"  -> <<tr.type, tr.secs, tr.dat, tr.off, tr.total,
                         tr.valid \cap AllValid(SavedSectors)>>
      [] c = "adf"  -> <<AdosData(tr)>>
      [] c = "eadf" -> IF tr.type = "unformatted" THEN <<>> ELSE <<RawBits(tr)>>

KeptOf(c, ts, tgs) ==
    [by |-> c, tags |-> IF c = "dsk" THEN tgs ELSE <<>>,
     tracks |-> [i \in 1..Len(ts) |-> KeptTrack(c, ts[i])]]

Kept == KeptOf(container, tracks, tags)

-----------------------------------------------------------------------------
(* Reading an image. *)

Zeros == [k |-> "zeros"]
Chunk(n) == IF n \in 1..Len(file) THEN file[n] ELSE Zeros
DataAt(n) == IF Chunk(n).k = "data" THEN Chunk(n).dat ELSE Blank

\* A zeroed track header is of type 0, unformatted; the first tag of zeros is
\* followed by zeros for ever.
DskTrack(th) ==
    IF th = Zeros THEN InitTrack("unformatted")
    ELSE [type |-> th.type, secs |-> th.secs, valid |-> th.valid,
          dat |-> IF th.len = 0 THEN NoDat ELSE DataAt(th.at + 1),
          len |-> th.len, off |-> th.off, total |-> th.total]

DskTracks == [i \in 1..Chunk(1).n |-> DskTrack(Chunk(1 + i))]

\* The tags up to the end marker; <<>> if there is none.
DskTags ==
    LET n    == 1 + Chunk(1).n
        ends == {m \in (n + 1)..Len(file) : file[m] = [k |-> "tag", tag |-> End]}
    IN  IF ends = {} THEN <<>>
        ELSE LET last == CHOOSE m \in ends : \A x \in ends : m <= x
             IN  [i \in 1..(last - n) |-> Swizzle(file[n + i].tag)]

\* An extended ADF of another program may hold plain AmigaDOS tracks too.
ForeignEadf(d) ==
    <<[k |-> "eadf", n |-> 2], [k |-> "eth", ados |-> FALSE, len |-> DefaultBits],
      [k |-> "eth", ados |-> TRUE, len |-> 1], Data(d), Data(d)>>

\* eadf_open: the data follows in the order of the tracks that have any.
EadfTracks ==
    LET n == Chunk(1).n
        th(i) == Chunk(1 + i)
        at(i) == 2 + n + Cardinality({j \in 1..(i - 1) : th(j).len # 0})
    IN  [i \in 1..n |->
           IF th(i).len = 0 THEN Unformatted
           ELSE IF th(i).ados THEN AdfTrack(DataAt(at(i)))
           ELSE RawTrack([dat |-> DataAt(at(i)), len |-> th(i).len])]

-----------------------------------------------------------------------------
\* The file is absent, or was written by another program: an extended ADF may
\* carry either suffix.
Init ==
    /\ name \in Names
    /\ file \in {<<>>} \cup
                (IF name = "dsk" THEN {}
                 ELSE {ForeignEadf(d) : d \in Payloads})
    /\ pc = "closed" /\ container = "none" /\ readOnly = FALSE
    /\ tracks = <<>> /\ tags = <<>> /\ todo = <<>>
    /\ saved = NotSaved /\ whole = FALSE /\ changes = 0 /\ lastTag = NoTag /\ listed = FALSE

\* Mutant of Create: the tag list is left empty.
Create_NoEnd ==
    /\ pc = "closed"
    /\ file' = <<>> /\ saved' = NotSaved /\ whole' = FALSE
    /\ pc' = "open" /\ container' = name /\ readOnly' = FALSE
    /\ tracks' = [i \in 1..NrTracks[name] |-> Unformatted]
    /\ tags' = <<>> /\ listed' = FALSE
    /\ changes' = 0 /\ lastTag' = NoTag
    /\ UNCHANGED <<name, todo>>

\* disk_create: the file is truncated at once.
Create ==
    /\ pc = "closed"
    /\ file' = <<>> /\ saved' = NotSaved /\ whole' = FALSE
    /\ pc' = "open" /\ container' = name /\ readOnly' = FALSE
    /\ tracks' = [i \in 1..NrTracks[name] |-> Unformatted]
    /\ tags' = <<End>> /\ listed' = TRUE
    /\ changes' = 0 /\ lastTag' = NoTag
    /\ UNCHANGED <<name, todo>>

Opened(c, ts, tgs) ==
    /\ pc' = "open" /\ container' = c /\ tracks' = ts /\ tags' = tgs
    /\ listed' = (tgs # <<>>)
    /\ changes' = 0 /\ lastTag' = NoTag

\* Containers that accept the file; every other file is "Bad disk image".
OpenDsk ==
    /\ name = "dsk" /\ Chunk(1).k = "dsk" /\ DskTags # <<>>
    /\ Opened("dsk", DskTracks, DskTags)

\* Mutant of OpenAdf: the size is not checked.
OpenAdf_AnySize ==
    /\ name = "adf" /\ Chunk(1).k = "data"
    /\ Opened("adf", [i \in 1..Len(file) |-> AdfTrack(file[i].dat)], <<End>>)

OpenAdf ==
    /\ name = "adf" /\ Chunk(1).k = "data" /\ Len(file) = NrTracks["adf"]
    /\ Opened("adf", [i \in 1..Len(file) |-> AdfTrack(file[i].dat)], <<End>>)

\* An .adf file with an extended signature is handed over.  A track header of
\* zeros is one of an AmigaDOS track that is too short, and is refused.
OpenEadf ==
    /\ name \in {"adf", "eadf"} /\ Chunk(1).k = "eadf"
    /\ \A i \in 1..Chunk(1).n : Chunk(1 + i) # Zeros
    /\ Opened("eadf", EadfTracks, <<>>)

Open(ro) ==
    /\ pc = "closed"
    /\ OpenDsk \/ OpenAdf \/ OpenEadf
    /\ readOnly' = ro
    /\ UNCHANGED <<name, file, todo, saved, whole>>

\* dsk_open of a file cut short before the end of its tags reads zeros for ever.
OpenSpins ==
    /\ pc = "closed" /\ name = "dsk" /\ Chunk(1).k = "dsk" /\ DskTags = <<>>
    /\ pc' = "spinning"
    /\ UNCHANGED <<name, file, container, readOnly, tracks, tags, todo, saved,
                   whole, changes, lastTag, listed>>

-----------------------------------------------------------------------------
SetTrack(i, tr) ==
    /\ tracks' = [tracks EXCEPT ![i] = tr]
    /\ changes < MaxChanges
    /\ changes' = changes + 1 /\ saved' = NotSaved
    /\ UNCHANGED <<name, file, pc, container, readOnly, tags, todo, whole, lastTag,
                   listed>>

\* The end of dsk_write_raw: the handler's length, or what the stream measured,
\* and the offset brought into the track.  A C remainder has its dividend's sign.
CRem(a, b) == IF a >= 0 THEN a % b ELSE -((-a) % b)

FinalLength(total, seen) ==
    IF total # 0 THEN total ELSE IF seen # 0 THEN seen ELSE DefaultBits

\* Mutant of FinalOffset: a negative remainder is left negative.
FinalOffset_Negative(off, total) == IF total = Weak THEN 0 ELSE CRem(off, total)

FinalOffset(off, total) ==
    LET r == IF total = Weak THEN 0 ELSE CRem(off, total)
    IN  IF r < 0 THEN r + total ELSE r

\* track_write_raw: the handler finds data in the stream; it may turn out to be
\* of a type akin to the one asked for, and only some sectors may be readable.
WriteRaw(i, type, d, valid, total, off, seen) ==
    /\ pc = "open"
    /\ valid \subseteq AllValid(Handlers[type].secs)
    /\ SetTrack(i, [InitTrack(type) EXCEPT
                      !.dat = d, !.valid = valid,
                      !.total = FinalLength(total, seen),
                      !.off = FinalOffset(off, FinalLength(total, seen))])

\* Mutant of WriteRawFails: the data is freed, and the rest left as it was.
WriteRawFails_Half(i) == pc = "open" /\ SetTrack(i, [tracks[i] EXCEPT !.dat = NoDat])

\* The stream has no such track or it does not hold the format, sectors are given
\* to a format that takes none, or the track is marked or found unformatted.
WriteRawFails(i) == pc = "open" /\ SetTrack(i, Unformatted)

\* track_write_sectors, into a format that takes them.
WriteSectors(i, type, d) ==
    /\ pc = "open" /\ Handlers[type].writes
    /\ SetTrack(i, [InitTrack(type) EXCEPT !.dat = d, !.total = DefaultBits,
                                           !.valid = AllValid(Handlers[type].secs)])

\* disk_set_tag: in ascending order, replacing the tag of the same id.  A list
\* without a tag that is not below has no place for it.
SetTag(id, val) ==
    LET n   == TagPlace(id)
        new == [id |-> id, val |-> val]
    IN  /\ pc = "open" /\ changes < MaxChanges
        /\ tags' = IF n = 0 THEN tags
                   ELSE IF tags[n].id = id THEN ReplaceAt(tags, n, new)
                   ELSE InsertAt(tags, n, new)
        /\ lastTag' = new /\ changes' = changes + 1 /\ saved' = NotSaved
        /\ UNCHANGED <<name, file, pc, container, readOnly, tracks, todo, whole,
                       listed>>

-----------------------------------------------------------------------------
Gone ==
    /\ pc' = "closed" /\ container' = "none" /\ readOnly' = FALSE
    /\ tracks' = <<>> /\ tags' = <<>> /\ todo' = <<>>
    /\ changes' = 0 /\ lastTag' = NoTag /\ listed' = FALSE

\* disk_close of a disk opened read-only.
Discard == pc = "open" /\ readOnly /\ Gone /\ UNCHANGED <<name, file, saved, whole>>

\* disk_close: truncate, then write.
CloseBegin ==
    /\ pc = "open" /\ ~readOnly
    /\ pc' = "closing" /\ file' = <<>> /\ todo' = Image(container, tracks, tags)
    /\ saved' = NotSaved /\ whole' = FALSE /\ changes' = 0
    /\ UNCHANGED <<name, container, readOnly, tracks, tags, lastTag, listed>>

CloseWrite ==
    /\ pc = "closing" /\ todo # <<>>
    /\ file' = Append(file, Head(todo)) /\ todo' = Tail(todo)
    /\ whole' = (todo' = <<>>)
    /\ saved' = IF whole' THEN Kept ELSE saved
    /\ UNCHANGED <<name, pc, container, readOnly, tracks, tags, changes, lastTag, listed>>

CloseEnd ==
    /\ pc = "closing" /\ todo = <<>>
    /\ Gone /\ UNCHANGED <<name, file, saved, whole>>

\* The process dies, of an error (err(1) in write_exact) or from outside.
Crash == pc # "closed" /\ Gone /\ UNCHANGED <<name, file, saved, whole>>

-----------------------------------------------------------------------------
Write ==
    \E i \in 1..Len(tracks) :
        \/ WriteRawFails(i)
        \/ \E type \in Types \ {"unformatted"}, d \in Payloads :
             \/ WriteSectors(i, type, d)
             \/ \E total \in Lengths, off \in Offsets, seen \in Seen :
                \E valid \in SUBSET AllValid(Handlers[type].secs) :
                    WriteRaw(i, type, d, valid, total, off, seen)

Next ==
    \/ Create \/ (\E ro \in BOOLEAN : Open(ro)) \/ OpenSpins
    \/ Write
    \/ \E id \in TagIds, val \in TagValues : SetTag(id, val)
    \/ Discard \/ CloseBegin \/ CloseWrite \/ CloseEnd
    \/ Crash

Spec == Init /\ [][Next]_vars

-----------------------------------------------------------------------------
\* A disk is there while it is open, and never while it is not.
TypeOK ==
    /\ name \in Names /\ pc \in {"closed", "open", "closing", "spinning"}
    /\ container \in {"none", "dsk", "adf", "eadf"}
    /\ (container # "none") = (pc \in {"open", "closing"})
    /\ readOnly \in BOOLEAN /\ changes \in 0..MaxChanges /\ listed \in BOOLEAN
    /\ \A i \in 1..Len(tracks) :
         /\ tracks[i].type \in Types
         /\ tracks[i].valid \subseteq AllValid(tracks[i].secs)
         /\ tracks[i].len # 0 <=> tracks[i].dat # NoDat

JustOpened == pc = "open" /\ changes = 0 /\ file # <<>>

\* What a container saved at close is what the next open finds, through the
\* offsets of dsk_close, the byte order of the tags, the bitmap of valid sectors, the
\* raw bits of an extended ADF and the sector data of a plain one.
ReopenKeeps == JustOpened /\ saved # NotSaved => Kept = saved

\* An image that was closed is never refused or hung on.
ClosedImageOpens == pc = "closed" /\ whole => ENABLED Open(TRUE)

\* A plain ADF whose close was cut short is refused for its size (adf_open).
NoTornAdf == JustOpened /\ container = "adf" => whole

\* The tag list is in ascending order, without duplicates, and ends with its
\* marker, which disk_set_tag and dsk_open's loop rely on, and a tag that was set
\* is found again (disk_get_tag_by_id).  eadf_open never begins the list.
TagsKept ==
    /\ \A i, j \in 1..Len(tags) : i < j => tags[i].id < tags[j].id
    /\ container # "none" =>
         tags = IF listed THEN Append(Front(tags), End) ELSE <<>>
    /\ listed /\ lastTag # NoTag => TagById(lastTag.id) = lastTag

\* A track's data begins within the track (track_read_raw hands the offset and
\* the length to tbuf_init, which counts from one to the other).
OffsetInTrack ==
    \A i \in 1..Len(tracks) :
        tracks[i].dat # NoDat =>
            tracks[i].off \in 0 .. (IF tracks[i].total = Weak THEN 0 ELSE tracks[i].total - 1)

\* A track of the disk is as its type says, and its data lies in it, whichever call or
\* container it came from (init_track_info, dsk_open, eadf_open, adf_open).
TracksSound == TypeOK /\ OffsetInTrack
=============================================================================
