------------------------------ MODULE Analyse ------------------------------
(***************************************************************************)
(* The disk-analyse program (disk-analyse/): it looks up a format in the     *)
(* config file (config.c), which gives each track a list of formats to try,  *)
(* and then analyses a stream track by track (handle_stream) or imports a    *)
(* sector image (handle_img).                                              *)
(*                                                                         *)
(* A config file is a sequence of lines, of which the lexer's tokens are the  *)
(* fields.  Whether a handler accepts a track is a property of the dump:     *)
(* "no", "part" when some of the sectors are missing, or "full".            *)
(***************************************************************************)
EXTENDS Integers, SequencesExt, FiniteSets

CONSTANTS
    Files,          \* file name -> lines: [k, ...] with k one of include (file),
                    \* alias (name, to), def (name), range (start, end, step,
                    \* fmts) and other, which covers comments and warnings
    Main,           \* the config file
    Specs,          \* the formats asked for
    NrTracks,       \* NR_TRACKS, the tracks of a definition
    FirstTrack, LastTrack, TrackStep,       \* the tracks handled
    Unwarned,       \* 160: no warning from this track on
    Formats,        \* the formats libdisk knows
    Dumps,          \* bound: the dumps, track -> format -> outcome
    SectorBytes,    \* format -> bytes of a track, 0 if it takes no sectors
    ImageBytes,     \* bound: the sizes of sector images
    ClearBadSectors

ASSUME TracksAssumption ==
    /\ FirstTrack \in Nat /\ TrackStep \in Nat \ {0} /\ Unwarned \in Nat
    /\ LastTrack \in Nat /\ NrTracks \in Nat /\ LastTrack < NrTracks

\* What the lexer and the list of handlers see to.
ASSUME ConfigAssumption ==
    /\ Main \in DOMAIN Files
    /\ \A f \in DOMAIN Files :
         /\ Len(Files[f]) \in Nat /\ DOMAIN Files[f] = 1..Len(Files[f])
         /\ \A n \in DOMAIN Files[f] :
              /\ Files[f][n].k \in {"include", "alias", "def", "range", "other"}
              /\ Files[f][n].k = "include" => Files[f][n].file \in DOMAIN Files
              /\ Files[f][n].k = "range" => Files[f][n].fmts \in Seq(STRING)
    /\ "unformatted" \notin Formats

VARIABLES
    pc,             \* "search", "ranges", "stream", "check", "img", or the end:
                    \* "done", "error", "nomatch", "spinning"
    input, dump,    \* what is analysed: "stream" or "img", and its tracks
    spec, stack,    \* the format searched for; open files, the innermost first
    found,          \* history: where its definition begins
    formats, lists, \* track -> list; a list has entries and a position
    t, j,           \* the track in hand, and formats tried on it
    left,           \* bytes of the sector image not yet used
    disk,           \* track -> [type, bad]
    unidentified

parseVars == <<spec, stack, found, formats>>
vars == <<pc, input, dump, parseVars, lists, t, j, left, disk, unidentified>>

AllTracks == 0..(NrTracks - 1)
Handled == {i \in FirstTrack..LastTrack : (i - FirstTrack) % TrackStep = 0}

Null == 0
Ignored == -1
Unformatted == [type |-> "unformatted", bad |-> FALSE]

Init ==
    /\ pc = "search" /\ input \in {"stream", "img"} /\ dump \in Dumps
    /\ spec \in Specs /\ stack = <<[file |-> Main, line |-> 1]>>
    /\ found = [file |-> Main, line |-> 0]
    /\ formats = [i \in AllTracks |-> Null] /\ lists = <<>>
    /\ t = FirstTrack /\ j = 0
    /\ left \in IF input = "img" THEN ImageBytes ELSE {0}
    /\ disk = [i \in Handled |-> Unformatted] /\ unidentified = 0

-----------------------------------------------------------------------------
(* parse_config: the search, through included files. *)

Line(f, n) == IF n <= Len(Files[f]) THEN Files[f][n] ELSE [k |-> "eof"]
Here == Line(Head(stack).file, Head(stack).line)
NextLine == [stack EXCEPT ![1].line = @ + 1]

Searching(k) ==
    /\ pc = "search" /\ Here.k = k
    /\ UNCHANGED <<input, dump, formats, lists, t, j, left, disk, unidentified>>

Named(k) == Searching(k) /\ Here.name = spec

PassOver ==
    /\ \E k \in {"alias", "def", "range", "other"} : Searching(k)
    /\ Here.k \in {"alias", "def"} => Here.name # spec
    /\ stack' = NextLine
    /\ UNCHANGED <<pc, spec, found>>

Include ==
    /\ Searching("include")
    /\ stack' = <<[file |-> Here.file, line |-> 1]>> \o NextLine
    /\ UNCHANGED <<pc, spec, found>>

\* Mutant of Alias: the search ends with the alias.
Alias_NotFollowed ==
    /\ Named("alias")
    /\ pc' = "ranges"
    /\ found' = Head(stack)
    /\ stack' = NextLine
    /\ UNCHANGED spec

\* The search goes on, for the other name, from the next line.
Alias ==
    /\ Named("alias")
    /\ spec' = Here.to /\ stack' = NextLine
    /\ UNCHANGED <<pc, found>>

Found ==
    /\ Named("def")
    /\ pc' = "ranges"
    /\ found' = Head(stack)
    /\ stack' = NextLine
    /\ UNCHANGED spec

EndOfFile ==
    /\ Searching("eof")
    /\ IF Len(stack) > 1 THEN stack' = Tail(stack) /\ UNCHANGED pc
                         ELSE pc' = "nomatch" /\ UNCHANGED stack
    /\ UNCHANGED <<spec, found>>

-----------------------------------------------------------------------------
(* parse_config: the definition, a list of formats for each range of tracks. *)

Covers(range) ==
    {i \in range.start..range.end : (i - range.start) % range.step = 0}

IsIgnore(range) == range.fmts = <<"ignore">>

Wrong(range) ==
    \/ range.start >= NrTracks \/ range.end >= NrTracks
    \/ range.fmts = <<>>
    \/ ~IsIgnore(range) /\ ~(ToSet(range.fmts) \subseteq Formats)

Defining ==
    pc = "ranges" /\ UNCHANGED <<input, dump, spec, found, t, j, left, disk,
                                 unidentified>>

\* Mutant of TakeRange: a later range replaces an earlier one.
TakeRange_LastWins ==
    /\ Defining /\ Here.k = "range" /\ ~Wrong(Here) /\ Here.step > 0
    /\ lists' = IF IsIgnore(Here) THEN lists
                ELSE Append(lists, [ent |-> Here.fmts, pos |-> 0])
    /\ formats' = [i \in AllTracks |->
                     IF i \notin Covers(Here) THEN formats[i]
                     ELSE IF IsIgnore(Here) THEN Ignored ELSE Len(lists')]
    /\ stack' = NextLine /\ UNCHANGED pc

\* The first range that a track is in gives its list.
TakeRange ==
    /\ Defining /\ Here.k = "range" /\ ~Wrong(Here) /\ Here.step > 0
    /\ lists' = IF IsIgnore(Here) THEN lists
                ELSE Append(lists, [ent |-> Here.fmts, pos |-> 0])
    /\ formats' = [i \in AllTracks |->
                     IF formats[i] # Null \/ i \notin Covers(Here) THEN formats[i]
                     ELSE IF IsIgnore(Here) THEN Ignored ELSE Len(lists')]
    /\ stack' = NextLine /\ UNCHANGED pc

\* parse_err, and the loop over the range's tracks with a step of 0.
RangeFails ==
    /\ Defining /\ Here.k = "range" /\ (Wrong(Here) \/ Here.step = 0)
    /\ pc' = IF Wrong(Here) THEN "error" ELSE "spinning"
    /\ UNCHANGED <<stack, formats, lists>>

\* Any other line ends the definition, an empty one or a comment included.
RangesEnd ==
    /\ Defining /\ Here.k # "range"
    /\ IF Null \in {formats[i] : i \in AllTracks}
       THEN pc' = "error" /\ UNCHANGED <<formats, stack>>
       ELSE /\ pc' = input /\ stack' = <<>>
            /\ formats' = [i \in AllTracks |->
                             IF formats[i] = Ignored THEN Null ELSE formats[i]]
    /\ UNCHANGED lists

-----------------------------------------------------------------------------
(* handle_stream. *)

Handling(phase) ==
    /\ pc = phase /\ t <= LastTrack
    /\ UNCHANGED <<input, dump, parseVars>>

Entry(i) == lists[formats[i]]
Untried == formats[t] # Null /\ j < Len(Entry(t).ent)

\* Mutant of TryFormat: the position stays where it is.
TryFormat_NoRotation ==
    /\ Handling("stream") /\ Untried
    /\ LET f == Entry(t).ent[Entry(t).pos + 1]
       IN  IF dump[t][f] # "no"
           THEN /\ disk' = [disk EXCEPT ![t] = [type |-> f, bad |-> dump[t][f] = "part"]]
                /\ t' = t + TrackStep /\ j' = 0
           ELSE /\ disk' = [disk EXCEPT ![t] = Unformatted]
                /\ j' = j + 1 /\ UNCHANGED t
    /\ UNCHANGED <<pc, lists, left, unidentified>>

\* The position in the list, which all of its tracks share, rotates on failure.
TryFormat ==
    /\ Handling("stream") /\ Untried
    /\ LET f == Entry(t).ent[Entry(t).pos + 1]
       IN  IF dump[t][f] # "no"
           THEN /\ disk' = [disk EXCEPT ![t] = [type |-> f, bad |-> dump[t][f] = "part"]]
                /\ t' = t + TrackStep /\ j' = 0
                /\ UNCHANGED lists
           ELSE /\ disk' = [disk EXCEPT ![t] = Unformatted]
                /\ lists' = [lists EXCEPT ![formats[t]].pos = (@ + 1) % Len(Entry(t).ent)]
                /\ j' = j + 1 /\ UNCHANGED t
    /\ UNCHANGED <<pc, left, unidentified>>

\* All have failed, or the track is ignored.
TryUnformatted ==
    /\ Handling("stream") /\ ~Untried
    /\ disk' = [disk EXCEPT ![t] = Unformatted]
    /\ unidentified' = IF formats[t] # Null /\ dump[t]["unformatted"] = "no"
                          /\ t < Unwarned
                       THEN unidentified + 1 ELSE unidentified
    /\ t' = t + TrackStep /\ j' = 0
    /\ UNCHANGED <<pc, lists, left>>

\* Mutant of CheckTrack: sectors made valid are not counted.
CheckTrack_ClearedFirst ==
    /\ Handling("check")
    /\ unidentified' = IF disk[t].bad /\ ~ClearBadSectors THEN unidentified + 1
                       ELSE unidentified
    /\ disk' = IF ClearBadSectors THEN [disk EXCEPT ![t].bad = FALSE] ELSE disk
    /\ t' = t + TrackStep
    /\ UNCHANGED <<pc, lists, j, left>>

\* The second pass, over tracks with missing sectors.
CheckTrack ==
    /\ Handling("check")
    /\ unidentified' = IF disk[t].bad THEN unidentified + 1 ELSE unidentified
    /\ disk' = IF ClearBadSectors THEN [disk EXCEPT ![t].bad = FALSE] ELSE disk
    /\ t' = t + TrackStep
    /\ UNCHANGED <<pc, lists, j, left>>

PassEnds ==
    /\ pc \in {"stream", "check"} /\ t > LastTrack
    /\ IF pc = "stream" THEN pc' = "check" /\ t' = FirstTrack
                        ELSE pc' = "done" /\ UNCHANGED t
    /\ UNCHANGED <<input, dump, parseVars, lists, j, left, disk, unidentified>>

-----------------------------------------------------------------------------
(* handle_img: each track takes its sectors from what is left of the image. *)

Importable ==
    /\ Len(Entry(t).ent) = 1
    /\ SectorBytes[Entry(t).ent[1]] \in 1..left

ImportTrack ==
    /\ Handling("img") /\ left > 0
    /\ IF formats[t] = Null THEN t' = t + TrackStep /\ UNCHANGED <<pc, left, disk>>
       ELSE IF ~Importable THEN pc' = "error" /\ UNCHANGED <<t, left, disk>>
       ELSE LET f == Entry(t).ent[1]
            IN  /\ disk' = [disk EXCEPT ![t] = [type |-> f, bad |-> FALSE]]
                /\ left' = left - SectorBytes[f]
                /\ t' = t + TrackStep /\ UNCHANGED pc
    /\ UNCHANGED <<lists, j, unidentified>>

ImportEnds ==
    /\ pc = "img" /\ (t > LastTrack \/ left = 0)
    /\ pc' = IF left = 0 THEN "done" ELSE "error"
    /\ UNCHANGED <<input, dump, parseVars, lists, t, j, left, disk, unidentified>>

-----------------------------------------------------------------------------
Next ==
    \/ PassOver \/ Include \/ Alias \/ Found \/ EndOfFile
    \/ TakeRange \/ RangeFails \/ RangesEnd
    \/ TryFormat \/ TryUnformatted \/ CheckTrack \/ PassEnds
    \/ ImportTrack \/ ImportEnds

Spec == Init /\ [][Next]_vars

-----------------------------------------------------------------------------
\* The ranges of the definition found, up to the first line that is none.
Definition ==
    LET later == found.line + 1 .. Len(Files[found.file])
        end   == {n \in later : Files[found.file][n].k # "range"}
    IN  {n \in later : \A m \in end : n < m}

\* Once the config is read, every track has the formats of the first range that
\* covers it, although ranges overlap, aliases lead from file to file, and lists
\* are shared by the tracks of a range.
FirstRangeWins ==
    pc \in {"stream", "check", "img"} =>
        \A i \in AllTracks :
            \E n \in Definition :
                LET range == Files[found.file][n]
                IN  /\ i \in Covers(range)
                    /\ \A m \in Definition : m < n => i \notin Covers(Files[found.file][m])
                    /\ IF IsIgnore(range) THEN formats[i] = Null
                       ELSE lists[formats[i]].ent = range.fmts

\* A track that any format of its list accepts gets one of these: wherever other
\* tracks have left the shared position, all formats are tried before giving up.
ReadableIsIdentified ==
    pc = "check" \/ (pc = "done" /\ input = "stream") =>
        \A i \in Handled : formats[i] # Null =>
            LET good == {f \in ToSet(Entry(i).ent) : dump[i][f] # "no"}
            IN  IF good = {} THEN disk[i].type = "unformatted" ELSE disk[i].type \in good

\* The closing warning counts the tracks "damaged or unidentified", each once,
\* also those whose bad sectors have been cleared.
WarningHonest ==
    pc = "done" /\ input = "stream" =>
        unidentified = Cardinality({i \in Handled : formats[i] # Null /\
            IF disk[i].type # "unformatted" THEN dump[i][disk[i].type] = "part"
            ELSE i < Unwarned /\ dump[i]["unformatted"] = "no"})

\* A format that the config files name is found ("every checked game is listed
\* here", formats:17).
ListedIsFound ==
    pc = "nomatch" =>
        \A f \in DOMAIN Files : \A n \in DOMAIN Files[f] :
            Files[f][n].k \in {"alias", "def"} => Files[f][n].name # spec
=============================================================================
