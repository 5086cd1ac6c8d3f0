----------------------------- MODULE HandlersEF -----------------------------
(* Track handlers of libdisk/format/amiga, files dungeon_master.c to fuzzball.c. *)
EXTENDS TrackFields

(* IBM sectors.  One, whose number differs by title, has bytes with a clock *)
(* that drifts: their top bit is masked off and the crc worked out afresh.  *)
dungeon_master_weak(weak) ==
    LET idam == <<Is(MFM(8), "cyl"), Is(MFM(8), "head"), Sec(MFM(8)), Is(MFM(8), "no"),
                  Check(MFM(16), "crc", {"cyl", "head", "sec", "no"})>>
        dat == <<Keep(MFM(8 * 512), "data"), Check(MFM(16), "crc", {"data"})>>
    IN  [Handler EXCEPT
          !.mode = "each", !.need = "any", !.must = {weak}, !.nsec = 10,
          !.mark = "zero", !.back = 63, !.sync = {IdamMark},
          !.take = <<Read(idam), Seek({DamMark}, 1000), Read(dat)>>,
          !.emit = Sectors(10, Words(IdamMark) \o idam \o Pad(176, "4e") \o Pad(96, "0")
                                 \o Words(DamMark) \o dat \o Pad(41 * 8, "4e")
                                 \o Pad(12 * 8, "gap"))]

dyter_07 ==
    LET dat == <<Is(EO(32), "hdr"), Check(EO(32), "addx", {"data"}),
                 Keep(EOs(1578, 32), "data")>>
    IN  [Handler EXCEPT !.sync = {<<"9122", "9122">>}, !.back = 31, !.total = {102200},
          !.take = <<Read(dat)>>, !.emit = Words(<<"9122", "9122">>) \o dat]

(* behind_the_iron_gate, and za_zelazna_brama, whose total_bits is taken    *)
(* from a tag made of track 0.                                              *)
ego ==
    LET dat == <<Keep(OEs(1536, 32), "data"), Check(OE(32), "ego_sum", {"data"})>>
    IN  [Handler EXCEPT !.sync = {<<"8951">>}, !.take = <<Read(dat)>>,
          !.emit = Words(<<"8951">>) \o dat]

(* abc_chemii and inferior: total_bits by track from a table, from 98323 (an *)
(* entry of 0) to 101351.                                                    *)
ego_protection(sync) ==
    LET dat == <<Keep(OEs(1408, 32), "data"), Check(OE(32), "ego_sum", {"data"})>>
    IN  [Handler EXCEPT
          !.sync = {<<sync>>}, !.mark = "fixed", !.total = {98323, 100929, 101351},
          !.take = <<Read(dat)>>, !.emit = Words(<<sync>>) \o dat]

(* The disk number goes to a tag.  Disk 1 has 20 more bytes on each track,  *)
(* which are left out here.                                                 *)
elfmania ==
    LET hdr == <<Is(EO(16), "trk"), Sec(EO(16)), Check(EO(32), "not", {"trk", "sec"})>>
        dat == <<Check(EO(32), "add", {"data"}), Keep(EO(8 * 256), "data")>>
    IN  [Handler EXCEPT
          !.sync = {<<"4489", "4489">>}, !.back = 31, !.mode = "each", !.need = "any",
          !.nsec = 23, !.mark = "least", !.total = {106000},
          !.take = <<Read(hdr), Read(dat)>>,
          !.emit = Sectors(23, Words(<<"4489", "4489">>) \o hdr \o dat)]

(* elite_a, b and c with 6144, 5888 and 6312 bytes; elite_d has 5120 and no *)
(* track number.                                                            *)
elite(bytes, numbered) ==
    LET trk == IF numbered THEN <<Is(EO(16), "trk")>> ELSE <<>>
        dat == <<Sealed(EO(8 * (bytes + 4)), "data")>>
    IN  [Handler EXCEPT
          !.sync = {<<"a245", "4489">>}, !.back = 31,
          !.total = {IF numbered THEN 105700 ELSE DefaultBits},
          !.take = (IF numbered THEN <<Read(trk)>> ELSE <<>>) \o <<Read(dat)>>,
          !.emit = Words(<<"a245", "4489">>) \o trk \o dat]

(* The sum covers the track number too.  A bad one ends the scan. *)
elite_e ==
    LET trk == <<Is(EO(16), "trk")>>
        dat == <<Check(EO(16), "xor", {"trk", "data"}), Keep(EOs(3072, 16), "data")>>
    IN  [Handler EXCEPT !.sync = {<<"9122">>},
          !.take = <<Read(Words(<<"8912">>)), Read(trk), Need(dat)>>,
          !.emit = Words(<<"9122", "8912">>) \o trk \o dat]

(* executioner_b has one more long, which the sum does not cover. *)
executioner(b) ==
    LET odd == IF b THEN <<Keep(EO(32), "odd")>> ELSE <<>>
        dat == <<Check(EO(32), "add", {"data"})>> \o odd
                 \o Sectors(11, <<Keep(EO(8 * 512), "data")>>)
    IN  [Handler EXCEPT
          !.sync = {<<"4489", "4489">>}, !.back = 31, !.nsec = 11, !.total = MeasuredBits,
          !.open = IF b THEN {"odd"} ELSE {},
          !.take = <<Read(Words(<<"2aaa", "aaaa">>)), Read(Words(<<"aaaa", "aaaa">>)),
                     Need(dat)>>,
          !.emit = Words(<<"4489", "4489", "2aaa", "aaaa", "aaaa", "aaaa">>) \o dat]

(* The length, up to 1600 hex, is the track's own. *)
eye_of_horus ==
    LET hdr == <<Is(EO(32), "trk"), Keep(EO(32), "len"), Keep(EOs(3, 32), "hdr"),
                 Check(EO(32), "amigados", {"trk", "len", "hdr"})>>
        dat == <<Check(EO(32), "amigados", {"data"}), Keep(EOs(1408, 32), "data")>>
    IN  [Handler EXCEPT !.sync = {<<"4489", "4489">>}, !.back = 31,
          !.take = <<Read(hdr), Read(dat)>>,
          !.emit = Words(<<"4489", "4489">>) \o hdr \o dat]

(* Mutant of factor5: the measured length is rounded down too far. *)
factor5_RoundsDown(bytes, total) ==
    LET zero == <<Is(MFM(8), "0")>>
        dat == <<Keep(EOs(bytes \div 4, 32), "data"), Check(EO(32), "xor", {"data"})>>
    IN  [Handler EXCEPT !.sync = {<<"9521">>}, !.total = {108000},
          !.take = <<Read(zero), Read(dat)>>, !.emit = Words(<<"9521">>) \o zero \o dat]

(* turrican, turrican_2 and bc_kid: 6520, 6800 and 6500 bytes; total_bits is *)
(* one of three round numbers, the least that the measured length allows,   *)
(* and 108896 to 110000 bits of turrican_2 would be rounded down too far.   *)
factor5(bytes, total) ==
    LET zero == <<Is(MFM(8), "0")>>
        dat == <<Keep(EOs(bytes \div 4, 32), "data"), Check(EO(32), "xor", {"data"})>>
    IN  [Handler EXCEPT !.sync = {<<"9521">>}, !.total = total,
          !.take = <<Read(zero), Read(dat)>>, !.emit = Words(<<"9521">>) \o zero \o dat]

(* The sum is written uncoded, 32 bits on the medium. *)
denaris_a ==
    LET zero == <<Is(MFM(8), "0")>>
        dat == <<Check(Raw(32), "xor", {"data"}), Keep(EO(8 * 5968), "data")>>
    IN  [Handler EXCEPT !.sync = {<<"9521">>}, !.total = {99800},
          !.take = <<Read(zero), Read(dat)>>, !.emit = Words(<<"9521">>) \o zero \o dat]

denaris_b ==
    LET zero == <<Is(MFM(8), "0")>>
        dat == <<Keep(EOs(1638, 32), "data"), Check(EO(32), "xor", {"data"})>>
    IN  [Handler EXCEPT !.sync = {<<"9521">>}, !.total = {105200},
          !.take = <<Read(zero), Read(dat)>>, !.emit = Words(<<"9521">>) \o zero \o dat]

(* A bad sum means that no score was saved yet: the block is left empty.    *)
factor5_hiscore ==
    LET zero == <<Is(MFM(8), "0")>>
        dat == <<Skip(EO(32), "xor"), Keep(EOs(99, 32), "data")>>
    IN  [Handler EXCEPT !.sync = {<<"4489">>}, !.mark = "fixed", !.open = {"data"},
          !.total = {102500, 100150},
          !.take = <<Read(zero), Read(dat)>>, !.emit = Words(<<"4489">>) \o zero \o dat]

(* fantastic_voyage and krymini: 6144, 5888 and 512 bytes.  The first long  *)
(* holds the track and a byte sum that is written but not checked.          *)
fantastic_voyage(bytes) ==
    LET hdr == <<Is(EO(8), "trk"), Skip(EO(8), "sum8"), Is(EO(16), "4d48")>>
        dat == <<Check(EO(32), "add", {"data"}), Keep(EOs(bytes \div 4, 32), "data")>>
    IN  [Handler EXCEPT
          !.sync = {<<"4489", "2aaa">>}, !.mark = "fixed", !.total = {100500, 105400},
          !.take = <<Read(hdr), Read(dat)>>, !.emit = Words(<<"4489", "2aaa">>) \o hdr \o dat]

(* The last long is the sum of the others. *)
fantasy_games ==
    LET dat == <<Sealed(EOs(3136, 16), "data")>>
    IN  [Handler EXCEPT !.sync = {<<"8944", "8944">>}, !.back = 31, !.total = MeasuredBits,
          !.take = <<Read(dat)>>, !.emit = Words(<<"8944", "8944">>) \o dat]

(* Eight sums, of the longs of eight interleaved sectors; the sync differs  *)
(* by side.  A bad sum ends the scan.                                       *)
fears ==
    LET pad == <<Skip(Raw(32), "aaaa"), Skip(Raw(32), "aaaa")>>
        dat == <<Check(EOs(8, 32), "xor", {"data"}), Keep(EOs(187 * 8, 32), "data")>>
    IN  [Handler EXCEPT !.sync = {<<"sync", "sync">>}, !.back = 31, !.total = MeasuredBits,
          !.take = <<Read(pad), Need(dat)>>,
          !.emit = Words(<<"sync", "sync">>) \o pad \o dat]

(* As deflektor, with the sum of the encoded words at the end. *)
federation_of_free_traders ==
    LET dat == <<Keep(MFM(8 * 2000), "data"), Check(MFM(16), "xor", {"data"})>>
    IN  [Handler EXCEPT
          !.sync = {<<"4489", "4489">>}, !.back = 31, !.mode = "each", !.need = "any",
          !.nsec = 3, !.mark = "least", !.stride = 4040, !.bare = TRUE,
          !.take = <<Read(<<Is(MFM(16), "trk")>>), Read(<<Sec(MFM(8))>>), Read(dat)>>,
          !.emit = Sectors(3, Words(<<"4489", "4489">>) \o <<Is(MFM(16), "trk"), Sec(MFM(8))>>
                                \o dat \o Pad(104, "0"))]

(* Three syncs; ikplus has a word before them, afterburner_data a signature *)
(* and the track after, firebird ff.                                        *)
firebird(type) ==
    LET lead == IF type = "ikplus" THEN Pad(16, "f72a") ELSE <<>>
        sig == CASE type = "firebird" -> <<Is(MFM(8), "ff")>>
                 [] type = "afterburner_data" -> <<Is(MFM(16), "4142"), Is(MFM(8), "trk")>>
                 [] type = "ikplus" -> <<>>
        dat == <<Keep(MFM(8 * 6144), "data"), Check(MFM(16), "crc", {"data"})>>
    IN  [Handler EXCEPT
          !.sync = {<<"8944", "8944">>}, !.back = IF type = "ikplus" THEN 63 ELSE 31,
          !.mark = "taken",
          !.take = <<Read(Words(<<"8944">>))>>
                     \o (IF sig = <<>> THEN <<>> ELSE <<Read(sig)>>) \o <<Read(dat)>>,
          !.emit = lead \o Words(<<"8944", "8944", "8944">>) \o sig \o dat]

(* The third byte is the track; nothing else is checked. *)
quartz(b) ==
    LET sync == IF b THEN <<"8944", "a92a">> ELSE <<"8944", "8944">>
        more == IF b THEN Words(<<"8944">>) ELSE <<>>
        dat == <<Keep(EOs(2, 8), "hdr"), Is(EO(8), "trk"), Keep(EOs(6165, 8), "data")>>
    IN  [Handler EXCEPT
          !.sync = {sync}, !.back = 31, !.open = {"hdr", "data"}, !.total = {100500},
          !.take = (IF b THEN <<Read(more)>> ELSE <<>>) \o <<Read(dat)>>,
          !.emit = Words(sync) \o more \o dat]

flimbos_quest_a ==
    LET sig == <<Is(EO(32), "FLIM")>>
        dat == <<Check(EO(32), "add", {"data"}), Keep(EOs(1408, 32), "data")>>
    IN  [Handler EXCEPT !.sync = {<<"4489", "4489">>}, !.back = 31, !.total = {100500},
          !.take = <<Read(sig), Read(dat)>>,
          !.emit = Words(<<"4489", "4489">>) \o sig \o dat]

(* Three scans, each for a mark of its own, each from where the last one    *)
(* ended; the value the data is xored with comes from a table when the one  *)
(* on the track is wrong.  444 to 5632 bytes by track.                      *)
flimbos_quest_b ==
    LET eor == <<Skip(Raw(32), "eor")>>
        sig == <<Is(EO(32), "FLIM")>>
        dat == <<Check(EO(32), "add", {"data"}), Keep(EOs(1408, 32), "data")>>
        first == Words(<<"a929", "2912">>)
        second == Words(<<"4a55", "4aa9">>)
    IN  [Handler EXCEPT !.sync = {<<"4489", "4489">>}, !.back = 31, !.total = {100500},
          !.take = <<Find({<<"a929", "2912">>}), Again(second), Again(eor),
                     Find({<<"aaaa", "44a2">>}), Again(<<Skip(Raw(16), "2aaa")>>),
                     Again(sig), Again(dat)>>,
          !.emit = Words(<<"4489", "4489", "2aaa", "aaaa">>) \o first \o second \o eor
                     \o Words(<<"2aaa", "aaaa", "44a2">>) \o <<Skip(Raw(16), "2aaa")>>
                     \o sig \o dat]

(* Sectors that are not found are made up afterwards.  The sum does not     *)
(* cover the header.                                                        *)
full_contact ==
    LET hdr == <<Is(EO(8), "88"), Sec(EO(8))>>
        dat == <<Check(EO(32), "add", {"data"}), Keep(EO(8 * 512), "data")>>
    IN  [Handler EXCEPT
          !.sync = {<<"a245", "a245">>}, !.back = 31, !.mode = "each", !.need = "any",
          !.nsec = 12, !.mark = "least", !.total = {105500}, !.bare = TRUE,
          !.take = <<Read(Words(<<"4489">>)), Read(hdr), Read(dat)>>,
          !.emit = Sectors(12, Words(<<"a245", "a245", "4489">>) \o hdr \o dat)]

(* fun_factory, gadgetslostintime_a and _b. *)
fun_factory ==
    LET hdr == <<Is(EO(32), "trk")>>
        dat == <<Keep(EO(8 * 5120), "data")>>
        sum == <<Check(EO(32), "amigados", {"trk", "data"})>>
    IN  [Handler EXCEPT !.sync = {<<"4489", "4489">>}, !.back = 31,
          !.take = <<Read(hdr), Read(dat \o sum)>>,
          !.emit = Words(<<"4489", "4489">>) \o hdr \o dat \o sum]

(* Tracks 156 to 159, each with a sync and a length of its own.  A bad sum  *)
(* ends the scan.                                                           *)
fuzzball ==
    LET dat == <<Check(EO(32), "xor", {"data"}), Keep(EO(8 * 1876), "data")>>
    IN  [Handler EXCEPT !.sync = {<<"sync">>}, !.total = {106000},
          !.take = <<Need(dat)>>, !.emit = Words(<<"sync">>) \o dat]
=============================================================================
