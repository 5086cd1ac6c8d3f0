----------------------------- MODULE HandlersUZ -----------------------------
(* Track handlers of libdisk/format/amiga, typhoon_thompson.c to zzkj.c, and *)
(* those of earlier letters that share their shape.                          *)
EXTENDS TrackFields

typhoon_thompson ==
    LET dat == <<Check(EO(32), "amigados", {"trk", "data"}), Is(EO(32), "trk"),
                 Keep(EO(8 * 6144), "data")>>
    IN  [Handler EXCEPT
          !.sync = {<<"4891", "4891", "44a9">>}, !.back = 47, !.total = {100500},
          !.take = <<Read(dat)>>, !.emit = Words(<<"4891", "4891", "44a9">>) \o dat]

(* Only the counter behind the signature is kept. *)
ubi_protection_validation ==
    LET dat == <<Keep(EO(32), "count")>>
    IN  [Handler EXCEPT
          !.sync = {<<"4489", "4489">>}, !.mark = "fixed", !.open = {"count"}, !.total = {101216},
          !.take = <<Read(Words(<<"552a", "a549">>)), Read(dat)>>,
          !.emit = Words(<<"4489", "4489", "552a", "a549">>) \o dat]

universal_warrior ==
    LET dat == <<Check(EO(32), "add", {"data"}), Keep(EOs(1536, 32), "data")>>
    IN  [Handler EXCEPT !.sync = {<<"3489">>}, !.total = MeasuredBits,
          !.take = <<Read(dat)>>, !.emit = Words(<<"3489">>) \o dat]

(* The sum of the track is known. *)
uss_john_young_protection ==
    LET dat == <<Sealed(EOs(1536, 32), "data")>>
    IN  [Handler EXCEPT !.sync = {<<"6cb1">>}, !.total = MeasuredBits,
          !.take = <<Read(dat)>>, !.emit = Words(<<"6cb1">>) \o dat]

vade_retro_alienas ==
    LET dat == <<Keep(EOs(3159, 16), "data"), Check(EO(16), "add", {"data"})>>
    IN  [Handler EXCEPT !.sync = {<<"4142">>}, !.total = {101500},
          !.take = <<Read(dat)>>, !.emit = Words(<<"4142">>) \o dat]

(* Variants a and b have one sync word, c has two. *)
vampires_empire(bytes, sync) ==
    LET dat == <<Keep(EOs(bytes \div 4, 32), "data"), Check(EO(32), "add", {"data"})>>
    IN  [Handler EXCEPT
          !.sync = {sync}, !.back = 16 * Len(sync) - 1, !.total = {100500},
          !.take = <<Read(dat)>>, !.emit = Words(sync) \o dat]

(* The last words of the block are one that is not checked, a signature and *)
(* two sums; b, c and d differ in the sync.                                 *)
visionary_design(sync) ==
    LET pad == Words(<<"5555", "5555", "5555">>)
        dat == <<Keep(OE(8 * 6600), "data"), Keep(OE(16), "ce4"), Sealed(OE(16), "sig"),
                 Check(OE(16), "xor", {"data"}), Check(OE(16), "add", {"data"})>>
    IN  [Handler EXCEPT !.sync = {<<sync>>}, !.open = {"ce4"}, !.total = MeasuredBits,
          !.take = <<Read(SubSeq(pad, 1, 2)), Read(SubSeq(pad, 3, 3)), Read(dat)>>,
          !.emit = Words(<<sync>>) \o pad \o dat]

visionary_design_a ==
    LET pad == Words(<<"5555", "5555", "5555">>)
        dat == <<Keep(OE(8 * 6602), "data"), Sealed(OE(16), "sig")>>
    IN  [Handler EXCEPT !.sync = {<<"4489">>}, !.open = {"data"}, !.total = MeasuredBits,
          !.take = <<Read(SubSeq(pad, 1, 2)), Read(SubSeq(pad, 3, 3)), Read(dat)>>,
          !.emit = Words(<<"4489">>) \o pad \o dat]

(* Three thousand bytes ff are enough, 6640 are written. *)
vortex_b ==
    [Handler EXCEPT !.sync = {<<"4489">>}, !.total = MeasuredBits,
      !.take = <<Read(<<Fill(16 * 2999, "ff")>>)>>,
      !.emit = Words(<<"4489">>) \o <<Fill(16 * 3320, "ff")>>]

wayne_gretzky ==
    LET dat == <<Keep(EOs(3072, 16), "data"), Check(EO(16), "add", {"data"})>>
    IN  [Handler EXCEPT !.sync = {<<"4489">>}, !.total = {100500},
          !.take = <<Read(Words(<<"5555">>)), Read(dat)>>,
          !.emit = Words(<<"4489", "5555">>) \o dat]

(* Nine titles with a signature and a length each; baal has no sum. *)
wjs_design(baal, bytes, total) ==
    LET sig == <<Is(EO(32), "sig")>>
        sum == IF baal THEN <<>> ELSE <<Check(EO(32), "xor", {"data"})>>
        dat == sum \o <<Keep(EOs(bytes \div 4, 32), "data")>>
    IN  [Handler EXCEPT
          !.sync = {<<"4489">>}, !.open = IF baal THEN {"data"} ELSE {}, !.total = {total},
          !.take = <<Read(sig), Read(dat)>>, !.emit = Words(<<"4489">>) \o sig \o dat]

(* A bad sum ends the scan, but on track 40, where it brings a warning. *)
world_championship_boxing ==
    LET dat == <<Keep(EOs(1408, 32), "data"), Check(EO(32), "add", {"data"})>>
    IN  [Handler EXCEPT !.sync = {<<"8a51">>}, !.total = MeasuredBits,
          !.take = <<Read(Words(<<"2aaa">>)), Read(Words(<<"aaaa", "aaa5">>)), Need(dat)>>,
          !.emit = Words(<<"8a51", "2aaa", "aaaa", "aaa5">>) \o dat]

(* The sum is written as its odd bits only. *)
x_out ==
    LET dat == <<Check(Raw(32), "add", {"data"}), Keep(EO(8 * 5968), "data")>>
    IN  [Handler EXCEPT !.sync = {<<"8455", "2aaa">>}, !.back = 31,
          !.take = <<Read(dat)>>, !.emit = Words(<<"8455", "2aaa">>) \o dat]

(* The sync is written behind 16 zero bits, and the words that follow it as *)
(* a1 with its clock bits, where the original has syncs.                    *)
xenon2(words, bytes, total) ==
    LET pad == Copies(words, <<Is(MFM(16), "a1")>>)
        dat == <<Keep(OE(8 * bytes), "data"), Check(OE(32), "add", {"data"})>>
    IN  [Handler EXCEPT
          !.sync = {<<"4489">>}, !.total = {total}, !.take = <<Read(pad), Read(dat)>>,
          !.emit = <<Skip(Raw(16), "zeroes")>> \o Words(<<"4489">>) \o pad \o dat]

xorron_2001(bytes) ==
    LET hdr == <<Is(EO(32), "trk")>>
        dat == <<Check(EO(32), "xor", {"data"}), Keep(EOs(bytes \div 4, 32), "data")>>
    IN  [Handler EXCEPT
          !.sync = {<<"4489", "4489">>}, !.back = 31, !.total = MeasuredBits,
          !.take = <<Read(Words(<<"4489", "4489">>)), Read(hdr), Need(dat)>>,
          !.emit = Words(<<"4489", "4489", "4489", "4489">>) \o hdr \o dat]

(* The sum shares the header's long with the signature. *)
zgz ==
    LET dat == <<Is(EO(16), "sig"), Check(EO(16), "add", {"data"}), Keep(EOs(1536, 32), "data")>>
    IN  [Handler EXCEPT !.sync = {<<"8944", "8944">>}, !.back = 31,
          !.take = <<Read(dat)>>, !.emit = Words(<<"8944", "8944">>) \o dat]

(* The last long of the header is stored with the data. *)
zyconix ==
    LET hdr == <<Is(EO(128), "sig"), Keep(EO(32), "hdr")>>
        dat == <<Keep(EO(8 * 5632), "data"), Check(EO(32), "add", {"sig", "hdr", "data"})>>
    IN  [Handler EXCEPT
          !.sync = {<<"4489", "4489">>}, !.back = 31, !.total = MeasuredBits,
          !.take = <<Read(Words(<<"5555", "5555">>)), Read(hdr), Need(dat)>>,
          !.emit = Words(<<"4489", "4489", "5555", "5555">>) \o hdr \o dat]

zzkj_boot ==
    LET dat == <<Is(OE(32), "1"), Keep(OE(8 * 4096), "data"), Check(OE(32), "add", {"1", "data"})>>
    IN  [Handler EXCEPT !.sync = {<<"4489", "4489">>}, !.back = 31,
          !.take = <<Read(<<Is(MFM(8), "0")>>), Read(dat)>>,
          !.emit = Words(<<"4489", "4489">>) \o <<Is(MFM(8), "0")>> \o dat]

(* data_bitoff is the sector's that lies first behind the index, and that   *)
(* sector is the one read_raw starts with.                                  *)
zzkj_11sec ==
    LET dat == <<Is(OE(24), "cyl"), Sec(OE(8)), Keep(OE(8 * 512), "data"),
                 Check(OE(32), "add", {"cyl", "sec", "data"})>>
    IN  [Handler EXCEPT
          !.mode = "each", !.need = "any", !.nsec = 11, !.mark = "fixed",
          !.sync = {<<"4489", "4489">>}, !.back = 31,
          !.take = <<Read(<<Is(MFM(8), "0")>>), Read(dat)>>,
          !.emit = Sectors(11, Words(<<"4489", "4489">>) \o <<Is(MFM(8), "0")>> \o dat
                                 \o Pad(48, "0"))]

(* arkanoid, hybris and sword_sodan.  One pass for each of thirteen syncs;  *)
(* this is the one whose sync the track has.                                *)
discovery(bytes, total) ==
    LET dat == <<Is(EO(16), "val"), Keep(EO(16), "chk1"), Is(EO(16), "len1"), Keep(EO(16), "len2"),
                 Keep(EO(8 * bytes), "data"), Skip(EO(16), "chk2"),
                 Check(EO(16), "eor", {"val", "chk1", "len1", "len2", "data", "chk2"})>>
    IN  [Handler EXCEPT !.sync = {<<"sync">>}, !.total = {total},
          !.take = <<Read(SubSeq(dat, 1, 3)), Read(SubSeq(dat, 4, 7))>>,
          !.emit = Words(<<"sync">>) \o dat]

(* The block holds its sum, which leaves out the first long and the last    *)
(* three.  zoom_a takes a sync behind a word of gap to be the first of two, *)
(* read_raw writes three; the branch for another word in front is not met   *)
(* on a track that read_raw wrote.                                          *)
zoom(b) ==
    LET dat == <<Keep(EO(24), "hdr"), Is(EO(8), "trk"), Check(EO(32), "xor", {"data"}),
                 Keep(EOs(1536, 32), "data"), Keep(EOs(3, 32), "rest")>>
    IN  [Handler EXCEPT
          !.sync = {IF b THEN <<"4489", "4489", "4489">> ELSE <<"aaaa", "4489", "4489">>},
          !.back = IF b THEN 47 ELSE 31, !.open = {"hdr", "rest"}, !.total = {102300},
          !.take = <<Read(dat)>>, !.emit = Words(<<"4489", "4489", "4489">>) \o dat]

(* Three syncs are written, one is enough if the header is near. *)
novagen ==
    LET id == <<Is(MFM(16), "5678")>>
        cyl == <<Is(MFM(8), "cyl")>>
        dat == <<Keep(MFM(8 * 6144), "data"), Check(MFM(16), "shift", {"data"})>>
    IN  [Handler EXCEPT !.sync = {<<"4489">>}, !.total = {102200, 100000},
          !.take = <<Seek({<<"1234">>}, 256), Read(id), Read(cyl), Read(dat)>>,
          !.emit = Words(<<"4489", "4489", "4489">>) \o <<Is(MFM(16), "1234")>> \o id \o cyl \o dat]

(* One pattern all round, in single density.  The code is content with two  *)
(* thirds of it.                                                            *)
okay_protection ==
    [Handler EXCEPT !.sync = {<<"bdef">>}, !.mark = "fixed", !.total = {50592},
      !.take = <<Read(<<Fill(12288 * 4, "bdef f700")>>)>>,
      !.emit = Words(<<"bdef">>) \o <<Fill(50592 - 16, "bdef f700")>>]

(* Three words, and behind them three more; nothing is stored. *)
creepsoft_protection ==
    LET word(v) == <<Is(MFM(16), v)>>
    IN  [Handler EXCEPT
          !.sync = {<<"4078">>}, !.mark = "fixed", !.total = {101500},
          !.take = <<Read(word("9080")), Read(word("8090"))>>,
          !.after = After(FALSE, {<<"a1fe">>}, FALSE, 0, <<Read(word("5000")), Read(word("2103"))>>),
          !.emit = Words(<<"4489", "4489">>) \o <<Skip(MFM(32 * 500), "0")>>
                     \o word("4078") \o word("9080") \o word("8090")
                     \o <<Skip(MFM(32 * 226), "0"), Skip(MFM(8), "0"), Is(MFM(16), "a1")>>
                     \o word("a1fe") \o word("5000") \o word("2103")]

(* The longs add up to zero: read_raw sees to it on all tracks but those of *)
(* yo_joe_b, whose track 1 may have been written to.                        *)
yo_joe(sync, bytes) ==
    LET dat == <<Sealed(EO(8 * bytes), "data")>>
    IN  [Handler EXCEPT !.sync = {<<sync>>}, !.back = 16, !.total = MeasuredBits,
          !.take = <<Read(dat)>>, !.emit = Words(<<sync>>) \o dat]

(* data_bitoff is that of the lowest sector, though read_raw starts with 0. *)
readysoft ==
    LET hdr == <<Skip(EO(8), "ff"), Is(EO(8), "disk"), Sec(EO(8)), Is(EO(8), "trk"),
                 Check(EO(32), "not", {"ff", "disk", "sec", "trk"})>>
        dat == <<Keep(EO(8 * 1600), "data"), Check(EO(32), "add", {"data"})>>
        sig == <<Is(EO(32), "SDDF")>>
    IN  [Handler EXCEPT
          !.mode = "each", !.need = "any", !.nsec = 4, !.mark = "least", !.total = MeasuredBits,
          !.sync = {<<"4489", "4489", "4489">>}, !.back = 47,
          !.take = <<Read(hdr), Read(dat), Read(sig)>>,
          !.emit = Sectors(4, Words(<<"4489", "4489", "4489">>) \o hdr \o dat \o sig \o Pad(48, "0"))]

cosmic_bouncer ==
    LET trk == <<Is(EO(32), "trk")>>
        dat == <<Keep(EOs(1650, 32), "data"), Check(EO(32), "add", {"data"}),
                 Check(EO(32), "xor", {"data"})>>
    IN  [Handler EXCEPT !.sync = {<<"4489", "4489">>}, !.total = MeasuredBits,
          !.take = <<Read(Words(<<"5555">>)), Read(trk), Read(dat)>>,
          !.emit = Words(<<"4489", "4489", "5555">>) \o trk \o dat]

(* A sum and an exclusive or share a long near the end of the block; one of *)
(* the two is enough for write_raw.                                         *)
c64 ==
    LET ones == <<Is(MFM(32), "ff")>>
        dat == <<Keep(OEs(1645, 32), "data"), Check(OE(32), "add or xor", {"data"}),
                 Keep(OEs(2, 32), "rest")>>
    IN  [Handler EXCEPT !.sync = {<<"sync">>}, !.open = {"rest"}, !.total = MeasuredBits,
          !.take = <<Read(ones), Read(ones), Read(dat)>>,
          !.emit = Words(<<"sync">>) \o ones \o ones \o dat]

(* The raw long behind the data is stored in the block's last long; what    *)
(* read_raw writes there is the long ti->len longs on, beyond the block.    *)
platou ==
    LET dat == <<Sealed(EOs(1500, 32), "data")>>
    IN  [Handler EXCEPT !.sync = {<<"4489", "4489">>}, !.back = 31, !.open = {"tail"},
          !.total = MeasuredBits,
          !.take = <<Read(Words(<<"aaaa", "aaaa">>)), Read(dat), Read(<<Keep(Raw(32), "tail")>>)>>,
          !.emit = Words(<<"4489", "4489", "aaaa", "aaaa">>) \o dat \o <<Skip(Raw(32), "beyond")>>]

(* The same, and that long is written as even and odd bits.  known: a crc   *)
(* that is not the known one does more than bring a warning.                *)
soft_touch(known) ==
    LET dat == <<IF known THEN Sealed(EOs(1575, 32), "data") ELSE Keep(EOs(1575, 32), "data")>>
    IN  [Handler EXCEPT !.sync = {<<"sync">>}, !.total = MeasuredBits,
          !.open = IF known THEN {"tail"} ELSE {"tail", "data"},
          !.take = <<Read(<<Is(MFM(16), "0")>>), Read(dat), Read(<<Keep(Raw(32), "tail")>>)>>,
          !.emit = Words(<<"sync">>) \o <<Is(MFM(16), "0")>> \o dat \o <<Skip(EO(32), "beyond")>>]
=============================================================================
