----------------------------- MODULE HandlersGM -----------------------------
(* Track handlers of libdisk/format/amiga, files garrison.c to mentasm.c. *)
EXTENDS TrackFields

(* The sum covers the first 1025 of 1100 longs.  The directory track has    *)
(* none; write_raw skips a long there all the same, which read_raw does not *)
(* write.                                                                   *)
garrison(dir) ==
    LET sync == Words(<<"5555", "5555">>)
        dat == <<Keep(EOs(1025, 32), "data"), Keep(EOs(75, 32), "rest")>>
        dirdat == <<Keep(EOs(60, 32), "data")>>
        sum == <<Check(EO(32), "xor", {"data"})>>
    IN  [Handler EXCEPT
          !.sync = {<<"4489", "4489">>}, !.back = 31, !.open = IF dir THEN {"data"} ELSE {"rest"},
          !.take = <<Read(sync), Read(IF dir THEN <<Skip(EO(32), "csum")>> \o dirdat
                                             ELSE sum \o dat)>>,
          !.emit = Words(<<"4489", "4489">>) \o sync \o (IF dir THEN dirdat ELSE sum \o dat)]

(* Tracks 2 and 3: known marks at known places, nothing stored. *)
garrison_prot(trk) ==
    LET marks == IF trk = 2 THEN Words(<<"5555", "5555">>) ELSE Words(<<"54aa", "54aa">>)
    IN  [Handler EXCEPT
          !.sync = {<<"4489", "4489">>}, !.mark = "fixed", !.total = {95500},
          !.take = <<Read(marks)>>,
          !.emit = Words(<<"4489", "4489">>) \o marks
                     \o (IF trk = 2 THEN Pad(2899 * 16, "ff")
                         ELSE marks \o Copies(16, Words(<<"4489", "5555">>)))]

(* The gap in front keeps the write splice away from the protection's scan. *)
ghost_battle ==
    LET dat == <<Check(EO(32), "amigados", {"data"}), Keep(EOs(1560, 32), "data")>>
    IN  [Handler EXCEPT
          !.sync = {<<"5555", "4489">>}, !.mark = "fixed", !.total = {101400},
          !.take = <<Read(dat)>>,
          !.emit = Pad(36 * 8, "gap") \o Words(<<"5555", "4489">>) \o dat]

(* The sum is over the encoded longs, clocks included. *)
gladiators ==
    LET dat == <<Keep(EOs(1536, 32), "data"), Check(EO(32), "clocks", {"data"})>>
    IN  [Handler EXCEPT !.sync = {<<"8915">>}, !.take = <<Read(dat)>>,
          !.emit = Words(<<"8915">>) \o dat]

(* Ten syncs are tried, each from the start of the source; the one found is *)
(* stored.  The last long is the sum of the others.                         *)
globulus ==
    LET dat == <<Sealed(EOs(1409, 32), "data")>>
    IN  [Handler EXCEPT
          !.sync = {<<"sync", "sync">>}, !.back = 31, !.total = {104300, 101500},
          !.take = <<Read(Words(<<"aaaa", "aaaa">>)), Read(dat)>>,
          !.emit = Words(<<"sync", "sync", "aaaa", "aaaa">>) \o dat]

(* Odd bits of data and sum, then the even ones: all adds up to nothing. *)
grand_monster_slam ==
    LET dat == <<Sealed(OE(8 * 5636), "data")>>
    IN  [Handler EXCEPT
          !.sync = {<<"4489", "4489">>}, !.back = 47,
          !.take = <<Read(<<Is(MFM(8), "0")>>), Read(dat)>>,
          !.emit = Words(<<"4489", "4489">>) \o <<Is(MFM(8), "0")>> \o dat]

(* gunshoot_boot and gunshoot: 4096 and 5632 bytes.  A bad sum ends the scan. *)
gunshoot(bytes) ==
    LET dat == <<Keep(EOs(bytes \div 4, 32), "data"), Check(EO(32), "add", {"data"})>>
    IN  [Handler EXCEPT !.sync = {<<"4489">>}, !.total = MeasuredBits,
          !.take = <<Read(Words(<<"2aaa">>)), Need(dat)>>,
          !.emit = Words(<<"4489", "2aaa">>) \o dat]

(* hammerfist_a, b and c: 6664, 6680 and 6700 bytes that nothing checks. *)
hammerfist(bytes) ==
    LET sig == <<Is(EO(32), "sig")>>
        dat == <<Keep(EOs(bytes \div 4, 32), "data")>>
    IN  [Handler EXCEPT !.sync = {<<"4489">>}, !.open = {"data"}, !.total = {110600},
          !.take = <<Read(sig), Read(dat)>>, !.emit = Words(<<"4489">>) \o sig \o dat]

(* 18 bytes whose encoded words have a known sum. *)
hellfire_attack ==
    LET dat == <<Sealed(MFM(8 * 18), "data")>>
    IN  [Handler EXCEPT !.sync = {<<"a145">>}, !.total = MeasuredBits,
          !.take = <<Read(dat \o Words(<<"5555">>))>>,
          !.emit = Words(<<"a145">>) \o dat \o Words(<<"5555">>)]

(* A sum of all zeroes or all ones is taken for none.  The track may have   *)
(* two sync words; here it has one.                                         *)
hellwig ==
    LET zero == <<Is(MFM(8), "0")>>
        dat == <<Keep(EOs(1280, 32), "data"), Skip(EO(32), "add")>>
    IN  [Handler EXCEPT !.sync = {<<"4489">>}, !.open = {"data"}, !.total = MeasuredBits,
          !.take = <<Read(zero), Read(dat)>>, !.emit = Words(<<"4489">>) \o zero \o dat]

ilyad ==
    LET trk == <<Is(EO(16), "cyl")>>
        dat == <<Keep(EOs(3150, 16), "data"), Check(EO(16), "notxor", {"data"})>>
    IN  [Handler EXCEPT !.sync = {<<"4488">>}, !.total = MeasuredBits,
          !.take = <<Read(trk), Read(dat)>>, !.emit = Words(<<"4488">>) \o trk \o dat]

(* The sync, one of three by track, must come after a gap of zeroes. *)
intact ==
    LET dat == <<Keep(EOs(3000, 16), "data"), Check(EO(16), "add", {"data"})>>
    IN  [Handler EXCEPT !.sync = {<<"aaaa", "sync">>},
          !.take = <<Read(Words(<<"8888", "8888">>)), Read(dat)>>,
          !.emit = Words(<<"sync", "8888", "8888">>) \o dat]

(* sega_boot, outrun_sega and thunderblade_sega, each with a sync of its    *)
(* own.  It may be there twice, which the block remembers; here it is once. *)
hackmat ==
    LET sig == Words(<<"5555", "5555", "aaaa", "aaaa">>)
        dat == <<Check(EO(32), "sub", {"data"}), Keep(EOs(1500, 32), "data")>>
    IN  [Handler EXCEPT !.sync = {<<"sync">>}, !.take = <<Read(sig), Read(dat)>>,
          !.emit = Words(<<"sync">>) \o sig \o dat]

(* afterburner_sega and altered_beast_sega.  The header holds the cylinder. *)
hackmat_v2 ==
    LET dat == <<Is(EO(32), "cyl"), Keep(EOs(1550, 32), "data"),
                 Check(EO(32), "clocks", {"cyl", "data"})>>
    IN  [Handler EXCEPT !.sync = {<<"sync", "sync">>}, !.back = 31,
          !.take = <<Read(dat)>>, !.emit = Words(<<"sync", "sync">>) \o dat]

space_harrier_sega ==
    LET sig == Words(<<"5555", "5555", "aaaa", "aaaa">>)
        dat == <<Check(EO(32), "sub", {"data"}), Keep(EOs(1500, 32), "data")>>
    IN  [Handler EXCEPT !.sync = {<<"a245">>}, !.back = 31,
          !.take = <<Read(Words(<<"4489">>)), Read(sig), Read(dat)>>,
          !.emit = Words(<<"a245", "4489">>) \o sig \o dat]

judge_dredd ==
    LET zero == <<Is(MFM(16), "0")>>
        dat == <<Keep(OEs(1536, 32), "data"), Check(OE(32), "add", {"data"})>>
    IN  [Handler EXCEPT !.sync = {<<"5122">>}, !.total = MeasuredBits,
          !.take = <<Read(zero), Read(Words(<<"aa92">>)), Read(dat)>>,
          !.emit = Words(<<"5122">>) \o zero \o Words(<<"aa92">>) \o dat]

kelloggs_land ==
    LET dat == <<Keep(EOs(1536, 32), "data"), Check(EO(32), "add", {"data"})>>
    IN  [Handler EXCEPT !.sync = {<<"4489", "2aa9">>}, !.back = 31, !.total = {105500},
          !.take = <<Read(dat)>>, !.emit = Words(<<"4489", "2aa9">>) \o dat]

(* killing_gameshow_demo_a and b, 334 and 6296 bytes and a sum with its     *)
(* carries added back in.  It leaves out the last word.                     *)
killing_game_show_demo(bytes) ==
    LET dat == <<Check(EO(16), "carry", {"data"}), Keep(EO(8 * bytes), "data"),
                 Keep(EO(16), "last")>>
    IN  [Handler EXCEPT !.sync = {<<"4489">>}, !.open = {"last"}, !.total = {106000},
          !.take = <<Read(Words(<<"5555">>)), Read(dat)>>,
          !.emit = Words(<<"4489", "5555">>) \o dat]

(* Thirteen lengths are tried, each from the start of the source and each   *)
(* until the first bad sum; here the first is the track's.                  *)
konami ==
    LET dat == <<Keep(EOs(1536, 32), "data"), Check(EO(32), "add", {"data"})>>
    IN  [Handler EXCEPT
          !.sync = {<<"4489">>},
          !.take = <<Read(Words(<<"5525", "24a4">>)), Read(Words(<<"554a", "4945">>)), Need(dat)>>,
          !.emit = Words(<<"4489", "5525", "24a4", "554a", "4945">>) \o dat]

(* The header holds the disk number, which goes to a tag, and the track.    *)
lankhor(alt) ==
    LET more == IF alt THEN Words(<<"5554">>) ELSE <<>>
        dat == <<Is(EO(32), "trk"), Keep(EOs(IF alt THEN 1410 ELSE 1461, 32), "data"),
                 Check(EO(32), "minus", {"trk", "data"})>>
    IN  [Handler EXCEPT !.sync = {<<"4489">>},
          !.take = (IF alt THEN <<Read(more)>> ELSE <<>>) \o <<Read(dat)>>,
          !.emit = Words(<<"4489">>) \o more \o dat]

(* Nothing is checked, but a track of lankhor is refused first. *)
lankhor_loader ==
    LET dat == <<Keep(EO(8 * 5844), "data")>>
    IN  [Handler EXCEPT !.sync = {<<"4489">>}, !.open = {"data"}, !.take = <<Read(dat)>>,
          !.emit = <<Skip(Raw(16), "0000")>> \o Words(<<"4489">>) \o dat]

(* Sums inside the data, one or 23; a bad one of 23 ends the scan. *)
lin_wus_challenge ==
    LET dat == <<Sealed(EOs(1532, 32), "data")>>
    IN  [Handler EXCEPT !.sync = {<<"2245">>}, !.total = MeasuredBits,
          !.take = <<Need(dat)>>, !.emit = Words(<<"2245">>) \o dat]

(* Five sectors, or six on a long track.  data_bitoff is put back by 820    *)
(* hex, the bytes of a sector, for each one missing before the lowest.  A   *)
(* sector that is not valid is written with a bad sum.                      *)
logotron(n) ==
    LET dat == <<Check(MFM(16), "add", {"data"}), Keep(MFM(8 * 1024), "data")>>
    IN  [Handler EXCEPT
          !.sync = {<<"4489", "4489">>}, !.back = 31, !.mode = "each", !.need = "any",
          !.nsec = n, !.mark = "least", !.stride = 2080, !.bare = TRUE,
          !.total = IF n = 6 THEN {105500} ELSE {DefaultBits, 105500},
          !.take = <<Read(<<Is(MFM(16), "trk")>>), Read(<<Sec(MFM(8))>>), Read(dat)>>,
          !.emit = Sectors(n, Words(<<"4489", "4489">>) \o <<Is(MFM(16), "trk"), Sec(MFM(8))>>
                                \o dat \o Pad(72, "0"))]

(* magic_marble and _b, 5968 and 3032 bytes.  Six syncs are tried, each     *)
(* until the first bad sum; each long is xored with how many follow.        *)
magic_marble(bytes) ==
    LET dat == <<Check(EO(32), "count", {"data"}), Keep(EOs(bytes \div 4, 32), "data")>>
    IN  [Handler EXCEPT !.sync = {<<"sync", "sync">>}, !.back = 31, !.total = MeasuredBits,
          !.take = <<Need(dat)>>, !.emit = Words(<<"sync", "sync">>) \o dat]

(* A track with a sync and nothing else on it. *)
magic_marble_prot ==
    [Handler EXCEPT !.sync = {<<"aaaa", "1224">>}, !.back = 31, !.total = {96687},
      !.emit = Words(<<"aaaa", "1224">>) \o <<Skip(Raw(1410 * 8), "ff")>>]

megarts_hockey ==
    LET zero == <<Is(MFM(16), "0")>>
        dat == <<Check(EO(32), "xor", {"data"}), Keep(EOs(1494, 32), "data")>>
    IN  [Handler EXCEPT !.sync = {<<"4489", "4489">>}, !.total = MeasuredBits,
          !.take = <<Read(zero), Read(dat)>>,
          !.emit = Words(<<"4489", "4489">>) \o zero \o dat]

(* The sum is over the encoded words and does not cover the sector number.  *)
mentasm ==
    LET dat == <<Skip(EO(8), "68"), Sec(EO(8)), Check(EO(16), "clocks", {"data"}),
                 Keep(EOs(128, 32), "data")>>
    IN  [Handler EXCEPT
          !.sync = {<<"4489", "4489">>}, !.back = 31, !.mode = "each", !.need = "any",
          !.nsec = 12, !.mark = "least", !.bare = TRUE, !.total = MeasuredBits,
          !.take = <<Read(Words(<<"2aaa">>)), Read(dat)>>,
          !.emit = Sectors(12, Words(<<"4489", "4489", "2aaa">>) \o dat
                                 \o <<Skip(Raw(16), "2aaa")>>)]
=============================================================================
