----------------------------- MODULE HandlersMP -----------------------------
(* Track handlers of libdisk/format/amiga, mickey_mouse.c to puffys_saga.c. *)
EXTENDS TrackFields

(* The header holds the number of the track on the other side.  data_bitoff *)
(* is put back by fb2 hex, the bytes of a sector, for each one missing.     *)
mickey_mouse ==
    LET hdr == <<Is(MFM(8), "ff")>>
        dat == <<Check(MFM(16), "add", {"data"}), Keep(MFM(8 * 2000), "data")>>
    IN  [Handler EXCEPT
          !.sync = {<<"sync", "sync">>}, !.back = 31, !.mode = "each", !.need = "any",
          !.nsec = 3, !.mark = "least", !.stride = 4018, !.bare = TRUE, !.total = MeasuredBits,
          !.take = <<Read(hdr), Read(<<Is(MFM(8), "other")>>), Read(<<Sec(MFM(8))>>), Read(dat)>>,
          !.emit = Sectors(3, Words(<<"sync", "sync">>) \o hdr
                                \o <<Is(MFM(8), "other"), Sec(MFM(8))>> \o dat
                                \o <<Skip(Raw(32), "aaaa")>>)]

(* Two bytes fewer than the block has; nothing is checked. *)
time_bandit ==
    LET dat == <<Keep(MFM(8 * 6142), "data")>>
    IN  [Handler EXCEPT
          !.sync = {<<"4489", "4489">>}, !.back = 47, !.open = {"data"}, !.total = MeasuredBits,
          !.take = <<Read(Words(<<"4489">>)), Read(dat)>>,
          !.emit = Words(<<"4489", "4489", "4489">>) \o dat]

(* Sectors with two marks but without checks, numbered as they are found. *)
microdeal ==
    LET idam == Words(<<"4489">>)
        again == Words(<<"4489", "4489">>)
        hdr == <<Keep(MFM(8 * 40), "hdr")>>
        dat == <<Keep(MFM(8 * 512), "data")>>
    IN  [Handler EXCEPT
          !.sync = {<<"4489", "4489">>}, !.back = 31, !.mode = "each", !.need = "any",
          !.nsec = 10, !.mark = "least", !.order = TRUE, !.open = {"hdr", "data"},
          !.take = <<Read(idam), Read(<<Is(MFM(8), "fe")>>), Read(hdr), Read(again), Read(idam),
                     Read(<<Is(MFM(8), "fb")>>), Read(dat)>>,
          !.emit = Sectors(10, again \o idam \o <<Is(MFM(8), "fe")>> \o hdr
                                 \o again \o idam \o <<Is(MFM(8), "fb")>> \o dat \o Pad(64, "0"))]

(* The sum covers ten of the eleven sectors. *)
robocod ==
    LET hdr == <<Is(EO(32), "trk")>>
        dat == <<Check(EO(32), "amigados", {"data"}), Keep(EOs(10, 8 * 512), "data"),
                 Keep(EO(8 * 512), "last")>>
    IN  [Handler EXCEPT
          !.sync = {<<"4489", "4489">>}, !.back = 31, !.open = {"last"},
          !.total = {105500, DefaultBits},
          !.take = <<Read(hdr), Read(dat)>>,
          !.emit = Words(<<"4489", "4489">>) \o hdr \o dat]

(* robin_hood and james_pond_3, with different header bits. *)
millennium ==
    LET hdr == <<Is(EO(32), "trk")>>
        dat == <<Check(EO(32), "carry", {"data"}), Keep(EOs(1568, 32), "data")>>
    IN  [Handler EXCEPT !.sync = {<<"4489", "4489">>}, !.back = 31, !.total = {105500},
          !.take = <<Read(hdr), Read(dat)>>, !.emit = Words(<<"4489", "4489">>) \o hdr \o dat]

(* The encoded words have a sum known for each track. *)
moochies ==
    LET dat == <<Skip(Raw(16), "5555"), Sealed(EOs(6300, 8), "data")>>
    IN  [Handler EXCEPT !.sync = {<<"4489", "4489">>}, !.total = MeasuredBits,
          !.take = <<Read(dat)>>, !.emit = Words(<<"4489", "4489">>) \o dat]

(* night_hunter_a and b, each with a sync of its own. *)
night_hunter ==
    LET dat == <<Keep(EOs(3072, 16), "data"), Check(EO(16), "add", {"data"})>>
    IN  [Handler EXCEPT !.sync = {<<"sync">>}, !.total = {100500},
          !.take = <<Read(dat)>>, !.emit = Words(<<"sync">>) \o dat]

(* No check but for a mark that follows the data. *)
nightdawn ==
    LET dat == <<Keep(OE(8 * 5888), "data")>>
    IN  [Handler EXCEPT
          !.sync = {<<"4489">>}, !.open = {"data"},
          !.take = <<Read(Words(<<"5489", "2aaa">>)), Read(dat), Read(Words(<<"4a89", "2aaa">>))>>,
          !.emit = Words(<<"4489", "5489", "2aaa">>) \o dat \o Words(<<"4a89", "2aaa">>)]

(* nine_lives_a and b, 5120 and 6144 bytes whose xor is known for each      *)
(* track; that of the header is not, and a wrong one ends the scan.         *)
nine_lives(bytes) ==
    LET dat == <<Keep(EO(32), "hdr"), Sealed(EO(8 * bytes), "data")>>
    IN  [Handler EXCEPT
          !.sync = {<<"4489", "4489">>}, !.back = 31, !.open = {"hdr"}, !.total = {105600},
          !.take = <<Need(dat)>>, !.emit = Words(<<"4489", "4489">>) \o dat]

(* The crc of the whole comes to nothing. *)
no_second_prize_save ==
    LET dat == <<Sealed(MFM(8 * 4610), "data")>>
    IN  [Handler EXCEPT
          !.sync = {<<"4489", "4489">>}, !.back = 63, !.total = MeasuredBits,
          !.take = <<Read(Words(<<"4489", "4489">>)), Read(Words(<<"2aaa">>)), Read(dat)>>,
          !.emit = Words(<<"4489", "4489", "4489", "4489", "2aaa">>) \o dat]

(* Twelve sectors behind one sync, each with its number and its sum. *)
rnc_pdos_old ==
    LET dat == <<Sec(EO(32)), Check(EO(32), "amigados", {"data"}), Keep(EO(8 * 512), "data")>>
    IN  [Handler EXCEPT
          !.sync = {<<"4489", "4489">>}, !.back = 31, !.nsec = 12, !.total = MeasuredBits,
          !.take = PerSector(12, <<Read(dat)>>),
          !.emit = Words(<<"4489", "4489">>) \o Sectors(12, dat)]

(* The sum is over the encoded data but for the last byte. *)
persian_gulf_inferno ==
    LET dat == <<Check(Raw(32), "clocks", {"data"}), Keep(EOs(6383, 8), "data"),
                 Keep(EO(8), "last")>>
    IN  [Handler EXCEPT !.sync = {<<"8845">>}, !.open = {"last"}, !.total = {105500},
          !.take = <<Read(dat)>>, !.emit = Words(<<"8845">>) \o dat]

(* The even halves in four parts and the odd ones in four, each with a gap  *)
(* after it; the last word of both is the sum.                              *)
phantom_fighter ==
    LET part(n) == <<Keep(Raw(748 * 16), n), Skip(MFM(16), "gap")>>
        dat == part("e0") \o part("e1") \o part("e2")
                 \o <<Keep(Raw(747 * 16), "e3"), Skip(Raw(16), "sum"), Skip(MFM(16), "gap")>>
                 \o part("o0") \o part("o1") \o part("o2") \o <<Keep(Raw(747 * 16), "o3"),
                 Check(Raw(16), "add", {"e0", "e1", "e2", "e3", "sum", "o0", "o1", "o2", "o3"}),
                 Skip(MFM(16), "gap")>>
        lead == <<Skip(MFM(8), "ff")>>
    IN  [Handler EXCEPT !.sync = {<<"4489", "4489">>}, !.back = 31,
          !.take = <<Read(lead \o dat)>>, !.emit = Words(<<"4489", "4489">>) \o lead \o dat]

(* The sum does not cover the long with the sector; the track is not checked. *)
pick_n_pile ==
    LET dat == <<Sec(EO(32)), Check(EO(32), "add", {"data"}), Keep(EO(8 * 252), "data")>>
    IN  [Handler EXCEPT
          !.sync = {<<"4489", "4489">>}, !.back = 31, !.mode = "each", !.need = "any",
          !.nsec = 23, !.mark = "least", !.bare = TRUE,
          !.take = <<Read(Words(<<"2aaa", "a888">>)), Read(dat)>>,
          !.emit = Sectors(23, Words(<<"4489", "4489", "2aaa", "a888">>) \o dat \o Pad(16, "0"))]

(* pang and toki, 6304 and 6328 bytes; a bad sum ends the scan. *)
pierre_adane(bytes) ==
    LET hdr == <<Is(OE(32), "trk")>>
        dat == <<Keep(OEs(bytes \div 4, 32), "data"), Check(OE(32), "add55", {"trk", "data"})>>
    IN  [Handler EXCEPT !.sync = {<<"sync">>}, !.total = {105500, 102200},
          !.take = <<Read(hdr), Need(dat)>>, !.emit = Words(<<"sync">>) \o hdr \o dat]

(* The bytes add up to ed hex. *)
pieter_opdam ==
    LET dat == <<Sealed(EO(8 * 6160), "data")>>
    IN  [Handler EXCEPT !.sync = {<<"4891", "4891">>}, !.back = 31, !.total = MeasuredBits,
          !.take = <<Read(dat)>>, !.emit = Words(<<"4891", "4891">>) \o dat]

(* Neither the track nor the sector number is checked. *)
plan9 ==
    LET dat == <<Sec(OE(16)), Keep(OEs(275, 16), "data"), Check(OE(16), "add", {"data"})>>
    IN  [Handler EXCEPT
          !.sync = {<<"4489", "4489">>}, !.mode = "each", !.need = "any", !.nsec = 11,
          !.mark = "least", !.bare = TRUE, !.total = MeasuredBits,
          !.take = <<Read(Words(<<"4489", "5555">>)), Read(dat)>>,
          !.emit = Sectors(11, Words(<<"4489", "4489", "4489", "5555">>) \o dat)]

(* power_drift_loader; the first long is the cylinder and the last the sum. *)
power_drift_loader ==
    LET dat == <<Is(OE(32), "cyl"), Keep(OE(8 * 4096), "data"), Check(OE(32), "add", {"cyl", "data"})>>
    IN  [Handler EXCEPT !.sync = {<<"4489", "4489">>}, !.back = 31, !.total = MeasuredBits,
          !.take = <<Read(Words(<<"2aaa">>)), Read(dat)>>,
          !.emit = Words(<<"4489", "4489", "2aaa">>) \o dat]

(* A mark with 48 weak bits behind it, and then the data with a mark of its *)
(* own, where data_bitoff is.                                               *)
power_drift ==
    LET dat == <<Is(OE(32), "cyl"), Keep(OE(8 * 5632), "data"), Check(OE(32), "add", {"cyl", "data"})>>
    IN  [Handler EXCEPT
          !.sync = {<<"4489", "4489">>}, !.back = 31, !.total = MeasuredBits,
          !.take = <<Read(Words(<<"2aaa", "aaaa">>))>>,
          !.after = After(FALSE, {<<"4489", "4489">>}, TRUE, 31,
                          <<Read(Words(<<"2aaa">>)), Read(dat)>>),
          !.emit = Words(<<"4489", "4489", "2aaa", "aaaa">>) \o <<Skip(Raw(48), "weak")>>
                     \o Words(<<"4489", "4489", "2aaa">>) \o dat]

power_drift_disk_2 ==
    LET dat == <<Is(OE(24), "trk"), Sec(OE(8)), Keep(OE(8 * 512), "data"),
                 Check(OE(32), "add", {"trk", "sec", "data"})>>
    IN  [Handler EXCEPT
          !.sync = {<<"4489", "4489">>}, !.back = 31, !.mode = "each", !.need = "any",
          !.nsec = 11, !.mark = "least",
          !.take = <<Read(Words(<<"2aaa">>)), Read(dat)>>,
          !.emit = Sectors(11, Words(<<"4489", "4489", "2aaa">>) \o dat
                                 \o <<Skip(Raw(16), "2aaa")>> \o Pad(32, "0"))]

(* The sum is over the encoded words; a bad one ends the scan. *)
prime_mover ==
    LET dat == <<Check(OE(16), "clocks", {"data"}), Skip(Raw(32), "aaa5"),
                 Keep(OEs(3152, 16), "data")>>
    IN  [Handler EXCEPT !.sync = {<<"448a", "448a">>}, !.back = 31, !.total = MeasuredBits,
          !.take = <<Read(Words(<<"5555", "5555">>)), Need(dat)>>,
          !.emit = Words(<<"448a", "448a", "5555", "5555">>) \o dat]

(* The last long is the sum of the others, each xored with a key. *)
projekt_ikarus ==
    LET dat == <<Sealed(EOs(3136, 16), "data")>>
    IN  [Handler EXCEPT !.sync = {<<"8944", "8944">>}, !.back = 31, !.total = MeasuredBits,
          !.take = <<Read(dat)>>, !.emit = Words(<<"8944", "8944">>) \o dat]

(* 128 bytes, all 0 or ff, or the scan ends; then seven words with a known sum. *)
promic_protection ==
    LET zeros == <<Is(MFM(8 * 128), "0")>>
        dat == <<Sealed(Raw(7 * 16), "data")>>
    IN  [Handler EXCEPT !.sync = {<<"4911", "4911">>}, !.back = 31, !.total = {101400},
          !.take = <<Need(zeros), Read(dat)>>,
          !.emit = Words(<<"4911", "4911">>) \o zeros \o dat]

(* The sync, one of two, may be there twice; here it is once. *)
psygnosis_a ==
    LET hdr == <<Is(EO(32), "trk")>>
        dat == <<Check(EO(32), "amigados", {"data"}), Keep(EO(8 * 6144), "data")>>
    IN  [Handler EXCEPT !.sync = {<<"4489">>, <<"4429">>}, !.total = {DefaultBits, 105500},
          !.take = <<Read(hdr), Read(dat)>>,
          !.emit = Words(<<"4489">>) \o hdr \o dat]

puffys_saga ==
    LET zeros == <<Is(MFM(30 * 16), "0")>>
        dat == <<Check(MFM(16), "add", {"cyl", "data"}), Is(MFM(16), "cyl"),
                 Keep(MFM(8 * 5632), "data")>>
    IN  [Handler EXCEPT !.sync = {<<"4489", "4489">>}, !.back = 31,
          !.take = <<Read(zeros), Read(Words(<<"4444">>)), Read(dat)>>,
          !.emit = Words(<<"4489", "4489">>) \o zeros \o Words(<<"4444">>) \o dat]
=============================================================================
