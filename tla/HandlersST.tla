----------------------------- MODULE HandlersST -----------------------------
(* Track handlers of libdisk/format/amiga, sextett.c to turn_it.c. *)
EXTENDS TrackFields

(* Track 158; 159 and 161 hold no data and are not scanned. *)
sextett_protection ==
    LET dat == <<Keep(Raw(32), "key")>>
    IN  [Handler EXCEPT !.sync = {<<"9245", "9245">>}, !.back = 31, !.open = {"key"},
          !.take = <<Read(dat)>>, !.emit = Words(<<"9245", "9245">>) \o dat]

(* Beast I, its 190c variant and Beast II: a signature, no sum. *)
shadow_beast(bytes, total) ==
    LET sig == <<Is(EO(32), "sig")>>
        dat == <<Keep(EOs(bytes \div 4, 32), "data")>>
    IN  [Handler EXCEPT !.sync = {<<"4489">>}, !.open = {"data"}, !.total = {total},
          !.take = <<Read(sig), Read(dat)>>, !.emit = Words(<<"4489">>) \o sig \o dat]

(* The sync is sought in the high half of the word, a word late. *)
shuffle ==
    LET zero == <<Is(MFM(16), "0")>>
        dat == <<Keep(EOs(1575, 32), "data"), Check(MFM(16), "crc", {"0", "data"})>>
    IN  [Handler EXCEPT !.sync = {<<"4489">>}, !.total = {102200},
          !.take = <<Read(zero), Read(dat)>>, !.emit = Words(<<"4489">>) \o zero \o dat]

(* Mutant of silkworm: read_raw writes the sum in front of the data. *)
silkworm_SumFirst ==
    LET dat == <<Keep(EOs(1408, 32), "data"), Check(EO(32), "add", {"data"})>>
    IN  [Handler EXCEPT !.sync = {<<"4489", "4489">>}, !.back = 31,
          !.take = <<Read(Words(<<"5555", "5555">>)), Read(dat)>>,
          !.emit = Words(<<"4489", "4489", "5555", "5555">>) \o Reverse(dat)]

(* Mutant of silkworm: a bad sum ends the scan. *)
silkworm_GivesUp ==
    LET dat == <<Keep(EOs(1408, 32), "data"), Check(EO(32), "add", {"data"})>>
    IN  [Handler EXCEPT !.sync = {<<"4489", "4489">>}, !.back = 31,
          !.take = <<Read(Words(<<"5555", "5555">>)), Need(dat)>>,
          !.emit = Words(<<"4489", "4489", "5555", "5555">>) \o dat]

(* A bad sum scans on. *)
silkworm ==
    LET dat == <<Keep(EOs(1408, 32), "data"), Check(EO(32), "add", {"data"})>>
    IN  [Handler EXCEPT !.sync = {<<"4489", "4489">>}, !.back = 31,
          !.take = <<Read(Words(<<"5555", "5555">>)), Read(dat)>>,
          !.emit = Words(<<"4489", "4489", "5555", "5555">>) \o dat]

sink_or_swim ==
    LET dat == <<Keep(EOs(1537, 32), "data")>>
    IN  [Handler EXCEPT !.sync = {<<"aaaa", "8914">>}, !.back = 31, !.open = {"data"},
          !.take = <<Read(dat)>>, !.emit = Words(<<"aaaa", "8914">>) \o dat]

(* The disk number is compared once the first track has set it.  On even    *)
(* tracks the last two bits of the sync are not looked at.                  *)
skaermtrolden_hugo ==
    LET dat == <<Check(EO(32), "add", {"data"}), Is(EO(32), "disk"), Is(EO(32), "trk"),
                 Keep(EOs(1485, 32), "data")>>
    IN  [Handler EXCEPT !.sync = {<<"8944", "8944">>}, !.back = 31,
          !.take = <<Read(dat)>>, !.emit = Words(<<"8944", "8944">>) \o dat]

(* A bad sum ends the scan. *)
sliders ==
    LET dat == <<Keep(EOs(1536, 32), "data"), Check(EO(32), "add", {"data"})>>
    IN  [Handler EXCEPT !.sync = {<<"a144", "a144">>}, !.total = MeasuredBits,
          !.take = <<Need(dat)>>, !.emit = Words(<<"a144", "a144">>) \o dat]

(* The five longs behind the track number are taken apart as even and odd   *)
(* bits and put back as plain MFM.                                          *)
sliding_skill ==
    LET hdr == <<Is(EO(8), "ff"), Is(EO(8), "trk"), Skip(EO(16), "1")>>
        longs(e) == <<Keep(e, "header")>>
        dat == <<Check(EO(32), "xor", {"data"}), Keep(EOs(1536, 32), "data")>>
    IN  [Handler EXCEPT
          !.sync = {<<"4489", "4489">>}, !.open = {"header"}, !.total = MeasuredBits,
          !.take = <<Read(hdr), Read(longs(EOs(5, 32)) \o dat)>>,
          !.emit = Words(<<"4489", "4489">>) \o hdr \o longs(MFM(160)) \o dat]

(* The sum is over the encoded longs and leaves out the last three. *)
smartdos ==
    LET dat == <<Check(EO(32), "carry", {"data"}), Keep(EOs(1551, 32), "data"),
                 Keep(EOs(3, 32), "rest")>>
    IN  [Handler EXCEPT !.sync = {<<"4488">>}, !.open = {"rest"}, !.total = {100500},
          !.take = <<Read(dat)>>, !.emit = Words(<<"4488">>) \o dat]

(* special_fx and head_over_heels.  to_gap, which counts down to the gap,    *)
(* says where on the track a sector lies; here sector 0 is the first.       *)
special_fx ==
    LET hdr == <<Is(EO(8), "trk"), Sec(EO(8)), Skip(EO(8), "to_gap"), Is(EO(8), "mbz")>>
        dat == <<Check(EO(32), "rotate", {"data"}), Keep(EO(8 * 512), "data")>>
    IN  [Handler EXCEPT
          !.mode = "each", !.need = "any", !.nsec = 12, !.mark = "least", !.stride = 1048 * 8,
          !.sync = {<<"8944", "aaaa">>}, !.back = 31, !.bare = TRUE, !.total = {105500},
          !.take = <<Read(hdr), Read(dat)>>,
          !.emit = Sectors(12, Words(<<"8944">>) \o <<Is(MFM(8), "0")>> \o hdr \o dat
                                 \o Pad(16, "0"))]

(* speedball, and speedball_us whose data_bitoff is 16 bits later. *)
speedball(back) ==
    LET hdr == <<Is(MFM(16), "fefe"), Is(EO(32), "THBB"), Is(EO(32), "len")>>
        dat == <<Check(EO(32), "xor", {"data"}), Keep(EOs(1488, 32), "data")>>
    IN  [Handler EXCEPT !.sync = {<<"4489", "4489">>}, !.back = back,
          !.take = <<Read(hdr), Read(dat)>>,
          !.emit = Words(<<"4489", "4489">>) \o hdr \o dat]

(* Two more sync words and 5555 must follow before data_bitoff is set; the  *)
(* track number is that of the other side.                                  *)
ss_mfm ==
    LET dat == <<Keep(OEs(3072, 16), "data"), Check(OE(16), "add", {"data"}), Is(OE(16), "other")>>
    IN  [Handler EXCEPT !.sync = {<<"4489">>},
          !.take = <<Read(Words(<<"4489", "4489">>)), Read(Words(<<"5555">>)), Read(dat)>>,
          !.emit = Words(<<"4489", "4489", "4489", "5555">>) \o dat]

(* super_stardust sums the encoded longs, and the sum follows them. *)
stardust(super) ==
    LET hdr == <<Is(EO(16), "disk"), Is(EO(8), "trk"), Sec(EO(8))>>
        hsum == <<Check(EO(32), "not", {"disk", "trk", "sec"})>>
        sum == <<Check(EO(32), IF super THEN "encoded" ELSE "xor", {"data"})>>
        data == <<Keep(IF super THEN EO(8 * 1032) ELSE EOs(258, 32), "data")>>
        dat == IF super THEN data \o sum ELSE sum \o data
    IN  [Handler EXCEPT
          !.mode = "each", !.need = "any", !.nsec = 6, !.mark = "least", !.stride = 2092 * 8,
          !.sync = {<<"4489", "4489">>}, !.back = 31,
          !.total = {IF super THEN 103100 ELSE 101300},
          !.take = <<Read(hdr \o hsum), Read(dat)>>,
          !.emit = Sectors(6, Words(<<"4489", "4489">>) \o hdr \o hsum \o dat)]

star_trash ==
    LET pad == <<Is(Raw(32), "5555")>>
        dat == <<Keep(EOs(1472, 32), "data"), Check(MFM(16), "crc", {"5555", "data"})>>
    IN  [Handler EXCEPT !.sync = {<<"4489", "4489">>}, !.back = 31, !.total = MeasuredBits,
          !.take = <<Read(pad), Read(dat)>>, !.emit = Words(<<"4489", "4489">>) \o pad \o dat]

(* The sum lies in the header. *)
steigenberger_hotelmanager ==
    LET zero == <<Is(MFM(8), "0")>>
        dat == <<Is(EO(8), "trk"), Check(EO(8), "xor", {"data"}), Is(EO(16), "sig"),
                 Keep(EOs(1472, 32), "data")>>
    IN  [Handler EXCEPT !.sync = {<<"4849">>}, !.total = MeasuredBits,
          !.take = <<Read(zero), Read(dat)>>, !.emit = Words(<<"4849">>) \o zero \o dat]

(* The same with another sync and signature, and a length of its own. *)
street_gang ==
    [steigenberger_hotelmanager EXCEPT
      !.sync = {<<"4489">>}, !.total = {100800},
      !.emit = Words(<<"4489">>) \o Tail(@)]

(* The sum lies in the block; the last seven words are not in it. *)
street_hockey ==
    LET dat == <<Keep(EO(8 * 5634), "data"), Check(EO(32), "add", {"data"}), Keep(EO(8 * 10), "rest")>>
    IN  [Handler EXCEPT !.sync = {<<"4489">>}, !.open = {"rest"}, !.total = MeasuredBits,
          !.take = <<Read(Words(<<"4488", "aaaa">>)), Read(dat)>>,
          !.emit = Words(<<"4489", "4488", "aaaa">>) \o dat]
(* The byte sum shares the header's long with the track number. *)
summer_games ==
    LET dat == <<Is(EO(8), "ff"), Is(EO(8), "trk"), Is(EO(8), "0"), Check(EO(8), "xor", {"data"})>>
                 \o Sectors(12, <<Keep(EOs(125, 32), "data")>>)
    IN  [Handler EXCEPT !.sync = {<<"4489", "4489">>}, !.back = 31, !.nsec = 12,
          !.take = <<Read(dat)>>, !.emit = Words(<<"4489", "4489">>) \o dat]

(* The sum lies in the last long but one of the block; the last is not in it. *)
supaplex ==
    LET dat == <<Keep(OE(8 * 6144), "data"), Check(OE(32), "add", {"data"}), Keep(OE(32), "rest")>>
    IN  [Handler EXCEPT !.sync = {<<"4489">>}, !.open = {"rest"}, !.total = {100500},
          !.take = <<Read(Words(<<"5555", "5149">>)), Read(Words(<<"452a">>)), Read(dat)>>,
          !.emit = Words(<<"4489", "5555", "5149", "452a">>) \o dat]

(* Between two syncs lie 128 bits, of which v2 makes half weak.  If they    *)
(* are not as v1 has them the track is v2, whose even tracks are encrypted. *)
super_hang_on(v2) ==
    LET between == IF v2 THEN Pad(16, "0") \o Pad(32, "weak") \o Pad(16, "0") ELSE Pad(64, "0")
        dat == <<Is(OE(32), "cyl"), Keep(OE(8 * 5632), "data"), Check(OE(32), "add", {"cyl", "data"})>>
    IN  [Handler EXCEPT
          !.sync = {<<"4489", "4489">>}, !.back = 31,
          !.take = <<Seek({<<"4489", "4489">>}, 128 + 320), Read(<<Is(MFM(8), "0")>>), Read(dat)>>,
          !.emit = Words(<<"4489", "4489">>) \o between \o Words(<<"4489", "4489">>)
                     \o <<Is(MFM(8), "0")>> \o dat]

(* write_raw copies the block from the zero and the cylinder on, a long     *)
(* early, and so leaves out the last long of the data; read_raw writes the  *)
(* whole block behind a zero and a cylinder of its own.                     *)
super_hang_on_scores ==
    LET sum == Check(OE(32), "add", {"0", "cyl", "data", "last"})
        zero == Is(OE(16), "0")
        data == Keep(OE(8 * 2044), "data")
        dat == <<zero, Keep(OE(16), "cyl"), data, Skip(OE(32), "last"), sum>>
    IN  [Handler EXCEPT
          !.sync = {<<"4489", "4489">>}, !.back = 31,
          !.take = <<Read(<<Is(MFM(8), "0")>>), Read(dat)>>,
          !.emit = Words(<<"4489", "4489">>) \o <<Is(MFM(8), "0")>>
                     \o <<zero, Skip(OE(16), "cyl"), data, Keep(OE(32), "last"), sum>>]

(* The longs add up to -1. *)
taekwondo_master ==
    LET dat == <<Sealed(EOs(1564, 32), "data")>>
    IN  [Handler EXCEPT !.sync = {<<"2244", "2244">>}, !.back = 31, !.total = MeasuredBits,
          !.take = <<Read(dat)>>, !.emit = Words(<<"2244", "2244">>) \o dat]

(* Each range of tracks has a sync of its own. *)
tank_buster ==
    LET dat == <<Keep(EOs(1575, 32), "data")>>
    IN  [Handler EXCEPT !.sync = {<<"sync">>}, !.open = {"data"}, !.total = MeasuredBits,
          !.take = <<Read(Words(<<"aaaa", "aaaa">>)), Read(dat)>>,
          !.emit = Words(<<"sync", "aaaa", "aaaa">>) \o dat]

(* A sum that is not the known one only brings a warning. *)
tech ==
    LET dat == <<Keep(EOs(1500, 32), "data")>>
    IN  [Handler EXCEPT !.sync = {<<"aaaa", "4891">>}, !.open = {"data"}, !.total = MeasuredBits,
          !.take = <<Read(dat)>>, !.emit = Words(<<"aaaa", "4891">>) \o dat]

tech_boot ==
    LET dat == <<Keep(EOs(1001, 32), "data")>>
    IN  [Handler EXCEPT !.sync = {<<"aaaa", "4489">>}, !.open = {"data"}, !.total = MeasuredBits,
          !.take = <<Read(Words(<<"25a5", "a5a5">>)), Read(dat)>>,
          !.emit = Words(<<"aaaa", "4489", "25a5", "a5a5">>) \o dat]

(* Once the first mark and its word have been met, only the second is       *)
(* sought.  data_bitoff is the second mark's.                               *)
telexpress ==
    LET dat == <<Sealed(EOs(1558, 32), "data")>>
    IN  [Handler EXCEPT
          !.sync = {<<"4489", "4489">>}, !.mark = "none", !.total = {102000},
          !.take = <<Read(Words(<<"52a4", "52a4">>))>>,
          !.after = After(FALSE, {<<"44a1", "44a1">>}, TRUE, 31, <<Read(dat)>>),
          !.emit = Words(<<"4489", "4489", "52a4", "52a4">>) \o <<Skip(EOs(30, 32), "zeroes")>>
                     \o Words(<<"44a1", "44a1">>) \o dat]

(* One pass for each of the known syncs, ended by the first bad candidate. *)
the_plague(sync, longs, total) ==
    LET zero == <<Is(EO(16), "0")>>
        dat == <<Keep(EOs(longs, 32), "data"), Check(EO(32), "add", {"data"})>>
    IN  [Handler EXCEPT !.sync = {sync}, !.back = 32, !.total = total,
          !.take = <<Need(zero), Need(dat)>>, !.emit = Words(sync) \o zero \o dat]

the_plague_a == the_plague(<<"sync", "sync">>, 1536, {DefaultBits})

the_plague_b == the_plague(<<"faf3", "faf3">>, 768, {50500})    \* in single density

(* Six thousand times the same word; no data. *)
the_plague_c ==
    [Handler EXCEPT !.sync = {<<"a244", "a244">>}, !.back = 31, !.total = {100200},
      !.take = <<Read(<<Fill(16 * 5999, "a244")>>)>>,
      !.emit = Words(<<"a244", "a244">>) \o <<Fill(16 * 6260, "a244")>>]

(* tlk_dos_1 and _2: each cylinder has a sync and a size of coded block. *)
tlk_dos ==
    LET dat == <<Is(OE(16), "id"), Is(OE(16), "trk"), Check(OE(32), "add", {"data"}),
                 Keep(OE(8 * 6292), "data")>>
    IN  [Handler EXCEPT !.sync = {<<"sync", "sync">>}, !.back = 31, !.total = {101500},
          !.take = <<Read(dat)>>, !.emit = Words(<<"sync", "sync">>) \o dat]

(* lorna has one sector.  Once that is stored, what follows it only decides *)
(* whether the scan ends here or at the next bit.                           *)
toposoft ==
    LET zero == <<Is(EO(32), "0")>>
        dat == <<Keep(EOs(1408, 32), "data"), Check(EO(32), "xor", {"data"})>>
    IN  [Handler EXCEPT !.sync = {<<"4a8a", "4a8a">>}, !.mark = "fixed", !.total = {102500},
          !.take = <<Read(<<Is(EO(32), "fa")>>), Read(zero), Read(zero), Read(dat)>>,
          !.emit = Words(<<"4a8a", "4a8a">>) \o <<Is(EO(32), "fa")>> \o zero \o zero \o dat \o zero]

tracker ==
    LET hdr == <<Is(EO(32), "hdr")>>
        dat == <<Check(EO(32), "amigados", {"data"}), Is(EO(32), "0")>>
                 \o Sectors(11, <<Keep(EO(8 * 512), "data")>>)
    IN  [Handler EXCEPT
          !.sync = {<<"4489", "4489">>}, !.back = 31, !.nsec = 11,
          !.take = <<Read(Words(<<"4489", "4489">>)), Read(hdr), Read(dat)>>,
          !.emit = Words(<<"4489", "4489", "4489", "4489">>) \o hdr \o dat]

(* The crc of each track is known. *)
turn_it ==
    LET dat == <<Sealed(EOs(1575, 32), "data")>>
    IN  [Handler EXCEPT !.sync = {<<"4489">>}, !.total = MeasuredBits,
          !.take = <<Read(Words(<<"aaaa", "aaaa">>)), Read(dat)>>,
          !.emit = Words(<<"4489", "aaaa", "aaaa">>) \o dat]
=============================================================================
