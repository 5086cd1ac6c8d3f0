----------------------------- MODULE HandlersPS -----------------------------
(* Track handlers of libdisk/format/amiga, pinball_dreams.c to sensible.c. *)
EXTENDS TrackFields

(* The sum's 64 bits are written as 32 zeroes and 16 coded bits.  Without   *)
(* the mark behind the data the scan ends.                                  *)
pinball_dreams ==
    LET dat == <<Check(EO(32), "xor", {"data"}), Keep(MFM(8 * 6242), "data")>>
        tail == Words(<<"4489", "4489">>)
    IN  [Handler EXCEPT !.sync = {<<"448a", "448a">>}, !.back = 31, !.total = {101200, 105500},
          !.take = <<Read(dat), Need(tail)>>,
          !.emit = Words(<<"448a", "448a">>) \o dat \o tail]

pinball_fantasies ==
    LET dat == <<Check(EO(32), "xor", {"data"}), Keep(EOs(1558, 32), "data")>>
                 \o Words(<<"5455", "5251">>)
    IN  [Handler EXCEPT !.sync = {<<"2112", "2112">>}, !.back = 31, !.total = {105500, 102200},
          !.take = <<Read(Words(<<"448a">>)), Read(dat)>>,
          !.emit = Words(<<"2112", "2112", "448a">>) \o dat]

(* The sum covers all but the first twelve bytes, which it lies in. *)
pinball_prelude ==
    LET dat == <<Keep(MFM(32), "first"), Check(MFM(32), "rol3", {"data"}),
                 Keep(MFM(32), "third"), Keep(MFM(8 * 6312), "data")>>
    IN  [Handler EXCEPT !.sync = {<<"sync">>}, !.open = {"first", "third"}, !.total = {106000},
          !.take = <<Read(dat)>>, !.emit = Words(<<"sync">>) \o dat]

(* rainbird and digital_magic, 5120 and 6080 bytes. *)
rainbird(bytes) ==
    LET hdr == <<Is(EO(32), "trk")>>
        dat == <<Check(EO(32), "amigados", {"data"}), Keep(EO(8 * bytes), "data")>>
    IN  [Handler EXCEPT !.sync = {<<"4489", "4489">>}, !.back = 31,
          !.take = <<Read(hdr), Read(dat)>>,
          !.emit = Words(<<"4489", "4489">>) \o hdr \o dat]

(* spherical and conqueror, each with a sync of its own. *)
rainbow_arts ==
    LET dat == <<Keep(EOs(1280, 32), "data"), Check(EO(32), "add", {"data"})>>
    IN  [Handler EXCEPT !.sync = {<<"sync", "2aaa">>}, !.back = 31, !.total = {101200},
          !.take = <<Read(dat)>>, !.emit = Words(<<"sync", "2aaa">>) \o dat]

(* Tracks 158 to 161: a sync; nothing else is looked at or stored. *)
rainbow_arts_protection ==
    [Handler EXCEPT !.sync = {<<"sync", "sync">>}, !.back = 31,
      !.emit = Words(<<"sync", "sync">>) \o <<Skip(Raw(32), "offset")>>]

(* 17 words with a known sum; one known flaw is put right. *)
rallye_master_protection ==
    LET dat == <<Sealed(Raw(17 * 16), "data")>>
    IN  [Handler EXCEPT !.sync = {<<"8494", "8494">>}, !.back = 32, !.total = {97500},
          !.take = <<Read(dat)>>, !.emit = Words(<<"8494", "8494">>) \o dat]

(* The directory of track 2 tells the sync, the header how many longs; here *)
(* there are 1800 hex bytes.                                                *)
ratt_dos ==
    LET dat == <<Keep(OE(32), "hdr"), Keep(OEs(1536, 32), "data"),
                 Check(OE(32), "minus", {"hdr", "data"})>>
    IN  [Handler EXCEPT !.sync = {<<"sync">>}, !.take = <<Read(dat)>>,
          !.emit = Words(<<"sync">>) \o dat]

(* One mastering error is known and put right. *)
rhino ==
    LET dat == <<Is(EO(8), "trk"), Keep(EO(24), "type"), Keep(EO(8 * 6156), "data")>>
        zero == <<Is(MFM(8), "0")>>
        sum == <<Check(EO(8), "xor", {"trk", "type", "data"})>>
    IN  [Handler EXCEPT
          !.sync = {<<"2291", "2291">>}, !.back = 31, !.mark = "taken",
          !.total = {DefaultBits, 102800, 105700},
          !.take = <<Read(dat), Read(zero), Read(sum)>>,
          !.emit = Words(<<"2291", "2291">>) \o dat \o zero \o sum]

(* Nothing is checked but the signature. *)
robocop ==
    LET sig == <<Is(EO(32), "ARB0")>>
        dat == <<Keep(EOs(1556, 32), "data")>>
    IN  [Handler EXCEPT !.sync = {<<"4489">>}, !.open = {"data"}, !.total = {105500},
          !.take = <<Read(sig), Read(dat)>>, !.emit = Words(<<"4489">>) \o sig \o dat]

(* rock_n_roll_a, b and c, each with a sync; a bad sum ends the scan. *)
rock_n_roll ==
    LET dat == <<Keep(EO(8 * 6144), "data"), Check(EO(32), "xor", {"data"})>>
    IN  [Handler EXCEPT !.sync = {<<"sync">>}, !.total = MeasuredBits,
          !.take = <<Need(dat)>>, !.emit = Words(<<"sync">>) \o dat]

(* Half of the header is kept as it is. *)
rome_ad ==
    LET hdr == <<Keep(EO(16), "hdr"), Skip(EO(8), "0"), Is(EO(8), "trk")>>
        dat == <<Check(EO(32), "carry", {"data"}), Keep(EOs(1568, 32), "data")>>
    IN  [Handler EXCEPT
          !.sync = {<<"4489", "4489">>}, !.back = 31, !.open = {"hdr"}, !.total = MeasuredBits,
          !.take = <<Read(hdr), Read(dat)>>, !.emit = Words(<<"4489", "4489">>) \o hdr \o dat]

(* The sum is written as its odd bits only. *)
rtype_a ==
    LET zero == <<Is(MFM(8), "0")>>
        dat == <<Check(Raw(32), "amigados", {"data"}), Keep(EO(8 * 5968), "data")>>
    IN  [Handler EXCEPT !.sync = {<<"9521">>}, !.take = <<Read(zero), Read(dat)>>,
          !.emit = Words(<<"9521">>) \o zero \o dat]

rtype_b ==
    LET zero == <<Is(MFM(8), "0")>>
        dat == <<Keep(EOs(1638, 32), "data"), Check(EO(32), "amigados", {"data"})>>
    IN  [Handler EXCEPT !.sync = {<<"9521">>}, !.total = {105500},
          !.take = <<Read(zero), Read(dat)>>, !.emit = Words(<<"9521">>) \o zero \o dat]

(* The crc is known for each track of each disk; the padding is not. *)
ruffian ==
    LET disk == <<Sealed(Raw(16), "disk")>>
        dat == <<Sealed(EOs(1408, 32), "data")>>
        tail == <<Keep(Raw(16), "padding")>> \o Words(<<"aaaa", "4489">>)
    IN  [Handler EXCEPT
          !.sync = {<<"8914">>}, !.open = {"padding"},
          !.take = <<Read(Words(<<"5554", "aaaa">>)), Read(disk), Read(dat), Read(tail)>>,
          !.emit = Words(<<"8914", "5554", "aaaa">>) \o disk \o dat \o tail]

(* sales_curve and ninja_warriors, each with a sync. *)
sales_curve ==
    LET dat == <<Skip(Raw(16), "word2"), Keep(OEs(1560, 32), "data"), Check(OE(32), "add", {"data"})>>
    IN  [Handler EXCEPT !.sync = {<<"sync">>}, !.total = {105400},
          !.take = <<Read(dat)>>, !.emit = Words(<<"sync">>) \o dat]

(* Track and sector are taken out of the header as a little-endian machine  *)
(* has them.                                                                *)
savage ==
    LET hdr == <<Skip(EO(8), "ff"), Is(EO(8), "trk"), Sec(EO(8)), Skip(EO(8), "left")>>
        hsum == <<Check(EO(32), "amigados_hdr", {"ff", "trk", "sec", "left"})>>
        dat == <<Check(EO(32), "amigados", {"data"}), Keep(EO(8 * 512), "data")>>
        zero == <<Is(EO(32), "0")>>
    IN  [Handler EXCEPT
          !.sync = {<<"4489", "4489">>}, !.back = 31, !.mode = "each", !.need = "any",
          !.nsec = 11, !.mark = "least",
          !.take = <<Read(hdr), Read(hsum), Read(dat), Read(zero)>>,
          !.emit = Sectors(11, Words(<<"4489", "4489">>) \o hdr \o hsum \o dat \o zero)]

(* One block, odd bits of everything first; the track is that of the other side. *)
sensible ==
    LET dat == <<Is(OE(32), "SOS6"), Check(OE(32), "add", {"SOS6", "other", "data"}),
                 Is(OE(32), "other"), Keep(OE(8 * 6144), "data")>>
    IN  [Handler EXCEPT !.sync = {<<"4489", "4489">>}, !.back = 31, !.take = <<Read(dat)>>,
          !.emit = Words(<<"4489", "4489">>) \o dat]
=============================================================================
