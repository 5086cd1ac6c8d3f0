----------------------------- MODULE HandlersAB -----------------------------
(* Track handlers of libdisk/format/amiga, 1000cc.c to chw.c, with antcliffe.c. *)
EXTENDS TrackFields

(* turbo1000cc_b has one more word, which the sum does not cover. *)
turbo1000cc(b) ==
    LET chk == IF b THEN <<Keep(EO(32), "chk")>> ELSE <<>>
        dat == Sectors(11, <<Keep(EO(8 * 512), "data")>>)
        sum == <<Check(EO(32), "add", {"data"})>>
    IN  [Handler EXCEPT
          !.sync = {<<"4489", "4489">>}, !.back = 31, !.nsec = 11,
          !.open = IF b THEN {"chk"} ELSE {},
          !.take = <<Read(Words(<<"2aaa", "aaaa">>)), Read(Words(<<"aaaa", "aaaa">>)),
                     Read(sum \o chk \o dat)>>,
          !.emit = Words(<<"4489", "4489", "2aaa", "aaaa", "aaaa", "aaaa">>)
                     \o sum \o chk \o dat]

(* The last long of the block is its checksum. *)
acid ==
    LET dat == <<Sealed(EO(8 * 6152), "data")>>
    IN  [Handler EXCEPT !.sync = {<<"4489">>}, !.total = {105500, 100150},
          !.take = <<Read(Words(<<"2aaa">>)), Read(dat)>>,
          !.emit = Words(<<"4489", "2aaa">>) \o dat]

(* IBM sectors, the last of 512 bytes.  Head and cylinder are those of the  *)
(* track on odd tracks and f7 on even ones, and so is the size code.        *)
adls ==
    LET bytes(i) == IF i = 5 THEN 512 ELSE 1024
        idam == <<Is(MFM(8), "cyl"), Is(MFM(8), "head"), Sec(MFM(8)), Is(MFM(8), "no"),
                  Check(MFM(16), "crc", {"cyl", "head", "sec", "no"})>>
        dat(i) == <<Keep(MFM(8 * bytes(i)), "data"), Check(MFM(16), "crc", {"data"})>>
    IN  [Handler EXCEPT
          !.mode = "each", !.need = "any", !.nsec = 6, !.mark = "fixed",
          !.sync = {IdamMark}, !.take = <<Read(idam)>>,
          !.then = [i \in 1 .. 6 |-> <<Seek({DamMark}, 1000), Read(dat(i - 1))>>],
          !.emit = SectorsBy(6, LAMBDA i :
              Pad(96, "0") \o Words(IdamMark) \o idam \o Pad(176, "4e")
                \o Pad(96, "0") \o Words(DamMark) \o dat(i) \o Pad(192, "4e"))]

(* The words of the track must add up to a constant of the title. *)
ak_avalon ==
    LET dat == <<Sealed(Raw(8 * 12492), "data")>>
    IN  [Handler EXCEPT !.sync = {<<"aaaa", "4425">>}, !.total = MeasuredBits,
          !.take = <<Read(dat)>>, !.emit = Words(<<"aaaa", "4425">>) \o dat]

aladdins_magic_lamp ==
    LET dat == <<Keep(EOs(1280, 32), "data")>>
    IN  [Handler EXCEPT !.sync = {<<"0800">>}, !.total = MeasuredBits, !.open = {"data"},
          !.take = <<Need(dat)>>, !.emit = Words(<<"0800">>) \o dat]

(* Four parts, each with a sync, a signature and a length of its own. *)
albedo_protection ==
    LET sync == <<"448a", "8945", "a291", "8891">>
        sig == << <<"4aa2", "5555">>, <<"4a25", "2555">>, <<"4a25", "5255">>, <<"4a25", "5555">> >>
        size == <<1422, 888, 680, 1638>>
        dat(i) == <<Keep(EO(8 * size[i + 1]), "data")>>
    IN  [Handler EXCEPT !.mode = "each", !.nsec = 4, !.bysync = TRUE, !.mark = "zero",
          !.sync = {<<sync[i]>> : i \in 1 .. 4}, !.open = {"data"},
          !.then = [i \in 1 .. 4 |-> <<Read(Words(sig[i])), Read(dat(i - 1))>>],
          !.emit = SectorsBy(4, LAMBDA i :
              Words(<<sync[i + 1]>> \o sig[i + 1]) \o dat(i) \o Pad(32, "0"))]

(* The block holds its sum; then MFM-illegal padding and the track number.  *)
albedo_data ==
    LET sig == <<"9111", "5555", "5252", "aaaa">>
        dat == <<Sealed(EO(8 * 6344), "data")>>
        trk == <<Skip(Raw(48), "2222"), Is(EO(8), "trk")>>
    IN  [Handler EXCEPT !.sync = {<<"5122">>}, !.total = {102000},
          !.take = <<Read(Words(SubSeq(sig, 1, 2))), Read(Words(SubSeq(sig, 3, 4))),
                     Read(dat), Read(trk), Read(Words(<<"248a", "248a">>))>>,
          !.emit = Words(<<"5122">> \o sig) \o dat \o trk
                     \o Words(<<"248a", "248a">>) \o <<Skip(Raw(64), "1111")>>]

(* The words of the track must add up to a constant. *)
alderan_protection ==
    LET sum == <<Is(EO(16), "61d0")>>
        dat == <<Sealed(Raw(8 * 12588), "data")>>
    IN  [Handler EXCEPT !.sync = {<<"4429">>}, !.total = MeasuredBits,
          !.take = <<Read(Words(<<"5552">>)), Read(sum), Read(dat)>>,
          !.emit = Words(<<"4429", "5552">>) \o sum \o dat]

alien_legion ==
    LET dat == <<Keep(OEs(1536, 32), "data")>>
    IN  [Handler EXCEPT !.sync = {<<"9521">>}, !.total = MeasuredBits, !.open = {"data"},
          !.take = <<Read(Words(<<"2aaa">>)), Read(dat)>>,
          !.emit = Words(<<"9521", "2aaa">>) \o dat]

(* Three longs and a long run of zeros, twice as long written as required.  *)
alienbreed_protection ==
    LET dat == <<Keep(EOs(3, 32), "data")>>
    IN  [Handler EXCEPT !.sync = {<<"8924", "8924">>}, !.back = 31, !.open = {"data"},
          !.take = <<Read(dat \o <<Fill(32 * 1000, "0")>>)>>,
          !.emit = Words(<<"8924", "8924">>) \o dat \o <<Fill(64 * 1000, "0")>>]

amegas_high_scores ==
    LET dat == <<Keep(EOs(66, 32), "data"), Check(EO(32), "xor8", {"data"})>>
    IN  [Handler EXCEPT !.sync = {<<"4489", "4489">>}, !.back = 31,
          !.total = MeasuredBits,
          !.take = <<Read(dat)>>, !.emit = Words(<<"4489", "4489">>) \o dat]

(* Format B is told from A by its second sync word.  A bad sum ends it all.  *)
arc_development(b) ==
    LET sync == IF b THEN <<"4489", "4489">> ELSE <<"4489">>
        dat == <<Keep(EOs(128, 32), "data")>>
        sum == <<Check(EO(16), "xor", {"data"})>>
    IN  [Handler EXCEPT
          !.sync = {sync}, !.back = IF b THEN 31 ELSE 15, !.nsec = 12,
          !.total = {111000, 105500, 100000},
          !.take = <<Read(<<Is(MFM(16), "0")>>)>>
                     \o PerSector(12, <<Read(dat), Need(sum)>>),
          !.emit = Words(sync) \o <<Is(MFM(16), "0")>> \o Sectors(12, dat \o sum)]

forgotten_worlds ==
    LET trk == <<Is(EO(16), "trk")>>
        dat == <<Keep(EOs(3072, 16), "data"), Check(EO(16), "xor", {"data"})>>
    IN  [Handler EXCEPT !.sync = {<<"4489", "4489">>}, !.back = 31, !.total = {100500},
          !.take = <<Read(trk), Read(dat)>>,
          !.emit = Words(<<"4489", "4489">>) \o trk \o dat]

armourgeddon_a ==
    LET dat == <<Check(EO(16), "addx", {"data"}), Keep(EOs(3148, 16), "data")>>
    IN  [Handler EXCEPT !.sync = {<<"4429">>}, !.total = {105500},
          !.take = <<Read(Pad(8, "fc")), Read(dat)>>,
          !.emit = Words(<<"4429">>) \o Pad(8, "fc") \o dat]

(* "No checksum or validation info on these tracks" but the signature. *)
armourgeddon_b ==
    LET dat == <<Is(EOs(4, 8), "KEEP"), Keep(EO(8), "id"), Keep(EOs(6144, 8), "data")>>
    IN  [Handler EXCEPT !.sync = {<<"4489", "4489">>}, !.back = 31, !.total = {105500},
          !.open = {"id", "data"},
          !.take = <<Read(Words(<<"4489", "5555">>)), Read(dat)>>,
          !.emit = Words(<<"4489", "4489", "4489", "5555">>) \o dat]

aunt_arctic_adventure ==
    LET sig == <<Is(EO(32), "THBB")>>
        len == <<Is(EO(32), "len")>>
        dat == <<Check(EO(32), "xor", {"data"}), Keep(EO(8 * 6000), "data")>>
    IN  [Handler EXCEPT !.sync = {<<"a425", "a425">>}, !.back = 31, !.total = {102500},
          !.take = <<Read(Words(<<"5554", "5554">>)), Read(sig), Read(len), Read(dat)>>,
          !.emit = Words(<<"a425", "a425", "5554", "5554">>) \o sig \o len \o dat]

(* The sum of the longs of each track is known. *)
awesome_demo ==
    LET sig == <<Is(EO(32), "AWS1")>>
        dat == <<Sealed(EOs(1350, 32), "data")>>
    IN  [Handler EXCEPT !.sync = {<<"4489">>}, !.take = <<Read(sig), Read(dat)>>,
          !.emit = Words(<<"4489">>) \o sig \o dat]

(* The last of the longs is the sum of the others and the track. *)
bat ==
    LET dat == <<Sealed(EO(8 * 4 * 1577), "data")>>
    IN  [Handler EXCEPT !.sync = {<<"8945">>}, !.total = {105500},
          !.take = <<Read(dat)>>, !.emit = Words(<<"8945">>) \o dat]

(* The sync differs by track.  The first two longs of the block are a track *)
(* number, not looked at, and the sum.                                      *)
battle_squadron ==
    LET dat == <<Sealed(EO(8 * 6152), "data")>>
    IN  [Handler EXCEPT
          !.sync = {<<"sync", "sync">>}, !.back = 31, !.total = {103200, 100500},
          !.take = <<Read(<<Skip(Raw(32), "2aaa")>>), Read(Words(<<"4aaa", "a44a">>)),
                     Read(dat)>>,
          !.emit = Words(<<"sync", "sync">>) \o <<Skip(Raw(32), "2aaa")>>
                     \o Words(<<"4aaa", "a44a">>) \o dat]

blue_byte ==
    LET dat == <<Is(EO(32), "trk"), Keep(EOs(1508, 32), "data"),
                 Check(MFM(16), "crc", {"trk", "data"})>>
    IN  [Handler EXCEPT !.sync = {<<"5542", "aaaa">>}, !.back = 31, !.take = <<Read(dat)>>,
          !.emit = Words(<<"5542">>) \o <<Is(MFM(8), "0")>> \o dat]

(* The block ends with the sum of its words. *)
brides_of_dracula ==
    LET dat == <<Sealed(EO(8 * 5648), "data")>>
    IN  [Handler EXCEPT !.sync = {<<"48a1">>},
          !.take = <<Read(Words(<<"5045">>)), Read(<<Skip(Raw(16), "aaaa")>>), Read(dat)>>,
          !.emit = Words(<<"48a1", "5045">>) \o <<Skip(Raw(16), "aaaa")>> \o dat]

(* Sectors have no number: they are stored in the order they are met. *)
cardiaxx ==
    LET pad == <<Is(MFM(8), "0")>>
        dat == <<Keep(EOs(512, 16), "data"), Check(EO(16), "add", {"data"})>>
    IN  [Handler EXCEPT
          !.sync = {<<"448a", "448a">>}, !.mode = "each", !.need = "clean", !.nsec = 6,
          !.order = TRUE, !.mark = "fixed", !.total = {100400},
          !.take = <<Read(pad), Read(dat), Read(Pad(8, "gap"))>>,
          !.emit = Sectors(6, Words(<<"448a", "448a">>) \o pad \o dat \o Pad(8, "gap"))]

(* The length, 1700 to 1a00 hex, is the track's own.  Bad sums end the scan. *)
chw ==
    LET len == <<Keep(OE(32), "len")>>
        hdr == <<Keep(OE(32), "trk")>>
        dat == <<Keep(OEs(1536, 32), "data")>>
        sum == <<Check(OE(32), "xor", {"len", "trk", "data"})>>
    IN  [Handler EXCEPT !.sync = {<<"4489", "4489">>}, !.back = 31, !.total = MeasuredBits,
          !.take = <<Read(len), Read(hdr), Read(dat), Need(sum)>>,
          !.emit = Words(<<"4489", "4489">>) \o len \o hdr \o dat \o sum]

chw_2(b) ==
    LET id  == <<Keep(Raw(16), "id")>>
        trk == IF b THEN <<Is(EO(16), "trk")>> ELSE <<>>
        dat == <<Keep(EOs(IF b THEN 1664 ELSE 1536, 32), "data"),
                 Check(EO(32), "add", {"data"})>>
    IN  [Handler EXCEPT !.sync = {<<"4489">>}, !.total = MeasuredBits, !.open = {"id"},
          !.take = <<Read(id \o trk), Read(dat)>>,
          !.emit = Words(<<"4489">>) \o id \o trk \o dat]

(* The sync is one of eight by title and track. *)
hi_tec_a ==
    LET dat == <<Keep(EOs(1539, 32), "data"), Check(EO(32), "add", {"data"})>>
    IN  [Handler EXCEPT !.sync = {<<"sync">>},
          !.take = <<Read(Words(<<"5555", "5151">>)), Read(dat)>>,
          !.emit = Words(<<"sync", "5555", "5151">>) \o dat]

antcliffe_no_checksum ==
    LET dat == <<Keep(EOs(3072, 16), "data")>>
    IN  [Handler EXCEPT
          !.sync = {<<"4489", "4489">>}, !.back = 31, !.total = {100500}, !.open = {"data"},
          !.take = <<Read(Words(<<"5555", "5151">>)), Read(dat)>>,
          !.emit = Words(<<"4489", "4489", "5555", "5151">>) \o dat]

(* The sync has two words, but data_bitoff is put back by one. *)
universe ==
    LET dat == <<Keep(EOs(1539, 32), "data"), Check(EO(32), "add", {"data"})>>
    IN  [Handler EXCEPT !.sync = {<<"sync", "sync">>}, !.back = 15,
          !.take = <<Read(Words(<<"5555", "5151">>)), Read(dat)>>,
          !.emit = Words(<<"sync", "sync", "5555", "5151">>) \o dat]
=============================================================================
