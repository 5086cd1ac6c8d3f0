----------------------------- MODULE HandlersC -----------------------------
(* Track handlers of libdisk/format/amiga, files cobra.c to dugger.c. *)
EXTENDS TrackFields, TLC

(* Each sector has its own sync, and its number in the header.  The data is *)
(* the output of a shift register, whose seed is all that is stored.        *)
copylock ==
    LET sync == [i \in 1 .. 11 |-> "sync" \o ToString(i)]
        dat(i) == <<Is(MFM(8), ToString(i)), Sealed(MFM(8 * 512), "data")>>
    IN  [Handler EXCEPT
          !.sync = {<<sync[i]>> : i \in 1 .. 11}, !.bysync = TRUE, !.back = 15 + 48,
          !.mode = "each", !.need = "any", !.nsec = 11, !.mark = "least",
          !.stride = (514 + 48) * 16,
          !.then = [i \in 1 .. 11 |-> <<Read(<<dat(i)[1]>>), Read(<<dat(i)[2]>>)>>],
          !.emit = SectorsBy(11, LAMBDA i :
              Pad(24, "a0") \o Words(<<sync[i + 1]>>) \o dat(i + 1) \o Pad(8, "0")
                \o (IF i = 10 THEN <<>> ELSE Pad(44 * 8, "gap")))]

(* A bad sum only earns a warning. *)
cobra ==
    LET dat == <<Keep(OE(8 * 6144), "data")>>
    IN  [Handler EXCEPT !.sync = {<<"2195">>}, !.total = MeasuredBits, !.open = {"data"},
          !.take = <<Read(Words(<<"aaaa", "aaaa">>)), Read(dat),
                     Read(Words(<<"aaaa", "aaaa">>)), Read(Words(<<"4489">>))>>,
          !.emit = Words(<<"2195", "aaaa", "aaaa">>) \o dat
                     \o Words(<<"aaaa", "aaaa", "4489">>)]

core_design ==
    LET dat == <<Check(EO(32), "add", {"data"}), Keep(EOs(1408, 32), "data")>>
    IN  [Handler EXCEPT !.sync = {<<"8915">>}, !.take = <<Read(dat)>>,
          !.emit = Words(<<"8915">>) \o dat]

cosmo_ranger ==
    LET dat == <<Keep(EOs(1536, 32), "data"), Check(EO(32), "add8", {"data"})>>
    IN  [Handler EXCEPT !.sync = {<<"4489", "4489">>}, !.back = 31, !.total = MeasuredBits,
          !.take = <<Read(Words(<<"5555", "5555">>)), Read(dat)>>,
          !.emit = Words(<<"4489", "4489", "5555", "5555">>) \o dat]

crackdown ==
    LET trk == <<Is(EO(16), "trk")>>
        dat == <<Keep(EOs(3072, 16), "data"), Check(EO(16), "xor", {"data"})>>
    IN  [Handler EXCEPT !.sync = {<<"4489", "4489">>}, !.back = 31, !.total = {100500},
          !.take = <<Read(trk), Read(dat)>>,
          !.emit = Words(<<"4489", "4489">>) \o trk \o dat]

cyberblast ==
    LET dat == <<Check(EO(32), "xor", {"trk", "data"}), Is(EO(32), "trk"),
                 Keep(EOs(1536, 32), "data")>>
    IN  [Handler EXCEPT !.sync = {<<"4448", "a5a4">>}, !.back = 31,
          !.take = <<Read(Words(<<"a5a4">>)), Read(dat)>>,
          !.emit = Words(<<"4448", "a5a4", "a5a4">>) \o dat]

(* Tracks 6 and 7 only need a first sync.  They follow each other. *)
cyberblast_protection(trk) ==
    LET sig == IF trk = 6 THEN <<"5555", "5555">> ELSE <<"54aa", "54aa">>
        more == IF trk = 6 THEN <<Fill(2899 * 32, "f")>>
                ELSE Words(<<"54aa", "54aa">>) \o Copies(16, Words(<<"4489", "5555">>))
    IN  [Handler EXCEPT !.sync = {<<"4448", "4448">>}, !.mark = "fixed", !.total = {95500},
          !.take = <<Read(Words(sig))>>, !.emit = Words(<<"4448", "4448">> \o sig) \o more]

(* The two halves of the data, each after a word of its own.  A bad sum     *)
(* ends the scan.                                                           *)
cyberdos ==
    LET half(n) == <<Keep(EOs(768, 32), n)>>
        sum == <<Check(EO(32), "add", {"low", "high"})>>
    IN  [Handler EXCEPT !.sync = {<<"4489", "4489">>}, !.back = 31, !.total = MeasuredBits,
          !.take = <<Read(Words(<<"5545">>)), Read(half("low") \o <<Is(MFM(16), "0")>>),
                     Read(<<Is(MFM(8), "0")>>), Need(half("high") \o sum)>>,
          !.emit = Words(<<"4489", "4489", "5545">>) \o half("low")
                     \o <<Is(MFM(16), "0"), Is(MFM(8), "0")>> \o half("high") \o sum]

(* cyberworld, sub_trade_a and sub_trade_b: 5120, 6656 and 6144 bytes. *)
cyberworld(bytes) ==
    LET dat == <<Keep(EOs(bytes \div 4, 32), "data"), Check(EO(32), "add", {"data"})>>
    IN  [Handler EXCEPT !.sync = {<<"4489">>}, !.total = MeasuredBits,
          !.take = <<Read(Words(<<"2aaa">>)), Need(dat)>>,
          !.emit = Words(<<"4489", "2aaa">>) \o dat]

(* Disk 1 and 2: one block after a sync of the track's own. *)
deep_core_block(words) == <<Check(EO(32), "xor", {"data"}), Keep(EOs(words, 32), "data")>>

deep_core_sec_1 ==
    LET dat == deep_core_block(1638)
    IN  [Handler EXCEPT !.sync = {<<"sync">>}, !.total = {105500}, !.take = <<Read(dat)>>,
          !.emit = Words(<<"sync">>) \o dat]

(* The second half is wanted within 128 bits, but whether it was found and  *)
(* whether its sum agreed makes no difference.                              *)
deep_core_sec_2 ==
    LET low == deep_core_block(819)
        high == <<Skip(MFM(16), "0"), Skip(Raw(16), "4212"), Skip(EO(32), "xor"),
                  Keep(EOs(819, 32), "high")>>
    IN  [Handler EXCEPT !.sync = {<<"4211">>}, !.total = {105500}, !.open = {"high"},
          !.take = <<Read(low), Read(high)>>,
          !.emit = Words(<<"4211">>) \o low \o high \o Words(<<"4489", "4489", "448a">>)]

(* n sectors, each with its own sync, in order. *)
deep_core_sec_N(n) ==
    LET sync(i) == <<"sync" \o ToString(i)>>
        zero(bits) == <<Is(MFM(bits), "0")>>
        dat == deep_core_block(124)
        next(i) == IF i = n - 1 THEN <<>> ELSE <<Read(Words(sync(i + 1)))>>
    IN  [Handler EXCEPT !.sync = {sync(0)}, !.nsec = n, !.total = {105500},
          !.take = PerSectorBy(n, LAMBDA i :
              <<Read(zero(8)), Read(dat), Read(zero(16))>> \o next(i)),
          !.emit = SectorsBy(n, LAMBDA i : Words(sync(i)) \o zero(8) \o dat \o zero(16))]

(* "DSK" and the digit 1 to 3. *)
deep_core_diskid ==
    LET dat == <<Is(EO(24), "DSK"), Keep(EO(8), "disk")>>
    IN  [Handler EXCEPT !.sync = {<<"aaaa", "448a">>}, !.back = 31, !.open = {"disk"},
          !.total = {105500, 100500}, !.take = <<Read(<<Is(MFM(8), "0")>>), Read(dat)>>,
          !.emit = <<Is(MFM(8), "0")>> \o Words(<<"448a">>) \o <<Is(MFM(8), "0")>> \o dat]

(* Missing first sectors put data_bitoff back by 0xfc8 each, which is bytes *)
(* on the medium and not bits.  No check covers the sector number.          *)
deflektor ==
    LET dat == <<Check(MFM(16), "add", {"data"}), Keep(MFM(8 * 2000), "data")>>
    IN  [Handler EXCEPT
          !.sync = {<<"4489", "4489">>}, !.back = 31, !.mode = "each", !.need = "any",
          !.nsec = 3, !.mark = "least", !.stride = 4040, !.bare = TRUE,
          !.take = <<Read(<<Is(MFM(16), "trk")>>), Read(<<Sec(MFM(8))>>), Read(dat)>>,
          !.emit = Sectors(3, Words(<<"4489", "4489">>) \o <<Is(MFM(16), "trk"), Sec(MFM(8))>>
                                \o dat \o Pad(104, "0"))]

(* The raw longs must add up to a constant. *)
deja_vu_ii_protection ==
    LET dat == <<Sealed(EOs(1550, 32), "data")>>
    IN  [Handler EXCEPT !.sync = {<<"a245">>}, !.back = 31, !.total = MeasuredBits,
          !.take = <<Read(dat)>>, !.emit = Words(<<"a245">>) \o dat]

(* The encoded words of the data add up to nothing. *)
deliverance ==
    LET sig == Words(<<"5245">>)
        hdr == <<Keep(EO(16), "disk"), Is(EO(16), "trk")>>
        dat == <<Sealed(EOs(6306, 8), "data")>>
    IN  [Handler EXCEPT
          !.sync = {<<"2112", "2112">>}, !.back = 31, !.total = {105500}, !.open = {"disk"},
          !.take = <<Read(sig), Read(hdr), Read(dat)>>,
          !.emit = Words(<<"2112", "2112">>) \o sig \o hdr \o dat]

detector ==
    LET dat == <<Keep(EOs(1024, 32), "data")>> \o Words(<<"042a", "5448">>)
        sig == Words(<<"9229", "2292">>)
        sum == <<Check(MFM(16), "crc", {"data"})>>
    IN  [Handler EXCEPT !.sync = {<<"4489", "4489">>}, !.back = 31, !.total = MeasuredBits,
          !.take = <<Read(Words(<<"5555", "5555">>)), Read(dat), Read(sig), Read(sum)>>,
          !.emit = Words(<<"4489", "4489", "5555", "5555">>) \o dat \o sig \o sum]

(* Weak bits that write_raw does not look at. *)
detector_protection ==
    LET weak == <<Skip(Raw(16), "weak")>> IN
    [Handler EXCEPT !.sync = {<<"4489", "4489">>}, !.back = 31, !.total = MeasuredBits,
      !.take = <<Read(Words(<<"5555", "5555">>))>>,
      !.emit = Words(<<"4489", "4489", "5555", "5555", "0404">>) \o weak
                 \o <<Skip(Raw(32), "2295")>> \o Copies(8, Pad(16, "0") \o weak)]

discoscopie ==
    LET key == <<Is(Raw(16 * 24), "key")>> IN
    [Handler EXCEPT !.sync = {<<"84aa">>}, !.mark = "fixed", !.total = {100000},
      !.take = <<Read(key)>>, !.emit = Words(<<"84aa">>) \o key]

(* 12 sectors, or 24 in high density.  The sum covers the data alone.  What *)
(* the header long holds is told apart.                                     *)
diskspare(n) ==
    LET hdr == <<Is(MFM(8), "0"), Is(EO(8), "trk"), Sec(EO(8))>>
        dat == <<Check(EO(16), "xor", {"data"}), Keep(EOs(128, 32), "data")>>
    IN  [Handler EXCEPT
          !.sync = {<<"4489", "4489">>}, !.mode = "each", !.need = "any", !.nsec = n,
          !.mark = "fixed", !.total = {103000 * (n \div 12)}, !.bare = TRUE,
          !.take = <<Read(hdr), Read(dat)>>,
          !.emit = Sectors(n, <<Is(MFM(8), "0")>> \o Words(<<"4489", "4489">>) \o hdr \o dat)]

(* The crc of each track is known; another one ends the scan. *)
disposable_hero ==
    LET dat == <<Sealed(EOs(771, 64), "data")>>
    IN  [Handler EXCEPT !.sync = {<<"4489">>}, !.total = MeasuredBits,
          !.take = <<Read(Words(<<"5555">>)), Need(dat)>>,
          !.emit = Words(<<"4489", "5555">>) \o dat]

(* menace and blood_money, whose sum is of the data xored with the track.   *)
dma_design ==
    LET dat == <<Keep(EOs(3100, 16), "data"), Check(EO(16), "add", {"data"})>>
    IN  [Handler EXCEPT !.sync = {<<"4489">>}, !.total = {100500},
          !.take = <<Read(Words(<<"552a", "2a55">>)), Read(dat)>>,
          !.emit = Words(<<"4489", "552a", "2a55">>) \o dat]

domination ==
    LET dat == <<Keep(OE(8 * 5632), "data")>>
        ids == <<Keep(Raw(16), "id1"), Keep(Raw(16), "id2")>>
    IN  [Handler EXCEPT
          !.sync = {<<"4489">>}, !.total = MeasuredBits, !.open = {"data", "id1", "id2"},
          !.take = <<Read(Words(<<"5489", "2aaa">>)), Read(dat), Read(Words(<<"4a89">>)),
                     Read(ids)>>,
          !.emit = Words(<<"4489", "5489", "2aaa">>) \o dat \o Words(<<"4a89">>) \o ids]

(* The length, up to 7000 bytes, is the track's own. *)
dugger ==
    LET len == <<Keep(OE(32), "len")>>
        dat == <<Is(OE(32), "trk"), Keep(OEs(1500, 32), "data"),
                 Check(OE(32), "amigados", {"len", "trk", "data"})>>
    IN  [Handler EXCEPT !.sync = {<<"4489", "4489">>}, !.back = 31, !.total = {105500},
          !.take = <<Read(len), Read(dat)>>,
          !.emit = Words(<<"4489", "4489">>) \o len \o dat]
=============================================================================
