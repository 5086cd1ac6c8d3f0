---------------------------- MODULE HandlersLong ----------------------------
(* The handlers of longtrack.c and thalion.c.  Those of longtrack.c want a  *)
(* long track, of one pattern mostly, and keep little or nothing of it; the *)
(* check_length of the next index pulse is the handler's long.              *)
EXTENDS HandlersDos

(* The byte the track is full of is the block. *)
protec_longtrack(sync) ==
    [Handler EXCEPT
      !.sync = {<<sync>>}, !.total = {110000}, !.long = 107200,
      !.take = <<Read(<<Fill(16 * 1000, "byte")>>)>>,
      !.emit = Words(<<sync>>) \o <<Fill(16 * 6000, "byte")>>]

(* The gap's length follows total_bits: tiertex leaves the default. *)
protoscan_longtrack(total) ==
    [Handler EXCEPT
      !.sync = {<<"4124", "4124">>, <<"4124", "4324">>}, !.back = 31, !.total = {total},
      !.take = <<Read(<<Fill(16 * 7, "0")>>)>>,
      !.emit = Words(<<"4124", "4124">>) \o <<Fill(16 * (total \div 16 - 250), "0")>>]

(* Silmarils and Lankhor 1; Lankhor 2 wants two letters more than the four  *)
(* that read_raw writes (a further group).                                  *)
silmarils_longtrack(letters, total) ==
    LET sig == <<Is(MFM(32), "sig")>>
    IN  [Handler EXCEPT
          !.sync = {<<"aaaa", "a144">>}, !.total = {total}, !.long = 104128,
          !.take = <<Read(sig)>> \o letters \o <<Read(<<Fill(16 * 6499, "0")>>)>>,
          !.emit = Words(<<"a144">>) \o sig \o <<Fill(16 * 6550, "0")>>]

infogrames_longtrack ==
    [Handler EXCEPT
      !.sync = {<<"a144">>}, !.total = {105500}, !.long = 104160,
      !.take = <<Read(<<Fill(16 * 6509, "0")>>)>>,
      !.emit = Words(<<"a144">>) \o <<Fill(16 * 6550, "0")>>]

prolance_longtrack ==
    [Handler EXCEPT
      !.sync = {<<"aaaa", "8945">>}, !.back = 31, !.total = {110000}, !.long = 109500,
      !.take = <<Read(<<Fill(16 * 6825, "0")>>)>>,
      !.emit = Words(<<"8945">>) \o <<Fill(16 * 6840, "0")>>]

app_longtrack ==
    [Handler EXCEPT
      !.sync = {<<"924a">>}, !.total = {111000}, !.long = 110000,
      !.take = <<Read(<<Fill(16 * 6599, "dc")>>)>>,
      !.emit = Words(<<"924a">>) \o <<Fill(16 * 6600, "dc")>>]

(* 924a somewhere, then 122 bytes with a known crc behind 9251.  read_raw's *)
(* 924a is the middle of the MFM word 0480.                                 *)
sevencities_longtrack ==
    LET dat == <<Sealed(Raw(122 * 8), "data")>>
    IN  [Handler EXCEPT
          !.sync = {<<"924a">>}, !.mark = "fixed", !.total = {101500},
          !.after = After(FALSE, {<<"9251">>}, FALSE, 0, <<Read(dat)>>),
          !.emit = Words(<<"9251">>) \o dat \o Pad(8 * (6052 - 61), "0")
                     \o <<Is(MFM(16), "924a")>>]

(* A track of one pattern, in GCR: once is enough for write_raw. *)
alternate_reality_gcr_protection ==
    LET total == 58368
    IN  [Handler EXCEPT
          !.sync = {<<"pattern">>}, !.mark = "fixed", !.total = {total},
          !.emit = <<Is(Raw(32), "pattern"), Fill(total - 32, "pattern")>>]

gauntlet2_longtrack ==
    [Handler EXCEPT
      !.sync = {<<"4489", "4489">>}, !.mark = "fixed", !.total = {102000, 105500},
      !.emit = Words(<<"4489", "4489">>)]

demonware_protection ==
    [Handler EXCEPT
      !.sync = {<<"4492">>}, !.mark = "fixed", !.long = 99800,
      !.take = <<Read(<<Fill(16 * 1019, "bc")>>)>>,
      !.emit = Words(<<"4492">>) \o <<Fill(16 * 1200, "bc")>>]

(* A second sync near a place one read of 12296 bytes ahead. *)
the_oath ==
    [Handler EXCEPT
      !.sync = {<<"2195">>, <<"2155">>}, !.mark = "fixed", !.total = {101500},
      !.take = <<Read(<<Skip(Raw(8 * 12296), "empty")>>), Seek({<<"4489">>}, 32)>>,
      !.emit = Copies(4, Words(<<"2195">>)) \o Pad(8 * 6144, "0") \o Copies(16, Words(<<"4489">>))]

(* A run of 928a, which is 40 in MFM, then 924a and a run of dc.  total_bits *)
(* is what a source that is long enough measures.                           *)
xelok_longtrack ==
    [Handler EXCEPT
      !.sync = {<<"928a">>}, !.mark = "fixed", !.total = {111000}, !.long = 110000,
      !.take = <<Read(<<Fill(16 * 2999, "40")>>)>>,
      !.after = After(FALSE, {<<"924a">>}, FALSE, 0, <<Read(<<Fill(16 * 999, "dc")>>)>>),
      !.emit = Words(<<"928a">>) \o <<Fill(16 * 5199, "40")>>
                 \o Words(<<"924a">>) \o <<Fill(16 * 1400, "dc")>>]

(* Any of six syncs, which is kept, and a word that nothing checks.  The    *)
(* `continue' on a wrong word of the seven only goes on to the next of them. *)
anco_kingsoft_protection(weak) ==
    LET seven == [i \in 1 .. 7 |-> Skip(Raw(16), "5544")]
    IN  [Handler EXCEPT
          !.sync = {<<w>> : w \in {"4489", "4894", "48aa", "44a2", "a425", "29a9"}},
          !.open = {"dat"},
          !.take = <<Read(seven), Read(Words(<<"8892">>)), Read(Words(<<"5544">>)),
                     Read(<<Keep(Raw(16), "dat")>>)>>,
          !.emit = Words(<<"48aa">>) \o seven \o Words(<<"8892", "5544">>)
                     \o <<Keep(Raw(16), "dat")>> \o (IF weak THEN Pad(40, "weak") ELSE <<>>)
                     \o Pad(8 * 112, "0")]

(* 4a4a, then 8894, which is 06 in MFM, again and again. *)
tennis_cup_longtrack ==
    [Handler EXCEPT
      !.sync = {<<"4a4a">>}, !.mark = "fixed", !.total = {106000}, !.long = 105000,
      !.after = After(FALSE, {<<"8894">>}, FALSE, 0, <<Read(<<Fill(16 * 2499, "06")>>)>>),
      !.emit = Words(<<"4a4a", "8894">>) \o <<Fill(16 * 4399, "06")>>]

rubicon_protection ==
    LET weak == <<Skip(MFM(16), "weak")>>
    IN  [Handler EXCEPT
          !.sync = {<<"4849", "4849">>}, !.mark = "fixed", !.total = {105500}, !.long = 104500,
          !.take = <<Read(weak), Read(<<Fill(16 * 1199, "0")>>)>>,
          !.emit = Words(<<"4849", "4849">>) \o weak \o <<Fill(1640 * 64, "0")>>]

protec_4489_longtrack ==
    [Handler EXCEPT
      !.sync = {<<"4489", "4489">>}, !.back = 63 - 32, !.total = {106000}, !.long = 105000,
      !.take = <<Read(Words(<<"4489", "4489">>)), Read(<<Fill(16 * 1001, "byte")>>)>>,
      !.emit = Words(<<"4489", "4489", "4489", "4489">>) \o <<Fill(16 * 6000, "byte")>>]

(* A bad sum ends the search. *)
plotting_longtrack ==
    LET trk == <<Is(EO(16), "trk")>>
        dat == <<Keep(EOs(3150, 16), "data"), Check(EO(16), "xor", {"data"})>>
    IN  [Handler EXCEPT !.sync = {<<"4124">>}, !.total = MeasuredBits,
          !.take = <<Read(trk), Need(dat)>>, !.emit = Words(<<"4124">>) \o trk \o dat]

(* 19 bytes that nothing checks behind an AmigaDOS track; data_bitoff is    *)
(* where they were found, but read_raw writes the sectors first.            *)
rn_a145_protection ==
    LET dat == <<Keep(MFM(8 * 19), "extra")>>
    IN  [dos EXCEPT !.total = {105500}, !.long = 104500, !.open = {"extra"},
          !.after = After(TRUE, {<<"a144">>}, TRUE, 15,
              <<Read(<<Is(MFM(16), "0")>>), Read(Words(<<"a145">>)), Read(dat)>>),
          !.emit = DosTrack(11, "4489") \o Words(<<"aaaa", "a144">>) \o <<Is(MFM(16), "0")>>
                     \o Words(<<"a145">>) \o dat \o Pad(8 * 316, "0")]

(* The same bytes without the sectors; read_raw takes the address of the    *)
(* pointer to them for the bytes themselves.                                *)
rn_a145_alt_protection ==
    LET dat(name) == <<Keep(MFM(8 * 19), name)>>
    IN  [Handler EXCEPT !.total = {105500}, !.long = 104500, !.open = {"data"},
          !.sync = {<<"a144">>},
          !.take = <<Read(<<Is(MFM(16), "0")>>), Read(Words(<<"a145">>)), Read(dat("data"))>>,
          !.emit = Words(<<"aaaa", "a144">>) \o <<Is(MFM(16), "0")>>
                     \o Words(<<"a145">>) \o dat("pointer") \o Pad(8 * 316, "0")]

-----------------------------------------------------------------------------
(* thalion.c.  Seven Gates, Chambers and Warp c: the sum of each track is   *)
(* known, but on two of them only that of the first 100 longs is taken.     *)
thalion_a(summed) ==
    LET dat == IF summed = 1537 THEN <<Sealed(EOs(1537, 32), "data")>>
               ELSE <<Sealed(EOs(summed, 32), "data"), Keep(EOs(1537 - summed, 32), "rest")>>
    IN  [Handler EXCEPT
          !.sync = {<<"4489", "4489">>}, !.back = 47, !.open = {"rest"}, !.total = MeasuredBits,
          !.take = <<Read(Words(<<"4489">>)), Read(dat)>>,
          !.emit = Words(<<"4489", "4489", "4489">>) \o dat]

warp_a ==
    LET dat == <<Sealed(EOs(1537, 32), "data")>>
    IN  [Handler EXCEPT !.sync = {<<"4489">>}, !.total = MeasuredBits,
          !.take = <<Read(dat)>>, !.emit = Words(<<"4489">>) \o dat]

warp_b ==
    LET dat == <<Sealed(EOs(1537, 32), "data")>>
    IN  [Handler EXCEPT
          !.sync = {<<"5224", "5224">>}, !.back = 47, !.total = MeasuredBits,
          !.take = <<Read(Words(<<"5224">>)), Read(dat)>>,
          !.emit = Words(<<"5224", "5224", "5224">>) \o dat]

(* 4489 and three bytes A1, which are 44a9 each in MFM. *)
ThalionMark == Words(<<"4489">>) \o <<Is(MFM(8), "44a9")>>
ThalionTake(longs) ==
    <<Read(<<Is(MFM(16), "a1a1")>>), Read(<<Is(EO(32), "trk")>>),
      Need(<<Keep(EOs(longs, 32), "data"), Check(EO(32), "xor", {"trk", "data"})>>)>>
ThalionEmit(longs) == ThalionMark \o FlattenSeq([i \in 1 .. 3 |-> ThalionTake(longs)[i].f])

prehistoric_tale ==
    [Handler EXCEPT
      !.sync = {<<"4489", "44a9">>}, !.back = 31, !.total = MeasuredBits,
      !.take = ThalionTake(1536), !.emit = ThalionEmit(1536)]

(* A sync in front of weak bits must have been there first. *)
leavin_teramis_a ==
    [Handler EXCEPT
      !.sync = {<<"5224", "44a9">>}, !.mark = "none", !.total = MeasuredBits,
      !.after = After(FALSE, {<<"4489", "44a9">>}, TRUE, 31, ThalionTake(1504)),
      !.emit = Words(<<"5224">>) \o <<Is(MFM(8), "44a9")>> \o Pad(64, "weak") \o Pad(128, "0")
                 \o ThalionEmit(1504)]

leavin_teramis_b ==
    LET dat == <<Sealed(EOs(1540, 32), "data")>>
    IN  [Handler EXCEPT !.sync = {<<"5224", "5224">>}, !.back = 31, !.total = MeasuredBits,
          !.take = <<Read(dat)>>, !.emit = Words(<<"5224", "5224">>) \o dat]

(* A header and data, each with its crc in its last bytes. *)
leavin_teramis_high ==
    LET hdr == <<Sealed(EOs(2, 32), "hdr")>>
        dat == <<Sealed(EOs(643, 32), "data")>>
    IN  [Handler EXCEPT
          !.sync = {<<"4489", "4489">>}, !.back = 47, !.total = MeasuredBits,
          !.take = <<Read(Words(<<"4489", "5554">>)), Read(hdr)>>,
          !.after = After(FALSE, {<<"4489", "4489">>}, FALSE, 0,
                          <<Read(Words(<<"4489", "5545">>)), Read(dat)>>),
          !.emit = Words(IdamMark) \o hdr \o <<Skip(Raw(20 * 16), "5555")>>
                     \o Words(DamMark) \o dat]

(* The disk number, one of five, stands before weak bits. *)
dragonflight(bytes) ==
    LET disk == <<Sealed(EO(32), "disk")>>
        longs == bytes \div 4
    IN  [Handler EXCEPT
          !.sync = {<<"5224">>}, !.mark = "none", !.total = MeasuredBits,
          !.take = <<Read(disk)>>,
          !.after = After(FALSE, {<<"4489", "44a9">>}, TRUE, 31, ThalionTake(longs)),
          !.emit = Words(<<"5224">>) \o disk \o <<Skip(Raw(32), "0")>> \o Pad(48, "weak")
                     \o <<Skip(Raw(64), "5555")>> \o ThalionEmit(longs)]
=============================================================================
