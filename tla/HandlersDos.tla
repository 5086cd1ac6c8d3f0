---------------------------- MODULE HandlersDos ----------------------------
(* AmigaDOS tracks, and the handlers of libdisk/format/amiga that have the  *)
(* amigados handler take such a track and then look for something more.     *)
EXTENDS TrackFields

(* A sector as read_raw writes it, with the 16 bits of gap before it, and   *)
(* as write_raw takes it: 1080 bytes at once, then the two checksums.       *)
DosSector ==
    <<Skip(EO(16), "format_track"), Sec(EO(8)), Skip(EO(8), "to_gap"), Skip(EO(128), "label"),
      Check(EO(32), "hdr", {"format_track", "sec", "to_gap", "label"}),
      Check(EO(32), "dat", {"data"}), Keep(EO(8 * 512), "data")>>
DosTrack(n, sync) ==
    Sectors(n, <<Is(MFM(16), "0")>> \o Words(<<sync, sync>>) \o DosSector)

(* Mutant of amigados: data_bitoff stays that of the lowest sector found. *)
amigados_NotPutBack(syncs, sync) ==
    [Handler EXCEPT
      !.sync = {<<w, w>> : w \in syncs}, !.back = 31 + 32, !.mode = "each", !.need = "any",
      !.nsec = 11, !.mark = "least",
      !.take = <<Read(DosSector)>>, !.emit = DosTrack(11, sync)]

(* The sync is one of four, or the handler's own.  Format and track bytes   *)
(* and labels that are not the usual ones are kept (amigados_extended).     *)
(* data_bitoff is put back by the sectors missing before the lowest.        *)
amigados(syncs, sync) ==
    [Handler EXCEPT
      !.sync = {<<w, w>> : w \in syncs}, !.back = 31 + 32, !.mode = "each", !.need = "any",
      !.nsec = 11, !.mark = "least", !.stride = 544 * 16,
      !.take = <<Read(DosSector)>>, !.emit = DosTrack(11, sync)]

DosSyncs == {"4489", "4521", "4891", "4a84"}
dos == amigados(DosSyncs, "4489")

(* total_bits is the handler's, or that of the nearest of the long ones.    *)
amigados_long ==
    [dos EXCEPT !.total = {DefaultBits, 102200, 103300, 104400, 105500, 106600, 108800, 111000}]

(* The longs of the whole track must xor to one of three constants. *)
alternative == [dos EXCEPT !.need = "all", !.mark = "fixed"]

(* 18 bytes with a known crc in front of the sectors. *)
bombuzal ==
    LET dat == <<Sealed(MFM(8 * 18), "extra")>>
    IN  [dos EXCEPT !.total = {105500},
          !.after = After(TRUE, {<<"a145">>}, TRUE, 15, <<Read(dat)>>),
          !.emit = Words(<<"a145">>) \o dat \o Pad(8 * 168, "0") \o DosTrack(11, "4489")]

(* 22 longs that nothing checks in front of the sectors; data_bitoff stays  *)
(* that of the sectors.                                                     *)
epic ==
    LET dat == <<Keep(EOs(22, 32), "extra")>>
    IN  [dos EXCEPT !.total = {105500}, !.open = {"extra"},
          !.after = After(FALSE, {<<"4849", "4849">>}, FALSE, 0, <<Read(dat)>>),
          !.emit = Words(<<"4849", "4849">>) \o dat \o Pad(800, "0") \o DosTrack(11, "4489")]

(* A sync, and at least eight times a145 a145 from 104400 bits later on. *)
herndon_hls ==
    [dos EXCEPT !.total = {105500}, !.mark = "fixed",
      !.after = After(TRUE, {<<"a144">>}, FALSE, 0,
          <<Read(<<Skip(Raw(104400), "track"), Is(Raw(256), "a145")>>)>>),
      !.emit = Words(<<"a144">>) \o Pad(140 * 8, "0") \o DosTrack(11, "4489") \o Pad(16, "0")
                 \o <<Skip(Raw(399 * 16), "a145"), Is(Raw(256), "a145"), Skip(Raw(35 * 16), "a145")>>]

(* Any long track is taken for one. *)
kickoff2 ==
    [dos EXCEPT !.total = {100150 + 5312},
      !.emit = DosTrack(11, "4489") \o Pad(130 * 8, "0") \o Pad(8, "f0")]

(* The track to a tag: the bit lengths of those of disk 2. *)
za_zelazna_brama_boot == dos

(* The first long, DOS0, is found as 64 raw bits; 63 unchecked ones follow. *)
podpierdzielacz ==
    LET sig == <<"aaa5", "292a", "4445", "512a">>
        dat == <<Keep(EOs(63, 32), "extra")>>
    IN  [dos EXCEPT !.total = {101300}, !.open = {"extra"},
          !.after = After(TRUE, {sig}, FALSE, 0, <<Read(dat)>>),
          !.emit = DosTrack(11, "4489") \o Words(sig) \o dat]

(* 58 longs after the sectors, whose sum is known. *)
rattleheads_disk_protector ==
    LET sig == <<"sig1a", "sig1b", "sig2a", "sig2b">>
        dat == <<Sealed(EOs(57, 32), "extra")>>
    IN  [dos EXCEPT !.total = MeasuredBits,
          !.after = After(FALSE, {sig}, FALSE, 0, <<Read(dat)>>),
          !.emit = DosTrack(11, "4489") \o <<Is(MFM(16), "0")>> \o Words(sig) \o dat]

(* An eleventh sector that is not one: its data sum must be wrong.  Here    *)
(* the first scan ends with ten; amigados looks for the eleventh in vain.   *)
tolteka_protection ==
    LET info == <<Is(EO(32), "010a9eff")>>
        dat == <<Skip(EOs(4, 32), "label"), Keep(EO(32), "hdr"), Keep(EO(32), "dat"),
                 Keep(EOs(128, 32), "extra")>>
    IN  [dos EXCEPT !.nsec = 10, !.open = {"hdr", "dat", "extra"},
          !.after = After(TRUE, {<<"4489", "4489">>}, FALSE, 0, <<Read(info), Read(dat)>>),
          !.emit = DosTrack(10, "4489") \o <<Is(MFM(16), "0")>>
                     \o Words(<<"4489", "4489">>) \o info \o dat]

(* 204 bytes whose longs add up to nothing, after the sectors.  data_bitoff *)
(* is where they were found, but read_raw writes the sectors first.         *)
yo_joe_boot ==
    LET dat == <<Sealed(EO(8 * 204), "extra")>>
    IN  [dos EXCEPT !.total = {105500},
          !.after = After(FALSE, {<<"2245", "2245">>}, TRUE, 31, <<Read(dat)>>),
          !.emit = DosTrack(11, "4489") \o Words(<<"2245", "2245">>) \o dat]

(* What the other tracks need to be decoded, in front of the sectors: 166   *)
(* words in version 1 and 154 in version 2.                                 *)
psygnosis_c_track0(ver) ==
    LET zero == IF ver = 2 THEN <<Is(MFM(8), "0")>> ELSE <<>>
        dat == <<Check(EO(16), "addx", {"extra"}),
                 Keep(EOs(IF ver = 1 THEN 166 ELSE 154, 16), "extra")>>
    IN  [dos EXCEPT !.total = {105500},
          !.after = After(TRUE, {<<"428a">>}, TRUE, 15,
              (IF ver = 2 THEN <<Read(zero)>> ELSE <<>>) \o <<Read(dat)>>),
          !.emit = Words(<<"428a">>) \o zero \o dat \o Pad(16, "0") \o DosTrack(11, "4489")]
=============================================================================
