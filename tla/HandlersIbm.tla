---------------------------- MODULE HandlersIbm ----------------------------
(* Track handlers of libdisk/format/ibm_img.c: IBM System/34 tracks of a     *)
(* fixed number of sectors of one size.  The index mark, looked for in a     *)
(* scan of its own and stored as a flag, is written here.                    *)
(* (ibm_scan_mark may meet the next header first, and redo_idam then takes   *)
(* it: on these tracks it is further away than the 1000 bits it looks at.)   *)
EXTENDS TrackFields

SectorGap(type) ==
    CASE type \in {"ibm_pc_dd", "atari_st_720kb"} -> 84
      [] type = "ibm_pc_dd_10sec" -> 30
      [] OTHER -> 108

(* speed: bits of the type's density in one of double density.               *)
ibm_img(type, sectors, bytes, speed) ==
    LET idam == <<Is(MFM(8), "cyl"), Is(MFM(8), "head"), Sec(MFM(8)), Is(MFM(8), "no"),
                  Check(MFM(16), "crc", {"cyl", "head", "sec", "no"})>>
        dat == <<Keep(MFM(8 * bytes), "data"), Check(MFM(16), "crc", {"data"})>>
        iam == Pad(96, "0") \o Words(<<"5224", "5224", "5224", "5552">>) \o Pad(400, "4e")
    IN  [Handler EXCEPT
          !.mode = "each", !.need = "any", !.nsec = sectors, !.mark = "fixed",
          !.sync = {IdamMark}, !.total = {speed * DefaultBits},
          !.take = <<Read(idam), Seek({DamMark}, 1000), Read(dat)>>,
          !.emit = iam \o Sectors(sectors,
              Pad(96, "0") \o Words(IdamMark) \o idam \o Pad(176, "4e")
                \o Pad(96, "0") \o Words(DamMark) \o dat \o Pad(8 * SectorGap(type), "4e"))]
=============================================================================
