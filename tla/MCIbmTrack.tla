---------------------------- MODULE MCIbmTrack ----------------------------
EXTENDS IbmTrack

\* A sector; cyl and head are those of its header.
S(at, data, cyl, head, sec, no, mark, crc) ==
    [at |-> at, data |-> data, cyl |-> cyl, head |-> head, sec |-> sec, no |-> no,
     mark |-> mark, crc |-> crc, dat |-> <<sec, at>>]

\* n like sectors from first on, stride bits apart.
Row(n, first, stride, data, no) ==
    [k \in 1..n |-> S(first + (k - 1) * stride, data, 3, 1, k, no, "DAM", TRUE)]

Track(type, len, iam, long, wobble, secs) ==
    [type |-> type, len |-> len, iam |-> iam, long |-> long, wobble |-> wobble,
     cyl |-> 3, head |-> 1, secs |-> secs]

MCMedia ==
    { \* five sectors of 1024 bytes, as on an Archimedes
      Track("ibm_mfm_dd", 99900, TRUE, 0, {0}, Row(5, 2600, 19000, 768, 3)),
      \* eleven of 512, hardly a gap between them, as on an Atari ST
      Track("ibm_mfm_dd", 100400, FALSE, 0, {0}, Row(11, 400, 9120, 768, 2)),
      \* a track slower by 2 %, and one of a type for long tracks
      Track("ibm_mfm_dd", 102000, FALSE, 1, {0}, Row(2, 900, 50000, 768, 4)),
      Track("ibm_mfm_dd", 100000, FALSE, 111000, {0}, Row(2, 900, 50000, 768, 4)),
      \* high density
      Track("ibm_mfm_hd", 199000, TRUE, 0, {0, 3}, Row(4, 2600, 40000, 768, 4)),
      \* sizes, cylinders and heads that differ; a data field that crosses the index; a header
      \* without data, one of no size, a sum recorded bad
      Track("ibm_mfm_dd", 100000, TRUE, 0, {0, 2},
            << S(20000, 768, 9, 1, 1, 1, "DAM", TRUE), S(30000, 0, 9, 1, 2, 1, "DAM", TRUE),
               S(31000, 768, 9, 0, 2, 2, "DDAM", TRUE), S(42000, 768, 3, 1, 77, 8, "DAM", TRUE),
               S(60000, 768, 3, 1, 1, 1, "DAM", FALSE), S(92000, 768, 3, 1, 5, 3, "DAM", TRUE) >>),
      \* single density: heads that differ, a mark of its own
      Track("ibm_fm_sd", 49800, TRUE, 0, {0, 2},
            << S(2000, 496, 3, 0, 7, 0, "DAM", TRUE), S(9000, 496, 3, 1, 7, 0, "FA", TRUE) >>),
      Track("ibm_fm_dd", 99800, FALSE, 0, {0},
            << S(2000, 496, 3, 0, 1, 0, "DAM", TRUE), S(9000, 496, 5, 1, 2, 0, "FA", TRUE) >>),
      \* the types that keep a sector whose sum is bad; a header that crosses the index
      Track("ibm_mfm_dd_recovery", 100300, TRUE, 0, {0, 3},
            << S(5000, 768, 3, 1, 1, 1, "DAM", TRUE), S(25000, 768, 3, 1, 2, 1, "DDAM", FALSE),
               S(45000, 768, 3, 1, 3, 1, "DAM", TRUE), S(100180, 768, 3, 1, 4, 1, "DAM", TRUE) >>),
      Track("ibm_fm_sd_recovery", 50100, FALSE, 0, {0},
            << S(5000, 496, 3, 1, 1, 1, "DAM", TRUE), S(25000, 496, 3, 1, 2, 1, "FA", TRUE) >>) }

\* What CopyKept asks of the tracks and of the dump is so of these.
ASSUME RoomyTracks == Revs >= 2 /\ \A m \in MCMedia : Roomy(m)
=============================================================================
