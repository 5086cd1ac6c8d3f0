--------------------------- MODULE MCTrackBuffer ---------------------------
(* Bytes of four bits; gaps of any length, across the index or not.         *)
EXTENDS TrackBuffer

MCTracks == {[start |-> 0, bitlen |-> 16], [start |-> 5, bitlen |-> 22],
             [start |-> 15, bitlen |-> 19], [start |-> 15, bitlen |-> 25]}
B1 == <<1, 0, 1, 1>>
B2 == <<0, 1, 0, 0>>
MCWords == {<<B1>>, <<B2, B1>>}
MCRaw == {<<0, 1, 0, 0, 0>>}
MCGaps == {1, 2}
=============================================================================
