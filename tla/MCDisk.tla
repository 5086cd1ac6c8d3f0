------------------------------- MODULE MCDisk -------------------------------
(* Two tracks; a revolution is 9 bits by default, 4 as measured.             *)
EXTENDS Disk

MCNames == {"dsk", "adf", "eadf"}
MCNrTracks == [n \in MCNames |-> 2]
MCHandlers ==
    "unformatted" :> [secs |-> 0, ados |-> FALSE, writes |-> FALSE]
 @@ "raw_dd"      :> [secs |-> 0, ados |-> FALSE, writes |-> FALSE]
 @@ "amigados"    :> [secs |-> 2, ados |-> TRUE, writes |-> TRUE]

MCPayloads == {<<"d1">>, <<"d2">>}
OnePayload == {<<"d1">>}
MCBlank == <<"zeros">>
MCBad == <<"bad">>

MCTagIds == {1, 3}
MCSwizzled == {1}
MCTagValues == {<<1, 2>>}
MCWeak == -1
MCLengths == {0, MCWeak}
MCOffsets == {-5}
MCSeen == {4}
=============================================================================
