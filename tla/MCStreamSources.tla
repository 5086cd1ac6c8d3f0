-------------------------- MODULE MCStreamSources --------------------------
(* Small dumps in each format.  A cell is 8 ns, a tick 4 ns before scaling.  *)
EXTENDS StreamSources

MCKinds == {"image", "kfs", "scp", "dr", "dfe2"}
MCScpOnly == {"scp"}
MCTracks == {0, 1, 2}
MCCentres == {8}
NoSteps == {}

\* A read of these bits, whose cells have these speeds.
Read(bits, speed) ==
    LET cells == [bits |-> bits, speed |-> speed]
    IN  [bits |-> bits, speed |-> speed,
         at |-> [k \in 0..Len(bits) |->
                    FoldLeft(LAMBDA a, c : a + CellNs(cells, c), 0, [c \in 1..k |-> c])]]

\* Track 0 has cells of two widths.  Track 1 has weak bits: its bits and their
\* number, and the width of its cells with it, change from read to read.
MCImage == 0 :> {Read(<<1, 0, 1, 0, 0>>, <<10, 10, 13, 10, 10>>)}
        @@ 1 :> {Read(<<1, 0, 0, 1>>, <<10, 10, 10, 10>>),
                 Read(<<1, 1, 0, 0, 1>>, <<10, 10, 10, 10, 10>>)}

Sample(v) == [k |-> "sample", n |-> 1, v |-> v]
Block(k, n, v) == [k |-> k, n |-> n, v |-> v]

\* Index blocks come before or after the stream position they speak of.
MCKfs == 0 :> <<Sample(2), Block("index", 0, 2), Sample(4), Sample(3),
                Block("nop", 2, 0), Block("overflow", 1, 0), Sample(2),
                Block("index", 0, 4), Sample(2), Sample(6), Block("eof", 0, 0),
                Sample(2)>>
      @@ 1 :> <<Sample(3), Sample(3)>>

\* A dump of these words, whose revolutions end at these.
Dump(dat, index_off, ticks) ==
    [dat |-> dat, index_off |-> index_off, total_ticks |-> ticks,
     at |-> [k \in 0..Len(dat) |->
                FoldLeft(LAMBDA a, w : a + ScpTicks(w), 0, SubSeq(dat, 1, k))]]

MCScp == 0 :> Dump(<<2, 4, 0, 3, 2>>, <<3, 5>>, 21)
      @@ 1 :> Dump(<<2, 5, 2>>, <<3>>, 10)
      @@ 2 :> Dump(<<0, 0>>, <<1, 2>>, 14)

Byte(lat, index, bits) == [lat |-> lat, index |-> index, bits |-> bits]
MCDr == 0 :> <<Byte(40, FALSE, <<0, 0, 0, 0, 0, 0, 0, 0>>),
               Byte(37, TRUE, <<0, 1, 0, 0, 0, 0, 0, 1>>),
               Byte(60, FALSE, <<0, 0, 1, 0, 0, 0, 0, 0>>),
               Byte(66, TRUE, <<0, 0, 0, 0, 1, 0, 0, 0>>)>>

MCDfe2 == 0 :> <<[k |-> "sample", v |-> 2], [k |-> "carry", v |-> 0],
                 [k |-> "index", v |-> 1], [k |-> "sample", v |-> 3],
                 [k |-> "sample", v |-> 4], [k |-> "index", v |-> 2],
                 [k |-> "sample", v |-> 1], [k |-> "carry", v |-> 0]>>
=============================================================================
