---------------------------- MODULE TrackBuffer ----------------------------
(***************************************************************************)
(* The track buffer of libdisk/disk.c, into which a format handler encodes a *)
(* track (track_read_raw): a circle of bitcells, written from the offset at  *)
(* which the track's data begins.  tbuf_finalise fills what the handler left *)
(* with a gap and a write splice.  The MFM decoders and encoders that the    *)
(* handlers use on bytes in memory are operators here.                      *)
(*                                                                         *)
(* Bits are in the order in which they pass the head.  Cell speeds and the   *)
(* running CRC are data and are left out, and so is the splitting of sectors *)
(* and gaps that the IPF container hooks in.                                *)
(***************************************************************************)
EXTENDS Integers, SequencesExt

CONSTANTS
    Tracks,         \* the [start, bitlen] of the tracks read
    HalfBits,       \* 4, half of a byte
    Words,          \* what a handler writes in one call: sequences of bytes, and
    RawWords,       \* with no encoding, of bits
    Gaps            \* the lengths of gaps and of weak regions, in data bits

ByteBits == 2 * HalfBits
Byte == [1..ByteBits -> {0, 1}]

ASSUME TracksAssumption ==
    \A t \in Tracks : t.bitlen \in Nat /\ t.start \in 0..(t.bitlen - 1)

ASSUME WordsAssumption ==
    /\ HalfBits \in Nat \ {0} /\ Gaps \subseteq Nat
    /\ Words \subseteq Seq(Byte) \ {<<>>} /\ RawWords \subseteq Seq({0, 1}) \ {<<>>}

VARIABLES
    bitlen, start, pos, prev_data_bit,      \* struct tbuf
    bits,                                   \* raw.bits; Unset where not written
    data_end, splice,                       \* raw.data_end_bc, write_splice_bc
    phase,          \* "none", "write", in tbuf_finalise "splice" and "back", "done"
    written,        \* history: cells the handler has written
    overwrote,      \* history: a cell was written again
    plain,          \* history: the handler has used no raw words
    last            \* history: the last bytes written, how, and where

vars == <<bitlen, start, pos, prev_data_bit, bits, data_end, splice, phase,
          written, overwrote, plain, last>>

Unset == 2
NoBytes == [enc |-> "none"]
Encodings == {"mfm", "even_odd", "odd_even"}

-----------------------------------------------------------------------------
(* Encoding. *)

\* The bits of the bytes, and those of either half of each byte: the even bits,
\* counted from the most significant, or the odd ones.
AllBits(bytes) ==
    [k \in 1..(Len(bytes) * ByteBits) |->
        bytes[((k - 1) \div ByteBits) + 1][((k - 1) % ByteBits) + 1]]

EvenBits(bytes) ==
    [k \in 1..(Len(bytes) * HalfBits) |->
        bytes[((k - 1) \div HalfBits) + 1][2 * ((k - 1) % HalfBits) + 1]]

OddBits(bytes) ==
    [k \in 1..(Len(bytes) * HalfBits) |->
        bytes[((k - 1) \div HalfBits) + 1][2 * ((k - 1) % HalfBits) + 2]]

\* Mutant of DataBits: odd-even is taken for even-odd.
DataBits_OneOrder(enc, bytes) ==
    IF enc = "mfm" THEN AllBits(bytes) ELSE EvenBits(bytes) \o OddBits(bytes)

\* The order in which tbuf_bytes and tbuf_bits hand data bits to tbuf_bit.
DataBits(enc, bytes) ==
    CASE enc = "mfm"      -> AllBits(bytes)
      [] enc = "even_odd" -> EvenBits(bytes) \o OddBits(bytes)
      [] enc = "odd_even" -> OddBits(bytes) \o EvenBits(bytes)

\* tbuf_bit: a clock bit before each data bit.
Clocked(data, prev) ==
    [i \in 1..(2 * Len(data)) |->
        IF i % 2 = 0 THEN data[i \div 2]
        ELSE LET before == IF i = 1 THEN prev ELSE data[i \div 2]
             IN  IF before = 0 /\ data[(i + 1) \div 2] = 0 THEN 1 ELSE 0]

\* mfm_decode_bytes: n bytes out of 2n bytes of cells.
Decoded(enc, n, cells) ==
    LET in(i) == SubSeq(cells, (i - 1) * ByteBits + 1, i * ByteBits)
        \* high bits from the data bits of one byte of cells, low from another
        joined(high, low) ==
            [j \in 1..ByteBits |-> IF j % 2 = 1 THEN high[j + 1] ELSE low[j]]
    IN  [i \in 1..n |->
           CASE enc = "mfm"      -> [j \in 1..ByteBits |->
                                        (in(2 * i - 1) \o in(2 * i))[2 * j]]
             [] enc = "even_odd" -> joined(in(i), in(i + n))
             [] enc = "odd_even" -> joined(in(i + n), in(i))]

\* mfm_encode_bytes, and mfm_encode_word: the data bits go to the even places of 2n
\* bytes of cells, and then each clock bit depends on its neighbours.
Encoded(enc, bytes, prev) ==
    LET n == Len(bytes)
        high(i, j) == bytes[i][j - 1]
        low(i, j)  == bytes[i][j]
        placed(i, j) ==
            CASE enc = "mfm"      -> bytes[(i + 1) \div 2]
                                          [(IF i % 2 = 1 THEN 0 ELSE ByteBits \div 2) + j \div 2]
              [] enc = "even_odd" -> IF i <= n THEN high(i, j) ELSE low(i - n, j)
              [] enc = "odd_even" -> IF i <= n THEN low(i, j) ELSE high(i - n, j)
        datum(k) == IF k = 0 THEN prev
                    ELSE placed(((k - 1) \div ByteBits) + 1, ((k - 1) % ByteBits) + 1)
    IN  [k \in 1..(2 * n * ByteBits) |->
            IF k % 2 = 0 THEN datum(k)
            ELSE IF datum(k - 1) = 0 /\ datum(k + 1) = 0 THEN 1 ELSE 0]

-----------------------------------------------------------------------------
(* Writing. *)

\* fix_bc
Fix(bc) == IF bc < 0 THEN bc + bitlen ELSE bc

\* append_bit, for each of s: round and round the buffer.
AppendBits(s) ==
    LET n == Len(s)
        turn(p) == Fix(p - pos)
    IN  /\ bits' = [p \in 0..(bitlen - 1) |->
                      IF turn(p) >= n THEN bits[p]
                      ELSE s[1 + turn(p) + bitlen * ((n - 1 - turn(p)) \div bitlen)]]
        /\ pos' = (pos + n) % bitlen
        /\ overwrote' = (overwrote \/ n > bitlen
                           \/ \E p \in 0..(bitlen - 1) : turn(p) < n /\ bits[p] # Unset)

AppendMfm(data) ==
    /\ AppendBits(Clocked(data, prev_data_bit))
    /\ prev_data_bit' = IF data = <<>> THEN prev_data_bit ELSE Last(data)

Init ==
    /\ bitlen = 0 /\ start = 0 /\ pos = 0 /\ prev_data_bit = 0 /\ bits = <<>>
    /\ data_end = 0 /\ splice = 0 /\ phase = "none"
    /\ written = 0 /\ overwrote = FALSE /\ plain = TRUE /\ last = NoBytes

\* track_read_raw up to the handler: the buffer of the last track is dropped.
TrackReadRaw(t) ==
    /\ phase \in {"none", "done"}
    /\ bitlen' = t.bitlen /\ start' = t.start /\ pos' = t.start
    /\ prev_data_bit' = 0 /\ bits' = [p \in 0..(t.bitlen - 1) |-> Unset]
    /\ data_end' = 0 /\ splice' = 0 /\ phase' = "write"
    /\ written' = 0 /\ overwrote' = FALSE /\ plain' = TRUE /\ last' = NoBytes

\* Bound: a handler that has filled the buffer writes no more, but the call that
\* fills it may write more than there is room for.
HandlerWrites(n) ==
    /\ phase = "write" /\ written < bitlen
    /\ written' = written + n
    /\ UNCHANGED <<bitlen, start, data_end, splice, phase>>

\* tbuf_bytes, and tbuf_bits, for which a word is one long byte.
Bytes(enc, bytes) ==
    /\ HandlerWrites(2 * Len(bytes) * ByteBits)
    /\ AppendMfm(DataBits(enc, bytes))
    /\ last' = [enc |-> enc, bytes |-> bytes, at |-> pos,
                 prev |-> prev_data_bit]
    /\ UNCHANGED plain

\* The same, with no encoding.
Raw(word) ==
    /\ HandlerWrites(Len(word))
    /\ AppendBits(word)
    /\ prev_data_bit' = Last(word)
    /\ plain' = FALSE
    /\ UNCHANGED last

\* tbuf_gap, and tbuf_weak, whose bits are random.
Filler(data) ==
    /\ HandlerWrites(2 * Len(data))
    /\ AppendMfm(data)
    /\ UNCHANGED <<last, plain>>

\* tbuf_gap_fill: whole bytes, then bits from the most significant; an odd cell is
\* left over.
GapFill(byte) ==
    LET n == Fix(start - pos) \div 2
    IN  /\ HandlerWrites(2 * n)
        /\ AppendMfm([i \in 1..n |-> byte[((i - 1) % ByteBits) + 1]])
        /\ UNCHANGED <<last, plain>>

-----------------------------------------------------------------------------
(* tbuf_finalise. *)

Finalising == UNCHANGED <<bitlen, start, written, plain, last>>

\* The handler has filled the buffer, or written nothing.
FinaliseFull ==
    /\ phase = "write" /\ start = pos
    /\ data_end' = Fix(pos - 1) /\ splice' = data_end'
    /\ phase' = "done"
    /\ UNCHANGED <<pos, prev_data_bit, bits, overwrote>> /\ Finalising

\* Mutant of FillForward: the gap is counted in cells, and filled with data bits.
FillForward_Twice ==
    /\ phase = "write" /\ start # pos
    /\ data_end' = Fix(pos - 1)
    /\ AppendMfm([i \in 1..(Fix(start - pos) \div 2 + 1) |-> 0])
    /\ phase' = "splice"
    /\ UNCHANGED splice /\ Finalising

\* Half of the gap, after the data.
FillForward ==
    /\ phase = "write" /\ start # pos
    /\ data_end' = Fix(pos - 1)
    /\ AppendMfm([i \in 1..(Fix(start - pos) \div 4) |-> 0])
    /\ phase' = "splice"
    /\ UNCHANGED splice /\ Finalising

WriteSplice ==
    LET gap == Fix(start - pos)
        n   == IF gap < 5 THEN gap ELSE 5
    IN  /\ phase = "splice"
        /\ AppendBits([i \in 1..n |-> 0])
        /\ prev_data_bit' = 0
        /\ splice' = Fix(pos' - 1 - n \div 2)
        /\ phase' = "back"
        /\ UNCHANGED data_end /\ Finalising

\* Mutant of FillBack: the cell before the data is 1.
FillBack_OneFirst ==
    LET rest == {p \in 0..(bitlen - 1) : Fix(p - pos) < Fix(start - pos)}
    IN  /\ phase = "back"
        /\ bits' = [p \in 0..(bitlen - 1) |->
                      IF p \in rest THEN Fix(start - p) % 2 ELSE bits[p]]
        /\ overwrote' = (overwrote \/ \E p \in rest : bits[p] # Unset)
        /\ phase' = "done"
        /\ UNCHANGED <<pos, prev_data_bit, data_end, splice>> /\ Finalising

\* The remainder, backwards from the data: 0, 1, 0, 1, ...
FillBack ==
    LET rest == {p \in 0..(bitlen - 1) : Fix(p - pos) < Fix(start - pos)}
    IN  /\ phase = "back"
        /\ bits' = [p \in 0..(bitlen - 1) |->
                      IF p \in rest THEN (Fix(start - p) + 1) % 2 ELSE bits[p]]
        /\ overwrote' = (overwrote \/ \E p \in rest : bits[p] # Unset)
        /\ phase' = "done"
        /\ UNCHANGED <<pos, prev_data_bit, data_end, splice>> /\ Finalising

-----------------------------------------------------------------------------
Next ==
    \/ \E t \in Tracks : TrackReadRaw(t)
    \/ \E enc \in Encodings, bytes \in Words : Bytes(enc, bytes)
    \/ \E word \in RawWords : Raw(word)
    \/ \E n \in Gaps : \E data \in [1..n -> {0, 1}] : Filler(data)
    \/ \E bytes \in Words : GapFill(Head(bytes))
    \/ FinaliseFull \/ FillForward \/ WriteSplice \/ FillBack

Spec == Init /\ [][Next]_vars

-----------------------------------------------------------------------------
\* What the handler could have written: something, and no more than there is room
\* for.  tbuf_finalise takes a buffer with nothing in it for a full one, and a
\* handler that laps the buffer for one that has hardly begun.
Sane == written \in 1..bitlen

\* Cells from the start of the data to its end, round the index.
InData(p) == Fix(p - start) < written

\* However the gap lies across the index, each cell of the track is written, and
\* only once: no bit of data is lost to the gap, and the write splice, at which a
\* drive will begin and end, is in the gap.
GapFilled ==
    phase = "done" /\ Sane =>
        /\ ~overwrote /\ \A p \in DOMAIN bits : bits[p] # Unset
        /\ data_end = (start + written - 1) % bitlen
        /\ IF written = bitlen THEN splice = data_end ELSE ~InData(splice)

\* The track is MFM all round, its seams included: reversals are two to four cells
\* apart in the data, and never one apart.
MfmLegal ==
    LET cell(p) == bits[p % bitlen]
    IN  phase = "done" /\ plain /\ Sane /\ written < bitlen =>
          \A p \in DOMAIN bits :
            /\ cell(p) = 0 \/ cell(p + 1) = 0
            /\ (\A i \in 0..3 : InData((p + i) % bitlen))
                 => \E i \in 0..3 : cell(p + i) = 1

\* What tbuf_bytes has encoded is what mfm_decode_bytes reads, whatever the
\* handler and tbuf_finalise write after it, and what mfm_encode_bytes writes.
ReadsBack ==
    last # NoBytes /\ written <= bitlen =>
        LET n == Len(last.bytes)
            cells == [i \in 1..(2 * n * ByteBits) |-> bits[(last.at + i - 1) % bitlen]]
        IN  /\ Decoded(last.enc, n, cells) = last.bytes
            /\ Encoded(last.enc, last.bytes, last.prev) = cells
=============================================================================
