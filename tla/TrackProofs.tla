---------------------------- MODULE TrackProofs ----------------------------
(***************************************************************************)
(* Invariants of the track buffer for tracks of any length, whose data       *)
(* begins anywhere, and for anything a handler writes: the cells are         *)
(* counted from the start of the data, round the index, and At(k) is the      *)
(* k-th.  And of the IBM handler, for any medium laid out as a drive lays it  *)
(* out, any number of revolutions and of misreadings.                        *)
(***************************************************************************)
EXTENDS TrackBuffer, IbmTrack, ListProofs, FiniteSetTheorems

At(k) == (start + k) % bitlen
Turn(p) == Fix(p - start)

\* A buffer that track_read_raw has set up.
Circle ==
    /\ bitlen \in Nat \ {0}
    /\ start \in 0..(bitlen - 1) /\ pos \in 0..(bitlen - 1)
    /\ bits \in [0..(bitlen - 1) -> {0, 1, Unset}]

-----------------------------------------------------------------------------
(* Going round the circle. *)

LEMMA OnceRound ==
    ASSUME NEW L \in Nat \ {0}, NEW x \in 0..(2 * L - 1)
    PROVE  x % L = IF x < L THEN x ELSE x - L
  OBVIOUS

LEMMA NoTurn ==
    ASSUME NEW L \in Nat \ {0}, NEW x \in 0..(L - 1)
    PROVE  x \div L = 0 /\ x % L = x
  OBVIOUS

LEMMA CircleSizes == ASSUME Circle
                     PROVE  bitlen \in Nat \ {0} /\ start \in 0..(bitlen - 1)
                            /\ pos \in 0..(bitlen - 1)
  BY DEF Circle

LEMMA AtPlace ==
    ASSUME Circle, NEW k \in 0..bitlen
    PROVE  /\ At(k) = IF start + k < bitlen THEN start + k ELSE start + k - bitlen
           /\ At(k) \in 0..(bitlen - 1)
  <1>1. bitlen \in Nat \ {0} /\ start \in 0..(bitlen - 1)
    BY CircleSizes
  <1> DEFINE x == start + k
  <1>2. x \in 0..(2 * bitlen - 1)
    BY <1>1
  <1>3. x % bitlen = IF x < bitlen THEN x ELSE x - bitlen
    <2> HIDE DEF x
    <2> QED BY <1>1, <1>2, OnceRound
  <1> QED BY <1>1, <1>3 DEF At

LEMMA TurnPlace ==
    ASSUME Circle, NEW p \in 0..(bitlen - 1)
    PROVE  Turn(p) \in 0..(bitlen - 1) /\ At(Turn(p)) = p
  <1>1. bitlen \in Nat \ {0} /\ start \in 0..(bitlen - 1)
    BY CircleSizes
  <1>2. Turn(p) = IF p < start THEN p - start + bitlen ELSE p - start
    BY <1>1 DEF Turn, Fix
  <1>3. Turn(p) \in 0..(bitlen - 1) /\ Turn(p) \in 0..bitlen
    BY <1>1, <1>2
  <1>4. At(Turn(p)) = IF start + Turn(p) < bitlen THEN start + Turn(p)
                      ELSE start + Turn(p) - bitlen
    BY <1>3, AtPlace
  <1> QED BY <1>1, <1>2, <1>3, <1>4

LEMMA TurnAt ==
    ASSUME Circle, NEW k \in 0..(bitlen - 1)
    PROVE  Turn(At(k)) = k
  <1>1. bitlen \in Nat \ {0} /\ start \in 0..(bitlen - 1)
    BY CircleSizes
  <1>2. k \in 0..bitlen
    BY <1>1
  <1>3. At(k) = IF start + k < bitlen THEN start + k ELSE start + k - bitlen
    BY <1>2, AtPlace
  <1> QED BY <1>1, <1>3 DEF Turn, Fix

LEMMA AtNext ==
    ASSUME Circle, NEW k \in 0..(bitlen - 1)
    PROVE  (At(k) + 1) % bitlen = IF k + 1 < bitlen THEN At(k + 1) ELSE At(0)
  <1>1. bitlen \in Nat \ {0} /\ start \in 0..(bitlen - 1)
    BY CircleSizes
  <1>2. k \in 0..bitlen /\ k + 1 \in 0..bitlen /\ 0 \in 0..bitlen
    BY <1>1
  <1>3. /\ At(k) = IF start + k < bitlen THEN start + k ELSE start + k - bitlen
        /\ At(k + 1) = IF start + (k + 1) < bitlen THEN start + (k + 1)
                       ELSE start + (k + 1) - bitlen
        /\ At(0) = IF start + 0 < bitlen THEN start + 0 ELSE start + 0 - bitlen
    BY <1>2, AtPlace
  <1> DEFINE x == At(k) + 1
  <1>4. x \in 0..(2 * bitlen - 1)
    BY <1>1, <1>3
  <1>5. x % bitlen = IF x < bitlen THEN x ELSE x - bitlen
    <2> HIDE DEF x
    <2> QED BY <1>1, <1>4, OnceRound
  <1> QED BY <1>1, <1>3, <1>5

\* Counted from the n-th cell on, the k-th is k - n further, or as much before.
LEMMA TurnFrom ==
    ASSUME Circle, NEW n \in 0..bitlen, NEW k \in 0..(bitlen - 1)
    PROVE  Fix(At(k) - At(n)) = IF n = bitlen THEN k
                                ELSE IF k >= n THEN k - n ELSE k - n + bitlen
  <1>1. bitlen \in Nat \ {0} /\ start \in 0..(bitlen - 1)
    BY CircleSizes
  <1>2. k \in 0..bitlen
    BY <1>1
  <1>3. /\ At(k) = IF start + k < bitlen THEN start + k ELSE start + k - bitlen
        /\ At(n) = IF start + n < bitlen THEN start + n ELSE start + n - bitlen
    BY <1>2, AtPlace
  <1> QED BY <1>1, <1>3 DEF Fix

\* The room left behind n cells.
LEMMA RoomLeft ==
    ASSUME Circle, NEW n \in 0..bitlen
    PROVE  Fix(start - At(n)) = IF n \in {0, bitlen} THEN 0 ELSE bitlen - n
  <1>1. bitlen \in Nat \ {0} /\ start \in 0..(bitlen - 1)
    BY CircleSizes
  <1>2. At(n) = IF start + n < bitlen THEN start + n ELSE start + n - bitlen
    BY AtPlace
  <1> QED BY <1>1, <1>2 DEF Fix

-----------------------------------------------------------------------------
(* Writing s behind the first n cells, for which there is room. *)

LEMMA AppendPlaces ==
    ASSUME Circle, NEW s \in Seq({0, 1}), NEW n \in Nat, n + Len(s) <= bitlen,
           pos = At(n), AppendBits(s)
    PROVE  /\ pos' = At(n + Len(s)) /\ pos' \in 0..(bitlen - 1)
           /\ bits' \in [0..(bitlen - 1) -> {0, 1, Unset}]
           /\ \A k \in 0..(bitlen - 1) :
                 bits'[At(k)] = IF k >= n /\ k < n + Len(s) THEN s[k - n + 1] ELSE bits[At(k)]
           /\ (~overwrote /\ \A k \in n..(bitlen - 1) : bits[At(k)] = Unset) => ~overwrote'
  <1> DEFINE m == Len(s)
             turn(p) == Fix(p - pos)
             new(p) == IF turn(p) >= m THEN bits[p]
                       ELSE s[1 + turn(p) + bitlen * ((m - 1 - turn(p)) \div bitlen)]
  <1>1. /\ bitlen \in Nat \ {0} /\ start \in 0..(bitlen - 1) /\ pos \in 0..(bitlen - 1)
        /\ bits \in [0..(bitlen - 1) -> {0, 1, Unset}]
        /\ m \in Nat /\ n + m <= bitlen /\ n \in 0..bitlen /\ n + m \in 0..bitlen
        /\ \A i \in 1..m : s[i] \in {0, 1}
    BY LenProperties, ElementOfSeq DEF Circle
  <1>2. ASSUME NEW k \in 0..(bitlen - 1)
        PROVE  turn(At(k)) = IF n = bitlen THEN k
                             ELSE IF k >= n THEN k - n ELSE k - n + bitlen
    BY <1>1, TurnFrom
  <1>3. ASSUME NEW k \in 0..(bitlen - 1)
        PROVE  turn(At(k)) < m <=> k >= n /\ k < n + m
    BY <1>1, <1>2
  <1>4. ASSUME NEW k \in 0..(bitlen - 1)
        PROVE  /\ new(At(k)) = IF k >= n /\ k < n + m THEN s[k - n + 1] ELSE bits[At(k)]
               /\ new(At(k)) \in {0, 1, Unset}
    <2>1. At(k) \in 0..(bitlen - 1)
      <3>1. k \in 0..bitlen
        BY <1>1
      <3> QED BY <3>1, AtPlace
    <2>2. CASE ~(k >= n /\ k < n + m)
      <3>1. ~(turn(At(k)) < m) /\ turn(At(k)) \in Int
        BY <1>1, <1>2, <1>3, <2>2
      <3>2. new(At(k)) = bits[At(k)]
        BY <1>1, <3>1
      <3> HIDE DEF new
      <3> QED BY <1>1, <2>1, <2>2, <3>2
    <2>3. CASE k >= n /\ k < n + m
      <3>1. turn(At(k)) = k - n /\ turn(At(k)) < m
        BY <1>1, <1>2, <2>3
      <3>2. (m - 1 - (k - n)) \div bitlen = 0
        <4>1. m - 1 - (k - n) \in 0..(bitlen - 1)
          BY <1>1, <2>3
        <4> QED BY <1>1, <4>1, NoTurn
      <3>3. new(At(k)) = s[1 + (k - n) + bitlen * 0]
        BY <1>1, <3>1, <3>2
      <3>4. 1 + (k - n) + bitlen * 0 = k - n + 1 /\ k - n + 1 \in 1..m
        BY <1>1, <2>3
      <3> HIDE DEF new
      <3> QED BY <1>1, <2>3, <3>3, <3>4
    <2> QED BY <2>2, <2>3
  <1>5. bits' = [p \in 0..(bitlen - 1) |-> new(p)]
    BY DEF AppendBits
  <1>6. \A k \in 0..bitlen : At(k) \in 0..(bitlen - 1)
    BY AtPlace
  <1>7. \A p \in 0..(bitlen - 1) : Turn(p) \in 0..(bitlen - 1) /\ At(Turn(p)) = p
    BY TurnPlace
  <1>8. bits' \in [0..(bitlen - 1) -> {0, 1, Unset}]
    <2> HIDE DEF new
    <2>1. \A p \in 0..(bitlen - 1) : new(p) \in {0, 1, Unset}
      BY <1>4, <1>7
    <2> QED BY <1>5, <2>1
  <1>9. \A k \in 0..(bitlen - 1) :
           bits'[At(k)] = IF k >= n /\ k < n + m THEN s[k - n + 1] ELSE bits[At(k)]
    <2> SUFFICES ASSUME NEW k \in 0..(bitlen - 1)
                 PROVE  bits'[At(k)] = IF k >= n /\ k < n + m THEN s[k - n + 1] ELSE bits[At(k)]
      OBVIOUS
    <2>1. At(k) \in 0..(bitlen - 1)
      <3>1. k \in 0..bitlen
        BY <1>1
      <3> QED BY <3>1, AtPlace
    <2> HIDE DEF new
    <2>2. bits'[At(k)] = new(At(k))
      BY <1>5, <2>1
    <2> QED BY <1>4, <2>2
  <1>10. pos' = At(n + m) /\ pos' \in 0..(bitlen - 1)
    <2>1. pos' = (At(n) + m) % bitlen
      BY DEF AppendBits
    <2> DEFINE x == At(n) + m
    <2>2. /\ At(n) = IF start + n < bitlen THEN start + n ELSE start + n - bitlen
          /\ At(n + m) = IF start + (n + m) < bitlen THEN start + (n + m)
                         ELSE start + (n + m) - bitlen
          /\ At(n + m) \in 0..(bitlen - 1)
      BY <1>1, AtPlace
    <2>3. x \in 0..(2 * bitlen - 1)
      BY <1>1, <2>2
    <2>4. x % bitlen = IF x < bitlen THEN x ELSE x - bitlen
      <3> HIDE DEF x
      <3> QED BY <1>1, <2>3, OnceRound
    <2>5. (IF x < bitlen THEN x ELSE x - bitlen) = At(n + m)
      BY <1>1, <2>2
    <2>6. pos' = x % bitlen
      BY <2>1
    <2> HIDE DEF x
    <2> QED BY <2>2, <2>4, <2>5, <2>6
  <1>11. ASSUME ~overwrote, \A k \in n..(bitlen - 1) : bits[At(k)] = Unset
         PROVE  ~overwrote'
    <2>1. ~(\E p \in 0..(bitlen - 1) : turn(p) < m /\ bits[p] # Unset)
      <3> SUFFICES ASSUME NEW p \in 0..(bitlen - 1), turn(p) < m
                   PROVE  bits[p] = Unset
        OBVIOUS
      <3>1. Turn(p) \in 0..(bitlen - 1) /\ At(Turn(p)) = p
        BY <1>7
      <3> DEFINE k == Turn(p)
      <3> HIDE DEF k
      <3>2. k \in 0..(bitlen - 1) /\ At(k) = p
        BY <3>1 DEF k
      <3>3. k >= n
        BY <1>1, <1>3, <3>2
      <3>4. k \in n..(bitlen - 1)
        BY <1>1, <3>2, <3>3
      <3> QED BY <1>11, <3>2, <3>4
    <2>2. overwrote' = (overwrote \/ m > bitlen
                          \/ \E p \in 0..(bitlen - 1) : turn(p) < m /\ bits[p] # Unset)
      BY DEF AppendBits
    <2>3. ~(m > bitlen)
      BY <1>1
    <2> HIDE DEF turn, m
    <2> QED BY <1>11, <2>1, <2>2, <2>3, Zenon
  <1> QED BY <1>8, <1>9, <1>10, <1>11

-----------------------------------------------------------------------------
(* What the buffer looks like between the steps. *)

\* The first n cells are written, once each, and no other.
Filled(n) ==
    /\ ~overwrote /\ pos = At(n)
    /\ \A k \in 0..(bitlen - 1) : bits[At(k)] # Unset <=> k < n

\* How far the fill behind the data, and then the write splice, go.
Forward == written + 2 * ((bitlen - written) \div 4)
Spliced == IF bitlen - Forward < 5 THEN bitlen ELSE Forward + 5

DataEnds == data_end = (start + written - 1) % bitlen

Typed ==
    /\ phase \in {"none", "write", "splice", "back", "done"}
    /\ phase # "none" => Circle /\ written \in Nat /\ prev_data_bit \in {0, 1}

FillInv ==
    /\ Typed
    /\ phase = "write" /\ written <= bitlen => Filled(written)
    /\ phase = "splice" /\ Sane =>
          written < bitlen /\ Filled(Forward) /\ DataEnds
    /\ phase = "back" /\ Sane =>
          written < bitlen /\ Filled(Spliced) /\ DataEnds /\ ~InData(splice)
    /\ GapFilled

LEMMA ForwardFits ==
    ASSUME bitlen \in Nat, written \in Nat, written < bitlen
    PROVE  /\ Forward \in written..(bitlen - 1)
           /\ Spliced \in (Forward + 1)..bitlen /\ Spliced <= Forward + 5
           /\ Spliced - Forward = IF bitlen - Forward < 5 THEN bitlen - Forward ELSE 5
  <1>1. Forward \in written..(bitlen - 1)
    BY DEF Forward
  <1> HIDE DEF Forward
  <1> QED BY <1>1 DEF Spliced

\* A step back from the cell at n.
LEMMA AtBack ==
    ASSUME Circle, NEW n \in 0..bitlen, NEW d \in 0..n
    PROVE  Fix(At(n) - d) = At(n - d)
  <1>1. bitlen \in Nat \ {0} /\ start \in 0..(bitlen - 1)
    BY CircleSizes
  <1>2. n - d \in 0..bitlen
    BY <1>1
  <1>3. /\ At(n) = IF start + n < bitlen THEN start + n ELSE start + n - bitlen
        /\ At(n - d) = IF start + (n - d) < bitlen THEN start + (n - d)
                       ELSE start + (n - d) - bitlen
    BY <1>2, AtPlace
  <1> QED BY <1>1, <1>3 DEF Fix

LEMMA DataEnd ==
    ASSUME Circle, NEW n \in 1..bitlen
    PROVE  Fix(At(n) - 1) = (start + n - 1) % bitlen
  <1>1. bitlen \in Nat \ {0} /\ start \in 0..(bitlen - 1)
    BY CircleSizes
  <1>2. n \in 0..bitlen /\ 1 \in 0..n
    BY <1>1
  <1>3. Fix(At(n) - 1) = At(n - 1)
    BY <1>2, AtBack
  <1>4. start + (n - 1) = start + n - 1
    BY <1>1
  <1> QED BY <1>3, <1>4 DEF At

LEMMA BitFunction ==
    ASSUME NEW n \in Nat, NEW f \in [1..n -> {0, 1}]
    PROVE  f \in Seq({0, 1}) /\ Len(f) = n
  <1>1. f \in Seq({0, 1})
    BY SeqDef
  <1> QED BY <1>1, LenProperties

\* Clocked has two cells for each data bit.
LEMMA ClockedCells ==
    ASSUME NEW data \in Seq({0, 1}), NEW prev \in {0, 1}
    PROVE  /\ Clocked(data, prev) \in Seq({0, 1})
           /\ Len(Clocked(data, prev)) = 2 * Len(data)
  <1> DEFINE n == Len(data)
             before(i) == IF i = 1 THEN prev ELSE data[i \div 2]
             cell(i) == IF i % 2 = 0 THEN data[i \div 2]
                        ELSE IF before(i) = 0 /\ data[(i + 1) \div 2] = 0 THEN 1 ELSE 0
  <1>1. n \in Nat /\ \A i \in 1..n : data[i] \in {0, 1}
    BY LenProperties, ElementOfSeq
  <1>2. Clocked(data, prev) = [i \in 1..(2 * n) |-> cell(i)]
    BY DEF Clocked
  <1>3. \A i \in 1..(2 * n) : cell(i) \in {0, 1}
    <2> SUFFICES ASSUME NEW i \in 1..(2 * n)
                 PROVE  cell(i) \in {0, 1}
      OBVIOUS
    <2>1. i % 2 = 0 => i \div 2 \in 1..n
      BY <1>1
    <2> QED BY <1>1, <2>1
  <1> HIDE DEF cell, n
  <1>4. 2 * n \in Nat
    BY <1>1
  <1>5. Clocked(data, prev) \in [1..(2 * n) -> {0, 1}]
    BY <1>2, <1>3
  <1> QED BY <1>4, <1>5, BitFunction DEF n

-----------------------------------------------------------------------------
(* Each write, wherever it ends, leaves a buffer. *)

LEMMA AppendCircle ==
    ASSUME Circle, NEW s \in Seq({0, 1}), AppendBits(s),
           bitlen' = bitlen, start' = start
    PROVE  Circle'
  <1> DEFINE n == Len(s)
             turn(p) == Fix(p - pos)
             from(p) == 1 + turn(p) + bitlen * ((n - 1 - turn(p)) \div bitlen)
             new(p) == IF turn(p) >= n THEN bits[p] ELSE s[from(p)]
  <1>1. /\ bitlen \in Nat \ {0} /\ start \in 0..(bitlen - 1) /\ pos \in 0..(bitlen - 1)
        /\ bits \in [0..(bitlen - 1) -> {0, 1, Unset}]
        /\ n \in Nat /\ \A i \in 1..n : s[i] \in {0, 1}
    BY LenProperties, ElementOfSeq DEF Circle
  <1>2. ASSUME NEW p \in 0..(bitlen - 1)
        PROVE  new(p) \in {0, 1, Unset}
    <2>1. turn(p) \in Nat
      BY <1>1 DEF Fix
    <2>2. CASE turn(p) >= n
      BY <1>1, <2>2
    <2>3. CASE ~(turn(p) >= n)
      <3>1. ASSUME NEW a \in Nat
            PROVE  bitlen * (a \div bitlen) \in 0..a
        BY <1>1, <3>1
      <3>2. n - 1 - turn(p) \in Nat
        BY <1>1, <2>1, <2>3
      <3>3. bitlen * ((n - 1 - turn(p)) \div bitlen) \in 0..(n - 1 - turn(p))
        BY <3>1, <3>2
      <3>4. from(p) \in 1..n
        <4> DEFINE a == bitlen * ((n - 1 - turn(p)) \div bitlen)
        <4>1. a \in 0..(n - 1 - turn(p))
          BY <3>3
        <4> HIDE DEF a
        <4>2. 1 + turn(p) + a \in 1..n
          BY <1>1, <2>1, <2>3, <4>1
        <4> QED BY <4>2 DEF a
      <3> HIDE DEF from
      <3> QED BY <1>1, <2>3, <3>4
    <2> QED BY <2>2, <2>3
  <1>3. bits' = [p \in 0..(bitlen - 1) |-> new(p)] /\ pos' = (pos + n) % bitlen
    BY DEF AppendBits
  <1>4. pos' \in 0..(bitlen - 1)
    BY <1>1, <1>3
  <1> HIDE DEF new, n
  <1>5. bits' \in [0..(bitlen - 1) -> {0, 1, Unset}]
    BY <1>2, <1>3
  <1> QED BY <1>1, <1>4, <1>5 DEF Circle, Unset

LEMMA FillsOn ==
    ASSUME Circle, NEW s \in Seq({0, 1}), NEW n \in Nat, n + Len(s) <= bitlen,
           Filled(n), AppendBits(s)
    PROVE  /\ ~overwrote' /\ pos' = At(n + Len(s))
           /\ \A k \in 0..(bitlen - 1) : bits'[At(k)] # Unset <=> k < n + Len(s)
  <1>1. pos = At(n) /\ ~overwrote
        /\ \A k \in 0..(bitlen - 1) : bits[At(k)] # Unset <=> k < n
    BY DEF Filled
  <1>2. /\ bitlen \in Nat /\ Len(s) \in Nat /\ \A i \in 1..Len(s) : s[i] \in {0, 1}
    BY CircleSizes, LenProperties, ElementOfSeq
  <1>3. \A k \in n..(bitlen - 1) : bits[At(k)] = Unset
    BY <1>1, <1>2
  <1>4. /\ pos' = At(n + Len(s))
        /\ \A k \in 0..(bitlen - 1) :
              bits'[At(k)] = IF k >= n /\ k < n + Len(s) THEN s[k - n + 1] ELSE bits[At(k)]
        /\ ~overwrote'
    BY <1>1, <1>3, AppendPlaces
  <1>5. ASSUME NEW k \in 0..(bitlen - 1)
        PROVE  bits'[At(k)] # Unset <=> k < n + Len(s)
    <2>1. CASE k >= n /\ k < n + Len(s)
      <3>1. k - n + 1 \in 1..Len(s)
        BY <1>2, <2>1
      <3> QED BY <1>2, <1>4, <2>1, <3>1 DEF Unset
    <2>2. CASE ~(k >= n /\ k < n + Len(s))
      BY <1>1, <1>2, <1>4, <2>2
    <2> QED BY <2>1, <2>2
  <1> QED BY <1>4, <1>5

-----------------------------------------------------------------------------
(* The handler's calls. *)

\* What any of them does.
Call(s) ==
    /\ phase = "write" /\ written < bitlen
    /\ AppendBits(s) /\ written' = written + Len(s)
    /\ prev_data_bit' \in {0, 1}
    /\ UNCHANGED <<bitlen, start, data_end, splice, phase>>

LEMMA LastBit ==
    ASSUME NEW s \in Seq({0, 1}), s # <<>>
    PROVE  Last(s) \in {0, 1}
  <1>1. Len(s) \in Nat \ {0} /\ \A i \in 1..Len(s) : s[i] \in {0, 1}
    BY LenProperties, ElementOfSeq, EmptySeq
  <1>2. Len(s) \in 1..Len(s)
    BY <1>1
  <1> QED BY <1>1, <1>2 DEF Last

LEMMA MfmCall ==
    ASSUME Typed, NEW data \in Seq({0, 1}), NEW n, n = 2 * Len(data),
           HandlerWrites(n), AppendMfm(data)
    PROVE  /\ Call(Clocked(data, prev_data_bit))
           /\ Clocked(data, prev_data_bit) \in Seq({0, 1})
           /\ Len(Clocked(data, prev_data_bit)) = 2 * Len(data)
  <1>1. phase = "write" /\ prev_data_bit \in {0, 1}
    BY DEF HandlerWrites, Typed
  <1>2. /\ Clocked(data, prev_data_bit) \in Seq({0, 1})
        /\ Len(Clocked(data, prev_data_bit)) = 2 * Len(data)
    BY <1>1, ClockedCells
  <1>3. prev_data_bit' \in {0, 1}
    BY <1>1, LastBit DEF AppendMfm
  <1> QED BY <1>2, <1>3 DEF Call, HandlerWrites, AppendMfm

LEMMA BitsLengths ==
    ASSUME WordsAssumption, NEW bytes \in Words
    PROVE  LET n == Len(bytes)
           IN  /\ n \in Nat \ {0} /\ n * ByteBits \in Nat \ {0} /\ n * HalfBits \in Nat
               /\ n * ByteBits = n * HalfBits + n * HalfBits
               /\ AllBits(bytes) \in Seq({0, 1}) /\ Len(AllBits(bytes)) = n * ByteBits
               /\ EvenBits(bytes) \in Seq({0, 1}) /\ Len(EvenBits(bytes)) = n * HalfBits
               /\ OddBits(bytes) \in Seq({0, 1}) /\ Len(OddBits(bytes)) = n * HalfBits
  <1>1. /\ HalfBits \in Nat \ {0} /\ ByteBits = 2 * HalfBits /\ ByteBits \in Nat \ {0}
        /\ bytes \in Seq(Byte) /\ bytes # <<>>
    BY DEF WordsAssumption, ByteBits
  <1> DEFINE n == Len(bytes)
  <1>2. n \in Nat \ {0} /\ \A i \in 1..n : bytes[i] \in Byte
    BY <1>1, LenProperties, ElementOfSeq, EmptySeq
  <1> HIDE DEF n
  <1>3. ASSUME NEW L \in Nat \ {0}, NEW k \in 1..(n * L)
        PROVE  (k - 1) \div L + 1 \in 1..n /\ (k - 1) % L \in 0..(L - 1)
    <2> DEFINE q == (k - 1) \div L
               r == (k - 1) % L
    <2>1. k - 1 \in Nat /\ n * L \in Nat
      BY <1>2
    <2>2. q \in Nat /\ r \in 0..(L - 1) /\ k - 1 = L * q + r
      BY <2>1
    <2>3. q < n
      <3> SUFFICES ASSUME q >= n PROVE FALSE
        BY <1>2, <2>2
      <3> HIDE DEF q, r
      <3>1. L * q >= L * n
        BY <1>2, <2>2
      <3> QED BY <1>2, <2>1, <2>2, <3>1
    <2> QED BY <1>2, <2>2, <2>3
  <1>4. AllBits(bytes) \in [1..(n * ByteBits) -> {0, 1}]
    <2> SUFFICES ASSUME NEW k \in 1..(n * ByteBits)
                 PROVE  bytes[((k - 1) \div ByteBits) + 1][((k - 1) % ByteBits) + 1] \in {0, 1}
      BY DEF AllBits, n
    <2>1. (k - 1) \div ByteBits + 1 \in 1..n /\ (k - 1) % ByteBits \in 0..(ByteBits - 1)
      BY <1>1, <1>3
    <2>2. ((k - 1) % ByteBits) + 1 \in 1..ByteBits
      BY <1>1, <2>1
    <2> QED BY <1>2, <2>1, <2>2 DEF Byte
  <1>5. /\ EvenBits(bytes) \in [1..(n * HalfBits) -> {0, 1}]
        /\ OddBits(bytes) \in [1..(n * HalfBits) -> {0, 1}]
    <2> SUFFICES ASSUME NEW k \in 1..(n * HalfBits)
                 PROVE  /\ bytes[((k - 1) \div HalfBits) + 1][2 * ((k - 1) % HalfBits) + 1]
                              \in {0, 1}
                        /\ bytes[((k - 1) \div HalfBits) + 1][2 * ((k - 1) % HalfBits) + 2]
                              \in {0, 1}
      BY DEF EvenBits, OddBits, n
    <2>1. (k - 1) \div HalfBits + 1 \in 1..n /\ (k - 1) % HalfBits \in 0..(HalfBits - 1)
      BY <1>1, <1>3
    <2>2. /\ 2 * ((k - 1) % HalfBits) + 1 \in 1..ByteBits
          /\ 2 * ((k - 1) % HalfBits) + 2 \in 1..ByteBits
      BY <1>1, <2>1
    <2> QED BY <1>2, <2>1, <2>2 DEF Byte
  <1>6. n * ByteBits \in Nat \ {0} /\ n * HalfBits \in Nat
        /\ n * ByteBits = n * HalfBits + n * HalfBits
    BY <1>1, <1>2
  <1>7. AllBits(bytes) \in Seq({0, 1}) /\ Len(AllBits(bytes)) = n * ByteBits
    BY <1>4, <1>6, BitFunction
  <1>8. /\ EvenBits(bytes) \in Seq({0, 1}) /\ Len(EvenBits(bytes)) = n * HalfBits
        /\ OddBits(bytes) \in Seq({0, 1}) /\ Len(OddBits(bytes)) = n * HalfBits
    BY <1>5, <1>6, BitFunction
  <1> QED BY <1>2, <1>6, <1>7, <1>8 DEF n

LEMMA DataBitsAre ==
    ASSUME WordsAssumption, NEW enc \in Encodings, NEW bytes \in Words
    PROVE  /\ DataBits(enc, bytes) \in Seq({0, 1})
           /\ Len(DataBits(enc, bytes)) = Len(bytes) * ByteBits
           /\ Len(bytes) \in Nat \ {0} /\ Len(bytes) * ByteBits \in Nat \ {0}
  <1> DEFINE n == Len(bytes)
             a == EvenBits(bytes)
             b == OddBits(bytes)
  <1>1. /\ n \in Nat \ {0} /\ n * ByteBits \in Nat \ {0}
        /\ n * ByteBits = n * HalfBits + n * HalfBits
        /\ AllBits(bytes) \in Seq({0, 1}) /\ Len(AllBits(bytes)) = n * ByteBits
        /\ a \in Seq({0, 1}) /\ Len(a) = n * HalfBits
        /\ b \in Seq({0, 1}) /\ Len(b) = n * HalfBits
    BY BitsLengths
  <1>2. DataBits(enc, bytes) \in {AllBits(bytes), a \o b, b \o a}
    BY DEF DataBits, Encodings
  <1> HIDE DEF n, a, b
  <1>3. /\ a \o b \in Seq({0, 1}) /\ Len(a \o b) = Len(a) + Len(b)
        /\ b \o a \in Seq({0, 1}) /\ Len(b \o a) = Len(b) + Len(a)
    BY <1>1, ConcatProperties
  <1> QED BY <1>1, <1>2, <1>3 DEF n

LEMMA CallFills ==
    ASSUME FillInv, NEW s \in Seq({0, 1}), Call(s)
    PROVE  FillInv'
  <1>1. /\ Circle /\ written \in Nat /\ phase = "write" /\ phase' = "write"
        /\ bitlen' = bitlen /\ start' = start /\ AppendBits(s)
        /\ written < bitlen /\ written' = written + Len(s) /\ Len(s) \in Nat
    BY LenProperties DEF FillInv, Typed, Call
  <1>2. Circle'
    BY <1>1, AppendCircle
  <1>3. Typed'
    BY <1>1, <1>2 DEF Typed, Call
  <1>4. ASSUME written' <= bitlen'
        PROVE  Filled(written)'
    <2>1. bitlen \in Nat
      BY <1>1, CircleSizes
    <2>2. Filled(written) /\ written + Len(s) <= bitlen
      BY <1>1, <1>4, <2>1 DEF FillInv
    <2>3. /\ ~overwrote' /\ pos' = At(written + Len(s))
          /\ \A k \in 0..(bitlen - 1) : bits'[At(k)] # Unset <=> k < written + Len(s)
      BY <1>1, <2>2, FillsOn
    <2> QED BY <1>1, <2>3 DEF Filled, At, Unset
  <1> QED BY <1>1, <1>3, <1>4 DEF FillInv, GapFilled

LEMMA Zeros ==
    ASSUME NEW n \in Nat
    PROVE  [i \in 1..n |-> 0] \in Seq({0, 1}) /\ Len([i \in 1..n |-> 0]) = n
  <1>1. [i \in 1..n |-> 0] \in [1..n -> {0, 1}]
    OBVIOUS
  <1> QED BY <1>1, BitFunction

LEMMA GapFillBits ==
    ASSUME WordsAssumption, Circle, NEW bytes \in Words
    PROVE  LET n == Fix(start - pos) \div 2
               data == [i \in 1..n |-> Head(bytes)[((i - 1) % ByteBits) + 1]]
           IN  data \in Seq({0, 1}) /\ Len(data) = n
  <1> DEFINE n == Fix(start - pos) \div 2
             data == [i \in 1..n |-> Head(bytes)[((i - 1) % ByteBits) + 1]]
  <1>1. n \in Nat
    <2>1. Fix(start - pos) \in Nat
      BY CircleSizes DEF Fix
    <2> QED BY <2>1
  <1>2. ByteBits \in Nat \ {0} /\ Head(bytes) \in [1..ByteBits -> {0, 1}]
    <2>1. bytes \in Seq(Byte) /\ bytes # <<>> /\ HalfBits \in Nat \ {0}
      BY DEF WordsAssumption
    <2>2. Len(bytes) \in Nat \ {0} /\ \A i \in 1..Len(bytes) : bytes[i] \in Byte
      BY <2>1, LenProperties, ElementOfSeq, EmptySeq
    <2>3. 1 \in 1..Len(bytes) /\ Head(bytes) = bytes[1]
      BY <2>1, <2>2
    <2> QED BY <2>1, <2>2, <2>3 DEF Byte, ByteBits
  <1> HIDE DEF n
  <1>3. ASSUME NEW i \in 1..n
        PROVE  Head(bytes)[((i - 1) % ByteBits) + 1] \in {0, 1}
    <2>1. (i - 1) % ByteBits \in 0..(ByteBits - 1)
      BY <1>1, <1>2
    <2>2. ((i - 1) % ByteBits) + 1 \in 1..ByteBits
      BY <1>2, <2>1
    <2> QED BY <1>2, <2>2
  <1>4. data \in [1..n -> {0, 1}]
    BY <1>3
  <1>5. data \in Seq({0, 1}) /\ Len(data) = n
    BY <1>1, <1>4, BitFunction
  <1> QED BY <1>5 DEF n

\* Each call of the handler encodes data bits, or writes a word as it is.
LEMMA HandlerEncodes ==
    ASSUME WordsAssumption, Typed,
           \/ \E enc \in Encodings, bytes \in Words : Bytes(enc, bytes)
           \/ \E word \in RawWords : Raw(word)
           \/ \E n \in Gaps : \E data \in [1..n -> {0, 1}] : Filler(data)
           \/ \E bytes \in Words : GapFill(Head(bytes))
    PROVE  \/ \E data \in Seq({0, 1}) :
                 HandlerWrites(2 * Len(data)) /\ AppendMfm(data) /\ UNCHANGED plain
           \/ \E word \in Seq({0, 1}) : word # <<>> /\ Raw(word)
  <1>1. phase = "write" /\ Circle
    BY DEF Typed, Bytes, Raw, Filler, GapFill, HandlerWrites
  <1>2. ASSUME NEW enc \in Encodings, NEW bytes \in Words, Bytes(enc, bytes)
        PROVE  \E data \in Seq({0, 1}) :
                  HandlerWrites(2 * Len(data)) /\ AppendMfm(data) /\ UNCHANGED plain
    <2> DEFINE data == DataBits(enc, bytes)
    <2>1. data \in Seq({0, 1}) /\ Len(data) = Len(bytes) * ByteBits /\ Len(bytes) \in Nat
      BY DataBitsAre
    <2>2. 2 * Len(bytes) * ByteBits = 2 * Len(data)
      <3>1. ByteBits \in Nat
        BY DEF WordsAssumption, ByteBits
      <3> QED BY <2>1, <3>1
    <2>3. HandlerWrites(2 * Len(bytes) * ByteBits) /\ AppendMfm(data) /\ UNCHANGED plain
      BY <1>2 DEF Bytes
    <2> HIDE DEF data
    <2> QED BY <2>1, <2>2, <2>3
  <1>3. ASSUME NEW word \in RawWords, Raw(word)
        PROVE  \E w \in Seq({0, 1}) : w # <<>> /\ Raw(w)
    BY <1>3 DEF WordsAssumption
  <1>4. ASSUME NEW n \in Gaps, NEW data \in [1..n -> {0, 1}], Filler(data)
        PROVE  /\ data \in Seq({0, 1})
               /\ HandlerWrites(2 * Len(data)) /\ AppendMfm(data) /\ UNCHANGED plain
    <2>1. n \in Nat
      BY DEF WordsAssumption
    <2>2. data \in Seq({0, 1})
      BY <2>1, BitFunction
    <2> QED BY <1>4, <2>2 DEF Filler
  <1>5. ASSUME NEW bytes \in Words, GapFill(Head(bytes))
        PROVE  \E data \in Seq({0, 1}) :
                  HandlerWrites(2 * Len(data)) /\ AppendMfm(data) /\ UNCHANGED plain
    <2> DEFINE n == Fix(start - pos) \div 2
               data == [i \in 1..n |-> Head(bytes)[((i - 1) % ByteBits) + 1]]
    <2>1. data \in Seq({0, 1}) /\ Len(data) = n
      BY <1>1, GapFillBits
    <2>2. HandlerWrites(2 * n) /\ AppendMfm(data) /\ UNCHANGED plain
      BY <1>5 DEF GapFill
    <2> HIDE DEF data
    <2>3. HandlerWrites(2 * Len(data))
      BY <2>1, <2>2
    <2> QED BY <2>1, <2>2, <2>3
  <1> QED BY <1>2, <1>3, <1>4, <1>5

\* In either case, a sequence of cells goes behind the last.
LEMMA HandlerCalls ==
    ASSUME Typed,
           \/ \E data \in Seq({0, 1}) :
                 HandlerWrites(2 * Len(data)) /\ AppendMfm(data) /\ UNCHANGED plain
           \/ \E word \in Seq({0, 1}) : word # <<>> /\ Raw(word)
    PROVE  \E s \in Seq({0, 1}) : Call(s)
  <1>1. ASSUME NEW data \in Seq({0, 1}), HandlerWrites(2 * Len(data)), AppendMfm(data)
        PROVE  \E s \in Seq({0, 1}) : Call(s)
    BY <1>1, MfmCall
  <1>2. ASSUME NEW word \in Seq({0, 1}), word # <<>>, Raw(word)
        PROVE  Call(word)
    <2>1. Last(word) \in {0, 1}
      BY <1>2, LastBit
    <2> QED BY <1>2, <2>1 DEF Raw, HandlerWrites, Call
  <1> QED BY <1>1, <1>2

-----------------------------------------------------------------------------
(* The steps of tbuf_finalise. *)

LEMMA FullFills ==
    ASSUME FillInv, FinaliseFull
    PROVE  FillInv'
  <1>1. /\ Circle /\ written \in Nat /\ phase' = "done" /\ start = pos
        /\ bitlen' = bitlen /\ start' = start /\ pos' = pos /\ bits' = bits
        /\ prev_data_bit' = prev_data_bit /\ overwrote' = overwrote /\ written' = written
        /\ data_end' = Fix(pos - 1) /\ splice' = data_end' /\ phase = "write"
        /\ prev_data_bit \in {0, 1}
    BY DEF FillInv, Typed, FinaliseFull, Finalising
  <1>2. Typed'
    BY <1>1 DEF Typed, Circle, Unset
  <1>3. ASSUME Sane
        PROVE  /\ ~overwrote' /\ \A p \in DOMAIN bits' : bits'[p] # Unset
               /\ data_end' = (start' + written' - 1) % bitlen'
               /\ IF written' = bitlen' THEN splice' = data_end' ELSE ~InData(splice)'
    <2>1. /\ bitlen \in Nat \ {0} /\ start \in 0..(bitlen - 1) /\ written \in 1..bitlen
      BY <1>1, <1>3, CircleSizes DEF Sane
    <2>2. Filled(written)
      BY <1>1, <2>1 DEF FillInv
    <2>3. written \in 0..bitlen /\ pos = At(written)
      BY <2>1, <2>2 DEF Filled
    <2>4. written = bitlen
      <3>1. At(written) = IF start + written < bitlen THEN start + written
                          ELSE start + written - bitlen
        BY <1>1, <2>3, AtPlace
      <3> QED BY <1>1, <2>1, <2>3, <3>1
    <2>5. Fix(pos - 1) = (start + written - 1) % bitlen
      BY <1>1, <2>1, <2>3, DataEnd
    <2>6. \A p \in 0..(bitlen - 1) : bits[p] # Unset
      <3> SUFFICES ASSUME NEW p \in 0..(bitlen - 1)
                   PROVE  bits[p] # Unset
        OBVIOUS
      <3>1. Turn(p) \in 0..(bitlen - 1) /\ At(Turn(p)) = p
        BY <1>1, TurnPlace
      <3>2. Turn(p) < written
        BY <2>1, <2>4, <3>1
      <3> QED BY <2>2, <3>1, <3>2 DEF Filled
    <2>7. DOMAIN bits = 0..(bitlen - 1) /\ ~overwrote
      BY <1>1, <2>2 DEF Circle, Filled
    <2> QED BY <1>1, <2>4, <2>5, <2>6, <2>7 DEF Unset
  <1>4. Sane' <=> Sane
    BY <1>1 DEF Sane
  <1>5. GapFilled'
    BY <1>3, <1>4 DEF GapFilled, Unset
  <1> QED BY <1>1, <1>2, <1>5 DEF FillInv

LEMMA GapLeft ==
    ASSUME Circle, NEW n \in 1..bitlen, pos = At(n)
    PROVE  Fix(start - pos) = bitlen - n
  <1>1. bitlen \in Nat \ {0} /\ n \in 0..bitlen
    BY CircleSizes
  <1> QED BY <1>1, RoomLeft

LEMMA ForwardStep ==
    ASSUME FillInv, FillForward
    PROVE  LET n == Fix(start - pos) \div 4
               s == Clocked([i \in 1..n |-> 0], prev_data_bit)
           IN  /\ Circle /\ written \in Nat /\ prev_data_bit \in {0, 1}
               /\ n \in Nat /\ s \in Seq({0, 1}) /\ Len(s) = 2 * n /\ AppendBits(s)
               /\ prev_data_bit' \in {0, 1}
               /\ phase = "write" /\ phase' = "splice"
               /\ bitlen' = bitlen /\ start' = start /\ written' = written
               /\ plain' = plain /\ last' = last /\ data_end' = Fix(pos - 1)
               /\ Sane => /\ written < bitlen /\ Filled(written)
                          /\ n = (bitlen - written) \div 4
  <1> DEFINE n == Fix(start - pos) \div 4
             data == [i \in 1..n |-> 0]
             s == Clocked(data, prev_data_bit)
  <1>1. /\ Circle /\ written \in Nat /\ prev_data_bit \in {0, 1}
        /\ phase = "write" /\ phase' = "splice" /\ start # pos
        /\ bitlen' = bitlen /\ start' = start /\ written' = written
        /\ plain' = plain /\ last' = last
        /\ data_end' = Fix(pos - 1) /\ AppendMfm(data)
    BY DEF FillInv, Typed, FillForward, Finalising
  <1>2. n \in Nat
    <2>1. Fix(start - pos) \in Nat
      BY <1>1, CircleSizes DEF Fix
    <2> QED BY <2>1
  <1>3. data \in Seq({0, 1}) /\ Len(data) = n
    BY <1>2, Zeros
  <1>4. ASSUME Sane
        PROVE  written < bitlen /\ Filled(written) /\ n = (bitlen - written) \div 4
    <2>1. bitlen \in Nat \ {0} /\ start \in 0..(bitlen - 1) /\ written \in 1..bitlen
      BY <1>1, <1>4, CircleSizes DEF Sane
    <2>2. Filled(written)
      BY <1>1, <2>1 DEF FillInv
    <2>3. written \in 0..bitlen /\ pos = At(written)
      BY <2>1, <2>2 DEF Filled
    <2>4. written # bitlen
      <3>1. At(written) = IF start + written < bitlen THEN start + written
                          ELSE start + written - bitlen
        BY <1>1, <2>3, AtPlace
      <3> QED BY <1>1, <2>1, <2>3, <3>1
    <2>5. Fix(start - pos) = bitlen - written
      BY <1>1, <2>1, <2>3, GapLeft
    <2> QED BY <2>1, <2>2, <2>4, <2>5
  <1> HIDE DEF n, data
  <1>5. s \in Seq({0, 1}) /\ Len(s) = 2 * n
    BY <1>1, <1>3, ClockedCells
  <1>6. AppendBits(s) /\ prev_data_bit' \in {0, 1}
    BY <1>1, <1>3, LastBit DEF AppendMfm
  <1> QED BY <1>1, <1>2, <1>4, <1>5, <1>6 DEF n, data

LEMMA ForwardFills ==
    ASSUME FillInv, FillForward
    PROVE  FillInv'
  <1> DEFINE n == Fix(start - pos) \div 4
             s == Clocked([i \in 1..n |-> 0], prev_data_bit)
  <1>1. /\ Circle /\ written \in Nat
        /\ n \in Nat /\ s \in Seq({0, 1}) /\ Len(s) = 2 * n /\ AppendBits(s)
        /\ prev_data_bit' \in {0, 1} /\ phase' = "splice"
        /\ bitlen' = bitlen /\ start' = start /\ written' = written
        /\ data_end' = Fix(pos - 1)
        /\ Sane => /\ written < bitlen /\ Filled(written)
                   /\ n = (bitlen - written) \div 4
    BY ForwardStep
  <1> HIDE DEF n, s
  <1>2. Circle'
    BY <1>1, AppendCircle
  <1>3. ASSUME Sane
        PROVE  written' < bitlen' /\ Filled(Forward)' /\ DataEnds'
    <2>1. bitlen \in Nat \ {0} /\ written \in 1..bitlen /\ written \in 0..bitlen
      BY <1>1, <1>3, CircleSizes DEF Sane
    <2>2. written < bitlen /\ Filled(written) /\ pos = At(written)
      BY <1>1, <1>3 DEF Filled
    <2>3. written + Len(s) = Forward /\ Forward' = Forward /\ Forward < bitlen
          /\ Forward \in Nat
      <3>1. Forward = written + 2 * n /\ Forward' = Forward
        BY <1>1, <1>3 DEF Forward
      <3>2. Forward \in written..(bitlen - 1)
        BY <1>1, <2>1, <2>2, ForwardFits
      <3> QED BY <1>1, <2>1, <3>1, <3>2
    <2>4. /\ ~overwrote' /\ pos' = At(Forward)
          /\ \A k \in 0..(bitlen - 1) : bits'[At(k)] # Unset <=> k < Forward
      <3>1. written + Len(s) <= bitlen
        BY <2>1, <2>3
      <3>2. /\ ~overwrote' /\ pos' = At(written + Len(s))
            /\ \A k \in 0..(bitlen - 1) : bits'[At(k)] # Unset <=> k < written + Len(s)
        BY <1>1, <2>2, <3>1, FillsOn
      <3> QED BY <2>3, <3>2
    <2>5. Filled(Forward)'
      BY <1>1, <2>3, <2>4 DEF Filled, At, Unset
    <2>6. Fix(pos - 1) = (start + written - 1) % bitlen
      BY <1>1, <2>1, <2>2, DataEnd
    <2> QED BY <1>1, <2>2, <2>5, <2>6 DEF DataEnds
  <1>4. Sane' <=> Sane
    BY <1>1 DEF Sane
  <1>5. Typed'
    BY <1>1, <1>2 DEF Typed
  <1> QED BY <1>1, <1>3, <1>4, <1>5 DEF FillInv, GapFilled

LEMMA SpliceStep ==
    ASSUME FillInv, WriteSplice
    PROVE  LET gap == Fix(start - pos)
               n   == IF gap < 5 THEN gap ELSE 5
               s   == [i \in 1..n |-> 0]
           IN  /\ Circle /\ written \in Nat /\ prev_data_bit' = 0
               /\ n \in Nat /\ s \in Seq({0, 1}) /\ Len(s) = n /\ AppendBits(s)
               /\ phase = "splice" /\ phase' = "back"
               /\ bitlen' = bitlen /\ start' = start /\ written' = written
               /\ plain' = plain /\ last' = last /\ data_end' = data_end
               /\ splice' = Fix(pos' - 1 - n \div 2)
               /\ Sane => /\ written < bitlen /\ Filled(Forward) /\ DataEnds
                          /\ n = Spliced - Forward
  <1> DEFINE gap == Fix(start - pos)
             n   == IF gap < 5 THEN gap ELSE 5
             s   == [i \in 1..n |-> 0]
  <1>1. /\ Circle /\ written \in Nat /\ prev_data_bit' = 0 /\ AppendBits(s)
        /\ phase = "splice" /\ phase' = "back"
        /\ bitlen' = bitlen /\ start' = start /\ written' = written
        /\ plain' = plain /\ last' = last /\ data_end' = data_end
        /\ splice' = Fix(pos' - 1 - n \div 2)
    BY DEF FillInv, Typed, WriteSplice, Finalising
  <1>2. gap \in Nat
    BY <1>1, CircleSizes DEF Fix
  <1>3. n \in Nat
    BY <1>2
  <1>4. ASSUME Sane
        PROVE  /\ written < bitlen /\ Filled(Forward) /\ DataEnds
               /\ n = Spliced - Forward
    <2>1. bitlen \in Nat \ {0} /\ written \in 1..bitlen
      BY <1>1, <1>4, CircleSizes DEF Sane
    <2>2. written < bitlen /\ Filled(Forward) /\ DataEnds
      BY <1>1, <1>4 DEF FillInv
    <2>3. /\ Forward \in 1..bitlen
          /\ Spliced - Forward = IF bitlen - Forward < 5 THEN bitlen - Forward ELSE 5
      <3>1. /\ Forward \in written..(bitlen - 1)
            /\ Spliced - Forward = IF bitlen - Forward < 5 THEN bitlen - Forward ELSE 5
        BY <1>1, <2>1, <2>2, ForwardFits
      <3> QED BY <2>1, <3>1
    <2>4. gap = bitlen - Forward
      BY <1>1, <2>2, <2>3, GapLeft DEF Filled
    <2> QED BY <2>2, <2>3, <2>4
  <1> HIDE DEF n
  <1>5. s \in Seq({0, 1}) /\ Len(s) = n
    BY <1>3, Zeros
  <1> QED BY <1>1, <1>3, <1>4, <1>5 DEF n

LEMMA SpliceFills ==
    ASSUME FillInv, WriteSplice
    PROVE  FillInv'
  <1> DEFINE gap == Fix(start - pos)
             n   == IF gap < 5 THEN gap ELSE 5
             s   == [i \in 1..n |-> 0]
  <1>1. /\ Circle /\ written \in Nat /\ prev_data_bit' = 0
        /\ n \in Nat /\ s \in Seq({0, 1}) /\ Len(s) = n /\ AppendBits(s)
        /\ phase' = "back"
        /\ bitlen' = bitlen /\ start' = start /\ written' = written
        /\ data_end' = data_end /\ splice' = Fix(pos' - 1 - n \div 2)
        /\ Sane => /\ written < bitlen /\ Filled(Forward) /\ DataEnds
                   /\ n = Spliced - Forward
    BY SpliceStep
  <1> HIDE DEF n, s
  <1>2. Circle'
    BY <1>1, AppendCircle
  <1>3. ASSUME Sane
        PROVE  /\ written' < bitlen' /\ Filled(Spliced)' /\ DataEnds'
               /\ ~InData(splice)'
    <2>1. bitlen \in Nat \ {0} /\ written \in 1..bitlen
      BY <1>1, <1>3, CircleSizes DEF Sane
    <2>2. written < bitlen /\ Filled(Forward) /\ DataEnds
      BY <1>1, <1>3
    <2>3. /\ Forward \in written..(bitlen - 1) /\ Spliced \in (Forward + 1)..bitlen
          /\ n = Spliced - Forward
      BY <1>1, <1>3, <2>1, <2>2, ForwardFits
    <2>4. Spliced' = Spliced
      BY <1>1 DEF Spliced, Forward
    <2>5. Forward + Len(s) = Spliced /\ Forward \in Nat
      BY <1>1, <2>1, <2>3
    <2>6. /\ ~overwrote' /\ pos' = At(Spliced)
          /\ \A k \in 0..(bitlen - 1) : bits'[At(k)] # Unset <=> k < Spliced
      <3>1. Forward + Len(s) <= bitlen
        BY <2>1, <2>3, <2>5
      <3>2. /\ ~overwrote' /\ pos' = At(Forward + Len(s))
            /\ \A k \in 0..(bitlen - 1) : bits'[At(k)] # Unset <=> k < Forward + Len(s)
        BY <1>1, <2>2, <2>5, <3>1, FillsOn
      <3> QED BY <2>5, <3>2
    <2>7. Filled(Spliced)'
      BY <1>1, <2>4, <2>6 DEF Filled, At, Unset
    <2>8. ~InData(splice)'
      <3> DEFINE d == 1 + n \div 2
                 k == Spliced - d
      <3>1. d \in 0..Spliced /\ k \in 0..(bitlen - 1) /\ k >= written /\ d \in Int
        BY <1>1, <2>1, <2>3
      <3> HIDE DEF d
      <3>2. Spliced \in 0..bitlen
        BY <2>1, <2>3
      <3>3. Fix(At(Spliced) - d) = At(k)
        BY <1>1, <3>1, <3>2, AtBack
      <3>4. At(Spliced) \in Int
        BY <1>1, <3>2, AtPlace
      <3>5. pos' - 1 - n \div 2 = At(Spliced) - d
        BY <1>1, <2>6, <3>4 DEF d
      <3>6. Fix(pos' - 1 - n \div 2) = At(k)
        BY <3>3, <3>5
      <3>7. splice' = At(k)
        BY <1>1, <3>6
      <3> HIDE DEF k
      <3>8. Fix(splice' - start) = k
        BY <1>1, <3>1, <3>7, TurnAt DEF Turn
      <3> QED BY <1>1, <2>1, <3>1, <3>8 DEF InData, Fix
    <2> QED BY <1>1, <2>2, <2>7, <2>8 DEF DataEnds
  <1>4. Sane' <=> Sane
    BY <1>1 DEF Sane
  <1>5. Typed'
    BY <1>1, <1>2 DEF Typed
  <1> QED BY <1>1, <1>3, <1>4, <1>5 DEF FillInv, GapFilled

LEMMA BackCircle ==
    ASSUME FillInv, FillBack
    PROVE  Typed' /\ bits' \in [0..(bitlen - 1) -> {0, 1, Unset}]
  <1> DEFINE rest == {p \in 0..(bitlen - 1) : Fix(p - pos) < Fix(start - pos)}
             new(p) == IF p \in rest THEN (Fix(start - p) + 1) % 2 ELSE bits[p]
  <1>1. /\ Circle /\ written \in Nat /\ prev_data_bit \in {0, 1} /\ phase' = "done"
        /\ bitlen' = bitlen /\ start' = start /\ pos' = pos
        /\ prev_data_bit' = prev_data_bit /\ written' = written
        /\ bits' = [p \in 0..(bitlen - 1) |-> new(p)]
    BY DEF FillInv, Typed, FillBack, Finalising
  <1>2. ASSUME NEW p \in 0..(bitlen - 1)
        PROVE  new(p) \in {0, 1, Unset}
    <2>1. Fix(start - p) \in Int /\ bits[p] \in {0, 1, Unset}
      BY <1>1 DEF Circle, Fix
    <2>2. (Fix(start - p) + 1) % 2 \in {0, 1}
      BY <2>1
    <2> HIDE DEF rest
    <2> QED BY <2>1, <2>2
  <1> HIDE DEF new
  <1>3. bits' \in [0..(bitlen - 1) -> {0, 1, Unset}]
    BY <1>1, <1>2
  <1>4. Circle'
    BY <1>1, <1>3 DEF Circle, Unset
  <1> QED BY <1>1, <1>3, <1>4 DEF Typed

LEMMA BackPlaces ==
    ASSUME Circle, FillBack, NEW n \in 1..bitlen, pos = At(n)
    PROVE  /\ \A k \in 0..(bitlen - 1) :
                 bits'[At(k)] = IF k >= n THEN (bitlen - k + 1) % 2 ELSE bits[At(k)]
           /\ (~overwrote /\ \A k \in n..(bitlen - 1) : bits[At(k)] = Unset) => ~overwrote'
  <1> DEFINE rest == {p \in 0..(bitlen - 1) : Fix(p - pos) < Fix(start - pos)}
             new(p) == IF p \in rest THEN (Fix(start - p) + 1) % 2 ELSE bits[p]
  <1>1. /\ bitlen \in Nat \ {0} /\ start \in 0..(bitlen - 1) /\ n \in 0..bitlen
        /\ bits' = [p \in 0..(bitlen - 1) |-> new(p)]
        /\ overwrote' = (overwrote \/ \E p \in rest : bits[p] # Unset)
    BY CircleSizes DEF FillBack
  <1>2. Fix(start - pos) = bitlen - n
    BY GapLeft
  <1>3. ASSUME NEW k \in 0..(bitlen - 1)
        PROVE  At(k) \in 0..(bitlen - 1) /\ (At(k) \in rest <=> k >= n)
    <2>1. At(k) \in 0..(bitlen - 1)
      <3>1. k \in 0..bitlen
        BY <1>1
      <3> QED BY <3>1, AtPlace
    <2>2. Fix(At(k) - pos) = IF n = bitlen THEN k
                             ELSE IF k >= n THEN k - n ELSE k - n + bitlen
      BY <1>1, TurnFrom
    <2>3. Fix(At(k) - pos) < Fix(start - pos) <=> k >= n
      BY <1>1, <1>2, <2>2
    <2> QED BY <2>1, <2>3
  <1>4. ASSUME NEW k \in 0..(bitlen - 1)
        PROVE  bits'[At(k)] = IF k >= n THEN (bitlen - k + 1) % 2 ELSE bits[At(k)]
    <2>1. At(k) \in 0..(bitlen - 1) /\ (At(k) \in rest <=> k >= n)
      BY <1>3
    <2>2. bits'[At(k)] = new(At(k))
      <3> HIDE DEF new
      <3> QED BY <1>1, <2>1
    <2>3. CASE k >= n
      <3>1. k \in 1..bitlen /\ k \in 0..bitlen /\ k \notin {0, bitlen}
        BY <1>1, <2>3
      <3>2. Fix(start - At(k)) = bitlen - k
        BY <3>1, RoomLeft
      <3>3. bits'[At(k)] = (Fix(start - At(k)) + 1) % 2
        BY <2>1, <2>2, <2>3
      <3> QED BY <2>3, <3>2, <3>3
    <2>4. CASE ~(k >= n)
      <3>1. At(k) \notin rest
        BY <2>1, <2>4
      <3> HIDE DEF rest
      <3> QED BY <2>2, <2>4, <3>1
    <2> QED BY <2>3, <2>4
  <1>5. ASSUME ~overwrote, \A k \in n..(bitlen - 1) : bits[At(k)] = Unset
        PROVE  ~overwrote'
    <2> SUFFICES ASSUME NEW p \in rest
                 PROVE  bits[p] = Unset
      BY <1>1, <1>5
    <2>1. p \in 0..(bitlen - 1)
      OBVIOUS
    <2>2. Turn(p) \in 0..(bitlen - 1) /\ At(Turn(p)) = p
      BY <2>1, TurnPlace
    <2> DEFINE k == Turn(p)
    <2> HIDE DEF k, rest
    <2>3. k \in 0..(bitlen - 1) /\ At(k) = p
      BY <2>2 DEF k
    <2>4. k >= n
      BY <1>3, <2>3
    <2>5. k \in n..(bitlen - 1)
      BY <1>1, <2>3, <2>4
    <2> QED BY <1>5, <2>3, <2>5
  <1> QED BY <1>4, <1>5

LEMMA BackFills ==
    ASSUME FillInv, FillBack
    PROVE  FillInv'
  <1>1. /\ Circle /\ written \in Nat /\ phase = "back" /\ phase' = "done"
        /\ bitlen' = bitlen /\ start' = start /\ written' = written
        /\ data_end' = data_end /\ splice' = splice
    BY DEF FillInv, Typed, FillBack, Finalising
  <1>2. Typed' /\ bits' \in [0..(bitlen - 1) -> {0, 1, Unset}]
    BY BackCircle
  <1>3. ASSUME Sane
        PROVE  /\ ~overwrote' /\ \A p \in DOMAIN bits' : bits'[p] # Unset
               /\ data_end' = (start' + written' - 1) % bitlen'
               /\ IF written' = bitlen' THEN splice' = data_end' ELSE ~InData(splice)'
    <2>1. bitlen \in Nat \ {0} /\ written \in 1..bitlen
      BY <1>1, <1>3, CircleSizes DEF Sane
    <2>2. written < bitlen /\ Filled(Spliced) /\ DataEnds /\ ~InData(splice)
      BY <1>1, <1>3 DEF FillInv
    <2> DEFINE n == Spliced
    <2>3. n \in 1..bitlen
      <3>1. /\ Forward \in written..(bitlen - 1) /\ Spliced \in (Forward + 1)..bitlen
        BY <1>1, <2>1, <2>2, ForwardFits
      <3> QED BY <2>1, <3>1
    <2> HIDE DEF n
    <2>4. /\ ~overwrote /\ pos = At(n)
          /\ \A k \in 0..(bitlen - 1) : bits[At(k)] # Unset <=> k < n
      BY <2>2 DEF Filled, n
    <2>5. \A k \in n..(bitlen - 1) : bits[At(k)] = Unset
      BY <2>1, <2>3, <2>4
    <2>6. /\ \A k \in 0..(bitlen - 1) :
                bits'[At(k)] = IF k >= n THEN (bitlen - k + 1) % 2 ELSE bits[At(k)]
          /\ ~overwrote'
      BY <1>1, <2>3, <2>4, <2>5, BackPlaces
    <2>7. \A p \in 0..(bitlen - 1) : bits'[p] # Unset
      <3> SUFFICES ASSUME NEW p \in 0..(bitlen - 1)
                   PROVE  bits'[p] # Unset
        OBVIOUS
      <3>1. Turn(p) \in 0..(bitlen - 1) /\ At(Turn(p)) = p
        BY <1>1, TurnPlace
      <3> DEFINE k == Turn(p)
      <3> HIDE DEF k
      <3>2. k \in 0..(bitlen - 1) /\ At(k) = p
        BY <3>1 DEF k
      <3>3. CASE k >= n
        <4>1. (bitlen - k + 1) % 2 \in {0, 1}
          BY <2>1, <3>2
        <4> QED BY <2>6, <3>2, <3>3, <4>1 DEF Unset
      <3>4. CASE ~(k >= n)
        BY <2>3, <2>4, <2>6, <3>2, <3>4
      <3> QED BY <3>3, <3>4
    <2>8. DOMAIN bits' = 0..(bitlen - 1)
      BY <1>2
    <2>9. ~InData(splice)'
      BY <1>1, <2>2 DEF InData, Fix
    <2> QED BY <1>1, <2>2, <2>6, <2>7, <2>8, <2>9 DEF DataEnds, Unset
  <1>4. Sane' <=> Sane
    BY <1>1 DEF Sane
  <1>5. GapFilled'
    BY <1>3, <1>4 DEF GapFilled, Unset
  <1> QED BY <1>1, <1>2, <1>5 DEF FillInv

-----------------------------------------------------------------------------
LEMMA InitFills == ASSUME Init PROVE FillInv
  BY DEF Init, FillInv, Typed, GapFilled

LEMMA ReadFills ==
    ASSUME TracksAssumption, FillInv, NEW t \in Tracks, TrackReadRaw(t)
    PROVE  FillInv'
  <1>1. /\ t.bitlen \in Nat \ {0} /\ t.start \in 0..(t.bitlen - 1)
    BY DEF TracksAssumption
  <1>2. /\ bitlen' = t.bitlen /\ start' = t.start /\ pos' = t.start
        /\ prev_data_bit' = 0 /\ bits' = [p \in 0..(t.bitlen - 1) |-> Unset]
        /\ phase' = "write" /\ written' = 0 /\ overwrote' = FALSE
    BY DEF TrackReadRaw
  <1>3. Circle'
    BY <1>1, <1>2 DEF Circle, Unset
  <1>4. Filled(0)'
    <2>1. \A k \in 0..bitlen' : At(k)' \in 0..(bitlen' - 1)
      <3> SUFFICES ASSUME NEW k \in 0..t.bitlen
                   PROVE  (t.start + k) % t.bitlen \in 0..(t.bitlen - 1)
        BY <1>2 DEF At
      <3>1. t.start + k \in Int
        BY <1>1
      <3> QED BY <1>1, <3>1
    <2>2. At(0)' = t.start
      <3>1. (t.start + 0) % t.bitlen = t.start
        BY <1>1, NoTurn
      <3> QED BY <1>2, <3>1 DEF At
    <2>3. \A k \in 0..(bitlen' - 1) : bits'[At(k)'] = Unset
      BY <1>1, <1>2, <2>1
    <2>4. \A k \in 0..(bitlen' - 1) : ~(k < 0)
      BY <1>1, <1>2
    <2> QED BY <1>2, <2>2, <2>3, <2>4 DEF Filled, Unset
  <1> QED BY <1>2, <1>3, <1>4 DEF FillInv, Typed, GapFilled

LEMMA StutterFills == ASSUME FillInv, UNCHANGED vars PROVE FillInv'
  BY DEF FillInv, Typed, Circle, Sane, Filled, At, Forward, Spliced, DataEnds, InData,
         Fix, GapFilled, Unset, vars

LEMMA NextFills ==
    ASSUME TracksAssumption, WordsAssumption, FillInv, [Next]_vars
    PROVE  FillInv'
  <1>1. ASSUME NEW t \in Tracks, TrackReadRaw(t)
        PROVE  FillInv'
    BY <1>1, ReadFills
  <1>2. CASE \/ \E enc \in Encodings, bytes \in Words : Bytes(enc, bytes)
             \/ \E word \in RawWords : Raw(word)
             \/ \E n \in Gaps : \E data \in [1..n -> {0, 1}] : Filler(data)
             \/ \E bytes \in Words : GapFill(Head(bytes))
    <2>1. Typed
      BY DEF FillInv
    <2>2. PICK s \in Seq({0, 1}) : Call(s)
      BY <1>2, <2>1, HandlerEncodes, HandlerCalls
    <2> QED BY <2>2, CallFills
  <1>3. CASE FinaliseFull
    BY <1>3, FullFills
  <1>4. CASE FillForward
    BY <1>4, ForwardFills
  <1>5. CASE WriteSplice
    BY <1>5, SpliceFills
  <1>6. CASE FillBack
    BY <1>6, BackFills
  <1>7. CASE UNCHANGED vars
    BY <1>7, StutterFills
  <1> QED BY <1>1, <1>2, <1>3, <1>4, <1>5, <1>6, <1>7 DEF Next

THEOREM FillsAlways == Spec => []FillInv
  <1>1. Init => FillInv
    BY InitFills
  <1>2. FillInv /\ [Next]_vars => FillInv'
    BY TracksAssumption, WordsAssumption, NextFills
  <1> QED BY <1>1, <1>2, PTL DEF Spec

\* Once tbuf_finalise is done with a track, whose handler has written something and
\* no more than fits, every cell is written, none twice, and the write splice is in
\* the gap, wherever the data begins and the index falls.
THEOREM GapIsFilled == Spec => []GapFilled
  <1>1. FillInv => GapFilled
    BY DEF FillInv
  <1> QED BY <1>1, FillsAlways, PTL

-----------------------------------------------------------------------------
(* The track is MFM all round. *)

\* The first h data bits lie behind the clock bits that go with them.
Coded(h) ==
    \A i \in 0..(h - 1) :
       bits[At(2 * i)] = 1 <=> (i = 0 \/ bits[At(2 * i - 1)] = 0) /\ bits[At(2 * i + 1)] = 0

LastData(h) == prev_data_bit = IF h = 0 THEN 0 ELSE bits[At(2 * h - 1)]

SpliceBlank == \A k \in Forward..(Spliced - 1) : bits[At(k)] = 0

MfmInv ==
    /\ phase = "write" /\ plain /\ written <= bitlen =>
          \E h \in Nat : written = 2 * h /\ Coded(h) /\ LastData(h)
    /\ phase = "splice" /\ plain /\ Sane => \E h \in Nat : Forward = 2 * h /\ Coded(h)
    /\ phase = "back" /\ plain /\ Sane =>
          SpliceBlank /\ \E h \in Nat : Forward = 2 * h /\ Coded(h)
    /\ MfmLegal

LEMMA ClockedAt ==
    ASSUME NEW data \in Seq({0, 1}), NEW prev \in {0, 1}, NEW j \in 1..Len(data)
    PROVE  /\ Clocked(data, prev)[2 * j] = data[j]
           /\ Clocked(data, prev)[2 * j - 1] =
                 IF (IF j = 1 THEN prev ELSE data[j - 1]) = 0 /\ data[j] = 0 THEN 1 ELSE 0
  <1> DEFINE n == Len(data)
             before(i) == IF i = 1 THEN prev ELSE data[i \div 2]
             cell(i) == IF i % 2 = 0 THEN data[i \div 2]
                        ELSE IF before(i) = 0 /\ data[(i + 1) \div 2] = 0 THEN 1 ELSE 0
  <1>1. n \in Nat /\ 2 * j \in 1..(2 * n) /\ 2 * j - 1 \in 1..(2 * n)
    BY LenProperties
  <1>2. Clocked(data, prev) = [i \in 1..(2 * n) |-> cell(i)]
    BY DEF Clocked
  <1>3. (2 * j) % 2 = 0 /\ (2 * j) \div 2 = j /\ (2 * j - 1) % 2 = 1
        /\ (2 * j - 1 + 1) \div 2 = j /\ (2 * j - 1) \div 2 = j - 1
        /\ (2 * j - 1 = 1 <=> j = 1)
    BY <1>1
  <1> HIDE DEF n
  <1>4. cell(2 * j) = data[j]
    BY <1>3
  <1>5. cell(2 * j - 1) = IF (IF j = 1 THEN prev ELSE data[j - 1]) = 0 /\ data[j] = 0
                          THEN 1 ELSE 0
    BY <1>3
  <1> HIDE DEF cell
  <1> QED BY <1>1, <1>2, <1>4, <1>5

LEMMA CodesOn ==
    ASSUME Circle, prev_data_bit \in {0, 1}, NEW data \in Seq({0, 1}), NEW h \in Nat,
           2 * h + 2 * Len(data) <= bitlen,
           Filled(2 * h), Coded(h), LastData(h),
           AppendBits(Clocked(data, prev_data_bit))
    PROVE  /\ \A i \in 0..(h + Len(data) - 1) :
                 bits'[At(2 * i)] = 1 <=>
                    (i = 0 \/ bits'[At(2 * i - 1)] = 0) /\ bits'[At(2 * i + 1)] = 0
           /\ data # <<>> => bits'[At(2 * (h + Len(data)) - 1)] = Last(data)
           /\ data = <<>> /\ h # 0 => bits'[At(2 * h - 1)] = bits[At(2 * h - 1)]
  <1> DEFINE s == Clocked(data, prev_data_bit)
             m == Len(data)
  <1>1. /\ bitlen \in Nat \ {0} /\ m \in Nat /\ \A j \in 1..m : data[j] \in {0, 1}
    BY CircleSizes, LenProperties, ElementOfSeq
  <1>2. s \in Seq({0, 1}) /\ Len(s) = 2 * m
    BY ClockedCells
  <1>3. \A j \in 1..m :
           /\ s[2 * j] = data[j]
           /\ s[2 * j - 1] = IF (IF j = 1 THEN prev_data_bit ELSE data[j - 1]) = 0
                                /\ data[j] = 0 THEN 1 ELSE 0
    BY ClockedAt
  <1>4. AppendBits(s) /\ 2 * h + 2 * m <= bitlen /\ pos = At(2 * h) /\ 2 * h \in Nat
    BY DEF Filled
  <1> HIDE DEF s
  <1>5. \A k \in 0..(bitlen - 1) :
           bits'[At(k)] = IF k >= 2 * h /\ k < 2 * h + 2 * m THEN s[k - 2 * h + 1]
                          ELSE bits[At(k)]
    BY <1>2, <1>4, AppendPlaces
  <1> HIDE DEF m
  <1>6. ASSUME NEW k \in 0..(bitlen - 1), k < 2 * h
        PROVE  bits'[At(k)] = bits[At(k)]
    BY <1>1, <1>5, <1>6
  <1>7. ASSUME NEW j \in 1..m
        PROVE  /\ bits'[At(2 * (h + j - 1))] =
                     IF (IF j = 1 THEN prev_data_bit ELSE data[j - 1]) = 0
                        /\ data[j] = 0 THEN 1 ELSE 0
               /\ bits'[At(2 * (h + j) - 1)] = data[j]
    <2> DEFINE k == 2 * (h + j - 1)
               l == 2 * (h + j) - 1
    <2>1. /\ k \in 0..(bitlen - 1) /\ k >= 2 * h /\ k < 2 * h + 2 * m
          /\ k - 2 * h + 1 = 2 * j - 1
          /\ l \in 0..(bitlen - 1) /\ l >= 2 * h /\ l < 2 * h + 2 * m
          /\ l - 2 * h + 1 = 2 * j
      BY <1>1, <1>4
    <2> HIDE DEF k, l
    <2>2. bits'[At(k)] = s[2 * j - 1] /\ bits'[At(l)] = s[2 * j]
      BY <1>5, <2>1
    <2> QED BY <1>3, <2>2 DEF k, l
  <1>8. ASSUME NEW i \in 0..(h + m - 1)
        PROVE  bits'[At(2 * i)] = 1 <=>
                  (i = 0 \/ bits'[At(2 * i - 1)] = 0) /\ bits'[At(2 * i + 1)] = 0
    <2>1. CASE i < h
      <3>1. /\ 2 * i \in 0..(bitlen - 1) /\ 2 * i < 2 * h
            /\ 2 * i + 1 \in 0..(bitlen - 1) /\ 2 * i + 1 < 2 * h
            /\ i # 0 => 2 * i - 1 \in 0..(bitlen - 1) /\ 2 * i - 1 < 2 * h
            /\ i \in 0..(h - 1)
        BY <1>1, <1>4, <2>1
      <3>2. /\ bits'[At(2 * i)] = bits[At(2 * i)]
            /\ bits'[At(2 * i + 1)] = bits[At(2 * i + 1)]
            /\ i # 0 => bits'[At(2 * i - 1)] = bits[At(2 * i - 1)]
        BY <1>6, <3>1
      <3> QED BY <3>1, <3>2 DEF Coded
    <2>2. CASE ~(i < h)
      <3> DEFINE j == i - h + 1
      <3>1. /\ j \in 1..m /\ 2 * (h + j - 1) = 2 * i /\ 2 * (h + j) - 1 = 2 * i + 1
            /\ j # 1 => j - 1 \in 1..m /\ 2 * (h + (j - 1)) - 1 = 2 * i - 1
            /\ j = 1 => i = h
        BY <1>1, <2>2
      <3> HIDE DEF j
      <3>2. /\ bits'[At(2 * i)] = IF (IF j = 1 THEN prev_data_bit ELSE data[j - 1]) = 0
                                     /\ data[j] = 0 THEN 1 ELSE 0
            /\ bits'[At(2 * i + 1)] = data[j]
            /\ j # 1 => bits'[At(2 * i - 1)] = data[j - 1]
        BY <1>7, <3>1
      <3>3. j # 1 => i # 0
        BY <1>1, <2>2, <3>1 DEF j
      <3>4. CASE j # 1
        BY <3>2, <3>3, <3>4
      <3>5. CASE j = 1
        <4>1. CASE h = 0
          BY <3>1, <3>2, <3>5, <4>1 DEF LastData
        <4>2. CASE h # 0
          <5>1. 2 * h - 1 \in 0..(bitlen - 1) /\ 2 * h - 1 < 2 * h
            BY <1>1, <1>4, <4>2
          <5>2. bits'[At(2 * h - 1)] = prev_data_bit
            BY <1>6, <4>2, <5>1 DEF LastData
          <5> QED BY <3>1, <3>2, <3>5, <4>2, <5>2
        <4> QED BY <4>1, <4>2
      <3> QED BY <3>4, <3>5
    <2> QED BY <2>1, <2>2
  <1>9. data # <<>> => bits'[At(2 * (h + m) - 1)] = Last(data)
    <2> SUFFICES ASSUME data # <<>>
                 PROVE  bits'[At(2 * (h + m) - 1)] = Last(data)
      OBVIOUS
    <2>1. m \in 1..m
      BY <1>1, EmptySeq DEF m
    <2> QED BY <1>7, <2>1 DEF Last, m
  <1>10. data = <<>> /\ h # 0 => bits'[At(2 * h - 1)] = bits[At(2 * h - 1)]
    <2> SUFFICES ASSUME h # 0
                 PROVE  bits'[At(2 * h - 1)] = bits[At(2 * h - 1)]
      OBVIOUS
    <2>1. 2 * h - 1 \in 0..(bitlen - 1) /\ 2 * h - 1 < 2 * h
      BY <1>1, <1>4
    <2> QED BY <1>6, <2>1
  <1> QED BY <1>8, <1>9, <1>10 DEF m

LEMMA EncodeCodes ==
    ASSUME FillInv, MfmInv, NEW data \in Seq({0, 1}),
           HandlerWrites(2 * Len(data)), AppendMfm(data), UNCHANGED plain
    PROVE  MfmInv'
  <1> DEFINE s == Clocked(data, prev_data_bit)
             m == Len(data)
  <1>1. /\ Circle /\ written \in Nat /\ prev_data_bit \in {0, 1} /\ m \in Nat
        /\ phase = "write" /\ phase' = "write" /\ plain' = plain
        /\ written' = written + 2 * m /\ written < bitlen
        /\ bitlen' = bitlen /\ start' = start /\ AppendBits(s)
        /\ prev_data_bit' = IF data = <<>> THEN prev_data_bit ELSE Last(data)
    BY LenProperties DEF FillInv, Typed, HandlerWrites, AppendMfm
  <1>2. ASSUME plain, written' <= bitlen
        PROVE  \E h \in Nat : written' = 2 * h /\ Coded(h)' /\ LastData(h)'
    <2>1. bitlen \in Nat
      BY <1>1, CircleSizes
    <2>2. Filled(written) /\ written <= bitlen
      BY <1>1, <1>2, <2>1 DEF FillInv
    <2>3. PICK h \in Nat : written = 2 * h /\ Coded(h) /\ LastData(h)
      BY <1>1, <1>2, <2>2 DEF MfmInv
    <2>4. Filled(2 * h) /\ 2 * h + 2 * m <= bitlen
      BY <1>1, <1>2, <2>2, <2>3
    <2>5. /\ \A i \in 0..(h + m - 1) :
                bits'[At(2 * i)] = 1 <=>
                   (i = 0 \/ bits'[At(2 * i - 1)] = 0) /\ bits'[At(2 * i + 1)] = 0
          /\ data # <<>> => bits'[At(2 * (h + m) - 1)] = Last(data)
          /\ data = <<>> /\ h # 0 => bits'[At(2 * h - 1)] = bits[At(2 * h - 1)]
      BY <1>1, <2>3, <2>4, CodesOn
    <2>6. h + m \in Nat /\ written' = 2 * (h + m)
      BY <1>1, <2>3
    <2>7. Coded(h + m)'
      <3> HIDE DEF m, s
      <3> QED BY <1>1, <2>5 DEF Coded, At
    <2>8. LastData(h + m)'
      <3>1. CASE data = <<>>
        <4>1. m = 0 /\ h + m = h
          BY <3>1, EmptySeq
        <4> HIDE DEF m, s
        <4> QED BY <1>1, <2>3, <2>5, <3>1, <4>1 DEF LastData, At
      <3>2. CASE data # <<>>
        <4>1. h + m # 0
          BY <1>1, <3>2, EmptySeq
        <4> HIDE DEF m, s
        <4> QED BY <1>1, <2>5, <3>2, <4>1 DEF LastData, At
      <3> QED BY <3>1, <3>2
    <2> QED BY <2>6, <2>7, <2>8
  <1> HIDE DEF s, m
  <1>3. written' <= bitlen' /\ plain' =>
           \E h \in Nat : written' = 2 * h /\ Coded(h)' /\ LastData(h)'
    BY <1>1, <1>2
  <1> QED BY <1>1, <1>3 DEF MfmInv, MfmLegal

LEMMA FullWritten ==
    ASSUME FillInv, phase = "write", start = pos, Sane
    PROVE  written = bitlen
  <1>1. Circle /\ written \in Nat
    BY DEF FillInv, Typed
  <1>2. bitlen \in Nat \ {0} /\ start \in 0..(bitlen - 1) /\ written \in 1..bitlen
    BY <1>1, CircleSizes DEF Sane
  <1>3. written \in 0..bitlen /\ pos = At(written)
    BY <1>2 DEF FillInv, Filled
  <1>4. At(written) = IF start + written < bitlen THEN start + written
                      ELSE start + written - bitlen
    BY <1>1, <1>3, AtPlace
  <1> QED BY <1>2, <1>3, <1>4

LEMMA FullCodes ==
    ASSUME FillInv, MfmInv, FinaliseFull
    PROVE  MfmInv'
  <1>1. /\ phase = "write" /\ start = pos /\ phase' = "done"
        /\ bitlen' = bitlen /\ written' = written
    BY DEF FinaliseFull, Finalising
  <1>2. bitlen \in Nat
    BY <1>1, CircleSizes DEF FillInv, Typed
  <1>3. ~(Sane' /\ written' < bitlen')
    BY <1>1, <1>2, FullWritten DEF Sane
  <1> QED BY <1>1, <1>3 DEF MfmInv, MfmLegal

LEMMA ForwardCodes ==
    ASSUME FillInv, MfmInv, FillForward
    PROVE  MfmInv'
  <1> DEFINE n == Fix(start - pos) \div 4
             data == [i \in 1..n |-> 0]
             s == Clocked(data, prev_data_bit)
  <1>1. /\ Circle /\ written \in Nat /\ prev_data_bit \in {0, 1}
        /\ n \in Nat /\ AppendBits(s)
        /\ phase = "write" /\ phase' = "splice" /\ plain' = plain
        /\ bitlen' = bitlen /\ start' = start /\ written' = written
        /\ Sane => /\ written < bitlen /\ Filled(written)
                   /\ n = (bitlen - written) \div 4
    BY ForwardStep
  <1> HIDE DEF n
  <1>2. data \in Seq({0, 1}) /\ Len(data) = n
    BY <1>1, Zeros
  <1> HIDE DEF data
  <1>3. ASSUME plain, Sane
        PROVE  \E h \in Nat : Forward' = 2 * h /\ Coded(h)'
    <2>1. bitlen \in Nat /\ written < bitlen /\ Filled(written)
          /\ n = (bitlen - written) \div 4
      BY <1>1, <1>3, CircleSizes
    <2>2. PICK h \in Nat : written = 2 * h /\ Coded(h) /\ LastData(h)
      BY <1>1, <1>3, <2>1 DEF MfmInv
    <2>3. Filled(2 * h) /\ 2 * h + 2 * Len(data) <= bitlen
      BY <1>1, <1>2, <2>1, <2>2
    <2>4. \A i \in 0..(h + Len(data) - 1) :
             bits'[At(2 * i)] = 1 <=>
                (i = 0 \/ bits'[At(2 * i - 1)] = 0) /\ bits'[At(2 * i + 1)] = 0
      BY <1>1, <1>2, <2>2, <2>3, CodesOn
    <2> PICK g \in Nat : g = h + n
      BY <1>1
    <2>5. Forward' = 2 * g
      BY <1>1, <2>1, <2>2 DEF Forward
    <2>6. Coded(g)'
      <3>1. \A i \in 0..(g - 1) :
               bits'[At(2 * i)] = 1 <=>
                  (i = 0 \/ bits'[At(2 * i - 1)] = 0) /\ bits'[At(2 * i + 1)] = 0
        BY <1>2, <2>4
      <3> QED BY <1>1, <3>1 DEF Coded, At
    <2> QED BY <2>5, <2>6
  <1>4. Sane' <=> Sane
    BY <1>1 DEF Sane
  <1> QED BY <1>1, <1>3, <1>4 DEF MfmInv, MfmLegal

LEMMA SpliceCodes ==
    ASSUME FillInv, MfmInv, WriteSplice
    PROVE  MfmInv'
  <1> DEFINE gap == Fix(start - pos)
             n   == IF gap < 5 THEN gap ELSE 5
             s   == [i \in 1..n |-> 0]
  <1>1. /\ Circle /\ written \in Nat
        /\ n \in Nat /\ s \in Seq({0, 1}) /\ Len(s) = n /\ AppendBits(s)
        /\ phase = "splice" /\ phase' = "back" /\ plain' = plain
        /\ bitlen' = bitlen /\ start' = start /\ written' = written
        /\ Sane => /\ written < bitlen /\ Filled(Forward) /\ DataEnds
                   /\ n = Spliced - Forward
    BY SpliceStep
  <1>2. \A i \in 1..n : s[i] = 0
    OBVIOUS
  <1> HIDE DEF n, s
  <1>3. Sane' <=> Sane
    BY <1>1 DEF Sane
  <1>4. Forward' = Forward /\ Spliced' = Spliced
    BY <1>1 DEF Spliced, Forward
  <1>5. ASSUME plain, Sane
        PROVE  SpliceBlank' /\ \E h \in Nat : Forward' = 2 * h /\ Coded(h)'
    <2>1. bitlen \in Nat \ {0} /\ written \in 1..bitlen /\ written < bitlen
      BY <1>1, <1>5, CircleSizes DEF Sane
    <2>2. /\ Forward \in written..(bitlen - 1) /\ Spliced \in (Forward + 1)..bitlen
          /\ n = Spliced - Forward /\ pos = At(Forward)
      BY <1>1, <1>5, <2>1, ForwardFits DEF Filled
    <2> DEFINE f == Forward
               e == Spliced
    <2>3. /\ f \in written..(bitlen - 1) /\ e \in (f + 1)..bitlen
          /\ n = e - f /\ pos = At(f) /\ f \in Nat
      BY <2>1, <2>2
    <2>4. PICK h \in Nat : f = 2 * h /\ Coded(h)
      BY <1>1, <1>5 DEF MfmInv
    <2> HIDE DEF f, e
    <2>5. f + Len(s) <= bitlen /\ f + Len(s) = e
      BY <1>1, <2>1, <2>3
    <2>6. \A k \in 0..(bitlen - 1) :
             bits'[At(k)] = IF k >= f /\ k < f + Len(s) THEN s[k - f + 1] ELSE bits[At(k)]
      BY <1>1, <2>3, <2>5, AppendPlaces
    <2>7. \A k \in f..(e - 1) : bits'[At(k)] = 0
      <3> SUFFICES ASSUME NEW k \in f..(e - 1)
                   PROVE  bits'[At(k)] = 0
        OBVIOUS
      <3>1. k \in 0..(bitlen - 1) /\ k >= f /\ k < f + Len(s) /\ k - f + 1 \in 1..n
        BY <2>1, <2>3, <2>5
      <3> QED BY <1>2, <2>6, <3>1
    <2>8. \A k \in 0..(f - 1) : bits'[At(k)] = bits[At(k)]
      BY <2>1, <2>3, <2>6
    <2>9. SpliceBlank'
      BY <1>1, <1>4, <2>7 DEF SpliceBlank, At, f, e
    <2>10. \A i \in 0..(h - 1) :
              bits'[At(2 * i)] = 1 <=>
                 (i = 0 \/ bits'[At(2 * i - 1)] = 0) /\ bits'[At(2 * i + 1)] = 0
      <3> SUFFICES ASSUME NEW i \in 0..(h - 1)
                   PROVE  bits'[At(2 * i)] = 1 <=>
                             (i = 0 \/ bits'[At(2 * i - 1)] = 0) /\ bits'[At(2 * i + 1)] = 0
        OBVIOUS
      <3>1. /\ 2 * i \in 0..(f - 1) /\ 2 * i + 1 \in 0..(f - 1)
            /\ i # 0 => 2 * i - 1 \in 0..(f - 1)
        BY <2>4
      <3>2. /\ bits'[At(2 * i)] = bits[At(2 * i)]
            /\ bits'[At(2 * i + 1)] = bits[At(2 * i + 1)]
            /\ i # 0 => bits'[At(2 * i - 1)] = bits[At(2 * i - 1)]
        BY <2>8, <3>1
      <3> QED BY <2>4, <3>2 DEF Coded
    <2>11. Coded(h)'
      BY <1>1, <2>10 DEF Coded, At
    <2>12. Forward' = 2 * h
      BY <1>4, <2>4 DEF f
    <2> QED BY <2>9, <2>11, <2>12
  <1> QED BY <1>1, <1>3, <1>5 DEF MfmInv, MfmLegal

\* The i-th cell behind the k-th, short of the seam.
LEMMA AtFurther ==
    ASSUME Circle, NEW k \in Nat, NEW i \in Nat, k + i < bitlen
    PROVE  (At(k) + i) % bitlen = At(k + i)
  <1>1. bitlen \in Nat \ {0} /\ start \in 0..(bitlen - 1)
    BY CircleSizes
  <1>2. k \in 0..bitlen /\ k + i \in 0..bitlen
    BY <1>1
  <1>3. /\ At(k) = IF start + k < bitlen THEN start + k ELSE start + k - bitlen
        /\ At(k + i) = IF start + (k + i) < bitlen THEN start + (k + i)
                       ELSE start + (k + i) - bitlen
    BY <1>2, AtPlace
  <1> DEFINE x == At(k) + i
  <1>4. x \in 0..(2 * bitlen - 1)
    BY <1>1, <1>3
  <1>5. x % bitlen = IF x < bitlen THEN x ELSE x - bitlen
    <2> HIDE DEF x
    <2> QED BY <1>1, <1>4, OnceRound
  <1> QED BY <1>1, <1>3, <1>5

\* Data, a fill that goes on with its last bit, zeros, and 0, 1, 0, 1, ... backwards.
LEMMA SeamsLegal ==
    ASSUME Circle, NEW b, NEW h \in Nat, NEW e \in (2 * h + 1)..bitlen,
           \A k \in 0..(2 * h - 1) : b[At(k)] \in {0, 1},
           \A i \in 0..(h - 1) :
              b[At(2 * i)] = 1 <=> (i = 0 \/ b[At(2 * i - 1)] = 0) /\ b[At(2 * i + 1)] = 0,
           \A k \in (2 * h)..(e - 1) : b[At(k)] = 0,
           \A k \in e..(bitlen - 1) : b[At(k)] = (bitlen - k + 1) % 2
    PROVE  /\ \A k \in 0..(bitlen - 2) : b[At(k)] = 0 \/ b[At(k + 1)] = 0
           /\ b[At(bitlen - 1)] = 0
           /\ \A k \in 0..(2 * h - 4) : \E i \in 0..3 : b[At(k + i)] = 1
  <1>1. bitlen \in Nat \ {0} /\ e \in 1..bitlen
    BY CircleSizes
  <1>2. ASSUME NEW k \in 0..(bitlen - 2)
        PROVE  b[At(k)] = 0 \/ b[At(k + 1)] = 0
    <2>1. CASE k + 1 < 2 * h
      <3>1. PICK i \in 0..(h - 1) : k = 2 * i \/ k = 2 * i + 1
        <4>1. k \div 2 \in 0..(h - 1) /\ (k = 2 * (k \div 2) \/ k = 2 * (k \div 2) + 1)
          BY <2>1
        <4> QED BY <4>1
      <3>2. k \in 0..(2 * h - 1) /\ k + 1 \in 0..(2 * h - 1)
        BY <2>1
      <3>3. CASE k = 2 * i
        BY <3>2, <3>3
      <3>4. CASE k = 2 * i + 1
        <4>1. i + 1 \in 0..(h - 1) /\ 2 * (i + 1) = k + 1 /\ 2 * (i + 1) - 1 = k /\ i + 1 # 0
          BY <2>1, <3>4
        <4>2. b[At(k + 1)] = 1 => b[At(k)] = 0
          BY <4>1
        <4> QED BY <3>2, <4>2
      <3> QED BY <3>1, <3>3, <3>4
    <2>2. CASE k + 1 >= 2 * h /\ k + 1 < e
      <3>1. k + 1 \in (2 * h)..(e - 1)
        BY <1>1, <2>2
      <3> QED BY <3>1
    <2>3. CASE k + 1 = e
      <3>1. k \in (2 * h)..(e - 1)
        BY <1>1, <2>3
      <3> QED BY <3>1
    <2>4. CASE k + 1 > e
      <3>1. k \in e..(bitlen - 1) /\ k + 1 \in e..(bitlen - 1)
        BY <1>1, <2>4
      <3>2. b[At(k)] = (bitlen - k + 1) % 2 /\ b[At(k + 1)] = (bitlen - (k + 1) + 1) % 2
        BY <3>1
      <3>3. (bitlen - k + 1) % 2 = 0 \/ (bitlen - (k + 1) + 1) % 2 = 0
        BY <1>1
      <3> QED BY <3>2, <3>3
    <2> QED BY <1>1, <2>1, <2>2, <2>3, <2>4
  <1>3. b[At(bitlen - 1)] = 0
    <2>1. CASE e = bitlen
      <3>1. bitlen - 1 \in (2 * h)..(e - 1)
        BY <1>1, <2>1
      <3> QED BY <3>1
    <2>2. CASE e # bitlen
      <3>1. bitlen - 1 \in e..(bitlen - 1) /\ (bitlen - (bitlen - 1) + 1) % 2 = 0
        BY <1>1, <2>2
      <3> QED BY <3>1
    <2> QED BY <2>1, <2>2
  <1>4. ASSUME NEW k \in 0..(2 * h - 4)
        PROVE  \E i \in 0..3 : b[At(k + i)] = 1
    <2>1. /\ k + 0 \in 0..(2 * h - 1) /\ k + 1 \in 0..(2 * h - 1)
          /\ k + 2 \in 0..(2 * h - 1) /\ k + 3 \in 0..(2 * h - 1)
      OBVIOUS
    <2>2. PICK j \in 0..(h - 1) : k = 2 * j \/ k = 2 * j + 1
      <3>1. k \div 2 \in 0..(h - 1) /\ (k = 2 * (k \div 2) \/ k = 2 * (k \div 2) + 1)
        OBVIOUS
      <3> QED BY <3>1
    <2>3. /\ j + 1 \in 0..(h - 1) /\ j + 1 # 0 /\ 2 * (j + 1) - 1 = 2 * j + 1
          /\ 2 * (j + 1) = 2 * j + 2 /\ 2 * (j + 1) + 1 = 2 * j + 3
      BY <2>1, <2>2
    <2>4. b[At(2 * j + 2)] = 1 <=> b[At(2 * j + 1)] = 0 /\ b[At(2 * j + 3)] = 0
      <3> DEFINE l == j + 1
      <3>1. /\ l \in 0..(h - 1) /\ l # 0 /\ 2 * l - 1 = 2 * j + 1
            /\ 2 * l = 2 * j + 2 /\ 2 * l + 1 = 2 * j + 3
        BY <2>3
      <3> HIDE DEF l
      <3>2. b[At(2 * l)] = 1 <=> (l = 0 \/ b[At(2 * l - 1)] = 0) /\ b[At(2 * l + 1)] = 0
        BY <3>1
      <3> QED BY <3>1, <3>2
    <2>5. \/ b[At(2 * j + 1)] = 1 \/ b[At(2 * j + 2)] = 1 \/ b[At(2 * j + 3)] = 1
      <3>1. /\ 2 * j + 1 \in 0..(2 * h - 1) /\ 2 * j + 3 \in 0..(2 * h - 1)
        BY <2>3
      <3> QED BY <2>4, <3>1
    <2>6. CASE k = 2 * j
      <3>1. k + 1 = 2 * j + 1 /\ k + 2 = 2 * j + 2 /\ k + 3 = 2 * j + 3
        BY <2>6
      <3> QED BY <2>5, <3>1
    <2>7. CASE k = 2 * j + 1
      <3>1. k + 0 = 2 * j + 1 /\ k + 1 = 2 * j + 2 /\ k + 2 = 2 * j + 3
        BY <2>7
      <3> QED BY <2>5, <3>1
    <2> QED BY <2>2, <2>6, <2>7
  <1> QED BY <1>2, <1>3, <1>4

\* Legal(b) is what MfmLegal says of the cells b.
Legal(b) ==
    \A p \in 0..(bitlen - 1) :
       /\ b[p % bitlen] = 0 \/ b[(p + 1) % bitlen] = 0
       /\ (\A i \in 0..3 : InData((p + i) % bitlen)) => \E i \in 0..3 : b[(p + i) % bitlen] = 1

LEMMA AllLegal ==
    ASSUME Circle, written \in 1..(bitlen - 1), NEW b, NEW h \in Nat, written <= 2 * h,
           2 * h < bitlen,
           \A k \in 0..(bitlen - 2) : b[At(k)] = 0 \/ b[At(k + 1)] = 0,
           b[At(bitlen - 1)] = 0,
           \A k \in 0..(2 * h - 4) : \E i \in 0..3 : b[At(k + i)] = 1
    PROVE  Legal(b)
  <1> SUFFICES ASSUME NEW p \in 0..(bitlen - 1)
               PROVE  /\ b[p % bitlen] = 0 \/ b[(p + 1) % bitlen] = 0
                      /\ (\A i \in 0..3 : InData((p + i) % bitlen))
                            => \E i \in 0..3 : b[(p + i) % bitlen] = 1
    BY DEF Legal
  <1>1. bitlen \in Nat \ {0}
    BY CircleSizes
  <1> PICK k \in 0..(bitlen - 1) : At(k) = p
    BY TurnPlace
  <1>2. p % bitlen = p
    BY <1>1, NoTurn
  <1>3. b[p % bitlen] = 0 \/ b[(p + 1) % bitlen] = 0
    <2>1. CASE k = bitlen - 1
      BY <1>2, <2>1
    <2>2. CASE k # bitlen - 1
      <3>1. k \in 0..(bitlen - 2) /\ k + 1 < bitlen
        BY <1>1, <2>2
      <3>2. (p + 1) % bitlen = At(k + 1)
        BY <3>1, AtNext
      <3> QED BY <1>2, <3>1, <3>2
    <2> QED BY <2>1, <2>2
  <1>4. ASSUME NEW i \in 0..3, k + i < bitlen
        PROVE  (p + i) % bitlen = At(k + i)
    <2>1. k \in Nat /\ i \in Nat /\ k + i < bitlen
      BY <1>4
    <2> QED BY <2>1, AtFurther
  <1>5. ASSUME NEW i \in 0..3, k + i < bitlen, InData((p + i) % bitlen)
        PROVE  k + i < written
    <2>1. k + i \in 0..(bitlen - 1)
      BY <1>1, <1>5
    <2>2. Turn(At(k + i)) = k + i
      BY <2>1, TurnAt
    <2> QED BY <1>4, <1>5, <2>2 DEF InData, Turn
  <1>6. ASSUME \A i \in 0..3 : InData((p + i) % bitlen)
        PROVE  \E i \in 0..3 : b[(p + i) % bitlen] = 1
    <2>1. k < written
      <3>1. k + 0 < bitlen /\ k + 0 = k
        BY <1>1
      <3> QED BY <1>5, <1>6, <3>1
    <2>2. k + 3 < written
      <3> SUFFICES ASSUME ~(k + 3 < written) PROVE FALSE
        OBVIOUS
      <3>1. written - k \in 0..3 /\ k + (written - k) = written
        BY <1>1, <2>1
      <3>2. k + (written - k) < bitlen
        BY <1>1, <3>1
      <3>3. k + (written - k) < written
        BY <1>5, <1>6, <3>1, <3>2
      <3> QED BY <1>1, <3>1, <3>3
    <2>3. k \in 0..(2 * h - 4) /\ \A i \in 0..3 : k + i < bitlen
      BY <1>1, <2>2
    <2>4. PICK i \in 0..3 : b[At(k + i)] = 1
      BY <2>3
    <2>5. (p + i) % bitlen = At(k + i)
      BY <1>4, <2>3
    <2> QED BY <2>4, <2>5
  <1> QED BY <1>3, <1>6

LEMMA BackCodes ==
    ASSUME FillInv, MfmInv, FillBack
    PROVE  MfmInv'
  <1>1. /\ Circle /\ written \in Nat /\ phase = "back" /\ phase' = "done"
        /\ bitlen' = bitlen /\ start' = start /\ written' = written /\ plain' = plain
    BY DEF FillInv, Typed, FillBack, Finalising
  <1>2. bits' \in [0..(bitlen - 1) -> {0, 1, Unset}]
    BY BackCircle
  <1>3. ASSUME plain, Sane, written < bitlen
        PROVE  Legal(bits')
    <2>1. bitlen \in Nat \ {0} /\ written \in 1..(bitlen - 1)
      BY <1>1, <1>3, CircleSizes DEF Sane
    <2>2. /\ Filled(Spliced) /\ SpliceBlank
          /\ \E h \in Nat : Forward = 2 * h /\ Coded(h)
      BY <1>1, <1>3 DEF FillInv, MfmInv
    <2>3. Forward \in written..(bitlen - 1) /\ Spliced \in (Forward + 1)..bitlen
      BY <1>1, <1>3, <2>1, ForwardFits
    <2> DEFINE e == Spliced
               f == Forward
    <2>4. /\ f \in written..(bitlen - 1) /\ e \in (f + 1)..bitlen /\ pos = At(e)
          /\ \A k \in 0..(bitlen - 1) : bits[At(k)] # Unset <=> k < e
          /\ \A k \in f..(e - 1) : bits[At(k)] = 0
      BY <2>2, <2>3 DEF Filled, SpliceBlank
    <2>5. PICK h \in Nat : f = 2 * h /\ Coded(h)
      BY <2>2
    <2> HIDE DEF e, f
    <2>6. e \in 1..bitlen
      BY <2>1, <2>4
    <2>7. \A k \in 0..(bitlen - 1) :
             bits'[At(k)] = IF k >= e THEN (bitlen - k + 1) % 2 ELSE bits[At(k)]
      BY <1>1, <2>4, <2>6, BackPlaces
    <2>8. /\ \A k \in 0..(e - 1) : bits'[At(k)] = bits[At(k)]
          /\ \A k \in e..(bitlen - 1) : bits'[At(k)] = (bitlen - k + 1) % 2
      BY <2>1, <2>6, <2>7
    <2>9. \A k \in 0..(2 * h - 1) : bits'[At(k)] \in {0, 1}
      <3> SUFFICES ASSUME NEW k \in 0..(2 * h - 1)
                   PROVE  bits'[At(k)] \in {0, 1}
        OBVIOUS
      <3>1. k \in 0..(e - 1) /\ k \in 0..(bitlen - 1) /\ k \in 0..bitlen /\ k < e
        BY <2>1, <2>4, <2>5
      <3>2. At(k) \in 0..(bitlen - 1)
        BY <1>1, <3>1, AtPlace
      <3>3. bits[At(k)] \in {0, 1, Unset}
        BY <1>1, <3>2 DEF Circle
      <3> QED BY <2>4, <2>8, <3>1, <3>3
    <2>10. \A k \in (2 * h)..(e - 1) : bits'[At(k)] = 0
      <3> SUFFICES ASSUME NEW k \in (2 * h)..(e - 1)
                   PROVE  bits'[At(k)] = 0
        OBVIOUS
      <3>1. k \in 0..(e - 1) /\ k \in f..(e - 1)
        BY <2>4, <2>5
      <3> QED BY <2>4, <2>8, <3>1
    <2>11. ASSUME NEW i \in 0..(h - 1)
           PROVE  bits'[At(2 * i)] = 1 <=>
                     (i = 0 \/ bits'[At(2 * i - 1)] = 0) /\ bits'[At(2 * i + 1)] = 0
      <3>1. /\ 2 * i \in 0..(e - 1) /\ 2 * i + 1 \in 0..(e - 1)
            /\ i # 0 => 2 * i - 1 \in 0..(e - 1)
        BY <2>4, <2>5
      <3>2. /\ bits'[At(2 * i)] = bits[At(2 * i)]
            /\ bits'[At(2 * i + 1)] = bits[At(2 * i + 1)]
            /\ i # 0 => bits'[At(2 * i - 1)] = bits[At(2 * i - 1)]
        BY <2>8, <3>1
      <3> QED BY <2>5, <3>2 DEF Coded
    <2>12. e \in (2 * h + 1)..bitlen /\ written <= 2 * h /\ 2 * h < bitlen
      BY <2>1, <2>4, <2>5
    <2>13. /\ \A k \in 0..(bitlen - 2) : bits'[At(k)] = 0 \/ bits'[At(k + 1)] = 0
           /\ bits'[At(bitlen - 1)] = 0
           /\ \A k \in 0..(2 * h - 4) : \E i \in 0..3 : bits'[At(k + i)] = 1
      BY <1>1, <2>8, <2>9, <2>10, <2>11, <2>12, SeamsLegal
    <2> QED BY <1>1, <2>1, <2>12, <2>13, AllLegal
  <1>4. Sane' <=> Sane
    BY <1>1 DEF Sane
  <1>5. MfmLegal'
    <2> SUFFICES ASSUME plain, Sane, written < bitlen
                 PROVE  (\A p \in DOMAIN bits :
                           /\ bits[p % bitlen] = 0 \/ bits[(p + 1) % bitlen] = 0
                           /\ (\A i \in 0..3 : InData((p + i) % bitlen))
                                => \E i \in 0..3 : bits[(p + i) % bitlen] = 1)'
      BY <1>1, <1>4 DEF MfmLegal
    <2>1. DOMAIN bits' = 0..(bitlen - 1)
      BY <1>2
    <2>2. Legal(bits')
      BY <1>3
    <2> QED BY <1>1, <2>1, <2>2 DEF Legal, InData, Fix
  <1> QED BY <1>1, <1>5 DEF MfmInv

LEMMA StutterCodes == ASSUME MfmInv, UNCHANGED vars PROVE MfmInv'
  BY DEF MfmInv, Coded, LastData, SpliceBlank, Sane, At, Forward, Spliced, InData,
         Fix, MfmLegal, vars

LEMMA NextCodes ==
    ASSUME TracksAssumption, WordsAssumption, FillInv, MfmInv, [Next]_vars
    PROVE  MfmInv'
  <1>1. ASSUME NEW t \in Tracks, TrackReadRaw(t)
        PROVE  MfmInv'
    <2>1. /\ phase' = "write" /\ written' = 0 /\ prev_data_bit' = 0
      BY <1>1 DEF TrackReadRaw
    <2>2. written' = 2 * 0 /\ Coded(0)' /\ LastData(0)'
      BY <2>1 DEF Coded, LastData
    <2> QED BY <2>1, <2>2 DEF MfmInv, MfmLegal
  <1>2. CASE \/ \E enc \in Encodings, bytes \in Words : Bytes(enc, bytes)
             \/ \E word \in RawWords : Raw(word)
             \/ \E n \in Gaps : \E data \in [1..n -> {0, 1}] : Filler(data)
             \/ \E bytes \in Words : GapFill(Head(bytes))
    <2>1. Typed
      BY DEF FillInv
    <2>2. \/ \E data \in Seq({0, 1}) :
                HandlerWrites(2 * Len(data)) /\ AppendMfm(data) /\ UNCHANGED plain
          \/ \E word \in Seq({0, 1}) : word # <<>> /\ Raw(word)
      BY <1>2, <2>1, HandlerEncodes
    <2>3. CASE \E data \in Seq({0, 1}) :
                  HandlerWrites(2 * Len(data)) /\ AppendMfm(data) /\ UNCHANGED plain
      BY <2>3, EncodeCodes
    <2>4. CASE \E word \in Seq({0, 1}) : word # <<>> /\ Raw(word)
      BY <2>4 DEF Raw, HandlerWrites, MfmInv, MfmLegal
    <2> QED BY <2>2, <2>3, <2>4
  <1>3. CASE FinaliseFull
    BY <1>3, FullCodes
  <1>4. CASE FillForward
    BY <1>4, ForwardCodes
  <1>5. CASE WriteSplice
    BY <1>5, SpliceCodes
  <1>6. CASE FillBack
    BY <1>6, BackCodes
  <1>7. CASE UNCHANGED vars
    BY <1>7, StutterCodes
  <1> QED BY <1>1, <1>2, <1>3, <1>4, <1>5, <1>6, <1>7 DEF Next

\* Where the handler has encoded all it has written and there is a gap, the finished
\* track has no two reversals in neighbouring cells, over the seams of the gap too,
\* and none of its data goes without a reversal for four cells.
THEOREM MfmIsLegal == Spec => []MfmLegal
  <1>1. Init => MfmInv
    BY DEF Init, MfmInv, MfmLegal
  <1>2. FillInv /\ MfmInv /\ [Next]_vars => MfmInv'
    BY TracksAssumption, WordsAssumption, NextCodes
  <1>3. MfmInv => MfmLegal
    BY DEF MfmInv
  <1> QED BY <1>1, <1>2, <1>3, FillsAlways, PTL DEF Spec

-----------------------------------------------------------------------------
(* What is encoded is what is decoded.  Bit r of the (q + 1)-th of n groups of L *)
(* bits is bit q * L + r of them all.                                          *)

LEMMA Division ==
    ASSUME NEW L \in Nat \ {0}, NEW q \in Nat, NEW r \in 0..(L - 1)
    PROVE  (q * L + r) \div L = q /\ (q * L + r) % L = r
  <1> DEFINE x == q * L + r
             d == x \div L
             m == x % L
  <1>1. x \in Nat
    OBVIOUS
  <1>2. d \in Nat /\ m \in 0..(L - 1) /\ x = L * d + m
    <2> HIDE DEF x
    <2> QED BY <1>1
  <1> HIDE DEF d, m
  <1>3. ~(d < q)
    <2> SUFFICES ASSUME d < q PROVE FALSE
      OBVIOUS
    <2>1. L * d + L <= L * q
      <3> PICK c \in Nat : q = d + 1 + c
        <4>1. q - d - 1 \in Nat /\ q = d + 1 + (q - d - 1)
          BY <1>2
        <4> QED BY <4>1
      <3> QED BY <1>2
    <2> QED BY <1>2, <2>1
  <1>4. ~(d > q)
    <2> SUFFICES ASSUME d > q PROVE FALSE
      OBVIOUS
    <2>1. L * q + L <= L * d
      <3> PICK c \in Nat : d = q + 1 + c
        <4>1. d - q - 1 \in Nat /\ d = q + 1 + (d - q - 1)
          BY <1>2
        <4> QED BY <4>1
      <3> QED BY <1>2
    <2> QED BY <1>2, <2>1
  <1>5. d = q
    BY <1>2, <1>3, <1>4
  <1>6. m = r
    BY <1>2, <1>5
  <1> QED BY <1>5, <1>6 DEF d, m

LEMMA Place ==
    ASSUME NEW L \in Nat \ {0}, NEW n \in Nat, NEW q \in 0..(n - 1), NEW r \in 1..L
    PROVE  /\ q * L + r \in 1..(n * L)
           /\ (q * L + r - 1) \div L = q /\ (q * L + r - 1) % L = r - 1
  <1>1. q * L \in Nat /\ q * L + L <= n * L
    <2> PICK c \in Nat : n = q + 1 + c
      <3>1. n - q - 1 \in Nat /\ n = q + 1 + (n - q - 1)
        OBVIOUS
      <3> QED BY <3>1
    <2>1. n * L = q * L + L + c * L /\ c * L \in Nat /\ q * L \in Nat
      OBVIOUS
    <2> QED BY <2>1
  <1> DEFINE a == q * L
  <1>2. a + (r - 1) = a + r - 1 /\ a + r \in 1..(n * L)
    <2>1. a \in Nat /\ a + L <= n * L /\ n * L \in Nat
      BY <1>1
    <2> HIDE DEF a
    <2> QED BY <2>1
  <1>3. (q * L + (r - 1)) \div L = q /\ (q * L + (r - 1)) % L = r - 1
    <2>1. r - 1 \in 0..(L - 1) /\ q \in Nat
      OBVIOUS
    <2> QED BY <2>1, Division
  <1> HIDE DEF a
  <1> QED BY <1>2, <1>3 DEF a

LEMMA WordIs ==
    ASSUME WordsAssumption, NEW bytes \in Words
    PROVE  /\ HalfBits \in Nat \ {0} /\ ByteBits \in Nat \ {0} /\ ByteBits = 2 * HalfBits
           /\ Len(bytes) \in Nat \ {0} /\ bytes \in [1..Len(bytes) -> Byte]
           /\ \A i \in 1..Len(bytes) : bytes[i] \in [1..ByteBits -> {0, 1}]
  <1>1. /\ HalfBits \in Nat \ {0} /\ bytes \in Seq(Byte) /\ bytes # <<>>
    BY DEF WordsAssumption
  <1>2. Len(bytes) \in Nat \ {0} /\ bytes \in [1..Len(bytes) -> Byte]
    BY <1>1, LenProperties, EmptySeq
  <1> QED BY <1>1, <1>2 DEF ByteBits, Byte

LEMMA BitsAt ==
    ASSUME WordsAssumption, NEW bytes \in Words, NEW q \in 0..(Len(bytes) - 1)
    PROVE  /\ \A r \in 1..ByteBits : AllBits(bytes)[q * ByteBits + r] = bytes[q + 1][r]
           /\ \A r \in 1..HalfBits :
                 /\ EvenBits(bytes)[q * HalfBits + r] = bytes[q + 1][2 * r - 1]
                 /\ OddBits(bytes)[q * HalfBits + r] = bytes[q + 1][2 * r]
  <1>1. /\ HalfBits \in Nat \ {0} /\ ByteBits \in Nat \ {0} /\ Len(bytes) \in Nat \ {0}
    BY WordIs
  <1>2. ASSUME NEW r \in 1..ByteBits
        PROVE  AllBits(bytes)[q * ByteBits + r] = bytes[q + 1][r]
    <2> DEFINE k == q * ByteBits + r
    <2>1. /\ k \in 1..(Len(bytes) * ByteBits)
          /\ (k - 1) \div ByteBits = q /\ (k - 1) % ByteBits = r - 1
      BY <1>1, Place
    <2> HIDE DEF k
    <2>2. AllBits(bytes)[k] = bytes[q + 1][(r - 1) + 1]
      BY <2>1 DEF AllBits
    <2>3. (r - 1) + 1 = r
      BY <1>1
    <2> QED BY <2>2, <2>3 DEF k
  <1>3. ASSUME NEW r \in 1..HalfBits
        PROVE  /\ EvenBits(bytes)[q * HalfBits + r] = bytes[q + 1][2 * r - 1]
               /\ OddBits(bytes)[q * HalfBits + r] = bytes[q + 1][2 * r]
    <2> DEFINE k == q * HalfBits + r
    <2>1. /\ k \in 1..(Len(bytes) * HalfBits)
          /\ (k - 1) \div HalfBits = q /\ (k - 1) % HalfBits = r - 1
      BY <1>1, Place
    <2> HIDE DEF k
    <2>2. /\ EvenBits(bytes)[k] = bytes[q + 1][2 * (r - 1) + 1]
          /\ OddBits(bytes)[k] = bytes[q + 1][2 * (r - 1) + 2]
      BY <2>1 DEF EvenBits, OddBits
    <2>3. 2 * (r - 1) + 1 = 2 * r - 1 /\ 2 * (r - 1) + 2 = 2 * r
      BY <1>1
    <2> QED BY <2>2, <2>3 DEF k
  <1> QED BY <1>2, <1>3

\* Of data in two halves, the (q + 1)-th half byte of either.
LEMMA HalvesAt ==
    ASSUME WordsAssumption, NEW bytes \in Words,
           NEW q \in 0..(Len(bytes) - 1), NEW r \in 1..HalfBits
    PROVE  LET n == Len(bytes)
               EvenOdd == DataBits("even_odd", bytes)
               OddEven == DataBits("odd_even", bytes)
           IN  /\ EvenOdd[q * HalfBits + r] = bytes[q + 1][2 * r - 1]
               /\ EvenOdd[(n + q) * HalfBits + r] = bytes[q + 1][2 * r]
               /\ OddEven[q * HalfBits + r] = bytes[q + 1][2 * r]
               /\ OddEven[(n + q) * HalfBits + r] = bytes[q + 1][2 * r - 1]
  <1> DEFINE n == Len(bytes)
             a == EvenBits(bytes)
             b == OddBits(bytes)
             k == q * HalfBits + r
             half == n * HalfBits
  <1>1. HalfBits \in Nat \ {0} /\ n \in Nat \ {0} /\ half \in Nat
    BY WordIs
  <1>2. /\ a \in Seq({0, 1}) /\ Len(a) = half /\ b \in Seq({0, 1}) /\ Len(b) = half
    BY BitsLengths
  <1>3. k \in 1..half
    BY <1>1, Place
  <1>4. (n + q) * HalfBits + r = half + k
    BY <1>1
  <1>5. a[k] = bytes[q + 1][2 * r - 1] /\ b[k] = bytes[q + 1][2 * r]
    BY BitsAt
  <1>6. /\ DataBits("even_odd", bytes) = a \o b
        /\ DataBits("odd_even", bytes) = b \o a
    BY DEF DataBits
  <1> HIDE DEF a, b, k, half, n
  <1>7. /\ (a \o b)[k] = a[k] /\ (b \o a)[k] = b[k]
        /\ (a \o b)[half + k] = b[k] /\ (b \o a)[half + k] = a[k]
    <2> DEFINE c == a \o b
               d == b \o a
    <2>1. /\ \A i \in 1..(half + half) : c[i] = IF i <= half THEN a[i] ELSE b[i - half]
          /\ \A i \in 1..(half + half) : d[i] = IF i <= half THEN b[i] ELSE a[i - half]
      BY <1>2, ConcatProperties
    <2> DEFINE l == half + k
    <2>2. /\ k \in 1..(half + half) /\ k <= half
          /\ l \in 1..(half + half) /\ ~(l <= half) /\ l - half = k
      BY <1>1, <1>3
    <2> HIDE DEF c, d, l
    <2>3. /\ c[k] = a[k] /\ d[k] = b[k] /\ c[l] = b[k] /\ d[l] = a[k]
      BY <2>1, <2>2
    <2> QED BY <2>3 DEF c, d, l
  <1> QED BY <1>4, <1>5, <1>6, <1>7 DEF k, n

LEMMA Places ==
    ASSUME NEW L \in Nat \ {0}, NEW n \in Nat, NEW m \in 1..(n * L)
    PROVE  \E q \in 0..(n - 1), r \in 1..L : m = q * L + r
  <1> DEFINE q == (m - 1) \div L
             r == (m - 1) % L
  <1>1. m - 1 \in Nat /\ n * L \in Nat
    OBVIOUS
  <1>2. q \in Nat /\ r \in 0..(L - 1) /\ m - 1 = L * q + r
    BY <1>1
  <1> HIDE DEF q, r
  <1>3. q < n
    <2> SUFFICES ASSUME q >= n PROVE FALSE
      BY <1>2
    <2>1. L * q >= L * n
      <3> PICK c \in Nat : q = n + c
        <4>1. q - n \in Nat /\ q = n + (q - n)
          BY <1>2
        <4> QED BY <4>1
      <3> QED OBVIOUS
    <2> QED BY <1>1, <1>2, <2>1
  <1>4. m = q * L + (r + 1) /\ q \in 0..(n - 1) /\ r + 1 \in 1..L
    BY <1>1, <1>2, <1>3
  <1> QED BY <1>4

\* mfm_encode_word puts the same cells down as tbuf_bit.
LEMMA EncodedCells ==
    ASSUME WordsAssumption, NEW enc \in Encodings, NEW bytes \in Words, NEW prev
    PROVE  Encoded(enc, bytes, prev) = Clocked(DataBits(enc, bytes), prev)
  <1> DEFINE n == Len(bytes)
             D == DataBits(enc, bytes)
             high(i, j) == bytes[i][j - 1]
             low(i, j)  == bytes[i][j]
             whole(i, j) == bytes[(i + 1) \div 2]
                                 [(IF i % 2 = 1 THEN 0 ELSE ByteBits \div 2) + j \div 2]
             placed(i, j) ==
                CASE enc = "mfm"      -> whole(i, j)
                  [] enc = "even_odd" -> IF i <= n THEN high(i, j) ELSE low(i - n, j)
                  [] enc = "odd_even" -> IF i <= n THEN low(i, j) ELSE high(i - n, j)
             datum(k) == IF k = 0 THEN prev
                         ELSE placed(((k - 1) \div ByteBits) + 1, ((k - 1) % ByteBits) + 1)
  <1>1. /\ HalfBits \in Nat \ {0} /\ ByteBits \in Nat \ {0} /\ ByteBits = 2 * HalfBits
        /\ n \in Nat \ {0} /\ n * ByteBits \in Nat
    BY WordIs
  <1>10. n * ByteBits = (2 * n) * HalfBits /\ n \in Nat
    BY <1>1
  <1>11. n \in Nat
    BY <1>1
  <1>2. D \in Seq({0, 1}) /\ Len(D) = n * ByteBits
    BY DataBitsAre
  <1> HIDE DEF n
  <1>3. ASSUME NEW m \in 1..(n * ByteBits)
        PROVE  datum(2 * m) = D[m]
    <2> DEFINE N == 2 * n
    <2>6. m \in 1..(N * HalfBits) /\ N \in Nat
      BY <1>10, <1>11
    <2> HIDE DEF N
    <2>7. PICK q \in 0..(N - 1), r \in 1..HalfBits : m = q * HalfBits + r
      <3>1. HalfBits \in Nat \ {0}
        BY <1>1
      <3> QED BY <2>6, <3>1, Places
    <2>1. m = q * HalfBits + r /\ q \in Nat /\ q < 2 * n
      BY <1>11, <2>6, <2>7 DEF N
    <2>2. (2 * m - 1) \div ByteBits = q /\ (2 * m - 1) % ByteBits = 2 * r - 1
      <3>1. 2 * r - 1 \in 0..(ByteBits - 1) /\ q \in Nat /\ ByteBits \in Nat \ {0}
        BY <1>1, <2>1
      <3>2. /\ (q * ByteBits + (2 * r - 1)) \div ByteBits = q
            /\ (q * ByteBits + (2 * r - 1)) % ByteBits = 2 * r - 1
        BY <3>1, Division
      <3>3. 2 * m - 1 = q * ByteBits + (2 * r - 1)
        BY <1>1, <2>1
      <3> QED BY <3>2, <3>3
    <2>3. datum(2 * m) = placed(q + 1, 2 * r)
      <3>1. 2 * m # 0 /\ 2 * r - 1 + 1 = 2 * r
        BY <1>1
      <3> HIDE DEF placed
      <3> QED BY <2>2, <3>1
    <2> HIDE DEF datum
    <2>4. CASE enc = "mfm"
      <3>1. PICK u \in 0..(n - 1), v \in {0, 1} : q = 2 * u + v
        <4>1. /\ q \div 2 \in 0..(n - 1) /\ q % 2 \in {0, 1} /\ q = 2 * (q \div 2) + (q % 2)
          BY <1>11, <2>1
        <4> QED BY <4>1
      <3>2. v * HalfBits + r \in 1..ByteBits /\ m = u * ByteBits + (v * HalfBits + r)
        BY <1>1, <2>1, <3>1
      <3>3. /\ (q + 1 + 1) \div 2 = u + 1 /\ (2 * r) \div 2 = r /\ ByteBits \div 2 = HalfBits
            /\ (IF (q + 1) % 2 = 1 THEN 0 ELSE HalfBits) + r = v * HalfBits + r
        BY <1>1, <3>1
      <3>4. placed(q + 1, 2 * r) = bytes[u + 1][v * HalfBits + r]
        BY <2>4, <3>3
      <3>5. AllBits(bytes)[u * ByteBits + (v * HalfBits + r)] = bytes[u + 1][v * HalfBits + r]
        BY <3>1, <3>2, BitsAt DEF n
      <3>6. D = AllBits(bytes)
        BY <2>4 DEF DataBits
      <3> HIDE DEF D
      <3> QED BY <2>3, <3>2, <3>4, <3>5, <3>6
    <2>5. CASE enc # "mfm"
      <3>1. /\ q < n <=> q + 1 <= n
            /\ q >= n => q - n \in 0..(n - 1) /\ (q + 1) - n = (q - n) + 1 /\ q = n + (q - n)
            /\ q < n => q \in 0..(n - 1)
        BY <1>11, <2>1
      <3>2. /\ enc = "even_odd" => placed(q + 1, 2 * r) =
                  IF q < n THEN bytes[q + 1][2 * r - 1] ELSE bytes[(q - n) + 1][2 * r]
            /\ enc = "odd_even" => placed(q + 1, 2 * r) =
                  IF q < n THEN bytes[q + 1][2 * r] ELSE bytes[(q - n) + 1][2 * r - 1]
        <4>1. enc = "even_odd" => placed(q + 1, 2 * r) =
                 IF q + 1 <= n THEN high(q + 1, 2 * r) ELSE low(q + 1 - n, 2 * r)
          <5> HIDE DEF high, low, whole
          <5> QED BY <1>11, <2>1
        <4>2. enc = "odd_even" => placed(q + 1, 2 * r) =
                 IF q + 1 <= n THEN low(q + 1, 2 * r) ELSE high(q + 1 - n, 2 * r)
          <5> HIDE DEF high, low, whole
          <5> QED BY <1>11, <2>1
        <4>3. /\ IF q < n THEN q + 1 <= n ELSE ~(q + 1 <= n) /\ q + 1 - n = (q - n) + 1
          BY <1>11, <2>1
        <4> HIDE DEF placed
        <4> QED BY <4>1, <4>2, <4>3
      <3> HIDE DEF placed
      <3>3. enc = "even_odd" \/ enc = "odd_even"
        BY <2>5 DEF Encodings
      <3>4. CASE q < n
        <4>1. /\ DataBits("even_odd", bytes)[q * HalfBits + r] = bytes[q + 1][2 * r - 1]
              /\ DataBits("odd_even", bytes)[q * HalfBits + r] = bytes[q + 1][2 * r]
          BY <3>1, <3>4, HalvesAt DEF n
        <4> QED BY <2>1, <2>3, <3>2, <3>3, <3>4, <4>1
      <3>5. CASE ~(q < n)
        <4> DEFINE p == q - n
        <4>1. p \in 0..(n - 1) /\ q = n + p
          BY <1>1, <3>1, <3>5
        <4>2. /\ DataBits("even_odd", bytes)[(n + p) * HalfBits + r] = bytes[p + 1][2 * r]
              /\ DataBits("odd_even", bytes)[(n + p) * HalfBits + r] = bytes[p + 1][2 * r - 1]
          BY <4>1, HalvesAt DEF n
        <4>3. m = (n + p) * HalfBits + r
          BY <2>1, <4>1
        <4> QED BY <2>3, <3>2, <3>3, <3>5, <4>2, <4>3
      <3> QED BY <3>4, <3>5
    <2> QED BY <2>4, <2>5
  <1> DEFINE before(i) == IF i = 1 THEN prev ELSE D[i \div 2]
             cell(i) == IF i % 2 = 0 THEN D[i \div 2]
                        ELSE IF before(i) = 0 /\ D[(i + 1) \div 2] = 0 THEN 1 ELSE 0
             encoded(k) == IF k % 2 = 0 THEN datum(k)
                           ELSE IF datum(k - 1) = 0 /\ datum(k + 1) = 0 THEN 1 ELSE 0
  <1>4. Encoded(enc, bytes, prev) = [k \in 1..(2 * n * ByteBits) |-> encoded(k)]
    BY DEF Encoded, n
  <1>5. Clocked(D, prev) = [k \in 1..(2 * Len(D)) |-> cell(k)]
    BY DEF Clocked
  <1>6. datum(0) = prev
    OBVIOUS
  <1>7. 2 * Len(D) = 2 * n * ByteBits
    BY <1>1, <1>2
  <1> HIDE DEF datum, D
  <1>8. ASSUME NEW k \in 1..(2 * n * ByteBits)
        PROVE  encoded(k) = cell(k)
    <2> DEFINE N == n * ByteBits
    <2>1. 2 * n * ByteBits = 2 * N /\ N \in Nat
      BY <1>1
    <2> HIDE DEF N
    <2>2. k \in 1..(2 * N)
      BY <2>1
    <2>3. CASE k % 2 = 0
      <3>1. k \div 2 \in 1..N /\ k = 2 * (k \div 2)
        BY <2>1, <2>2, <2>3
      <3>2. datum(2 * (k \div 2)) = D[k \div 2]
        BY <1>3, <3>1 DEF N
      <3> QED BY <2>3, <3>1, <3>2
    <2>4. CASE k % 2 # 0
      <3> DEFINE m == (k + 1) \div 2
      <3>1. /\ m \in 1..N /\ k + 1 = 2 * m /\ k \div 2 = m - 1
            /\ k - 1 = 2 * (m - 1) /\ (k = 1 <=> m = 1) /\ (m # 1 => m - 1 \in 1..N)
        BY <2>1, <2>2, <2>4
      <3> HIDE DEF m
      <3>2. datum(k + 1) = D[m]
        BY <1>3, <3>1 DEF N
      <3>3. datum(k - 1) = before(k)
        <4>1. CASE m = 1
          BY <1>6, <3>1, <4>1
        <4>2. CASE m # 1
          <5>1. datum(2 * (m - 1)) = D[m - 1]
            BY <1>3, <3>1, <4>2 DEF N
          <5> QED BY <3>1, <4>2, <5>1
        <4> QED BY <4>1, <4>2
      <3> HIDE DEF before
      <3> QED BY <2>4, <3>2, <3>3 DEF m
    <2> QED BY <2>3, <2>4
  <1> HIDE DEF encoded, cell
  <1>9. [k \in 1..(2 * n * ByteBits) |-> encoded(k)] = [k \in 1..(2 * Len(D)) |-> cell(k)]
    BY <1>7, <1>8
  <1> QED BY <1>4, <1>5, <1>9 DEF D

\* mfm_decode_bytes gives back what tbuf_bytes was given.
LEMMA DecodedCells ==
    ASSUME WordsAssumption, NEW enc \in Encodings, NEW bytes \in Words, NEW prev \in {0, 1}
    PROVE  Decoded(enc, Len(bytes), Clocked(DataBits(enc, bytes), prev)) = bytes
  <1> DEFINE n == Len(bytes)
             D == DataBits(enc, bytes)
             C == Clocked(D, prev)
             in(i) == SubSeq(C, (i - 1) * ByteBits + 1, i * ByteBits)
             joined(high, low) ==
                [j \in 1..ByteBits |-> IF j % 2 = 1 THEN high[j + 1] ELSE low[j]]
             whole(i) == [j \in 1..ByteBits |-> (in(2 * i - 1) \o in(2 * i))[2 * j]]
             byte(i) ==
                CASE enc = "mfm"      -> whole(i)
                  [] enc = "even_odd" -> joined(in(i), in(i + n))
                  [] enc = "odd_even" -> joined(in(i + n), in(i))
  <1>1. HalfBits \in Nat \ {0} /\ ByteBits \in Nat \ {0} /\ ByteBits = 2 * HalfBits
    BY WordIs
  <1>2. /\ n \in Nat \ {0} /\ bytes \in [1..n -> Byte]
        /\ \A i \in 1..n : bytes[i] \in [1..ByteBits -> {0, 1}]
    BY WordIs
  <1>3. n \in Nat /\ n * ByteBits \in Nat /\ n * ByteBits = (2 * n) * HalfBits
    BY <1>1, <1>2
  <1>4. D \in Seq({0, 1}) /\ Len(D) = n * ByteBits
    BY DataBitsAre
  <1>5. C \in Seq({0, 1}) /\ Len(C) = 2 * (n * ByteBits)
    <2> HIDE DEF D
    <2> QED BY <1>4, ClockedCells
  <1>6. \A m \in 1..(n * ByteBits) : C[2 * m] = D[m]
    <2> HIDE DEF D
    <2> QED BY <1>4, ClockedAt
  <1>7. Decoded(enc, n, C) = [i \in 1..n |-> byte(i)]
    BY DEF Decoded
  <1> HIDE DEF n, D, C
  \* The i-th byte of cells, and the data bits in it.
  <1>8. ASSUME NEW i \in 1..(2 * n)
        PROVE  /\ in(i) \in Seq({0, 1}) /\ Len(in(i)) = ByteBits
               /\ \A r \in 1..HalfBits : in(i)[2 * r] = D[(i - 1) * HalfBits + r]
    <2> DEFINE a == (i - 1) * ByteBits + 1
               b == i * ByteBits
    <2>1. /\ a \in Int /\ b \in Int /\ b - a + 1 = ByteBits
          /\ a \in Nat \ {0} /\ b <= 2 * (n * ByteBits)
      <3>1. (2 * n) * ByteBits = 2 * (n * ByteBits) /\ (2 * n) * ByteBits \in Nat
        BY <1>1, <1>3
      <3>2. i - 1 \in 0..((2 * n) - 1) /\ 2 * n \in Nat /\ ByteBits \in 1..ByteBits
            /\ 1 \in 1..ByteBits
        BY <1>1, <1>3
      <3>3. /\ (i - 1) * ByteBits + ByteBits \in 1..((2 * n) * ByteBits)
            /\ (i - 1) * ByteBits + 1 \in 1..((2 * n) * ByteBits)
        <4> DEFINE N == 2 * n
        <4>1. i - 1 \in 0..(N - 1) /\ N \in Nat
          BY <3>2
        <4> HIDE DEF N
        <4>2. /\ (i - 1) * ByteBits + ByteBits \in 1..(N * ByteBits)
              /\ (i - 1) * ByteBits + 1 \in 1..(N * ByteBits)
          BY <1>1, <3>2, <4>1, Place
        <4> QED BY <4>2 DEF N
      <3>4. i * ByteBits = (i - 1) * ByteBits + ByteBits
        BY <1>1
      <3> QED BY <1>1, <3>1, <3>3, <3>4
    <2> HIDE DEF a, b
    <2>2. \A k \in a..b : C[k] \in {0, 1}
      <3>1. \A k \in 1..(2 * (n * ByteBits)) : C[k] \in {0, 1}
        BY <1>5, ElementOfSeq
      <3>2. \A k \in a..b : k \in 1..(2 * (n * ByteBits))
        BY <1>3, <2>1
      <3> QED BY <3>1, <3>2
    <2>3. /\ SubSeq(C, a, b) \in Seq({0, 1})
          /\ Len(SubSeq(C, a, b)) = IF a <= b THEN b - a + 1 ELSE 0
          /\ \A j \in 1..(b - a + 1) : SubSeq(C, a, b)[j] = C[a + j - 1]
      BY <2>1, <2>2, SubSeqProperties
    <2> DEFINE s == SubSeq(C, a, b)
    <2>4. s \in Seq({0, 1}) /\ Len(s) = ByteBits
          /\ \A j \in 1..ByteBits : s[j] = C[a + j - 1]
      BY <1>1, <2>1, <2>3
    <2>5. in(i) = s
      BY DEF a, b
    <2> HIDE DEF in, s
    <2>6. ASSUME NEW r \in 1..HalfBits
          PROVE  s[2 * r] = D[(i - 1) * HalfBits + r]
      <3> DEFINE m == (i - 1) * HalfBits + r
      <3>1. m \in 1..((2 * n) * HalfBits)
        <4> DEFINE N == 2 * n
        <4>1. i - 1 \in 0..(N - 1) /\ N \in Nat
          BY <1>3
        <4> HIDE DEF N
        <4>2. m \in 1..(N * HalfBits)
          BY <1>1, <4>1, Place
        <4> QED BY <4>2 DEF N
      <3>2. a + 2 * r - 1 = 2 * m
        BY <1>1 DEF a
      <3>3. 2 * r \in 1..ByteBits
        BY <1>1
      <3> HIDE DEF m
      <3>4. s[2 * r] = C[2 * m]
        BY <2>4, <3>2, <3>3
      <3> QED BY <1>3, <1>6, <3>1, <3>4 DEF m
    <2> QED BY <2>4, <2>5, <2>6
  <1> HIDE DEF in
  <1>9. ASSUME NEW i \in 1..n, NEW r \in 1..HalfBits
        PROVE  /\ in(i)[2 * r] = D[(i - 1) * HalfBits + r]
               /\ in(i + n)[2 * r] = D[(n + (i - 1)) * HalfBits + r]
    <2>1. i \in 1..(2 * n) /\ i + n \in 1..(2 * n) /\ (i + n) - 1 = n + (i - 1)
      BY <1>3
    <2>2. in(i)[2 * r] = D[(i - 1) * HalfBits + r]
      BY <1>8, <2>1
    <2>3. in(i + n)[2 * r] = D[((i + n) - 1) * HalfBits + r]
      BY <1>8, <2>1
    <2> QED BY <2>1, <2>2, <2>3
  <1>10. ASSUME NEW i \in 1..n, enc = "mfm"
         PROVE  whole(i) = bytes[i]
    <2> DEFINE u == in(2 * i - 1)
               v == in(2 * i)
    <2>1. /\ 2 * i - 1 \in 1..(2 * n) /\ 2 * i \in 1..(2 * n)
          /\ (2 * i - 1) - 1 = 2 * (i - 1) /\ i - 1 \in 0..(n - 1) /\ (i - 1) + 1 = i
          /\ 2 * i - 1 = 2 * (i - 1) + 1
      BY <1>3
    <2>2. /\ u \in Seq({0, 1}) /\ Len(u) = ByteBits
          /\ v \in Seq({0, 1}) /\ Len(v) = ByteBits
      BY <1>8, <2>1
    <2>3. \A r \in 1..HalfBits :
             /\ u[2 * r] = D[((2 * i - 1) - 1) * HalfBits + r]
             /\ v[2 * r] = D[(2 * i - 1) * HalfBits + r]
      BY <1>8, <2>1
    <2> DEFINE w == u \o v
    <2> HIDE DEF u, v
    <2>4. \A k \in 1..(ByteBits + ByteBits) :
             w[k] = IF k <= ByteBits THEN u[k] ELSE v[k - ByteBits]
      BY <2>2, ConcatProperties
    <2> HIDE DEF w
    <2>5. ASSUME NEW j \in 1..ByteBits
          PROVE  w[2 * j] = bytes[i][j]
      <3>1. AllBits(bytes)[(i - 1) * ByteBits + j] = bytes[i][j]
        <4>1. AllBits(bytes)[(i - 1) * ByteBits + j] = bytes[(i - 1) + 1][j]
          BY <2>1, BitsAt DEF n
        <4> QED BY <2>1, <4>1
      <3>2. D = AllBits(bytes)
        BY <1>10 DEF D, DataBits
      <3>3. CASE j <= HalfBits
        <4>1. j \in 1..HalfBits /\ 2 * j \in 1..(ByteBits + ByteBits) /\ 2 * j <= ByteBits
          BY <1>1, <3>3
        <4>2. w[2 * j] = D[((2 * i - 1) - 1) * HalfBits + j]
          BY <2>3, <2>4, <4>1
        <4>3. ((2 * i - 1) - 1) * HalfBits + j = (i - 1) * ByteBits + j
          BY <1>1
        <4> QED BY <3>1, <3>2, <4>2, <4>3
      <3>4. CASE j > HalfBits
        <4> DEFINE r == j - HalfBits
                   k == 2 * j
        <4>1. /\ r \in 1..HalfBits /\ k \in 1..(ByteBits + ByteBits) /\ ~(k <= ByteBits)
              /\ k - ByteBits = 2 * r
          BY <1>1, <3>4
        <4>2. (2 * i - 1) * HalfBits + r = (i - 1) * ByteBits + j
          BY <1>1
        <4> HIDE DEF k, r
        <4>3. w[k] = v[2 * r]
          BY <2>4, <4>1
        <4>4. v[2 * r] = D[(2 * i - 1) * HalfBits + r]
          BY <2>3, <4>1
        <4> QED BY <3>1, <3>2, <4>2, <4>3, <4>4 DEF k
      <3> QED BY <1>1, <3>3, <3>4
    <2>6. whole(i) = [j \in 1..ByteBits |-> w[2 * j]]
      BY DEF u, v, w
    <2> HIDE DEF whole
    <2> QED BY <1>2, <2>5, <2>6
  <1>11. ASSUME NEW i \in 1..n, NEW high, NEW low,
                \A r \in 1..HalfBits : high[2 * r] = bytes[i][2 * r - 1],
                \A r \in 1..HalfBits : low[2 * r] = bytes[i][2 * r]
         PROVE  joined(high, low) = bytes[i]
    <2>1. ASSUME NEW j \in 1..ByteBits
          PROVE  (IF j % 2 = 1 THEN high[j + 1] ELSE low[j]) = bytes[i][j]
      <3>1. CASE j % 2 = 1
        <4> DEFINE r == (j + 1) \div 2
        <4>1. r \in 1..HalfBits /\ 2 * r = j + 1 /\ 2 * r - 1 = j
          BY <1>1, <3>1
        <4> HIDE DEF r
        <4>2. high[2 * r] = bytes[i][2 * r - 1]
          BY <1>11, <4>1
        <4> QED BY <3>1, <4>1, <4>2
      <3>2. CASE j % 2 # 1
        <4> DEFINE r == j \div 2
        <4>1. r \in 1..HalfBits /\ 2 * r = j
          BY <1>1, <3>2
        <4> HIDE DEF r
        <4>2. low[2 * r] = bytes[i][2 * r]
          BY <1>11, <4>1
        <4> QED BY <3>2, <4>1, <4>2
      <3> QED BY <3>1, <3>2
    <2> QED BY <1>2, <2>1
  <1>12. ASSUME NEW i \in 1..n
         PROVE  byte(i) = bytes[i]
    <2>1. i - 1 \in 0..(n - 1) /\ (i - 1) + 1 = i
      BY <1>3
    <2>2. ASSUME NEW r \in 1..HalfBits
          PROVE  /\ enc = "even_odd" => in(i)[2 * r] = bytes[i][2 * r - 1]
                                        /\ in(i + n)[2 * r] = bytes[i][2 * r]
                 /\ enc = "odd_even" => in(i + n)[2 * r] = bytes[i][2 * r - 1]
                                        /\ in(i)[2 * r] = bytes[i][2 * r]
      <3>1. /\ in(i)[2 * r] = D[(i - 1) * HalfBits + r]
            /\ in(i + n)[2 * r] = D[(n + (i - 1)) * HalfBits + r]
        BY <1>9
      <3>2. LET EvenOdd == DataBits("even_odd", bytes)
                OddEven == DataBits("odd_even", bytes)
            IN  /\ EvenOdd[(i - 1) * HalfBits + r] = bytes[(i - 1) + 1][2 * r - 1]
                /\ EvenOdd[(n + (i - 1)) * HalfBits + r] = bytes[(i - 1) + 1][2 * r]
                /\ OddEven[(i - 1) * HalfBits + r] = bytes[(i - 1) + 1][2 * r]
                /\ OddEven[(n + (i - 1)) * HalfBits + r] = bytes[(i - 1) + 1][2 * r - 1]
        BY <2>1, HalvesAt DEF n
      <3> QED BY <2>1, <3>1, <3>2 DEF D
    <2> HIDE DEF whole, joined
    <2>3. CASE enc = "mfm"
      BY <1>10, <2>3
    <2>4. CASE enc = "even_odd"
      <3>1. joined(in(i), in(i + n)) = bytes[i]
        BY <1>11, <2>2, <2>4
      <3> QED BY <2>4, <3>1
    <2>5. CASE enc = "odd_even"
      <3>1. joined(in(i + n), in(i)) = bytes[i]
        BY <1>11, <2>2, <2>5
      <3> QED BY <2>5, <3>1
    <2> QED BY <2>3, <2>4, <2>5 DEF Encodings
  <1> HIDE DEF byte
  <1>13. [i \in 1..n |-> byte(i)] = bytes
    BY <1>2, <1>12
  <1> QED BY <1>7, <1>13 DEF C, D, n

-----------------------------------------------------------------------------
(* The last bytes written stay where they are. *)

Cells(rec) == Clocked(DataBits(rec.enc, rec.bytes), rec.prev)

\* b holds the cells of rec, between the start of the data and the n-th cell.
Held(rec, b, n) ==
    \E w \in Nat :
       /\ rec.at = At(w) /\ w + Len(Cells(rec)) <= n
       /\ \A i \in 1..Len(Cells(rec)) : b[At(w + i - 1)] = Cells(rec)[i]

Record(rec) == rec.enc \in Encodings /\ rec.bytes \in Words /\ rec.prev \in {0, 1}

HeldInv ==
    /\ phase = "none" => last = NoBytes
    /\ last # NoBytes =>
          Record(last) /\ (written <= bitlen => Held(last, bits, written))

LEMMA CellsAre ==
    ASSUME WordsAssumption, NEW rec, Record(rec)
    PROVE  /\ Cells(rec) \in Seq({0, 1})
           /\ Len(Cells(rec)) = 2 * Len(rec.bytes) * ByteBits
           /\ Len(Cells(rec)) \in Nat \ {0}
  <1> DEFINE data == DataBits(rec.enc, rec.bytes)
  <1>1. /\ data \in Seq({0, 1}) /\ Len(data) = Len(rec.bytes) * ByteBits
        /\ Len(rec.bytes) \in Nat \ {0} /\ Len(rec.bytes) * ByteBits \in Nat \ {0}
    BY DataBitsAre DEF Record
  <1>2. ByteBits \in Nat
    BY DEF WordsAssumption, ByteBits
  <1>3. rec.prev \in {0, 1}
    BY DEF Record
  <1> HIDE DEF data
  <1>4. /\ Clocked(data, rec.prev) \in Seq({0, 1})
        /\ Len(Clocked(data, rec.prev)) = 2 * Len(data)
    BY <1>1, <1>3, ClockedCells
  <1>5. 2 * Len(data) = 2 * Len(rec.bytes) * ByteBits /\ 2 * Len(data) \in Nat \ {0}
    BY <1>1, <1>2
  <1> QED BY <1>4, <1>5 DEF Cells, data

\* Cells before the n-th that stay hold what they held.
LEMMA HeldKept ==
    ASSUME WordsAssumption, Circle, NEW rec, Record(rec), NEW b, NEW c,
           NEW m \in Nat, NEW n \in Nat, m <= n, m <= bitlen,
           Held(rec, b, m), \A k \in 0..(m - 1) : c[At(k)] = b[At(k)]
    PROVE  Held(rec, c, n)
  <1>1. Len(Cells(rec)) \in Nat
    BY CellsAre
  <1> PICK w \in Nat : /\ rec.at = At(w) /\ w + Len(Cells(rec)) <= m
                       /\ \A i \in 1..Len(Cells(rec)) : b[At(w + i - 1)] = Cells(rec)[i]
    BY DEF Held
  <1>2. ASSUME NEW i \in 1..Len(Cells(rec))
        PROVE  c[At(w + i - 1)] = Cells(rec)[i]
    <2>1. w + i - 1 \in 0..(m - 1)
      BY <1>1
    <2> QED BY <2>1
  <1>3. w + Len(Cells(rec)) <= n
    BY <1>1
  <1> QED BY <1>2, <1>3 DEF Held

\* Any append behind the cells keeps them.
LEMMA AppendKeeps ==
    ASSUME WordsAssumption, Circle, NEW rec, Record(rec),
           NEW s \in Seq({0, 1}), NEW m \in Nat, NEW n \in Nat, m <= n,
           n + Len(s) <= bitlen, pos = At(n), AppendBits(s), Held(rec, bits, m)
    PROVE  Held(rec, bits', m) /\ Held(rec, bits', n + Len(s))
  <1>1. bitlen \in Nat /\ Len(s) \in Nat
    BY CircleSizes, LenProperties
  <1>2. \A k \in 0..(bitlen - 1) :
           bits'[At(k)] = IF k >= n /\ k < n + Len(s) THEN s[k - n + 1] ELSE bits[At(k)]
    BY AppendPlaces
  <1>3. \A k \in 0..(m - 1) : bits'[At(k)] = bits[At(k)]
    BY <1>1, <1>2
  <1>4. m <= bitlen /\ m <= n + Len(s) /\ n + Len(s) \in Nat
    BY <1>1
  <1> QED BY <1>3, <1>4, HeldKept

\* What tbuf_bytes writes is held where it was written.
LEMMA AppendHolds ==
    ASSUME WordsAssumption, Circle, NEW rec, Record(rec), NEW n \in Nat,
           n + Len(Cells(rec)) <= bitlen, pos = At(n), AppendBits(Cells(rec)),
           rec.at = pos
    PROVE  Held(rec, bits', n + Len(Cells(rec)))
  <1> DEFINE s == Cells(rec)
  <1>1. bitlen \in Nat /\ Len(s) \in Nat /\ s \in Seq({0, 1})
    BY CircleSizes, CellsAre
  <1>2. \A k \in 0..(bitlen - 1) :
           bits'[At(k)] = IF k >= n /\ k < n + Len(s) THEN s[k - n + 1] ELSE bits[At(k)]
    <2>1. AppendBits(s) /\ n + Len(s) <= bitlen
      OBVIOUS
    <2> HIDE DEF s
    <2> QED BY <1>1, <2>1, AppendPlaces
  <1> HIDE DEF s
  <1>3. ASSUME NEW i \in 1..Len(s)
        PROVE  bits'[At(n + i - 1)] = s[i]
    <2> DEFINE k == n + i - 1
    <2>1. k \in 0..(bitlen - 1) /\ k >= n /\ k < n + Len(s) /\ k - n + 1 = i
      BY <1>1 DEF s
    <2> HIDE DEF k
    <2> QED BY <1>2, <2>1 DEF k
  <1>4. n + Len(s) <= n + Len(s)
    BY <1>1
  <1> QED BY <1>3, <1>4 DEF Held, s

LEMMA RecordNot == ASSUME NEW rec, Record(rec) PROVE rec # NoBytes
  BY DEF Record, NoBytes, Encodings

\* What is held is read back.
LEMMA HeldReads ==
    ASSUME WordsAssumption, FillInv, HeldInv
    PROVE  ReadsBack
  <1> SUFFICES ASSUME last # NoBytes, written <= bitlen
               PROVE  LET n == Len(last.bytes)
                          cells == [i \in 1..(2 * n * ByteBits) |->
                                      bits[(last.at + i - 1) % bitlen]]
                      IN  /\ Decoded(last.enc, n, cells) = last.bytes
                          /\ Encoded(last.enc, last.bytes, last.prev) = cells
    BY DEF ReadsBack
  <1> DEFINE n == Len(last.bytes)
             cells == [i \in 1..(2 * n * ByteBits) |-> bits[(last.at + i - 1) % bitlen]]
             s == Cells(last)
  <1>1. Circle /\ written \in Nat /\ Record(last) /\ Held(last, bits, written)
    BY DEF FillInv, Typed, HeldInv
  <1>2. /\ s \in Seq({0, 1}) /\ Len(s) = 2 * n * ByteBits /\ Len(s) \in Nat \ {0}
    BY <1>1, CellsAre
  <1>3. cells = s
    <2>1. bitlen \in Nat \ {0} /\ start \in 0..(bitlen - 1)
      BY <1>1, CircleSizes
    <2> PICK w \in Nat : /\ last.at = At(w) /\ w + Len(s) <= written
                         /\ \A i \in 1..Len(s) : bits[At(w + i - 1)] = s[i]
      BY <1>1 DEF Held
    <2> HIDE DEF s, n
    <2>2. ASSUME NEW i \in 1..Len(s)
          PROVE  bits[(last.at + i - 1) % bitlen] = s[i]
      <3> DEFINE j == i - 1
      <3>1. j \in Nat /\ w + j < bitlen /\ w + j = w + i - 1
        BY <1>1, <1>2, <2>1
      <3>2. (At(w) + j) % bitlen = At(w + j)
        <4> HIDE DEF j
        <4> QED BY <1>1, <3>1, AtFurther
      <3>3. At(w) + j = last.at + i - 1
        <4>1. w \in 0..bitlen
          BY <1>1, <1>2, <2>1
        <4>2. At(w) \in Int
          BY <1>1, <4>1, AtPlace
        <4> QED BY <4>2
      <3> HIDE DEF j
      <3> QED BY <3>1, <3>2, <3>3
    <2>3. s \in [1..Len(s) -> {0, 1}]
      BY <1>2, LenProperties
    <2> QED BY <1>2, <2>2, <2>3
  <1>4. Decoded(last.enc, n, s) = last.bytes
    BY <1>1, DecodedCells DEF Record, Cells
  <1>5. Encoded(last.enc, last.bytes, last.prev) = s
    BY <1>1, EncodedCells DEF Record, Cells
  <1> HIDE DEF cells, s
  <1>6. Decoded(last.enc, n, cells) = last.bytes
        /\ Encoded(last.enc, last.bytes, last.prev) = cells
    BY <1>3, <1>4, <1>5
  <1> QED BY <1>6 DEF cells

LEMMA BytesHeld ==
    ASSUME WordsAssumption, FillInv, HeldInv,
           NEW enc \in Encodings, NEW bytes \in Words, Bytes(enc, bytes)
    PROVE  HeldInv'
  <1> DEFINE rec == [enc |-> enc, bytes |-> bytes, at |-> pos, prev |-> prev_data_bit]
             s == Cells(rec)
  <1>1. /\ Circle /\ written \in Nat /\ prev_data_bit \in {0, 1}
        /\ phase = "write" /\ phase' = "write" /\ written < bitlen
        /\ written' = written + 2 * Len(bytes) * ByteBits
        /\ bitlen' = bitlen /\ start' = start /\ last' = rec
        /\ AppendBits(s)
    BY DEF FillInv, Typed, Bytes, HandlerWrites, AppendMfm, Cells
  <1>2. /\ rec.enc = enc /\ rec.bytes = bytes /\ rec.prev = prev_data_bit /\ rec.at = pos
    OBVIOUS
  <1>3. Record(rec)
    BY <1>1, <1>2 DEF Record
  <1> PICK r : r = rec
    OBVIOUS
  <1>4. /\ Record(r) /\ AppendBits(Cells(r)) /\ last' = r /\ r.at = pos
        /\ written' = written + Len(Cells(r))
    BY <1>1, <1>2, <1>3, CellsAre
  <1> HIDE DEF rec, s
  <1>5. ASSUME written' <= bitlen'
        PROVE  Held(r, bits', written')
    <2>1. bitlen \in Nat
      BY <1>1, CircleSizes
    <2>2. Filled(written)
      BY <1>1, <2>1 DEF FillInv
    <2>3. pos = At(written) /\ written + Len(Cells(r)) <= bitlen
      BY <1>1, <1>4, <1>5, <2>2 DEF Filled
    <2>4. Held(r, bits', written + Len(Cells(r)))
      BY <1>1, <1>4, <2>3, AppendHolds
    <2> QED BY <1>4, <2>4
  <1>6. written' <= bitlen' => Held(last, bits, written)'
    BY <1>1, <1>4, <1>5 DEF Held, At
  <1> QED BY <1>1, <1>4, <1>6 DEF HeldInv, Record

\* The handler's other calls.
LEMMA CallHolds ==
    ASSUME WordsAssumption, FillInv, HeldInv, NEW s \in Seq({0, 1}), Call(s),
           UNCHANGED last
    PROVE  HeldInv'
  <1>1. /\ Circle /\ written \in Nat /\ phase = "write" /\ phase' = "write"
        /\ bitlen' = bitlen /\ start' = start /\ AppendBits(s) /\ last' = last
        /\ written < bitlen /\ written' = written + Len(s) /\ Len(s) \in Nat
    BY LenProperties DEF FillInv, Typed, Call
  <1>2. ASSUME last # NoBytes, written' <= bitlen
        PROVE  Held(last, bits', written')
    <2>1. bitlen \in Nat
      BY <1>1, CircleSizes
    <2>2. Filled(written) /\ Record(last) /\ Held(last, bits, written)
      BY <1>1, <1>2, <2>1 DEF FillInv, HeldInv
    <2>3. pos = At(written) /\ written + Len(s) <= bitlen /\ written <= written
      BY <1>1, <1>2, <2>2 DEF Filled
    <2>4. Held(last, bits', written + Len(s))
      BY <1>1, <2>2, <2>3, AppendKeeps
    <2> QED BY <1>1, <2>4
  <1>3. last' # NoBytes /\ written' <= bitlen' => Held(last, bits, written)'
    BY <1>1, <1>2 DEF Held, At
  <1>4. last' # NoBytes => Record(last)'
    BY <1>1 DEF HeldInv, Record
  <1> QED BY <1>1, <1>3, <1>4 DEF HeldInv

\* tbuf_finalise touches no cell of the data.
LEMMA FinaliseHolds ==
    ASSUME WordsAssumption, FillInv, HeldInv, bitlen' = bitlen, start' = start,
           written' = written, last' = last, phase # "none", phase' # "none",
           last # NoBytes /\ written <= bitlen => Held(last, bits', written)
    PROVE  HeldInv'
  <1>1. last' # NoBytes /\ written' <= bitlen' => Held(last, bits, written)'
    BY DEF Held, At
  <1>2. last' # NoBytes => Record(last)'
    BY DEF HeldInv, Record
  <1> QED BY <1>1, <1>2 DEF HeldInv

\* Where bytes have been recorded, and have fitted, there is data to finalise.
LEMMA HeldSane ==
    ASSUME WordsAssumption, FillInv, HeldInv, last # NoBytes, written <= bitlen
    PROVE  Sane
  <1>1. Record(last) /\ Held(last, bits, written) /\ phase # "none"
    BY DEF HeldInv
  <1>2. Circle /\ written \in Nat
    BY <1>1 DEF FillInv, Typed
  <1>3. Len(Cells(last)) \in Nat \ {0}
    BY <1>1, CellsAre
  <1> PICK w \in Nat : w + Len(Cells(last)) <= written
    BY <1>1 DEF Held
  <1>4. bitlen \in Nat
    BY <1>2, CircleSizes
  <1> QED BY <1>2, <1>3, <1>4 DEF Sane

LEMMA NextHolds ==
    ASSUME TracksAssumption, WordsAssumption, FillInv, HeldInv, [Next]_vars
    PROVE  HeldInv'
  <1>1. ASSUME NEW t \in Tracks, TrackReadRaw(t)
        PROVE  HeldInv'
    BY <1>1 DEF TrackReadRaw, HeldInv
  <1>2. ASSUME NEW enc \in Encodings, NEW bytes \in Words, Bytes(enc, bytes)
        PROVE  HeldInv'
    BY <1>2, BytesHeld
  <1>3. CASE \/ \E word \in RawWords : Raw(word)
             \/ \E n \in Gaps : \E data \in [1..n -> {0, 1}] : Filler(data)
             \/ \E bytes \in Words : GapFill(Head(bytes))
    <2>1. Typed /\ UNCHANGED last
      BY <1>3 DEF FillInv, Raw, Filler, GapFill
    <2>2. PICK s \in Seq({0, 1}) : Call(s)
      BY <1>3, <2>1, HandlerEncodes, HandlerCalls
    <2> QED BY <2>1, <2>2, CallHolds
  <1>4. CASE FinaliseFull
    <2>1. /\ bitlen' = bitlen /\ start' = start /\ written' = written /\ last' = last
          /\ bits' = bits /\ phase = "write" /\ phase' = "done"
      BY <1>4 DEF FinaliseFull, Finalising
    <2> QED BY <2>1, FinaliseHolds DEF HeldInv
  <1>5. CASE FillForward
    <2> DEFINE n == Fix(start - pos) \div 4
               s == Clocked([i \in 1..n |-> 0], prev_data_bit)
    <2>1. /\ Circle /\ written \in Nat
          /\ n \in Nat /\ s \in Seq({0, 1}) /\ Len(s) = 2 * n /\ AppendBits(s)
          /\ phase = "write" /\ phase' = "splice"
          /\ bitlen' = bitlen /\ start' = start /\ written' = written
          /\ last' = last
          /\ Sane => /\ written < bitlen /\ Filled(written)
                     /\ n = (bitlen - written) \div 4
      BY <1>5, ForwardStep
    <2> HIDE DEF n, s
    <2>2. ASSUME last # NoBytes, written <= bitlen
          PROVE  Held(last, bits', written)
      <3>1. written < bitlen /\ pos = At(written) /\ n = (bitlen - written) \div 4
        BY <2>1, <2>2, HeldSane DEF Filled
      <3>2. Record(last) /\ Held(last, bits, written)
        BY <2>2 DEF HeldInv
      <3>3. bitlen \in Nat
        BY <2>1, CircleSizes
      <3>4. written + Len(s) <= bitlen /\ written <= written
        BY <2>1, <3>1, <3>3
      <3> QED BY <2>1, <3>1, <3>2, <3>4, AppendKeeps
    <2> QED BY <2>1, <2>2, FinaliseHolds
  <1>6. CASE WriteSplice
    <2> DEFINE gap == Fix(start - pos)
               n   == IF gap < 5 THEN gap ELSE 5
               s   == [i \in 1..n |-> 0]
    <2>1. /\ Circle /\ written \in Nat
          /\ n \in Nat /\ s \in Seq({0, 1}) /\ Len(s) = n /\ AppendBits(s)
          /\ phase = "splice" /\ phase' = "back"
          /\ bitlen' = bitlen /\ start' = start /\ written' = written
          /\ last' = last
          /\ Sane => /\ written < bitlen /\ Filled(Forward) /\ DataEnds
                     /\ n = Spliced - Forward
      BY <1>6, SpliceStep
    <2> HIDE DEF n, s
    <2>2. ASSUME last # NoBytes, written <= bitlen
          PROVE  Held(last, bits', written)
      <3>1. written < bitlen /\ pos = At(Forward) /\ n = Spliced - Forward
        BY <2>1, <2>2, HeldSane DEF Filled
      <3>2. Record(last) /\ Held(last, bits, written)
        BY <2>2 DEF HeldInv
      <3>3. bitlen \in Nat
        BY <2>1, CircleSizes
      <3>4. Forward \in written..(bitlen - 1) /\ Spliced \in (Forward + 1)..bitlen
        BY <2>1, <3>1, <3>3, ForwardFits
      <3> DEFINE f == Forward
                 e == Spliced
      <3>5. f \in Nat /\ written <= f /\ f + Len(s) <= bitlen /\ pos = At(f)
        <4>1. f \in written..(bitlen - 1) /\ e \in (f + 1)..bitlen /\ n = e - f
          BY <3>1, <3>4
        <4> HIDE DEF f, e
        <4>2. f \in Nat /\ written <= f /\ f + Len(s) <= bitlen
          BY <2>1, <3>3, <4>1
        <4> QED BY <3>1, <4>2 DEF f
      <3> HIDE DEF f
      <3> QED BY <2>1, <3>2, <3>5, AppendKeeps
    <2> QED BY <2>1, <2>2, FinaliseHolds
  <1>7. CASE FillBack
    <2>1. /\ Circle /\ written \in Nat /\ phase = "back" /\ phase' = "done"
          /\ bitlen' = bitlen /\ start' = start /\ written' = written /\ last' = last
      BY <1>7 DEF FillInv, Typed, FillBack, Finalising
    <2>2. ASSUME last # NoBytes, written <= bitlen
          PROVE  Held(last, bits', written)
      <3>1. written < bitlen /\ pos = At(Spliced)
        BY <2>1, <2>2, HeldSane DEF FillInv, Filled
      <3>2. Record(last) /\ Held(last, bits, written)
        BY <2>2 DEF HeldInv
      <3>3. bitlen \in Nat
        BY <2>1, CircleSizes
      <3>4. Forward \in written..(bitlen - 1) /\ Spliced \in (Forward + 1)..bitlen
        BY <2>1, <3>1, <3>3, ForwardFits
      <3> DEFINE e == Spliced
      <3>5. e \in 1..bitlen /\ written < e /\ pos = At(e)
        BY <2>1, <3>1, <3>3, <3>4
      <3> HIDE DEF e
      <3>6. \A k \in 0..(bitlen - 1) :
               bits'[At(k)] = IF k >= e THEN (bitlen - k + 1) % 2 ELSE bits[At(k)]
        BY <1>7, <2>1, <3>5, BackPlaces
      <3>7. \A k \in 0..(written - 1) : bits'[At(k)] = bits[At(k)]
        BY <2>1, <3>3, <3>5, <3>6
      <3>8. written <= written /\ written <= bitlen
        BY <2>1, <2>2
      <3> QED BY <2>1, <3>2, <3>7, <3>8, HeldKept
    <2> QED BY <2>1, <2>2, FinaliseHolds
  <1>8. CASE UNCHANGED vars
    BY <1>8 DEF vars, HeldInv, Held, Record, At
  <1> QED BY <1>1, <1>2, <1>3, <1>4, <1>5, <1>6, <1>7, <1>8 DEF Next

\* Bytes that fit are read back by mfm_decode_bytes from where they were written, and
\* encoded alike by mfm_encode_bytes, whatever is written behind them, until the next.
THEOREM BytesReadBack == Spec => []ReadsBack
  <1>1. Init => HeldInv
    BY DEF Init, HeldInv
  <1>2. FillInv /\ HeldInv /\ [Next]_vars => HeldInv'
    BY TracksAssumption, WordsAssumption, NextHolds
  <1>3. FillInv /\ HeldInv => ReadsBack
    BY WordsAssumption, HeldReads
  <1> QED BY <1>1, <1>2, <1>3, FillsAlways, PTL DEF Spec

-----------------------------------------------------------------------------
(* The IBM handler: what its list of sectors is, on a medium m, at any time. *)

IsList(s) == Len(s) \in Nat /\ s \in Seq({s[k] : k \in 1..Len(s)})

\* A sector found is where one of the medium is, as that sector is.
Entry(m, e) ==
    /\ e.i \in 1..Len(m.secs) /\ m.secs[e.i].data # 0 /\ m.secs[e.i].no \in 0..7
    /\ \E j \in m.wobble : e.offset = m.secs[e.i].at + j
    /\ e.end_offset \in Int
    /\ e.idam = Idam(m.secs[e.i])
    /\ e.good => e.dat = m.secs[e.i].dat

Found(m, list, read) ==
    /\ IsList(list)
    /\ \A k \in 1..Len(list) : Entry(m, list[k])
    /\ \A k, l \in 1..Len(list) : k < l => m.secs[list[k].i].at < m.secs[list[l].i].at
    /\ \A i \in read : \E k \in 1..Len(list) : list[k].i = i /\ list[k].good

\* Between a header and its data: the head is just behind that header.
HeaderRead ==
    pc = "data" =>
        /\ id.i \in 1..Len(medium.secs) /\ Sector(id.i).no \in 0..7 /\ id.j \in medium.wobble
        /\ \E r \in 0..(Revs - 1) :
              past = (r * medium.len + Sector(id.i).at) + HeaderBits(medium.type)

\* A track that can be written out.
Writable(t) ==
    /\ t.gap \in Nat /\ t.total \in Nat \ {0} /\ Len(t.secs) \in Nat \ {0}
    /\ \A k \in 1..Len(t.secs) : t.secs[k].idam.no \in 0..7

IbmInv ==
    /\ Layout(medium) /\ HeaderRead /\ Found(medium, ibm_secs, wellRead)
    /\ ti # NoTrack => Writable(ti)
    /\ imd # NoFile => Len(imd.secs) \in Nat \ {0} /\ imd.no \in 0..7

-----------------------------------------------------------------------------
(* Two sectors read: those nearer than 1000 bits are the same.                    *)
LEMMA ReadApart ==
    ASSUME NEW m, Layout(m), NEW e, Entry(m, e), NEW f, Entry(m, f)
    PROVE  /\ e.offset \in 0..(m.len - 1) /\ f.offset \in Nat /\ m.secs[e.i].at \in Nat
           /\ m.secs[f.i].at \in Nat
           /\ m.secs[e.i].at < m.secs[f.i].at => f.offset - e.offset >= 1000
           /\ m.secs[f.i].at < m.secs[e.i].at => e.offset - f.offset >= 1000
           /\ m.secs[e.i].at = m.secs[f.i].at => e.i = f.i
           /\ e.i = f.i => e.offset - f.offset < 1000 /\ f.offset - e.offset < 1000
  <1>1. PICK j \in m.wobble : e.offset = m.secs[e.i].at + j
    BY DEF Entry
  <1>2. PICK l \in m.wobble : f.offset = m.secs[f.i].at + l
    BY DEF Entry
  <1>3. /\ e.i \in 1..Len(m.secs) /\ f.i \in 1..Len(m.secs)
        /\ m.secs[e.i].data # 0 /\ m.secs[f.i].data # 0
    BY DEF Entry
  <1> DEFINE s == m.secs[e.i]
             t == m.secs[f.i]
             x == s.at
             y == t.at
  <1>4. OffIndex(m, s) /\ OffIndex(m, t) /\ Behind(m, s, t) /\ Behind(m, t, s)
        /\ (e.i # f.i => FarFrom(m, s, t)) /\ m.len \in Nat
        /\ j - l < 1000 /\ l - j < 1000 /\ j \in Int /\ l \in Int
    <2>1. OffIndex(m, s) /\ OffIndex(m, t)
      BY <1>3, Zenon DEF Layout
    <2>2. Behind(m, s, t) /\ Behind(m, t, s)
      BY <1>3, Zenon DEF Layout
    <2>3. e.i # f.i => FarFrom(m, s, t)
      BY <1>3, Zenon DEF Layout
    <2>4. m.len \in Nat /\ j - l < 1000 /\ l - j < 1000 /\ j \in Int /\ l \in Int
      BY DEF Layout
    <2> QED BY <2>1, <2>2, <2>3, <2>4
  <1>5. /\ x \in Nat /\ y \in Nat /\ x + j \in 0..(m.len - 1) /\ y + l \in 0..(m.len - 1)
        /\ x < y => (y + l) - (x + j) >= 1000
        /\ y < x => (x + j) - (y + l) >= 1000
    BY <1>4 DEF OffIndex, Behind
  <1>6. e.i # f.i => x - y \in (1000 - m.len)..(-1000) \cup 1000..(m.len - 1000)
    BY <1>4 DEF FarFrom
  <1>7. x = y => e.i = f.i
    BY <1>4, <1>5, <1>6
  <1> HIDE DEF x, y
  <1>8. /\ e.offset \in 0..(m.len - 1) /\ f.offset \in Nat
        /\ x < y => f.offset - e.offset >= 1000
        /\ y < x => e.offset - f.offset >= 1000
        /\ x = y => e.offset - f.offset < 1000 /\ f.offset - e.offset < 1000
    BY <1>1, <1>2, <1>4, <1>5 DEF x, y
  <1> QED BY <1>5, <1>7, <1>8 DEF x, y

(* What the search of the list finds. *)
LEMMA PlaceIs ==
    ASSUME NEW read, Layout(medium), Found(medium, ibm_secs, read), NEW e, Entry(medium, e)
    PROVE  /\ PlaceOf(e) \in 1..(Len(ibm_secs) + 1)
           /\ SameAt(PlaceOf(e), e) =>
                PlaceOf(e) \in 1..Len(ibm_secs) /\ ibm_secs[PlaceOf(e)].i = e.i
           /\ ~SameAt(PlaceOf(e), e) =>
                \A k \in 1..Len(ibm_secs) :
                    IF k < PlaceOf(e) THEN medium.secs[ibm_secs[k].i].at < medium.secs[e.i].at
                                      ELSE medium.secs[e.i].at < medium.secs[ibm_secs[k].i].at
  <1> DEFINE later == {k \in 1..Len(ibm_secs) : e.offset - ibm_secs[k].offset < 1000}
             n == PlaceOf(e)
             at(f) == medium.secs[f.i].at
  <1>1. n = IF later = {} THEN Len(ibm_secs) + 1 ELSE Min(later)
    BY DEF PlaceOf
  <1>2. Len(ibm_secs) \in Nat
    BY DEF Found, IsList
  <1>3. ASSUME NEW k \in 1..Len(ibm_secs)
        PROVE  /\ ibm_secs[k].offset \in Nat /\ at(ibm_secs[k]) \in Nat
               /\ at(e) < at(ibm_secs[k]) => ibm_secs[k].offset - e.offset >= 1000
               /\ at(ibm_secs[k]) < at(e) => e.offset - ibm_secs[k].offset >= 1000
               /\ at(e) = at(ibm_secs[k]) =>
                    /\ e.i = ibm_secs[k].i
                    /\ e.offset - ibm_secs[k].offset < 1000
                    /\ ibm_secs[k].offset - e.offset < 1000
    <2>1. Entry(medium, ibm_secs[k])
      BY DEF Found
    <2> QED BY <2>1, ReadApart
  <1>4. e.offset \in Nat /\ at(e) \in Nat
    BY ReadApart
  <1>5. \A k, l \in 1..Len(ibm_secs) : k < l => at(ibm_secs[k]) < at(ibm_secs[l])
    BY DEF Found
  <1> HIDE DEF at, n
  <1>6. CASE later = {}
    <2>1. n = Len(ibm_secs) + 1
      BY <1>1, <1>6
    <2>2. ~SameAt(n, e)
      BY <1>2, <2>1 DEF SameAt
    <2>3. ASSUME NEW k \in 1..Len(ibm_secs) PROVE at(ibm_secs[k]) < at(e) /\ k < n
      <3>1. ~(e.offset - ibm_secs[k].offset < 1000)
        BY <1>6
      <3> QED BY <1>2, <1>3, <1>4, <2>1, <3>1
    <2> QED BY <1>2, <2>1, <2>2, <2>3 DEF at, n
  <1>7. CASE later # {}
    <2>1. n \in later /\ \A k \in later : n <= k
      <3>1. later \in SUBSET Nat
        BY <1>2
      <3> HIDE DEF later
      <3> QED BY <1>1, <1>7, <3>1, LeastExists
    <2>2. n \in 1..Len(ibm_secs) /\ e.offset - ibm_secs[n].offset < 1000
      BY <2>1
    <2>3. ASSUME NEW k \in 1..Len(ibm_secs), k < n PROVE at(ibm_secs[k]) < at(e)
      <3>1. ~(e.offset - ibm_secs[k].offset < 1000)
        BY <1>2, <2>1, <2>2, <2>3
      <3> QED BY <1>3, <1>4, <3>1
    <2>4. CASE SameAt(n, e)
      <3>1. at(ibm_secs[n]) = at(e)
        BY <1>2, <1>3, <1>4, <2>2, <2>4 DEF SameAt
      <3>2. e.i = ibm_secs[n].i
        BY <1>3, <2>2, <3>1
      <3> QED BY <1>2, <2>2, <2>4, <3>2 DEF n
    <2>5. CASE ~SameAt(n, e)
      <3>1. at(e) < at(ibm_secs[n])
        <4>1. n <= Len(ibm_secs)
          BY <1>2, <2>2
        <4>2. ~(ibm_secs[n].offset - e.offset < 1000)
          BY <2>5, <4>1 DEF SameAt
        <4> QED BY <1>3, <1>4, <2>2, <4>2
      <3>2. ASSUME NEW k \in 1..Len(ibm_secs), ~(k < n) PROVE at(e) < at(ibm_secs[k])
        <4>1. k = n \/ n < k
          BY <1>2, <2>2, <3>2
        <4>2. n < k => at(ibm_secs[n]) < at(ibm_secs[k])
          BY <1>5, <2>2
        <4> QED BY <1>3, <1>4, <2>2, <3>1, <4>1, <4>2
      <3> QED BY <1>2, <2>2, <2>3, <2>5, <3>2 DEF at, n
    <2> QED BY <2>4, <2>5
  <1> QED BY <1>6, <1>7

(* A sector read keeps those found before, each once and in order, and if it was read *)
(* without error it is one of them from then on.                                 *)
LEMMA PlacedKeeps ==
    ASSUME NEW read, Layout(medium), Found(medium, ibm_secs, read), NEW e, Entry(medium, e)
    PROVE  Found(medium, Placed(e), IF e.good THEN read \cup {e.i} ELSE read)
  <1> DEFINE n == PlaceOf(e)
             N == Len(ibm_secs)
             E == {ibm_secs[k] : k \in 1..N} \cup {e}
             at(f) == medium.secs[f.i].at
             after == IF e.good THEN read \cup {e.i} ELSE read
  <1>1. N \in Nat /\ ibm_secs \in Seq(E) /\ \A k \in 1..N : Entry(medium, ibm_secs[k])
    <2>1. N \in Nat /\ ibm_secs \in Seq({ibm_secs[k] : k \in 1..N})
      BY DEF Found, IsList
    <2> QED BY <2>1 DEF Found
  <1>2. \A k, l \in 1..N : k < l => at(ibm_secs[k]) < at(ibm_secs[l])
    BY DEF Found
  <1>3. \A i \in read : \E k \in 1..N : ibm_secs[k].i = i /\ ibm_secs[k].good
    BY DEF Found
  <1>4. n \in 1..(N + 1)
    BY PlaceIs
  <1>5. \A k \in 1..N : at(ibm_secs[k]) \in Nat /\ at(e) \in Nat
    BY <1>1, ReadApart
  <1> HIDE DEF at, n
  <1>6. CASE ~SameAt(n, e)
    <2> DEFINE new == InsertAt(ibm_secs, n, e)
    <2>1. Placed(e) = new
      BY <1>6 DEF Placed, n
    <2>2. /\ new \in Seq(E) /\ Len(new) = N + 1
          /\ \A k \in 1..(N + 1) : new[k] = IF k < n THEN ibm_secs[k]
                                           ELSE IF k = n THEN e ELSE ibm_secs[k - 1]
      <3>1. e \in E
        OBVIOUS
      <3>2. /\ new \in Seq(E) /\ DOMAIN new = 1..(N + 1)
            /\ \A k \in 1..(N + 1) : new[k] = IF k < n THEN ibm_secs[k]
                                             ELSE IF k = n THEN e ELSE ibm_secs[k - 1]
        <4> HIDE DEF E
        <4> QED BY <1>1, <1>4, <3>1, InsertAtValue
      <3>3. Len(new) = N + 1
        <4> HIDE DEF new, E
        <4> QED BY <1>1, <3>2, LenProperties
      <3> QED BY <3>2, <3>3
    <2>3. \A k \in 1..N : IF k < n THEN at(ibm_secs[k]) < at(e) ELSE at(e) < at(ibm_secs[k])
      BY <1>6, PlaceIs DEF at, n
    <2> HIDE DEF new
    <2>4. IsList(new)
      <3>1. \A k \in 1..Len(new) : new[k] \in {new[x] : x \in 1..Len(new)}
        OBVIOUS
      <3>2. new = [k \in 1..Len(new) |-> new[k]]
        <4> HIDE DEF E
        <4> QED BY <2>2
      <3> QED BY <1>1, <2>2, <3>1, <3>2 DEF IsList
    <2>5. ASSUME NEW k \in 1..Len(new) PROVE Entry(medium, new[k])
      <3>1. k < n => k \in 1..N
        BY <1>1, <1>4, <2>2
      <3>2. k # n /\ ~(k < n) => k - 1 \in 1..N
        BY <1>1, <1>4, <2>2
      <3> QED BY <1>1, <2>2, <3>1, <3>2
    <2>6. ASSUME NEW k \in 1..Len(new), NEW l \in 1..Len(new), k < l
          PROVE  at(new[k]) < at(new[l])
      <3>1. /\ k < n => k \in 1..N
            /\ l < n => l \in 1..N
            /\ k > n => k - 1 \in 1..N
            /\ l > n => l - 1 \in 1..N
        BY <1>1, <1>4, <2>2
      <3>2. CASE l < n
        BY <1>1, <1>2, <1>4, <2>2, <2>6, <3>1, <3>2
      <3>3. CASE l = n
        BY <1>1, <1>4, <2>2, <2>3, <2>6, <3>1, <3>3
      <3>4. CASE l > n /\ k < n
        <4>1. new[k] = ibm_secs[k] /\ new[l] = ibm_secs[l - 1] /\ k < l - 1
          BY <1>1, <1>4, <2>2, <2>6, <3>1, <3>4
        <4> QED BY <1>2, <3>1, <3>4, <4>1
      <3>5. CASE l > n /\ k = n
        <4>1. new[k] = e /\ new[l] = ibm_secs[l - 1] /\ ~(l - 1 < n)
          BY <1>1, <1>4, <2>2, <2>6, <3>1, <3>5
        <4> QED BY <2>3, <3>1, <3>5, <4>1
      <3>6. CASE l > n /\ k > n
        <4>1. new[k] = ibm_secs[k - 1] /\ new[l] = ibm_secs[l - 1] /\ k - 1 < l - 1
          BY <1>1, <1>4, <2>2, <2>6, <3>1, <3>6
        <4> QED BY <1>2, <3>1, <3>6, <4>1
      <3> QED BY <1>1, <1>4, <2>2, <3>2, <3>3, <3>4, <3>5, <3>6
    <2>7. ASSUME NEW i \in after PROVE \E k \in 1..Len(new) : new[k].i = i /\ new[k].good
      <3>1. CASE i \in read
        <4>1. PICK k \in 1..N : ibm_secs[k].i = i /\ ibm_secs[k].good
          BY <1>3, <3>1
        <4>2. k < n => new[k] = ibm_secs[k] /\ k \in 1..Len(new)
          BY <1>1, <1>4, <2>2
        <4>3. ~(k < n) => new[k + 1] = ibm_secs[k] /\ k + 1 \in 1..Len(new)
          BY <1>1, <1>4, <2>2
        <4> QED BY <4>1, <4>2, <4>3
      <3>2. CASE e.good /\ i = e.i
        <4>1. new[n] = e /\ n \in 1..Len(new)
          BY <1>1, <1>4, <2>2
        <4> QED BY <3>2, <4>1
      <3> QED BY <3>1, <3>2
    <2> HIDE DEF after
    <2>8. Found(medium, new, after)
      BY <2>4, <2>5, <2>6, <2>7 DEF Found, at
    <2> QED BY <2>1, <2>8 DEF after
  <1>7. CASE SameAt(n, e) /\ ibm_secs[n].idam = e.idam /\ e.good /\ ~ibm_secs[n].good
    <2> DEFINE new == [ibm_secs EXCEPT ![n] = e]
    <2>1. Placed(e) = new
      BY <1>7 DEF Placed, ReplaceAt, n
    <2>2. n \in 1..N /\ ibm_secs[n].i = e.i
      BY <1>7, PlaceIs DEF n
    <2>3. /\ new \in Seq(E) /\ Len(new) = N
          /\ \A k \in 1..N : new[k] = IF k = n THEN e ELSE ibm_secs[k]
      <3> HIDE DEF E
      <3>1. e \in E
        BY DEF E
      <3> QED BY <1>1, <2>2, <3>1
    <2> HIDE DEF new
    <2>4. IsList(new)
      <3>1. new = [k \in 1..Len(new) |-> new[k]]
        <4> HIDE DEF E
        <4> QED BY <2>3
      <3> QED BY <1>1, <2>3, <3>1 DEF IsList
    <2>5. ASSUME NEW k \in 1..N PROVE Entry(medium, new[k]) /\ at(new[k]) = at(ibm_secs[k])
      BY <1>1, <2>2, <2>3 DEF at
    <2>6. \A k, l \in 1..N : k < l => at(new[k]) < at(new[l])
      BY <1>2, <2>5
    <2>7. ASSUME NEW i \in after PROVE \E k \in 1..N : new[k].i = i /\ new[k].good
      <3>1. CASE i = e.i
        <4>1. new[n] = e
          BY <2>2, <2>3
        <4> QED BY <1>7, <2>2, <3>1, <4>1
      <3>2. CASE i # e.i
        <4>1. i \in read
          BY <3>2
        <4>2. PICK k \in 1..N : ibm_secs[k].i = i /\ ibm_secs[k].good
          BY <1>3, <4>1
        <4>3. new[k] = ibm_secs[k]
          BY <2>2, <2>3, <3>2, <4>2
        <4> QED BY <4>2, <4>3
      <3> QED BY <3>1, <3>2
    <2> HIDE DEF after
    <2>8. Found(medium, new, after)
      BY <2>3, <2>4, <2>5, <2>6, <2>7 DEF Found, at
    <2> QED BY <2>1, <2>8 DEF after
  <1>8. CASE SameAt(n, e) /\ ~(ibm_secs[n].idam = e.idam /\ e.good /\ ~ibm_secs[n].good)
    <2>1. Placed(e) = ibm_secs
      BY <1>8 DEF Placed, n
    <2>2. n \in 1..N /\ ibm_secs[n].i = e.i
      BY <1>8, PlaceIs DEF n
    <2>3. ibm_secs[n].idam = e.idam
      BY <1>1, <2>2 DEF Entry
    <2>4. \A i \in after : \E k \in 1..N : ibm_secs[k].i = i /\ ibm_secs[k].good
      BY <1>3, <1>8, <2>2, <2>3
    <2> HIDE DEF after
    <2>5. Found(medium, ibm_secs, after)
      BY <2>4 DEF Found
    <2> QED BY <2>1, <2>5 DEF after
  <1> QED BY <1>6, <1>7, <1>8

-----------------------------------------------------------------------------
(* The marks that pass the head. *)

(* Every mark that passes is of a header or of data that the medium has. *)
LEMMA MarksAre ==
    ASSUME NEW m \in Passes
    PROVE  \/ \E r \in 0..(Revs - 1), i \in 1..Len(medium.secs) :
                 m = Mark("id", r, i, MarkBits(medium.type))
           \/ \E r \in -1..(Revs - 1), i \in 1..Len(medium.secs) :
                 Sector(i).data # 0 /\ m = Mark("data", r, i, Sector(i).data)
  BY DEF Passes

(* A revolution later is a track further on. *)
LEMMA Turns ==
    ASSUME NEW r \in Int, NEW s \in Int, NEW n \in Nat
    PROVE  /\ r * n \in Int
           /\ r < s => s * n >= r * n + n
           /\ r >= -1 => r * n >= -n
  OBVIOUS

(* What is known of the numbers in a mark. *)
LEMMA MarkNumbers ==
    ASSUME Layout(medium), NEW m \in Passes
    PROVE  /\ m.end \in Int /\ m.end + medium.len >= 0 /\ m.i \in 1..Len(medium.secs)
           /\ m.k \in {"id", "data"}
           /\ m.k = "id" => \E r \in 0..(Revs - 1) : m.at = r * medium.len + Sector(m.i).at
           /\ m.k = "data" =>
                 /\ Sector(m.i).data # 0
                 /\ \E r \in Int :
                       m.end = (r * medium.len + Sector(m.i).at) + Sector(m.i).data
  <1>1. medium.len \in Nat /\ Revs \in Nat
    BY DumpAssumption DEF Layout
  <1>2. MarkBits(medium.type) \in Nat
    BY DEF MarkBits
  <1>3. CASE \E r \in 0..(Revs - 1), i \in 1..Len(medium.secs) :
                 m = Mark("id", r, i, MarkBits(medium.type))
    <2>1. PICK r \in 0..(Revs - 1), i \in 1..Len(medium.secs) :
                 m = Mark("id", r, i, MarkBits(medium.type))
      BY <1>3
    <2>2. /\ m.k = "id" /\ m.i = i /\ m.at = r * medium.len + Sector(i).at
          /\ m.end = (r * medium.len + Sector(i).at) + MarkBits(medium.type)
      BY <2>1 DEF Mark
    <2>3. Sector(i).at \in Nat
      BY DEF Layout, OffIndex, Sector
    <2>4. r * medium.len \in Int /\ r * medium.len >= -medium.len
      <3>1. r \in Int /\ r >= -1
        BY <1>1
      <3> QED BY <1>1, <3>1, Turns
    <2> DEFINE rn == r * medium.len
               at == Sector(i).at
    <2>5. rn \in Int /\ rn >= -medium.len /\ at \in Nat /\ m.end = (rn + at) + MarkBits(medium.type)
      BY <2>2, <2>3, <2>4
    <2> HIDE DEF rn, at
    <2>6. m.end \in Int /\ m.end + medium.len >= 0
      BY <1>1, <1>2, <2>5
    <2> QED BY <2>2, <2>6
  <1>4. CASE \E r \in -1..(Revs - 1), i \in 1..Len(medium.secs) :
                 Sector(i).data # 0 /\ m = Mark("data", r, i, Sector(i).data)
    <2>1. PICK r \in -1..(Revs - 1), i \in 1..Len(medium.secs) :
                 Sector(i).data # 0 /\ m = Mark("data", r, i, Sector(i).data)
      BY <1>4
    <2>2. /\ m.k = "data" /\ m.i = i
          /\ m.end = (r * medium.len + Sector(i).at) + Sector(i).data
      BY <2>1 DEF Mark
    <2>3. Sector(i).at \in Nat
      BY DEF Layout, OffIndex, Sector
    <2>4. Sector(i).data \in (HeaderBits(medium.type) + 32)..1000
      BY <2>1 DEF Layout, HasData, Sector
    <2>5. HeaderBits(medium.type) \in Nat
      BY <1>2 DEF HeaderBits
    <2>6. r \in Int /\ r * medium.len \in Int /\ r * medium.len >= -medium.len
      <3>1. r \in Int /\ r >= -1
        BY <1>1
      <3> QED BY <1>1, <3>1, Turns
    <2>7. Sector(i).data \in Nat
      BY <2>4, <2>5
    <2> DEFINE rn == r * medium.len
               at == Sector(i).at
               d == Sector(i).data
    <2>8. rn \in Int /\ rn >= -medium.len /\ at \in Nat /\ d \in Nat /\ m.end = (rn + at) + d
      BY <2>2, <2>3, <2>6, <2>7
    <2> HIDE DEF rn, at, d
    <2>9. m.end \in Int /\ m.end + medium.len >= 0
      BY <1>1, <2>8
    <2>10. r \in Int /\ m.end = (r * medium.len + Sector(i).at) + Sector(i).data
           /\ Sector(i).data # 0
      BY <2>1, <2>2, <2>6
    <2> QED BY <2>2, <2>9, <2>10
  <1> QED BY <1>3, <1>4, MarksAre

(* There is a mark that comes first. *)
LEMMA FirstIs ==
    ASSUME Layout(medium), NEW marks \in SUBSET Passes, marks # {}
    PROVE  First(marks) \in marks
  <1> DEFINE E == {m.end + medium.len : m \in marks}
  <1>1. medium.len \in Nat
    BY DEF Layout
  <1>2. \A m \in marks : m.end \in Int /\ m.end + medium.len >= 0
    BY MarkNumbers
  <1>3. E \in SUBSET Nat /\ E # {}
    BY <1>1, <1>2
  <1>4. PICK m \in marks : \A x \in E : m.end + medium.len <= x
    <2>1. Min(E) \in E /\ \A x \in E : Min(E) <= x
      <3> HIDE DEF E
      <3> QED BY <1>3, LeastExists
    <2> QED BY <2>1
  <1>5. \A x \in marks : m.end <= x.end
    <2> TAKE x \in marks
    <2>1. m.end + medium.len <= x.end + medium.len
      BY <1>4
    <2> QED BY <1>1, <1>2, <2>1
  <1> QED BY <1>5 DEF First

(* The data mark that is found in time behind a header is that of its sector. *)
LEMMA OwnData ==
    ASSUME Layout(medium), HeaderRead, pc = "data", NEW m \in Near, m.k = "data"
    PROVE  m.i = id.i /\ Sector(id.i).data # 0 /\ m.end \in Int
  <1> SUFFICES ASSUME m.i # id.i PROVE FALSE
    <2>1. m \in Passes
      BY DEF Near
    <2> QED BY <2>1, MarkNumbers
  <1> DEFINE n == medium.len
             s == IF Fm(medium.type) THEN 0 ELSE 32
             H == HeaderBits(medium.type)
             x == Sector(id.i).at
             y == Sector(m.i).at
             d == Sector(m.i).data
  <1>1. m \in Passes /\ Seen(m) \in past..(past + 999)
    BY DEF Near
  <1>2. Seen(m) = m.end - s
    BY DEF Seen
  <1>3. id.i \in 1..Len(medium.secs) /\ m.i \in 1..Len(medium.secs) /\ d # 0
    BY <1>1, MarkNumbers DEF HeaderRead
  <1>4. PICK r \in 0..(Revs - 1) : past = (r * n + x) + H
    BY DEF HeaderRead
  <1>5. PICK q \in Int : m.end = (q * n + y) + d
    BY <1>1, MarkNumbers
  <1>6. n \in Nat /\ r \in Int /\ s \in 0..32 /\ H \in Nat
    BY DumpAssumption DEF Layout, HeaderBits, MarkBits
  <1>7. x \in Nat /\ y \in Nat
    BY <1>3 DEF Layout, OffIndex, Sector
  <1>8. d \in (H + 32)..1000
    BY <1>3 DEF Layout, HasData, Sector
  <1>9. x - y \in (1000 - n)..(-1000) \cup 1000..(n - 1000)
    <2>1. FarFrom(medium, medium.secs[id.i], medium.secs[m.i])
      BY <1>3, Zenon DEF Layout, Sector
    <2> QED BY <2>1 DEF FarFrom, Sector
  <1>10. /\ r * n \in Int /\ q * n \in Int
         /\ r < q => q * n >= r * n + n
         /\ q < r => r * n >= q * n + n
    BY <1>6, Turns
  <1> DEFINE rn == r * n
             qn == q * n
  <1>11. /\ rn \in Int /\ qn \in Int /\ (r < q => qn >= rn + n) /\ (q < r => rn >= qn + n)
         /\ (r = q => rn = qn)
         /\ ((qn + y) + d) - s \in ((rn + x) + H)..(((rn + x) + H) + 999)
    BY <1>1, <1>2, <1>4, <1>5, <1>10
  <1> HIDE DEF n, s, H, x, y, d, rn, qn
  <1>12. (qn + y) - (rn + x) >= 1000 \/ (qn + y) - (rn + x) <= -1000
    <2>1. CASE r = q
      BY <1>6, <1>7, <1>9, <1>11, <2>1
    <2>2. CASE r < q
      BY <1>6, <1>7, <1>9, <1>11, <2>2
    <2>3. CASE q < r
      BY <1>6, <1>7, <1>9, <1>11, <2>3
    <2> QED BY <1>6, <2>1, <2>2, <2>3
  <1> DEFINE a == rn + x
             b == qn + y
             seen == (b + d) - s
  <1>13. /\ a \in Int /\ b \in Int /\ d \in Int /\ d >= H + 32 /\ d <= 1000
         /\ s \in Int /\ s >= 0 /\ s <= 32 /\ H \in Nat
    BY <1>6, <1>7, <1>8, <1>11
  <1>14. seen >= a + H /\ seen <= (a + H) + 999 /\ (b - a >= 1000 \/ b - a <= -1000)
    BY <1>11, <1>12, <1>13
  <1>15. H >= 1
    BY DEF H, HeaderBits, MarkBits
  <1> HIDE DEF a, b
  <1> QED BY <1>13, <1>14, <1>15 DEF seen

-----------------------------------------------------------------------------
(* Sums, and the lengths that are made of them. *)

SumFrom(list, N, f) == f = [n \in 0..N |-> IF n = 0 THEN 0 ELSE f[n - 1] + list[n]]

(* The recursive function of Sums exists, and so has the values it is defined by. *)
LEMMA SumExists ==
    ASSUME NEW list, NEW N \in Nat
    PROVE  \E f : SumFrom(list, N, f)
  <1> DEFINE Bad == {n \in Nat : ~\E f : SumFrom(list, n, f)}
  <1> SUFFICES ASSUME Bad # {} PROVE FALSE
    OBVIOUS
  <1>1. Min(Bad) \in Bad /\ \A x \in Bad : Min(Bad) <= x
    <2>1. Bad \in SUBSET Nat
      OBVIOUS
    <2> HIDE DEF Bad
    <2> QED BY <2>1, LeastExists
  <1>2. PICK n \in Bad : \A x \in Bad : n <= x
    BY <1>1
  <1>3. n \in Nat /\ ~\E f : SumFrom(list, n, f)
    BY <1>2
  <1>4. CASE n = 0
    <2> DEFINE f == [k \in 0..0 |-> 0]
    <2>1. f = [k \in 0..0 |-> IF k = 0 THEN 0 ELSE f[k - 1] + list[k]]
      OBVIOUS
    <2>2. SumFrom(list, 0, f)
      BY <2>1 DEF SumFrom
    <2> QED BY <1>3, <1>4, <2>2
  <1>5. CASE n # 0
    <2>1. n - 1 \in Nat /\ n - 1 \notin Bad
      BY <1>2, <1>3, <1>5
    <2>2. PICK g : SumFrom(list, n - 1, g)
      BY <2>1
    <2> DEFINE f == [k \in 0..n |-> IF k = n THEN g[n - 1] + list[n] ELSE g[k]]
    <2>3. \A k \in 0..n : f[k] = IF k = 0 THEN 0 ELSE f[k - 1] + list[k]
      BY <1>3, <1>5, <2>2 DEF SumFrom
    <2>4. f = [k \in 0..n |-> IF k = 0 THEN 0 ELSE f[k - 1] + list[k]]
      <3>1. f = [k \in 0..n |-> f[k]]
        OBVIOUS
      <3> HIDE DEF f
      <3> QED BY <2>3, <3>1
    <2>5. SumFrom(list, n, f)
      <3> HIDE DEF f
      <3> QED BY <2>4 DEF SumFrom
    <2> QED BY <1>3, <2>5
  <1> QED BY <1>4, <1>5

LEMMA SumsIs ==
    ASSUME NEW list, Len(list) \in Nat
    PROVE  \A n \in 0..Len(list) :
              Sums(list)[n] = IF n = 0 THEN 0 ELSE Sums(list)[n - 1] + list[n]
  <1>1. \E f : f = [n \in 0..Len(list) |-> IF n = 0 THEN 0 ELSE f[n - 1] + list[n]]
    BY SumExists DEF SumFrom
  <1>2. Sums(list) = [n \in 0..Len(list) |->
                        IF n = 0 THEN 0 ELSE Sums(list)[n - 1] + list[n]]
    BY <1>1, Zenon DEF Sums
  <1> HIDE DEF Sums
  <1> QED BY <1>2

(* Sums of whole numbers are whole; of such as are at least c, each is c more.        *)
LEMMA SumsRise ==
    ASSUME NEW list, Len(list) \in Nat, NEW c \in Nat,
           \A k \in 1..Len(list) : list[k] \in Int /\ list[k] >= c
    PROVE  \A k \in 0..Len(list) :
              /\ Sums(list)[k] \in Int /\ Sums(list)[k] >= 0
              /\ \A i \in 0..(k - 1) : Sums(list)[k] >= Sums(list)[i] + c
  <1> DEFINE N == Len(list)
             S == Sums(list)
             Good(k) == /\ S[k] \in Int /\ S[k] >= 0
                        /\ \A i \in 0..(k - 1) : S[k] >= S[i] + c
             Bad == {k \in 0..N : ~Good(k)}
  <1>1. S[0] = 0 /\ \A k \in 0..N : k # 0 => S[k] = S[k - 1] + list[k]
    BY SumsIs
  <1> HIDE DEF S
  <1> SUFFICES ASSUME Bad # {} PROVE FALSE
    BY DEF S
  <1>2. PICK n \in Bad : \A x \in Bad : n <= x
    <2>1. Bad \in SUBSET Nat
      OBVIOUS
    <2> HIDE DEF Bad
    <2> QED BY <2>1, LeastExists
  <1>3. n \in 0..N /\ ~Good(n)
    BY <1>2
  <1>4. n # 0
    BY <1>1, <1>3
  <1>5. n - 1 \in 0..N /\ Good(n - 1)
    BY <1>2, <1>3, <1>4
  <1>6. S[n] = S[n - 1] + list[n] /\ list[n] \in Int /\ list[n] >= c
    BY <1>1, <1>3, <1>4
  <1>7. ASSUME NEW i \in 0..(n - 1) PROVE S[n] >= S[i] + c
    <2>1. CASE i = n - 1
      BY <1>5, <1>6, <2>1
    <2>2. CASE i # n - 1
      <3>1. i \in 0..((n - 1) - 1)
        BY <1>3, <2>2
      <3>2. S[n - 1] >= S[i] + c
        BY <1>5, <3>1
      <3>3. S[i] \in Int
        <4>1. i \notin Bad /\ i \in 0..N
          BY <1>2, <1>3, <3>1
        <4> QED BY <4>1
      <3> QED BY <1>5, <1>6, <3>2, <3>3
    <2> QED BY <2>1, <2>2
  <1>8. S[n] \in Int /\ S[n] >= 0
    BY <1>5, <1>6
  <1> QED BY <1>3, <1>7, <1>8

(* A sum of whole numbers of any sign. *)
LEMMA SumsWhole ==
    ASSUME NEW list, Len(list) \in Nat, \A k \in 1..Len(list) : list[k] \in Int
    PROVE  \A k \in 0..Len(list) : Sums(list)[k] \in Int
  <1> DEFINE N == Len(list)
             S == Sums(list)
             Bad == {k \in 0..N : S[k] \notin Int}
  <1>1. S[0] = 0 /\ \A k \in 0..N : k # 0 => S[k] = S[k - 1] + list[k]
    BY SumsIs
  <1> HIDE DEF S
  <1> SUFFICES ASSUME Bad # {} PROVE FALSE
    BY DEF S
  <1>2. PICK n \in Bad : \A x \in Bad : n <= x
    <2>1. Bad \in SUBSET Nat
      OBVIOUS
    <2> HIDE DEF Bad
    <2> QED BY <2>1, LeastExists
  <1>3. n # 0 /\ n \in 1..N /\ n - 1 \in 0..N /\ n - 1 \notin Bad
    BY <1>1, <1>2
  <1> QED BY <1>1, <1>2, <1>3

(* A sum of equal numbers. *)
LEMMA SumsEqual ==
    ASSUME NEW list, Len(list) \in Nat, NEW c \in Int,
           \A k \in 1..Len(list) : list[k] = c
    PROVE  \A k \in 0..Len(list) : Sums(list)[k] = k * c
  <1> DEFINE N == Len(list)
             S == Sums(list)
             Bad == {k \in 0..N : S[k] # k * c}
  <1>1. S[0] = 0 /\ \A k \in 0..N : k # 0 => S[k] = S[k - 1] + list[k]
    BY SumsIs
  <1> HIDE DEF S
  <1> SUFFICES ASSUME Bad # {} PROVE FALSE
    BY DEF S
  <1>2. PICK n \in Bad : \A x \in Bad : n <= x
    <2>1. Bad \in SUBSET Nat
      OBVIOUS
    <2> HIDE DEF Bad
    <2> QED BY <2>1, LeastExists
  <1>3. n # 0 /\ n \in 1..N /\ n - 1 \in 0..N /\ n - 1 \notin Bad
    BY <1>1, <1>2
  <1>4. S[n - 1] = (n - 1) * c /\ S[n] = S[n - 1] + c /\ S[n] # n * c
    BY <1>1, <1>2, <1>3
  <1>5. n * c = (n - 1) * c + c
    BY <1>3
  <1> QED BY <1>4, <1>5

(* Lengths of sectors and gaps. *)
LEMMA SizeIs ==
    ASSUME NEW no \in 0..7
    PROVE  Size(no) \in Nat /\ Size(no) >= 128
  BY DEF Size

LEMMA SectorBitsIs ==
    ASSUME NEW type, NEW no \in 0..7
    PROVE  SectorBits(type, no) \in Nat
  BY SizeIs DEF SectorBits

(* A quotient is 10 or more. *)
LEMMA CDivTen ==
    ASSUME NEW a \in Int, NEW b \in Nat \ {0}
    PROVE  CDiv(a, b) >= 10 <=> a >= 10 * b
  <1>1. CASE a >= 0
    <2> DEFINE q == a \div b
               r == a % b
    <2>1. q \in Int /\ r \in 0..(b - 1) /\ a = b * q + r
      BY <1>1
    <2>2. CDiv(a, b) = q
      BY <1>1 DEF CDiv
    <2> HIDE DEF q, r
    <2>3. q >= 10 => b * q >= b * 10
      BY <2>1
    <2>4. ~(q >= 10) => b * q <= b * 9
      BY <2>1
    <2>5. b * q \in Int /\ b * 10 = 10 * b /\ b * 9 = 9 * b
      BY <2>1
    <2> DEFINE p == b * q
    <2>6. p \in Int /\ a = p + r /\ (q >= 10 => p >= 10 * b) /\ (~(q >= 10) => p <= 9 * b)
      BY <2>1, <2>3, <2>4, <2>5
    <2> HIDE DEF p
    <2> QED BY <2>1, <2>2, <2>6
  <1>2. CASE ~(a >= 0)
    <2> DEFINE q == (-a) \div b
    <2>1. q \in Int /\ q >= 0
      BY <1>2
    <2>2. CDiv(a, b) = -q
      BY <1>2 DEF CDiv
    <2> HIDE DEF q
    <2> QED BY <1>2, <2>1, <2>2
  <1> QED BY <1>1, <1>2

(* The loop of choose_post_data_gap, which lengthens the track by 1000 bits at a time,   *)
(* ends, and at the first length at which the gaps are of 10 bytes.                      *)
THEOREM LeastRoom ==
    ASSUME NEW type, NEW iam, NEW free \in Int, NEW n \in Nat \ {0}
    PROVE  /\ Lengthened(type, iam, free, n) \in Nat
           /\ Gap(type, iam, free + 1000 * Lengthened(type, iam, free, n), n) >= 10
           /\ \A k \in 0..(Lengthened(type, iam, free, n) - 1) :
                 Gap(type, iam, free + 1000 * k, n) < 10
  <1> DEFINE need == Lead(type) + 16 * 40 + IF iam THEN IamBits(type) + 160 * (n + 1)
                                                   ELSE 160 * n
             L == Lengthened(type, iam, free, n)
  <1>1. need \in Nat
    BY DEF Lead, IamBits
  <1>2. ASSUME NEW f \in Int
        PROVE  Gap(type, iam, f, n) \in Int /\ (Gap(type, iam, f, n) >= 10 <=> f >= need)
    <2> DEFINE left == f - Lead(type) - 16 * 40
    <2>1. left \in Int /\ left - IamBits(type) \in Int /\ Lead(type) \in Nat /\ IamBits(type) \in Nat
      BY DEF Lead, IamBits
    <2>2. 16 * (n + 1) \in Nat \ {0} /\ 16 * n \in Nat \ {0}
      OBVIOUS
    <2>3. CASE iam
      <3>1. Gap(type, iam, f, n) = CDiv(left - IamBits(type), 16 * (n + 1))
        BY <2>3, Zenon DEF Gap
      <3>2. need = Lead(type) + 16 * 40 + (IamBits(type) + 160 * (n + 1))
        BY <2>3
      <3>3. Gap(type, iam, f, n) >= 10 <=> left - IamBits(type) >= 10 * (16 * (n + 1))
        BY <2>1, <2>2, <3>1, CDivTen
      <3>4. Gap(type, iam, f, n) \in Int
        BY <3>1, <2>1, <2>2 DEF CDiv
      <3> HIDE DEF need
      <3> QED BY <2>1, <3>2, <3>3, <3>4
    <2>4. CASE ~iam
      <3>1. Gap(type, iam, f, n) = CDiv(left, 16 * n)
        BY <2>4, Zenon DEF Gap
      <3>2. need = Lead(type) + 16 * 40 + 160 * n
        BY <2>4
      <3>3. Gap(type, iam, f, n) >= 10 <=> left >= 10 * (16 * n)
        BY <2>1, <2>2, <3>1, CDivTen
      <3>4. Gap(type, iam, f, n) \in Int
        BY <3>1, <2>1, <2>2 DEF CDiv
      <3> HIDE DEF need
      <3> QED BY <2>1, <3>2, <3>3, <3>4
    <2> QED BY <2>3, <2>4
  <1>3. L = IF free >= need THEN 0 ELSE (need - free + 999) \div 1000
    BY Zenon DEF Lengthened
  <1> HIDE DEF need, L
  <1>4. L \in Nat /\ free + 1000 * L >= need /\ (L # 0 => free + 1000 * (L - 1) < need)
    BY <1>1, <1>3
  <1>5. Gap(type, iam, free + 1000 * L, n) >= 10
    BY <1>2, <1>4
  <1>6. ASSUME NEW k \in 0..(L - 1) PROVE Gap(type, iam, free + 1000 * k, n) < 10
    <2>1. free + 1000 * k \in Int /\ ~(free + 1000 * k >= need)
      BY <1>1, <1>4
    <2>2. Gap(type, iam, free + 1000 * k, n) \in Int
          /\ ~(Gap(type, iam, free + 1000 * k, n) >= 10)
      BY <1>2, <2>1
    <2> QED BY <2>2
  <1> QED BY <1>4, <1>5, <1>6 DEF L

LEMMA GapWhole ==
    ASSUME NEW type, NEW iam, NEW free \in Int, NEW n \in Nat \ {0}
    PROVE  Gap(type, iam, free, n) \in Int
  <1> DEFINE left == free - Lead(type) - 16 * 40
  <1>1. \A a \in Int, b \in Nat \ {0} : CDiv(a, b) \in Int
    BY DEF CDiv
  <1>2. left \in Int /\ left - IamBits(type) \in Int
    BY DEF Lead, IamBits
  <1>3. 16 * (n + 1) \in Nat \ {0} /\ 16 * n \in Nat \ {0}
    OBVIOUS
  <1>4. CASE iam
    <2>1. Gap(type, iam, free, n) = CDiv(left - IamBits(type), 16 * (n + 1))
      BY <1>4, Zenon DEF Gap
    <2> HIDE DEF left
    <2> QED BY <1>1, <1>2, <1>3, <2>1
  <1>5. CASE ~iam
    <2>1. Gap(type, iam, free, n) = CDiv(left, 16 * n)
      BY <1>5, Zenon DEF Gap
    <2> HIDE DEF left
    <2> QED BY <1>1, <1>2, <1>3, <2>1
  <1> QED BY <1>4, <1>5

(* The gaps are chosen for any track of one sector or more. *)
LEMMA GapIs ==
    ASSUME NEW type, NEW iam, NEW free \in Int, NEW n \in Nat \ {0}
    PROVE  /\ PostDataGap(type, iam, free, n).gap \in Nat
           /\ PostDataGap(type, iam, free, n).grown \in Nat
  <1> DEFINE k == Lengthened(type, iam, free, n)
             g == Gap(type, iam, free + 1000 * k, n)
  <1>1. k \in Nat
    BY DEF Lengthened, Lead, IamBits
  <1> HIDE DEF k
  <1>2. g \in Int
    <2>1. free + 1000 * k \in Int
      BY <1>1
    <2> QED BY <2>1, GapWhole
  <1>3. PostDataGap(type, iam, free, n) = [gap |-> g % 256, grown |-> 1000 * k]
    BY DEF PostDataGap, k
  <1> HIDE DEF g
  <1> QED BY <1>1, <1>2, <1>3

(* setup_ibm_mfm_track: a track that it does not refuse has room for its sectors and the *)
(* gaps chosen for them, however many sectors there are and of whatever size.           *)
THEOREM SetupFits ==
    ASSUME NEW type, NEW no \in 0..7, NEW secs, Len(secs) \in Nat \ {0},
           \A k \in 1..Len(secs) : secs[k].idam.no = no,
           SetupFree(type, no, Len(secs)) >= 0
    PROVE  Fits(Setup(type, no, secs))
  <1> DEFINE n == Len(secs)
             free == SetupFree(type, no, n)
             has == TRUE
             L == Lengthened(type, has, free, n)
             g == Gap(type, has, free + 1000 * L, n)
             gap == g % 256
             t == Setup(type, no, secs)
             sb == SectorBits(type, no)
             iam == IamBits(type)
             lead == Lead(type)
             room == SetupBits(type)
             list == [m \in 1..n |-> SectorBits(type, secs[m].idam.no) + 16 * gap]
  <1>1. n \in Nat \ {0} /\ sb \in Nat /\ iam \in Nat /\ lead \in Nat /\ room \in Nat
    BY SectorBitsIs DEF IamBits, Lead, SetupBits, DefaultBits
  <1>2. free = room - n * sb /\ free >= 0
    BY Zenon DEF SetupFree
  <1>3. free \in Int
    <2> HIDE DEF sb, room
    <2>1. n * sb \in Int
      BY <1>1
    <2> QED BY <1>1, <1>2, <2>1
  <1>4. t = [type |-> type, iam |-> TRUE, gap |-> gap, total |-> room + 1000 * L, secs |-> secs]
    BY Zenon DEF Setup, PostDataGap
  <1>5. has
    OBVIOUS
  <1> HIDE DEF free, has
  <1>6. L \in Nat /\ g >= 10
    BY <1>1, <1>3, LeastRoom
  <1>7. g = CDiv((free + 1000 * L) - lead - 16 * 40 - iam, 16 * (n + 1))
    BY <1>5, Zenon DEF Gap
  <1> HIDE DEF L, g, iam, lead, room, sb
  <1>8. g \in Nat /\ 16 * (n + 1) * g <= (free + 1000 * L) - lead - 16 * 40 - iam
    <2> DEFINE a == (free + 1000 * L) - lead - 16 * 40 - iam
               b == 16 * (n + 1)
    <2>1. a \in Int /\ b \in Nat \ {0}
      BY <1>1, <1>3, <1>6
    <2>2. g = CDiv(a, b)
      BY <1>7
    <2> HIDE DEF a, b
    <2>3. a >= 10 * b
      BY <1>6, <2>1, <2>2, CDivTen
    <2>4. a >= 0
      BY <2>1, <2>3
    <2>5. g = a \div b
      BY <2>2, <2>4 DEF CDiv
    <2>6. a = b * g + (a % b) /\ a % b >= 0 /\ g \in Int
      BY <2>1, <2>4, <2>5
    <2>7. b * g \in Int /\ b * g <= a
      BY <2>1, <2>6
    <2> QED BY <1>6, <2>6, <2>7 DEF a, b
  <1>9. gap \in Nat /\ gap <= g
    BY <1>8
  <1> HIDE DEF gap
  <1>10. 16 * (n + 1) * gap <= 16 * (n + 1) * g
    <2> DEFINE b == 16 * (n + 1)
    <2>1. b \in Nat
      BY <1>1
    <2> HIDE DEF b
    <2>2. b * gap <= b * g
      BY <1>8, <1>9, <2>1
    <2> QED BY <2>2 DEF b
  <1>11. Sums(list)[n] = n * (sb + 16 * gap)
    <2>1. Len(list) = n /\ \A k \in 1..n : list[k] = sb + 16 * gap
      BY <1>1 DEF sb
    <2>2. sb + 16 * gap \in Int /\ n \in 0..n
      BY <1>1, <1>9
    <2> HIDE DEF list
    <2> QED BY <1>1, <2>1, <2>2, SumsEqual
  <1>12. Ahead(t, n + 1) = iam + 16 * gap + Sums(list)[n]
    <2>1. t.iam /\ t.type = type /\ t.gap = gap /\ t.secs = secs
      BY <1>4
    <2> HIDE DEF t
    <2>2. (n + 1) - 1 = n
      BY <1>1
    <2>3. Ahead(t, n + 1) = iam + 16 * gap + Sums(list)[(n + 1) - 1]
      BY <2>1, Zenon DEF Ahead, iam
    <2> QED BY <2>2, <2>3
  <1>13. iam + 16 * gap + n * (sb + 16 * gap) <= room + 1000 * L
    <2> DEFINE p == 16 * (n + 1) * gap
               q == 16 * (n + 1) * g
               r == n * sb
    <2>1. p <= q /\ q <= (free + 1000 * L) - lead - 16 * 40 - iam /\ free = room - r
      BY <1>2, <1>8, <1>10
    <2>2. p \in Int /\ q \in Int /\ r \in Int
      BY <1>1, <1>8, <1>9
    <2>3. 16 * gap + n * (sb + 16 * gap) = p + r
      BY <1>1, <1>9
    <2> DEFINE s == n * (sb + 16 * gap)
    <2>4. s \in Int /\ 16 * gap + s = p + r
      BY <1>1, <1>9, <2>3
    <2> HIDE DEF p, q, r, s
    <2>5. iam + 16 * gap + s <= room + 1000 * L
      BY <1>1, <1>3, <1>6, <1>9, <2>1, <2>2, <2>4
    <2> QED BY <2>5 DEF s
  <1>14. Len(t.secs) = n /\ t.total = room + 1000 * L
    BY <1>4
  <1> HIDE DEF t, list
  <1> QED BY <1>11, <1>12, <1>13, <1>14 DEF Fits, t

-----------------------------------------------------------------------------
(* Steps that do not touch the list. *)
LEMMA SameKeeps ==
    ASSUME IbmInv, HeaderRead', UNCHANGED <<medium, ibm_secs, wellRead, ti, imd>>
    PROVE  IbmInv'
  BY DEF IbmInv

(* _ibm_scan_idam leaves the head behind the header it has read. *)
LEMMA HeaderKeeps ==
    ASSUME IbmInv, NEW m \in Passes, m.k = "id", NEW harm, ReadHeader(m, harm)
    PROVE  IbmInv'
  <1>1. Layout(medium) /\ UNCHANGED <<medium, ibm_secs, wellRead, ti, imd>>
    BY DEF IbmInv, ReadHeader
  <1>2. SUFFICES ASSUME pc' = "data"
                 PROVE  /\ id'.i \in 1..Len(medium.secs) /\ Sector(id'.i).no \in 0..7
                        /\ id'.j \in medium.wobble
                        /\ \E r \in 0..(Revs - 1) :
                              past' = (r * medium.len + Sector(id'.i).at) + HeaderBits(medium.type)
    <2>1. HeaderRead'
      BY <1>1, <1>2 DEF HeaderRead, Sector
    <2> QED BY <1>1, <2>1, SameKeeps
  <1>3. /\ past' = m.at + HeaderBits(medium.type) /\ ~(Sector(m.i).no > 7)
        /\ \E j \in medium.wobble : id' = [i |-> m.i, j |-> j]
    BY <1>2 DEF ReadHeader
  <1>4. PICK r \in 0..(Revs - 1) : m.at = r * medium.len + Sector(m.i).at
    BY <1>1, MarkNumbers
  <1>5. m.i \in 1..Len(medium.secs)
    BY <1>1, MarkNumbers
  <1>6. Sector(m.i).no \in 0..7
    <2>1. Sector(m.i).no \in Nat
      BY <1>1, <1>5 DEF Layout, OffIndex, Sector
    <2> QED BY <1>3, <2>1
  <1>7. id'.i = m.i /\ id'.j \in medium.wobble
    BY <1>3
  <1> QED BY <1>3, <1>4, <1>5, <1>6, <1>7

LEMMA LeftIs ==
    ASSUME NEW marks, NEW harm
    PROVE  Left(marks, harm) \subseteq marks
  BY DEF Left

\* What is put in the list when the data at m is read, and where that ends.
EndOf(m) == m.end + 16 * (Size(Sector(id.i).no) + 2)
Good(m, harm) == harm # "field" /\ Sector(m.i).crc /\ Sector(m.i).no = Sector(id.i).no
Reading(m, harm) ==
    [offset |-> (Sector(id.i).at + id.j) % medium.len,
     end_offset |-> (EndOf(m) + id.j - 1) % medium.len,
     i |-> id.i, good |-> Good(m, harm), idam |-> Idam(Sector(id.i)),
     mark |-> Sector(m.i).mark,
     dat |-> IF Good(m, harm) THEN Sector(m.i).dat ELSE "junk"]

(* Data read is that of the header before it. *)
LEMMA DataRead ==
    ASSUME IbmInv, ReadData
    PROVE  \E harm \in Harm, m \in Near :
              /\ m.k = "data" /\ m.i = id.i /\ m.end \in Int /\ Misread(harm)
              /\ Entry(medium, Reading(m, harm))
              /\ Reading(m, harm).offset = Sector(id.i).at + id.j
              /\ \/ pc' = "over" /\ EndOf(m) > Limit /\ UNCHANGED <<past, ibm_secs, wellRead>>
                 \/ /\ pc' = "scan" /\ ~(EndOf(m) > Limit) /\ past' = EndOf(m)
                    /\ ibm_secs' = IF Good(m, harm) \/ Recovery(medium.type)
                                   THEN Placed(Reading(m, harm)) ELSE ibm_secs
                    /\ wellRead' = IF Good(m, harm) /\ m.i = id.i
                                   THEN wellRead \cup {id.i} ELSE wellRead
  <1>1. PICK harm \in Harm :
          /\ Left(Near, harm) # {} /\ First(Left(Near, harm)).k = "data" /\ Misread(harm)
          /\ IF EndOf(First(Left(Near, harm))) > Limit
             THEN pc' = "over" /\ UNCHANGED <<past, ibm_secs, wellRead>>
             ELSE /\ pc' = "scan" /\ past' = EndOf(First(Left(Near, harm)))
                  /\ ibm_secs' = IF Good(First(Left(Near, harm)), harm) \/ Recovery(medium.type)
                                 THEN Placed(Reading(First(Left(Near, harm)), harm))
                                 ELSE ibm_secs
                  /\ wellRead' = IF Good(First(Left(Near, harm)), harm)
                                      /\ First(Left(Near, harm)).i = id.i
                                 THEN wellRead \cup {id.i} ELSE wellRead
    BY Zenon DEF ReadData, EndOf, Good, Reading
  <1> DEFINE m == First(Left(Near, harm))
             e == Reading(m, harm)
             good == Good(m, harm)
             end == EndOf(m)
  <1>2. /\ m.k = "data" /\ Misread(harm)
        /\ \/ pc' = "over" /\ end > Limit /\ UNCHANGED <<past, ibm_secs, wellRead>>
           \/ /\ pc' = "scan" /\ ~(end > Limit) /\ past' = end
              /\ ibm_secs' = IF good \/ Recovery(medium.type) THEN Placed(e) ELSE ibm_secs
              /\ wellRead' = IF good /\ m.i = id.i THEN wellRead \cup {id.i} ELSE wellRead
    BY <1>1, Zenon
  <1>3. Layout(medium) /\ HeaderRead /\ pc = "data"
    BY DEF IbmInv, ReadData
  <1>4. m \in Near
    <2>1. Near \subseteq Passes /\ Left(Near, harm) \subseteq Near
      BY LeftIs DEF Near
    <2> QED BY <1>1, <1>3, <2>1, FirstIs
  <1> HIDE DEF m
  <1>5. m.i = id.i /\ Sector(id.i).data # 0 /\ m.end \in Int
    BY <1>2, <1>3, <1>4, OwnData
  <1>6. id.i \in 1..Len(medium.secs) /\ Sector(id.i).no \in 0..7 /\ id.j \in medium.wobble
    BY <1>3 DEF HeaderRead
  <1>7. /\ medium.len \in Nat \ {0} /\ id.j \in Int /\ Sector(id.i).at \in Nat
        /\ Sector(id.i).at + id.j \in 0..(medium.len - 1)
    BY <1>3, <1>6 DEF Layout, OffIndex, Sector
  <1>8. (Sector(id.i).at + id.j) % medium.len = Sector(id.i).at + id.j
    <2> DEFINE a == Sector(id.i).at + id.j
    <2>1. a \in 0..(medium.len - 1)
      BY <1>7
    <2> HIDE DEF a
    <2>2. a % medium.len = a
      BY <1>7, <2>1, NoTurn
    <2> QED BY <2>2 DEF a
  <1>9. end \in Int
    <2>1. Size(Sector(id.i).no) \in Nat
      BY <1>6, SizeIs
    <2> QED BY <1>5, <2>1 DEF EndOf
  <1>10. (end + id.j - 1) % medium.len \in Int
    <2> HIDE DEF end
    <2> QED BY <1>7, <1>9
  <1>11. e.i = id.i /\ e.offset = Sector(id.i).at + id.j /\ e.end_offset \in Int
         /\ e.idam = Idam(Sector(id.i))
    BY <1>8, <1>10 DEF Reading
  <1>12. e.good => e.dat = Sector(id.i).dat
    <2>1. (e.good <=> good) /\ e.dat = IF good THEN Sector(m.i).dat ELSE "junk"
      BY Zenon DEF Reading
    <2> HIDE DEF good, e
    <2> QED BY <1>5, <2>1
  <1> HIDE DEF e, good, end
  <1>13. Entry(medium, e)
    BY <1>5, <1>6, <1>11, <1>12 DEF Entry, Sector
  <1> QED BY <1>2, <1>4, <1>5, <1>11, <1>13, Zenon DEF e, good, end

(* Data read is put in the list with the header before it, whose sector it is of. *)
LEMMA DataKeeps ==
    ASSUME IbmInv, ReadData
    PROVE  IbmInv'
  <1>1. PICK harm \in Harm, m \in Near :
          /\ Entry(medium, Reading(m, harm)) /\ m.i = id.i
          /\ pc' = "over" \/ pc' = "scan"
          /\ \/ ibm_secs' = ibm_secs /\ wellRead' = wellRead
             \/ /\ ibm_secs' = IF Good(m, harm) \/ Recovery(medium.type)
                               THEN Placed(Reading(m, harm)) ELSE ibm_secs
                /\ wellRead' = IF Good(m, harm) /\ m.i = id.i
                               THEN wellRead \cup {id.i} ELSE wellRead
    BY DataRead, Zenon
  <1> DEFINE e == Reading(m, harm)
             good == Good(m, harm)
  <1>2. Layout(medium) /\ Found(medium, ibm_secs, wellRead) /\ UNCHANGED <<medium, ti, imd>>
    BY DEF IbmInv, ReadData
  <1>3. (e.good <=> good) /\ e.i = id.i
    BY Zenon DEF Reading
  <1> HIDE DEF e, good
  <1>4. Found(medium, Placed(e), IF e.good THEN wellRead \cup {e.i} ELSE wellRead)
    BY <1>1, <1>2, PlacedKeeps DEF e
  <1>5. Found(medium, ibm_secs', wellRead')
    BY <1>1, <1>2, <1>3, <1>4 DEF e, good
  <1>6. HeaderRead'
    BY <1>1 DEF HeaderRead
  <1>7. Found(medium, ibm_secs, wellRead)' /\ Layout(medium)'
    BY <1>2, <1>5
  <1> QED BY <1>2, <1>6, <1>7 DEF IbmInv

(* What is made of the list can be written out, *)
LEMMA AccountKeeps ==
    ASSUME IbmInv, Account
    PROVE  IbmInv'
  <1> DEFINE n == Len(ibm_secs)
             type == medium.type
             list == [k \in 1..n |-> Distance(k) - PreSync(type)]
             free == DensityBits(type) - medium.len + Sums(list)[n]
             chosen == PostDataGap(type, medium.iam, free, n)
  <1>1. /\ Layout(medium) /\ HeaderRead /\ Found(medium, ibm_secs, wellRead)
        /\ imd # NoFile => Len(imd.secs) \in Nat \ {0} /\ imd.no \in 0..7
        /\ UNCHANGED <<medium, ibm_secs, wellRead, imd>> /\ pc' = "done"
        /\ ti' = NoTrack \/ (ibm_secs # <<>> /\ ti' = Analysed)
    BY DEF IbmInv, Account
  <1>2. HeaderRead' /\ Found(medium, ibm_secs, wellRead)' /\ Layout(medium)'
    <2>1. HeaderRead'
      BY <1>1 DEF HeaderRead
    <2> QED BY <1>1, <2>1
  <1>3. ASSUME ibm_secs # <<>> PROVE Writable(Analysed)
    <2>1. n \in Nat \ {0}
      <3>1. IsList(ibm_secs)
        BY <1>1 DEF Found
      <3> QED BY <1>3, <3>1, EmptySeq, LenProperties DEF IsList
    <2>2. medium.len \in Nat \ {0} /\ medium.long \in Nat
      BY <1>1 DEF Layout
    <2>3. ASSUME NEW k \in 1..n
          PROVE  ibm_secs[k].offset \in Int /\ ibm_secs[k].end_offset \in Int
                 /\ ibm_secs[k].idam.no \in 0..7
      <3>1. Entry(medium, ibm_secs[k])
        BY <1>1 DEF Found
      <3>2. ibm_secs[k].offset \in Int
        BY <1>1, <3>1, ReadApart
      <3>3. ibm_secs[k].idam.no = medium.secs[ibm_secs[k].i].no
        BY <3>1 DEF Entry, Idam
      <3> QED BY <3>1, <3>2, <3>3 DEF Entry
    <2>4. ASSUME NEW k \in 1..n PROVE Distance(k) \in Int
      <3> DEFINE l == (k % n) + 1
      <3>1. l \in 1..n
        BY <2>1
      <3> HIDE DEF l
      <3>2. ibm_secs[l].offset - ibm_secs[k].end_offset \in Int
        BY <2>3, <3>1
      <3>3. Distance(k) = IF ibm_secs[l].offset - ibm_secs[k].end_offset <= 0
                          THEN ibm_secs[l].offset - ibm_secs[k].end_offset + medium.len
                          ELSE ibm_secs[l].offset - ibm_secs[k].end_offset
        BY DEF Distance, l
      <3> QED BY <2>2, <3>2, <3>3
    <2>5. Sums(list)[n] \in Int
      <3>1. Len(list) = n
        BY <2>1
      <3>2. \A k \in 1..n : list[k] \in Int
        BY <2>4 DEF PreSync
      <3> HIDE DEF list
      <3>3. n \in 0..Len(list) /\ Len(list) \in Nat
        BY <2>1, <3>1
      <3> QED BY <3>1, <3>2, <3>3, SumsWhole
    <2>6. DensityBits(type) \in Nat \ {0}
      BY DEF DensityBits, DefaultBits
    <2> HIDE DEF list
    <2>7. free \in Int
      BY <2>2, <2>5, <2>6
    <2> HIDE DEF free
    <2>8. chosen.gap \in Nat /\ chosen.grown \in Nat
      BY <2>1, <2>7, GapIs
    <2> HIDE DEF chosen
    <2>9. ASSUME NEW total \in Nat \ {0} PROVE LongBits(medium, total) \in Nat \ {0}
      <3>1. \E x \in {102200, 103300, 104400, 105500, 106600} :
                /\ x = 106600 \/ medium.len <= x + 550
                /\ x = 102200 \/ medium.len > x - 550
        BY <2>2
      <3>2. NearestLong(medium) \in {102200, 103300, 104400, 105500, 106600}
        BY <3>1 DEF NearestLong
      <3> QED BY <2>2, <2>9, <3>2 DEF LongBits
    <2> DEFINE secs == [k \in 1..n |-> [idam |-> ibm_secs[k].idam, mark |-> ibm_secs[k].mark,
                                        good |-> ibm_secs[k].good, dat |-> ibm_secs[k].dat]]
               total == LongBits(medium, DensityBits(type) + chosen.grown)
    <2>10. Len(secs) = n /\ \A k \in 1..n : secs[k].idam.no \in 0..7
      BY <2>1, <2>3
    <2>11. total \in Nat \ {0}
      <3>1. DensityBits(type) + chosen.grown \in Nat \ {0}
        BY <2>6, <2>8
      <3> QED BY <2>9, <3>1
    <2>12. Analysed = [type |-> type, iam |-> medium.iam, gap |-> chosen.gap, total |-> total,
                       secs |-> secs]
      BY Zenon DEF Analysed, chosen, free, list
    <2> HIDE DEF secs, total
    <2> QED BY <2>1, <2>8, <2>10, <2>11, <2>12 DEF Writable
  <1>4. ti' # NoTrack => Writable(ti')
    BY <1>1, <1>3
  <1>5. (ti # NoTrack => Writable(ti))'
    BY <1>4 DEF Writable
  <1> QED BY <1>1, <1>2, <1>5 DEF IbmInv

(* saved in an image, *)
LEMMA CloseKeeps ==
    ASSUME IbmInv, CloseImd
    PROVE  IbmInv'
  <1>1. /\ Layout(medium) /\ HeaderRead /\ Found(medium, ibm_secs, wellRead)
        /\ Writable(ti) /\ UNCHANGED <<medium, ibm_secs, wellRead>> /\ pc' = "closed"
        /\ ti' = NoTrack
        /\ imd' = NoFile \/ imd' = Saved(ti, medium.cyl, medium.head)
    BY DEF IbmInv, CloseImd
  <1>2. Len(ti.secs) \in Nat \ {0} /\ ti.secs[1].idam.no \in 0..7
    BY <1>1 DEF Writable
  <1> DEFINE s == Saved(ti, medium.cyl, medium.head)
  <1>3. Len(s.secs) \in Nat \ {0} /\ s.no \in 0..7
    BY <1>2 DEF Saved
  <1> HIDE DEF s
  <1>4. imd' # NoFile => Len(imd'.secs) \in Nat \ {0} /\ imd'.no \in 0..7
    BY <1>1, <1>3 DEF s
  <1>5. HeaderRead'
    BY <1>1 DEF HeaderRead
  <1>6. Found(medium, ibm_secs, wellRead)' /\ Layout(medium)'
    BY <1>1
  <1>7. (ti # NoTrack => Writable(ti))'
    BY <1>1
  <1>8. (imd # NoFile => Len(imd.secs) \in Nat \ {0} /\ imd.no \in 0..7)'
    BY <1>4
  <1> QED BY <1>5, <1>6, <1>7, <1>8 DEF IbmInv

(* loaded from it, *)
LEMMA OpenKeeps ==
    ASSUME IbmInv, OpenImd
    PROVE  IbmInv'
  <1> DEFINE n == Len(imd.secs)
             secs == [k \in 1..n |-> Loaded(k)]
             t == Setup(imd.mode, imd.no, secs)
  <1>1. /\ Layout(medium) /\ HeaderRead /\ Found(medium, ibm_secs, wellRead)
        /\ ti # NoTrack => Writable(ti)
        /\ imd # NoFile => n \in Nat \ {0} /\ imd.no \in 0..7
        /\ UNCHANGED <<medium, ibm_secs, wellRead, imd>> /\ pc' \in {"done", "refused"}
        /\ ti' = ti \/ (imd # NoFile /\ ti' = t)
    BY DEF IbmInv, OpenImd
  <1>2. HeaderRead' /\ Found(medium, ibm_secs, wellRead)' /\ Layout(medium)'
    <2>1. HeaderRead'
      BY <1>1 DEF HeaderRead
    <2> QED BY <1>1, <2>1
  <1>3. ASSUME imd # NoFile PROVE Writable(t)
    <2>1. n \in Nat \ {0} /\ imd.no \in 0..7
      BY <1>1, <1>3
    <2>2. Len(secs) = n /\ \A k \in 1..n : secs[k].idam.no = imd.no
      BY <2>1 DEF Loaded
    <2> HIDE DEF secs
    <2> DEFINE free == SetupFree(imd.mode, imd.no, n)
               chosen == PostDataGap(imd.mode, TRUE, free, n)
    <2>3. SetupBits(imd.mode) \in Nat \ {0}
      BY DEF SetupBits, DefaultBits
    <2>4. free \in Int
      <3>1. SectorBits(imd.mode, imd.no) \in Nat
        BY <2>1, SectorBitsIs
      <3>2. n * SectorBits(imd.mode, imd.no) \in Int
        BY <2>1, <3>1
      <3> QED BY <2>3, <3>2 DEF SetupFree
    <2> HIDE DEF free
    <2>5. chosen.gap \in Nat /\ chosen.grown \in Nat
      BY <2>1, <2>4, GapIs
    <2>6. t = [type |-> imd.mode, iam |-> TRUE, gap |-> chosen.gap,
               total |-> SetupBits(imd.mode) + chosen.grown, secs |-> secs]
      BY <2>2, Zenon DEF Setup, free
    <2> HIDE DEF chosen, t
    <2> QED BY <2>1, <2>2, <2>3, <2>5, <2>6 DEF Writable
  <1> HIDE DEF t
  <1>4. ti' # NoTrack => Writable(ti')
    BY <1>1, <1>3
  <1>5. (ti # NoTrack => Writable(ti))'
    BY <1>4 DEF Writable
  <1> QED BY <1>1, <1>2, <1>5 DEF IbmInv

-----------------------------------------------------------------------------
(* A track written out has its sectors in order, and none runs into the next or past  *)
(* the index: what is dumped from it is laid out as any medium is.                    *)
LEMMA WrittenLayout ==
    ASSUME NEW t, Writable(t), Fits(t)
    PROVE  Layout(Written(t))
  <1> DEFINE n == Len(t.secs)
             list == [m \in 1..n |-> SectorBits(t.type, t.secs[m].idam.no) + 16 * t.gap]
             first == IF t.iam THEN IamBits(t.type) + 16 * t.gap ELSE 0
             pre == IF Fm(t.type) THEN 0 ELSE PreSync(t.type)
             c == IF Fm(t.type) THEN 2576 ELSE 3040
             x(k) == Lead(t.type) + Ahead(t, k) + pre
             m == Written(t)
  <1>1. n \in Nat \ {0} /\ t.gap \in Nat /\ t.total \in Nat \ {0}
        /\ \A k \in 1..n : t.secs[k].idam.no \in 0..7
    BY DEF Writable
  <1>2. first \in Nat /\ Lead(t.type) \in Nat /\ pre \in Nat /\ c \in Nat
        /\ Lead(t.type) + pre + 1000 <= c
    BY <1>1 DEF IamBits, Lead, PreSync
  <1>3. Len(list) = n /\ \A k \in 1..n : list[k] \in Int /\ list[k] >= c
    <2>1. \A k \in 1..n : list[k] = SectorBits(t.type, t.secs[k].idam.no) + 16 * t.gap
      OBVIOUS
    <2>2. Len(list) = n
      BY <1>1
    <2>3. ASSUME NEW k \in 1..n PROVE list[k] \in Int /\ list[k] >= c
      <3>1. SectorBits(t.type, t.secs[k].idam.no) \in Nat
            /\ SectorBits(t.type, t.secs[k].idam.no) >= c
        <4> DEFINE no == t.secs[k].idam.no
                   type == t.type
        <4>1. no \in 0..7
          BY <1>1
        <4> HIDE DEF no
        <4>2. c = IF Fm(type) THEN 2576 ELSE 3040
          OBVIOUS
        <4> HIDE DEF type, c
        <4>3. Size(no) \in Nat /\ Size(no) >= 128
          BY <4>1, SizeIs
        <4> DEFINE size == Size(no)
        <4> HIDE DEF size
        <4>4. SectorBits(type, no) = 16 * ((IF Fm(type) THEN 33 ELSE 62) + size)
          BY DEF SectorBits, size
        <4>5. SectorBits(type, no) \in Nat /\ SectorBits(type, no) >= c
          BY <4>2, <4>3, <4>4 DEF size
        <4> QED BY <4>5 DEF no, type
      <3> HIDE DEF c, list
      <3> QED BY <1>1, <1>2, <2>1, <3>1
    <2> QED BY <2>2, <2>3
  <1>4. \A k \in 1..(n + 1) : Ahead(t, k) = first + Sums(list)[k - 1]
    BY Zenon DEF Ahead
  <1> HIDE DEF list, first, pre, c
  <1>5. \A k \in 0..n : /\ Sums(list)[k] \in Int /\ Sums(list)[k] >= 0
                        /\ \A i \in 0..(k - 1) : Sums(list)[k] >= Sums(list)[i] + c
    <2>2. Len(list) \in Nat /\ \A k \in 1..Len(list) : list[k] \in Int /\ list[k] >= c
      BY <1>1, <1>3
    <2>3. \A k \in 0..Len(list) :
              /\ Sums(list)[k] \in Int /\ Sums(list)[k] >= 0
              /\ \A i \in 0..(k - 1) : Sums(list)[k] >= Sums(list)[i] + c
      BY <1>2, <2>2, SumsRise, Zenon
    <2> QED BY <1>3, <2>3
  <1>6. ASSUME NEW k \in 1..(n + 1)
        PROVE  /\ Ahead(t, k) \in Nat
               /\ \A i \in 1..(k - 1) : Ahead(t, k) >= Ahead(t, i) + c
    <2>1. Ahead(t, k) = first + Sums(list)[k - 1] /\ k - 1 \in 0..n
      BY <1>1, <1>4
    <2>2. ASSUME NEW i \in 1..(k - 1) PROVE Ahead(t, k) >= Ahead(t, i) + c
      <3>1. i - 1 \in 0..((k - 1) - 1) /\ i - 1 \in 0..n /\ i \in 1..(n + 1)
        BY <1>1
      <3>2. Sums(list)[k - 1] >= Sums(list)[i - 1] + c
        BY <1>5, <2>1, <3>1
      <3>3. Sums(list)[k - 1] \in Int /\ Sums(list)[i - 1] \in Int
        BY <1>5, <2>1, <3>1
      <3>4. Ahead(t, i) = first + Sums(list)[i - 1]
        BY <1>4, <3>1
      <3> DEFINE a == Sums(list)[k - 1]
                 b == Sums(list)[i - 1]
      <3>5. a \in Int /\ b \in Int /\ a >= b + c /\ Ahead(t, i) = first + b
            /\ Ahead(t, k) = first + a
        BY <2>1, <3>2, <3>3, <3>4
      <3> HIDE DEF a, b
      <3> QED BY <1>2, <3>5
    <2>3. Sums(list)[k - 1] \in Int /\ Sums(list)[k - 1] >= 0
      BY <1>5, <2>1
    <2>4. Ahead(t, k) \in Nat
      BY <1>2, <2>1, <2>3
    <2> QED BY <2>2, <2>4
  <1>7. Ahead(t, n + 1) <= t.total
    BY DEF Fits
  <1>8. ASSUME NEW k \in 1..n
        PROVE  /\ Ahead(t, k) \in Nat /\ Ahead(t, k) + c <= t.total
               /\ x(k) \in Nat /\ x(k) + 1000 <= t.total
               /\ \A i \in 1..n : i < k => x(k) >= x(i) + c /\ x(k) <= x(i) + (t.total - 1000)
    <2>1. n + 1 \in 1..(n + 1) /\ k \in 1..((n + 1) - 1) /\ k \in 1..(n + 1)
      BY <1>1
    <2>2. Ahead(t, n + 1) >= Ahead(t, k) + c /\ Ahead(t, n + 1) \in Nat /\ Ahead(t, k) \in Nat
      BY <1>6, <2>1
    <2>3. Ahead(t, k) + c <= t.total
      BY <1>1, <1>2, <1>7, <2>2
    <2>4. x(k) \in Nat /\ x(k) + 1000 <= t.total
      BY <1>1, <1>2, <2>2, <2>3
    <2>5. ASSUME NEW i \in 1..n, i < k
          PROVE  x(k) >= x(i) + c /\ x(k) <= x(i) + (t.total - 1000)
      <3>1. i \in 1..(k - 1) /\ i \in 1..(n + 1)
        BY <1>1, <2>5
      <3>2. Ahead(t, k) >= Ahead(t, i) + c /\ Ahead(t, i) \in Nat
        BY <1>6, <2>1, <3>1
      <3> DEFINE a == Ahead(t, k)
                 b == Ahead(t, i)
                 l == Lead(t.type)
      <3>3. /\ a \in Nat /\ b \in Nat /\ l \in Nat /\ pre \in Nat /\ c \in Nat
            /\ l + pre + 1000 <= c /\ a >= b + c /\ a + c <= t.total /\ t.total \in Nat
        BY <1>1, <1>2, <2>2, <2>3, <3>2
      <3> HIDE DEF a, b, l
      <3>4. l + a + pre >= l + b + pre + c /\ l + a + pre <= l + b + pre + (t.total - 1000)
        BY <3>3
      <3> QED BY <3>4 DEF a, b, l
    <2> QED BY <2>2, <2>3, <2>4, <2>5
  <1>9. m.secs = [k \in 1..n |->
            LET s == t.secs[k] IN
            [at |-> (Lead(t.type) + Ahead(t, k) + (IF Fm(t.type) THEN 0 ELSE PreSync(t.type)))
                        % t.total,
             data |-> ToData(t.type), cyl |-> s.idam.cyl, head |-> s.idam.head,
             sec |-> s.idam.sec, no |-> s.idam.no, mark |-> s.mark, crc |-> TRUE,
             dat |-> s.dat]]
    BY DEF Written
  <1>10. m.type = t.type /\ m.len = t.total /\ m.long = 0 /\ m.wobble = {0}
    BY DEF Written
  <1>11. Len(m.secs) = n
    <2>1. DOMAIN m.secs = 1..n
      BY <1>9
    <2> QED BY <1>1, <1>9
  <1>12. ASSUME NEW k \in 1..n
         PROVE  m.secs[k].at = x(k) /\ m.secs[k].data = ToData(t.type)
                /\ m.secs[k].no = t.secs[k].idam.no
    <2>1. /\ m.secs[k].at = (Lead(t.type) + Ahead(t, k)
                               + (IF Fm(t.type) THEN 0 ELSE PreSync(t.type))) % t.total
          /\ m.secs[k].data = ToData(t.type) /\ m.secs[k].no = t.secs[k].idam.no
      <3> HIDE DEF m
      <3> QED BY <1>9
    <2>2. x(k) \in 0..(t.total - 1)
      BY <1>1, <1>8
    <2> DEFINE y == x(k)
    <2>3. m.secs[k].at = y % t.total
      BY <2>1 DEF pre
    <2> HIDE DEF y
    <2>4. y % t.total = y
      <3>1. y \in 0..(t.total - 1)
        BY <2>2 DEF y
      <3> QED BY <1>1, <3>1, NoTurn
    <2> QED BY <2>1, <2>3, <2>4 DEF y
  <1>13. ToData(t.type) \in (HeaderBits(t.type) + 32)..1000
    BY DEF ToData, HeaderBits, MarkBits
  <1>14. ASSUME NEW i \in 1..n, NEW k \in 1..n
         PROVE  /\ x(i) \in Nat /\ x(k) \in Nat
                /\ i # k => x(i) - x(k) \in (1000 - t.total)..(-1000) \cup 1000..(t.total - 1000)
                /\ x(i) > x(k) => x(i) - x(k) >= 1000
    <2>1. x(i) \in Nat /\ x(k) \in Nat /\ c >= 1000
      BY <1>2, <1>8
    <2>2. i < k => x(k) >= x(i) + c /\ x(k) <= x(i) + (t.total - 1000)
      BY <1>8
    <2>3. k < i => x(i) >= x(k) + c /\ x(i) <= x(k) + (t.total - 1000)
      BY <1>8
    <2>4. i < k \/ k < i \/ i = k
      BY <1>1
    <2> DEFINE a == x(i)
               b == x(k)
    <2>5. i = k => a = b
      OBVIOUS
    <2> HIDE DEF a, b
    <2>6. /\ a \in Nat /\ b \in Nat
          /\ i < k => b >= a + c /\ b <= a + (t.total - 1000)
          /\ k < i => a >= b + c /\ a <= b + (t.total - 1000)
      BY <2>1, <2>2, <2>3 DEF a, b
    <2> DEFINE T == t.total
    <2>7. T \in Nat /\ c \in Nat /\ c >= 1000
      BY <1>1, <1>2, <2>1
    <2> HIDE DEF T
    <2>8. /\ i # k => a - b \in (1000 - T)..(-1000) \cup 1000..(T - 1000)
          /\ a > b => a - b >= 1000
      <3>1. CASE i = k
        BY <2>5, <2>6, <3>1
      <3>2. CASE i < k
        <4>1. b >= a + c /\ b <= a + (T - 1000)
          BY <2>6, <3>2 DEF T
        <4>2. a - b \in (1000 - T)..(-1000) /\ ~(a > b)
          BY <2>6, <2>7, <4>1
        <4> QED BY <4>2
      <3>3. CASE k < i
        <4>1. a >= b + c /\ a <= b + (T - 1000)
          BY <2>6, <3>3 DEF T
        <4>2. a - b \in 1000..(T - 1000)
          BY <2>6, <2>7, <4>1
        <4> QED BY <2>6, <4>2
      <3> QED BY <2>4, <3>1, <3>2, <3>3
    <2> QED BY <2>6, <2>8 DEF a, b, T
  <1> HIDE DEF m
  <1>15. ASSUME NEW i \in 1..n
         PROVE  OffIndex(m, m.secs[i]) /\ HasData(m, m.secs[i])
    <2>1. x(i) \in Nat /\ x(i) + 1000 <= t.total /\ t.secs[i].idam.no \in 0..7
      BY <1>1, <1>8
    <2> DEFINE a == x(i)
    <2>2. m.secs[i].at = a /\ m.secs[i].no \in Nat /\ a \in Nat /\ a + 1000 <= t.total
      <3>1. m.secs[i].at = a
        BY <1>12
      <3>2. m.secs[i].no = t.secs[i].idam.no
        BY <1>12
      <3>3. a \in Nat /\ a + 1000 <= t.total
        BY <2>1
      <3>4. m.secs[i].no \in Nat
        <4>1. t.secs[i].idam.no \in 0..7
          BY <2>1
        <4> QED BY <3>2, <4>1
      <3> HIDE DEF a
      <3> QED BY <3>1, <3>3, <3>4
    <2> HIDE DEF a
    <2>3. OffIndex(m, m.secs[i])
      BY <1>1, <1>10, <2>2 DEF OffIndex
    <2>4. HasData(m, m.secs[i])
      BY <1>10, <1>12, <1>13 DEF HasData
    <2> QED BY <2>3, <2>4
  <1>16. ASSUME NEW i \in 1..n, NEW k \in 1..n
         PROVE  (i # k => FarFrom(m, m.secs[i], m.secs[k])) /\ Behind(m, m.secs[i], m.secs[k])
    <2> DEFINE a == x(i)
               b == x(k)
    <2>1. m.secs[i].at = a /\ m.secs[k].at = b
      BY <1>12
    <2>2. /\ a \in Nat /\ b \in Nat
          /\ i # k => a - b \in (1000 - t.total)..(-1000) \cup 1000..(t.total - 1000)
          /\ a > b => a - b >= 1000
      BY <1>14
    <2> HIDE DEF a, b
    <2>3. i # k => FarFrom(m, m.secs[i], m.secs[k])
      BY <1>10, <2>1, <2>2 DEF FarFrom
    <2>4. Behind(m, m.secs[i], m.secs[k])
      BY <1>10, <2>1, <2>2 DEF Behind
    <2> QED BY <2>3, <2>4
  <1>17. m.len \in Nat \ {0} /\ m.long \in Nat /\ m.wobble \subseteq Int
         /\ \A j, l \in m.wobble : j - l < 1000
    BY <1>1, <1>10
  <1> HIDE DEF x
  <1> QED BY <1>1, <1>11, <1>15, <1>16, <1>17 DEF Layout, m

LEMMA NothingFound ==
    ASSUME NEW m
    PROVE  Found(m, <<>>, {})
  <1>1. IsList(<<>>)
    <2>1. Len(<<>>) = 0 /\ \A E : <<>> \in Seq(E)
      OBVIOUS
    <2> QED BY <2>1 DEF IsList
  <1>2. Len(<<>>) = 0
    OBVIOUS
  <1> QED BY <1>1, <1>2 DEF Found

(* and found again on the medium it is written to. *)
LEMMA RewriteKeeps ==
    ASSUME IbmInv, Rewrite
    PROVE  IbmInv'
  <1>1. /\ Writable(ti)
        /\ imd # NoFile => Len(imd.secs) \in Nat \ {0} /\ imd.no \in 0..7
        /\ medium' = IF Fits(ti) THEN Written(ti) ELSE [Written(ti) EXCEPT !.secs = <<>>]
        /\ pc' = "scan" /\ ibm_secs' = <<>> /\ wellRead' = {} /\ ti' = NoTrack /\ imd' = imd
    BY DEF IbmInv, Rewrite
  <1>2. Layout(medium')
    <2>1. CASE Fits(ti)
      BY <1>1, <2>1, WrittenLayout
    <2>2. CASE ~Fits(ti)
      <3> DEFINE m == [Written(ti) EXCEPT !.secs = <<>>]
      <3>1. m.secs = <<>> /\ m.len = ti.total /\ m.long = 0 /\ m.wobble = {0}
        BY DEF Written
      <3>2. ti.total \in Nat \ {0}
        BY <1>1 DEF Writable
      <3>3. Len(m.secs) = 0
        BY <3>1
      <3> HIDE DEF m
      <3>4. Layout(m)
        BY <3>1, <3>2, <3>3 DEF Layout
      <3> QED BY <1>1, <2>2, <3>4 DEF m
    <2> QED BY <2>1, <2>2
  <1>3. Found(medium', ibm_secs', wellRead')
    BY <1>1, NothingFound
  <1>4. HeaderRead' /\ (ti # NoTrack => Writable(ti))'
    BY <1>1 DEF HeaderRead
  <1>5. (imd # NoFile => Len(imd.secs) \in Nat \ {0} /\ imd.no \in 0..7)'
    BY <1>1
  <1>6. Layout(medium)' /\ Found(medium, ibm_secs, wellRead)'
    BY <1>2, <1>3
  <1> QED BY <1>4, <1>5, <1>6 DEF IbmInv

-----------------------------------------------------------------------------

(* ibm_mfm_write_raw, ibm_fm_write_raw, read_raw and imd.c keep the invariant: the       *)
(* head is just behind a header while its data is awaited, the list holds sectors of the *)
(* medium as they are, and what is analysed, saved or loaded can be written out.         *)
THEOREM IbmInvHolds == IbmSpec => []IbmInv
  <1>1. IbmInit => IbmInv
    <2> SUFFICES ASSUME IbmInit PROVE IbmInv
      OBVIOUS
    <2>1. Layout(medium) /\ HeaderRead /\ ti = NoTrack /\ imd = NoFile
      BY MediaLayout DEF IbmInit, HeaderRead
    <2>2. Found(medium, ibm_secs, wellRead)
      BY NothingFound DEF IbmInit
    <2> QED BY <2>1, <2>2 DEF IbmInv
  <1>2. IbmInv /\ [IbmNext]_ibmVars => IbmInv'
    <2> SUFFICES ASSUME IbmInv, [IbmNext]_ibmVars PROVE IbmInv'
      OBVIOUS
    <2>1. CASE ScanHeader
      <3>1. Layout(medium) /\ Coming # {}
        BY <2>1 DEF IbmInv, ScanHeader
      <3>2. First(Coming) \in Passes /\ First(Coming).k = "id"
        BY <3>1, FirstIs DEF Coming
      <3> QED BY <2>1, <3>2, HeaderKeeps DEF ScanHeader
    <2>2. CASE SourceEnds
      BY <2>2, SameKeeps DEF SourceEnds, scanned, HeaderRead
    <2>3. CASE DataMissing
      BY <2>3, SameKeeps DEF DataMissing, scanned, HeaderRead
    <2>4. CASE HeaderAgain
      <3>1. PICK harm \in Harm :
              /\ Left(Near, harm) # {} /\ First(Left(Near, harm)).k = "id"
              /\ ReadHeader(First(Left(Near, harm)), harm)
        BY <2>4, Zenon DEF HeaderAgain
      <3>2. Layout(medium) /\ Left(Near, harm) \in SUBSET Passes
        BY LeftIs DEF IbmInv, Near
      <3>3. First(Left(Near, harm)) \in Passes
        BY <3>1, <3>2, FirstIs
      <3> QED BY <3>1, <3>3, HeaderKeeps
    <2>5. CASE ReadData
      BY <2>5, DataKeeps
    <2>6. CASE Account
      BY <2>6, AccountKeeps
    <2>7. CASE CloseImd
      BY <2>7, CloseKeeps
    <2>8. CASE OpenImd
      BY <2>8, OpenKeeps
    <2>9. CASE Rewrite
      BY <2>9, RewriteKeeps
    <2>10. CASE UNCHANGED ibmVars
      <3>1. HeaderRead
        BY DEF IbmInv
      <3>2. HeaderRead'
        BY <2>10, <3>1 DEF ibmVars, HeaderRead, Sector
      <3> QED BY <2>10, <3>2, SameKeeps DEF ibmVars
    <2> QED BY <2>1, <2>2, <2>3, <2>4, <2>5, <2>6, <2>7, <2>8, <2>9, <2>10 DEF IbmNext
  <1> QED BY <1>1, <1>2, PTL DEF IbmSpec

(* ibm_mfm_write_raw and ibm_fm_write_raw: a sector that passed once without error is in *)
(* the list once, with its own data, and the list is in order of place: for any medium   *)
(* laid out as a drive lays it out, any number of revolutions and of misreadings.        *)
THEOREM GoodKept == IbmSpec => []GoodReadingKept
  <1>1. IbmInv => GoodReadingKept
    <2> SUFFICES ASSUME IbmInv PROVE GoodReadingKept
      OBVIOUS
    <2> DEFINE N == Len(ibm_secs)
               at(k) == medium.secs[ibm_secs[k].i].at
    <2>1. /\ Layout(medium) /\ N \in Nat
          /\ \A k \in 1..N : Entry(medium, ibm_secs[k])
          /\ \A k, l \in 1..N : k < l => at(k) < at(l)
          /\ \A i \in wellRead : \E k \in 1..N : ibm_secs[k].i = i /\ ibm_secs[k].good
      BY DEF IbmInv, Found, IsList
    <2>2. \A k \in 1..N : at(k) \in Nat
      BY <2>1, ReadApart
    <2>3. ASSUME NEW i \in wellRead
          PROVE  \E k \in {l \in 1..N : ibm_secs[l].i = i} :
                    /\ {l \in 1..N : ibm_secs[l].i = i} = {k}
                    /\ ibm_secs[k].good /\ ibm_secs[k].dat = Sector(i).dat
      <3>1. PICK k \in 1..N : ibm_secs[k].i = i /\ ibm_secs[k].good
        BY <2>1
      <3>2. ibm_secs[k].dat = Sector(i).dat
        BY <2>1, <3>1 DEF Entry, Sector
      <3>3. ASSUME NEW l \in 1..N, ibm_secs[l].i = i PROVE l = k
        <4>1. at(l) = at(k)
          BY <3>1, <3>3
        <4>2. ~(l < k) /\ ~(k < l)
          BY <2>1, <2>2, <4>1
        <4> QED BY <2>1, <4>2
      <3> QED BY <3>1, <3>2, <3>3
    <2>4. ASSUME NEW k \in 1..N, NEW l \in 1..N, k < l
          PROVE  ibm_secs[k].offset < ibm_secs[l].offset
      <3>1. Entry(medium, ibm_secs[k]) /\ Entry(medium, ibm_secs[l]) /\ at(k) < at(l)
        BY <2>1, <2>4
      <3>2. ibm_secs[l].offset - ibm_secs[k].offset >= 1000
            /\ ibm_secs[k].offset \in Int /\ ibm_secs[l].offset \in Int
        BY <2>1, <3>1, ReadApart
      <3> QED BY <3>2
    <2> QED BY <2>3, <2>4 DEF GoodReadingKept
  <1> QED BY <1>1, IbmInvHolds, PTL

-----------------------------------------------------------------------------
(* More about sums. *)

\* Two sums that together rise no more than f does.
LEMMA SumsTogether ==
    ASSUME NEW a, NEW b, NEW N \in Nat, Len(a) = N, Len(b) = N, NEW f \in [0..N -> Int],
           f[0] = 0,
           \A k \in 1..N : a[k] \in Int /\ b[k] \in Int /\ a[k] + b[k] <= f[k] - f[k - 1]
    PROVE  \A k \in 0..N : Sums(a)[k] + Sums(b)[k] <= f[k]
  <1> DEFINE A == Sums(a)
             B == Sums(b)
             Bad == {k \in 0..N : ~(A[k] + B[k] <= f[k])}
  <1>1. /\ A[0] = 0 /\ \A k \in 0..N : k # 0 => A[k] = A[k - 1] + a[k]
        /\ B[0] = 0 /\ \A k \in 0..N : k # 0 => B[k] = B[k - 1] + b[k]
    <2>1. \A k \in 0..Len(a) : A[k] = IF k = 0 THEN 0 ELSE A[k - 1] + a[k]
      BY SumsIs
    <2>2. \A k \in 0..Len(b) : B[k] = IF k = 0 THEN 0 ELSE B[k - 1] + b[k]
      BY SumsIs
    <2> HIDE DEF A, B
    <2> QED BY <2>1, <2>2
  <1>2. \A k \in 0..N : A[k] \in Int /\ B[k] \in Int
    BY SumsWhole
  <1> HIDE DEF A, B
  <1> SUFFICES ASSUME Bad # {} PROVE FALSE
    BY DEF A, B
  <1>3. PICK n \in Bad : \A x \in Bad : n <= x
    <2>1. Bad \in SUBSET Nat
      OBVIOUS
    <2> HIDE DEF Bad
    <2> QED BY <2>1, LeastExists
  <1>4. n \in 1..N /\ n - 1 \in 0..N /\ n - 1 \notin Bad /\ ~(A[n] + B[n] <= f[n])
    <2>1. n \in 0..N /\ ~(A[n] + B[n] <= f[n])
      BY <1>3
    <2>2. n # 0
      BY <1>1, <2>1
    <2>3. n - 1 \notin Bad
      BY <1>3, <2>1, <2>2
    <2> QED BY <2>1, <2>2, <2>3
  <1>5. A[n - 1] + B[n - 1] <= f[n - 1]
    BY <1>4
  <1>6. A[n] = A[n - 1] + a[n] /\ B[n] = B[n - 1] + b[n]
    <2>1. n \in 0..N /\ n # 0
      BY <1>4
    <2> QED BY <1>1, <2>1
  <1>7. /\ a[n] \in Int /\ b[n] \in Int /\ a[n] + b[n] <= f[n] - f[n - 1]
        /\ f[n] \in Int /\ f[n - 1] \in Int /\ A[n - 1] \in Int /\ B[n - 1] \in Int
    BY <1>2, <1>4
  <1> DEFINE u == A[n - 1]
             v == B[n - 1]
             x == a[n]
             y == b[n]
             g == f[n]
             h == f[n - 1]
  <1>8. /\ u \in Int /\ v \in Int /\ x \in Int /\ y \in Int /\ g \in Int /\ h \in Int
        /\ x + y <= g - h /\ u + v <= h /\ ~((u + x) + (v + y) <= g)
    BY <1>4, <1>5, <1>6, <1>7
  <1> HIDE DEF u, v, x, y, g, h
  <1> QED BY <1>8

\* A sum of numbers that are each c or more.
LEMMA SumsAtLeast ==
    ASSUME NEW list, Len(list) \in Nat, NEW c \in Int,
           \A k \in 1..Len(list) : list[k] \in Int /\ list[k] >= c
    PROVE  \A k \in 0..Len(list) : Sums(list)[k] >= k * c
  <1> DEFINE N == Len(list)
             S == Sums(list)
             Bad == {k \in 0..N : ~(S[k] >= k * c)}
  <1>1. S[0] = 0 /\ \A k \in 0..N : k # 0 => S[k] = S[k - 1] + list[k]
    BY SumsIs
  <1>2. \A k \in 0..N : S[k] \in Int
    BY SumsWhole
  <1> HIDE DEF S
  <1> SUFFICES ASSUME Bad # {} PROVE FALSE
    BY DEF S
  <1>3. PICK n \in Bad : \A x \in Bad : n <= x
    <2>1. Bad \in SUBSET Nat
      OBVIOUS
    <2> HIDE DEF Bad
    <2> QED BY <2>1, LeastExists
  <1>4. n \in 1..N /\ n - 1 \in 0..N /\ n - 1 \notin Bad
    <2>1. n \in 0..N /\ ~(S[n] >= n * c)
      BY <1>3
    <2>2. n # 0
      BY <1>1, <2>1
    <2>3. n - 1 \notin Bad
      BY <1>3, <2>1, <2>2
    <2> QED BY <2>1, <2>2, <2>3
  <1>5. S[n - 1] >= (n - 1) * c /\ ~(S[n] >= n * c) /\ S[n] = S[n - 1] + list[n]
    BY <1>1, <1>3, <1>4
  <1>6. n * c = (n - 1) * c + c
    BY <1>4
  <1>7. S[n - 1] \in Int /\ list[n] \in Int /\ list[n] >= c /\ (n - 1) * c \in Int
    BY <1>2, <1>4
  <1> DEFINE p == (n - 1) * c
  <1> HIDE DEF p, S
  <1>8. S[n - 1] >= p /\ ~(S[n] >= p + c) /\ S[n] = S[n - 1] + list[n] /\ p \in Int
    BY <1>5, <1>6, <1>7 DEF p
  <1> QED BY <1>7, <1>8

\* Numbers that rise by c or more.
LEMMA RisesBy ==
    ASSUME NEW N \in Nat, NEW f \in [1..N -> Nat], NEW c \in Nat,
           \A k, l \in 1..N : k < l => f[l] - f[k] >= c
    PROVE  \A k \in 1..N : f[k] >= (k - 1) * c
  <1> DEFINE Bad == {k \in 1..N : ~(f[k] >= (k - 1) * c)}
  <1> SUFFICES ASSUME Bad # {} PROVE FALSE
    OBVIOUS
  <1>1. PICK n \in Bad : \A x \in Bad : n <= x
    <2>1. Bad \in SUBSET Nat
      OBVIOUS
    <2> HIDE DEF Bad
    <2> QED BY <2>1, LeastExists
  <1>2. n \in 1..N /\ ~(f[n] >= (n - 1) * c)
    BY <1>1
  <1>3. n # 1
    BY <1>2
  <1>4. n - 1 \in 1..N /\ n - 1 \notin Bad
    BY <1>1, <1>2, <1>3
  <1>5. f[n - 1] >= ((n - 1) - 1) * c /\ f[n] - f[n - 1] >= c /\ f[n] \in Nat /\ f[n - 1] \in Nat
    BY <1>2, <1>4
  <1>6. (n - 1) * c = ((n - 1) - 1) * c + c /\ ((n - 1) - 1) * c \in Int
    BY <1>2
  <1> DEFINE p == ((n - 1) - 1) * c
  <1> HIDE DEF p
  <1>7. f[n - 1] >= p /\ ~(f[n] >= p + c) /\ p \in Int
    BY <1>2, <1>5, <1>6 DEF p
  <1> QED BY <1>5, <1>7

\* No more numbers than there are to choose from, if none comes twice.
LEMMA NoMoreThan ==
    ASSUME NEW n \in Nat, NEW N \in Nat, NEW f \in [1..n -> 1..N],
           \A k, l \in 1..n : f[k] = f[l] => k = l
    PROVE  n <= N
  <1>1. f \in Injection(1..n, 1..N)
    BY DEF Injection, IsInjective
  <1>2. IsFiniteSet(1..N) /\ Cardinality(1..n) = n /\ Cardinality(1..N) = N
    BY FS_Interval
  <1> QED BY <1>1, <1>2, FS_Injection

\* Whole turns leave a place round the track as it is.
LEMMA WholeTurns ==
    ASSUME NEW L \in Nat \ {0}, NEW r \in Int, NEW a \in Int
    PROVE  (r * L + a) % L = a % L
  <1> DEFINE x == r * L + a
             q == a \div L
             m == a % L
             d == x \div L
             w == x % L
             z == d - r - q
  <1>1. q \in Int /\ m \in 0..(L - 1) /\ a = L * q + m
    OBVIOUS
  <1>2. x \in Int
    OBVIOUS
  <1>3. d \in Int /\ w \in 0..(L - 1) /\ x = L * d + w
    <2> HIDE DEF x
    <2> QED BY <1>2
  <1> HIDE DEF q, m, d, w
  <1>4. z \in Int /\ L * z = m - w
    <2>1. L * d + w = r * L + (L * q + m)
      BY <1>1, <1>3
    <2>2. L * z = L * d - L * r - L * q
      BY <1>1, <1>3
    <2> QED BY <1>1, <1>3, <2>1, <2>2
  <1> HIDE DEF z
  <1>5. z >= 1 => L * z >= L
    BY <1>4
  <1>6. z <= -1 => L * z <= -L
    BY <1>4
  <1>7. m = w
    <2>1. ~(z >= 1) /\ ~(z <= -1)
      BY <1>1, <1>3, <1>4, <1>5, <1>6
    <2>2. z = 0
      BY <1>4, <2>1
    <2> QED BY <1>1, <1>3, <1>4, <2>2
  <1> QED BY <1>7 DEF m, w

-----------------------------------------------------------------------------
(* The sectors of a first dump, and what is between them.                          *)

\* The end of a sector found is where its header and its size put it.
Ends(m, list) ==
    \A k \in 1..Len(list) :
        list[k].end_offset = (list[k].offset + Span(m.secs[list[k].i]) - 1) % m.len

Off(k) == ibm_secs[k].offset
SpanOf(k) == Span(medium.secs[ibm_secs[k].i])

\* Where the next sector comes, counted on past the index.
Further(k) == IF k < Len(ibm_secs) THEN Off(k + 1) ELSE Off(1) + medium.len

LEMMA ListOrder ==
    ASSUME NEW read, Layout(medium), Found(medium, ibm_secs, read)
    PROVE  /\ Len(ibm_secs) \in Nat /\ medium.len \in Nat \ {0}
           /\ \A k \in 1..Len(ibm_secs) :
                 /\ Off(k) \in 0..(medium.len - 1)
                 /\ ibm_secs[k].i \in 1..Len(medium.secs) /\ medium.secs[ibm_secs[k].i].no \in 0..7
                 /\ Readable(medium.secs[ibm_secs[k].i])
                 /\ SpanOf(k) \in Nat /\ SpanOf(k) >= 32
                 /\ medium.secs[ibm_secs[k].i].data \in Nat
           /\ \A k, l \in 1..Len(ibm_secs) :
                 k < l => Off(l) - Off(k) >= 1000 /\ ibm_secs[k].i # ibm_secs[l].i
  <1>1. Len(ibm_secs) \in Nat /\ medium.len \in Nat \ {0}
    BY DEF Found, IsList, Layout
  <1>2. ASSUME NEW k \in 1..Len(ibm_secs)
        PROVE  /\ Off(k) \in 0..(medium.len - 1)
               /\ ibm_secs[k].i \in 1..Len(medium.secs) /\ medium.secs[ibm_secs[k].i].no \in 0..7
               /\ Readable(medium.secs[ibm_secs[k].i])
               /\ SpanOf(k) \in Nat /\ SpanOf(k) >= 32
               /\ medium.secs[ibm_secs[k].i].data \in Nat
    <2>1. Entry(medium, ibm_secs[k])
      BY DEF Found
    <2>2. Off(k) \in 0..(medium.len - 1)
      BY <2>1, ReadApart DEF Off
    <2> DEFINE s == medium.secs[ibm_secs[k].i]
    <2>3. ibm_secs[k].i \in 1..Len(medium.secs) /\ s.no \in 0..7 /\ s.data # 0
      BY <2>1 DEF Entry
    <2>4. s.data \in Nat
      <3>1. HasData(medium, s)
        BY <2>3, Zenon DEF Layout
      <3>2. HeaderBits(medium.type) \in Nat
        BY DEF HeaderBits, MarkBits
      <3> QED BY <3>1, <3>2 DEF HasData
    <2>5. Size(s.no) \in Nat
      BY <2>3, SizeIs
    <2> HIDE DEF s
    <2>6. Readable(s)
      BY <2>3 DEF Readable
    <2>7. Span(s) \in Nat /\ Span(s) >= 32
      <3> DEFINE z == Size(s.no)
      <3> HIDE DEF z
      <3>1. Span(s) = s.data + 16 * (z + 2)
        BY DEF Span, z
      <3>2. z \in Nat
        BY <2>5 DEF z
      <3> QED BY <2>4, <3>1, <3>2
    <2> QED BY <2>2, <2>3, <2>4, <2>6, <2>7 DEF s, SpanOf
  <1>3. ASSUME NEW k \in 1..Len(ibm_secs), NEW l \in 1..Len(ibm_secs), k < l
        PROVE  Off(l) - Off(k) >= 1000 /\ ibm_secs[k].i # ibm_secs[l].i
    <2>1. Entry(medium, ibm_secs[k]) /\ Entry(medium, ibm_secs[l])
      BY DEF Found
    <2>2. medium.secs[ibm_secs[k].i].at < medium.secs[ibm_secs[l].i].at
      BY <1>3 DEF Found
    <2>3. ibm_secs[l].offset - ibm_secs[k].offset >= 1000
          /\ medium.secs[ibm_secs[k].i].at \in Nat /\ medium.secs[ibm_secs[l].i].at \in Nat
      BY <2>1, <2>2, ReadApart
    <2> QED BY <2>2, <2>3 DEF Off
  <1> QED BY <1>1, <1>2, <1>3

\* Apart, for two sectors that were found.
LEMMA FoundApart ==
    ASSUME NEW read, Layout(medium), Found(medium, ibm_secs, read), NEW gap, Apart(medium, gap),
           NEW k \in 1..Len(ibm_secs), NEW l \in 1..Len(ibm_secs)
    PROVE  IF k = l THEN SpanOf(k) + gap <= medium.len
           ELSE (Off(l) - Off(k)) % medium.len >= SpanOf(k) + gap
  <1> DEFINE i == ibm_secs[k].i
             h == ibm_secs[l].i
  <1>1. /\ i \in {x \in 1..Len(medium.secs) : Readable(medium.secs[x])}
        /\ h \in {x \in 1..Len(medium.secs) : Readable(medium.secs[x])}
        /\ k # l => i # h
    <2>1. k \in Int /\ l \in Int
      BY ListOrder
    <2>2. k # l => k < l \/ l < k
      BY <2>1
    <2> QED BY <2>2, ListOrder
  <1>2. PICK j \in medium.wobble : Off(k) = medium.secs[i].at + j
    BY DEF Found, Entry, Off
  <1>3. PICK g \in medium.wobble : Off(l) = medium.secs[h].at + g
    BY DEF Found, Entry, Off
  <1>4. IF i = h THEN Span(medium.secs[i]) + gap <= medium.len
        ELSE ((medium.secs[h].at + g) - (medium.secs[i].at + j)) % medium.len
                >= Span(medium.secs[i]) + gap
    BY <1>1, Zenon DEF Apart
  <1> QED BY <1>1, <1>2, <1>3, <1>4 DEF SpanOf

\* From the end of a sector to the next, as ibm.c takes it.
LEMMA DistanceIs ==
    ASSUME NEW read, Layout(medium), Found(medium, ibm_secs, read), Ends(medium, ibm_secs),
           NEW gap \in Nat, Apart(medium, gap), NEW k \in 1..Len(ibm_secs)
    PROVE  /\ Further(k) \in Int /\ Off(k) \in Int /\ SpanOf(k) \in Int
           /\ Distance(k) = Further(k) - Off(k) - SpanOf(k) + 1
           /\ Further(k) - Off(k) - SpanOf(k) >= gap
  <1> DEFINE n == Len(ibm_secs)
             L == medium.len
             o == Off(k)
             s == SpanOf(k)
             l == IF k < n THEN k + 1 ELSE 1
             f == Further(k)
             end == ibm_secs[k].end_offset
  <1>1. n \in Nat /\ L \in Nat \ {0} /\ o \in 0..(L - 1) /\ s \in Nat /\ k \in 1..n
    BY ListOrder
  <1>2. l \in 1..n /\ Off(l) \in 0..(L - 1) /\ (k % n) + 1 = l
    <2>1. l \in 1..n
      BY <1>1
    <2>2. Off(l) \in 0..(L - 1)
      BY <2>1, ListOrder
    <2>3. k < n => k % n = k
      BY <1>1, NoTurn
    <2>4. ~(k < n) => k % n = 0
      <3>1. ~(k < n) => k = n
        BY <1>1
      <3>2. n \in Nat \ {0} /\ n \in 0..(2 * n - 1)
        BY <1>1
      <3>3. n % n = IF n < n THEN n ELSE n - n
        BY <3>2, OnceRound
      <3> QED BY <1>1, <3>1, <3>3
    <2> QED BY <1>1, <2>1, <2>2, <2>3, <2>4
  <1>3. f = IF k < n THEN Off(l) ELSE Off(l) + L
    BY DEF Further
  <1>4. f - o - s >= gap /\ f \in Int /\ f <= o + L
    <2>1. CASE l = k
      <3>1. f = o + L
        BY <1>1, <1>3, <2>1
      <3>2. s + gap <= L
        BY <2>1, FoundApart
      <3> QED BY <1>1, <3>1, <3>2
    <2>2. CASE l # k
      <3>1. (Off(l) - o) % L >= s + gap
        BY <1>2, <2>2, FoundApart
      <3>2. /\ k < n => Off(l) - o >= 1000
            /\ ~(k < n) => o - Off(l) >= 1000
        <4>1. k < n => k < l
          BY <1>1
        <4>2. ~(k < n) => l < k
          BY <1>1, <1>2, <2>2
        <4> QED BY <1>2, <4>1, <4>2, ListOrder
      <3> DEFINE p == Off(l)
      <3>3. CASE k < n
        <4>1. p - o \in 0..(L - 1)
          BY <1>1, <1>2, <3>2, <3>3
        <4> DEFINE x == p - o
        <4> HIDE DEF x, p, o
        <4>2. x % L = x
          BY <1>1, <4>1, NoTurn DEF x
        <4>3. p - o >= s + gap /\ p \in 0..(L - 1) /\ f = p
          BY <1>2, <1>3, <3>1, <3>3, <4>2 DEF x, p, o
        <4> HIDE DEF f, s, L
        <4> QED BY <1>1, <4>1, <4>3 DEF o
      <3>4. CASE ~(k < n)
        <4>1. (p - o) + L \in 0..(L - 1)
          BY <1>1, <1>2, <3>2, <3>4
        <4> DEFINE x == (p - o) + L
                   y == p - o
        <4>2. x % L = x
          <5> HIDE DEF x
          <5> QED BY <1>1, <4>1, NoTurn DEF x
        <4>3. y % L = x % L
          <5> DEFINE one == 1
          <5>1. x = one * L + y /\ y \in Int /\ x \in Int /\ one \in Int
            BY <1>1, <4>1, <1>2
          <5> HIDE DEF x, y, L, one
          <5>2. (one * L + y) % L = y % L
            BY <1>1, <5>1, WholeTurns
          <5> QED BY <5>1, <5>2
        <4>4. p - o + L = x
          BY <1>1, <1>2
        <4>5. x >= s + gap /\ f = p + L /\ p \in 0..(L - 1)
          BY <1>2, <1>3, <3>1, <3>4, <4>2, <4>3
        <4>6. x = p + L - o
          BY <1>1, <1>2
        <4> HIDE DEF f, s, L, x, y, p, o
        <4> QED BY <1>1, <3>2, <3>4, <4>5, <4>6 DEF p, o
      <3> QED BY <3>3, <3>4
    <2> QED BY <2>1, <2>2
  <1>5. end = (o + s - 1) % L
    BY DEF Ends, Off, SpanOf
  <1>6. Distance(k) = IF Off(l) - end <= 0 THEN Off(l) - end + L ELSE Off(l) - end
    BY <1>2 DEF Distance, Off
  <1>7. ~(k < n) => Off(l) <= o
    <2>1. CASE l = k
      BY <1>1, <2>1
    <2>2. CASE l # k
      <3>1. ~(k < n) => l < k
        BY <1>1, <1>2, <2>2
      <3> QED BY <1>1, <1>2, <3>1, ListOrder
    <2> QED BY <2>1, <2>2
  <1> DEFINE x == o + s - 1
             p == Off(l)
  <1>8. s >= 32 /\ s \in Nat /\ o \in 0..(L - 1) /\ p \in 0..(L - 1) /\ L \in Nat \ {0} /\ f \in Int
    BY <1>1, <1>2, <1>4, ListOrder
  <1>9. f = (IF k < n THEN p ELSE p + L) /\ (~(k < n) => p <= o)
    BY <1>3, <1>7
  <1>10. Distance(k) = IF p - end <= 0 THEN p - end + L ELSE p - end
    BY <1>6
  <1> HIDE DEF f, s, L, p, o, l, end, n
  <1>11. x \in 0..(2 * L - 1)
    BY <1>4, <1>8
  <1>12. end = IF x < L THEN x ELSE x - L
    <2>1. end = x % L
      BY <1>5
    <2> HIDE DEF x
    <2> QED BY <1>8, <1>11, <2>1, OnceRound
  <1>13. Distance(k) = f - o - s + 1
    <2>1. CASE k < n
      BY <1>4, <1>8, <1>9, <1>10, <1>12, <2>1
    <2>2. CASE ~(k < n)
      BY <1>4, <1>8, <1>9, <1>10, <1>12, <2>2
    <2> QED BY <2>1, <2>2
  <1> QED BY <1>4, <1>8, <1>13 DEF f, o, s

-----------------------------------------------------------------------------
(* The track made of a first dump.                                               *)

\* The bits of an index mark, and the gaps, on a track of n sectors.
IamMark(type, iam) == IF iam THEN IamBits(type) ELSE 0
GapsOf(iam, n) == IF iam THEN n + 1 ELSE n

\* What choose_post_data_gap makes of the room that is left: with the gaps it chooses,
\* the track is filled no further than to its lead-in and its end, and it is lengthened
\* by less than 1000 bits more than it must be.
LEMMA GapFills ==
    ASSUME NEW type, NEW iam \in BOOLEAN, NEW free \in Int, NEW n \in Nat \ {0},
           NEW c, c = PostDataGap(type, iam, free, n)
    PROVE  /\ c.gap \in Nat /\ c.grown \in Nat
           /\ 16 * GapsOf(iam, n) * c.gap + IamMark(type, iam) + Lead(type) + 640
                  <= free + c.grown
           /\ c.grown # 0 => free + c.grown < IamMark(type, iam) + Lead(type) + 640
                                                + 160 * GapsOf(iam, n) + 1000
  <1> DEFINE lead == Lead(type)
             mark == IamMark(type, iam)
             gaps == GapsOf(iam, n)
             L == Lengthened(type, iam, free, n)
             g == Gap(type, iam, free + 1000 * L, n)
             need == lead + 16 * 40 + IF iam THEN IamBits(type) + 160 * (n + 1) ELSE 160 * n
  <1>1. lead \in Nat /\ mark \in Nat /\ gaps \in Nat \ {0} /\ need = mark + lead + 640 + 160 * gaps
        /\ need \in Nat
    BY DEF Lead, IamBits, IamMark, GapsOf
  <1>2. L \in Nat /\ g >= 10
    BY LeastRoom
  <1>3. L = IF free >= need THEN 0 ELSE (need - free + 999) \div 1000
    BY Zenon DEF Lengthened
  <1>4. c = [gap |-> g % 256, grown |-> 1000 * L]
    BY DEF PostDataGap
  <1> DEFINE a == (free + 1000 * L) - lead - 16 * 40 - mark
             b == 16 * gaps
  <1>5. g = CDiv(a, b)
    <2>1. CASE iam
      <3>1. g = CDiv((free + 1000 * L) - lead - 16 * 40 - IamBits(type), 16 * (n + 1))
        BY <2>1, Zenon DEF Gap
      <3>2. mark = IamBits(type) /\ gaps = n + 1
        BY <2>1 DEF IamMark, GapsOf
      <3> HIDE DEF g, L, lead
      <3> QED BY <3>1, <3>2
    <2>2. CASE ~iam
      <3>1. g = CDiv((free + 1000 * L) - lead - 16 * 40, 16 * n)
        <4> HIDE DEF L
        <4> QED BY <2>2, Zenon DEF Gap
      <3>2. mark = 0 /\ gaps = n
        BY <2>2 DEF IamMark, GapsOf
      <3>3. a = (free + 1000 * L) - lead - 16 * 40
        <4> HIDE DEF L, lead
        <4> QED BY <1>1, <1>2, <3>2
      <3> HIDE DEF g, L, lead, a
      <3> QED BY <3>1, <3>2, <3>3
    <2> QED BY <2>1, <2>2
  <1> HIDE DEF L, g, lead, mark, gaps, need
  <1>6. a \in Int /\ b \in Nat \ {0}
    BY <1>1, <1>2
  <1>7. g \in Nat /\ b * g <= a
    <2> HIDE DEF a, b
    <2>1. a >= 10 * b
      BY <1>2, <1>5, <1>6, CDivTen
    <2>2. a >= 0
      BY <1>6, <2>1
    <2>3. g = a \div b
      BY <1>5, <2>2 DEF CDiv
    <2>4. a = b * g + (a % b) /\ a % b >= 0 /\ g \in Int
      BY <1>6, <2>2, <2>3
    <2>5. b * g \in Int /\ b * g <= a
      BY <1>6, <2>4
    <2> QED BY <1>2, <2>4, <2>5
  <1>8. c.gap \in Nat /\ c.gap <= g /\ c.grown = 1000 * L /\ c.grown \in Nat
    BY <1>2, <1>4, <1>7
  <1>9. 16 * gaps * c.gap <= b * g /\ 16 * gaps * c.gap \in Int /\ b * g \in Int
    <2>1. 16 * gaps * c.gap = b * c.gap
      BY <1>1, <1>8
    <2> HIDE DEF b
    <2>2. b * c.gap <= b * g /\ b * c.gap \in Int /\ b * g \in Int
      BY <1>6, <1>7, <1>8
    <2> QED BY <2>1, <2>2
  <1>10. 16 * gaps * c.gap + mark + lead + 640 <= free + c.grown
    <2> DEFINE u == 16 * gaps * c.gap
               v == b * g
    <2>1. u <= v /\ v <= a /\ u \in Int /\ v \in Int
      BY <1>7, <1>9
    <2> HIDE DEF u, v
    <2>2. u + mark + lead + 640 <= free + c.grown
      BY <1>1, <1>2, <1>8, <2>1
    <2> QED BY <2>2 DEF u
  <1>11. c.grown # 0 => free + c.grown < mark + lead + 640 + 160 * gaps + 1000
    <2>1. L # 0 => 1000 * L <= need - free + 999
      BY <1>1, <1>3
    <2>2. c.grown # 0 => L # 0
      BY <1>8
    <2> QED BY <1>1, <1>2, <1>8, <2>1, <2>2
  <1> QED BY <1>8, <1>10, <1>11 DEF mark, gaps, lead

\* A track whose sectors were written there, and that the clock can follow.
Fitting(t) == Fits(t) /\ InStep([type |-> t.type, len |-> t.total])

\* What is between the sectors found but for the sync, and what they take with a gap of g.
Between == Sums([k \in 1..Len(ibm_secs) |-> Distance(k) - PreSync(medium.type)])[Len(ibm_secs)]
Taken(g) ==
    Sums([k \in 1..Len(ibm_secs) |->
            SectorBits(medium.type, ibm_secs[k].idam.no) + 16 * g])[Len(ibm_secs)]

\* The sums of the lengths of the sectors and of the distances between them.
LEMMA FirstSums ==
    ASSUME NEW read, Layout(medium), Found(medium, ibm_secs, read), Ends(medium, ibm_secs),
           NEW gap \in Nat, Apart(medium, gap), ibm_secs # <<>>, NEW g \in Nat,
           \A i \in 1..Len(medium.secs) :
              Readable(medium.secs[i]) => medium.secs[i].data >= ToData(medium.type)
    PROVE  /\ Len(ibm_secs) \in Nat \ {0} /\ Len(ibm_secs) <= Len(medium.secs)
           /\ 1000 * (Len(ibm_secs) - 1) < medium.len
           /\ Between \in Int /\ Taken(g) \in Int
           /\ Between + Taken(g) <= medium.len + Len(ibm_secs) * (16 * g + 1)
           /\ Between >= Len(ibm_secs) * (gap + 1 - PreSync(medium.type))
  <1> DEFINE n == Len(ibm_secs)
             T == medium.type
             pre == PreSync(T)
             a == [k \in 1..n |-> Distance(k) - pre]
             b == [k \in 1..n |-> SectorBits(T, ibm_secs[k].idam.no) + 16 * g]
             c == 16 * g + 1
             f == [k \in 0..n |-> (IF k = 0 THEN 0 ELSE Further(k) - Off(1)) + k * c]
  <1>1. n \in Nat \ {0} /\ medium.len \in Nat \ {0} /\ pre \in Nat /\ c \in Nat
    <2>1. IsList(ibm_secs)
      BY DEF Found
    <2>2. n \in Nat \ {0}
      BY <2>1, EmptySeq, LenProperties DEF IsList
    <2> QED BY <2>2, ListOrder DEF PreSync
  <1>2. ASSUME NEW k \in 1..n
        PROVE  /\ Off(k) \in 0..(medium.len - 1) /\ SpanOf(k) \in Nat /\ Further(k) \in Int
               /\ Distance(k) = Further(k) - Off(k) - SpanOf(k) + 1
               /\ Further(k) - Off(k) - SpanOf(k) >= gap
    BY <1>1, ListOrder, DistanceIs
  <1>3. ASSUME NEW k \in 1..n
        PROVE  /\ SectorBits(T, ibm_secs[k].idam.no) \in Nat
               /\ SectorBits(T, ibm_secs[k].idam.no) <= SpanOf(k) + pre
    <2> DEFINE s == medium.secs[ibm_secs[k].i]
               no == s.no
               size == Size(no)
    <2>1. ibm_secs[k].idam.no = no
      <3>1. Entry(medium, ibm_secs[k])
        BY DEF Found
      <3> QED BY <3>1 DEF Entry, Idam
    <2>2. no \in 0..7 /\ s.data >= ToData(T) /\ s.data \in Nat
      BY <1>1, ListOrder
    <2>3. size \in Nat
      BY <2>2, SizeIs
    <2>4. SpanOf(k) = s.data + 16 * (size + 2)
      BY DEF SpanOf, Span
    <2>5. SectorBits(T, no) = 16 * ((IF Fm(T) THEN 33 ELSE 62) + size)
      BY DEF SectorBits
    <2>6. ToData(T) = 16 * (IF Fm(T) THEN 31 ELSE 48) /\ pre = 16 * (IF Fm(T) THEN 6 ELSE 12)
      BY DEF ToData, PreSync
    <2> HIDE DEF s, no, size, T, pre
    <2>7. SectorBits(T, no) \in Nat /\ SectorBits(T, no) <= SpanOf(k) + pre
      BY <2>2, <2>3, <2>4, <2>5, <2>6
    <2> QED BY <2>1, <2>7
  <1>4. n <= Len(medium.secs) /\ 1000 * (n - 1) < medium.len
    <2> DEFINE N == Len(medium.secs)
               h == [k \in 1..n |-> ibm_secs[k].i]
               o == [k \in 1..n |-> Off(k)]
    <2>1. N \in Nat
      BY DEF Layout
    <2>2. n <= N
      <3>1. h \in [1..n -> 1..N]
        BY ListOrder
      <3>2. ASSUME NEW k \in 1..n, NEW l \in 1..n, h[k] = h[l] PROVE k = l
        <4>1. ibm_secs[k].i = ibm_secs[l].i
          BY <3>2
        <4>2. ~(k < l) /\ ~(l < k)
          BY <4>1, ListOrder
        <4> QED BY <1>1, <4>2
      <3> HIDE DEF h, n, N
      <3> QED BY <1>1, <2>1, <3>1, <3>2, NoMoreThan
    <2>3. 1000 * (n - 1) < medium.len
      <3>1. o \in [1..n -> Nat]
        BY <1>2
      <3>2. \A k, l \in 1..n : k < l => o[l] - o[k] >= 1000
        BY ListOrder
      <3>3. o[n] \in 0..(medium.len - 1) /\ n \in 1..n
        BY <1>1, <1>2
      <3> HIDE DEF o, n
      <3> DEFINE step == 1000
      <3>4. n \in Nat /\ step \in Nat /\ \A k, l \in 1..n : k < l => o[l] - o[k] >= step
        BY <1>1, <3>2
      <3> HIDE DEF step
      <3>5. \A k \in 1..n : o[k] >= (k - 1) * step
        BY <3>1, <3>4, RisesBy
      <3> QED BY <1>1, <3>3, <3>5 DEF step
    <2> QED BY <2>2, <2>3
  <1>5. Len(a) = n /\ Len(b) = n
    BY <1>1
  <1>6. \A k \in 1..n : a[k] \in Int /\ a[k] >= gap + 1 - pre
    <2> TAKE k \in 1..n
    <2>1. a[k] = Distance(k) - pre
      OBVIOUS
    <2> HIDE DEF a, pre
    <2> QED BY <1>1, <1>2, <2>1
  <1>7. \A k \in 1..n : b[k] \in Int /\ b[k] <= SpanOf(k) + pre + 16 * g
    <2> TAKE k \in 1..n
    <2>1. b[k] = SectorBits(T, ibm_secs[k].idam.no) + 16 * g
      OBVIOUS
    <2> HIDE DEF b, pre, T
    <2> QED BY <1>1, <1>2, <1>3, <2>1
  <1>8. f \in [0..n -> Int] /\ f[0] = 0 /\ f[n] = medium.len + n * c
    <2>1. ASSUME NEW k \in 0..n
          PROVE  (IF k = 0 THEN 0 ELSE Further(k) - Off(1)) + k * c \in Int
      <3>1. k * c \in Int
        BY <1>1
      <3>2. k # 0 => Further(k) \in Int /\ Off(1) \in Int
        BY <1>1, <1>2
      <3> HIDE DEF c
      <3> QED BY <3>1, <3>2
    <2>2. Further(n) - Off(1) = medium.len
      BY <1>1, <1>2 DEF Further
    <2> HIDE DEF c
    <2>3. f[0] = 0
      BY <1>1
    <2>4. f[n] = medium.len + n * c
      BY <1>1, <2>2
    <2> QED BY <2>1, <2>3, <2>4
  <1>9. ASSUME NEW k \in 1..n PROVE a[k] + b[k] <= f[k] - f[k - 1]
    <2> DEFINE x == IF k - 1 = 0 THEN 0 ELSE Further(k - 1) - Off(1)
    <2>1. f[k] = (Further(k) - Off(1)) + k * c /\ f[k - 1] = x + (k - 1) * c
      <3> HIDE DEF c
      <3> QED BY <1>1
    <2>2. x = Off(k) - Off(1) /\ Off(1) \in Int
      <3>1. k - 1 # 0 => k - 1 < n /\ (k - 1) + 1 = k
        BY <1>1
      <3> QED BY <1>1, <1>2, <3>1 DEF Further
    <2>3. k * c = (k - 1) * c + c
      <3> HIDE DEF c
      <3> QED BY <1>1
    <2>4. a[k] = Distance(k) - pre
      OBVIOUS
    <2>5. b[k] \in Int /\ b[k] <= SpanOf(k) + pre + 16 * g
      BY <1>7
    <2> DEFINE p == (k - 1) * c
    <2>6. p \in Int
      <3> HIDE DEF c
      <3> QED BY <1>1
    <2>7. f[k] = (Further(k) - Off(1)) + (p + c) /\ f[k - 1] = (Off(k) - Off(1)) + p
      BY <2>1, <2>2, <2>3
    <2> HIDE DEF a, b, f, pre, p
    <2>8. c = 16 * g + 1
      OBVIOUS
    <2> HIDE DEF c
    <2> DEFINE F == Further(k)
               o == Off(k)
               s == SpanOf(k)
               first == Off(1)
    <2>9. /\ F \in Int /\ o \in Int /\ s \in Int /\ first \in Int /\ pre \in Int
          /\ a[k] = F - o - s + 1 - pre /\ b[k] \in Int /\ b[k] <= s + pre + 16 * g
          /\ f[k] = (F - first) + (p + c) /\ f[k - 1] = (o - first) + p
      <3>1. F \in Int /\ o \in Int /\ s \in Int /\ Distance(k) = F - o - s + 1
        BY <1>2
      <3>2. first \in Int /\ pre \in Int
        BY <1>1, <2>2
      <3> HIDE DEF F, o, s, first
      <3>3. a[k] = F - o - s + 1 - pre
        BY <2>4, <3>1, <3>2
      <3>4. f[k] = (F - first) + (p + c) /\ f[k - 1] = (o - first) + p
        BY <2>7 DEF F, o, first
      <3>5. b[k] \in Int /\ b[k] <= s + pre + 16 * g
        BY <2>5 DEF s
      <3> QED BY <3>1, <3>2, <3>3, <3>4, <3>5
    <2> HIDE DEF F, o, s, first
    <2> QED BY <2>6, <2>8, <2>9
  <1> HIDE DEF a, b, f, c
  <1>10. Sums(a)[n] + Sums(b)[n] <= f[n] /\ n \in 0..n
    <2>1. \A k \in 1..n : a[k] \in Int /\ b[k] \in Int /\ a[k] + b[k] <= f[k] - f[k - 1]
      BY <1>6, <1>7, <1>9
    <2>2. \A k \in 0..n : Sums(a)[k] + Sums(b)[k] <= f[k]
      <3> HIDE DEF n
      <3> QED BY <1>1, <1>5, <1>8, <2>1, SumsTogether
    <2> QED BY <1>1, <2>2
  <1>11. Sums(a)[n] >= n * (gap + 1 - pre) /\ Sums(a)[n] \in Int
    <2> DEFINE e == gap + 1 - pre
    <2>1. e \in Int
      BY <1>1
    <2>2. \A k \in 1..Len(a) : a[k] \in Int /\ a[k] >= e
      BY <1>5, <1>6
    <2>3. Len(a) \in Nat
      BY <1>1, <1>5
    <2> HIDE DEF e
    <2>4. \A k \in 0..Len(a) : Sums(a)[k] >= k * e
      BY <2>1, <2>2, <2>3, SumsAtLeast
    <2>5. \A k \in 0..Len(a) : Sums(a)[k] \in Int
      BY <2>2, <2>3, SumsWhole
    <2> QED BY <1>5, <1>10, <2>4, <2>5 DEF e
  <1>12. Sums(b)[n] \in Int
    <2>1. \A k \in 0..Len(b) : Sums(b)[k] \in Int
      BY <1>1, <1>5, <1>7, SumsWhole
    <2> QED BY <1>5, <1>10, <2>1
  <1>13. Between = Sums(a)[n] /\ Taken(g) = Sums(b)[n]
    BY Zenon DEF Between, Taken, a, b
  <1> QED BY <1>1, <1>4, <1>8, <1>10, <1>11, <1>12, <1>13 DEF c

(* ibm_mfm_write_raw and ibm_fm_write_raw: what is made of a disk whose sectors lie   *)
(* apart is a track that has room for them, and that a clock can follow.             *)
THEOREM AnalysedFits ==
    ASSUME NEW read, Layout(medium), Found(medium, ibm_secs, read), Ends(medium, ibm_secs),
           medium.iam \in BOOLEAN, Roomy(medium), InStep(medium), ibm_secs # <<>>
    PROVE  Fitting(Analysed)
  <1> DEFINE n == Len(ibm_secs)
             T == medium.type
             pre == PreSync(T)
             iam == medium.iam
             mark == IamMark(T, iam)
             gaps == GapsOf(iam, n)
             lead == Lead(T)
             room == DensityBits(T)
             N == Len(medium.secs)
             free == room - medium.len + Between
             c == PostDataGap(T, iam, free, n)
             g == c.gap
             total == room + c.grown
  <1>1. PICK gap \in 0..medium.len : Apart(medium, gap) /\ Wide(medium, gap)
    BY DEF Roomy
  <1>2. gap \in Nat
    BY DEF Layout
  <1>3. \A i \in 1..Len(medium.secs) :
           Readable(medium.secs[i]) => medium.secs[i].data >= ToData(medium.type)
    BY DEF Roomy
  <1>4. /\ n \in Nat \ {0} /\ n <= N /\ 1000 * (n - 1) < medium.len
        /\ Between \in Int /\ Between >= n * (gap + 1 - pre)
    <2>1. 0 \in Nat
      OBVIOUS
    <2> QED BY <1>1, <1>2, <1>3, <2>1, FirstSums
  <1>5. /\ medium.len \in Nat \ {0} /\ N \in Nat /\ pre \in Nat /\ lead \in Nat /\ mark \in Nat
        /\ room \in Nat \ {0} /\ gaps \in Nat \ {0}
    <2>1. medium.len \in Nat \ {0} /\ N \in Nat
      BY DEF Layout
    <2>2. pre \in Nat /\ lead \in Nat /\ mark \in Nat
      BY DEF PreSync, Lead, IamBits, IamMark
    <2>3. room \in Nat \ {0}
      BY DEF DensityBits, DefaultBits
    <2>4. gaps \in Nat \ {0}
      BY <1>4 DEF GapsOf
    <2> QED BY <2>1, <2>2, <2>3, <2>4
  <1> HIDE DEF mark, lead, room, gaps
  <1>6. free \in Int
    BY <1>4, <1>5
  <1>16. free = room - medium.len + Between
    OBVIOUS
  <1> HIDE DEF free
  <1>7. /\ g \in Nat /\ c.grown \in Nat
        /\ 16 * gaps * g + mark + lead + 640 <= free + c.grown
        /\ c.grown # 0 => free + c.grown < mark + lead + 640 + 160 * gaps + 1000
    BY <1>4, <1>6, GapFills DEF mark, lead, gaps
  <1> HIDE DEF c, g
  <1> DEFINE B == Taken(g)
  <1>8. B \in Int /\ Between + B <= medium.len + n * (16 * g + 1)
    BY <1>1, <1>2, <1>3, <1>7, FirstSums
  <1> HIDE DEF B
  <1>9. n <= 640
    <2>1. 9 * medium.len <= 2000000
      BY <1>5 DEF InStep
    <2> QED BY <1>4, <1>5, <2>1
  <1>10. total <= LongBits(medium, total) /\ total \in Int /\ LongBits(medium, total) \in Int
         /\ InStep([type |-> T, len |-> LongBits(medium, total)])
    <2> DEFINE more == 159 + pre - gap
               least == medium.len + (IF more >= 0 THEN N * more ELSE more)
                            + (lead + 16 * 40 + 999) + IF iam THEN IamBits(T) + 160 ELSE 0
               most == IF least < room THEN room ELSE least
               long(x) == LongBits(medium, x)
               grown == c.grown
    <2>1. Most(medium, gap) = least
      BY Zenon DEF Most, lead
    <2>2. most <= long(most) /\ InStep([type |-> T, len |-> long(most)])
      <3> HIDE DEF least
      <3> QED BY <1>1, <2>1 DEF Wide, room
    <2>3. more \in Int /\ n * more <= (IF more >= 0 THEN N * more ELSE more) /\ n * more \in Int
      <3>1. more \in Int
        BY <1>2, <1>5
      <3> HIDE DEF more
      <3>2. n * more \in Int /\ N * more \in Int
        BY <1>4, <1>5, <3>1
      <3>3. more >= 0 => n * more <= N * more
        BY <1>4, <1>5, <3>1
      <3>4. ~(more >= 0) => n * more <= more
        BY <1>4, <3>1
      <3> QED BY <3>1, <3>2, <3>3, <3>4
    <2>4. n * more = n * 160 - n * (gap + 1 - pre)
      BY <1>2, <1>4, <1>5
    <2>5. n * (gap + 1 - pre) \in Int /\ 160 * gaps = n * 160 + IF iam THEN 160 ELSE 0
      BY <1>2, <1>4, <1>5 DEF gaps, GapsOf
    <2>6. mark = IF iam THEN IamBits(T) ELSE 0
      BY DEF mark, IamMark
    <2>7. least \in Int /\ (grown # 0 => total <= least)
      <3> DEFINE p == n * more
                 q == n * (gap + 1 - pre)
                 y == IF more >= 0 THEN N * more ELSE more
                 z == IF iam THEN 160 ELSE 0
                 len == medium.len
      <3>1. p <= y /\ p \in Int /\ y \in Int /\ q \in Int /\ z \in Int /\ p = n * 160 - q
            /\ Between >= q /\ 160 * gaps = n * 160 + z
        <4>1. N * more \in Int
          <5> HIDE DEF more
          <5> QED BY <1>5, <2>3
        <4> QED BY <1>4, <2>3, <2>4, <2>5, <4>1
      <3>2. least = len + y + (lead + 16 * 40 + 999) + (mark + z)
        <4>1. (IF iam THEN IamBits(T) + 160 ELSE 0) = mark + z
          BY <1>5, <2>6
        <4> DEFINE r == IF iam THEN IamBits(T) + 160 ELSE 0
        <4>2. least = len + y + (lead + 16 * 40 + 999) + r
          BY Zenon
        <4> HIDE DEF more, y, z, r, least
        <4> QED BY <4>1, <4>2 DEF r
      <3> HIDE DEF p, q, y, z, more, least
      <3>3. free = room - len + Between /\ total = room + grown
        BY <1>16
      <3>4. len \in Int /\ n \in Int /\ lead \in Int /\ mark \in Int /\ room \in Int /\ gaps \in Int
            /\ Between \in Int /\ free \in Int /\ grown \in Int
            /\ (grown # 0 => free + grown < mark + lead + 640 + 160 * gaps + 1000)
        BY <1>4, <1>5, <1>6, <1>7
      <3> HIDE DEF len, n, total, grown
      <3> QED BY <3>1, <3>2, <3>3, <3>4
    <2>8. most \in Nat \ {0} /\ total \in Nat \ {0} /\ total <= most /\ room <= total
      <3> HIDE DEF least
      <3> QED BY <1>5, <1>7, <2>7
    <2> HIDE DEF most, total
    <2>9. CASE medium.long = 0 \/ (medium.long = 1 /\ medium.len <= 101100)
      <3>1. long(most) = most /\ long(total) = total
        BY <2>9 DEF LongBits
      <3>2. InStep([type |-> T, len |-> most])
        BY <2>2, <3>1
      <3>3. InStep([type |-> T, len |-> total])
        BY <2>8, <3>2 DEF InStep, room, DensityBits, DefaultBits
      <3> QED BY <2>8, <3>1, <3>3
    <2>10. CASE ~(medium.long = 0 \/ (medium.long = 1 /\ medium.len <= 101100))
      <3>1. long(most) = long(total) /\ long(most) \in Nat
        <4>1. NearestLong(medium) \in Nat
          <5>1. \E x \in {102200, 103300, 104400, 105500, 106600} :
                  /\ x = 106600 \/ medium.len <= x + 550
                  /\ x = 102200 \/ medium.len > x - 550
            BY <1>5
          <5>2. NearestLong(medium) \in {102200, 103300, 104400, 105500, 106600}
            BY <5>1 DEF NearestLong
          <5> QED BY <5>2
        <4> QED BY <2>10, <4>1 DEF LongBits, Layout
      <3> QED BY <2>2, <2>8, <3>1
    <2> QED BY <2>9, <2>10
  <1> DEFINE secs == [k \in 1..n |-> [idam |-> ibm_secs[k].idam, mark |-> ibm_secs[k].mark,
                                      good |-> ibm_secs[k].good, dat |-> ibm_secs[k].dat]]
             t == [type |-> T, iam |-> iam, gap |-> g, total |-> LongBits(medium, total),
                   secs |-> secs]
             ahead == IF iam THEN IamBits(T) + 16 * g ELSE 0
  <1>11. Analysed = t
    BY Zenon DEF Analysed, c, free, g, room, Between
  <1>12. Ahead(t, n + 1) = ahead + B
    <2>1. /\ t.iam = iam /\ t.type = T /\ t.gap = g /\ t.secs = secs /\ Len(secs) = n
          /\ \A k \in 1..n : secs[k].idam = ibm_secs[k].idam
      BY <1>4
    <2> HIDE DEF t, secs, T, iam, n
    <2>2. (n + 1) - 1 = n
      BY <1>4
    <2>3. Ahead(t, n + 1) = (IF iam THEN IamBits(T) + 16 * g ELSE 0)
             + Sums([m \in 1..n |-> SectorBits(T, secs[m].idam.no) + 16 * g])[(n + 1) - 1]
      BY <2>1, Zenon DEF Ahead
    <2>4. [m \in 1..n |-> SectorBits(T, secs[m].idam.no) + 16 * g]
             = [m \in 1..n |-> SectorBits(T, ibm_secs[m].idam.no) + 16 * g]
      BY <2>1
    <2>5. B = Sums([m \in 1..n |-> SectorBits(T, ibm_secs[m].idam.no) + 16 * g])[n]
      BY Zenon DEF B, Taken, n, T
    <2> QED BY <2>2, <2>3, <2>4, <2>5, Zenon
  <1>13. ahead + B <= total
    <2> DEFINE w == 16 * gaps * g
               v == n * (16 * g + 1)
               x == IF iam THEN 16 * g ELSE 0
               grown == c.grown
    <2>1. x + v = w + n
      <3>1. gaps = IF iam THEN n + 1 ELSE n
        BY DEF gaps, GapsOf
      <3> QED BY <1>4, <1>7, <3>1
    <2>2. w \in Int /\ v \in Int /\ x \in Int
      BY <1>4, <1>5, <1>7
    <2>3. w + mark + lead + 640 <= free + grown /\ free = room - medium.len + Between
          /\ Between + B <= medium.len + v /\ grown \in Nat
      BY <1>7, <1>8, <1>16
    <2>4. ahead = mark + x
      BY <1>5, <2>2 DEF mark, IamMark
    <2>5. total = room + grown
      OBVIOUS
    <2> DEFINE len == medium.len
    <2>6. len \in Int /\ n \in Int /\ lead \in Int /\ mark \in Int /\ room \in Int
          /\ B \in Int /\ Between \in Int /\ free \in Int /\ lead >= 0 /\ n <= 640
      BY <1>4, <1>5, <1>6, <1>8, <1>9
    <2>7. free = room - len + Between /\ Between + B <= len + v
      BY <2>3
    <2> HIDE DEF w, v, x, ahead, total, grown, len, n
    <2> QED BY <2>1, <2>2, <2>3, <2>4, <2>5, <2>6, <2>7
  <1>14. Fits(t)
    <2>1. Len(t.secs) = n /\ t.total = LongBits(medium, total)
      BY <1>4
    <2>2. ahead + B <= LongBits(medium, total)
      <3> DEFINE u == ahead + B
      <3>1. u \in Int /\ u <= total
        BY <1>5, <1>7, <1>8, <1>13 DEF IamBits
      <3> HIDE DEF u, total
      <3> QED BY <1>10, <3>1 DEF u
    <2> HIDE DEF t, ahead, n
    <2> QED BY <1>12, <2>1, <2>2 DEF Fits
  <1>15. t.type = T /\ t.total = LongBits(medium, total)
    OBVIOUS
  <1> HIDE DEF t
  <1> QED BY <1>10, <1>11, <1>14, <1>15 DEF Fitting

(* setup_ibm_mfm_track, in double and in high density: a clock can follow what imd_open   *)
(* makes of an image that it does not refuse.                                         *)
THEOREM SetupFitting ==
    ASSUME NEW type, type # "ibm_fm_sd", ~Recovery(type), NEW no \in 0..7, NEW secs,
           Len(secs) \in Nat \ {0}, \A k \in 1..Len(secs) : secs[k].idam.no = no,
           SetupFree(type, no, Len(secs)) >= 0
    PROVE  Fitting(Setup(type, no, secs))
  <1> DEFINE n == Len(secs)
             sb == SectorBits(type, no)
             free == SetupFree(type, no, n)
             iam == TRUE
             c == PostDataGap(type, iam, free, n)
             t == Setup(type, no, secs)
             room == SetupBits(type)
             mark == IamMark(type, iam)
             lead == Lead(type)
             total == room + c.grown
  <1>1. Fits(t)
    BY SetupFits
  <1>2. t.type = type /\ t.total = total
    BY DEF Setup
  <1>3. sb \in Nat /\ sb >= (IF Fm(type) THEN 2576 ELSE 3040)
    <2> DEFINE size == Size(no)
    <2>1. size \in Nat /\ size >= 128
      BY SizeIs
    <2> HIDE DEF size
    <2>2. sb = 16 * ((IF Fm(type) THEN 33 ELSE 62) + size)
      BY DEF SectorBits, size
    <2> HIDE DEF sb
    <2> QED BY <2>1, <2>2
  <1>4. free = room - n * sb /\ free >= 0
    BY Zenon DEF SetupFree
  <1>5. room = (IF type = "ibm_mfm_hd" THEN 200300 ELSE 100150)
    BY DEF SetupBits, DefaultBits
  <1>6. /\ mark = (IF Fm(type) THEN 112 ELSE 256) /\ lead = (IF Fm(type) THEN 640 ELSE 1280)
        /\ GapsOf(iam, n) = n + 1
    BY DEF IamMark, IamBits, Lead, GapsOf
  <1> HIDE DEF sb, room, mark, lead, free
  <1>7. n * sb <= room /\ n * sb \in Int /\ free \in Int
    <2>1. n * sb \in Int
      BY <1>3
    <2> DEFINE p == n * sb
    <2> HIDE DEF p
    <2> QED BY <1>4, <1>5, <2>1 DEF p
  <1>8. n * (IF Fm(type) THEN 2576 ELSE 3040) <= n * sb
    <2> DEFINE least == IF Fm(type) THEN 2576 ELSE 3040
    <2>1. least \in Nat /\ least <= sb
      BY <1>3
    <2> HIDE DEF least, n
    <2>2. n \in Nat
      BY DEF n
    <2>3. n * least <= n * sb
      BY <1>3, <2>1, <2>2
    <2> QED BY <2>3 DEF least
  <1>9. iam \in BOOLEAN /\ n \in Nat \ {0}
    OBVIOUS
  <1> HIDE DEF iam
  <1>10. /\ c.grown \in Nat
         /\ c.grown # 0 => free + c.grown < mark + lead + 640 + 160 * (n + 1) + 1000
    <2> HIDE DEF n, c
    <2>1. c = PostDataGap(type, iam, free, n)
      BY DEF c
    <2>2. /\ c.grown \in Nat
          /\ c.grown # 0 => free + c.grown < IamMark(type, iam) + Lead(type) + 640
                                              + 160 * GapsOf(iam, n) + 1000
      BY <1>7, <1>9, <2>1, GapFills
    <2> QED BY <1>6, <2>2 DEF mark, lead
  <1> HIDE DEF c
  <1> DEFINE p == n * sb
             grown == c.grown
  <1>11. /\ grown \in Nat /\ (grown # 0 => grown < mark + lead + 640 + 160 * (n + 1) + 1000)
         /\ n \in Nat /\ n * (IF Fm(type) THEN 2576 ELSE 3040) <= room
    <2>1. grown # 0 => free + grown < mark + lead + 640 + 160 * (n + 1) + 1000
      BY <1>10
    <2> HIDE DEF p, grown, n
    <2>2. grown \in Nat /\ n \in Nat /\ mark \in Nat /\ lead \in Nat
      BY <1>6, <1>9, <1>10 DEF grown, n
    <2>3. grown # 0 => grown < mark + lead + 640 + 160 * (n + 1) + 1000
      BY <1>4, <1>7, <2>1, <2>2
    <2>4. n * (IF Fm(type) THEN 2576 ELSE 3040) <= room
      <3>1. p \in Int /\ p <= room /\ n * (IF Fm(type) THEN 2576 ELSE 3040) <= p
        BY <1>7, <1>8 DEF p
      <3> QED BY <1>5, <2>2, <3>1
    <2> QED BY <2>2, <2>3, <2>4
  <1> HIDE DEF grown, n
  <1>12. ~Fm(type) \/ type = "ibm_fm_dd"
    BY DEF Fm, Recovery
  <1>13. InStep([type |-> type, len |-> room + grown])
    <2>1. CASE type = "ibm_mfm_hd"
      <3>1. ~Fm(type) /\ room = 200300 /\ mark = 256 /\ lead = 1280
        BY <1>5, <1>6, <2>1 DEF Fm
      <3>2. 9 * (room + grown) <= 10 * 200000 /\ 11 * (room + grown) >= 10 * 200000
        BY <1>11, <3>1
      <3> QED BY <2>1, <3>2 DEF InStep
    <2>2. CASE type # "ibm_mfm_hd"
      <3>1. 9 * (room + grown) <= 10 * 100000 /\ 11 * (room + grown) >= 10 * 100000
        <4>1. CASE Fm(type)
          BY <1>5, <1>6, <1>11, <2>2, <4>1
        <4>2. CASE ~Fm(type)
          BY <1>5, <1>6, <1>11, <2>2, <4>2
        <4> QED BY <4>1, <4>2
      <3> QED BY <2>2, <3>1 DEF InStep, Recovery
    <2> QED BY <2>1, <2>2
  <1> QED BY <1>1, <1>2, <1>13 DEF Fitting, grown

-----------------------------------------------------------------------------
(* A track that is copied.                                                       *)

\* imd.c and read_raw do not agree on the length of a track of single density.
Single == imd # NoFile /\ kept.type = "ibm_fm_sd"

\* A sector as a track has it, and a track of one sector or more.
IsSector(s) ==
    s = [idam |-> Idam(s.idam), mark |-> s.mark, good |-> s.good, dat |-> s.dat]
    /\ s.idam.no \in 0..7
IsTrack(t) ==
    /\ Len(t.secs) \in Nat \ {0} /\ t.iam \in BOOLEAN
    /\ \A k \in 1..Len(t.secs) : IsSector(t.secs[k])

\* A track that has all that was kept.
SameAsKept(t) ==
    /\ t.iam = (kept.iam \/ imd # NoFile)
    /\ t.secs = [k \in 1..Len(kept.secs) |->
                    [kept.secs[k] EXCEPT !.mark = Told(@), !.good = TRUE]]

\* A medium that has no flaw: a track as read_raw writes it.
Tight(m) ==
    /\ InStep(m) /\ m.wobble = {0} /\ m.len \in Nat \ {0} /\ Len(m.secs) \in Nat \ {0}
    /\ \A k \in 1..Len(m.secs) :
          /\ m.secs[k].no \in 0..7 /\ m.secs[k].crc /\ m.secs[k].data = ToData(m.type)
          /\ m.secs[k].at \in 500..(m.len - 1000)
          /\ m.secs[k].at + Span(m.secs[k]) <= 2 * m.len
    /\ \A k, l \in 1..Len(m.secs) :
          k < l => m.secs[l].at - m.secs[k].at >= Span(m.secs[k])

\* It has what was kept.
HoldsKept(m) ==
    /\ m.iam = (kept.iam \/ imd # NoFile) /\ Len(m.secs) = Len(kept.secs)
    /\ \A k \in 1..Len(kept.secs) :
          /\ Idam(m.secs[k]) = kept.secs[k].idam /\ m.secs[k].dat = kept.secs[k].dat
          /\ m.secs[k].mark = Told(kept.secs[k].mark)

\* Where the header of the k-th sector is known from, in the first revolution.
SeenAt(k) == Sector(k).at + MarkBits(medium.type) - (IF Fm(medium.type) THEN 0 ELSE 32)

\* What was found of it: its first sectors, each without error, and the head is not yet
\* past the header of the next.
FoundSoFar ==
    /\ Len(ibm_secs) <= Len(medium.secs)
    /\ \A k \in 1..Len(ibm_secs) :
          LET e == ibm_secs[k] IN
          /\ e.i = k /\ e.good = TRUE /\ e.idam = Idam(Sector(k)) /\ e.mark = Sector(k).mark
          /\ e.dat = Sector(k).dat /\ e.end_offset \in 0..(medium.len - 1)
    /\ Len(ibm_secs) < Len(medium.secs) =>
          \/ /\ pc = "scan" /\ past \in Nat /\ past < SeenAt(Len(ibm_secs) + 1)
             /\ Len(ibm_secs) # 0 => past >= SeenAt(Len(ibm_secs))
          \/ /\ pc = "data" /\ id = [i |-> Len(ibm_secs) + 1, j |-> 0]
             /\ past = Sector(Len(ibm_secs) + 1).at + HeaderBits(medium.type)

FirstDump ==
    kept = NoTrack =>
        /\ bad <= MaxBad /\ imd = NoFile /\ pc \in {"scan", "data", "over", "done"}
        /\ Roomy(medium) /\ Ends(medium, ibm_secs) /\ (ibm_secs # <<>> => InStep(medium))
        /\ ti # NoTrack => pc = "done" /\ IsTrack(ti) /\ Fitting(ti)

Image ==
    kept # NoTrack /\ bad <= MaxBad =>
        /\ IsTrack(kept) /\ pc \in {"closed", "done", "refused"}
        /\ imd # NoFile => /\ SameSizes(kept) /\ ~Recovery(kept.type)
                           /\ imd = Saved(kept, imd.cyl, imd.head)
        /\ pc # "done" \/ imd = NoFile => ti = NoTrack
        /\ pc = "done" /\ imd # NoFile =>
              /\ ti # NoTrack /\ SameAsKept(ti) /\ ti.type = kept.type
              /\ ~Single => Fitting(ti)

SecondDump ==
    bad > MaxBad =>
        /\ kept # NoTrack /\ IsTrack(kept) /\ pc \in {"scan", "data", "over", "done"}
        /\ ~Single => Tight(medium) /\ HoldsKept(medium) /\ FoundSoFar
        /\ ~Single /\ pc = "done" => ti # NoTrack /\ SameAsKept(ti)

CopyInv == bad \in Nat /\ FirstDump /\ Image /\ SecondDump

-----------------------------------------------------------------------------
(* What is dumped from a track that fits is tight.                                *)

\* A sector is as far on as the one before it is long.
LEMMA AheadRises ==
    ASSUME NEW t, Writable(t)
    PROVE  /\ \A k \in 1..(Len(t.secs) + 1) : Ahead(t, k) \in Nat
           /\ \A k \in 1..Len(t.secs), l \in 1..(Len(t.secs) + 1) :
                 k < l => Ahead(t, l) >= Ahead(t, k) + SectorBits(t.type, t.secs[k].idam.no)
  <1> DEFINE n == Len(t.secs)
             list == [m \in 1..n |-> SectorBits(t.type, t.secs[m].idam.no) + 16 * t.gap]
             first == IF t.iam THEN IamBits(t.type) + 16 * t.gap ELSE 0
             S == Sums(list)
             b(k) == SectorBits(t.type, t.secs[k].idam.no)
  <1>1. n \in Nat \ {0} /\ t.gap \in Nat /\ \A k \in 1..n : t.secs[k].idam.no \in 0..7
    BY DEF Writable
  <1>2. first \in Nat
    BY <1>1 DEF IamBits
  <1>3. \A k \in 1..n : b(k) \in Nat
    BY <1>1, SectorBitsIs
  <1>4. \A k \in 1..(n + 1) : Ahead(t, k) = first + S[k - 1]
    BY Zenon DEF Ahead
  <1>5. Len(list) = n /\ \A k \in 1..n : list[k] = b(k) + 16 * t.gap
    BY <1>1
  <1> HIDE DEF list, first, b
  <1>6. Len(list) \in Nat /\ \A k \in 1..Len(list) : list[k] \in Int /\ list[k] >= 0
    BY <1>1, <1>3, <1>5
  <1>7. \A k \in 0..n : /\ S[k] \in Int /\ S[k] >= 0
                        /\ \A i \in 0..(k - 1) : S[k] >= S[i] + 0
    <2>1. 0 \in Nat
      OBVIOUS
    <2>2. \A k \in 0..Len(list) : /\ S[k] \in Int /\ S[k] >= 0
                                  /\ \A i \in 0..(k - 1) : S[k] >= S[i] + 0
      BY <1>6, <2>1, SumsRise, Zenon
    <2> QED BY <1>5, <2>2
  <1>8. \A k \in 1..n : S[k] = S[k - 1] + list[k]
    <2>1. \A k \in 0..Len(list) : S[k] = IF k = 0 THEN 0 ELSE S[k - 1] + list[k]
      BY <1>6, SumsIs
    <2> HIDE DEF S
    <2> QED BY <1>1, <1>5, <2>1
  <1> HIDE DEF S
  <1>9. ASSUME NEW k \in 1..(n + 1) PROVE Ahead(t, k) \in Nat
    <2>1. k - 1 \in 0..n
      BY <1>1
    <2> QED BY <1>2, <1>4, <1>7, <2>1
  <1>10. ASSUME NEW k \in 1..n, NEW l \in 1..(n + 1), k < l
         PROVE  Ahead(t, l) >= Ahead(t, k) + b(k)
    <2>1. k \in 1..(n + 1) /\ k \in 0..n /\ k - 1 \in 0..n /\ l - 1 \in 0..n
          /\ (l - 1 = k \/ k \in 0..((l - 1) - 1))
      BY <1>1, <1>10
    <2>2. S[l - 1] >= S[k] /\ S[l - 1] \in Int /\ S[k] \in Int /\ S[k - 1] \in Int
      <3>1. S[l - 1] \in Int /\ S[k] \in Int /\ S[k - 1] \in Int
        BY <1>7, <2>1
      <3>2. CASE l - 1 = k
        BY <3>1, <3>2
      <3>3. CASE k \in 0..((l - 1) - 1)
        <4>1. S[l - 1] >= S[k] + 0
          BY <1>7, <2>1, <3>3
        <4> QED BY <3>1, <4>1
      <3> QED BY <2>1, <3>2, <3>3
    <2>3. S[k] >= S[k - 1] + b(k) /\ b(k) \in Nat
      <3> DEFINE c == b(k)
                 y == S[k]
                 z == S[k - 1]
      <3>1. y = z + (c + 16 * t.gap)
        BY <1>5, <1>8
      <3>2. c \in Nat /\ y \in Int /\ z \in Int
        BY <1>3, <2>2
      <3> HIDE DEF c, y, z
      <3>3. y >= z + c
        BY <1>1, <3>1, <3>2
      <3> QED BY <3>2, <3>3 DEF c, y, z
    <2> DEFINE x == S[l - 1]
               y == S[k]
               z == S[k - 1]
               c == b(k)
    <2>4. /\ x >= y /\ x \in Int /\ y \in Int /\ z \in Int /\ y >= z + c /\ c \in Nat
          /\ Ahead(t, l) = first + x /\ Ahead(t, k) = first + z
      BY <1>4, <2>1, <2>2, <2>3
    <2> HIDE DEF x, y, z, c
    <2>5. Ahead(t, l) >= Ahead(t, k) + c
      BY <1>2, <2>4
    <2> QED BY <2>5 DEF c
  <1> QED BY <1>9, <1>10 DEF b

\* The clock is asked for the type and the length, whatever else there is of a medium.
LEMMA StepIs ==
    ASSUME NEW a, InStep(a), NEW b, b.type = a.type, b.len = a.len
    PROVE  InStep(b)
  BY DEF InStep

LEMMA WrittenTight ==
    ASSUME NEW t, Writable(t), IsTrack(t), Fitting(t)
    PROVE  /\ Tight(Written(t)) /\ Written(t).iam = t.iam
           /\ Len(Written(t).secs) = Len(t.secs)
           /\ \A k \in 1..Len(t.secs) :
                 /\ Idam(Written(t).secs[k]) = t.secs[k].idam
                 /\ Written(t).secs[k].dat = t.secs[k].dat
                 /\ Written(t).secs[k].mark = t.secs[k].mark
  <1> DEFINE n == Len(t.secs)
             T == t.type
             lead == Lead(T)
             pre == IF Fm(T) THEN 0 ELSE PreSync(T)
             x(k) == lead + Ahead(t, k) + pre
             m == Written(t)
             sb(k) == SectorBits(T, t.secs[k].idam.no)
             size(k) == Size(t.secs[k].idam.no)
  <1>1. n \in Nat \ {0} /\ t.total \in Nat \ {0} /\ \A k \in 1..n : t.secs[k].idam.no \in 0..7
    BY DEF Writable
  <1> DEFINE f == [type |-> T, len |-> t.total]
  <1>2. Ahead(t, n + 1) <= t.total /\ InStep(f) /\ f.type = T /\ f.len = t.total
    BY DEF Fitting, Fits
  <1>3. m.type = T /\ m.len = t.total /\ m.wobble = {0} /\ m.iam = t.iam
    BY DEF Written
  <1>4. m.secs = [k \in 1..n |->
            LET s == t.secs[k] IN
            [at |-> (Lead(t.type) + Ahead(t, k) + (IF Fm(t.type) THEN 0 ELSE PreSync(t.type)))
                        % t.total,
             data |-> ToData(t.type), cyl |-> s.idam.cyl, head |-> s.idam.head,
             sec |-> s.idam.sec, no |-> s.idam.no, mark |-> s.mark, crc |-> TRUE,
             dat |-> s.dat]]
    BY DEF Written
  <1> HIDE DEF m, f
  <1>5. Len(m.secs) = n
    BY <1>1, <1>4
  <1>6. ASSUME NEW k \in 1..n
        PROVE  /\ m.secs[k].at = x(k) % t.total /\ m.secs[k].data = ToData(T)
               /\ m.secs[k].cyl = t.secs[k].idam.cyl /\ m.secs[k].head = t.secs[k].idam.head
               /\ m.secs[k].sec = t.secs[k].idam.sec /\ m.secs[k].no = t.secs[k].idam.no
               /\ m.secs[k].mark = t.secs[k].mark /\ m.secs[k].crc = TRUE
               /\ m.secs[k].dat = t.secs[k].dat
    <2> DEFINE s == t.secs[k]
               at == (Lead(t.type) + Ahead(t, k) + (IF Fm(t.type) THEN 0 ELSE PreSync(t.type)))
                        % t.total
               td == ToData(t.type)
    <2>1. m.secs[k] = [at |-> at, data |-> td, cyl |-> s.idam.cyl, head |-> s.idam.head,
                       sec |-> s.idam.sec, no |-> s.idam.no, mark |-> s.mark, crc |-> TRUE,
                       dat |-> s.dat]
      BY <1>4, Zenon
    <2>2. at = x(k) % t.total
      OBVIOUS
    <2> HIDE DEF at, td, s
    <2>3. /\ m.secs[k].at = at /\ m.secs[k].data = td /\ m.secs[k].cyl = s.idam.cyl
          /\ m.secs[k].head = s.idam.head /\ m.secs[k].sec = s.idam.sec
          /\ m.secs[k].no = s.idam.no /\ m.secs[k].mark = s.mark /\ m.secs[k].crc = TRUE
          /\ m.secs[k].dat = s.dat
      BY <2>1
    <2> QED BY <2>2, <2>3, Zenon DEF td, s
  <1>7. ASSUME NEW k \in 1..n
        PROVE  Idam(m.secs[k]) = t.secs[k].idam
    <2>1. IsSector(t.secs[k])
      BY DEF IsTrack
    <2>2. t.secs[k].idam = Idam(t.secs[k].idam)
      <3> DEFINE s == t.secs[k]
                 i == Idam(s.idam)
      <3>1. s = [idam |-> i, mark |-> s.mark, good |-> s.good, dat |-> s.dat]
        BY <2>1, Zenon DEF IsSector
      <3> HIDE DEF i
      <3>2. s.idam = i
        BY <3>1
      <3> QED BY <3>2 DEF i
    <2>3. Idam(m.secs[k]) = Idam(t.secs[k].idam)
      BY <1>6, Zenon DEF Idam
    <2> QED BY <2>2, <2>3
  <1>8. ASSUME NEW k \in 1..n
        PROVE  /\ size(k) \in Nat /\ size(k) >= 128 /\ sb(k) \in Nat
               /\ sb(k) = 16 * ((IF Fm(T) THEN 33 ELSE 62) + size(k))
               /\ m.secs[k].data = ToData(T)
               /\ Span(m.secs[k]) = ToData(T) + 16 * (size(k) + 2)
    <2>1. size(k) \in Nat /\ size(k) >= 128
      BY <1>1, SizeIs
    <2>2. sb(k) = 16 * ((IF Fm(T) THEN 33 ELSE 62) + size(k))
      BY DEF SectorBits
    <2>3. Span(m.secs[k]) = ToData(T) + 16 * (size(k) + 2)
      BY <1>6 DEF Span
    <2> HIDE DEF size
    <2>4. sb(k) \in Nat
      BY <1>1, SectorBitsIs
    <2> QED BY <1>6, <2>1, <2>2, <2>3, <2>4
  <1>9. ASSUME NEW k \in 1..n, NEW l \in 1..(n + 1), k < l
        PROVE  Ahead(t, l) >= Ahead(t, k) + sb(k) /\ Ahead(t, l) \in Nat /\ Ahead(t, k) \in Nat
    <2>1. k \in 1..(n + 1)
      BY <1>1
    <2> QED BY <1>9, <2>1, AheadRises
  <1>10. t.total >= 4000
    <2>1. f.len \in Nat
      BY <1>1, <1>2
    <2>2. f.len >= 4000
      BY <1>2, <2>1, SMT DEF InStep
    <2> QED BY <1>2, <2>2
  <1>11. /\ lead = (IF Fm(T) THEN 640 ELSE 1280) /\ pre = (IF Fm(T) THEN 0 ELSE 192)
         /\ ToData(T) = (IF Fm(T) THEN 496 ELSE 768)
    BY DEF Lead, PreSync, ToData
  <1> HIDE DEF size, sb, lead, pre
  <1>12. ASSUME NEW k \in 1..n
         PROVE  /\ m.secs[k].at = x(k) /\ x(k) \in 500..(t.total - 1000)
                /\ x(k) + Span(m.secs[k]) <= 2 * t.total
    <2> DEFINE a == Ahead(t, k)
               s == size(k)
               span == Span(m.secs[k])
    <2>1. a \in Nat /\ a + sb(k) <= t.total
      <3>1. n + 1 \in 1..(n + 1) /\ k < n + 1
        BY <1>1
      <3>2. Ahead(t, n + 1) >= a + sb(k) /\ Ahead(t, n + 1) \in Nat /\ a \in Nat
        BY <1>9, <3>1
      <3> QED BY <1>1, <1>2, <1>8, <3>2
    <2>2. s \in Nat /\ s >= 128 /\ sb(k) = 16 * ((IF Fm(T) THEN 33 ELSE 62) + s)
          /\ span = ToData(T) + 16 * (s + 2)
      BY <1>8
    <2>3. m.secs[k].at = x(k) % t.total
      BY <1>6
    <2> HIDE DEF a, s, span
    <2>4. x(k) = lead + a + pre
      BY DEF a
    <2>5. x(k) \in 500..(t.total - 1000) /\ x(k) + span <= 2 * t.total
      <3> DEFINE y == x(k)
                 total == t.total
                 b == sb(k)
                 td == ToData(T)
      <3>1. y = lead + a + pre /\ a \in Nat /\ a + b <= total /\ total \in Nat /\ total >= 4000
        BY <1>1, <1>10, <2>1, <2>4
      <3>2. span = td + 16 * (s + 2) /\ s \in Nat /\ s >= 128
        BY <2>2
      <3> HIDE DEF y, total, b, td
      <3>3. CASE Fm(T)
        <4>1. lead = 640 /\ pre = 0 /\ td = 496 /\ b = 16 * (33 + s)
          BY <1>11, <2>2, <3>3 DEF td, b
        <4>2. y \in 500..(total - 1000) /\ y + span <= 2 * total
          BY <3>1, <3>2, <4>1, SMT
        <4> QED BY <4>2 DEF y, total
      <3>4. CASE ~Fm(T)
        <4>1. lead = 1280 /\ pre = 192 /\ td = 768 /\ b = 16 * (62 + s)
          BY <1>11, <2>2, <3>4 DEF td, b
        <4>2. y \in 500..(total - 1000) /\ y + span <= 2 * total
          BY <3>1, <3>2, <4>1, SMT
        <4> QED BY <4>2 DEF y, total
      <3> QED BY <3>3, <3>4
    <2> DEFINE y == x(k)
    <2> HIDE DEF y
    <2>6. y \in 0..(t.total - 1)
      BY <1>1, <2>5 DEF y
    <2>7. y % t.total = y
      BY <1>1, <2>6, NoTurn
    <2> QED BY <2>3, <2>5, <2>7 DEF y, span
  <1>13. ASSUME NEW k \in 1..n, NEW l \in 1..n, k < l
         PROVE  m.secs[l].at - m.secs[k].at >= Span(m.secs[k])
    <2> DEFINE a == Ahead(t, k)
               b == Ahead(t, l)
               s == size(k)
               span == Span(m.secs[k])
    <2>1. l \in 1..(n + 1)
      BY <1>1
    <2>2. b >= a + sb(k) /\ a \in Nat /\ b \in Nat
      BY <1>9, <1>13, <2>1
    <2>3. s \in Nat /\ s >= 128 /\ sb(k) = 16 * ((IF Fm(T) THEN 33 ELSE 62) + s)
          /\ span = ToData(T) + 16 * (s + 2)
      BY <1>8
    <2>4. m.secs[k].at = lead + a + pre /\ m.secs[l].at = lead + b + pre
      BY <1>12
    <2> HIDE DEF a, b, s, span
    <2>5. m.secs[l].at - m.secs[k].at >= span
      BY <1>11, <2>2, <2>3, <2>4
    <2> QED BY <2>5 DEF span
  <1>14. InStep(m)
    BY <1>2, <1>3, StepIs
  <1>15. ASSUME NEW k \in 1..Len(m.secs)
         PROVE  /\ m.secs[k].no \in 0..7 /\ m.secs[k].crc /\ m.secs[k].data = ToData(m.type)
                /\ m.secs[k].at \in 500..(m.len - 1000)
                /\ m.secs[k].at + Span(m.secs[k]) <= 2 * m.len
    <2>1. k \in 1..n
      BY <1>5
    <2>2. m.secs[k].no \in 0..7
      BY <1>1, <1>6, <2>1
    <2>3. m.secs[k].crc /\ m.secs[k].data = ToData(m.type)
      BY <1>3, <1>6, <2>1
    <2>4. m.secs[k].at \in 500..(m.len - 1000)
          /\ m.secs[k].at + Span(m.secs[k]) <= 2 * m.len
      <3> DEFINE y == x(k)
      <3>1. m.secs[k].at = y /\ y \in 500..(t.total - 1000)
            /\ y + Span(m.secs[k]) <= 2 * t.total
        BY <1>12, <2>1
      <3> HIDE DEF y
      <3> QED BY <1>3, <3>1
    <2> QED BY <2>2, <2>3, <2>4
  <1>16. Tight(m)
    BY <1>1, <1>3, <1>5, <1>13, <1>14, <1>15 DEF Tight
  <1> QED BY <1>3, <1>5, <1>6, <1>7, <1>16 DEF m

-----------------------------------------------------------------------------
(* What the list is after a sector was read.                                      *)

LEMMA PlacedAre ==
    ASSUME NEW read, Layout(medium), Found(medium, ibm_secs, read), NEW e, Entry(medium, e)
    PROVE  /\ \A x \in 1..Len(Placed(e)) :
                 Placed(e)[x] = e \/ \E k \in 1..Len(ibm_secs) : Placed(e)[x] = ibm_secs[k]
           /\ PlaceOf(e) = Len(ibm_secs) + 1 /\ ~SameAt(PlaceOf(e), e) =>
                 /\ Len(Placed(e)) = Len(ibm_secs) + 1 /\ Placed(e)[Len(ibm_secs) + 1] = e
                 /\ \A k \in 1..Len(ibm_secs) : Placed(e)[k] = ibm_secs[k]
  <1> DEFINE n == PlaceOf(e)
             N == Len(ibm_secs)
             E == {ibm_secs[k] : k \in 1..N} \cup {e}
  <1>1. N \in Nat /\ ibm_secs \in Seq(E)
    <2>1. N \in Nat /\ ibm_secs \in Seq({ibm_secs[k] : k \in 1..N})
      BY DEF Found, IsList
    <2> QED BY <2>1
  <1>2. n \in 1..(N + 1)
    BY PlaceIs
  <1>3. SameAt(n, e) => n \in 1..N
    BY PlaceIs
  <1> HIDE DEF n
  <1>4. CASE ~SameAt(n, e)
    <2> DEFINE new == InsertAt(ibm_secs, n, e)
    <2>1. Placed(e) = new
      BY <1>4 DEF Placed, n
    <2>2. /\ new \in Seq(E) /\ DOMAIN new = 1..(N + 1)
          /\ \A k \in 1..(N + 1) : new[k] = IF k < n THEN ibm_secs[k]
                                           ELSE IF k = n THEN e ELSE ibm_secs[k - 1]
      <3>1. e \in E
        OBVIOUS
      <3> HIDE DEF E
      <3> QED BY <1>1, <1>2, <3>1, InsertAtValue
    <2>3. Len(new) = N + 1
      <3> HIDE DEF new, E
      <3> QED BY <1>1, <2>2, LenProperties
    <2> HIDE DEF new, E
    <2>4. ASSUME NEW x \in 1..Len(new)
          PROVE  new[x] = e \/ \E k \in 1..N : new[x] = ibm_secs[k]
      <3>1. x < n => x \in 1..N /\ new[x] = ibm_secs[x]
        BY <1>1, <1>2, <2>2, <2>3
      <3>2. x > n => x - 1 \in 1..N /\ new[x] = ibm_secs[x - 1]
        BY <1>1, <1>2, <2>2, <2>3
      <3>3. x = n => new[x] = e
        BY <1>1, <1>2, <2>2, <2>3
      <3>4. x < n \/ x > n \/ x = n
        BY <1>1, <1>2, <2>3
      <3> QED BY <3>1, <3>2, <3>3, <3>4
    <2>5. n = N + 1 => /\ Len(new) = N + 1 /\ new[N + 1] = e
                       /\ \A k \in 1..N : new[k] = ibm_secs[k]
      BY <1>1, <2>2, <2>3
    <2> QED BY <2>1, <2>4, <2>5 DEF n
  <1>5. CASE SameAt(n, e) /\ ibm_secs[n].idam = e.idam /\ e.good /\ ~ibm_secs[n].good
    <2> DEFINE new == [ibm_secs EXCEPT ![n] = e]
    <2>1. Placed(e) = new
      BY <1>5 DEF Placed, ReplaceAt, n
    <2>2. n \in 1..N
      BY <1>3, <1>5
    <2>3. Len(new) = N /\ \A k \in 1..N : new[k] = IF k = n THEN e ELSE ibm_secs[k]
      <3>1. e \in E
        OBVIOUS
      <3> HIDE DEF E
      <3> QED BY <1>1, <2>2, <3>1
    <2> HIDE DEF new
    <2> QED BY <1>5, <2>1, <2>3 DEF n
  <1>6. CASE SameAt(n, e) /\ ~(ibm_secs[n].idam = e.idam /\ e.good /\ ~ibm_secs[n].good)
    <2>1. Placed(e) = ibm_secs
      BY <1>6 DEF Placed, n
    <2> QED BY <1>6, <2>1 DEF n
  <1> QED BY <1>4, <1>5, <1>6

-----------------------------------------------------------------------------
(* The first dump.                                                                *)

\* Where the data read is found to end.
LEMMA EndRead ==
    ASSUME IbmInv, pc = "data", NEW m \in Near, m.k = "data", m.i = id.i, NEW harm
    PROVE  /\ InStep(medium)
           /\ Reading(m, harm).end_offset =
                (Reading(m, harm).offset + Span(medium.secs[id.i]) - 1) % medium.len
  <1> DEFINE L == medium.len
             s == medium.secs[id.i]
             size == Size(s.no)
             e == Reading(m, harm)
             o == s.at + id.j
  <1>1. m \in Passes
    BY DEF Near
  <1>2. InStep(medium)
    BY <1>1 DEF Passes
  <1>3. Layout(medium) /\ id.i \in 1..Len(medium.secs) /\ s.no \in 0..7 /\ id.j \in medium.wobble
    BY DEF IbmInv, HeaderRead, Sector
  <1>4. PICK r \in Int : m.end = (r * L + s.at) + s.data
    BY <1>1, <1>3, MarkNumbers DEF Sector
  <1>5. s.data # 0
    BY <1>1, MarkNumbers, <1>3 DEF Sector
  <1>6. L \in Nat \ {0} /\ id.j \in Int /\ s.at \in Nat /\ o \in 0..(L - 1)
    BY <1>3 DEF Layout, OffIndex
  <1>7. s.data \in Nat
    <2>1. HasData(medium, s)
      BY <1>3, <1>5, Zenon DEF Layout
    <2>2. HeaderBits(medium.type) \in Nat
      BY DEF HeaderBits, MarkBits
    <2> QED BY <2>1, <2>2 DEF HasData
  <1>8. size \in Nat
    BY <1>3, SizeIs
  <1>9. Span(s) = s.data + 16 * (size + 2)
    BY DEF Span
  <1>10. e.end_offset = (EndOf(m) + (id.j - 1)) % L /\ e.offset = o % L
    BY DEF Reading, Sector
  <1>11. EndOf(m) = m.end + 16 * (size + 2)
    BY DEF EndOf, Sector
  <1> HIDE DEF size, e
  <1>12. e.offset = o
    <2> HIDE DEF o
    <2>1. o % L = o
      BY <1>6, NoTurn
    <2> QED BY <1>10, <2>1
  <1> DEFINE t == r * L
             a == o + (Span(s) - 1)
  <1>13. a \in Int
    BY <1>6, <1>7, <1>8, <1>9
  <1>14. EndOf(m) + (id.j - 1) = t + a
    <2>1. t \in Int
      BY <1>6
    <2> DEFINE at == s.at
               d == s.data
               j == id.j
    <2>2. at \in Nat /\ d \in Nat /\ j \in Int /\ EndOf(m) = ((t + at) + d) + 16 * (size + 2)
          /\ a = (at + j) + ((d + 16 * (size + 2)) - 1)
      BY <1>4, <1>6, <1>7, <1>9, <1>11
    <2> HIDE DEF t, a, at, d, j
    <2>3. EndOf(m) + (j - 1) = t + a
      BY <1>8, <2>1, <2>2
    <2> QED BY <2>3 DEF j
  <1> HIDE DEF a, o
  <1>15. (r * L + a) % L = a % L
    BY <1>6, <1>13, WholeTurns
  <1>16. e.end_offset = a % L
    BY <1>10, <1>14, <1>15
  <1>17. a = e.offset + (Span(s) - 1)
    BY <1>12 DEF a
  <1> QED BY <1>2, <1>16, <1>17 DEF e

LEMMA ReadEnds ==
    ASSUME IbmInv, ReadData, Ends(medium, ibm_secs)
    PROVE  InStep(medium) /\ Ends(medium, ibm_secs')
  <1>1. PICK harm \in Harm, m \in Near :
          /\ m.k = "data" /\ m.i = id.i /\ Entry(medium, Reading(m, harm))
          /\ ibm_secs' = ibm_secs \/ ibm_secs' = Placed(Reading(m, harm))
    BY DataRead, Zenon
  <1> DEFINE e == Reading(m, harm)
  <1>2. Layout(medium) /\ Found(medium, ibm_secs, wellRead) /\ pc = "data"
    BY DEF IbmInv, ReadData
  <1>3. InStep(medium) /\ e.end_offset = (e.offset + Span(medium.secs[id.i]) - 1) % medium.len
    BY <1>1, <1>2, EndRead
  <1>4. e.i = id.i
    BY DEF Reading
  <1> HIDE DEF e
  <1>5. CASE ibm_secs' = Placed(e)
    <2>1. \A x \in 1..Len(Placed(e)) :
             Placed(e)[x] = e \/ \E k \in 1..Len(ibm_secs) : Placed(e)[x] = ibm_secs[k]
      BY <1>1, <1>2, PlacedAre DEF e
    <2> QED BY <1>3, <1>4, <1>5, <2>1 DEF Ends
  <1>6. CASE ibm_secs' = ibm_secs
    BY <1>3, <1>6
  <1> QED BY <1>1, <1>5, <1>6 DEF e

-----------------------------------------------------------------------------
(* A dump of a tight track.                                                       *)

LEMMA TightSectors ==
    ASSUME Tight(medium)
    PROVE  /\ medium.len \in Nat /\ Len(medium.secs) \in Nat \ {0}
           /\ \A k \in 1..Len(medium.secs) :
                 /\ Sector(k).at \in Nat /\ Sector(k).at >= 500
                 /\ Sector(k).at + 1000 <= medium.len
                 /\ Sector(k).data = ToData(medium.type)
                 /\ Span(Sector(k)) \in Nat /\ Span(Sector(k)) >= 2576
                 /\ Span(Sector(k)) = ToData(medium.type) + 16 * (Size(Sector(k).no) + 2)
           /\ \A k, l \in 1..Len(medium.secs) :
                 k < l => Sector(l).at >= Sector(k).at + Span(Sector(k))
  <1>1. medium.len \in Nat /\ Len(medium.secs) \in Nat \ {0}
    BY DEF Tight
  <1>2. ASSUME NEW k \in 1..Len(medium.secs)
        PROVE  /\ Sector(k).at \in Nat /\ Sector(k).at >= 500
               /\ Sector(k).at + 1000 <= medium.len
               /\ Sector(k).data = ToData(medium.type)
               /\ Span(Sector(k)) \in Nat /\ Span(Sector(k)) >= 2576
               /\ Span(Sector(k)) = ToData(medium.type) + 16 * (Size(Sector(k).no) + 2)
    <2> DEFINE s == Sector(k)
               size == Size(s.no)
               at == s.at
               span == Span(s)
    <2>1. s.no \in 0..7 /\ s.data = ToData(medium.type) /\ at \in 500..(medium.len - 1000)
      BY DEF Tight, Sector
    <2>2. size \in Nat /\ size >= 128
      BY <2>1, SizeIs
    <2>3. span = ToData(medium.type) + 16 * (size + 2)
      BY <2>1 DEF Span
    <2>4. ToData(medium.type) \in {496, 768}
      BY DEF ToData
    <2> HIDE DEF size, at, span
    <2>5. span \in Nat /\ span >= 2576
      BY <2>2, <2>3, <2>4
    <2>6. at \in Nat /\ at >= 500 /\ at + 1000 <= medium.len
      BY <1>1, <2>1
    <2> QED BY <2>1, <2>3, <2>5, <2>6 DEF at, span, size
  <1>3. ASSUME NEW k \in 1..Len(medium.secs), NEW l \in 1..Len(medium.secs), k < l
        PROVE  Sector(l).at >= Sector(k).at + Span(Sector(k))
    <2>1. Sector(l).at - Sector(k).at >= Span(Sector(k))
      BY <1>3 DEF Tight, Sector
    <2> DEFINE a == Sector(k).at
               b == Sector(l).at
               s == Span(Sector(k))
    <2>2. a \in Nat /\ b \in Nat /\ s \in Nat /\ b - a >= s
      BY <1>2, <2>1
    <2> HIDE DEF a, b, s
    <2>3. b >= a + s
      BY <2>2
    <2> QED BY <2>3 DEF a, b, s
  <1> QED BY <1>1, <1>2, <1>3

\* Where the i-th sector is in a revolution r, and how far that is from the k-th of the first.
PassesAt(r, i) == r * medium.len + Sector(i).at

FarOff(r, i, k) ==
    /\ PassesAt(r, i) \in Int /\ Sector(k).at \in Nat
    /\ r = -1 => PassesAt(r, i) <= -1000
    /\ r = 0 => /\ PassesAt(r, i) = Sector(i).at
                /\ i < k => Sector(k).at >= PassesAt(r, i) + 2576
                /\ i > k => PassesAt(r, i) >= Sector(k).at + 2576
    /\ r >= 1 => PassesAt(r, i) >= Sector(k).at + 1500

LEMMA TightPlaces ==
    ASSUME Tight(medium), NEW r \in Int, r >= -1, NEW i \in 1..Len(medium.secs),
           NEW k \in 1..Len(medium.secs)
    PROVE  FarOff(r, i, k)
  <1> DEFINE p == PassesAt(r, i)
             n == medium.len
             a == Sector(i).at
             b == Sector(k).at
             t == r * n
             u == Span(Sector(i))
             v == Span(Sector(k))
  <1>1. /\ n \in Nat /\ a \in Nat /\ b \in Nat /\ a >= 500 /\ b >= 500 /\ a + 1000 <= n
        /\ b + 1000 <= n /\ u \in Nat /\ v \in Nat /\ u >= 2576 /\ v >= 2576
        /\ i < k => b >= a + u
        /\ k < i => a >= b + v
    BY TightSectors
  <1>2. t \in Int /\ (r = 0 => t = 0) /\ (r = -1 => t = -n) /\ (r >= 1 => t >= n)
    <2>1. r * n \in Int /\ (0 < r => r * n >= 0 * n + n)
      <3> DEFINE zero == 0
      <3>1. zero \in Int
        OBVIOUS
      <3> HIDE DEF zero, n
      <3>2. r * n \in Int /\ (zero < r => r * n >= zero * n + n)
        BY <1>1, <3>1, Turns
      <3> QED BY <3>2 DEF zero
    <2>2. (r = 0 => r * n = 0) /\ (r = -1 => r * n = -n) /\ 0 * n = 0
      BY <1>1
    <2> HIDE DEF n
    <2>3. r >= 1 => r * n >= n
      BY <1>1, <2>1, <2>2
    <2> QED BY <2>1, <2>2, <2>3
  <1>3. p = t + a
    BY DEF PassesAt
  <1> HIDE DEF n, a, b, t, u, v, p
  <1>4. /\ p \in Int /\ b \in Nat
        /\ r = -1 => p <= -1000
        /\ r = 0 => /\ p = a
                    /\ i < k => b >= p + 2576
                    /\ i > k => p >= b + 2576
        /\ r >= 1 => p >= b + 1500
    BY <1>1, <1>2, <1>3, SMT
  <1> QED BY <1>4 DEF a, b, p, FarOff

\* The dump is of two revolutions or more, and so has all of the first.
LEMMA TightLimit ==
    ASSUME Tight(medium), Revs >= 2
    PROVE  Limit \in Nat /\ Limit >= 2 * medium.len /\ medium.len \in Nat
  <1>1. medium.len \in Nat /\ Revs \in Nat
    BY DumpAssumption DEF Tight
  <1> DEFINE n == medium.len
             q == Revs - 2
  <1>2. q \in Nat /\ Revs * n = q * n + 2 * n
    BY <1>1
  <1>3. q * n \in Nat
    BY <1>1, <1>2
  <1> QED BY <1>1, <1>2, <1>3 DEF Limit

LEMMA NextHeader ==
    ASSUME Tight(medium), Revs >= 2, NEW c \in 0..(Len(medium.secs) - 1),
           past \in Nat, past < SeenAt(c + 1), c # 0 => past >= SeenAt(c)
    PROVE  /\ Coming # {}
           /\ First(Coming) = Mark("id", 0, c + 1, MarkBits(medium.type))
  <1> DEFINE T == medium.type
             n == medium.len
             N == Len(medium.secs)
             MB == MarkBits(T)
             s == IF Fm(T) THEN 0 ELSE 32
             h == Mark("id", 0, c + 1, MB)
             b == Sector(c + 1).at
  <1>1. /\ N \in Nat /\ n \in Nat /\ c + 1 \in 1..N /\ MB \in 64..112 /\ s \in {0, 32}
        /\ b \in Nat /\ b + 1000 <= n
    <2>1. N \in Nat /\ n \in Nat /\ c + 1 \in 1..N
      BY TightSectors
    <2>2. b \in Nat /\ b + 1000 <= n
      BY <2>1, TightSectors
    <2>3. MB \in 64..112
      BY DEF MarkBits
    <2> QED BY <2>1, <2>2, <2>3
  <1>2. /\ h.k = "id" /\ h.i = c + 1 /\ h.at = 0 * n + b /\ h.end = 0 * n + b + MB
        /\ h.at = b /\ h.end = b + MB
    <2>1. h.k = "id" /\ h.i = c + 1 /\ h.at = 0 * n + b /\ h.end = 0 * n + b + MB
      BY DEF Mark
    <2>2. 0 * n = 0
      BY <1>1
    <2> HIDE DEF MB, b
    <2> QED BY <1>1, <2>1, <2>2
  <1>3. h \in Passes
    <2>1. InStep(medium) /\ 0 \in 0..(Revs - 1)
      BY DumpAssumption DEF Tight
    <2>2. h.end <= Limit
      <3>1. Limit \in Nat /\ Limit >= 2 * n
        BY TightLimit
      <3> HIDE DEF h, MB, b, n
      <3> QED BY <1>1, <1>2, <3>1
    <2> QED BY <1>1, <2>1, <2>2 DEF Passes
  <1>4. \A x : Seen(x) = x.end - s
    BY DEF Seen
  <1>5. \A k : SeenAt(k) = Sector(k).at + (MB - s)
    BY Zenon DEF SeenAt
  <1> HIDE DEF h, MB, b, s
  <1>6. h \in Coming
    <2>1. Seen(h) > past
      <3>1. past < b + (MB - s)
        BY <1>5 DEF b
      <3> QED BY <1>1, <1>2, <1>4, <3>1
    <2> QED BY <1>2, <1>3, <2>1 DEF Coming
  <1>7. ASSUME NEW m \in Coming, m # h
        PROVE  m.end > h.end /\ m.end \in Int
    <2>1. m \in Passes /\ m.k = "id" /\ Seen(m) > past
      BY DEF Coming
    <2>2. PICK r \in 0..(Revs - 1), i \in 1..N : m = Mark("id", r, i, MB)
      <3>1. ASSUME NEW r, NEW i, m = Mark("data", r, i, Sector(i).data) PROVE FALSE
        <4>1. m.k = "data"
          BY <3>1 DEF Mark
        <4> QED BY <2>1, <4>1
      <3>2. \/ \E r \in 0..(Revs - 1), i \in 1..N : m = Mark("id", r, i, MB)
            \/ \E r \in -1..(Revs - 1), i \in 1..N :
                  Sector(i).data # 0 /\ m = Mark("data", r, i, Sector(i).data)
        BY <2>1, MarksAre, Zenon DEF MB
      <3> QED BY <3>1, <3>2, Zenon
    <2> DEFINE p == PassesAt(r, i)
    <2>3. m.end = p + MB
      BY <2>2 DEF Mark, PassesAt
    <2>4. r \in Int /\ r >= -1 /\ (r = 0 \/ r >= 1)
      BY DumpAssumption
    <2>5. /\ p \in Int
          /\ r = 0 => /\ p = Sector(i).at
                      /\ i < c + 1 => b >= p + 2576
                      /\ i > c + 1 => p >= b + 2576
          /\ r >= 1 => p >= b + 1500
      <3> DEFINE k == c + 1
      <3>1. Tight(medium) /\ k \in 1..Len(medium.secs)
        BY <1>1
      <3> HIDE DEF k
      <3>2. /\ p \in Int
            /\ r = 0 => /\ p = Sector(i).at
                        /\ i < k => Sector(k).at >= p + 2576
                        /\ i > k => p >= Sector(k).at + 2576
            /\ r >= 1 => p >= Sector(k).at + 1500
        <4>1. r \in Int /\ r >= -1 /\ i \in 1..Len(medium.secs)
          BY <2>4
        <4>2. FarOff(r, i, k)
          BY <3>1, <4>1, TightPlaces, Zenon
        <4> QED BY <4>2 DEF FarOff
      <3> QED BY <3>2, Zenon DEF b, k
    <2>6. r = 0 => i # c + 1
      <3>1. SUFFICES ASSUME r = 0, i = c + 1 PROVE FALSE
        OBVIOUS
      <3> QED BY <1>7, <2>2, <3>1 DEF h
    <2>7. r = 0 => ~(i < c + 1)
      <3>1. SUFFICES ASSUME r = 0, i < c + 1 PROVE FALSE
        OBVIOUS
      <3>2. c # 0 /\ c \in 1..N /\ (i = c \/ i < c)
        BY <1>1, <3>1
      <3>3. past >= Sector(c).at + (MB - s)
        BY <1>5, <3>2
      <3> DEFINE a == Sector(c).at
                 z == Sector(i).at
      <3>4. a \in Nat /\ z \in Nat /\ z <= a
        <4>1. a \in Nat /\ z \in Nat /\ Span(Sector(i)) \in Nat
          BY <3>2, TightSectors
        <4>2. i < c => a >= z + Span(Sector(i))
          BY <3>2, TightSectors
        <4> DEFINE u == Span(Sector(i))
        <4> HIDE DEF u
        <4>3. a \in Nat /\ z \in Nat /\ u \in Nat /\ (i < c => a >= z + u) /\ (i = c => a = z)
          BY <4>1, <4>2 DEF u
        <4> HIDE DEF a, z
        <4> QED BY <3>2, <4>3
      <3>5. z + MB - s > past
        <4>1. m.end = z + MB
          BY <2>3, <2>5, <3>1
        <4>2. Seen(m) = (z + MB) - s /\ Seen(m) > past
          BY <1>4, <2>1, <4>1
        <4> HIDE DEF z
        <4> QED BY <1>1, <3>4, <4>2
      <3> HIDE DEF a, z
      <3>6. past >= a + (MB - s)
        BY <3>3 DEF a
      <3> QED BY <1>1, <3>4, <3>5, <3>6
    <2> HIDE DEF p
    <2>8. p > b
      BY <1>1, <2>4, <2>5, <2>6, <2>7
    <2> QED BY <1>1, <1>2, <2>3, <2>5, <2>8
  <1>8. First(Coming) = h
    <2>1. h.end \in Int
      BY <1>1, <1>2
    <2>2. \A x \in Coming : h.end <= x.end
      BY <1>7, <2>1
    <2>3. \A m \in Coming : (\A x \in Coming : m.end <= x.end) => m = h
      BY <1>6, <1>7, <2>1
    <2> QED BY <1>6, <2>2, <2>3 DEF First
  <1> QED BY <1>6, <1>8 DEF h, MB

\* Behind a header no mark comes in time but that of its own data.
LEMMA NextData ==
    ASSUME Tight(medium), Revs >= 2, NEW c \in 1..Len(medium.secs),
           past = Sector(c).at + HeaderBits(medium.type)
    PROVE  /\ Near # {} /\ past \in Nat
           /\ \A m \in Near : m = Mark("data", 0, c, ToData(medium.type))
  <1> DEFINE T == medium.type
             n == medium.len
             N == Len(medium.secs)
             MB == MarkBits(T)
             HB == HeaderBits(T)
             TD == ToData(T)
             s == IF Fm(T) THEN 0 ELSE 32
             d == Mark("data", 0, c, TD)
             b == Sector(c).at
  <1>1. /\ N \in Nat /\ n \in Nat /\ b \in Nat /\ b + 1000 <= n
        /\ MB = (IF Fm(T) THEN 112 ELSE 64) /\ HB = (IF Fm(T) THEN 208 ELSE 160)
        /\ TD = (IF Fm(T) THEN 496 ELSE 768)
    <2>1. N \in Nat /\ n \in Nat /\ b \in Nat /\ b + 1000 <= n
      BY TightSectors
    <2>2. /\ MB = (IF Fm(T) THEN 112 ELSE 64) /\ HB = (IF Fm(T) THEN 208 ELSE 160)
          /\ TD = (IF Fm(T) THEN 496 ELSE 768)
      BY DEF MarkBits, HeaderBits, ToData
    <2> QED BY <2>1, <2>2
  <1>2. d.k = "data" /\ d.i = c /\ d.end = b + TD
    <2>1. d.k = "data" /\ d.i = c /\ d.end = 0 * n + b + TD
      BY DEF Mark
    <2>2. 0 * n = 0
      BY <1>1
    <2>3. TD \in Nat
      BY <1>1
    <2> HIDE DEF TD, b, n, d
    <2> QED BY <1>1, <2>1, <2>2, <2>3
  <1>3. \A x : Seen(x) = x.end - s
    BY DEF Seen
  <1>4. past = b + HB
    OBVIOUS
  <1>5. \A i \in 1..N : Sector(i).data = TD
    BY TightSectors
  <1> HIDE DEF d, MB, HB, TD, b
  <1>6. d \in Near
    <2>1. InStep(medium) /\ 0 \in -1..(Revs - 1)
      BY DumpAssumption DEF Tight
    <2>2. d.end <= Limit
      <3>1. Limit \in Nat /\ Limit >= 2 * n
        BY TightLimit
      <3> HIDE DEF n
      <3> QED BY <1>1, <1>2, <3>1
    <2>3. c \in {j \in 1..Len(medium.secs) : Sector(j).data # 0}
      BY <1>1, <1>5
    <2>4. d \in Passes
      <3>1. d = Mark("data", 0, c, Sector(c).data)
        BY <1>5 DEF d
      <3> QED BY <2>1, <2>2, <2>3, <3>1 DEF Passes
    <2>5. Seen(d) \in past..(past + 999)
      BY <1>1, <1>2, <1>3, <1>4
    <2> QED BY <2>4, <2>5 DEF Near
  <1>7. past \in Nat
    BY <1>1, <1>4
  <1>8. ASSUME NEW m \in Near, m # d
        PROVE  FALSE
    <2>1. m \in Passes /\ Seen(m) \in past..(past + 999)
      BY DEF Near
    <2>2. CASE \E r \in 0..(Revs - 1), i \in 1..N : m = Mark("id", r, i, MB)
      <3>1. PICK r \in 0..(Revs - 1), i \in 1..N : m = Mark("id", r, i, MB)
        BY <2>2
      <3> DEFINE p == PassesAt(r, i)
      <3>2. m.end = p + MB
        BY <3>1 DEF Mark, PassesAt
      <3>3. r \in Int /\ r >= -1 /\ (r = 0 \/ r >= 1)
        BY DumpAssumption
      <3>4. /\ p \in Int
            /\ r = 0 => /\ p = Sector(i).at
                        /\ i < c => b >= p + 2576
                        /\ i > c => p >= b + 2576
            /\ r >= 1 => p >= b + 1500
        <4>2. /\ p \in Int
              /\ r = 0 => /\ p = Sector(i).at
                          /\ i < c => Sector(c).at >= p + 2576
                          /\ i > c => p >= Sector(c).at + 2576
              /\ r >= 1 => p >= Sector(c).at + 1500
          BY <3>3, TightPlaces DEF FarOff
        <4> QED BY <4>2, Zenon DEF b
      <3>5. r = 0 /\ i = c => p = b
        BY <3>4 DEF b
      <3>6. i < c \/ i > c \/ i = c
        BY <1>1
      <3> HIDE DEF p
      <3>7. (p + MB) - s \in past..(past + 999)
        BY <1>3, <2>1, <3>2
      <3> QED BY <1>1, <1>4, <3>3, <3>4, <3>5, <3>6, <3>7
    <2>3. CASE \E r \in -1..(Revs - 1), i \in 1..N :
                  Sector(i).data # 0 /\ m = Mark("data", r, i, Sector(i).data)
      <3>1. PICK r \in -1..(Revs - 1), i \in 1..N : m = Mark("data", r, i, TD)
        BY <1>5, <2>3
      <3> DEFINE p == PassesAt(r, i)
      <3>2. m.end = p + TD
        BY <3>1 DEF Mark, PassesAt
      <3>3. r \in Int /\ r >= -1 /\ (r = -1 \/ r = 0 \/ r >= 1)
        BY DumpAssumption
      <3>4. /\ p \in Int
            /\ r = -1 => p <= -1000
            /\ r = 0 => /\ p = Sector(i).at
                        /\ i < c => b >= p + 2576
                        /\ i > c => p >= b + 2576
            /\ r >= 1 => p >= b + 1500
        <4>2. /\ p \in Int
              /\ r = -1 => p <= -1000
              /\ r = 0 => /\ p = Sector(i).at
                          /\ i < c => Sector(c).at >= p + 2576
                          /\ i > c => p >= Sector(c).at + 2576
              /\ r >= 1 => p >= Sector(c).at + 1500
          BY <3>3, TightPlaces DEF FarOff
        <4> QED BY <4>2, Zenon DEF b
      <3>5. ~(r = 0 /\ i = c)
        <4>1. SUFFICES ASSUME r = 0, i = c PROVE FALSE
          OBVIOUS
        <4> QED BY <1>8, <3>1, <4>1 DEF d
      <3>6. i < c \/ i > c \/ i = c
        BY <1>1
      <3> HIDE DEF p
      <3>7. (p + TD) - s \in past..(past + 999)
        BY <1>3, <2>1, <3>2
      <3> QED BY <1>1, <1>4, <3>3, <3>4, <3>5, <3>6, <3>7
    <2> QED BY <2>1, <2>2, <2>3, MarksAre DEF MB
  <1> QED BY <1>6, <1>7, <1>8 DEF d, TD

-----------------------------------------------------------------------------
(* The steps of such a dump.                                                      *)

LEMMA CleanDump ==
    ASSUME bad \in Nat, bad > MaxBad, NEW harm, Misread(harm)
    PROVE  harm = "none" /\ bad' = bad
  BY DumpAssumption DEF Misread

LEMMA AllFound ==
    ASSUME FoundSoFar, Len(ibm_secs) = Len(medium.secs), Len(medium.secs) \in Nat,
           UNCHANGED <<medium, ibm_secs>>
    PROVE  FoundSoFar'
  BY DEF FoundSoFar, Sector

LEMMA SecondHeader ==
    ASSUME IbmInv, Tight(medium), Revs >= 2, FoundSoFar, bad \in Nat, bad > MaxBad, ScanHeader
    PROVE  FoundSoFar' /\ pc' \in {"scan", "data", "over"} /\ bad' = bad
  <1> DEFINE c == Len(ibm_secs)
             N == Len(medium.secs)
  <1>1. PICK harm \in Harm : ReadHeader(First(Coming), harm)
    BY DEF ScanHeader, Harm
  <1>2. harm = "none" /\ bad' = bad
    BY <1>1, CleanDump DEF ReadHeader
  <1>3. UNCHANGED <<medium, ibm_secs>> /\ pc' \in {"scan", "data", "over"}
    BY <1>1 DEF ReadHeader
  <1>4. c \in Nat /\ N \in Nat /\ c <= N
    BY TightSectors DEF IbmInv, Found, IsList, FoundSoFar
  <1>5. CASE c = N
    BY <1>2, <1>3, <1>4, <1>5, AllFound
  <1>6. CASE c < N
    <2> DEFINE h == Mark("id", 0, c + 1, MarkBits(medium.type))
    <2>1. pc = "scan"
      BY DEF ScanHeader
    <2>2. past \in Nat /\ past < SeenAt(c + 1) /\ (c # 0 => past >= SeenAt(c))
      BY <1>6, <2>1 DEF FoundSoFar
    <2>3. c \in 0..(N - 1) /\ c + 1 \in 1..N
      BY <1>4, <1>6
    <2>4. First(Coming) = h
      BY <2>2, <2>3, NextHeader
    <2>5. h.i = c + 1 /\ h.at = Sector(c + 1).at
      <3>1. h.i = c + 1 /\ h.at = 0 * medium.len + Sector(c + 1).at
        BY DEF Mark
      <3>2. medium.len \in Nat /\ Sector(c + 1).at \in Nat
        BY <2>3, TightSectors
      <3> QED BY <3>1, <3>2
    <2> HIDE DEF h
    <2>6. ReadHeader(h, harm)
      BY <1>1, <2>4
    <2>7. ~(h.at + HeaderBits(medium.type) > Limit)
      <3> DEFINE at == Sector(c + 1).at
                 HB == HeaderBits(medium.type)
      <3>1. at \in Nat /\ at + 1000 <= medium.len
        BY <2>3, TightSectors
      <3>2. Limit \in Nat /\ Limit >= 2 * medium.len /\ medium.len \in Nat
        BY TightLimit
      <3>3. HB \in 0..1000
        BY DEF HeaderBits, MarkBits
      <3> HIDE DEF at, HB
      <3>4. ~(at + HB > Limit)
        BY <3>1, <3>2, <3>3
      <3> QED BY <2>5, <3>4 DEF at, HB
    <2>8. Sector(c + 1).no \in 0..7 /\ medium.wobble = {0}
      BY <2>3 DEF Tight, Sector
    <2>9. /\ past' = h.at + HeaderBits(medium.type) /\ pc' = "data"
          /\ id' = [i |-> c + 1, j |-> 0]
      <3>1. ~(harm = "field" \/ Sector(h.i).no > 7)
        BY <1>2, <2>5, <2>8
      <3>2. /\ past' = h.at + HeaderBits(medium.type) /\ pc' = "data"
            /\ \E j \in medium.wobble : id' = [i |-> h.i, j |-> j]
        BY <2>6, <2>7, <3>1, Zenon DEF ReadHeader
      <3> QED BY <2>5, <2>8, <3>2
    <2>10. /\ past' = Sector(c + 1).at + HeaderBits(medium.type)
           /\ \A k : Sector(k)' = Sector(k)
           /\ Len(medium.secs)' = N /\ Len(ibm_secs)' = c
      BY <1>3, <2>5, <2>9 DEF Sector
    <2>11. FoundSoFar'
      BY <1>3, <2>9, <2>10 DEF FoundSoFar
    <2> QED BY <1>2, <1>3, <2>11
  <1> QED BY <1>2, <1>3, <1>4, <1>5, <1>6

LEMMA SecondEnds ==
    ASSUME IbmInv, Tight(medium), Revs >= 2, FoundSoFar, SourceEnds
    PROVE  FoundSoFar' /\ pc' \in {"scan", "data", "over"} /\ bad' = bad
  <1> DEFINE c == Len(ibm_secs)
             N == Len(medium.secs)
  <1>1. c \in Nat /\ N \in Nat /\ c <= N
    BY TightSectors DEF IbmInv, Found, IsList, FoundSoFar
  <1>2. c = N
    <2> SUFFICES ASSUME c < N PROVE FALSE
      BY <1>1
    <2>1. pc = "scan" /\ Coming = {}
      BY DEF SourceEnds
    <2>2. past \in Nat /\ past < SeenAt(c + 1) /\ (c # 0 => past >= SeenAt(c))
      BY <2>1 DEF FoundSoFar
    <2>3. c \in 0..(N - 1)
      BY <1>1
    <2> QED BY <2>1, <2>2, <2>3, NextHeader
  <1>3. UNCHANGED <<medium, ibm_secs, bad>> /\ pc' = "over"
    BY DEF SourceEnds, scanned
  <1> QED BY <1>1, <1>2, <1>3, AllFound

\* While a sector is still to be found, its data comes behind its header.
LEMMA StillData ==
    ASSUME IbmInv, Tight(medium), Revs >= 2, FoundSoFar, pc = "data",
           Len(ibm_secs) < Len(medium.secs)
    PROVE  /\ Len(ibm_secs) + 1 \in 1..Len(medium.secs) /\ Near # {}
           /\ id = [i |-> Len(ibm_secs) + 1, j |-> 0]
           /\ \A m \in Near : m = Mark("data", 0, Len(ibm_secs) + 1, ToData(medium.type))
  <1> DEFINE c == Len(ibm_secs) + 1
  <1>1. c \in 1..Len(medium.secs)
    BY TightSectors DEF IbmInv, Found, IsList
  <1>2. id = [i |-> c, j |-> 0] /\ past = Sector(c).at + HeaderBits(medium.type)
    BY DEF FoundSoFar
  <1> HIDE DEF c
  <1>3. Near # {} /\ \A m \in Near : m = Mark("data", 0, c, ToData(medium.type))
    BY <1>1, <1>2, NextData
  <1> QED BY <1>1, <1>2, <1>3 DEF c

LEMMA SecondMissing ==
    ASSUME IbmInv, Tight(medium), Revs >= 2, FoundSoFar, bad \in Nat, bad > MaxBad, DataMissing
    PROVE  FoundSoFar' /\ pc' \in {"scan", "data", "over"} /\ bad' = bad
  <1> DEFINE c == Len(ibm_secs)
             N == Len(medium.secs)
  <1>1. c \in Nat /\ N \in Nat /\ c <= N
    BY TightSectors DEF IbmInv, Found, IsList, FoundSoFar
  <1>2. PICK harm \in {"none", "mark"} : Left(Near, harm) = {} /\ Misread(harm)
    BY DEF DataMissing
  <1>3. harm = "none" /\ bad' = bad
    BY <1>2, CleanDump
  <1>4. Near = {} /\ pc = "data"
    BY <1>2, <1>3 DEF Left, DataMissing
  <1>5. c = N
    BY <1>1, <1>4, StillData
  <1>6. UNCHANGED <<medium, ibm_secs>> /\ pc' = "scan"
    BY DEF DataMissing, scanned
  <1> QED BY <1>1, <1>3, <1>5, <1>6, AllFound

LEMMA SecondAgain ==
    ASSUME IbmInv, Tight(medium), Revs >= 2, FoundSoFar, bad \in Nat, bad > MaxBad, HeaderAgain
    PROVE  FoundSoFar' /\ pc' \in {"scan", "data", "over"} /\ bad' = bad
  <1> DEFINE c == Len(ibm_secs)
             N == Len(medium.secs)
  <1>1. c \in Nat /\ N \in Nat /\ c <= N
    BY TightSectors DEF IbmInv, Found, IsList, FoundSoFar
  <1>2. PICK harm \in Harm : /\ Left(Near, harm) # {} /\ First(Left(Near, harm)).k = "id"
                             /\ ReadHeader(First(Left(Near, harm)), harm)
    BY Zenon DEF HeaderAgain
  <1>3. harm = "none" /\ bad' = bad
    BY <1>2, CleanDump DEF ReadHeader
  <1>4. Left(Near, harm) = Near /\ pc = "data"
    BY <1>3 DEF Left, HeaderAgain
  <1>5. First(Near) \in Near
    BY <1>2, <1>4, FirstIs DEF IbmInv, Near
  <1>6. c = N
    <2> SUFFICES ASSUME c < N PROVE FALSE
      BY <1>1
    <2>1. First(Near) = Mark("data", 0, c + 1, ToData(medium.type))
      BY <1>4, <1>5, StillData
    <2>2. First(Near).k = "data"
      BY <2>1 DEF Mark
    <2> QED BY <1>2, <1>4, <2>2
  <1>7. UNCHANGED <<medium, ibm_secs>> /\ pc' \in {"scan", "data", "over"}
    BY <1>2 DEF ReadHeader
  <1> QED BY <1>1, <1>3, <1>6, <1>7, AllFound

LEMMA SecondData ==
    ASSUME IbmInv, Tight(medium), Revs >= 2, FoundSoFar, bad \in Nat, bad > MaxBad, ReadData
    PROVE  FoundSoFar' /\ pc' \in {"scan", "data", "over"} /\ bad' = bad
  <1> DEFINE c == Len(ibm_secs)
             N == Len(medium.secs)
  <1>1. c \in Nat /\ N \in Nat /\ c <= N
    BY TightSectors DEF IbmInv, Found, IsList, FoundSoFar
  <1>2. PICK harm \in Harm, m \in Near :
              /\ m.k = "data" /\ m.i = id.i /\ m.end \in Int /\ Misread(harm)
              /\ Entry(medium, Reading(m, harm))
              /\ Reading(m, harm).offset = Sector(id.i).at + id.j
              /\ \/ pc' = "over" /\ EndOf(m) > Limit /\ UNCHANGED <<past, ibm_secs, wellRead>>
                 \/ /\ pc' = "scan" /\ ~(EndOf(m) > Limit) /\ past' = EndOf(m)
                    /\ ibm_secs' = IF Good(m, harm) \/ Recovery(medium.type)
                                   THEN Placed(Reading(m, harm)) ELSE ibm_secs
    BY DataRead, Zenon
  <1> DEFINE e == Reading(m, harm)
  <1>3. harm = "none" /\ bad' = bad
    BY <1>2, CleanDump
  <1>4. /\ Layout(medium) /\ Found(medium, ibm_secs, wellRead) /\ pc = "data"
        /\ medium' = medium /\ id.i \in 1..N
    BY DEF IbmInv, HeaderRead, ReadData
  <1>5. Good(m, harm)
    <2>1. Sector(id.i).crc
      BY <1>4 DEF Tight, Sector
    <2> QED BY <1>2, <1>3, <2>1 DEF Good
  <1>6. /\ e.i = id.i /\ (e.good <=> Good(m, harm)) /\ e.idam = Idam(Sector(id.i))
        /\ e.mark = Sector(id.i).mark /\ e.dat = Sector(id.i).dat /\ e.good = Good(m, harm)
        /\ e.end_offset = (EndOf(m) + (id.j - 1)) % medium.len
    BY <1>2, <1>5, Zenon DEF Reading
  <1>7. Good(m, harm) = TRUE
    BY <1>5, Zenon DEF Good
  <1> HIDE DEF e
  <1>8. \/ pc' = "over" /\ EndOf(m) > Limit /\ UNCHANGED <<past, ibm_secs>>
        \/ pc' = "scan" /\ past' = EndOf(m) /\ ibm_secs' = Placed(e) /\ ~(EndOf(m) > Limit)
    BY <1>2, <1>5 DEF e
  <1>9. Entry(medium, e)
    BY <1>2 DEF e
  <1>10. CASE c = N
    <2>1. Placed(e) = ibm_secs
      <3>1. PlaceOf(e) \in 1..c /\ SameAt(PlaceOf(e), e)
        <4>1. SUFFICES ASSUME ~SameAt(PlaceOf(e), e) PROVE FALSE
          BY <1>4, <1>9, PlaceIs
        <4>2. id.i \in 1..c /\ ibm_secs[id.i].i = id.i
          BY <1>4, <1>10 DEF FoundSoFar
        <4>3. medium.secs[id.i].at < medium.secs[id.i].at
          BY <1>4, <1>6, <1>9, <4>1, <4>2, PlaceIs
        <4>4. medium.secs[id.i].at \in Nat
          BY <1>4, TightSectors DEF Sector
        <4> QED BY <4>3, <4>4
      <3>2. ibm_secs[PlaceOf(e)].good
        BY <3>1 DEF FoundSoFar
      <3> QED BY <3>1, <3>2 DEF Placed
    <2>2. ibm_secs' = ibm_secs
      BY <1>8, <2>1
    <2> QED BY <1>1, <1>3, <1>4, <1>8, <1>10, <2>2, AllFound
  <1>11. CASE c < N
    <2>1. /\ c + 1 \in 1..N /\ id.i = c + 1 /\ id.j = 0
          /\ m = Mark("data", 0, c + 1, ToData(medium.type))
      BY <1>4, <1>11, StillData
    <2> DEFINE at == Sector(c + 1).at
               span == Span(Sector(c + 1))
    <2>2. /\ at \in Nat /\ medium.len \in Nat \ {0} /\ span \in Nat /\ span >= 2576
          /\ at + span <= 2 * medium.len
      <3>1. at + span <= 2 * medium.len /\ medium.len \in Nat \ {0}
        BY <2>1 DEF Tight, Sector
      <3> QED BY <2>1, <3>1, TightSectors
    <2>3. EndOf(m) = at + span
      <3>1. m.end = 0 * medium.len + at + ToData(medium.type)
        BY <2>1 DEF Mark
      <3>2. span = ToData(medium.type) + 16 * (Size(Sector(c + 1).no) + 2)
        BY <2>1, TightSectors
      <3>3. EndOf(m) = m.end + 16 * (Size(Sector(c + 1).no) + 2)
        BY <2>1 DEF EndOf
      <3> DEFINE z == 16 * (Size(Sector(c + 1).no) + 2)
                 d == ToData(medium.type)
      <3>4. d \in Nat /\ z \in Int
        <4>1. Sector(c + 1).no \in 0..7
          BY <2>1 DEF Tight, Sector
        <4>2. Size(Sector(c + 1).no) \in Nat
          BY <4>1, SizeIs
        <4> QED BY <4>2 DEF ToData
      <3>5. 0 * medium.len = 0
        BY <2>2
      <3> HIDE DEF z, at, span, d
      <3>6. m.end = at + d /\ span = d + z /\ EndOf(m) = m.end + z
        BY <2>2, <3>1, <3>2, <3>3, <3>4, <3>5 DEF z, d
      <3> QED BY <2>2, <3>4, <3>6
    <2> HIDE DEF at, span
    <2>4. pc' = "scan" /\ past' = EndOf(m) /\ ibm_secs' = Placed(e)
      <3>1. Limit \in Nat /\ Limit >= 2 * medium.len
        BY TightLimit
      <3>2. ~(EndOf(m) > Limit)
        BY <2>2, <2>3, <3>1
      <3> QED BY <1>8, <3>2
    <2>5. PlaceOf(e) = c + 1 /\ ~SameAt(PlaceOf(e), e)
      <3>1. \A k \in 1..c : ibm_secs[k].i = k
        BY DEF FoundSoFar
      <3>2. ~SameAt(PlaceOf(e), e)
        <4> SUFFICES ASSUME SameAt(PlaceOf(e), e) PROVE FALSE
          OBVIOUS
        <4>1. PlaceOf(e) \in 1..c /\ ibm_secs[PlaceOf(e)].i = c + 1
          BY <1>4, <1>6, <1>9, <2>1, PlaceIs
        <4> QED BY <1>1, <3>1, <4>1
      <3>3. PlaceOf(e) \in 1..(c + 1)
        BY <1>4, <1>9, PlaceIs
      <3>4. ~(PlaceOf(e) \in 1..c)
        <4> SUFFICES ASSUME PlaceOf(e) \in 1..c PROVE FALSE
          OBVIOUS
        <4> DEFINE k == PlaceOf(e)
        <4>1. k \in 1..c /\ ~(k < k) /\ ibm_secs[k].i = k /\ k \in 1..N /\ k < c + 1
          BY <1>1, <3>1
        <4>2. medium.secs[c + 1].at < medium.secs[k].at
          BY <1>4, <1>6, <1>9, <2>1, <3>2, <4>1, PlaceIs
        <4>3. /\ Sector(c + 1).at >= Sector(k).at + Span(Sector(k)) /\ Sector(k).at \in Nat
              /\ Sector(c + 1).at \in Nat /\ Span(Sector(k)) \in Nat
          BY <2>1, <4>1, TightSectors
        <4> DEFINE x == Sector(k).at
                   y == Sector(c + 1).at
                   z == Span(Sector(k))
        <4>4. x \in Nat /\ y \in Nat /\ z \in Nat /\ y >= x + z /\ y < x
          BY <4>2, <4>3 DEF Sector
        <4> HIDE DEF x, y, z
        <4> QED BY <4>4
      <3> QED BY <1>1, <3>2, <3>3, <3>4
    <2>6. /\ Len(ibm_secs') = c + 1 /\ ibm_secs'[c + 1] = e
          /\ \A k \in 1..c : ibm_secs'[k] = ibm_secs[k]
      BY <1>4, <1>9, <2>4, <2>5, PlacedAre
    <2>7. e.end_offset \in 0..(medium.len - 1)
      <3>1. id.j - 1 \in Int /\ EndOf(m) \in Int
        BY <2>1, <2>2, <2>3
      <3> DEFINE x == EndOf(m) + (id.j - 1)
      <3>2. x \in Int
        BY <3>1
      <3> HIDE DEF x
      <3>3. x % medium.len \in 0..(medium.len - 1)
        BY <2>2, <3>2
      <3> QED BY <1>6, <3>3 DEF x
    <2> DEFINE ok(f, k) ==
                  /\ f.i = k /\ f.good = TRUE /\ f.idam = Idam(Sector(k))
                  /\ f.mark = Sector(k).mark /\ f.dat = Sector(k).dat
                  /\ f.end_offset \in 0..(medium.len - 1)
    <2>8. \A k \in 1..(c + 1) : ok(ibm_secs'[k], k)
      <3>1. \A k \in 1..c : ok(ibm_secs[k], k)
        BY DEF FoundSoFar
      <3>2. ok(e, c + 1)
        BY <1>6, <1>7, <2>1, <2>7
      <3> HIDE DEF ok
      <3>3. \A k \in 1..(c + 1) : k \in 1..c \/ k = c + 1
        BY <1>1
      <3> QED BY <2>6, <3>1, <3>2, <3>3
    <2>9. c + 1 < N => past' \in Nat /\ past' < SeenAt(c + 2) /\ past' >= SeenAt(c + 1)
      <3> SUFFICES ASSUME c + 1 < N
                   PROVE  past' \in Nat /\ past' < SeenAt(c + 2) /\ past' >= SeenAt(c + 1)
        OBVIOUS
      <3> DEFINE next == Sector(c + 2).at
                 sm == MarkBits(medium.type) - (IF Fm(medium.type) THEN 0 ELSE 32)
      <3>1. sm \in {112, 32}
        BY DEF MarkBits
      <3>2. SeenAt(c + 2) = next + sm /\ SeenAt(c + 1) = at + sm
        BY Zenon DEF SeenAt, at
      <3>3. next >= at + span /\ next \in Nat
        <4>1. c + 2 \in 1..N /\ c + 1 < c + 2
          BY <1>1
        <4> QED BY <2>1, <4>1, TightSectors DEF at, span
      <3> HIDE DEF next, sm
      <3> QED BY <2>2, <2>3, <2>4, <3>1, <3>2, <3>3
    <2>10. c + 1 <= N /\ (c + 1) + 1 = c + 2 /\ c + 1 # 0
      BY <1>1, <1>11
    <2>11. FoundSoFar'
      <3>1. \A k \in 1..Len(ibm_secs') :
                LET f == ibm_secs'[k] IN
                /\ f.i = k /\ f.good = TRUE /\ f.idam = Idam(Sector(k)) /\ f.mark = Sector(k).mark
                /\ f.dat = Sector(k).dat /\ f.end_offset \in 0..(medium.len - 1)
        BY <2>6, <2>8
      <3>2. \A k : Sector(k)' = Sector(k) /\ SeenAt(k)' = SeenAt(k)
        BY <1>4 DEF Sector, SeenAt
      <3>3. Len(medium.secs)' = N /\ Len(ibm_secs)' = c + 1
        BY <1>4, <2>6
      <3> HIDE DEF ok
      <3> QED BY <1>4, <2>4, <2>9, <2>10, <3>1, <3>2, <3>3 DEF FoundSoFar
    <2> QED BY <1>3, <2>4, <2>11
  <1> QED BY <1>1, <1>10, <1>11

-----------------------------------------------------------------------------
(* The track analysed.                                                            *)

LEMMA TrackNot ==
    ASSUME NEW type, NEW iam, NEW gap, NEW total, NEW secs, NEW t,
           t = [type |-> type, iam |-> iam, gap |-> gap, total |-> total, secs |-> secs]
    PROVE  t # NoTrack
  <1>1. "gap" \in DOMAIN t
    OBVIOUS
  <1>2. DOMAIN NoTrack = {"type"}
    BY DEF NoTrack
  <1> QED BY <1>1, <1>2

LEMMA AnalysedIs ==
    /\ Analysed # NoTrack /\ Analysed.iam = medium.iam
    /\ Analysed.secs = [k \in 1..Len(ibm_secs) |->
          [idam |-> ibm_secs[k].idam, mark |-> ibm_secs[k].mark,
           good |-> ibm_secs[k].good, dat |-> ibm_secs[k].dat]]
  <1> DEFINE n == Len(ibm_secs)
             type == medium.type
             free == DensityBits(type) - medium.len
                        + Sums([k \in 1..n |-> Distance(k) - PreSync(type)])[n]
             chosen == PostDataGap(type, medium.iam, free, n)
             secs == [k \in 1..n |-> [idam |-> ibm_secs[k].idam, mark |-> ibm_secs[k].mark,
                                      good |-> ibm_secs[k].good, dat |-> ibm_secs[k].dat]]
             total == LongBits(medium, DensityBits(type) + chosen.grown)
             gap == chosen.gap
             t == [type |-> type, iam |-> medium.iam, gap |-> gap, total |-> total, secs |-> secs]
  <1>1. Analysed = t
    BY Zenon DEF Analysed
  <1> HIDE DEF secs, total, gap
  <1>2. t # NoTrack /\ t.iam = medium.iam /\ t.secs = secs
    BY TrackNot
  <1> HIDE DEF t
  <1> QED BY <1>1, <1>2 DEF secs

LEMMA ToldSector ==
    ASSUME NEW s, IsSector(s)
    PROVE  [s EXCEPT !.mark = Told(@), !.good = TRUE]
              = [idam |-> s.idam, mark |-> Told(s.mark), good |-> TRUE, dat |-> s.dat]
  <1> DEFINE i == Idam(s.idam)
             t == Told(s.mark)
             m == s.mark
             g == s.good
             d == s.dat
  <1>1. s = [idam |-> i, mark |-> m, good |-> g, dat |-> d]
    BY Zenon DEF IsSector
  <1> HIDE DEF i, t, m, g, d
  <1>2. [s EXCEPT !.mark = t, !.good = TRUE] = [idam |-> i, mark |-> t, good |-> TRUE, dat |-> d]
    <2> DEFINE a == [idam |-> i, mark |-> m, good |-> g, dat |-> d]
               b == [a EXCEPT !.mark = t]
               c == [b EXCEPT !.good = TRUE]
    <2>1. b = [idam |-> i, mark |-> t, good |-> g, dat |-> d]
      OBVIOUS
    <2> HIDE DEF b
    <2>2. c = [idam |-> i, mark |-> t, good |-> TRUE, dat |-> d]
      <3> DEFINE one == TRUE
      <3>1. c = [b EXCEPT !.good = one]
        OBVIOUS
      <3> HIDE DEF one, c
      <3>2. c = [idam |-> i, mark |-> t, good |-> one, dat |-> d]
        BY <2>1, <3>1
      <3> QED BY <3>2 DEF one
    <2>3. [s EXCEPT !.mark = t, !.good = TRUE] = c
      BY <1>1 DEF b
    <2> QED BY <2>2, <2>3
  <1>3. s.idam = i
    BY <1>1
  <1>4. [s EXCEPT !.mark = Told(@), !.good = TRUE] = [s EXCEPT !.mark = t, !.good = TRUE]
    BY DEF t, m
  <1> QED BY <1>2, <1>3, <1>4 DEF t, m, d

\* What is analysed in a first dump is a track that has room for its sectors.
LEMMA FirstAccount ==
    ASSUME IbmInv, Roomy(medium), Ends(medium, ibm_secs), ibm_secs # <<>>, InStep(medium)
    PROVE  IsTrack(Analysed) /\ Fitting(Analysed)
  <1>1. Layout(medium) /\ Found(medium, ibm_secs, wellRead) /\ medium.iam \in BOOLEAN
    BY DEF IbmInv, Roomy
  <1>2. Fitting(Analysed)
    BY <1>1, AnalysedFits
  <1> DEFINE n == Len(ibm_secs)
             sec(k) == [idam |-> ibm_secs[k].idam, mark |-> ibm_secs[k].mark,
                        good |-> ibm_secs[k].good, dat |-> ibm_secs[k].dat]
             secs == [k \in 1..n |-> sec(k)]
  <1>3. Analysed.secs = secs /\ Analysed.iam = medium.iam
    BY AnalysedIs
  <1>4. n \in Nat \ {0}
    <2>1. IsList(ibm_secs)
      BY <1>1 DEF Found
    <2> QED BY <2>1, EmptySeq, LenProperties DEF IsList
  <1>5. Len(secs) = n
    BY <1>4
  <1>6. ASSUME NEW k \in 1..n PROVE IsSector(sec(k))
    <2> DEFINE s == medium.secs[ibm_secs[k].i]
               e == ibm_secs[k]
    <2>1. e.idam = Idam(s) /\ s.no \in 0..7
      BY <1>1 DEF Found, Entry
    <2> HIDE DEF s
    <2>2. Idam(e.idam) = e.idam /\ e.idam.no \in 0..7
      BY <2>1 DEF Idam
    <2>3. sec(k) = [idam |-> e.idam, mark |-> e.mark, good |-> e.good, dat |-> e.dat]
      OBVIOUS
    <2> DEFINE t == sec(k)
               i == e.idam
    <2> HIDE DEF e, t, i
    <2>4. t.idam = i /\ t.mark = e.mark /\ t.good = e.good /\ t.dat = e.dat
      BY <2>3 DEF t, i
    <2>5. Idam(t.idam) = i /\ t.idam.no \in 0..7
      BY <2>2, <2>4 DEF i
    <2>6. t = [idam |-> i, mark |-> e.mark, good |-> e.good, dat |-> e.dat]
      BY <2>3 DEF t, i
    <2>7. IsSector(t)
      BY <2>4, <2>5, <2>6 DEF IsSector
    <2> QED BY <2>7 DEF t
  <1>7. \A k \in 1..n : secs[k] = sec(k)
    OBVIOUS
  <1> HIDE DEF secs, sec
  <1>8. IsTrack(Analysed)
    BY <1>1, <1>3, <1>4, <1>5, <1>6, <1>7 DEF IsTrack
  <1> QED BY <1>2, <1>8

\* What is analysed in a second dump is what was kept.
LEMMA SecondAccount ==
    ASSUME IbmInv, Tight(medium), HoldsKept(medium), FoundSoFar, IsTrack(kept), Account
    PROVE  ti' # NoTrack /\ SameAsKept(ti') /\ FoundSoFar'
  <1> DEFINE n == Len(ibm_secs)
             N == Len(medium.secs)
             sec(k) == [idam |-> ibm_secs[k].idam, mark |-> ibm_secs[k].mark,
                        good |-> ibm_secs[k].good, dat |-> ibm_secs[k].dat]
             told(k) == [kept.secs[k] EXCEPT !.mark = Told(@), !.good = TRUE]
  <1>1. n \in Nat /\ N \in Nat \ {0} /\ n <= N
    BY TightSectors DEF IbmInv, Found, IsList, FoundSoFar
  <1>2. n = N
    <2>1. pc = "over"
      BY DEF Account
    <2> QED BY <1>1, <2>1 DEF FoundSoFar
  <1>3. ibm_secs # <<>>
    BY <1>1, <1>2
  <1>4. ASSUME NEW k \in 1..n PROVE ~(Distance(k) < 0)
    <2> DEFINE l == (k % n) + 1
               len == medium.len
    <2>1. l \in 1..n
      <3>1. n \in Nat /\ n > 0
        BY <1>1, <1>2
      <3> HIDE DEF n
      <3> QED BY <3>1
    <2> HIDE DEF l
    <2>2. ibm_secs[k].end_offset \in 0..(len - 1) /\ len \in Nat
      BY TightSectors DEF FoundSoFar
    <2>3. ibm_secs[l].offset \in 0..(len - 1)
      <3>1. Entry(medium, ibm_secs[l]) /\ Layout(medium)
        BY <2>1 DEF IbmInv, Found
      <3> QED BY <3>1, ReadApart
    <2> DEFINE o == ibm_secs[l].offset
               e == ibm_secs[k].end_offset
    <2>4. Distance(k) = IF o - e <= 0 THEN o - e + len ELSE o - e
      BY DEF Distance, l
    <2> HIDE DEF o, e, len
    <2>5. o \in Int /\ e \in Int /\ len \in Int /\ o >= 0 /\ e <= len - 1
      BY <2>2, <2>3 DEF o, e
    <2> QED BY <2>4, <2>5
  <1>5. ti' = Analysed
    BY <1>3, <1>4 DEF Account
  <1>6. Analysed # NoTrack /\ Analysed.iam = medium.iam /\ Analysed.secs = [k \in 1..n |-> sec(k)]
    BY AnalysedIs
  <1>7. n = Len(kept.secs) /\ medium.iam = (kept.iam \/ imd # NoFile)
    BY <1>2 DEF HoldsKept
  <1>8. ASSUME NEW k \in 1..n PROVE sec(k) = told(k)
    <2> DEFINE s == kept.secs[k]
               e == ibm_secs[k]
               t == Told(s.mark)
    <2>1. IsSector(s)
      BY <1>7 DEF IsTrack
    <2>2. told(k) = [idam |-> s.idam, mark |-> t, good |-> TRUE, dat |-> s.dat]
      BY <2>1, ToldSector
    <2>3. e.idam = s.idam /\ e.mark = t /\ e.good = TRUE /\ e.dat = s.dat
      <3>1. e.good = TRUE /\ e.idam = Idam(Sector(k)) /\ e.mark = Sector(k).mark
            /\ e.dat = Sector(k).dat
        BY DEF FoundSoFar
      <3>2. Idam(Sector(k)) = s.idam /\ Sector(k).dat = s.dat /\ Sector(k).mark = t
        BY <1>7 DEF HoldsKept, Sector
      <3> QED BY <3>1, <3>2
    <2>4. sec(k) = [idam |-> e.idam, mark |-> e.mark, good |-> e.good, dat |-> e.dat]
      OBVIOUS
    <2> HIDE DEF s, e, t, sec, told
    <2> QED BY <2>2, <2>3, <2>4
  <1> HIDE DEF sec, told
  <1>9. Analysed.secs = [k \in 1..Len(kept.secs) |-> told(k)]
    BY <1>6, <1>7, <1>8
  <1>10. SameAsKept(Analysed)
    BY <1>6, <1>7, <1>9 DEF SameAsKept, told
  <1>11. UNCHANGED <<medium, ibm_secs>>
    BY DEF Account
  <1> QED BY <1>1, <1>2, <1>5, <1>6, <1>10, <1>11, AllFound

-----------------------------------------------------------------------------
(* A dump, the first or the second.                                               *)

Reads == ScanHeader \/ SourceEnds \/ DataMissing \/ HeaderAgain \/ ReadData

LEMMA Misreadings ==
    ASSUME bad \in Nat, NEW harm, Misread(harm)
    PROVE  bad' \in Nat /\ (bad <= MaxBad => bad' <= MaxBad) /\ (bad > MaxBad => bad' = bad)
  BY DumpAssumption DEF Misread

LEMMA ReadStep ==
    ASSUME bad \in Nat, Reads
    PROVE  /\ pc \in {"scan", "data"} /\ pc' \in {"scan", "data", "over"}
           /\ UNCHANGED <<medium, ti, imd, kept>>
           /\ bad' \in Nat /\ (bad <= MaxBad => bad' <= MaxBad) /\ (bad > MaxBad => bad' = bad)
           /\ ibm_secs' = ibm_secs \/ ReadData
  <1>1. ASSUME NEW m, NEW harm, ReadHeader(m, harm)
        PROVE  /\ pc' \in {"scan", "data", "over"} /\ UNCHANGED <<medium, ibm_secs, ti, imd, kept>>
               /\ Misread(harm)
    BY <1>1, Zenon DEF ReadHeader
  <1>2. CASE ScanHeader
    <2>1. PICK harm \in {"none", "field"} : ReadHeader(First(Coming), harm)
      BY <1>2, Zenon DEF ScanHeader
    <2>2. pc = "scan"
      BY <1>2, Zenon DEF ScanHeader
    <2> QED BY <1>1, <2>1, <2>2, Misreadings
  <1>3. CASE SourceEnds
    BY <1>3 DEF SourceEnds, scanned
  <1>4. CASE DataMissing
    <2>1. PICK harm : Misread(harm)
      BY <1>4, Zenon DEF DataMissing
    <2>2. pc = "data" /\ pc' = "scan" /\ UNCHANGED <<scanned, ibm_secs>>
      BY <1>4, Zenon DEF DataMissing
    <2> QED BY <2>1, <2>2, Misreadings DEF scanned
  <1>5. CASE HeaderAgain
    <2>1. PICK harm : ReadHeader(First(Left(Near, harm)), harm)
      BY <1>5, Zenon DEF HeaderAgain
    <2>2. pc = "data"
      BY <1>5, Zenon DEF HeaderAgain
    <2> QED BY <1>1, <2>1, <2>2, Misreadings
  <1>6. CASE ReadData
    <2>1. PICK harm : /\ Misread(harm)
                      /\ pc' \in {"scan", "over"}
      BY <1>6, Zenon DEF ReadData
    <2>2. pc = "data" /\ UNCHANGED <<medium, id, ti, imd, kept>>
      BY <1>6, Zenon DEF ReadData
    <2> QED BY <1>6, <2>1, <2>2, Misreadings
  <1> QED BY <1>2, <1>3, <1>4, <1>5, <1>6 DEF Reads

LEMMA ReadsKeep ==
    ASSUME IbmInv, CopyInv, Revs >= 2, Reads
    PROVE  CopyInv'
  <1>1. /\ pc \in {"scan", "data"} /\ pc' \in {"scan", "data", "over"}
        /\ UNCHANGED <<medium, ti, imd, kept>>
        /\ bad' \in Nat /\ (bad <= MaxBad => bad' <= MaxBad) /\ (bad > MaxBad => bad' = bad)
        /\ ibm_secs' = ibm_secs \/ ReadData
    BY ReadStep DEF CopyInv
  <1>2. FirstDump'
    <2> SUFFICES ASSUME kept = NoTrack
                 PROVE  /\ bad' <= MaxBad /\ imd' = NoFile /\ ti' = NoTrack
                        /\ Roomy(medium) /\ Ends(medium, ibm_secs')
                        /\ (ibm_secs' # <<>> => InStep(medium))
      BY <1>1 DEF FirstDump
    <2>1. /\ bad <= MaxBad /\ imd = NoFile /\ ti = NoTrack
          /\ Roomy(medium) /\ Ends(medium, ibm_secs) /\ (ibm_secs # <<>> => InStep(medium))
      BY <1>1 DEF CopyInv, FirstDump
    <2>2. CASE ReadData
      BY <1>1, <2>1, <2>2, ReadEnds
    <2>3. CASE ibm_secs' = ibm_secs
      BY <1>1, <2>1, <2>3
    <2> QED BY <1>1, <2>2, <2>3
  <1>3. Image'
    <2>1. kept # NoTrack => ~(bad <= MaxBad)
      BY <1>1 DEF CopyInv, Image
    <2>2. bad \in Nat /\ MaxBad \in Nat
      BY DumpAssumption DEF CopyInv
    <2>3. kept' # NoTrack => ~(bad' <= MaxBad)
      BY <1>1, <2>1, <2>2
    <2> QED BY <2>3 DEF Image
  <1>4. SecondDump'
    <2>1. CASE bad > MaxBad
      <3>1. /\ kept # NoTrack /\ IsTrack(kept)
            /\ ~Single => Tight(medium) /\ HoldsKept(medium) /\ FoundSoFar
        BY <2>1 DEF CopyInv, SecondDump
      <3>2. ~Single => FoundSoFar'
        <4> SUFFICES ASSUME ~Single PROVE FoundSoFar'
          OBVIOUS
        <4>1. Tight(medium) /\ FoundSoFar /\ bad \in Nat
          BY <3>1 DEF CopyInv
        <4>2. CASE ScanHeader
          BY <2>1, <4>1, <4>2, SecondHeader
        <4>3. CASE SourceEnds
          BY <2>1, <4>1, <4>3, SecondEnds
        <4>4. CASE DataMissing
          BY <2>1, <4>1, <4>4, SecondMissing
        <4>5. CASE HeaderAgain
          BY <2>1, <4>1, <4>5, SecondAgain
        <4>6. CASE ReadData
          BY <2>1, <4>1, <4>6, SecondData
        <4> QED BY <4>2, <4>3, <4>4, <4>5, <4>6 DEF Reads
      <3>3. Single' = Single
        BY <1>1, Zenon DEF Single
      <3>4. HoldsKept(medium) => HoldsKept(medium)'
        BY <1>1 DEF HoldsKept, Told
      <3>5. Tight(medium)' = Tight(medium)
        BY <1>1
      <3>6. pc' \in {"scan", "data", "over", "done"} /\ ~(pc' = "done")
        BY <1>1
      <3>7. kept' # NoTrack /\ IsTrack(kept')
        BY <1>1, <3>1
      <3> QED BY <3>1, <3>2, <3>3, <3>4, <3>5, <3>6, <3>7, Zenon DEF SecondDump
    <2>2. CASE ~(bad > MaxBad)
      <3>1. bad \in Nat /\ bad <= MaxBad
        BY <2>2, DumpAssumption DEF CopyInv
      <3>2. ~(bad' > MaxBad)
        BY <1>1, <3>1, DumpAssumption
      <3> QED BY <3>2 DEF SecondDump
    <2> QED BY <2>1, <2>2
  <1> QED BY <1>1, <1>2, <1>3, <1>4 DEF CopyInv

-----------------------------------------------------------------------------
(* The track found in it.                                                         *)

LEMMA AccountCopied ==
    ASSUME IbmInv, CopyInv, Account
    PROVE  CopyInv'
  <1>1. /\ pc = "over" /\ pc' = "done"
        /\ UNCHANGED <<medium, ibm_secs, bad, imd, kept>>
        /\ ti' = NoTrack \/ (ti' = Analysed /\ ibm_secs # <<>>)
    BY Zenon DEF Account
  <1>2. bad \in Nat /\ bad' = bad
    BY <1>1 DEF CopyInv
  <1>3. FirstDump'
    <2> SUFFICES ASSUME kept = NoTrack
                 PROVE  /\ bad <= MaxBad /\ imd = NoFile
                        /\ Roomy(medium) /\ Ends(medium, ibm_secs)
                        /\ (ibm_secs # <<>> => InStep(medium))
                        /\ ti' # NoTrack => IsTrack(ti') /\ Fitting(ti')
      BY <1>1 DEF FirstDump
    <2>1. /\ bad <= MaxBad /\ imd = NoFile
          /\ Roomy(medium) /\ Ends(medium, ibm_secs) /\ (ibm_secs # <<>> => InStep(medium))
      BY DEF CopyInv, FirstDump
    <2>2. ti' # NoTrack => IsTrack(ti') /\ Fitting(ti')
      BY <1>1, <2>1, FirstAccount
    <2> QED BY <2>1, <2>2
  <1>4. Image'
    <2>1. kept # NoTrack => ~(bad <= MaxBad)
      BY <1>1 DEF CopyInv, Image
    <2> QED BY <1>1, <2>1 DEF Image
  <1>5. SecondDump'
    <2> SUFFICES ASSUME bad > MaxBad PROVE SecondDump'
      BY <1>1 DEF SecondDump
    <2>1. /\ kept # NoTrack /\ IsTrack(kept)
          /\ ~Single => Tight(medium) /\ HoldsKept(medium) /\ FoundSoFar
      BY DEF CopyInv, SecondDump
    <2>2. ~Single => ti' # NoTrack /\ SameAsKept(ti') /\ FoundSoFar'
      BY <2>1, SecondAccount
    <2>3. Single' = Single
      BY <1>1, Zenon DEF Single
    <2>4. HoldsKept(medium) => HoldsKept(medium)'
      BY <1>1 DEF HoldsKept, Told
    <2>5. SameAsKept(ti') => SameAsKept(ti)'
      BY <1>1 DEF SameAsKept, Told
    <2>6. Tight(medium)' = Tight(medium) /\ kept' # NoTrack /\ IsTrack(kept')
      BY <1>1, <2>1
    <2>7. pc' \in {"scan", "data", "over", "done"}
      BY <1>1
    <2> QED BY <2>1, <2>2, <2>3, <2>4, <2>5, <2>6, <2>7, Zenon DEF SecondDump
  <1> QED BY <1>2, <1>3, <1>4, <1>5 DEF CopyInv
-----------------------------------------------------------------------------
(* The track is saved, in an image or not, and loaded again.                      *)

LEMMA CloseCopied ==
    ASSUME CopyInv, CloseImd
    PROVE  CopyInv'
  <1>1. /\ pc = "done" /\ kept = NoTrack /\ ti # NoTrack
        /\ kept' = ti /\ pc' = "closed" /\ ti' = NoTrack
        /\ imd' = IF ~Recovery(ti.type) /\ SameSizes(ti)
                  THEN Saved(ti, medium.cyl, medium.head) ELSE NoFile
        /\ UNCHANGED bad
    BY Zenon DEF CloseImd
  <1>2. bad \in Nat /\ bad <= MaxBad /\ IsTrack(ti)
    BY <1>1 DEF CopyInv, FirstDump
  <1>3. FirstDump'
    BY <1>1 DEF FirstDump
  <1>4. SecondDump'
    BY <1>1, <1>2, DumpAssumption DEF SecondDump
  <1>5. Image'
    <2>1. imd' # NoFile => /\ SameSizes(ti) /\ ~Recovery(ti.type)
                           /\ imd' = Saved(ti, medium.cyl, medium.head)
      BY <1>1, Zenon
    <2>2. imd' = Saved(ti, medium.cyl, medium.head) => imd' = Saved(ti, imd'.cyl, imd'.head)
      BY DEF Saved
    <2>3. /\ IsTrack(kept)' /\ SameSizes(kept)' = SameSizes(ti)
          /\ Recovery(kept.type)' = Recovery(ti.type)
          /\ Saved(kept, imd.cyl, imd.head)' = Saved(ti, imd'.cyl, imd'.head)
      BY <1>1, <1>2, Zenon
    <2>4. pc' = "closed" /\ ~(pc' = "done") /\ ti' = NoTrack
      BY <1>1
    <2>5. pc' \in {"closed", "done", "refused"}
      BY <1>1
    <2> QED BY <2>1, <2>2, <2>3, <2>4, <2>5, Zenon DEF Image
  <1> QED BY <1>1, <1>2, <1>3, <1>4, <1>5 DEF CopyInv

\* What an image holds of a track.
LEMMA ImageIs ==
    ASSUME NEW t, NEW c, NEW h, imd = Saved(t, c, h), Len(t.secs) \in Nat \ {0}
    PROVE  /\ imd.mode = t.type /\ imd.no = t.secs[1].idam.no /\ imd.cyl = c /\ imd.head = h
           /\ Len(imd.secs) = Len(t.secs)
           /\ \A k \in 1..Len(t.secs) :
                 /\ imd.secs[k].sec = t.secs[k].idam.sec
                 /\ imd.secs[k].deleted = (t.secs[k].mark # "DAM")
                 /\ imd.secs[k].dat = t.secs[k].dat
                 /\ t.secs[k].idam.cyl = (IF imd.cyls = <<>> THEN c ELSE imd.cyls[k])
                 /\ t.secs[k].idam.head = (IF imd.heads = <<>> THEN h ELSE imd.heads[k])
  <1> DEFINE n == Len(t.secs)
             mode == t.type
             no == t.secs[1].idam.no
             cs == [k \in 1..n |-> t.secs[k].idam.cyl]
             hs == [k \in 1..n |-> t.secs[k].idam.head]
             cyls == IF \E k \in 1..n : t.secs[k].idam.cyl # c THEN cs ELSE <<>>
             heads == IF \E k \in 1..n : t.secs[k].idam.head # h THEN hs ELSE <<>>
             secs == [k \in 1..n |-> [sec |-> t.secs[k].idam.sec,
                                      deleted |-> t.secs[k].mark # "DAM",
                                      dat |-> t.secs[k].dat]]
  <1>1. imd = [mode |-> mode, cyl |-> c, head |-> h, no |-> no, cyls |-> cyls,
               heads |-> heads, secs |-> secs]
    BY Zenon DEF Saved
  <1>2. n \in Nat \ {0}
    OBVIOUS
  <1>3. Len(secs) = n
    BY <1>2
  <1>4. \A k \in 1..n : /\ secs[k].sec = t.secs[k].idam.sec
                        /\ secs[k].deleted = (t.secs[k].mark # "DAM")
                        /\ secs[k].dat = t.secs[k].dat
    OBVIOUS
  <1>5. Len(<<>>) = 0
    OBVIOUS
  <1>6. \A k \in 1..n : t.secs[k].idam.cyl = (IF cyls = <<>> THEN c ELSE cyls[k])
    <2>1. Len(cs) = n /\ \A k \in 1..n : cs[k] = t.secs[k].idam.cyl
      BY <1>2
    <2> HIDE DEF cs
    <2>2. cs # <<>>
      BY <1>2, <1>5, <2>1
    <2>3. cyls = IF \E k \in 1..n : t.secs[k].idam.cyl # c THEN cs ELSE <<>>
      OBVIOUS
    <2> HIDE DEF cyls, n
    <2> QED BY <2>1, <2>2, <2>3, Zenon
  <1>7. \A k \in 1..n : t.secs[k].idam.head = (IF heads = <<>> THEN h ELSE heads[k])
    <2>1. Len(hs) = n /\ \A k \in 1..n : hs[k] = t.secs[k].idam.head
      BY <1>2
    <2> HIDE DEF hs
    <2>2. hs # <<>>
      BY <1>2, <1>5, <2>1
    <2>3. heads = IF \E k \in 1..n : t.secs[k].idam.head # h THEN hs ELSE <<>>
      OBVIOUS
    <2> HIDE DEF heads, n
    <2> QED BY <2>1, <2>2, <2>3, Zenon
  <1> HIDE DEF mode, no, cyls, heads, secs
  <1>8. /\ imd.mode = mode /\ imd.cyl = c /\ imd.head = h /\ imd.no = no /\ imd.cyls = cyls
        /\ imd.heads = heads /\ imd.secs = secs
    BY <1>1
  <1> HIDE DEF n
  <1>9. imd.mode = mode /\ imd.no = no /\ imd.cyl = c /\ imd.head = h /\ Len(imd.secs) = n
    BY <1>3, <1>8
  <1>10. \A k \in 1..n : /\ imd.secs[k].sec = t.secs[k].idam.sec
                         /\ imd.secs[k].deleted = (t.secs[k].mark # "DAM")
                         /\ imd.secs[k].dat = t.secs[k].dat
                         /\ t.secs[k].idam.cyl = (IF imd.cyls = <<>> THEN c ELSE imd.cyls[k])
                         /\ t.secs[k].idam.head = (IF imd.heads = <<>> THEN h ELSE imd.heads[k])
    BY <1>4, <1>6, <1>7, <1>8, Zenon
  <1> QED BY <1>9, <1>10, Zenon DEF mode, no, n

LEMMA LoadedIs ==
    ASSUME IsTrack(kept), SameSizes(kept), imd # NoFile, imd = Saved(kept, imd.cyl, imd.head),
           NEW k \in 1..Len(kept.secs)
    PROVE  /\ Loaded(k) = [kept.secs[k] EXCEPT !.mark = Told(@), !.good = TRUE]
           /\ Loaded(k).idam.no = imd.no
  <1> DEFINE s == kept.secs[k]
             x == imd.secs[k]
             cyl == IF imd.cyls = <<>> THEN imd.cyl ELSE imd.cyls[k]
             head == IF imd.heads = <<>> THEN imd.head ELSE imd.heads[k]
             t == Told(s.mark)
             mark == IF x.deleted THEN "DDAM" ELSE "DAM"
             told == [s EXCEPT !.mark = Told(@), !.good = TRUE]
  <1>1. Len(kept.secs) \in Nat \ {0} /\ IsSector(s)
    BY DEF IsTrack
  <1>2. /\ imd.no = kept.secs[1].idam.no
        /\ x.sec = s.idam.sec /\ x.deleted = (s.mark # "DAM") /\ x.dat = s.dat
        /\ s.idam.cyl = cyl /\ s.idam.head = head
    <2> DEFINE c == imd.cyl
               h == imd.head
    <2>1. imd = Saved(kept, c, h)
      OBVIOUS
    <2> HIDE DEF c, h
    <2>2. /\ imd.no = kept.secs[1].idam.no
          /\ x.sec = s.idam.sec /\ x.deleted = (s.mark # "DAM") /\ x.dat = s.dat
          /\ s.idam.cyl = (IF imd.cyls = <<>> THEN c ELSE imd.cyls[k])
          /\ s.idam.head = (IF imd.heads = <<>> THEN h ELSE imd.heads[k])
      <3>1. /\ imd.mode = kept.type /\ imd.no = kept.secs[1].idam.no /\ imd.cyl = c
            /\ imd.head = h /\ Len(imd.secs) = Len(kept.secs)
            /\ \A l \in 1..Len(kept.secs) :
                  /\ imd.secs[l].sec = kept.secs[l].idam.sec
                  /\ imd.secs[l].deleted = (kept.secs[l].mark # "DAM")
                  /\ imd.secs[l].dat = kept.secs[l].dat
                  /\ kept.secs[l].idam.cyl = (IF imd.cyls = <<>> THEN c ELSE imd.cyls[l])
                  /\ kept.secs[l].idam.head = (IF imd.heads = <<>> THEN h ELSE imd.heads[l])
        <4>1. Len(kept.secs) \in Nat \ {0}
          BY <1>1
        <4> QED BY <2>1, <4>1, ImageIs
      <3> QED BY <3>1, Zenon
    <2> QED BY <2>2, Zenon DEF c, h
  <1>3. s.idam.no = imd.no
    BY <1>2 DEF SameSizes
  <1>4. told = [idam |-> s.idam, mark |-> t, good |-> TRUE, dat |-> s.dat]
    BY <1>1, ToldSector
  <1>5. s.idam = [cyl |-> s.idam.cyl, head |-> s.idam.head, sec |-> s.idam.sec, no |-> s.idam.no]
    <2> DEFINE i == Idam(s.idam)
               m == s.mark
               g == s.good
               d == s.dat
    <2>1. s = [idam |-> i, mark |-> m, good |-> g, dat |-> d]
      BY <1>1, Zenon DEF IsSector
    <2> HIDE DEF i, m, g, d
    <2>2. s.idam = i
      BY <2>1
    <2> QED BY <2>2, Zenon DEF i, Idam
  <1>6. mark = t
    BY <1>2 DEF Told
  <1>7. Loaded(k) = [idam |-> [cyl |-> cyl, head |-> head, sec |-> x.sec, no |-> imd.no],
                     mark |-> mark, good |-> TRUE, dat |-> x.dat]
    BY Zenon DEF Loaded
  <1> HIDE DEF s, x, cyl, head, t, mark, told
  <1>8. [cyl |-> cyl, head |-> head, sec |-> x.sec, no |-> imd.no] = s.idam
    BY <1>2, <1>3, <1>5, Zenon
  <1>9. Loaded(k) = told
    BY <1>2, <1>4, <1>6, <1>7, <1>8, Zenon
  <1>10. told.idam.no = imd.no
    BY <1>3, <1>4
  <1> QED BY <1>9, <1>10 DEF told, s
\* A track set up is a track.
SetUp(t, type, secs) == t # NoTrack /\ t.iam = TRUE /\ t.secs = secs /\ t.type = type

LEMMA SetupIs ==
    ASSUME NEW type, NEW no, NEW secs
    PROVE  SetUp(Setup(type, no, secs), type, secs)
  <1> DEFINE t == Setup(type, no, secs)
             gap == PostDataGap(type, TRUE, SetupFree(type, no, Len(secs)), Len(secs)).gap
             total == SetupBits(type)
                        + PostDataGap(type, TRUE, SetupFree(type, no, Len(secs)), Len(secs)).grown
             iam == TRUE
  <1>1. t = [type |-> type, iam |-> iam, gap |-> gap, total |-> total, secs |-> secs]
    BY Zenon DEF Setup
  <1> HIDE DEF t, gap, total, iam
  <1>2. t # NoTrack
    BY <1>1, TrackNot
  <1>3. t.iam = iam /\ t.secs = secs /\ t.type = type
    BY <1>1
  <1> QED BY <1>2, <1>3 DEF t, iam, SetUp

LEMMA OpenCopied ==
    ASSUME CopyInv, OpenImd
    PROVE  CopyInv'
  <1> DEFINE n == Len(kept.secs)
             secs == [k \in 1..Len(imd.secs) |-> Loaded(k)]
             free == SetupFree(imd.mode, imd.no, Len(imd.secs))
             t == Setup(imd.mode, imd.no, secs)
  <1>1. /\ pc = "closed" /\ UNCHANGED <<bad, imd, kept>> /\ bad \in Nat
        /\ \/ imd = NoFile /\ pc' = "done" /\ ti' = ti
           \/ imd # NoFile /\ pc' = "refused" /\ ti' = ti
           \/ imd # NoFile /\ ~(free < 0) /\ pc' = "done" /\ ti' = t
    BY Zenon DEF OpenImd, CopyInv
  <1>2. kept # NoTrack /\ bad <= MaxBad
    <2>1. kept # NoTrack
      BY <1>1 DEF CopyInv, FirstDump
    <2>2. ~(bad > MaxBad)
      BY <1>1 DEF CopyInv, SecondDump
    <2> QED BY <1>1, <2>1, <2>2, DumpAssumption
  <1>3. /\ IsTrack(kept) /\ ti = NoTrack
        /\ imd # NoFile => /\ SameSizes(kept) /\ ~Recovery(kept.type)
                           /\ imd = Saved(kept, imd.cyl, imd.head)
    BY <1>1, <1>2 DEF CopyInv, Image
  <1>4. FirstDump' /\ SecondDump'
    <2>1. kept' # NoTrack
      BY <1>1, <1>2
    <2>2. ~(bad' > MaxBad)
      BY <1>1, <1>2, DumpAssumption
    <2> QED BY <2>1, <2>2 DEF FirstDump, SecondDump
  <1>5. ASSUME imd # NoFile, ~(free < 0)
        PROVE  t # NoTrack /\ SameAsKept(t) /\ t.type = kept.type /\ (~Single => Fitting(t))
    <2>1. n \in Nat \ {0}
      BY <1>3 DEF IsTrack
    <2>2. Len(imd.secs) = n /\ imd.mode = kept.type /\ imd.no = kept.secs[1].idam.no
      <3> DEFINE c == imd.cyl
                 h == imd.head
      <3>1. imd = Saved(kept, c, h) /\ Len(kept.secs) \in Nat \ {0}
        BY <1>3, <1>5, <2>1
      <3> HIDE DEF c, h
      <3> QED BY <3>1, ImageIs
    <2>3. ASSUME NEW k \in 1..n
          PROVE  /\ Loaded(k) = [kept.secs[k] EXCEPT !.mark = Told(@), !.good = TRUE]
                 /\ Loaded(k).idam.no = imd.no
      BY <1>3, <1>5, LoadedIs
    <2>4. secs = [k \in 1..n |-> [kept.secs[k] EXCEPT !.mark = Told(@), !.good = TRUE]]
      <3> DEFINE told(k) == [kept.secs[k] EXCEPT !.mark = Told(@), !.good = TRUE]
      <3>1. \A k \in 1..n : Loaded(k) = told(k)
        BY <2>3
      <3> HIDE DEF told, n
      <3>2. secs = [k \in 1..n |-> told(k)]
        BY <2>2, <3>1
      <3> QED BY <3>2 DEF told
    <2>5. Len(secs) = n /\ \A k \in 1..Len(secs) : secs[k].idam.no = imd.no
      <3>1. Len(secs) = n
        BY <2>1, <2>2
      <3>2. \A k \in 1..n : secs[k] = Loaded(k)
        BY <2>2
      <3> HIDE DEF secs, n
      <3> QED BY <2>3, <3>1, <3>2
    <2> HIDE DEF secs
    <2>6. t # NoTrack /\ t.iam = TRUE /\ t.secs = secs /\ t.type = imd.mode
      <3> DEFINE m == imd.mode
                 z == imd.no
                 list == secs
      <3> HIDE DEF m, z, list
      <3>1. SetUp(Setup(m, z, list), m, list)
        BY SetupIs
      <3> QED BY <3>1, Zenon DEF m, z, list, SetUp
    <2>7. imd.no \in 0..7
      <3>1. 1 \in 1..n
        BY <2>1
      <3>2. IsSector(kept.secs[1])
        BY <1>3, <3>1 DEF IsTrack
      <3> QED BY <2>2, <3>2 DEF IsSector
    <2>8. free >= 0
      <3> DEFINE sb == SectorBits(imd.mode, imd.no)
                 room == SetupBits(imd.mode)
      <3>1. sb \in Nat
        BY <2>7, SectorBitsIs
      <3>2. room \in Nat
        BY DEF SetupBits, DefaultBits
      <3>3. free = room - n * sb
        BY <2>2, Zenon DEF SetupFree
      <3> HIDE DEF free, sb, room, n
      <3>4. n * sb \in Int
        BY <2>1, <3>1
      <3> QED BY <1>5, <3>2, <3>3, <3>4
    <2>9. ~Single => Fitting(t)
      <3> SUFFICES ASSUME ~Single PROVE Fitting(t)
        OBVIOUS
      <3>1. imd.mode # "ibm_fm_sd" /\ ~Recovery(imd.mode)
        BY <1>3, <1>5, <2>2 DEF Single
      <3>2. SetupFree(imd.mode, imd.no, Len(secs)) >= 0
        BY <2>2, <2>5, <2>8
      <3>3. Len(secs) \in Nat \ {0}
        BY <2>1, <2>5
      <3> DEFINE type == imd.mode
                 no == imd.no
      <3>4. /\ type # "ibm_fm_sd" /\ ~Recovery(type) /\ no \in 0..7
            /\ SetupFree(type, no, Len(secs)) >= 0
            /\ \A k \in 1..Len(secs) : secs[k].idam.no = no
        BY <2>5, <2>7, <3>1, <3>2
      <3> HIDE DEF type, no
      <3>5. Fitting(Setup(type, no, secs))
        BY <3>3, <3>4, SetupFitting
      <3> QED BY <3>5 DEF type, no
    <2> HIDE DEF t
    <2>10. SameAsKept(t)
      BY <1>5, <2>4, <2>6 DEF SameAsKept
    <2> QED BY <2>2, <2>6, <2>9, <2>10
  <1> HIDE DEF t, free
  <1>6. Image'
    <2>1. IsTrack(kept') /\ pc' \in {"closed", "done", "refused"}
      BY <1>1, <1>3
    <2>2. imd' # NoFile => /\ SameSizes(kept') /\ ~Recovery(kept'.type)
                           /\ imd' = Saved(kept', imd'.cyl, imd'.head)
      BY <1>1, <1>3, Zenon
    <2>3. pc' # "done" \/ imd' = NoFile => ti' = NoTrack
      BY <1>1, <1>3
    <2>4. Single' = Single
      BY <1>1, Zenon DEF Single
    <2>6. ASSUME pc' = "done", imd' # NoFile
          PROVE  ti' # NoTrack /\ SameAsKept(ti)' /\ ti'.type = kept'.type
                 /\ (~Single' => Fitting(ti'))
      <3>1. imd # NoFile /\ ~(free < 0) /\ ti' = t
        BY <1>1, <2>6
      <3>2. t # NoTrack /\ SameAsKept(t) /\ t.type = kept.type /\ (~Single => Fitting(t))
        BY <1>5, <3>1
      <3>3. SameAsKept(ti') => SameAsKept(ti)'
        BY <1>1 DEF SameAsKept, Told
      <3> QED BY <1>1, <2>4, <3>1, <3>2, <3>3
    <2> QED BY <2>1, <2>2, <2>3, <2>6, Zenon DEF Image
  <1> QED BY <1>1, <1>4, <1>6 DEF CopyInv
-----------------------------------------------------------------------------
(* It is written to a medium, which is dumped in turn.                            *)

LEMMA KeptIsTrack ==
    ASSUME IsTrack(kept), NEW t, SameAsKept(t), imd # NoFile
    PROVE  IsTrack(t)
  <1> DEFINE n == Len(kept.secs)
             told(k) == [kept.secs[k] EXCEPT !.mark = Told(@), !.good = TRUE]
  <1>1. n \in Nat \ {0} /\ \A k \in 1..n : IsSector(kept.secs[k])
    BY DEF IsTrack
  <1>2. t.iam = TRUE /\ t.secs = [k \in 1..n |-> told(k)]
    BY DEF SameAsKept
  <1>3. ASSUME NEW k \in 1..n PROVE IsSector(told(k))
    <2> DEFINE s == kept.secs[k]
               m == Told(s.mark)
               i == s.idam
               d == s.dat
               g == TRUE
               r == told(k)
    <2>1. IsSector(s)
      BY <1>1
    <2>2. r = [idam |-> i, mark |-> m, good |-> g, dat |-> d]
      BY <2>1, ToldSector
    <2>3. i = Idam(i) /\ i.no \in 0..7
      <3> DEFINE j == Idam(i)
                 a == s.mark
                 b == s.good
      <3>1. s = [idam |-> j, mark |-> a, good |-> b, dat |-> d] /\ i.no \in 0..7
        BY <2>1, Zenon DEF IsSector
      <3> HIDE DEF j, a, b, d
      <3>2. i = j
        BY <3>1
      <3> QED BY <3>1, <3>2 DEF j
    <2> HIDE DEF s, m, i, d, g, r, told
    <2>4. r.idam = i /\ r.mark = m /\ r.good = g /\ r.dat = d
      BY <2>2
    <2>5. IsSector(r)
      BY <2>2, <2>3, <2>4, Zenon DEF IsSector
    <2> QED BY <2>5 DEF r
  <1> HIDE DEF told
  <1>4. Len(t.secs) = n /\ \A k \in 1..n : t.secs[k] = told(k)
    BY <1>1, <1>2
  <1> HIDE DEF n
  <1> QED BY <1>1, <1>2, <1>3, <1>4 DEF IsTrack

LEMMA RewriteCopied ==
    ASSUME IbmInv, CopyInv, Rewrite
    PROVE  CopyInv'
  <1>1. /\ pc = "done" /\ ti # NoTrack /\ bad <= MaxBad /\ bad \in Nat
        /\ kept' = (IF kept = NoTrack THEN ti ELSE kept)
        /\ medium' = (IF Fits(ti) THEN Written(ti) ELSE [Written(ti) EXCEPT !.secs = <<>>])
        /\ pc' = "scan" /\ past' = 0 /\ ibm_secs' = <<>>
        /\ bad' = MaxBad + 1 /\ ti' = NoTrack /\ imd' = imd
    BY Zenon DEF Rewrite, CopyInv
  <1>2. Writable(ti)
    BY <1>1 DEF IbmInv
  <1>3. /\ IsTrack(ti) /\ (~Single => Fitting(ti)) /\ kept' # NoTrack /\ IsTrack(kept')
        /\ \/ kept = NoTrack /\ imd = NoFile /\ kept' = ti
           \/ kept # NoTrack /\ imd # NoFile /\ kept' = kept /\ SameAsKept(ti)
    <2>1. CASE kept = NoTrack
      BY <1>1, <2>1 DEF CopyInv, FirstDump
    <2>2. CASE kept # NoTrack
      <3>1. IsTrack(kept) /\ imd # NoFile /\ SameAsKept(ti) /\ (~Single => Fitting(ti))
        BY <1>1, <2>2 DEF CopyInv, Image
      <3> QED BY <1>1, <2>2, <3>1, KeptIsTrack
    <2> QED BY <2>1, <2>2
  <1>4. MaxBad \in Nat /\ bad' \in Nat /\ bad' > MaxBad /\ ~(bad' <= MaxBad)
    BY <1>1, DumpAssumption
  <1>5. FirstDump' /\ Image'
    BY <1>3, <1>4 DEF FirstDump, Image
  <1>6. ~Single' => Tight(medium') /\ HoldsKept(medium)' /\ FoundSoFar'
    <2> SUFFICES ASSUME ~Single' PROVE Tight(medium') /\ HoldsKept(medium)' /\ FoundSoFar'
      OBVIOUS
    <2>1. ~Single
      BY <1>1, <1>3 DEF Single
    <2>2. Fitting(ti) /\ medium' = Written(ti)
      BY <1>1, <1>3, <2>1 DEF Fitting
    <2> DEFINE m == medium'
    <2>3. /\ Tight(m) /\ m.iam = ti.iam /\ Len(m.secs) = Len(ti.secs)
          /\ \A k \in 1..Len(ti.secs) :
                /\ Idam(m.secs[k]) = ti.secs[k].idam /\ m.secs[k].dat = ti.secs[k].dat
                /\ m.secs[k].mark = ti.secs[k].mark
      BY <1>2, <1>3, <2>2, WrittenTight
    <2>4. /\ ti.iam = (kept'.iam \/ imd' # NoFile) /\ Len(ti.secs) = Len(kept'.secs)
          /\ \A k \in 1..Len(kept'.secs) :
                /\ ti.secs[k].idam = kept'.secs[k].idam /\ ti.secs[k].dat = kept'.secs[k].dat
                /\ ti.secs[k].mark = Told(kept.secs[k].mark)'
      <3>1. CASE kept = NoTrack /\ imd = NoFile /\ kept' = ti
        <4>1. ti.iam \in BOOLEAN /\ imd' = NoFile
          BY <1>1, <1>3, <3>1 DEF IsTrack
        <4>2. ti.iam = (ti.iam \/ imd' # NoFile)
          BY <4>1
        <4> QED BY <3>1, <4>1, <4>2 DEF Told
      <3>2. CASE kept # NoTrack /\ imd # NoFile /\ kept' = kept /\ SameAsKept(ti)
        <4> DEFINE n == Len(kept.secs)
                   told(k) == [kept.secs[k] EXCEPT !.mark = Told(@), !.good = TRUE]
        <4>1. n \in Nat \ {0} /\ \A k \in 1..n : IsSector(kept.secs[k])
          BY <1>3, <3>2 DEF IsTrack
        <4>2. ti.iam = (kept.iam \/ imd # NoFile) /\ ti.secs = [k \in 1..n |-> told(k)]
          BY <3>2 DEF SameAsKept
        <4>3. ASSUME NEW k \in 1..n
              PROVE  /\ told(k).idam = kept.secs[k].idam /\ told(k).dat = kept.secs[k].dat
                     /\ told(k).mark = Told(kept.secs[k].mark)
          <5> DEFINE s == kept.secs[k]
                     i == s.idam
                     a == Told(s.mark)
                     d == s.dat
                     g == TRUE
                     r == told(k)
          <5>1. r = [idam |-> i, mark |-> a, good |-> g, dat |-> d]
            BY <4>1, ToldSector
          <5> HIDE DEF i, a, d, g, r, told
          <5>2. r.idam = i /\ r.mark = a /\ r.dat = d
            BY <5>1
          <5> QED BY <5>2 DEF i, a, d, r
        <4> HIDE DEF told
        <4>4. Len(ti.secs) = n /\ \A k \in 1..n : ti.secs[k] = told(k)
          BY <4>1, <4>2
        <4>6. ASSUME NEW k \in 1..n
              PROVE  Told(kept.secs[k].mark)' = Told(kept.secs[k].mark)
          BY <1>1, <3>2 DEF Told
        <4> QED BY <1>1, <3>2, <4>2, <4>3, <4>4, <4>6
      <3> QED BY <1>3, <3>1, <3>2
    <2>5. HoldsKept(medium)'
      BY <2>3, <2>4 DEF HoldsKept
    <2>6. FoundSoFar'
      <3> DEFINE first == SeenAt(1)'
      <3>1. Len(ibm_secs') = 0 /\ 0 + 1 = 1
        BY <1>1
      <3>2. 0 < SeenAt(1)'
        <4> DEFINE a == Sector(1)'.at
                   b == MarkBits(medium'.type)
        <4>1. 1 \in 1..Len(m.secs)
          BY <2>3 DEF Tight
        <4>2. m.secs[1].at \in 500..(m.len - 1000) /\ m.len \in Nat
          BY <2>3, <4>1 DEF Tight
        <4>3. a = m.secs[1].at
          BY DEF Sector
        <4>4. b \in 64..112
          BY DEF MarkBits
        <4>5. SeenAt(1)' = a + (b - (IF Fm(medium'.type) THEN 0 ELSE 32))
          BY Zenon DEF SeenAt
        <4> HIDE DEF a, b, m
        <4> QED BY <4>2, <4>3, <4>4, <4>5
      <3>3. Len(medium'.secs) \in Nat
        BY <2>3 DEF Tight
      <3> QED BY <1>1, <3>1, <3>2, <3>3 DEF FoundSoFar
    <2> QED BY <2>3, <2>5, <2>6
  <1>7. SecondDump'
    BY <1>1, <1>3, <1>6 DEF SecondDump
  <1> QED BY <1>4, <1>5, <1>7 DEF CopyInv

-----------------------------------------------------------------------------

(* ibm_mfm_write_raw, choose_post_data_gap, setup_ibm_mfm_track, read_raw and imd.c: a   *)
(* track that is analysed, written out, at once or from an IMD image, and analysed again *)
(* has the same sectors with the same data: for any media whose sectors lie apart (Roomy)*)
(* and any dump of two revolutions or more, with any number of misreadings in the first. *)
THEOREM CopyKept ==
    ASSUME Revs >= 2, \A m \in Media : Roomy(m)
    PROVE  IbmSpec => []CopyKeeps
  <1>1. IbmInit => CopyInv
    <2> SUFFICES ASSUME IbmInit PROVE CopyInv
      OBVIOUS
    <2>1. /\ medium \in Media /\ pc = "scan" /\ ibm_secs = <<>> /\ bad = 0
          /\ ti = NoTrack /\ imd = NoFile /\ kept = NoTrack /\ MaxBad \in Nat
      BY DumpAssumption DEF IbmInit
    <2>2. Ends(medium, ibm_secs)
      BY <2>1 DEF Ends
    <2>3. FirstDump
      BY <2>1, <2>2 DEF FirstDump
    <2>4. Image /\ SecondDump
      BY <2>1 DEF Image, SecondDump
    <2> QED BY <2>1, <2>3, <2>4 DEF CopyInv
  <1>2. IbmInv /\ CopyInv /\ [IbmNext]_ibmVars => CopyInv'
    <2> SUFFICES ASSUME IbmInv, CopyInv, [IbmNext]_ibmVars PROVE CopyInv'
      OBVIOUS
    <2>1. CASE Reads
      BY <2>1, ReadsKeep
    <2>2. CASE Account
      BY <2>2, AccountCopied
    <2>3. CASE CloseImd
      BY <2>3, CloseCopied
    <2>4. CASE OpenImd
      BY <2>4, OpenCopied
    <2>5. CASE Rewrite
      BY <2>5, RewriteCopied
    <2>6. CASE UNCHANGED ibmVars
      BY <2>6, Zenon DEF ibmVars, CopyInv, FirstDump, Image, SecondDump, Single, HoldsKept,
         SameAsKept, Told, FoundSoFar, SeenAt, Sector
    <2> QED BY <2>1, <2>2, <2>3, <2>4, <2>5, <2>6 DEF IbmNext, Reads
  <1>3. CopyInv => CopyKeeps
    <2> SUFFICES ASSUME CopyInv, pc = "done", kept # NoTrack, bad > MaxBad \/ imd # NoFile,
                        ~Single
                 PROVE  ti # NoTrack /\ SameAsKept(ti)
      BY DEF CopyKeeps, Single, SameAsKept
    <2>1. CASE bad > MaxBad
      BY <2>1 DEF CopyInv, SecondDump
    <2>2. CASE ~(bad > MaxBad)
      <3>1. bad <= MaxBad
        BY <2>2, DumpAssumption DEF CopyInv
      <3> QED BY <2>2, <3>1 DEF CopyInv, Image
    <2> QED BY <2>1, <2>2
  <1> QED BY <1>1, <1>2, <1>3, IbmInvHolds, PTL DEF IbmSpec
=============================================================================
