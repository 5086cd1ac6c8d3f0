-------------------------- MODULE FormatScanProofs --------------------------
(***************************************************************************)
(* What no handler's table can spoil: a scan moves on, and what is stored was *)
(* readable and the sector's own.  The handlers are any that FormatScan       *)
(* can run (LaidOutAssumption); the last two results ask in addition that     *)
(* what is stored has a checksum (Checked), and the last one that it lies     *)
(* where the sync before it says (IsPlaced).  Both are conditions on a table  *)
(* alone, which MCFormats evaluates for those of the source.                  *)
(***************************************************************************)
EXTENDS FormatScan, ListProofs

(* A field has bits; what a group reads is a list of such. *)
Fields(f) == Len(f) \in Nat /\ \A j \in 1..Len(f) : f[j].l.b \in Nat \ {0}

OnTrack == fmt \in DOMAIN Laid /\ start \in Nat

-----------------------------------------------------------------------------
LEMMA FormatIs ==
    ASSUME OnTrack
    PROVE  IsLaidOut(Laid[fmt])
  BY LaidOutAssumption, Zenon DEF OnTrack, Laid

LEMMA TrackIs ==
    ASSUME OnTrack
    PROVE  /\ Length \in Nat /\ Length > 0 /\ Limit \in Nat /\ Limit > 0
           /\ \A p \in Nat : Place(p) \in 1..Length
           /\ \A p \in Nat : At(p) \in Int
  <1> DEFINE L == Length
             off == Laid[fmt].off
  <1>1. L \in Nat /\ L > 0 /\ off \in Seq(Nat) /\ Len(off) = L + 1
    <2>1. /\ Len(Laid[fmt].trk) \in Nat \ {0} /\ off \in Seq(Nat)
          /\ Len(off) = Len(Laid[fmt].trk) + 1
      BY FormatIs, Zenon DEF IsLaidOut
    <2> QED BY <2>1, SMT DEF Length, Track
  <1>2. \A k \in 1..(L + 1) : off[k] \in Nat
    <2> HIDE DEF L, off
    <2> QED BY <1>1
  <1>3. start \in Nat
    BY DEF OnTrack
  <1>4. Limit \in Nat /\ Limit > 0
    <2>1. Limit = Revs * L /\ Revs \in Nat /\ Revs >= 1
      BY BoundsAssumption, SMT DEF Limit
    <2> HIDE DEF L
    <2> QED BY <1>1, <2>1, SMT
  <1>5. ASSUME NEW p \in Nat
        PROVE  Place(p) \in 1..L /\ At(p) \in Int
    <2> DEFINE n == p + start
    <2>1. Place(p) = ((n - 1) % L) + 1
          /\ At(p) = (n \div L) * off[L + 1] + off[(n % L) + 1]
      BY Zenon DEF Place, Wrap, At, Offset, TrackBits
    <2>2. n \in Nat
      BY <1>3
    <2> HIDE DEF n, L, off
    <2>3. (n - 1) % L \in 0..(L - 1) /\ n % L \in 0..(L - 1) /\ n \div L \in Int
      BY <1>1, <2>2, SMT
    <2>4. off[L + 1] \in Nat /\ off[(n % L) + 1] \in Nat
      BY <1>1, <1>2, <2>3, SMT
    <2> DEFINE m == n % L
               d == n \div L
               e == (n - 1) % L
    <2> HIDE DEF m, d, e
    <2>5. e \in 0..(L - 1) /\ d \in Int
      BY <2>3 DEF e, d
    <2>6. Place(p) = e + 1 /\ At(p) = d * off[L + 1] + off[(n % L) + 1]
      BY <2>1 DEF e, d
    <2>7. d * off[L + 1] \in Int
      BY <2>4, <2>5, SMT
    <2> QED BY <1>1, <2>4, <2>5, <2>6, <2>7
  <1> QED BY <1>1, <1>4, <1>5 DEF L

(* Quotients and remainders.                                                         *)
LEMMA DivisionIs ==
    ASSUME NEW n \in Int, NEW T \in Nat, T > 0
    PROVE  n \div T \in Int /\ n % T \in 0..(T - 1) /\ n = T * (n \div T) + (n % T)
  BY SMT

LEMMA SmallMultiple ==
    ASSUME NEW T \in Nat, T > 0, NEW m \in Int, T * m < T, T * m > 0 - T
    PROVE  m = 0
  <1>1. CASE m >= 1
    <2>1. T * m >= T
      BY <1>1, SMT
    <2> DEFINE x == T * m
    <2>2. x \in Int /\ x >= T /\ x < T
      BY <2>1, SMT
    <2> HIDE DEF x
    <2> QED BY <2>2
  <1>2. CASE m <= -1
    <2>1. T * m <= 0 - T
      BY <1>2, SMT
    <2> DEFINE x == T * m
    <2>2. x \in Int /\ x <= 0 - T /\ x > 0 - T
      BY <2>1, SMT
    <2> HIDE DEF x
    <2> QED BY <2>2
  <1> QED BY <1>1, <1>2

LEMMA QuotientIs ==
    ASSUME NEW T \in Nat, T > 0, NEW k \in Int, NEW r \in 0..(T - 1), NEW n \in Int,
           n = T * k + r
    PROVE  n \div T = k /\ n % T = r
  <1> DEFINE d == n \div T
             e == n % T
             x == T * k
             y == T * d
  <1>1. d \in Int /\ e \in 0..(T - 1) /\ n = y + e
    BY DivisionIs
  <1>2. x \in Int /\ y \in Int /\ n = x + r
    <2> HIDE DEF d
    <2> QED BY <1>1, SMT
  <1> HIDE DEF d, e
  <1>3. T * (d - k) = y - x
    BY <1>1, SMT
  <1> HIDE DEF x, y
  <1>4. T * (d - k) < T /\ T * (d - k) > 0 - T
    BY <1>1, <1>2, <1>3
  <1>5. d - k \in Int
    BY <1>1
  <1>6. d - k = 0
    <2> DEFINE m == d - k
    <2>1. m \in Int /\ T * m < T /\ T * m > 0 - T
      BY <1>4, <1>5
    <2> HIDE DEF m
    <2>2. m = 0
      BY <2>1, SmallMultiple
    <2> QED BY <2>2 DEF m
  <1>7. d = k
    BY <1>1, <1>6
  <1>8. y = x
    BY <1>7 DEF x, y
  <1>9. e = r
    BY <1>1, <1>2, <1>8
  <1> QED BY <1>7, <1>9 DEF d, e

LEMMA MultipleIs ==
    ASSUME NEW T \in Nat, T > 0, NEW k \in Int
    PROVE  (k * T) % T = 0
  <1> DEFINE n == k * T
  <1>1. n \in Int /\ n = T * k + 0 /\ 0 \in 0..(T - 1)
    BY SMT
  <1> HIDE DEF n
  <1>2. \A r \in 0..(T - 1) : n = T * k + r => n % T = r
    BY <1>1, QuotientIs
  <1> QED BY <1>1, <1>2 DEF n

(* Fields lie one after the other, and the track after itself.                       *)
LEMMA TurnIs ==
    ASSUME OnTrack, NEW p \in Nat
    PROVE  /\ Place(p + 1) \in 1..Length
           /\ Laid[fmt].off[Place(p + 1)] \in Nat /\ Laid[fmt].off[Place(p + 1) + 1] \in Nat
           /\ TrackBits \in Nat /\ TrackBits > 0
           /\ Laid[fmt].off[Place(p + 1) + 1] = Laid[fmt].off[Place(p + 1)] + Under(p + 1).l.b
           /\ \E k \in Int : At(p) = k * TrackBits + Laid[fmt].off[Place(p + 1)]
           /\ Under(p + 1).l.b \in Nat /\ At(p + 1) = At(p) + Under(p + 1).l.b
  <1> DEFINE L == Length
             off == Laid[fmt].off
             trk == Laid[fmt].trk
             T == TrackBits
             n == p + start
             d == n \div L
             e == n % L
             b == trk[e + 1].l.b
  <1>1. /\ L \in Nat /\ L > 0 /\ off \in Seq(Nat) /\ Len(off) = L + 1 /\ off[1] = 0
        /\ \A i \in 1..L : trk[i].l.b \in Nat \ {0} /\ off[i + 1] = off[i] + trk[i].l.b
    <2>1. /\ Len(Laid[fmt].trk) \in Nat \ {0} /\ off \in Seq(Nat)
          /\ Len(off) = Len(Laid[fmt].trk) + 1 /\ off[1] = 0
          /\ \A i \in 1..Len(Laid[fmt].trk) :
                trk[i].l.b \in Nat \ {0} /\ off[i + 1] = off[i] + trk[i].l.b
      BY FormatIs, Zenon DEF IsLaidOut
    <2> QED BY <2>1, SMT DEF Length, Track
  <1>2. \A k \in 1..(L + 1) : off[k] \in Nat
    <2> HIDE DEF L, off
    <2> QED BY <1>1
  <1>3. n \in Nat /\ p \in Nat /\ start \in Nat
    BY DEF OnTrack
  <1>4. /\ Place(p + 1) = ((((p + 1) + start) - 1) % L) + 1
        /\ At(p) = (n \div L) * T + off[(n % L) + 1]
        /\ At(p + 1) = (((p + 1) + start) \div L) * T + off[(((p + 1) + start) % L) + 1]
        /\ T = off[L + 1]
    BY Zenon DEF Place, Wrap, At, Offset, TrackBits
  <1>5. ((p + 1) + start) - 1 = n /\ (p + 1) + start = n + 1
    BY <1>3
  <1>6. /\ Place(p + 1) = e + 1 /\ At(p) = d * T + off[e + 1]
        /\ At(p + 1) = ((n + 1) \div L) * T + off[((n + 1) % L) + 1]
    BY <1>4, <1>5
  <1>7. Under(p + 1) = trk[e + 1]
    BY <1>6 DEF Under, Track
  <1> HIDE DEF n, L, off, trk, T
  <1>8. e \in 0..(L - 1) /\ d \in Int /\ n = L * d + e
    BY <1>1, <1>3, DivisionIs
  <1>9. /\ e = L - 1 => (n + 1) \div L = d + 1 /\ (n + 1) % L = 0
        /\ e # L - 1 => (n + 1) \div L = d /\ (n + 1) % L = e + 1
    <2> HIDE DEF d, e
    <2>1. n + 1 \in Int /\ L * (d + 1) = L * d + L
      BY <1>1, <1>3, <1>8, SMT
    <2> DEFINE x == L * d
    <2>2. x \in Int
      BY <1>1, <1>8, SMT
    <2>3. ASSUME e = L - 1 PROVE n + 1 = L * (d + 1) + 0
      <3>1. n = x + e /\ L * (d + 1) = x + L
        BY <1>8, <2>1
      <3> HIDE DEF x
      <3> QED BY <1>1, <2>2, <2>3, <3>1
    <2>4. ASSUME e # L - 1 PROVE n + 1 = L * d + (e + 1) /\ e + 1 \in 0..(L - 1)
      <3>1. n = x + e
        BY <1>8
      <3>2. n + 1 = x + (e + 1) /\ e + 1 \in 0..(L - 1)
        <4> HIDE DEF x
        <4> QED BY <1>1, <1>8, <2>2, <2>4, <3>1
      <3> QED BY <3>2
    <2>5. ASSUME e = L - 1 PROVE (n + 1) \div L = d + 1 /\ (n + 1) % L = 0
      <3> DEFINE k == d + 1
                 r == 0
                 m == n + 1
      <3>1. k \in Int /\ r \in 0..(L - 1) /\ m \in Int /\ m = L * k + r /\ L \in Nat /\ L > 0
        BY <1>1, <1>8, <2>1, <2>3, <2>5
      <3> HIDE DEF k, r, m
      <3>2. m \div L = k /\ m % L = r
        BY <3>1, QuotientIs
      <3> QED BY <3>2 DEF k, r, m
    <2>6. ASSUME e # L - 1 PROVE (n + 1) \div L = d /\ (n + 1) % L = e + 1
      <3> DEFINE r == e + 1
                 m == n + 1
      <3>1. d \in Int /\ r \in 0..(L - 1) /\ m \in Int /\ m = L * d + r /\ L \in Nat /\ L > 0
        BY <1>1, <1>8, <2>1, <2>4, <2>6
      <3> HIDE DEF r, m
      <3>2. m \div L = d /\ m % L = r
        BY <3>1, QuotientIs
      <3> QED BY <3>2 DEF r, m
    <2> QED BY <2>5, <2>6
  <1> HIDE DEF d, e
  <1>10. /\ e + 1 \in 1..L /\ off[e + 1] \in Nat /\ off[(e + 1) + 1] \in Nat /\ b \in Nat /\ b > 0
         /\ off[(e + 1) + 1] = off[e + 1] + b /\ T \in Nat
    <2> DEFINE i == e + 1
    <2>1. i \in 1..L /\ i \in 1..(L + 1) /\ i + 1 \in 1..(L + 1) /\ L + 1 \in 1..(L + 1)
      BY <1>1, <1>8
    <2> HIDE DEF i
    <2>2. off[i] \in Nat /\ off[i + 1] \in Nat /\ off[L + 1] \in Nat
      BY <1>2, <2>1
    <2>3. trk[i].l.b \in Nat \ {0} /\ off[i + 1] = off[i] + trk[i].l.b
      BY <1>1, <2>1
    <2>4. trk[i].l.b \in Nat /\ trk[i].l.b > 0 /\ T \in Nat
      BY <1>4, <2>2, <2>3
    <2> QED BY <2>1, <2>2, <2>3, <2>4 DEF i
  <1>11. T > 0
    <2>1. L \in 1..L /\ off[L + 1] = off[L] + trk[L].l.b /\ trk[L].l.b \in Nat \ {0} /\ off[L] \in Nat
      BY <1>1, <1>2
    <2> QED BY <1>4, <2>1
  <1> HIDE DEF b
  <1>12. At(p + 1) = At(p) + b
    <2> DEFINE x == d * T
    <2>1. x \in Int
      BY <1>8, <1>10, SMT
    <2>2. CASE e = L - 1
      <3>1. (d + 1) * T = x + T
        BY <1>8, <1>10, SMT
      <3>2. At(p + 1) = (d + 1) * T + off[1]
        BY <1>6, <1>9, <2>2
      <3>3. T = off[e + 1] + b
        <4>1. (e + 1) + 1 = L + 1
          BY <1>1, <2>2
        <4> QED BY <1>4, <1>10, <4>1
      <3>4. At(p) = x + off[e + 1] /\ off[1] = 0
        BY <1>1, <1>6
      <3> DEFINE o == off[e + 1]
                 f == off[1]
                 y == (d + 1) * T
      <3>5. y = x + T /\ At(p + 1) = y + f /\ T = o + b /\ At(p) = x + o /\ f = 0
        BY <3>1, <3>2, <3>3, <3>4
      <3>6. o \in Int /\ T \in Int /\ b \in Int /\ x \in Int
        BY <1>10, <2>1
      <3> HIDE DEF x, o, f, y
      <3> QED BY <3>5, <3>6
    <2>3. CASE e # L - 1
      <3>1. At(p + 1) = x + off[(e + 1) + 1] /\ At(p) = x + off[e + 1]
        BY <1>6, <1>9, <2>3
      <3> HIDE DEF x
      <3> QED BY <1>10, <2>1, <3>1
    <2> QED BY <2>2, <2>3
  <1>13. Under(p + 1).l.b = b
    BY <1>7 DEF b
  <1>14. \E k \in Int : At(p) = k * T + off[e + 1]
    BY <1>6, <1>8
  <1>15. Place(p + 1) = e + 1
    BY <1>6
  <1> QED BY <1>10, <1>11, <1>12, <1>13, <1>14, <1>15 DEF L, off, T

(* So many bits after field q has passed, the field starts that is next after p.     *)
LEMMA LiesOf ==
    ASSUME OnTrack, NEW p \in Nat, NEW q \in Nat, q > 0, NEW bits \in Int,
           At(p) = At(q) + bits
    PROVE  LiesAt(Laid[fmt], Place(q), bits, Place(p + 1))
  <1> DEFINE off == Laid[fmt].off
             T == TrackBits
             o == off[Place(p + 1)]
             m == off[Place(q) + 1]
  <1>1. T \in Nat /\ T > 0 /\ o \in Nat /\ \E k \in Int : At(p) = k * T + o
    BY TurnIs
  <1>2. /\ off[Place((q - 1) + 1)] \in Nat /\ off[Place((q - 1) + 1) + 1] \in Nat
        /\ off[Place((q - 1) + 1) + 1] = off[Place((q - 1) + 1)] + Under((q - 1) + 1).l.b
        /\ \E k \in Int : At(q - 1) = k * T + off[Place((q - 1) + 1)]
        /\ Under((q - 1) + 1).l.b \in Nat /\ At((q - 1) + 1) = At(q - 1) + Under((q - 1) + 1).l.b
    <2>1. q - 1 \in Nat
      OBVIOUS
    <2> HIDE DEF off, T
    <2> QED BY <2>1, TurnIs DEF off, T
  <1>3. (q - 1) + 1 = q
    OBVIOUS
  <1> DEFINE w == off[Place(q)]
             b == Under(q).l.b
  <1>4. /\ w \in Nat /\ m \in Nat /\ m = w + b
        /\ \E k \in Int : At(q - 1) = k * T + w
        /\ b \in Nat /\ At(q) = At(q - 1) + b
    BY <1>2, <1>3
  <1>5. LiesAt(Laid[fmt], Place(q), bits, Place(p + 1)) <=> (o - m - bits) % T = 0
    BY Zenon DEF LiesAt, TrackBits, Offset, Length, Track
  <1>6. At(q) \in Int /\ At(p) \in Int /\ At(q - 1) \in Int
    <2>1. q - 1 \in Nat
      OBVIOUS
    <2> QED BY <2>1, TrackIs
  <1> HIDE DEF off, T, o, m, w, b
  <1>7. PICK i \in Int : At(p) = i * T + o
    BY <1>1
  <1>8. PICK j \in Int : At(q - 1) = j * T + w
    BY <1>4
  <1> DEFINE x == i * T
             y == j * T
  <1>9. x \in Int /\ y \in Int /\ (j - i) * T = y - x
    BY <1>1, SMT
  <1>10. At(p) = x + o /\ At(q - 1) = y + w
    BY <1>7, <1>8
  <1> HIDE DEF x, y
  <1>11. o - m - bits = y - x
    <2>1. x \in Int /\ y \in Int
      BY <1>9
    <2> DEFINE u == At(q - 1)
               v == At(q)
               z == At(p)
    <2>2. v = u + b /\ m = w + b /\ w \in Int /\ m \in Int /\ o \in Int /\ b \in Int
      BY <1>1, <1>4
    <2>3. z = x + o /\ u = y + w /\ z = v + bits /\ u \in Int /\ v \in Int /\ z \in Int
      BY <1>6, <1>10
    <2> HIDE DEF u, v, z
    <2> QED BY <2>1, <2>2, <2>3
  <1>12. ((j - i) * T) % T = 0
    BY <1>1, MultipleIs
  <1> QED BY <1>5, <1>9, <1>11, <1>12

-----------------------------------------------------------------------------
(* Running sums: a recursive function.                                               *)

SumsFrom(a, N, s) == s = [n \in 0..N |-> IF n = 0 THEN 0 ELSE s[n - 1] + a[n]]

LEMMA SumsExist ==
    ASSUME NEW a, NEW N \in Nat
    PROVE  \E s : SumsFrom(a, N, s)
  <1> DEFINE Bad == {n \in Nat : ~\E s : SumsFrom(a, n, s)}
  <1> SUFFICES ASSUME Bad # {} PROVE FALSE
    OBVIOUS
  <1>1. Min(Bad) \in Bad /\ \A x \in Bad : Min(Bad) <= x
    <2>1. Bad \in SUBSET Nat
      OBVIOUS
    <2> HIDE DEF Bad
    <2> QED BY <2>1, LeastExists
  <1>2. PICK n \in Bad : \A x \in Bad : n <= x
    BY <1>1
  <1>3. n \in Nat /\ ~\E s : SumsFrom(a, n, s)
    BY <1>2
  <1>4. CASE n = 0
    <2> DEFINE s == [k \in 0..0 |-> 0]
    <2>1. SumsFrom(a, 0, s)
      BY DEF SumsFrom
    <2> QED BY <1>3, <1>4, <2>1
  <1>5. CASE n # 0
    <2>1. n - 1 \in Nat /\ n - 1 \notin Bad
      BY <1>2, <1>3, <1>5
    <2>2. PICK g : SumsFrom(a, n - 1, g)
      BY <2>1
    <2> DEFINE s == [k \in 0..n |-> IF k = n THEN g[n - 1] + a[n] ELSE g[k]]
    <2>3. \A k \in 0..n : s[k] = IF k = 0 THEN 0 ELSE s[k - 1] + a[k]
      BY <1>3, <1>5, <2>2 DEF SumsFrom
    <2>4. s = [k \in 0..n |-> IF k = 0 THEN 0 ELSE s[k - 1] + a[k]]
      <3>1. s = [k \in 0..n |-> s[k]]
        OBVIOUS
      <3> HIDE DEF s
      <3> QED BY <2>3, <3>1
    <2>5. SumsFrom(a, n, s)
      <3> HIDE DEF s
      <3> QED BY <2>4 DEF SumsFrom
    <2> QED BY <1>3, <2>5
  <1> QED BY <1>4, <1>5

LEMMA RunningSumsIs ==
    ASSUME NEW a, NEW N \in Nat
    PROVE  /\ RunningSums(a, N)[0] = 0
           /\ \A n \in 1..N : RunningSums(a, N)[n] = RunningSums(a, N)[n - 1] + a[n]
  <1> DEFINE s == RunningSums(a, N)
  <1>1. \E g : g = [n \in 0..N |-> IF n = 0 THEN 0 ELSE g[n - 1] + a[n]]
    <2>1. \E g : SumsFrom(a, N, g)
      BY SumsExist
    <2> QED BY <2>1, Zenon DEF SumsFrom
  <1>2. s = [n \in 0..N |-> IF n = 0 THEN 0 ELSE s[n - 1] + a[n]]
    BY <1>1, Zenon DEF RunningSums
  <1> HIDE DEF s
  <1>3. s[0] = 0 /\ \A n \in 1..N : s[n] = s[n - 1] + a[n]
    BY <1>2
  <1> QED BY <1>3 DEF s

LEMMA RunningSumsNat ==
    ASSUME NEW a, NEW N \in Nat, \A n \in 1..N : a[n] \in Nat
    PROVE  \A n \in 0..N : RunningSums(a, N)[n] \in Nat
  <1> DEFINE s == RunningSums(a, N)
             Bad == {n \in 0..N : s[n] \notin Nat}
  <1>1. s[0] = 0 /\ \A n \in 1..N : s[n] = s[n - 1] + a[n]
    BY RunningSumsIs
  <1> HIDE DEF s
  <1> SUFFICES ASSUME Bad # {} PROVE FALSE
    BY DEF s
  <1>2. Min(Bad) \in Bad /\ \A x \in Bad : Min(Bad) <= x
    <2>1. Bad \in SUBSET Nat
      OBVIOUS
    <2> HIDE DEF Bad
    <2> QED BY <2>1, LeastExists
  <1>3. PICK n \in Bad : \A x \in Bad : n <= x
    BY <1>2
  <1>4. n \in 0..N /\ s[n] \notin Nat /\ n # 0
    BY <1>1, <1>3
  <1>5. n - 1 \in 0..N /\ n - 1 \notin Bad /\ n \in 1..N
    BY <1>3, <1>4
  <1>6. s[n - 1] \in Nat
    BY <1>5
  <1> HIDE DEF Bad
  <1> QED BY <1>1, <1>4, <1>5, <1>6

LEMMA PastIs ==
    ASSUME OnTrack, NEW p \in 0..Limit, NEW bit \in Int
    PROVE  /\ Past(p, bit) \in p..Limit
           /\ Past(p, bit) = Limit \/ At(Past(p, bit)) >= bit
  <1> DEFINE I == {q \in p..Limit : q = Limit \/ At(q) >= bit}
             m == Min(I)
  <1>1. Limit \in Nat /\ \A q \in Nat : At(q) \in Int
    BY TrackIs
  <1>2. m \in I /\ \A i \in I : m <= i
    <2>1. I \in SUBSET Nat /\ Limit \in I
      BY <1>1
    <2> HIDE DEF I
    <2> QED BY <2>1, LeastExists
  <1>3. m \in p..Limit /\ (m = Limit \/ At(m) >= bit)
    BY <1>2
  <1>4. m = p \/ At(m - 1) < bit
    <2> SUFFICES ASSUME m # p PROVE At(m - 1) < bit
      OBVIOUS
    <2>1. m - 1 \in p..Limit /\ m - 1 \notin I /\ At(m - 1) \in Int
      <3>1. m - 1 \in p..Limit /\ ~(m <= m - 1) /\ m - 1 \in Nat
        <4> HIDE DEF m
        <4> QED BY <1>1, <1>3
      <3> HIDE DEF m, I
      <3> QED BY <1>1, <1>2, <3>1
    <2> HIDE DEF m
    <2> QED BY <2>1
  <1> HIDE DEF m, I
  <1>5. \E q \in p..Limit : /\ q = Limit \/ At(q) >= bit
                            /\ q = p \/ At(q - 1) < bit
    BY <1>3, <1>4
  <1> QED BY <1>5 DEF Past

-----------------------------------------------------------------------------
(* Where the next mark ends: a recursive function that looks ahead. *)

Leaps(m) == \A i \in 1..Length : m.hop[i] \in 0..Length

MarkAfter(m, next, q) ==
    LET d == m.hop[Place(q)] IN
    IF d = 0 \/ q + d > Limit THEN Limit + 1
    ELSE IF GoodMark(q + d, m) THEN q + d ELSE next[q + d]
MarksFrom(m, n, next) == next = [q \in n..Limit |-> MarkAfter(m, next, q)]

LEMMA LeapIs ==
    ASSUME OnTrack, NEW m, Leaps(m), NEW q \in Nat
    PROVE  m.hop[Place(q)] \in Nat
  <1>1. Place(q) \in 1..Length /\ Length \in Nat
    BY TrackIs
  <1> QED BY <1>1 DEF Leaps

LEMMA MarksExist ==
    ASSUME OnTrack, NEW m, Leaps(m)
    PROVE  \E next : MarksFrom(m, 0, next)
  <1> DEFINE Bad == {k \in 0..Limit : ~\E next : MarksFrom(m, Limit - k, next)}
  <1>0. Limit \in Nat
    BY TrackIs
  <1>1. Bad = {}
    <2> SUFFICES ASSUME Bad # {} PROVE FALSE
      OBVIOUS
    <2>1. Min(Bad) \in Bad /\ \A x \in Bad : Min(Bad) <= x
      <3>1. Bad \in SUBSET Nat
        BY <1>0
      <3> HIDE DEF Bad
      <3> QED BY <3>1, LeastExists
    <2>2. PICK k \in Bad : \A x \in Bad : k <= x
      BY <2>1
    <2> DEFINE n == Limit - k
    <2>3. k \in 0..Limit /\ n \in 0..Limit /\ ~\E next : MarksFrom(m, n, next)
      BY <1>0, <2>2
    <2>4. PICK g : n < Limit => MarksFrom(m, n + 1, g)
      <3>1. CASE n < Limit
        <4>1. k - 1 \in 0..Limit /\ k - 1 \notin Bad
          BY <1>0, <2>2, <2>3, <3>1
        <4>2. \E next : MarksFrom(m, Limit - (k - 1), next)
          BY <4>1
        <4>3. Limit - (k - 1) = n + 1
          BY <1>0, <2>3
        <4> QED BY <4>2, <4>3
      <3>2. CASE ~(n < Limit)
        BY <3>2
      <3> QED BY <3>1, <3>2
    <2> DEFINE f == [q \in n..Limit |-> IF q = n THEN MarkAfter(m, g, n) ELSE g[q]]
    <2> HIDE DEF n
    <2>5. \A q \in n..Limit : f[q] = MarkAfter(m, f, q)
      <3>1. \A q \in (n + 1)..Limit : g[q] = MarkAfter(m, g, q)
        <4>1. CASE n < Limit
          <5>1. g = [q \in (n + 1)..Limit |-> MarkAfter(m, g, q)]
            BY <2>4, <4>1 DEF MarksFrom
          <5> HIDE DEF MarkAfter
          <5> QED BY <5>1
        <4>2. CASE ~(n < Limit)
          BY <1>0, <2>3, <4>2
        <4> QED BY <4>1, <4>2
      <3>2. ASSUME NEW q \in n..Limit
            PROVE  f[q] = MarkAfter(m, g, q)
        <4>1. CASE q = n
          BY <4>1
        <4>2. CASE q # n
          BY <1>0, <2>3, <3>1, <4>2
        <4> QED BY <4>1, <4>2
      <3>3. ASSUME NEW q \in n..Limit
            PROVE  MarkAfter(m, g, q) = MarkAfter(m, f, q)
        <4> DEFINE d == m.hop[Place(q)]
        <4>1. d \in Nat
          BY <1>0, <2>3, LeapIs
        <4>2. ASSUME d # 0, ~(q + d > Limit) PROVE g[q + d] = f[q + d]
          <5>1. q + d \in n..Limit /\ q + d # n
            <6> HIDE DEF d
            <6> QED BY <1>0, <2>3, <4>1, <4>2
          <5> HIDE DEF d
          <5> QED BY <5>1
        <4> HIDE DEF f
        <4> QED BY <4>2, Zenon DEF MarkAfter
      <3> HIDE DEF f
      <3> QED BY <3>2, <3>3
    <2>6. f = [q \in n..Limit |-> MarkAfter(m, f, q)]
      <3>1. f = [q \in n..Limit |-> f[q]]
        OBVIOUS
      <3> HIDE DEF f
      <3> QED BY <2>5, <3>1
    <2>7. MarksFrom(m, n, f)
      <3> HIDE DEF f
      <3> QED BY <2>6 DEF MarksFrom
    <2> QED BY <2>3, <2>7
  <1>2. Limit \in 0..Limit /\ Limit \notin Bad
    BY <1>0, <1>1
  <1>3. \E next : MarksFrom(m, Limit - Limit, next)
    BY <1>2
  <1>4. Limit - Limit = 0
    BY <1>0
  <1> QED BY <1>3, <1>4

LEMMA NextMarksIs ==
    ASSUME OnTrack, NEW m, Leaps(m)
    PROVE  \A q \in 0..Limit : NextMarks(m)[q] = MarkAfter(m, NextMarks(m), q)
  <1>1. \E next : next = [q \in 0..Limit |->
            LET d == m.hop[Place(q)] IN
            IF d = 0 \/ q + d > Limit THEN Limit + 1
            ELSE IF GoodMark(q + d, m) THEN q + d ELSE next[q + d]]
    BY MarksExist, Zenon DEF MarksFrom, MarkAfter
  <1>2. NextMarks(m) = [q \in 0..Limit |->
            LET d == m.hop[Place(q)] IN
            IF d = 0 \/ q + d > Limit THEN Limit + 1
            ELSE IF GoodMark(q + d, m) THEN q + d ELSE NextMarks(m)[q + d]]
    BY <1>1, Zenon DEF NextMarks
  <1>3. NextMarks(m) = [q \in 0..Limit |-> MarkAfter(m, NextMarks(m), q)]
    BY <1>2, Zenon DEF MarkAfter
  <1> HIDE DEF NextMarks, MarkAfter
  <1> QED BY <1>3

(* The next mark ends ahead, or there is none before the source ends. *)
EndsThere(m, q) == q <= Limit => m.ends[Place(q)] # {}

LEMMA NextMarkIs ==
    ASSUME OnTrack, NEW m, Leaps(m), NEW p \in 0..Limit
    PROVE  /\ NextMark(p, m) \in Nat /\ NextMark(p, m) > p
           /\ NextMark(p, m) <= Limit + 1 /\ EndsThere(m, NextMark(p, m))
  <1> DEFINE next == NextMarks(m)
             Bad == {k \in 0..Limit : ~(/\ next[Limit - k] \in Nat /\ next[Limit - k] > Limit - k
                                        /\ next[Limit - k] <= Limit + 1
                                        /\ EndsThere(m, next[Limit - k]))}
  <1>0. Limit \in Nat
    BY TrackIs
  <1>1. \A q \in 0..Limit : next[q] = MarkAfter(m, next, q)
    BY NextMarksIs
  <1> HIDE DEF next
  <1>2. Bad = {}
    <2> SUFFICES ASSUME Bad # {} PROVE FALSE
      OBVIOUS
    <2>1. Min(Bad) \in Bad /\ \A x \in Bad : Min(Bad) <= x
      <3>1. Bad \in SUBSET Nat
        BY <1>0
      <3> HIDE DEF Bad
      <3> QED BY <3>1, LeastExists
    <2>2. PICK k \in Bad : \A x \in Bad : k <= x
      BY <2>1
    <2> DEFINE q == Limit - k
               d == m.hop[Place(q)]
    <2>3. k \in 0..Limit /\ q \in 0..Limit
          /\ ~(next[q] \in Nat /\ next[q] > q /\ next[q] <= Limit + 1 /\ EndsThere(m, next[q]))
      BY <1>0, <2>2
    <2>4. d \in Nat
      BY <1>0, <2>3, LeapIs
    <2>5. next[q] = IF d = 0 \/ q + d > Limit THEN Limit + 1
                    ELSE IF GoodMark(q + d, m) THEN q + d ELSE next[q + d]
      BY <1>1, <2>3, Zenon DEF MarkAfter
    <2>6. ASSUME d # 0, ~(q + d > Limit)
          PROVE  /\ next[q + d] \in Nat /\ next[q + d] > q + d /\ next[q + d] <= Limit + 1
                 /\ EndsThere(m, next[q + d])
      <3>1. k - d \in 0..Limit /\ k - d < k /\ Limit - (k - d) = q + d
        <4> HIDE DEF d
        <4> QED BY <1>0, <2>3, <2>4, <2>6
      <3>2. k - d \notin Bad
        <4> HIDE DEF d, Bad
        <4> QED BY <2>2, <2>3, <3>1, <1>0
      <3> HIDE DEF d, q
      <3> QED BY <3>1, <3>2
    <2>7. GoodMark(q + d, m) => EndsThere(m, q + d)
      <3> HIDE DEF d, q
      <3> QED BY Zenon DEF GoodMark, EndsThere
    <2>8. EndsThere(m, Limit + 1)
      BY <1>0 DEF EndsThere
    <2> HIDE DEF d, q, Bad
    <2> QED BY <1>0, <2>3, <2>4, <2>5, <2>6, <2>7, <2>8
  <1>3. Limit - p \in 0..Limit /\ Limit - p \notin Bad /\ Limit - (Limit - p) = p
    <2> HIDE DEF Bad
    <2> QED BY <1>0, <1>2
  <1> QED BY <1>3 DEF NextMark, next

-----------------------------------------------------------------------------
(* What a group reads: a recursive function that appends one field at a time. *)

Reads == {r \in [p : 0..Limit, b : Int, lost : BOOLEAN, ok : BOOLEAN] : r.lost \/ r.b = At(r.p)}

(* r comes after the read was, of a field with bits, or at the end of the source. *)
Onward(was, r) ==
    /\ r.p >= was.p /\ (was.lost => r.lost)
    /\ was.lost \/ r.p > was.p \/ (r.p = Limit /\ r.lost)

LEMMA NextReadIs ==
    ASSUME OnTrack, NEW was \in Reads, NEW x, x.l.b \in Nat \ {0}
    PROVE  NextRead(was, x) \in Reads /\ Onward(was, NextRead(was, x))
  <1> DEFINE to == was.b + x.l.b
             q == Past(was.p, to)
             r == NextRead(was, x)
  <1>1. /\ was.p \in 0..Limit /\ was.b \in Int /\ was.lost \in BOOLEAN
        /\ was.lost \/ was.b = At(was.p)
    BY DEF Reads
  <1>2. /\ Limit \in Nat /\ \A n \in Nat : At(n) \in Int
    BY TrackIs
  <1>3. to \in Int /\ to > was.b
    BY <1>1
  <1> HIDE DEF to
  <1>4. q \in was.p..Limit /\ (q = Limit \/ At(q) >= to)
    BY <1>1, <1>3, PastIs
  <1> HIDE DEF q
  <1>5. CASE ~was.lost /\ InStep(was.p, x)
    <2>1. was.p < Limit
      BY <1>5 DEF InStep
    <2>2. r = [p |-> was.p + 1, b |-> At(was.p + 1), lost |-> FALSE, ok |-> Readable(was.p + 1)]
      BY <1>5 DEF NextRead
    <2>3. was.p + 1 \in 0..Limit /\ At(was.p + 1) \in Int
      BY <1>1, <1>2, <2>1
    <2>4. Readable(was.p + 1) \in BOOLEAN
      BY DEF Readable
    <2> DEFINE a == At(was.p + 1)
               k == Readable(was.p + 1)
               n == was.p + 1
    <2>5. r.p = n /\ r.b = At(r.p) /\ r.lost = FALSE /\ r \in [p : 0..Limit, b : Int, lost : BOOLEAN, ok : BOOLEAN]
      <3>1. a \in Int /\ k \in BOOLEAN /\ n \in 0..Limit /\ a = At(n)
        BY <2>3, <2>4
      <3>2. r = [p |-> n, b |-> a, lost |-> FALSE, ok |-> k]
        BY <2>2
      <3> HIDE DEF a, k, n, r
      <3> QED BY <3>1, <3>2
    <2>6. r \in Reads
      <3> HIDE DEF r, n
      <3> QED BY <2>5 DEF Reads
    <2>7. Onward(was, r)
      <3>1. r.p = was.p + 1 /\ r.p > was.p /\ ~was.lost
        <4> HIDE DEF r
        <4>1. r.p = was.p + 1
          BY <2>5
        <4> QED BY <1>1, <1>5, <4>1
      <3> HIDE DEF r
      <3> QED BY <1>1, <3>1 DEF Onward
    <2> QED BY <2>6, <2>7
  <1>6. CASE ~(~was.lost /\ InStep(was.p, x))
    <2>1. r = [p |-> q, b |-> to, lost |-> was.lost \/ At(q) # to, ok |-> FALSE]
      BY <1>6, Zenon DEF NextRead, q, to
    <2> DEFINE gone == was.lost \/ At(q) # to
    <2>2. gone \in BOOLEAN /\ q \in 0..Limit /\ At(q) \in Int /\ (gone \/ to = At(q))
      BY <1>1, <1>2, <1>4
    <2>3. /\ r.p = q /\ r.b = to /\ r.lost = gone
          /\ r \in [p : 0..Limit, b : Int, lost : BOOLEAN, ok : BOOLEAN]
      <3>1. r = [p |-> q, b |-> to, lost |-> gone, ok |-> FALSE]
        BY <2>1
      <3> HIDE DEF gone, r
      <3> QED BY <1>3, <2>2, <3>1
    <2>4. r \in Reads
      <3> HIDE DEF gone, r
      <3> QED BY <2>2, <2>3 DEF Reads
    <2>5. was.lost => gone
      BY DEF gone
    <2>6. was.lost \/ q > was.p \/ (q = Limit /\ gone)
      <3> SUFFICES ASSUME ~was.lost, ~(q > was.p) PROVE q = Limit /\ gone
        OBVIOUS
      <3>1. q = was.p /\ was.b = At(q)
        BY <1>1, <1>4
      <3>2. ~(At(q) >= to) /\ At(q) # to
        BY <1>1, <1>3, <3>1
      <3> QED BY <1>4, <3>2 DEF gone
    <2>7. Onward(was, r)
      <3> HIDE DEF gone, r
      <3> QED BY <1>1, <1>4, <2>3, <2>5, <2>6 DEF Onward
    <2> QED BY <2>4, <2>7
  <1> QED BY <1>5, <1>6

FieldsFrom(p, f, N, at) ==
    at = [j \in 0..N |->
            IF j = 0 THEN <<[p |-> p, b |-> At(p), lost |-> FALSE, ok |-> TRUE]>>
            ELSE Further(at[j - 1], j, f[j])]

LEMMA FieldsExist ==
    ASSUME NEW p, NEW f, NEW N \in Nat
    PROVE  \E at : FieldsFrom(p, f, N, at)
  <1> DEFINE one == <<[p |-> p, b |-> At(p), lost |-> FALSE, ok |-> TRUE]>>
             Bad == {n \in Nat : ~\E at : FieldsFrom(p, f, n, at)}
  <1> SUFFICES ASSUME Bad # {} PROVE FALSE
    OBVIOUS
  <1>1. Min(Bad) \in Bad /\ \A x \in Bad : Min(Bad) <= x
    <2>1. Bad \in SUBSET Nat
      OBVIOUS
    <2> HIDE DEF Bad
    <2> QED BY <2>1, LeastExists
  <1>2. PICK n \in Bad : \A x \in Bad : n <= x
    BY <1>1
  <1>3. n \in Nat /\ ~\E at : FieldsFrom(p, f, n, at)
    BY <1>2
  <1>4. PICK g : n > 0 => FieldsFrom(p, f, n - 1, g)
    <2>1. CASE n > 0
      <3>1. n - 1 \in Nat /\ n - 1 \notin Bad
        BY <1>2, <1>3, <2>1
      <3> QED BY <3>1
    <2>2. CASE ~(n > 0)
      BY <2>2
    <2> QED BY <2>1, <2>2
  <1> DEFINE Step(at, j) == IF j = 0 THEN one ELSE Further(at[j - 1], j, f[j])
             new == [j \in 0..n |-> IF j = n THEN Step(g, n) ELSE g[j]]
  <1>5. \A j \in 0..n : new[j] = Step(new, j)
    <2>1. \A j \in 0..(n - 1) : g[j] = Step(g, j)
      <3>1. CASE n > 0
        <4>1. g = [j \in 0..(n - 1) |-> Step(g, j)]
          BY <1>4, <3>1, Zenon DEF FieldsFrom
        <4> HIDE DEF Step
        <4> QED BY <4>1
      <3>2. CASE ~(n > 0)
        BY <1>3, <3>2
      <3> QED BY <3>1, <3>2
    <2>2. ASSUME NEW j \in 0..n
          PROVE  new[j] = Step(g, j)
      <3> HIDE DEF Step
      <3>1. CASE j = n
        BY <3>1
      <3>2. CASE j # n
        BY <1>3, <2>1, <3>2
      <3> QED BY <3>1, <3>2
    <2>3. ASSUME NEW j \in 0..n
          PROVE  Step(g, j) = Step(new, j)
      <3>1. CASE j = 0
        BY <3>1
      <3>2. CASE j # 0
        <4>1. j - 1 \in 0..n /\ j - 1 # n
          BY <1>3, <3>2
        <4>2. new[j - 1] = g[j - 1]
          <5> HIDE DEF Step
          <5> QED BY <4>1
        <4> HIDE DEF new
        <4> QED BY <3>2, <4>2
      <3> QED BY <3>1, <3>2
    <2> HIDE DEF Step, new
    <2> QED BY <2>2, <2>3
  <1>6. new = [j \in 0..n |-> Step(new, j)]
    <2>1. new = [j \in 0..n |-> new[j]]
      OBVIOUS
    <2> HIDE DEF Step, new
    <2> QED BY <1>5, <2>1
  <1>7. FieldsFrom(p, f, n, new)
    <2> HIDE DEF new
    <2> QED BY <1>6, Zenon DEF FieldsFrom
  <1> QED BY <1>3, <1>7

LEMMA FirstFieldsIs ==
    ASSUME NEW p, NEW f, Len(f) \in Nat
    PROVE  /\ FirstFields(p, f)[0] = <<[p |-> p, b |-> At(p), lost |-> FALSE, ok |-> TRUE]>>
           /\ \A j \in 1..Len(f) :
                FirstFields(p, f)[j] = Further(FirstFields(p, f)[j - 1], j, f[j])
  <1> DEFINE one == <<[p |-> p, b |-> At(p), lost |-> FALSE, ok |-> TRUE]>>
             at == FirstFields(p, f)
             N == Len(f)
  <1>1. \E g : g = [j \in 0..Len(f) |->
            IF j = 0 THEN <<[p |-> p, b |-> At(p), lost |-> FALSE, ok |-> TRUE]>>
            ELSE Further(g[j - 1], j, f[j])]
    <2>1. \E g : FieldsFrom(p, f, Len(f), g)
      BY FieldsExist
    <2> QED BY <2>1, Zenon DEF FieldsFrom
  <1>2. at = [j \in 0..N |-> IF j = 0 THEN one ELSE Further(at[j - 1], j, f[j])]
    BY <1>1, Zenon DEF FirstFields
  <1> HIDE DEF at, one, N
  <1>3. N \in Nat
    BY DEF N
  <1>4. at[0] = one /\ \A j \in 1..N : at[j] = Further(at[j - 1], j, f[j])
    BY <1>2, <1>3
  <1> QED BY <1>4 DEF at, one, N

(* The fields of a group one by one.  z[n] is how the one before the n-th is read.    *)
ReadsStep(p, f, z) ==
    /\ z \in Seq(Reads) /\ Len(z) = Len(f) + 1
    /\ z[1] = [p |-> p, b |-> At(p), lost |-> FALSE, ok |-> TRUE]
    /\ \A n \in 1..Len(f) : z[n + 1] = NextRead(z[n], f[n]) /\ Reading(p, f)[n] = z[n + 1]

LEMMA ReadingSteps ==
    ASSUME OnTrack, NEW p \in 0..Limit, NEW f, Fields(f)
    PROVE  \E z : ReadsStep(p, f, z)
  <1> DEFINE at == FirstFields(p, f)
             N == Len(f)
             one == [p |-> p, b |-> At(p), lost |-> FALSE, ok |-> TRUE]
             Fine(j) == /\ at[j] \in Seq(Reads) /\ Len(at[j]) = j + 1 /\ at[j][1] = one
                        /\ \A n \in 1..j : at[j][n + 1] = NextRead(at[j][n], f[n])
  <1>1. N \in Nat /\ \A j \in 1..N : f[j].l.b \in Nat \ {0}
    BY DEF Fields
  <1>2. at[0] = <<one>> /\ \A j \in 1..N : at[j] = Further(at[j - 1], j, f[j])
    BY <1>1, FirstFieldsIs
  <1>3. Limit \in Nat /\ At(p) \in Int
    BY TrackIs
  <1>4. one \in Reads
    <2> DEFINE a == At(p)
    <2>1. a \in Int /\ a = At(p)
      BY <1>3
    <2> HIDE DEF a
    <2>2. one = [p |-> p, b |-> a, lost |-> FALSE, ok |-> TRUE]
      BY <2>1
    <2> HIDE DEF one
    <2> QED BY <2>1, <2>2 DEF Reads
  <1> HIDE DEF at, one, N
  <1>5. Fine(0)
    BY <1>2, <1>4
  <1>6. ASSUME NEW j \in 1..N, Fine(j - 1)
        PROVE  Fine(j)
    <2> DEFINE was == at[j - 1]
               last == was[j]
               r == NextRead(last, f[j])
    <2>1. /\ was \in Seq(Reads) /\ Len(was) = j /\ was[1] = one
          /\ \A n \in 1..(j - 1) : was[n + 1] = NextRead(was[n], f[n])
      BY <1>1, <1>6
    <2>2. last \in Reads
      BY <1>1, <2>1
    <2>3. at[j] = Append(was, r)
      BY <1>2 DEF Further
    <2>4. r \in Reads
      BY <1>1, <2>2, NextReadIs
    <2>5. r = NextRead(was[j], f[j])
      BY Zenon
    <2> HIDE DEF r, last, was
    <2>6. /\ at[j] \in Seq(Reads) /\ Len(at[j]) = j + 1 /\ at[j][1] = one
          /\ at[j][j + 1] = r /\ \A n \in 1..j : at[j][n] = was[n]
      BY <1>1, <2>1, <2>3, <2>4
    <2>7. ASSUME NEW n \in 1..j
          PROVE  at[j][n + 1] = NextRead(at[j][n], f[n])
      <3>1. CASE n = j
        BY <2>5, <2>6, <3>1, Zenon
      <3>2. CASE n # j
        <4>1. n \in 1..(j - 1) /\ n + 1 \in 1..j
          BY <1>1, <3>2
        <4> QED BY <2>1, <2>6, <4>1
      <3> QED BY <3>1, <3>2
    <2> QED BY <2>6, <2>7
  <1>7. \A j \in 0..N : Fine(j)
    <2> DEFINE Bad == {j \in 0..N : ~Fine(j)}
    <2> HIDE DEF Fine
    <2> SUFFICES ASSUME Bad # {} PROVE FALSE
      OBVIOUS
    <2>1. Min(Bad) \in Bad /\ \A x \in Bad : Min(Bad) <= x
      <3>1. Bad \in SUBSET Nat
        BY <1>1
      <3> HIDE DEF Bad
      <3> QED BY <3>1, LeastExists
    <2>2. PICK j \in Bad : \A x \in Bad : j <= x
      BY <2>1
    <2>3. j \in 0..N /\ ~Fine(j) /\ j # 0
      BY <1>5, <2>2
    <2>4. j - 1 \in 0..N /\ j - 1 \notin Bad
      BY <1>1, <2>2, <2>3
    <2>5. Fine(j - 1) /\ j \in 1..N
      BY <1>1, <2>3, <2>4
    <2> QED BY <1>6, <2>3, <2>5
  <1> DEFINE z == at[N]
  <1>8. /\ z \in Seq(Reads) /\ Len(z) = N + 1 /\ z[1] = one
        /\ \A n \in 1..N : z[n + 1] = NextRead(z[n], f[n])
    BY <1>1, <1>7
  <1> HIDE DEF z
  <1>9. \A n \in 1..N : Tail(z)[n] = z[n + 1]
    BY <1>1, <1>8
  <1>10. Reading(p, f) = Tail(z)
    BY DEF Reading, at, N, z
  <1>11. ReadsStep(p, f, z)
    BY <1>8, <1>9, <1>10, Zenon DEF ReadsStep, one, N
  <1> QED BY <1>11

(* Reading a group takes more of the source, or comes to its end in the middle of a field. *)
ReadsOnward(p, f) ==
    LET r == Reading(p, f)[Len(f)]
    IN  r.p \in p..Limit /\ (r.p > p \/ (r.p = Limit /\ r.lost))

LEMMA ReadingIs ==
    ASSUME OnTrack, NEW p \in 0..Limit, NEW f, Fields(f), Len(f) > 0
    PROVE  ReadsOnward(p, f)
  <1> DEFINE N == Len(f)
             Far(r) == r.p >= p /\ (r.p > p \/ (r.p = Limit /\ r.lost))
  <1>1. N \in Nat /\ N > 0 /\ \A j \in 1..N : f[j].l.b \in Nat \ {0}
    BY DEF Fields
  <1>2. PICK z : ReadsStep(p, f, z)
    BY ReadingSteps
  <1>3. /\ z \in Seq(Reads) /\ Len(z) = N + 1
        /\ z[1] = [p |-> p, b |-> At(p), lost |-> FALSE, ok |-> TRUE]
        /\ \A n \in 1..N : z[n + 1] = NextRead(z[n], f[n]) /\ Reading(p, f)[n] = z[n + 1]
    BY <1>2, Zenon DEF ReadsStep
  <1>4. Limit \in Nat /\ z[1].p = p /\ ~z[1].lost
    BY <1>3, TrackIs
  <1> HIDE DEF N, Far
  <1>5. ASSUME NEW j \in 1..N
        PROVE  z[j] \in Reads /\ z[j + 1] \in Reads /\ Onward(z[j], z[j + 1])
    <2>1. z[j] \in Reads
      BY <1>1, <1>3
    <2>2. z[j + 1] = NextRead(z[j], f[j]) /\ f[j].l.b \in Nat \ {0}
      BY <1>1, <1>3
    <2> QED BY <2>1, <2>2, NextReadIs
  <1>6. ASSUME NEW j \in 1..N, j = 1 \/ Far(z[j])
        PROVE  Far(z[j + 1])
    <2>1. Onward(z[j], z[j + 1]) /\ z[j].p \in 0..Limit /\ z[j + 1].p \in 0..Limit
      BY <1>5 DEF Reads
    <2> DEFINE last == z[j]
               r == z[j + 1]
    <2>2. Onward(last, r) /\ last.p \in 0..Limit /\ r.p \in 0..Limit
      BY <2>1
    <2>3. (last.p = p /\ ~last.lost) \/ Far(last)
      BY <1>4, <1>6
    <2> HIDE DEF last, r
    <2>4. Far(r)
      BY <1>4, <2>2, <2>3 DEF Far, Onward
    <2> QED BY <2>4 DEF r
  <1>7. \A j \in 1..N : Far(z[j + 1])
    <2> DEFINE Bad == {j \in 1..N : ~Far(z[j + 1])}
    <2> SUFFICES ASSUME Bad # {} PROVE FALSE
      OBVIOUS
    <2>1. Min(Bad) \in Bad /\ \A x \in Bad : Min(Bad) <= x
      <3>1. Bad \in SUBSET Nat
        BY <1>1
      <3> HIDE DEF Bad
      <3> QED BY <3>1, LeastExists
    <2>2. PICK j \in Bad : \A x \in Bad : j <= x
      BY <2>1
    <2>3. j \in 1..N /\ ~Far(z[j + 1])
      BY <2>2
    <2>4. CASE j = 1
      BY <1>6, <2>3, <2>4
    <2>5. CASE j # 1
      <3>1. j - 1 \in 1..N /\ (j - 1) + 1 = j /\ ~(j <= j - 1)
        BY <1>1, <2>3, <2>5
      <3>2. j - 1 \notin Bad
        <4> HIDE DEF Bad
        <4> QED BY <2>2, <3>1
      <3>3. Far(z[j])
        BY <3>1, <3>2
      <3> QED BY <1>6, <2>3, <3>3
    <2> QED BY <2>4, <2>5
  <1>8. N \in 1..N
    BY <1>1
  <1> DEFINE r == z[N + 1]
  <1>9. Reading(p, f)[N] = r /\ Far(r) /\ r.p \in 0..Limit
    BY <1>3, <1>5, <1>7, <1>8 DEF Reads
  <1> HIDE DEF r
  <1>10. r.p \in p..Limit /\ (r.p > p \/ (r.p = Limit /\ r.lost))
    BY <1>4, <1>9 DEF Far
  <1> QED BY <1>9, <1>10, Zenon DEF ReadsOnward, N

(* A handler that reads no runs is where the lengths of its fields put it; in step,   *)
(* on the field that starts there.                                                    *)
LEMMA NextReadExact ==
    ASSUME OnTrack, NEW was \in Reads, NEW x, x.l.b \in Nat \ {0}, x.k # "fill"
    PROVE  /\ NextRead(was, x).b = was.b + x.l.b
           /\ NextRead(was, x).ok => /\ ~was.lost /\ ~NextRead(was, x).lost
                                     /\ NextRead(was, x).p = was.p + 1
  <1> DEFINE to == was.b + x.l.b
             q == Past(was.p, to)
             r == NextRead(was, x)
  <1>1. /\ was.p \in 0..Limit /\ was.b \in Int /\ was.lost \in BOOLEAN
        /\ was.lost \/ was.b = At(was.p)
    BY DEF Reads
  <1>2. Limit \in Nat
    BY TrackIs
  <1>3. CASE ~was.lost /\ InStep(was.p, x)
    <2>1. Under(was.p + 1).l = x.l
      BY <1>3 DEF InStep
    <2>2. was.p \in Nat
      BY <1>1, <1>2
    <2>3. At(was.p + 1) = At(was.p) + Under(was.p + 1).l.b
      BY <2>2, TurnIs
    <2>4. r = [p |-> was.p + 1, b |-> At(was.p + 1), lost |-> FALSE, ok |-> Readable(was.p + 1)]
      BY <1>3 DEF NextRead
    <2> DEFINE a == At(was.p + 1)
               k == Readable(was.p + 1)
               n == was.p + 1
    <2>5. r.p = n /\ r.b = a /\ r.lost = FALSE
      <3>1. r = [p |-> n, b |-> a, lost |-> FALSE, ok |-> k]
        BY <2>4
      <3> HIDE DEF a, k, n, r
      <3> QED BY <3>1
    <2>6. a = to
      BY <1>1, <1>3, <2>1, <2>3
    <2> HIDE DEF a, r, to
    <2>7. r.b = to /\ ~r.lost /\ r.p = was.p + 1
      BY <2>5, <2>6
    <2> QED BY <1>3, <2>7 DEF r, to
  <1>4. CASE ~(~was.lost /\ InStep(was.p, x))
    <2>1. r = [p |-> q, b |-> to, lost |-> was.lost \/ At(q) # to, ok |-> FALSE]
      BY <1>4, Zenon DEF NextRead, q, to
    <2> DEFINE gone == was.lost \/ At(q) # to
    <2> HIDE DEF q, to
    <2>2. r.b = to /\ ~r.ok
      <3>1. r = [p |-> q, b |-> to, lost |-> gone, ok |-> FALSE]
        BY <2>1
      <3> HIDE DEF gone, r
      <3> QED BY <3>1
    <2> HIDE DEF r
    <2> QED BY <2>2 DEF r, to
  <1> QED BY <1>3, <1>4

LEMMA FieldStartsIs ==
    ASSUME NEW f, Fields(f)
    PROVE  /\ FieldStarts(f)[0] = 0
           /\ \A j \in 1..Len(f) : FieldStarts(f)[j] = FieldStarts(f)[j - 1] + f[j].l.b
           /\ \A j \in 0..Len(f) : FieldStarts(f)[j] \in Nat
  <1> DEFINE N == Len(f)
             a == [j \in 1..N |-> f[j].l.b]
             s == RunningSums(a, N)
  <1>1. N \in Nat /\ \A j \in 1..N : f[j].l.b \in Nat \ {0}
    BY DEF Fields
  <1>2. \A j \in 1..N : a[j] = f[j].l.b
    OBVIOUS
  <1>3. \A j \in 1..N : a[j] \in Nat
    BY <1>1, <1>2
  <1> HIDE DEF N, a
  <1>4. s[0] = 0 /\ \A n \in 1..N : s[n] = s[n - 1] + a[n]
    BY <1>1, RunningSumsIs
  <1>5. \A n \in 0..N : s[n] \in Nat
    BY <1>1, <1>3, RunningSumsNat
  <1>6. FieldStarts(f) = s
    BY Zenon DEF FieldStarts, s, a, N
  <1> HIDE DEF s
  <1>7. \A j \in 1..N : s[j] = s[j - 1] + f[j].l.b
    BY <1>2, <1>4
  <1> QED BY <1>4, <1>5, <1>6, <1>7 DEF N

FieldsInLine(p, f) ==
    /\ \A j \in 1..Len(f) : Reading(p, f)[j].ok =>
          \E m \in 0..Limit : /\ Reading(p, f)[j].p = m + 1 /\ ~Reading(p, f)[j].lost
                              /\ At(m) = At(p) + FieldStarts(f)[j - 1]
    /\ ~Reading(p, f)[Len(f)].lost =>
          At(Reading(p, f)[Len(f)].p) = At(p) + FieldStarts(f)[Len(f)]

LEMMA ReadingInLine ==
    ASSUME OnTrack, NEW p \in 0..Limit, NEW f, Fields(f), Len(f) > 0,
           \A j \in 1..Len(f) : f[j].k # "fill"
    PROVE  FieldsInLine(p, f)
  <1> DEFINE N == Len(f)
             s == FieldStarts(f)
             a == At(p)
  <1>1. N \in Nat /\ N > 0 /\ \A j \in 1..N : f[j].l.b \in Nat \ {0} /\ f[j].k # "fill"
    BY DEF Fields
  <1>2. PICK z : ReadsStep(p, f, z)
    BY ReadingSteps
  <1>3. /\ z \in Seq(Reads) /\ Len(z) = N + 1
        /\ z[1] = [p |-> p, b |-> a, lost |-> FALSE, ok |-> TRUE]
        /\ \A n \in 1..N : z[n + 1] = NextRead(z[n], f[n]) /\ Reading(p, f)[n] = z[n + 1]
    BY <1>2, Zenon DEF ReadsStep
  <1>4. a \in Int /\ Limit \in Nat
    BY TrackIs
  <1>5. s[0] = 0 /\ \A j \in 1..N : s[j] = s[j - 1] + f[j].l.b
    BY FieldStartsIs
  <1>6. \A j \in 0..N : s[j] \in Nat
    BY FieldStartsIs
  <1> HIDE DEF N, s, a
  <1>7. \A j \in 1..(N + 1) : z[j] \in Reads
    BY <1>1, <1>3
  <1>8. ASSUME NEW j \in 1..N
        PROVE  /\ z[j + 1].b = z[j].b + f[j].l.b
               /\ z[j + 1].ok => ~z[j].lost /\ ~z[j + 1].lost /\ z[j + 1].p = z[j].p + 1
    <2>1. z[j + 1] = NextRead(z[j], f[j]) /\ z[j] \in Reads /\ f[j].l.b \in Nat \ {0} /\ f[j].k # "fill"
      BY <1>1, <1>3, <1>7
    <2>2. /\ NextRead(z[j], f[j]).b = z[j].b + f[j].l.b
          /\ NextRead(z[j], f[j]).ok => /\ ~z[j].lost /\ ~NextRead(z[j], f[j]).lost
                                        /\ NextRead(z[j], f[j]).p = z[j].p + 1
      BY <2>1, NextReadExact
    <2> QED BY <2>1, <2>2, Zenon
  <1>9. \A j \in 1..(N + 1) : z[j].b = a + s[j - 1]
    <2> DEFINE Bad == {j \in 1..(N + 1) : z[j].b # a + s[j - 1]}
    <2> SUFFICES ASSUME Bad # {} PROVE FALSE
      OBVIOUS
    <2>1. Min(Bad) \in Bad /\ \A x \in Bad : Min(Bad) <= x
      <3>1. Bad \in SUBSET Nat
        BY <1>1
      <3> HIDE DEF Bad
      <3> QED BY <3>1, LeastExists
    <2>2. PICK j \in Bad : \A x \in Bad : j <= x
      BY <2>1
    <2>3. j \in 1..(N + 1) /\ z[j].b # a + s[j - 1]
      BY <2>2
    <2>4. z[1].b = a
      BY <1>3
    <2>5. j # 1
      <3>1. 1 - 1 = 0 /\ a + 0 = a
        BY <1>4
      <3> QED BY <1>5, <2>3, <2>4, <3>1
    <2> DEFINE i == j - 1
    <2>6. i \in 1..N /\ i \in 1..(N + 1) /\ i + 1 = j /\ ~(j <= i) /\ i - 1 \in 0..N /\ i \in 0..N
      BY <1>1, <2>3, <2>5
    <2>7. i \notin Bad
      <3> HIDE DEF Bad, i
      <3> QED BY <2>2, <2>6
    <2>8. z[i].b = a + s[i - 1]
      <3> HIDE DEF i
      <3> QED BY <2>6, <2>7
    <2>9. z[j].b = z[i].b + f[i].l.b
      <3> HIDE DEF i
      <3> QED BY <1>8, <2>6
    <2>10. s[i] = s[i - 1] + f[i].l.b /\ s[i - 1] \in Nat /\ f[i].l.b \in Nat
      <3> HIDE DEF i
      <3> QED BY <1>1, <1>5, <1>6, <2>6
    <2>11. z[j].b = a + s[i]
      <3> DEFINE x == s[i - 1]
                 y == f[i].l.b
      <3>1. z[j].b = (a + x) + y /\ s[i] = x + y /\ x \in Int /\ y \in Int
        BY <2>8, <2>9, <2>10
      <3> HIDE DEF x, y, i
      <3> QED BY <1>4, <3>1
    <2> QED BY <2>3, <2>11
  <1>10. ASSUME NEW j \in 1..N, Reading(p, f)[j].ok
         PROVE  \E m \in 0..Limit : /\ Reading(p, f)[j].p = m + 1 /\ ~Reading(p, f)[j].lost
                                    /\ At(m) = a + s[j - 1]
    <2>1. Reading(p, f)[j] = z[j + 1] /\ j \in 1..(N + 1)
      BY <1>1, <1>3
    <2>2. z[j + 1].ok => ~z[j].lost /\ ~z[j + 1].lost /\ z[j + 1].p = z[j].p + 1
      BY <1>8
    <2>3. z[j] \in Reads /\ z[j].b = a + s[j - 1]
      BY <1>7, <1>9, <2>1
    <2> DEFINE r == z[j]
    <2>4. r.p \in 0..Limit /\ (r.lost \/ r.b = At(r.p))
      <3>1. r \in Reads
        BY <2>3
      <3> HIDE DEF r
      <3> QED BY <3>1 DEF Reads
    <2>5. ~r.lost /\ r.b = a + s[j - 1] /\ Reading(p, f)[j].p = r.p + 1 /\ ~Reading(p, f)[j].lost
      BY <1>10, <2>1, <2>2, <2>3
    <2> HIDE DEF r
    <2>6. At(r.p) = a + s[j - 1]
      BY <2>4, <2>5
    <2> QED BY <2>4, <2>5, <2>6, Zenon
  <1>11. ASSUME ~Reading(p, f)[N].lost
         PROVE  At(Reading(p, f)[N].p) = a + s[N]
    <2>1. Reading(p, f)[N] = z[N + 1] /\ N + 1 \in 1..(N + 1) /\ (N + 1) - 1 = N
      BY <1>1, <1>3
    <2>2. z[N + 1] \in Reads /\ z[N + 1].b = a + s[(N + 1) - 1]
      BY <1>7, <1>9, <2>1
    <2>3. z[N + 1].lost \/ z[N + 1].b = At(z[N + 1].p)
      BY <2>2 DEF Reads
    <2> QED BY <1>11, <2>1, <2>2, <2>3
  <1> QED BY <1>10, <1>11, Zenon DEF FieldsInLine, N, s, a

-----------------------------------------------------------------------------
HeadInv ==
    /\ OnTrack
    /\ pos \in 0..Limit /\ pc \in Nat
    /\ stage \in 1..2 /\ (stage = 2 => h.after # <<>>)

(* What HeadMovesOn says of a step. *)
MovesOn == stage' > stage \/ pos' > pos \/ (pos' = pos /\ (pc' < pc \/ result' # "scan"))

(* A step of the scan leaves the handler and the track alone. *)
SameTrack == fmt' = fmt /\ start' = start

LEMMA StagesAre ==
    ASSUME HeadInv
    PROVE  stage \in DOMAIN Laid[fmt].take /\ stage \in DOMAIN Laid[fmt].sync
  <1> DEFINE l == Laid[fmt]
             scans == IF l.h.after # <<>> THEN 1..2 ELSE 1..1
  <1>1. IsLaidOut(l)
    BY FormatIs DEF HeadInv
  <1> HIDE DEF l
  <1>2. \A s \in scans : s \in DOMAIN l.take /\ s \in DOMAIN l.sync
    BY <1>1, Zenon DEF IsLaidOut
  <1>3. stage \in scans
    BY DEF HeadInv, h, l
  <1> QED BY <1>2, <1>3 DEF l

LEMMA MarksLeap ==
    ASSUME HeadInv
    PROVE  Leaps(Laid[fmt].sync[stage]) /\ Leaps(Laid[fmt].seek)
  <1> DEFINE l == Laid[fmt]
  <1>1. IsLaidOut(l)
    BY FormatIs DEF HeadInv
  <1>2. stage \in DOMAIN l.sync
    BY StagesAre
  <1>3. \A m \in {l.seek} \cup ToSet(l.sync) : \A i \in 1..Length : m.hop[i] \in 0..Length
    <2>1. \A m \in {l.seek} \cup ToSet(l.sync) :
             \A i \in 1..Len(l.trk) : m.hop[i] \in 0..Len(l.trk)
      <3> HIDE DEF l
      <3> QED BY <1>1, Zenon DEF IsLaidOut
    <2> QED BY <2>1, Zenon DEF Length, Track
  <1>4. l.sync[stage] \in ToSet(l.sync)
    BY <1>2 DEF ToSet
  <1> HIDE DEF l
  <1>5. Leaps(l.sync[stage]) /\ Leaps(l.seek)
    BY <1>3, <1>4 DEF Leaps
  <1> QED BY <1>5 DEF l

LEMMA ListIs ==
    ASSUME NEW s, IsList(s)
    PROVE  Len(s) \in Nat /\ DOMAIN s = 1..Len(s)
  <1> DEFINE S == ToSet(s)
  <1>1. s \in Seq(S)
    BY DEF IsList
  <1> HIDE DEF S
  <1> QED BY <1>1

LEMMA GroupsListed ==
    ASSUME HeadInv
    PROVE  Groups \in Lists(Laid[fmt])
  <1> DEFINE l == Laid[fmt]
  <1>1. stage \in DOMAIN l.take
    BY StagesAre
  <1>2. Groups = IF stage = 1 /\ sec + 1 \in DOMAIN l.then
                 THEN l.take[1] \o l.then[sec + 1] ELSE l.take[stage]
    BY Zenon DEF Groups
  <1>3. l.take[stage] \in ToSet(l.take)
    <2> HIDE DEF l
    <2> QED BY <1>1 DEF ToSet
  <1> HIDE DEF l
  <1>4. Groups \in Lists(l)
    BY <1>2, <1>3, Zenon DEF Lists
  <1> QED BY <1>4 DEF l

LEMMA GroupsAre ==
    ASSUME HeadInv
    PROVE  /\ Len(Groups) \in Nat /\ DOMAIN Groups = 1..Len(Groups)
           /\ \A i \in 1..Len(Groups) : IsGroup(Groups, i)
  <1> DEFINE l == Laid[fmt]
             G == Groups
  <1>1. IsLaidOut(l)
    BY FormatIs DEF HeadInv
  <1>2. G \in Lists(l)
    BY GroupsListed
  <1> HIDE DEF l, G
  <1>3. IsList(G) /\ \A i \in 1..Len(G) : IsGroup(G, i)
    BY <1>1, <1>2, Zenon DEF IsLaidOut
  <1>4. Len(G) \in Nat /\ DOMAIN G = 1..Len(G)
    BY <1>3, ListIs
  <1> QED BY <1>3, <1>4 DEF G

LEMMA FieldsAre ==
    ASSUME NEW groups, NEW n, IsGroup(groups, n), groups[n].seek = {}
    PROVE  /\ Fields(groups[n].f) /\ Len(groups[n].f) > 0
           /\ DOMAIN groups[n].f = 1..Len(groups[n].f)
  <1> DEFINE f == groups[n].f
  <1>1. /\ IsList(f) /\ Len(f) > 0 /\ \A j \in 1..Len(f) : f[j].l.b \in Nat \ {0}
    BY Zenon DEF IsGroup
  <1>2. Len(f) \in Nat /\ DOMAIN f = 1..Len(f)
    BY <1>1, ListIs
  <1> QED BY <1>1, <1>2, Zenon DEF Fields

(* The mark a group goes back to lies before it. *)
LEMMA LastSeekIs ==
    ASSUME HeadInv, pc > 0, pc <= Len(Groups), Groups[pc].seek = {}, Groups[pc].bad = "seek"
    PROVE  LastSeek \in Nat /\ LastSeek < pc
  <1> DEFINE G == Groups
             I == {k \in 0..(pc - 1) : G[pc - k].seek # {}}
             m == Min(I)
             i == pc - m
  <1>1. pc \in Nat /\ pc \in 1..Len(G) /\ IsGroup(G, pc)
    <2>1. pc \in Nat /\ Len(G) \in Nat
      BY GroupsAre DEF HeadInv
    <2>2. pc \in 1..Len(G)
      BY <2>1
    <2> QED BY <2>1, <2>2, GroupsAre
  <1>2. PICK k \in 1..(pc - 1) : G[k].seek # {}
    <2> HIDE DEF G
    <2>1. G[pc].seek = {} /\ G[pc].bad = "seek"
      BY Zenon DEF G
    <2> QED BY <1>1, <2>1, Zenon DEF IsGroup
  <1> HIDE DEF G
  <1>3. m \in I /\ \A x \in I : m <= x
    <2>1. pc - k \in I /\ I \in SUBSET Nat
      <3>1. pc - (pc - k) = k /\ pc - k \in 0..(pc - 1)
        BY <1>1
      <3> QED BY <1>1, <1>2, <3>1
    <2> HIDE DEF I
    <2> QED BY <2>1, LeastExists
  <1>4. m \in 0..(pc - 1) /\ G[i].seek # {}
    <2> HIDE DEF m
    <2> QED BY <1>3
  <1> HIDE DEF m
  <1>5. ASSUME NEW j \in (i + 1)..pc PROVE G[j].seek = {}
    <2>1. pc - j \in 0..(pc - 1) /\ ~(m <= pc - j) /\ pc - (pc - j) = j
      BY <1>1, <1>4
    <2>2. pc - j \notin I
      <3> HIDE DEF I
      <3> QED BY <1>3, <2>1
    <2> QED BY <2>1, <2>2
  <1>6. i \in 1..pc
    BY <1>1, <1>4
  <1> HIDE DEF i, I
  <1>7. \E x \in 1..pc : G[x].seek # {} /\ \A j \in (x + 1)..pc : G[j].seek = {}
    BY <1>4, <1>5, <1>6
  <1>8. /\ LastSeek \in 1..pc /\ Groups[LastSeek].seek # {}
    BY <1>7, Zenon DEF G, LastSeek
  <1>9. LastSeek # pc
    BY <1>8
  <1> HIDE DEF LastSeek
  <1> QED BY <1>1, <1>8, <1>9

-----------------------------------------------------------------------------
(* The steps. *)

LEMMA SameLimit ==
    ASSUME SameTrack
    PROVE  Limit' = Limit /\ h' = h /\ (OnTrack => OnTrack')
  BY DEF SameTrack, Limit, Length, Track, Laid, h, OnTrack

LEMMA FinishStep ==
    ASSUME HeadInv, SameTrack, NEW p \in pos..Limit, Finish(p), pc' = 0
    PROVE  /\ HeadInv'
           /\ stage' > stage \/ (pos' = p /\ result' # "scan")
  <1>1. pos \in Nat /\ Limit \in Nat /\ OnTrack /\ stage \in 1..2 /\ p \in 0..Limit
    BY TrackIs DEF HeadInv
  <1>2. Limit' = Limit /\ h' = h /\ OnTrack'
    BY <1>1, SameLimit
  <1>3. CASE stage = 1 /\ h.after # <<>>
    <2>1. stage' = 2 /\ result' = "scan" /\ pos' = IF h.after[1].reset THEN 0 ELSE p
      BY <1>3 DEF Finish
    <2>2. pos' \in 0..Limit
      BY <1>1, <2>1
    <2>3. h'.after # <<>>
      BY <1>2, <1>3
    <2>4. pos' \in 0..Limit' /\ pc' \in Nat /\ stage' \in 1..2 /\ (stage' = 2 => h'.after # <<>>)
      BY <1>2, <2>1, <2>2, <2>3
    <2> QED BY <1>2, <1>3, <2>1, <2>4 DEF HeadInv
  <1>4. CASE ~(stage = 1 /\ h.after # <<>>)
    <2>1. /\ stage' = stage /\ pos' = p
          /\ result' = IF TrackBits >= h.long THEN "block" ELSE "null"
      BY <1>4 DEF Finish
    <2>2. result' # "scan"
      BY <2>1
    <2>3. stage = 2 => h'.after # <<>>
      BY <1>2 DEF HeadInv
    <2>4. pos' \in 0..Limit' /\ pc' \in Nat /\ stage' \in 1..2 /\ (stage' = 2 => h'.after # <<>>)
      BY <1>1, <1>2, <2>1, <2>3
    <2> QED BY <1>2, <2>1, <2>2, <2>4 DEF HeadInv
  <1> QED BY <1>3, <1>4

LEMMA GiveUpStep ==
    ASSUME HeadInv, GiveUp
    PROVE  HeadInv' /\ MovesOn
  <1>1. pos \in 0..Limit /\ Limit \in Nat /\ OnTrack /\ stage \in 1..2
    BY TrackIs DEF HeadInv
  <1>2. SameTrack /\ pc' = 0
    BY DEF GiveUp, SameTrack
  <1>3. Finish(Limit) \/ (result' = "null" /\ pos' = Limit /\ stage' = stage)
    BY DEF GiveUp
  <1>4. CASE Finish(Limit)
    <2>1. Limit \in pos..Limit
      BY <1>1
    <2>2. HeadInv' /\ (stage' > stage \/ (pos' = Limit /\ result' # "scan"))
      BY <1>2, <1>4, <2>1, FinishStep
    <2> QED BY <1>1, <2>2 DEF MovesOn
  <1>5. CASE result' = "null" /\ pos' = Limit /\ stage' = stage
    <2>1. Limit' = Limit /\ h' = h /\ OnTrack'
      BY <1>1, <1>2, SameLimit
    <2>2. HeadInv'
      BY <1>1, <1>2, <1>5, <2>1 DEF HeadInv
    <2> QED BY <1>1, <1>5, <2>2 DEF MovesOn
  <1> QED BY <1>3, <1>4, <1>5

(* A step that neither finishes nor gives up. *)
LEMMA PlainStep ==
    ASSUME HeadInv, SameTrack, stage' = stage, pos' \in pos..Limit, pc' \in Nat,
           pos' > pos \/ pc' < pc
    PROVE  HeadInv' /\ MovesOn
  <1>1. pos \in 0..Limit /\ Limit \in Nat /\ OnTrack
    BY TrackIs DEF HeadInv
  <1>2. Limit' = Limit /\ h' = h /\ OnTrack'
    BY <1>1, SameLimit
  <1>3. HeadInv'
    BY <1>1, <1>2 DEF HeadInv
  <1>4. MovesOn
    BY <1>1 DEF MovesOn
  <1> QED BY <1>3, <1>4

LEMMA ScanStep ==
    ASSUME HeadInv, Scan
    PROVE  HeadInv' /\ MovesOn
  <1> DEFINE q == NextMark(pos, Laid[fmt].sync[stage])
  <1>1. pos \in 0..Limit /\ Limit \in Nat /\ OnTrack
    BY TrackIs DEF HeadInv
  <1>2. q \in Nat /\ q > pos
    BY <1>1, MarksLeap, NextMarkIs
  <1>3. CASE q > Limit
    <2>1. GiveUp
      BY <1>3 DEF Scan
    <2> QED BY <2>1, GiveUpStep
  <1>4. CASE ~(q > Limit)
    <2>1. pos' = q /\ fmt' = fmt /\ start' = start /\ stage' = stage /\ (pc' = pc \/ pc' = 1)
      BY <1>4 DEF Scan
    <2> HIDE DEF q
    <2>2. pos' \in pos..Limit /\ pos' > pos
      BY <1>1, <1>2, <1>4, <2>1
    <2>3. pc' \in Nat /\ SameTrack
      BY <2>1 DEF HeadInv, SameTrack
    <2> QED BY <2>1, <2>2, <2>3, PlainStep
  <1> QED BY <1>3, <1>4

LEMMA ReadGroupStep ==
    ASSUME HeadInv, ReadGroup
    PROVE  HeadInv' /\ MovesOn
  <1> DEFINE g == Groups[pc]
             at == Reading(pos, g.f)
             end == at[Len(g.f)]
  <1>1. /\ pos \in 0..Limit /\ Limit \in Nat /\ OnTrack /\ pc \in Nat
        /\ pc > 0 /\ pc <= Len(Groups) /\ g.seek = {}
    BY TrackIs DEF HeadInv, ReadGroup
  <1>2. IsGroup(Groups, pc)
    BY <1>1, GroupsAre
  <1>3. Fields(g.f) /\ Len(g.f) > 0
    BY <1>1, <1>2, FieldsAre
  <1>4. end.p \in pos..Limit /\ (end.p > pos \/ (end.p = Limit /\ end.lost))
    BY <1>1, <1>3, ReadingIs DEF ReadsOnward
  <1>5. CASE end.p = Limit /\ end.lost
    <2>1. GiveUp
      BY <1>5, Zenon DEF ReadGroup
    <2> QED BY <2>1, GiveUpStep
  <1>6. CASE ~(end.p = Limit /\ end.lost)
    <2>1. /\ pos' = end.p /\ fmt' = fmt /\ start' = start /\ stage' = stage
          /\ \/ pc' = pc + 1 \/ pc' = 0
             \/ g.bad = "seek" /\ pc' = LastSeek
      BY <1>6, Zenon DEF ReadGroup
    <2> HIDE DEF end, at
    <2>2. pos' \in pos..Limit /\ pos' > pos
      BY <1>4, <1>6, <2>1
    <2>3. pc' \in Nat
      BY <1>1, <2>1, LastSeekIs
    <2> QED BY <2>1, <2>2, <2>3, PlainStep DEF SameTrack
  <1> QED BY <1>5, <1>6

LEMMA SeekMarkStep ==
    ASSUME HeadInv, SeekMark
    PROVE  HeadInv' /\ MovesOn
  <1> DEFINE g == Groups[pc]
             q == NextMark(pos, Laid[fmt].seek)
             last == IF g.within = NoLimit THEN Limit ELSE Past(pos, At(pos) + g.within)
  <1>1. pos \in 0..Limit /\ Limit \in Nat /\ OnTrack /\ pc \in Nat /\ pc > 0
    BY TrackIs DEF HeadInv, SeekMark
  <1>2. q \in Nat /\ q > pos
    BY <1>1, MarksLeap, NextMarkIs
  <1>3. CASE last = Limit /\ q > Limit
    <2>1. GiveUp
      BY <1>3, Zenon DEF SeekMark
    <2> QED BY <2>1, GiveUpStep
  <1>4. CASE ~(last = Limit /\ q > Limit)
    <2>1. /\ fmt' = fmt /\ start' = start /\ stage' = stage
          /\ IF q <= last THEN pos' = q /\ pc' = pc + 1 ELSE pos' = last /\ pc' = 0
      BY <1>4, Zenon DEF SeekMark
    <2>2. last \in pos..Limit
      <3>1. g.within \in Int /\ At(pos) \in Int
        <4>1. pc \in 1..Len(Groups) /\ g.seek # {}
          BY <1>1, GroupsAre DEF SeekMark
        <4>2. IsGroup(Groups, pc)
          BY <4>1, GroupsAre
        <4> QED BY <1>1, <4>1, <4>2, TrackIs DEF IsGroup
      <3> DEFINE to == At(pos) + g.within
      <3>2. to \in Int
        BY <3>1
      <3> HIDE DEF to
      <3>3. Past(pos, to) \in pos..Limit
        BY <1>1, <3>2, PastIs
      <3> QED BY <1>1, <3>3 DEF to
    <2> HIDE DEF q, last
    <2>3. pos' \in pos..Limit /\ pc' \in Nat /\ (pos' > pos \/ pc' < pc)
      BY <1>1, <1>2, <2>1, <2>2
    <2> QED BY <2>1, <2>3, PlainStep DEF SameTrack
  <1> QED BY <1>3, <1>4

LEMMA TakeStep ==
    ASSUME HeadInv, Take
    PROVE  HeadInv' /\ MovesOn
  <1>1. pos \in 0..Limit /\ Limit \in Nat /\ OnTrack /\ pc \in Nat /\ stage \in 1..2
    BY TrackIs DEF HeadInv
  <1>2. Len(Groups) \in Nat /\ pc = Len(Groups) + 1
    BY GroupsAre DEF Take
  <1>3. SameTrack /\ pc' = 0 /\ (Finish(pos) \/ (stage' = stage /\ pos' = pos))
    BY DEF Take, SameTrack
  <1>4. CASE Finish(pos)
    <2>1. pos \in pos..Limit
      BY <1>1
    <2>2. HeadInv' /\ (stage' > stage \/ (pos' = pos /\ result' # "scan"))
      BY <1>3, <1>4, <2>1, FinishStep
    <2> QED BY <2>2 DEF MovesOn
  <1>5. CASE stage' = stage /\ pos' = pos
    <2>1. pos' \in pos..Limit /\ pc' \in Nat /\ pc' < pc
      BY <1>1, <1>2, <1>3, <1>5
    <2> QED BY <1>3, <1>5, <2>1, PlainStep
  <1> QED BY <1>3, <1>4, <1>5

LEMMA HeadInit ==
    ASSUME Init
    PROVE  HeadInv
  <1>1. fmt \in DOMAIN Laid /\ pos = 0 /\ stage = 1 /\ pc = 0
    BY DEF Init
  <1>2. Len(Laid[fmt].trk) \in Nat \ {0}
    <2>1. IsLaidOut(Laid[fmt])
      BY <1>1, LaidOutAssumption, Zenon DEF Laid
    <2> QED BY <2>1, Zenon DEF IsLaidOut
  <1>3. start \in Nat
    <2>1. start \in 0..(IF MaxStart < Length THEN MaxStart ELSE Length - 1)
      BY DEF Init
    <2> QED BY <2>1
  <1>4. OnTrack
    BY <1>1, <1>3 DEF OnTrack
  <1>5. Limit \in Nat
    BY <1>4, TrackIs
  <1> QED BY <1>1, <1>4, <1>5 DEF HeadInv

LEMMA HeadNext ==
    ASSUME HeadInv, [Next]_vars
    PROVE  HeadInv' /\ (vars' = vars \/ MovesOn)
  <1>1. CASE Scan
    BY <1>1, ScanStep
  <1>2. CASE ReadGroup
    BY <1>2, ReadGroupStep
  <1>3. CASE SeekMark
    BY <1>3, SeekMarkStep
  <1>4. CASE Take
    BY <1>4, TakeStep
  <1>5. CASE UNCHANGED vars
    <2>1. HeadInv'
      BY <1>5 DEF vars, HeadInv, OnTrack, Limit, Length, Track, Laid, h
    <2> QED BY <1>5, <2>1
  <1>6. CASE Done
    BY <1>5, <1>6 DEF Done
  <1> QED BY <1>1, <1>2, <1>3, <1>4, <1>5, <1>6 DEF Next

(* Every step of a scan takes more of the source or finishes with a candidate, with  *)
(* any handler of any layout and wherever the index falls.                           *)
THEOREM ScansOnward == Spec => HeadMovesOn
  <1>1. Init => HeadInv
    BY HeadInit
  <1>2. HeadInv /\ [Next]_vars => HeadInv'
    BY HeadNext
  <1>3. HeadInv /\ [Next]_vars =>
           [stage' > stage \/ pos' > pos \/ (pos' = pos /\ (pc' < pc \/ result' # "scan"))]_vars
    BY HeadNext DEF MovesOn
  <1> QED BY <1>1, <1>2, <1>3, PTL DEF Spec, HeadMovesOn

-----------------------------------------------------------------------------
(* A note of a field to be stored whose damage no checksum has shown yet: those of   *)
(* the groups read so far do not cover it.                                           *)
Unsummed(groups, i, n, f) ==
    \A k \in i..n : groups[k].seek = {} =>
        \A x \in DOMAIN groups[k].f : ~Covers(groups[k].f[x], f)
Needs(x, number) == IF number THEN Numbers(x) ELSE x.k = "keep"
Excused(groups, n, c, number) ==
    \E i \in 1..n : \E j \in DOMAIN groups[i].f :
        /\ Needs(groups[i].f[j], number)
        /\ c.n = groups[i].f[j].v /\ c.want = groups[i].f[j].s
        /\ Unsummed(groups, i, n, groups[i].f[j])
SeenInv == \A c \in seen : c.kept => c.ok \/ Excused(Groups, pc - 1, c, FALSE)

StoredInv == HeadInv /\ SeenInv /\ StoredReadable

(* Groups alike up to the n-th. *)
Alike(was, groups, n) == n <= Len(groups) /\ \A i \in 1..n : groups[i] = was[i]

LEMMA ExcusedAlike ==
    ASSUME NEW was, NEW groups, NEW n \in Int, Alike(was, groups, n), NEW c,
           NEW number, Excused(was, n, c, number)
    PROVE  Excused(groups, n, c, number)
  <1>0. PICK i \in 1..n : \E j \in DOMAIN was[i].f :
            /\ Needs(was[i].f[j], number) /\ c.n = was[i].f[j].v /\ c.want = was[i].f[j].s
            /\ Unsummed(was, i, n, was[i].f[j])
    BY Zenon DEF Excused
  <1>1. PICK j \in DOMAIN was[i].f :
            /\ Needs(was[i].f[j], number) /\ c.n = was[i].f[j].v /\ c.want = was[i].f[j].s
            /\ Unsummed(was, i, n, was[i].f[j])
    BY <1>0
  <1>2. \A k \in i..n : k \in 1..n
    OBVIOUS
  <1>3. \A k \in 1..n : groups[k] = was[k]
    BY DEF Alike
  <1>4. groups[i] = was[i]
    BY <1>3
  <1>5. Unsummed(groups, i, n, was[i].f[j])
    BY <1>1, <1>2, <1>3, Zenon DEF Unsummed
  <1> QED BY <1>1, <1>4, <1>5, Zenon DEF Excused

(* A number read late changes nothing in the groups read before it.                  *)
LEMMA GroupsAlike ==
    ASSUME HeadInv, SameTrack, stage' = stage, NEW at,
           pc > 0, pc <= Len(Groups), sec' \in SectorsRead(Groups[pc].f, at)
    PROVE  Alike(Groups, Groups', pc)
  <1> DEFINE l == Laid[fmt]
             one == l.take[1]
  <1>1. pc \in Nat /\ Len(Groups) \in Nat /\ Laid'[fmt'] = l /\ stage \in 1..2
    BY GroupsAre DEF SameTrack, Laid, HeadInv
  <1>2. /\ Groups = IF stage = 1 /\ sec + 1 \in DOMAIN l.then
                    THEN one \o l.then[sec + 1] ELSE l.take[stage]
        /\ Groups' = IF stage = 1 /\ sec' + 1 \in DOMAIN l.then
                     THEN one \o l.then[sec' + 1] ELSE l.take[stage]
    BY <1>1, Zenon DEF Groups
  <1>3. /\ IsList(one)
        /\ \A k \in DOMAIN l.then : IsThen(l.then[k])
    <2>1. IsLaidOut(l)
      BY FormatIs DEF HeadInv
    <2> HIDE DEF l
    <2> QED BY <2>1, Zenon DEF IsLaidOut
  <1>4. CASE sec' = sec
    <2>1. Groups' = Groups
      BY <1>2, <1>4
    <2> QED BY <2>1 DEF Alike
  <1>5. CASE sec' # sec
    <2>1. PICK j \in DOMAIN Groups[pc].f : Numbers(Groups[pc].f[j])
      BY <1>5 DEF SectorsRead
    <2> HIDE DEF l
    <2>2. one \in Seq(ToSet(one)) /\ Len(one) \in Nat
      <3>1. one \in Seq(ToSet(one))
        BY <1>3, Zenon DEF IsList
      <3> HIDE DEF one
      <3> QED BY <3>1
    <2> HIDE DEF one
    <2>3. ASSUME NEW k \in DOMAIN l.then
          PROVE  /\ Len(one \o l.then[k]) >= Len(one)
                 /\ \A i \in 1..Len(one) : (one \o l.then[k])[i] = one[i]
                 /\ \A i \in 1..Len(one \o l.then[k]) : i > Len(one) =>
                      /\ i - Len(one) \in DOMAIN l.then[k]
                      /\ (one \o l.then[k])[i] = l.then[k][i - Len(one)]
      <3> DEFINE q == l.then[k]
      <3>1. q \in Seq(ToSet(q))
        BY <1>3, Zenon DEF IsThen, IsList
      <3> DEFINE S == ToSet(one) \cup ToSet(q)
      <3>3. one \in Seq(S) /\ q \in Seq(S) /\ Len(q) \in Nat
        <4> HIDE DEF q
        <4> QED BY <2>2, <3>1
      <3> HIDE DEF q, S
      <3>4. /\ Len(one \o q) = Len(one) + Len(q) /\ DOMAIN q = 1..Len(q)
            /\ \A i \in 1..(Len(one) + Len(q)) :
                 (one \o q)[i] = IF i <= Len(one) THEN one[i] ELSE q[i - Len(one)]
        BY <3>3, ConcatProperties
      <3>2. /\ Len(one \o q) >= Len(one)
            /\ \A i \in 1..Len(one) : (one \o q)[i] = one[i]
            /\ \A i \in 1..Len(one \o q) : i > Len(one) =>
                 /\ i - Len(one) \in DOMAIN q
                 /\ (one \o q)[i] = q[i - Len(one)]
        BY <2>2, <3>3, <3>4
      <3> QED BY <3>2 DEF q
    <2>4. stage = 1 => /\ Len(Groups) >= Len(one) /\ Len(Groups') >= Len(one)
                       /\ \A i \in 1..Len(one) : Groups[i] = one[i] /\ Groups'[i] = one[i]
      <3> SUFFICES ASSUME stage = 1
                   PROVE  /\ Len(Groups) >= Len(one) /\ Len(Groups') >= Len(one)
                          /\ \A i \in 1..Len(one) : Groups[i] = one[i] /\ Groups'[i] = one[i]
        OBVIOUS
      <3>1. l.take[stage] = one
        BY DEF one
      <3>2. Len(Groups) >= Len(one) /\ \A i \in 1..Len(one) : Groups[i] = one[i]
        <4>1. CASE sec + 1 \in DOMAIN l.then
          BY <1>2, <2>3, <4>1
        <4>2. CASE sec + 1 \notin DOMAIN l.then
          <5>1. Groups = one
            BY <1>2, <3>1, <4>2
          <5> QED BY <2>2, <5>1
        <4> QED BY <4>1, <4>2
      <3>3. Len(Groups') >= Len(one) /\ \A i \in 1..Len(one) : Groups'[i] = one[i]
        <4>1. CASE sec' + 1 \in DOMAIN l.then
          BY <1>2, <2>3, <4>1
        <4>2. CASE sec' + 1 \notin DOMAIN l.then
          <5>1. Groups' = one
            BY <1>2, <3>1, <4>2
          <5> QED BY <2>2, <5>1
        <4> QED BY <4>1, <4>2
      <3> QED BY <3>2, <3>3
    <2>5. CASE stage = 2
      <3>1. Groups' = Groups
        BY <1>2, <2>5
      <3> QED BY <3>1 DEF Alike
    <2>6. CASE stage = 1 /\ pc <= Len(one)
      <3>1. \A i \in 1..pc : i \in 1..Len(one)
        BY <1>1, <2>2, <2>6
      <3>2. pc <= Len(Groups')
        <4>1. /\ Len(Groups') >= Len(one) /\ Len(Groups') \in Nat
          <5>1. CASE sec' + 1 \in DOMAIN l.then
            <6>1. Groups' = one \o l.then[sec' + 1]
              BY <1>2, <2>6, <5>1
            <6>2. l.then[sec' + 1] \in Seq(ToSet(l.then[sec' + 1]))
              BY <1>3, <5>1, Zenon DEF IsThen, IsList
            <6>3. Len(Groups') \in Nat
              <7> DEFINE q == l.then[sec' + 1]
              <7>1. q \in Seq(ToSet(q))
                BY <6>2
              <7> HIDE DEF q
              <7>2. one \in Seq(ToSet(one) \cup ToSet(q)) /\ q \in Seq(ToSet(one) \cup ToSet(q))
                BY <2>2, <7>1
              <7>3. Len(one \o q) = Len(one) + Len(q) /\ Len(q) \in Nat
                BY <7>2, ConcatProperties
              <7> QED BY <2>2, <6>1, <7>3 DEF q
            <6> QED BY <2>4, <2>6, <6>3
          <5>2. CASE sec' + 1 \notin DOMAIN l.then
            <6>1. Groups' = l.take[stage]
              BY <1>2, <5>2
            <6>2. l.take[stage] = one
              BY <2>6 DEF one
            <6>3. Groups' = one
              BY <6>1, <6>2
            <6> QED BY <2>2, <6>3
          <5> QED BY <5>1, <5>2
        <4> QED BY <1>1, <2>2, <2>6, <4>1
      <3> QED BY <2>4, <2>6, <3>1, <3>2 DEF Alike
    <2>7. CASE stage = 1 /\ pc > Len(one)
      <3>1. sec + 1 \in DOMAIN l.then
        <4> SUFFICES ASSUME sec + 1 \notin DOMAIN l.then PROVE FALSE
          OBVIOUS
        <4>1. Groups = l.take[stage]
          BY <1>2
        <4>2. l.take[stage] = one
          BY <2>7 DEF one
        <4> QED BY <1>1, <2>2, <2>7, <4>1, <4>2
      <3> DEFINE q == l.then[sec + 1]
      <3>2. Groups = one \o q
        BY <1>2, <2>7, <3>1
      <3>3. pc \in 1..Len(Groups)
        BY <1>1
      <3>4. pc - Len(one) \in DOMAIN q /\ Groups[pc] = q[pc - Len(one)]
        BY <2>3, <2>7, <3>1, <3>2, <3>3
      <3>5. IsThen(q)
        BY <1>3, <3>1
      <3> HIDE DEF q
      <3> QED BY <2>1, <3>4, <3>5, Zenon DEF IsThen
    <2> QED BY <1>1, <2>2, <2>5, <2>6, <2>7
  <1> QED BY <1>4, <1>5

(* A checksum that agrees shows the fields it is over to be readable.                *)
LEMMA SumSees ==
    ASSUME NEW x, x.k = "sum", NEW r, NEW notes, Passes(x, r, notes)
    PROVE  \A c \in notes : c.n \in x.o /\ (x.s = Whole \/ c.want = x.s) => c.ok
  <1>1. r.ok /\ SumAgrees(x, Under(r.p), notes)
    BY DEF Passes
  <1> QED BY <1>1, Zenon DEF SumAgrees

LEMMA SealedSees ==
    ASSUME NEW x, x.k = "sealed", NEW r, NEW notes, Passes(x, r, notes)
    PROVE  r.ok
  BY DEF Passes

NotesOfGroup(groups, n, at, notes) ==
    /\ groups[n].seek = {} /\ notes = seen \cup Notes(groups[n].f, at)
    /\ \A j \in DOMAIN groups[n].f : Passes(groups[n].f[j], at[j], notes)

(* No checksum of a group that was good covers a field that was read badly.          *)
LEMMA BadUnsummed ==
    ASSUME NEW groups, NEW n, NEW at, NEW notes, NotesOfGroup(groups, n, at, notes),
           NEW c \in notes, ~c.ok, NEW y, c.n = y.v, c.want = y.s
    PROVE  \A x \in DOMAIN groups[n].f : ~Covers(groups[n].f[x], y)
  <1> DEFINE f == groups[n].f
  <1> SUFFICES ASSUME NEW x \in DOMAIN f, Covers(f[x], y) PROVE FALSE
    OBVIOUS
  <1>1. f[x].k = "sum" /\ y.v \in f[x].o /\ (f[x].s = Whole \/ y.s = f[x].s)
    BY Zenon DEF Covers
  <1>2. Passes(f[x], at[x], notes)
    BY DEF NotesOfGroup
  <1> HIDE DEF f
  <1>3. c.n \in f[x].o /\ (f[x].s = Whole \/ c.want = f[x].s) => c.ok
    BY <1>1, <1>2, SumSees
  <1> QED BY <1>1, <1>3

LEMMA StaysExcused ==
    ASSUME NEW groups, NEW n \in Nat, n > 0, NEW at, NEW notes,
           NotesOfGroup(groups, n, at, notes), NEW c \in notes, ~c.ok,
           NEW number, Excused(groups, n - 1, c, number)
    PROVE  Excused(groups, n, c, number)
  <1>1. PICK i \in 1..(n - 1) : \E j \in DOMAIN groups[i].f :
          /\ Needs(groups[i].f[j], number)
          /\ c.n = groups[i].f[j].v /\ c.want = groups[i].f[j].s
          /\ Unsummed(groups, i, n - 1, groups[i].f[j])
    BY Zenon DEF Excused
  <1>2. PICK j \in DOMAIN groups[i].f :
          /\ Needs(groups[i].f[j], number)
          /\ c.n = groups[i].f[j].v /\ c.want = groups[i].f[j].s
          /\ Unsummed(groups, i, n - 1, groups[i].f[j])
    BY <1>1
  <1> DEFINE y == groups[i].f[j]
  <1>3. \A x \in DOMAIN groups[n].f : ~Covers(groups[n].f[x], y)
    BY <1>2, BadUnsummed
  <1>4. \A k \in i..n : k \in i..(n - 1) \/ k = n
    OBVIOUS
  <1>5. Unsummed(groups, i, n, y)
    BY <1>2, <1>3, <1>4, Zenon DEF Unsummed
  <1>6. i \in 1..n
    OBVIOUS
  <1> QED BY <1>2, <1>5, <1>6, Zenon DEF Excused

LEMMA NewExcused ==
    ASSUME NEW groups, NEW n \in Nat, n > 0, NEW at, NEW notes,
           NotesOfGroup(groups, n, at, notes), NEW c \in notes, ~c.ok,
           NEW j \in DOMAIN groups[n].f, c.n = groups[n].f[j].v, c.want = groups[n].f[j].s,
           NEW number, Needs(groups[n].f[j], number)
    PROVE  Excused(groups, n, c, number)
  <1> DEFINE y == groups[n].f[j]
  <1>1. \A x \in DOMAIN groups[n].f : ~Covers(groups[n].f[x], y)
    BY BadUnsummed
  <1>2. \A k \in n..n : k = n
    OBVIOUS
  <1>3. Unsummed(groups, n, n, y)
    BY <1>1, <1>2, Zenon DEF Unsummed
  <1>4. n \in 1..n
    OBVIOUS
  <1> QED BY <1>3, <1>4, Zenon DEF Excused

LEMMA SeekExcused ==
    ASSUME NEW groups, NEW n \in Nat, groups[n].seek # {}, NEW c, NEW number,
           Excused(groups, n - 1, c, number)
    PROVE  Excused(groups, n, c, number)
  <1>1. PICK i \in 1..(n - 1) : \E j \in DOMAIN groups[i].f :
            /\ Needs(groups[i].f[j], number)
            /\ c.n = groups[i].f[j].v /\ c.want = groups[i].f[j].s
            /\ Unsummed(groups, i, n - 1, groups[i].f[j])
    BY Zenon DEF Excused
  <1>2. PICK j \in DOMAIN groups[i].f :
            /\ Needs(groups[i].f[j], number)
            /\ c.n = groups[i].f[j].v /\ c.want = groups[i].f[j].s
            /\ Unsummed(groups, i, n - 1, groups[i].f[j])
    BY <1>1
  <1>3. \A k \in i..n : k \in i..(n - 1) \/ k = n
    OBVIOUS
  <1>4. Unsummed(groups, i, n, groups[i].f[j])
    BY <1>2, <1>3, Zenon DEF Unsummed
  <1>5. i \in 1..n
    OBVIOUS
  <1> QED BY <1>2, <1>4, <1>5, Zenon DEF Excused

(* Where a note comes from.                                                          *)
NoteOf(c, x, r) ==
    /\ c.n = x.v /\ c.want = x.s /\ c.ok = r.ok
    /\ c.kept = (x.k \in {"keep", "sealed"})
    /\ c.got = IF r.ok THEN Under(r.p).s ELSE Whole

LEMMA NotesAre ==
    ASSUME NEW f, NEW at
    PROVE  /\ \A c \in Notes(f, at) : \E j \in DOMAIN f : NoteOf(c, f[j], at[j])
           /\ \A j \in DOMAIN f : f[j].k \in {"is", "skip", "keep", "sealed", "sec"} =>
                \E c \in Notes(f, at) : NoteOf(c, f[j], at[j])
  <1> DEFINE read == {j \in DOMAIN f : f[j].k \in {"is", "skip", "keep", "sealed", "sec"}}
             note(j) == [n |-> f[j].v, want |-> f[j].s,
                         got |-> IF at[j].ok THEN Under(at[j].p).s ELSE Whole,
                         ok |-> at[j].ok, kept |-> f[j].k \in {"keep", "sealed"}]
  <1>1. Notes(f, at) = {note(j) : j \in read}
    BY Zenon DEF Notes
  <1>2. \A j \in DOMAIN f : NoteOf(note(j), f[j], at[j])
    BY DEF NoteOf
  <1> HIDE DEF note
  <1> QED BY <1>1, <1>2

LEMMA GroupExcused ==
    ASSUME NEW groups, NEW n \in Nat, n > 0, NEW at, NEW notes,
           NotesOfGroup(groups, n, at, notes),
           \A c \in seen : c.kept => c.ok \/ Excused(groups, n - 1, c, FALSE)
    PROVE  \A c \in notes : c.kept => c.ok \/ Excused(groups, n, c, FALSE)
  <1> SUFFICES ASSUME NEW c \in notes, c.kept, ~c.ok
               PROVE  Excused(groups, n, c, FALSE)
    OBVIOUS
  <1> DEFINE f == groups[n].f
  <1>1. CASE c \in seen
    BY <1>1, StaysExcused
  <1>2. CASE c \in Notes(f, at)
    <2>1. PICK j \in DOMAIN f : NoteOf(c, f[j], at[j])
      BY <1>2, NotesAre
    <2>2. /\ c.n = f[j].v /\ c.want = f[j].s /\ c.ok = at[j].ok
          /\ c.kept = (f[j].k \in {"keep", "sealed"})
      BY <2>1, Zenon DEF NoteOf
    <2>3. f[j].k # "sealed"
      <3> SUFFICES ASSUME f[j].k = "sealed" PROVE FALSE
        OBVIOUS
      <3>1. Passes(f[j], at[j], notes)
        BY DEF NotesOfGroup
      <3> HIDE DEF f
      <3>2. at[j].ok
        BY <3>1, SealedSees
      <3> QED BY <2>2, <3>2
    <2>4. f[j].k = "keep"
      BY <2>2, <2>3
    <2>5. Needs(f[j], FALSE)
      BY <2>4 DEF Needs
    <2> QED BY <2>2, <2>5, NewExcused
  <1>3. c \in seen \/ c \in Notes(f, at)
    BY DEF NotesOfGroup
  <1> QED BY <1>1, <1>2, <1>3

(* When every group has been read, nothing is excused: a checksum covers every field. *)
LEMMA NothingExcused ==
    ASSUME HeadInv, Checked(Laid[fmt]), NEW c, NEW number \in BOOLEAN,
           Excused(Groups, Len(Groups), c, number)
    PROVE  IF number THEN h.bare ELSE c.n \in h.open
  <1> DEFINE G == Groups
             l == Laid[fmt]
             N == Len(Groups)
  <1>1. G \in Lists(l)
    BY GroupsListed
  <1>0. PICK i \in 1..N : \E j \in DOMAIN G[i].f :
            /\ Needs(G[i].f[j], number) /\ c.n = G[i].f[j].v /\ c.want = G[i].f[j].s
            /\ Unsummed(G, i, N, G[i].f[j])
    BY Zenon DEF Excused
  <1>2. PICK j \in DOMAIN G[i].f :
            /\ Needs(G[i].f[j], number) /\ c.n = G[i].f[j].v /\ c.want = G[i].f[j].s
            /\ Unsummed(G, i, N, G[i].f[j])
    BY <1>0
  <1> SUFFICES ASSUME ~(IF number THEN l.h.bare ELSE c.n \in l.h.open) PROVE FALSE
    BY DEF h
  <1>3. Checked(l) /\ i \in 1..Len(G)
    OBVIOUS
  <1>4. Len(G) = N
    OBVIOUS
  <1> HIDE DEF G, l, N
  <1> DEFINE x == G[i].f[j]
  <1>5. (x.k = "keep" /\ x.v \notin l.h.open) \/ (Numbers(x) /\ ~l.h.bare)
    BY <1>2 DEF Needs
  <1>6. IsChecked(G, i, x)
    BY <1>1, <1>3, <1>5, Zenon DEF Checked
  <1> QED BY <1>2, <1>4, <1>6, Zenon DEF Unsummed, IsChecked

-----------------------------------------------------------------------------
(* The steps again.  Those that read nothing store nothing and forget what was seen. *)

LEMMA Forgets ==
    ASSUME StoredReadable, fmt' = fmt, block' = block, seen' = {}
    PROVE  SeenInv' /\ StoredReadable'
  <1>1. h' = h
    BY DEF h, Laid
  <1> QED BY <1>1 DEF SeenInv, StoredReadable

LEMMA GiveUpForgets ==
    ASSUME StoredReadable, GiveUp
    PROVE  SeenInv' /\ StoredReadable'
  BY Forgets DEF GiveUp

LEMMA ScanStores ==
    ASSUME StoredInv, Scan
    PROVE  SeenInv' /\ StoredReadable'
  <1> DEFINE q == NextMark(pos, Laid[fmt].sync[stage])
  <1>1. CASE q > Limit
    <2>1. GiveUp
      BY <1>1 DEF Scan
    <2> QED BY <2>1, GiveUpForgets DEF StoredInv
  <1>2. CASE ~(q > Limit)
    <2>1. fmt' = fmt /\ block' = block /\ seen' = {}
      BY <1>2 DEF Scan
    <2> QED BY <2>1, Forgets DEF StoredInv
  <1> QED BY <1>1, <1>2

LEMMA ReadGroupStores ==
    ASSUME StoredInv, ReadGroup
    PROVE  SeenInv' /\ StoredReadable'
  <1> DEFINE g == Groups[pc]
             at == Reading(pos, g.f)
             notes == seen \cup Notes(g.f, at)
             end == at[Len(g.f)]
             numbers == \E j \in DOMAIN g.f : Numbers(g.f[j])
             good(k) == /\ \A j \in DOMAIN g.f : Passes(g.f[j], at[j], notes)
                        /\ numbers => k # Whole
  <1>1. HeadInv /\ SeenInv /\ StoredReadable /\ pc \in Nat /\ pc > 0 /\ pc <= Len(Groups) /\ g.seek = {}
    BY DEF StoredInv, HeadInv, ReadGroup
  <1>2. CASE end.p = Limit /\ end.lost
    <2>1. GiveUp
      BY <1>2, Zenon DEF ReadGroup
    <2> QED BY <1>1, <2>1, GiveUpForgets
  <1>3. CASE ~(end.p = Limit /\ end.lost)
    <2>1. PICK k \in SectorsRead(g.f, at) :
              /\ sec' = k
              /\ seen' = IF good(k) THEN notes ELSE {}
              /\ pc' = IF good(k) THEN pc + 1
                       ELSE IF g.bad = "seek" THEN LastSeek ELSE 0
              /\ fmt' = fmt /\ start' = start /\ stage' = stage /\ block' = block
      BY <1>3, Zenon DEF ReadGroup
    <2>2. CASE ~good(k)
      <3>1. seen' = {}
        BY <2>1, <2>2, Zenon
      <3> QED BY <1>1, <2>1, <3>1, Forgets
    <2>3. CASE good(k)
      <3>1. seen' = notes /\ pc' = pc + 1 /\ sec' \in SectorsRead(g.f, at)
        BY <2>1, <2>3, Zenon
      <3>2. \A j \in DOMAIN g.f : Passes(g.f[j], at[j], notes)
        BY <2>3, Zenon
      <3>3. Alike(Groups, Groups', pc)
        BY <1>1, <2>1, <3>1, GroupsAlike DEF SameTrack
      <3>4. \A c \in seen : c.kept => c.ok \/ Excused(Groups, pc - 1, c, FALSE)
        BY <1>1, Zenon DEF SeenInv
      <3> HIDE DEF at
      <3> DEFINE n == pc
                 G == Groups
                 all == notes
      <3>5. \A c \in all : c.kept => c.ok \/ Excused(G, n, c, FALSE)
        <4>1. n \in Nat /\ n > 0
          BY <1>1
        <4>2. NotesOfGroup(G, n, at, all)
          BY <1>1, <3>2, Zenon DEF NotesOfGroup
        <4>3. \A c \in seen : c.kept => c.ok \/ Excused(G, n - 1, c, FALSE)
          BY <3>4
        <4> HIDE DEF n, G, all
        <4> QED BY <4>1, <4>2, <4>3, GroupExcused
      <3>6. \A c \in notes : c.kept => c.ok \/ Excused(Groups', pc, c, FALSE)
        <4> SUFFICES ASSUME NEW c \in notes, c.kept, ~c.ok
                     PROVE  Excused(Groups', pc, c, FALSE)
          OBVIOUS
        <4>1. Excused(Groups, pc, c, FALSE)
          BY <3>5
        <4>2. pc \in Int
          BY <1>1
        <4> HIDE DEF notes
        <4> QED BY <3>3, <4>1, <4>2, ExcusedAlike, Zenon
      <3>7. pc' - 1 = pc
        BY <1>1, <3>1
      <3>8. SeenInv'
        <4> SUFFICES ASSUME NEW c \in seen', c.kept, ~c.ok
                     PROVE  Excused(Groups', pc' - 1, c, FALSE)
          BY DEF SeenInv
        <4>1. c \in notes
          BY <3>1
        <4> HIDE DEF notes
        <4>2. Excused(Groups', pc, c, FALSE)
          BY <3>6, <4>1
        <4> QED BY <3>7, <4>2
      <3>9. h' = h
        BY <2>1 DEF h, Laid
      <3>10. StoredReadable'
        BY <1>1, <2>1, <3>9 DEF StoredReadable
      <3> QED BY <3>8, <3>10
    <2> QED BY <2>2, <2>3
  <1> QED BY <1>2, <1>3

LEMMA SeekMarkStores ==
    ASSUME StoredInv, SeekMark
    PROVE  SeenInv' /\ StoredReadable'
  <1> DEFINE g == Groups[pc]
             q == NextMark(pos, Laid[fmt].seek)
             last == IF g.within = NoLimit THEN Limit ELSE Past(pos, At(pos) + g.within)
  <1>1. HeadInv /\ SeenInv /\ StoredReadable /\ pc \in Nat /\ pc > 0 /\ g.seek # {}
    BY DEF StoredInv, HeadInv, SeekMark
  <1>2. CASE last = Limit /\ q > Limit
    <2>1. GiveUp
      BY <1>2, Zenon DEF SeekMark
    <2> QED BY <1>1, <2>1, GiveUpForgets
  <1>3. CASE ~(last = Limit /\ q > Limit)
    <2>1. /\ fmt' = fmt /\ stage' = stage /\ sec' = sec /\ block' = block
          /\ (pc' = pc + 1 /\ seen' = seen) \/ seen' = {}
      BY <1>3, Zenon DEF SeekMark
    <2>2. CASE seen' = {}
      BY <1>1, <2>1, <2>2, Forgets
    <2>3. CASE pc' = pc + 1 /\ seen' = seen
      <3>1. h' = h /\ Groups' = Groups
        BY <2>1 DEF h, Laid, Groups
      <3>2. StoredReadable'
        BY <1>1, <2>1, <3>1 DEF StoredReadable
      <3>3. SeenInv'
        <4> DEFINE G == Groups
                   n == pc
        <4> SUFFICES ASSUME NEW c \in seen, c.kept, ~c.ok
                     PROVE  Excused(G, pc' - 1, c, FALSE)
          BY <2>3, <3>1 DEF SeenInv
        <4>0. pc' - 1 = n
          BY <1>1, <2>3
        <4>1. Excused(G, n - 1, c, FALSE)
          BY <1>1 DEF SeenInv
        <4>2. G[n].seek # {} /\ n \in Nat
          BY <1>1
        <4> HIDE DEF G, n
        <4>3. \A number \in BOOLEAN : Excused(G, n - 1, c, number) => Excused(G, n, c, number)
          BY <4>2, SeekExcused
        <4>4. Excused(G, n, c, FALSE)
          BY <4>1, <4>3
        <4> QED BY <4>0, <4>4
      <3> QED BY <3>2, <3>3
    <2> QED BY <2>1, <2>2, <2>3
  <1> QED BY <1>2, <1>3

LEMMA TakeStores ==
    ASSUME StoredInv, Checked(Laid[fmt]), Take
    PROVE  SeenInv' /\ StoredReadable'
  <1> DEFINE stored == {[n |-> c.n, got |-> c.got, ok |-> c.ok,
                         want |-> IF c.want = Whole THEN sec ELSE c.want] :
                          c \in {x \in seen : x.kept}}
  <1>1. /\ HeadInv /\ SeenInv /\ StoredReadable
        /\ pc = Len(Groups) + 1 /\ block' = block \cup stored /\ fmt' = fmt /\ seen' = {}
    BY Zenon DEF StoredInv, Take
  <1>2. h' = h
    BY <1>1 DEF h, Laid
  <1>3. pc - 1 = Len(Groups)
    <2>1. Len(Groups) \in Nat
      BY <1>1, GroupsAre
    <2> QED BY <1>1, <2>1
  <1>4. ASSUME NEW s \in stored, s.n \notin h.open
        PROVE  s.ok
    <2>1. PICK c \in {x \in seen : x.kept} :
              s = [n |-> c.n, got |-> c.got, ok |-> c.ok,
                   want |-> IF c.want = Whole THEN sec ELSE c.want]
      BY Zenon
    <2>2. c \in seen /\ c.kept
      OBVIOUS
    <2>3. s.n = c.n /\ s.ok = c.ok
      BY <2>1
    <2>4. c.ok \/ Excused(Groups, Len(Groups), c, FALSE)
      BY <1>1, <1>3, <2>2, Zenon DEF SeenInv
    <2>5. c.ok
      <3> SUFFICES ASSUME Excused(Groups, Len(Groups), c, FALSE) PROVE FALSE
        BY <2>4
      <3>1. \A number \in BOOLEAN : Excused(Groups, Len(Groups), c, number) =>
               IF number THEN h.bare ELSE c.n \in h.open
        BY <1>1, NothingExcused
      <3>2. c.n \in h.open
        BY <3>1
      <3> QED BY <1>4, <2>3, <3>2
    <2> QED BY <2>3, <2>5
  <1> HIDE DEF stored
  <1>5. StoredReadable'
    BY <1>1, <1>2, <1>4, Zenon DEF StoredReadable
  <1>6. SeenInv'
    BY <1>1 DEF SeenInv
  <1> QED BY <1>5, <1>6

LEMMA StoredNext ==
    ASSUME \A x \in DOMAIN Formats : Checked(Formats[x]), StoredInv, [Next]_vars
    PROVE  StoredInv'
  <1>1. HeadInv'
    BY HeadNext DEF StoredInv
  <1>2. Checked(Laid[fmt])
    BY Zenon DEF Laid, StoredInv, HeadInv, OnTrack
  <1>3. CASE Scan
    BY <1>1, <1>3, ScanStores DEF StoredInv
  <1>4. CASE ReadGroup
    BY <1>1, <1>4, ReadGroupStores DEF StoredInv
  <1>5. CASE SeekMark
    BY <1>1, <1>5, SeekMarkStores DEF StoredInv
  <1>6. CASE Take
    BY <1>1, <1>2, <1>6, TakeStores DEF StoredInv
  <1>7. CASE UNCHANGED vars
    <2>1. SeenInv' /\ StoredReadable'
      <3>1. /\ fmt' = fmt /\ stage' = stage /\ sec' = sec /\ pc' = pc
            /\ seen' = seen /\ block' = block
        BY <1>7 DEF vars
      <3>2. Groups' = Groups /\ h' = h
        BY <3>1 DEF Groups, Laid, h
      <3> QED BY <3>1, <3>2 DEF StoredInv, SeenInv, StoredReadable
    <2> QED BY <1>1, <2>1 DEF StoredInv
  <1>8. CASE Done
    BY <1>7, <1>8 DEF Done
  <1> QED BY <1>3, <1>4, <1>5, <1>6, <1>7, <1>8 DEF Next

(* No field that could not be read is stored, but those named open: whatever is hurt *)
(* and wherever the scan goes back to or starts again, a checksum over the field has *)
(* been compared since the field was read.                                           *)
THEOREM StoredFieldsRead ==
    ASSUME \A x \in DOMAIN Formats : Checked(Formats[x])
    PROVE  Spec => []StoredReadable
  <1>1. Init => StoredInv
    BY HeadInit DEF Init, StoredInv, SeenInv, StoredReadable
  <1>2. StoredInv /\ [Next]_vars => StoredInv'
    BY StoredNext
  <1>3. StoredInv => StoredReadable
    BY DEF StoredInv
  <1> QED BY <1>1, <1>2, <1>3, PTL DEF Spec

-----------------------------------------------------------------------------
(* A stored field is the one it was wanted as.  After a sync, the handler is where the *)
(* lengths of its fields put it, so what it keeps is the sector's that lies there (or  *)
(* there are no sectors at all), unless a field was read badly and no checksum has     *)
(* shown it yet.                                                                       *)

NumberRead(groups, n) == \E i \in 1..n : \E j \in DOMAIN groups[i].f : Numbers(groups[i].f[j])
SectorOf(x, w) == IF x = Whole THEN w ELSE x

Right(groups, n, number, notes, w) ==
    /\ w = Whole \/ HasNumber(groups)
    /\ number = IF NumberRead(groups, n) THEN w ELSE Whole
    /\ \A c \in notes : c.kept /\ c.ok => c.got = SectorOf(c.want, w)

(* Field q ended the mark; n groups after it the head is at p.                        *)
MarkedBy(q, groups, n, p, w) ==
    /\ Follows(Laid[fmt], groups, Place(q), w)
    /\ n < Len(groups) => At(p) = At(q) + GroupStarts(groups)[n]
Located(groups, n, p, w) ==
    \/ IsWhole(Laid[fmt]) /\ w = Whole
    \/ InLine(Laid[fmt]) /\ \E q \in 1..Limit : MarkedBy(q, groups, n, p, w)

Doubted(groups, n, notes) ==
    \E c \in notes : ~c.ok /\ \E number \in BOOLEAN :
        Excused(groups, n, c, number) /\ (number \/ c.n \notin h.open)

Sited(groups, n, number, p, notes) ==
    \/ Doubted(groups, n, notes)
    \/ \E w : Right(groups, n, number, notes, w) /\ Located(groups, n, p, w)

AsWanted == \A c \in block : c.ok => c.got = c.want
Settled == (InLine(Laid[fmt]) \/ IsWhole(Laid[fmt])) /\ ~h.order /\ ~h.bare
PlacedInv ==
    Settled => /\ AsWanted
               /\ pc > 0 => /\ IsWhole(Laid[fmt]) => sec = Whole
                            /\ Sited(Groups, pc - 1, sec, pos, seen)

LEMMA GroupStartsIs ==
    ASSUME NEW groups, Len(groups) \in Nat,
           \A n \in 1..Len(groups) : IsGroup(groups, n) /\ groups[n].seek = {}
    PROVE  /\ GroupStarts(groups)[0] = 0
           /\ \A n \in 1..Len(groups) : GroupStarts(groups)[n]
                = GroupStarts(groups)[n - 1] + FieldStarts(groups[n].f)[Len(groups[n].f)]
           /\ \A n \in 0..Len(groups) : GroupStarts(groups)[n] \in Nat
  <1> DEFINE N == Len(groups)
             b(n) == FieldStarts(groups[n].f)[Len(groups[n].f)]
             a == [n \in 1..N |-> b(n)]
             s == RunningSums(a, N)
  <1>1. ASSUME NEW n \in 1..N
        PROVE  b(n) \in Nat
    <2>1. Fields(groups[n].f) /\ Len(groups[n].f) > 0
      BY FieldsAre
    <2>2. \A j \in 0..Len(groups[n].f) : FieldStarts(groups[n].f)[j] \in Nat
      BY <2>1, FieldStartsIs
    <2>3. Len(groups[n].f) \in 0..Len(groups[n].f)
      BY <2>1 DEF Fields
    <2> QED BY <2>2, <2>3
  <1> HIDE DEF b
  <1>2. N \in Nat /\ \A n \in 1..N : a[n] = b(n)
    OBVIOUS
  <1>3. \A n \in 1..N : a[n] \in Nat
    BY <1>1, <1>2
  <1> HIDE DEF N, a
  <1>4. s[0] = 0 /\ \A n \in 1..N : s[n] = s[n - 1] + a[n]
    BY <1>2, RunningSumsIs
  <1>5. \A n \in 0..N : s[n] \in Nat
    BY <1>2, <1>3, RunningSumsNat
  <1>6. GroupStarts(groups) = s
    BY Zenon DEF GroupStarts, s, a, N, b
  <1> HIDE DEF s
  <1>7. \A n \in 1..N : s[n] = s[n - 1] + b(n)
    BY <1>2, <1>4
  <1> QED BY <1>4, <1>5, <1>6, <1>7, Zenon DEF N, b

(* A handler in line reads the same groups whatever the sector's number is.           *)
LEMMA LineGroups ==
    ASSUME HeadInv, InLine(Laid[fmt])
    PROVE  /\ Laid[fmt].then = <<>> /\ Groups = Laid[fmt].take[stage]
           /\ \A n \in 1..Len(Groups) : IsSteady(Laid[fmt], Groups, n)
  <1> DEFINE l == Laid[fmt]
  <1>1. stage \in DOMAIN l.take
    BY StagesAre
  <1>2. Groups = IF stage = 1 /\ sec + 1 \in DOMAIN l.then
                 THEN l.take[1] \o l.then[sec + 1] ELSE l.take[stage]
    BY Zenon DEF Groups
  <1> HIDE DEF l
  <1>3. /\ l.then = <<>>
        /\ \A s \in DOMAIN l.take : \A n \in 1..Len(l.take[s]) : IsSteady(l, l.take[s], n)
    BY Zenon DEF InLine, l
  <1>4. DOMAIN l.then = {}
    BY <1>3
  <1>5. Groups = l.take[stage]
    BY <1>2, <1>4
  <1> QED BY <1>1, <1>3, <1>5, Zenon DEF l

(* Where there are no sectors, none is numbered.                                      *)
LEMMA WholeGroups ==
    ASSUME HeadInv, IsWhole(Laid[fmt])
    PROVE  /\ ~HasNumber(Groups) /\ \A n \in 0..Len(Groups) : ~NumberRead(Groups, n)
           /\ \A n \in DOMAIN Groups : \A j \in DOMAIN Groups[n].f :
                Groups[n].f[j].k \in {"keep", "sealed"} => Groups[n].f[j].s = Whole
  <1> DEFINE l == Laid[fmt]
             G == Groups
  <1>1. G \in Lists(l)
    BY GroupsListed
  <1>2. HeadInv /\ IsWhole(l) /\ Len(G) \in Nat /\ DOMAIN G = 1..Len(G)
    BY GroupsAre
  <1> HIDE DEF l, G
  <1>3. ~HasNumber(G) /\ \A n \in DOMAIN G : \A j \in DOMAIN G[n].f :
                G[n].f[j].k \in {"keep", "sealed"} => G[n].f[j].s = Whole
    BY <1>1, <1>2, Zenon DEF IsWhole
  <1>4. \A n \in 0..Len(G) : ~NumberRead(G, n)
    <2>1. \A n \in 0..Len(G) : \A i \in 1..n : i \in DOMAIN G
      BY <1>2
    <2> QED BY <1>3, <2>1, Zenon DEF HasNumber, NumberRead
  <1> QED BY <1>3, <1>4 DEF G

(* What a group keeps is of the sector that lies there.                                *)
LEMMA ReadsSector ==
    ASSUME HeadInv, pc > 0, pc <= Len(Groups), Groups[pc].seek = {},
           NEW w, Located(Groups, pc - 1, pos, w),
           NEW j \in DOMAIN Groups[pc].f, Reading(pos, Groups[pc].f)[j].ok,
           Groups[pc].f[j].k \in {"keep", "sealed"} \/ Numbers(Groups[pc].f[j])
    PROVE  Under(Reading(pos, Groups[pc].f)[j].p).s = SectorOf(Groups[pc].f[j].s, w)
  <1> DEFINE l == Laid[fmt]
             G == Groups
             f == G[pc].f
             r == Reading(pos, f)[j]
  <1>1. /\ pos \in 0..Limit /\ OnTrack /\ pc \in Nat /\ pc \in 1..Len(G) /\ Len(G) \in Nat
        /\ DOMAIN G = 1..Len(G) /\ \A n \in 1..Len(G) : IsGroup(G, n)
    BY GroupsAre DEF HeadInv
  <1>2. Fields(f) /\ Len(f) > 0 /\ DOMAIN f = 1..Len(f) /\ Len(f) \in Nat
    <2>1. IsGroup(G, pc) /\ G[pc].seek = {}
      BY <1>1
    <2> HIDE DEF G
    <2>2. Fields(f) /\ Len(f) > 0 /\ DOMAIN f = 1..Len(f)
      BY <2>1, FieldsAre
    <2> QED BY <2>2 DEF Fields
  <1>3. j \in 1..Len(f)
    BY <1>2
  <1>4. CASE IsWhole(l) /\ w = Whole
    <2>1. ~HasNumber(G) /\ (f[j].k \in {"keep", "sealed"} => f[j].s = Whole)
      BY <1>1, <1>4, WholeGroups
    <2>2. f[j].s = Whole
      BY <1>1, <2>1, Zenon DEF HasNumber
    <2>3. PICK z : ReadsStep(pos, f, z)
      <3> HIDE DEF f
      <3> QED BY <1>1, <1>2, ReadingSteps
    <2>4. r \in Reads
      <3>1. z \in Seq(Reads) /\ Len(z) = Len(f) + 1 /\ r = z[j + 1]
        BY <1>3, <2>3, Zenon DEF ReadsStep
      <3>2. j + 1 \in 1..(Len(f) + 1)
        BY <1>2, <1>3
      <3> HIDE DEF f, r
      <3> QED BY <3>1, <3>2
    <2>5. r.p \in Nat
      <3> HIDE DEF r
      <3>1. r.p \in 0..Limit /\ Limit \in Nat
        BY <1>1, <2>4, TrackIs DEF Reads
      <3> QED BY <3>1
    <2>6. Place(r.p) \in 1..Length
      <3> HIDE DEF r
      <3> QED BY <1>1, <2>5, TrackIs
    <2>7. l.trk[Place(r.p)].s = Whole
      <3> HIDE DEF r
      <3>1. \A i \in 1..Len(l.trk) : l.trk[i].s = Whole
        BY <1>4, Zenon DEF IsWhole
      <3>2. Length = Len(l.trk)
        BY Zenon DEF Length, Track
      <3> HIDE DEF l
      <3> QED BY <2>6, <3>1, <3>2
    <2> QED BY <1>4, <2>2, <2>7, Zenon DEF SectorOf, Under, Track
  <1>5. CASE InLine(l) /\ \E q \in 1..Limit : MarkedBy(q, G, pc - 1, pos, w)
    <2>1. PICK q \in 1..Limit : MarkedBy(q, G, pc - 1, pos, w)
      BY <1>5
    <2>2. /\ Follows(l, G, Place(q), w)
          /\ pc - 1 < Len(G) => At(pos) = At(q) + GroupStarts(G)[pc - 1]
      BY <2>1, Zenon DEF MarkedBy
    <2>3. /\ \A n \in 1..Len(G) : IsSteady(l, G, n)
      BY <1>5, LineGroups
    <2>4. \A n \in 1..Len(G) : G[n].seek = {} /\ \A i \in DOMAIN G[n].f : G[n].f[i].k # "fill"
      <3> HIDE DEF G
      <3> QED BY <2>3, Zenon DEF IsSteady
    <2>5. GroupStarts(G)[pc - 1] \in Nat
      <3>1. \A n \in 0..Len(G) : GroupStarts(G)[n] \in Nat
        <4> HIDE DEF G
        <4> QED BY <1>1, <2>4, GroupStartsIs
      <3>2. pc - 1 \in 0..Len(G)
        BY <1>1
      <3> QED BY <3>1, <3>2
    <2>6. FieldsInLine(pos, f)
      <3>1. \A i \in 1..Len(f) : f[i].k # "fill"
        BY <1>1, <1>2, <2>4
      <3> HIDE DEF f
      <3> QED BY <1>1, <1>2, <3>1, ReadingInLine
    <2>7. PICK m \in 0..Limit : /\ r.p = m + 1 /\ At(m) = At(pos) + FieldStarts(f)[j - 1]
      <3> HIDE DEF f
      <3> QED BY <1>3, <2>6, Zenon DEF FieldsInLine, f
    <2>8. FieldStarts(f)[j - 1] \in Nat
      <3> HIDE DEF f
      <3>1. \A i \in 0..Len(f) : FieldStarts(f)[i] \in Nat
        BY <1>2, FieldStartsIs
      <3>2. j - 1 \in 0..Len(f)
        BY <1>2, <1>3
      <3> QED BY <3>1, <3>2
    <2> DEFINE bits == GroupStarts(G)[pc - 1] + FieldStarts(f)[j - 1]
    <2>9. bits \in Int /\ At(m) = At(q) + bits
      <3> DEFINE x == GroupStarts(G)[pc - 1]
                 y == FieldStarts(f)[j - 1]
                 u == At(m)
                 v == At(q)
                 o == At(pos)
      <3>1. o = v + x /\ u = o + y /\ x \in Int /\ y \in Int
        BY <1>1, <2>2, <2>5, <2>7, <2>8
      <3>2. v \in Int /\ o \in Int /\ u \in Int
        BY <1>1, TrackIs
      <3> HIDE DEF x, y, u, v, o
      <3>3. x + y \in Int /\ u = v + (x + y)
        BY <3>1, <3>2
      <3> QED BY <3>3 DEF x, y, u, v
    <2> HIDE DEF bits
    <2>10. q \in Nat /\ q > 0 /\ m \in Nat /\ Limit \in Nat
      BY <1>1, TrackIs
    <2>11. LiesAt(l, Place(q), bits, Place(m + 1))
      BY <1>1, <2>9, <2>10, LiesOf
    <2>12. Place(m + 1) \in 1..Len(l.trk)
      <3>1. m + 1 \in Nat
        BY <2>10
      <3>2. Place(m + 1) \in 1..Length
        BY <1>1, <3>1, TrackIs
      <3> QED BY <3>2, Zenon DEF Length, Track
    <2>13. j \in DOMAIN f /\ (f[j].k \in {"keep", "sealed"} \/ Numbers(f[j]))
      OBVIOUS
    <2>14. l.trk[Place(m + 1)].s = IF f[j].s = Whole THEN w ELSE f[j].s
      <3>1. pc \in DOMAIN G
        BY <1>1
      <3> HIDE DEF l, G
      <3> QED BY <2>2, <2>11, <2>12, <2>13, <3>1, Zenon DEF Follows, bits, f
    <2> QED BY <2>7, <2>14, Zenon DEF SectorOf, Under, Track
  <1> QED BY <1>4, <1>5, Zenon DEF Located

(* A firm field shows that the handler is in step.                                     *)
LEMMA FirmSees ==
    ASSUME NEW l, NEW x, IsFirm(l, x), NEW r, NEW notes, Passes(x, r, notes),
           x.k = "keep" /\ x.v \notin l.h.open => r.ok
    PROVE  r.ok
  <1>1. CASE x.k = "is"
    BY <1>1 DEF Passes
  <1>2. CASE x.k = "sealed"
    BY <1>2, SealedSees
  <1>3. CASE x.k = "sum"
    BY <1>3 DEF Passes
  <1>4. CASE x.k = "sec" /\ x.s # Whole
    BY <1>4 DEF Passes
  <1>5. x.k \in {"is", "sealed", "sum"} \/ (x.k = "sec" /\ x.s # Whole) \/ r.ok
    BY Zenon DEF IsFirm
  <1> QED BY <1>1, <1>2, <1>3, <1>4, <1>5

(* A group whose checks have passed read its number, and what must be checked, well;   *)
(* or a field of it is doubted.                                                        *)
ReadWell(f, at) ==
    \A j \in DOMAIN f : Numbers(f[j]) \/ (f[j].k = "keep" /\ f[j].v \notin h.open) => at[j].ok

LEMMA GroupDoubts ==
    ASSUME NEW groups, NEW n \in Nat, n > 0, NEW at, NEW notes,
           NotesOfGroup(groups, n, at, notes), ~ReadWell(groups[n].f, at)
    PROVE  Doubted(groups, n, notes)
  <1> DEFINE f == groups[n].f
  <1>1. PICK j \in DOMAIN f : /\ Numbers(f[j]) \/ (f[j].k = "keep" /\ f[j].v \notin h.open)
                              /\ ~at[j].ok
    BY Zenon DEF ReadWell
  <1>2. f[j].k \in {"is", "skip", "keep", "sealed", "sec"}
    BY <1>1 DEF Numbers
  <1>3. PICK c \in Notes(f, at) : NoteOf(c, f[j], at[j])
    <2> HIDE DEF f
    <2> QED BY <1>2, NotesAre
  <1>4. c.n = f[j].v /\ c.want = f[j].s /\ ~c.ok /\ c \in notes
    BY <1>1, <1>3 DEF NoteOf, NotesOfGroup
  <1>5. CASE Numbers(f[j])
    <2> DEFINE number == TRUE
    <2>1. Needs(f[j], number) /\ number \in BOOLEAN
      BY <1>5 DEF Needs
    <2> HIDE DEF number
    <2>2. Excused(groups, n, c, number)
      BY <1>4, <2>1, NewExcused
    <2>3. number
      BY DEF number
    <2> QED BY <1>4, <2>1, <2>2, <2>3, Zenon DEF Doubted
  <1>6. CASE f[j].k = "keep" /\ f[j].v \notin h.open
    <2> DEFINE number == FALSE
    <2>1. Needs(f[j], number) /\ number \in BOOLEAN
      BY <1>6 DEF Needs
    <2> HIDE DEF number
    <2>2. Excused(groups, n, c, number)
      BY <1>4, <2>1, NewExcused
    <2>3. c.n \notin h.open
      BY <1>4, <1>6
    <2> QED BY <1>4, <2>1, <2>2, <2>3, Zenon DEF Doubted
  <1> QED BY <1>1, <1>5, <1>6

LEMMA StaysDoubted ==
    ASSUME NEW groups, NEW n \in Nat, n > 0, NEW at, NEW notes,
           NotesOfGroup(groups, n, at, notes), Doubted(groups, n - 1, seen)
    PROVE  Doubted(groups, n, notes)
  <1>1. PICK c \in seen : ~c.ok /\ \E number \in BOOLEAN :
            Excused(groups, n - 1, c, number) /\ (number \/ c.n \notin h.open)
    BY Zenon DEF Doubted
  <1>2. PICK number \in BOOLEAN : Excused(groups, n - 1, c, number) /\ (number \/ c.n \notin h.open)
    BY <1>1
  <1>3. c \in notes
    BY DEF NotesOfGroup
  <1>4. Excused(groups, n, c, number)
    BY <1>1, <1>2, <1>3, StaysExcused
  <1> QED BY <1>1, <1>2, <1>3, <1>4, Zenon DEF Doubted

LEMMA NumberReads ==
    ASSUME NEW groups, NEW n \in Nat, n > 0
    PROVE  NumberRead(groups, n) <=>
               NumberRead(groups, n - 1) \/ \E j \in DOMAIN groups[n].f : Numbers(groups[n].f[j])
  <1>1. \A i \in 1..n : i \in 1..(n - 1) \/ i = n
    OBVIOUS
  <1>2. n \in 1..n /\ \A i \in 1..(n - 1) : i \in 1..n
    OBVIOUS
  <1> QED BY <1>1, <1>2, Zenon DEF NumberRead

(* The number a group yields, and what it keeps, are of the sector that lies there.    *)
LEMMA GroupRight ==
    ASSUME HeadInv, pc > 0, pc <= Len(Groups),
           NEW w, Right(Groups, pc - 1, sec, seen, w), Located(Groups, pc - 1, pos, w),
           NEW notes, NotesOfGroup(Groups, pc, Reading(pos, Groups[pc].f), notes),
           ReadWell(Groups[pc].f, Reading(pos, Groups[pc].f)),
           NEW k \in SectorsRead(Groups[pc].f, Reading(pos, Groups[pc].f))
    PROVE  Right(Groups, pc, k, notes, w)
  <1> DEFINE G == Groups
             f == G[pc].f
             at == Reading(pos, f)
             js == {j \in DOMAIN f : Numbers(f[j])}
  <1>1. /\ w = Whole \/ HasNumber(G)
        /\ sec = IF NumberRead(G, pc - 1) THEN w ELSE Whole
        /\ \A c \in seen : c.kept /\ c.ok => c.got = SectorOf(c.want, w)
    BY Zenon DEF Right
  <1>2. /\ G[pc].seek = {} /\ notes = seen \cup Notes(f, at) /\ pc \in Nat
    BY Zenon DEF NotesOfGroup, HeadInv
  <1>3. ASSUME NEW j \in DOMAIN f, at[j].ok, f[j].k \in {"keep", "sealed"} \/ Numbers(f[j])
        PROVE  Under(at[j].p).s = SectorOf(f[j].s, w)
    BY <1>2, <1>3, ReadsSector
  <1>4. ASSUME NEW c \in notes, c.kept, c.ok
        PROVE  c.got = SectorOf(c.want, w)
    <2>1. CASE c \in seen
      BY <1>1, <1>4, <2>1
    <2>2. CASE c \in Notes(f, at)
      <3>1. PICK j \in DOMAIN f : NoteOf(c, f[j], at[j])
        <4> HIDE DEF f, at
        <4> QED BY <2>2, NotesAre
      <3>2. at[j].ok /\ f[j].k \in {"keep", "sealed"} /\ c.got = Under(at[j].p).s /\ c.want = f[j].s
        <4> HIDE DEF f, at
        <4> QED BY <1>4, <3>1 DEF NoteOf
      <3>3. Under(at[j].p).s = SectorOf(f[j].s, w)
        <4> HIDE DEF f, at
        <4> QED BY <1>3, <3>2
      <3> HIDE DEF f, at
      <3> QED BY <3>2, <3>3, Zenon
    <2> QED BY <1>2, <2>1, <2>2
  <1>5. NumberRead(G, pc) <=> NumberRead(G, pc - 1) \/ js # {}
    <2>1. NumberRead(G, pc) <=>
               NumberRead(G, pc - 1) \/ \E j \in DOMAIN f : Numbers(f[j])
      BY <1>2, NumberReads
    <2> HIDE DEF f
    <2>2. js # {} <=> \E j \in DOMAIN f : Numbers(f[j])
      OBVIOUS
    <2> HIDE DEF js
    <2> QED BY <2>1, <2>2
  <1>6. k = IF NumberRead(G, pc) THEN w ELSE Whole
    <2>0. k \in IF js = {} THEN {sec}
                ELSE LET j == CHOOSE j \in js : TRUE IN
                     IF at[j].ok THEN {Under(at[j].p).s} ELSE (AllSectors \ taken) \cup {Whole}
      BY Zenon DEF SectorsRead
    <2>1. CASE js = {}
      <3>1. k = sec
        <4> HIDE DEF js
        <4> QED BY <2>0, <2>1
      <3> HIDE DEF js, G
      <3> QED BY <1>1, <1>5, <2>1, <3>1
    <2>2. CASE js # {}
      <3> DEFINE i == CHOOSE j \in js : TRUE
      <3>1. i \in js
        <4> HIDE DEF js
        <4> QED BY <2>2
      <3>2. k \in IF at[i].ok THEN {Under(at[i].p).s} ELSE (AllSectors \ taken) \cup {Whole}
        <4> HIDE DEF js, at
        <4> QED BY <2>0, <2>2
      <3> HIDE DEF i
      <3>3. i \in DOMAIN f /\ Numbers(f[i])
        <4> HIDE DEF f
        <4> QED BY <3>1
      <3>4. at[i].ok
        BY <3>3, Zenon DEF ReadWell
      <3>5. k = Under(at[i].p).s
        <4> HIDE DEF at
        <4> QED BY <3>2, <3>4
      <3>6. Under(at[i].p).s = SectorOf(f[i].s, w)
        <4> HIDE DEF at, f
        <4> QED BY <1>3, <3>3, <3>4
      <3>7. f[i].s = Whole
        <4> HIDE DEF f
        <4> QED BY <3>3 DEF Numbers
      <3>8. SectorOf(f[i].s, w) = w
        <4> HIDE DEF f
        <4> QED BY <3>7 DEF SectorOf
      <3>9. k = w
        <4> HIDE DEF at, f
        <4> QED BY <3>5, <3>6, <3>8
      <3> HIDE DEF js, G
      <3> QED BY <1>5, <2>2, <3>9
    <2> QED BY <2>1, <2>2
  <1> HIDE DEF G, f, at, js
  <1> QED BY <1>1, <1>4, <1>6, Zenon DEF Right, G

(* A handler that found its sector's fields in line is in line after them.             *)
LEMMA GroupLocated ==
    ASSUME HeadInv, pc > 0, pc <= Len(Groups), NEW w, Located(Groups, pc - 1, pos, w),
           NEW notes, NotesOfGroup(Groups, pc, Reading(pos, Groups[pc].f), notes),
           ReadWell(Groups[pc].f, Reading(pos, Groups[pc].f))
    PROVE  Located(Groups, pc, Reading(pos, Groups[pc].f)[Len(Groups[pc].f)].p, w)
  <1> DEFINE l == Laid[fmt]
             G == Groups
             f == G[pc].f
             N == Len(f)
             end == Reading(pos, f)[N]
  <1>1. /\ pos \in 0..Limit /\ OnTrack /\ pc \in Nat /\ pc \in 1..Len(G) /\ Len(G) \in Nat
        /\ DOMAIN G = 1..Len(G) /\ \A n \in 1..Len(G) : IsGroup(G, n)
    BY GroupsAre DEF HeadInv
  <1>2. Fields(f) /\ N > 0 /\ DOMAIN f = 1..N /\ N \in Nat
    <2>1. IsGroup(G, pc) /\ G[pc].seek = {}
      BY <1>1 DEF NotesOfGroup
    <2> HIDE DEF G
    <2>2. Fields(f) /\ Len(f) > 0 /\ DOMAIN f = 1..Len(f)
      BY <2>1, FieldsAre
    <2> QED BY <2>2 DEF Fields
  <1>3. CASE IsWhole(l) /\ w = Whole
    BY <1>3, Zenon DEF Located
  <1>4. CASE InLine(l) /\ \E q \in 1..Limit : MarkedBy(q, G, pc - 1, pos, w)
    <2>1. PICK q \in 1..Limit : MarkedBy(q, G, pc - 1, pos, w)
      BY <1>4
    <2>2. /\ Follows(l, G, Place(q), w)
          /\ pc - 1 < Len(G) => At(pos) = At(q) + GroupStarts(G)[pc - 1]
      BY <2>1, Zenon DEF MarkedBy
    <2>3. \A n \in 1..Len(G) : IsSteady(l, G, n)
      BY <1>4, LineGroups
    <2>4. /\ \A n \in 1..Len(G) : G[n].seek = {} /\ \A i \in DOMAIN G[n].f : G[n].f[i].k # "fill"
          /\ pc < Len(G) => IsFirm(l, f[N])
      <3>1. pc \in 1..Len(G)
        BY <1>1
      <3> HIDE DEF G
      <3> QED BY <2>3, <3>1, Zenon DEF IsSteady
    <2>5. ASSUME pc < Len(G)
          PROVE  At(end.p) = At(q) + GroupStarts(G)[pc]
      <3>1. end.ok
        <4>1. N \in DOMAIN f
          BY <1>2
        <4>2. Passes(f[N], end, notes)
          <5> HIDE DEF f, N
          <5> QED BY <4>1, Zenon DEF NotesOfGroup, f
        <4>3. f[N].k = "keep" /\ f[N].v \notin l.h.open => end.ok
          <5> HIDE DEF f, N
          <5> QED BY <4>1, Zenon DEF ReadWell, f, h
        <4>4. IsFirm(l, f[N])
          BY <2>4, <2>5
        <4> HIDE DEF f, N, end, l
        <4> QED BY <4>2, <4>3, <4>4, FirmSees
      <3>2. FieldsInLine(pos, f)
        <4>1. \A i \in 1..Len(f) : f[i].k # "fill"
          BY <1>1, <1>2, <2>4
        <4> HIDE DEF f
        <4> QED BY <1>1, <1>2, <4>1, ReadingInLine
      <3>3. At(end.p) = At(pos) + FieldStarts(f)[N]
        <4>1. N \in 1..N
          BY <1>2
        <4>2. ~end.lost
          <5> HIDE DEF f
          <5> QED BY <3>1, <3>2, <4>1, Zenon DEF FieldsInLine, N, end
        <4> HIDE DEF f
        <4> QED BY <3>2, <4>2, Zenon DEF FieldsInLine, N, end
      <3>4. FieldStarts(f)[N] \in Nat
        <4> HIDE DEF f, N
        <4>1. \A i \in 0..Len(f) : FieldStarts(f)[i] \in Nat
          BY <1>2, FieldStartsIs
        <4>2. N \in 0..N /\ N = Len(f)
          BY <1>2 DEF N
        <4> QED BY <4>1, <4>2
      <3>5. /\ \A n \in 1..Len(G) : GroupStarts(G)[n] = GroupStarts(G)[n - 1] + FieldStarts(G[n].f)[Len(G[n].f)]
            /\ \A n \in 0..Len(G) : GroupStarts(G)[n] \in Nat
        <4> HIDE DEF G
        <4> QED BY <1>1, <2>4, GroupStartsIs
      <3>6. GroupStarts(G)[pc] = GroupStarts(G)[pc - 1] + FieldStarts(f)[N] /\ GroupStarts(G)[pc - 1] \in Nat
        <4>1. pc - 1 \in 0..Len(G) /\ pc \in 1..Len(G)
          BY <1>1
        <4> HIDE DEF G
        <4> QED BY <3>5, <4>1 DEF f, N
      <3>7. pc - 1 < Len(G)
        BY <1>1
      <3>8. q \in Nat /\ pos \in Nat
        BY <1>1, TrackIs
      <3> DEFINE a == GroupStarts(G)[pc - 1]
                 b == FieldStarts(f)[N]
                 c == GroupStarts(G)[pc]
                 u == At(q)
                 v == At(pos)
                 o == At(end.p)
      <3>9. o = v + b /\ v = u + a /\ c = a + b /\ a \in Int /\ b \in Int
        BY <2>2, <3>3, <3>4, <3>6, <3>7
      <3>11. u \in Int /\ v \in Int
        <4>1. \A p \in Nat : At(p) \in Int
          BY <1>1, TrackIs
        <4> QED BY <3>8, <4>1
      <3> HIDE DEF a, b, c, u, v, o
      <3>10. o = u + c
        BY <3>9, <3>11
      <3> QED BY <3>10 DEF o, u, c
    <2>6. MarkedBy(q, G, pc, end.p, w)
      BY <2>2, <2>5, Zenon DEF MarkedBy
    <2> QED BY <1>4, <2>6, Zenon DEF Located
  <1> QED BY <1>3, <1>4, Zenon DEF Located

LEMMA GroupSites ==
    ASSUME HeadInv, pc > 0, pc <= Len(Groups), Sited(Groups, pc - 1, sec, pos, seen),
           NEW notes, NotesOfGroup(Groups, pc, Reading(pos, Groups[pc].f), notes),
           NEW k \in SectorsRead(Groups[pc].f, Reading(pos, Groups[pc].f))
    PROVE  Sited(Groups, pc, k, Reading(pos, Groups[pc].f)[Len(Groups[pc].f)].p, notes)
  <1> DEFINE G == Groups
             n == pc
             at == Reading(pos, G[n].f)
  <1>1. n \in Nat /\ n > 0 /\ NotesOfGroup(G, n, at, notes)
    BY DEF HeadInv
  <1>2. CASE Doubted(G, n - 1, seen)
    <2>1. Doubted(G, n - 1, seen)
      BY <1>2
    <2> HIDE DEF G, n, at
    <2>2. Doubted(G, n, notes)
      BY <1>1, <2>1, StaysDoubted
    <2> QED BY <2>2, Zenon DEF Sited, G, n, at
  <1>3. CASE ~ReadWell(G[n].f, at)
    <2>1. ~ReadWell(G[n].f, at)
      BY <1>3
    <2> HIDE DEF G, n, at
    <2>2. Doubted(G, n, notes)
      BY <1>1, <2>1, GroupDoubts
    <2> QED BY <2>2, Zenon DEF Sited, G, n, at
  <1>4. CASE ReadWell(G[n].f, at) /\ ~Doubted(G, n - 1, seen)
    <2>1. PICK w : Right(Groups, pc - 1, sec, seen, w) /\ Located(Groups, pc - 1, pos, w)
      BY <1>4, Zenon DEF Sited
    <2>2. ReadWell(Groups[pc].f, Reading(pos, Groups[pc].f))
      BY <1>4
    <2>3. Right(Groups, pc, k, notes, w)
      BY <2>1, <2>2, GroupRight
    <2>4. Located(Groups, pc, Reading(pos, Groups[pc].f)[Len(Groups[pc].f)].p, w)
      BY <2>1, <2>2, GroupLocated
    <2> QED BY <2>3, <2>4, Zenon DEF Sited
  <1> QED BY <1>2, <1>3, <1>4

(* Where a sector is does not depend on the step.                                      *)
LEMMA SitedThen ==
    ASSUME SameTrack, Sited(Groups', pc' - 1, sec', pos', seen')
    PROVE  Sited(Groups, pc - 1, sec, pos, seen)'
  <1>1. Laid[fmt]' = Laid[fmt] /\ h' = h /\ Limit' = Limit
    BY DEF SameTrack, Laid, h, Limit, Length, Track
  <1>2. \A q : Place(q)' = Place(q) /\ At(q)' = At(q)
    BY DEF SameTrack, Place, At, Wrap, Offset, TrackBits, Length, Track, Laid
  <1>3. CASE Doubted(Groups', pc' - 1, seen')
    <2>1. Doubted(Groups, pc - 1, seen)'
      BY <1>1, <1>3, Zenon DEF Doubted
    <2> QED BY <2>1, Zenon DEF Sited
  <1>4. CASE ~Doubted(Groups', pc' - 1, seen')
    <2>1. PICK w : Right(Groups', pc' - 1, sec', seen', w) /\ Located(Groups', pc' - 1, pos', w)
      BY <1>4, Zenon DEF Sited
    <2>2. Right(Groups, pc - 1, sec, seen, w)'
      BY <2>1, Zenon DEF Right
    <2>3. ASSUME NEW q, MarkedBy(q, Groups', pc' - 1, pos', w)
          PROVE  MarkedBy(q, Groups, pc - 1, pos, w)'
      <3>1. At(pos') = At(pos)'
        BY DEF SameTrack, At, Offset, TrackBits, Length, Track, Laid
      <3> QED BY <1>1, <1>2, <2>3, <3>1, Zenon DEF MarkedBy
    <2>4. Located(Groups, pc - 1, pos, w)'
      BY <1>1, <2>1, <2>3, Zenon DEF Located
    <2> QED BY <2>2, <2>4, Zenon DEF Sited
  <1> QED BY <1>3, <1>4

LEMMA SettledSame ==
    ASSUME SameTrack
    PROVE  /\ Settled' <=> Settled
           /\ InLine(Laid[fmt])' <=> InLine(Laid[fmt])
           /\ IsWhole(Laid[fmt])' <=> IsWhole(Laid[fmt])
  <1>1. Laid[fmt]' = Laid[fmt] /\ h' = h
    BY DEF SameTrack, Laid, h
  <1> QED BY <1>1, Zenon DEF Settled

LEMMA NothingSited ==
    ASSUME PlacedInv, SameTrack, block' = block, pc' = 0
    PROVE  PlacedInv'
  <1>1. Settled' <=> Settled
    BY SettledSame
  <1>2. AsWanted => AsWanted'
    BY DEF AsWanted
  <1>3. ~(pc' > 0)
    OBVIOUS
  <1> QED BY <1>1, <1>2, <1>3, Zenon DEF PlacedInv

LEMMA GiveUpPlaces ==
    ASSUME PlacedInv, GiveUp
    PROVE  PlacedInv'
  BY NothingSited DEF GiveUp, SameTrack

(* A step of a settled handler that leaves the block and the number of no sector.      *)
LEMMA SitedStep ==
    ASSUME PlacedInv, SameTrack, block' = block,
           Settled => /\ IsWhole(Laid[fmt]) => sec' = Whole
                      /\ Sited(Groups', pc' - 1, sec', pos', seen')
    PROVE  PlacedInv'
  <1>1. /\ Settled' <=> Settled
        /\ IsWhole(Laid[fmt])' <=> IsWhole(Laid[fmt])
    BY SettledSame
  <1>2. AsWanted => AsWanted'
    BY DEF AsWanted
  <1>3. Sited(Groups', pc' - 1, sec', pos', seen') => Sited(Groups, pc - 1, sec, pos, seen)'
    BY SitedThen
  <1> QED BY <1>1, <1>2, <1>3, Zenon DEF PlacedInv

(* With no sectors, nothing has to lie anywhere.                                       *)
LEMMA WholeSited ==
    ASSUME IsWhole(Laid[fmt]), NEW groups, NEW n, NEW p
    PROVE  Sited(groups, n, Whole, p, {})
  <1>1. Right(groups, n, Whole, {}, Whole)
    BY DEF Right
  <1>2. Located(groups, n, p, Whole)
    BY DEF Located
  <1> QED BY <1>1, <1>2, Zenon DEF Sited

(* The field that ends a mark tells what lies after it.                                *)
LEMMA MarkSites ==
    ASSUME HeadInv, InLine(Laid[fmt]), NEW q \in 1..Limit,
           EndsThere(Laid[fmt].sync[stage], q)
    PROVE  Sited(Groups, 0, Whole, q, {})
  <1> DEFINE l == Laid[fmt]
             i == Place(q)
             G == Groups
  <1>1. /\ OnTrack /\ Limit \in Nat /\ stage \in DOMAIN l.take
        /\ G = l.take[stage] /\ \A n \in 1..Len(G) : IsSteady(l, G, n)
    BY TrackIs, StagesAre, LineGroups DEF HeadInv
  <1>2. q \in Nat /\ q > 0 /\ q <= Limit
    BY <1>1
  <1>3. i \in 1..Len(l.trk) /\ At(q) \in Int
    <2>1. i \in 1..Length /\ At(q) \in Int
      BY <1>1, <1>2, TrackIs
    <2> QED BY <2>1, Zenon DEF Length, Track
  <1>4. l.sync[stage].ends[i] # {}
    BY <1>2, Zenon DEF EndsThere
  <1>5. PICK w : (w = Whole \/ HasNumber(G)) /\ Follows(l, G, i, w)
    <2>1. InLine(l)
      OBVIOUS
    <2> HIDE DEF l, i, G
    <2> QED BY <1>1, <1>3, <1>4, <2>1, Zenon DEF InLine
  <1>6. Right(G, 0, Whole, {}, w)
    <2>1. ~NumberRead(G, 0)
      <3>1. \A k \in 1..0 : FALSE
        OBVIOUS
      <3> QED BY <3>1, Zenon DEF NumberRead
    <2> HIDE DEF G
    <2> QED BY <1>5, <2>1 DEF Right
  <1>7. GroupStarts(G)[0] = 0
    <2>1. /\ Len(G) \in Nat /\ \A n \in 1..Len(G) : IsGroup(G, n)
      BY GroupsAre
    <2> HIDE DEF G, l
    <2>2. \A n \in 1..Len(G) : G[n].seek = {}
      BY <1>1, Zenon DEF IsSteady
    <2> QED BY <2>1, <2>2, GroupStartsIs
  <1>8. MarkedBy(q, G, 0, q, w)
    <2> DEFINE u == At(q)
               v == GroupStarts(G)[0]
    <2>1. u \in Int /\ v = 0
      BY <1>3, <1>7
    <2> HIDE DEF u, v
    <2>2. u = u + v
      BY <2>1
    <2>3. At(q) = At(q) + GroupStarts(G)[0]
      BY <2>2 DEF u, v
    <2> HIDE DEF G
    <2> QED BY <1>5, <2>3, Zenon DEF MarkedBy, l, i
  <1>9. Located(G, 0, q, w)
    <2> HIDE DEF G
    <2> QED BY <1>8, Zenon DEF Located
  <1> QED BY <1>6, <1>9, Zenon DEF Sited

LEMMA GroupsStay ==
    ASSUME HeadInv, SameTrack, stage' = stage, Settled, IsWhole(Laid[fmt]) => sec' = sec
    PROVE  Groups' = Groups
  <1> DEFINE l == Laid[fmt]
  <1>1. l' = l
    BY DEF SameTrack, Laid
  <1>2. Groups = IF stage = 1 /\ sec + 1 \in DOMAIN l.then
                 THEN l.take[1] \o l.then[sec + 1] ELSE l.take[stage]
    BY Zenon DEF Groups
  <1>3. Groups' = IF stage = 1 /\ sec' + 1 \in DOMAIN l.then
                  THEN l.take[1] \o l.then[sec' + 1] ELSE l.take[stage]
    BY <1>1, Zenon DEF Groups
  <1>4. CASE InLine(l)
    <2>1. l.then = <<>>
      BY <1>4, LineGroups
    <2> HIDE DEF l
    <2>2. DOMAIN l.then = {}
      BY <2>1
    <2> QED BY <1>2, <1>3, <2>2
  <1>5. CASE IsWhole(l)
    <2>1. sec' = sec
      BY <1>5
    <2> HIDE DEF l
    <2> QED BY <1>2, <1>3, <2>1, Zenon
  <1> QED BY <1>4, <1>5, Zenon DEF Settled

LEMMA ScanPlaces ==
    ASSUME HeadInv, PlacedInv, Scan
    PROVE  PlacedInv'
  <1> DEFINE m == Laid[fmt].sync[stage]
             q == NextMark(pos, m)
  <1>1. pos \in 0..Limit /\ Limit \in Nat /\ OnTrack
    BY TrackIs DEF HeadInv
  <1>2. q \in Nat /\ q > pos /\ EndsThere(m, q)
    BY <1>1, MarksLeap, NextMarkIs
  <1>3. CASE q > Limit
    <2>1. GiveUp
      BY <1>3 DEF Scan
    <2> QED BY <2>1, GiveUpPlaces
  <1>4. CASE ~(q > Limit)
    <2>1. /\ pos' = q /\ seen' = {} /\ SameTrack /\ stage' = stage /\ block' = block
          /\ ~h.bysync => /\ pc' = 1
                          /\ sec' = IF stage = 2 THEN Whole
                                    ELSE IF h.order THEN Cardinality(taken) ELSE Whole
      BY <1>4, Zenon DEF Scan, SameTrack
    <2> HIDE DEF q, m
    <2>2. q \in 1..Limit
      BY <1>1, <1>2, <1>4
    <2>3. ASSUME Settled
          PROVE  /\ IsWhole(Laid[fmt]) => sec' = Whole
                 /\ Sited(Groups', pc' - 1, sec', pos', seen')
      <3>1. ~h.bysync /\ ~h.order
        BY <2>3, Zenon DEF Settled, InLine, IsWhole, h
      <3>2. pc' = 1 /\ sec' = Whole
        BY <2>1, <3>1, Zenon
      <3>3. pc' - 1 = 0
        BY <3>2
      <3>4. CASE IsWhole(Laid[fmt])
        <4>1. Sited(Groups', pc' - 1, Whole, pos', {})
          BY <3>4, WholeSited
        <4> QED BY <2>1, <3>2, <4>1, Zenon
      <3>5. CASE ~IsWhole(Laid[fmt])
        <4>1. InLine(Laid[fmt])
          BY <2>3, <3>5 DEF Settled
        <4>2. Sited(Groups, 0, Whole, q, {})
          BY <1>2, <2>2, <4>1, MarkSites DEF m
        <4>3. Groups' = Groups
          BY <2>1, <2>3, <3>5, GroupsStay
        <4> QED BY <2>1, <3>2, <3>3, <3>5, <4>2, <4>3, Zenon
      <3> QED BY <3>4, <3>5
    <2> QED BY <2>1, <2>3, SitedStep
  <1> QED BY <1>3, <1>4

LEMMA ReadGroupPlaces ==
    ASSUME HeadInv, PlacedInv, ReadGroup
    PROVE  PlacedInv'
  <1> DEFINE g == Groups[pc]
             at == Reading(pos, g.f)
             notes == seen \cup Notes(g.f, at)
             end == at[Len(g.f)]
             numbers == \E j \in DOMAIN g.f : Numbers(g.f[j])
             good(k) == /\ \A j \in DOMAIN g.f : Passes(g.f[j], at[j], notes)
                        /\ numbers => k # Whole
  <1>1. pc \in Nat /\ pc > 0 /\ pc <= Len(Groups) /\ g.seek = {} /\ pc \in 1..Len(Groups)
    <2>1. pc \in Nat /\ pc > 0 /\ pc <= Len(Groups) /\ g.seek = {}
      BY DEF HeadInv, ReadGroup
    <2> QED BY <2>1, GroupsAre
  <1>2. CASE end.p = Limit /\ end.lost
    <2>1. GiveUp
      BY <1>2, Zenon DEF ReadGroup
    <2> QED BY <2>1, GiveUpPlaces
  <1>3. CASE ~(end.p = Limit /\ end.lost)
    <2>1. PICK k \in SectorsRead(g.f, at) :
              /\ pos' = end.p /\ sec' = k
              /\ seen' = IF good(k) THEN notes ELSE {}
              /\ pc' = IF good(k) THEN pc + 1
                       ELSE IF g.bad = "seek" THEN LastSeek ELSE 0
              /\ fmt' = fmt /\ start' = start /\ stage' = stage /\ block' = block
      BY <1>3, Zenon DEF ReadGroup
    <2>2. SameTrack
      BY <2>1 DEF SameTrack
    <2>3. ASSUME IsWhole(Laid[fmt])
          PROVE  sec' = sec
      <3>1. ~HasNumber(Groups) /\ pc \in DOMAIN Groups
        BY <1>1, <2>3, WholeGroups, GroupsAre
      <3>2. {j \in DOMAIN g.f : Numbers(g.f[j])} = {}
        <4>1. \A j \in DOMAIN g.f : ~Numbers(g.f[j])
          BY <3>1, Zenon DEF HasNumber
        <4> QED BY <4>1, Zenon
      <3> HIDE DEF g, at
      <3>3. k \in {sec}
        BY <3>2, Zenon DEF SectorsRead
      <3> QED BY <2>1, <3>3
    <2>4. CASE good(k)
      <3>1. seen' = notes /\ pc' = pc + 1
        BY <2>1, <2>4, Zenon
      <3>2. ASSUME Settled
            PROVE  /\ IsWhole(Laid[fmt]) => sec' = Whole
                   /\ Sited(Groups', pc' - 1, sec', pos', seen')
        <4>1. (IsWhole(Laid[fmt]) => sec = Whole) /\ Sited(Groups, pc - 1, sec, pos, seen)
          BY <1>1, <3>2, Zenon DEF PlacedInv
        <4>2. NotesOfGroup(Groups, pc, at, notes)
          BY <1>1, <2>4, Zenon DEF NotesOfGroup
        <4>3. Sited(Groups, pc, k, end.p, notes)
          BY <1>1, <4>1, <4>2, GroupSites
        <4>4. Groups' = Groups
          BY <2>1, <2>2, <2>3, <3>2, GroupsStay
        <4>5. pc' - 1 = pc
          BY <1>1, <3>1
        <4> HIDE DEF notes, end
        <4> QED BY <2>1, <2>3, <3>1, <4>1, <4>3, <4>4, <4>5, Zenon
      <3> QED BY <2>1, <2>2, <3>2, SitedStep
    <2>5. CASE ~good(k)
      <3>1. seen' = {} /\ pc' = IF g.bad = "seek" THEN LastSeek ELSE 0
        BY <2>1, <2>5, Zenon
      <3>2. CASE pc' = 0
        BY <2>1, <2>2, <3>2, NothingSited
      <3>3. CASE pc' # 0
        <4>1. g.bad = "seek"
          BY <3>1, <3>3, Zenon
        <4>2. ~InLine(Laid[fmt])
          <5> SUFFICES ASSUME InLine(Laid[fmt]) PROVE FALSE
            OBVIOUS
          <5> DEFINE G == Groups
                     n == pc
                     l == Laid[fmt]
          <5>1. \A i \in 1..Len(G) : IsSteady(l, G, i)
            BY LineGroups
          <5>2. IsGroup(G, n) /\ G[n].seek = {} /\ G[n].bad = "seek"
            BY <1>1, <4>1, GroupsAre
          <5>3. n \in 1..Len(G) /\ n \in Nat
            BY <1>1
          <5> HIDE DEF G, n, l
          <5>4. \E i \in 1..(n - 1) : G[i].seek # {}
            BY <5>2, Zenon DEF IsGroup
          <5>5. \A i \in 1..(n - 1) : i \in 1..Len(G)
            <6>1. Len(G) \in Nat
              BY GroupsAre DEF G
            <6> QED BY <5>3, <6>1
          <5> QED BY <5>1, <5>4, <5>5, Zenon DEF IsSteady
        <4>3. ASSUME Settled
              PROVE  /\ IsWhole(Laid[fmt]) => sec' = Whole
                     /\ Sited(Groups', pc' - 1, sec', pos', seen')
          <5>1. IsWhole(Laid[fmt])
            BY <4>2, <4>3, Zenon DEF Settled
          <5>2. sec' = Whole
            <6>1. sec = Whole
              BY <1>1, <4>3, <5>1, Zenon DEF PlacedInv
            <6> QED BY <2>3, <5>1, <6>1
          <5>3. Sited(Groups', pc' - 1, Whole, pos', {})
            BY <5>1, WholeSited
          <5> QED BY <3>1, <5>2, <5>3, Zenon
        <4> QED BY <2>1, <2>2, <4>3, SitedStep
      <3> QED BY <3>2, <3>3
    <2> QED BY <2>4, <2>5
  <1> QED BY <1>2, <1>3

LEMMA SeekMarkPlaces ==
    ASSUME HeadInv, PlacedInv, SeekMark
    PROVE  PlacedInv'
  <1> DEFINE g == Groups[pc]
             q == NextMark(pos, Laid[fmt].seek)
             last == IF g.within = NoLimit THEN Limit ELSE Past(pos, At(pos) + g.within)
  <1>1. pc \in Nat /\ pc > 0 /\ g.seek # {} /\ pc \in 1..Len(Groups)
    <2>1. pc \in Nat /\ pc > 0 /\ pc <= Len(Groups) /\ g.seek # {}
      BY DEF HeadInv, SeekMark
    <2> QED BY <2>1, GroupsAre
  <1>2. CASE last = Limit /\ q > Limit
    <2>1. GiveUp
      BY <1>2, Zenon DEF SeekMark
    <2> QED BY <2>1, GiveUpPlaces
  <1>3. CASE ~(last = Limit /\ q > Limit)
    <2>1. /\ SameTrack /\ stage' = stage /\ sec' = sec /\ block' = block
          /\ (pc' = pc + 1 /\ seen' = seen) \/ pc' = 0
      BY <1>3, Zenon DEF SeekMark, SameTrack
    <2>2. CASE pc' = 0
      BY <2>1, <2>2, NothingSited
    <2>3. CASE pc' = pc + 1 /\ seen' = seen
      <3>1. ~InLine(Laid[fmt])
        <4> SUFFICES ASSUME InLine(Laid[fmt]) PROVE FALSE
          OBVIOUS
        <4>1. \A i \in 1..Len(Groups) : IsSteady(Laid[fmt], Groups, i)
          BY LineGroups
        <4> QED BY <1>1, <4>1, Zenon DEF IsSteady
      <3>2. ASSUME Settled
            PROVE  /\ IsWhole(Laid[fmt]) => sec' = Whole
                   /\ Sited(Groups', pc' - 1, sec', pos', seen')
        <4>1. IsWhole(Laid[fmt])
          BY <3>1, <3>2, Zenon DEF Settled
        <4>2. sec = Whole /\ Sited(Groups, pc - 1, sec, pos, seen)
          BY <1>1, <3>2, <4>1, Zenon DEF PlacedInv
        <4>3. Groups' = Groups
          BY <2>1, <3>2, GroupsStay
        <4>4. pc' - 1 = pc
          BY <1>1, <2>3
        <4>5. Sited(Groups, pc, sec, pos', seen)
          <5> DEFINE G == Groups
                     n == pc
          <5>1. CASE Doubted(G, n - 1, seen)
            <6>1. PICK c \in seen : ~c.ok /\ \E number \in BOOLEAN :
                      Excused(G, n - 1, c, number) /\ (number \/ c.n \notin h.open)
              BY <5>1, Zenon DEF Doubted
            <6>2. PICK number \in BOOLEAN :
                      Excused(G, n - 1, c, number) /\ (number \/ c.n \notin h.open)
              BY <6>1
            <6>3. n \in Nat /\ G[n].seek # {}
              BY <1>1
            <6> HIDE DEF G, n
            <6>4. Excused(G, n, c, number)
              BY <6>2, <6>3, SeekExcused
            <6>5. Doubted(G, n, seen)
              BY <6>1, <6>2, <6>4, Zenon DEF Doubted
            <6> QED BY <6>5, Zenon DEF Sited, G, n
          <5>2. CASE ~Doubted(G, n - 1, seen)
            <6>1. PICK w : Right(G, n - 1, sec, seen, w) /\ Located(G, n - 1, pos, w)
              BY <4>2, <5>2, Zenon DEF Sited
            <6>2. w = Whole
              BY <3>1, <6>1, Zenon DEF Located
            <6>3. \A c \in seen : c.kept /\ c.ok => c.got = SectorOf(c.want, w)
              BY <6>1, Zenon DEF Right
            <6> HIDE DEF G, n
            <6>4. Right(G, n, sec, seen, w)
              BY <4>2, <6>2, <6>3, Zenon DEF Right
            <6>5. Located(G, n, pos', w)
              BY <4>1, <6>2, Zenon DEF Located
            <6> QED BY <6>4, <6>5, Zenon DEF Sited, G, n
          <5> QED BY <5>1, <5>2
        <4> QED BY <2>1, <2>3, <4>2, <4>3, <4>4, <4>5, Zenon
      <3> QED BY <2>1, <3>2, SitedStep
    <2> QED BY <2>1, <2>2, <2>3
  <1> QED BY <1>2, <1>3

LEMMA TakePlaces ==
    ASSUME HeadInv, PlacedInv, Checked(Laid[fmt]), Take
    PROVE  PlacedInv'
  <1> DEFINE stored == {[n |-> c.n, got |-> c.got, ok |-> c.ok,
                         want |-> IF c.want = Whole THEN sec ELSE c.want] :
                          c \in {x \in seen : x.kept}}
             G == Groups
             N == Len(Groups)
  <1>1. pc = N + 1 /\ block' = block \cup stored /\ SameTrack /\ pc' = 0
    BY Zenon DEF Take, SameTrack
  <1>2. N \in Nat /\ DOMAIN G = 1..N /\ pc - 1 = N /\ pc > 0
    <2>1. N \in Nat /\ DOMAIN G = 1..N
      BY GroupsAre
    <2> HIDE DEF N
    <2> QED BY <1>1, <2>1
  <1>3. Settled' <=> Settled
    BY <1>1, SettledSame
  <1>4. ASSUME Settled, NEW s \in stored, s.ok
        PROVE  s.got = s.want
    <2>1. PICK c \in {x \in seen : x.kept} :
              s = [n |-> c.n, got |-> c.got, ok |-> c.ok,
                   want |-> IF c.want = Whole THEN sec ELSE c.want]
      BY Zenon
    <2> DEFINE to == IF c.want = Whole THEN sec ELSE c.want
    <2>2. c \in seen /\ c.kept
      OBVIOUS
    <2>3. s = [n |-> c.n, got |-> c.got, ok |-> c.ok, want |-> to]
      BY <2>1
    <2> HIDE DEF to, stored
    <2>4. s.got = c.got /\ s.want = to /\ c.ok
      BY <1>4, <2>3
    <2>5. Sited(G, N, sec, pos, seen)
      BY <1>2, <1>4, Zenon DEF PlacedInv
    <2>6. ~Doubted(G, N, seen)
      <3> SUFFICES ASSUME NEW d \in seen, NEW number \in BOOLEAN, Excused(G, N, d, number),
                          number \/ d.n \notin h.open
                   PROVE  FALSE
        BY Zenon DEF Doubted
      <3>1. IF number THEN h.bare ELSE d.n \in h.open
        BY NothingExcused
      <3>2. ~h.bare
        BY <1>4 DEF Settled
      <3> QED BY <3>1, <3>2
    <2>7. PICK w : Right(G, N, sec, seen, w)
      BY <2>5, <2>6, Zenon DEF Sited
    <2> HIDE DEF G, N
    <2>8. /\ w = Whole \/ HasNumber(G)
          /\ sec = IF NumberRead(G, N) THEN w ELSE Whole
          /\ c.got = SectorOf(c.want, w)
      BY <2>2, <2>4, <2>7, Zenon DEF Right
    <2>9. HasNumber(G) => NumberRead(G, N)
      BY <1>2, Zenon DEF HasNumber, NumberRead
    <2>10. sec = w
      BY <2>8, <2>9
    <2>11. to = SectorOf(c.want, w)
      BY <2>10 DEF to, SectorOf
    <2> QED BY <2>4, <2>8, <2>11
  <1>5. Settled => AsWanted'
    <2> HIDE DEF stored
    <2> QED BY <1>1, <1>4, Zenon DEF PlacedInv, AsWanted
  <1>6. ~(pc' > 0)
    BY <1>1
  <1> QED BY <1>3, <1>5, <1>6, Zenon DEF PlacedInv

LEMMA PlacedNext ==
    ASSUME \A x \in DOMAIN Formats : Checked(Formats[x]), HeadInv, PlacedInv, [Next]_vars
    PROVE  PlacedInv'
  <1>1. Checked(Laid[fmt])
    BY Zenon DEF Laid, HeadInv, OnTrack
  <1>2. CASE Scan
    BY <1>2, ScanPlaces
  <1>3. CASE ReadGroup
    BY <1>3, ReadGroupPlaces
  <1>4. CASE SeekMark
    BY <1>4, SeekMarkPlaces
  <1>5. CASE Take
    BY <1>1, <1>5, TakePlaces
  <1>6. CASE UNCHANGED vars
    <2>1. SameTrack /\ block' = block /\ pc' = pc /\ sec' = sec /\ pos' = pos /\ seen' = seen
          /\ Groups' = Groups
      BY <1>6 DEF vars, SameTrack, Groups, Laid
    <2>2. CASE pc > 0
      <3>1. Settled => /\ IsWhole(Laid[fmt]) => sec' = Whole
                       /\ Sited(Groups', pc' - 1, sec', pos', seen')
        BY <2>1, <2>2, Zenon DEF PlacedInv
      <3> QED BY <2>1, <3>1, SitedStep
    <2>3. CASE ~(pc > 0)
      <3>1. pc' = 0
        BY <2>1, <2>3 DEF HeadInv
      <3> QED BY <2>1, <3>1, NothingSited
    <2> QED BY <2>2, <2>3
  <1>7. CASE Done
    BY <1>6, <1>7 DEF Done
  <1> QED BY <1>2, <1>3, <1>4, <1>5, <1>6, <1>7 DEF Next

(* No sector is stored with another's field, nor with one that could not be read: some  *)
(* check stands between every stored field and the block, whichever field is hurt,      *)
(* wherever the index falls and whatever candidate the scan starts with.  For handlers  *)
(* whose kept fields lie where the sync says (InLine), or that have no sectors; one     *)
(* that counts its sectors, or whose sums leave the number out, is held to the first    *)
(* half only, as DamageIsSeen is.                                                       *)
THEOREM DamageSeen ==
    ASSUME \A x \in DOMAIN Formats : Checked(Formats[x])
    PROVE  Spec => [](IsPlaced(Laid[fmt]) => DamageIsSeen)
  <1>1. Init => StoredInv /\ PlacedInv
    <2> SUFFICES ASSUME Init PROVE StoredInv /\ PlacedInv
      OBVIOUS
    <2>1. StoredInv
      BY HeadInit DEF Init, StoredInv, SeenInv, StoredReadable
    <2>2. block = {} /\ pc = 0
      BY DEF Init
    <2>3. AsWanted /\ ~(pc > 0)
      BY <2>2 DEF AsWanted
    <2> QED BY <2>1, <2>3, Zenon DEF PlacedInv
  <1>2. StoredInv /\ PlacedInv /\ [Next]_vars => (StoredInv /\ PlacedInv)'
    BY StoredNext, PlacedNext DEF StoredInv
  <1>3. StoredInv /\ PlacedInv => (IsPlaced(Laid[fmt]) => DamageIsSeen)
    <2> SUFFICES ASSUME StoredInv, PlacedInv, IsPlaced(Laid[fmt]) PROVE DamageIsSeen
      OBVIOUS
    <2>1. StoredReadable
      BY DEF StoredInv
    <2>2. Settled \/ h.order \/ h.bare
      BY Zenon DEF IsPlaced, Settled, h
    <2>3. Settled => AsWanted
      BY Zenon DEF PlacedInv
    <2>4. StoredReadable /\ AsWanted => StoredAsWritten
      BY DEF StoredReadable, AsWanted, StoredAsWritten
    <2> QED BY <2>1, <2>2, <2>3, <2>4, Zenon DEF DamageIsSeen
  <1> QED BY <1>1, <1>2, <1>3, PTL DEF Spec
=============================================================================
