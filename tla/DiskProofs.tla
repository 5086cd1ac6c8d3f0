----------------------------- MODULE DiskProofs -----------------------------
(***************************************************************************)
(* What libdisk keeps of a disk (libdisk/disk.c and the containers dsk.c,    *)
(* adf.c and eadf.c), for any formats, tracks, tags and file sizes.          *)
(***************************************************************************)
EXTENDS Disk, ListProofs, FiniteSetTheorems, FunctionTheorems

\* A list, of whatever elements.
IsList(s) == s \in Seq(ToSet(s))

-----------------------------------------------------------------------------
(* Lists. *)

LEMMA ListOfSeq ==
    ASSUME NEW S, NEW s \in Seq(S)
    PROVE  /\ IsList(s) /\ Len(s) \in Nat /\ DOMAIN s = 1..Len(s)
           /\ \A i \in 1..Len(s) : s[i] \in S
  <1>1. Len(s) \in Nat /\ s \in [1..Len(s) -> S] /\ DOMAIN s = 1..Len(s)
    BY LenProperties
  <1>2. s \in [1..Len(s) -> ToSet(s)]
    BY <1>1 DEF ToSet
  <1>3. s \in Seq(ToSet(s))
    BY <1>1, <1>2, SeqDef
  <1> QED
    BY <1>1, <1>3 DEF IsList

LEMMA ListOf ==
    ASSUME NEW s, IsList(s)
    PROVE  /\ Len(s) \in Nat /\ DOMAIN s = 1..Len(s)
           /\ s = <<>> <=> Len(s) = 0
           /\ s = [i \in 1..Len(s) |-> s[i]]
  <1>1. s \in Seq(ToSet(s))
    BY DEF IsList
  <1>2. Len(s) \in Nat /\ s \in [1..Len(s) -> ToSet(s)] /\ DOMAIN s = 1..Len(s)
    BY <1>1, LenProperties
  <1>3. s = <<>> <=> Len(s) = 0
    BY <1>1, EmptySeq
  <1> QED
    BY <1>2, <1>3

LEMMA ListOfFcn ==
    ASSUME NEW n \in Nat, NEW f, f = [i \in 1..n |-> f[i]]
    PROVE  IsList(f) /\ Len(f) = n /\ DOMAIN f = 1..n
  <1>1. DOMAIN f = 1..n
    OBVIOUS
  <1>2. f \in [1..n -> ToSet(f)]
    BY <1>1 DEF ToSet
  <1>3. f \in Seq(ToSet(f))
    BY <1>2, SeqDef
  <1>4. Len(f) \in Nat /\ DOMAIN f = 1..Len(f)
    BY <1>3, LenProperties
  <1>5. Len(f) = n
    BY <1>1, <1>4
  <1> QED
    BY <1>1, <1>3, <1>5 DEF IsList

LEMMA ListEqual ==
    ASSUME NEW s, NEW t, IsList(s), IsList(t), Len(s) = Len(t),
           \A i \in 1..Len(s) : s[i] = t[i]
    PROVE  s = t
  BY ListOf

LEMMA ListConcat ==
    ASSUME NEW s, NEW t, IsList(s), IsList(t)
    PROVE  /\ IsList(s \o t) /\ Len(s \o t) = Len(s) + Len(t)
           /\ \A i \in 1..Len(s) : (s \o t)[i] = s[i]
           /\ \A i \in 1..Len(t) : (s \o t)[Len(s) + i] = t[i]
  <1> DEFINE S == ToSet(s) \cup ToSet(t)
  <1>1. s \in Seq(S) /\ t \in Seq(S)
    <2>1. s \in Seq(ToSet(s)) /\ t \in Seq(ToSet(t))
      BY DEF IsList
    <2> QED
      BY <2>1, SeqMonotonic
  <1> HIDE DEF S
  <1>2. /\ s \o t \in Seq(S) /\ Len(s \o t) = Len(s) + Len(t)
        /\ \A i \in 1 .. (Len(s) + Len(t)) :
              (s \o t)[i] = IF i <= Len(s) THEN s[i] ELSE t[i - Len(s)]
    BY <1>1, ConcatProperties
  <1>3. Len(s) \in Nat /\ Len(t) \in Nat
    BY ListOf
  <1>4. ASSUME NEW i \in 1..Len(s)
        PROVE  (s \o t)[i] = s[i]
    BY <1>2, <1>3
  <1>5. ASSUME NEW i \in 1..Len(t)
        PROVE  (s \o t)[Len(s) + i] = t[i]
    <2>1. /\ Len(s) + i \in 1..(Len(s) + Len(t))
          /\ ~(Len(s) + i <= Len(s)) /\ Len(s) + i - Len(s) = i
      BY <1>3
    <2> QED
      BY <1>2, <2>1
  <1>6. IsList(s \o t)
    BY <1>2, ListOfSeq
  <1> QED
    BY <1>2, <1>4, <1>5, <1>6

\* Where a piece behind the header lies in the second part.
LEMMA PlaceInPart ==
    ASSUME NEW n \in Nat, NEW m \in Nat, NEW x \in Nat, x >= 2 + n, ~(x > 1 + n + m)
    PROVE  x - 1 - n \in 1..m /\ 1 + n + (x - 1 - n) = x
  OBVIOUS

LEMMA ListOfOne ==
    ASSUME NEW x
    PROVE  IsList(<<x>>) /\ Len(<<x>>) = 1 /\ <<x>>[1] = x
  <1>1. <<x>> \in Seq({x}) /\ Len(<<x>>) = 1 /\ <<x>>[1] = x
    OBVIOUS
  <1> QED
    BY <1>1, ListOfSeq

LEMMA ListOfNone == IsList(<<>>) /\ Len(<<>>) = 0
  BY EmptySeq DEF IsList

\* What ListConcat says of two lists, as one fact.
Joined(l, s, t) ==
    /\ IsList(l) /\ Len(l) = Len(s) + Len(t)
    /\ \A i \in 1..Len(s) : l[i] = s[i]
    /\ \A i \in 1..Len(t) : l[Len(s) + i] = t[i]

LEMMA ListsJoined ==
    ASSUME NEW s, NEW t, IsList(s), IsList(t)
    PROVE  Joined(s \o t, s, t)
  BY ListConcat DEF Joined

\* A header and three lists behind it, as dsk_close writes them.
Parts(l, h, a, b, d) ==
    /\ IsList(l) /\ Len(l) = 1 + Len(a) + Len(b) + Len(d)
    /\ l[1] = h
    /\ \A i \in 1..Len(a) : l[1 + i] = a[i]
    /\ \A i \in 1..Len(b) : l[1 + Len(a) + i] = b[i]
    /\ \A i \in 1..Len(d) : l[1 + Len(a) + Len(b) + i] = d[i]

LEMMA ListOfFour ==
    ASSUME NEW h, NEW a, NEW b, NEW d, IsList(a), IsList(b), IsList(d)
    PROVE  Parts(<<h>> \o a \o b \o d, h, a, b, d)
  <1> DEFINE p == <<h>> \o a
             q == p \o b
             l == q \o d
  <1>1. /\ IsList(p) /\ Len(p) = 1 + Len(a) /\ p[1] = h
        /\ \A i \in 1..Len(a) : p[1 + i] = a[i]
    <2>1. Joined(p, <<h>>, a)
      BY ListsJoined, ListOfOne
    <2> HIDE DEF p
    <2>2. Len(<<h>>) = 1 /\ <<h>>[1] = h /\ 1 \in 1..Len(<<h>>)
      BY ListOfOne
    <2> QED
      BY <2>1, <2>2 DEF Joined
  <1> HIDE DEF p
  <1>2. Len(a) \in Nat /\ Len(b) \in Nat /\ Len(d) \in Nat
    BY ListOf
  <1>3. /\ IsList(q) /\ Len(q) = Len(p) + Len(b)
        /\ \A i \in 1..Len(p) : q[i] = p[i]
        /\ \A i \in 1..Len(b) : q[Len(p) + i] = b[i]
    <2>1. IsList(p)
      BY <1>1
    <2>2. Joined(q, p, b)
      BY <2>1, ListsJoined
    <2> HIDE DEF q
    <2> QED
      BY <2>2 DEF Joined
  <1> HIDE DEF q
  <1>4. /\ IsList(l) /\ Len(l) = Len(q) + Len(d)
        /\ \A i \in 1..Len(q) : l[i] = q[i]
        /\ \A i \in 1..Len(d) : l[Len(q) + i] = d[i]
    <2>1. IsList(q)
      BY <1>3
    <2>2. Joined(l, q, d)
      BY <2>1, ListsJoined
    <2> HIDE DEF l
    <2> QED
      BY <2>2 DEF Joined
  <1> HIDE DEF l
  <1>5. Len(l) = 1 + Len(a) + Len(b) + Len(d)
    BY <1>1, <1>2, <1>3, <1>4
  <1>6. l[1] = h
    <2>1. 1 \in 1..Len(p) /\ 1 \in 1..Len(q)
      BY <1>1, <1>2, <1>3
    <2> QED
      BY <1>1, <1>3, <1>4, <2>1
  <1>7. ASSUME NEW i \in 1..Len(a)
        PROVE  l[1 + i] = a[i]
    <2>1. 1 + i \in 1..Len(p) /\ 1 + i \in 1..Len(q)
      BY <1>1, <1>2, <1>3
    <2> QED
      BY <1>1, <1>3, <1>4, <2>1
  <1>8. ASSUME NEW i \in 1..Len(b)
        PROVE  l[1 + Len(a) + i] = b[i]
    <2>1. Len(p) + i \in 1..Len(q) /\ Len(p) + i = 1 + Len(a) + i
      BY <1>1, <1>2, <1>3
    <2> QED
      BY <1>3, <1>4, <2>1
  <1>9. ASSUME NEW i \in 1..Len(d)
        PROVE  l[1 + Len(a) + Len(b) + i] = d[i]
    <2>1. Len(q) + i = 1 + Len(a) + Len(b) + i
      BY <1>1, <1>2, <1>3
    <2> QED
      BY <1>4, <2>1
  <1> QED
    <2>1. Parts(l, h, a, b, d)
      BY <1>4, <1>5, <1>6, <1>7, <1>8, <1>9 DEF Parts
    <2> QED
      BY <2>1 DEF l, q, p

-----------------------------------------------------------------------------
(* The k-th of a set of tracks. *)

LEMMA Ranks ==
    ASSUME NEW n \in Nat, NEW I \in SUBSET (1..n)
    PROVE  /\ IsFiniteSet(I) /\ Cardinality(I) \in Nat
           /\ \A i \in I : /\ Cardinality({j \in I : j <= i}) \in 1..Cardinality(I)
                           /\ Cardinality({j \in I : j <= i})
                                = Cardinality({j \in I : j < i}) + 1
                           /\ Nth(I, Cardinality({j \in I : j <= i})) = i
           /\ \A k \in 1..Cardinality(I) : Nth(I, k) \in I
  <1> DEFINE upto(i) == {j \in I : j <= i}
             rank == [i \in I |-> Cardinality(upto(i))]
             c == Cardinality(I)
  <1>1. IsFiniteSet(I) /\ c \in Nat
    <2>1. IsFiniteSet(1..n)
      BY FS_Interval
    <2>2. IsFiniteSet(I)
      BY <2>1, FS_Subset
    <2> QED
      BY <2>2, FS_CardinalityType
  <1>0. \A i \in I : i \in Nat
    OBVIOUS
  <1>2. ASSUME NEW i \in I
        PROVE  /\ Cardinality(upto(i)) \in 1..c
               /\ Cardinality(upto(i)) = Cardinality({j \in I : j < i}) + 1
    <2> DEFINE below == {j \in I : j < i}
    <2>1. IsFiniteSet(below) /\ Cardinality(below) \in Nat
      BY <1>1, FS_Subset, FS_CardinalityType
    <2>2. upto(i) = below \cup {i} /\ i \notin below
      <3>1. \A j \in I : j <= i <=> j < i \/ j = i
        BY <1>0
      <3>2. ~(i < i)
        BY <1>0
      <3> QED
        BY <3>1, <3>2
    <2>3. Cardinality(upto(i)) = Cardinality(below) + 1
      <3> HIDE DEF below, upto
      <3> QED
        BY <2>1, <2>2, FS_AddElement
    <2>4. Cardinality(upto(i)) <= c
      BY <1>1, FS_Subset
    <2> HIDE DEF below, upto, c
    <2>5. Cardinality(upto(i)) \in 1..c
      BY <1>1, <2>1, <2>3, <2>4
    <2> QED
      BY <2>3, <2>5 DEF below
  <1>3. ASSUME NEW i \in I, NEW j \in I, Cardinality(upto(i)) = Cardinality(upto(j))
        PROVE  i = j
    <2>1. ASSUME NEW x \in I, NEW y \in I, x < y
          PROVE  Cardinality(upto(x)) # Cardinality(upto(y))
      <3>1. IsFiniteSet(upto(y)) /\ upto(x) \in SUBSET upto(y) /\ y \notin upto(x) /\ y \in upto(y)
        <4>1. x \in Nat /\ y \in Nat
          BY <1>0
        <4>2. upto(x) \in SUBSET upto(y)
          <5>1. \A z \in I : z <= x => z <= y
            BY <1>0, <2>1
          <5> QED
            BY <5>1
        <4>3. y \notin upto(x) /\ y \in upto(y)
          BY <2>1, <4>1
        <4>4. IsFiniteSet(upto(y))
          BY <1>1, FS_Subset
        <4> QED
          BY <4>2, <4>3, <4>4
      <3> HIDE DEF upto
      <3> QED
        BY <3>1, FS_Subset
    <2>2. i \in Nat /\ j \in Nat
      OBVIOUS
    <2> HIDE DEF upto
    <2> QED
      BY <1>3, <2>1, <2>2
  <1> HIDE DEF upto, c
  <1>4. rank \in Injection(I, 1..c)
    BY <1>2, <1>3 DEF Injection, IsInjective
  <1>5. rank \in Surjection(I, 1..c)
    <2>1. IsFiniteSet(1..c) /\ Cardinality(1..c) = c
      BY <1>1, FS_Interval
    <2> HIDE DEF rank
    <2> QED
      BY <1>1, <1>4, <2>1, FS_Injection DEF c
  <1>6. ASSUME NEW k \in 1..c
        PROVE  \E i \in I : Cardinality(upto(i)) = k
    BY <1>5 DEF Surjection
  <1>7. ASSUME NEW k \in 1..c
        PROVE  Nth(I, k) \in I /\ Cardinality(upto(Nth(I, k))) = k
    BY <1>6 DEF Nth, upto
  <1>8. ASSUME NEW i \in I
        PROVE  Nth(I, Cardinality(upto(i))) = i
    <2> DEFINE k == Cardinality(upto(i))
               x == Nth(I, k)
    <2>1. k \in 1..c
      BY <1>2, <1>8
    <2> HIDE DEF k
    <2>2. x \in I /\ Cardinality(upto(x)) = k
      BY <1>7, <2>1
    <2> HIDE DEF x
    <2>3. x = i
      BY <1>3, <1>8, <2>2 DEF k
    <2> QED
      BY <2>3 DEF x, k
  <1> QED
    BY <1>1, <1>2, <1>7, <1>8 DEF upto, c

-----------------------------------------------------------------------------
(* Tracks and tags that a handler or a container may leave. *)

GoodTrack(tr) ==
    /\ tr.type \in Types /\ tr.secs \in Nat /\ tr.valid \subseteq AllValid(tr.secs)
    /\ tr.len = 0 <=> tr.type = "unformatted"
    /\ tr.len = 0 <=> tr.dat = NoDat
    /\ tr.total \in Nat \cup {Weak}
    /\ tr.len # 0 => /\ tr.total # 0
                     /\ tr.off \in 0 .. (IF tr.total = Weak THEN 0 ELSE tr.total - 1)
GoodTracks(ts) == IsList(ts) /\ \A i \in 1..Len(ts) : GoodTrack(ts[i])

TagRecs == [id : 0..EndTag, val : Seq(Nat)]
Ascending(tgs) == \A i, j \in 1..Len(tgs) : i < j => tgs[i].id < tgs[j].id
GoodTags(tgs) ==
    /\ tgs \in Seq(TagRecs) /\ Ascending(tgs)
    /\ tgs # <<>> /\ tgs[Len(tgs)] = End

LEMMA GoodTagsOf ==
    ASSUME NEW tgs, GoodTags(tgs)
    PROVE  /\ IsList(tgs) /\ Len(tgs) \in Nat \ {0} /\ DOMAIN tgs = 1..Len(tgs)
           /\ \A i \in 1..Len(tgs) :
                /\ tgs[i] \in TagRecs /\ tgs[i].id \in Nat
                /\ tgs[i].id <= EndTag
                /\ i # Len(tgs) => tgs[i].id < EndTag
  <1>1. /\ IsList(tgs) /\ Len(tgs) \in Nat /\ DOMAIN tgs = 1..Len(tgs)
        /\ \A i \in 1..Len(tgs) : tgs[i] \in TagRecs
    BY ListOfSeq DEF GoodTags
  <1>2. Len(tgs) \in Nat \ {0}
    BY <1>1, ListOf DEF GoodTags
  <1>3. \A i \in 1..Len(tgs) : tgs[i].id \in Nat /\ tgs[i].id <= EndTag
    BY <1>1, TagAssumption DEF TagRecs
  <1>4. ASSUME NEW i \in 1..Len(tgs), i # Len(tgs)
        PROVE  tgs[i].id < EndTag
    <2>1. i < Len(tgs) /\ Len(tgs) \in 1..Len(tgs)
      BY <1>2, <1>4
    <2>2. tgs[Len(tgs)].id = EndTag
      BY DEF GoodTags, End
    <2>3. tgs[i].id < tgs[Len(tgs)].id
      BY <2>1 DEF GoodTags, Ascending
    <2> QED
      BY <2>2, <2>3
  <1> QED
    BY <1>1, <1>2, <1>3, <1>4

\* init_track_info for a type that has tracks.
LEMMA InitTrackOf ==
    ASSUME NEW type \in Types
    PROVE  LET tr == InitTrack(type)
           IN  /\ tr.type = type /\ tr.secs = Handlers[type].secs /\ tr.secs \in Nat
               /\ tr.valid = {} /\ tr.dat = NoDat /\ tr.off = 0 /\ tr.total = 0
               /\ tr.len = IF type = "unformatted" THEN 0 ELSE 1
  BY FormatAssumption DEF InitTrack, Types

LEMMA UnformattedIsGood ==
    /\ GoodTrack(Unformatted) /\ GoodTrack(InitTrack("unformatted"))
    /\ Unformatted.type = "unformatted"
  <1>1. "unformatted" \in Types
    BY FormatAssumption DEF Types
  <1>2. /\ Unformatted.type = "unformatted" /\ Unformatted.secs = Handlers["unformatted"].secs
        /\ Unformatted.valid = {} /\ Unformatted.dat = NoDat
        /\ Unformatted.len = 0 /\ Unformatted.total = Weak
    BY DEF Unformatted, InitTrack
  <1>3. Handlers["unformatted"].secs \in Nat
    BY <1>1, FormatAssumption DEF Types
  <1>4. GoodTrack(Unformatted)
    BY <1>1, <1>2, <1>3 DEF GoodTrack
  <1>5. GoodTrack(InitTrack("unformatted"))
    BY <1>1, InitTrackOf DEF GoodTrack
  <1> QED
    BY <1>2, <1>4, <1>5

LEMMA AdfTrackIsGood ==
    ASSUME NEW d, d # <<>>
    PROVE  GoodTrack(AdfTrack(d)) /\ AdfTrack(d).type = "amigados" /\ AdfTrack(d).dat = d
  <1> DEFINE tr == AdfTrack(d)
  <1>1. "amigados" \in Types /\ Handlers["amigados"].secs \in Nat
    BY FormatAssumption DEF Types
  <1>2. /\ tr.type = "amigados" /\ tr.secs = Handlers["amigados"].secs
        /\ tr.valid = AllValid(Handlers["amigados"].secs) /\ tr.dat = d
        /\ tr.len = 1 /\ tr.off = 1 /\ tr.total = DefaultBits
    BY DEF AdfTrack, InitTrack
  <1> HIDE DEF tr
  <1>3. /\ DefaultBits \in Nat /\ DefaultBits # 0 /\ DefaultBits # Weak
        /\ 1 \in 0..(DefaultBits - 1)
    BY LengthAssumption
  <1>4. GoodTrack(tr)
    BY <1>1, <1>2, <1>3 DEF GoodTrack, NoDat
  <1> QED
    BY <1>2, <1>4 DEF tr

LEMMA RawTrackIsGood ==
    ASSUME NEW d, NEW len \in Nat \ {0}, d # <<>>
    PROVE  LET tr == RawTrack([dat |-> d, len |-> len])
           IN  GoodTrack(tr) /\ tr.type = "raw_dd" /\ tr.dat = d /\ tr.total = len
  <1> DEFINE tr == RawTrack([dat |-> d, len |-> len])
  <1>1. "raw_dd" \in Types /\ Handlers["raw_dd"].secs \in Nat
    BY FormatAssumption DEF Types
  <1>2. /\ tr.type = "raw_dd" /\ tr.secs = Handlers["raw_dd"].secs
        /\ tr.valid = {} /\ tr.dat = d /\ tr.len = 1 /\ tr.off = 0 /\ tr.total = len
    BY DEF RawTrack, InitTrack
  <1> HIDE DEF tr
  <1>3. len # Weak /\ 0 \in 0..(len - 1)
    BY LengthAssumption
  <1>4. GoodTrack(tr)
    BY <1>1, <1>2, <1>3 DEF GoodTrack, NoDat
  <1> QED
    BY <1>2, <1>4 DEF tr

LEMMA BitLenOf ==
    ASSUME NEW tr, GoodTrack(tr), tr.type # "unformatted"
    PROVE  BitLen(tr) \in Nat \ {0} /\ RawBits(tr).dat # <<>> /\ RawBits(tr).len = BitLen(tr)
  <1>1. tr.total \in Nat \cup {Weak} /\ tr.total # 0 /\ tr.dat # <<>>
    BY DEF GoodTrack, NoDat
  <1>2. BitLen(tr) \in Nat \ {0}
    BY <1>1, LengthAssumption DEF BitLen
  <1>3. <<tr.type, tr.dat, tr.valid>> # <<>>
    OBVIOUS
  <1>4. RawBits(tr).dat # <<>>
    BY <1>1, <1>3 DEF RawBits
  <1> QED
    BY <1>2, <1>4 DEF RawBits

LEMMA AdosDataOf ==
    ASSUME NEW tr, GoodTrack(tr)
    PROVE  AdosData(tr) # <<>>
  <1>1. Handlers[tr.type].ados => tr.type # "unformatted"
    BY FormatAssumption
  <1>2. Handlers[tr.type].ados => tr.dat # <<>>
    BY <1>1 DEF GoodTrack, NoDat
  <1> QED
    BY <1>2, FormatAssumption DEF AdosData

\* tag_swizzle undoes itself, keeps the id and leaves the end marker alone.
LEMMA SwizzleTwice ==
    ASSUME NEW t \in TagRecs
    PROVE  /\ Swizzle(t).id = t.id /\ Swizzle(Swizzle(t)) = t
           /\ t = End => Swizzle(t) = End
  <1> DEFINE v == t.val
             r == Reverse(v)
             n == Len(v)
  <1>1. v \in Seq(Nat) /\ t = [id |-> t.id, val |-> v]
    BY DEF TagRecs
  <1>2. n \in Nat /\ DOMAIN v = 1..n /\ IsList(v)
    BY <1>1, ListOfSeq
  <1>3. r = [i \in 1..n |-> v[n - i + 1]]
    BY DEF Reverse
  <1> HIDE DEF r, n
  <1>4. IsList(r) /\ Len(r) = n
    BY <1>2, <1>3, ListOfFcn
  <1>5. Reverse(r) = v
    <2>1. Reverse(r) = [i \in 1..n |-> r[n - i + 1]]
      BY <1>4 DEF Reverse
    <2>2. ASSUME NEW i \in 1..n
          PROVE  r[n - i + 1] = v[i]
      <3>1. n - i + 1 \in 1..n /\ n - (n - i + 1) + 1 = i
        BY <1>2
      <3> QED
        BY <1>3, <3>1
    <2>3. Reverse(r) = [i \in 1..n |-> v[i]]
      BY <2>1, <2>2
    <2>4. v = [i \in 1..n |-> v[i]]
      BY <1>2, ListOf DEF n
    <2> QED
      BY <2>3, <2>4
  <1> HIDE DEF v
  <1>6. CASE t.id \in SwizzledIds
    <2>1. Swizzle(t) = [id |-> t.id, val |-> r]
      BY <1>1, <1>6 DEF Swizzle, r, v
    <2>2. Swizzle([id |-> t.id, val |-> r]) = [id |-> t.id, val |-> Reverse(r)]
      BY <1>6 DEF Swizzle
    <2>3. t = End => r = <<>>
      <3> HAVE t = End
      <3>1. v = <<>>
        BY DEF End, v
      <3>2. n = 0
        BY <1>2, <3>1, ListOf DEF n
      <3> QED
        BY <1>4, <3>2, ListOf
    <2>4. t = End => Swizzle(t) = End
      BY <2>1, <2>3 DEF End
    <2> QED
      BY <1>1, <1>5, <2>1, <2>2, <2>4
  <1>7. CASE t.id \notin SwizzledIds
    BY <1>7 DEF Swizzle
  <1> QED
    BY <1>6, <1>7

-----------------------------------------------------------------------------
(* Images. *)

LEMMA WithDataOf ==
    ASSUME NEW ts, IsList(ts)
    PROVE  /\ WithData(ts) \in SUBSET (1..Len(ts)) /\ Formatted(ts) \in SUBSET (1..Len(ts))
           /\ Len(ts) \in Nat
  BY ListOf DEF WithData, Formatted

LEMMA DskImageOf ==
    ASSUME NEW ts, NEW tgs, IsList(ts), IsList(tgs)
    PROVE  LET l == DskImage(ts, tgs)
               n == Len(ts)
               m == Len(tgs)
               c == Cardinality(WithData(ts))
           IN  /\ IsList(l) /\ Len(l) = 1 + n + m + c /\ c \in Nat
               /\ l[1] = [k |-> "dsk", n |-> n]
               /\ \A i \in 1..n : l[1 + i] = DskTrackHeader(ts, tgs, i)
               /\ \A i \in 1..m : l[1 + n + i] = [k |-> "tag", tag |-> Swizzle(tgs[i])]
               /\ \A i \in 1..c : l[1 + n + m + i] = Data(ts[Nth(WithData(ts), i)].dat)
  <1> DEFINE n == Len(ts)
             m == Len(tgs)
             c == Cardinality(WithData(ts))
             h == [k |-> "dsk", n |-> n]
             a == [i \in 1..n |-> DskTrackHeader(ts, tgs, i)]
             b == [i \in 1..m |-> [k |-> "tag", tag |-> Swizzle(tgs[i])]]
             d == [k \in 1..c |-> Data(ts[Nth(WithData(ts), k)].dat)]
  <1>1. n \in Nat /\ m \in Nat /\ c \in Nat
    BY ListOf, WithDataOf, Ranks
  <1>2. DskImage(ts, tgs) = <<h>> \o a \o b \o d
    BY DEF DskImage
  <1>3. \A i \in 1..n : a[i] = DskTrackHeader(ts, tgs, i)
    OBVIOUS
  <1>4. \A i \in 1..m : b[i] = [k |-> "tag", tag |-> Swizzle(tgs[i])]
    OBVIOUS
  <1>5. \A i \in 1..c : d[i] = Data(ts[Nth(WithData(ts), i)].dat)
    OBVIOUS
  <1>6. IsList(a) /\ Len(a) = n
    <2>1. a = [i \in 1..n |-> a[i]]
      OBVIOUS
    <2> HIDE DEF a, n
    <2> QED
      BY <1>1, <2>1, ListOfFcn
  <1>7. IsList(b) /\ Len(b) = m
    <2>1. b = [i \in 1..m |-> b[i]]
      OBVIOUS
    <2> HIDE DEF b, m
    <2> QED
      BY <1>1, <2>1, ListOfFcn
  <1>8. IsList(d) /\ Len(d) = c
    <2>1. d = [i \in 1..c |-> d[i]]
      OBVIOUS
    <2> HIDE DEF d, c
    <2> QED
      BY <1>1, <2>1, ListOfFcn
  <1> HIDE DEF a, b, d, h, n, m, c
  <1>9. LET l == <<h>> \o a \o b \o d
        IN  /\ IsList(l) /\ Len(l) = 1 + n + m + c
            /\ l[1] = h
            /\ \A i \in 1..n : l[1 + i] = a[i]
            /\ \A i \in 1..m : l[1 + n + i] = b[i]
            /\ \A i \in 1..c : l[1 + n + m + i] = d[i]
    <2>1. Parts(<<h>> \o a \o b \o d, h, a, b, d)
      BY <1>6, <1>7, <1>8, ListOfFour
    <2> QED
      BY <1>6, <1>7, <1>8, <2>1 DEF Parts
  <1>10. LET l == DskImage(ts, tgs)
         IN  /\ IsList(l) /\ Len(l) = 1 + n + m + c
             /\ l[1] = h
             /\ \A i \in 1..n : l[1 + i] = DskTrackHeader(ts, tgs, i)
             /\ \A i \in 1..m : l[1 + n + i] = [k |-> "tag", tag |-> Swizzle(tgs[i])]
             /\ \A i \in 1..c : l[1 + n + m + i] = Data(ts[Nth(WithData(ts), i)].dat)
    BY <1>2, <1>3, <1>4, <1>5, <1>9
  <1> QED
    BY <1>1, <1>10 DEF n, m, c, h

LEMMA EadfImageOf ==
    ASSUME NEW ts, IsList(ts)
    PROVE  LET l == EadfImage(ts)
               n == Len(ts)
               c == Cardinality(Formatted(ts))
           IN  /\ IsList(l) /\ Len(l) = 1 + n + c /\ c \in Nat
               /\ l[1] = [k |-> "eadf", n |-> n]
               /\ \A i \in 1..n :
                    l[1 + i] = [k |-> "eth", ados |-> FALSE,
                                len |-> IF ts[i].type = "unformatted" THEN 0
                                        ELSE BitLen(ts[i])]
               /\ \A i \in 1..c : l[1 + n + i] = Data(RawBits(ts[Nth(Formatted(ts), i)]).dat)
  <1> DEFINE n == Len(ts)
             c == Cardinality(Formatted(ts))
             h == [k |-> "eadf", n |-> n]
             th(i) == [k |-> "eth", ados |-> FALSE,
                       len |-> IF ts[i].type = "unformatted" THEN 0 ELSE BitLen(ts[i])]
             a == [i \in 1..n |-> th(i)]
             d == [k \in 1..c |-> Data(RawBits(ts[Nth(Formatted(ts), k)]).dat)]
  <1>1. n \in Nat /\ c \in Nat
    BY ListOf, WithDataOf, Ranks
  <1>2. EadfImage(ts) = <<h>> \o a \o d
    BY DEF EadfImage
  <1>3. \A i \in 1..n : a[i] = th(i)
    OBVIOUS
  <1>5. \A i \in 1..c : d[i] = Data(RawBits(ts[Nth(Formatted(ts), i)]).dat)
    OBVIOUS
  <1>6. IsList(a) /\ Len(a) = n
    <2>1. a = [i \in 1..n |-> a[i]]
      OBVIOUS
    <2> HIDE DEF a, n
    <2> QED
      BY <1>1, <2>1, ListOfFcn
  <1>8. IsList(d) /\ Len(d) = c
    <2>1. d = [i \in 1..c |-> d[i]]
      OBVIOUS
    <2> HIDE DEF d, c
    <2> QED
      BY <1>1, <2>1, ListOfFcn
  <1> HIDE DEF a, d, h, n, c, th
  <1>9. LET l == <<h>> \o a \o <<>> \o d
        IN  /\ IsList(l) /\ Len(l) = 1 + n + 0 + c
            /\ l[1] = h
            /\ \A i \in 1..n : l[1 + i] = a[i]
            /\ \A i \in 1..c : l[1 + n + 0 + i] = d[i]
    <2>1. Parts(<<h>> \o a \o <<>> \o d, h, a, <<>>, d)
      BY <1>6, <1>8, ListOfNone, ListOfFour
    <2> QED
      BY <1>6, <1>8, <2>1, ListOfNone DEF Parts
  <1>10. <<h>> \o a \o <<>> = <<h>> \o a
    <2>1. IsList(<<h>> \o a)
      BY <1>6, ListOfOne, ListConcat
    <2> QED
      BY <2>1, ConcatEmptySeq DEF IsList
  <1>11. 1 + n + 0 + c = 1 + n + c /\ \A i \in 1..c : 1 + n + 0 + i = 1 + n + i
    BY <1>1
  <1>12. LET l == EadfImage(ts)
         IN  /\ IsList(l) /\ Len(l) = 1 + n + c
             /\ l[1] = h
             /\ \A i \in 1..n : l[1 + i] = th(i)
             /\ \A i \in 1..c : l[1 + n + i] = Data(RawBits(ts[Nth(Formatted(ts), i)]).dat)
    <2> DEFINE l == EadfImage(ts)
    <2>1. l = <<h>> \o a \o <<>> \o d
      BY <1>2, <1>10
    <2> HIDE DEF l
    <2>2. /\ IsList(l) /\ Len(l) = 1 + n + 0 + c
          /\ l[1] = h
          /\ \A i \in 1..n : l[1 + i] = a[i]
          /\ \A i \in 1..c : l[1 + n + 0 + i] = d[i]
      BY <1>9, <2>1
    <2>3. Len(l) = 1 + n + c
      BY <1>11, <2>2
    <2>4. \A i \in 1..n : l[1 + i] = th(i)
      BY <1>3, <2>2
    <2>5. ASSUME NEW i \in 1..c
          PROVE  l[1 + n + i] = Data(RawBits(ts[Nth(Formatted(ts), i)]).dat)
      <3>1. 1 + n + 0 + i = 1 + n + i
        BY <1>11
      <3>2. l[1 + n + 0 + i] = d[i]
        BY <2>2
      <3> QED
        BY <1>5, <3>1, <3>2
    <2> QED
      BY <2>2, <2>3, <2>4, <2>5 DEF l
  <1> QED
    BY <1>1, <1>12 DEF n, c, h, th

LEMMA AdfImageOf ==
    ASSUME NEW ts, IsList(ts)
    PROVE  LET l == AdfImage(ts)
           IN  /\ IsList(l) /\ Len(l) = Len(ts)
               /\ \A i \in 1..Len(ts) : l[i] = Data(AdosData(ts[i]))
  <1>1. AdfImage(ts) = [i \in 1..Len(ts) |-> Data(AdosData(ts[i]))]
    BY DEF AdfImage
  <1>2. Len(ts) \in Nat
    BY ListOf
  <1>3. AdfImage(ts) = [i \in 1..Len(ts) |-> AdfImage(ts)[i]]
    BY <1>1
  <1>4. IsList(AdfImage(ts)) /\ Len(AdfImage(ts)) = Len(ts)
    BY <1>2, <1>3, ListOfFcn
  <1> QED
    BY <1>1, <1>4

\* A file that holds the beginning of an image.
LEMMA ChunksOf ==
    ASSUME NEW l, NEW rest, IsList(file), IsList(rest), file \o rest = l
    PROVE  /\ \A x : Chunk(x) = IF x \in 1..Len(file) THEN l[x] ELSE Zeros
           /\ IsList(l) /\ Len(file) \in Nat /\ Len(l) \in Nat /\ Len(file) <= Len(l)
           /\ 1..Len(file) \subseteq 1..Len(l)
           /\ rest = <<>> => file = l
  <1>1. /\ Len(file) \in Nat /\ Len(rest) \in Nat
        /\ IsList(l) /\ Len(l) = Len(file) + Len(rest)
        /\ \A i \in 1..Len(file) : l[i] = file[i]
    BY ListOf, ListConcat
  <1>2. rest = <<>> => file = l
    BY ConcatEmptySeq DEF IsList
  <1> QED
    BY <1>1, <1>2 DEF Chunk

\* A DSK file that holds the beginning of an image: dsk_open finds tracks it may
\* use, and the tags or none; in the whole image it finds what was saved.
LEMMA DskReads ==
    ASSUME NEW ts, NEW tgs, NEW rest, GoodTracks(ts), GoodTags(tgs),
           IsList(file), IsList(rest), file \o rest = DskImage(ts, tgs), file # <<>>
    PROVE  /\ GoodTracks(DskTracks)
           /\ DskTags # <<>> => DskTags = tgs
           /\ rest = <<>> =>
                /\ DskTags = tgs /\ Len(DskTracks) = Len(ts)
                /\ \A i \in 1..Len(ts) :
                     KeptTrack("dsk", DskTracks[i]) = KeptTrack("dsk", ts[i])
  <1> DEFINE l == DskImage(ts, tgs)
             n == Len(ts)
             m == Len(tgs)
             W == WithData(ts)
             c == Cardinality(W)
  <1>0. /\ IsList(ts) /\ IsList(tgs) /\ n \in Nat /\ m \in Nat \ {0}
        /\ \A i \in 1..n : GoodTrack(ts[i])
    BY ListOf, GoodTagsOf DEF GoodTracks
  <1>1. /\ IsList(l) /\ Len(l) = 1 + n + m + c /\ c \in Nat
        /\ l[1] = [k |-> "dsk", n |-> n]
        /\ \A i \in 1..n : l[1 + i] = DskTrackHeader(ts, tgs, i)
        /\ \A i \in 1..m : l[1 + n + i] = [k |-> "tag", tag |-> Swizzle(tgs[i])]
        /\ \A i \in 1..c : l[1 + n + m + i] = Data(ts[Nth(W, i)].dat)
    BY <1>0, DskImageOf
  <1>w. /\ W \in SUBSET (1..n)
        /\ \A i \in W : ts[i].len # 0
        /\ \A i \in 1..n : ts[i].len # 0 => i \in W
    BY <1>0, WithDataOf DEF WithData
  <1>k. /\ \A i \in W : /\ Cardinality({j \in W : j <= i}) \in 1..c
                        /\ Cardinality({j \in W : j <= i})
                             = Cardinality({j \in W : j < i}) + 1
                        /\ Nth(W, Cardinality({j \in W : j <= i})) = i
        /\ \A k \in 1..c : Nth(W, k) \in W
    BY <1>0, <1>w, Ranks
  <1> HIDE DEF W, c
  <1>2. /\ \A x : Chunk(x) = IF x \in 1..Len(file) THEN l[x] ELSE Zeros
        /\ Len(file) \in Nat /\ Len(l) \in Nat
        /\ 1..Len(file) \subseteq 1..Len(l)
        /\ rest = <<>> => file = l
    BY ChunksOf
  <1> HIDE DEF l
  <1>3. Chunk(1) = [k |-> "dsk", n |-> n] /\ Chunk(1).n = n
    <2>1. 1 \in 1..Len(file)
      BY <1>2, ListOf
    <2> QED
      BY <1>1, <1>2, <2>1
  <1> HIDE DEF n, m
  <1>4. ASSUME NEW x
        PROVE  DataAt(x) # <<>>
    <2>1. CASE Chunk(x).k = "data"
      <3>1. x \in 1..Len(file) /\ Chunk(x) = l[x]
        <4>1. Zeros.k # "data"
          BY DEF Zeros
        <4> QED
          BY <1>2, <2>1, <4>1
      <3>2. x \in 1..(1 + n + m + c)
        BY <1>1, <1>2, <3>1
      <3>3. x # 1
        BY <1>1, <2>1, <3>1
      <3>4. ~(x \in 2..(1 + n))
        <4> SUFFICES ASSUME x \in 2..(1 + n)
                     PROVE  FALSE
          OBVIOUS
        <4>1. x - 1 \in 1..n /\ 1 + (x - 1) = x
          BY <1>0
        <4>2. l[x] = DskTrackHeader(ts, tgs, x - 1)
          BY <1>1, <4>1
        <4>3. l[x].k = "th"
          BY <4>2 DEF DskTrackHeader
        <4> QED
          BY <2>1, <3>1, <4>3
      <3>5. ~(x \in (2 + n)..(1 + n + m))
        <4> SUFFICES ASSUME x \in (2 + n)..(1 + n + m)
                     PROVE  FALSE
          OBVIOUS
        <4>1. x - 1 - n \in 1..m /\ 1 + n + (x - 1 - n) = x
          BY <1>0
        <4>2. l[x] = [k |-> "tag", tag |-> Swizzle(tgs[x - 1 - n])]
          BY <1>1, <4>1
        <4> QED
          BY <2>1, <3>1, <4>2
      <3>6. x - 1 - n - m \in 1..c /\ 1 + n + m + (x - 1 - n - m) = x
        BY <1>0, <1>1, <3>2, <3>3, <3>4, <3>5
      <3>7. PICK i \in W : l[x] = Data(ts[i].dat)
        BY <1>1, <1>k, <3>6
      <3>8. i \in 1..n /\ ts[i].len # 0
        BY <1>w
      <3>9. ts[i].dat # <<>>
        BY <1>0, <3>8 DEF GoodTrack, NoDat
      <3> QED
        BY <2>1, <3>1, <3>7, <3>9 DEF DataAt, Data
    <2>2. CASE Chunk(x).k # "data"
      BY <2>2, FormatAssumption DEF DataAt
    <2> QED
      BY <2>1, <2>2
  <1>5. ASSUME NEW i \in 1..n
        PROVE  /\ GoodTrack(DskTrack(Chunk(1 + i)))
               /\ rest = <<>> =>
                    KeptTrack("dsk", DskTrack(Chunk(1 + i))) = KeptTrack("dsk", ts[i])
    <2> DEFINE tr == ts[i]
               th == DskTrackHeader(ts, tgs, i)
    <2>1. GoodTrack(tr)
      BY <1>0
    <2>2. /\ th.k = "th" /\ th.type = tr.type /\ th.secs = tr.secs
          /\ th.valid = tr.valid \cap AllValid(SavedSectors) /\ th.at = DataOff(ts, tgs, i)
          /\ th.len = tr.len /\ th.off = tr.off /\ th.total = tr.total
      BY DEF DskTrackHeader
    <2>3. Chunk(1 + i) = th \/ Chunk(1 + i) = Zeros
      BY <1>1, <1>2
    <2>4. rest = <<>> => Chunk(1 + i) = th
      <3>1. 1 + i \in 1..Len(l)
        BY <1>0, <1>1
      <3> QED
        BY <1>1, <1>2, <3>1
    <2> HIDE DEF th
    <2>5. CASE Chunk(1 + i) = th
      <3> DEFINE d == IF th.len = 0 THEN NoDat ELSE DataAt(th.at + 1)
                 new == DskTrack(th)
      <3>1. th # Zeros
        BY <2>2 DEF Zeros
      <3>2. /\ new.type = tr.type /\ new.secs = tr.secs /\ new.valid = th.valid
            /\ new.dat = d /\ new.len = tr.len /\ new.off = tr.off /\ new.total = tr.total
        BY <2>2, <3>1 DEF DskTrack
      <3>3. d = NoDat <=> tr.len = 0
        BY <1>4, <2>2 DEF NoDat
      <3> HIDE DEF new, d
      <3>4. GoodTrack(new)
        BY <2>1, <2>2, <3>2, <3>3 DEF GoodTrack
      <3>5. ASSUME rest = <<>>
            PROVE  d = tr.dat
        <4>1. CASE tr.len = 0
          BY <2>1, <3>3, <4>1 DEF GoodTrack
        <4>2. CASE tr.len # 0
          <5> DEFINE k == Cardinality({j \in W : j <= i})
                     b == Cardinality({j \in W : j < i})
          <5>1. i \in W
            BY <1>w, <4>2
          <5>2. k \in 1..c /\ k = b + 1 /\ Nth(W, k) = i
            BY <1>k, <5>1
          <5>3. th.at = 1 + n + m + b
            BY <2>2 DEF DataOff, W, n, m
          <5>4. b \in Nat
            <6>1. IsFiniteSet(W)
              BY <1>0, <1>w, Ranks
            <6> QED
              BY <6>1, FS_Subset, FS_CardinalityType
          <5> HIDE DEF k, b
          <5>5. th.at + 1 = 1 + n + m + k
            BY <1>0, <5>2, <5>3, <5>4
          <5>6. 1 + n + m + k \in 1..Len(l)
            BY <1>0, <1>1, <5>2
          <5>7. Chunk(th.at + 1) = Data(tr.dat)
            BY <1>1, <1>2, <3>5, <5>2, <5>5, <5>6
          <5>8. DataAt(th.at + 1) = tr.dat
            BY <5>7 DEF DataAt, Data
          <5> QED
            BY <2>2, <4>2, <5>8 DEF d
        <4> QED
          BY <4>1, <4>2
      <3>6. rest = <<>> => KeptTrack("dsk", new) = KeptTrack("dsk", tr)
        <4>1. new.valid \cap AllValid(SavedSectors) = tr.valid \cap AllValid(SavedSectors)
          BY <2>2, <3>2
        <4>2. \A x : KeptTrack("dsk", x) = <<x.type, x.secs, x.dat, x.off, x.total,
                                             x.valid \cap AllValid(SavedSectors)>>
          BY DEF KeptTrack
        <4> HIDE DEF new
        <4> QED
          BY <3>2, <3>5, <4>1, <4>2
      <3> QED
        BY <2>5, <3>4, <3>6 DEF new
    <2>6. CASE Chunk(1 + i) = Zeros
      <3>1. rest # <<>>
        BY <2>2, <2>4, <2>6 DEF Zeros
      <3>2. DskTrack(Zeros) = InitTrack("unformatted")
        BY DEF DskTrack
      <3> QED
        BY <2>6, <3>1, <3>2, UnformattedIsGood
    <2> QED
      BY <2>3, <2>5, <2>6
  <1>6. /\ GoodTracks(DskTracks) /\ Len(DskTracks) = n
        /\ \A i \in 1..n : DskTracks[i] = DskTrack(Chunk(1 + i))
    <2>1. DskTracks = [i \in 1..n |-> DskTrack(Chunk(1 + i))]
      BY <1>3 DEF DskTracks
    <2>2. DskTracks = [i \in 1..n |-> DskTracks[i]]
      BY <2>1
    <2>3. IsList(DskTracks) /\ Len(DskTracks) = n
      BY <1>0, <2>2, ListOfFcn
    <2>4. \A i \in 1..n : DskTracks[i] = DskTrack(Chunk(1 + i))
      BY <2>1
    <2> QED
      BY <1>5, <2>3, <2>4 DEF GoodTracks
  <1>7. /\ DskTags # <<>> => DskTags = tgs
        /\ rest = <<>> => DskTags = tgs
    <2> DEFINE mark == [k |-> "tag", tag |-> End]
               ends == {x \in (1 + n + 1)..Len(file) : file[x] = mark}
               last == CHOOSE x \in ends : \A y \in ends : x <= y
               found == [i \in 1..(last - (1 + n)) |-> Swizzle(file[1 + n + i].tag)]
    <2>1. DskTags = IF ends = {} THEN <<>> ELSE found
      BY <1>3 DEF DskTags
    <2>2. \A x \in 1..Len(file) : file[x] = l[x]
      BY <1>2 DEF Chunk
    <2>3. ASSUME NEW x \in ends
          PROVE  x = 1 + n + m
      <3>1. /\ x \in 1..Len(file) /\ x \in 1..(1 + n + m + c) /\ l[x] = mark
            /\ x >= 2 + n
        <4>1. x \in (1 + n + 1)..Len(file) /\ file[x] = mark
          OBVIOUS
        <4>2. x \in 1..Len(file) /\ x >= 2 + n
          BY <1>0, <1>2, <4>1
        <4> QED
          BY <1>1, <1>2, <2>2, <4>1, <4>2
      <3>2. ~(x > 1 + n + m)
        <4> SUFFICES ASSUME x > 1 + n + m
                     PROVE  FALSE
          BY <1>0
        <4>1. x - 1 - n - m \in 1..c /\ 1 + n + m + (x - 1 - n - m) = x
          BY <1>0, <1>1, <3>1
        <4> DEFINE r == x - 1 - n - m
        <4>2. l[1 + n + m + r] = Data(ts[Nth(W, r)].dat) /\ 1 + n + m + r = x
          BY <1>1, <4>1
        <4> HIDE DEF r
        <4>3. l[x].k = "data"
          BY <4>2 DEF Data
        <4> QED
          BY <3>1, <4>3
      <3>3. x - 1 - n \in 1..m /\ 1 + n + (x - 1 - n) = x
        <4>1. n \in Nat /\ m \in Nat /\ x \in Nat /\ x >= 2 + n
          <5>1. n \in Nat /\ m \in Nat
            BY <1>0
          <5>2. x \in 1..Len(file) /\ x >= 2 + n
            BY <3>1
          <5> QED
            BY <5>1, <5>2
        <4> HIDE DEF n, m, ends
        <4> QED
          BY <3>2, <4>1, PlaceInPart
      <3> DEFINE i == x - 1 - n
      <3>4. Swizzle(tgs[i]) = End
        <4>1. l[x] = [k |-> "tag", tag |-> Swizzle(tgs[i])]
          BY <1>1, <3>3
        <4> QED
          BY <3>1, <4>1
      <3>5. tgs[i].id = EndTag
        <4>1. tgs[i] \in TagRecs
          BY <3>3, GoodTagsOf DEF m
        <4> QED
          BY <3>4, <4>1, SwizzleTwice DEF End
      <3>6. i = m
        BY <3>3, <3>5, GoodTagsOf, TagAssumption DEF m
      <3> QED
        BY <1>0, <3>3, <3>6
    <2>4. ASSUME 1 + n + m \in 1..Len(file)
          PROVE  1 + n + m \in ends
      <3>1. m \in 1..m
        BY <1>0
      <3>2. tgs[m] = End /\ tgs[m] \in TagRecs
        BY <3>1, GoodTagsOf DEF GoodTags, m
      <3>3. l[1 + n + m] = mark
        BY <1>1, <3>1, <3>2, SwizzleTwice
      <3>4. 1 + n + m \in (1 + n + 1)..Len(file)
        BY <1>0, <1>2, <2>4
      <3> QED
        BY <2>2, <2>4, <3>3, <3>4
    <2>5. ASSUME ends # {}
          PROVE  found = tgs
      <3>1. last = 1 + n + m /\ 1 + n + m \in ends
        <4>1. PICK x \in ends : TRUE
          BY <2>5
        <4>2. x = 1 + n + m
          BY <2>3
        <4>3. x \in Nat
          BY <1>0, <4>2
        <4>4. \A y \in ends : x <= y
          BY <2>3, <4>2, <4>3
        <4>5. last \in ends
          BY <4>1, <4>4
        <4> HIDE DEF ends, last
        <4> QED
          BY <2>3, <4>1, <4>2, <4>5
      <3>2. last - (1 + n) = m
        <4> HIDE DEF last
        <4> QED
          BY <1>0, <3>1
      <3>3. ASSUME NEW i \in 1..m
            PROVE  Swizzle(file[1 + n + i].tag) = tgs[i]
        <4>1. 1 + n + i \in 1..Len(file)
          <5>1. 1 + n + m \in (1 + n + 1)..Len(file)
            BY <3>1
          <5> QED
            BY <1>0, <1>2, <5>1
        <4>2. file[1 + n + i].tag = Swizzle(tgs[i])
          <5> DEFINE s == Swizzle(tgs[i])
          <5>1. l[1 + n + i] = [k |-> "tag", tag |-> s]
            BY <1>1
          <5> HIDE DEF s
          <5>2. file[1 + n + i].tag = s
            BY <2>2, <4>1, <5>1
          <5> QED
            BY <5>2 DEF s
        <4>3. tgs[i] \in TagRecs
          BY GoodTagsOf DEF m
        <4> QED
          BY <4>2, <4>3, SwizzleTwice
      <3> HIDE DEF last
      <3>4. found = [i \in 1..m |-> tgs[i]]
        BY <3>2, <3>3
      <3>5. tgs = [i \in 1..m |-> tgs[i]]
        BY <1>0, ListOf DEF m
      <3> QED
        BY <3>4, <3>5
    <2>6. rest = <<>> => ends # {}
      <3> HAVE rest = <<>>
      <3>1. 1 + n + m \in 1..Len(file)
        BY <1>0, <1>1, <1>2
      <3> QED
        BY <2>4, <3>1
    <2> HIDE DEF ends, found
    <2> QED
      BY <2>1, <2>5, <2>6
  <1> QED
    BY <1>5, <1>6, <1>7 DEF n

\* What eadf_open makes of the headers and the data it finds.
EadfTrackAt(i, at) ==
    IF Chunk(1 + i).len = 0 THEN Unformatted
    ELSE IF Chunk(1 + i).ados THEN AdfTrack(DataAt(at))
    ELSE RawTrack([dat |-> DataAt(at), len |-> Chunk(1 + i).len])

LEMMA EadfTracksAreGood ==
    ASSUME NEW n \in Nat, Chunk(1).n = n, \A x : DataAt(x) # <<>>,
           \A i \in 1..n : Chunk(1 + i).len \in Nat
    PROVE  /\ GoodTracks(EadfTracks) /\ Len(EadfTracks) = n
           /\ \A i \in 1..n :
                EadfTracks[i] = EadfTrackAt(i, 2 + n
                                  + Cardinality({j \in 1..(i - 1) : Chunk(1 + j).len # 0}))
  <1> DEFINE at(i) == 2 + n + Cardinality({j \in 1..(i - 1) : Chunk(1 + j).len # 0})
  <1>1. EadfTracks = [i \in 1..n |-> EadfTrackAt(i, at(i))]
    BY DEF EadfTracks, EadfTrackAt
  <1> HIDE DEF at
  <1>2. EadfTracks = [i \in 1..n |-> EadfTracks[i]]
    BY <1>1
  <1>3. IsList(EadfTracks) /\ Len(EadfTracks) = n
    BY <1>2, ListOfFcn
  <1>4. \A i \in 1..n : EadfTracks[i] = EadfTrackAt(i, at(i))
    BY <1>1
  <1>5. ASSUME NEW i \in 1..n
        PROVE  GoodTrack(EadfTrackAt(i, at(i)))
    <2> DEFINE th == Chunk(1 + i)
               d == DataAt(at(i))
    <2>1. d # <<>> /\ th.len \in Nat
      OBVIOUS
    <2>2. EadfTrackAt(i, at(i)) = IF th.len = 0 THEN Unformatted
                                  ELSE IF th.ados THEN AdfTrack(d)
                                  ELSE RawTrack([dat |-> d, len |-> th.len])
      BY DEF EadfTrackAt
    <2> HIDE DEF th, d
    <2>3. CASE th.len = 0
      BY <2>2, <2>3, UnformattedIsGood
    <2>4. CASE th.len # 0 /\ th.ados
      BY <2>1, <2>2, <2>4, AdfTrackIsGood
    <2>5. CASE th.len # 0 /\ ~th.ados
      <3>1. th.len \in Nat \ {0}
        BY <2>1, <2>5
      <3>2. GoodTrack(RawTrack([dat |-> d, len |-> th.len]))
        BY <2>1, <3>1, RawTrackIsGood
      <3> QED
        BY <2>2, <2>5, <3>2
    <2> QED
      BY <2>3, <2>4, <2>5
  <1>6. GoodTracks(EadfTracks)
    BY <1>3, <1>4, <1>5 DEF GoodTracks
  <1> QED
    BY <1>3, <1>4, <1>6 DEF at

\* An extended ADF that holds the beginning of an image, with its headers.
LEMMA EadfReads ==
    ASSUME NEW ts, NEW rest, GoodTracks(ts), IsList(file), IsList(rest),
           file \o rest = EadfImage(ts), file # <<>>,
           \A i \in 1..Chunk(1).n : Chunk(1 + i) # Zeros
    PROVE  /\ GoodTracks(EadfTracks)
           /\ rest = <<>> =>
                /\ Len(EadfTracks) = Len(ts)
                /\ \A i \in 1..Len(ts) :
                     KeptTrack("eadf", EadfTracks[i]) = KeptTrack("eadf", ts[i])
  <1> DEFINE l == EadfImage(ts)
             n == Len(ts)
             F == Formatted(ts)
             c == Cardinality(F)
             th(i) == [k |-> "eth", ados |-> FALSE,
                       len |-> IF ts[i].type = "unformatted" THEN 0 ELSE BitLen(ts[i])]
  <1>0. IsList(ts) /\ n \in Nat /\ \A i \in 1..n : GoodTrack(ts[i])
    BY ListOf DEF GoodTracks
  <1>1. /\ IsList(l) /\ Len(l) = 1 + n + c /\ c \in Nat
        /\ l[1] = [k |-> "eadf", n |-> n]
        /\ \A i \in 1..n : l[1 + i] = th(i)
        /\ \A i \in 1..c : l[1 + n + i] = Data(RawBits(ts[Nth(F, i)]).dat)
    BY <1>0, EadfImageOf
  <1>w. F \in SUBSET (1..n) /\ \A i \in 1..n : i \in F <=> ts[i].type # "unformatted"
    BY <1>0, WithDataOf DEF Formatted
  <1>k. /\ IsFiniteSet(F)
        /\ \A i \in F : /\ Cardinality({j \in F : j <= i}) \in 1..c
                        /\ Cardinality({j \in F : j <= i})
                             = Cardinality({j \in F : j < i}) + 1
                        /\ Nth(F, Cardinality({j \in F : j <= i})) = i
        /\ \A k \in 1..c : Nth(F, k) \in F
    BY <1>0, <1>w, Ranks
  <1>t. \A i \in 1..n : /\ th(i).len \in Nat /\ th(i).ados = FALSE /\ th(i).k = "eth"
                        /\ th(i).len # 0 <=> i \in F
                        /\ i \in F => th(i).len = BitLen(ts[i])
    <2> SUFFICES ASSUME NEW i \in 1..n
                 PROVE  /\ th(i).len \in Nat /\ th(i).ados = FALSE /\ th(i).k = "eth"
                        /\ th(i).len # 0 <=> i \in F
                        /\ i \in F => th(i).len = BitLen(ts[i])
      OBVIOUS
    <2>1. ts[i].type # "unformatted" => BitLen(ts[i]) \in Nat \ {0}
      BY <1>0, BitLenOf
    <2> QED
      BY <1>w, <2>1
  <1> HIDE DEF F, c, th
  <1>2. /\ \A x : Chunk(x) = IF x \in 1..Len(file) THEN l[x] ELSE Zeros
        /\ Len(file) \in Nat /\ Len(l) \in Nat
        /\ 1..Len(file) \subseteq 1..Len(l)
        /\ rest = <<>> => file = l
    BY ChunksOf
  <1> HIDE DEF l
  <1>3. Chunk(1) = [k |-> "eadf", n |-> n] /\ Chunk(1).n = n
    <2>1. 1 \in 1..Len(file)
      BY <1>2, ListOf
    <2> QED
      BY <1>1, <1>2, <2>1
  <1> HIDE DEF n
  <1>4. ASSUME NEW i \in 1..n
        PROVE  Chunk(1 + i) = th(i)
    BY <1>1, <1>2, <1>3
  <1>5. ASSUME NEW x
        PROVE  DataAt(x) # <<>>
    <2>1. CASE Chunk(x).k = "data"
      <3>1. x \in 1..Len(file) /\ Chunk(x) = l[x]
        <4>1. Zeros.k # "data"
          BY DEF Zeros
        <4> QED
          BY <1>2, <2>1, <4>1
      <3>2. x \in 1..(1 + n + c)
        BY <1>1, <1>2, <3>1
      <3>3. x # 1
        BY <1>1, <2>1, <3>1
      <3>4. ~(x \in 2..(1 + n))
        <4> SUFFICES ASSUME x \in 2..(1 + n)
                     PROVE  FALSE
          OBVIOUS
        <4>1. x - 1 \in 1..n /\ 1 + (x - 1) = x
          BY <1>0
        <4>2. Chunk(x).k = "eth"
          BY <1>4, <1>t, <4>1
        <4> QED
          BY <2>1, <4>2
      <3> DEFINE r == x - 1 - n
      <3>5. r \in 1..c /\ 1 + n + r = x
        BY <1>0, <1>1, <3>2, <3>3, <3>4
      <3> HIDE DEF r
      <3>6. PICK i \in F : l[x] = Data(RawBits(ts[i]).dat)
        BY <1>1, <1>k, <3>5
      <3>7. i \in 1..n /\ ts[i].type # "unformatted"
        BY <1>w
      <3>8. RawBits(ts[i]).dat # <<>>
        BY <1>0, <3>7, BitLenOf
      <3> QED
        BY <2>1, <3>1, <3>6, <3>8 DEF DataAt, Data
    <2>2. CASE Chunk(x).k # "data"
      BY <2>2, FormatAssumption DEF DataAt
    <2> QED
      BY <2>1, <2>2
  <1> DEFINE at(i) == 2 + n + Cardinality({j \in 1..(i - 1) : Chunk(1 + j).len # 0})
  <1>6. /\ GoodTracks(EadfTracks) /\ Len(EadfTracks) = n
        /\ \A i \in 1..n : EadfTracks[i] = EadfTrackAt(i, at(i))
    <2>1. \A i \in 1..n : Chunk(1 + i).len \in Nat
      BY <1>4, <1>t
    <2> QED
      BY <1>0, <1>3, <1>5, <2>1, EadfTracksAreGood
  <1>7. ASSUME rest = <<>>, NEW i \in 1..n
        PROVE  KeptTrack("eadf", EadfTrackAt(i, at(i))) = KeptTrack("eadf", ts[i])
    <2>1. CASE i \notin F
      <3>1. EadfTrackAt(i, at(i)) = Unformatted
        BY <1>4, <1>t, <2>1 DEF EadfTrackAt
      <3>2. ts[i].type = "unformatted"
        BY <1>w, <2>1
      <3> QED
        BY <3>1, <3>2, UnformattedIsGood DEF KeptTrack
    <2>2. CASE i \in F
      <3> DEFINE k == Cardinality({j \in F : j <= i})
                 b == Cardinality({j \in F : j < i})
                 d == RawBits(ts[i]).dat
                 len == BitLen(ts[i])
                 new == RawTrack([dat |-> d, len |-> len])
      <3>1. k \in 1..c /\ k = b + 1 /\ Nth(F, k) = i
        BY <1>k, <2>2
      <3>2. b \in Nat
        BY <1>k, FS_Subset, FS_CardinalityType
      <3>3. at(i) = 2 + n + b
        <4>1. \A j \in 1..n : Chunk(1 + j).len # 0 <=> j \in F
          BY <1>4, <1>t
        <4>2. \A j : j \in 1..(i - 1) <=> j \in 1..n /\ j < i
          BY <1>0
        <4>3. {j \in 1..(i - 1) : Chunk(1 + j).len # 0} = {j \in F : j < i}
          BY <1>w, <4>1, <4>2
        <4> QED
          BY <4>3
      <3> HIDE DEF k, b, at
      <3>4. at(i) = 1 + n + k /\ 1 + n + k \in 1..Len(l)
        BY <1>0, <1>1, <3>1, <3>2, <3>3
      <3>5. DataAt(at(i)) = d
        <4>1. Chunk(at(i)) = Data(d)
          BY <1>1, <1>2, <1>7, <3>1, <3>4
        <4> QED
          BY <4>1 DEF DataAt, Data
      <3>6. ts[i].type # "unformatted" /\ GoodTrack(ts[i])
        BY <1>0, <1>w, <2>2
      <3>7. len \in Nat \ {0} /\ d # <<>> /\ RawBits(ts[i]) = [dat |-> d, len |-> len]
        BY <3>6, BitLenOf DEF RawBits
      <3>8. EadfTrackAt(i, at(i)) = new
        BY <1>4, <1>t, <2>2, <3>5, <3>7 DEF EadfTrackAt
      <3> HIDE DEF d, len
      <3>9. new.type = "raw_dd" /\ new.dat = d /\ new.total = len
        BY <3>7, RawTrackIsGood
      <3> HIDE DEF new
      <3>10. RawBits(new) = [dat |-> d, len |-> len]
        BY <3>7, <3>9, LengthAssumption DEF RawBits, BitLen
      <3>11. KeptTrack("eadf", new) = <<RawBits(new)>>
        BY <3>9 DEF KeptTrack
      <3>12. KeptTrack("eadf", ts[i]) = <<RawBits(ts[i])>>
        BY <3>6 DEF KeptTrack
      <3> QED
        BY <3>7, <3>8, <3>10, <3>11, <3>12
    <2> QED
      BY <2>1, <2>2
  <1> QED
    BY <1>6, <1>7 DEF n

\* The extended ADF of another program.
LEMMA ForeignReads ==
    ASSUME NEW d, d # <<>>, file = ForeignEadf(d)
    PROVE  GoodTracks(EadfTracks) /\ Chunk(1).k = "eadf" /\ file # <<>>
  <1>1. /\ Len(file) = 5
        /\ file[1] = [k |-> "eadf", n |-> 2]
        /\ file[2] = [k |-> "eth", ados |-> FALSE, len |-> DefaultBits]
        /\ file[3] = [k |-> "eth", ados |-> TRUE, len |-> 1]
        /\ file[4] = Data(d) /\ file[5] = Data(d)
    BY DEF ForeignEadf
  <1>2. /\ Chunk(1) = file[1] /\ Chunk(2) = file[2] /\ Chunk(3) = file[3]
        /\ \A x : Chunk(x) \in {file[1], file[2], file[3], Data(d), Zeros}
    BY <1>1 DEF Chunk
  <1>3. ASSUME NEW x
        PROVE  DataAt(x) # <<>>
    <2>1. Chunk(x).k = "data" => Chunk(x).dat = d
      BY <1>1, <1>2 DEF Data, Zeros
    <2> QED
      BY <2>1, FormatAssumption DEF DataAt
  <1>4. Chunk(1).n = 2
    BY <1>1, <1>2
  <1>5. \A i \in 1..2 : Chunk(1 + i).len \in Nat
    <2>1. Chunk(2).len \in Nat
      BY <1>1, <1>2, LengthAssumption
    <2>2. Chunk(3).len \in Nat
      BY <1>1, <1>2
    <2>3. \A i \in 1..2 : 1 + i = 2 \/ 1 + i = 3
      OBVIOUS
    <2> QED
      BY <2>1, <2>2, <2>3
  <1>6. GoodTracks(EadfTracks)
    BY <1>3, <1>4, <1>5, EadfTracksAreGood
  <1> QED
    BY <1>1, <1>2, <1>6

-----------------------------------------------------------------------------
(* The inductive invariant. *)

\* The suffixes that a container's files may carry.
Fits(c, n) ==
    \/ c = "dsk" /\ n = "dsk"
    \/ c = "adf" /\ n = "adf"
    \/ c = "eadf" /\ n \in {"adf", "eadf"}

Simple ==
    /\ name \in Names /\ pc \in {"closed", "open", "closing", "spinning"}
    /\ readOnly \in BOOLEAN /\ listed \in BOOLEAN /\ changes \in 0..MaxChanges

NoDisk ==
    /\ container = "none" /\ tracks = <<>> /\ tags = <<>>
    /\ lastTag = NoTag /\ ~listed

\* The disk in hand: what its container needs of it, and what holds of its tags.
GoodDisk ==
    /\ Fits(container, name) /\ GoodTracks(tracks)
    /\ container # "eadf" => listed
    /\ container = "adf" => Len(tracks) = NrTracks["adf"]
    /\ IF listed THEN GoodTags(tags) ELSE tags = <<>>
    /\ listed /\ lastTag # NoTag => \E i \in 1..Len(tags) : tags[i] = lastTag

\* The file holds the image of a disk up to what is in rest.
Holds(c, ts, tgs, rest) ==
    /\ Fits(c, name) /\ GoodTracks(ts)
    /\ c = "dsk" => GoodTags(tgs)
    /\ c = "adf" => Len(ts) = NrTracks["adf"]
    /\ IsList(file) /\ IsList(rest) /\ file \o rest = Image(c, ts, tgs)
    /\ rest = <<>> => whole
    /\ saved # NotSaved => rest = <<>> /\ saved = KeptOf(c, ts, tgs)

FileGood ==
    \/ file = <<>> /\ saved = NotSaved
    \/ saved = NotSaved /\ name # "dsk" /\ \E d \in Payloads : file = ForeignEadf(d)
    \/ \E c, ts, tgs, rest : file # <<>> /\ Holds(c, ts, tgs, rest)

\* What is written and what is to be written make up the image.
Halfway ==
    /\ IsList(file) /\ IsList(todo) /\ file \o todo = Image(container, tracks, tags)
    /\ saved # NotSaved => todo = <<>> /\ saved = Kept

IInv ==
    /\ Simple
    /\ pc \in {"closed", "spinning"} => NoDisk
    /\ pc \in {"open", "closing"} => GoodDisk
    /\ FileGood
    /\ pc = "closing" => Halfway
    /\ pc = "open" /\ container = "adf" /\ file # <<>> => whole
    /\ ReopenKeeps

-----------------------------------------------------------------------------
LEMMA EndIsGood == GoodTags(<<End>>) /\ <<End>> # <<>>
  <1>1. End \in TagRecs
    <2>1. <<>> \in Seq(Nat) /\ EndTag \in 0..EndTag
      BY TagAssumption
    <2> QED
      BY <2>1 DEF End, TagRecs
  <1>2. <<End>> \in Seq(TagRecs) /\ Len(<<End>>) = 1 /\ <<End>>[1] = End
    BY <1>1
  <1>3. Ascending(<<End>>)
    BY <1>2 DEF Ascending
  <1> QED
    BY <1>2, <1>3 DEF GoodTags

\* The end of dsk_write_raw.
LEMMA FinalIsGood ==
    ASSUME NEW total \in Lengths, NEW off \in Offsets, NEW seen \in Seen
    PROVE  LET t == FinalLength(total, seen)
           IN  /\ t \in Nat \cup {Weak} /\ t # 0
               /\ FinalOffset(off, t) \in 0 .. (IF t = Weak THEN 0 ELSE t - 1)
  <1> DEFINE t == FinalLength(total, seen)
  <1>1. t \in Nat \cup {Weak} /\ t # 0
    BY LengthAssumption DEF FinalLength
  <1> HIDE DEF t
  <1>2. ASSUME t = Weak
        PROVE  FinalOffset(off, t) \in 0..0
    BY <1>2 DEF FinalOffset
  <1>3. ASSUME t # Weak
        PROVE  FinalOffset(off, t) \in 0..(t - 1)
    <2> DEFINE q == CRem(off, t)
    <2>1. t \in Nat \ {0} /\ off \in Int
      BY <1>1, <1>3, LengthAssumption
    <2>2. q \in (-(t - 1))..(t - 1)
      <3>1. CASE off >= 0
        <4>1. off % t \in 0..(t - 1)
          BY <2>1, <3>1
        <4> QED
          BY <2>1, <3>1, <4>1 DEF CRem
      <3>2. CASE ~(off >= 0)
        <4> DEFINE o == (-off) % t
        <4>1. o \in 0..(t - 1)
          BY <2>1, <3>2
        <4>2. q = -o
          BY <3>2 DEF CRem
        <4> HIDE DEF o, q
        <4> QED
          BY <2>1, <4>1, <4>2
      <3> QED
        BY <3>1, <3>2
    <2>3. FinalOffset(off, t) = IF q < 0 THEN q + t ELSE q
      BY <1>3 DEF FinalOffset
    <2> HIDE DEF q
    <2>4. (IF q < 0 THEN q + t ELSE q) \in 0..(t - 1)
      BY <2>1, <2>2
    <2> QED
      BY <2>3, <2>4
  <1>4. FinalOffset(off, t) \in 0 .. (IF t = Weak THEN 0 ELSE t - 1)
    BY <1>2, <1>3
  <1> QED
    BY <1>1, <1>4 DEF t

\* What is kept of a disk does not tell two disks apart if it does not tell their
\* tracks and tags apart.
LEMMA SameKept ==
    ASSUME NEW c, NEW ts, NEW tgs, NEW new, NEW ntgs, Len(new) = Len(ts),
           \A i \in 1..Len(ts) : KeptTrack(c, new[i]) = KeptTrack(c, ts[i]),
           c = "dsk" => ntgs = tgs
    PROVE  KeptOf(c, new, ntgs) = KeptOf(c, ts, tgs)
  <1> DEFINE x == [i \in 1..Len(ts) |-> KeptTrack(c, new[i])]
             y == [i \in 1..Len(ts) |-> KeptTrack(c, ts[i])]
             g == IF c = "dsk" THEN tgs ELSE <<>>
  <1>1. x = y
    OBVIOUS
  <1>2. KeptOf(c, new, ntgs) = [by |-> c, tags |-> g, tracks |-> x]
    BY DEF KeptOf
  <1>3. KeptOf(c, ts, tgs) = [by |-> c, tags |-> g, tracks |-> y]
    BY DEF KeptOf
  <1> HIDE DEF x, y, g
  <1> QED
    BY <1>1, <1>2, <1>3

\* The tags before and after the place k of a new one.
Inserted(l, list, k, x) ==
    /\ l \in Seq(TagRecs)
    /\ DOMAIN l = 1..(Len(list) + 1)
    /\ \A i \in 1..(Len(list) + 1) :
          l[i] = IF i < k THEN list[i] ELSE IF i = k THEN x ELSE list[i - 1]

LEMMA InsertTag ==
    ASSUME NEW list \in Seq(TagRecs), NEW x \in TagRecs, NEW k \in 1..(Len(list) + 1)
    PROVE  Inserted(InsertAt(list, k, x), list, k, x)
  <1> DEFINE l == InsertAt(list, k, x)
  <1>1. l \in Seq(TagRecs)
    BY InsertAtValue
  <1>2. DOMAIN l = 1..(Len(list) + 1)
    BY InsertAtValue
  <1>3. \A i \in 1..(Len(list) + 1) :
          l[i] = IF i < k THEN list[i] ELSE IF i = k THEN x ELSE list[i - 1]
    BY InsertAtValue
  <1> HIDE DEF l
  <1>4. Inserted(l, list, k, x)
    BY <1>1, <1>2, <1>3 DEF Inserted
  <1> QED
    BY <1>4 DEF l

\* disk_set_tag keeps the list, and the tag is in it.
LEMMA TagIsSet ==
    ASSUME GoodTags(tags), NEW id \in TagIds, NEW val \in TagValues
    PROVE  LET n   == TagPlace(id)
               new == [id |-> id, val |-> val]
               l   == IF n = 0 THEN tags
                      ELSE IF tags[n].id = id THEN ReplaceAt(tags, n, new)
                      ELSE InsertAt(tags, n, new)
           IN  GoodTags(l) /\ \E i \in 1..Len(l) : l[i] = new
  <1> DEFINE n   == TagPlace(id)
             new == [id |-> id, val |-> val]
             m   == Len(tags)
             I   == {i \in 1..m : tags[i].id >= id}
  <1>1. /\ m \in Nat \ {0} /\ DOMAIN tags = 1..m /\ IsList(tags)
        /\ tags \in Seq(TagRecs) /\ tags[m] = End /\ Ascending(tags)
        /\ \A i \in 1..m : tags[i] \in TagRecs /\ tags[i].id \in Nat
    BY GoodTagsOf DEF GoodTags
  <1>2. new \in TagRecs /\ new.id = id /\ id \in Nat /\ id < EndTag /\ EndTag \in Nat
    BY TagAssumption DEF TagRecs
  <1>3. n = IF I # {} THEN Min(I) ELSE 0
    BY DEF TagPlace, SelectInSeq
  <1>4. m \in I
    <2>1. tags[m].id = EndTag
      BY <1>1 DEF End
    <2> QED
      BY <1>1, <1>2, <2>1
  <1>5. n \in 1..m /\ tags[n].id >= id /\ \A i \in 1..m : i < n => tags[i].id < id
    <2>1. I \in SUBSET Nat
      BY <1>1
    <2>2. n \in I /\ \A i \in I : n <= i
      <3> HIDE DEF I
      <3> QED
        BY <1>3, <1>4, <2>1, LeastExists
    <2>3. ASSUME NEW i \in 1..m, i < n
          PROVE  tags[i].id < id
      <3>1. i \notin I
        <4>1. n \in Nat
          BY <2>1, <2>2
        <4> QED
          BY <2>2, <2>3, <4>1
      <3> QED
        BY <1>1, <1>2, <3>1
    <2> QED
      BY <2>2, <2>3
  <1> HIDE DEF n, new, m, I
  <1>6. CASE tags[n].id = id
    <2> DEFINE l == ReplaceAt(tags, n, new)
    <2>1. l = [tags EXCEPT ![n] = new]
      BY DEF ReplaceAt
    <2>2. /\ l \in Seq(TagRecs) /\ Len(l) = m
          /\ \A j \in 1..m : l[j] = IF j = n THEN new ELSE tags[j]
      BY <1>1, <1>2, <1>5, <2>1, ExceptSeq DEF m
    <2> HIDE DEF l
    <2>3. \A j \in 1..m : l[j].id = tags[j].id
      BY <1>2, <1>6, <2>2
    <2>4. Ascending(l)
      BY <1>1, <2>2, <2>3 DEF Ascending, m
    <2>5. n # m
      BY <1>1, <1>2, <1>6 DEF End
    <2>6. l[m] = End /\ l # <<>>
      BY <1>1, <2>2, <2>5
    <2>7. GoodTags(l) /\ \E i \in 1..Len(l) : l[i] = new
      BY <1>5, <2>2, <2>4, <2>6 DEF GoodTags
    <2> QED
      BY <1>1, <1>5, <1>6, <2>7 DEF n, new, l
  <1>7. CASE tags[n].id # id
    <2> DEFINE l == InsertAt(tags, n, new)
    <2>0. tags[n].id > id
      BY <1>1, <1>2, <1>5, <1>7
    <2>1. /\ l \in Seq(TagRecs) /\ DOMAIN l = 1..(m + 1)
          /\ \A j \in 1..(m + 1) : l[j] = IF j < n THEN tags[j]
                                          ELSE IF j = n THEN new ELSE tags[j - 1]
      <3>1. n \in 1..(Len(tags) + 1)
        BY <1>1, <1>5 DEF m
      <3>2. Inserted(l, tags, n, new)
        BY <1>1, <1>2, <3>1, InsertTag
      <3> QED
        BY <3>2 DEF Inserted, m
    <2> HIDE DEF l
    <2>2. Len(l) = m + 1
      <3>1. DOMAIN l = 1..Len(l) /\ Len(l) \in Nat
        BY <2>1, ListOfSeq
      <3> QED
        BY <1>1, <2>1, <3>1
    <2>3. ASSUME NEW j \in 1..(m + 1)
          PROVE  /\ j < n => j \in 1..m /\ l[j] = tags[j] /\ tags[j].id < id
                 /\ j = n => l[j].id = id /\ l[j] = new
                 /\ j > n => /\ j - 1 \in 1..m /\ l[j] = tags[j - 1]
                             /\ tags[j - 1].id > id
      <3>1. CASE j < n
        <4>1. j \in 1..m /\ l[j] = tags[j]
          BY <1>1, <1>5, <2>1, <3>1
        <4> QED
          BY <1>5, <3>1, <4>1
      <3>2. CASE j = n
        BY <1>2, <1>5, <2>1, <3>2
      <3>3. CASE j > n
        <4>1. j - 1 \in 1..m /\ ~(j < n) /\ j # n
          BY <1>1, <1>5, <3>3
        <4>2. l[j] = tags[j - 1]
          BY <2>1, <4>1
        <4>3. n <= j - 1
          BY <1>1, <1>5, <3>3
        <4>4. n = j - 1 \/ tags[n].id < tags[j - 1].id
          BY <1>1, <1>5, <4>1, <4>3 DEF Ascending, m
        <4>5. tags[n].id \in Nat /\ tags[j - 1].id \in Nat
          BY <1>1, <1>5, <4>1
        <4>6. tags[j - 1].id > id
          BY <1>2, <2>0, <4>4, <4>5
        <4> QED
          BY <3>3, <4>1, <4>2, <4>6
      <3> QED
        BY <1>1, <1>5, <3>1, <3>2, <3>3
    <2>4. Ascending(l)
      <3> SUFFICES ASSUME NEW i \in 1..(m + 1), NEW j \in 1..(m + 1), i < j
                   PROVE  l[i].id < l[j].id
        BY <2>2 DEF Ascending
      <3>0. i \in Nat /\ j \in Nat /\ n \in Nat
        BY <1>1, <1>5
      <3>1. CASE j < n
        <4>1. /\ i \in 1..m /\ l[i] = tags[i]
              /\ j \in 1..m /\ l[j] = tags[j]
          BY <2>3, <3>0, <3>1
        <4> QED
          BY <1>1, <4>1 DEF Ascending, m
      <3>2. CASE j = n
        BY <2>3, <3>2
      <3>3. CASE j > n /\ i < n
        <4>1. /\ i \in 1..m /\ l[i] = tags[i] /\ tags[i].id < id
              /\ j - 1 \in 1..m /\ l[j] = tags[j - 1] /\ tags[j - 1].id > id
          BY <2>3, <3>3
        <4>2. tags[i].id \in Nat /\ tags[j - 1].id \in Nat
          BY <1>1, <4>1
        <4> QED
          BY <1>2, <4>1, <4>2
      <3>4. CASE j > n /\ i = n
        <4>1. /\ l[i].id = id
              /\ j - 1 \in 1..m /\ l[j] = tags[j - 1] /\ tags[j - 1].id > id
          BY <2>3, <3>4
        <4>2. tags[j - 1].id \in Nat
          BY <1>1, <4>1
        <4> QED
          BY <1>2, <4>1, <4>2
      <3>5. CASE j > n /\ i > n
        <4>1. /\ i - 1 \in 1..m /\ l[i] = tags[i - 1]
              /\ j - 1 \in 1..m /\ l[j] = tags[j - 1]
          BY <2>3, <3>5
        <4>2. i - 1 < j - 1
          BY <3>0
        <4> QED
          BY <1>1, <4>1, <4>2 DEF Ascending, m
      <3> QED
        BY <3>0, <3>1, <3>2, <3>3, <3>4, <3>5
    <2>5. l[m + 1] = End
      <3>1. m + 1 \in 1..(m + 1) /\ m + 1 > n /\ m + 1 - 1 = m
        BY <1>1, <1>5
      <3> QED
        BY <1>1, <2>3, <3>1
    <2>6. l # <<>>
      BY <1>1, <2>1, <2>2, EmptySeq
    <2>7. n \in 1..(m + 1) /\ l[n] = new
      <3>1. n \in 1..(m + 1)
        BY <1>1, <1>5
      <3> QED
        BY <2>3, <3>1
    <2>8. GoodTags(l) /\ \E i \in 1..Len(l) : l[i] = new
      BY <2>1, <2>2, <2>4, <2>5, <2>6, <2>7 DEF GoodTags
    <2>9. n # 0
      BY <1>5
    <2> QED
      BY <1>7, <2>8, <2>9 DEF n, new, l
  <1> QED
    BY <1>6, <1>7

-----------------------------------------------------------------------------
(* Opening a file. *)

LEMMA FileIsThere ==
    ASSUME NEW kind, kind # "zeros", Chunk(1).k = kind
    PROVE  file # <<>>
  <1> SUFFICES ASSUME file = <<>>
               PROVE  FALSE
    OBVIOUS
  <1>1. Len(file) = 0 /\ 1 \notin 1..Len(file)
    OBVIOUS
  <1>2. Chunk(1) = Zeros
    BY <1>1 DEF Chunk
  <1> QED
    BY <1>2 DEF Zeros

LEMMA ImageOf ==
    ASSUME NEW ts, NEW tgs
    PROVE  /\ Image("dsk", ts, tgs) = DskImage(ts, tgs)
           /\ Image("adf", ts, tgs) = AdfImage(ts)
           /\ Image("eadf", ts, tgs) = EadfImage(ts)
  BY DEF Image

\* The first chunk tells the container.
LEMMA FirstChunk ==
    ASSUME NEW c, NEW ts, NEW tgs, NEW rest, file # <<>>, Holds(c, ts, tgs, rest)
    PROVE  /\ c = "dsk" => Chunk(1).k = "dsk"
           /\ c = "adf" => Chunk(1).k = "data"
           /\ c = "eadf" => Chunk(1).k = "eadf"
  <1> DEFINE l == Image(c, ts, tgs)
  <1>1. Chunk(1) = l[1] /\ 1 \in 1..Len(l)
    <2>1. IsList(file) /\ IsList(rest) /\ file \o rest = l
      BY DEF Holds
    <2>2. 1 \in 1..Len(file)
      BY <2>1, ListOf
    <2> QED
      BY <2>1, <2>2, ChunksOf
  <1>2. IsList(ts)
    BY DEF Holds, GoodTracks
  <1> HIDE DEF l
  <1>3. ASSUME c = "dsk"
        PROVE  Chunk(1).k = "dsk"
    <2>1. IsList(tgs)
      BY <1>3, GoodTagsOf DEF Holds
    <2>2. DskImage(ts, tgs)[1] = [k |-> "dsk", n |-> Len(ts)]
      BY <1>2, <2>1, DskImageOf
    <2>3. l = DskImage(ts, tgs)
      BY <1>3, ImageOf DEF l
    <2> QED
      BY <1>1, <2>2, <2>3
  <1>4. ASSUME c = "adf"
        PROVE  Chunk(1).k = "data"
    <2>1. l = AdfImage(ts)
      BY <1>4, ImageOf DEF l
    <2>2. Len(l) = Len(ts) /\ \A i \in 1..Len(ts) : l[i] = Data(AdosData(ts[i]))
      BY <1>2, <2>1, AdfImageOf
    <2>3. l[1] = Data(AdosData(ts[1]))
      BY <1>1, <2>2
    <2>4. Data(AdosData(ts[1])).k = "data"
      BY DEF Data
    <2> QED
      BY <1>1, <2>3, <2>4
  <1>5. ASSUME c = "eadf"
        PROVE  Chunk(1).k = "eadf"
    <2>1. l = EadfImage(ts)
      BY <1>5, ImageOf DEF l
    <2>2. l[1] = [k |-> "eadf", n |-> Len(ts)]
      BY <1>2, <2>1, EadfImageOf
    <2> QED
      BY <1>1, <2>2
  <1> QED
    BY <1>3, <1>4, <1>5

LEMMA DskOpened ==
    ASSUME FileGood, name = "dsk", Chunk(1).k = "dsk", DskTags # <<>>
    PROVE  /\ GoodTracks(DskTracks) /\ GoodTags(DskTags)
           /\ saved # NotSaved =>
                KeptOf("dsk", DskTracks, DskTags) = saved
  <1>1. file # <<>>
    BY FileIsThere
  <1>2. PICK c, ts, tgs, rest : Holds(c, ts, tgs, rest)
    BY <1>1 DEF FileGood
  <1>3. c = "dsk"
    BY <1>2 DEF Holds, Fits
  <1>4. /\ GoodTracks(ts) /\ GoodTags(tgs) /\ IsList(file) /\ IsList(rest)
        /\ file \o rest = DskImage(ts, tgs)
        /\ saved # NotSaved => rest = <<>> /\ saved = KeptOf("dsk", ts, tgs)
    BY <1>2, <1>3, ImageOf DEF Holds
  <1>5. /\ GoodTracks(DskTracks) /\ DskTags = tgs
        /\ rest = <<>> =>
             /\ Len(DskTracks) = Len(ts)
             /\ \A i \in 1..Len(ts) :
                  KeptTrack("dsk", DskTracks[i]) = KeptTrack("dsk", ts[i])
    BY <1>1, <1>4, DskReads
  <1>6. ASSUME saved # NotSaved
        PROVE  KeptOf("dsk", DskTracks, DskTags) = saved
    BY <1>4, <1>5, <1>6, SameKept
  <1> QED
    BY <1>4, <1>5, <1>6

LEMMA AdfOpened ==
    ASSUME FileGood, name = "adf", Chunk(1).k = "data", Len(file) = NrTracks["adf"]
    PROVE  LET new == [i \in 1..Len(file) |-> AdfTrack(file[i].dat)]
           IN  /\ GoodTracks(new) /\ Len(new) = NrTracks["adf"] /\ whole
               /\ saved # NotSaved =>
                    KeptOf("adf", new, <<End>>) = saved
  <1> DEFINE new == [i \in 1..Len(file) |-> AdfTrack(file[i].dat)]
  <1>1. file # <<>>
    BY FileIsThere
  <1>2. PICK c, ts, tgs, rest : Holds(c, ts, tgs, rest)
    <2>1. ASSUME NEW d \in Payloads, file = ForeignEadf(d)
          PROVE  FALSE
      BY <2>1, ForeignReads, FormatAssumption
    <2> QED
      BY <1>1, <2>1 DEF FileGood
  <1>3. c = "adf"
    <2>1. c # "eadf"
      BY <1>1, <1>2, FirstChunk
    <2> QED
      BY <1>2, <2>1 DEF Holds, Fits
  <1>4. /\ GoodTracks(ts) /\ Len(ts) = NrTracks["adf"]
        /\ IsList(file) /\ IsList(rest)
        /\ file \o rest = AdfImage(ts) /\ (rest = <<>> => whole)
        /\ saved # NotSaved => rest = <<>> /\ saved = KeptOf("adf", ts, tgs)
    BY <1>2, <1>3, ImageOf DEF Holds
  <1> DEFINE n == Len(ts)
  <1>5. IsList(ts) /\ n \in Nat /\ \A i \in 1..n : GoodTrack(ts[i])
    BY <1>4, ListOf DEF GoodTracks
  <1>6. rest = <<>> /\ file = AdfImage(ts)
    <2>1. Len(file \o rest) = Len(file) + Len(rest) /\ Len(rest) \in Nat
      BY <1>4, ListConcat, ListOf
    <2>2. Len(file \o rest) = n
      BY <1>4, <1>5, AdfImageOf
    <2>3. Len(rest) = 0
      BY <1>4, <1>5, <2>1, <2>2
    <2>4. rest = <<>>
      BY <1>4, <2>3, ListOf
    <2> QED
      BY <1>4, <2>4, ConcatEmptySeq DEF IsList
  <1>7. \A i \in 1..n : file[i].dat = AdosData(ts[i]) /\ AdosData(ts[i]) # <<>>
    <2> SUFFICES ASSUME NEW i \in 1..n
                 PROVE  file[i].dat = AdosData(ts[i]) /\ AdosData(ts[i]) # <<>>
      OBVIOUS
    <2>1. file[i] = Data(AdosData(ts[i]))
      BY <1>5, <1>6, AdfImageOf
    <2>2. \A d : Data(d).dat = d
      BY DEF Data
    <2>3. AdosData(ts[i]) # <<>>
      BY <1>5, AdosDataOf
    <2> QED
      BY <2>1, <2>2, <2>3
  <1>8. new = [i \in 1..n |-> new[i]] /\ \A i \in 1..n : new[i] = AdfTrack(AdosData(ts[i]))
    BY <1>4, <1>7
  <1> HIDE DEF n, new
  <1>9. IsList(new) /\ Len(new) = n
    BY <1>5, <1>8, ListOfFcn
  <1>10. ASSUME NEW i \in 1..n
         PROVE  /\ GoodTrack(new[i])
                /\ KeptTrack("adf", new[i]) = KeptTrack("adf", ts[i])
    <2> DEFINE d == AdosData(ts[i])
    <2>1. GoodTrack(new[i]) /\ new[i].type = "amigados" /\ new[i].dat = d
      BY <1>7, <1>8, AdfTrackIsGood
    <2>2. AdosData(new[i]) = d
      BY <2>1, FormatAssumption DEF AdosData
    <2>3. \A tr : KeptTrack("adf", tr) = <<AdosData(tr)>>
      BY DEF KeptTrack
    <2> QED
      BY <2>1, <2>2, <2>3
  <1>11. GoodTracks(new)
    BY <1>9, <1>10 DEF GoodTracks
  <1>12. ASSUME saved # NotSaved
         PROVE  KeptOf("adf", new, <<End>>) = saved
    <2>1. /\ Len(new) = Len(ts)
          /\ \A i \in 1..Len(ts) : KeptTrack("adf", new[i]) = KeptTrack("adf", ts[i])
      BY <1>9, <1>10 DEF n
    <2>2. saved = KeptOf("adf", ts, tgs)
      BY <1>4, <1>12
    <2> DEFINE g == <<End>>
    <2> HIDE DEF g
    <2>3. KeptOf("adf", new, g) = KeptOf("adf", ts, tgs)
      BY <2>1, SameKept
    <2> QED
      BY <2>2, <2>3 DEF g
  <1> QED
    BY <1>4, <1>6, <1>9, <1>11, <1>12 DEF n, new

LEMMA EadfOpened ==
    ASSUME FileGood, Chunk(1).k = "eadf",
           \A i \in 1..Chunk(1).n : Chunk(1 + i) # Zeros
    PROVE  /\ GoodTracks(EadfTracks)
           /\ saved # NotSaved =>
                KeptOf("eadf", EadfTracks, <<>>) = saved
  <1>1. file # <<>>
    BY FileIsThere
  <1>2. CASE saved = NotSaved /\ \E d \in Payloads : file = ForeignEadf(d)
    BY <1>2, ForeignReads, FormatAssumption
  <1>3. CASE \E c, ts, tgs, rest : Holds(c, ts, tgs, rest)
    <2>1. PICK c, ts, tgs, rest : Holds(c, ts, tgs, rest)
      BY <1>3
    <2>2. c = "eadf"
      BY <1>1, <2>1, FirstChunk DEF Holds, Fits
    <2>3. /\ GoodTracks(ts) /\ IsList(file) /\ IsList(rest)
          /\ file \o rest = EadfImage(ts)
          /\ saved # NotSaved => rest = <<>> /\ saved = KeptOf("eadf", ts, tgs)
      BY <2>1, <2>2, ImageOf DEF Holds
    <2>4. /\ GoodTracks(EadfTracks)
          /\ rest = <<>> =>
               /\ Len(EadfTracks) = Len(ts)
               /\ \A i \in 1..Len(ts) :
                    KeptTrack("eadf", EadfTracks[i]) = KeptTrack("eadf", ts[i])
      BY <1>1, <2>3, EadfReads
    <2>5. ASSUME saved # NotSaved
          PROVE  KeptOf("eadf", EadfTracks, <<>>) = saved
      BY <2>3, <2>4, <2>5, SameKept
    <2> QED
      BY <2>4, <2>5
  <1> QED
    BY <1>1, <1>2, <1>3 DEF FileGood

-----------------------------------------------------------------------------
(* The invariant is kept. *)

\* A chunk goes from what is to be written to what is.
LEMMA ListMove ==
    ASSUME NEW s, NEW t, IsList(s), IsList(t), t # <<>>
    PROVE  LET a == Append(s, Head(t))
           IN  /\ IsList(a) /\ a # <<>> /\ IsList(Tail(t))
               /\ a \o Tail(t) = s \o t
  <1> DEFINE S == ToSet(s) \cup ToSet(t)
             h == Head(t)
             u == Tail(t)
             a == Append(s, h)
  <1>1. s \in Seq(S) /\ t \in Seq(S)
    <2>1. s \in Seq(ToSet(s)) /\ t \in Seq(ToSet(t))
      BY DEF IsList
    <2> QED
      BY <2>1, SeqMonotonic
  <1> HIDE DEF S
  <1>2. /\ h \in S /\ u \in Seq(S) /\ Len(u) = Len(t) - 1
        /\ \A i \in 1..Len(u) : u[i] = t[i + 1]
    BY <1>1, HeadTailProperties
  <1>3. h = t[1]
    OBVIOUS
  <1> HIDE DEF h, u
  <1>4. a = s \o <<h>> /\ a # <<>> /\ a \in Seq(S)
    BY <1>1, <1>2, AppendIsConcat, AppendProperties
  <1>5. <<h>> \in Seq(S)
    BY <1>2
  <1>6. a \o u = s \o (<<h>> \o u)
    <2>1. (s \o <<h>>) \o u = s \o (<<h>> \o u)
      BY <1>1, <1>2, <1>5, ConcatAssociative
    <2> QED
      BY <1>4, <2>1
  <1>7. <<h>> \o u = t
    <2> DEFINE v == <<h>> \o u
    <2>1. /\ v \in Seq(S) /\ Len(v) = 1 + Len(u)
          /\ \A i \in 1..(1 + Len(u)) : v[i] = IF i <= 1 THEN <<h>>[i] ELSE u[i - 1]
      <3>1. Len(<<h>>) = 1
        OBVIOUS
      <3> QED
        BY <1>2, <1>5, <3>1, ConcatProperties
    <2>2. Len(u) \in Nat /\ Len(t) \in Nat
      BY <1>1, <1>2, LenProperties
    <2> HIDE DEF v
    <2>3. Len(v) = Len(t)
      BY <1>2, <2>1, <2>2
    <2>4. ASSUME NEW i \in 1..Len(v)
          PROVE  v[i] = t[i]
      <3>1. CASE i = 1
        <4>1. v[i] = <<h>>[i]
          BY <2>1, <2>2, <3>1
        <4> QED
          BY <1>3, <3>1, <4>1
      <3>2. CASE i # 1
        <4>1. i - 1 \in 1..Len(u) /\ ~(i <= 1) /\ i - 1 + 1 = i
          BY <2>1, <2>2, <3>2
        <4> QED
          BY <1>2, <2>1, <4>1
      <3> QED
        BY <3>1, <3>2
    <2> QED
      BY <1>1, <2>1, <2>3, <2>4, SeqEqual DEF v
  <1>8. IsList(a) /\ IsList(u)
    BY <1>2, <1>4, ListOfSeq
  <1> QED
    BY <1>4, <1>6, <1>7, <1>8 DEF h, u

\* A list with one element replaced.
Replaced(t, s, i, x) ==
    /\ IsList(t) /\ Len(t) = Len(s)
    /\ \A j \in 1..Len(s) : t[j] = IF j = i THEN x ELSE s[j]

LEMMA ListExcept ==
    ASSUME NEW s, IsList(s), NEW i \in 1..Len(s), NEW x
    PROVE  Replaced([s EXCEPT ![i] = x], s, i, x)
  <1> DEFINE S == ToSet(s) \cup {x}
             t == [s EXCEPT ![i] = x]
  <1>1. s \in Seq(S) /\ x \in S
    <2>1. s \in Seq(ToSet(s))
      BY DEF IsList
    <2> QED
      BY <2>1, SeqMonotonic
  <1> HIDE DEF S
  <1>2. /\ t \in Seq(S) /\ Len(t) = Len(s)
        /\ \A j \in 1..Len(s) : t[j] = IF j = i THEN x ELSE s[j]
    BY <1>1, ExceptSeq
  <1> HIDE DEF t
  <1>3. IsList(t)
    BY <1>2, ListOfSeq
  <1>4. Replaced(t, s, i, x)
    BY <1>2, <1>3 DEF Replaced
  <1> QED
    BY <1>4 DEF t

LEMMA ImageIsList ==
    ASSUME GoodDisk
    PROVE  IsList(Image(container, tracks, tags))
  <1>1. IsList(tracks)
    BY DEF GoodDisk, GoodTracks
  <1>2. CASE container = "dsk"
    <2>1. IsList(tags)
      BY <1>2, GoodTagsOf DEF GoodDisk
    <2> QED
      BY <1>1, <1>2, <2>1, DskImageOf, ImageOf
  <1>3. CASE container = "adf"
    BY <1>1, <1>3, AdfImageOf, ImageOf
  <1>4. CASE container = "eadf"
    BY <1>1, <1>4, EadfImageOf, ImageOf
  <1> QED
    BY <1>2, <1>3, <1>4 DEF GoodDisk, Fits

LEMMA NoChanges == 0 \in 0..MaxChanges /\ FALSE \in BOOLEAN /\ TRUE \in BOOLEAN
  BY LengthAssumption

LEMMA InitIsGood == Init => IInv
  <1> SUFFICES ASSUME Init
               PROVE  IInv
    OBVIOUS
  <1>1. Simple
    BY NoChanges DEF Init, Simple
  <1>2. NoDisk /\ pc = "closed"
    BY DEF Init, NoDisk
  <1>3. FileGood
    <2>1. saved = NotSaved
      BY DEF Init
    <2>2. file = <<>> \/ (name # "dsk" /\ \E d \in Payloads : file = ForeignEadf(d))
      BY DEF Init
    <2> QED
      BY <2>1, <2>2 DEF FileGood
  <1>4. ReopenKeeps
    BY <1>2 DEF ReopenKeeps, JustOpened
  <1> QED
    BY <1>1, <1>2, <1>3, <1>4 DEF IInv

\* Steps that leave the file alone, but for what is remembered of it.
LEMMA FileKept ==
    ASSUME FileGood, file' = file, name' = name, whole' = whole,
           saved' = saved \/ saved' = NotSaved
    PROVE  FileGood'
  <1>1. CASE file = <<>> /\ saved = NotSaved
    BY <1>1 DEF FileGood
  <1>2. CASE saved = NotSaved /\ name # "dsk" /\ \E d \in Payloads : file = ForeignEadf(d)
    BY <1>2 DEF FileGood
  <1>3. CASE \E c, ts, tgs, rest : file # <<>> /\ Holds(c, ts, tgs, rest)
    <2>1. PICK c, ts, tgs, rest : file # <<>> /\ Holds(c, ts, tgs, rest)
      BY <1>3
    <2>2. file' # <<>> /\ Holds(c, ts, tgs, rest)'
      BY <2>1 DEF Holds
    <2> QED
      BY <2>2 DEF FileGood
  <1> QED
    BY <1>1, <1>2, <1>3 DEF FileGood

LEMMA CreateIsGood ==
    ASSUME IInv, Create
    PROVE  IInv'
  <1>1. /\ file' = <<>> /\ saved' = NotSaved /\ pc' = "open" /\ container' = name
        /\ readOnly' = FALSE /\ tags' = <<End>> /\ listed' = TRUE /\ changes' = 0
        /\ lastTag' = NoTag /\ name' = name
        /\ tracks' = [i \in 1..NrTracks[name] |-> Unformatted]
    BY DEF Create
  <1>2. name \in Names /\ name \in {"dsk", "adf", "eadf"} /\ NrTracks[name] \in Nat
    BY FormatAssumption DEF IInv, Simple
  <1>3. Simple'
    BY <1>1, <1>2, NoChanges DEF Simple
  <1>4. GoodDisk'
    <2>1. GoodTracks(tracks') /\ Len(tracks') = NrTracks[name]
      <3>1. tracks' = [i \in 1..NrTracks[name] |-> tracks'[i]]
        BY <1>1
      <3>2. IsList(tracks') /\ Len(tracks') = NrTracks[name]
        BY <1>2, <3>1, ListOfFcn
      <3>3. \A i \in 1..NrTracks[name] : tracks'[i] = Unformatted
        BY <1>1
      <3> QED
        BY <3>2, <3>3, UnformattedIsGood DEF GoodTracks
    <2>2. Fits(name, name)
      BY <1>2 DEF Fits
    <2> QED
      BY <1>1, <2>1, <2>2, EndIsGood DEF GoodDisk
  <1>5. FileGood'
    BY <1>1 DEF FileGood
  <1>6. ReopenKeeps'
    BY <1>1 DEF ReopenKeeps, JustOpened
  <1> QED
    BY <1>1, <1>3, <1>4, <1>5, <1>6 DEF IInv

LEMMA OpenIsGood ==
    ASSUME IInv, NEW ro \in BOOLEAN, Open(ro)
    PROVE  IInv'
  <1>1. /\ pc = "closed" /\ (OpenDsk \/ OpenAdf \/ OpenEadf)
        /\ readOnly' = ro /\ name' = name /\ file' = file /\ saved' = saved
        /\ whole' = whole
    BY DEF Open
  <1>2. FileGood /\ FileGood'
    BY <1>1, FileKept DEF IInv
  <1>3. ASSUME NEW c, NEW ts, NEW tgs, Opened(c, ts, tgs),
               Fits(c, name), GoodTracks(ts),
               c # "eadf" => GoodTags(tgs), c = "eadf" => tgs = <<>>,
               c = "adf" => Len(ts) = NrTracks["adf"] /\ whole,
               saved # NotSaved => KeptOf(c, ts, tgs) = saved
        PROVE  IInv'
    <2>1. /\ pc' = "open" /\ container' = c /\ tracks' = ts /\ tags' = tgs
          /\ listed' = (tgs # <<>>) /\ changes' = 0 /\ lastTag' = NoTag
      BY <1>3 DEF Opened
    <2>2. Simple'
      BY <1>1, <2>1, LengthAssumption DEF IInv, Simple
    <2>3. GoodDisk'
      <3>1. c # "eadf" => listed' /\ GoodTags(tags')
        BY <1>3, <2>1 DEF GoodTags
      <3>2. c = "eadf" => ~listed' /\ tags' = <<>>
        BY <1>3, <2>1
      <3> QED
        BY <1>1, <1>3, <2>1, <3>1, <3>2 DEF GoodDisk
    <2>4. ReopenKeeps'
      <3>1. Kept' = KeptOf(c, ts, tgs)
        BY <2>1 DEF Kept
      <3> QED
        BY <1>1, <1>3, <3>1 DEF ReopenKeeps
    <2> QED
      BY <1>1, <1>2, <1>3, <2>1, <2>2, <2>3, <2>4 DEF IInv
  <1>4. CASE OpenDsk
    <2>1. /\ name = "dsk" /\ Chunk(1).k = "dsk" /\ DskTags # <<>>
          /\ Opened("dsk", DskTracks, DskTags)
      BY <1>4 DEF OpenDsk
    <2>2. /\ GoodTracks(DskTracks) /\ GoodTags(DskTags)
          /\ saved # NotSaved =>
               KeptOf("dsk", DskTracks, DskTags) = saved
      BY <1>2, <2>1, DskOpened
    <2>3. Fits("dsk", name)
      BY <2>1 DEF Fits
    <2> QED
      BY <1>3, <2>1, <2>2, <2>3
  <1>5. CASE OpenAdf
    <2> DEFINE new == [i \in 1..Len(file) |-> AdfTrack(file[i].dat)]
               tgs == <<End>>
    <2>1. /\ name = "adf" /\ Chunk(1).k = "data" /\ Len(file) = NrTracks["adf"]
          /\ Opened("adf", new, tgs)
      BY <1>5 DEF OpenAdf
    <2>2. /\ GoodTracks(new) /\ Len(new) = NrTracks["adf"] /\ whole
          /\ saved # NotSaved =>
               KeptOf("adf", new, tgs) = saved
      BY <1>2, <2>1, AdfOpened
    <2>3. Fits("adf", name) /\ GoodTags(tgs)
      BY <2>1, EndIsGood DEF Fits
    <2> HIDE DEF new, tgs
    <2> QED
      BY <1>3, <2>1, <2>2, <2>3
  <1>6. CASE OpenEadf
    <2> DEFINE tgs == <<>>
    <2>1. /\ name \in {"adf", "eadf"} /\ Chunk(1).k = "eadf"
          /\ \A i \in 1..Chunk(1).n : Chunk(1 + i) # Zeros
          /\ Opened("eadf", EadfTracks, tgs)
      BY <1>6 DEF OpenEadf
    <2>2. /\ GoodTracks(EadfTracks)
          /\ saved # NotSaved =>
               KeptOf("eadf", EadfTracks, tgs) = saved
      BY <1>2, <2>1, EadfOpened
    <2>3. Fits("eadf", name) /\ tgs = <<>>
      BY <2>1 DEF Fits
    <2> HIDE DEF tgs
    <2> QED
      BY <1>3, <2>1, <2>2, <2>3
  <1> QED
    BY <1>1, <1>4, <1>5, <1>6

\* The process ends the disk, or dies: the file stays as it is.
LEMMA GoneIsGood ==
    ASSUME IInv, Gone, UNCHANGED <<name, file, saved, whole>>
    PROVE  IInv'
  <1>1. /\ pc' = "closed" /\ container' = "none" /\ readOnly' = FALSE
        /\ tracks' = <<>> /\ tags' = <<>> /\ changes' = 0
        /\ lastTag' = NoTag /\ listed' = FALSE
    BY DEF Gone
  <1>2. Simple' /\ NoDisk'
    <2>1. name' = name /\ name \in Names
      BY DEF IInv, Simple
    <2>2. Simple'
      BY <1>1, <2>1, NoChanges DEF Simple
    <2> QED
      BY <1>1, <2>2 DEF NoDisk
  <1>3. FileGood'
    BY FileKept DEF IInv
  <1>4. ReopenKeeps'
    BY <1>1 DEF ReopenKeeps, JustOpened
  <1> QED
    BY <1>1, <1>2, <1>3, <1>4 DEF IInv

LEMMA SetTrackIsGood ==
    ASSUME IInv, pc = "open", NEW i \in 1..Len(tracks), NEW tr, GoodTrack(tr),
           SetTrack(i, tr)
    PROVE  IInv'
  <1>1. /\ tracks' = [tracks EXCEPT ![i] = tr] /\ changes < MaxChanges
        /\ changes' = changes + 1 /\ saved' = NotSaved
        /\ name' = name /\ file' = file /\ pc' = pc /\ container' = container
        /\ readOnly' = readOnly /\ tags' = tags /\ whole' = whole
        /\ lastTag' = lastTag /\ listed' = listed
    BY DEF SetTrack
  <1>2. Simple'
    <2>1. changes' \in 0..MaxChanges
      BY <1>1, LengthAssumption DEF IInv, Simple
    <2> QED
      BY <1>1, <2>1 DEF IInv, Simple
  <1>3. GoodDisk'
    <2>0. GoodDisk
      BY DEF IInv
    <2>1. IsList(tracks) /\ \A j \in 1..Len(tracks) : GoodTrack(tracks[j])
      BY <2>0 DEF GoodDisk, GoodTracks
    <2>2. /\ IsList(tracks') /\ Len(tracks') = Len(tracks)
          /\ \A j \in 1..Len(tracks) : tracks'[j] = IF j = i THEN tr ELSE tracks[j]
      <3>1. Replaced([tracks EXCEPT ![i] = tr], tracks, i, tr)
        BY <2>1, ListExcept
      <3>2. Replaced(tracks', tracks, i, tr)
        BY <1>1, <3>1
      <3> QED
        BY <3>2 DEF Replaced
    <2>3. GoodTracks(tracks')
      BY <2>1, <2>2 DEF GoodTracks
    <2> QED
      BY <1>1, <2>0, <2>2, <2>3 DEF GoodDisk
  <1>4. FileGood'
    BY <1>1, FileKept DEF IInv
  <1>5. ReopenKeeps'
    BY <1>1 DEF ReopenKeeps
  <1> QED
    BY <1>1, <1>2, <1>3, <1>4, <1>5 DEF IInv

LEMMA WriteIsGood ==
    ASSUME IInv, Write
    PROVE  IInv'
  <1>1. PICK i \in 1..Len(tracks) :
           \/ WriteRawFails(i)
           \/ \E type \in Types \ {"unformatted"}, d \in Payloads :
                \/ WriteSectors(i, type, d)
                \/ \E total \in Lengths, off \in Offsets, seen \in Seen :
                   \E valid \in SUBSET AllValid(Handlers[type].secs) :
                       WriteRaw(i, type, d, valid, total, off, seen)
    BY DEF Write
  <1>2. CASE WriteRawFails(i)
    BY <1>2, SetTrackIsGood, UnformattedIsGood DEF WriteRawFails
  <1>3. ASSUME NEW type \in Types \ {"unformatted"}, NEW d \in Payloads,
               WriteSectors(i, type, d)
        PROVE  IInv'
    <2> DEFINE tr == [InitTrack(type) EXCEPT !.dat = d, !.total = DefaultBits,
                                             !.valid = AllValid(Handlers[type].secs)]
    <2>1. pc = "open" /\ SetTrack(i, tr)
      BY <1>3 DEF WriteSectors
    <2>2. /\ tr.type = type /\ tr.secs = Handlers[type].secs /\ tr.dat = d
          /\ tr.valid = AllValid(Handlers[type].secs) /\ tr.len = 1 /\ tr.off = 0
          /\ tr.total = DefaultBits
      BY DEF InitTrack
    <2>3. d # <<>> /\ type \in Types /\ Handlers[type].secs \in Nat
      BY FormatAssumption DEF Types
    <2> HIDE DEF tr
    <2>4. GoodTrack(tr)
      BY <2>2, <2>3, LengthAssumption DEF GoodTrack, NoDat
    <2> QED
      BY <2>1, <2>4, SetTrackIsGood
  <1>4. ASSUME NEW type \in Types \ {"unformatted"}, NEW d \in Payloads,
               NEW total \in Lengths, NEW off \in Offsets, NEW seen \in Seen,
               NEW valid \in SUBSET AllValid(Handlers[type].secs),
               WriteRaw(i, type, d, valid, total, off, seen)
        PROVE  IInv'
    <2> DEFINE t == FinalLength(total, seen)
               o == FinalOffset(off, t)
               tr == [InitTrack(type) EXCEPT !.dat = d, !.valid = valid,
                                             !.total = t, !.off = o]
    <2>1. pc = "open" /\ SetTrack(i, tr)
      BY <1>4 DEF WriteRaw
    <2>2. /\ t \in Nat \cup {Weak} /\ t # 0
          /\ o \in 0 .. (IF t = Weak THEN 0 ELSE t - 1)
      BY FinalIsGood
    <2> HIDE DEF t, o
    <2>3. /\ tr.type = type /\ tr.secs = Handlers[type].secs /\ tr.dat = d
          /\ tr.valid = valid /\ tr.len = 1 /\ tr.off = o /\ tr.total = t
      BY DEF InitTrack
    <2>4. d # <<>> /\ type \in Types /\ Handlers[type].secs \in Nat
      BY FormatAssumption DEF Types
    <2> HIDE DEF tr
    <2>5. GoodTrack(tr)
      BY <2>2, <2>3, <2>4 DEF GoodTrack, NoDat
    <2> QED
      BY <2>1, <2>5, SetTrackIsGood
  <1> QED
    BY <1>1, <1>2, <1>3, <1>4

LEMMA SetTagIsGood ==
    ASSUME IInv, NEW id \in TagIds, NEW val \in TagValues, SetTag(id, val)
    PROVE  IInv'
  <1> DEFINE n == TagPlace(id)
             new == [id |-> id, val |-> val]
             l == IF n = 0 THEN tags
                  ELSE IF tags[n].id = id THEN ReplaceAt(tags, n, new)
                  ELSE InsertAt(tags, n, new)
  <1>1. /\ pc = "open" /\ changes < MaxChanges /\ tags' = l /\ lastTag' = new
        /\ changes' = changes + 1 /\ saved' = NotSaved
        /\ name' = name /\ file' = file /\ pc' = pc /\ container' = container
        /\ readOnly' = readOnly /\ tracks' = tracks /\ whole' = whole
        /\ listed' = listed
    BY DEF SetTag
  <1>2. Simple'
    <2>1. changes' \in 0..MaxChanges
      BY <1>1, LengthAssumption DEF IInv, Simple
    <2> QED
      BY <1>1, <2>1 DEF IInv, Simple
  <1>3. GoodDisk'
    <2>0. GoodDisk
      BY <1>1 DEF IInv
    <2>1. ASSUME listed
          PROVE  GoodTags(l) /\ \E i \in 1..Len(l) : l[i] = new
      BY <2>0, <2>1, TagIsSet DEF GoodDisk
    <2>2. ASSUME ~listed
          PROVE  l = <<>>
      <3>1. tags = <<>>
        BY <2>0, <2>2 DEF GoodDisk
      <3>2. n = 0
        <4>1. {i \in DOMAIN tags : tags[i].id >= id} = {}
          BY <3>1
        <4> QED
          BY <4>1, <3>1 DEF TagPlace, SelectInSeq
      <3> QED
        BY <3>1, <3>2
    <2> HIDE DEF l, new
    <2> QED
      BY <1>1, <2>0, <2>1, <2>2 DEF GoodDisk
  <1>4. FileGood'
    BY <1>1, FileKept DEF IInv
  <1>5. ReopenKeeps'
    BY <1>1 DEF ReopenKeeps
  <1> QED
    BY <1>1, <1>2, <1>3, <1>4, <1>5 DEF IInv

LEMMA CloseBeginIsGood ==
    ASSUME IInv, CloseBegin
    PROVE  IInv'
  <1>1. /\ pc = "open" /\ pc' = "closing" /\ file' = <<>>
        /\ todo' = Image(container, tracks, tags)
        /\ saved' = NotSaved /\ changes' = 0
        /\ name' = name /\ container' = container /\ readOnly' = readOnly
        /\ tracks' = tracks /\ tags' = tags /\ lastTag' = lastTag /\ listed' = listed
    BY DEF CloseBegin
  <1>2. GoodDisk
    BY <1>1 DEF IInv
  <1>3. Simple'
    BY <1>1, LengthAssumption DEF IInv, Simple
  <1>4. GoodDisk'
    BY <1>1, <1>2 DEF GoodDisk
  <1>5. FileGood'
    BY <1>1 DEF FileGood
  <1>6. Halfway'
    <2> DEFINE image == Image(container, tracks, tags)
    <2>1. IsList(image)
      BY <1>2, ImageIsList
    <2> HIDE DEF image
    <2>2. IsList(<<>>) /\ <<>> \o image = image
      BY <2>1, ListOfNone, ConcatEmptySeq DEF IsList
    <2> QED
      BY <1>1, <2>1, <2>2 DEF Halfway, image
  <1>7. ReopenKeeps'
    BY <1>1 DEF ReopenKeeps
  <1> QED
    BY <1>1, <1>3, <1>4, <1>5, <1>6, <1>7 DEF IInv

LEMMA CloseWriteIsGood ==
    ASSUME IInv, CloseWrite
    PROVE  IInv'
  <1>1. /\ pc = "closing" /\ todo # <<>>
        /\ file' = Append(file, Head(todo)) /\ todo' = Tail(todo)
        /\ whole' = (todo' = <<>>) /\ saved' = IF whole' THEN Kept ELSE saved
        /\ name' = name /\ pc' = pc /\ container' = container
        /\ readOnly' = readOnly /\ tracks' = tracks /\ tags' = tags
        /\ changes' = changes /\ lastTag' = lastTag /\ listed' = listed
    BY DEF CloseWrite
  <1>2. GoodDisk /\ Halfway
    BY <1>1 DEF IInv
  <1>3. Simple'
    BY <1>1 DEF IInv, Simple
  <1>4. GoodDisk'
    BY <1>1, <1>2 DEF GoodDisk
  <1>5. /\ IsList(file') /\ file' # <<>> /\ IsList(todo')
        /\ file' \o todo' = Image(container, tracks, tags)
    <2>1. IsList(file) /\ IsList(todo) /\ file \o todo = Image(container, tracks, tags)
      BY <1>2 DEF Halfway
    <2> QED
      BY <1>1, <2>1, ListMove
  <1>6. saved' # NotSaved => todo' = <<>> /\ saved' = Kept
    <2>1. saved = NotSaved
      BY <1>1, <1>2 DEF Halfway
    <2> QED
      BY <1>1, <2>1
  <1>7. Kept = KeptOf(container, tracks, tags) /\ Kept' = Kept
    BY <1>1 DEF Kept
  <1>8. Halfway'
    BY <1>1, <1>5, <1>6, <1>7 DEF Halfway
  <1>9. FileGood'
    <2>1. \A c, ts, tgs, rest :
             c = container /\ ts = tracks /\ tgs = tags /\ rest = todo' =>
               Holds(c, ts, tgs, rest)'
      <3> SUFFICES ASSUME NEW c, NEW ts, NEW tgs, NEW rest,
                          c = container, ts = tracks, tgs = tags, rest = todo'
                   PROVE  Holds(c, ts, tgs, rest)'
        OBVIOUS
      <3>1. rest = <<>> => whole'
        BY <1>1
      <3>2. /\ Fits(c, name') /\ GoodTracks(ts)
            /\ c = "dsk" => GoodTags(tgs)
            /\ c = "adf" => Len(ts) = NrTracks["adf"]
        BY <1>1, <1>2 DEF GoodDisk
      <3>3. saved' # NotSaved => rest = <<>> /\ saved' = KeptOf(c, ts, tgs)
        BY <1>6, <1>7
      <3> QED
        BY <1>5, <3>1, <3>2, <3>3 DEF Holds
    <2>2. \E c, ts, tgs, rest :
             c = container /\ ts = tracks /\ tgs = tags /\ rest = todo'
      OBVIOUS
    <2> QED
      BY <1>5, <2>1, <2>2 DEF FileGood
  <1>10. ReopenKeeps'
    BY <1>1 DEF ReopenKeeps, JustOpened
  <1> QED
    BY <1>1, <1>3, <1>4, <1>8, <1>9, <1>10 DEF IInv

LEMMA SpinsIsGood ==
    ASSUME IInv, OpenSpins
    PROVE  IInv'
  <1>1. /\ pc = "closed" /\ pc' = "spinning"
        /\ UNCHANGED <<name, file, container, readOnly, tracks, tags, todo, saved,
                       whole, changes, lastTag, listed>>
    BY DEF OpenSpins
  <1>2. Simple' /\ NoDisk'
    BY <1>1 DEF IInv, Simple, NoDisk
  <1>3. FileGood'
    BY <1>1, FileKept DEF IInv
  <1>4. ReopenKeeps'
    BY <1>1 DEF ReopenKeeps, JustOpened
  <1> QED
    BY <1>1, <1>2, <1>3, <1>4 DEF IInv

LEMMA IInvHolds == Spec => []IInv
  <1>1. Init => IInv
    BY InitIsGood
  <1>2. IInv /\ [Next]_vars => IInv'
    <2> SUFFICES ASSUME IInv, [Next]_vars
                 PROVE  IInv'
      OBVIOUS
    <2>1. CASE Create
      BY <2>1, CreateIsGood
    <2>2. ASSUME NEW ro \in BOOLEAN, Open(ro)
          PROVE  IInv'
      BY <2>2, OpenIsGood
    <2>3. CASE OpenSpins
      BY <2>3, SpinsIsGood
    <2>4. CASE Write
      BY <2>4, WriteIsGood
    <2>5. ASSUME NEW id \in TagIds, NEW val \in TagValues, SetTag(id, val)
          PROVE  IInv'
      BY <2>5, SetTagIsGood
    <2>6. CASE Discard
      BY <2>6, GoneIsGood DEF Discard
    <2>7. CASE CloseBegin
      BY <2>7, CloseBeginIsGood
    <2>8. CASE CloseWrite
      BY <2>8, CloseWriteIsGood
    <2>9. CASE CloseEnd
      BY <2>9, GoneIsGood DEF CloseEnd
    <2>10. CASE Crash
      BY <2>10, GoneIsGood DEF Crash
    <2>11. CASE UNCHANGED vars
      <3>1. UNCHANGED <<name, file, pc, container, readOnly, tracks, tags, todo, saved,
                        whole, changes, lastTag, listed>>
        BY <2>11 DEF vars
      <3>2. FileGood'
        BY <3>1, FileKept DEF IInv
      <3>3. Simple' /\ (NoDisk => NoDisk') /\ (GoodDisk => GoodDisk')
        BY <3>1 DEF IInv, Simple, NoDisk, GoodDisk
      <3>4. Halfway => Halfway'
        BY <3>1 DEF Halfway, Kept
      <3>5. ReopenKeeps'
        BY <3>1 DEF IInv, ReopenKeeps, JustOpened, Kept
      <3> QED
        BY <3>1, <3>2, <3>3, <3>4, <3>5 DEF IInv
    <2> QED
      BY <2>1, <2>2, <2>3, <2>4, <2>5, <2>6, <2>7, <2>8, <2>9, <2>10, <2>11 DEF Next
  <1> QED
    BY <1>1, <1>2, PTL DEF Spec

-----------------------------------------------------------------------------
(* Theorems. *)

\* A disk is there exactly while it is open, and each of its tracks is of a known
\* format, has data exactly if it has a length, and no valid sector that the format
\* lacks, whatever file it was read from.
THEOREM DiskIsTyped == Spec => []TypeOK
  <1>1. IInv => TypeOK
    <2> SUFFICES ASSUME IInv
                 PROVE  TypeOK
      OBVIOUS
    <2>1. Simple
      BY DEF IInv
    <2>2. CASE pc \in {"closed", "spinning"}
      <3>1. container = "none" /\ tracks = <<>>
        BY <2>2 DEF IInv, NoDisk
      <3>2. 1..Len(tracks) = {}
        BY <3>1
      <3> QED
        BY <2>1, <2>2, <3>1, <3>2 DEF TypeOK, Simple
    <2>3. CASE pc \in {"open", "closing"}
      <3>1. Fits(container, name) /\ GoodTracks(tracks)
        BY <2>3 DEF IInv, GoodDisk
      <3>2. container \in {"dsk", "adf", "eadf"}
        BY <3>1 DEF Fits
      <3>3. \A i \in 1..Len(tracks) :
              /\ tracks[i].type \in Types
              /\ tracks[i].valid \subseteq AllValid(tracks[i].secs)
              /\ tracks[i].len # 0 <=> tracks[i].dat # NoDat
        BY <3>1 DEF GoodTracks, GoodTrack
      <3> QED
        BY <2>1, <2>3, <3>2, <3>3 DEF TypeOK, Simple
    <2> QED
      BY <2>1, <2>2, <2>3 DEF Simple
  <1> QED
    BY <1>1, IInvHolds, PTL

\* The offset of every track with data lies within the track: that which dsk_write_raw
\* brings into it, from a negative one too, and that which a container reads back.
THEOREM OffsetsFit == Spec => []OffsetInTrack
  <1>1. IInv => OffsetInTrack
    <2> SUFFICES ASSUME IInv, NEW i \in 1..Len(tracks), tracks[i].dat # NoDat
                 PROVE  tracks[i].off \in
                          0 .. (IF tracks[i].total = Weak THEN 0 ELSE tracks[i].total - 1)
      BY DEF OffsetInTrack
    <2>1. tracks # <<>>
      OBVIOUS
    <2>2. GoodTracks(tracks)
      BY <2>1 DEF IInv, Simple, NoDisk, GoodDisk
    <2>3. GoodTrack(tracks[i])
      BY <2>2 DEF GoodTracks
    <2> QED
      BY <2>3 DEF GoodTrack
  <1> QED
    BY <1>1, IInvHolds, PTL

\* The tracks are as their types say and their data lies in them, in every state.
THEOREM TracksAreSound == Spec => []TracksSound
  <1> QED
    BY DiskIsTyped, OffsetsFit, PTL DEF TracksSound

\* disk_set_tag and dsk_open keep the tags in order, once each, up to their end
\* marker, and disk_get_tag_by_id finds the tag that was set last.
THEOREM TagListIsKept == Spec => []TagsKept
  <1>1. IInv => TagsKept
    <2> SUFFICES ASSUME IInv
                 PROVE  TagsKept
      OBVIOUS
    <2>1. CASE listed
      <3>1. GoodDisk /\ GoodTags(tags)
        BY <2>1 DEF IInv, Simple, NoDisk, GoodDisk
      <3>2. /\ Len(tags) \in Nat \ {0} /\ DOMAIN tags = 1..Len(tags) /\ IsList(tags)
            /\ tags \in Seq(TagRecs) /\ tags[Len(tags)] = End /\ Ascending(tags)
            /\ \A i \in 1..Len(tags) : tags[i] \in TagRecs /\ tags[i].id \in Nat
        BY <3>1, GoodTagsOf DEF GoodTags
      <3> DEFINE n == Len(tags)
                 f == Front(tags)
                 a == Append(f, End)
      <3>3. /\ f \in Seq(TagRecs) /\ Len(f) = n - 1
            /\ \A i \in 1..(n - 1) : f[i] = tags[i]
        <4>1. f = SubSeq(tags, 1, n - 1)
          BY DEF Front
        <4>2. \A i \in 1..(n - 1) : tags[i] \in TagRecs
          BY <3>2
        <4>3. /\ SubSeq(tags, 1, n - 1) \in Seq(TagRecs)
              /\ Len(SubSeq(tags, 1, n - 1)) = IF 1 <= n - 1 THEN n - 1 - 1 + 1 ELSE 0
              /\ \A i \in 1..(n - 1 - 1 + 1) :
                    SubSeq(tags, 1, n - 1)[i] = tags[1 + i - 1]
          BY <3>2, <4>2, SubSeqProperties
        <4> HIDE DEF f
        <4> QED
          BY <3>2, <4>1, <4>3
      <3> HIDE DEF f, n
      <3>4. End \in TagRecs
        BY <3>2
      <3>5. /\ a \in Seq(TagRecs) /\ Len(a) = n - 1 + 1
            /\ \A i \in 1..(n - 1) : a[i] = f[i]
            /\ a[n - 1 + 1] = End
        BY <3>3, <3>4, AppendProperties
      <3> HIDE DEF a
      <3>6. n \in Nat \ {0} /\ n - 1 + 1 = n
        BY <3>2 DEF n
      <3>7. a = tags
        <4>1. ASSUME NEW i \in 1..n
              PROVE  a[i] = tags[i]
          <5>1. i = n \/ i \in 1..(n - 1)
            BY <3>6
          <5> QED
            BY <3>2, <3>3, <3>5, <3>6, <5>1 DEF n
        <4>2. Len(a) = n
          BY <3>5, <3>6
        <4> QED
          BY <3>2, <3>5, <4>1, <4>2, SeqEqual DEF n
      <3>8. ASSUME lastTag # NoTag
            PROVE  TagById(lastTag.id) = lastTag
        <4>1. PICK i \in 1..Len(tags) : tags[i] = lastTag
          BY <2>1, <3>1, <3>8 DEF GoodDisk
        <4> DEFINE I == {j \in 1..Len(tags) : tags[j].id = lastTag.id}
                   k == SelectInSeq(tags, LAMBDA t : t.id = lastTag.id)
        <4>2. \A j \in I : j = i
          <5> SUFFICES ASSUME NEW j \in I
                       PROVE  j = i
            OBVIOUS
          <5>1. /\ j \in 1..Len(tags) /\ tags[j].id = tags[i].id
                /\ tags[i].id \in Nat /\ i \in Nat /\ j \in Nat
            BY <3>2, <4>1
          <5>2. ~(i < j) /\ ~(j < i)
            BY <3>2, <5>1 DEF Ascending
          <5> QED
            BY <5>1, <5>2
        <4>3. i \in I /\ I \in SUBSET Nat
          BY <3>2, <4>1
        <4>4. k = IF I # {} THEN Min(I) ELSE 0
          BY <3>2 DEF SelectInSeq
        <4>5. Min(I) \in I
          <5> HIDE DEF I
          <5> QED
            BY <4>3, LeastExists
        <4>6. k = i /\ i # 0
          <5> HIDE DEF I, k
          <5> QED
            BY <3>2, <4>2, <4>3, <4>4, <4>5
        <4> HIDE DEF k
        <4>7. TagById(lastTag.id) = IF k = 0 THEN NoTag ELSE tags[k]
          BY DEF TagById, k
        <4> QED
          BY <4>1, <4>6, <4>7
      <3>9. \A i, j \in 1..Len(tags) : i < j => tags[i].id < tags[j].id
        BY <3>2 DEF Ascending
      <3> QED
        BY <2>1, <3>7, <3>8, <3>9 DEF TagsKept, a, f
    <2>2. CASE ~listed
      <3>1. tags = <<>>
        BY <2>2 DEF IInv, Simple, NoDisk, GoodDisk
      <3>2. 1..Len(tags) = {}
        BY <3>1
      <3> QED
        BY <2>2, <3>1, <3>2 DEF TagsKept
    <2> QED
      BY <2>1, <2>2
  <1> QED
    BY <1>1, IInvHolds, PTL

\* adf_open takes no file that adf_close, or the process, left half written.
THEOREM TornAdfIsRefused == Spec => []NoTornAdf
  <1>1. IInv => NoTornAdf
    BY DEF IInv, NoTornAdf, JustOpened
  <1> QED
    BY <1>1, IInvHolds, PTL

\* Whatever was in a disk when it was closed, the next open finds what the container
\* promises to keep of it: tracks, offsets, bits and tags.
THEOREM ReopenFindsIt == Spec => []ReopenKeeps
  <1>1. IInv => ReopenKeeps
    BY DEF IInv
  <1> QED
    BY <1>1, IInvHolds, PTL
=============================================================================
