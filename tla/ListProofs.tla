----------------------------- MODULE ListProofs -----------------------------
(***************************************************************************)
(* What the list operations of SequencesExt do to the places of a list.     *)
(* The linked lists of the emulator are such lists (m68k/amiga/event.c,        *)
(* mem.c).  And what the two operations of event.c, which keep a list in     *)
(* order of time, do to the elements and to their order: EmulatorProofs and *)
(* AmigaDriveProofs use that.                                              *)
(***************************************************************************)
EXTENDS EventList, Integers, SequenceTheorems, WellFoundedInduction, TLAPS

\* A set of numbers that is not empty has a least one.
LEMMA LeastExists ==
    ASSUME NEW I \in SUBSET Nat, I # {}
    PROVE  Min(I) \in I /\ \A i \in I : Min(I) <= i
  <1> DEFINE R == OpToRel(<, Nat)
  <1>1. IsWellFoundedOn(R, Nat)
    BY NatLessThanWellFounded
  <1>2. \A x, y \in Nat : <<x, y>> \in R <=> x < y
    BY DEF OpToRel
  <1> HIDE DEF R
  <1>3. PICK m \in I : \A i \in I : ~(<<i, m>> \in R)
    BY <1>1, WFMin, Zenon
  <1>4. ASSUME NEW i \in I
        PROVE  m <= i
    <2>1. i \in Nat /\ m \in Nat
      OBVIOUS
    <2>2. ~(i < m)
      BY <1>2, <1>3, <2>1, Zenon
    <2> QED
      BY <2>1, <2>2
  <1> QED
    BY <1>4 DEF Min

-----------------------------------------------------------------------------
\* Where the elements of a list go when one is put in, and when one is taken out.
LEMMA InsertAtValue ==
    ASSUME NEW E, NEW list \in Seq(E), NEW e \in E, NEW k \in 1..(Len(list) + 1)
    PROVE  /\ InsertAt(list, k, e) \in Seq(E)
           /\ DOMAIN InsertAt(list, k, e) = 1..(Len(list) + 1)
           /\ \A i \in 1..(Len(list) + 1) :
                 InsertAt(list, k, e)[i] = IF i < k THEN list[i]
                                           ELSE IF i = k THEN e ELSE list[i - 1]
  <1> DEFINE front == SubSeq(list, 1, k - 1)
             back  == SubSeq(list, k, Len(list))
             head  == front \o <<e>>
             n     == Len(list)
  <1>1. /\ n \in Nat /\ k \in Int
        /\ \A i \in 1..n : list[i] \in E
    BY LenProperties, ElementOfSeq
  <1>2. /\ front \in Seq(E) /\ Len(front) = k - 1
        /\ \A i \in 1..(k - 1) : front[i] = list[i]
    <2>1. \A i \in 1..(k - 1) : list[i] \in E
      BY <1>1
    <2>2. /\ front \in Seq(E)
          /\ Len(front) = IF 1 <= k - 1 THEN k - 1 - 1 + 1 ELSE 0
          /\ \A i \in 1..(k - 1 - 1 + 1) : front[i] = list[1 + i - 1]
      BY <1>1, <2>1, SubSeqProperties
    <2> QED
      BY <1>1, <2>2
  <1>3. /\ back \in Seq(E) /\ Len(back) = n + 1 - k
        /\ \A i \in 1..(n + 1 - k) : back[i] = list[k + i - 1]
    <2>1. \A i \in k..n : list[i] \in E
      BY <1>1
    <2>2. /\ back \in Seq(E)
          /\ Len(back) = IF k <= n THEN n - k + 1 ELSE 0
          /\ \A i \in 1..(n - k + 1) : back[i] = list[k + i - 1]
      BY <1>1, <2>1, SubSeqProperties
    <2> QED
      BY <1>1, <2>2
  <1>4. <<e>> \in Seq(E) /\ Len(<<e>>) = 1 /\ <<e>>[1] = e
    OBVIOUS
  <1> HIDE DEF front, back
  <1>5. /\ head \in Seq(E) /\ Len(head) = k
        /\ \A i \in 1..k : head[i] = IF i < k THEN list[i] ELSE e
    <2>1. /\ head \in Seq(E) /\ Len(head) = k - 1 + 1
          /\ \A i \in 1..(k - 1 + 1) :
                head[i] = IF i <= k - 1 THEN front[i] ELSE <<e>>[i - (k - 1)]
      BY <1>2, <1>4, ConcatProperties
    <2> QED
      BY <1>1, <1>2, <1>4, <2>1
  <1> HIDE DEF head
  <1>6. /\ head \o back \in Seq(E) /\ Len(head \o back) = n + 1
        /\ \A i \in 1..(n + 1) :
              (head \o back)[i] = IF i <= k THEN head[i] ELSE back[i - k]
    <2>1. /\ head \o back \in Seq(E)
          /\ Len(head \o back) = Len(head) + Len(back)
          /\ \A i \in 1..(Len(head) + Len(back)) :
                (head \o back)[i] = IF i <= Len(head) THEN head[i]
                                    ELSE back[i - Len(head)]
      BY <1>3, <1>5, ConcatProperties
    <2>2. Len(head) + Len(back) = n + 1
      BY <1>1, <1>3, <1>5
    <2> QED
      BY <1>5, <2>1, <2>2
  <1>7. InsertAt(list, k, e) = head \o back
    BY DEF InsertAt, head, front, back
  <1>8. DOMAIN (head \o back) = 1..(n + 1)
    <2>1. DOMAIN (head \o back) = 1..Len(head \o back)
      BY <1>6, LenProperties
    <2> QED
      BY <1>1, <1>6, <2>1
  <1>9. \A i \in 1..(n + 1) : (head \o back)[i] =
           IF i < k THEN list[i] ELSE IF i = k THEN e ELSE list[i - 1]
    BY <1>1, <1>3, <1>5, <1>6
  <1> QED
    BY <1>6, <1>7, <1>8, <1>9

LEMMA RemoveAtValue ==
    ASSUME NEW E, NEW list \in Seq(E), NEW k \in 1..Len(list)
    PROVE  /\ RemoveAt(list, k) \in Seq(E)
           /\ DOMAIN RemoveAt(list, k) = 1..(Len(list) - 1)
           /\ \A i \in 1..(Len(list) - 1) :
                 RemoveAt(list, k)[i] = IF i < k THEN list[i] ELSE list[i + 1]
  <1> DEFINE front == SubSeq(list, 1, k - 1)
             back  == SubSeq(list, k + 1, Len(list))
             n     == Len(list)
  <1>1. /\ n \in Nat /\ k \in Int
        /\ \A i \in 1..n : list[i] \in E
    BY LenProperties, ElementOfSeq
  <1>2. /\ front \in Seq(E) /\ Len(front) = k - 1
        /\ \A i \in 1..(k - 1) : front[i] = list[i]
    <2>1. \A i \in 1..(k - 1) : list[i] \in E
      BY <1>1
    <2>2. /\ front \in Seq(E)
          /\ Len(front) = IF 1 <= k - 1 THEN k - 1 - 1 + 1 ELSE 0
          /\ \A i \in 1..(k - 1 - 1 + 1) : front[i] = list[1 + i - 1]
      BY <1>1, <2>1, SubSeqProperties
    <2> QED
      BY <1>1, <2>2
  <1>3. /\ back \in Seq(E) /\ Len(back) = n - k
        /\ \A i \in 1..(n - k) : back[i] = list[k + i]
    <2>1. \A i \in (k + 1)..n : list[i] \in E
      BY <1>1
    <2>2. /\ back \in Seq(E)
          /\ Len(back) = IF k + 1 <= n THEN n - (k + 1) + 1 ELSE 0
          /\ \A i \in 1..(n - (k + 1) + 1) : back[i] = list[(k + 1) + i - 1]
      BY <1>1, <2>1, SubSeqProperties
    <2> QED
      BY <1>1, <2>2
  <1> HIDE DEF front, back
  <1>4. /\ front \o back \in Seq(E) /\ Len(front \o back) = n - 1
        /\ \A i \in 1..(n - 1) :
              (front \o back)[i] =
                 IF i <= k - 1 THEN front[i] ELSE back[i - (k - 1)]
    <2>1. /\ front \o back \in Seq(E)
          /\ Len(front \o back) = Len(front) + Len(back)
          /\ \A i \in 1..(Len(front) + Len(back)) :
                (front \o back)[i] = IF i <= Len(front) THEN front[i]
                                     ELSE back[i - Len(front)]
      BY <1>2, <1>3, ConcatProperties
    <2>2. Len(front) + Len(back) = n - 1
      BY <1>1, <1>2, <1>3
    <2> QED
      BY <1>2, <2>1, <2>2
  <1>5. RemoveAt(list, k) = front \o back
    BY DEF RemoveAt, front, back
  <1>6. DOMAIN (front \o back) = 1..(n - 1)
    <2>1. DOMAIN (front \o back) = 1..Len(front \o back)
      BY <1>4, LenProperties
    <2> QED
      BY <1>1, <1>4, <2>1
  <1>7. \A i \in 1..(n - 1) :
           (front \o back)[i] = IF i < k THEN list[i] ELSE list[i + 1]
    <2> SUFFICES ASSUME NEW i \in 1..(n - 1)
                 PROVE  (front \o back)[i] = IF i < k THEN list[i]
                                             ELSE list[i + 1]
      OBVIOUS
    <2>1. CASE i < k
      BY <1>1, <1>2, <1>4, <2>1
    <2>2. CASE ~(i < k)
      <3>1. i - (k - 1) \in 1..(n - k) /\ k + (i - (k - 1)) = i + 1
        BY <1>1, <2>2
      <3>2. back[i - (k - 1)] = list[i + 1]
        BY <1>3, <3>1
      <3> QED
        BY <1>1, <1>4, <2>2, <3>2
    <2> QED
      BY <2>1, <2>2
  <1> QED
    BY <1>4, <1>5, <1>6, <1>7

-----------------------------------------------------------------------------
(* Lists of events. *)

Once(list) == \A i, j \in DOMAIN list : list[i] = list[j] => i = j
InOrder(list, at) ==
    \A i, j \in DOMAIN list : i < j => at[list[i]] <= at[list[j]]

-----------------------------------------------------------------------------
\* add_to_list puts the event behind those that are not later, and before one
\* that is.
LEMMA LinkPlace ==
    ASSUME NEW E, NEW list \in Seq(E), NEW e \in E, NEW at \in [E -> Int]
    PROVE  \E k \in 1..(Len(list) + 1) :
              /\ Link(list, e, at) = InsertAt(list, k, e)
              /\ \A i \in 1..(k - 1) : at[list[i]] <= at[e]
              /\ k <= Len(list) => at[list[k]] > at[e]
  <1> DEFINE I == {i \in 1..Len(list) : at[list[i]] > at[e]}
             later == IF I # {} THEN Min(I) ELSE 0
             k == IF later = 0 THEN Len(list) + 1 ELSE later
  <1>1. /\ Len(list) \in Nat
        /\ \A i \in 1..Len(list) : list[i] \in E /\ at[list[i]] \in Int
        /\ at[e] \in Int
    BY LenProperties, ElementOfSeq
  <1>2. Link(list, e, at) = InsertAt(list, k, e)
    BY DEF Link, SelectInSeq
  <1>3. CASE I = {}
    <2>1. k = Len(list) + 1
      BY <1>3
    <2>2. \A i \in 1..(k - 1) : at[list[i]] <= at[e]
      <3>1. \A i \in 1..Len(list) : ~(at[list[i]] > at[e])
        BY <1>3
      <3> HIDE DEF I, k
      <3> QED
        BY <1>1, <2>1, <3>1
    <2> HIDE DEF k
    <2> QED
      BY <1>1, <1>2, <2>1, <2>2
  <1>4. CASE I # {}
    <2>1. I \in SUBSET Nat
      BY <1>1
    <2> HIDE DEF I
    <2>2. Min(I) \in I /\ \A i \in I : Min(I) <= i
      BY <1>4, <2>1, LeastExists
    <2>3. Min(I) \in 1..Len(list) /\ at[list[Min(I)]] > at[e]
      BY <2>2 DEF I
    <2>4. k = Min(I)
      BY <1>1, <1>4, <2>3
    <2> HIDE DEF k
    <2>5. k \in 1..Len(list) /\ at[list[k]] > at[e]
      BY <2>3, <2>4
    <2>6. \A i \in 1..(k - 1) : at[list[i]] <= at[e]
      <3> SUFFICES ASSUME NEW i \in 1..(k - 1), at[list[i]] > at[e]
                   PROVE  FALSE
        BY <1>1, <2>5
      <3>1. i \in I
        BY <1>1, <2>5 DEF I
      <3>2. k <= i
        BY <2>2, <2>4, <3>1
      <3> QED
        BY <1>1, <2>5, <3>2
    <2> QED
      BY <1>1, <1>2, <2>5, <2>6
  <1> QED
    BY <1>3, <1>4

\* remove_from_list takes the event out at a place where it is.
LEMMA UnlinkPlace ==
    ASSUME NEW E, NEW list \in Seq(E), NEW e \in ToSet(list)
    PROVE  \E k \in 1..Len(list) : list[k] = e /\ Unlink(list, e) = RemoveAt(list, k)
  <1> DEFINE I == {i \in 1..Len(list) : list[i] = e}
  <1>1. Len(list) \in Nat /\ DOMAIN list = 1..Len(list)
    BY LenProperties
  <1>2. PICK i \in 1..Len(list) : list[i] = e
    BY <1>1 DEF ToSet
  <1>3. I # {} /\ I \in SUBSET Nat
    BY <1>1, <1>2
  <1>4. Unlink(list, e) = RemoveAt(list, Min(I))
    BY <1>2, <1>3 DEF Unlink, RemoveFirst, SelectInSeq
  <1> HIDE DEF I
  <1>5. Min(I) \in I
    BY <1>3, LeastExists
  <1> QED
    BY <1>4, <1>5 DEF I

LEMMA UnlinkOther ==
    ASSUME NEW E, NEW list \in Seq(E), NEW e, e \notin ToSet(list)
    PROVE  Unlink(list, e) = list
  <1>1. DOMAIN list = 1..Len(list)
    BY LenProperties
  <1> QED
    BY <1>1 DEF Unlink, RemoveFirst, ToSet

\* add_to_list adds the event, once if it was not there, and keeps the order.
LEMMA LinkProperties ==
    ASSUME NEW E, NEW list \in Seq(E), NEW e \in E, NEW at \in [E -> Int]
    PROVE  /\ Link(list, e, at) \in Seq(E)
           /\ ToSet(Link(list, e, at)) = ToSet(list) \cup {e}
           /\ Once(list) /\ e \notin ToSet(list) => Once(Link(list, e, at))
           /\ InOrder(list, at) => InOrder(Link(list, e, at), at)
  <1> DEFINE n == Len(list)
             new == Link(list, e, at)
  <1>1. /\ n \in Nat /\ DOMAIN list = 1..n
        /\ \A i \in 1..n : list[i] \in E /\ at[list[i]] \in Int
        /\ at[e] \in Int
    BY LenProperties, ElementOfSeq
  <1>2. PICK k \in 1..(n + 1) :
              /\ new = InsertAt(list, k, e)
              /\ \A i \in 1..(k - 1) : at[list[i]] <= at[e]
              /\ k <= n => at[list[k]] > at[e]
    BY LinkPlace
  <1>3. /\ new \in Seq(E) /\ DOMAIN new = 1..(n + 1)
        /\ \A i \in 1..(n + 1) :
              new[i] = IF i < k THEN list[i] ELSE IF i = k THEN e ELSE list[i - 1]
    <2> DEFINE ins == InsertAt(list, k, e)
    <2>1. /\ ins \in Seq(E) /\ DOMAIN ins = 1..(n + 1)
          /\ \A i \in 1..(n + 1) :
                ins[i] = IF i < k THEN list[i] ELSE IF i = k THEN e ELSE list[i - 1]
      BY InsertAtValue
    <2>2. new = ins
      BY <1>2
    <2> HIDE DEF new, ins
    <2> QED
      BY <2>1, <2>2
  <1> HIDE DEF new, n
  <1>9. ASSUME NEW i \in 1..(n + 1)
        PROVE  /\ i < k => i \in 1..n /\ new[i] = list[i]
               /\ i = k => new[i] = e
               /\ i > k => i - 1 \in 1..n /\ new[i] = list[i - 1] /\ i - 1 >= k
    <2>1. n \in Nat /\ k \in Nat /\ i \in Nat /\ k <= n + 1
      BY <1>1
    <2>2. new[i] = IF i < k THEN list[i] ELSE IF i = k THEN e ELSE list[i - 1]
      BY <1>3
    <2>3. CASE i < k
      BY <2>1, <2>2, <2>3
    <2>4. CASE i = k
      BY <2>2, <2>1, <2>4
    <2>5. CASE i > k
      <3>1. i - 1 \in 1..n /\ i - 1 >= k
        BY <2>1, <2>5
      <3>2. ~(i < k) /\ i # k
        BY <2>1, <2>5
      <3> QED
        BY <2>2, <2>5, <3>1, <3>2, Zenon
    <2> QED
      BY <2>1, <2>3, <2>4, <2>5
  <1>4. ToSet(new) = ToSet(list) \cup {e}
    <2>1. ASSUME NEW i \in 1..(n + 1)
          PROVE  new[i] \in ToSet(list) \cup {e}
      <3>1. CASE i < k
        <4>1. i \in 1..n /\ new[i] = list[i]
          BY <1>1, <1>3, <3>1
        <4> QED
          BY <1>1, <4>1 DEF ToSet
      <3>2. CASE i = k
        BY <1>3, <3>2
      <3>3. CASE i > k
        <4>1. i - 1 \in 1..n /\ new[i] = list[i - 1]
          BY <1>1, <1>3, <3>3
        <4> QED
          BY <1>1, <4>1 DEF ToSet
      <3> QED
        BY <1>1, <3>1, <3>2, <3>3
    <2>2. ASSUME NEW i \in 1..n
          PROVE  list[i] \in ToSet(new)
      <3>1. CASE i < k
        <4>1. i \in 1..(n + 1) /\ new[i] = list[i]
          BY <1>1, <1>3, <3>1
        <4> QED
          BY <1>3, <4>1 DEF ToSet
      <3>2. CASE i >= k
        <4>1. i + 1 \in 1..(n + 1) /\ new[i + 1] = list[i]
          BY <1>1, <1>3, <3>2
        <4> QED
          BY <1>3, <4>1 DEF ToSet
      <3> QED
        BY <1>1, <3>1, <3>2
    <2>3. e \in ToSet(new)
      BY <1>1, <1>3 DEF ToSet
    <2> QED
      BY <1>1, <1>3, <2>1, <2>2, <2>3 DEF ToSet
  <1>5. ASSUME Once(list), e \notin ToSet(list)
        PROVE  Once(new)
    <2> SUFFICES ASSUME NEW i \in 1..(n + 1), NEW j \in 1..(n + 1),
                        new[i] = new[j], i < j
                 PROVE  FALSE
      BY <1>1, <1>3 DEF Once
    <2>1. \A l \in 1..n : list[l] # e
      BY <1>1, <1>5 DEF ToSet
    <2>2. \A l, m \in 1..n : list[l] = list[m] => l = m
      BY <1>1, <1>5 DEF Once
    <2>3. CASE j <= k
      <3>0. i < k /\ k \in Nat /\ (j = k \/ j < k)
        BY <1>1, <2>3
      <3>1. i \in 1..n /\ new[i] = list[i]
        BY <1>9, <3>0
      <3>2. CASE j = k
        <4>1. new[j] = e
          BY <1>9, <3>2
        <4> QED
          BY <2>1, <3>1, <4>1
      <3>3. CASE j < k
        <4>1. j \in 1..n /\ new[j] = list[j] /\ i # j
          BY <1>9, <3>3
        <4> QED
          BY <2>2, <3>1, <4>1
      <3> QED
        BY <3>0, <3>2, <3>3
    <2>4. CASE j > k
      <3>1. j - 1 \in 1..n /\ new[j] = list[j - 1] /\ j - 1 >= k
        BY <1>9, <2>4
      <3>2. CASE i <= k
        <4>1. CASE i = k
          <5>1. new[i] = e
            BY <1>9, <4>1
          <5> QED
            BY <2>1, <3>1, <5>1
        <4>2. CASE i < k
          <5>1. i \in 1..n /\ new[i] = list[i]
            BY <1>9, <4>2
          <5>2. i # j - 1
            BY <1>1, <3>1, <4>2
          <5> QED
            BY <2>2, <3>1, <5>1, <5>2
        <4> QED
          BY <1>1, <3>2, <4>1, <4>2
      <3>3. CASE i > k
        <4>1. i - 1 \in 1..n /\ new[i] = list[i - 1]
          BY <1>9, <3>3
        <4> QED
          BY <2>2, <3>1, <4>1
      <3> QED
        BY <1>1, <3>2, <3>3
    <2> QED
      BY <1>1, <2>3, <2>4
  <1>6. ASSUME InOrder(list, at)
        PROVE  InOrder(new, at)
    <2> SUFFICES ASSUME NEW i \in 1..(n + 1), NEW j \in 1..(n + 1), i < j
                 PROVE  at[new[i]] <= at[new[j]]
      BY <1>1, <1>3 DEF InOrder
    <2>1. \A l, m \in 1..n : l < m => at[list[l]] <= at[list[m]]
      BY <1>1, <1>6 DEF InOrder
    <2>2. \A l \in 1..n : l >= k => at[list[l]] > at[e]
      <3> SUFFICES ASSUME NEW l \in 1..n, l >= k
                   PROVE  at[list[l]] > at[e]
        OBVIOUS
      <3>1. k \in 1..n /\ at[list[k]] > at[e]
        BY <1>1, <1>2 DEF n
      <3>2. k = l \/ at[list[k]] <= at[list[l]]
        BY <1>1, <2>1, <3>1
      <3> QED
        BY <1>1, <3>1, <3>2
    <2>3. CASE j < k
      BY <1>1, <1>3, <2>1, <2>3
    <2>4. CASE j = k
      BY <1>1, <1>2, <1>3, <2>4
    <2>5. CASE j > k
      <3>1. j - 1 \in 1..n /\ new[j] = list[j - 1] /\ j - 1 >= k
        BY <1>9, <2>5
      <3>2. CASE i < k
        <4>1. i \in 1..n /\ new[i] = list[i] /\ i < j - 1
          BY <1>1, <1>3, <3>1, <3>2
        <4> QED
          BY <2>1, <3>1, <4>1
      <3>3. CASE i = k
        BY <1>1, <1>3, <2>2, <3>1, <3>3
      <3>4. CASE i > k
        <4>1. i - 1 \in 1..n /\ new[i] = list[i - 1] /\ i - 1 < j - 1
          BY <1>1, <1>3, <3>4
        <4> QED
          BY <2>1, <3>1, <4>1
      <3> QED
        BY <1>1, <3>2, <3>3, <3>4
    <2> QED
      BY <1>1, <2>3, <2>4, <2>5
  <1> QED
    BY <1>3, <1>4, <1>5, <1>6 DEF new

\* remove_from_list takes an event that is linked once out, and keeps the order.
LEMMA UnlinkProperties ==
    ASSUME NEW E, NEW list \in Seq(E), NEW e, Once(list)
    PROVE  /\ Unlink(list, e) \in Seq(E)
           /\ ToSet(Unlink(list, e)) = ToSet(list) \ {e}
           /\ Once(Unlink(list, e))
           /\ \A at \in [E -> Int] :
                 InOrder(list, at) => InOrder(Unlink(list, e), at)
  <1>1. CASE e \notin ToSet(list)
    BY <1>1, UnlinkOther
  <1>2. CASE e \in ToSet(list)
    <2> DEFINE n == Len(list)
               new == Unlink(list, e)
    <2>1. /\ n \in Nat /\ DOMAIN list = 1..n
          /\ \A i \in 1..n : list[i] \in E
      BY LenProperties, ElementOfSeq
    <2>2. PICK k \in 1..n : list[k] = e /\ new = RemoveAt(list, k)
      BY <1>2, UnlinkPlace
    <2>3. /\ new \in Seq(E) /\ DOMAIN new = 1..(n - 1)
          /\ \A i \in 1..(n - 1) :
                new[i] = IF i < k THEN list[i] ELSE list[i + 1]
      BY <2>2, RemoveAtValue
    <2> HIDE DEF new, n
    <2>4. \A l, m \in 1..n : list[l] = list[m] => l = m
      BY <2>1 DEF Once
    <2> DEFINE from(i) == IF i < k THEN i ELSE i + 1
    <2>5. \A i \in 1..(n - 1) :
             from(i) \in 1..n /\ from(i) # k /\ new[i] = list[from(i)]
      BY <2>1, <2>3
    <2>6. \A i, j \in 1..(n - 1) : (i < j => from(i) < from(j))
                                   /\ (from(i) = from(j) => i = j)
      BY <2>1
    <2>7. \A l \in 1..n : l # k => \E i \in 1..(n - 1) : from(i) = l
      <3> SUFFICES ASSUME NEW l \in 1..n, l # k
                   PROVE  \E i \in 1..(n - 1) : from(i) = l
        OBVIOUS
      <3>1. CASE l < k
        BY <2>1, <3>1
      <3>2. CASE l > k
        <4>1. l - 1 \in 1..(n - 1) /\ from(l - 1) = l
          BY <2>1, <3>2
        <4> QED
          BY <4>1
      <3> QED
        BY <2>1, <3>1, <3>2
    <2> HIDE DEF from
    <2>8. ToSet(new) = ToSet(list) \ {e}
      <3>1. \A i \in 1..(n - 1) : new[i] \in ToSet(list) \ {e}
        BY <2>1, <2>2, <2>4, <2>5 DEF ToSet
      <3>2. \A l \in 1..n : list[l] # e => list[l] \in ToSet(new)
        <4> SUFFICES ASSUME NEW l \in 1..n, list[l] # e
                     PROVE  list[l] \in ToSet(new)
          OBVIOUS
        <4>1. l # k
          BY <2>2
        <4>2. PICK i \in 1..(n - 1) : from(i) = l
          BY <2>7, <4>1
        <4>3. new[i] = list[l]
          BY <2>5, <4>2
        <4> QED
          BY <2>3, <4>3 DEF ToSet
      <3> QED
        BY <2>1, <2>3, <3>1, <3>2 DEF ToSet
    <2>9. Once(new)
      BY <2>3, <2>4, <2>5, <2>6 DEF Once
    <2>10. ASSUME NEW at \in [E -> Int], InOrder(list, at)
           PROVE  InOrder(new, at)
      BY <2>1, <2>3, <2>5, <2>6, <2>10 DEF InOrder
    <2> QED
      BY <2>3, <2>8, <2>9, <2>10 DEF new
  <1> QED
    BY <1>1, <1>2

\* The head of a list in order is the earliest; the rest has the others.
LEMMA HeadProperties ==
    ASSUME NEW E, NEW list \in Seq(E), list # <<>>, Once(list)
    PROVE  /\ Head(list) \in ToSet(list) /\ Head(list) \in E
           /\ Tail(list) \in Seq(E)
           /\ ToSet(Tail(list)) = ToSet(list) \ {Head(list)}
           /\ Once(Tail(list))
           /\ \A at \in [E -> Int] : InOrder(list, at) =>
                 /\ InOrder(Tail(list), at)
                 /\ \A f \in ToSet(list) : at[Head(list)] <= at[f]
  <1> DEFINE n == Len(list)
             new == Tail(list)
  <1>1. /\ n \in Nat \ {0} /\ DOMAIN list = 1..n
        /\ \A i \in 1..n : list[i] \in E
    BY LenProperties, ElementOfSeq, EmptySeq
  <1>2. Head(list) = list[1]
    BY <1>1
  <1>3. /\ new \in Seq(E) /\ Len(new) = n - 1
        /\ \A i \in 1..(n - 1) : new[i] = list[i + 1]
    BY HeadTailProperties
  <1>4. DOMAIN new = 1..(n - 1)
    BY <1>3, LenProperties
  <1> HIDE DEF new, n
  <1>5. \A l, m \in 1..n : list[l] = list[m] => l = m
    BY <1>1 DEF Once
  <1>6. ToSet(new) = ToSet(list) \ {list[1]}
    <2>1. \A i \in 1..(n - 1) : new[i] \in ToSet(list) \ {list[1]}
      <3> SUFFICES ASSUME NEW i \in 1..(n - 1)
                   PROVE  new[i] \in ToSet(list) \ {list[1]}
        OBVIOUS
      <3>1. i + 1 \in 1..n /\ i + 1 # 1 /\ 1 \in 1..n
        BY <1>1
      <3> QED
        BY <1>1, <1>3, <1>5, <3>1 DEF ToSet
    <2>2. \A l \in 1..n : l # 1 => list[l] \in ToSet(new)
      <3> SUFFICES ASSUME NEW l \in 1..n, l # 1
                   PROVE  list[l] \in ToSet(new)
        OBVIOUS
      <3>1. l - 1 \in 1..(n - 1) /\ l - 1 + 1 = l
        BY <1>1
      <3> QED
        BY <1>3, <1>4, <3>1 DEF ToSet
    <2> QED
      BY <1>1, <1>4, <2>1, <2>2 DEF ToSet
  <1>7. Once(new)
    BY <1>1, <1>3, <1>4, <1>5 DEF Once
  <1>8. ASSUME NEW at \in [E -> Int], InOrder(list, at)
        PROVE  /\ InOrder(new, at)
               /\ \A f \in ToSet(list) : at[list[1]] <= at[f]
    <2>1. \A l, m \in 1..n : l < m => at[list[l]] <= at[list[m]]
      BY <1>1, <1>8 DEF InOrder
    <2>2. InOrder(new, at)
      BY <1>1, <1>3, <1>4, <2>1 DEF InOrder
    <2>3. \A m \in 1..n : at[list[1]] <= at[list[m]]
      BY <1>1, <2>1
    <2> QED
      BY <1>1, <2>2, <2>3 DEF ToSet
  <1>9. list[1] \in ToSet(list) /\ list[1] \in E
    BY <1>1 DEF ToSet
  <1> QED
    BY <1>2, <1>3, <1>6, <1>7, <1>8, <1>9 DEF new

\* Changing the time of an event that is not linked keeps the order.
LEMMA OrderOfOthers ==
    ASSUME NEW E, NEW list \in Seq(E), NEW e \in E, e \notin ToSet(list),
           NEW at \in [E -> Int], NEW t \in Int, InOrder(list, at)
    PROVE  InOrder(list, [at EXCEPT ![e] = t])
  <1>1. DOMAIN list = 1..Len(list) /\ \A i \in 1..Len(list) : list[i] \in E
    BY LenProperties, ElementOfSeq
  <1>2. \A i \in DOMAIN list : [at EXCEPT ![e] = t][list[i]] = at[list[i]]
    BY <1>1 DEF ToSet
  <1> QED
    BY <1>2 DEF InOrder

=============================================================================
