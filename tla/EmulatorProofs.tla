--------------------------- MODULE EmulatorProofs ---------------------------
(***************************************************************************)
(* Two parts of the emulator.  The event list of m68k/amiga/event.c stays in *)
(* order, and implements module Timers, for any set of events, any times and *)
(* any callbacks.  The allocator of m68k/amiga/mem.c neither leaks memory    *)
(* nor hands it out twice, joins what is freed, refuses only what there is no *)
(* room for, and so keeps the promise of FreeBytes: for any memory map and   *)
(* requests.                                                               *)
(***************************************************************************)
EXTENDS EventQueue, MemRegions, ListProofs

-----------------------------------------------------------------------------
(* The event list. *)

\* A list and the times of its events, as WellLinked wants them.
Good(list, at) ==
    /\ list \in Seq(Events) /\ at \in [Events -> 0..MaxTime]
    /\ Once(list)
    /\ {e \in Events : at[e] # 0} = ToSet(list)
    /\ InOrder(list, at)

Counters ==
    /\ alive \subseteq Events
    /\ current_time \in 0..MaxTime
    /\ firing \in BOOLEAN
    /\ ops \in 0..CallbackOps

QueueInv == Counters /\ Good(active, time)

-----------------------------------------------------------------------------
LEMMA GoodUnset ==
    ASSUME NEW list, NEW at, Good(list, at), NEW e \in Events
    PROVE  Good(Unlink(list, e), [at EXCEPT ![e] = 0])
  <1> DEFINE new == [at EXCEPT ![e] = 0]
             rest == Unlink(list, e)
  <1>1. /\ list \in Seq(Events) /\ at \in [Events -> 0..MaxTime] /\ at \in [Events -> Int]
        /\ Once(list) /\ InOrder(list, at)
        /\ {f \in Events : at[f] # 0} = ToSet(list)
    BY QueueBounds DEF Good
  <1>2. /\ rest \in Seq(Events) /\ ToSet(rest) = ToSet(list) \ {e} /\ Once(rest)
        /\ InOrder(rest, at)
    BY <1>1, UnlinkProperties
  <1>3. InOrder(rest, new)
    <2>1. e \notin ToSet(rest) /\ e \in Events /\ 0 \in Int
      BY <1>2
    <2> HIDE DEF rest
    <2> QED
      BY <1>1, <1>2, <2>1, OrderOfOthers
  <1>4. new \in [Events -> 0..MaxTime]
    BY <1>1, QueueBounds
  <1>5. {f \in Events : new[f] # 0} = ToSet(rest)
    BY <1>1, <1>2
  <1> QED
    BY <1>2, <1>3, <1>4, <1>5 DEF Good

LEMMA GoodSet ==
    ASSUME NEW list, NEW at, Good(list, at), NEW e \in Events, NEW t \in 1..MaxTime
    PROVE  Good(Link(IF at[e] = 0 THEN list ELSE Unlink(list, e), e,
                     [at EXCEPT ![e] = t]),
                [at EXCEPT ![e] = t])
  <1> DEFINE off == [at EXCEPT ![e] = 0]
             new == [at EXCEPT ![e] = t]
             rest == IF at[e] = 0 THEN list ELSE Unlink(list, e)
  <1>1. Good(rest, off)
    <2>1. CASE at[e] = 0
      <3>1. off = at
        BY <2>1 DEF Good
      <3> QED
        BY <2>1, <3>1
    <2>2. CASE at[e] # 0
      BY <2>2, GoodUnset
    <2> QED
      BY <2>1, <2>2
  <1>2. at \in [Events -> 0..MaxTime]
    BY DEF Good
  <1>3. /\ new \in [Events -> 0..MaxTime] /\ new \in [Events -> Int]
        /\ off \in [Events -> Int]
    BY <1>2, QueueBounds
  <1>4. new = [off EXCEPT ![e] = t]
    BY <1>2
  <1>5. /\ rest \in Seq(Events) /\ Once(rest) /\ InOrder(rest, off)
        /\ ToSet(rest) = {f \in Events : off[f] # 0}
    BY <1>1 DEF Good
  <1>6. off[e] = 0
    BY <1>2
  <1> HIDE DEF rest, off, new
  <1>7. e \notin ToSet(rest)
    BY <1>5, <1>6
  <1>8. t \in Int
    BY QueueBounds
  <1>9. InOrder(rest, new)
    BY <1>3, <1>4, <1>5, <1>7, <1>8, OrderOfOthers
  <1>10. /\ Link(rest, e, new) \in Seq(Events)
         /\ ToSet(Link(rest, e, new)) = ToSet(rest) \cup {e}
         /\ Once(Link(rest, e, new))
         /\ InOrder(Link(rest, e, new), new)
    BY <1>3, <1>5, <1>7, <1>9, LinkProperties
  <1>11. {f \in Events : new[f] # 0} = ToSet(rest) \cup {e}
    BY <1>2, <1>5, QueueBounds DEF new, off
  <1> QED
    BY <1>3, <1>10, <1>11 DEF Good, rest, new

LEMMA GoodFire ==
    ASSUME NEW list, NEW at, Good(list, at), list # <<>>
    PROVE  /\ Good(Tail(list), [at EXCEPT ![Head(list)] = 0])
           /\ Head(list) \in Events /\ at[Head(list)] # 0
           /\ \A f \in Events : at[f] # 0 => at[Head(list)] <= at[f]
  <1> DEFINE e == Head(list)
             rest == Tail(list)
             new == [at EXCEPT ![e] = 0]
  <1>1. /\ list \in Seq(Events) /\ at \in [Events -> 0..MaxTime] /\ at \in [Events -> Int]
        /\ Once(list) /\ InOrder(list, at)
        /\ {f \in Events : at[f] # 0} = ToSet(list)
    BY QueueBounds DEF Good
  <1>2. /\ e \in ToSet(list) /\ e \in Events
        /\ rest \in Seq(Events) /\ ToSet(rest) = ToSet(list) \ {e} /\ Once(rest)
        /\ InOrder(rest, at)
        /\ \A f \in ToSet(list) : at[e] <= at[f]
    BY <1>1, HeadProperties
  <1> HIDE DEF e, rest
  <1>3. InOrder(rest, new)
    <2>1. e \notin ToSet(rest) /\ e \in Events /\ 0 \in Int
      BY <1>2
    <2> HIDE DEF rest
    <2> QED
      BY <1>1, <1>2, <2>1, OrderOfOthers
  <1>4. new \in [Events -> 0..MaxTime]
    BY <1>1, <1>2, QueueBounds
  <1>5. {f \in Events : new[f] # 0} = ToSet(rest)
    BY <1>1, <1>2
  <1>6. Good(rest, new)
    BY <1>2, <1>3, <1>4, <1>5 DEF Good
  <1>7. at[e] # 0 /\ \A f \in Events : at[f] # 0 => at[e] <= at[f]
    BY <1>1, <1>2
  <1> QED
    BY <1>2, <1>6, <1>7 DEF e, rest

\* What remains when nothing is due.
LEMMA NothingDue ==
    ASSUME QueueInv, ~HeadIsDue
    PROVE  \A e \in Events : time[e] # 0 => time[e] > current_time
  <1> SUFFICES ASSUME NEW e \in Events, time[e] # 0
               PROVE  time[e] > current_time
    OBVIOUS
  <1>1. Good(active, time) /\ current_time \in Nat
    BY QueueBounds DEF QueueInv, Counters
  <1>2. active # <<>>
    <2>1. e \in ToSet(active)
      BY <1>1 DEF Good
    <2> QED
      BY <2>1 DEF ToSet
  <1>3. /\ Head(active) \in Events
        /\ time[Head(active)] <= time[e]
    BY <1>1, <1>2, GoodFire
  <1>4. time[e] \in Nat /\ time[Head(active)] \in Nat
    BY <1>1, <1>3, QueueBounds DEF Good
  <1>5. ~(time[Head(active)] <= current_time)
    BY <1>2 DEF HeadIsDue
  <1> QED
    BY <1>1, <1>3, <1>4, <1>5

-----------------------------------------------------------------------------
LEMMA QueueStarts == QueueInit => QueueInv
  <1> SUFFICES ASSUME QueueInit
               PROVE  QueueInv
    OBVIOUS
  <1>1. Counters
    <2>1. 0 \in 0..MaxTime /\ 0 \in 0..CallbackOps
      BY QueueBounds
    <2> QED
      BY <2>1 DEF QueueInit, Counters
  <1>2. active = <<>> /\ time = [e \in Events |-> 0]
    BY DEF QueueInit
  <1>3. time \in [Events -> 0..MaxTime] /\ {e \in Events : time[e] # 0} = {}
    BY <1>2, QueueBounds
  <1>4. /\ active \in Seq(Events) /\ ToSet(active) = {} /\ Once(active)
        /\ InOrder(active, time)
    BY <1>2 DEF ToSet, Once, InOrder
  <1> QED
    BY <1>1, <1>3, <1>4 DEF QueueInv, Good

LEMMA QueueStep == QueueInv /\ [QueueNext]_queueVars => QueueInv'
  <1> SUFFICES ASSUME QueueInv, [QueueNext]_queueVars
               PROVE  QueueInv'
    OBVIOUS
  <1> USE DEF QueueInv
  <1>1. ASSUME Caller, alive' \subseteq Events
        PROVE  Counters'
    <2>1. current_time' = current_time /\ firing' = firing
      BY <1>1 DEF Caller
    <2>2. ops' \in 0..CallbackOps
      <3>1. ops \in 0..CallbackOps /\ firing \in BOOLEAN
        BY DEF Counters
      <3>2. CASE firing
        <4>1. ops > 0 /\ ops' = ops - 1
          BY <1>1, <3>2 DEF Caller
        <4>2. ops - 1 \in 0..CallbackOps
          BY <3>1, <4>1, QueueBounds
        <4> QED
          BY <4>1, <4>2
      <3>3. CASE ~firing
        BY <1>1, <3>1, <3>3 DEF Caller
      <3> QED
        BY <3>2, <3>3
    <2> QED
      BY <1>1, <2>1, <2>2 DEF Counters
  <1>2. ASSUME NEW e \in Events, Unset(e)
        PROVE  Good(active, time)'
    <2>1. CASE time[e] = 0
      BY <1>2, <2>1 DEF Unset, Good, Once, InOrder, ToSet
    <2>2. CASE time[e] # 0
      <3>1. active' = Unlink(active, e) /\ time' = [time EXCEPT ![e] = 0]
        BY <1>2, <2>2 DEF Unset
      <3>2. Good(Unlink(active, e), [time EXCEPT ![e] = 0])
        BY GoodUnset
      <3> QED
        BY <3>1, <3>2
    <2> QED
      BY <2>1, <2>2
  <1>3. ASSUME NEW e \in Events, EventAlloc(e)
        PROVE  QueueInv'
    <2>1. Counters'
      BY <1>1, <1>3 DEF EventAlloc, Counters
    <2>2. active' = active /\ time' = time
      BY <1>3 DEF EventAlloc
    <2> QED
      BY <2>1, <2>2
  <1>4. ASSUME NEW e \in Events, EventUnset(e)
        PROVE  QueueInv'
    <2>1. Counters'
      BY <1>1, <1>4 DEF EventUnset, Counters
    <2>2. Good(active, time)'
      BY <1>2, <1>4 DEF EventUnset
    <2> QED
      BY <2>1, <2>2
  <1>5. ASSUME NEW e \in Events, EventDestroy(e)
        PROVE  QueueInv'
    <2>1. Counters'
      BY <1>1, <1>5 DEF EventDestroy, Counters
    <2>2. Good(active, time)'
      BY <1>2, <1>5 DEF EventDestroy
    <2> QED
      BY <2>1, <2>2
  <1>6. ASSUME NEW e \in Events, NEW t \in 1..MaxTime, EventSet(e, t)
        PROVE  QueueInv'
    <2>1. Counters'
      BY <1>1, <1>6 DEF EventSet, Counters
    <2>2. /\ time' = [time EXCEPT ![e] = t]
          /\ active' = Link(IF time[e] = 0 THEN active ELSE Unlink(active, e), e, time')
      BY <1>6 DEF EventSet
    <2>3. Good(Link(IF time[e] = 0 THEN active ELSE Unlink(active, e), e,
                    [time EXCEPT ![e] = t]), [time EXCEPT ![e] = t])
      BY GoodSet
    <2>4. Good(active, time)'
      BY <2>2, <2>3
    <2> QED
      BY <2>1, <2>4
  <1>7. ASSUME NEW d \in 0..MaxStep, Advance(d)
        PROVE  QueueInv'
    <2>1. current_time + d \in 0..MaxTime
      BY <1>7, QueueBounds DEF Advance, Counters
    <2>2. Counters'
      BY <1>7, <2>1, QueueBounds DEF Advance, Counters
    <2>3. active' = active /\ time' = time
      BY <1>7 DEF Advance
    <2> QED
      BY <2>2, <2>3
  <1>8. ASSUME Fire
        PROVE  QueueInv'
    <2>1. Counters'
      BY <1>8, QueueBounds DEF Fire, Counters
    <2>2. /\ active # <<>> /\ active' = Tail(active)
          /\ time' = [time EXCEPT ![Head(active)] = 0]
      BY <1>8 DEF Fire, HeadIsDue
    <2>3. Good(Tail(active), [time EXCEPT ![Head(active)] = 0])
      BY <2>2, GoodFire
    <2> QED
      BY <2>1, <2>2, <2>3
  <1>9. ASSUME FireDone
        PROVE  QueueInv'
    <2>1. Counters'
      <3>1. 0 \in 0..CallbackOps
        BY QueueBounds
      <3> QED
        BY <1>9, <3>1 DEF FireDone, Counters
    <2>2. active' = active /\ time' = time
      BY <1>9 DEF FireDone
    <2> QED
      BY <2>1, <2>2
  <1>10. ASSUME UNCHANGED queueVars
         PROVE  QueueInv'
    <2>1. Counters' /\ active' = active /\ time' = time
      BY <1>10 DEF queueVars, Counters
    <2> QED
      BY <2>1
  <1> QED
    BY <1>3, <1>4, <1>5, <1>6, <1>7, <1>8, <1>9, <1>10 DEF QueueNext

LEMMA QueueInvariant == QueueSpec => []QueueInv
  <1> QED
    BY QueueStarts, QueueStep, PTL DEF QueueSpec

\* Whatever the instructions and the callbacks set, unset and destroy, the time
\* field of an event tells whether it is linked, and the list is in order.
THEOREM QueueWellLinked == QueueSpec => []WellLinked
  <1>1. QueueInv => WellLinked
    BY DEF QueueInv, Good, WellLinked, Once, InOrder
  <1> QED
    BY <1>1, QueueInvariant, PTL

-----------------------------------------------------------------------------
LEMMA TimersInit == QueueInit => TimersPromise!TInit
  BY DEF QueueInit, TimersPromise!TInit, TimersPromise!Off

LEMMA TimersStep == QueueInv /\ [QueueNext]_queueVars => [TimersPromise!TNext]_TimersPromise!timerVars
  <1> SUFFICES ASSUME QueueInv, [QueueNext]_queueVars
               PROVE  TimersPromise!TNext \/ UNCHANGED <<time, current_time, firing>>
    BY DEF TimersPromise!timerVars
  <1>1. ASSUME NEW e \in Events, Unset(e), Caller
        PROVE  TimersPromise!TNext \/ UNCHANGED <<time, current_time, firing>>
    <2>1. CASE time[e] = 0
      BY <1>1, <2>1 DEF Unset, Caller
    <2>2. CASE time[e] # 0
      <3>1. TimersPromise!TUnset(e)
        BY <1>1, <2>2 DEF Unset, Caller, TimersPromise!TUnset, TimersPromise!Off
      <3> QED
        BY <3>1 DEF TimersPromise!TNext
    <2> QED
      BY <2>1, <2>2
  <1>2. ASSUME NEW e \in Events, EventAlloc(e)
        PROVE  UNCHANGED <<time, current_time, firing>>
    BY <1>2 DEF EventAlloc, Caller
  <1>3. ASSUME NEW e \in Events, EventUnset(e) \/ EventDestroy(e)
        PROVE  TimersPromise!TNext \/ UNCHANGED <<time, current_time, firing>>
    BY <1>1, <1>3 DEF EventUnset, EventDestroy
  <1>4. ASSUME NEW e \in Events, NEW t \in 1..MaxTime, EventSet(e, t)
        PROVE  TimersPromise!TNext
    <2>1. TimersPromise!TSet(e, t)
      BY <1>4 DEF EventSet, Caller, TimersPromise!TSet
    <2> QED
      BY <2>1 DEF TimersPromise!TNext
  <1>5. ASSUME NEW d \in 0..MaxStep, Advance(d)
        PROVE  TimersPromise!TNext
    <2> DEFINE t == current_time + d
    <2>1. t \in 0..MaxTime /\ t >= current_time
      BY <1>5, QueueBounds DEF Advance, QueueInv, Counters
    <2>2. TimersPromise!TPass(t)
      BY <1>5, <2>1 DEF Advance, TimersPromise!TPass
    <2> QED
      BY <2>1, <2>2 DEF TimersPromise!TNext
  <1>6. ASSUME Fire
        PROVE  TimersPromise!TNext
    <2>1. active # <<>> /\ Good(active, time)
      BY <1>6 DEF Fire, HeadIsDue, QueueInv
    <2>2. /\ Head(active) \in Events /\ time[Head(active)] # 0
          /\ \A f \in Events : time[f] # 0 => time[Head(active)] <= time[f]
      BY <2>1, GoodFire
    <2>3. TimersPromise!TFire(Head(active))
      BY <1>6, <2>2 DEF Fire, HeadIsDue, TimersPromise!TFire, TimersPromise!Armed, TimersPromise!Off
    <2> QED
      BY <2>2, <2>3 DEF TimersPromise!TNext
  <1>7. ASSUME FireDone
        PROVE  TimersPromise!TNext
    <2>1. \A e \in Events : time[e] # 0 => time[e] > current_time
      BY <1>7, NothingDue DEF FireDone
    <2>2. TimersPromise!TDone
      BY <1>7, <2>1 DEF FireDone, TimersPromise!TDone, TimersPromise!Armed, TimersPromise!Off
    <2> QED
      BY <2>2 DEF TimersPromise!TNext
  <1>8. ASSUME UNCHANGED queueVars
        PROVE  UNCHANGED <<time, current_time, firing>>
    BY <1>8 DEF queueVars
  <1> QED
    BY <1>2, <1>3, <1>4, <1>5, <1>6, <1>7, <1>8 DEF QueueNext

\* The sorted list implements the timers: an event fires once for each time it
\* is set, not before its time, and earliest first; a pass leaves none due.
THEOREM QueueImplementsTimers == QueueSpec => ImplementsTimers
  BY TimersInit, TimersStep, QueueInvariant, PTL
     DEF QueueSpec, ImplementsTimers, TimersPromise!TSpec

-----------------------------------------------------------------------------
(* The allocator. *)

Regions == [start : Nat, end : Nat]

\* A list of regions in order of address that do not touch, and its bytes.
Apart(list) ==
    /\ \A r \in 1..Len(list) : list[r].start <= list[r].end
    /\ \A r, s \in 1..Len(list) : r < s => list[r].end + 1 < list[s].start
In(list, b) == \E r \in 1..Len(list) : list[r].start <= b /\ b <= list[r].end

-----------------------------------------------------------------------------
LEMMA RegionsOf ==
    ASSUME NEW list \in Seq(Regions)
    PROVE  /\ Len(list) \in Nat /\ DOMAIN list = 1..Len(list)
           /\ \A r \in 1..Len(list) :
                list[r] \in Regions /\ list[r].start \in Nat /\ list[r].end \in Nat
  <1>1. Len(list) \in Nat /\ DOMAIN list = 1..Len(list)
    BY LenProperties
  <1>2. ASSUME NEW r \in 1..Len(list)
        PROVE  list[r] \in Regions /\ list[r].start \in Nat /\ list[r].end \in Nat
    <2>1. list[r] \in Regions
      BY ElementOfSeq
    <2> QED
      BY <2>1 DEF Regions
  <1> QED
    BY <1>1, <1>2

\* One list behind another.
LEMMA ConcatApart ==
    ASSUME NEW p \in Seq(Regions), NEW q \in Seq(Regions), Apart(p), Apart(q),
           \A r \in 1..Len(p), s \in 1..Len(q) : p[r].end + 1 < q[s].start
    PROVE  /\ p \o q \in Seq(Regions) /\ Apart(p \o q)
           /\ \A b \in Nat : In(p \o q, b) <=> In(p, b) \/ In(q, b)
  <1> DEFINE l == p \o q
             m == Len(p)
             n == Len(q)
  <1>1. /\ m \in Nat /\ n \in Nat
        /\ \A r \in 1..m : p[r].start \in Nat /\ p[r].end \in Nat
        /\ \A r \in 1..n : q[r].start \in Nat /\ q[r].end \in Nat
    BY RegionsOf
  <1>2. /\ l \in Seq(Regions) /\ Len(l) = m + n
        /\ \A i \in 1..(m + n) : l[i] = IF i <= m THEN p[i] ELSE q[i - m]
    BY ConcatProperties
  <1> HIDE DEF l
  <1>3. \A i \in 1..(m + n) : ~(i <= m) => i - m \in 1..n
    BY <1>1
  <1>4. \A i \in 1..m : i \in 1..(m + n) /\ l[i] = p[i]
    BY <1>1, <1>2
  <1>5. \A i \in 1..n : /\ i + m \in 1..(m + n) /\ ~(i + m <= m)
                        /\ (i + m) - m = i
    BY <1>1
  <1>6. \A i \in 1..n : i + m \in 1..(m + n) /\ l[i + m] = q[i]
    BY <1>2, <1>5
  <1>7. Apart(l)
    <2>1. ASSUME NEW r \in 1..(m + n)
          PROVE  l[r].start <= l[r].end
      <3>1. CASE r <= m
        BY <1>2, <3>1 DEF Apart
      <3>2. CASE ~(r <= m)
        BY <1>2, <1>3, <3>2 DEF Apart
      <3> QED
        BY <3>1, <3>2
    <2>2. ASSUME NEW r \in 1..(m + n), NEW s \in 1..(m + n), r < s
          PROVE  l[r].end + 1 < l[s].start
      <3>1. CASE s <= m
        <4>1. r \in 1..m /\ s \in 1..m
          BY <1>1, <2>2, <3>1
        <4> QED
          BY <1>4, <2>2, <4>1 DEF Apart
      <3>2. CASE r <= m /\ ~(s <= m)
        <4>1. r \in 1..m /\ s - m \in 1..n
          BY <1>1, <3>2
        <4> QED
          BY <1>2, <3>2, <4>1
      <3>3. CASE ~(r <= m)
        <4>1. r - m \in 1..n /\ s - m \in 1..n /\ r - m < s - m /\ ~(s <= m)
          BY <1>1, <2>2, <3>3
        <4>2. q[r - m].end + 1 < q[s - m].start
          BY <4>1 DEF Apart
        <4> QED
          BY <1>2, <3>3, <4>1, <4>2
      <3> QED
        BY <3>1, <3>2, <3>3
    <2> QED
      BY <1>2, <2>1, <2>2 DEF Apart
  <1>8. ASSUME NEW b \in Nat
        PROVE  In(l, b) <=> In(p, b) \/ In(q, b)
    <2>1. ASSUME In(l, b)
          PROVE  In(p, b) \/ In(q, b)
      <3>1. PICK i \in 1..(m + n) : l[i].start <= b /\ b <= l[i].end
        BY <1>2, <2>1 DEF In
      <3>2. CASE i <= m
        <4>1. i \in 1..m
          BY <1>1, <3>2
        <4> QED
          BY <1>4, <3>1, <4>1 DEF In
      <3>3. CASE ~(i <= m)
        BY <1>2, <1>3, <3>1, <3>3 DEF In
      <3> QED
        BY <3>2, <3>3
    <2>2. ASSUME In(p, b)
          PROVE  In(l, b)
      BY <1>2, <1>4, <2>2 DEF In
    <2>3. ASSUME In(q, b)
          PROVE  In(l, b)
      <3>1. PICK i \in 1..n : q[i].start <= b /\ b <= q[i].end
        BY <2>3 DEF In
      <3> QED
        BY <1>2, <1>6, <3>1 DEF In
    <2> QED
      BY <2>1, <2>2, <2>3
  <1> QED
    BY <1>2, <1>7, <1>8 DEF l

\* Part of a list.
LEMMA PartApart ==
    ASSUME NEW list \in Seq(Regions), Apart(list),
           NEW i \in Nat \ {0}, NEW j \in Nat, j <= Len(list)
    PROVE  LET part == SubSeq(list, i, j)
           IN  /\ part \in Seq(Regions) /\ Apart(part)
               /\ \A r \in 1..Len(part) :
                    \E k \in 1..Len(list) : i <= k /\ k <= j /\ part[r] = list[k]
               /\ \A k \in 1..Len(list) :
                    i <= k /\ k <= j => \E r \in 1..Len(part) : part[r] = list[k]
  <1> DEFINE part == SubSeq(list, i, j)
             n == IF i <= j THEN j - i + 1 ELSE 0
  <1>1. /\ Len(list) \in Nat
        /\ \A k \in i..j : k \in 1..Len(list) /\ list[k] \in Regions
    BY RegionsOf
  <1>2. /\ part \in Seq(Regions) /\ Len(part) = n
        /\ \A r \in 1..(j - i + 1) : part[r] = list[i + r - 1]
    BY <1>1, SubSeqProperties
  <1> HIDE DEF part
  <1>3. \A r \in 1..n : r \in 1..(j - i + 1) /\ i + r - 1 \in i..j
    OBVIOUS
  <1>4. n \in Nat /\ \A r \in 1..n : part[r] = list[i + r - 1] /\ i + r - 1 \in 1..Len(list)
    BY <1>1, <1>2, <1>3
  <1>5. \A k \in 1..Len(list) : i <= k /\ k <= j =>
           k - i + 1 \in 1..n /\ i + (k - i + 1) - 1 = k
    BY <1>1
  <1>6. Apart(part)
    <2>1. \A r, s \in 1..n : r < s => i + r - 1 < i + s - 1
      BY <1>4
    <2>2. \A r \in 1..n : part[r].start <= part[r].end
      BY <1>4 DEF Apart
    <2>3. ASSUME NEW r \in 1..n, NEW s \in 1..n, r < s
          PROVE  part[r].end + 1 < part[s].start
      <3>1. list[i + r - 1].end + 1 < list[i + s - 1].start
        BY <1>4, <2>1, <2>3 DEF Apart
      <3> QED
        BY <1>4, <3>1
    <2> QED
      BY <1>2, <2>2, <2>3 DEF Apart
  <1>7. \A r \in 1..n : \E k \in 1..Len(list) : i <= k /\ k <= j /\ part[r] = list[k]
    <2> SUFFICES ASSUME NEW r \in 1..n
                 PROVE  \E k \in 1..Len(list) : i <= k /\ k <= j /\ part[r] = list[k]
      OBVIOUS
    <2>1. i <= i + r - 1 /\ i + r - 1 <= j
      BY <1>3
    <2> HIDE DEF n
    <2> QED
      BY <1>4, <2>1
  <1>8. \A k \in 1..Len(list) : i <= k /\ k <= j => \E r \in 1..n : part[r] = list[k]
    <2> SUFFICES ASSUME NEW k \in 1..Len(list), i <= k, k <= j
                 PROVE  \E r \in 1..n : part[r] = list[k]
      OBVIOUS
    <2>1. k - i + 1 \in 1..n /\ part[k - i + 1] = list[k]
      BY <1>4, <1>5
    <2> HIDE DEF n
    <2> QED
      BY <2>1
  <1> QED
    BY <1>2, <1>6, <1>7, <1>8 DEF part

\* A gap before a region is one before all of its parts, and so is a gap after it.
LEMMA GapBelow ==
    \A x, y, z \in Nat : x + 1 < y /\ y <= z => x + 1 < z
  OBVIOUS
LEMMA GapAbove ==
    \A x, y, z \in Nat : x <= y /\ y + 1 < z => x + 1 < z
  OBVIOUS
LEMMA GapAcross ==
    \A w, x, y, z \in Nat : w + 1 < x /\ x <= y /\ y + 1 < z => w + 1 < z
  OBVIOUS
LEMMA AtMost ==
    \A x, y, z \in Nat : x <= y /\ y <= z => x <= z
  OBVIOUS

\* The list with the regions from p + 1 to q - 1 replaced by others.
LEMMA SpliceApart ==
    ASSUME NEW list \in Seq(Regions), Apart(list), NEW mid \in Seq(Regions), Apart(mid),
           NEW p \in Nat, NEW q \in Nat, p < q, q <= Len(list) + 1,
           \A k \in 1..p, s \in 1..Len(mid) : list[k].end + 1 < mid[s].start,
           \A k \in q..Len(list), s \in 1..Len(mid) : mid[s].end + 1 < list[k].start
    PROVE  LET l == SubSeq(list, 1, p) \o mid \o SubSeq(list, q, Len(list))
           IN  /\ l \in Seq(Regions) /\ Apart(l)
               /\ \A b \in Nat : In(l, b) <=>
                    \/ In(mid, b)
                    \/ \E k \in 1..Len(list) : (k <= p \/ q <= k)
                         /\ list[k].start <= b /\ b <= list[k].end
  <1> DEFINE f == SubSeq(list, 1, p)
             t == SubSeq(list, q, Len(list))
             n == Len(list)
  <1>1. n \in Nat /\ p <= n /\ q \in Nat \ {0}
    BY RegionsOf
  <1>2. /\ f \in Seq(Regions) /\ Apart(f)
        /\ \A r \in 1..Len(f) : \E k \in 1..n : k <= p /\ f[r] = list[k]
        /\ \A k \in 1..n : k <= p => \E r \in 1..Len(f) : f[r] = list[k]
    <2>1. LET part == SubSeq(list, 1, p)
          IN  /\ part \in Seq(Regions) /\ Apart(part)
              /\ \A r \in 1..Len(part) :
                   \E k \in 1..Len(list) : 1 <= k /\ k <= p /\ part[r] = list[k]
              /\ \A k \in 1..Len(list) :
                   1 <= k /\ k <= p => \E r \in 1..Len(part) : part[r] = list[k]
      BY <1>1, PartApart
    <2> HIDE DEF f
    <2>2. /\ f \in Seq(Regions) /\ Apart(f)
          /\ \A r \in 1..Len(f) :
                   \E k \in 1..n : 1 <= k /\ k <= p /\ f[r] = list[k]
          /\ \A k \in 1..n :
                   1 <= k /\ k <= p => \E r \in 1..Len(f) : f[r] = list[k]
      BY <2>1 DEF f
    <2>3. \A k \in 1..n : 1 <= k
      OBVIOUS
    <2> QED
      BY <2>2, <2>3
  <1>3. /\ t \in Seq(Regions) /\ Apart(t)
        /\ \A r \in 1..Len(t) : \E k \in 1..n : q <= k /\ t[r] = list[k]
        /\ \A k \in 1..n : q <= k => \E r \in 1..Len(t) : t[r] = list[k]
    <2>1. LET part == SubSeq(list, q, n)
          IN  /\ part \in Seq(Regions) /\ Apart(part)
              /\ \A r \in 1..Len(part) :
                   \E k \in 1..Len(list) : q <= k /\ k <= n /\ part[r] = list[k]
              /\ \A k \in 1..Len(list) :
                   q <= k /\ k <= n => \E r \in 1..Len(part) : part[r] = list[k]
      <3>1. Len(list) \in Nat /\ Len(list) <= Len(list)
        BY <1>1
      <3> QED
        BY <1>1, <3>1, PartApart
    <2>2. /\ t \in Seq(Regions) /\ Apart(t)
          /\ \A r \in 1..Len(t) :
                   \E k \in 1..n : q <= k /\ k <= n /\ t[r] = list[k]
          /\ \A k \in 1..n :
                   q <= k /\ k <= n => \E r \in 1..Len(t) : t[r] = list[k]
      BY <2>1 DEF t
    <2>3. \A k \in 1..n : k <= n
      OBVIOUS
    <2> HIDE DEF t
    <2> QED
      BY <2>2, <2>3
  <1> HIDE DEF f, t
  <1>4. \A r \in 1..Len(f), s \in 1..Len(mid) : f[r].end + 1 < mid[s].start
    <2> SUFFICES ASSUME NEW r \in 1..Len(f), NEW s \in 1..Len(mid)
                 PROVE  f[r].end + 1 < mid[s].start
      OBVIOUS
    <2>1. PICK k \in 1..n : k <= p /\ f[r] = list[k]
      BY <1>2
    <2>2. k \in 1..p
      BY <1>1, <2>1
    <2> QED
      BY <2>1, <2>2
  <1> DEFINE h == f \o mid
  <1>5. /\ h \in Seq(Regions) /\ Apart(h)
        /\ \A b \in Nat : In(h, b) <=> In(f, b) \/ In(mid, b)
    BY <1>2, <1>4, ConcatApart
  <1>6. ASSUME NEW r \in 1..Len(h), NEW s \in 1..Len(t)
        PROVE  h[r].end + 1 < t[s].start
    <2>1. PICK k \in 1..n : q <= k /\ t[s] = list[k]
      BY <1>3
    <2>2. /\ Len(f) \in Nat /\ Len(mid) \in Nat /\ Len(h) = Len(f) + Len(mid)
          /\ \A i \in 1..(Len(f) + Len(mid)) :
               h[i] = IF i <= Len(f) THEN f[i] ELSE mid[i - Len(f)]
      BY <1>2, LenProperties, ConcatProperties
    <2> HIDE DEF h
    <2>3. CASE r <= Len(f)
      <3>1. r \in 1..Len(f) /\ h[r] = f[r]
        BY <2>2, <2>3
      <3>2. PICK i \in 1..n : i <= p /\ f[r] = list[i]
        BY <1>2, <3>1
      <3>3. i < k
        BY <1>1, <2>1, <3>2
      <3>4. list[i].end + 1 < list[k].start
        BY <3>3 DEF Apart
      <3> QED
        BY <2>1, <3>1, <3>2, <3>4
    <2>4. CASE ~(r <= Len(f))
      <3>1. r - Len(f) \in 1..Len(mid) /\ h[r] = mid[r - Len(f)]
        BY <2>2, <2>4
      <3>2. k \in q..n
        BY <1>1, <2>1
      <3> QED
        BY <2>1, <3>1, <3>2
    <2> QED
      BY <2>3, <2>4
  <1> HIDE DEF h
  <1>7. /\ h \o t \in Seq(Regions) /\ Apart(h \o t)
        /\ \A b \in Nat : In(h \o t, b) <=> In(h, b) \/ In(t, b)
    BY <1>3, <1>5, <1>6, ConcatApart
  <1>8. \A b \in Nat : In(f, b) <=>
          \E k \in 1..n : k <= p /\ list[k].start <= b /\ b <= list[k].end
    BY <1>2 DEF In
  <1>9. \A b \in Nat : In(t, b) <=>
          \E k \in 1..n : q <= k /\ list[k].start <= b /\ b <= list[k].end
    BY <1>3 DEF In
  <1>10. \A b \in Nat : In(h \o t, b) <=>
                    \/ In(mid, b)
                    \/ \E k \in 1..Len(list) : (k <= p \/ q <= k)
                         /\ list[k].start <= b /\ b <= list[k].end
    BY <1>5, <1>7, <1>8, <1>9
  <1> QED
    BY <1>7, <1>10 DEF h, f, t

-----------------------------------------------------------------------------
LEMMA OneApart ==
    ASSUME NEW x \in Regions, x.start <= x.end
    PROVE  /\ <<x>> \in Seq(Regions) /\ Apart(<<x>>)
           /\ \A b : In(<<x>>, b) <=> x.start <= b /\ b <= x.end
  <1>1. <<x>> \in Seq(Regions) /\ Len(<<x>>) = 1 /\ <<x>>[1] = x
    OBVIOUS
  <1>2. \A r \in 1..1 : r = 1
    OBVIOUS
  <1>3. \A r, s \in 1..1 : ~(r < s)
    OBVIOUS
  <1> DEFINE l == <<x>>
  <1>4. l \in Seq(Regions) /\ Len(l) = 1 /\ l[1] = x
    BY <1>1
  <1> HIDE DEF l
  <1>5. Apart(l)
    BY <1>2, <1>3, <1>4 DEF Apart
  <1>6. \A b : In(l, b) <=> x.start <= b /\ b <= x.end
    BY <1>2, <1>4 DEF In
  <1> QED
    BY <1>4, <1>5, <1>6 DEF l

LEMMA NoneApart ==
    /\ <<>> \in Seq(Regions) /\ Len(<<>>) = 0 /\ Apart(<<>>)
    /\ \A b : ~In(<<>>, b)
  <1>1. <<>> \in Seq(Regions) /\ Len(<<>>) = 0
    OBVIOUS
  <1>2. \A r \in 1..0 : FALSE
    OBVIOUS
  <1> QED
    BY <1>1, <1>2 DEF Apart, In

\* Regions lie where their bytes lie.
LEMMA BoundsOf ==
    ASSUME NEW list \in Seq(Regions), Apart(list), NEW lo \in Nat, NEW hi \in Nat,
           \A b \in Nat : In(list, b) => lo <= b /\ b <= hi
    PROVE  \A s \in 1..Len(list) : lo <= list[s].start /\ list[s].end <= hi
  <1> SUFFICES ASSUME NEW s \in 1..Len(list)
               PROVE  lo <= list[s].start /\ list[s].end <= hi
    OBVIOUS
  <1>1. list[s].start \in Nat /\ list[s].end \in Nat /\ list[s].start <= list[s].end
    BY RegionsOf DEF Apart
  <1>2. In(list, list[s].start) /\ In(list, list[s].end)
    BY <1>1 DEF In
  <1> QED
    BY <1>1, <1>2

\* What Cut leaves is the list without the range.
LEMMA CutApart ==
    ASSUME NEW list \in Seq(Regions), Apart(list), NEW r \in 1..Len(list),
           NEW a \in Nat, NEW e \in Nat,
           list[r].start <= a, a <= e, e <= list[r].end
    PROVE  LET l == Cut(list, r, [start |-> a, end |-> e])
           IN  /\ l \in Seq(Regions) /\ Apart(l)
               /\ \A b \in Nat : In(l, b) <=> In(list, b) /\ ~(a <= b /\ b <= e)
  <1> DEFINE x == list[r]
             n == Len(list)
             front == IF x.start < a THEN <<[x EXCEPT !.end = a - 1]>> ELSE <<>>
             behind == IF e < x.end THEN <<[x EXCEPT !.start = e + 1]>> ELSE <<>>
             mid == front \o behind
             l == SubSeq(list, 1, r - 1) \o mid \o SubSeq(list, r + 1, n)
  <1>1. /\ n \in Nat /\ r \in Nat /\ x \in Regions /\ x.start \in Nat /\ x.end \in Nat
        /\ \A k \in 1..n : list[k].start \in Nat /\ list[k].end \in Nat
    BY RegionsOf
  <1>2. l = Cut(list, r, [start |-> a, end |-> e])
    BY DEF Cut
  <1>3. /\ front \in Seq(Regions) /\ Apart(front)
        /\ \A b \in Nat : In(front, b) <=> x.start <= b /\ b < a
    <2> HIDE DEF x
    <2>1. CASE x.start < a
      <3> DEFINE y == [x EXCEPT !.end = a - 1]
      <3>1. y \in Regions /\ y.start = x.start /\ y.end = a - 1
        <4>1. x \in Regions /\ a - 1 \in Nat
          BY <1>1, <2>1
        <4> QED
          BY <4>1 DEF Regions
      <3>2. front = <<y>>
        BY <2>1
      <3> HIDE DEF y, front
      <3>3. y.start <= y.end
        BY <1>1, <2>1, <3>1
      <3>4. /\ <<y>> \in Seq(Regions) /\ Apart(<<y>>)
            /\ \A b : In(<<y>>, b) <=> y.start <= b /\ b <= y.end
        BY <3>1, <3>3, OneApart
      <3>5. \A b \in Nat : b <= a - 1 <=> b < a
        OBVIOUS
      <3> QED
        BY <3>1, <3>2, <3>4, <3>5
    <2>2. CASE ~(x.start < a)
      <3>1. front = <<>>
        BY <2>2
      <3>2. \A b \in Nat : ~(x.start <= b /\ b < a)
        BY <1>1, <2>2
      <3> HIDE DEF front
      <3> QED
        BY <3>1, <3>2, NoneApart
    <2> QED
      BY <2>1, <2>2
  <1>4. /\ behind \in Seq(Regions) /\ Apart(behind)
        /\ \A b \in Nat : In(behind, b) <=> e < b /\ b <= x.end
    <2> HIDE DEF x
    <2>1. CASE e < x.end
      <3> DEFINE y == [x EXCEPT !.start = e + 1]
      <3>1. y \in Regions /\ y.start = e + 1 /\ y.end = x.end
        <4>1. x \in Regions /\ e + 1 \in Nat
          BY <1>1
        <4> QED
          BY <4>1 DEF Regions
      <3>2. behind = <<y>>
        BY <2>1
      <3> HIDE DEF y, behind
      <3>3. y.start <= y.end
        BY <1>1, <2>1, <3>1
      <3>4. /\ <<y>> \in Seq(Regions) /\ Apart(<<y>>)
            /\ \A b : In(<<y>>, b) <=> y.start <= b /\ b <= y.end
        BY <3>1, <3>3, OneApart
      <3>5. \A b \in Nat : e + 1 <= b <=> e < b
        OBVIOUS
      <3> QED
        BY <3>1, <3>2, <3>4, <3>5
    <2>2. CASE ~(e < x.end)
      <3>1. behind = <<>>
        BY <2>2
      <3>2. \A b \in Nat : ~(e < b /\ b <= x.end)
        BY <1>1, <2>2
      <3> HIDE DEF behind
      <3> QED
        BY <3>1, <3>2, NoneApart
    <2> QED
      BY <2>1, <2>2
  <1> HIDE DEF front, behind
  <1>5. \A i \in 1..Len(front), k \in 1..Len(behind) : front[i].end + 1 < behind[k].start
    <2> SUFFICES ASSUME NEW i \in 1..Len(front), NEW k \in 1..Len(behind)
                 PROVE  front[i].end + 1 < behind[k].start
      OBVIOUS
    <2>1. /\ front[i].end \in Nat /\ behind[k].start \in Nat
          /\ front[i].start <= front[i].end /\ behind[k].start <= behind[k].end
      BY <1>3, <1>4, RegionsOf DEF Apart
    <2>2. In(front, front[i].end) /\ In(behind, behind[k].start)
      <3>1. /\ front[i].start <= front[i].end /\ front[i].end <= front[i].end
            /\ behind[k].start <= behind[k].start /\ behind[k].start <= behind[k].end
        BY <2>1
      <3> QED
        BY <3>1 DEF In
    <2>3. front[i].end < a /\ e < behind[k].start
      BY <1>3, <1>4, <2>1, <2>2
    <2> QED
      BY <2>1, <2>3
  <1>6. /\ mid \in Seq(Regions) /\ Apart(mid)
        /\ \A b \in Nat : In(mid, b) <=> In(front, b) \/ In(behind, b)
    BY <1>3, <1>4, <1>5, ConcatApart
  <1> HIDE DEF mid
  <1>7. \A b \in Nat : In(mid, b) <=> x.start <= b /\ b <= x.end /\ ~(a <= b /\ b <= e)
    BY <1>1, <1>3, <1>4, <1>6
  <1>8. \A s \in 1..Len(mid) : x.start <= mid[s].start /\ mid[s].end <= x.end
    <2>1. \A b \in Nat : In(mid, b) => x.start <= b /\ b <= x.end
      BY <1>7
    <2> HIDE DEF x
    <2> QED
      BY <1>1, <1>6, <2>1, BoundsOf
  <1>9. /\ \A k \in 1..(r - 1), s \in 1..Len(mid) : list[k].end + 1 < mid[s].start
        /\ \A k \in (r + 1)..n, s \in 1..Len(mid) : mid[s].end + 1 < list[k].start
    <2>1. \A s \in 1..Len(mid) : mid[s].start \in Nat /\ mid[s].end \in Nat
      BY <1>6, RegionsOf
    <2>2. ASSUME NEW k \in 1..(r - 1)
          PROVE  k \in 1..n /\ list[k].end + 1 < x.start /\ list[k].end \in Nat
      <3>1. k \in 1..n /\ k < r
        BY <1>1
      <3> QED
        BY <1>1, <3>1 DEF Apart
    <2>3. ASSUME NEW k \in (r + 1)..n
          PROVE  k \in 1..n /\ x.end + 1 < list[k].start /\ list[k].start \in Nat
      <3>1. k \in 1..n /\ r < k
        BY <1>1
      <3> QED
        BY <1>1, <3>1 DEF Apart
    <2>4. x.start \in Nat /\ x.end \in Nat
      BY <1>1
    <2> HIDE DEF x
    <2>5. ASSUME NEW k \in 1..(r - 1), NEW s \in 1..Len(mid)
          PROVE  list[k].end + 1 < mid[s].start
      <3>1. list[k].end + 1 < x.start /\ x.start <= mid[s].start
        BY <1>8, <2>2
      <3> QED
        BY <2>1, <2>2, <2>4, <3>1, GapBelow
    <2>6. ASSUME NEW k \in (r + 1)..n, NEW s \in 1..Len(mid)
          PROVE  mid[s].end + 1 < list[k].start
      <3>1. x.end + 1 < list[k].start /\ mid[s].end <= x.end
        BY <1>8, <2>3
      <3>2. mid[s].end \in Nat /\ list[k].start \in Nat /\ x.end \in Nat
        BY <2>1, <2>3, <2>4
      <3> HIDE DEF mid
      <3> QED
        BY <3>1, <3>2, GapAbove
    <2> QED
      BY <2>5, <2>6
  <1>10. /\ l \in Seq(Regions) /\ Apart(l)
         /\ \A b \in Nat : In(l, b) <=>
                    \/ In(mid, b)
                    \/ \E k \in 1..Len(list) : (k <= r - 1 \/ r + 1 <= k)
                         /\ list[k].start <= b /\ b <= list[k].end
    <2>1. r - 1 \in Nat /\ r + 1 \in Nat /\ r - 1 < r + 1 /\ r + 1 <= Len(list) + 1
      BY <1>1
    <2> QED
      BY <1>6, <1>9, <2>1, SpliceApart
  <1>11. ASSUME NEW b \in Nat
         PROVE  In(l, b) <=> In(list, b) /\ ~(a <= b /\ b <= e)
    <2>1. \A k \in 1..n : (k <= r - 1 \/ r + 1 <= k) <=> k # r
      BY <1>1
    <2>2. \A k \in 1..n : k # r /\ list[k].start <= b /\ b <= list[k].end
                          => ~(x.start <= b /\ b <= x.end)
      <3> SUFFICES ASSUME NEW k \in 1..n, k # r,
                          list[k].start <= b, b <= list[k].end
                   PROVE  ~(x.start <= b /\ b <= x.end)
        OBVIOUS
      <3>1. CASE k < r
        <4>1. list[k].end + 1 < x.start
          BY <3>1 DEF Apart
        <4> QED
          BY <1>1, <4>1
      <3>2. CASE r < k
        <4>1. x.end + 1 < list[k].start
          BY <3>2 DEF Apart
        <4> QED
          BY <1>1, <4>1
      <3> QED
        BY <1>1, <3>1, <3>2
    <2>3. a <= b /\ b <= e => x.start <= b /\ b <= x.end
      BY <1>1
    <2>4. In(list, b) <=> \/ x.start <= b /\ b <= x.end
                          \/ \E k \in 1..n : k # r /\ list[k].start <= b /\ b <= list[k].end
      BY DEF In
    <2>5. In(l, b) <=> \/ In(mid, b)
                       \/ \E k \in 1..n : k # r /\ list[k].start <= b /\ b <= list[k].end
      BY <1>10, <2>1
    <2> HIDE DEF l, x
    <2> QED
      BY <1>7, <2>2, <2>3, <2>4, <2>5
  <1> HIDE DEF l
  <1> QED
    BY <1>2, <1>10, <1>11

LEMMA FromPlace ==
    ASSUME NEW list \in Seq(Regions), NEW a \in Nat
    PROVE  /\ From(list, a) \in 1..(Len(list) + 1)
           /\ \A k \in 1..Len(list) : k < From(list, a) => list[k].end < a
           /\ From(list, a) <= Len(list) => list[From(list, a)].end >= a
  <1> DEFINE I == {k \in 1..Len(list) : list[k].end >= a}
             next == IF I # {} THEN Min(I) ELSE 0
             r == IF next = 0 THEN Len(list) + 1 ELSE next
  <1>1. Len(list) \in Nat /\ \A k \in 1..Len(list) : list[k].end \in Nat
    BY RegionsOf
  <1>2. From(list, a) = r
    BY DEF From, SelectInSeq
  <1>3. CASE I = {}
    <2>1. r = Len(list) + 1
      BY <1>3
    <2> HIDE DEF r
    <2> QED
      BY <1>1, <1>2, <1>3, <2>1
  <1>4. CASE I # {}
    <2>1. I \in SUBSET Nat
      OBVIOUS
    <2>2. next \in I /\ \A i \in I : next <= i
      <3> HIDE DEF I
      <3> QED
        BY <1>4, <2>1, LeastExists
    <2>3. next \in 1..Len(list) /\ list[next].end >= a
          /\ \A k \in 1..Len(list) : k < next => ~(list[k].end >= a)
      <3> HIDE DEF next
      <3> QED
        BY <1>1, <2>2
    <2> HIDE DEF next
    <2>4. r = next
      BY <2>3
    <2> HIDE DEF r
    <2> QED
      BY <1>1, <1>2, <2>3, <2>4
  <1> QED
    BY <1>3, <1>4

\* What Join gives is the list with the range, which was not in it.
LEMMA JoinApart ==
    ASSUME NEW list \in Seq(Regions), Apart(list), NEW a \in Nat, NEW e \in Nat, a <= e,
           \A b \in Nat : a <= b /\ b <= e => ~In(list, b)
    PROVE  LET l == Join(list, [start |-> a, end |-> e])
           IN  /\ l \in Seq(Regions) /\ Apart(l)
               /\ \A b \in Nat : In(l, b) <=> In(list, b) \/ (a <= b /\ b <= e)
  <1> DEFINE n == Len(list)
             r == From(list, a)
             behind == r <= n /\ list[r].start = e + 1
             front == r > 1 /\ list[r - 1].end + 1 >= a
             js == IF front THEN list[r - 1].start ELSE a
             je == IF behind THEN list[r].end ELSE e
             joined == [start |-> js, end |-> je]
             p == IF front THEN r - 2 ELSE r - 1
             q == IF behind THEN r + 1 ELSE r
             l == SubSeq(list, 1, p) \o <<joined>> \o SubSeq(list, q, n)
  <1>1. l = Join(list, [start |-> a, end |-> e])
    BY DEF Join
  <1>2. /\ n \in Nat
        /\ \A k \in 1..n : /\ list[k].start \in Nat /\ list[k].end \in Nat
                           /\ list[k].start <= list[k].end
    BY RegionsOf DEF Apart
  <1>3. /\ r \in 1..(n + 1)
        /\ \A k \in 1..n : k < r => list[k].end < a
        /\ r <= n => list[r].end >= a
    BY FromPlace
  <1> HIDE DEF r
  <1>4. ASSUME NEW k \in 1..n, r <= k
        PROVE  list[k].start > e
    <2>1. ASSUME list[r].start <= e
          PROVE  FALSE
      <3> DEFINE b == IF list[r].start >= a THEN list[r].start ELSE a
      <3>1. r \in 1..n /\ list[r].start \in Nat
        BY <1>2, <1>3, <1>4
      <3>2. b \in Nat /\ a <= b /\ b <= e /\ list[r].start <= b /\ b <= list[r].end
        BY <1>2, <1>3, <2>1, <3>1
      <3> HIDE DEF b
      <3>3. In(list, b)
        BY <3>1, <3>2 DEF In
      <3> QED
        BY <3>2, <3>3
    <2>2. r \in 1..n /\ list[r].start > e
      BY <1>2, <1>3, <1>4, <2>1
    <2>3. r < k => list[r].end + 1 < list[k].start
      BY <2>2 DEF Apart
    <2> QED
      BY <1>2, <1>4, <2>2, <2>3
  <1>5. ASSUME front
        PROVE  r - 1 \in 1..n /\ list[r - 1].end = a - 1 /\ js = list[r - 1].start /\ p = r - 2
    <2>1. r - 1 \in 1..n /\ r - 1 < r
      BY <1>2, <1>3, <1>5
    <2> QED
      BY <1>2, <1>3, <1>5, <2>1
  <1>6. ASSUME behind
        PROVE  r \in 1..n /\ list[r].start = e + 1 /\ je = list[r].end /\ q = r + 1
    BY <1>2, <1>3, <1>6
  <1>7. ASSUME ~front
        PROVE  js = a /\ p = r - 1 /\ \A k \in 1..n : k < r => list[k].end + 1 < a
    <2>1. js = a /\ p = r - 1
      BY <1>7
    <2>2. ASSUME NEW k \in 1..n, k < r
          PROVE  list[k].end + 1 < a
      <3>1. r - 1 \in 1..n /\ r > 1
        BY <1>2, <1>3, <2>2
      <3>2. list[r - 1].end + 1 < a
        BY <1>2, <1>7, <3>1
      <3>3. CASE k = r - 1
        BY <3>2, <3>3
      <3>4. CASE k # r - 1
        <4>1. k < r - 1
          BY <2>2, <1>3, <3>4
        <4>2. list[k].end + 1 < list[r - 1].start
          BY <3>1, <4>1 DEF Apart
        <4>3. /\ list[k].end \in Nat /\ a \in Nat
              /\ list[r - 1].start \in Nat /\ list[r - 1].end \in Nat
              /\ list[r - 1].start <= list[r - 1].end
          BY <1>2, <3>1
        <4> QED
          BY <3>2, <4>2, <4>3, GapAcross
      <3> QED
        BY <3>3, <3>4
    <2> QED
      BY <2>1, <2>2
  <1>8. ASSUME ~behind
        PROVE  je = e /\ q = r /\ \A k \in 1..n : r <= k => e + 1 < list[k].start
    <2>1. je = e /\ q = r
      BY <1>8
    <2>2. ASSUME NEW k \in 1..n, r <= k
          PROVE  e + 1 < list[k].start
      <3>1. r \in 1..n /\ r <= n
        BY <1>2, <1>3, <2>2
      <3>2. e + 1 < list[r].start
        BY <1>2, <1>4, <1>8, <3>1
      <3>3. CASE k = r
        BY <3>2, <3>3
      <3>4. CASE k # r
        <4>1. r < k
          BY <2>2, <1>3, <3>4
        <4>2. list[r].end + 1 < list[k].start
          BY <3>1, <4>1 DEF Apart
        <4>3. /\ list[k].start \in Nat /\ e \in Nat
              /\ list[r].start \in Nat /\ list[r].end \in Nat
              /\ list[r].start <= list[r].end
          BY <1>2, <3>1
        <4> QED
          BY <3>2, <4>2, <4>3, GapAcross
      <3> QED
        BY <3>3, <3>4
    <2> QED
      BY <2>1, <2>2
  <1>9. js \in Nat /\ je \in Nat /\ js <= a /\ e <= je
    <2>1. js \in Nat /\ js <= a
      BY <1>2, <1>5, <1>7
    <2>2. je \in Nat /\ e <= je
      BY <1>2, <1>6, <1>8
    <2> QED
      BY <2>1, <2>2
  <1>10. p \in Nat /\ q \in Nat /\ p < q /\ q <= n + 1
    <2>1. p \in Nat /\ p < r
      BY <1>2, <1>3, <1>5, <1>7
    <2>2. q \in Nat /\ r <= q /\ q <= n + 1
      BY <1>2, <1>3, <1>6, <1>8
    <2> HIDE DEF p, q
    <2> QED
      BY <1>3, <2>1, <2>2
  <1>11. \A k \in 1..p : list[k].end + 1 < js
    <2> SUFFICES ASSUME NEW k \in 1..p
                 PROVE  list[k].end + 1 < js
      OBVIOUS
    <2>1. CASE front
      <3>1. k \in 1..n /\ k < r - 1
        BY <1>2, <1>3, <1>5, <2>1
      <3> QED
        BY <1>5, <2>1, <3>1 DEF Apart
    <2>2. CASE ~front
      <3>1. k \in 1..n /\ k < r
        BY <1>2, <1>3, <1>7, <2>2
      <3> QED
        BY <1>7, <2>2, <3>1
    <2> QED
      BY <2>1, <2>2
  <1>12. \A k \in q..n : je + 1 < list[k].start
    <2> SUFFICES ASSUME NEW k \in q..n
                 PROVE  je + 1 < list[k].start
      OBVIOUS
    <2>1. CASE behind
      <3>1. k \in 1..n /\ r < k
        BY <1>2, <1>3, <1>6, <2>1
      <3> QED
        BY <1>6, <2>1, <3>1 DEF Apart
    <2>2. CASE ~behind
      <3>1. k \in 1..n /\ r <= k
        BY <1>2, <1>3, <1>8, <2>2
      <3> QED
        BY <1>8, <2>2, <3>1
    <2> QED
      BY <2>1, <2>2
  <1>13. /\ \A b \in Nat : js <= b /\ b < a =>
               front /\ list[r - 1].start <= b /\ b <= list[r - 1].end
         /\ \A b \in Nat : e < b /\ b <= je =>
               behind /\ list[r].start <= b /\ b <= list[r].end
    <2>1. ASSUME NEW b \in Nat, js <= b, b < a
          PROVE  front /\ list[r - 1].start <= b /\ b <= list[r - 1].end
      BY <1>2, <1>5, <1>7, <2>1
    <2>2. ASSUME NEW b \in Nat, e < b, b <= je
          PROVE  behind /\ list[r].start <= b /\ b <= list[r].end
      BY <1>2, <1>6, <1>8, <2>2
    <2> QED
      BY <2>1, <2>2
  <1>14. ASSUME NEW k \in 1..n, ~(k <= p \/ q <= k)
         PROVE  js <= list[k].start /\ list[k].end <= je
    <2>1. CASE k < r
      <3>1. front /\ k = r - 1
        BY <1>2, <1>3, <1>5, <1>7, <1>14, <2>1
      <3>2. list[k].end = a - 1 /\ js = list[k].start
        BY <1>5, <3>1
      <3> QED
        BY <1>2, <1>9, <3>2
    <2>2. CASE ~(k < r)
      <3>1. behind /\ k = r
        BY <1>2, <1>3, <1>6, <1>8, <1>14, <2>2
      <3>2. list[k].start = e + 1 /\ je = list[k].end
        BY <1>6, <3>1
      <3> QED
        BY <1>2, <1>9, <3>2
    <2> QED
      BY <2>1, <2>2
  <1> DEFINE mid == <<joined>>
  <1> HIDE DEF p, q, js, je
  <1>15. /\ mid \in Seq(Regions) /\ Apart(mid) /\ Len(mid) = 1 /\ mid[1] = joined
         /\ joined.start = js /\ joined.end = je
         /\ \A b : In(mid, b) <=> js <= b /\ b <= je
    <2>1. joined \in Regions /\ joined.start = js /\ joined.end = je
      BY <1>9 DEF Regions
    <2>2. joined.start <= joined.end
      BY <1>9, <2>1
    <2>3. Len(mid) = 1 /\ mid[1] = joined
      OBVIOUS
    <2> HIDE DEF joined
    <2> QED
      BY <2>1, <2>2, <2>3, OneApart
  <1> HIDE DEF joined, mid
  <1>16. /\ l \in Seq(Regions) /\ Apart(l)
         /\ \A b \in Nat : In(l, b) <=>
                    \/ In(mid, b)
                    \/ \E k \in 1..Len(list) : (k <= p \/ q <= k)
                         /\ list[k].start <= b /\ b <= list[k].end
    <2>1. /\ \A k \in 1..p, s \in 1..Len(mid) : list[k].end + 1 < mid[s].start
          /\ \A k \in q..Len(list), s \in 1..Len(mid) : mid[s].end + 1 < list[k].start
      <3>1. \A s \in 1..Len(mid) : mid[s].start = js /\ mid[s].end = je
        BY <1>15
      <3> QED
        BY <1>11, <1>12, <3>1
    <2>2. LET x == SubSeq(list, 1, p) \o mid \o SubSeq(list, q, Len(list))
          IN  /\ x \in Seq(Regions) /\ Apart(x)
              /\ \A b \in Nat : In(x, b) <=>
                    \/ In(mid, b)
                    \/ \E k \in 1..Len(list) : (k <= p \/ q <= k)
                         /\ list[k].start <= b /\ b <= list[k].end
      BY <1>10, <1>15, <2>1, SpliceApart
    <2>3. l = SubSeq(list, 1, p) \o mid \o SubSeq(list, q, Len(list))
      BY DEF mid
    <2> HIDE DEF l
    <2> QED
      BY <2>2, <2>3
  <1> HIDE DEF l
  <1>17. ASSUME NEW b \in Nat
         PROVE  In(l, b) <=> In(list, b) \/ (a <= b /\ b <= e)
    <2>1. ASSUME In(mid, b)
          PROVE  In(list, b) \/ (a <= b /\ b <= e)
      <3>1. js <= b /\ b <= je
        BY <1>15, <2>1
      <3>2. CASE b < a
        <4>1. front /\ list[r - 1].start <= b /\ b <= list[r - 1].end
          BY <1>13, <3>1, <3>2
        <4>2. r - 1 \in 1..n
          BY <1>5, <4>1
        <4> QED
          BY <4>1, <4>2 DEF In
      <3>3. CASE e < b
        <4>1. behind /\ list[r].start <= b /\ b <= list[r].end
          BY <1>13, <3>1, <3>3
        <4>2. r \in 1..n
          BY <1>6, <4>1
        <4> QED
          BY <4>1, <4>2 DEF In
      <3> QED
        BY <3>2, <3>3
    <2>2. ASSUME In(list, b)
          PROVE  In(l, b)
      <3>1. PICK k \in 1..n : list[k].start <= b /\ b <= list[k].end
        BY <2>2 DEF In
      <3>2. CASE k <= p \/ q <= k
        BY <1>16, <3>1, <3>2
      <3>3. CASE ~(k <= p \/ q <= k)
        <4>1. js <= list[k].start /\ list[k].end <= je
          BY <1>14, <3>3
        <4>2. js <= b /\ b <= je
          BY <1>2, <1>9, <3>1, <4>1
        <4> QED
          BY <1>15, <1>16, <4>2
      <3> QED
        BY <3>2, <3>3
    <2>3. ASSUME a <= b /\ b <= e
          PROVE  In(l, b)
      <3>1. js <= b /\ b <= je
        BY <1>9, <2>3
      <3> QED
        BY <1>15, <1>16, <3>1
    <2>4. In(l, b) => In(mid, b) \/ In(list, b)
      BY <1>16 DEF In
    <2> QED
      BY <2>1, <2>2, <2>3, <2>4
  <1> QED
    BY <1>1, <1>16, <1>17

-----------------------------------------------------------------------------
(* The invariant: the memories are those of the layout, the free list of each *)
(* is in order and inside it, and its other bytes are in use.                *)

Memories == [start : Nat, end : Nat, free : Seq(Regions)]
Within(m, b) == memory[m].start <= b /\ b <= memory[m].end

Mapped ==
    /\ memory \in Seq(Memories)
    /\ \A m \in 1..Len(memory) : \E x \in Layout :
         memory[m].start = x.start /\ memory[m].end = x.start + x.bytes - 1
    /\ \A i, k \in 1..Len(memory) : i # k => memory[i].start # memory[k].start

FreeApart ==
    \A m \in 1..Len(memory) :
        /\ Apart(memory[m].free)
        /\ \A b \in Nat : In(memory[m].free, b) => Within(m, b)

Accounted ==
    /\ used \in SUBSET Nat
    /\ \A b \in used : \E m \in 1..Len(memory) : Within(m, b)
    /\ \A m \in 1..Len(memory) : \A b \in Nat :
         Within(m, b) => (b \in used <=> ~In(memory[m].free, b))

RegionsInv == Mapped /\ FreeApart /\ Accounted

LEMMA MemoriesOf ==
    ASSUME NEW ms \in Seq(Memories)
    PROVE  /\ Len(ms) \in Nat /\ DOMAIN ms = 1..Len(ms)
           /\ \A m \in 1..Len(ms) : /\ ms[m] \in Memories /\ ms[m].start \in Nat
                                    /\ ms[m].end \in Nat /\ ms[m].free \in Seq(Regions)
  <1>1. Len(ms) \in Nat /\ DOMAIN ms = 1..Len(ms)
    BY LenProperties
  <1>2. ASSUME NEW m \in 1..Len(ms)
        PROVE  /\ ms[m] \in Memories /\ ms[m].start \in Nat
               /\ ms[m].end \in Nat /\ ms[m].free \in Seq(Regions)
    <2>1. ms[m] \in Memories
      BY ElementOfSeq
    <2> HIDE DEF Regions
    <2> QED
      BY <2>1 DEF Memories
  <1> QED
    BY <1>1, <1>2

LEMMA LayoutOf ==
    ASSUME NEW x \in Layout
    PROVE  /\ x.start \in Nat /\ x.bytes \in Nat /\ x.bytes > 0
           /\ x = [start |-> x.start, bytes |-> x.bytes]
           /\ \A b \in x.start..(x.start + x.bytes - 1) : b \in Addresses /\ b \in Nat
  <1>1. x \in [start : Nat, bytes : Nat \ {0}]
    BY LayoutAssumption
  <1>2. x.start \in Nat /\ x.bytes \in Nat /\ x.bytes > 0
    BY <1>1
  <1>3. x = [start |-> x.start, bytes |-> x.bytes]
    BY <1>1
  <1>4. \A b \in x.start..(x.start + x.bytes - 1) : b \in Addresses
    BY DEF Addresses
  <1>5. \A b \in x.start..(x.start + x.bytes - 1) : b \in Nat
    BY <1>2
  <1> QED
    BY <1>2, <1>3, <1>4, <1>5

\* No byte is in two memories, and those of a memory are addresses.
LEMMA OneMemory ==
    ASSUME Mapped, NEW i \in 1..Len(memory), NEW b \in Nat, Within(i, b)
    PROVE  /\ b \in Addresses
           /\ \A k \in 1..Len(memory) : Within(k, b) => i = k
  <1>1. PICK x \in Layout : memory[i].start = x.start
                            /\ memory[i].end = x.start + x.bytes - 1
    BY DEF Mapped
  <1>2. x.start <= b /\ b <= x.start + x.bytes - 1 /\ x.start \in Nat /\ x.bytes \in Nat
    BY <1>1, LayoutOf DEF Within
  <1>3. b \in Addresses
    BY <1>2, LayoutOf
  <1>4. ASSUME NEW k \in 1..Len(memory), Within(k, b), i # k
        PROVE  FALSE
    <2>1. PICK y \in Layout : memory[k].start = y.start
                              /\ memory[k].end = y.start + y.bytes - 1
      BY DEF Mapped
    <2>2. y.start <= b /\ b <= y.start + y.bytes - 1 /\ y.start \in Nat /\ y.bytes \in Nat
      BY <1>4, <2>1, LayoutOf DEF Within
    <2>3. x.start # y.start
      BY <1>1, <1>4, <2>1 DEF Mapped
    <2>4. \/ x.start + x.bytes <= y.start
          \/ y.start + y.bytes <= x.start
      BY <2>3, LayoutAssumption
    <2>5. CASE x.start + x.bytes <= y.start
      BY <1>2, <2>2, <2>5
    <2>6. CASE y.start + y.bytes <= x.start
      BY <1>2, <2>2, <2>6
    <2> QED
      BY <2>4, <2>5, <2>6
  <1> QED
    BY <1>3, <1>4

LEMMA FirstOf ==
    ASSUME NEW n \in Nat, NEW I \in SUBSET (1..n)
    PROVE  LET r == IF I # {} THEN Min(I) ELSE 0
           IN  /\ r = 0 <=> I = {}
               /\ r # 0 => r \in I /\ r \in 1..n /\ \A i \in I : r <= i
  <1>1. CASE I = {}
    BY <1>1
  <1>2. CASE I # {}
    <2>1. I \in SUBSET Nat
      OBVIOUS
    <2>2. Min(I) \in I /\ \A i \in I : Min(I) <= i
      BY <1>2, <2>1, LeastExists
    <2>3. Min(I) \in 1..n
      BY <2>2
    <2>4. Min(I) # 0
      BY <2>3
    <2> QED
      BY <1>2, <2>2, <2>3, <2>4
  <1> QED
    BY <1>1, <1>2

LEMMA FindMemoryFinds ==
    ASSUME Mapped, NEW a, NEW n, FindMemory(a, n) # 0
    PROVE  /\ FindMemory(a, n) \in 1..Len(memory)
           /\ memory[FindMemory(a, n)].start <= a
           /\ memory[FindMemory(a, n)].end >= a + n - 1
  <1> DEFINE I == {k \in 1..Len(memory) : memory[k].end >= a + n - 1}
             m == IF I # {} THEN Min(I) ELSE 0
  <1>1. FindMemory(a, n) = IF m # 0 /\ memory[m].start <= a THEN m ELSE 0
    BY DEF FindMemory, SelectInSeq
  <1>2. Len(memory) \in Nat
    BY MemoriesOf DEF Mapped
  <1>3. m # 0 => m \in I
    <2>1. I \in SUBSET (1..Len(memory))
      OBVIOUS
    <2> HIDE DEF I
    <2> QED
      BY <1>2, <2>1, FirstOf
  <1> HIDE DEF m
  <1> QED
    BY <1>1, <1>3

LEMMA FreeChanged ==
    ASSUME RegionsInv, NEW m \in 1..Len(memory), NEW list \in Seq(Regions), Apart(list),
           SetFree(m, list), used' \in SUBSET Nat,
           \A b \in Nat : In(list, b) => Within(m, b),
           \A b \in Nat : Within(m, b) => (b \in used' <=> ~In(list, b)),
           \A b \in Nat : ~Within(m, b) => (b \in used' <=> b \in used)
    PROVE  /\ RegionsInv' /\ Len(memory') = Len(memory)
           /\ \A k \in 1..Len(memory) : \A b : Within(k, b)' <=> Within(k, b)
  <1> DEFINE new == [memory[m] EXCEPT !.free = list]
             n == Len(memory)
  <1>1. n \in Nat /\ memory \in Seq(Memories)
        /\ \A k \in 1..n : memory[k] \in Memories
    BY MemoriesOf DEF RegionsInv, Mapped
  <1>2. /\ new \in Memories /\ new.start = memory[m].start /\ new.end = memory[m].end
        /\ new.free = list
    <2>1. memory[m] \in Memories
      BY <1>1
    <2> HIDE DEF Regions
    <2> QED
      BY <2>1 DEF Memories
  <1>3. memory' = [memory EXCEPT ![m] = new]
    BY DEF SetFree
  <1> HIDE DEF new
  <1>4. /\ memory' \in Seq(Memories) /\ Len(memory') = n
        /\ \A k \in 1..n : memory'[k] = IF k = m THEN new ELSE memory[k]
    BY <1>1, <1>2, <1>3, ExceptSeq
  <1>5. \A k \in 1..n : memory'[k].start = memory[k].start /\ memory'[k].end = memory[k].end
    BY <1>2, <1>4
  <1>6. \A k \in 1..n : \A b : Within(k, b)' <=> Within(k, b)
    BY <1>5 DEF Within
  <1>7. Mapped'
    BY <1>4, <1>5 DEF RegionsInv, Mapped
  <1>8. FreeApart'
    <2>1. ASSUME NEW k \in 1..n
          PROVE  /\ Apart(memory'[k].free)
                 /\ \A b \in Nat : In(memory'[k].free, b) => Within(k, b)
      <3>1. CASE k = m
        <4>1. memory'[k].free = list
          BY <1>2, <1>4, <3>1
        <4> QED
          BY <3>1, <4>1
      <3>2. CASE k # m
        <4>1. memory'[k].free = memory[k].free
          BY <1>4, <3>2
        <4> QED
          BY <4>1 DEF RegionsInv, FreeApart
      <3> QED
        BY <3>1, <3>2
    <2> QED
      BY <1>4, <1>6, <2>1 DEF FreeApart
  <1>9. Accounted'
    <2>1. ASSUME NEW b \in used'
          PROVE  \E k \in 1..n : Within(k, b)
      BY <2>1 DEF RegionsInv, Accounted
    <2>2. ASSUME NEW k \in 1..n, NEW b \in Nat, Within(k, b)
          PROVE  b \in used' <=> ~In(memory'[k].free, b)
      <3>1. CASE k = m
        <4>1. memory'[k].free = list
          BY <1>2, <1>4, <3>1
        <4> QED
          BY <2>2, <3>1, <4>1
      <3>2. CASE k # m
        <4>1. memory'[k].free = memory[k].free
          BY <1>4, <3>2
        <4>2. ~Within(m, b)
          BY <2>2, <3>2, OneMemory DEF RegionsInv
        <4>3. b \in used <=> ~In(memory[k].free, b)
          BY <2>2 DEF RegionsInv, Accounted
        <4> QED
          BY <4>1, <4>2, <4>3
      <3> QED
        BY <3>1, <3>2
    <2> QED
      BY <1>4, <1>6, <2>1, <2>2 DEF Accounted
  <1> QED
    BY <1>4, <1>6, <1>7, <1>8, <1>9 DEF RegionsInv

\* A run of bytes of a free region is taken: by mem_reserve and mem_alloc.
LEMMA TakeRun ==
    ASSUME RegionsInv, NEW m \in 1..Len(memory), NEW r \in 1..Len(memory[m].free),
           NEW a \in Nat, NEW n \in Nat, n > 0,
           memory[m].free[r].start <= a, a + n - 1 <= memory[m].free[r].end,
           SetFree(m, Cut(memory[m].free, r, Region(a, n))),
           used' = used \cup a .. (a + n - 1)
    PROVE  /\ RegionsInv' /\ Len(memory') = Len(memory)
           /\ \A k \in 1..Len(memory) : \A b : Within(k, b)' <=> Within(k, b)
           /\ \A b \in Nat : a <= b /\ b <= a + n - 1 => Within(m, b) /\ b \notin used
  <1> DEFINE free == memory[m].free
             e == a + n - 1
             list == Cut(free, r, [start |-> a, end |-> e])
  <1>1. free \in Seq(Regions) /\ Apart(free)
    BY MemoriesOf DEF RegionsInv, Mapped, FreeApart
  <1>2. e \in Nat /\ a <= e
    OBVIOUS
  <1>3. SetFree(m, list)
    BY DEF Region
  <1> HIDE DEF e
  <1>4. free[r].start <= a /\ e <= free[r].end
    BY DEF e
  <1>0. r \in 1..Len(free)
    OBVIOUS
  <1>5. /\ list \in Seq(Regions) /\ Apart(list)
        /\ \A b \in Nat : In(list, b) <=> In(free, b) /\ ~(a <= b /\ b <= e)
    <2> HIDE DEF free
    <2> QED
      BY <1>0, <1>1, <1>2, <1>4, CutApart
  <1> HIDE DEF list
  <1>6. ASSUME NEW b \in Nat, a <= b, b <= e
        PROVE  In(free, b)
    <2>1. free[r].start \in Nat /\ free[r].end \in Nat
      BY <1>1, RegionsOf
    <2> HIDE DEF free
    <2>2. free[r].start <= b /\ b <= free[r].end
      BY <1>2, <1>4, <1>6, <2>1, AtMost
    <2> QED
      BY <1>0, <2>2, Zenon DEF In
  <1>7. \A b \in Nat : In(free, b) => Within(m, b) /\ b \notin used
    BY DEF RegionsInv, FreeApart, Accounted
  <1>8. \A b \in Nat : Within(m, b) => (b \in used <=> ~In(free, b))
    BY DEF RegionsInv, Accounted
  <1> HIDE DEF free
  <1>9. used' \in SUBSET Nat
        /\ \A b \in Nat : b \in used' <=> b \in used \/ (a <= b /\ b <= e)
    BY <1>2 DEF e, RegionsInv, Accounted
  <1>10. \A b \in Nat : In(list, b) => Within(m, b)
    BY <1>5, <1>7
  <1>11. \A b \in Nat : Within(m, b) => (b \in used' <=> ~In(list, b))
    BY <1>5, <1>8, <1>9
  <1>12. \A b \in Nat : ~Within(m, b) => (b \in used' <=> b \in used)
    BY <1>6, <1>7, <1>9
  <1>13. \A b \in Nat : a <= b /\ b <= e => Within(m, b) /\ b \notin used
    BY <1>6, <1>7
  <1> QED
    BY <1>3, <1>5, <1>9, <1>10, <1>11, <1>12, <1>13, FreeChanged DEF e

\* A run of bytes in use is given back: by mem_free.
LEMMA GiveRun ==
    ASSUME RegionsInv, NEW m \in 1..Len(memory), NEW a \in Nat, NEW n \in Nat, n > 0,
           memory[m].start <= a, memory[m].end >= a + n - 1,
           a .. (a + n - 1) \subseteq used,
           SetFree(m, Join(memory[m].free, Region(a, n))),
           used' = used \ (a .. (a + n - 1))
    PROVE  /\ RegionsInv' /\ Len(memory') = Len(memory)
           /\ \A k \in 1..Len(memory) : \A b : Within(k, b)' <=> Within(k, b)
           /\ \A b \in Nat : a <= b /\ b <= a + n - 1 => Within(m, b)
  <1> DEFINE free == memory[m].free
             e == a + n - 1
             list == Join(free, [start |-> a, end |-> e])
  <1>1. free \in Seq(Regions) /\ Apart(free)
        /\ memory[m].start \in Nat /\ memory[m].end \in Nat
    BY MemoriesOf DEF RegionsInv, Mapped, FreeApart
  <1>2. e \in Nat /\ a <= e
    OBVIOUS
  <1>3. SetFree(m, list)
    BY DEF Region
  <1>4. \A b \in Nat : a <= b /\ b <= e => Within(m, b) /\ b \in used
    BY <1>1 DEF Within
  <1>5. \A b \in Nat : In(free, b) => Within(m, b)
    BY DEF RegionsInv, FreeApart
  <1>6. \A b \in Nat : Within(m, b) => (b \in used <=> ~In(free, b))
    BY DEF RegionsInv, Accounted
  <1>7. used' \in SUBSET Nat
        /\ \A b \in Nat : b \in used' <=> b \in used /\ ~(a <= b /\ b <= e)
    BY DEF RegionsInv, Accounted
  <1>8. \A b \in Nat : a <= b /\ b <= e => ~In(free, b)
    BY <1>4, <1>6
  <1> HIDE DEF e, free
  <1>9. /\ list \in Seq(Regions) /\ Apart(list)
        /\ \A b \in Nat : In(list, b) <=> In(free, b) \/ (a <= b /\ b <= e)
    BY <1>1, <1>2, <1>8, JoinApart
  <1> HIDE DEF list
  <1>10. \A b \in Nat : In(list, b) => Within(m, b)
    BY <1>4, <1>5, <1>9
  <1>11. \A b \in Nat : Within(m, b) => (b \in used' <=> ~In(list, b))
    BY <1>6, <1>7, <1>9
  <1>12. \A b \in Nat : ~Within(m, b) => (b \in used' <=> b \in used)
    BY <1>4, <1>7
  <1>13. \A b \in Nat : a <= b /\ b <= e => Within(m, b)
    BY <1>4
  <1> QED
    BY <1>3, <1>7, <1>9, <1>10, <1>11, <1>12, <1>13, FreeChanged DEF e

\* The memories before and after the place k of a new one.
Inserted(l, list, k, x) ==
    /\ l \in Seq(Memories)
    /\ DOMAIN l = 1..(Len(list) + 1)
    /\ \A i \in 1..(Len(list) + 1) :
          l[i] = IF i < k THEN list[i] ELSE IF i = k THEN x ELSE list[i - 1]

LEMMA InsertMemory ==
    ASSUME NEW list \in Seq(Memories), NEW x \in Memories, NEW k \in 1..(Len(list) + 1)
    PROVE  Inserted(InsertAt(list, k, x), list, k, x)
  <1> DEFINE l == InsertAt(list, k, x)
  <1>1. l \in Seq(Memories)
    BY InsertAtValue
  <1>2. DOMAIN l = 1..(Len(list) + 1)
    BY InsertAtValue
  <1>3. \A i \in 1..(Len(list) + 1) :
          l[i] = IF i < k THEN list[i] ELSE IF i = k THEN x ELSE list[i - 1]
    BY InsertAtValue
  <1> HIDE DEF l
  <1>4. Inserted(l, list, k, x)
    BY <1>1, <1>2, <1>3 DEF Inserted
  <1> QED
    BY <1>4 DEF l

\* mem_init: a memory is put in its place.
LEMMA NewMemory ==
    ASSUME RegionsInv, NEW x \in Layout, MemInit(x.start, x.bytes)
    PROVE  /\ RegionsInv'
           /\ \A b \in Nat : (\E m \in 1..Len(memory') : Within(m, b)')
                <=> \/ \E m \in 1..Len(memory) : Within(m, b)
                    \/ x.start <= b /\ b <= x.start + x.bytes - 1
           /\ \A b \in Nat : x.start <= b /\ b <= x.start + x.bytes - 1 => b \notin used
           /\ \A m \in 1..Len(memory), b \in Nat :
                x.start <= b /\ b <= x.start + x.bytes - 1 => ~Within(m, b)
  <1> DEFINE a == x.start
             e == x.start + x.bytes - 1
             n == Len(memory)
             I == {k \in 1..n : memory[k].start >= a}
             next == IF I # {} THEN Min(I) ELSE 0
             place == IF next = 0 THEN n + 1 ELSE next
             whole == <<Region(a, x.bytes)>>
             new == [start |-> a, end |-> e, free |-> whole]
             old(i) == IF i < place THEN i ELSE i - 1
  <1>1. a \in Nat /\ e \in Nat /\ a <= e /\ n \in Nat /\ memory \in Seq(Memories)
    <2>1. a \in Nat /\ x.bytes \in Nat /\ x.bytes > 0
      BY LayoutOf
    <2>2. memory \in Seq(Memories)
      BY DEF RegionsInv, Mapped
    <2> QED
      BY <2>1, <2>2, MemoriesOf
  <1>2. /\ memory' = InsertAt(memory, place, new)
        /\ \A k \in 1..n : memory[k].start # a
        /\ used' = used
    <2>1. DOMAIN memory = 1..n
      BY <1>1, MemoriesOf
    <2>2. memory' = InsertAt(memory, place, new)
      BY DEF MemInit, SelectInSeq
    <2> QED
      BY <2>1, <2>2 DEF MemInit
  <1>3. place \in 1..(n + 1)
    <2>1. I \in SUBSET (1..n)
      OBVIOUS
    <2> HIDE DEF I
    <2>2. next # 0 => next \in 1..n
      BY <1>1, <2>1, FirstOf
    <2> HIDE DEF next
    <2> QED
      BY <1>1, <2>2
  <1> HIDE DEF place
  <1>4. /\ whole \in Seq(Regions) /\ Apart(whole)
        /\ \A b : In(whole, b) <=> a <= b /\ b <= e
    <2> DEFINE y == Region(a, x.bytes)
    <2>1. y \in Regions /\ y.start = a /\ y.end = e
      BY <1>1 DEF Region, Regions
    <2> HIDE DEF y
    <2>2. y.start <= y.end
      BY <1>1, <2>1
    <2>3. /\ <<y>> \in Seq(Regions) /\ Apart(<<y>>)
          /\ \A b : In(<<y>>, b) <=> y.start <= b /\ b <= y.end
      BY <2>1, <2>2, OneApart
    <2> QED
      BY <2>1, <2>3 DEF y
  <1> HIDE DEF whole
  <1>5. new \in Memories /\ new.start = a /\ new.end = e /\ new.free = whole
    BY <1>1, <1>4 DEF Memories
  <1> HIDE DEF new
  <1>6. /\ memory' \in Seq(Memories) /\ Len(memory') = n + 1
        /\ \A i \in 1..(n + 1) :
             memory'[i] = IF i < place THEN memory[i]
                          ELSE IF i = place THEN new ELSE memory[i - 1]
    <2>1. /\ memory' \in Seq(Memories) /\ DOMAIN memory' = 1..(n + 1)
          /\ \A i \in 1..(n + 1) :
             memory'[i] = IF i < place THEN memory[i]
                          ELSE IF i = place THEN new ELSE memory[i - 1]
      <3>1. place \in 1..(Len(memory) + 1)
        BY <1>3 DEF n
      <3>2. memory \in Seq(Memories) /\ new \in Memories
        BY <1>1, <1>5
      <3>3. Inserted(InsertAt(memory, place, new), memory, place, new)
        <4> HIDE DEF n, a, e, I, next
        <4> QED
          BY <3>1, <3>2, InsertMemory
      <3>4. Inserted(memory', memory, place, new)
        BY <1>2, <3>3
      <3> QED
        BY <3>4 DEF Inserted, n
    <2>2. Len(memory') \in Nat /\ DOMAIN memory' = 1..Len(memory')
      BY <2>1, MemoriesOf
    <2>3. Len(memory') = n + 1
      BY <1>1, <2>1, <2>2
    <2> QED
      BY <2>1, <2>3
  <1>7. ASSUME NEW i \in 1..(n + 1), i # place
        PROVE  old(i) \in 1..n /\ memory'[i] = memory[old(i)]
    BY <1>1, <1>3, <1>6, <1>7
  <1>8. \A i, k \in 1..(n + 1) : i # k /\ i # place /\ k # place => old(i) # old(k)
    BY <1>1, <1>3
  <1>9. \A k \in 1..n : \E i \in 1..(n + 1) : i # place /\ memory'[i] = memory[k]
    <2> SUFFICES ASSUME NEW k \in 1..n
                 PROVE  \E i \in 1..(n + 1) : i # place /\ memory'[i] = memory[k]
      OBVIOUS
    <2>1. CASE k < place
      <3>1. k \in 1..(n + 1) /\ k # place /\ memory'[k] = memory[k]
        BY <1>1, <1>3, <1>6, <2>1
      <3> QED
        BY <3>1
    <2>2. CASE ~(k < place)
      <3>1. /\ k + 1 \in 1..(n + 1) /\ k + 1 # place /\ ~(k + 1 < place)
            /\ (k + 1) - 1 = k
        BY <1>1, <1>3, <2>2
      <3>2. memory'[k + 1] = memory[k]
        BY <1>6, <3>1
      <3> QED
        BY <3>1, <3>2
    <2> QED
      BY <2>1, <2>2
  <1>10. memory'[place] = new /\ place \in 1..(n + 1)
    BY <1>3, <1>6
  <1>11. ASSUME NEW k \in 1..n, NEW b \in Nat, a <= b, b <= e
         PROVE  ~Within(k, b)
    <2>1. PICK y \in Layout : memory[k].start = y.start
                              /\ memory[k].end = y.start + y.bytes - 1
      BY DEF RegionsInv, Mapped
    <2>2. y.start \in Nat /\ y.bytes \in Nat /\ x.start \in Nat /\ x.bytes \in Nat
      BY LayoutOf
    <2>3. x # y
      BY <1>2, <2>1
    <2>4. \/ x.start + x.bytes <= y.start
          \/ y.start + y.bytes <= x.start
      BY <2>3, LayoutAssumption
    <2>5. CASE x.start + x.bytes <= y.start
      <3>1. b < y.start
        BY <1>11, <2>2, <2>5
      <3> QED
        BY <2>1, <2>2, <3>1 DEF Within
    <2>6. CASE y.start + y.bytes <= x.start
      <3>1. ~(b <= y.start + y.bytes - 1)
        BY <1>11, <2>2, <2>6
      <3> QED
        BY <2>1, <3>1 DEF Within
    <2> QED
      BY <2>4, <2>5, <2>6
  <1> HIDE DEF old
  <1>12. ASSUME NEW i \in 1..(n + 1)
         PROVE  /\ i = place => \A b : Within(i, b)' <=> a <= b /\ b <= e
                /\ i # place => \A b : Within(i, b)' <=> Within(old(i), b)
    BY <1>5, <1>7, <1>10 DEF Within
  <1>13. Mapped'
    <2>1. ASSUME NEW i \in 1..(n + 1)
          PROVE  \E y \in Layout : memory'[i].start = y.start
                                   /\ memory'[i].end = y.start + y.bytes - 1
      <3>1. CASE i = place
        BY <1>5, <1>10, <3>1
      <3>2. CASE i # place
        BY <1>7, <3>2 DEF RegionsInv, Mapped
      <3> QED
        BY <3>1, <3>2
    <2>2. ASSUME NEW i \in 1..(n + 1), NEW k \in 1..(n + 1), i # k
          PROVE  memory'[i].start # memory'[k].start
      <3>1. CASE i = place
        <4>1. k # place /\ memory'[i].start = a
          BY <1>5, <1>10, <2>2, <3>1
        <4> QED
          BY <1>2, <1>7, <4>1
      <3>2. CASE k = place
        <4>1. i # place /\ memory'[k].start = a
          BY <1>5, <1>10, <2>2, <3>2
        <4> QED
          BY <1>2, <1>7, <4>1
      <3>3. CASE i # place /\ k # place
        <4>1. old(i) \in 1..n /\ old(k) \in 1..n /\ old(i) # old(k)
          BY <1>7, <1>8, <2>2, <3>3
        <4> QED
          BY <1>7, <3>3, <4>1 DEF RegionsInv, Mapped
      <3> QED
        BY <3>1, <3>2, <3>3
    <2> QED
      BY <1>6, <2>1, <2>2 DEF Mapped
  <1>14. FreeApart'
    <2>1. ASSUME NEW i \in 1..(n + 1)
          PROVE  /\ Apart(memory'[i].free)
                 /\ \A b \in Nat : In(memory'[i].free, b) => Within(i, b)'
      <3>1. CASE i = place
        <4>1. memory'[i].free = whole
          BY <1>5, <1>10, <3>1
        <4> QED
          BY <1>4, <1>12, <3>1, <4>1
      <3>2. CASE i # place
        <4>1. old(i) \in 1..n /\ memory'[i].free = memory[old(i)].free
          BY <1>7, <3>2
        <4> QED
          BY <1>12, <3>2, <4>1 DEF RegionsInv, FreeApart
      <3> QED
        BY <3>1, <3>2
    <2> QED
      BY <1>6, <2>1 DEF FreeApart
  <1>15. \A b \in Nat : (\E i \in 1..(n + 1) : Within(i, b)')
            <=> (\E k \in 1..n : Within(k, b)) \/ (a <= b /\ b <= e)
    <2> SUFFICES ASSUME NEW b \in Nat
                 PROVE  (\E i \in 1..(n + 1) : Within(i, b)')
                        <=> (\E k \in 1..n : Within(k, b)) \/ (a <= b /\ b <= e)
      OBVIOUS
    <2>1. ASSUME NEW i \in 1..(n + 1), Within(i, b)'
          PROVE  (\E k \in 1..n : Within(k, b)) \/ (a <= b /\ b <= e)
      <3>1. CASE i = place
        BY <1>12, <2>1, <3>1
      <3>2. CASE i # place
        BY <1>7, <1>12, <2>1, <3>2
      <3> QED
        BY <3>1, <3>2
    <2>2. ASSUME NEW k \in 1..n, Within(k, b)
          PROVE  \E i \in 1..(n + 1) : Within(i, b)'
      <3>1. PICK i \in 1..(n + 1) : memory'[i] = memory[k]
        BY <1>9
      <3> QED
        BY <2>2, <3>1 DEF Within
    <2>3. ASSUME a <= b, b <= e
          PROVE  \E i \in 1..(n + 1) : Within(i, b)'
      BY <1>10, <1>12, <2>3
    <2> QED
      BY <2>1, <2>2, <2>3
  <1>16. \A b \in Nat : a <= b /\ b <= e => b \notin used
    <2> SUFFICES ASSUME NEW b \in Nat, a <= b, b <= e, b \in used
                 PROVE  FALSE
      OBVIOUS
    <2>1. PICK k \in 1..n : Within(k, b)
      BY DEF RegionsInv, Accounted
    <2> QED
      BY <1>11, <2>1
  <1>17. Accounted'
    <2>1. ASSUME NEW b \in used
          PROVE  \E i \in 1..(n + 1) : Within(i, b)'
      <3>1. b \in Nat /\ \E k \in 1..n : Within(k, b)
        BY <2>1 DEF RegionsInv, Accounted
      <3> QED
        BY <1>15, <3>1
    <2>2. ASSUME NEW i \in 1..(n + 1), NEW b \in Nat, Within(i, b)'
          PROVE  b \in used <=> ~In(memory'[i].free, b)
      <3>1. CASE i = place
        <4>1. memory'[i].free = whole /\ a <= b /\ b <= e
          BY <1>5, <1>10, <1>12, <2>2, <3>1
        <4> QED
          BY <1>4, <1>16, <4>1
      <3>2. CASE i # place
        <4>1. old(i) \in 1..n /\ memory'[i].free = memory[old(i)].free
              /\ Within(old(i), b)
          BY <1>7, <1>12, <2>2, <3>2
        <4> QED
          BY <4>1 DEF RegionsInv, Accounted
      <3> QED
        BY <3>1, <3>2
    <2>3. used' \in SUBSET Nat
      BY <1>2 DEF RegionsInv, Accounted
    <2> QED
      BY <1>2, <1>6, <2>1, <2>2, <2>3 DEF Accounted
  <1> QED
    BY <1>6, <1>11, <1>13, <1>14, <1>15, <1>16, <1>17 DEF RegionsInv

-----------------------------------------------------------------------------
LEMMA FreeOfIs ==
    RegionsInv => \A m \in 1..Len(memory) : \A b : b \in FreeOf(m) <=> b \in Nat /\ In(memory[m].free, b)
  <1> SUFFICES ASSUME RegionsInv, NEW m \in 1..Len(memory), NEW b
               PROVE  b \in FreeOf(m) <=> b \in Nat /\ In(memory[m].free, b)
    OBVIOUS
  <1> DEFINE free == memory[m].free
  <1>1. free \in Seq(Regions)
    BY MemoriesOf DEF RegionsInv, Mapped
  <1>2. /\ DOMAIN free = 1..Len(free)
        /\ \A r \in 1..Len(free) : free[r].start \in Nat /\ free[r].end \in Nat
    BY <1>1, RegionsOf
  <1>3. b \in FreeOf(m) <=> \E r \in DOMAIN free : b \in free[r].start..free[r].end
    BY DEF FreeOf, ToSet
  <1> HIDE DEF free
  <1>4. \A r \in 1..Len(free) : b \in free[r].start..free[r].end
            <=> b \in Nat /\ free[r].start <= b /\ b <= free[r].end
    BY <1>2
  <1>5. b \in FreeOf(m) <=> b \in Nat /\ In(free, b)
    BY <1>2, <1>3, <1>4 DEF In
  <1> QED
    BY <1>5 DEF free

\* The free bytes are those of the memories that are not in use.
LEMMA FreeSetIs ==
    RegionsInv => \A b : b \in FreeSet <=>
               b \in Nat /\ b \notin used /\ \E m \in 1..Len(memory) : Within(m, b)
  <1> SUFFICES ASSUME RegionsInv, NEW b
               PROVE  b \in FreeSet <=>
                         b \in Nat /\ b \notin used
                         /\ \E m \in 1..Len(memory) : Within(m, b)
    OBVIOUS
  <1>1. DOMAIN memory = 1..Len(memory)
    BY MemoriesOf DEF RegionsInv, Mapped
  <1>2. b \in FreeSet <=> \E m \in 1..Len(memory) : b \in FreeOf(m)
    BY <1>1 DEF FreeSet
  <1>3. b \in FreeSet <=> b \in Nat /\ \E m \in 1..Len(memory) : In(memory[m].free, b)
    BY <1>2, FreeOfIs
  <1>4. ASSUME b \in Nat, NEW m \in 1..Len(memory)
        PROVE  In(memory[m].free, b) <=> Within(m, b) /\ b \notin used
    BY <1>4 DEF RegionsInv, FreeApart, Accounted
  <1> QED
    BY <1>3, <1>4

LEMMA FreeSetNext ==
    RegionsInv' => \A b : b \in FreeSet' <=>
               b \in Nat /\ b \notin used' /\ \E m \in 1..Len(memory') : Within(m, b)'
  <1> DEFINE Unused == \A b : b \in FreeSet <=>
               b \in Nat /\ b \notin used /\ \E m \in 1..Len(memory) : Within(m, b)
  <1>1. RegionsInv => Unused
    BY FreeSetIs
  <1> HIDE DEF Unused
  <1>2. RegionsInv' => Unused'
    BY <1>1, PTL
  <1> QED
    BY <1>2 DEF Unused

LEMMA TakeKept ==
    ASSUME RegionsInv, NEW m \in 1..Len(memory), NEW r \in 1..Len(memory[m].free),
           NEW a \in Nat, NEW n \in Nat, n > 0,
           memory[m].free[r].start <= a, a + n - 1 <= memory[m].free[r].end,
           SetFree(m, Cut(memory[m].free, r, Region(a, n))),
           used' = used \cup a .. (a + n - 1)
    PROVE  RegionsInv' /\ a \in Addresses /\ Promise!Take(a, n)
  <1>1. /\ RegionsInv' /\ Len(memory') = Len(memory)
        /\ \A k \in 1..Len(memory) : \A b : Within(k, b)' <=> Within(k, b)
        /\ \A b \in Nat : a <= b /\ b <= a + n - 1 => Within(m, b) /\ b \notin used
    BY TakeRun
  <1>2. Within(m, a)
    <2>1. a <= a /\ a <= a + n - 1
      OBVIOUS
    <2> QED
      BY <1>1, <2>1
  <1>3. a \in Addresses
    BY <1>2, OneMemory DEF RegionsInv
  <1>4. \A b : b \in a..(a + n - 1) <=> b \in Nat /\ a <= b /\ b <= a + n - 1
    OBVIOUS
  <1>5. a..(a + n - 1) \subseteq FreeSet
    BY <1>1, <1>4, FreeSetIs
  <1>6. FreeSet' = FreeSet \ (a..(a + n - 1))
    <2>1. ASSUME NEW b
          PROVE  b \in FreeSet' <=> b \in FreeSet /\ b \notin a..(a + n - 1)
      <3>1. (\E k \in 1..Len(memory') : Within(k, b)') <=> \E k \in 1..Len(memory) : Within(k, b)
        BY <1>1
      <3>2. b \in used' <=> b \in used \/ b \in a..(a + n - 1)
        OBVIOUS
      <3> QED
        BY <1>1, <3>1, <3>2, FreeSetIs, FreeSetNext
    <2> QED
      BY <2>1
  <1> QED
    BY <1>1, <1>3, <1>5, <1>6 DEF Promise!Take, Promise!Run

LEMMA ReserveKept ==
    ASSUME RegionsInv, NEW a \in Nat, NEW n \in Nat, n > 0, MemReserve(a, n)
    PROVE  RegionsInv' /\ a \in Addresses /\ Promise!Take(a, n)
  <1> DEFINE m == FindMemory(a, n)
             free == memory[m].free
             I == {k \in 1..Len(free) : free[k].end >= a}
             r == IF I # {} THEN Min(I) ELSE 0
  <1>1. /\ m # 0 /\ r # 0 /\ free[r].start <= a /\ free[r].end >= a + n - 1
        /\ SetFree(m, Cut(free, r, Region(a, n)))
        /\ used' = used \cup a .. (a + n - 1)
    BY DEF MemReserve, SelectInSeq
  <1>2. m \in 1..Len(memory)
    BY <1>1, FindMemoryFinds DEF RegionsInv
  <1> HIDE DEF m
  <1>3. free \in Seq(Regions)
    BY <1>2, MemoriesOf DEF RegionsInv, Mapped
  <1> HIDE DEF free
  <1>4. Len(free) \in Nat /\ \A k \in 1..Len(free) : free[k].start \in Nat /\ free[k].end \in Nat
    BY <1>3, RegionsOf
  <1>5. r \in 1..Len(free)
    <2>1. I \in SUBSET (1..Len(free))
      OBVIOUS
    <2> HIDE DEF I
    <2> QED
      BY <1>1, <1>4, <2>1, FirstOf
  <1> HIDE DEF r
  <1>6. a + n - 1 <= free[r].end
    BY <1>1, <1>4, <1>5
  <1>7. /\ r \in 1..Len(memory[m].free) /\ memory[m].free[r].start <= a
        /\ a + n - 1 <= memory[m].free[r].end
        /\ SetFree(m, Cut(memory[m].free, r, Region(a, n)))
    BY <1>1, <1>5, <1>6 DEF free
  <1> QED
    BY <1>1, <1>2, <1>7, TakeKept

LEMMA AllocKept ==
    ASSUME RegionsInv, NEW m \in 1..Len(memory), NEW n \in Nat, n > 0, MemAlloc(m, n)
    PROVE  \/ UNCHANGED <<memory, used>>
           \/ RegionsInv' /\ result' \in Addresses /\ Promise!Take(result', n)
  <1> DEFINE free == memory[m].free
             I == {k \in 1..Len(free) : free[k].end - free[k].start + 1 >= n}
             r == IF I # {} THEN Min(I) ELSE 0
  <1>1. free \in Seq(Regions)
    BY MemoriesOf DEF RegionsInv, Mapped
  <1>2. IF r = 0 THEN result' = 0 /\ UNCHANGED <<memory, used>>
        ELSE /\ result' = free[r].start
             /\ SetFree(m, Cut(free, r, Region(free[r].start, n)))
             /\ used' = used \cup result' .. (result' + n - 1)
    BY DEF MemAlloc, SelectInSeq
  <1> HIDE DEF free
  <1>3. Len(free) \in Nat /\ \A k \in 1..Len(free) : free[k].start \in Nat /\ free[k].end \in Nat
    BY <1>1, RegionsOf
  <1>4. r # 0 => r \in I
    <2>1. I \in SUBSET (1..Len(free))
      OBVIOUS
    <2> HIDE DEF I
    <2> QED
      BY <1>3, <2>1, FirstOf
  <1>5. r # 0 => r \in 1..Len(free) /\ free[r].end - free[r].start + 1 >= n
    <2> HIDE DEF r
    <2> QED
      BY <1>4
  <1> HIDE DEF r
  <1>6. CASE r = 0
    BY <1>2, <1>6
  <1>7. CASE r # 0
    <2> DEFINE a == free[r].start
    <2>1. /\ r \in 1..Len(free) /\ a \in Nat
          /\ a <= a /\ a + n - 1 <= free[r].end
      BY <1>3, <1>5, <1>7
    <2>2. /\ result' = a /\ SetFree(m, Cut(free, r, Region(a, n)))
          /\ used' = used \cup a .. (a + n - 1)
      BY <1>2, <1>7
    <2>3. /\ r \in 1..Len(memory[m].free)
          /\ memory[m].free[r].start <= a /\ a + n - 1 <= memory[m].free[r].end
          /\ SetFree(m, Cut(memory[m].free, r, Region(a, n)))
      BY <2>1, <2>2 DEF free
    <2> HIDE DEF a
    <2>4. RegionsInv' /\ a \in Addresses /\ Promise!Take(a, n)
      BY <2>1, <2>2, <2>3, TakeKept
    <2> QED
      BY <2>2, <2>4
  <1> QED
    BY <1>6, <1>7

LEMMA FreeKept ==
    ASSUME RegionsInv, NEW a \in Nat, NEW n \in Nat, n > 0, MemFree(a, n)
    PROVE  RegionsInv' /\ Promise!Provide(a, n)
  <1> DEFINE m == FindMemory(a, n)
  <1>1. /\ m # 0 /\ a .. (a + n - 1) \subseteq used
        /\ SetFree(m, Join(memory[m].free, Region(a, n)))
        /\ used' = used \ (a .. (a + n - 1))
    BY DEF MemFree
  <1>2. m \in 1..Len(memory) /\ memory[m].start <= a /\ memory[m].end >= a + n - 1
    BY <1>1, FindMemoryFinds DEF RegionsInv
  <1> HIDE DEF m
  <1>3. /\ RegionsInv' /\ Len(memory') = Len(memory)
        /\ \A k \in 1..Len(memory) : \A b : Within(k, b)' <=> Within(k, b)
        /\ \A b \in Nat : a <= b /\ b <= a + n - 1 => Within(m, b)
    BY <1>1, <1>2, GiveRun
  <1>4. \A b : b \in a..(a + n - 1) <=> b \in Nat /\ a <= b /\ b <= a + n - 1
    OBVIOUS
  <1>5. (a..(a + n - 1)) \cap FreeSet = {}
    BY <1>1, FreeSetIs
  <1>6. FreeSet' = FreeSet \cup a..(a + n - 1)
    <2>1. ASSUME NEW b
          PROVE  b \in FreeSet' <=> b \in FreeSet \/ b \in a..(a + n - 1)
      <3>1. (\E k \in 1..Len(memory') : Within(k, b)') <=> \E k \in 1..Len(memory) : Within(k, b)
        BY <1>3
      <3>2. b \in used' <=> b \in used /\ b \notin a..(a + n - 1)
        BY <1>1
      <3>3. b \in a..(a + n - 1) => b \in Nat /\ \E k \in 1..Len(memory) : Within(k, b)
        BY <1>2, <1>3, <1>4
      <3> QED
        BY <1>3, <3>1, <3>2, <3>3, FreeSetIs, FreeSetNext
    <2> QED
      BY <2>1
  <1> QED
    BY <1>3, <1>5, <1>6 DEF Promise!Provide, Promise!Run

LEMMA InitKept ==
    ASSUME RegionsInv, NEW x \in Layout, MemInit(x.start, x.bytes)
    PROVE  RegionsInv' /\ x.start \in Addresses /\ Promise!Provide(x.start, x.bytes)
  <1> DEFINE a == x.start
             n == x.bytes
             run == a..(a + n - 1)
  <1>1. /\ RegionsInv'
        /\ \A b \in Nat : (\E m \in 1..Len(memory') : Within(m, b)')
                <=> \/ \E m \in 1..Len(memory) : Within(m, b)
                    \/ a <= b /\ b <= a + n - 1
        /\ \A b \in Nat : a <= b /\ b <= a + n - 1 => b \notin used
        /\ \A m \in 1..Len(memory), b \in Nat :
                a <= b /\ b <= a + n - 1 => ~Within(m, b)
    BY NewMemory
  <1>2. a \in Nat /\ n \in Nat /\ n > 0 /\ a \in run /\ a \in Addresses
    <2>1. a \in Nat /\ n \in Nat /\ n > 0
      BY LayoutOf
    <2>2. a \in run
      BY <2>1
    <2> QED
      BY <2>1, <2>2, LayoutOf
  <1>3. \A b : b \in run <=> b \in Nat /\ a <= b /\ b <= a + n - 1
    BY <1>2
  <1>4. used' = used
    BY DEF MemInit
  <1> HIDE DEF run
  <1>5. run \cap FreeSet = {}
    BY <1>1, <1>3, FreeSetIs
  <1>6. FreeSet' = FreeSet \cup run
    <2>1. ASSUME NEW b
          PROVE  b \in FreeSet' <=> b \in FreeSet \/ b \in run
      <3>1. b \in FreeSet' <=> b \in Nat /\ b \notin used
                               /\ \E m \in 1..Len(memory') : Within(m, b)'
        BY <1>1, <1>4, FreeSetNext
      <3>2. b \in FreeSet <=> b \in Nat /\ b \notin used
                              /\ \E m \in 1..Len(memory) : Within(m, b)
        BY FreeSetIs
      <3> QED
        BY <1>1, <1>3, <3>1, <3>2
    <2> QED
      BY <2>1
  <1> QED
    BY <1>1, <1>2, <1>5, <1>6 DEF run, Promise!Provide, Promise!Run

-----------------------------------------------------------------------------
LEMMA StepKept ==
    ASSUME RegionsInv, [Next]_vars
    PROVE  RegionsInv' /\ [Promise!FNext]_FreeSet
  <1> DEFINE PSizes == Sizes \cup {x.bytes : x \in Layout} \cup {ReservedBytes}
  <1>1. ASSUME UNCHANGED <<memory, used>>
        PROVE  RegionsInv' /\ FreeSet' = FreeSet
    BY <1>1 DEF RegionsInv, Mapped, FreeApart, Accounted, Within, FreeSet, FreeOf
  <1>2. ASSUME NEW a \in Addresses, NEW n \in PSizes,
               Promise!Provide(a, n) \/ Promise!Take(a, n)
        PROVE  Promise!FNext
    BY <1>2 DEF Promise!FNext
  <1>3. ASSUME NEW n \in Sizes
        PROVE  n \in Nat /\ n > 0 /\ n \in PSizes
    BY LayoutAssumption
  <1>4. Addresses \subseteq Nat
    BY LayoutOf DEF Addresses
  <1>5. CASE UNCHANGED vars
    BY <1>1, <1>5 DEF vars
  <1>6. ASSUME NEW x \in Layout, MemInit(x.start, x.bytes)
        PROVE  RegionsInv' /\ Promise!FNext
    BY <1>2, <1>6, InitKept
  <1>7. ASSUME MemReserve(0, ReservedBytes)
        PROVE  RegionsInv' /\ Promise!FNext
    <2>1. ReservedBytes \in Nat /\ ReservedBytes > 0 /\ ReservedBytes \in PSizes /\ 0 \in Nat
      BY LayoutAssumption
    <2>2. RegionsInv' /\ 0 \in Addresses /\ Promise!Take(0, ReservedBytes)
      BY <1>7, <2>1, ReserveKept
    <2> QED
      BY <1>2, <2>1, <2>2
  <1>8. ASSUME NEW n \in Sizes, NEW m \in DOMAIN memory, MemAlloc(m, n)
        PROVE  RegionsInv' /\ [Promise!FNext]_FreeSet
    <2>1. m \in 1..Len(memory)
      BY MemoriesOf DEF RegionsInv, Mapped
    <2>2. \/ UNCHANGED <<memory, used>>
          \/ RegionsInv' /\ result' \in Addresses /\ Promise!Take(result', n)
      BY <1>3, <1>8, <2>1, AllocKept
    <2> QED
      BY <1>1, <1>2, <1>3, <2>2
  <1>9. ASSUME NEW n \in Sizes, NEW a \in Addresses, MemFree(a, n)
        PROVE  RegionsInv' /\ Promise!FNext
    <2>1. a \in Nat
      BY <1>4
    <2> QED
      BY <1>2, <1>3, <1>9, <2>1, FreeKept
  <1>10. ASSUME NEW n \in Sizes, NEW a \in Addresses, MemReserve(a, n)
         PROVE  RegionsInv' /\ Promise!FNext
    <2>1. a \in Nat
      BY <1>4
    <2> QED
      BY <1>2, <1>3, <1>10, <2>1, ReserveKept
  <1> HIDE DEF PSizes
  <1> QED
    BY <1>5, <1>6, <1>7, <1>8, <1>9, <1>10 DEF Next

LEMMA InitHolds == Init => RegionsInv /\ FreeSet = {}
  <1> SUFFICES ASSUME Init
               PROVE  RegionsInv /\ FreeSet = {}
    OBVIOUS
  <1>1. memory = <<>> /\ used = {} /\ Len(memory) = 0 /\ memory \in Seq(Memories)
    <2>1. memory = <<>> /\ used = {}
      BY DEF Init
    <2> HIDE DEF Memories
    <2> QED
      BY <2>1
  <1>2. \A m \in 1..Len(memory) : FALSE
    BY <1>1
  <1>3. RegionsInv
    BY <1>1, <1>2 DEF RegionsInv, Mapped, FreeApart, Accounted
  <1> QED
    BY <1>2, <1>3, FreeSetIs

LEMMA MemoryInvariant == Spec => []RegionsInv
  <1>1. RegionsInv /\ [Next]_vars => RegionsInv'
    BY StepKept
  <1> QED
    BY <1>1, InitHolds, PTL DEF Spec

\* The free lists are in order and never touch, no address is both free and in use,
\* and none of the memories' is neither: mem_reserve, mem_alloc and mem_free neither
\* leak memory nor hand it out twice, and mem_free joins.
THEOREM MemoryIsSound == Spec => []FreeListsSound
  <1>1. RegionsInv => FreeListsSound
    <2> SUFFICES ASSUME RegionsInv
                 PROVE  FreeListsSound
      OBVIOUS
    <2>1. /\ DOMAIN memory = 1..Len(memory)
          /\ \A m \in 1..Len(memory) : /\ memory[m].start \in Nat /\ memory[m].end \in Nat
                                       /\ memory[m].free \in Seq(Regions)
      BY MemoriesOf DEF RegionsInv, Mapped
    <2>2. ASSUME NEW m \in 1..Len(memory)
          PROVE  LET free == memory[m].free IN
                   /\ \A r \in DOMAIN free : free[r].start <= free[r].end
                   /\ \A r \in 1..(Len(free) - 1) : free[r].end + 1 < free[r + 1].start
      <3> DEFINE free == memory[m].free
      <3>1. free \in Seq(Regions) /\ Apart(free)
        BY <2>1 DEF RegionsInv, FreeApart
      <3> HIDE DEF free
      <3>2. Len(free) \in Nat /\ DOMAIN free = 1..Len(free)
        BY <3>1, RegionsOf
      <3>3. \A r \in 1..(Len(free) - 1) :
              r \in 1..Len(free) /\ r + 1 \in 1..Len(free) /\ r < r + 1
        BY <3>2
      <3>4. /\ \A r \in DOMAIN free : free[r].start <= free[r].end
            /\ \A r \in 1..(Len(free) - 1) : free[r].end + 1 < free[r + 1].start
        BY <3>1, <3>2, <3>3 DEF Apart
      <3> QED
        BY <3>4 DEF free
    <2>3. FreeSet \cap used = {}
      BY FreeSetIs
    <2>4. FreeSet \cup used = UNION {memory[m].start .. memory[m].end : m \in DOMAIN memory}
      <3>1. ASSUME NEW b
            PROVE  b \in FreeSet \cup used
                   <=> \E m \in DOMAIN memory : b \in memory[m].start .. memory[m].end
        <4>1. b \in FreeSet \cup used <=>
                b \in Nat /\ \E m \in 1..Len(memory) : Within(m, b)
          BY FreeSetIs DEF RegionsInv, Accounted
        <4>2. \A m \in 1..Len(memory) :
                b \in memory[m].start .. memory[m].end <=> b \in Nat /\ Within(m, b)
          BY <2>1 DEF Within
        <4> QED
          BY <2>1, <4>1, <4>2
      <3> QED
        BY <3>1
    <2> QED
      BY <2>1, <2>2, <2>3, <2>4 DEF FreeListsSound
  <1> QED
    BY <1>1, MemoryInvariant, PTL

\* What the lists do to the set of free addresses is what FreeBytes promises.
THEOREM MemoryImplementsFreeBytes == Spec => ImplementsFreeBytes
  <1>1. Init => Promise!FInit
    BY InitHolds DEF Promise!FInit
  <1>2. RegionsInv /\ [Next]_vars => [Promise!FNext]_FreeSet
    BY StepKept
  <1> QED
    BY <1>1, <1>2, MemoryInvariant, PTL DEF Spec, ImplementsFreeBytes, Promise!FSpec

\* A run of free bytes is inside one region, as regions do not touch, so mem_alloc's
\* first fit finds room for it.
THEOREM RefusalsAreFull == Spec => RefusedOnlyWhenFull
  <1>1. RegionsInv /\ [Next]_vars =>
           [\A m \in DOMAIN memory, n \in Sizes :
              MemAlloc(m, n) /\ result' = 0 =>
                \A a \in FreeOf(m) : ~(a .. (a + n - 1) \subseteq FreeOf(m))]_vars
    <2> SUFFICES ASSUME RegionsInv, NEW m \in DOMAIN memory, NEW n \in Sizes,
                        MemAlloc(m, n), result' = 0, NEW a \in FreeOf(m),
                        a .. (a + n - 1) \subseteq FreeOf(m)
                 PROVE  FALSE
      OBVIOUS
    <2> DEFINE free == memory[m].free
               I == {k \in 1..Len(free) : free[k].end - free[k].start + 1 >= n}
               r == IF I # {} THEN Min(I) ELSE 0
    <2>1. m \in 1..Len(memory) /\ n \in Nat /\ n > 0
      BY MemoriesOf, LayoutAssumption DEF RegionsInv, Mapped
    <2>2. /\ Booted
          /\ r # 0 => result' = free[r].start
      BY DEF MemAlloc, SelectInSeq
    <2>3. free \in Seq(Regions) /\ Apart(free)
      BY <2>1, MemoriesOf DEF RegionsInv, Mapped, FreeApart
    <2>4. ~In(free, 0)
      BY <2>1, <2>2 DEF Booted, RegionsInv, FreeApart, Accounted
    <2>5. \A b : b \in FreeOf(m) <=> b \in Nat /\ In(free, b)
      BY <2>1, FreeOfIs
    <2> HIDE DEF free
    <2>6. Len(free) \in Nat /\ \A k \in 1..Len(free) :
            free[k].start \in Nat /\ free[k].end \in Nat /\ free[k].start <= free[k].end
      BY <2>3, RegionsOf DEF Apart
    <2>7. /\ r = 0 <=> I = {}
          /\ r # 0 => r \in 1..Len(free)
      <3>1. I \in SUBSET (1..Len(free))
        OBVIOUS
      <3> HIDE DEF I
      <3> QED
        BY <2>6, <3>1, FirstOf
    <2>8. I = {}
      <3> HIDE DEF r, I
      <3>1. ASSUME r # 0
            PROVE  FALSE
        <4>1. r \in 1..Len(free) /\ free[r].start = 0 /\ free[r].start <= free[r].end
          BY <2>2, <2>6, <2>7, <3>1
        <4>2. In(free, 0)
          BY <4>1 DEF In
        <4> QED
          BY <2>4, <4>2
      <3> QED
        BY <2>7, <3>1
    <2>9. a \in Nat /\ In(free, a)
      BY <2>5
    <2>10. PICK k \in 1..Len(free) : free[k].start <= a /\ a <= free[k].end
      BY <2>9 DEF In
    <2>11. ~(free[k].end - free[k].start + 1 >= n)
      BY <2>8
    <2> HIDE DEF r, I
    <2> DEFINE b == free[k].end + 1
    <2>12. b \in Nat /\ b \in a .. (a + n - 1)
      <3>1. free[k].start \in Nat /\ free[k].end \in Nat
        BY <2>6, <2>10
      <3>2. free[k].end + 1 < free[k].start + n
        <4>1. \A x, y \in Nat : ~(y - x + 1 >= n) => y + 1 < x + n
          BY <2>1
        <4> QED
          BY <2>11, <3>1, <4>1
      <3>3. b \in Nat /\ a <= b
        BY <2>9, <2>10, <3>1
      <3>4. b <= a + n - 1
        BY <2>1, <2>9, <2>10, <3>1, <3>2, <3>3
      <3> HIDE DEF b
      <3> QED
        BY <2>1, <2>9, <3>3, <3>4
    <2>13. In(free, b)
      BY <2>5, <2>12
    <2>14. PICK i \in 1..Len(free) : free[i].start <= b /\ b <= free[i].end
      BY <2>13 DEF In
    <2>15. CASE i = k
      BY <2>6, <2>14, <2>15
    <2>16. CASE i < k
      <3>1. free[i].end + 1 < free[k].start
        BY <2>3, <2>16 DEF Apart
      <3> QED
        BY <2>6, <2>14, <3>1
    <2>17. CASE k < i
      <3>1. free[k].end + 1 < free[i].start
        BY <2>3, <2>17 DEF Apart
      <3> QED
        BY <2>6, <2>14, <3>1
    <2> QED
      BY <2>15, <2>16, <2>17
  <1> QED
    BY <1>1, MemoryInvariant, PTL DEF Spec, RefusedOnlyWhenFull
=============================================================================
