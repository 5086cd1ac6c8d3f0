-------------------------- MODULE AmigaDriveProofs --------------------------
(***************************************************************************)
(* The drive of m68k/amiga/disk.c keeps its head in range and its timers in   *)
(* step with its state, and its DMA counts words exactly, for any travel of   *)
(* the head, any delays, any track and any program that drives it.           *)
(***************************************************************************)
EXTENDS AmigaDrive, ListProofs

Clocks == {"motor", "step", "data"}
Motors == {"off", "spinning_up", "on", "spinning_down"}
Changing == {"spinning_up", "spinning_down"}
Steps == {"none", "in", "out"}

Queue(s) ==
    /\ s \in [active : Seq(Clocks), left : [Clocks -> Int]]
    /\ Once(s.active)

Linked(s) == ToSet(s.active)

\* The head on track t while the drive makes step w, the lines as they are.  A
\* step that was begun inside the limits stays inside them when the side changes.
Placed(t, w, lines) ==
    /\ t \in 0..(StepLimit + 2)
    /\ (t % 2 = 0) <=> ("side" \in lines)
    /\ w = "in" => t <= StepLimit
    /\ w = "out" => t >= 2

DriveTypes ==
    /\ motor \in Motors /\ step \in Steps
    /\ loaded \in BOOLEAN /\ pc \in {"cpu", "fire", "data"} /\ cell \in Int
    /\ Queue(q)

\* What the timers linked in s are to be, given the state of the drive.
Match(s, m, w, l, p) ==
    /\ "motor" \in Linked(s) <=> m \in Changing
    /\ "step" \in Linked(s) <=> w # "none"
    /\ l <=> ("data" \in Linked(s) \/ p = "data")

DriveInv ==
    /\ DriveTypes
    /\ Placed(tracknr, step, prb)
    /\ Match(q, motor, step, loaded, pc)

\* Words moved and to come, of a DMA in state d.
Counted(d, l, w, g) ==
    /\ d \in {0, 1, 2} /\ l \in [on : BOOLEAN, len : Nat] /\ w \in Nat /\ g \in Nat
    /\ d # 0 => l.on
    /\ g + l.len = w

DmaInv == Counted(dma, dsklen, want, got)

-----------------------------------------------------------------------------
(* Timers. *)

LEMMA SetEventProperties ==
    ASSUME NEW s, Queue(s), NEW e \in Clocks, NEW t \in Int
    PROVE  Queue(SetEvent(s, e, t)) /\ Linked(SetEvent(s, e, t)) = Linked(s) \cup {e}
  <1> DEFINE left == [s.left EXCEPT ![e] = t]
             rest == Unlink(s.active, e)
  <1>1. s.active \in Seq(Clocks) /\ left \in [Clocks -> Int] /\ Once(s.active)
    BY DEF Queue
  <1>2. /\ rest \in Seq(Clocks) /\ Once(rest)
        /\ ToSet(rest) = ToSet(s.active) \ {e}
    BY <1>1, UnlinkProperties
  <1> HIDE DEF left, rest
  <1>3. /\ Link(rest, e, left) \in Seq(Clocks)
        /\ ToSet(Link(rest, e, left)) = ToSet(rest) \cup {e}
        /\ Once(Link(rest, e, left))
    <2>1. e \notin ToSet(rest)
      BY <1>2
    <2> QED
      BY <1>1, <1>2, <2>1, LinkProperties
  <1>4. SetEvent(s, e, t) = [active |-> Link(rest, e, left), left |-> left]
    BY DEF SetEvent, left, rest
  <1> QED
    BY <1>1, <1>2, <1>3, <1>4 DEF Queue, Linked

LEMMA ClearEventProperties ==
    ASSUME NEW s, Queue(s), NEW e \in Clocks
    PROVE  Queue(ClearEvent(s, e)) /\ Linked(ClearEvent(s, e)) = Linked(s) \ {e}
  <1> DEFINE left == [s.left EXCEPT ![e] = 0]
             rest == Unlink(s.active, e)
  <1>1. s.active \in Seq(Clocks) /\ left \in [Clocks -> Int] /\ Once(s.active)
    BY DEF Queue
  <1>2. /\ rest \in Seq(Clocks) /\ Once(rest)
        /\ ToSet(rest) = ToSet(s.active) \ {e}
    BY <1>1, UnlinkProperties
  <1> HIDE DEF left, rest
  <1>3. ClearEvent(s, e) = [active |-> rest, left |-> left]
    BY DEF ClearEvent, left, rest
  <1> QED
    BY <1>1, <1>2, <1>3 DEF Queue, Linked

\* Whatever the motor does next, its timer runs if it is changing speed.
LEMMA MotorTimerProperties ==
    ASSUME NEW s, Queue(s), NEW m \in Motors, motor \in Motors,
           "motor" \in Linked(s) <=> motor \in Changing
    PROVE  /\ Queue(MotorTimer(s, m))
           /\ "motor" \in Linked(MotorTimer(s, m)) <=> m \in Changing
           /\ Linked(MotorTimer(s, m)) \ {"motor"} = Linked(s) \ {"motor"}
  <1>1. CASE m = motor
    <2>1. MotorTimer(s, m) = s
      BY <1>1 DEF MotorTimer, Motors
    <2> QED
      BY <1>1, <2>1
  <1>2. CASE m # motor /\ m \in Changing
    <2>1. PICK t \in Int : MotorTimer(s, m) = SetEvent(s, "motor", t)
      BY <1>2, DriveBounds DEF MotorTimer, Changing
    <2> QED
      BY <1>2, <2>1, SetEventProperties DEF Clocks
  <1>3. CASE m # motor /\ m \notin Changing
    <2>1. MotorTimer(s, m) = ClearEvent(s, "motor")
      BY <1>3 DEF MotorTimer, Changing
    <2> QED
      BY <1>3, <2>1, ClearEventProperties DEF Clocks
  <1> QED
    BY <1>1, <1>2, <1>3

LEMMA StepTimerProperties ==
    ASSUME NEW s, Queue(s), NEW w \in Steps, w = step \/ w # "none",
           "step" \in Linked(s) <=> step # "none"
    PROVE  /\ Queue(StepTimer(s, w))
           /\ "step" \in Linked(StepTimer(s, w)) <=> w # "none"
           /\ Linked(StepTimer(s, w)) \ {"step"} = Linked(s) \ {"step"}
  <1>1. CASE w = step
    BY <1>1 DEF StepTimer
  <1>2. CASE w # step
    <2>1. StepTimer(s, w) = SetEvent(s, "step", StepDelay) /\ StepDelay \in Int
      BY <1>2, DriveBounds DEF StepTimer
    <2> QED
      BY <1>2, <2>1, SetEventProperties DEF Clocks
  <1> QED
    BY <1>1, <1>2

-----------------------------------------------------------------------------
(* The head. *)

\* Changing the side moves the head within its cylinder.
LEMMA SideKeepsPlace ==
    ASSUME NEW t, NEW w, NEW lines, NEW new, Placed(t, w, lines),
           ("side" \in lines) # ("side" \in new)
    PROVE  Placed(OtherSide(t), w, new)
  <1>1. t \in Nat /\ StepLimit \in Nat /\ StepLimit % 2 = 1
    BY DriveBounds DEF Placed
  <1>2. CASE t % 2 = 0
    <2>1. OtherSide(t) = t + 1 /\ (t + 1) % 2 # 0
      BY <1>1, <1>2 DEF OtherSide
    <2>2. t <= StepLimit + 2 => t + 1 <= StepLimit + 2
      BY <1>1, <1>2
    <2>3. t <= StepLimit => t + 1 <= StepLimit
      BY <1>1, <1>2
    <2>4. "side" \in lines /\ "side" \notin new
      BY <1>2 DEF Placed
    <2> QED
      BY <1>1, <2>1, <2>2, <2>3, <2>4 DEF Placed
  <1>3. CASE t % 2 # 0
    <2>1. OtherSide(t) = t - 1 /\ (t - 1) % 2 = 0 /\ t >= 1
      BY <1>1, <1>3 DEF OtherSide
    <2>2. t >= 2 => t - 1 >= 2
      BY <1>1, <1>3
    <2>3. "side" \notin lines /\ "side" \in new
      BY <1>3 DEF Placed
    <2> QED
      BY <1>1, <2>1, <2>2, <2>3 DEF Placed
  <1> QED
    BY <1>2, <1>3

\* A step is begun only inside the limits.
LEMMA StepNextProperties ==
    ASSUME NEW new, NEW t, Placed(t, step, new), step \in Steps
    PROVE  /\ StepNext(new, t) \in Steps
           /\ StepNext(new, t) = step \/ StepNext(new, t) # "none"
           /\ Placed(t, StepNext(new, t), new)
  <1>1. t \in Int /\ StepLimit \in Int
    BY DriveBounds DEF Placed
  <1> DEFINE w == StepNext(new, t)
  <1>2. \/ w = step
        \/ w = "out" /\ ~(t <= 1)
        \/ w = "in" /\ ~(t >= StepLimit)
    BY DEF StepNext
  <1> HIDE DEF w
  <1>3. CASE w = step
    BY <1>3 DEF w
  <1>4. CASE w = "out" /\ ~(t <= 1)
    <2>1. t >= 2
      BY <1>1, <1>4
    <2>2. Placed(t, w, new)
      BY <1>4, <2>1 DEF Placed
    <2> QED
      BY <1>4, <2>2 DEF w, Steps
  <1>5. CASE w = "in" /\ ~(t >= StepLimit)
    <2>1. t <= StepLimit
      BY <1>1, <1>5
    <2>2. Placed(t, w, new)
      BY <1>5, <2>1 DEF Placed
    <2> QED
      BY <1>5, <2>2 DEF w, Steps
  <1> QED
    BY <1>2, <1>3, <1>4, <1>5

\* A step that was begun ends on a track of the range, on the same side.
LEMMA StepKeepsPlace ==
    ASSUME NEW t, NEW w \in {"in", "out"}, NEW lines, Placed(t, w, lines)
    PROVE  Placed(IF w = "in" THEN t + 2 ELSE t - 2, "none", lines)
  <1>1. t \in Nat /\ StepLimit \in Nat
    BY DriveBounds DEF Placed
  <1>2. CASE w = "in"
    <2>1. t + 2 \in 0..(StepLimit + 2) /\ (t + 2) % 2 = t % 2
      BY <1>1, <1>2 DEF Placed
    <2> QED
      BY <1>2, <2>1 DEF Placed
  <1>3. CASE w = "out"
    <2>1. t - 2 \in 0..(StepLimit + 2) /\ (t - 2) % 2 = t % 2
      BY <1>1, <1>3 DEF Placed
    <2> QED
      BY <1>3, <2>1 DEF Placed
  <1> QED
    BY <1>2, <1>3

LEMMA MotorNextType ==
    ASSUME motor \in Motors, NEW new
    PROVE  MotorNext(new) \in Motors
  BY DEF Motors, MotorNext

-----------------------------------------------------------------------------
LEMMA DriveInit == Init => DriveInv
  <1> SUFFICES ASSUME Init
               PROVE  DriveInv
    OBVIOUS
  <1>1. q = [active |-> <<>>, left |-> [e \in {"motor", "step", "data"} |-> 0]]
    BY DEF Init
  <1>2. Queue(q) /\ Linked(q) = {}
    <2>1. <<>> \in Seq(Clocks) /\ Once(<<>>) /\ ToSet(<<>>) = {}
      BY DEF Once, ToSet
    <2>2. [e \in {"motor", "step", "data"} |-> 0] \in [Clocks -> Int]
      BY DEF Clocks
    <2> QED
      BY <1>1, <2>1, <2>2 DEF Queue, Linked
  <1>3. motor = "off" /\ step = "none" /\ tracknr = 2 /\ loaded = FALSE
        /\ pc = "cpu" /\ cell = 0 /\ "side" \in prb
    BY DEF Init, Lines
  <1>4. DriveTypes
    <2>1. 0 \in Int
      OBVIOUS
    <2> QED
      BY <1>2, <1>3, <2>1 DEF DriveTypes, Motors, Steps
  <1>5. Placed(tracknr, step, prb)
    <2>1. 2 \in 0..(StepLimit + 2) /\ 2 % 2 = 0
      BY DriveBounds
    <2> QED
      BY <1>3, <2>1 DEF Placed
  <1>6. Match(q, motor, step, loaded, pc)
    BY <1>2, <1>3 DEF Match, Changing
  <1> QED
    BY <1>4, <1>5, <1>6 DEF DriveInv

LEMMA DriveWritePrb ==
    ASSUME DriveInv, NEW new \in program.prb, WritePrb(new)
    PROVE  DriveInv'
  <1> DEFINE m == MotorNext(new)
             flip == ("side" \in prb) # ("side" \in new)
             t == IF flip THEN OtherSide(tracknr) ELSE tracknr
             s == IF flip THEN SetEvent(q, "data", 1) ELSE q
             w == StepNext(new, t)
             l == IF flip THEN TRUE ELSE loaded
             r == StepTimer(MotorTimer(s, m), w)
  <1>1. /\ prb' = new /\ motor' = m /\ step' = w /\ tracknr' = t
        /\ loaded' = l /\ q' = r /\ pc = "cpu" /\ pc' = pc /\ cell' = cell
    BY DEF WritePrb, TrackLoad
  <1>2. /\ motor \in Motors /\ step \in Steps /\ loaded \in BOOLEAN /\ cell \in Int
        /\ Queue(q) /\ Placed(tracknr, step, prb)
        /\ Match(q, motor, step, loaded, pc)
    BY DEF DriveInv, DriveTypes
  <1>3. m \in Motors
    BY <1>2, MotorNextType
  <1>4. Placed(t, step, new)
    <2>1. CASE flip
      BY <1>2, <2>1, SideKeepsPlace
    <2>2. CASE ~flip
      BY <1>2, <2>2 DEF Placed
    <2> QED
      BY <2>1, <2>2
  <1>5. Queue(s) /\ Match(s, motor, step, l, pc)
    <2>1. CASE flip
      <3>1. Queue(s) /\ Linked(s) = Linked(q) \cup {"data"}
        BY <1>2, <2>1, SetEventProperties DEF Clocks
      <3> QED
        BY <1>2, <2>1, <3>1 DEF Match
    <2>2. CASE ~flip
      BY <1>2, <2>2
    <2> QED
      BY <2>1, <2>2
  <1>6. l \in BOOLEAN
    BY <1>2
  <1> HIDE DEF m, t, s, l, flip
  <1>7. /\ w \in Steps /\ (w = step \/ w # "none")
        /\ Placed(t, w, new)
    BY <1>2, <1>4, StepNextProperties
  <1> HIDE DEF w
  <1>8. /\ Queue(MotorTimer(s, m))
        /\ "motor" \in Linked(MotorTimer(s, m)) <=> m \in Changing
        /\ Linked(MotorTimer(s, m)) \ {"motor"} = Linked(s) \ {"motor"}
    BY <1>2, <1>3, <1>5, MotorTimerProperties DEF Match
  <1>9. "step" \in Linked(MotorTimer(s, m)) <=> step # "none"
    BY <1>5, <1>8 DEF Match
  <1>10. /\ Queue(r)
         /\ "step" \in Linked(r) <=> w # "none"
         /\ Linked(r) \ {"step"} = Linked(MotorTimer(s, m)) \ {"step"}
    BY <1>7, <1>8, <1>9, StepTimerProperties
  <1> HIDE DEF r
  <1>11. Match(r, m, w, l, pc)
    BY <1>5, <1>8, <1>10 DEF Match
  <1>12. DriveTypes'
    BY <1>1, <1>2, <1>3, <1>6, <1>7, <1>10 DEF DriveTypes
  <1>13. Placed(tracknr, step, prb)' /\ Match(q, motor, step, loaded, pc)'
    BY <1>1, <1>7, <1>11
  <1> QED
    BY <1>12, <1>13 DEF DriveInv

LEMMA DriveMotorCb ==
    ASSUME DriveInv, MotorCb
    PROVE  DriveInv'
  <1> DEFINE off == ClearEvent(q, "motor")
  <1>1. /\ motor \in Motors /\ Queue(q) /\ pc = "fire"
        /\ Match(q, motor, step, loaded, pc)
        /\ q.active \in Seq(Clocks) /\ q.active # <<>> /\ Head(q.active) = "motor"
    BY DEF DriveInv, DriveTypes, MotorCb, Due, Queue
  <1>2. motor \in Changing
    <2>1. "motor" \in Linked(q)
      BY <1>1, HeadProperties DEF Queue, Linked
    <2> QED
      BY <1>1, <2>1 DEF Match
  <1>3. Queue(off) /\ Linked(off) = Linked(q) \ {"motor"}
    BY <1>1, ClearEventProperties DEF Clocks
  <1> HIDE DEF off
  <1>4. /\ step' = step /\ tracknr' = tracknr /\ prb' = prb
        /\ pc' = pc /\ cell' = cell
    BY DEF MotorCb
  <1>5. /\ motor' \in Motors /\ loaded' \in BOOLEAN /\ Queue(q')
        /\ Match(q', motor', step, loaded', pc)
    <2>1. CASE motor = "spinning_up"
      <3>1. /\ motor' = "on" /\ loaded' = TRUE
            /\ q' = SetEvent(off, "data", 1)
        BY <2>1 DEF MotorCb, TrackLoad, off
      <3>2. /\ Queue(SetEvent(off, "data", 1))
            /\ Linked(SetEvent(off, "data", 1)) = Linked(off) \cup {"data"}
        BY <1>3, SetEventProperties DEF Clocks
      <3>3. Match(SetEvent(off, "data", 1), "on", step, TRUE, pc)
        BY <1>1, <1>3, <3>2 DEF Match, Changing
      <3> QED
        BY <3>1, <3>2, <3>3 DEF Motors
    <2>2. CASE motor # "spinning_up"
      <3>1. /\ motor' = "off" /\ loaded' = FALSE
            /\ q' = ClearEvent(off, "data")
        BY <2>2 DEF MotorCb, off
      <3>2. /\ Queue(ClearEvent(off, "data"))
            /\ Linked(ClearEvent(off, "data")) = Linked(off) \ {"data"}
        BY <1>3, ClearEventProperties DEF Clocks
      <3>3. Match(ClearEvent(off, "data"), "off", step, FALSE, pc)
        BY <1>1, <1>3, <3>2 DEF Match, Changing
      <3> QED
        BY <3>1, <3>2, <3>3 DEF Motors
    <2> QED
      BY <2>1, <2>2
  <1>6. DriveTypes'
    BY <1>4, <1>5 DEF DriveInv, DriveTypes
  <1>7. Placed(tracknr, step, prb)' /\ Match(q, motor, step, loaded, pc)'
    BY <1>4, <1>5 DEF DriveInv
  <1> QED
    BY <1>6, <1>7 DEF DriveInv

LEMMA DriveStepCb ==
    ASSUME DriveInv, StepCb
    PROVE  DriveInv'
  <1> DEFINE off == ClearEvent(q, "step")
             new == SetEvent(off, "data", 1)
             t == IF step = "in" THEN tracknr + 2 ELSE tracknr - 2
  <1>1. /\ step \in Steps /\ Queue(q) /\ pc = "fire"
        /\ Match(q, motor, step, loaded, pc) /\ Placed(tracknr, step, prb)
        /\ q.active \in Seq(Clocks) /\ q.active # <<>> /\ Head(q.active) = "step"
    BY DEF DriveInv, DriveTypes, StepCb, Due, Queue
  <1>2. step \in {"in", "out"}
    <2>1. "step" \in Linked(q)
      BY <1>1, HeadProperties DEF Queue, Linked
    <2> QED
      BY <1>1, <2>1 DEF Match, Steps
  <1>3. Queue(off) /\ Linked(off) = Linked(q) \ {"step"}
    BY <1>1, ClearEventProperties DEF Clocks
  <1>4. /\ tracknr' = t /\ step' = "none" /\ loaded' = TRUE /\ q' = new
        /\ prb' = prb /\ motor' = motor /\ pc' = pc /\ cell' = cell
    BY DEF StepCb, TrackLoad
  <1>5. Placed(t, "none", prb)
    BY <1>1, <1>2, StepKeepsPlace
  <1> HIDE DEF off, t
  <1>6. Queue(new) /\ Linked(new) = Linked(off) \cup {"data"}
    BY <1>3, SetEventProperties DEF Clocks
  <1> HIDE DEF new
  <1>7. Match(new, motor, "none", TRUE, pc)
    BY <1>1, <1>3, <1>6 DEF Match
  <1>8. DriveTypes'
    BY <1>4, <1>6 DEF DriveInv, DriveTypes, Steps
  <1>9. Placed(tracknr, step, prb)' /\ Match(q, motor, step, loaded, pc)'
    BY <1>4, <1>5, <1>7
  <1> QED
    BY <1>8, <1>9 DEF DriveInv

LEMMA DriveDataCb ==
    ASSUME DriveInv, DataCb
    PROVE  DriveInv'
  <1> DEFINE off == ClearEvent(q, "data")
  <1>1. /\ Queue(q) /\ q \in [active : Seq(Clocks), left : [Clocks -> Int]]
        /\ Match(q, motor, step, loaded, pc)
        /\ q.active # <<>> /\ Head(q.active) = "data"
    BY DEF DriveInv, DriveTypes, DataCb, Due, Queue
  <1>2. loaded
    <2>1. "data" \in Linked(q)
      BY <1>1, HeadProperties DEF Queue, Linked
    <2> QED
      BY <1>1, <2>1 DEF Match
  <1>3. Queue(off) /\ Linked(off) = Linked(q) \ {"data"}
    BY <1>1, ClearEventProperties DEF Clocks
  <1>4. /\ q' = off /\ pc' = "data" /\ cell' = q.left["data"]
        /\ prb' = prb /\ motor' = motor /\ step' = step /\ tracknr' = tracknr
        /\ loaded' = loaded
    BY DEF DataCb, driveVars
  <1> HIDE DEF off
  <1>5. q.left["data"] \in Int
    BY <1>1 DEF Clocks
  <1>6. Match(off, motor, step, loaded, "data")
    BY <1>1, <1>2, <1>3 DEF Match
  <1>7. DriveTypes'
    BY <1>3, <1>4, <1>5 DEF DriveInv, DriveTypes
  <1>8. Placed(tracknr, step, prb)' /\ Match(q, motor, step, loaded, pc)'
    BY <1>4, <1>6 DEF DriveInv
  <1> QED
    BY <1>7, <1>8 DEF DriveInv

LEMMA DriveDataDone ==
    ASSUME DriveInv, DataDone
    PROVE  DriveInv'
  <1> DEFINE new == SetEvent(q, "data", cell)
  <1>1. /\ Queue(q) /\ cell \in Int /\ Match(q, motor, step, loaded, pc)
        /\ pc = "data"
    BY DEF DriveInv, DriveTypes, DataDone
  <1>2. Queue(new) /\ Linked(new) = Linked(q) \cup {"data"}
    BY <1>1, SetEventProperties DEF Clocks
  <1>3. /\ q' = new /\ pc' = "fire" /\ cell' = 0
        /\ prb' = prb /\ motor' = motor /\ step' = step /\ tracknr' = tracknr
        /\ loaded' = loaded
    BY DEF DataDone, driveVars
  <1> HIDE DEF new
  <1>4. Match(new, motor, step, loaded, "fire")
    BY <1>1, <1>2 DEF Match
  <1>5. DriveTypes'
    BY <1>2, <1>3 DEF DriveInv, DriveTypes
  <1>6. Placed(tracknr, step, prb)' /\ Match(q, motor, step, loaded, pc)'
    BY <1>3, <1>4 DEF DriveInv
  <1> QED
    BY <1>5, <1>6 DEF DriveInv

LEMMA DriveAdvance ==
    ASSUME DriveInv, NEW d \in 1..MaxStep, Advance(d)
    PROVE  DriveInv'
  <1> DEFINE left == [e \in DOMAIN q.left |->
                        IF Armed(e) THEN q.left[e] - d ELSE 0]
  <1>1. /\ Queue(q) /\ q \in [active : Seq(Clocks), left : [Clocks -> Int]]
        /\ Match(q, motor, step, loaded, pc) /\ pc = "cpu"
    BY DEF DriveInv, DriveTypes, Queue, Advance
  <1>2. left \in [Clocks -> Int]
    <2>1. d \in Int
      BY DriveBounds
    <2>2. DOMAIN q.left = Clocks /\ \A e \in Clocks : q.left[e] \in Int
      BY <1>1
    <2> QED
      BY <2>1, <2>2
  <1>3. /\ q' = [q EXCEPT !.left = left] /\ pc' = "fire"
        /\ cell' = cell
        /\ prb' = prb /\ motor' = motor /\ step' = step /\ tracknr' = tracknr
        /\ loaded' = loaded
    BY DEF Advance, driveVars
  <1> HIDE DEF left
  <1>4. Queue(q') /\ Linked(q') = Linked(q)
    BY <1>1, <1>2, <1>3 DEF Queue, Linked
  <1>5. Match(q', motor, step, loaded, "fire")
    BY <1>1, <1>4 DEF Match
  <1>6. DriveTypes'
    BY <1>3, <1>4 DEF DriveInv, DriveTypes
  <1>7. Placed(tracknr, step, prb)' /\ Match(q, motor, step, loaded, pc)'
    BY <1>3, <1>5 DEF DriveInv
  <1> QED
    BY <1>6, <1>7 DEF DriveInv

\* The other steps leave the mechanics and the timers as they are.
Still ==
    /\ UNCHANGED <<prb, motor, step, tracknr, loaded, q>>
    /\ cell' \in Int
    /\ \/ pc' = pc
       \/ pc = "fire" /\ pc' = "cpu"

LEMMA DriveStill ==
    ASSUME DriveInv, Still
    PROVE  DriveInv'
  <1>1. Match(q, motor, step, loaded, pc)'
    BY DEF DriveInv, Still, Match
  <1>2. Placed(tracknr, step, prb)'
    BY DEF DriveInv, Still, Placed
  <1>3. DriveTypes'
    BY DEF DriveInv, DriveTypes, Still, Queue
  <1> QED
    BY <1>1, <1>2, <1>3 DEF DriveInv

LEMMA DriveStep == DriveInv /\ [Next]_vars => DriveInv'
  <1> SUFFICES ASSUME DriveInv, [Next]_vars
               PROVE  DriveInv'
    OBVIOUS
  <1>1. cell \in Int
    BY DEF DriveInv, DriveTypes
  <1>2. ASSUME NEW on, NEW len, WriteDsklen(on, len)
        PROVE  Still
    BY <1>1, <1>2 DEF WriteDsklen, Still, driveVars
  <1>3. ASSUME WriteControl
        PROVE  Still
    BY <1>1, <1>3 DEF WriteControl, Still, driveVars
  <1>4. ASSUME NEW bits, WriteIntreq(bits)
        PROVE  Still
    BY <1>1, <1>4 DEF WriteIntreq, Still, driveVars
  <1>5. ASSUME ReadStatus
        PROVE  Still
    BY <1>1, <1>5 DEF ReadStatus, Still, driveVars
  <1>6. ASSUME Instruction
        PROVE  DriveInv'
    BY <1>2, <1>3, <1>4, <1>5, <1>6, DriveWritePrb, DriveStill DEF Instruction
  <1>7. ASSUME NEW sync, DataCell(sync)
        PROVE  Still
    <2>1. UNCHANGED <<prb, motor, step, tracknr, loaded, q, pc>> /\ cell' = cell + 1
      BY <1>7 DEF DataCell, driveVars
    <2>2. cell + 1 \in Int
      BY <1>1
    <2> QED
      BY <2>1, <2>2 DEF Still
  <1>8. ASSUME FireDone
        PROVE  Still
    BY <1>1, <1>8 DEF FireDone, Still, driveVars
  <1>9. ASSUME Events
        PROVE  DriveInv'
    BY <1>7, <1>8, <1>9, DriveMotorCb, DriveStepCb, DriveDataCb, DriveDataDone,
       DriveStill DEF Events
  <1>10. ASSUME UNCHANGED vars
         PROVE  Still
    BY <1>1, <1>10 DEF vars, driveVars, Still
  <1> QED
    BY <1>6, <1>9, <1>10, DriveAdvance, DriveStill DEF Next, Pass

LEMMA DriveInvariant == Spec => []DriveInv
  BY DriveInit, DriveStep, PTL DEF Spec

\* Whatever side changes and steps the program mixes, the head stays on the
\* selected side and at most one cylinder beyond the limit.
THEOREM DriveHeadPlaced == Spec => []HeadPlaced
  <1>1. DriveInv => HeadPlaced
    BY DEF DriveInv, Placed, HeadPlaced
  <1> QED
    BY <1>1, DriveInvariant, PTL

\* The motor's timer runs exactly while the motor changes speed, and the timer
\* of the step while a step is under way.
THEOREM DriveTimersMatch == Spec => []TimersMatch
  <1>1. DriveInv => TimersMatch
    BY DEF DriveInv, Match, Linked, Armed, Changing, TimersMatch
  <1> QED
    BY <1>1, DriveInvariant, PTL

\* data_cb runs only while a track is loaded.
THEOREM DriveDataNeedsTrack == Spec => []DataNeedsTrack
  <1>1. DriveInv => DataNeedsTrack
    BY DEF DriveInv, Match, Linked, Armed, DataNeedsTrack
  <1> QED
    BY <1>1, DriveInvariant, PTL

-----------------------------------------------------------------------------
(* DMA. *)

LEMMA DmaInit == Init => DmaInv
  BY DEF Init, DmaInv, Counted

LEMMA DmaWrite ==
    ASSUME DmaInv, NEW on \in BOOLEAN, NEW len \in 0..MaxLen, WriteDsklen(on, len)
    PROVE  DmaInv'
  <1> DEFINE d == IF dsklen.on /\ on /\ dma = 0 THEN 1 ELSE IF ~on THEN 0 ELSE dma
             l == [on |-> on, len |-> len]
  <1>1. dma' = d /\ dsklen' = l /\ want' = len /\ got' = 0
    BY DEF WriteDsklen
  <1>2. len \in Nat /\ 0 + len = len
    BY DriveBounds
  <1>3. d \in {0, 1, 2} /\ (d # 0 => on)
    BY DEF DmaInv, Counted
  <1> HIDE DEF d
  <1>4. Counted(d, l, len, 0)
    BY <1>2, <1>3 DEF Counted
  <1> QED
    BY <1>1, <1>4 DEF DmaInv

\* A word that comes in is counted; the last one ends the transfer.
LEMMA DmaCellCounts ==
    ASSUME DmaInv, NEW pos
    PROVE  LET w == DmaWord(pos)
           IN  /\ w.len \in Nat /\ w.moved \in Nat
               /\ w.moved + w.len = dsklen.len
               /\ w.done => dma = 2 /\ w.len = 0
  <1>1. dsklen.len \in Nat
    BY DEF DmaInv, Counted
  <1> DEFINE moved == IF dsklen.len > 0 THEN 1 ELSE 0
  <1>2. moved \in Nat /\ dsklen.len - moved \in Nat
        /\ moved + (dsklen.len - moved) = dsklen.len
    BY <1>1
  <1>3. CASE dma = 2 /\ pos = 0
    BY <1>2, <1>3 DEF DmaWord
  <1>4. CASE ~(dma = 2 /\ pos = 0)
    <2>1. 0 + dsklen.len = dsklen.len
      BY <1>1
    <2> QED
      BY <1>1, <1>4, <2>1 DEF DmaWord
  <1> QED
    BY <1>3, <1>4

LEMMA DmaDataCell ==
    ASSUME DmaInv, NEW sync \in BOOLEAN, DataCell(sync)
    PROVE  /\ DmaInv'
           /\ "blk" \in intreq' \ intreq => dma = 2 /\ dma' = 0 /\ got' = want
  <1> DEFINE w == DmaWord((bitpos + 1) % WordBits)
             left == IF w.done THEN 0 ELSE dma
             found == wordsync /\ sync
             d == IF found /\ dskdma /\ left = 1 THEN 2 ELSE left
             l == [dsklen EXCEPT !.len = w.len]
             g == got + w.moved
  <1>1. /\ dma' = d /\ dsklen' = l /\ got' = g /\ want' = want
        /\ intreq' = intreq \cup (IF w.done THEN {"blk"} ELSE {})
                            \cup (IF found THEN {"syn"} ELSE {})
    BY DEF DataCell
  <1>2. /\ w.len \in Nat /\ w.moved \in Nat
        /\ w.moved + w.len = dsklen.len
        /\ w.done => dma = 2 /\ w.len = 0
    BY DmaCellCounts
  <1> HIDE DEF w
  <1>3. /\ dma \in {0, 1, 2} /\ dsklen \in [on : BOOLEAN, len : Nat]
        /\ got \in Nat /\ want \in Nat
        /\ dma # 0 => dsklen.on
        /\ got + dsklen.len = want
    BY DEF DmaInv, Counted
  <1>4. d \in {0, 1, 2} /\ (d # 0 => dsklen.on) /\ (w.done => d = 0)
    <2>1. left \in {0, 1, 2} /\ (left # 0 => dsklen.on) /\ (w.done => left = 0)
      BY <1>3
    <2> HIDE DEF left
    <2> QED
      BY <2>1
  <1>5. l \in [on : BOOLEAN, len : Nat] /\ l.on = dsklen.on /\ l.len = w.len
    BY <1>2, <1>3
  <1>6. g \in Nat /\ g + w.len = want
    BY <1>2, <1>3
  <1>7. w.done => g = want
    BY <1>2, <1>6
  <1> HIDE DEF d, l, g
  <1>8. Counted(d, l, want, g)
    BY <1>3, <1>4, <1>5, <1>6 DEF Counted
  <1>9. DmaInv'
    BY <1>1, <1>8 DEF DmaInv
  <1>10. "blk" \in intreq' \ intreq => w.done
    BY <1>1
  <1> QED
    BY <1>1, <1>2, <1>4, <1>7, <1>9, <1>10

LEMMA DmaStep == DmaInv /\ [Next]_vars => DmaInv'
  <1> SUFFICES ASSUME DmaInv, [Next]_vars
               PROVE  DmaInv'
    OBVIOUS
  <1>1. ASSUME UNCHANGED dmaVars
        PROVE  DmaInv'
    BY <1>1 DEF dmaVars, DmaInv
  <1>2. ASSUME Instruction
        PROVE  DmaInv'
    <2>1. ASSUME NEW new, WritePrb(new)
          PROVE  UNCHANGED dmaVars
      BY <2>1 DEF WritePrb
    <2>2. WriteControl => UNCHANGED dmaVars
      BY DEF WriteControl
    <2>3. ASSUME NEW bits, WriteIntreq(bits)
          PROVE  UNCHANGED dmaVars
      BY <2>3 DEF WriteIntreq
    <2>4. ReadStatus => UNCHANGED dmaVars
      BY DEF ReadStatus
    <2> QED
      BY <1>1, <1>2, <2>1, <2>2, <2>3, <2>4, DmaWrite DEF Instruction
  <1>3. ASSUME Events
        PROVE  DmaInv'
    <2>1. MotorCb \/ StepCb \/ DataCb \/ DataDone \/ FireDone => UNCHANGED dmaVars
      BY DEF MotorCb, StepCb, DataCb, DataDone, FireDone
    <2> QED
      BY <1>1, <1>3, <2>1, DmaDataCell DEF Events
  <1>4. Pass => UNCHANGED dmaVars
    BY DEF Pass, Advance
  <1>5. UNCHANGED vars => UNCHANGED dmaVars
    BY DEF vars
  <1> QED
    BY <1>1, <1>2, <1>3, <1>4, <1>5 DEF Next

LEMMA DmaInvariant == Spec => []DmaInv
  BY DmaInit, DmaStep, PTL DEF Spec

\* DMA runs only while DSKLEN enables it, and the words moved and the words to
\* come are those that were asked for.
THEOREM DriveDmaCounts == Spec => []DmaCounts
  <1>1. DmaInv => DmaCounts
    BY DEF DmaInv, Counted, DmaCounts
  <1> QED
    BY <1>1, DmaInvariant, PTL

\* The data loop raises the block-done interrupt with the last word and not
\* before, and the transfer is then over.
THEOREM DriveBlockDone == Spec => BlockDone
  <1> DEFINE Done == pc = "data" /\ "blk" \in intreq' \ intreq
                        => dma = 2 /\ dma' = 0 /\ got' = want
  <1>1. DmaInv /\ [Next]_vars => [Done]_vars
    <2> SUFFICES ASSUME DmaInv, Next, pc = "data", "blk" \in intreq' \ intreq
                 PROVE  dma = 2 /\ dma' = 0 /\ got' = want
      OBVIOUS
    <2>1. ~Instruction
      BY DEF Instruction, WritePrb, WriteDsklen, WriteControl, WriteIntreq,
             ReadStatus, Writes
    <2>2. ~Pass
      BY DEF Pass, Advance
    <2>3. ~MotorCb /\ ~StepCb /\ ~DataCb /\ ~FireDone
      BY DEF MotorCb, StepCb, DataCb, FireDone, Due
    <2>4. ~DataDone
      BY DEF DataDone
    <2> QED
      BY <2>1, <2>2, <2>3, <2>4, DmaDataCell DEF Next, Events
  <1> QED
    BY <1>1, DmaInvariant, PTL DEF Spec, BlockDone
=============================================================================
