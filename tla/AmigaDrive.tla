----------------------------- MODULE AmigaDrive -----------------------------
(***************************************************************************)
(* The floppy drive of the m68k emulator (m68k/amiga/disk.c) and the parts   *)
(* of the CIA and custom chips that it talks to (cia.c, custom.c).          *)
(*                                                                         *)
(* The emulated CPU writes a register, time passes, and fire_events runs the *)
(* timers that are due: the motor, the head, and the next bitcell.  Times in *)
(* the queue are relative to current_time, in bitcells; module EventQueue    *)
(* has the list with absolute times.  What the bitcells spell is left open:  *)
(* each may complete the sync word.                                        *)
(***************************************************************************)
EXTENDS Integers, EventList

CONSTANTS
    StepLimit,      \* 159: no step inwards from this track on
    MotorOnDelay, MotorOffDelay, StepDelay,
    BitLen,         \* bound: bitcells of a track
    ByteBits, WordBits,             \* 8 and 16
    MaxLen,         \* bound: the DMA lengths written
    MaxStep,        \* bound: bitcells that pass during an instruction
    Programs        \* bound: what the emulated program writes, [prb, regs]

ASSUME DriveBounds ==
    /\ StepLimit \in Nat /\ StepLimit % 2 = 1
    /\ MotorOnDelay \in Nat /\ MotorOffDelay \in Nat /\ StepDelay \in Nat
    /\ MaxLen \in Nat /\ MaxStep \in Nat

VARIABLES
    program,        \* the program being run
    prb,            \* ciab.prb_o, the lines that are high (inactive); it is
                    \* also old_ciabb, which follows each write at once
    pra,            \* ciaa.pra_i, of the lines the drive pulls low
    motor, step, tracknr,
    loaded,         \* track_raw holds a track
    input_pos, bitpos,              \* bitpos is data_word_bitpos % WordBits
    q,              \* the event queue: active and left, the time left
    dma, dsklen,    \* 0 off, 1 waiting for sync, 2 transferring
    wordsync, dskdma,               \* adkcon[10], dmacon[4]
    intreq, index,  \* interrupts requested; ciab's index flag
    ready, equal,   \* dskbytr's byte-ready and word-equal
    pc,             \* "cpu", "fire", or in data_cb's loop "data"
    cell,           \* data_cb's t, relative to current_time
    want, got       \* history: words the last DSKLEN write asked for, and words
                    \* transferred since

driveVars == <<motor, step, tracknr>>
dataVars == <<input_pos, bitpos, ready, equal, index>>
dmaVars == <<dma, dsklen, want, got>>
regVars == <<wordsync, dskdma>>
vars == <<program, prb, pra, driveVars, loaded, dataVars, q, dmaVars, regVars,
          intreq, pc, cell>>

Lines == {"motor", "sel", "side", "dir", "step"}

-----------------------------------------------------------------------------
(* The queue. *)

Armed(e) == e \in ToSet(q.active)

SetEvent(s, e, t) ==
    LET left == [s.left EXCEPT ![e] = t]
    IN  [active |-> Link(Unlink(s.active, e), e, left), left |-> left]

ClearEvent(s, e) ==
    [active |-> Unlink(s.active, e), left |-> [s.left EXCEPT ![e] = 0]]

-----------------------------------------------------------------------------
Init ==
    /\ program \in Programs
    /\ prb = Lines /\ pra = {"ready", "track0"}
    /\ motor = "off" /\ step = "none" /\ tracknr = 2 /\ loaded = FALSE
    /\ input_pos = 0 /\ bitpos = 0
    /\ q = [active |-> <<>>, left |-> [e \in {"motor", "step", "data"} |-> 0]]
    /\ dma = 0 /\ dsklen = [on |-> FALSE, len |-> 0] /\ want = 0 /\ got = 0
    /\ wordsync = FALSE /\ dskdma = FALSE /\ intreq = {} /\ index = FALSE
    /\ ready = FALSE /\ equal = FALSE
    /\ pc = "cpu" /\ cell = 0

\* disk_recalc_cia_inputs, after the selection, the motor or the track changed.
RecalcInputs ==
    pra' = IF "sel" \in prb' THEN {"ready", "track0"}
           ELSE (IF motor' \in {"off", "spinning_up"} THEN {"ready"} ELSE {})
                \cup (IF tracknr' <= 1 THEN {} ELSE {"track0"})

\* track_load: the read position goes to the start of the new track; the caller
\* sets the data event, as data_cb does, for one cell from now.
TrackLoad ==
    /\ loaded' = TRUE
    /\ input_pos' = 0 /\ bitpos' = 0
    /\ UNCHANGED <<ready, equal, index>>

-----------------------------------------------------------------------------
(* Port B of CIA B: side, selection, motor and step. *)

\* The motor line is latched when the drive becomes selected.
MotorNext(new) ==
    IF "sel" \notin prb \/ "sel" \in new THEN motor
    ELSE IF "motor" \notin new
    THEN [off |-> "spinning_up", spinning_up |-> "spinning_up",
          spinning_down |-> "on", on |-> "on"][motor]
    ELSE [off |-> "off", spinning_up |-> "off",
          spinning_down |-> "spinning_down", on |-> "spinning_down"][motor]

\* Mutant of MotorTimer: an aborted change of speed leaves its timer running.
MotorTimer_NotStopped(s, m) ==
    IF m = motor THEN s
    ELSE CASE m = "spinning_up"   -> SetEvent(s, "motor", MotorOnDelay)
           [] m = "spinning_down" -> SetEvent(s, "motor", MotorOffDelay)
           [] OTHER               -> s

\* Mutant of MotorTimer: nothing brings the motor up to speed.
MotorTimer_NotStarted(s, m) ==
    IF m = motor THEN s
    ELSE CASE m = "spinning_down" -> SetEvent(s, "motor", MotorOffDelay)
           [] OTHER               -> ClearEvent(s, "motor")

\* Its timer runs while it changes speed; aborting that stops the timer.
MotorTimer(s, m) ==
    IF m = motor THEN s
    ELSE CASE m = "spinning_up"   -> SetEvent(s, "motor", MotorOnDelay)
           [] m = "spinning_down" -> SetEvent(s, "motor", MotorOffDelay)
           [] OTHER               -> ClearEvent(s, "motor")

\* A rising step line starts a step, unless one is under way or the head is at
\* the end of its travel, on track t now that the side is selected.
StepNext(new, t) ==
    IF "sel" \in new \/ "step" \in prb \/ "step" \notin new \/ step # "none" THEN step
    ELSE IF "dir" \in new THEN IF t <= 1 THEN "none" ELSE "out"
    ELSE IF t >= StepLimit THEN "none" ELSE "in"

StepTimer(s, w) == IF w = step THEN s ELSE SetEvent(s, "step", StepDelay)

\* Mutant of OtherSide: the side bit is set, and never cleared again.
OtherSide_Set(t) == IF t % 2 = 0 THEN t + 1 ELSE t

OtherSide(t) == IF t % 2 = 0 THEN t + 1 ELSE t - 1

\* cia_write_reg(CIAPRB) and disk_cia_changed.
WritePrb(new) ==
    /\ pc = "cpu"
    /\ prb' = new
    /\ motor' = MotorNext(new)
    /\ LET timers(s) == StepTimer(MotorTimer(s, motor'), step')
       IN  IF ("side" \in prb) # ("side" \in new)
           THEN /\ tracknr' = OtherSide(tracknr)
                /\ step' = StepNext(new, OtherSide(tracknr))
                /\ TrackLoad
                /\ q' = timers(SetEvent(q, "data", 1))
           ELSE /\ step' = StepNext(new, tracknr)
                /\ q' = timers(q)
                /\ UNCHANGED <<tracknr, loaded, dataVars>>
    /\ RecalcInputs
    /\ UNCHANGED <<program, dmaVars, regVars, intreq, pc, cell>>

-----------------------------------------------------------------------------
(* The other registers the emulated program writes and reads. *)

Writes(r) == pc = "cpu" /\ r \in program.regs

\* Mutant of WriteDsklen: clearing the enable bit does not stop a transfer.
WriteDsklen_NoStop(on, len) ==
    /\ Writes("dsklen")
    /\ dsklen' = [on |-> on, len |-> len]
    /\ dma' = IF dsklen.on /\ on /\ dma = 0 THEN 1 ELSE dma
    /\ want' = len /\ got' = 0
    /\ UNCHANGED <<program, prb, pra, driveVars, loaded, dataVars, q, regVars,
                   intreq, pc, cell>>

\* custom_write_reg(CUST_dsklen) and disk_dsklen_changed: DMA starts at the
\* second write in a row with the enable bit, and stops at one without it.
WriteDsklen(on, len) ==
    /\ Writes("dsklen")
    /\ dsklen' = [on |-> on, len |-> len]
    /\ dma' = IF dsklen.on /\ on /\ dma = 0 THEN 1 ELSE IF ~on THEN 0 ELSE dma
    /\ want' = len /\ got' = 0
    /\ UNCHANGED <<program, prb, pra, driveVars, loaded, dataVars, q, regVars,
                   intreq, pc, cell>>

WriteControl ==
    /\ \/ Writes("adkcon") /\ wordsync' \in BOOLEAN /\ UNCHANGED dskdma
       \/ Writes("dmacon") /\ dskdma' \in BOOLEAN /\ UNCHANGED wordsync
    /\ UNCHANGED <<program, prb, pra, driveVars, loaded, dataVars, q, dmaVars,
                   intreq, pc, cell>>

\* INTREQ can be set by the program as well as cleared.
WriteIntreq(bits) ==
    /\ Writes("intreq")
    /\ intreq' = bits
    /\ UNCHANGED <<program, prb, pra, driveVars, loaded, dataVars, q, dmaVars,
                   regVars, pc, cell>>

\* custom_read_reg(CUST_dskbytr) clears the ready bit, and cia_read_reg(CIAICR)
\* the interrupt flags.
ReadStatus ==
    /\ \/ Writes("dskbytr") /\ ready' = FALSE /\ UNCHANGED index
       \/ Writes("icr") /\ index' = FALSE /\ UNCHANGED ready
    /\ UNCHANGED <<program, prb, pra, driveVars, loaded, input_pos, bitpos, equal,
                   q, dmaVars, regVars, intreq, pc, cell>>

-----------------------------------------------------------------------------
(* Time passes. *)

\* amiga_emulate after an instruction.
Advance(d) ==
    /\ pc = "cpu"
    /\ pc' = "fire"
    /\ q' = [q EXCEPT !.left = [e \in DOMAIN q.left |->
                                   IF Armed(e) THEN q.left[e] - d ELSE 0]]
    /\ UNCHANGED <<program, prb, pra, driveVars, loaded, dataVars, dmaVars, regVars,
                   intreq, cell>>

Due(e) == /\ pc = "fire" /\ q.active # <<>>
          /\ Head(q.active) = e /\ q.left[e] <= 0

FireDone ==
    /\ pc = "fire"
    /\ \A e \in ToSet(q.active) : ~Due(e)
    /\ pc' = "cpu"
    /\ UNCHANGED <<program, prb, pra, driveVars, loaded, dataVars, q, dmaVars,
                   regVars, intreq, cell>>

\* Mutant of MotorCb: the motor comes to rest, and bitcells still come in.
MotorCb_DataGoesOn ==
    /\ Due("motor")
    /\ IF motor = "spinning_up"
       THEN /\ motor' = "on" /\ TrackLoad
            /\ q' = SetEvent(ClearEvent(q, "motor"), "data", 1)
       ELSE /\ motor' = "off" /\ loaded' = FALSE
            /\ q' = ClearEvent(q, "motor")
            /\ UNCHANGED dataVars
    /\ UNCHANGED prb /\ UNCHANGED <<step, tracknr>> /\ RecalcInputs
    /\ UNCHANGED <<program, dmaVars, regVars, intreq, pc, cell>>

\* motor_cb: the motor is up to speed, or has come to rest and unloads the track.
MotorCb ==
    /\ Due("motor")
    /\ IF motor = "spinning_up"
       THEN /\ motor' = "on" /\ TrackLoad
            /\ q' = SetEvent(ClearEvent(q, "motor"), "data", 1)
       ELSE /\ motor' = "off" /\ loaded' = FALSE
            /\ q' = ClearEvent(ClearEvent(q, "motor"), "data")
            /\ UNCHANGED dataVars
    /\ UNCHANGED prb /\ UNCHANGED <<step, tracknr>> /\ RecalcInputs
    /\ UNCHANGED <<program, dmaVars, regVars, intreq, pc, cell>>

StepCb ==
    /\ Due("step")
    /\ tracknr' = IF step = "in" THEN tracknr + 2 ELSE tracknr - 2
    /\ step' = "none"
    /\ TrackLoad
    /\ q' = SetEvent(ClearEvent(q, "step"), "data", 1)
    /\ UNCHANGED prb /\ UNCHANGED motor /\ RecalcInputs
    /\ UNCHANGED <<program, dmaVars, regVars, intreq, pc, cell>>

\* data_cb is entered: t is the time the event was set for.
DataCb ==
    /\ Due("data")
    /\ q' = ClearEvent(q, "data")
    /\ pc' = "data" /\ cell' = q.left["data"]
    /\ UNCHANGED <<program, prb, pra, driveVars, loaded, dataVars, dmaVars, regVars,
                   intreq>>

\* Mutant of DmaWord: the block is done one word early.
DmaWord_Early(pos) ==
    IF dma = 2 /\ pos = 0
    THEN LET moved == IF dsklen.len > 0 THEN 1 ELSE 0
         IN  [len |-> dsklen.len - moved, moved |-> moved,
              done |-> dsklen.len - moved <= 1]
    ELSE [len |-> dsklen.len, moved |-> 0, done |-> FALSE]

\* disk_dma_word, when a whole word has come in and DMA is transferring.
DmaWord(pos) ==
    IF dma = 2 /\ pos = 0
    THEN LET moved == IF dsklen.len > 0 THEN 1 ELSE 0
         IN  [len |-> dsklen.len - moved, moved |-> moved,
              done |-> dsklen.len - moved = 0]
    ELSE [len |-> dsklen.len, moved |-> 0, done |-> FALSE]

\* One turn of data_cb's loop; sync: the word read so far is the sync word.
DataCell(sync) ==
    /\ pc = "data" /\ cell <= 0
    /\ LET wrap  == input_pos + 1 = BitLen
           pos   == (bitpos + 1) % WordBits
           found == wordsync /\ sync
           w     == DmaWord(pos)
           left  == IF w.done THEN 0 ELSE dma
       IN  /\ input_pos' = IF wrap THEN 0 ELSE input_pos + 1
           /\ index' = (index \/ wrap)
           /\ bitpos' = IF found THEN 0 ELSE pos
           /\ ready' = (ready \/ pos % ByteBits = 0)
           /\ equal' = found
           /\ dsklen' = [dsklen EXCEPT !.len = w.len]
           /\ got' = got + w.moved
           /\ dma' = IF found /\ dskdma /\ left = 1 THEN 2 ELSE left
           /\ intreq' = intreq \cup (IF w.done THEN {"blk"} ELSE {})
                               \cup (IF found THEN {"syn"} ELSE {})
    /\ cell' = cell + 1
    /\ UNCHANGED <<program, prb, pra, driveVars, loaded, q, regVars, want, pc>>

\* data_cb ends: the next bitcell is due.
DataDone ==
    /\ pc = "data" /\ cell > 0
    /\ q' = SetEvent(q, "data", cell)
    /\ pc' = "fire" /\ cell' = 0
    /\ UNCHANGED <<program, prb, pra, driveVars, loaded, dataVars, dmaVars, regVars,
                   intreq>>

-----------------------------------------------------------------------------
Instruction ==
    \/ \E new \in program.prb : WritePrb(new)
    \/ \E on \in BOOLEAN : \E len \in 0..MaxLen : WriteDsklen(on, len)
    \/ WriteControl
    \/ \E bits \in SUBSET {"blk", "syn"} : WriteIntreq(bits)
    \/ ReadStatus

Events == MotorCb \/ StepCb \/ DataCb \/ DataDone \/ FireDone
          \/ \E sync \in BOOLEAN : DataCell(sync)

Pass == \E d \in 1..MaxStep : Advance(d)

Next == Instruction \/ Pass \/ Events

\* Instructions take time, and each is followed by fire_events.
Spec == Init /\ [][Next]_vars /\ WF_vars(Events) /\ WF_vars(Pass)

-----------------------------------------------------------------------------
\* The head stays within a cylinder of its range, and on the side that the side
\* line selects, whatever steps and side changes overlap: the end of travel is
\* checked when a step is requested, tracknr ^= 1 may come in between, and
\* step_cb then does tracknr +-= 2.
HeadPlaced ==
    /\ tracknr \in 0..(StepLimit + 2)
    /\ (tracknr % 2 = 0) <=> ("side" \in prb)

\* The motor and the step timers run exactly while the motor changes speed and
\* while a step is under way: no callback finds a state it does not expect.
TimersMatch ==
    /\ Armed("motor") <=> motor \in {"spinning_up", "spinning_down"}
    /\ Armed("step") <=> step # "none"

\* Bitcells come in exactly while a track is loaded: data_cb reads track_raw.
DataNeedsTrack == loaded <=> (Armed("data") \/ pc = "data")

\* A DMA transfer is under way only while DSKLEN enables it, and the words moved
\* and the words to come are those the last write of DSKLEN asked for.
DmaCounts ==
    /\ dma # 0 => dsklen.on
    /\ got + dsklen.len = want

\* "Disk block done" is raised when all the words have been moved, and not before.
BlockDone ==
    [][pc = "data" /\ "blk" \in intreq' \ intreq
         => dma = 2 /\ dma' = 0 /\ got' = want]_vars

\* A motor that is switched on gets up to speed, unless it is switched off again.
SpinUpEnds == motor = "spinning_up" ~> motor \in {"on", "off"}
=============================================================================
