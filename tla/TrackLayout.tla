---------------------------- MODULE TrackLayout ----------------------------
(* A handler made ready for FormatScan: its track, and where on it the     *)
(* marks are that it scans for.                                            *)
EXTENDS TrackFields, TLC

(* The track: what read_raw emits and the gap that tbuf_finalise fills. *)
WithGap(f) ==
    LET room == {t - Bits(f.emit) : t \in f.total}
    IN  IF \E r \in room : r > 0
        THEN Append(f.emit, Fill(CHOOSE r \in room : r > 0, "0")) ELSE f.emit

Weak(w, n) ==     \* the first n fields of each kind: those that may be damaged
    {i \in DOMAIN w : Cardinality({j \in 1 .. i : w[j].k = w[i].k}) <= n}

(* Each handler with its track, the bits before each of its fields and the   *)
(* fields that end a sync.  Sequences are spelt out (with \o and @@) so that  *)
(* TLC works them out once.                                                  *)
Wrap(i, n) == ((i - 1) % n) + 1
Around(w, i) == w[Wrap(i, Len(w))]
IsWord(f, v) == (f.v = v /\ f.k = "is") \/ (v = "aaaa" /\ f.v = "0")
EndsMark(w, i, m) ==
    \A j \in DOMAIN m : IsWord(Around(w, i + Len(w) - Len(m) + j), m[j])
Ends(w, marks) ==     \* for each field, the lengths of the marks that end with it
    [i \in DOMAIN w |-> {Len(m) : m \in {x \in marks : EndsMark(w, i, x)}}] \o <<>>
Hops(w, ends) ==      \* how far on the next mark ends, 0 if there is none
    LET L == Len(w)
        ahead(i) == {d \in 1 .. L : ends[Wrap(i + d, L)] # {}}
    IN  [i \in 1 .. L |-> IF ahead(i) = {} THEN 0 ELSE Min(ahead(i))] \o <<>>

Spelt(groups) ==
    [i \in DOMAIN groups |-> [groups[i] EXCEPT !.f = @ \o <<>>]] \o <<>>
Seeks(groups) == UNION {groups[i].seek : i \in DOMAIN groups}
Table(w, marks) == LET ends == Ends(w, marks) IN [ends |-> ends, hop |-> Hops(w, ends)]
Ready(f, n) ==
    LET w == WithGap(f) \o <<>>
        second == [i \in DOMAIN f.after |-> Spelt(f.after[i].take)] \o <<>>
        takes == <<Spelt(f.take)>> \o second
        soughtBy == takes \o f.then
    IN  [h |-> f, trk |-> w, off |-> Offsets(w), bits |-> Bits(f.emit),
         weak |-> Weak(w, n),
         sync |-> <<Table(w, f.sync)>> \o [i \in DOMAIN f.after |-> Table(w, f.after[i].sync)],
         seek |-> Table(w, UNION {Seeks(soughtBy[i]) : i \in DOMAIN soughtBy}),
         take |-> takes, then |-> [i \in DOMAIN f.then |-> Spelt(f.then[i])] \o <<>>]
LaidOut(formats, n) == [x \in DOMAIN formats |-> Ready(formats[x], n)] @@ <<>>

-----------------------------------------------------------------------------
(* What FormatScan takes for granted of a handler that is laid out. *)

(* The lists of groups a handler may read: those of take, with those of then. *)
Lists(l) == ToSet(l.take) \cup {l.take[1] \o l.then[k] : k \in DOMAIN l.then}

Numbers(x) == x.k = "sec" /\ x.s = Whole      \* its value is the sector's number

IsList(s) == s \in Seq(ToSet(s))

(* A group seeks a mark, within so many bits, or reads one field or more, none *)
(* of them empty.  One that goes back to a mark was led to by it.              *)
IsGroup(groups, i) ==
    IF groups[i].seek # {} THEN groups[i].within \in Int
    ELSE /\ IsList(groups[i].f) /\ Len(groups[i].f) > 0
         /\ \A j \in 1 .. Len(groups[i].f) : groups[i].f[j].l.b \in Nat \ {0}
         /\ groups[i].bad = "seek" => \E k \in 1 .. i - 1 : groups[k].seek # {}

(* Groups that depend on the sector's number do not read another. *)
IsThen(groups) ==
    IsList(groups) /\ \A i \in DOMAIN groups : \A j \in DOMAIN groups[i].f : ~Numbers(groups[i].f[j])

IsLaidOut(l) ==
    /\ Len(l.trk) \in Nat \ {0} /\ l.off \in Seq(Nat) /\ Len(l.off) = Len(l.trk) + 1
    /\ l.off[1] = 0
    /\ \A i \in 1 .. Len(l.trk) :
          l.trk[i].l.b \in Nat \ {0} /\ l.off[i + 1] = l.off[i] + l.trk[i].l.b
    /\ \A m \in {l.seek} \cup ToSet(l.sync) :
          \A i \in 1 .. Len(l.trk) : m.hop[i] \in 0 .. Len(l.trk)
    /\ \A groups \in Lists(l) :
          IsList(groups) /\ \A i \in 1 .. Len(groups) : IsGroup(groups, i)
    /\ LET scans == IF l.h.after # <<>> THEN 1 .. 2 ELSE 1 .. 1
       IN  \A s \in scans : s \in DOMAIN l.take /\ s \in DOMAIN l.sync
    /\ IsList(l.take[1]) /\ \A k \in DOMAIN l.then : IsThen(l.then[k])

(* A checksum that is over a field. *)
Covers(x, f) == x.k = "sum" /\ f.v \in x.o /\ (x.s = Whole \/ f.s = x.s)

(* Every field to be stored has a checksum after it, but for those named open, *)
(* and so has the sector's number, but in a bare handler.                      *)
IsChecked(groups, i, x) ==
    \E n \in i .. Len(groups) :
        groups[n].seek = {} /\ \E j \in DOMAIN groups[n].f : Covers(groups[n].f[j], x)
Checked(l) ==
    \A groups \in Lists(l) : \A i \in 1 .. Len(groups) : \A j \in DOMAIN groups[i].f :
        LET x == groups[i].f[j] IN
        (x.k = "keep" /\ x.v \notin l.h.open) \/ (Numbers(x) /\ ~l.h.bare) =>
            IsChecked(groups, i, x)

-----------------------------------------------------------------------------
(* Where fields lie, in bits. *)

RunningSums(a, N) == LET s[n \in 0 .. N] == IF n = 0 THEN 0 ELSE s[n - 1] + a[n] IN s
FieldStarts(f) == RunningSums([j \in 1 .. Len(f) |-> f[j].l.b], Len(f))
GroupStarts(groups) ==
    RunningSums([n \in 1 .. Len(groups) |-> FieldStarts(groups[n].f)[Len(groups[n].f)]],
                Len(groups))

(* field t of the track starts so many bits after field i has ended *)
LiesAt(l, i, bits, t) == (l.off[t] - l.off[i + 1] - bits) % l.off[Len(l.trk) + 1] = 0

(* A group that ends in a field which is compared or has a checksum after it: *)
(* a handler out of step there is found out.  It has no runs, whose length    *)
(* may be any.                                                                *)
IsFirm(l, x) ==
    \/ x.k \in {"is", "sealed", "sum"} \/ (x.k = "sec" /\ x.s # Whole)
    \/ x.k = "keep" /\ x.v \notin l.h.open
IsSteady(l, groups, n) ==
    /\ groups[n].seek = {} /\ \A j \in DOMAIN groups[n].f : groups[n].f[j].k # "fill"
    /\ n < Len(groups) => IsFirm(l, groups[n].f[Len(groups[n].f)])

HasNumber(groups) == \E n \in DOMAIN groups : \E j \in DOMAIN groups[n].f : Numbers(groups[n].f[j])

(* After a mark that ends with field i, what is kept as a sector's lies where *)
(* that sector's is; w is the sector of the fields that name none.            *)
Follows(l, groups, i, w) ==
    \A n \in DOMAIN groups : \A j \in DOMAIN groups[n].f :
        LET x == groups[n].f[j]
            bits == GroupStarts(groups)[n - 1] + FieldStarts(groups[n].f)[j - 1]
        IN  x.k \in {"keep", "sealed"} \/ Numbers(x) =>
                \A t \in 1 .. Len(l.trk) :
                    LiesAt(l, i, bits, t) => l.trk[t].s = IF x.s = Whole THEN w ELSE x.s

InLine(l) ==
    /\ l.then = <<>> /\ ~l.h.bysync
    /\ \A s \in DOMAIN l.take :
          /\ \A n \in 1 .. Len(l.take[s]) : IsSteady(l, l.take[s], n)
          /\ \A i \in 1 .. Len(l.trk) : l.sync[s].ends[i] # {} =>
                \E w \in {Whole} \cup {l.trk[t].s : t \in 1 .. Len(l.trk)} :
                    (w = Whole \/ HasNumber(l.take[s])) /\ Follows(l, l.take[s], i, w)

(* There are no sectors. *)
IsWhole(l) ==
    /\ ~l.h.bysync /\ \A i \in 1 .. Len(l.trk) : l.trk[i].s = Whole
    /\ \A groups \in Lists(l) : ~HasNumber(groups)
          /\ \A n \in DOMAIN groups : \A j \in DOMAIN groups[n].f :
                groups[n].f[j].k \in {"keep", "sealed"} => groups[n].f[j].s = Whole

IsPlaced(l) == InLine(l) \/ IsWhole(l) \/ l.h.order \/ l.h.bare
=============================================================================
