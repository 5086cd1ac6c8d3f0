---------------------------- MODULE AnalyseProofs ----------------------------
(***************************************************************************)
(* The disk-analyse program gives every track the formats of the first range *)
(* that covers it, tries them all before it gives a track up, and warns of    *)
(* as many tracks as are damaged or unidentified: for any config files, any   *)
(* dump and any range of tracks.                                            *)
(***************************************************************************)
EXTENDS Analyse, SequenceTheorems, FiniteSetTheorems, TLAPS

(* Reading the definition, which is found at fd: fs gives a track its list in *)
(* ls.                                                                     *)

Place == [file : DOMAIN Files, line : Nat]
Stacked(s) == s \in Seq([file : DOMAIN Files, line : Nat \ {0}]) /\ s # <<>>

\* Every list has a format at its position.
Lists(ls) ==
    /\ ls \in Seq([ent : Seq(STRING), pos : Nat])
    /\ \A k \in 1..Len(ls) :
         ls[k].pos < Len(ls[k].ent) /\ ToSet(ls[k].ent) \subseteq Formats

\* Line n of the definition is the first range that track i is in, and v is what
\* it gives the track.
Gives(fd, ls, n, i, v, none) ==
    LET range == Files[fd.file][n]
    IN  /\ i \in Covers(range)
        /\ \A m \in (fd.line + 1)..(n - 1) : i \notin Covers(Files[fd.file][m])
        /\ IF IsIgnore(range) THEN v = none
           ELSE v \in 1..Len(ls) /\ ls[v].ent = range.fmts

\* The lines of the definition before line end have been taken.
Taken(fd, ls, fs, end) ==
    /\ \A n \in (fd.line + 1)..(end - 1) :
         n \in DOMAIN Files[fd.file] /\ Files[fd.file][n].k = "range"
    /\ \A i \in AllTracks :
         IF fs[i] = Null
         THEN \A n \in (fd.line + 1)..(end - 1) : i \notin Covers(Files[fd.file][n])
         ELSE \E n \in (fd.line + 1)..(end - 1) : Gives(fd, ls, n, i, fs[i], Ignored)

Ranges(fd) ==
    {n \in (fd.line + 1)..Len(Files[fd.file]) :
        \A m \in (fd.line + 1)..Len(Files[fd.file]) :
            Files[fd.file][m].k # "range" => n < m}

Assigned(fd, ls, fs) ==
    \A i \in AllTracks : \E n \in Ranges(fd) : Gives(fd, ls, n, i, fs[i], Null)

Parsed == {"stream", "check", "img", "done"}

ConfigInv ==
    /\ pc \in {"search", "ranges", "error", "nomatch", "spinning"} \cup Parsed
    /\ input \in {"stream", "img"} /\ found \in Place
    /\ pc \in {"search", "ranges"} => Stacked(stack)
    /\ DOMAIN formats = AllTracks /\ Lists(lists)
    /\ pc = "search" => formats = [i \in AllTracks |-> Null] /\ lists = <<>>
    /\ pc = "ranges" => /\ Head(stack).file = found.file
                        /\ Head(stack).line > found.line
                        /\ Taken(found, lists, formats, Head(stack).line)
    /\ pc \in Parsed => Assigned(found, lists, formats)
    /\ pc \in {"stream", "check"} => input = "stream"
    /\ pc = "img" => input = "img"

-----------------------------------------------------------------------------
LEMMA LinesAreThere ==
    ASSUME Stacked(stack), Here.k # "eof"
    PROVE  /\ Head(stack).line \in DOMAIN Files[Head(stack).file]
           /\ Here = Files[Head(stack).file][Head(stack).line]
  <1>1. Head(stack) \in [file : DOMAIN Files, line : Nat \ {0}]
    BY HeadTailProperties DEF Stacked
  <1> DEFINE f == Head(stack).file
             n == Head(stack).line
  <1>2. f \in DOMAIN Files /\ n \in Nat \ {0}
    BY <1>1
  <1>3. Len(Files[f]) \in Nat /\ DOMAIN Files[f] = 1..Len(Files[f])
    BY <1>2, ConfigAssumption
  <1>4. n <= Len(Files[f])
    BY DEF Here, Line
  <1>5. n \in DOMAIN Files[f]
    BY <1>2, <1>3, <1>4
  <1> QED
    BY <1>4, <1>5 DEF Here, Line

LEMMA NextLineProperties ==
    ASSUME Stacked(stack)
    PROVE  /\ Stacked(NextLine)
           /\ Head(NextLine).file = Head(stack).file
           /\ Head(NextLine).line = Head(stack).line + 1
           /\ Head(stack).line \in Nat \ {0} /\ Head(stack) \in Place
  <1> DEFINE P == [file : DOMAIN Files, line : Nat \ {0}]
             top == [stack[1] EXCEPT !.line = @ + 1]
  <1>1. stack \in Seq(P) /\ stack # <<>> /\ Len(stack) \in Nat \ {0}
    BY EmptySeq DEF Stacked
  <1>2. Head(stack) = stack[1] /\ stack[1] \in P /\ 1 \in 1..Len(stack)
    <2> HIDE DEF P
    <2>1. 1 \in 1..Len(stack) /\ Head(stack) = stack[1]
      BY <1>1
    <2> QED
      BY <1>1, <2>1, ElementOfSeq
  <1>3. top \in P /\ top.file = stack[1].file /\ top.line = stack[1].line + 1
    BY <1>2
  <1>4. NextLine = [stack EXCEPT ![1] = top]
    BY DEF NextLine
  <1> HIDE DEF top, P
  <1>5. /\ NextLine \in Seq(P) /\ Len(NextLine) = Len(stack)
        /\ NextLine[1] = top
    BY <1>1, <1>2, <1>3, <1>4, ExceptSeq
  <1>6. NextLine # <<>> /\ Head(NextLine) = top
    BY <1>1, <1>5, EmptySeq
  <1> QED
    BY <1>2, <1>3, <1>5, <1>6 DEF Stacked, P, Place

LEMMA GivesKept ==
    ASSUME NEW fd, NEW ls, NEW lt, NEW n, NEW i, NEW v, NEW none,
           Gives(fd, ls, n, i, v, none),
           Len(ls) \in Nat, Len(lt) \in Nat, Len(ls) <= Len(lt),
           \A k \in 1..Len(ls) : lt[k].ent = ls[k].ent
    PROVE  Gives(fd, lt, n, i, v, none)
  BY DEF Gives

LEMMA TakenNone ==
    ASSUME NEW fd, fd.line \in Nat, NEW ls
    PROVE  Taken(fd, ls, [i \in AllTracks |-> Null], fd.line + 1)
  <1> DEFINE fs == [i \in AllTracks |-> Null]
             end == fd.line + 1
  <1>1. \A n \in (fd.line + 1)..(end - 1) : FALSE
    OBVIOUS
  <1>2. \A i \in AllTracks : fs[i] = Null
    OBVIOUS
  <1> HIDE DEF fs, end
  <1>3. Taken(fd, ls, fs, end)
    BY <1>1, <1>2 DEF Taken
  <1> QED
    BY <1>3 DEF fs, end

\* One more range is taken.
LEMMA TakenStep ==
    ASSUME NEW fd \in Place, NEW ls, NEW lt, NEW fs, NEW end \in Nat,
           end > fd.line, Taken(fd, ls, fs, end), Lists(ls), Lists(lt),
           end \in DOMAIN Files[fd.file], Files[fd.file][end].k = "range",
           IF IsIgnore(Files[fd.file][end]) THEN lt = ls
           ELSE /\ Len(lt) = Len(ls) + 1
                /\ \A k \in 1..Len(ls) : lt[k] = ls[k]
                /\ lt[Len(lt)].ent = Files[fd.file][end].fmts,
           NEW ft,
           ft = [i \in AllTracks |->
                   IF fs[i] # Null \/ i \notin Covers(Files[fd.file][end]) THEN fs[i]
                   ELSE IF IsIgnore(Files[fd.file][end]) THEN Ignored ELSE Len(lt)]
    PROVE  Taken(fd, lt, ft, end + 1)
  <1> DEFINE range == Files[fd.file][end]
             line(n) == Files[fd.file][n]
             L == fd.line
  <1>1. L \in Nat /\ Len(ls) \in Nat /\ Len(lt) \in Nat /\ Len(ls) <= Len(lt)
    BY DEF Place, Lists
  <1>2. \A k \in 1..Len(ls) : lt[k].ent = ls[k].ent
    BY <1>1
  <1>3. /\ \A n \in (L + 1)..(end + 1 - 1) : n = end \/ n \in (L + 1)..(end - 1)
        /\ \A n \in (L + 1)..(end - 1) : n \in (L + 1)..(end + 1 - 1)
        /\ end \in (L + 1)..(end + 1 - 1)
    BY <1>1
  <1>4. ASSUME NEW n \in (L + 1)..(end + 1 - 1)
        PROVE  n \in DOMAIN Files[fd.file] /\ line(n).k = "range"
    <2>1. n = end \/ n \in (L + 1)..(end - 1)
      BY <1>3
    <2> QED
      BY <2>1 DEF Taken
  <1>5. ASSUME NEW i \in AllTracks
        PROVE  IF ft[i] = Null
               THEN \A n \in (L + 1)..(end + 1 - 1) : i \notin Covers(line(n))
               ELSE \E n \in (L + 1)..(end + 1 - 1) : Gives(fd, lt, n, i, ft[i], Ignored)
    <2>1. CASE fs[i] # Null
      <3>1. ft[i] = fs[i]
        BY <2>1
      <3>2. PICK n \in (L + 1)..(end - 1) : Gives(fd, ls, n, i, fs[i], Ignored)
        BY <2>1 DEF Taken
      <3>3. Gives(fd, lt, n, i, fs[i], Ignored)
        BY <1>1, <1>2, <3>2, GivesKept
      <3>4. n \in (L + 1)..(end + 1 - 1)
        BY <1>3
      <3> QED
        BY <2>1, <3>1, <3>3, <3>4
    <2>2. CASE fs[i] = Null /\ i \notin Covers(range)
      <3>1. ft[i] = Null
        BY <2>2
      <3>2. \A n \in (L + 1)..(end - 1) : i \notin Covers(line(n))
        BY <2>2 DEF Taken
      <3> QED
        BY <1>3, <2>2, <3>1, <3>2
    <2>3. CASE fs[i] = Null /\ i \in Covers(range)
      <3>1. ft[i] = IF IsIgnore(range) THEN Ignored ELSE Len(lt)
        BY <2>3
      <3>2. \A n \in (L + 1)..(end - 1) : i \notin Covers(line(n))
        BY <2>3 DEF Taken
      <3>3. ft[i] # Null
        <4>1. CASE IsIgnore(range)
          BY <3>1, <4>1 DEF Ignored, Null
        <4>2. CASE ~IsIgnore(range)
          <5>1. ft[i] = Len(ls) + 1
            BY <3>1, <4>2
          <5> QED
            BY <1>1, <5>1 DEF Null
        <4> QED
          BY <4>1, <4>2
      <3>4. IF IsIgnore(range) THEN ft[i] = Ignored
            ELSE ft[i] \in 1..Len(lt) /\ lt[ft[i]].ent = range.fmts
        <4>1. CASE IsIgnore(range)
          BY <3>1, <4>1
        <4>2. CASE ~IsIgnore(range)
          <5>1. ft[i] = Len(lt) /\ Len(lt) = Len(ls) + 1
            BY <3>1, <4>2
          <5>2. Len(lt) \in 1..Len(lt)
            BY <1>1, <5>1
          <5> QED
            BY <4>2, <5>1, <5>2
        <4> QED
          BY <4>1, <4>2
      <3>5. Gives(fd, lt, end, i, ft[i], Ignored)
        BY <2>3, <3>2, <3>4 DEF Gives
      <3> QED
        BY <1>3, <3>3, <3>5
    <2> QED
      BY <2>1, <2>2, <2>3
  <1> QED
    BY <1>4, <1>5 DEF Taken

\* When no track is left without a range, the definition is complete.
LEMMA TakenAll ==
    ASSUME NEW fd \in Place, NEW ls, NEW fs, NEW end \in Nat,
           end > fd.line, fd.file \in DOMAIN Files,
           Taken(fd, ls, fs, end), Lists(ls),
           \A i \in AllTracks : fs[i] # Null
    PROVE  Assigned(fd, ls, [i \in AllTracks |-> IF fs[i] = Ignored THEN Null ELSE fs[i]])
  <1> DEFINE ft == [i \in AllTracks |-> IF fs[i] = Ignored THEN Null ELSE fs[i]]
             L == fd.line
             size == Len(Files[fd.file])
  <1>1. L \in Nat /\ Len(ls) \in Nat /\ size \in Nat /\ DOMAIN Files[fd.file] = 1..size
    BY ConfigAssumption DEF Place, Lists
  <1> SUFFICES ASSUME NEW i \in AllTracks
               PROVE  \E n \in Ranges(fd) : Gives(fd, ls, n, i, ft[i], Null)
    BY DEF Assigned
  <1>2. PICK n \in (L + 1)..(end - 1) : Gives(fd, ls, n, i, fs[i], Ignored)
    BY DEF Taken
  <1>3. n \in Ranges(fd)
    <2>1. n \in (L + 1)..size
      <3>1. n \in DOMAIN Files[fd.file]
        BY DEF Taken
      <3> QED
        BY <1>1, <3>1
    <2>2. ASSUME NEW m \in (L + 1)..size, Files[fd.file][m].k # "range"
          PROVE  n < m
      <3>1. ~(m \in (L + 1)..(end - 1))
        BY <2>2 DEF Taken
      <3> QED
        BY <1>1, <3>1
    <2> QED
      BY <2>1, <2>2 DEF Ranges
  <1>4. Gives(fd, ls, n, i, ft[i], Null)
    <2>1. CASE IsIgnore(Files[fd.file][n])
      <3>1. fs[i] = Ignored
        BY <1>2, <2>1 DEF Gives
      <3>2. ft[i] = Null
        BY <3>1
      <3> QED
        BY <1>2, <2>1, <3>2 DEF Gives
    <2>2. CASE ~IsIgnore(Files[fd.file][n])
      <3>1. fs[i] \in 1..Len(ls)
        BY <1>2, <2>2 DEF Gives
      <3>2. ft[i] = fs[i]
        BY <1>1, <3>1 DEF Ignored
      <3> QED
        BY <1>2, <2>2, <3>2 DEF Gives
    <2> QED
      BY <2>1, <2>2
  <1> QED
    BY <1>3, <1>4

\* The position in a list moves to another place of the list.
LEMMA Rotates ==
    ASSUME NEW l \in Nat \ {0}, NEW p \in 0..(l - 1)
    PROVE  (p + 1) % l = (IF p + 1 = l THEN 0 ELSE p + 1) /\ (p + 1) % l \in 0..(l - 1)
  <1>1. (p + 1) % l = IF p + 1 = l THEN 0 ELSE p + 1
    OBVIOUS
  <1> QED
    BY <1>1

\* Turning one list keeps the lists, their formats and their number.
LEMMA TurnList ==
    ASSUME NEW ls, Lists(ls), NEW v \in 1..Len(ls),
           NEW lt, lt = [ls EXCEPT ![v].pos = (@ + 1) % Len(ls[v].ent)]
    PROVE  /\ Lists(lt) /\ Len(lt) = Len(ls)
           /\ \A k \in 1..Len(ls) : lt[k].ent = ls[k].ent
           /\ lt[v].pos = (ls[v].pos + 1) % Len(ls[v].ent)
  <1> DEFINE T == [ent : Seq(STRING), pos : Nat]
             l == Len(ls[v].ent)
             p == (ls[v].pos + 1) % l
             new == [ls[v] EXCEPT !.pos = p]
  <1>1. /\ ls \in Seq(T) /\ ls[v] \in T /\ Len(ls) \in Nat
        /\ ls[v].pos < l /\ ls[v].pos \in Nat /\ l \in Nat
    <2>1. ls \in Seq(T) /\ ls[v].pos < l
      BY DEF Lists
    <2>2. ls[v] \in T /\ Len(ls) \in Nat
      <3> HIDE DEF T
      <3> QED
        BY <2>1, ElementOfSeq, LenProperties
    <2>3. ls[v].ent \in Seq(STRING) /\ ls[v].pos \in Nat
      BY <2>2
    <2> QED
      BY <2>1, <2>2, <2>3, LenProperties
  <1>2. p \in 0..(l - 1)
    BY <1>1, Rotates
  <1>3. new \in T /\ new.pos = p /\ new.ent = ls[v].ent
    <2>1. p \in Nat
      BY <1>1, <1>2
    <2> HIDE DEF p, l
    <2> QED
      BY <1>1, <2>1
  <1>4. lt = [ls EXCEPT ![v] = new]
    OBVIOUS
  <1> HIDE DEF new, p
  <1>5. /\ lt \in Seq(T) /\ Len(lt) = Len(ls)
        /\ \A k \in 1..Len(ls) : lt[k] = IF k = v THEN new ELSE ls[k]
    <2> HIDE DEF T
    <2> DEFINE turned == [ls EXCEPT ![v] = new]
    <2>1. /\ turned \in Seq(T) /\ Len(turned) = Len(ls)
          /\ \A k \in 1..Len(ls) : turned[k] = IF k = v THEN new ELSE ls[k]
      BY <1>1, <1>3, ExceptSeq
    <2>2. lt = turned
      BY <1>4
    <2> HIDE DEF turned
    <2> QED
      BY <2>1, <2>2
  <1>6. ASSUME NEW k \in 1..Len(lt)
        PROVE  lt[k].pos < Len(lt[k].ent) /\ ToSet(lt[k].ent) \subseteq Formats
    <2>1. CASE k = v
      <3>1. p < l
        BY <1>1, <1>2
      <3> QED
        BY <1>3, <1>5, <2>1, <3>1 DEF Lists
    <2>2. CASE k # v
      BY <1>5, <2>2 DEF Lists
    <2> QED
      BY <2>1, <2>2
  <1> QED
    BY <1>3, <1>5, <1>6 DEF Lists, p

-----------------------------------------------------------------------------
LEMMA ConfigInit == Init => ConfigInv
  <1> SUFFICES ASSUME Init
               PROVE  ConfigInv
    OBVIOUS
  <1>1. /\ pc = "search" /\ input \in {"stream", "img"}
        /\ stack = <<[file |-> Main, line |-> 1]>>
        /\ found = [file |-> Main, line |-> 0]
        /\ formats = [i \in AllTracks |-> Null] /\ lists = <<>>
    BY DEF Init
  <1>2. Main \in DOMAIN Files
    BY ConfigAssumption
  <1>3. found \in Place
    BY <1>1, <1>2 DEF Place
  <1>4. Stacked(stack)
    BY <1>1, <1>2 DEF Stacked
  <1>5. Lists(lists)
    BY <1>1 DEF Lists
  <1> QED
    BY <1>1, <1>3, <1>4, <1>5 DEF ConfigInv, Parsed

\* The search leaves the definition empty.
LEMMA ConfigSearch ==
    ASSUME ConfigInv, PassOver \/ Include \/ Alias \/ Found \/ EndOfFile
    PROVE  ConfigInv'
  <1>1. /\ pc = "search" /\ Stacked(stack) /\ found \in Place
        /\ formats = [i \in AllTracks |-> Null] /\ lists = <<>> /\ Lists(lists)
        /\ input \in {"stream", "img"}
    BY DEF ConfigInv, PassOver, Include, Alias, Found, EndOfFile, Searching, Named
  <1>2. formats' = formats /\ lists' = lists /\ input' = input
    BY DEF PassOver, Include, Alias, Found, EndOfFile, Searching, Named
  <1>3. /\ Stacked(NextLine)
        /\ Head(NextLine).file = Head(stack).file
        /\ Head(NextLine).line = Head(stack).line + 1
        /\ Head(stack).line \in Nat \ {0} /\ Head(stack) \in Place
    BY <1>1, NextLineProperties
  <1>4. ASSUME pc' = "search", Stacked(stack'), found' = found
        PROVE  ConfigInv'
    BY <1>1, <1>2, <1>4 DEF ConfigInv, Parsed
  <1>5. CASE PassOver \/ Alias
    <2>1. pc' = "search" /\ stack' = NextLine /\ found' = found
      BY <1>1, <1>5 DEF PassOver, Alias
    <2> QED
      BY <1>3, <1>4, <2>1
  <1>6. CASE Include
    <2> DEFINE P == [file : DOMAIN Files, line : Nat \ {0}]
               new == <<[file |-> Here.file, line |-> 1]>>
    <2>1. pc' = "search" /\ stack' = new \o NextLine /\ found' = found
          /\ Here.k = "include"
      BY <1>1, <1>6 DEF Include, Searching
    <2>2. Here.file \in DOMAIN Files
      <3>1. Head(stack) \in [file : DOMAIN Files, line : Nat \ {0}]
        BY <1>1, HeadTailProperties DEF Stacked
      <3>2. Head(stack).file \in DOMAIN Files
        BY <3>1
      <3> QED
        BY <1>1, <2>1, <3>2, LinesAreThere, ConfigAssumption
    <2>3. new \in Seq(P) /\ Len(new) = 1 /\ NextLine \in Seq(P)
      BY <1>3, <2>2 DEF Stacked
    <2> HIDE DEF new
    <2>4. new \o NextLine \in Seq(P) /\ new \o NextLine # <<>>
      <3> HIDE DEF P
      <3>1. /\ new \o NextLine \in Seq(P)
            /\ Len(new \o NextLine) = Len(new) + Len(NextLine)
            /\ Len(NextLine) \in Nat
        BY <2>3, ConcatProperties, LenProperties
      <3>2. Len(new \o NextLine) # 0
        BY <2>3, <3>1
      <3> QED
        BY <3>1, <3>2, EmptySeq
    <2> QED
      BY <1>4, <2>1, <2>4 DEF Stacked
  <1>7. CASE Found
    <2>1. pc' = "ranges" /\ found' = Head(stack) /\ stack' = NextLine
      BY <1>7 DEF Found
    <2>2. Taken(Head(stack), <<>>, [i \in AllTracks |-> Null], Head(stack).line + 1)
      BY <1>3, TakenNone
    <2>3. Head(stack).line + 1 > Head(stack).line
      BY <1>3
    <2>4. /\ Head(stack').file = found'.file
          /\ Head(stack').line > found'.line
          /\ Taken(found', lists', formats', Head(stack').line)
      BY <1>1, <1>2, <1>3, <2>1, <2>2, <2>3
    <2> QED
      BY <1>1, <1>2, <1>3, <2>1, <2>4 DEF ConfigInv, Parsed
  <1>8. CASE EndOfFile
    <2>1. found' = found
      BY <1>8 DEF EndOfFile
    <2>2. CASE Len(stack) > 1
      <3>1. stack' = Tail(stack) /\ pc' = "search"
        BY <1>1, <1>8, <2>2 DEF EndOfFile
      <3>2. Stacked(Tail(stack))
        <4> DEFINE P == [file : DOMAIN Files, line : Nat \ {0}]
        <4>1. stack \in Seq(P) /\ stack # <<>>
          BY <1>1 DEF Stacked
        <4>2. /\ Tail(stack) \in Seq(P) /\ Len(Tail(stack)) = Len(stack) - 1
              /\ Len(stack) \in Nat
          <5> HIDE DEF P
          <5> QED
            BY <4>1, HeadTailProperties, LenProperties
        <4>3. Len(Tail(stack)) # 0
          <5> DEFINE l == Len(stack)
                     m == Len(Tail(stack))
          <5>1. m = l - 1 /\ l \in Nat /\ l > 1
            BY <2>2, <4>2
          <5> HIDE DEF l, m
          <5>2. m # 0
            BY <5>1
          <5> QED
            BY <5>2 DEF m
        <4>4. Tail(stack) # <<>>
          BY <4>3
        <4> QED
          BY <4>2, <4>4 DEF Stacked
      <3> QED
        BY <1>4, <2>1, <3>1, <3>2
    <2>3. CASE ~(Len(stack) > 1)
      <3>1. pc' = "nomatch"
        BY <1>8, <2>3 DEF EndOfFile
      <3> QED
        BY <1>1, <1>2, <2>1, <3>1 DEF ConfigInv, Parsed
    <2> QED
      BY <2>2, <2>3
  <1> QED
    BY <1>5, <1>6, <1>7, <1>8

LEMMA ConfigTakeRange ==
    ASSUME ConfigInv, TakeRange
    PROVE  ConfigInv'
  <1> DEFINE end == Head(stack).line
             range == Files[found.file][end]
             entry == [ent |-> range.fmts, pos |-> 0]
             lt == IF IsIgnore(range) THEN lists ELSE Append(lists, entry)
             ft == [i \in AllTracks |->
                      IF formats[i] # Null \/ i \notin Covers(range) THEN formats[i]
                      ELSE IF IsIgnore(range) THEN Ignored ELSE Len(lt)]
  <1>1. /\ pc = "ranges" /\ Stacked(stack) /\ found \in Place
        /\ Head(stack).file = found.file /\ end > found.line
        /\ Taken(found, lists, formats, end) /\ Lists(lists)
        /\ input \in {"stream", "img"}
    BY DEF ConfigInv, TakeRange, Defining
  <1>2. /\ Here.k = "range" /\ ~Wrong(Here)
        /\ pc' = "ranges" /\ stack' = NextLine /\ found' = found /\ input' = input
    BY <1>1 DEF TakeRange, Defining
  <1>3. end \in DOMAIN Files[found.file] /\ Here = range /\ found.file \in DOMAIN Files
    BY <1>1, <1>2, LinesAreThere DEF Place
  <1>4. lists' = lt /\ formats' = ft
    BY <1>3 DEF TakeRange
  <1>5. /\ Stacked(NextLine)
        /\ Head(NextLine).file = Head(stack).file
        /\ Head(NextLine).line = end + 1 /\ end \in Nat
    BY <1>1, NextLineProperties
  <1>6. range.k = "range" /\ range.fmts \in Seq(STRING)
    BY <1>2, <1>3, ConfigAssumption
  <1>7. /\ Lists(lt)
        /\ IF IsIgnore(range) THEN lt = lists
           ELSE /\ Len(lt) = Len(lists) + 1
                /\ \A k \in 1..Len(lists) : lt[k] = lists[k]
                /\ lt[Len(lt)].ent = range.fmts
    <2>1. CASE IsIgnore(range)
      BY <1>1, <2>1
    <2>2. CASE ~IsIgnore(range)
      <3> DEFINE T == [ent : Seq(STRING), pos : Nat]
      <3>1. range.fmts # <<>> /\ ToSet(range.fmts) \subseteq Formats
        BY <1>2, <1>3, <2>2 DEF Wrong
      <3>2. entry \in T /\ entry.ent = range.fmts /\ entry.pos = 0
        BY <1>6
      <3>3. Len(range.fmts) \in Nat \ {0}
        BY <1>6, <3>1, EmptySeq
      <3>4. lists \in Seq(T) /\ Len(lists) \in Nat
        BY <1>1 DEF Lists
      <3>5. lt = Append(lists, entry)
        BY <2>2
      <3> HIDE DEF entry, lt, T
      <3>6. /\ lt \in Seq(T) /\ Len(lt) = Len(lists) + 1
            /\ \A k \in 1..Len(lists) : lt[k] = lists[k]
            /\ lt[Len(lists) + 1] = entry
        BY <3>2, <3>4, <3>5, AppendProperties
      <3>7. ASSUME NEW k \in 1..Len(lt)
            PROVE  lt[k].pos < Len(lt[k].ent) /\ ToSet(lt[k].ent) \subseteq Formats
        <4>1. k = Len(lists) + 1 \/ k \in 1..Len(lists)
          BY <3>4, <3>6
        <4>2. CASE k = Len(lists) + 1
          BY <3>1, <3>2, <3>3, <3>6, <4>2
        <4>3. CASE k \in 1..Len(lists)
          BY <1>1, <3>6, <4>3 DEF Lists
        <4> QED
          BY <4>1, <4>2, <4>3
      <3> QED
        BY <2>2, <3>2, <3>6, <3>7 DEF Lists, T
    <2> QED
      BY <2>1, <2>2
  <1>8. Taken(found, lt, ft, end + 1)
    <2> HIDE DEF lt
    <2> QED
      BY <1>1, <1>3, <1>5, <1>6, <1>7, TakenStep
  <1>9. end + 1 > found.line
    BY <1>1, <1>5 DEF Place
  <1>10. DOMAIN ft = AllTracks
    OBVIOUS
  <1> HIDE DEF lt, ft
  <1>11. /\ Head(stack').file = found'.file
         /\ Head(stack').line > found'.line
         /\ Taken(found', lists', formats', Head(stack').line)
    <2>1. Head(stack').line = end + 1
      BY <1>2, <1>5
    <2> HIDE DEF end
    <2> QED
      BY <1>1, <1>2, <1>4, <1>5, <1>8, <1>9, <2>1
  <1>12. DOMAIN formats' = AllTracks /\ Lists(lists')
    BY <1>4, <1>7, <1>10
  <1> QED
    BY <1>1, <1>2, <1>5, <1>11, <1>12 DEF ConfigInv, Parsed

LEMMA ConfigRangesEnd ==
    ASSUME ConfigInv, RangesEnd
    PROVE  ConfigInv'
  <1> DEFINE end == Head(stack).line
             ft == [i \in AllTracks |->
                      IF formats[i] = Ignored THEN Null ELSE formats[i]]
  <1>1. /\ pc = "ranges" /\ Stacked(stack) /\ found \in Place
        /\ Head(stack).file = found.file /\ end > found.line
        /\ Taken(found, lists, formats, end) /\ Lists(lists)
        /\ DOMAIN formats = AllTracks
        /\ input \in {"stream", "img"}
    BY DEF ConfigInv, RangesEnd, Defining
  <1>2. found' = found /\ input' = input /\ lists' = lists
    BY DEF RangesEnd, Defining
  <1>3. CASE Null \in {formats[i] : i \in AllTracks}
    <2>1. pc' = "error" /\ formats' = formats
      BY <1>3 DEF RangesEnd
    <2> QED
      BY <1>1, <1>2, <2>1 DEF ConfigInv, Parsed
  <1>4. CASE Null \notin {formats[i] : i \in AllTracks}
    <2>1. pc' = input /\ formats' = ft
      BY <1>4 DEF RangesEnd
    <2>2. end \in Nat /\ found.file \in DOMAIN Files
      BY <1>1, NextLineProperties DEF Place
    <2>3. \A i \in AllTracks : formats[i] # Null
      BY <1>4
    <2>4. Assigned(found, lists, ft)
      BY <1>1, <2>2, <2>3, TakenAll
    <2>5. DOMAIN ft = AllTracks
      OBVIOUS
    <2> HIDE DEF ft
    <2>6. Assigned(found', lists', formats') /\ DOMAIN formats' = AllTracks
      BY <1>2, <2>1, <2>4, <2>5
    <2> QED
      BY <1>1, <1>2, <2>1, <2>6 DEF ConfigInv, Parsed
  <1> QED
    BY <1>3, <1>4

\* Handling the tracks changes no more of the configuration than positions.
LEMMA ConfigHandling ==
    ASSUME ConfigInv, pc \in Parsed, pc' \in Parsed \cup {"error"},
           pc' \in {"stream", "check"} => pc \in {"stream", "check"},
           pc' = "img" => pc = "img",
           UNCHANGED <<input, found, formats>>,
           Lists(lists'), Len(lists') = Len(lists),
           \A k \in 1..Len(lists) : lists'[k].ent = lists[k].ent
    PROVE  ConfigInv'
  <1>1. /\ Assigned(found, lists, formats) /\ Lists(lists) /\ found \in Place
        /\ input \in {"stream", "img"} /\ DOMAIN formats = AllTracks
        /\ pc \in {"stream", "check"} => input = "stream"
        /\ pc = "img" => input = "img"
    BY DEF ConfigInv
  <1>2. Assigned(found, lists', formats)
    <2>1. Len(lists) \in Nat
      BY <1>1 DEF Lists
    <2> SUFFICES ASSUME NEW i \in AllTracks
                 PROVE  \E n \in Ranges(found) :
                           Gives(found, lists', n, i, formats[i], Null)
      BY DEF Assigned
    <2>2. PICK n \in Ranges(found) : Gives(found, lists, n, i, formats[i], Null)
      BY <1>1 DEF Assigned
    <2>3. Gives(found, lists', n, i, formats[i], Null)
      BY <2>2 DEF Gives
    <2> QED
      BY <2>3
  <1>3. Assigned(found', lists', formats')
    BY <1>2
  <1> QED
    BY <1>1, <1>3 DEF ConfigInv, Parsed

-----------------------------------------------------------------------------
(* The tracks that are handled. *)

LEMMA Product ==
    ASSUME NEW s \in Nat \ {0}, NEW k \in Int
    PROVE  s * k \in Int /\ (k >= 1 => s * k >= s) /\ (k <= -1 => s * k <= -s)
  <1>1. k >= 1 => s * k >= s
    <2> SUFFICES ASSUME k >= 1
                 PROVE  s * k >= s
      OBVIOUS
    <2>1. s * k = s + s * (k - 1) /\ s * (k - 1) >= 0
      OBVIOUS
    <2> QED
      BY <2>1
  <1>2. k <= -1 => s * k <= -s
    <2> SUFFICES ASSUME k <= -1
                 PROVE  s * k <= -s
      OBVIOUS
    <2>1. s * k = -s + s * (k + 1) /\ s * (k + 1) <= 0
      OBVIOUS
    <2> QED
      BY <2>1
  <1> QED
    BY <1>1, <1>2

\* A number has one remainder.
LEMMA Remainder ==
    ASSUME NEW s \in Nat \ {0}, NEW a \in Nat, NEW k \in Int, NEW r \in 0..(s - 1),
           a = s * k + r
    PROVE  a % s = r
  <1> DEFINE q == a \div s
             m == a % s
  <1>1. a = s * q + m /\ m \in 0..(s - 1) /\ q \in Int
    OBVIOUS
  <1> HIDE DEF q, m
  <1> DEFINE d == k - q
             y == s * d
  <1>2. d \in Int /\ y \in Int /\ (d >= 1 => y >= s) /\ (d <= -1 => y <= -s)
    <2>1. d \in Int
      BY <1>1
    <2> HIDE DEF d
    <2> QED
      BY <2>1, Product
  <1>3. y = s * k - s * q
    BY <1>1
  <1>4. y = m - r
    <2>1. s * k \in Int /\ s * q \in Int
      BY <1>1, Product
    <2> QED
      BY <1>1, <1>3, <2>1
  <1> HIDE DEF y
  <1>5. d = 0
    <2> HIDE DEF d
    <2> QED
      BY <1>1, <1>2, <1>4
  <1>6. k = q
    BY <1>1, <1>5
  <1> QED
    BY <1>1, <1>6 DEF m

LEMMA Division ==
    ASSUME NEW s \in Nat \ {0}, NEW a \in Nat
    PROVE  a = s * (a \div s) + (a % s) /\ a \div s \in Int
  OBVIOUS

LEMMA NextHandled ==
    ASSUME NEW n \in Handled
    PROVE  /\ n \in Nat /\ n + TrackStep \in Nat
           /\ n + TrackStep <= LastTrack => n + TrackStep \in Handled
           /\ \A i \in Handled : i < n + TrackStep <=> (i < n \/ i = n)
  <1> DEFINE s == TrackStep
             a == n - FirstTrack
             k == a \div s
  <1>1. s \in Nat \ {0} /\ n \in FirstTrack..LastTrack /\ a % s = 0
        /\ FirstTrack \in Nat /\ LastTrack \in Nat
    BY TracksAssumption DEF Handled
  <1>2. a \in Nat /\ n \in Nat /\ n + s \in Nat
    BY <1>1
  <1> HIDE DEF a
  <1>3. k \in Int /\ a = s * k
    <2>1. a = s * k + (a % s) /\ k \in Int
      <3> HIDE DEF s
      <3> QED
        BY <1>1, <1>2, Division
    <2> HIDE DEF k
    <2>2. s * k \in Int
      BY <1>1, <2>1, Product
    <2>3. a = s * k + 0
      BY <1>1, <2>1
    <2> DEFINE y == s * k
    <2>4. y \in Int /\ a = y + 0
      BY <2>2, <2>3
    <2> HIDE DEF y
    <2>5. a = y
      BY <2>4
    <2> QED
      BY <2>1, <2>5 DEF y
  <1> HIDE DEF k
  <1>4. s * (k + 1) = a + s /\ k + 1 \in Int
    BY <1>1, <1>2, <1>3
  <1>5. ASSUME n + s <= LastTrack
        PROVE  n + s \in Handled
    <2>1. (a + s) % s = 0
      <3>1. a + s = s * (k + 1) + 0 /\ 0 \in 0..(s - 1) /\ a + s \in Nat
        BY <1>1, <1>2, <1>4
      <3> QED
        BY <1>1, <1>4, <3>1, Remainder
    <2> DEFINE m == n + s
    <2>2. m - FirstTrack = a + s
      BY <1>1, <1>2 DEF a
    <2>3. m \in FirstTrack..LastTrack
      BY <1>1, <1>2, <1>5
    <2> HIDE DEF m
    <2>4. (m - FirstTrack) % s = 0
      BY <2>1, <2>2
    <2>5. m \in FirstTrack..LastTrack /\ (m - FirstTrack) % TrackStep = 0
      BY <2>3, <2>4
    <2>6. m \in Handled
      BY <2>5, Zenon DEF Handled
    <2> QED
      BY <2>6 DEF m
  <1>6. ASSUME NEW i \in Handled, i > n, i < n + s
        PROVE  FALSE
    <2> DEFINE b == i - FirstTrack
               r == i - n
    <2>1. i \in Nat /\ b % s = 0 /\ b \in Nat
      BY <1>1 DEF Handled
    <2>2. r \in 0..(s - 1) /\ r # 0 /\ b = s * k + r
      BY <1>1, <1>2, <1>3, <1>6, <2>1 DEF a
    <2> HIDE DEF b, r
    <2>3. b % s = r
      BY <1>1, <1>3, <2>1, <2>2, Remainder
    <2> QED
      BY <2>1, <2>2, <2>3
  <1>7. \A i \in Handled : i \in Nat
    BY <1>1 DEF Handled
  <1>8. \A i \in Handled : i < n + s <=> (i < n \/ i = n)
    BY <1>1, <1>2, <1>6, <1>7
  <1> QED
    BY <1>2, <1>5, <1>8

LEMMA FirstHandled ==
    /\ FirstTrack <= LastTrack => FirstTrack \in Handled
    /\ \A i \in Handled : i \in Nat /\ i >= FirstTrack /\ i <= LastTrack /\ i \in AllTracks
  <1>1. FirstTrack - FirstTrack = 0 /\ 0 % TrackStep = 0
    BY TracksAssumption
  <1>2. FirstTrack <= LastTrack => FirstTrack \in Handled
    BY <1>1, TracksAssumption DEF Handled
  <1>3. ASSUME NEW i \in Handled
        PROVE  i \in Nat /\ i >= FirstTrack /\ i <= LastTrack /\ i \in AllTracks
    BY TracksAssumption DEF Handled, AllTracks
  <1> QED
    BY <1>2, <1>3

LEMMA CountOne ==
    ASSUME NEW S \in SUBSET Handled, NEW x \in Handled, x \notin S
    PROVE  Cardinality(S \cup {x}) = Cardinality(S) + 1
  <1>1. IsFiniteSet(FirstTrack..LastTrack)
    BY TracksAssumption, FS_Interval
  <1>2. IsFiniteSet(S)
    BY <1>1, FS_Subset DEF Handled
  <1> QED
    BY <1>2, FS_AddElement

-----------------------------------------------------------------------------
(* Handling the tracks of a stream: fs, ls and dp are the tracks' lists and the *)
(* dump, d the disk, and n the track in hand.                              *)

Disks(d) == d \in [Handled -> [type : Formats \cup {"unformatted"}, bad : BOOLEAN]]

\* The places in a list of l formats that c failures up to position p cover.
Tried(p, l, c) == {x \in 0..(l - 1) : IF x < p THEN p - x <= c ELSE p + l - x <= c}

\* Track i has a format that accepts it, or is unformatted and none does.
Judged(fs, ls, dp, d, i) ==
    IF fs[i] = Null THEN d[i].type = "unformatted"
    ELSE LET good == {f \in ToSet(ls[fs[i]].ent) : dp[i][f] # "no"}
         IN  IF good = {} THEN d[i].type = "unformatted" ELSE d[i].type \in good

\* A track that the first pass counts, and one that the second pass does.
Unknown(fs, dp, d, i) ==
    /\ fs[i] # Null /\ d[i].type = "unformatted"
    /\ i < Unwarned /\ dp[i]["unformatted"] = "no"
Damaged(fs, dp, d, i) ==
    /\ fs[i] # Null /\ d[i].type # "unformatted"
    /\ dp[i][d[i].type] = "part"

InHand(n) == n \in Nat /\ (n <= LastTrack => n \in Handled)

\* The first c formats from the list's position backwards do not accept track n.
Refused(fs, ls, dp, n, c) ==
    n <= LastTrack /\ fs[n] # Null =>
        /\ c \in 0..Len(ls[fs[n]].ent)
        /\ \A x \in Tried(ls[fs[n]].pos, Len(ls[fs[n]].ent), c) :
             dp[n][ls[fs[n]].ent[x + 1]] = "no"

FirstPass(fs, ls, dp, d, n, c, u) ==
    /\ Disks(d) /\ InHand(n) /\ c \in Nat
    /\ \A i \in Handled : i < n =>
         Judged(fs, ls, dp, d, i) /\ (d[i].bad <=> Damaged(fs, dp, d, i))
    /\ Refused(fs, ls, dp, n, c)
    /\ u = Cardinality({i \in Handled : i < n /\ Unknown(fs, dp, d, i)})

SecondPass(fs, ls, dp, d, n, u) ==
    /\ Disks(d) /\ InHand(n)
    /\ \A i \in Handled : Judged(fs, ls, dp, d, i)
    /\ \A i \in Handled : i >= n => (d[i].bad <=> Damaged(fs, dp, d, i))
    /\ u = Cardinality({i \in Handled : Unknown(fs, dp, d, i)
                                         \/ (i < n /\ Damaged(fs, dp, d, i))})

Finished(fs, ls, dp, d, u) ==
    /\ \A i \in Handled : Judged(fs, ls, dp, d, i)
    /\ u = Cardinality({i \in Handled : Unknown(fs, dp, d, i) \/ Damaged(fs, dp, d, i)})

TracksInv ==
    /\ pc \in {"search", "ranges"} =>
         Disks(disk) /\ t = FirstTrack /\ j = 0 /\ unidentified = 0
    /\ pc = "stream" => FirstPass(formats, lists, dump, disk, t, j, unidentified)
    /\ pc = "check" => SecondPass(formats, lists, dump, disk, t, unidentified)
    /\ pc = "done" /\ input = "stream" =>
         Finished(formats, lists, dump, disk, unidentified)

IInv == ConfigInv /\ TracksInv

-----------------------------------------------------------------------------
LEMMA TriedNone ==
    ASSUME NEW l \in Nat, NEW p \in 0..(l - 1)
    PROVE  Tried(p, l, 0) = {}
  BY DEF Tried

LEMMA TriedOneMore ==
    ASSUME NEW l \in Nat \ {0}, NEW p \in 0..(l - 1), NEW c \in 0..(l - 1)
    PROVE  \A x \in Tried((p + 1) % l, l, c + 1) : x = p \/ x \in Tried(p, l, c)
  <1> DEFINE q == (p + 1) % l
  <1>1. q = IF p + 1 = l THEN 0 ELSE p + 1
    BY Rotates
  <1> HIDE DEF q
  <1>2. CASE p + 1 = l
    BY <1>1, <1>2 DEF Tried
  <1>3. CASE p + 1 # l
    BY <1>1, <1>3 DEF Tried
  <1> QED
    BY <1>2, <1>3 DEF q

LEMMA TriedAll ==
    ASSUME NEW l \in Nat, NEW p \in 0..(l - 1), NEW x \in 0..(l - 1)
    PROVE  x \in Tried(p, l, l)
  BY DEF Tried

\* The formats of a list stand at the positions from 0 up.
LEMMA ListPlaces ==
    ASSUME NEW e \in Seq(STRING)
    PROVE  /\ \A x \in 0..(Len(e) - 1) : e[x + 1] \in ToSet(e)
           /\ \A f \in ToSet(e) : \E x \in 0..(Len(e) - 1) : f = e[x + 1]
  <1>1. Len(e) \in Nat /\ DOMAIN e = 1..Len(e)
    BY LenProperties
  <1>2. \A x \in 0..(Len(e) - 1) : x + 1 \in 1..Len(e)
    BY <1>1
  <1>3. \A k \in 1..Len(e) : \E x \in 0..(Len(e) - 1) : k = x + 1
    <2> SUFFICES ASSUME NEW k \in 1..Len(e)
                 PROVE  \E x \in 0..(Len(e) - 1) : k = x + 1
      OBVIOUS
    <2>1. k - 1 \in 0..(Len(e) - 1) /\ k = (k - 1) + 1
      BY <1>1
    <2> QED
      BY <2>1
  <1> QED
    BY <1>1, <1>2, <1>3 DEF ToSet

\* A track's list is one of the lists, and has its formats.
LEMMA ListOf ==
    ASSUME NEW fd, NEW ls, NEW fs, Lists(ls), Assigned(fd, ls, fs),
           NEW i \in AllTracks, fs[i] # Null
    PROVE  /\ fs[i] \in 1..Len(ls) /\ Len(ls) \in Nat
           /\ ls[fs[i]].ent \in Seq(STRING)
           /\ Len(ls[fs[i]].ent) \in Nat \ {0}
           /\ ls[fs[i]].pos \in 0..(Len(ls[fs[i]].ent) - 1)
           /\ ToSet(ls[fs[i]].ent) \subseteq Formats
           /\ \A x \in 0..(Len(ls[fs[i]].ent) - 1) :
                ls[fs[i]].ent[x + 1] \in ToSet(ls[fs[i]].ent)
  <1> DEFINE v == fs[i]
             T == [ent : Seq(STRING), pos : Nat]
             e == ls[v].ent
  <1>1. v \in 1..Len(ls) /\ Len(ls) \in Nat
    <2>1. PICK n \in Ranges(fd) : Gives(fd, ls, n, i, v, Null)
      BY DEF Assigned
    <2>2. Len(ls) \in Nat
      BY DEF Lists
    <2> QED
      BY <2>1, <2>2 DEF Gives
  <1>2. ls[v] \in T
    <2>1. ls \in Seq(T)
      BY DEF Lists
    <2> HIDE DEF T, v
    <2> QED
      BY <1>1, <2>1, ElementOfSeq
  <1>3. e \in Seq(STRING) /\ ls[v].pos \in Nat
    BY <1>2
  <1>4. ls[v].pos < Len(e) /\ ToSet(e) \subseteq Formats
    BY <1>1 DEF Lists
  <1>5. Len(e) \in Nat /\ DOMAIN e = 1..Len(e)
    BY <1>3, LenProperties
  <1>6. Len(e) \in Nat \ {0} /\ ls[v].pos \in 0..(Len(e) - 1)
    BY <1>3, <1>4, <1>5
  <1> HIDE DEF e
  <1>7. \A x \in 0..(Len(e) - 1) : e[x + 1] \in ToSet(e)
    BY <1>3, ListPlaces
  <1> QED
    BY <1>1, <1>3, <1>4, <1>6, <1>7 DEF e

\* No format has been tried on the track that is taken in hand next.
LEMMA RefusedNone ==
    ASSUME NEW fd, NEW ls, NEW fs, NEW dp, Lists(ls), Assigned(fd, ls, fs),
           NEW n, InHand(n)
    PROVE  Refused(fs, ls, dp, n, 0)
  <1> SUFFICES ASSUME n <= LastTrack, fs[n] # Null
               PROVE  /\ 0 \in 0..Len(ls[fs[n]].ent)
                      /\ \A x \in Tried(ls[fs[n]].pos, Len(ls[fs[n]].ent), 0) :
                           dp[n][ls[fs[n]].ent[x + 1]] = "no"
    BY DEF Refused
  <1>1. n \in AllTracks
    BY FirstHandled DEF InHand
  <1>2. Len(ls[fs[n]].ent) \in Nat \ {0}
        /\ ls[fs[n]].pos \in 0..(Len(ls[fs[n]].ent) - 1)
    BY <1>1, ListOf
  <1> QED
    BY <1>2, TriedNone

\* Once track n is settled, the next one is in hand.
LEMMA FirstPassNext ==
    ASSUME NEW fd, NEW ls, NEW fs, NEW dp, Lists(ls), Assigned(fd, ls, fs),
           NEW d, NEW n, NEW c, NEW u, FirstPass(fs, ls, dp, d, n, c, u), n <= LastTrack,
           NEW e, Disks(e), \A i \in Handled : i # n => e[i] = d[i],
           Judged(fs, ls, dp, e, n), e[n].bad <=> Damaged(fs, dp, e, n),
           NEW v, v = IF Unknown(fs, dp, e, n) THEN u + 1 ELSE u
    PROVE  FirstPass(fs, ls, dp, e, n + TrackStep, 0, v)
  <1> DEFINE m == n + TrackStep
             S == {i \in Handled : i < n /\ Unknown(fs, dp, d, i)}
             R == {i \in Handled : i < m /\ Unknown(fs, dp, e, i)}
  <1>1. n \in Handled /\ u = Cardinality(S)
    BY DEF FirstPass, InHand
  <1>2. /\ m \in Nat /\ n \in Nat /\ (m <= LastTrack => m \in Handled)
        /\ \A i \in Handled : i < m <=> (i < n \/ i = n)
    BY <1>1, NextHandled
  <1> HIDE DEF m
  <1>3. InHand(m)
    BY <1>2 DEF InHand
  <1>4. \A i \in Handled : i # n =>
           /\ Judged(fs, ls, dp, e, i) <=> Judged(fs, ls, dp, d, i)
           /\ Unknown(fs, dp, e, i) <=> Unknown(fs, dp, d, i)
           /\ Damaged(fs, dp, e, i) <=> Damaged(fs, dp, d, i)
    BY DEF Judged, Unknown, Damaged
  <1>5. \A i \in Handled : i < n => i # n
    BY <1>2, FirstHandled
  <1>6. \A i \in Handled : i < m =>
           Judged(fs, ls, dp, e, i) /\ (e[i].bad <=> Damaged(fs, dp, e, i))
    BY <1>2, <1>4, <1>5 DEF FirstPass
  <1>7. v = Cardinality(R)
    <2>1. n \notin S /\ S \in SUBSET Handled
      BY <1>2
    <2>2. CASE Unknown(fs, dp, e, n)
      <3>1. R = S \cup {n}
        BY <1>1, <1>2, <1>4, <1>5, <2>2
      <3> HIDE DEF S, R
      <3> QED
        BY <1>1, <2>1, <2>2, <3>1, CountOne
    <2>3. CASE ~Unknown(fs, dp, e, n)
      <3>1. R = S
        BY <1>1, <1>2, <1>4, <1>5, <2>3
      <3> HIDE DEF S, R
      <3> QED
        BY <1>1, <2>3, <3>1
    <2> QED
      BY <2>2, <2>3
  <1>8. Refused(fs, ls, dp, m, 0)
    BY <1>3, RefusedNone
  <1> QED
    BY <1>3, <1>6, <1>7, <1>8 DEF FirstPass, m

-----------------------------------------------------------------------------
\* What the actions on the tracks of a stream start from.
LEMMA StreamStart ==
    ASSUME IInv, pc = "stream"
    PROVE  /\ FirstPass(formats, lists, dump, disk, t, j, unidentified)
           /\ Lists(lists) /\ Assigned(found, lists, formats)
           /\ \A i \in Handled : disk[i] \in [type : Formats \cup {"unformatted"},
                                            bad : BOOLEAN]
           /\ t <= LastTrack => t \in Handled /\ t \in AllTracks
  <1>1. /\ FirstPass(formats, lists, dump, disk, t, j, unidentified)
        /\ Lists(lists) /\ Assigned(found, lists, formats)
    BY DEF IInv, ConfigInv, TracksInv, Parsed
  <1>2. t <= LastTrack => t \in Handled /\ t \in AllTracks
    BY <1>1, FirstHandled DEF FirstPass, InHand
  <1>3. \A i \in Handled : disk[i] \in [type : Formats \cup {"unformatted"},
                                      bad : BOOLEAN]
    BY <1>1 DEF FirstPass, Disks
  <1> QED
    BY <1>1, <1>2, <1>3

\* A first pass that stays in the first pass.
LEMMA StillFirstPass ==
    ASSUME IInv, pc = "stream", pc' = "stream",
           UNCHANGED <<input, found, formats, dump>>,
           Lists(lists'), Len(lists') = Len(lists),
           \A k \in 1..Len(lists) : lists'[k].ent = lists[k].ent,
           FirstPass(formats, lists', dump, disk', t', j', unidentified')
    PROVE  IInv'
  <1>1. ConfigInv'
    BY ConfigHandling DEF IInv, Parsed
  <1>2. FirstPass(formats', lists', dump', disk', t', j', unidentified')
    BY Zenon
  <1>3. TracksInv'
    BY <1>2 DEF TracksInv
  <1> QED
    BY <1>1, <1>3 DEF IInv

LEMMA AcceptFormat ==
    ASSUME IInv, TryFormat,
           dump[t][Entry(t).ent[Entry(t).pos + 1]] # "no"
    PROVE  IInv'
  <1> DEFINE f == Entry(t).ent[Entry(t).pos + 1]
             new == [type |-> f, bad |-> dump[t][f] = "part"]
             e == [disk EXCEPT ![t] = new]
  <1>1. /\ pc = "stream" /\ pc' = "stream" /\ t <= LastTrack
        /\ formats[t] # Null
        /\ UNCHANGED <<input, found, formats, dump, lists, unidentified>>
        /\ disk' = e /\ t' = t + TrackStep /\ j' = 0
    BY DEF TryFormat, Handling, Untried, parseVars
  <1>2. /\ FirstPass(formats, lists, dump, disk, t, j, unidentified)
        /\ Lists(lists) /\ Assigned(found, lists, formats)
        /\ t \in Handled /\ t \in AllTracks
    BY <1>1, StreamStart
  <1>3. f \in ToSet(lists[formats[t]].ent) /\ f \in Formats
    <2>1. /\ lists[formats[t]].pos \in 0..(Len(lists[formats[t]].ent) - 1)
          /\ ToSet(lists[formats[t]].ent) \subseteq Formats
          /\ \A x \in 0..(Len(lists[formats[t]].ent) - 1) :
                lists[formats[t]].ent[x + 1] \in ToSet(lists[formats[t]].ent)
      BY <1>1, <1>2, ListOf
    <2> QED
      BY <2>1 DEF Entry
  <1>4. dump[t][f] # "no" /\ f # "unformatted"
    BY <1>3, ConfigAssumption
  <1> HIDE DEF f
  <1>5. new \in [type : Formats \cup {"unformatted"}, bad : BOOLEAN]
    <2>1. (dump[t][f] = "part") \in BOOLEAN
      OBVIOUS
    <2> QED
      BY <1>3, <2>1
  <1>6. new.type = f /\ (new.bad <=> dump[t][f] = "part")
    OBVIOUS
  <1> HIDE DEF new
  <1>7. Disks(e) /\ e[t] = new /\ \A i \in Handled : i # t => e[i] = disk[i]
    BY <1>2, <1>5 DEF FirstPass, Disks
  <1> HIDE DEF e
  <1>8. Judged(formats, lists, dump, e, t)
    BY <1>1, <1>3, <1>4, <1>6, <1>7 DEF Judged
  <1>9. e[t].bad <=> Damaged(formats, dump, e, t)
    <2>1. Damaged(formats, dump, e, t) <=> dump[t][f] = "part"
      BY <1>1, <1>4, <1>6, <1>7 DEF Damaged
    <2> QED
      BY <1>6, <1>7, <2>1
  <1>10. ~Unknown(formats, dump, e, t)
    BY <1>4, <1>6, <1>7 DEF Unknown
  <1>11. FirstPass(formats, lists, dump, e, t + TrackStep, 0, unidentified)
    BY <1>1, <1>2, <1>7, <1>8, <1>9, <1>10, FirstPassNext
  <1> QED
    BY <1>1, <1>2, <1>11, StillFirstPass

LEMMA RefuseFormat ==
    ASSUME IInv, TryFormat,
           dump[t][Entry(t).ent[Entry(t).pos + 1]] = "no"
    PROVE  IInv'
  <1> DEFINE v == formats[t]
             l == Len(lists[v].ent)
             p == lists[v].pos
             lt == [lists EXCEPT ![v].pos = (@ + 1) % Len(lists[v].ent)]
             e == [disk EXCEPT ![t] = Unformatted]
  <1>1. /\ pc = "stream" /\ pc' = "stream" /\ t <= LastTrack
        /\ v # Null /\ j < l
        /\ UNCHANGED <<input, found, formats, dump, unidentified, t>>
        /\ lists' = lt /\ disk' = e /\ j' = j + 1
    BY DEF TryFormat, Handling, Untried, Entry, parseVars
  <1>2. /\ FirstPass(formats, lists, dump, disk, t, j, unidentified)
        /\ Lists(lists) /\ Assigned(found, lists, formats)
        /\ t \in Handled /\ t \in AllTracks
    BY <1>1, StreamStart
  <1>3. /\ v \in 1..Len(lists) /\ l \in Nat \ {0} /\ p \in 0..(l - 1)
    BY <1>1, <1>2, ListOf
  <1>4. /\ Lists(lt) /\ Len(lt) = Len(lists)
        /\ \A k \in 1..Len(lists) : lt[k].ent = lists[k].ent
        /\ lt[v].pos = (p + 1) % l
    BY <1>2, <1>3, TurnList
  <1>5. /\ Disks(e) /\ \A i \in Handled : i # t => e[i] = disk[i]
    <2>1. Unformatted \in [type : Formats \cup {"unformatted"}, bad : BOOLEAN]
      BY DEF Unformatted
    <2> QED
      BY <1>2, <2>1 DEF FirstPass, Disks
  <1>6. \A i \in Handled : i < t => i # t /\ i \in AllTracks
    BY FirstHandled
  <1> HIDE DEF e, lt
  <1>7. ASSUME NEW i \in Handled, i < t
        PROVE  /\ Judged(formats, lt, dump, e, i)
               /\ e[i].bad <=> Damaged(formats, dump, e, i)
               /\ Unknown(formats, dump, e, i) <=> Unknown(formats, dump, disk, i)
    <2>1. e[i] = disk[i] /\ i \in AllTracks
      BY <1>5, <1>6, <1>7
    <2>2. Judged(formats, lists, dump, disk, i)
          /\ (disk[i].bad <=> Damaged(formats, dump, disk, i))
      BY <1>2, <1>7 DEF FirstPass
    <2>3. CASE formats[i] = Null
      BY <2>1, <2>2, <2>3 DEF Judged, Damaged, Unknown
    <2>4. CASE formats[i] # Null
      <3>1. formats[i] \in 1..Len(lists)
        BY <1>2, <2>1, <2>4, ListOf
      <3>2. lt[formats[i]].ent = lists[formats[i]].ent
        BY <1>4, <3>1
      <3>3. Judged(formats, lt, dump, e, i)
        BY <2>1, <2>2, <3>2 DEF Judged
      <3> QED
        BY <2>1, <2>2, <3>3 DEF Damaged, Unknown
    <2> QED
      BY <2>3, <2>4
  <1>8. {i \in Handled : i < t /\ Unknown(formats, dump, e, i)}
        = {i \in Handled : i < t /\ Unknown(formats, dump, disk, i)}
    BY <1>7
  <1>9. Refused(formats, lt, dump, t, j + 1)
    <2>1. j \in 0..(l - 1) /\ j + 1 \in 0..l
      BY <1>1, <1>2, <1>3 DEF FirstPass
    <2>2. \A x \in Tried(p, l, j) : dump[t][lists[v].ent[x + 1]] = "no"
      BY <1>1, <1>2 DEF FirstPass, Refused
    <2>3. dump[t][lists[v].ent[p + 1]] = "no"
      BY DEF Entry
    <2>4. \A x \in Tried((p + 1) % l, l, j + 1) : x = p \/ x \in Tried(p, l, j)
      BY <1>3, <2>1, TriedOneMore
    <2>5. \A x \in Tried((p + 1) % l, l, j + 1) : dump[t][lists[v].ent[x + 1]] = "no"
      BY <2>2, <2>3, <2>4
    <2>6. lt[v].ent = lists[v].ent
      BY <1>3, <1>4
    <2> QED
      BY <1>4, <2>1, <2>5, <2>6 DEF Refused
  <1>10. FirstPass(formats, lt, dump, e, t, j + 1, unidentified)
    <2>1. j + 1 \in Nat /\ InHand(t)
          /\ unidentified = Cardinality({i \in Handled : i < t /\ Unknown(formats, dump, disk, i)})
      BY <1>2 DEF FirstPass
    <2> QED
      BY <1>5, <1>7, <1>8, <1>9, <2>1 DEF FirstPass
  <1> QED
    BY <1>1, <1>4, <1>10, StillFirstPass

LEMMA GiveUpTrack ==
    ASSUME IInv, TryUnformatted
    PROVE  IInv'
  <1> DEFINE e == [disk EXCEPT ![t] = Unformatted]
             v == IF formats[t] # Null /\ dump[t]["unformatted"] = "no" /\ t < Unwarned
                  THEN unidentified + 1 ELSE unidentified
  <1>1. /\ pc = "stream" /\ pc' = "stream" /\ t <= LastTrack /\ ~Untried
        /\ UNCHANGED <<input, found, formats, dump, lists>>
        /\ disk' = e /\ t' = t + TrackStep /\ j' = 0 /\ unidentified' = v
    BY DEF TryUnformatted, Handling, parseVars
  <1>2. /\ FirstPass(formats, lists, dump, disk, t, j, unidentified)
        /\ Lists(lists) /\ Assigned(found, lists, formats)
        /\ t \in Handled /\ t \in AllTracks
    BY <1>1, StreamStart
  <1>3. /\ Disks(e) /\ e[t].type = "unformatted" /\ e[t].bad = FALSE
        /\ \A i \in Handled : i # t => e[i] = disk[i]
    <2>1. Unformatted \in [type : Formats \cup {"unformatted"}, bad : BOOLEAN]
      BY DEF Unformatted
    <2>2. Unformatted.type = "unformatted" /\ Unformatted.bad = FALSE
      BY DEF Unformatted
    <2>3. e[t] = Unformatted
      BY <1>2 DEF FirstPass, Disks
    <2>4. Disks(e) /\ \A i \in Handled : i # t => e[i] = disk[i]
      BY <1>2, <2>1 DEF FirstPass, Disks
    <2> HIDE DEF e
    <2> QED
      BY <2>2, <2>3, <2>4
  <1> HIDE DEF e
  <1>4. Judged(formats, lists, dump, e, t)
    <2>1. CASE formats[t] = Null
      BY <1>3, <2>1 DEF Judged
    <2>2. CASE formats[t] # Null
      <3>0. /\ Len(lists[formats[t]].ent) \in Nat \ {0}
            /\ lists[formats[t]].pos \in 0..(Len(lists[formats[t]].ent) - 1)
            /\ lists[formats[t]].ent \in Seq(STRING)
        <4>1. t \in AllTracks /\ Lists(lists) /\ Assigned(found, lists, formats)
          BY <1>2
        <4>2. Len(lists[formats[t]].ent) \in Nat \ {0}
          BY <2>2, <4>1, ListOf
        <4>3. lists[formats[t]].pos \in 0..(Len(lists[formats[t]].ent) - 1)
          BY <2>2, <4>1, ListOf
        <4>4. lists[formats[t]].ent \in Seq(STRING)
          BY <2>2, <4>1, ListOf
        <4> QED
          BY <4>2, <4>3, <4>4
      <3> DEFINE l == Len(lists[formats[t]].ent)
                 p == lists[formats[t]].pos
                 ent == lists[formats[t]].ent
      <3>1. /\ l \in Nat \ {0} /\ p \in 0..(l - 1)
            /\ \A f \in ToSet(ent) : \E x \in 0..(l - 1) : f = ent[x + 1]
        <4>1. ent \in Seq(STRING)
          BY <3>0
        <4>2. \A f \in ToSet(ent) : \E x \in 0..(Len(ent) - 1) : f = ent[x + 1]
          <5> HIDE DEF ent
          <5> QED
            BY <4>1, ListPlaces
        <4> QED
          BY <3>0, <4>2
      <3>2. j \in 0..l /\ \A x \in Tried(p, l, j) : dump[t][ent[x + 1]] = "no"
        BY <1>1, <1>2, <2>2 DEF FirstPass, Refused
      <3>3. j = l
        <4>1. ~(j < l)
          BY <1>1, <2>2 DEF Untried, Entry
        <4> HIDE DEF l
        <4> QED
          BY <3>1, <3>2, <4>1
      <3>4. \A x \in 0..(l - 1) : dump[t][ent[x + 1]] = "no"
        <4> HIDE DEF l, p, ent
        <4> QED
          BY <3>1, <3>2, <3>3, TriedAll
      <3>5. \A f \in ToSet(ent) : dump[t][f] = "no"
        BY <3>1, <3>4
      <3> QED
        BY <1>3, <2>2, <3>5 DEF Judged
    <2> QED
      BY <2>1, <2>2
  <1>5. e[t].bad <=> Damaged(formats, dump, e, t)
    BY <1>3 DEF Damaged
  <1>6. v = IF Unknown(formats, dump, e, t) THEN unidentified + 1 ELSE unidentified
    BY <1>3 DEF Unknown
  <1> HIDE DEF v
  <1>7. FirstPass(formats, lists, dump, e, t + TrackStep, 0, v)
    BY <1>1, <1>2, <1>3, <1>4, <1>5, <1>6, FirstPassNext
  <1> QED
    BY <1>1, <1>2, <1>7, StillFirstPass

LEMMA CheckOneTrack ==
    ASSUME IInv, CheckTrack
    PROVE  IInv'
  <1> DEFINE e == IF ClearBadSectors THEN [disk EXCEPT ![t].bad = FALSE] ELSE disk
             m == t + TrackStep
             S == {i \in Handled : Unknown(formats, dump, disk, i)
                                   \/ (i < t /\ Damaged(formats, dump, disk, i))}
             R == {i \in Handled : Unknown(formats, dump, e, i)
                                  \/ (i < m /\ Damaged(formats, dump, e, i))}
             v == IF disk[t].bad THEN unidentified + 1 ELSE unidentified
  <1>1. /\ pc = "check" /\ pc' = "check" /\ t <= LastTrack
        /\ UNCHANGED <<input, found, formats, dump, lists>>
        /\ disk' = e /\ t' = m /\ unidentified' = v
    BY DEF CheckTrack, Handling, parseVars
  <1>2. /\ SecondPass(formats, lists, dump, disk, t, unidentified)
        /\ Lists(lists) /\ ConfigInv
    BY <1>1 DEF IInv, ConfigInv, TracksInv
  <1>3. t \in Handled
    BY <1>1, <1>2 DEF SecondPass, InHand
  <1>4. /\ m \in Nat /\ t \in Nat /\ (m <= LastTrack => m \in Handled)
        /\ \A i \in Handled : i < m <=> (i < t \/ i = t)
        /\ \A i \in Handled : i \in Nat
    BY <1>3, NextHandled, FirstHandled
  <1> HIDE DEF m
  <1>5. /\ Disks(e) /\ \A i \in Handled : e[i].type = disk[i].type
        /\ \A i \in Handled : i # t => e[i] = disk[i]
    <2>1. CASE ~ClearBadSectors
      BY <1>2, <2>1 DEF SecondPass
    <2>2. CASE ClearBadSectors
      <3> DEFINE new == [disk[t] EXCEPT !.bad = FALSE]
                 T == [type : Formats \cup {"unformatted"}, bad : BOOLEAN]
      <3>1. disk \in [Handled -> T] /\ disk[t] \in T
        BY <1>2, <1>3 DEF SecondPass, Disks
      <3>2. new \in T /\ new.type = disk[t].type
        BY <3>1
      <3>3. e = [disk EXCEPT ![t] = new]
        BY <2>2
      <3> HIDE DEF new, e
      <3> QED
        BY <1>3, <3>1, <3>2, <3>3 DEF Disks
    <2> QED
      BY <2>1, <2>2
  <1> HIDE DEF e
  <1>6. \A i \in Handled :
           /\ Judged(formats, lists, dump, e, i) <=> Judged(formats, lists, dump, disk, i)
           /\ Unknown(formats, dump, e, i) <=> Unknown(formats, dump, disk, i)
           /\ Damaged(formats, dump, e, i) <=> Damaged(formats, dump, disk, i)
    BY <1>5 DEF Judged, Unknown, Damaged
  <1>7. \A i \in Handled : i >= m => (e[i].bad <=> Damaged(formats, dump, e, i))
    <2>1. \A i \in Handled : i >= m => i >= t /\ i # t
      BY <1>3, <1>4
    <2>2. \A i \in Handled : i >= t => (disk[i].bad <=> Damaged(formats, dump, disk, i))
      BY <1>2 DEF SecondPass
    <2> QED
      BY <1>5, <1>6, <2>1, <2>2
  <1>8. disk[t].bad <=> Damaged(formats, dump, disk, t)
    BY <1>2, <1>3, <1>4 DEF SecondPass
  <1>9. unidentified = Cardinality(S)
    BY <1>2 DEF SecondPass
  <1>10. v = Cardinality(R)
    <2>1. CASE Damaged(formats, dump, disk, t)
      <3>1. t \notin S /\ S \in SUBSET Handled
        <4>1. ~Unknown(formats, dump, disk, t)
          BY <2>1 DEF Unknown, Damaged
        <4> QED
          BY <1>4, <4>1
      <3>2. R = S \cup {t}
        BY <1>3, <1>4, <1>6, <2>1
      <3>3. v = unidentified + 1
        BY <1>8, <2>1
      <3> HIDE DEF S, R, v
      <3> QED
        BY <1>3, <1>9, <3>1, <3>2, <3>3, CountOne
    <2>2. CASE ~Damaged(formats, dump, disk, t)
      <3>1. R = S
        BY <1>3, <1>4, <1>6, <2>2
      <3>2. v = unidentified
        BY <1>8, <2>2
      <3> HIDE DEF S, R, v
      <3> QED
        BY <1>9, <3>1, <3>2
    <2> QED
      BY <2>1, <2>2
  <1> HIDE DEF v
  <1>11. SecondPass(formats, lists, dump, e, m, v)
    <2>1. \A i \in Handled : Judged(formats, lists, dump, e, i)
      BY <1>2, <1>6 DEF SecondPass
    <2> QED
      BY <1>4, <1>5, <1>7, <1>10, <2>1 DEF SecondPass, InHand
  <1>12. ConfigInv'
    BY <1>1, <1>2, ConfigHandling DEF Parsed
  <1>13. SecondPass(formats', lists', dump', disk', t', unidentified')
    BY <1>1, <1>11
  <1>14. TracksInv'
    BY <1>1, <1>13 DEF TracksInv
  <1> QED
    BY <1>12, <1>14 DEF IInv

LEMMA PassDone ==
    ASSUME IInv, PassEnds
    PROVE  IInv'
  <1>1. /\ pc \in {"stream", "check"} /\ t > LastTrack
        /\ UNCHANGED <<input, found, formats, dump, lists, disk, unidentified>>
    BY DEF PassEnds, parseVars
  <1>2. ConfigInv /\ Lists(lists) /\ input = "stream"
    BY <1>1 DEF IInv, ConfigInv
  <1>3. CASE pc = "stream"
    <2>1. pc' = "check" /\ t' = FirstTrack
      BY <1>3 DEF PassEnds
    <2>2. FirstPass(formats, lists, dump, disk, t, j, unidentified)
      BY <1>3, StreamStart
    <2>3. t \in Nat /\ \A i \in Handled : i < t /\ ~(i < FirstTrack)
      BY <1>1, <2>2, FirstHandled, TracksAssumption DEF FirstPass, InHand
    <2>4. {i \in Handled : i < t /\ Unknown(formats, dump, disk, i)}
          = {i \in Handled : Unknown(formats, dump, disk, i)
                             \/ (i < FirstTrack /\ Damaged(formats, dump, disk, i))}
      BY <2>3
    <2>5. SecondPass(formats, lists, dump, disk, FirstTrack, unidentified)
      <3>1. InHand(FirstTrack)
        BY FirstHandled, TracksAssumption DEF InHand
      <3>2. /\ Disks(disk)
            /\ \A i \in Handled : i < t => Judged(formats, lists, dump, disk, i)
            /\ unidentified
               = Cardinality({i \in Handled : i < t /\ Unknown(formats, dump, disk, i)})
        BY <2>2 DEF FirstPass
      <3>3. \A i \in Handled : Judged(formats, lists, dump, disk, i)
        BY <2>3, <3>2
      <3>4. \A i \in Handled : i >= FirstTrack
                => (disk[i].bad <=> Damaged(formats, dump, disk, i))
        BY <2>2, <2>3 DEF FirstPass, Damaged
      <3>5. unidentified
            = Cardinality({i \in Handled : Unknown(formats, dump, disk, i)
                                           \/ (i < FirstTrack /\ Damaged(formats, dump, disk, i))})
        BY <2>4, <3>2
      <3> QED
        BY <3>1, <3>2, <3>3, <3>4, <3>5 DEF SecondPass
    <2>6. SecondPass(formats', lists', dump', disk', t', unidentified')
      BY <1>1, <2>1, <2>5
    <2>7. ConfigInv'
      BY <1>1, <1>2, <1>3, <2>1, ConfigHandling DEF Parsed
    <2>8. TracksInv'
      BY <2>1, <2>6 DEF TracksInv
    <2> QED
      BY <2>7, <2>8 DEF IInv
  <1>4. CASE pc = "check"
    <2>1. pc' = "done"
      BY <1>4 DEF PassEnds
    <2>2. SecondPass(formats, lists, dump, disk, t, unidentified)
      BY <1>4 DEF IInv, TracksInv
    <2>3. \A i \in Handled : i < t
      BY <1>1, <2>2, FirstHandled, TracksAssumption DEF SecondPass, InHand
    <2>4. {i \in Handled : Unknown(formats, dump, disk, i)
                           \/ (i < t /\ Damaged(formats, dump, disk, i))}
          = {i \in Handled : Unknown(formats, dump, disk, i) \/ Damaged(formats, dump, disk, i)}
      <3>1. \A i \in Handled :
              (Unknown(formats, dump, disk, i)
               \/ (i < t /\ Damaged(formats, dump, disk, i)))
              <=> (Unknown(formats, dump, disk, i) \/ Damaged(formats, dump, disk, i))
        BY <2>3
      <3> QED
        BY <3>1, Zenon
    <2>5. Finished(formats, lists, dump, disk, unidentified)
      BY <2>2, <2>4 DEF SecondPass, Finished
    <2>6. Finished(formats', lists', dump', disk', unidentified')
      BY <1>1, <2>5
    <2>7. ConfigInv'
      BY <1>1, <1>2, <1>4, <2>1, ConfigHandling DEF Parsed
    <2>8. TracksInv'
      BY <2>1, <2>6 DEF TracksInv
    <2> QED
      BY <2>7, <2>8 DEF IInv
  <1> QED
    BY <1>1, <1>3, <1>4

LEMMA Imports ==
    ASSUME IInv, ImportTrack \/ ImportEnds
    PROVE  IInv'
  <1>1. /\ pc = "img" /\ pc' \in {"img", "error", "done"}
        /\ UNCHANGED <<input, found, formats, lists>>
    BY DEF ImportTrack, ImportEnds, Handling, parseVars
  <1>2. ConfigInv /\ Lists(lists) /\ input = "img"
    BY <1>1 DEF IInv, ConfigInv
  <1>3. ConfigInv'
    BY <1>1, <1>2, ConfigHandling DEF Parsed
  <1>4. TracksInv'
    BY <1>1, <1>2 DEF TracksInv
  <1> QED
    BY <1>3, <1>4 DEF IInv

LEMMA Parsing ==
    ASSUME IInv, \/ PassOver \/ Include \/ Alias \/ Found \/ EndOfFile
                 \/ TakeRange \/ RangeFails \/ RangesEnd
    PROVE  IInv'
  <1>1. /\ pc \in {"search", "ranges"}
        /\ UNCHANGED <<input, dump, t, j, disk, unidentified>>
        /\ pc' \in {"search", "ranges", "nomatch", "error", "spinning", input}
    BY DEF PassOver, Include, Alias, Found, EndOfFile, TakeRange, RangeFails,
           RangesEnd, Searching, Named, Defining
  <1>2. /\ ConfigInv /\ Disks(disk) /\ t = FirstTrack /\ j = 0 /\ unidentified = 0
        /\ input \in {"stream", "img"}
    BY <1>1 DEF IInv, ConfigInv, TracksInv
  <1>3. ConfigInv'
    <2>1. ASSUME RangeFails
          PROVE  ConfigInv'
      <3>1. /\ UNCHANGED <<input, found, formats, lists>>
            /\ pc' \in {"error", "spinning"}
        BY <2>1 DEF RangeFails, Defining
      <3> QED
        BY <1>2, <3>1 DEF ConfigInv, Parsed
    <2> QED
      BY <1>2, <2>1, ConfigSearch, ConfigTakeRange, ConfigRangesEnd
  <1>4. ASSUME pc' = "stream"
        PROVE  FirstPass(formats', lists', dump', disk', t', j', unidentified')
    <2> DEFINE fs == formats'
               ls == lists'
               fd == found'
    <2>1. Lists(ls) /\ Assigned(fd, ls, fs)
      BY <1>3, <1>4 DEF ConfigInv, Parsed
    <2> HIDE DEF fs, ls, fd
    <2>2. InHand(FirstTrack)
      BY FirstHandled, TracksAssumption DEF InHand
    <2>3. Refused(fs, ls, dump, FirstTrack, 0)
      BY <2>1, <2>2, RefusedNone
    <2>4. \A i \in Handled : ~(i < FirstTrack)
      BY FirstHandled, TracksAssumption
    <2>5. 0 = Cardinality({i \in Handled : i < FirstTrack /\ Unknown(fs, dump, disk, i)})
      <3>1. {i \in Handled : i < FirstTrack /\ Unknown(fs, dump, disk, i)} = {}
        BY <2>4
      <3> QED
        BY <3>1, FS_EmptySet
    <2>6. FirstPass(fs, ls, dump, disk, FirstTrack, 0, 0)
      BY <1>2, <2>2, <2>3, <2>4, <2>5 DEF FirstPass
    <2> QED
      BY <1>1, <1>2, <2>6 DEF fs, ls
  <1>5. TracksInv'
    <2>1. pc' \in {"search", "ranges"} =>
             Disks(disk') /\ t' = FirstTrack /\ j' = 0 /\ unidentified' = 0
      BY <1>1, <1>2
    <2>2. pc' # "check" /\ pc' # "done"
      BY <1>1, <1>2
    <2> QED
      BY <1>4, <2>1, <2>2 DEF TracksInv
  <1> QED
    BY <1>3, <1>5 DEF IInv

LEMMA AnalyseInit == Init => IInv
  <1> SUFFICES ASSUME Init
               PROVE  IInv
    OBVIOUS
  <1>1. Disks(disk)
    BY DEF Init, Disks, Unformatted
  <1>2. pc = "search" /\ t = FirstTrack /\ j = 0 /\ unidentified = 0
    BY DEF Init
  <1> QED
    BY <1>1, <1>2, ConfigInit DEF IInv, TracksInv

LEMMA AnalyseStep == IInv /\ [Next]_vars => IInv'
  <1> SUFFICES ASSUME IInv, [Next]_vars
               PROVE  IInv'
    OBVIOUS
  <1>1. ASSUME UNCHANGED vars
        PROVE  IInv'
    <2>1. UNCHANGED <<pc, input, dump, stack, found, formats, lists, t, j, disk,
                      unidentified>>
      BY <1>1 DEF vars, parseVars
    <2>2. ConfigInv'
      BY <2>1 DEF IInv, ConfigInv, Parsed
    <2>3. TracksInv'
      BY <2>1 DEF IInv, TracksInv
    <2> QED
      BY <2>2, <2>3 DEF IInv
  <1>2. ASSUME TryFormat
        PROVE  IInv'
    BY <1>2, AcceptFormat, RefuseFormat
  <1> QED
    BY <1>1, <1>2, Parsing, GiveUpTrack, CheckOneTrack, PassDone, Imports DEF Next

LEMMA AnalyseInvariant == Spec => []IInv
  BY AnalyseInit, AnalyseStep, PTL DEF Spec

-----------------------------------------------------------------------------
\* Whatever the config files hold, a track gets the formats of the first range of
\* the definition that it is in.
THEOREM RangesAssigned == Spec => []FirstRangeWins
  <1>1. IInv => FirstRangeWins
    <2> SUFFICES ASSUME IInv, pc \in {"stream", "check", "img"}, NEW i \in AllTracks
                 PROVE  \E n \in Definition :
                          LET range == Files[found.file][n]
                          IN  /\ i \in Covers(range)
                              /\ \A m \in Definition :
                                   m < n => i \notin Covers(Files[found.file][m])
                              /\ IF IsIgnore(range) THEN formats[i] = Null
                                 ELSE lists[formats[i]].ent = range.fmts
      BY DEF FirstRangeWins
    <2>1. found \in Place /\ Assigned(found, lists, formats)
      BY DEF IInv, ConfigInv, Parsed
    <2>2. PICK n \in Ranges(found) : Gives(found, lists, n, i, formats[i], Null)
      BY <2>1 DEF Assigned
    <2>3. /\ found.line \in Nat /\ Len(Files[found.file]) \in Nat
      BY <2>1, ConfigAssumption DEF Place
    <2>4. Definition = Ranges(found)
      BY DEF Definition, Ranges
    <2>5. \A m \in Ranges(found) : m < n => m \in (found.line + 1)..(n - 1)
      BY <2>3 DEF Ranges
    <2> QED
      BY <2>2, <2>4, <2>5 DEF Gives
  <1> QED
    BY <1>1, AnalyseInvariant, PTL

\* A track that one of its formats accepts is never given up, however the lists
\* were turned by the tracks before it.
THEOREM ReadableFound == Spec => []ReadableIsIdentified
  <1>1. IInv => ReadableIsIdentified
    <2> SUFFICES ASSUME IInv, pc = "check" \/ (pc = "done" /\ input = "stream"),
                        NEW i \in Handled, formats[i] # Null
                 PROVE  LET good == {f \in ToSet(Entry(i).ent) : dump[i][f] # "no"}
                        IN  IF good = {} THEN disk[i].type = "unformatted"
                            ELSE disk[i].type \in good
      BY DEF ReadableIsIdentified
    <2>1. Judged(formats, lists, dump, disk, i)
      BY DEF IInv, TracksInv, SecondPass, Finished
    <2> QED
      BY <2>1 DEF Judged, Entry
  <1> QED
    BY <1>1, AnalyseInvariant, PTL

\* The warning counts each damaged or unidentified track once.
THEOREM WarningCounts == Spec => []WarningHonest
  <1>1. IInv => WarningHonest
    <2> SUFFICES ASSUME IInv, pc = "done", input = "stream"
                 PROVE  unidentified = Cardinality({i \in Handled : formats[i] # Null /\
                          IF disk[i].type # "unformatted"
                          THEN dump[i][disk[i].type] = "part"
                          ELSE i < Unwarned /\ dump[i]["unformatted"] = "no"})
      BY DEF WarningHonest
    <2>1. unidentified = Cardinality({i \in Handled :
             Unknown(formats, dump, disk, i) \/ Damaged(formats, dump, disk, i)})
      BY DEF IInv, TracksInv, Finished
    <2>2. \A i \in Handled :
             (Unknown(formats, dump, disk, i) \/ Damaged(formats, dump, disk, i))
             <=> (formats[i] # Null /\
                  IF disk[i].type # "unformatted" THEN dump[i][disk[i].type] = "part"
                  ELSE i < Unwarned /\ dump[i]["unformatted"] = "no")
      BY DEF Unknown, Damaged
    <2> QED
      BY <2>1, <2>2
  <1> QED
    BY <1>1, AnalyseInvariant, PTL

=============================================================================
