----------------------------- MODULE EventList -----------------------------
(* The list operations of m68k/amiga/event.c, on sequences of events.       *)
EXTENDS Naturals, SequencesExt

\* remove_from_list; the code would run off the end if e were not linked.
Unlink(list, e) == RemoveFirst(list, e)

\* Mutant of Link: at the end of the list.
Link_AtEnd(list, e, at) == Append(list, e)

\* add_to_list: behind every event that is not later than e.
Link(list, e, at) ==
    LET later == SelectInSeq(list, LAMBDA f : at[f] > at[e])
    IN  InsertAt(list, IF later = 0 THEN Len(list) + 1 ELSE later, e)
=============================================================================
