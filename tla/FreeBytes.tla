----------------------------- MODULE FreeBytes -----------------------------
(***************************************************************************)
(* What the emulator's allocator (m68k/amiga/mem.c) promises: a set of free  *)
(* addresses, from which an allocation takes a run of the size asked for,    *)
(* and is refused only when there is no such run.                           *)
(***************************************************************************)
EXTENDS Naturals

CONSTANTS Addresses, Sizes

VARIABLES free

Run(a, n) == a .. (a + n - 1)

FInit == free = {}

Provide(a, n) == Run(a, n) \cap free = {} /\ free' = free \cup Run(a, n)

Take(a, n) == Run(a, n) \subseteq free /\ free' = free \ Run(a, n)

FNext == \E a \in Addresses, n \in Sizes : Provide(a, n) \/ Take(a, n)

FSpec == FInit /\ [][FNext]_free
=============================================================================
