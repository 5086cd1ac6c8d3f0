---------------------------- MODULE MCAmigaDrive ----------------------------
(* Three cylinders within the limit and one beyond; a track of three cells.  *)
(* One program drives the mechanics, another one flips sides and reads.      *)
EXTENDS AmigaDrive

Mechanics == [prb |-> SUBSET Lines, regs |-> {}]
Reader == [prb |-> {Lines, Lines \ {"side"}},
           regs |-> {"dsklen", "adkcon", "dmacon", "intreq", "dskbytr", "icr"}]
MCPrograms == {Mechanics, Reader}
=============================================================================
