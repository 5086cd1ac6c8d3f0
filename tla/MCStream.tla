------------------------------ MODULE MCStream ------------------------------
(* A stream fed by any source, with a cell of 8 ns instead of 2000. *)
EXTENDS Stream

MCCentres == {8, 10}
MCFlux == {7, 13}
MCIndex == {0, 5}
MCRevs == {2}
=============================================================================
