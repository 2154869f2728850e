------------------------------ MODULE MCPsFrames ------------------------------
(***************************************************************************)
(* Model values for PsFrames: meters at full scale and between, whose     *)
(* bits differ from their mirror images, with either error and with one or *)
(* both polarity lines, and a set current that is no mirror image either.  *)
(***************************************************************************)
EXTENDS PsFrames

Reading(current, voltage, colective, external, pol1, pol2) ==
  [current |-> current, voltage |-> voltage, colective |-> colective, external |-> external,
   polarisation1 |-> pol1, polarisation2 |-> pol2]

SomeReadings ==
  { Reading(1110, 2741, TRUE, FALSE, TRUE, TRUE),
    Reading(4095, 4064, FALSE, TRUE, TRUE, FALSE) }

SomeSetpoints == {0, 41137}

SomeAmperes == {-1, 200, 201}
=============================================================================
