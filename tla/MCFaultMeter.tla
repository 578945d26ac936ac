--------------------------- MODULE MCFaultMeter ---------------------------
(***************************************************************************)
(* Small spines for FaultMeter: a compositor and an audio service.         *)
(***************************************************************************)
EXTENDS FaultMeter

CONSTANTS Shell, Pipewire, Compositor, Audio, r

ClassOf == [p \in Paths |-> IF p = Shell THEN Compositor ELSE Audio]
=============================================================================
