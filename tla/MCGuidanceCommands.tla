------------------------- MODULE MCGuidanceCommands -------------------------
(* Commands for TLC. *)
EXTENDS GuidanceCommands

(* Both have to be clamped, to <<0, 1>> and <<2, 2>>. *)
MCCommand == {<<-2, -1>>, <<3, 2>>}

MCSteering == {<<1, 1, 1>>, <<-2, 2, 2>>}
=============================================================================
