------------------------- MODULE MCSpeedwireCommand -------------------------
(* Two devices, two or three packet ids and a clock that turns over after  *)
(* three ticks, so that both counters wrap within a few commands.          *)
EXTENDS SpeedwireCommand

=============================================================================
