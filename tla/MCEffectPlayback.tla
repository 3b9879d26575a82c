-------------------------- MODULE MCEffectPlayback --------------------------
(* A small instance of EffectPlayback: effects on browsers and the device,   *)
(* and effects on the desktop alone.                                         *)
EXTENDS EffectPlayback, TLC

SomeShapes == {{"browser", "audio"}, {"desktop"}}
=============================================================================
