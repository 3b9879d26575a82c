--------------------------- MODULE MCTimerRuntime ---------------------------
EXTENDS TimerRuntime, TLC
=============================================================================
