----------------------- MODULE MCPlaybackCoordinator -----------------------
(* Small instances of PlaybackCoordinator: occurrences with every kind of    *)
(* output or with one of them, or with browser clients only.                 *)
EXTENDS PlaybackCoordinator, TLC

OnePriority == {0}
AllOutputs == {Recipients, Instructions, {"device"}, {"desktop"}}
BrowserOnly == {Instructions}
TwoPriorities == {0, 1}
=============================================================================
