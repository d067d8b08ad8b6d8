---------------------------- MODULE MCSchedule ----------------------------
(***************************************************************************)
(* The configurations of Schedule.tla for TLC: every timer with every      *)
(* averager, an interval of an even and of an odd length.                    *)
(***************************************************************************)
EXTENDS Schedule

MCTimed == [timer : {"simple", "busy"}, averager : {"avg"}, interval : {6, 7},
            duration : {1, 26}, offset : {-1, 3}]
MCCompensated == [timer : {"comp", "hybrid"}, averager : {"avg", "exp", "win"}, interval : {6},
                  duration : {26}, offset : {-1}]
\* A long interval, whose timer has learned to sleep half the time when it
\* ends early: more batches than slots are then sent.
MCEarly == [timer : {"comp"}, averager : {"avg"}, interval : {24},
            duration : {97}, offset : {-1}]
MCFrames == [timer : {"frames"}, interval : {1, 2, 3}, duration : {1, 4}]
MCConfigs == MCTimed \cup MCCompensated \cup MCEarly \cup MCFrames
=============================================================================
