------------------------------ MODULE MCTimers ------------------------------
(* Three timers and a tick that wraps after six steps; the times are none   *)
(* and the largest one that rt_timer_start accepts.                         *)
EXTENDS Timers

CONSTANTS x, y, z

MCInitTick == {0, Half - 1}
=============================================================================
