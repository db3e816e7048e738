------------------------------- MODULE Timeout -------------------------------
(***************************************************************************)
(* The limit on a run of the target (lib/server/Timeout.cpp): none, a      *)
(* number of seconds on the wall clock, or a number of cycles of the       *)
(* target.  Cycle counts are unsigned numbers of a fixed width, and so is  *)
(* the sum of a time stamp and a limit.                                    *)
(***************************************************************************)
EXTENDS Integers

CONSTANT CycleMod    \* number of cycle counts (2^64 in the build)

ASSUME CycleModAssumption == CycleMod \in Nat \ {0}

\* The type, and both limits, of which the one not in use is zero.
Timeouts == [type : {"NONE", "REAL", "CYCLE"}, real : Nat, cycle : Nat]

noTimeout == [type |-> "NONE", real |-> 0, cycle |-> 0]
realTimeout(n) == [type |-> "REAL", real |-> n, cycle |-> 0]
cycleTimeout(n) == [type |-> "CYCLE", real |-> 0, cycle |-> n]

haveTimeout(t) == t.type # "NONE"

\* The cycle count at which a limit that starts at stamp ends.
cycleEnd(t, stamp) == (stamp + t.cycle) % CycleMod

\* Seeded fault: a clock is read whatever the type of the limit is.
timedOut_AnyClock(t, elapsed, stamp, cycles) ==
    /\ haveTimeout(t)
    /\ elapsed > t.real \/ (stamp + cycles) % CycleMod > cycleEnd(t, stamp)

\* Whether t has timed out, elapsed seconds and cycles cycles after a time
\* stamp at which the cycle count was stamp.
timedOut(t, elapsed, stamp, cycles) ==
    \/ t.type = "REAL" /\ elapsed > t.real
    \/ t.type = "CYCLE" /\ (stamp + cycles) % CycleMod > cycleEnd(t, stamp)

\* The end of a cycle limit wraps round, so that it lies before its start.
EndWraps(t, stamp) == t.type = "CYCLE" /\ stamp + t.cycle >= CycleMod
==============================================================================
