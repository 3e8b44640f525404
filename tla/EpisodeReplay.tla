--------------------------- MODULE EpisodeReplay ----------------------------
(***************************************************************************)
(* AutoscalingEnv with a record of the running episode and of the one      *)
(* before it, to state what the simulator promises across ticks and across *)
(* episodes: reproducibility, conservation of requests, and when a         *)
(* requested replica serves.                                               *)
(***************************************************************************)
EXTENDS AutoscalingEnv, Sums

VARIABLES
    log,        \* one entry per completed step of this episode
    previous    \* the log of the episode that the latest reset ended

replayVars == <<world, pool, depth, clock, position, draws, telemetry, needsReset, info,
                log, previous>>

\* What the caller of step gets to see, and the fleet it leaves behind.
Outcome(i, p, seen) == [info |-> i, committed |-> Committed(p),
                        ready |-> PendingByTicks(p), seen |-> seen]

ReplayInit == Init /\ log = <<>> /\ previous = <<>>

ReplayReset == Reset /\ previous' = log /\ log' = <<>>

ReplayStep(code) ==
    /\ Step(code)
    /\ log' = Append(log, Outcome(info', pool', VisibleTelemetry'))
    /\ UNCHANGED previous

ReplayNext == ReplayReset \/ \E code \in Codes(contract) : ReplayStep(code)

ReplaySpec == ReplayInit /\ [][ReplayNext]_replayVars

-----------------------------------------------------------------------------
Both == 1 .. Smaller(Len(log), Len(previous))

\* Two episodes that took the same actions so far are identical so far: reset
\* leaves nothing of the previous episode behind.
Reproducible ==
    \A k \in Both :
        (\A j \in 1 .. k : log[j].info.code = previous[j].info.code)
            => log[k] = previous[k]

\* Demand and realized capacity of a tick are the same in every episode,
\* whatever the actions were.
SameWorldForEveryPolicy ==
    \A k \in Both :
        LET now == log[k].info
            then == previous[k].info
        IN  /\ now.measured.demand = then.measured.demand
            /\ now.measured.service * then.counts.active
                = then.measured.service * now.counts.active

\* Nothing is dropped or served twice: what arrived is served or waiting.
Arrived == Total([t \in DOMAIN log |-> log[t].info.measured.demand])
Served == Total([t \in DOMAIN log |-> log[t].info.measured.load])
RequestsConserved == Arrived = Served + depth

\* When every startup is nominal a replica requested by the action at tick t first serves
\* tick t + StartupTicks unless it is cancelled before. As cancellation takes
\* the newest first, the replicas that serve a tick are exactly those that were
\* committed at every one of the last StartupTicks + 1 decisions.
CommittedAt(t) == IF t = 0 THEN InitialReplicas ELSE log[t].committed

ServingIsWindowMinimum ==
    (\A i \in DOMAIN world.startup : world.startup[i] = 2) =>
        \A t \in DOMAIN log :
            LET window == {CommittedAt(s) : s \in Larger(0, t - StartupTicks) .. t}
                served == log[t].info.counts.active
            IN  served \in window /\ \A c \in window : served <= c
=============================================================================
