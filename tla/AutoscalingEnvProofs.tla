------------------------ MODULE AutoscalingEnvProofs ------------------------
(***************************************************************************)
(* What one environment keeps for every configuration, every trace and     *)
(* every realization of its random sequences; and, in the second half,     *)
(* what holds across the ticks of an episode and from one episode to the   *)
(* next: when a replica serves, what does not depend on the actions, that  *)
(* an episode can be run again, and that no request is lost. Every         *)
(* replayed behaviour is one of the environment, so that the invariants of *)
(* the first half hold in the second.                                      *)
(***************************************************************************)
EXTENDS EpisodeReplay, ReplicaLifecycleProofs

\* The most replicas an action can add to a pool: one step never draws more
\* startup times than this.
Spare == MaxReplicas - MinReplicas

\* The pool and the counters between steps. The startup generator is bounded
\* by what an episode can draw, which is what keeps every draw inside the
\* realization.
EpisodeInv ==
    /\ world \in Worlds
    /\ PoolInv(pool)
    /\ clock \in 0 .. EpisodeTicks
    /\ position = clock
    /\ draws.capacity = IF Jittered THEN clock ELSE 0
    /\ draws.startup \in 0 .. clock * Spare
    /\ needsReset \in BOOLEAN
    /\ needsReset <=> (info.kind = "none" \/ clock = EpisodeTicks)
    /\ TargetReached

\* The telemetry buffer holds the latest ticks of this episode, newest first.
TelemetryInv ==
    /\ depth \in Nat
    /\ telemetry \in Seq(Snapshot)
    /\ Len(telemetry) = Smaller(clock, BufferSize)
    /\ \A k \in 1 .. Len(telemetry) :
        /\ telemetry[k].tick = clock - k
        /\ telemetry[k].demand = world.demand[clock - k + 1]

-----------------------------------------------------------------------------
\* A valid action code requests a capacity within the replica bounds.
LEMMA TargetInBounds ==
    ASSUME world \in World, NEW code \in Codes(contract), NEW committed \in MinReplicas .. MaxReplicas
    PROVE  TargetFor(contract, code, committed) \in MinReplicas .. MaxReplicas
<1>1. /\ contract.semantics = world.semantics
      /\ contract.min = MinReplicas
      /\ contract.max = MaxReplicas
    BY DEF contract
<1>2. /\ MinReplicas \in Nat \ {0}
      /\ MaxReplicas \in Nat
      /\ MinReplicas <= MaxReplicas
    BY ReplicaConfig
<1>3. CASE world.semantics = DELTA_V1
    <2>1. code \in 0 .. 2
        BY <1>1, <1>3 DEF Codes, ActionCount
    <2>2. DELTA_EFFECTS[code] \in {-1, 0, 1}
        BY <2>1 DEF DELTA_EFFECTS, SCALE_DOWN, HOLD, SCALE_UP
    <2>3. Clip(contract, committed + DELTA_EFFECTS[code]) \in MinReplicas .. MaxReplicas
        BY <1>1, <1>2, <2>2 DEF Clip
    <2> QED BY <1>1, <1>3, <2>3 DEF TargetFor
<1>4. CASE world.semantics # DELTA_V1
    <2>1. code \in 0 .. MaxReplicas - MinReplicas
        BY <1>1, <1>2, <1>4 DEF Codes, ActionCount
    <2> QED BY <1>1, <1>2, <1>4, <2>1 DEF TargetFor
<1> QED BY <1>3, <1>4

LEMMA SpareRange == Spare \in Nat /\ Spare <= MaxReplicas
BY ReplicaConfig DEF Spare

\* Every environment runs in one of the given worlds.
LEMMA WorldFits == ASSUME EpisodeInv PROVE world \in World
BY WorldConfig DEF EpisodeInv

\* An episode's draws fit the realization, the next tick's included.
LEMMA DrawsFit ==
    ASSUME NEW t \in Nat, t < EpisodeTicks, NEW d \in 0 .. t * Spare,
           NEW n \in 0 .. Spare
    PROVE  /\ d + n \in 0 .. (t + 1) * Spare
           /\ d + n <= EpisodeTicks * Spare
           /\ d + n <= EpisodeTicks * MaxReplicas
<1>1. /\ Spare \in Nat /\ MinReplicas \in Nat /\ EpisodeTicks \in Nat
      /\ MaxReplicas = Spare + MinReplicas
    BY ReplicaConfig, EnvConfig DEF Spare
<1>2. t * Spare \in Nat
    BY <1>1
<1>3. (t + 1) * Spare = t * Spare + Spare
    BY <1>1
<1>4. PICK r \in Nat : EpisodeTicks = (t + 1) + r
    <2>1. EpisodeTicks - (t + 1) \in Nat
        BY <1>1
    <2> QED BY <1>1, <2>1
<1>5. EpisodeTicks * Spare = (t + 1) * Spare + r * Spare
    BY <1>1, <1>4
<1>6. EpisodeTicks * MaxReplicas = EpisodeTicks * Spare + EpisodeTicks * MinReplicas
    BY <1>1
<1>7. r * Spare \in Nat /\ EpisodeTicks * MinReplicas \in Nat /\ EpisodeTicks * Spare \in Nat
    BY <1>1
<1>8. d + n \in 0 .. t * Spare + Spare
    BY <1>1, <1>2
<1>9. (t + 1) * Spare \in Nat
    BY <1>1
<1>10. d + n \in 0 .. (t + 1) * Spare
    BY <1>3, <1>8
<1>11. d + n <= EpisodeTicks * Spare
    BY <1>5, <1>7, <1>9, <1>10
<1>12. d + n <= EpisodeTicks * MaxReplicas
    BY <1>6, <1>7, <1>8, <1>2, <1>1, <1>11
<1> QED BY <1>10, <1>11, <1>12

\* The action leaves a legal pool that is committed to the requested target.
LEMMA ActedInv ==
    ASSUME EpisodeInv, ~needsReset, NEW code \in Codes(contract)
    PROVE  /\ PoolInv(Acted(code))
           /\ Committed(Acted(code)) = TargetFor(contract, code, Committed(pool))
           /\ StartupDrawn(pool, Acted(code)) \in 0 .. Spare
<1> DEFINE committed == Committed(pool)
           target == TargetFor(contract, code, committed)
           up == target - committed
           down == committed - target
<1>0. /\ PoolInv(pool)
      /\ committed \in MinReplicas .. MaxReplicas
      /\ MinReplicas \in Nat \ {0}
      /\ MaxReplicas \in Nat
      /\ Spare \in Nat /\ Spare = MaxReplicas - MinReplicas
      /\ world \in World
    BY ReplicaConfig, WorldFits, SpareRange DEF EpisodeInv, PoolInv, Spare
<1>1. target \in MinReplicas .. MaxReplicas
    BY <1>0, TargetInBounds
<1>2. CASE target > committed
    <2>1. up \in Nat \ {0}
        BY <1>0, <1>1, <1>2
    <2>2. Added(pool, up) = up
        BY <1>0, <1>1, <1>2 DEF Added, Smaller
    <2>3. StartupDraws(pool, up) \in Draws(pool, up)
        <3>1. clock \in Nat /\ clock < EpisodeTicks /\ draws.startup \in 0 .. clock * Spare
            BY EnvConfig DEF EpisodeInv
        <3>2. DrawCount(pool, up) \in 0 .. Spare
            BY <1>0, <1>1, <2>1, <2>2 DEF DrawCount
        <3>3. ASSUME NEW i \in 1 .. DrawCount(pool, up)
              PROVE  world.startup[draws.startup + i] \in Multipliers
            <4>1. i \in 0 .. Spare /\ i \in 1 .. Spare
                BY <1>0, <3>2
            <4>2. draws.startup + i <= EpisodeTicks * MaxReplicas
                BY <3>1, <4>1, DrawsFit
            <4>3. draws.startup \in Nat
                <5>1. clock * Spare \in Nat
                    BY <1>0, <3>1
                <5> QED BY <3>1, <5>1
            <4>4. draws.startup + i \in 1 .. EpisodeTicks * MaxReplicas
                <5>1. EpisodeTicks * MaxReplicas \in Nat
                    BY <1>0, EnvConfig
                <5> QED BY <4>1, <4>2, <4>3, <5>1
            <4>5. world.startup \in [1 .. EpisodeTicks * MaxReplicas -> Multipliers]
                BY <1>0 DEF World
            <4> QED BY <4>4, <4>5
        <3> QED BY <3>3 DEF StartupDraws, Draws
    <2>4. Acted(code) = ScaledUp(pool, up, StartupDraws(pool, up))
        BY <1>0, <1>1, <1>2 DEF Acted
    <2>5. /\ PoolInv(Acted(code))
          /\ Committed(Acted(code)) = committed + Added(pool, up)
        BY <1>0, <2>1, <2>3, <2>4, ScaledUpInv
    <2>6. Committed(Acted(code)) = target
        BY <1>0, <1>1, <2>2, <2>5
    <2>7. StartupDrawn(pool, Acted(code)) \in 0 .. Spare
        <3>1. /\ Len(Acted(code).pending) \in 0 .. Spare
              /\ Len(pool.pending) \in Nat
            <4>1. /\ Len(Acted(code).pending) \in Nat
                  /\ Acted(code).active \in MinReplicas .. MaxReplicas
                  /\ Acted(code).active + Len(Acted(code).pending) \in MinReplicas .. MaxReplicas
                BY <2>5, PoolInvFacts
            <4> QED BY <1>0, <4>1, PoolInvFacts
        <3> HIDE DEF up
        <3> QED BY <1>0, <3>1 DEF StartupDrawn, Larger
    <2> QED BY <2>5, <2>6, <2>7
<1>3. CASE target < committed
    <2>1. down \in Nat \ {0}
        BY <1>0, <1>1, <1>3
    <2>2. Removed(pool, down) = down
        BY <1>0, <1>1, <1>3 DEF Removed, Smaller
    <2>3. Acted(code) = ScaledDown(pool, down)
        BY <1>0, <1>1, <1>3 DEF Acted
    <2>4. /\ PoolInv(Acted(code))
          /\ Committed(Acted(code)) = committed - Removed(pool, down)
          /\ Len(Acted(code).pending) = Len(pool.pending) - Cancelled(pool, down)
        BY <1>0, <2>1, <2>3, ScaledDownInv
    <2>5. Committed(Acted(code)) = target
        BY <1>0, <1>1, <2>2, <2>4
    <2>6. StartupDrawn(pool, Acted(code)) = 0
        <3>1. Cancelled(pool, down) \in Nat
            BY <1>0, <2>1, RemovedRange, PoolInvFacts
        <3>2. Len(pool.pending) \in Nat
            BY <1>0, PoolInvFacts
        <3> HIDE DEF down
        <3> QED BY <2>4, <3>1, <3>2 DEF StartupDrawn, Larger
    <2> QED BY <1>0, <2>4, <2>5, <2>6
<1>4. CASE target = committed
    <2>1. Acted(code) = pool
        BY <1>0, <1>1, <1>4 DEF Acted
    <2>2. StartupDrawn(pool, pool) = 0
        <3>1. Len(pool.pending) \in Nat
            BY <1>0, PoolInvFacts
        <3> QED BY <3>1 DEF StartupDrawn, Larger
    <2> QED BY <1>0, <1>4, <2>1, <2>2
<1> QED BY <1>0, <1>1, <1>2, <1>3, <1>4

-----------------------------------------------------------------------------
LEMMA ResetKeepsEpisode ==
    ASSUME EpisodeInv, Reset
    PROVE  EpisodeInv'
<1>1. /\ PoolInv(pool') /\ world' \in Worlds
      /\ clock' = 0 /\ position' = 0 /\ needsReset' = FALSE
      /\ draws' = [capacity |-> 0, startup |-> 0]
      /\ info'.kind = "reset"
    BY FreshPoolInv DEF Reset, ResetInfo, EpisodeInv
<1>2. EpisodeTicks \in Nat \ {0} /\ 0 * Spare = 0
    BY EnvConfig, SpareRange
<1>3. PoolInv(pool)'
    BY <1>1 DEF PoolInv, PoolType, Committed, OldestFirst, ClocksAgree
<1>4. /\ draws'.capacity = 0
      /\ draws'.startup = 0
    BY <1>1
<1>5. TargetReached'
    BY <1>1 DEF TargetReached
<1>6. draws'.startup \in 0 .. clock' * Spare
    BY <1>1, <1>2, <1>4
<1>7. draws'.capacity = IF Jittered THEN clock' ELSE 0
    BY <1>1, <1>4
<1>8. clock' \in 0 .. EpisodeTicks
    BY <1>1, <1>2
<1>9. needsReset' <=> (info'.kind = "none" \/ clock' = EpisodeTicks)
    BY <1>1, <1>2
<1> QED BY <1>1, <1>3, <1>5, <1>6, <1>7, <1>8, <1>9 DEF EpisodeInv

LEMMA StepKeepsEpisode ==
    ASSUME EpisodeInv, NEW code \in Codes(contract), Step(code)
    PROVE  EpisodeInv'
<1> DEFINE acted == Acted(code)
<1>1. /\ clock \in Nat /\ clock < EpisodeTicks /\ EpisodeTicks \in Nat
      /\ ~needsReset /\ position = clock
      /\ draws.startup \in 0 .. clock * Spare
    BY EnvConfig DEF Step, EpisodeInv
<1>2. /\ PoolInv(acted)
      /\ Committed(acted) = TargetFor(contract, code, Committed(pool))
      /\ StartupDrawn(pool, acted) \in 0 .. Spare
    BY <1>1, ActedInv
<1> HIDE DEF acted
<1>3. /\ pool' = Advanced(acted, Interval)
      /\ clock' = clock + 1 /\ position' = position + 1
      /\ draws' = [capacity |-> draws.capacity + (IF Jittered THEN 1 ELSE 0),
                   startup |-> draws.startup + StartupDrawn(pool, acted)]
      /\ needsReset' = (position' = EpisodeTicks)
      /\ info'.kind = "step"
      /\ info'.target = TargetFor(contract, code, Committed(pool))
      /\ world' = world
    BY DEF Step, acted
<1>4. Interval \in Nat \ {0}
    BY TimingConfig DEF Interval
<1>5. /\ PoolInv(pool')
      /\ Committed(pool') = Committed(acted)
    BY <1>2, <1>3, <1>4, AdvancedInv
<1>6. PoolInv(pool)'
    BY <1>5 DEF PoolInv, PoolType, Committed, OldestFirst, ClocksAgree
<1>7. TargetReached'
    BY <1>2, <1>3, <1>5 DEF TargetReached, Committed
<1>8. /\ draws'.startup = draws.startup + StartupDrawn(pool, acted)
      /\ draws'.capacity = draws.capacity + (IF Jittered THEN 1 ELSE 0)
    BY <1>3
<1>9. draws'.startup \in 0 .. clock' * Spare
    BY <1>1, <1>2, <1>3, <1>8, DrawsFit
<1>10. draws'.capacity = IF Jittered THEN clock' ELSE 0
    <2>1. draws.capacity = IF Jittered THEN clock ELSE 0
        BY DEF EpisodeInv
    <2>2. CASE Jittered
        BY <1>1, <1>3, <1>8, <2>1, <2>2
    <2>3. CASE ~Jittered
        BY <1>1, <1>3, <1>8, <2>1, <2>3
    <2> QED BY <2>2, <2>3
<1>11. clock' \in 0 .. EpisodeTicks /\ position' = clock'
    BY <1>1, <1>3
<1>12. needsReset' \in BOOLEAN
    BY <1>3
<1>13. needsReset' <=> (info'.kind = "none" \/ clock' = EpisodeTicks)
    BY <1>1, <1>3
<1>14. world' \in Worlds
    BY <1>3 DEF EpisodeInv
<1> QED BY <1>6, <1>7, <1>9, <1>10, <1>11, <1>12, <1>13, <1>14 DEF EpisodeInv

\* An environment before its first reset.
LEMMA InitHolds == ASSUME Init PROVE EpisodeInv /\ TelemetryInv
<1>1. /\ world \in Worlds /\ PoolInv(pool) /\ clock = 0 /\ position = 0
      /\ needsReset = TRUE /\ info.kind = "none"
      /\ draws.capacity = 0 /\ draws.startup = 0
      /\ depth = 0 /\ telemetry = <<>>
    BY FreshPoolInv DEF Init, NoInfo
<1>2. EpisodeTicks \in Nat \ {0} /\ 0 * Spare = 0 /\ BufferSize \in Nat
    BY EnvConfig, SpareRange DEF BufferSize
<1>3. TargetReached
    BY <1>1 DEF TargetReached
<1>4. TelemetryInv
    BY <1>1, <1>2 DEF TelemetryInv, Smaller
<1> QED BY <1>1, <1>2, <1>3, <1>4 DEF EpisodeInv

\* A step of something else leaves the environment as it is.
LEMMA EnvStays ==
    ASSUME UNCHANGED envVars
    PROVE  EpisodeInv' = EpisodeInv /\ TelemetryInv' = TelemetryInv
BY DEF envVars, EpisodeInv, PoolInv, PoolType, Committed, OldestFirst, ClocksAgree,
       TargetReached, TelemetryInv, BufferSize

\* A reset empties the buffer.
LEMMA ResetKeepsTelemetry == ASSUME Reset PROVE TelemetryInv'
<1>1. depth' = 0 /\ clock' = 0 /\ telemetry' = <<>>
    BY DEF Reset
<1>2. BufferSize \in Nat /\ BufferSize' = BufferSize
    BY EnvConfig DEF BufferSize
<1> QED BY <1>1, <1>2 DEF TelemetryInv, Smaller

\* The pool and the counters keep EpisodeInv in every reset and every step.
THEOREM EpisodeInvariant == Spec => []EpisodeInv
<1>1. Init => EpisodeInv
    BY InitHolds
<1>2. EpisodeInv /\ [Next]_envVars => EpisodeInv'
    <2> SUFFICES ASSUME EpisodeInv, [Next]_envVars PROVE EpisodeInv'
        OBVIOUS
    <2>1. CASE Reset
        BY <2>1, ResetKeepsEpisode
    <2>2. ASSUME NEW code \in Codes(contract), Step(code)
          PROVE  EpisodeInv'
        BY <2>2, StepKeepsEpisode
    <2>3. CASE UNCHANGED envVars
        BY <2>3, EnvStays
    <2> QED BY <2>1, <2>2, <2>3 DEF Next
<1> QED BY <1>1, <1>2, PTL DEF Spec

\* Every action moves the committed capacity to the target it requests.
THEOREM TargetsReached == Spec => []TargetReached
<1>1. EpisodeInv => TargetReached
    BY DEF EpisodeInv
<1> QED BY <1>1, EpisodeInvariant, PTL

-----------------------------------------------------------------------------
\* What a tick measures is a snapshot of that tick and of the demand the
\* trace had for it.
LEMMA MeasuredType ==
    ASSUME EpisodeInv, depth \in Nat, ~needsReset, NEW p, PoolInv(p)
    PROVE  /\ Measured(p) \in Snapshot
           /\ Measured(p).tick = clock
           /\ Measured(p).demand = world.demand[clock + 1]
           /\ Measured(p).queued \in Nat
<1>1. /\ clock \in 0 .. EpisodeTicks - 1 /\ position = clock
      /\ draws.capacity = IF Jittered THEN clock ELSE 0
      /\ world \in World
    BY EnvConfig, WorldFits DEF EpisodeInv
<1>2. clock + 1 \in 1 .. EpisodeTicks
    BY <1>1, EnvConfig
<1>3. world.demand[clock + 1] \in Nat
    BY <1>1, <1>2 DEF World
<1>4. Capacity \in Nat
    BY <1>1, <1>2, EnvConfig DEF Capacity, World
<1>5. p.active \in Nat /\ Committed(p) \in MinReplicas .. MaxReplicas
    <2>1. /\ p.active \in MinReplicas .. MaxReplicas
          /\ Committed(p) \in MinReplicas .. MaxReplicas
        BY DEF PoolInv, PoolType
    <2> QED BY <2>1, ReplicaConfig
<1>6. p.active * Capacity \in Nat
    BY <1>4, <1>5
<1> DEFINE service == p.active * Capacity
           demand == world.demand[clock + 1]
           work == depth + demand
<1>7. service \in Nat /\ demand \in Nat /\ work \in Nat
    BY <1>3, <1>6
<1>8. Measured(p) = [tick |-> clock, demand |-> demand, service |-> service,
                     load |-> Smaller(work, service),
                     queued |-> work - Smaller(work, service),
                     billable |-> Committed(p)]
    BY <1>1 DEF Measured
<1> HIDE DEF service, demand, work
<1>9. Smaller(work, service) \in Nat /\ work - Smaller(work, service) \in Nat
    BY <1>7 DEF Smaller
<1> QED BY <1>1, <1>5, <1>7, <1>8, <1>9 DEF Snapshot, demand

LEMMA StepKeepsTelemetry ==
    ASSUME EpisodeInv, TelemetryInv, NEW code \in Codes(contract), Step(code)
    PROVE  TelemetryInv'
<1> DEFINE m == Measured(Acted(code))
<1>1. /\ ~needsReset
      /\ depth' = m.queued /\ clock' = clock + 1 /\ world' = world
      /\ telemetry' = Recorded(m)
    BY DEF Step
<1>2. /\ m \in Snapshot
      /\ m.tick = clock
      /\ m.demand = world.demand[clock + 1]
      /\ m.queued \in Nat
    BY <1>1, ActedInv, MeasuredType DEF TelemetryInv
<1> HIDE DEF m
<1>3. /\ clock \in Nat
      /\ BufferSize \in Nat \ {0}
      /\ telemetry \in Seq(Snapshot)
      /\ Len(telemetry) = Smaller(clock, BufferSize)
    BY EnvConfig DEF EpisodeInv, TelemetryInv, BufferSize
<1> DEFINE size == Smaller(Len(telemetry) + 1, BufferSize)
<1>4. size = Smaller(clock + 1, BufferSize) /\ size \in Nat
    BY <1>3 DEF Smaller
<1>5. /\ telemetry' \in Seq(Snapshot)
      /\ Len(telemetry') = size
      /\ \A k \in 1 .. size : telemetry'[k] = IF k = 1 THEN m ELSE telemetry[k - 1]
    <2>1. telemetry' = SubSeq(<<m>> \o telemetry, 1, Smaller(Len(telemetry) + 1, BufferSize))
        BY <1>1 DEF Recorded
    <2> DEFINE t == <<m>> \o telemetry
    <2>2. telemetry' = SubSeq(t, 1, size)
        BY <2>1
    <2>3. size \in 1 .. Len(telemetry) + 1
        BY <1>3 DEF Smaller
    <2>4. \A i \in 1 .. Len(telemetry) + 1 : t[i] = IF i = 1 THEN m ELSE telemetry[i - 1]
        BY <1>3
    <2> HIDE DEF t, size
    <2>5. \A i \in 1 .. size : t[i] \in Snapshot /\ i \in 1 .. Len(telemetry) + 1
        <3> SUFFICES ASSUME NEW i \in 1 .. size
                     PROVE  t[i] \in Snapshot /\ i \in 1 .. Len(telemetry) + 1
            OBVIOUS
        <3>1. i \in 1 .. Len(telemetry) + 1
            BY <1>3, <2>3
        <3>2. CASE i = 1
            BY <1>2, <2>4, <3>1, <3>2
        <3>3. CASE i # 1
            <4>1. i - 1 \in 1 .. Len(telemetry)
                BY <1>3, <3>1, <3>3
            <4> QED BY <1>3, <2>4, <3>1, <3>3, <4>1
        <3> QED BY <3>1, <3>2, <3>3
    <2>6. /\ SubSeq(t, 1, size) \in Seq(Snapshot)
          /\ Len(SubSeq(t, 1, size)) = size
          /\ \A i \in 1 .. size : SubSeq(t, 1, size)[i] = t[i]
        BY <1>4, <2>3, <2>5, SubSeqProperties
    <2> QED BY <2>2, <2>4, <2>5, <2>6
<1>6. ASSUME NEW k \in 1 .. size
      PROVE  /\ telemetry'[k].tick = clock' - k
             /\ telemetry'[k].demand = world'.demand[clock' - k + 1]
    <2>1. CASE k = 1
        <3>1. telemetry'[k] = m /\ clock' - k = clock /\ clock' - k + 1 = clock + 1
            BY <1>1, <1>3, <1>5, <2>1
        <3> QED BY <1>1, <1>2, <3>1
    <2>2. CASE k # 1
        <3>1. k - 1 \in 1 .. Len(telemetry)
            BY <1>3, <1>4, <2>2 DEF Smaller
        <3>2. telemetry'[k] = telemetry[k - 1]
            BY <1>5, <2>2
        <3>3. /\ telemetry[k - 1].tick = clock - (k - 1)
              /\ telemetry[k - 1].demand = world.demand[clock - (k - 1) + 1]
            BY <3>1 DEF TelemetryInv
        <3>4. clock - (k - 1) = clock' - k /\ clock - (k - 1) + 1 = clock' - k + 1
            BY <1>1, <1>3, <1>4
        <3> QED BY <1>1, <3>2, <3>3, <3>4
    <2> QED BY <2>1, <2>2
<1>7. Len(telemetry') = Smaller(clock', BufferSize)
    BY <1>1, <1>4, <1>5
<1>8. BufferSize' = BufferSize
    BY DEF BufferSize
<1> HIDE DEF size
<1> QED BY <1>1, <1>2, <1>5, <1>6, <1>7, <1>8 DEF TelemetryInv

\* The telemetry buffer is the latest ticks of the running episode, newest
\* first, whatever was abandoned before it.
THEOREM TelemetryInvariant == Spec => []TelemetryInv
<1>1. Init => TelemetryInv
    BY InitHolds
<1>2. EpisodeInv /\ TelemetryInv /\ [Next]_envVars => TelemetryInv'
    <2> SUFFICES ASSUME EpisodeInv, TelemetryInv, [Next]_envVars PROVE TelemetryInv'
        OBVIOUS
    <2>1. CASE Reset
        BY <2>1, ResetKeepsTelemetry
    <2>2. ASSUME NEW code \in Codes(contract), Step(code)
          PROVE  TelemetryInv'
        BY <2>2, StepKeepsTelemetry
    <2>3. CASE UNCHANGED envVars
        BY <2>3, EnvStays
    <2> QED BY <2>1, <2>2, <2>3 DEF Next
<1> QED BY <1>1, <1>2, EpisodeInvariant, PTL DEF Spec

\* What the latest call returned.
InfoKind == info.kind \in {"none", "reset", "step"}

\* The invariants give every variable its type: no step draws more than
\* Spare startup times, so an episode never draws more than the bound.
LEMMA EnvTyped == EpisodeInv /\ TelemetryInv /\ InfoKind => TypeOK
<1> SUFFICES ASSUME EpisodeInv, TelemetryInv, InfoKind PROVE TypeOK
    OBVIOUS
<1>1. /\ clock \in 0 .. EpisodeTicks /\ EpisodeTicks \in Nat
      /\ position = clock
      /\ draws.capacity = IF Jittered THEN clock ELSE 0
      /\ draws.startup \in 0 .. clock * Spare
      /\ Spare \in Nat /\ BufferSize \in Nat
    BY EnvConfig, SpareRange DEF EpisodeInv, BufferSize
<1>2. draws.capacity \in 0 .. EpisodeTicks
    BY <1>1
<1>3. draws.startup \in 0 .. EpisodeTicks * Spare
    <2>1. PICK r \in Nat : EpisodeTicks = clock + r
        <3>1. EpisodeTicks - clock \in Nat
            BY <1>1
        <3> QED BY <1>1, <3>1
    <2>2. EpisodeTicks * Spare = clock * Spare + r * Spare
        BY <1>1, <2>1
    <2>3. clock * Spare \in Nat /\ r * Spare \in Nat
        BY <1>1
    <2> QED BY <1>1, <2>2, <2>3
<1>4. telemetry \in Seq(Snapshot) /\ depth \in Nat /\ Len(telemetry) <= BufferSize
    BY <1>1 DEF TelemetryInv, Smaller
<1> QED BY <1>1, <1>2, <1>3, <1>4 DEF TypeOK, EpisodeInv, InfoKind, Spare

\* Every variable stays in its type, for every configuration: the buffer
\* within its size, and the draws of an episode within its realization.
THEOREM EnvTypes == Spec => []TypeOK
<1>1. Init => InfoKind
    BY DEF Init, NoInfo, InfoKind
<1>2. InfoKind /\ [Next]_envVars => InfoKind'
    BY DEF Next, Reset, ResetInfo, Step, envVars, InfoKind
<1> QED BY <1>1, <1>2, EnvTyped, EpisodeInvariant, TelemetryInvariant, PTL DEF Spec

\* The view of a controller follows from the buffer.
LEMMA DelayedView == EpisodeInv /\ TelemetryInv => VisibleIsDelayedTruth
<1> SUFFICES ASSUME EpisodeInv, TelemetryInv PROVE VisibleIsDelayedTruth
    OBVIOUS
<1> DEFINE D == TelemetryDelay
           upper == Smaller(Len(telemetry), BufferSize)
           seen == SubSeq(telemetry, D + 1, upper)
<1>1. /\ clock \in Nat /\ D \in Nat /\ HistoryTicks \in Nat
      /\ BufferSize = D + HistoryTicks
      /\ Len(telemetry) = Smaller(clock, D + HistoryTicks)
    BY EnvConfig DEF EpisodeInv, TelemetryInv, BufferSize
<1>2. upper = Smaller(clock, D + HistoryTicks) /\ upper = Len(telemetry) /\ upper \in Nat
    BY <1>1 DEF Smaller
<1>3. \A i \in D + 1 .. upper : telemetry[i] \in Snapshot
    BY <1>1, <1>2 DEF TelemetryInv
<1> HIDE DEF D, upper
<1>4. /\ seen \in Seq(Snapshot)
      /\ Len(seen) = IF D + 1 <= upper THEN upper - (D + 1) + 1 ELSE 0
      /\ \A i \in 1 .. upper - (D + 1) + 1 : seen[i] = telemetry[(D + 1) + i - 1]
    BY <1>1, <1>2, <1>3, SubSeqProperties
<1> HIDE DEF seen
<1>5. Len(seen) = Smaller(HistoryTicks, Larger(0, clock - D))
    BY <1>1, <1>2, <1>4 DEF Smaller, Larger
<1>6. ASSUME NEW k \in DOMAIN seen
      PROVE  /\ seen[k].tick = clock - D - k
             /\ seen[k].demand = world.demand[seen[k].tick + 1]
    <2>1. k \in 1 .. Len(seen)
        BY <1>4
    <2>2. /\ k \in 1 .. upper - (D + 1) + 1
          /\ D + k \in 1 .. Len(telemetry)
          /\ (D + 1) + k - 1 = D + k
        BY <1>1, <1>2, <1>4, <2>1
    <2>3. seen[k] = telemetry[D + k]
        BY <1>4, <2>2
    <2>4. /\ telemetry[D + k].tick = clock - (D + k)
          /\ telemetry[D + k].demand = world.demand[clock - (D + k) + 1]
        BY <2>2 DEF TelemetryInv
    <2>5. clock - (D + k) = clock - D - k
        BY <1>1, <2>2
    <2> QED BY <2>3, <2>4, <2>5
<1>7. seen = VisibleTelemetry
    BY DEF seen, D, upper, VisibleTelemetry
<1> QED BY <1>5, <1>6, <1>7 DEF D, VisibleIsDelayedTruth

\* A controller sees exactly the completed ticks of this episode that are
\* TelemetryDelay old or older, newest first, HistoryTicks of them at most.
THEOREM DelayedTruth == Spec => []VisibleIsDelayedTruth
BY DelayedView, EpisodeInvariant, TelemetryInvariant, PTL

-----------------------------------------------------------------------------
\* The episodes of the replay are those of the environment.
LEMMA ReplayIsSpec == ReplaySpec => Spec
<1>1. ReplayInit => Init
    BY DEF ReplayInit
<1>2. [ReplayNext]_replayVars => [Next]_envVars
    BY DEF ReplayNext, ReplayReset, ReplayStep, Next, replayVars, envVars
<1> QED BY <1>1, <1>2, PTL DEF ReplaySpec, Spec

\* Log entries already written stay, and a step writes the next one.
LEMMA LogGrows ==
    ASSUME NEW n \in Nat, NEW l, DOMAIN l = 1 .. n, l = [k \in 1 .. n |-> l[k]], NEW e
    PROVE  /\ Append(l, e) = [k \in 1 .. n + 1 |-> IF k <= n THEN l[k] ELSE e]
           /\ Len(Append(l, e)) = n + 1
<1>1. PICK S : S = {l[k] : k \in 1 .. n}
    OBVIOUS
<1>2. l \in Seq(S) /\ Len(l) = n
    <2>1. \A k \in 1 .. n : l[k] \in S
        BY <1>1
    <2>2. l \in [1 .. n -> S]
        BY <2>1
    <2> QED BY <2>2
<1>3. Append(l, e) = [k \in 1 .. n + 1 |-> IF k <= n THEN l[k] ELSE e]
    BY <1>2
<1> QED BY <1>3

-----------------------------------------------------------------------------
(* When every startup is nominal.                                          *)
Nominal == \A i \in DOMAIN world.startup : world.startup[i] = 2

\* What an action does to the list of pending replicas: it cuts its end off,
\* or adds to its end replicas that have their whole delay before them.
LEMMA ActedInOrder ==
    ASSUME EpisodeInv, ~needsReset, NEW code \in Codes(contract), Nominal, StartupDelay # 0,
           NEW q, q = Acted(code), NEW c, c = TargetFor(contract, code, Committed(pool))
    PROVE  /\ q.active = Smaller(pool.active, c)
           /\ Len(q.pending) = c - q.active
           /\ \A i \in 1 .. Len(q.pending) :
                IF i <= Len(pool.pending) THEN q.pending[i] = pool.pending[i]
                ELSE q.pending[i] = Requested(2)
<1> DEFINE n == Len(pool.pending)
<1>1. /\ PoolInv(q) /\ Committed(q) = c
      /\ PoolInv(pool) /\ world \in World
    BY ActedInv, WorldFits DEF EpisodeInv
<1>2. /\ MinReplicas \in Nat \ {0} /\ MaxReplicas \in Nat
      /\ pool.active \in Nat /\ n \in Nat /\ Committed(pool) = pool.active + n
      /\ Committed(pool) <= MaxReplicas
      /\ pool.pending \in Seq(PendingReplica)
      /\ pool.active >= MinReplicas
    BY <1>1, PoolInvFacts, ReplicaConfig
<1>3. /\ q.active \in Nat /\ Len(q.pending) \in Nat /\ c = q.active + Len(q.pending)
    BY <1>1, PoolInvFacts, ReplicaConfig
<1>4. c \in MinReplicas .. MaxReplicas
    BY <1>1, TargetInBounds, PoolInvFacts DEF PoolInv
<1> DEFINE up == c - Committed(pool)
           down == Committed(pool) - c
<1>5. CASE c > Committed(pool)
    <2>1. up \in Nat \ {0}
        BY <1>2, <1>4, <1>5
    <2>2. Added(pool, up) = up
        BY <1>2, <1>4, <1>5 DEF Added, Smaller
    <2>3. DrawCount(pool, up) = up
        BY <2>2 DEF DrawCount
    <2> DEFINE news == StartupDraws(pool, up)
    <2>4. DOMAIN news = 1 .. up /\ \A i \in 1 .. up : news[i] = 2
        <3>1. DOMAIN news = 1 .. up /\ \A i \in 1 .. up : news[i] = world.startup[draws.startup + i]
            BY <2>3 DEF StartupDraws
        <3>2. \A i \in 1 .. up : draws.startup + i \in DOMAIN world.startup
            <4> SUFFICES ASSUME NEW i \in 1 .. up PROVE draws.startup + i \in DOMAIN world.startup
                OBVIOUS
            <4>1. clock \in Nat /\ clock < EpisodeTicks /\ draws.startup \in 0 .. clock * Spare
                BY EnvConfig DEF EpisodeInv
            <4>2. Spare \in Nat /\ Spare = MaxReplicas - MinReplicas
                BY SpareRange DEF Spare
            <4>3. up <= Spare /\ i \in Nat /\ i >= 1
                BY <1>2, <1>4, <2>1, <4>2
            <4>4. i \in 0 .. Spare
                BY <2>1, <4>2, <4>3
            <4>5. draws.startup + i <= EpisodeTicks * MaxReplicas
                BY <4>1, <4>4, DrawsFit
            <4>6. clock * Spare \in Nat
                BY <4>1, <4>2
            <4>7. draws.startup \in Nat
                BY <4>1, <4>6
            <4>8. EpisodeTicks * MaxReplicas \in Nat
                BY <1>2, EnvConfig
            <4>9. draws.startup + i \in 1 .. EpisodeTicks * MaxReplicas
                BY <4>3, <4>5, <4>7, <4>8
            <4>10. DOMAIN world.startup = 1 .. EpisodeTicks * MaxReplicas
                BY <1>1 DEF World
            <4> QED BY <4>9, <4>10
        <3> QED BY <3>1, <3>2 DEF Nominal
    <2>5. q = ScaledUp(pool, up, news)
        BY <1>2, <1>4, <1>5 DEF Acted
    <2>6. q.pending = pool.pending \o [i \in DOMAIN news |-> Requested(news[i])]
        <3>1. pool = [active |-> pool.active, pending |-> pool.pending,
                      terminating |-> pool.terminating, started |-> pool.started]
            BY <1>1, PoolInvFacts
        <3> QED BY <2>5, <3>1 DEF ScaledUp
    <2>7. q.active = pool.active
        <3>1. pool = [active |-> pool.active, pending |-> pool.pending,
                      terminating |-> pool.terminating, started |-> pool.started]
            BY <1>1, PoolInvFacts
        <3> QED BY <2>5, <3>1 DEF ScaledUp
    <2>8. PICK added : added = [i \in 1 .. up |-> Requested(2)]
        OBVIOUS
    <2>9. q.pending = pool.pending \o added
        <3>1. [i \in DOMAIN news |-> Requested(news[i])] = added
            BY <2>4, <2>8
        <3> QED BY <2>6, <3>1
    <2>10. Requested(2) \in PendingReplica
        BY RequestedType, TimingConfig
    <2> HIDE DEF up, news
    <2>11. added \in Seq(PendingReplica) /\ Len(added) = up
        BY <2>1, <2>8, <2>10
    <2>12. /\ Len(q.pending) = n + up
           /\ \A i \in 1 .. n + up :
                q.pending[i] = IF i <= n THEN pool.pending[i] ELSE added[i - n]
        <3>1. PICK old \in Seq(PendingReplica), m \in Nat : old = pool.pending /\ m = n /\ m = Len(old)
            BY <1>2
        <3>2. PICK both : both = old \o added
            OBVIOUS
        <3>3. /\ Len(both) = m + up
              /\ \A i \in 1 .. m + up : both[i] = IF i <= m THEN old[i] ELSE added[i - m]
            <4>0. old \in Seq(PendingReplica) /\ added \in Seq(PendingReplica)
                BY <2>11
            <4>1. /\ Len(both) = Len(old) + Len(added)
                  /\ \A i \in 1 .. Len(old) + Len(added) :
                        both[i] = IF i <= Len(old) THEN old[i] ELSE added[i - Len(old)]
                BY <3>2, <4>0, JoinedAt
            <4> QED BY <2>11, <3>1, <4>1
        <3> QED BY <2>9, <3>1, <3>2, <3>3
    <2>13. \A i \in 1 .. up : added[i] = Requested(2)
        BY <2>8
    <2>14. \A i \in 1 .. n + up : i > n => i - n \in 1 .. up
        BY <1>2, <2>1
    <2>15. q.active = Smaller(pool.active, c)
        BY <1>2, <1>4, <1>5, <2>7 DEF Smaller
    <2>16. Len(q.pending) = c - q.active
        BY <1>2, <1>3
    <2>17. \A i \in 1 .. Len(q.pending) :
                IF i <= n THEN q.pending[i] = pool.pending[i] ELSE q.pending[i] = Requested(2)
        <3> SUFFICES ASSUME NEW i \in 1 .. Len(q.pending)
                     PROVE  IF i <= n THEN q.pending[i] = pool.pending[i]
                            ELSE q.pending[i] = Requested(2)
            OBVIOUS
        <3> HIDE DEF n
        <3>1. i \in 1 .. n + up /\ q.pending[i] = IF i <= n THEN pool.pending[i] ELSE added[i - n]
            BY <2>12
        <3>2. i > n => added[i - n] = Requested(2)
            BY <2>13, <2>14, <3>1
        <3>3. i \in Int /\ n \in Int
            BY <1>2, <2>1, <3>1
        <3> QED BY <3>1, <3>2, <3>3
    <2> QED BY <2>15, <2>16, <2>17
<1>6. CASE c < Committed(pool)
    <2>1. down \in Nat \ {0}
        BY <1>2, <1>4, <1>6
    <2>2. Removed(pool, down) = down
        BY <1>2, <1>4, <1>6 DEF Removed, Smaller
    <2>3. q = ScaledDown(pool, down)
        BY <1>2, <1>4, <1>6 DEF Acted
    <2>4. /\ q.active = pool.active - (down - Cancelled(pool, down))
          /\ q.pending = SubSeq(pool.pending, 1, n - Cancelled(pool, down))
        <3>1. q = [active |-> pool.active - (Removed(pool, down) - Cancelled(pool, down)),
                   pending |-> SubSeq(pool.pending, 1, Len(pool.pending) - Cancelled(pool, down)),
                   terminating |-> pool.terminating + (Removed(pool, down) - Cancelled(pool, down)),
                   started |-> pool.started]
            BY <2>3 DEF ScaledDown
        <3>2. PICK serving : serving = pool.active - (Removed(pool, down) - Cancelled(pool, down))
            OBVIOUS
        <3>3. PICK starting : starting = SubSeq(pool.pending, 1, n - Cancelled(pool, down))
            OBVIOUS
        <3>4. PICK going : going = pool.terminating + (Removed(pool, down) - Cancelled(pool, down))
            OBVIOUS
        <3>5. q = [active |-> serving, pending |-> starting,
                   terminating |-> going, started |-> pool.started]
            BY <3>1, <3>2, <3>3, <3>4
        <3>6. q.active = serving /\ q.pending = starting
            BY <3>5
        <3> QED BY <2>2, <3>2, <3>3, <3>6
    <2>5. Cancelled(pool, down) = Smaller(down, n)
        BY <2>2 DEF Cancelled
    <2> HIDE DEF down
    <2>6. q.active = Smaller(pool.active, c)
        BY <1>2, <1>4, <1>6, <2>1, <2>4, <2>5 DEF Smaller, down
    <2>7. Len(q.pending) = c - q.active
        BY <1>3
    <2>8. PICK kept : kept = n - Cancelled(pool, down)
        OBVIOUS
    <2>9. kept \in 0 .. n
        <3>1. kept = n - Smaller(down, n)
            BY <2>5, <2>8
        <3>2. Smaller(down, n) \in 0 .. n
            BY <1>2, <2>1 DEF Smaller
        <3> HIDE DEF n
        <3> QED BY <1>2, <3>1, <3>2
    <2>10. /\ Len(q.pending) = kept
           /\ \A i \in 1 .. kept : q.pending[i] = pool.pending[i]
        <3>1. q.pending = SubSeq(pool.pending, 1, kept)
            BY <2>4, <2>8
        <3> QED BY <1>2, <2>9, <3>1
    <2> QED BY <1>2, <2>6, <2>7, <2>9, <2>10
<1>7. CASE c = Committed(pool)
    <2>1. q = pool
        BY <1>2, <1>4, <1>7 DEF Acted
    <2> QED BY <1>2, <1>3, <1>7, <2>1 DEF Smaller
<1> QED BY <1>2, <1>4, <1>5, <1>6, <1>7

\* The ticks a nominal startup takes cover its delay, and one fewer do not.
LEMMA TicksCover ==
    ASSUME StartupDelay # 0
    PROVE  /\ StartupTicks \in Nat \ {0} /\ Interval \in Nat \ {0} /\ NominalDelay \in Nat
           /\ (StartupTicks - 1) * Interval < NominalDelay
           /\ NominalDelay <= StartupTicks * Interval
<1>1. /\ StartupDelay \in Nat \ {0} /\ ControlInterval \in Nat \ {0}
    BY TimingConfig
<1>2. /\ Interval \in Nat \ {0} /\ NominalDelay \in Nat \ {0}
    BY <1>1 DEF Interval, NominalDelay
<1>3. StartupTicks = Larger(1, (NominalDelay + Interval - 1) \div Interval)
    BY DEF StartupTicks, AdvancesUntilActive
<1>4. \A i, d \in Nat \ {0} :
        /\ (d + i - 1) \div i \in Nat \ {0}
        /\ ((d + i - 1) \div i - 1) * i < d
        /\ d <= ((d + i - 1) \div i) * i
    <2> SUFFICES ASSUME NEW i \in Nat \ {0}, NEW d \in Nat \ {0}
                 PROVE  /\ (d + i - 1) \div i \in Nat \ {0}
                        /\ ((d + i - 1) \div i - 1) * i < d
                        /\ d <= ((d + i - 1) \div i) * i
        OBVIOUS
    <2>1. PICK m \in Nat : m = d + i - 1 /\ m >= i
        BY SMT
    <2>2. PICK r \in Nat : r = m \div i /\ r * i <= m /\ m < r * i + i
        BY <2>1
    <2>3. r # 0
        BY <2>1, <2>2
    <2>4. r - 1 \in Nat /\ (r - 1) * i = r * i - i /\ r * i \in Nat
        BY <2>2, <2>3
    <2> QED BY <2>1, <2>2, <2>3, <2>4
<1> QED BY <1>2, <1>3, <1>4 DEF Larger

-----------------------------------------------------------------------------
(* The log holds one entry per tick of the running episode. Every replica  *)
(* still starting has an age, the ticks since the action that requested    *)
(* it: at every decision since then the fleet was committed to it, and at  *)
(* the decision before it was not.                                         *)
LogInv ==
    /\ DOMAIN log = 1 .. clock /\ Len(log) = clock
    /\ log = [k \in 1 .. clock |-> log[k]]
    /\ \A s \in 0 .. clock : CommittedAt(s) \in Nat
    /\ CommittedAt(clock) = Committed(pool)

RequestedAgo(i, age) ==
    /\ pool.pending[i].remaining = NominalDelay - age * Interval
    /\ pool.pending[i].multiplier = 2
    /\ \A s \in 0 .. clock : s >= clock + 1 - age => CommittedAt(s) >= pool.active + i
    /\ CommittedAt(clock - age) < pool.active + i

ServingWasCommitted ==
    \A s \in 0 .. clock : s >= clock + 1 - StartupTicks => CommittedAt(s) >= pool.active

WindowMinimumAt(t) ==
    LET window == {CommittedAt(s) : s \in Larger(0, t - StartupTicks) .. t}
        served == log[t].info.counts.active
    IN  served \in window /\ \A c \in window : served <= c

WindowInv ==
    Nominal =>
        /\ StartupDelay # 0 =>
            /\ ServingWasCommitted
            /\ \A i \in 1 .. Len(pool.pending) : \E age \in 1 .. clock : RequestedAgo(i, age)
        /\ \A t \in 1 .. clock : WindowMinimumAt(t)


-----------------------------------------------------------------------------
(* The arithmetic of one tick, over the commitments C, the ages of the     *)
(* replicas still starting and w, the ticks a startup takes.               *)
AtLeast(C, first, last, x) == \A s \in 0 .. last : s >= first => C[s] >= x

Commitments(C, t) == \A s \in 0 .. t + 1 : C[s] \in Nat

\* The ages of n replicas still starting beside `active` that serve.
AgesFit(C, t, active, n, ages) ==
    /\ C[t] = active + n
    /\ \A i \in 1 .. n :
        /\ ages[i] \in 1 .. t
        /\ AtLeast(C, t + 1 - ages[i], t, active + i)
        /\ C[t - ages[i]] < active + i

Grown(n, ages, i) == IF i <= n THEN ages[i] + 1 ELSE 1

\* The replicas that serve are the least commitment of the window.
LEMMA ServedIsLeast ==
    ASSUME NEW t \in Nat, NEW w \in Nat \ {0}, NEW active \in Nat, NEW n \in Nat,
           NEW first, first = t + 1 - w,
           NEW C, Commitments(C, t), AtLeast(C, first, t, active),
           NEW ages, AgesFit(C, t, active, n, ages), \A i \in 1 .. n : ages[i] < w
    PROVE  /\ AtLeast(C, first, t + 1, Smaller(active, C[t + 1]))
           /\ \E s \in 0 .. t + 1 : s >= first /\ C[s] = Smaller(active, C[t + 1])
<1> DEFINE served == Smaller(active, C[t + 1])
<1> USE DEF Commitments, AtLeast, AgesFit
<1>0. t + 1 \in 0 .. t + 1 /\ C[t + 1] \in Nat
    OBVIOUS
<1>1. served \in Nat /\ served <= active /\ served <= C[t + 1]
    BY <1>0 DEF Smaller
<1>2. ASSUME NEW s \in 0 .. t + 1, s >= t + 1 - w
      PROVE  C[s] >= served
    <2>1. CASE s = t + 1
        BY <1>0, <1>1, <2>1
    <2>2. CASE s # t + 1
        <3>1. s \in 0 .. t /\ C[s] \in Nat
            BY <2>2
        <3> QED BY <1>1, <1>2, <3>1
    <2> QED BY <2>1, <2>2
<1>3. \E s \in 0 .. t + 1 : s >= t + 1 - w /\ C[s] = served
    <2>1. CASE C[t + 1] <= active
        <3>1. served = C[t + 1]
            BY <1>0, <2>1 DEF Smaller
        <3> QED BY <1>0, <3>1
    <2>2. CASE C[t + 1] > active /\ n = 0
        <3>1. served = active
            BY <1>0, <2>2 DEF Smaller
        <3> QED BY <2>2, <3>1
    <2>3. CASE C[t + 1] > active /\ n # 0
        <3>1. served = active
            BY <1>0, <2>3 DEF Smaller
        <3>2. PICK age \in 1 .. t : age < w /\ C[t - age] < active + 1
            <4>1. 1 \in 1 .. n
                BY <2>3
            <4> QED BY <4>1
        <3>3. t - age \in 0 .. t /\ t - age \in 0 .. t + 1 /\ t - age >= t + 1 - w
            BY <3>2
        <3>4. C[t - age] \in Nat /\ C[t - age] >= active
            BY <3>3
        <3>5. C[t - age] = served
            BY <3>1, <3>2, <3>4
        <3> QED BY <3>3, <3>5
    <2> QED BY <1>0, <2>1, <2>2, <2>3
<1> QED BY <1>2, <1>3

\* After the action every replica still starting has an age, counted to the
\* end of the tick: one more than before, or 1 when it was just requested.
LEMMA AgesGrow ==
    ASSUME NEW t \in Nat, NEW active \in Nat, NEW n \in Nat,
           NEW C, Commitments(C, t), NEW ages, AgesFit(C, t, active, n, ages),
           NEW served, served = Smaller(active, C[t + 1]),
           NEW i \in 1 .. C[t + 1] - served,
           NEW age, age = Grown(n, ages, i)
    PROVE  /\ age \in 1 .. t + 1
           /\ AtLeast(C, t + 2 - age, t + 1, served + i)
           /\ C[t + 1 - age] < served + i
<1> USE DEF Commitments, AtLeast, AgesFit, Grown
<1>0. t + 1 \in 0 .. t + 1 /\ C[t + 1] \in Nat
    OBVIOUS
<1>1. served = active /\ C[t + 1] >= active + i
    BY <1>0 DEF Smaller
<1>2. CASE i <= n
    <2>1. /\ i \in 1 .. n /\ age = ages[i] + 1 /\ ages[i] \in 1 .. t
          /\ C[t - ages[i]] < active + i
          /\ \A s \in 0 .. t : s >= t + 1 - ages[i] => C[s] >= active + i
        BY <1>2
    <2>2. PICK a \in 1 .. t : a = ages[i]
        BY <2>1
    <2>3. /\ C[t - a] < active + i /\ age = a + 1
          /\ \A s \in 0 .. t : s >= t + 1 - a => C[s] >= active + i
        BY <2>1, <2>2
    <2>4. t + 1 - age = t - a /\ age \in 1 .. t + 1
        BY <2>3
    <2>5. ASSUME NEW s \in 0 .. t + 1, s >= t + 2 - age
          PROVE  C[s] >= served + i
        <3>1. CASE s = t + 1
            BY <1>1, <3>1
        <3>2. CASE s # t + 1
            <4>1. s \in 0 .. t /\ s >= t + 1 - a
                BY <2>4, <2>5, <3>2
            <4> QED BY <1>1, <2>3, <4>1
        <3> QED BY <3>1, <3>2
    <2>6. C[t + 1 - age] < served + i
        BY <1>1, <2>3, <2>4
    <2> QED BY <2>4, <2>5, <2>6
<1>3. CASE i > n
    <2>1. age = 1
        BY <1>3
    <2>2. C[t] < served + i
        BY <1>1, <1>3
    <2>3. t + 1 - age = t
        BY <2>1
    <2>4. \A s \in 0 .. t + 1 : s >= t + 2 - age => s = t + 1
        BY <2>3
    <2> QED BY <1>1, <2>1, <2>2, <2>3, <2>4
<1> QED BY <1>2, <1>3

\* Once a replica is w ticks old, every decision of the window was committed
\* to it.
LEMMA ReadyWasCommitted ==
    ASSUME NEW t \in Nat, NEW w \in Nat \ {0}, NEW served \in Nat, NEW ready \in Nat,
           NEW C, Commitments(C, t), AtLeast(C, t + 1 - w, t + 1, served),
           NEW age,
           ready # 0 => /\ age \in Nat /\ age >= w
                        /\ AtLeast(C, t + 2 - age, t + 1, served + ready)
    PROVE  AtLeast(C, t + 2 - w, t + 1, served + ready)
<1> USE DEF Commitments, AtLeast
<1> SUFFICES ASSUME NEW s \in 0 .. t + 1, s >= t + 2 - w
             PROVE  C[s] >= served + ready
    OBVIOUS
<1>1. C[s] \in Nat
    OBVIOUS
<1>2. CASE ready = 0
    BY <1>1, <1>2
<1>3. CASE ready # 0
    <2>1. s >= t + 2 - age
        BY <1>3
    <2> QED BY <1>3, <2>1
<1> QED BY <1>2, <1>3

-----------------------------------------------------------------------------
\* A step keeps the log's entries and writes the one of its own tick.
LEMMA StepLogs ==
    ASSUME EpisodeInv, LogInv, NEW code \in Codes(contract), ReplayStep(code),
           NEW t, t = clock
    PROVE  /\ LogInv'
           /\ t \in Nat /\ clock' = t + 1
           /\ \A k \in 1 .. t : log'[k] = log[k]
           /\ \A s \in 0 .. t : CommittedAt(s)' = CommittedAt(s)
           /\ log'[t + 1] = Outcome(info', pool', VisibleTelemetry')
           /\ CommittedAt(t + 1)' = TargetFor(contract, code, Committed(pool))
           /\ Committed(pool') = TargetFor(contract, code, Committed(pool))
           /\ info'.counts = Counts(Acted(code))
<1>1. t \in Nat /\ t = clock /\ ~needsReset /\ Step(code)
    BY EnvConfig DEF ReplayStep, Step, EpisodeInv
<1>2. PICK e : e = Outcome(info', pool', VisibleTelemetry')
    OBVIOUS
<1>3. log' = Append(log, e)
    BY <1>2 DEF ReplayStep
<1>4. clock' = t + 1
    BY <1>1 DEF Step
<1>5. /\ log' = [k \in 1 .. t + 1 |-> IF k <= t THEN log[k] ELSE e]
      /\ Len(log') = t + 1
    <2>1. DOMAIN log = 1 .. t /\ Len(log) = t /\ log = [k \in 1 .. t |-> log[k]]
        BY <1>1 DEF LogInv
    <2> QED BY <1>1, <1>3, <2>1, LogGrows
<1>6. /\ DOMAIN log' = 1 .. t + 1
      /\ log' = [k \in 1 .. t + 1 |-> log'[k]]
      /\ \A k \in 1 .. t : log'[k] = log[k]
      /\ log'[t + 1] = e
    BY <1>1, <1>5
<1>7. \A s \in 0 .. t : CommittedAt(s)' = CommittedAt(s)
    BY <1>1, <1>6 DEF CommittedAt
<1>8. /\ pool' = Advanced(Acted(code), Interval)
      /\ info'.counts = Counts(Acted(code))
    BY <1>1 DEF Step
<1>9. /\ PoolInv(Acted(code))
      /\ Committed(Acted(code)) = TargetFor(contract, code, Committed(pool))
    BY <1>1, ActedInv
<1>10. Interval \in Nat \ {0}
    BY TimingConfig DEF Interval
<1>11. PoolInv(pool') /\ Committed(pool') = Committed(Acted(code))
    <2>1. PICK q : q = Acted(code)
        OBVIOUS
    <2>2. PoolInv(Advanced(q, Interval)) /\ Committed(Advanced(q, Interval)) = Committed(q)
        BY <1>9, <1>10, <2>1, AdvancedInv
    <2> QED BY <1>8, <2>1, <2>2
<1>12. e.committed = Committed(pool')
    BY <1>2 DEF Outcome
<1>13. CommittedAt(t + 1)' = Committed(pool')
    <2>1. t + 1 # 0
        BY <1>1
    <2> QED BY <1>6, <1>12, <2>1 DEF CommittedAt
<1>14. Committed(pool') \in Nat
    BY <1>11, PoolInvFacts, ReplicaConfig
<1>15. LogInv'
    <2>1. \A s \in 0 .. t + 1 : CommittedAt(s)' \in Nat
        <3>1. \A s \in 0 .. t : CommittedAt(s)' \in Nat
            BY <1>1, <1>7 DEF LogInv
        <3>2. \A s \in 0 .. t + 1 : s \in 0 .. t \/ s = t + 1
            BY <1>1
        <3> QED BY <1>13, <1>14, <3>1, <3>2
    <2>2. CommittedAt(t + 1)' = Committed(pool)'
        BY <1>13 DEF Committed
    <2>3. \A s : CommittedAt(s)' = IF s = 0 THEN InitialReplicas ELSE log'[s].committed
        BY DEF CommittedAt
    <2>4. CommittedAt(clock)' = Committed(pool)'
        BY <1>1, <1>4, <2>2 DEF CommittedAt
    <2>5. \A s \in 0 .. clock' : CommittedAt(s)' \in Nat
        BY <1>4, <2>1
    <2> QED BY <1>4, <1>5, <1>6, <2>4, <2>5 DEF LogInv
<1> QED BY <1>1, <1>2, <1>4, <1>6, <1>7, <1>8, <1>9, <1>11, <1>13, <1>15

LEMMA StartLogs ==
    ASSUME clock = 0, log = <<>>, pool = FreshPool
    PROVE  LogInv
<1>1. DOMAIN log = 1 .. 0 /\ Len(log) = 0 /\ log = [k \in 1 .. 0 |-> log[k]]
    <2>1. DOMAIN log = {} /\ Len(log) = 0
        OBVIOUS
    <2> QED BY <2>1
<1>2. Committed(FreshPool) = InitialReplicas /\ InitialReplicas \in Nat
    BY ReplicaConfig DEF Committed, FreshPool
<1> QED BY <1>1, <1>2 DEF LogInv, CommittedAt

\* With immediate startup a tick is served by what its action committed.
LEMMA ImmediateServes ==
    ASSUME EpisodeInv, ~needsReset, NEW code \in Codes(contract), StartupDelay = 0
    PROVE  Acted(code).active = TargetFor(contract, code, Committed(pool))
<1>1. PICK q : q = Acted(code)
    OBVIOUS
<1>2. PoolInv(q) /\ Committed(q) = TargetFor(contract, code, Committed(pool))
    BY <1>1, ActedInv
<1>3. Len(q.pending) = 0 /\ q.active \in Nat /\ Committed(q) = q.active + Len(q.pending)
    BY <1>2, NothingPending, PoolInvFacts, ReplicaConfig
<1> QED BY <1>1, <1>2, <1>3

LEMMA StartupTicksNat == StartupTicks \in Nat /\ (StartupDelay = 0 => StartupTicks = 0)
<1>1. StartupDelay = 0 => StartupTicks = 0
    BY DEF StartupTicks
<1> QED BY <1>1, TicksCover

\* The replicas of a pool that requests come to, and their ages.
LEMMA AgesOf ==
    ASSUME LogInv, PoolInv(pool), StartupDelay # 0, NEW t \in Nat, t = clock,
           \A i \in 1 .. Len(pool.pending) : \E age \in 1 .. clock : RequestedAgo(i, age)
    PROVE  \E ages : \A i \in 1 .. Len(pool.pending) :
                        /\ ages[i] \in 1 .. t /\ ages[i] < StartupTicks
                        /\ RequestedAgo(i, ages[i])
<1>1. PICK ages : ages = [i \in 1 .. Len(pool.pending) |->
                            CHOOSE age \in 1 .. t : RequestedAgo(i, age)]
    OBVIOUS
<1> SUFFICES ASSUME NEW i \in 1 .. Len(pool.pending)
             PROVE  ages[i] \in 1 .. t /\ ages[i] < StartupTicks /\ RequestedAgo(i, ages[i])
    OBVIOUS
<1>2. PICK age : age \in 1 .. t /\ RequestedAgo(i, age) /\ age = ages[i]
    BY <1>1
<1>3. /\ pool.pending[i].remaining = NominalDelay - age * Interval
      /\ pool.pending[i].remaining \in Int /\ pool.pending[i].remaining > 0
    <2>1. pool.pending[i].remaining = NominalDelay - age * Interval
        BY <1>2 DEF RequestedAgo
    <2>2. pool.pending[i] \in PendingReplica
        BY PoolInvFacts
    <2>3. pool.pending[i].remaining \in 1 .. RealizedDelay(3)
        BY <2>2 DEF PendingReplica
    <2> QED BY <2>1, <2>3
<1>4. /\ StartupTicks \in Nat \ {0} /\ Interval \in Nat \ {0} /\ NominalDelay \in Nat
      /\ NominalDelay <= StartupTicks * Interval
    BY TicksCover
<1>5. age < StartupTicks
    <2>1. \A a \in Nat, w \in Nat, d \in Nat \ {0} : a >= w => a * d >= w * d
        BY SMT
    <2>2. age \in Nat /\ age * Interval < StartupTicks * Interval
        <3>1. age \in Nat /\ age * Interval \in Int /\ StartupTicks * Interval \in Int
            BY <1>2, <1>4
        <3> QED BY <1>3, <1>4, <3>1
    <2>3. age * Interval \in Nat /\ StartupTicks * Interval \in Nat
        BY <1>4, <2>2
    <2> QED BY <1>4, <2>1, <2>2, <2>3
<1> QED BY <1>2, <1>5

\* A step keeps what the ages say, and the tick it serves is the least
\* commitment of its window.
LEMMA StepKeepsWindow ==
    ASSUME EpisodeInv, LogInv, WindowInv, NEW code \in Codes(contract), ReplayStep(code)
    PROVE  WindowInv'
<1>1. PICK t \in Nat : t = clock
    BY EnvConfig DEF EpisodeInv
<1>2. PICK c : c = TargetFor(contract, code, Committed(pool))
    OBVIOUS
<1>3. PICK q : q = Acted(code)
    OBVIOUS
<1>4. PICK C : C = [s \in 0 .. t + 1 |-> IF s <= t THEN CommittedAt(s) ELSE c]
    OBVIOUS
<1>5. /\ LogInv' /\ clock' = t + 1
      /\ \A k \in 1 .. t : log'[k] = log[k]
      /\ \A s \in 0 .. t : CommittedAt(s)' = CommittedAt(s)
      /\ CommittedAt(t + 1)' = c /\ Committed(pool') = c
      /\ log'[t + 1] = Outcome(info', pool', VisibleTelemetry')
      /\ info'.counts = Counts(q)
    BY <1>1, <1>2, <1>3, StepLogs
<1>6. \A s \in 0 .. t + 1 : CommittedAt(s)' = C[s]
    BY <1>1, <1>4, <1>5
<1>7. \A s \in 0 .. t : CommittedAt(s) = C[s]
    BY <1>1, <1>4
<1>8. \A s \in 0 .. t + 1 : C[s] \in Nat
    BY <1>5, <1>6 DEF LogInv
<1>9. /\ ~needsReset /\ PoolInv(pool) /\ Step(code)
      /\ world' = world /\ pool' = Advanced(q, Interval)
    BY <1>3 DEF ReplayStep, Step, EpisodeInv
<1>10. PoolInv(q) /\ Committed(q) = c
    BY <1>2, <1>3, <1>9, ActedInv
<1>11. log'[t + 1].info.counts.active = q.active
    BY <1>5 DEF Outcome, Counts
<1> SUFFICES ASSUME Nominal'
             PROVE  /\ StartupDelay # 0 =>
                        /\ ServingWasCommitted'
                        /\ (\A i \in 1 .. Len(pool.pending) :
                                \E age \in 1 .. clock : RequestedAgo(i, age))'
                    /\ \A k \in 1 .. t + 1 : WindowMinimumAt(k)'
    BY <1>5 DEF WindowInv
<1>12. /\ Nominal
       /\ StartupDelay # 0 =>
            /\ ServingWasCommitted
            /\ \A i \in 1 .. Len(pool.pending) : \E age \in 1 .. clock : RequestedAgo(i, age)
       /\ \A k \in 1 .. t : WindowMinimumAt(k)
    <2>1. Nominal
        BY <1>9 DEF Nominal
    <2> QED BY <1>1, <2>1 DEF WindowInv
<1>13. ASSUME NEW k \in 1 .. t PROVE WindowMinimumAt(k)'
    <2>1. \A s \in Larger(0, k - StartupTicks) .. k : s \in 0 .. t
        BY <1>1, StartupTicksNat DEF Larger
    <2>2. {CommittedAt(s)' : s \in Larger(0, k - StartupTicks) .. k}
            = {CommittedAt(s) : s \in Larger(0, k - StartupTicks) .. k}
        BY <1>5, <2>1
    <2>3. WindowMinimumAt(k)
        BY <1>12
    <2> QED BY <1>5, <2>2, <2>3 DEF WindowMinimumAt
<1>14. ASSUME AtLeast(C, t + 1 - StartupTicks, t + 1, q.active),
              \E s \in 0 .. t + 1 : s >= t + 1 - StartupTicks /\ C[s] = q.active
       PROVE  WindowMinimumAt(t + 1)'
    <2>1. PICK w \in Nat : w = StartupTicks
        BY StartupTicksNat
    <2>2. PICK served : served = q.active
        OBVIOUS
    <2>3. PICK window : window = {CommittedAt(s)' : s \in Larger(0, t + 1 - w) .. t + 1}
        OBVIOUS
    <2>4. \A s \in Larger(0, t + 1 - w) .. t + 1 : s \in 0 .. t + 1 /\ s >= t + 1 - w
        BY <2>1 DEF Larger
    <2>5. served \in window
        <3>1. PICK s \in 0 .. t + 1 : s >= t + 1 - w /\ C[s] = served
            BY <1>14, <2>1, <2>2
        <3>2. s \in Larger(0, t + 1 - w) .. t + 1
            BY <2>1, <3>1 DEF Larger
        <3> QED BY <1>6, <2>3, <3>1, <3>2
    <2>6. \A x \in window : served <= x
        <3> SUFFICES ASSUME NEW x \in window PROVE served <= x
            OBVIOUS
        <3>1. PICK s \in Larger(0, t + 1 - w) .. t + 1 : x = CommittedAt(s)'
            BY <2>3
        <3>2. s \in 0 .. t + 1 /\ x = C[s] /\ C[s] >= served
            BY <1>6, <1>14, <2>1, <2>2, <2>4, <3>1 DEF AtLeast
        <3> QED BY <3>2
    <2> QED BY <1>11, <2>1, <2>2, <2>3, <2>5, <2>6 DEF WindowMinimumAt
<1>15. CASE StartupDelay = 0
    <2>1. StartupTicks = 0 /\ q.active = c
        BY <1>2, <1>3, <1>9, <1>15, StartupTicksNat, ImmediateServes
    <2>2. C[t + 1] = c /\ c \in Nat
        BY <1>5, <1>6, <1>8
    <2>3. \A s \in 0 .. t + 1 : s >= t + 1 => s = t + 1
        OBVIOUS
    <2>4. WindowMinimumAt(t + 1)'
        <3>1. AtLeast(C, t + 1 - StartupTicks, t + 1, q.active)
            BY <2>1, <2>2, <2>3 DEF AtLeast
        <3>2. t + 1 \in 0 .. t + 1 /\ t + 1 >= t + 1 - StartupTicks
            BY <2>1
        <3> QED BY <1>14, <2>1, <2>2, <3>1, <3>2
    <2>5. \A k \in 1 .. t + 1 : k \in 1 .. t \/ k = t + 1
        OBVIOUS
    <2> QED BY <1>13, <1>15, <2>4, <2>5
<1>16. CASE StartupDelay # 0
    <2>0. PICK n \in Nat, active \in Nat : n = Len(pool.pending) /\ active = pool.active
        BY <1>9, PoolInvFacts, ReplicaConfig
    <2>1. PICK served : served = q.active
        OBVIOUS
    <2>2. PICK w \in Nat \ {0} : w = StartupTicks
        BY <1>16, TicksCover
    <2>3. C[t + 1] = c /\ C[t] = active + n
        <3>1. CommittedAt(t) = Committed(pool)
            BY <1>1 DEF LogInv
        <3> QED BY <1>4, <1>7, <1>9, <2>0, <3>1, PoolInvFacts
    <2>4. PICK ages : \A i \in 1 .. n :
                /\ ages[i] \in 1 .. t /\ ages[i] < StartupTicks /\ RequestedAgo(i, ages[i])
        BY <1>1, <1>9, <1>12, <1>16, <2>0, AgesOf
    <2>5. \A i \in 1 .. n :
            /\ ages[i] \in 1 .. t /\ ages[i] < w
            /\ pool.pending[i].remaining = NominalDelay - ages[i] * Interval
            /\ pool.pending[i].multiplier = 2
            /\ C[t - ages[i]] < active + i
            /\ AtLeast(C, t + 1 - ages[i], t, active + i)
        <3> SUFFICES ASSUME NEW i \in 1 .. n
                     PROVE  /\ ages[i] \in 1 .. t /\ ages[i] < w
                            /\ pool.pending[i].remaining = NominalDelay - ages[i] * Interval
                            /\ pool.pending[i].multiplier = 2
                            /\ C[t - ages[i]] < active + i
                            /\ AtLeast(C, t + 1 - ages[i], t, active + i)
            OBVIOUS
        <3>1. PICK a : a = ages[i] /\ a \in 1 .. t /\ a < w /\ RequestedAgo(i, a)
            BY <2>2, <2>4
        <3>2. /\ pool.pending[i].remaining = NominalDelay - a * Interval
              /\ pool.pending[i].multiplier = 2
              /\ \A s \in 0 .. t : s >= t + 1 - a => CommittedAt(s) >= active + i
              /\ CommittedAt(t - a) < active + i
            BY <1>1, <2>0, <3>1 DEF RequestedAgo
        <3>3. t - a \in 0 .. t
            BY <3>1
        <3>4. C[t - a] < active + i /\ AtLeast(C, t + 1 - a, t, active + i)
            BY <1>7, <3>2, <3>3 DEF AtLeast
        <3> QED BY <3>1, <3>2, <3>4
    <2>6. AtLeast(C, t + 1 - w, t, active)
        <3>1. \A s \in 0 .. t : s >= t + 1 - w => CommittedAt(s) >= active
            BY <1>1, <1>12, <1>16, <2>0, <2>2 DEF ServingWasCommitted
        <3> QED BY <1>7, <3>1 DEF AtLeast
    <2>61. Commitments(C, t) /\ AgesFit(C, t, active, n, ages)
        BY <1>8, <2>3, <2>5 DEF Commitments, AgesFit
    <2>7. /\ served = Smaller(active, C[t + 1])
          /\ Len(q.pending) = C[t + 1] - served
          /\ \A i \in 1 .. C[t + 1] - served :
                IF i <= n THEN q.pending[i] = pool.pending[i]
                ELSE q.pending[i] = Requested(2)
        <3>1. /\ q.active = Smaller(pool.active, c)
              /\ Len(q.pending) = c - q.active
              /\ \A i \in 1 .. Len(q.pending) :
                    IF i <= Len(pool.pending) THEN q.pending[i] = pool.pending[i]
                    ELSE q.pending[i] = Requested(2)
            BY <1>2, <1>3, <1>9, <1>12, <1>16, ActedInOrder
        <3> QED BY <2>0, <2>1, <2>3, <3>1
    <2>71. /\ AtLeast(C, t + 1 - w, t + 1, served)
           /\ \E s \in 0 .. t + 1 : s >= t + 1 - w /\ C[s] = served
        <3>1. \A i \in 1 .. n : ages[i] < w
            BY <2>5
        <3>2. served = Smaller(active, C[t + 1])
            BY <2>7
        <3>3. PICK first : first = t + 1 - w
            OBVIOUS
        <3>4. AtLeast(C, first, t, active)
            BY <2>6, <3>3
        <3>5. /\ AtLeast(C, first, t + 1, Smaller(active, C[t + 1]))
              /\ \E s \in 0 .. t + 1 : s >= first /\ C[s] = Smaller(active, C[t + 1])
            BY <2>61, <3>1, <3>3, <3>4, ServedIsLeast
        <3> QED BY <3>2, <3>3, <3>5
    <2>8. WindowMinimumAt(t + 1)'
        BY <1>14, <2>1, <2>2, <2>71
    <2>9. PICK grown : grown = [i \in 1 .. C[t + 1] - served |-> Grown(n, ages, i)]
        OBVIOUS
    <2>10. \A i \in 1 .. C[t + 1] - served :
            /\ grown[i] \in 1 .. t + 1
            /\ AtLeast(C, t + 2 - grown[i], t + 1, served + i)
            /\ C[t + 1 - grown[i]] < served + i
        <3>1. served = Smaller(active, C[t + 1])
            BY <2>7
        <3>2. \A i \in 1 .. C[t + 1] - served : grown[i] = Grown(n, ages, i)
            BY <2>9
        <3> QED BY <2>61, <3>1, <3>2, AgesGrow
    <2>11. \A i \in 1 .. C[t + 1] - served :
            /\ q.pending[i].multiplier = 2
            /\ q.pending[i].remaining = NominalDelay - (grown[i] - 1) * Interval
        <3> SUFFICES ASSUME NEW i \in 1 .. C[t + 1] - served
                     PROVE  /\ q.pending[i].multiplier = 2
                            /\ q.pending[i].remaining = NominalDelay - (grown[i] - 1) * Interval
            OBVIOUS
        <3>1. CASE i <= n
            <4>1. i \in 1 .. n /\ q.pending[i] = pool.pending[i] /\ grown[i] = ages[i] + 1
                BY <2>7, <2>9, <3>1 DEF Grown
            <4>2. /\ ages[i] \in 1 .. t
                  /\ pool.pending[i].remaining = NominalDelay - ages[i] * Interval
                  /\ pool.pending[i].multiplier = 2
                BY <2>5, <4>1
            <4>3. grown[i] - 1 = ages[i]
                BY <4>1, <4>2
            <4> QED BY <4>1, <4>2, <4>3
        <3>2. CASE i > n
            <4>1. q.pending[i] = Requested(2) /\ grown[i] = 1
                BY <2>7, <2>9, <3>2 DEF Grown
            <4>2. Requested(2).multiplier = 2 /\ Requested(2).remaining = NominalDelay
                BY DEF Requested, RealizedDelay, NominalDelay
            <4>3. (1 - 1) * Interval = 0 /\ NominalDelay - 0 = NominalDelay
                BY <1>16, TicksCover
            <4> QED BY <4>1, <4>2, <4>3
        <3>3. i <= n \/ i > n
            BY <2>0
        <3> QED BY <3>1, <3>2, <3>3
    <2>12. PICK ready \in 0 .. Len(q.pending) :
            /\ pool'.active = q.active + ready
            /\ Len(pool'.pending) = Len(q.pending) - ready
            /\ \A i \in 1 .. ready : q.pending[i].remaining <= Interval
            /\ \A i \in 1 .. Len(q.pending) - ready :
                pool'.pending[i] = Aged(q.pending[ready + i], Interval)
        <3>1. AllNominal(q)
            BY <1>10, <2>7, <2>11, PoolInvFacts DEF AllNominal
        <3>2. PICK e \in Nat \ {0} : e = Interval
            BY TimingConfig DEF Interval
        <3>3. PICK after : after = Advanced(q, e)
            OBVIOUS
        <3>4. \E ready \in 0 .. Len(q.pending) :
                /\ Advanced(q, e).active = q.active + ready
                /\ Len(Advanced(q, e).pending) = Len(q.pending) - ready
                /\ \A i \in 1 .. ready : q.pending[i].remaining <= e
                /\ \A i \in 1 .. Len(q.pending) - ready :
                    /\ q.pending[ready + i].remaining > e
                    /\ Advanced(q, e).pending[i] = Aged(q.pending[ready + i], e)
            BY <1>10, <3>1, AdvancedInOrder
        <3>5. PICK ready \in 0 .. Len(q.pending) :
                /\ after.active = q.active + ready
                /\ Len(after.pending) = Len(q.pending) - ready
                /\ \A i \in 1 .. ready : q.pending[i].remaining <= e
                /\ \A i \in 1 .. Len(q.pending) - ready :
                    after.pending[i] = Aged(q.pending[ready + i], e)
            BY <3>3, <3>4
        <3>6. pool' = after
            BY <1>9, <3>2, <3>3
        <3> QED BY <3>2, <3>5, <3>6
    <2>13. ready \in 0 .. C[t + 1] - served /\ ready \in Nat /\ served \in Nat
        <3>1. Len(q.pending) = C[t + 1] - served
            BY <2>7
        <3>2. served \in Nat
            BY <1>10, <2>1, PoolInvFacts, ReplicaConfig
        <3> QED BY <2>12, <3>1, <3>2
    <2>14. ServingWasCommitted'
        <3>1. ready # 0 => /\ grown[ready] \in Nat /\ grown[ready] >= w
                           /\ AtLeast(C, t + 2 - grown[ready], t + 1, served + ready)
            <4> SUFFICES ASSUME ready # 0
                         PROVE  /\ grown[ready] \in Nat /\ grown[ready] >= w
                                /\ AtLeast(C, t + 2 - grown[ready], t + 1, served + ready)
                OBVIOUS
            <4>1. ready \in 1 .. C[t + 1] - served /\ ready \in 1 .. ready
                BY <2>13
            <4>2. PICK age \in Nat \ {0} : /\ age = grown[ready]
                                          /\ AtLeast(C, t + 2 - age, t + 1, served + ready)
                BY <2>10, <4>1
            <4>3. NominalDelay - (age - 1) * Interval <= Interval
                BY <2>11, <2>12, <4>1, <4>2
            <4>4. /\ Interval \in Nat \ {0} /\ NominalDelay \in Nat
                  /\ (w - 1) * Interval < NominalDelay
                BY <1>16, <2>2, TicksCover
            <4>5. age >= w
                <5>1. \A a \in Nat \ {0}, v \in Nat \ {0}, d \in Nat \ {0} :
                            a < v => (a - 1) * d + d <= (v - 1) * d
                    <6> SUFFICES ASSUME NEW a \in Nat \ {0}, NEW v \in Nat \ {0},
                                        NEW d \in Nat \ {0}, a < v
                                 PROVE  (a - 1) * d + d <= (v - 1) * d
                        OBVIOUS
                    <6>1. a <= v - 1 /\ a \in Nat /\ v - 1 \in Nat
                        OBVIOUS
                    <6>2. a * d <= (v - 1) * d
                        BY <6>1
                    <6>3. (a - 1) * d + d = a * d
                        OBVIOUS
                    <6> QED BY <6>2, <6>3
                <5>2. (age - 1) * Interval \in Int /\ (w - 1) * Interval \in Int
                    BY <4>4
                <5>3. (age - 1) * Interval + Interval > (w - 1) * Interval
                    BY <4>3, <4>4, <5>2
                <5> QED BY <4>4, <5>1, <5>2, <5>3
            <4> QED BY <4>2, <4>5
        <3>2. AtLeast(C, t + 2 - w, t + 1, served + ready)
            BY <2>13, <2>61, <2>71, <3>1, ReadyWasCommitted
        <3>3. \A s \in 0 .. t + 1 : s >= t + 2 - w => CommittedAt(s)' >= served + ready
            BY <1>6, <3>2 DEF AtLeast
        <3>4. pool'.active = served + ready /\ clock' + 1 = t + 2
            BY <1>5, <2>1, <2>12
        <3> QED BY <1>5, <2>2, <3>3, <3>4 DEF ServingWasCommitted
    <2>15. (\A i \in 1 .. Len(pool.pending) : \E age \in 1 .. clock : RequestedAgo(i, age))'
        <3>1. Len(pool'.pending) = C[t + 1] - served - ready
            BY <2>7, <2>12
        <3> SUFFICES ASSUME NEW i \in 1 .. C[t + 1] - served - ready
                     PROVE  \E age \in 1 .. t + 1 : RequestedAgo(i, age)'
            BY <1>5, <3>1
        <3>2. PICK j \in 1 .. C[t + 1] - served : j = ready + i
            BY <1>8, <2>13 DEF Commitments
        <3>3. PICK age \in 1 .. t + 1 :
                /\ age = grown[j]
                /\ AtLeast(C, t + 2 - age, t + 1, served + j)
                /\ C[t + 1 - age] < served + j
            BY <2>10
        <3>4. pool'.pending[i] = Aged(q.pending[j], Interval)
            BY <2>7, <2>12, <3>2
        <3>5. /\ pool'.pending[i].remaining = q.pending[j].remaining - Interval
              /\ pool'.pending[i].multiplier = q.pending[j].multiplier
            BY <3>4 DEF Aged
        <3>6. /\ pool'.pending[i].remaining = NominalDelay - age * Interval
              /\ pool'.pending[i].multiplier = 2
            <4>1. /\ q.pending[j].multiplier = 2
                  /\ q.pending[j].remaining = NominalDelay - (age - 1) * Interval
                BY <2>11, <3>3
            <4>2. NominalDelay \in Int /\ Interval \in Int
                BY <1>16, TicksCover
            <4>3. (age - 1) * Interval = age * Interval - Interval /\ age * Interval \in Int
                BY <4>2
            <4> QED BY <3>5, <4>1, <4>2, <4>3
        <3>7. served + j = pool'.active + i
            BY <2>1, <2>12, <2>13, <3>2
        <3>8. \A s \in 0 .. t + 1 : s >= t + 2 - age => CommittedAt(s)' >= pool'.active + i
            BY <1>6, <3>3, <3>7 DEF AtLeast
        <3>9. CommittedAt(t + 1 - age)' < pool'.active + i
            <4>1. t + 1 - age \in 0 .. t + 1
                OBVIOUS
            <4> QED BY <1>6, <3>3, <3>7, <4>1
        <3>10. RequestedAgo(i, age)'
            BY <1>5, <3>6, <3>8, <3>9 DEF RequestedAgo
        <3> QED BY <3>10
    <2>16. \A k \in 1 .. t + 1 : k \in 1 .. t \/ k = t + 1
        OBVIOUS
    <2> QED BY <1>13, <1>16, <2>8, <2>14, <2>15, <2>16
<1> QED BY <1>15, <1>16

\* The commitments of the log, and when a replica serves, at a reset.
LEMMA StartKeepsWindow ==
    ASSUME clock = 0, pool = FreshPool
    PROVE  WindowInv
<1>1. Len(pool.pending) = 0 /\ pool.active = InitialReplicas /\ InitialReplicas \in Nat
    BY ReplicaConfig DEF FreshPool
<1>2. \A s \in 0 .. clock : CommittedAt(s) = InitialReplicas
    BY DEF CommittedAt
<1>3. ServingWasCommitted
    BY <1>1, <1>2 DEF ServingWasCommitted
<1>4. 1 .. Len(pool.pending) = {} /\ 1 .. clock = {}
    BY <1>1
<1> QED BY <1>3, <1>4 DEF WindowInv

ReplayInv == EpisodeInv /\ LogInv /\ WindowInv

LEMMA ReplayInvInductive ==
    /\ ReplayInit => LogInv /\ WindowInv
    /\ EpisodeInv /\ LogInv /\ WindowInv /\ [ReplayNext]_replayVars => (LogInv /\ WindowInv)'
<1>1. ASSUME ReplayInit PROVE LogInv /\ WindowInv
    BY <1>1, StartLogs, StartKeepsWindow DEF ReplayInit, Init
<1>2. ASSUME EpisodeInv, LogInv, WindowInv, ReplayReset
      PROVE  (LogInv /\ WindowInv)'
    <2>1. clock' = 0 /\ pool' = FreshPool /\ log' = <<>>
        BY <1>2 DEF ReplayReset, Reset
    <2>2. /\ Len(FreshPool.pending) = 0 /\ FreshPool.active = InitialReplicas
          /\ InitialReplicas \in Nat /\ Committed(FreshPool) = InitialReplicas
        BY ReplicaConfig DEF FreshPool, Committed
    <2>3. \A s \in 0 .. 0 : CommittedAt(s)' = InitialReplicas
        BY DEF CommittedAt
    <2>4. Committed(pool)' = InitialReplicas /\ CommittedAt(clock)' = InitialReplicas
        BY <2>1, <2>2 DEF Committed, CommittedAt
    <2>5. DOMAIN <<>> = 1 .. 0 /\ Len(<<>>) = 0 /\ <<>> = [k \in 1 .. 0 |-> <<>>[k]]
        <3>1. DOMAIN <<>> = {} /\ Len(<<>>) = 0
            OBVIOUS
        <3> QED BY <3>1
    <2>6. LogInv'
        BY <2>1, <2>2, <2>3, <2>4, <2>5 DEF LogInv
    <2>7. ServingWasCommitted'
        BY <2>1, <2>2, <2>3 DEF ServingWasCommitted
    <2>8. 1 .. Len(pool'.pending) = {} /\ 1 .. clock' = {}
        BY <2>1, <2>2
    <2> QED BY <2>6, <2>7, <2>8 DEF WindowInv
<1>3. ASSUME EpisodeInv, LogInv, WindowInv, NEW code \in Codes(contract), ReplayStep(code)
      PROVE  (LogInv /\ WindowInv)'
    <2>1. PICK t : t = clock
        OBVIOUS
    <2>2. LogInv'
        BY <1>3, <2>1, StepLogs
    <2> QED BY <1>3, <2>2, StepKeepsWindow
<1>4. ASSUME EpisodeInv, LogInv, WindowInv, UNCHANGED replayVars
      PROVE  (LogInv /\ WindowInv)'
    <2>1. log' = log /\ clock' = clock /\ pool' = pool /\ world' = world
        BY <1>4 DEF replayVars
    <2>2. \A s : CommittedAt(s)' = CommittedAt(s)
        BY <2>1 DEF CommittedAt
    <2>3. CommittedAt(clock)' = CommittedAt(clock) /\ Committed(pool)' = Committed(pool)
        BY <2>1 DEF CommittedAt, Committed
    <2>4. LogInv'
        BY <1>4, <2>1, <2>2, <2>3 DEF LogInv
    <2>5. /\ Nominal' <=> Nominal
          /\ ServingWasCommitted' <=> ServingWasCommitted
          /\ \A i, age : RequestedAgo(i, age)' <=> RequestedAgo(i, age)
        <3>1. CommittedAt(clock)' = CommittedAt(clock)
            BY <2>3
        <3>2. \A age : CommittedAt(clock - age)' = CommittedAt(clock - age)
            BY <2>1 DEF CommittedAt
        <3> QED BY <2>1, <2>2, <3>1, <3>2 DEF Nominal, ServingWasCommitted, RequestedAgo
    <2>6. \A t : WindowMinimumAt(t)' <=> WindowMinimumAt(t)
        <3> SUFFICES ASSUME NEW t PROVE WindowMinimumAt(t)' <=> WindowMinimumAt(t)
            OBVIOUS
        <3>1. {CommittedAt(s)' : s \in Larger(0, t - StartupTicks) .. t}
                = {CommittedAt(s) : s \in Larger(0, t - StartupTicks) .. t}
            BY <2>2
        <3> QED BY <2>1, <3>1 DEF WindowMinimumAt
    <2> QED BY <1>4, <2>1, <2>4, <2>5, <2>6 DEF WindowInv
<1> QED BY <1>1, <1>2, <1>3, <1>4 DEF ReplayNext

\* Every replica still starting is as old as its clock says, was asked for at
\* every decision since, and a tick is served by the least commitment of its
\* window.
THEOREM WindowInvariant == ReplaySpec => []ReplayInv
<1>1. ReplayInit => LogInv /\ WindowInv
    BY ReplayInvInductive
<1>2. EpisodeInv /\ LogInv /\ WindowInv /\ [ReplayNext]_replayVars => (LogInv /\ WindowInv)'
    BY ReplayInvInductive
<1> QED BY <1>1, <1>2, ReplayIsSpec, EpisodeInvariant, PTL DEF ReplaySpec, ReplayInv

\* ServingIsWindowMinimum: when every startup takes its nominal delay, the
\* replicas that serve a tick are the least number the fleet was committed to
\* at any decision of the startup window, whatever was requested or cancelled
\* in between.
THEOREM ServingWindow == ReplaySpec => []ServingIsWindowMinimum
<1>1. ReplayInv => ServingIsWindowMinimum
    <2> SUFFICES ASSUME LogInv, WindowInv, Nominal, NEW t \in DOMAIN log
                 PROVE  WindowMinimumAt(t)
        BY DEF ReplayInv, ServingIsWindowMinimum, Nominal, WindowMinimumAt
    <2> QED BY DEF LogInv, WindowInv
<1> QED BY <1>1, WindowInvariant, PTL

-----------------------------------------------------------------------------
(* What an episode sees of the world is decided before its first action.   *)
CapacityAt(k) == IF Jittered THEN world.capacity[k] ELSE NominalCapacity

TrueToWorld(entries) ==
    /\ DOMAIN entries = 1 .. Len(entries)
    /\ Len(entries) \in 0 .. EpisodeTicks
    /\ \A k \in 1 .. Len(entries) :
        LET i == entries[k].info
        IN  /\ i.measured.demand = world.demand[k]
            /\ i.measured.service = i.counts.active * CapacityAt(k)
            /\ i.counts.active \in Nat

WorldInv == TrueToWorld(log) /\ TrueToWorld(previous)

LEMMA NothingWritten == DOMAIN <<>> = 1 .. 0 /\ Len(<<>>) = 0
<1>1. DOMAIN <<>> = {} /\ Len(<<>>) = 0
    OBVIOUS
<1> QED BY <1>1

\* A tick is measured against the demand and the capacity of its own index.
LEMMA MeasuredIsOfWorld ==
    ASSUME EpisodeInv, NEW code \in Codes(contract), Step(code), NEW t, t = clock
    PROVE  /\ info'.measured.demand = world.demand[t + 1]
           /\ info'.measured.service = info'.counts.active * CapacityAt(t + 1)
           /\ info'.counts.active \in Nat
<1>1. PICK q : q = Acted(code)
    OBVIOUS
<1>2. /\ info'.measured = Measured(q) /\ info'.counts = Counts(q)
    BY <1>1 DEF Step
<1>3. q.active \in Nat
    BY <1>1, ActedInv, PoolInvFacts, ReplicaConfig DEF Step
<1>4. /\ Measured(q).demand = world.demand[position + 1]
      /\ Measured(q).service = q.active * Capacity
      /\ Counts(q).active = q.active
    BY DEF Measured, Counts
<1>5. Capacity = CapacityAt(t + 1)
    <2>1. draws.capacity = IF Jittered THEN t ELSE 0
        BY DEF EpisodeInv
    <2> QED BY <2>1 DEF Capacity, CapacityAt
<1>6. position = t
    BY DEF EpisodeInv
<1> QED BY <1>2, <1>3, <1>4, <1>5, <1>6

LEMMA WorldInductive ==
    /\ ReplayInit => WorldInv
    /\ ReplayInv /\ WorldInv /\ [ReplayNext]_replayVars => WorldInv'
<1>0. EpisodeTicks \in Nat \ {0} /\ DOMAIN <<>> = 1 .. 0 /\ Len(<<>>) = 0
    BY NothingWritten, EnvConfig
<1>1. ASSUME ReplayInit PROVE WorldInv
    BY <1>0, <1>1 DEF ReplayInit, WorldInv, TrueToWorld
<1>2. ASSUME WorldInv, ReplayReset PROVE WorldInv'
    <2>1. log' = <<>> /\ previous' = log /\ world' = world
        BY <1>2 DEF ReplayReset, Reset
    <2>2. TrueToWorld(log)
        BY <1>2 DEF WorldInv
    <2>3. TrueToWorld(previous)'
        BY <2>1, <2>2 DEF TrueToWorld, CapacityAt
    <2>4. TrueToWorld(log)'
        BY <1>0, <2>1 DEF TrueToWorld
    <2> QED BY <2>3, <2>4 DEF WorldInv
<1>3. ASSUME ReplayInv, WorldInv, NEW code \in Codes(contract), ReplayStep(code)
      PROVE  WorldInv'
    <2>1. PICK t \in Nat : t = clock
        BY EnvConfig, <1>3 DEF ReplayInv, EpisodeInv
    <2>2. /\ LogInv' /\ clock' = t + 1 /\ Len(log) = t
          /\ \A k \in 1 .. t : log'[k] = log[k]
          /\ log'[t + 1].info = info'
        <3>1. /\ LogInv' /\ clock' = t + 1
              /\ \A k \in 1 .. t : log'[k] = log[k]
              /\ log'[t + 1] = Outcome(info', pool', VisibleTelemetry')
            BY <1>3, <2>1, StepLogs DEF ReplayInv
        <3>2. Len(log) = t
            BY <1>3, <2>1 DEF ReplayInv, LogInv
        <3> QED BY <3>1, <3>2 DEF Outcome
    <2>3. /\ info'.measured.demand = world.demand[t + 1]
          /\ info'.measured.service = info'.counts.active * CapacityAt(t + 1)
          /\ info'.counts.active \in Nat
        BY <1>3, <2>1, MeasuredIsOfWorld DEF ReplayInv, ReplayStep
    <2>4. world' = world /\ previous' = previous /\ EpisodeInv
          /\ t + 1 <= EpisodeTicks
        <3>1. Step(code) /\ EpisodeInv
            BY <1>3 DEF ReplayStep, ReplayInv
        <3>2. clock < EpisodeTicks
            BY <1>0, <3>1 DEF Step, EpisodeInv
        <3> QED BY <1>0, <1>3, <2>1, <3>1, <3>2 DEF ReplayStep, Step
    <2>5. DOMAIN log' = 1 .. t + 1 /\ Len(log') = t + 1
        BY <2>2 DEF LogInv
    <2>6. \A k \in 1 .. t : /\ log[k].info.measured.demand = world.demand[k]
                            /\ log[k].info.measured.service
                                = log[k].info.counts.active * CapacityAt(k)
                            /\ log[k].info.counts.active \in Nat
        BY <1>3, <2>2 DEF WorldInv, TrueToWorld
    <2>7. \A k : CapacityAt(k)' = CapacityAt(k)
        BY <2>4 DEF CapacityAt
    <2>8. \A k \in 1 .. t + 1 : /\ log'[k].info.measured.demand = world'.demand[k]
                                /\ log'[k].info.measured.service
                                    = log'[k].info.counts.active * CapacityAt(k)'
                                /\ log'[k].info.counts.active \in Nat
        <3> SUFFICES ASSUME NEW k \in 1 .. t + 1
                     PROVE  /\ log'[k].info.measured.demand = world'.demand[k]
                            /\ log'[k].info.measured.service
                                = log'[k].info.counts.active * CapacityAt(k)'
                            /\ log'[k].info.counts.active \in Nat
            OBVIOUS
        <3>1. CASE k \in 1 .. t
            BY <2>2, <2>4, <2>6, <2>7, <3>1
        <3>2. CASE k = t + 1
            BY <2>2, <2>3, <2>4, <2>7, <3>2
        <3> QED BY <3>1, <3>2
    <2>9. TrueToWorld(log)'
        BY <1>0, <2>4, <2>5, <2>8 DEF TrueToWorld
    <2>10. TrueToWorld(previous)'
        <3>1. TrueToWorld(previous)
            BY <1>3 DEF WorldInv
        <3> QED BY <2>4, <3>1 DEF TrueToWorld, CapacityAt
    <2> QED BY <2>9, <2>10 DEF WorldInv
<1>4. ASSUME WorldInv, UNCHANGED replayVars PROVE WorldInv'
    BY <1>4 DEF replayVars, WorldInv, TrueToWorld, CapacityAt
<1> QED BY <1>1, <1>2, <1>3, <1>4 DEF ReplayNext

\* SameWorldForEveryPolicy: two episodes meet the same demand at the same tick
\* and every replica the same capacity, whatever their actions were.
THEOREM WorldIsFixed == ReplaySpec => []SameWorldForEveryPolicy
<1>1. ReplayInv /\ WorldInv => SameWorldForEveryPolicy
    <2> SUFFICES ASSUME ReplayInv, WorldInv, NEW k \in Both
                 PROVE  LET now == log[k].info
                            then == previous[k].info
                        IN  /\ now.measured.demand = then.measured.demand
                            /\ now.measured.service * then.counts.active
                                = then.measured.service * now.counts.active
        BY DEF SameWorldForEveryPolicy
    <2>1. PICK now, then : now = log[k].info /\ then = previous[k].info
        OBVIOUS
    <2>2. k \in 1 .. Len(log) /\ k \in 1 .. Len(previous) /\ k \in 1 .. EpisodeTicks
        BY EnvConfig DEF Both, Smaller, WorldInv, TrueToWorld
    <2>3. /\ now.measured.demand = world.demand[k] /\ then.measured.demand = world.demand[k]
          /\ now.measured.service = now.counts.active * CapacityAt(k)
          /\ then.measured.service = then.counts.active * CapacityAt(k)
          /\ now.counts.active \in Nat /\ then.counts.active \in Nat
        BY <2>1, <2>2 DEF WorldInv, TrueToWorld
    <2>4. CapacityAt(k) \in Nat
        <3>1. world \in World
            BY WorldFits DEF ReplayInv
        <3> QED BY <2>2, <3>1, EnvConfig DEF World, CapacityAt
    <2>5. \A a, b, c \in Nat : (a * c) * b = (b * c) * a
        <3> SUFFICES ASSUME NEW a \in Nat, NEW b \in Nat, NEW c \in Nat
                     PROVE  (a * c) * b = (b * c) * a
            OBVIOUS
        <3> QED BY SMT
    <2>6. PICK a \in Nat, b \in Nat, c \in Nat :
            a = now.counts.active /\ b = then.counts.active /\ c = CapacityAt(k)
        BY <2>3, <2>4
    <2>7. now.measured.service = a * c /\ then.measured.service = b * c
        BY <2>3, <2>6
    <2> QED BY <2>1, <2>3, <2>5, <2>6, <2>7
<1> QED BY <1>1, WorldInductive, WindowInvariant, PTL DEF ReplaySpec

-----------------------------------------------------------------------------
(* The whole state of an episode is a function of the world and of the     *)
(* actions it took: After and Seen restate one step as such functions of   *)
(* the state inside the environment, and StepIsFunction shows that a step  *)
(* is just that.                                                           *)
Inside == [pool |-> pool, depth |-> depth, clock |-> clock, draws |-> draws,
           telemetry |-> telemetry]

Start == [pool |-> FreshPool, depth |-> 0, clock |-> 0,
          draws |-> [capacity |-> 0, startup |-> 0], telemetry |-> <<>>]

TargetIn(w, x, code) ==
    TargetFor([semantics |-> w.semantics, min |-> MinReplicas, max |-> MaxReplicas],
              code, Committed(x.pool))

DrawnIn(w, x, count) ==
    [i \in 1 .. DrawCount(x.pool, count) |-> w.startup[x.draws.startup + i]]

ActedIn(w, x, code) ==
    LET committed == Committed(x.pool)
        target == TargetIn(w, x, code)
    IN  CASE target > committed ->
                ScaledUp(x.pool, target - committed, DrawnIn(w, x, target - committed))
          [] target < committed -> ScaledDown(x.pool, committed - target)
          [] OTHER -> x.pool

MeasuredIn(w, x, p) ==
    LET demand == w.demand[x.clock + 1]
        work == x.depth + demand
        service == p.active * (IF Jittered THEN w.capacity[x.draws.capacity + 1]
                               ELSE NominalCapacity)
    IN  [tick |-> x.clock, demand |-> demand, service |-> service,
         load |-> Smaller(work, service), queued |-> work - Smaller(work, service),
         billable |-> Committed(p)]

After(w, x, code) ==
    LET acted == ActedIn(w, x, code)
        measured == MeasuredIn(w, x, acted)
    IN  [pool |-> Advanced(acted, Interval),
         depth |-> measured.queued,
         clock |-> x.clock + 1,
         draws |-> [capacity |-> x.draws.capacity + (IF Jittered THEN 1 ELSE 0),
                    startup |-> x.draws.startup + StartupDrawn(x.pool, acted)],
         telemetry |-> SubSeq(<<measured>> \o x.telemetry, 1,
                              Smaller(Len(x.telemetry) + 1, BufferSize))]

Seen(w, x, code) ==
    LET acted == ActedIn(w, x, code)
        after == After(w, x, code)
    IN  Outcome([kind |-> "step", tick |-> x.clock, code |-> code,
                 target |-> TargetIn(w, x, code),
                 applied |-> Committed(acted) - Committed(x.pool),
                 counts |-> Counts(acted), measured |-> MeasuredIn(w, x, acted)],
                after.pool,
                SubSeq(after.telemetry, TelemetryDelay + 1,
                       Smaller(Len(after.telemetry), BufferSize)))

LEMMA StepIsFunction ==
    ASSUME EpisodeInv, NEW code \in Codes(contract), Step(code)
    PROVE  /\ Inside' = After(world, Inside, code)
           /\ Outcome(info', pool', VisibleTelemetry') = Seen(world, Inside, code)
           /\ Seen(world, Inside, code).info.code = code
<1>1. PICK w, x : w = world /\ x = Inside
    OBVIOUS
<1>2. /\ x.pool = pool /\ x.depth = depth /\ x.clock = clock /\ x.draws = draws
      /\ x.telemetry = telemetry /\ position = clock
    BY <1>1 DEF Inside, EpisodeInv
<1>3. TargetIn(w, x, code) = TargetFor(contract, code, Committed(pool))
    BY <1>1, <1>2 DEF TargetIn, contract
<1>4. \A n : DrawnIn(w, x, n) = StartupDraws(pool, n)
    BY <1>1, <1>2 DEF DrawnIn, StartupDraws
<1>5. ActedIn(w, x, code) = Acted(code)
    BY <1>2, <1>3, <1>4 DEF ActedIn, Acted
<1>6. PICK q : q = Acted(code)
    OBVIOUS
<1>7. MeasuredIn(w, x, q) = Measured(q)
    BY <1>1, <1>2 DEF MeasuredIn, Measured, Capacity
<1>8. PICK m : m = Measured(q)
    OBVIOUS
<1>9. SubSeq(<<m>> \o x.telemetry, 1, Smaller(Len(x.telemetry) + 1, BufferSize)) = Recorded(m)
    BY <1>2 DEF Recorded
<1>10. After(w, x, code) =
        [pool |-> Advanced(q, Interval), depth |-> m.queued, clock |-> clock + 1,
         draws |-> [capacity |-> draws.capacity + (IF Jittered THEN 1 ELSE 0),
                    startup |-> draws.startup + StartupDrawn(pool, q)],
         telemetry |-> Recorded(m)]
    BY <1>2, <1>5, <1>6, <1>7, <1>8, <1>9 DEF After
<1>11. /\ pool' = Advanced(q, Interval) /\ depth' = m.queued /\ clock' = clock + 1
       /\ draws' = [capacity |-> draws.capacity + (IF Jittered THEN 1 ELSE 0),
                    startup |-> draws.startup + StartupDrawn(pool, q)]
       /\ telemetry' = Recorded(m)
       /\ info' = [kind |-> "step", tick |-> clock, code |-> code,
                   target |-> TargetFor(contract, code, Committed(pool)),
                   applied |-> Committed(q) - Committed(pool),
                   counts |-> Counts(q), measured |-> m]
    BY <1>6, <1>8 DEF Step
<1>12. Inside' = After(w, x, code)
    BY <1>10, <1>11 DEF Inside
<1>13. After(w, x, code).pool = pool' /\ After(w, x, code).telemetry = telemetry'
    BY <1>10, <1>11
<1>14. VisibleTelemetry' = SubSeq(telemetry', TelemetryDelay + 1,
                                  Smaller(Len(telemetry'), BufferSize))
    BY DEF VisibleTelemetry
<1>15. Seen(w, x, code) = Outcome(info', pool', VisibleTelemetry')
    BY <1>2, <1>3, <1>5, <1>6, <1>7, <1>8, <1>11, <1>13, <1>14 DEF Seen
<1>16. Outcome(info', pool', VisibleTelemetry').info.code = code
    BY <1>11 DEF Outcome
<1> QED BY <1>1, <1>12, <1>15, <1>16

\* The states an episode went through, from the fresh one.
Traces(T, entries) ==
    /\ T[0] = Start
    /\ \A k \in 1 .. Len(entries) :
        /\ T[k] = After(world, T[k - 1], entries[k].info.code)
        /\ entries[k] = Seen(world, T[k - 1], entries[k].info.code)

AlikeUpTo(n) == \A j \in 1 .. n : log[j].info.code = previous[j].info.code

TracedInv ==
    /\ \E T : Traces(T, log) /\ T[Len(log)] = Inside
    /\ \E P : /\ Traces(P, previous)
              /\ Len(log) <= Len(previous) /\ AlikeUpTo(Len(log)) => Inside = P[Len(log)]
    /\ Reproducible

LEMMA StepKeepsTrace ==
    ASSUME ReplayInv, WorldInv, TracedInv, NEW code \in Codes(contract), ReplayStep(code)
    PROVE  TracedInv'
<1>1. PICK n \in Nat : n = clock
    BY EnvConfig DEF ReplayInv, EpisodeInv
<1>2. /\ EpisodeInv /\ LogInv /\ Step(code)
      /\ world' = world /\ previous' = previous
    BY DEF ReplayInv, ReplayStep, Step
<1>3. PICK w, x, y : w = world /\ x = Inside /\ y = Inside'
    OBVIOUS
<1>4. PICK e : e = Outcome(info', pool', VisibleTelemetry')
    OBVIOUS
<1>5. y = After(w, x, code) /\ e = Seen(w, x, code) /\ e.info.code = code
    BY <1>2, <1>3, <1>4, StepIsFunction
<1>6. /\ Len(log) = n /\ LogInv' /\ clock' = n + 1
      /\ \A k \in 1 .. n : log'[k] = log[k]
      /\ log'[n + 1] = e
    <2>1. /\ LogInv' /\ clock' = n + 1
          /\ \A k \in 1 .. n : log'[k] = log[k]
          /\ log'[n + 1] = Outcome(info', pool', VisibleTelemetry')
        BY <1>1, <1>2, StepLogs
    <2> QED BY <1>1, <1>2, <1>4, <2>1 DEF LogInv
<1>7. Len(log') = n + 1
    BY <1>6 DEF LogInv
<1>8. PICK m \in Nat : m = Len(previous)
    <2>1. Len(previous) \in 0 .. EpisodeTicks
        BY DEF WorldInv, TrueToWorld
    <2> QED BY <2>1
<1>9. (\E T : Traces(T, log) /\ T[Len(log)] = Inside)'
    <2>1. PICK T : Traces(T, log) /\ T[n] = x
        BY <1>3, <1>6 DEF TracedInv
    <2>2. PICK U : U = [k \in 0 .. n + 1 |-> IF k <= n THEN T[k] ELSE y]
        OBVIOUS
    <2>3. U[0] = Start /\ U[n + 1] = y /\ U[n] = x
        BY <2>1, <2>2 DEF Traces
    <2>4. \A k \in 1 .. n + 1 : /\ U[k] = After(w, U[k - 1], log'[k].info.code)
                                /\ log'[k] = Seen(w, U[k - 1], log'[k].info.code)
        <3> SUFFICES ASSUME NEW k \in 1 .. n + 1
                     PROVE  /\ U[k] = After(w, U[k - 1], log'[k].info.code)
                            /\ log'[k] = Seen(w, U[k - 1], log'[k].info.code)
            OBVIOUS
        <3>1. CASE k = n + 1
            <4>1. k - 1 = n
                BY <3>1
            <4> QED BY <1>5, <1>6, <2>3, <3>1, <4>1
        <3>2. CASE k # n + 1
            <4>1. k \in 1 .. n /\ k - 1 \in 0 .. n
                BY <3>2
            <4>2. U[k] = T[k] /\ U[k - 1] = T[k - 1] /\ log'[k] = log[k]
                BY <1>6, <2>2, <4>1
            <4>3. /\ T[k] = After(w, T[k - 1], log[k].info.code)
                  /\ log[k] = Seen(w, T[k - 1], log[k].info.code)
                BY <1>3, <1>6, <2>1, <4>1 DEF Traces
            <4> QED BY <4>2, <4>3
        <3> QED BY <3>1, <3>2
    <2>5. Traces(U, log)'
        BY <1>2, <1>3, <1>7, <2>3, <2>4 DEF Traces
    <2> QED BY <1>3, <1>7, <2>3, <2>5
<1>10. PICK P : /\ Traces(P, previous)
                /\ n <= m /\ AlikeUpTo(n) => x = P[n]
    BY <1>3, <1>6, <1>8 DEF TracedInv
<1>11. ASSUME n + 1 <= m, \A j \in 1 .. n + 1 : log'[j].info.code = previous[j].info.code
       PROVE  y = P[n + 1] /\ e = previous[n + 1]
    <2>1. \A j \in 1 .. n : log[j].info.code = previous[j].info.code
        BY <1>6, <1>11
    <2>2. x = P[n]
        BY <1>10, <1>11, <2>1 DEF AlikeUpTo
    <2>3. n + 1 \in 1 .. n + 1 /\ n + 1 \in 1 .. m /\ (n + 1) - 1 = n
        BY <1>11
    <2>4. code = previous[n + 1].info.code
        BY <1>5, <1>6, <1>11, <2>3
    <2>5. /\ P[n + 1] = After(w, P[n], code)
          /\ previous[n + 1] = Seen(w, P[n], code)
        BY <1>3, <1>8, <1>10, <2>3, <2>4 DEF Traces
    <2> QED BY <1>5, <2>2, <2>5
<1>12. (\E Q : /\ Traces(Q, previous)
               /\ Len(log) <= Len(previous) /\ AlikeUpTo(Len(log)) => Inside = Q[Len(log)])'
    <2>1. Traces(P, previous)'
        BY <1>2, <1>10 DEF Traces
    <2>2. AlikeUpTo(Len(log))' => \A j \in 1 .. n + 1 : log'[j].info.code = previous[j].info.code
        BY <1>2, <1>7 DEF AlikeUpTo
    <2>3. (Len(log) <= Len(previous) /\ AlikeUpTo(Len(log)))' => Inside' = P[n + 1]
        BY <1>2, <1>3, <1>7, <1>8, <1>11, <2>2
    <2> QED BY <1>7, <2>1, <2>3
<1>13. Reproducible'
    <2>1. \A k \in Both' : k \in 1 .. n + 1 /\ k \in 1 .. m
        BY <1>2, <1>7, <1>8 DEF Both, Smaller
    <2> SUFFICES ASSUME NEW k \in Both',
                        \A j \in 1 .. k : log'[j].info.code = previous[j].info.code
                 PROVE  log'[k] = previous[k]
        BY <1>2 DEF Reproducible
    <2>2. k \in 1 .. n + 1 /\ k \in 1 .. m
        BY <2>1
    <2>3. CASE k = n + 1
        <3>1. n + 1 <= m
            BY <2>2, <2>3
        <3> QED BY <1>6, <1>11, <2>3, <3>1
    <2>4. CASE k # n + 1
        <3>1. k \in 1 .. n /\ k \in Both
            BY <1>6, <1>8, <2>2, <2>4 DEF Both, Smaller
        <3>2. \A j \in 1 .. k : log[j].info.code = previous[j].info.code
            <4> SUFFICES ASSUME NEW j \in 1 .. k
                         PROVE  log[j].info.code = previous[j].info.code
                OBVIOUS
            <4>1. j \in 1 .. n
                BY <3>1
            <4> QED BY <1>6, <4>1
        <3>3. Reproducible
            BY DEF TracedInv
        <3> QED BY <1>6, <3>1, <3>2, <3>3 DEF Reproducible
    <2> QED BY <2>3, <2>4
<1> QED BY <1>9, <1>12, <1>13 DEF TracedInv

LEMMA TracedInductive ==
    /\ ReplayInit => TracedInv
    /\ ReplayInv /\ WorldInv /\ TracedInv /\ [ReplayNext]_replayVars => TracedInv'
<1>0. Len(<<>>) = 0 /\ \A S : S = <<>> => Len(S) = 0
    BY NothingWritten
<1>1. PICK fresh : fresh = [k \in 0 .. 0 |-> Start]
    OBVIOUS
<1>2. fresh[0] = Start
    BY <1>1
<1>3. ASSUME ReplayInit PROVE TracedInv
    <2>1. log = <<>> /\ previous = <<>> /\ Len(log) = 0 /\ Len(previous) = 0
        BY <1>0, <1>3 DEF ReplayInit
    <2>2. Inside = Start
        BY <1>3 DEF ReplayInit, Init, Inside, Start
    <2>3. Traces(fresh, log) /\ Traces(fresh, previous)
        BY <1>2, <2>1 DEF Traces
    <2>4. Reproducible
        BY <2>1 DEF Reproducible, Both, Smaller
    <2> QED BY <1>2, <2>1, <2>2, <2>3, <2>4 DEF TracedInv
<1>4. ASSUME WorldInv, TracedInv, ReplayReset PROVE TracedInv'
    <2>1. /\ previous' = log /\ log' = <<>> /\ Len(log') = 0 /\ world' = world
          /\ Len(log) \in Nat
        BY <1>0, <1>4, EnvConfig DEF ReplayReset, Reset, WorldInv, TrueToWorld
    <2>2. Inside' = Start
        BY <1>4 DEF ReplayReset, Reset, Inside, Start
    <2>3. PICK T : Traces(T, log)
        BY <1>4 DEF TracedInv
    <2>4. Traces(T, previous)' /\ T[0] = Start
        BY <2>1, <2>3 DEF Traces
    <2>5. Traces(fresh, log)'
        BY <1>2, <2>1 DEF Traces
    <2>6. Reproducible'
        BY <2>1 DEF Reproducible, Both, Smaller
    <2>7. (\E U : Traces(U, log) /\ U[Len(log)] = Inside)'
        BY <1>2, <2>1, <2>2, <2>5
    <2>8. (\E P : /\ Traces(P, previous)
                  /\ Len(log) <= Len(previous) /\ AlikeUpTo(Len(log)) => Inside = P[Len(log)])'
        BY <2>1, <2>2, <2>4
    <2> QED BY <2>6, <2>7, <2>8 DEF TracedInv
<1>5. ASSUME TracedInv, UNCHANGED replayVars PROVE TracedInv'
    <2>1. log' = log /\ previous' = previous /\ world' = world /\ Inside' = Inside
        BY <1>5 DEF replayVars, Inside
    <2>2. /\ \A T : Traces(T, log)' <=> Traces(T, log)
          /\ \A T : Traces(T, previous)' <=> Traces(T, previous)
          /\ AlikeUpTo(Len(log))' <=> AlikeUpTo(Len(log))
          /\ Reproducible' <=> Reproducible
        BY <2>1 DEF Traces, AlikeUpTo, Reproducible, Both
    <2> QED BY <1>5, <2>1, <2>2 DEF TracedInv
<1> QED BY <1>3, <1>4, <1>5, StepKeepsTrace DEF ReplayNext

\* Reproducible: two episodes of one environment that took the same actions so
\* far went the same way so far: a reset leaves nothing of the episode before
\* behind, not in the pool, the queue, the generators or the telemetry.
THEOREM EpisodesRepeat == ReplaySpec => []Reproducible
<1>1. TracedInv => Reproducible
    BY DEF TracedInv
<1> QED BY <1>1, TracedInductive, WorldInductive, WindowInvariant, PTL DEF ReplaySpec

-----------------------------------------------------------------------------
(* Every tick of the log serves what it can of what was waiting and what   *)
(* arrived, and leaves the rest waiting for the next one.                  *)
Waiting(k) == IF k = 0 THEN 0 ELSE log[k].info.measured.queued

TickBalances(k) ==
    LET m == log[k].info.measured
    IN  /\ m.load \in Nat /\ m.queued \in Nat /\ m.demand \in Nat
        /\ m.load <= m.service
        /\ m.queued + m.load = Waiting(k - 1) + m.demand
        /\ m.queued > 0 => m.load = m.service

BalanceInv ==
    /\ \A k \in 1 .. Len(log) : TickBalances(k)
    /\ depth = Waiting(Len(log)) /\ depth \in Nat

LEMMA BalanceInductive ==
    /\ ReplayInit => BalanceInv
    /\ ReplayInv /\ BalanceInv /\ [ReplayNext]_replayVars => BalanceInv'
<1>0. DOMAIN <<>> = 1 .. 0 /\ \A S : S = <<>> => Len(S) = 0
    BY NothingWritten
<1>1. ASSUME ReplayInit PROVE BalanceInv
    <2>1. Len(log) = 0 /\ depth = 0
        BY <1>0, <1>1 DEF ReplayInit, Init
    <2> QED BY <2>1 DEF BalanceInv, Waiting
<1>2. ASSUME ReplayReset PROVE BalanceInv'
    <2>1. Len(log') = 0 /\ depth' = 0
        BY <1>0, <1>2 DEF ReplayReset, Reset
    <2>2. \A k : Waiting(k)' = IF k = 0 THEN 0 ELSE log'[k].info.measured.queued
        BY DEF Waiting
    <2>3. Waiting(Len(log))' = 0
        BY <2>1 DEF Waiting
    <2> QED BY <2>1, <2>3 DEF BalanceInv
<1>3. ASSUME ReplayInv, BalanceInv, NEW code \in Codes(contract), ReplayStep(code)
      PROVE  BalanceInv'
    <2>1. PICK t \in Nat : t = clock
        BY EnvConfig, <1>3 DEF ReplayInv, EpisodeInv
    <2>2. EpisodeInv /\ LogInv /\ Step(code) /\ position = t
        BY <1>3, <2>1 DEF ReplayInv, ReplayStep, EpisodeInv
    <2>3. PICK q : q = Acted(code)
        OBVIOUS
    <2>4. PICK m : m = Measured(q)
        OBVIOUS
    <2>5. info'.measured = m /\ depth' = m.queued
        BY <2>2, <2>3, <2>4 DEF Step
    <2>6. /\ LogInv' /\ clock' = t + 1 /\ Len(log) = t
          /\ \A k \in 1 .. t : log'[k] = log[k]
          /\ log'[t + 1].info.measured = m
        <3>1. /\ LogInv' /\ clock' = t + 1
              /\ \A k \in 1 .. t : log'[k] = log[k]
              /\ log'[t + 1] = Outcome(info', pool', VisibleTelemetry')
            BY <1>3, <2>1, <2>2, StepLogs
        <3>2. Len(log) = t
            BY <2>1, <2>2 DEF LogInv
        <3> QED BY <2>5, <3>1, <3>2 DEF Outcome
    <2>7. Len(log') = t + 1
        BY <2>6 DEF LogInv
    <2>8. /\ m.load \in Nat /\ m.queued \in Nat /\ m.demand \in Nat
          /\ m.load <= m.service /\ m.queued + m.load = depth + m.demand
          /\ m.queued > 0 => m.load = m.service
        <3>1. world \in World /\ depth \in Nat /\ t < EpisodeTicks
            BY <1>3, <2>1, <2>2, WorldFits, EnvConfig DEF BalanceInv, EpisodeInv, Step
        <3>2. PICK d \in Nat : d = world.demand[position + 1]
            <4>1. position + 1 \in 1 .. EpisodeTicks
                BY <2>1, <2>2, <3>1, EnvConfig
            <4> QED BY <3>1, <4>1 DEF World
        <3>3. Capacity \in Nat
            <4>1. draws.capacity = IF Jittered THEN t ELSE 0
                BY <2>1, <2>2 DEF EpisodeInv
            <4>2. t + 1 \in 1 .. EpisodeTicks
                BY <3>1, EnvConfig
            <4> QED BY <3>1, <4>1, <4>2, EnvConfig DEF World, Capacity
        <3>4. q.active \in Nat
            BY <2>2, <2>3, ActedInv, PoolInvFacts, ReplicaConfig DEF Step
        <3>5. PICK service \in Nat : service = q.active * Capacity
            BY <3>3, <3>4
        <3>6. /\ m.demand = d /\ m.service = service
              /\ m.load = Smaller(depth + d, service)
              /\ m.queued = (depth + d) - Smaller(depth + d, service)
            BY <2>4, <3>2, <3>5 DEF Measured
        <3> QED BY <3>1, <3>6 DEF Smaller
    <2>9. \A k \in 0 .. t : Waiting(k)' = Waiting(k)
        BY <2>1, <2>6 DEF Waiting
    <2>10. ASSUME NEW k \in 1 .. t + 1 PROVE TickBalances(k)'
        <3>1. CASE k = t + 1
            <4>1. Waiting(k - 1)' = depth
                <5>1. k - 1 = t /\ t \in 0 .. t
                    BY <3>1
                <5>2. Waiting(t)' = depth
                    BY <1>3, <2>6, <2>9, <5>1 DEF BalanceInv
                <5> QED BY <5>1, <5>2
            <4>2. log'[k].info.measured = m
                BY <2>6, <3>1
            <4> QED BY <2>8, <4>1, <4>2 DEF TickBalances
        <3>2. CASE k # t + 1
            <4>1. k \in 1 .. t /\ k - 1 \in 0 .. t
                BY <2>1, <3>2
            <4>2. log'[k] = log[k] /\ Waiting(k - 1)' = Waiting(k - 1) /\ TickBalances(k)
                BY <1>3, <2>6, <2>9, <4>1 DEF BalanceInv
            <4> QED BY <4>2 DEF TickBalances
        <3> QED BY <3>1, <3>2
    <2>11. Waiting(t + 1)' = m.queued
        BY <2>1, <2>6 DEF Waiting
    <2>12. Waiting(Len(log))' = m.queued
        BY <2>7, <2>11 DEF Waiting
    <2> QED BY <2>5, <2>7, <2>8, <2>10, <2>12 DEF BalanceInv
<1>4. ASSUME BalanceInv, UNCHANGED replayVars PROVE BalanceInv'
    <2>1. log' = log /\ depth' = depth
        BY <1>4 DEF replayVars
    <2>2. \A k : Waiting(k)' = Waiting(k)
        BY <2>1 DEF Waiting
    <2>3. Waiting(Len(log))' = Waiting(Len(log))
        BY <2>1 DEF Waiting
    <2>4. \A k : Waiting(k - 1)' = Waiting(k - 1)
        BY <2>2
    <2>5. \A k : TickBalances(k)' <=> TickBalances(k)
        BY <2>1, <2>4 DEF TickBalances
    <2> QED BY <1>4, <2>1, <2>3, <2>5 DEF BalanceInv
<1> QED BY <1>1, <1>2, <1>3, <1>4 DEF ReplayNext

\* Tick by tick nothing is dropped or served twice: what waited and what
\* arrived is served or waits, no tick serves more than its capacity, and none
\* leaves requests waiting that it could have served.
THEOREM TicksBalance == ReplaySpec => []BalanceInv
<1> QED BY BalanceInductive, WindowInvariant, PTL DEF ReplaySpec

\* RequestsConserved: over the whole episode what arrived is what was served
\* and what still waits. By induction over the ticks of the log.
THEOREM RequestsAreConserved == ReplaySpec => []RequestsConserved
<1>1. ASSUME ReplayInv, BalanceInv PROVE RequestsConserved
    <2>1. PICK n \in Nat : Len(log) = n /\ DOMAIN log = 1 .. n
        BY <1>1, EnvConfig DEF ReplayInv, EpisodeInv, LogInv
    <2>2. PICK d : d = [t \in 1 .. n |-> log[t].info.measured.demand]
        OBVIOUS
    <2>3. PICK l : l = [t \in 1 .. n |-> log[t].info.measured.load]
        OBVIOUS
    <2>4. \A k \in 1 .. n : d[k] \in Nat /\ l[k] \in Nat
        BY <1>1, <2>1, <2>2, <2>3 DEF BalanceInv, TickBalances
    <2>5. d \in Seq(Nat) /\ l \in Seq(Nat) /\ Len(d) = n /\ Len(l) = n
        BY <2>1, <2>2, <2>3, <2>4
    <2>6. \A k \in 1 .. n : d[k] \in Int
        BY <2>4
    <2>7. \A k \in 1 .. n : l[k] \in Int
        BY <2>4
    <2> DEFINE D == RunningSums(d)
               L == RunningSums(l)
    <2>8. /\ D[0] = 0 /\ \A k \in 1 .. n : D[k] = D[k - 1] + d[k]
          /\ \A k \in 0 .. n : D[k] \in Int
          /\ Total(d) = D[n]
        BY <2>5, <2>6, SumsAre
    <2>9. /\ L[0] = 0 /\ \A k \in 1 .. n : L[k] = L[k - 1] + l[k]
          /\ \A k \in 0 .. n : L[k] \in Int
          /\ Total(l) = L[n]
        BY <2>5, <2>7, SumsAre
    <2> HIDE DEF D, L
    <2> DEFINE P == {k \in Nat : k <= n => D[k] = L[k] + Waiting(k)}
    <2>10. 0 \in P
        BY <2>8, <2>9 DEF Waiting
    <2>11. ASSUME NEW k \in Nat, k \in P PROVE k + 1 \in P
        <3> SUFFICES ASSUME k + 1 <= n PROVE D[k + 1] = L[k + 1] + Waiting(k + 1)
            OBVIOUS
        <3>1. k + 1 \in 1 .. n /\ k \in 0 .. n /\ (k + 1) - 1 = k
            BY <2>1
        <3>2. D[k] = L[k] + Waiting(k)
            BY <2>11, <3>1
        <3>3. /\ l[k + 1] \in Nat /\ d[k + 1] \in Nat /\ Waiting(k + 1) \in Nat
              /\ Waiting(k + 1) + l[k + 1] = Waiting(k) + d[k + 1]
            <4>1. TickBalances(k + 1)
                BY <1>1, <2>1, <3>1 DEF BalanceInv
            <4>2. Waiting(k + 1) = log[k + 1].info.measured.queued
                BY <3>1 DEF Waiting
            <4> QED BY <2>2, <2>3, <2>4, <3>1, <4>1, <4>2 DEF TickBalances
        <3>4. Waiting(k) \in Int
            <4>1. CASE k = 0
                BY <4>1 DEF Waiting
            <4>2. CASE k # 0
                <5>1. k \in 1 .. n
                    BY <3>1, <4>2
                <5> QED BY <1>1, <2>1, <4>2, <5>1 DEF BalanceInv, TickBalances, Waiting
            <4> QED BY <4>1, <4>2
        <3>5. D[k + 1] = D[k] + d[k + 1] /\ L[k + 1] = L[k] + l[k + 1]
            BY <2>8, <2>9, <3>1
        <3>6. D[k] \in Int /\ L[k] \in Int
            BY <2>8, <2>9, <3>1
        <3> QED BY <3>2, <3>3, <3>4, <3>5, <3>6
    <2>12. n \in P
        <3> HIDE DEF P
        <3> QED BY <2>10, <2>11, Inductive
    <2>13. Total(d) = Total(l) + depth
        BY <1>1, <2>1, <2>8, <2>9, <2>12 DEF BalanceInv
    <2>14. Arrived = Total(d) /\ Served = Total(l)
        BY <2>1, <2>2, <2>3 DEF Arrived, Served
    <2> QED BY <2>13, <2>14 DEF RequestsConserved
<1> QED BY <1>1, BalanceInductive, WindowInvariant, PTL DEF ReplaySpec
=============================================================================
