--------------------------- MODULE MCExperiments ---------------------------
(* Small matrices for the experiments.                                     *)
EXTENDS AllExperiments

SmallBenchmarks ==
    {[id |-> "azure-test", split |-> "test", source |-> "azure"],
     [id |-> "ramp-test", split |-> "test", source |-> "synthetic"],
     [id |-> "azure-train", split |-> "train", source |-> "azure"]}
SmallTestWorkloads == <<"azure-test">>
OneSeed == <<1>>
TwoSeeds == <<1, 2>>
SmallDeployment == <<[id |-> "ppo-seed1", family |-> "ppo", run |-> 9, feasible |-> TRUE]>>
SmallRules == <<[id |-> "threshold", seeds |-> <<0>>]>>
SmallSlices == <<[id |-> "slice-1"]>>
\* Version 0: no data, or data with another replay source.
SmallPinned(version) == IF version = 0 THEN 0 ELSE 1

SmallMeasured(case, trace) == trace + (IF case.variant = "threshold" THEN 0 ELSE 1)

\* The first definition has the nominal scenario and the replay; the second a jittered
\* capacity seen late, by two seeds, and two startup seeds.
SmallScenarios(definition) ==
    IF definition = 1 THEN <<[name |-> "nominal", jitter |-> FALSE, delay |-> 0]>>
    ELSE <<[name |-> "combined-robustness", jitter |-> TRUE, delay |-> 1]>>
SmallStartupMatrix(definition) ==
    IF definition = 1 THEN <<>>
    ELSE <<[scenario |-> [name |-> "startup-delay-jitter", jitter |-> FALSE, delay |-> 0],
            seeds |-> <<<<0, 1>>, <<0, 2>>>>]>>
SmallReplay(definition) == IF definition = 1 THEN <<"threshold">> ELSE <<>>
SmallCounts(definition) ==
    IF definition = 1 THEN [primary |-> 2, startup |-> 0, replay |-> 1]
    ELSE [primary |-> 4, startup |-> 4, replay |-> 0]

\* The protocol depends on more than one part of the code.
SmallTried(name) == IF name = "sim-to-real" THEN Definitions ELSE {1, 2}

SmallSplits == [w \in {"ramp-val", "azure-val"} |-> "validation"]
SmallValidation == <<"ramp-val">>
SmallStartups == <<[name |-> "startup-delay-jitter", jitter |-> FALSE]>>
SmallRuleControllers == <<"threshold">>
SmallDecision ==
    [semantics |-> "desired-replicas-v1", heldOutUsed |-> FALSE, rewardChanged |-> FALSE,
     models |-> <<[id |-> "ppo-seed1", family |-> "ppo", seed |-> 1, run |-> 9,
                   candidate |-> "selected"],
                  [id |-> "ppo-seed2", family |-> "ppo", seed |-> 2, run |-> 8,
                   candidate |-> "selected"]>>]
\* Two replicas of a burst ready at different times, then a single one.
SmallInfos(case) ==
    <<[sampled |-> case.startup # 0, change |-> 2, delays |-> <<1, 3>>],
      [sampled |-> case.startup # 0, change |-> 0, delays |-> <<>>],
      [sampled |-> case.startup # 0, change |-> 1, delays |-> <<2>>]>>

SmallControllers == <<"threshold", "predictive", "seasonal">>
SmallAzure == <<"azure-val">>
SmallIssued(case) == IF case.variant = "threshold" THEN 0 ELSE 2

SmallFamilies == <<[algorithm |-> "ppo", semantics |-> "delta-v1"],
                   [algorithm |-> "ppo", semantics |-> "desired-replicas-v1"]>>
SmallCandidates == <<1, 2>>
SmallRuleSet == {"threshold"}
SmallRule == [workloads |-> {"ramp-val"}, threshold |-> [w \in {"ramp-val"} |-> 2]]
\* A cheap candidate that serves too badly, one that serves well; under the preferred
\* contract every candidate serves well, and with other code none.
SmallLearnt(policy, version) ==
    [w \in {"ramp-val"} |->
        [sla |-> IF policy.family.semantics = "delta-v1"
                 THEN IF policy.candidate = 1 /\ policy.version # 2 THEN 3 ELSE 1
                 ELSE IF policy.version = 2 THEN 3 ELSE 2,
         cost |-> policy.candidate, pressure |-> version + policy.version, churn |-> 0]]

SmallRewards == <<"full-default-v1", "latency-cost-v1">>
\* The default reward serves badly on the second seed and the other one with its first
\* candidate; by other code all serve well, or none does.
SmallRewarded(policy, version) ==
    [w \in {"ramp-val"} |->
        [sla |-> CASE version = 0 -> 2
                   [] version = 2 -> 3
                   [] policy.reward = "full-default-v1" -> IF policy.seed = 2 THEN 4 ELSE 1
                   [] OTHER -> IF policy.candidate = 1 THEN 3 ELSE 1,
         cost |-> policy.candidate, pressure |-> version, churn |-> 0]]

\* Ten bins; by the second version of the data another number of requests in one window.
SmallCountsOf(version) ==
    [b \in 1 .. 10 |-> IF b = 5 THEN version ELSE IF b \in {3, 6, 8} THEN 1 ELSE 0]
\* The second definition has other load seeds, the third differs in the controller
\* manifest only, the fourth pins other artifacts.
SmallLoadSeeds(definition) == IF definition = 2 THEN <<0, 1>> ELSE <<0>>
SmallUpstream(definition) == IF definition = 4 THEN 2 ELSE 1
SmallReplaySeeds(family) == {0, 1}
\* No DQN seed serves well, one PPO seed does.
SmallValidated(family, upstream, seed) ==
    [w \in {"ramp-val"} |->
        [sla |-> (IF family = "dqn" THEN 4 ELSE 2) - seed + upstream, cost |-> 1,
         pressure |-> 0, churn |-> seed]]

\* The same names in both manifests, the PPO model retrained; version 0 has no PPO.
SmallVariants(version) ==
    <<[id |-> "threshold-v1", controller |-> "threshold", seed |-> 0, run |-> 0],
      [id |-> "dqn-seed0", controller |-> "dqn", seed |-> 0, run |-> 1]>>
    \o IF version = 0 THEN <<>>
       ELSE <<[id |-> "ppo-seed0", controller |-> "ppo", seed |-> 0, run |-> 1 + version]>>
\* The rows of an evaluation: one per variant that may enter the selection, and three of
\* the reference that may not; the file of version 0 has a held-out row.
SmallRows(version) ==
    LET RowOf(v, scenario, dynamics, seed, sla) ==
            [id |-> v.id, controller |-> v.controller, seed |-> v.seed, model |-> v.run,
             plan |-> version, where |-> "ramp-val", scenario |-> scenario,
             version |-> "robustness-v1", dynamics |-> dynamics, evaluation |-> seed,
             split |-> IF version = 0 /\ scenario # "nominal" THEN "test" ELSE "validation",
             madeBy |-> <<version, v.id, scenario, dynamics, seed>>,
             metrics |-> [sla |-> sla, cost |-> v.run, pressure |-> version, churn |-> 0]]
        variants == SmallVariants(version)
    IN  <<RowOf(variants[1], "nominal", 0, 1, 6)>>
            \o [i \in DOMAIN variants |-> RowOf(variants[i], "nominal", 0, 0, IF i = 2 THEN 3 ELSE 2)]
            \o <<RowOf(variants[1], "combined-robustness", 1, 0, 5),
                 RowOf(variants[1], "capacity-jitter", 0, 0, 5)>>
SmallLearnedFamilies == <<"dqn", "ppo">>
Developed == {"ramp-val"}
=============================================================================
