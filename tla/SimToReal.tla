------------------------------ MODULE SimToReal -----------------------------
(***************************************************************************)
(* The sim-to-real protocol (sim_to_real): freeze writes the arrival       *)
(* schedules, a controller manifest, a replay manifest and the protocol,   *)
(* one file after the other; check reads them one after the other, also    *)
(* while a freeze is writing, and accepts what it read only as a whole. A  *)
(* content ID stands for the content: it is modelled as the content        *)
(* itself, so that equal IDs are equal contents.                           *)
(* In this module tree.file is the definition whose upstream artifacts are *)
(* on disk, and tree.code the one the code is.                             *)
(***************************************************************************)
EXTENDS CaseRuns, ModelSelection

CONSTANTS
    RequestCounts(_),   \* requests per bin of the source trace, by data version
    WindowBins,         \* the length of a replay window
    Upstream(_),        \* the upstream artifacts a definition pins
    LoadSeeds(_),       \* the load seeds it declares, and whatever else the protocol
                        \* states of the code itself
    ReplaySeedsOf(_),   \* retrained seeds of a learned family
    Validated(_, _, _), \* metrics per workload of a family's seed, by upstream artifacts
    DeployRule          \* workloads and thresholds of the frozen selection

Learned == {"dqn", "ppo"}
Fractions == <<2, 5, 8>>        \* tenths of the usable range
Torn == [kind |-> "torn"]       \* a file whose write was interrupted
NoFile == [kind |-> "absent"]

VerifiesUpstream == Upstream(tree.file) = Upstream(tree.code)

-----------------------------------------------------------------------------
(* The canonical seed of a learned family.                                 *)
Excess(rule, c) == Max({0} \cup {c.metrics[w].sla - rule.threshold[w] : w \in rule.workloads})

\* The cheapest seed that serves well everywhere; without one, the one whose worst
\* excess is smallest, marked as not feasible.
CanonicalSeed(rule, seeds) ==
    LET feasible == {s \in seeds : Feasible(rule, s)}
        Key(s) == IF feasible # {} THEN Objective(rule, s)
                  ELSE <<Excess(rule, s)>> \o Objective(rule, s)
        ranked == IF feasible # {} THEN feasible ELSE seeds
    IN  [seed |-> (CHOOSE s \in ranked : \A q \in ranked \ {s} : Before(Key(s), Key(q))).index,
         feasible |-> feasible # {}, individually |-> {s.index : s \in feasible}]

\* The evidence of the retrained seeds, which must be the one the contract froze.
SeedEvidence(family, upstream) ==
    {[index |-> seed, metrics |-> Validated(family, upstream, seed)] :
        seed \in ReplaySeedsOf(family)}

\* Means per workload and metric, as the reward contract recorded them.
SeedMeans(seeds) ==
    [w \in DeployRule.workloads |->
        [m \in {"sla", "cost", "pressure", "churn"} |->
            MapThenSumSet(LAMBDA s : s.metrics[w][m], seeds)]]
MatchesContract(seeds, family, upstream) ==
    SeedMeans(seeds) = SeedMeans(SeedEvidence(family, upstream))

\* The definition stands for what only this manifest says of the code that made it:
\* parameters, hyperparameters, artifacts.
ControllerManifest(definition) ==
    [kind |-> "controllers", definition |-> definition, rule |-> DeployRule,
     learned |-> [family \in Learned |->
        LET seeds == SeedEvidence(family, Upstream(definition))
        IN  [lineage |-> seeds, canonical |-> CanonicalSeed(DeployRule, seeds)]]]

-----------------------------------------------------------------------------
(* Replay windows and arrival schedules.                                   *)
\* Starts at 20, 50 and 80 % of the range a window can start in, aligned to bins.
WindowOffsets(bins) ==
    [i \in DOMAIN Fractions |-> (Fractions[i] * (bins - WindowBins)) \div 10]
WindowsDisjoint(bins) ==
    /\ bins > WindowBins
    /\ \A i \in 1 .. Len(Fractions) - 1 :
        WindowOffsets(bins)[i + 1] >= WindowOffsets(bins)[i] + WindowBins

SliceCounts(counts, start) == SubSeq(counts, start + 1, start + WindowBins)

\* Each bin's exact count, placed inside the bin by draws of this slice and seed only.
Schedule(counts, slice, seed) ==
    FlattenSeq([b \in DOMAIN counts |->
        [n \in 1 .. counts[b] |-> [bin |-> b, draw |-> <<slice, seed, n>>]]])
Checksum(times) == times

ReplaySlices(version) ==
    LET counts == RequestCounts(version)
        starts == WindowOffsets(Len(counts))
    IN  [i \in DOMAIN starts |->
            [slice |-> i, start |-> starts[i], fingerprint |-> counts,
             counts |-> SliceCounts(counts, starts[i])]]

SchedulePayload(entry, seed) ==
    LET times == Schedule(entry.counts, entry.slice, seed)
    IN  [kind |-> "schedule", slice |-> entry.slice, seed |-> seed,
         fingerprint |-> entry.fingerprint, times |-> times, checksum |-> Checksum(times)]

ReplayFiles(definition, version) ==
    {<<entry.slice, seed>> :
        entry \in ToSet(ReplaySlices(version)), seed \in ToSet(LoadSeeds(definition))}

ReplayManifest(definition, version) ==
    [kind |-> "replay", source |-> RequestCounts(version), seeds |-> LoadSeeds(definition),
     slices |-> [i \in DOMAIN ReplaySlices(version) |->
        LET entry == ReplaySlices(version)[i]
        IN  [slice |-> i, fingerprint |-> entry.fingerprint,
             requests |-> Len(Schedule(entry.counts, i, 0)),
             schedules |-> [k \in DOMAIN LoadSeeds(definition) |->
                LET payload == SchedulePayload(entry, LoadSeeds(definition)[k])
                IN  [file |-> <<i, payload.seed>>, seed |-> payload.seed,
                     requests |-> Len(payload.times), checksum |-> payload.checksum]]]]]

Protocol(definition, controllers, replay) ==
    [kind |-> "protocol", upstream |-> Upstream(definition), seeds |-> LoadSeeds(definition),
     controllers |-> controllers, replay |-> replay,
     canonical |-> [family \in Learned |-> controllers.learned[family].canonical]]

-----------------------------------------------------------------------------
(* freeze: built completely, then written file by file.                    *)
SimUnchanged == UNCHANGED <<experiment, tree, commits, inputs, raw, runs, jobs, changes>>

\* The schedules first, then the three manifests, the protocol last.
FreezeWrites(definition, version) ==
    LET controllers == ControllerManifest(definition)
        replay == ReplayManifest(definition, version)
        schedules == SetToSeq({[name |-> file, content |->
                        SchedulePayload(ReplaySlices(version)[file[1]], file[2])] :
                            file \in ReplayFiles(definition, version)})
    IN  schedules \o <<[name |-> <<"controllers">>, content |-> controllers],
                       [name |-> <<"replay">>, content |-> replay],
                       [name |-> <<"protocol">>,
                        content |-> Protocol(definition, controllers, replay)]>>

\* What a freeze of each definition writes from each version of the data it can cut.
WholeFreezes ==
    [definition \in Definitions,
     version \in {v \in TraceVersions \ {0} : WindowsDisjoint(Len(RequestCounts(v)))} |->
        FreezeWrites(definition, version)]

SimFreeze ==
    /\ experiment = "sim-to-real" /\ proc.pc = "idle" /\ frozen = NoResult
    /\ VerifiesUpstream /\ inputs # 0
    /\ WindowsDisjoint(Len(RequestCounts(inputs)))
    /\ proc' = [Idle EXCEPT !.pc = "write", !.spec = tree.code, !.input = inputs,
                            !.pending = WholeFreezes[tree.code, inputs]]
    /\ UNCHANGED <<files, frozen>> /\ SimUnchanged

Written(name, content) == [files EXCEPT !.manifests = Having(@, name, content)]

SimWrite ==
    /\ experiment = "sim-to-real" /\ proc.pc = "write"
    /\ IF proc.pending = <<>> THEN Stopped /\ UNCHANGED files
       ELSE /\ files' = Written(Head(proc.pending).name, Head(proc.pending).content)
            /\ proc' = [proc EXCEPT !.pending = Tail(@)]
    /\ UNCHANGED frozen /\ SimUnchanged

\* Stopped inside a write: the file is cut off.
SimInterrupted ==
    /\ experiment = "sim-to-real" /\ proc.pc = "write" /\ proc.pending # <<>>
    /\ changes < MaxChanges /\ changes' = changes + 1
    /\ files' = Written(Head(proc.pending).name, Torn)
    /\ Stopped
    /\ UNCHANGED <<experiment, tree, commits, inputs, raw, runs, jobs, frozen>>

-----------------------------------------------------------------------------
(* check: a command that only reads, one file after the other.             *)
OnDisk(name) == IF name \in DOMAIN files.manifests THEN files.manifests[name] ELSE NoFile
Loads(name) == OnDisk(name).kind \notin {"torn", "absent"}
Manifests == <<<<"controllers">>, <<"replay">>, <<"protocol">>>>

\* Slip: a schedule is compared with its own checksum only.
ScheduleMatchesItself(payload, ref, entry) ==
    /\ payload.slice = entry.slice /\ payload.seed = ref.seed
    /\ payload.checksum = Checksum(payload.times)

\* schedule_errors: identity, source, checksums, count, order and range.
ScheduleMatches(payload, ref, entry) ==
    /\ payload.slice = entry.slice /\ payload.seed = ref.seed
    /\ payload.fingerprint = entry.fingerprint
    /\ payload.checksum = Checksum(payload.times) /\ ref.checksum = Checksum(payload.times)
    /\ Len(payload.times) = ref.requests /\ ref.requests = entry.requests
    /\ \A i \in 1 .. Len(payload.times) - 1 : payload.times[i].bin <= payload.times[i + 1].bin
    /\ \A i \in DOMAIN payload.times : payload.times[i].bin \in 1 .. WindowBins

\* The canonical seeds recomputed from the manifest's own evidence, whose means must
\* be the contract's; nothing else of the manifest is rebuilt.
ControllersMatch(controllers, definition) ==
    \A family \in Learned :
        LET entry == controllers.learned[family]
        IN  /\ MatchesContract(entry.lineage, family, Upstream(definition))
            /\ entry.canonical = CanonicalSeed(controllers.rule, entry.lineage)

\* The frozen rule's seeds for every slice of the one source trace.
ReplayMatches(replay, definition) ==
    /\ replay.seeds = LoadSeeds(definition)
    /\ \A i \in DOMAIN replay.slices :
        LET entry == replay.slices[i]
        IN  /\ entry.fingerprint = replay.source
            /\ [k \in DOMAIN entry.schedules |-> entry.schedules[k].seed] = LoadSeeds(definition)

\* The references to schedule files, each with the slice it belongs to, in order.
References(replay) ==
    FlattenSeq([i \in DOMAIN replay.slices |->
        [k \in DOMAIN replay.slices[i].schedules |->
            [ref |-> replay.slices[i].schedules[k], entry |-> replay.slices[i]]]])

\* The protocol as this code builds it from the two manifests it read.
ProtocolMatches(read, definition) ==
    read[<<"protocol">>] = Protocol(definition, read[<<"controllers">>], read[<<"replay">>])

CheckJob == jobs["check"]
Checking(pc) ==
    experiment = "sim-to-real" /\ "check" \in DOMAIN jobs /\ CheckJob.pc = pc
CheckGoesOn(job) == jobs' = [jobs EXCEPT !["check"] = job] /\ UNCHANGED frozen
CheckRefuses == jobs' = Without(jobs, "check") /\ UNCHANGED frozen
CheckUnchanged == UNCHANGED <<experiment, tree, commits, inputs, raw, runs, files, proc, changes>>

\* Accepted: what was read, by which code; the model ends here.
CheckAccepts(read, extracted, version) ==
    /\ jobs' = Without(jobs, "check")
    /\ frozen' = [experiment |-> "sim-to-real", spec |-> CheckJob.spec,
                  extracted |-> extracted, input |-> version, manifests |-> read]

\* extract: the path of the source data is given.
SimCheck(extract) ==
    /\ experiment = "sim-to-real" /\ frozen = NoResult /\ "check" \notin DOMAIN jobs
    /\ VerifiesUpstream
    /\ jobs' = Having(jobs, "check", [pc |-> "manifests", spec |-> tree.code,
                    extract |-> extract, read |-> <<>>, pending |-> Manifests, version |-> 0])
    /\ UNCHANGED frozen /\ CheckUnchanged

\* Controllers, replay, protocol; a torn file does not load.
SimCheckManifest ==
    /\ Checking("manifests")
    /\ LET job == CheckJob
           name == Head(job.pending)
           next == [job EXCEPT !.read = Having(@, name, OnDisk(name)), !.pending = Tail(@)]
           replay == next.read[<<"replay">>]
       IN  IF ~Loads(name) THEN CheckRefuses
           ELSE IF next.pending # <<>> THEN CheckGoesOn(next)
           ELSE IF /\ ControllersMatch(next.read[<<"controllers">>], job.spec)
                   /\ ReplayMatches(replay, job.spec)
           THEN CheckGoesOn([next EXCEPT !.pc = "schedules", !.pending = References(replay)])
           ELSE CheckRefuses
    /\ CheckUnchanged

\* check_schedules: every referenced file is as its reference says.
SimCheckSchedule ==
    /\ Checking("schedules") /\ CheckJob.pending # <<>>
    /\ LET job == CheckJob
           due == Head(job.pending)
           name == due.ref.file
       IN  IF Loads(name) /\ ScheduleMatches(OnDisk(name), due.ref, due.entry)
           THEN CheckGoesOn([job EXCEPT !.read = Having(@, name, OnDisk(name)),
                                        !.pending = Tail(@)])
           ELSE CheckRefuses
    /\ CheckUnchanged

\* Then the directory, which must hold no other file, and the protocol; without the
\* source data that is all, else the replay is extracted again.
SimCheckListed ==
    /\ Checking("schedules") /\ CheckJob.pending = <<>>
    /\ LET job == CheckJob
           listed == {name \in DOMAIN files.manifests : Len(name) = 2}
           again == SetToSeq(ReplayFiles(job.spec, inputs))
       IN  IF listed # {name \in DOMAIN job.read : Len(name) = 2}
              \/ ~ProtocolMatches(job.read, job.spec)
           THEN CheckRefuses
           ELSE IF ~job.extract \/ inputs = 0 THEN CheckAccepts(job.read, FALSE, 0)
           ELSE IF /\ WindowsDisjoint(Len(RequestCounts(inputs)))
                   /\ job.read[<<"replay">>] = ReplayManifest(job.spec, inputs)
           THEN CheckGoesOn([job EXCEPT !.pc = "again", !.pending = again, !.version = inputs])
           ELSE CheckRefuses
    /\ CheckUnchanged

\* Each file is read once more, and compared with the one generated now.
SimCheckAgain ==
    /\ Checking("again")
    /\ LET job == CheckJob
           name == Head(job.pending)
       IN  IF job.pending = <<>> THEN CheckAccepts(job.read, TRUE, job.version)
           ELSE IF OnDisk(name) = SchedulePayload(ReplaySlices(job.version)[name[1]], name[2])
           THEN CheckGoesOn([job EXCEPT !.pending = Tail(@)])
           ELSE CheckRefuses
    /\ CheckUnchanged

SimCheckNext ==
    \/ \E extract \in BOOLEAN : SimCheck(extract)
    \/ SimCheckManifest \/ SimCheckSchedule \/ SimCheckListed \/ SimCheckAgain

SimNext == SimFreeze \/ SimWrite \/ SimInterrupted \/ SimCheckNext

\* What a check accepts is one whole, although it read one file after the other while
\* freezes of other code or data were writing or had been stopped: the files it read
\* are, one by one, those that a single uninterrupted freeze would have written, by a
\* maker which pins the same artifacts and load seeds as the code that checks, and from
\* one version of the source data, the present one when that was at hand. The maker
\* need not be the checking code: what only the controller manifest says is not
\* compared with the code.
SimFrozenWell ==
    \E freeze \in DOMAIN WholeFreezes :
        /\ frozen.extracted => freeze[2] = frozen.input
        /\ Upstream(freeze[1]) = Upstream(frozen.spec)
        /\ LoadSeeds(freeze[1]) = LoadSeeds(frozen.spec)
        /\ LET whole == WholeFreezes[freeze]
           IN  /\ DOMAIN frozen.manifests = {whole[i].name : i \in DOMAIN whole}
               /\ \A i \in DOMAIN whole : frozen.manifests[whole[i].name] = whole[i].content
=============================================================================
