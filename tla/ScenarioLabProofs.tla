-------------------------- MODULE ScenarioLabProofs -------------------------
(***************************************************************************)
(* What the dashboard keeps for every episode length, every set of speeds  *)
(* and every order of clicks, script runs and timer runs.                  *)
(***************************************************************************)
EXTENDS ScenarioLab, TLAPS

Playback == [mode : Modes, playing : BOOLEAN, period : Periods, due : -Lateness .. Longest]
Session == [kind : {"none", "manual", "controller"}, tick : 0 .. EpisodeTicks]

\* What is drawn was drawn for a session that exists, full runs carry the flag,
\* and playback is only ever started from a page of a controller session.
PageInv ==
    /\ phase = "staging" => session.kind # "none" /\ flag
    /\ session.kind = "none" => timer = 0
    /\ playback.playing => shown.kind = "controller"

\* The time since the latest tick and the time to the next fill the period.
PaceInv == playback.playing => sinceTick = Longest \/ playback.due + sinceTick >= playback.period

LabInv == TypeOK /\ PlayingIsPlayable /\ TimerMatches /\ PageInv /\ PaceInv

-----------------------------------------------------------------------------
\* The speeds have a slowest one.
LEMMA LongestIsSlowest ==
    /\ Longest \in Periods
    /\ \A q \in Periods : q \in Int /\ 1 <= q /\ q <= Longest
    /\ Longest \in Int
<1>1. /\ \A q \in Periods : q \in Int /\ 1 <= q
      /\ \E p \in Periods : \A q \in Periods : q <= p
    BY LabConfig
<1>2. Longest \in Periods /\ \A q \in Periods : q <= Longest
    BY <1>1 DEF Longest
<1> QED BY <1>1, <1>2

\* Times until the next tick are whole numbers.
LEMMA DueIsWhole == \A d \in -Lateness .. Longest : d \in Int
<1>1. Lateness \in Nat
    BY LabConfig
<1>2. Longest \in Int
    BY LongestIsSlowest
<1> QED BY <1>1, <1>2

\* A tick may be due now or a period from now.
LEMMA PeriodsAreTimes ==
    0 \in -Lateness .. Longest /\ \A q \in Periods : q \in -Lateness .. Longest
<1>1. Lateness \in Nat
    BY LabConfig
<1> QED BY <1>1, LongestIsSlowest

\* One check of the timer: at most one tick, only for a playback that was due;
\* playback goes on only with a session that has ticks left.
LEMMA AdvanceIfDueFacts ==
    ASSUME NEW p \in Playback, NEW s \in Session
    PROVE  LET a == AdvanceIfDue(p, s)
           IN  /\ a.p \in Playback /\ a.s \in Session
               /\ a.p.period = p.period /\ a.s.kind = s.kind
               /\ a.p.playing => p.playing /\ Playable(a.s)
               /\ a.s # s => p.playing /\ 10 * p.due <= p.period
               /\ a.s # s /\ a.p.playing => a.p.due = p.period
               /\ a.s = s /\ a.p.playing => a.p = p
<1> USE LongestIsSlowest, LabConfig
<1> DEFINE stepped == [s EXCEPT !.tick = @ + 1]
<1>1. /\ Paused(p) \in Playback /\ ~Paused(p).playing /\ Paused(p).period = p.period
      /\ MarkAdvanced(p) \in Playback /\ MarkAdvanced(p).playing = p.playing
      /\ MarkAdvanced(p).period = p.period /\ MarkAdvanced(p).due = p.period
    <2>1. 0 \in -Lateness .. Longest /\ p.period \in -Lateness .. Longest /\ p.period \in Periods
        BY PeriodsAreTimes DEF Playback
    <2> HIDE LongestIsSlowest, LabConfig
    <2>2. /\ Paused(p) \in Playback /\ ~Paused(p).playing /\ Paused(p).period = p.period
        BY <2>1 DEF Paused, Playback
    <2>3. /\ MarkAdvanced(p) \in Playback /\ MarkAdvanced(p).playing = p.playing
          /\ MarkAdvanced(p).period = p.period /\ MarkAdvanced(p).due = p.period
        BY <2>1 DEF MarkAdvanced, Playback
    <2> QED BY <2>2, <2>3
<1>2. Playable(s) => stepped \in Session /\ stepped.kind = s.kind
    BY DEF Playable, Session
<1>3. CASE ~p.playing \/ (Playable(s) /\ ~IsDue(p))
    <2>1. AdvanceIfDue(p, s) = [p |-> p, s |-> s]
        BY <1>3 DEF AdvanceIfDue
    <2> QED BY <1>3, <2>1
<1>4. CASE p.playing /\ ~Playable(s)
    <2>1. AdvanceIfDue(p, s) = [p |-> Paused(p), s |-> s]
        BY <1>4 DEF AdvanceIfDue
    <2> QED BY <1>1, <2>1
<1>5. CASE p.playing /\ Playable(s) /\ IsDue(p)
    <2>1. AdvanceIfDue(p, s) =
            [p |-> IF Playable(stepped) THEN MarkAdvanced(p) ELSE Paused(p), s |-> stepped]
        BY <1>5 DEF AdvanceIfDue
    <2>2. 10 * p.due <= p.period
        BY <1>5 DEF IsDue
    <2>3. stepped # s
        BY <1>5 DEF Playable, Session
    <2> HIDE DEF stepped
    <2>4. CASE Playable(stepped)
        <3>1. AdvanceIfDue(p, s) = [p |-> MarkAdvanced(p), s |-> stepped]
            BY <2>1, <2>4
        <3> QED BY <1>1, <1>2, <1>5, <2>2, <2>3, <2>4, <3>1
    <2>5. CASE ~Playable(stepped)
        <3>1. AdvanceIfDue(p, s) = [p |-> Paused(p), s |-> stepped]
            BY <2>1, <2>5
        <3> QED BY <1>1, <1>2, <1>5, <2>2, <2>3, <3>1
    <2> QED BY <2>4, <2>5
<1> QED BY <1>3, <1>4, <1>5

-----------------------------------------------------------------------------
\* A click that requests a run keeps the invariant if what it leaves can be
\* played, or is paused.
LEMMA RerunKeeps ==
    ASSUME LabInv, Rerun, playback' \in Playback, session' \in Session,
           session'.kind = session.kind,
           playback'.playing =>
                /\ Playable(session') /\ shown.kind = "controller"
                /\ sinceTick = Longest \/ playback'.due + sinceTick >= playback'.period
    PROVE  LabInv'
<1>1. TypeOK'
    BY DEF LabInv, TypeOK, Rerun, Playback, Session
<1>2. PlayingIsPlayable' /\ TimerMatches' /\ PageInv' /\ PaceInv'
    BY DEF LabInv, Rerun, PlayingIsPlayable, TimerMatches, PageInv, PaceInv, Playable
<1> QED BY <1>1, <1>2 DEF LabInv

\* A callback that raises while nothing plays keeps the invariant.
LEMMA FailedKeeps ==
    ASSUME LabInv, Failed, UNCHANGED <<playback, session>>, ~playback.playing
    PROVE  LabInv'
<1>1. TypeOK'
    BY DEF LabInv, TypeOK, Failed, NothingShown, Modes
<1>2. PlayingIsPlayable' /\ TimerMatches' /\ PageInv' /\ PaceInv'
    BY DEF LabInv, Failed, PlayingIsPlayable, TimerMatches, PageInv, PaceInv
<1> QED BY <1>1, <1>2 DEF LabInv

\* What the callbacks do to the playback.
LEMMA PlaybackFacts ==
    ASSUME NEW p \in Playback, NEW period \in Periods, NEW mode \in Modes
    PROVE  /\ Paused(p) \in Playback /\ ~Paused(p).playing
           /\ Playing(p) \in Playback /\ Playing(p).due = Playing(p).period
           /\ AtSpeed(p, period) \in Playback /\ AtSpeed(p, period).playing = p.playing
           /\ p.playing => AtSpeed(p, period).due = AtSpeed(p, period).period
           /\ InMode(p, mode) \in Playback
           /\ InMode(p, mode).playing =>
                /\ p.playing /\ InMode(p, mode).due = p.due
                /\ InMode(p, mode).period = p.period
<1>1. /\ 0 \in -Lateness .. Longest /\ p.period \in -Lateness .. Longest
      /\ p.period \in Periods /\ period \in -Lateness .. Longest
    BY PeriodsAreTimes DEF Playback
<1>2. Paused(p) \in Playback /\ ~Paused(p).playing
    BY <1>1 DEF Paused, Playback
<1>3. Playing(p) \in Playback /\ Playing(p).due = Playing(p).period
    BY <1>1 DEF Playing, Playback
<1>4. /\ AtSpeed(p, period) \in Playback /\ AtSpeed(p, period).playing = p.playing
      /\ p.playing => AtSpeed(p, period).due = AtSpeed(p, period).period
    BY <1>1 DEF AtSpeed, Playback
<1>5. CASE mode = "inspect"
    <2> DEFINE q == [p EXCEPT !.mode = mode]
    <2>1. q \in Playback
        BY DEF Playback
    <2>2. InMode(p, mode) = Paused(q)
        BY <1>5 DEF InMode
    <2>3. Paused(q) \in Playback /\ ~Paused(q).playing
        BY <1>1, <2>1 DEF Paused, Playback
    <2> QED BY <1>2, <1>3, <1>4, <2>2, <2>3
<1>6. CASE mode # "inspect"
    <2>1. InMode(p, mode) = [p EXCEPT !.mode = mode]
        BY <1>6 DEF InMode
    <2>2. /\ InMode(p, mode) \in Playback /\ InMode(p, mode).playing = p.playing
          /\ InMode(p, mode).due = p.due /\ InMode(p, mode).period = p.period
        BY <2>1 DEF Playback
    <2> QED BY <1>2, <1>3, <1>4, <2>2
<1> QED BY <1>5, <1>6

\* Every click keeps the invariant.
LEMMA ClickKeeps == ASSUME LabInv, Click PROVE LabInv'
<1>1. playback \in Playback /\ session \in Session /\ sinceTick \in 0 .. Longest
    BY DEF LabInv, TypeOK, Playback, Session
<1>2. playback.playing =>
        /\ Playable(session) /\ shown.kind = "controller"
        /\ sinceTick = Longest \/ playback.due + sinceTick >= playback.period
    BY DEF LabInv, PlayingIsPlayable, PageInv, PaceInv
<1>3. /\ Paused(playback) \in Playback /\ ~Paused(playback).playing
      /\ Playing(playback) \in Playback /\ Playing(playback).due = Playing(playback).period
    BY <1>1, LongestIsSlowest, PlaybackFacts DEF Modes
<1>4. ASSUME NEW kind \in {"none", "manual", "controller"}
      PROVE  NewSession(kind) \in Session /\ NewSession(kind).kind = kind
    BY <1>4, LabConfig DEF NewSession, Session
<1>5. ~done => [session EXCEPT !.tick = @ + 1] \in Session
    BY <1>1, LabConfig DEF done, Session
<1>6. ASSUME NEW mode \in Modes, ClickMode(mode) PROVE LabInv'
    <2>1. /\ playback' = InMode(playback, mode) /\ session' = session /\ Rerun
        BY <1>6 DEF ClickMode
    <2>2. /\ InMode(playback, mode) \in Playback
          /\ InMode(playback, mode).playing =>
                /\ playback.playing /\ InMode(playback, mode).due = playback.due
                /\ InMode(playback, mode).period = playback.period
        BY <1>1, LongestIsSlowest, PlaybackFacts
    <2> QED BY <1>1, <1>2, <2>1, <2>2, RerunKeeps
<1>7. CASE ClickPlay
    <2>1. /\ playback' = IF Playable(session) THEN Playing(playback) ELSE Paused(playback)
          /\ session' = session /\ shown.kind = "controller" /\ Rerun
        BY <1>7 DEF ClickPlay, StartPlayback
    <2>2. playback' \in Playback /\ (playback'.playing => Playable(session') /\ playback'.due = playback'.period)
        BY <1>3, <2>1
    <2>3. playback'.playing => playback'.due + sinceTick >= playback'.period
        BY <1>1, <2>2, LongestIsSlowest DEF Playback
    <2> QED BY <1>1, <2>1, <2>2, <2>3, RerunKeeps
<1>8. CASE ClickPause
    BY <1>1, <1>3, <1>8, RerunKeeps DEF ClickPause
<1>9. ASSUME NEW period \in Periods, ClickSpeed(period) PROVE LabInv'
    <2>1. /\ playback' = AtSpeed(playback, period) /\ session' = session /\ Rerun
        BY <1>9 DEF ClickSpeed
    <2>2. /\ playback' \in Playback /\ playback'.playing = playback.playing
          /\ playback'.playing => playback'.due = playback'.period
        BY <1>1, <2>1, PlaybackFacts DEF Modes
    <2>3. playback'.playing => playback'.due + sinceTick >= playback'.period
        BY <1>1, <2>2, LongestIsSlowest DEF Playback
    <2> QED BY <1>1, <1>2, <2>1, <2>2, <2>3, RerunKeeps
<1>10. CASE ClickStep
    <2>1. CASE done \/ playback.playing
        BY <1>1, <1>2, <1>10, <2>1, RerunKeeps DEF ClickStep
    <2>2. CASE ~(done \/ playback.playing) /\ session.kind = "controller"
        <3>1. /\ session' = [session EXCEPT !.tick = @ + 1] /\ playback' = playback /\ Rerun
            BY <1>10, <2>2 DEF ClickStep
        <3>2. session' \in Session /\ session'.kind = session.kind
            BY <1>1, <1>5, <2>2, <3>1 DEF Session
        <3> QED BY <1>1, <2>2, <3>1, <3>2, RerunKeeps
    <2>3. CASE ~(done \/ playback.playing) /\ session.kind # "controller"
        BY <1>10, <2>3, FailedKeeps DEF ClickStep
    <2> QED BY <2>1, <2>2, <2>3
<1>11. CASE ClickManualStep
    <2>1. ~playback.playing /\ playback' = playback
        BY <1>2, <1>11 DEF ClickManualStep
    <2>2. CASE done
        BY <1>1, <1>2, <1>11, <2>1, <2>2, RerunKeeps DEF ClickManualStep
    <2>3. CASE ~done /\ session.kind = "manual"
        <3>1. session' = [session EXCEPT !.tick = @ + 1] /\ Rerun
            BY <1>11, <2>3 DEF ClickManualStep
        <3>2. session' \in Session /\ session'.kind = session.kind
            BY <1>1, <1>5, <2>3, <3>1 DEF Session
        <3> QED BY <1>1, <2>1, <3>1, <3>2, RerunKeeps
    <2>4. CASE ~done /\ session.kind # "manual"
        BY <1>11, <2>1, <2>4, FailedKeeps DEF ClickManualStep
    <2> QED BY <2>2, <2>3, <2>4
<1>12. CASE ClickRunToEnd
    <2>1. playback' = Paused(playback)
        BY <1>12 DEF ClickRunToEnd
    <2>2. CASE done
        BY <1>1, <1>3, <1>12, <2>1, <2>2, RerunKeeps DEF ClickRunToEnd
    <2>3. CASE ~done /\ session.kind = "controller"
        <3>1. session' = [session EXCEPT !.tick = EpisodeTicks] /\ Rerun
            BY <1>12, <2>3 DEF ClickRunToEnd
        <3>2. session' \in Session /\ session'.kind = session.kind
            BY <1>1, <3>1, LabConfig DEF Session
        <3> QED BY <1>3, <2>1, <3>1, <3>2, RerunKeeps
    <2>4. CASE ~done /\ session.kind # "controller"
        <3>1. ~playback.playing
            BY <1>2, <2>4 DEF Playable
        <3>2. Failed /\ session' = session
            BY <1>12, <2>4 DEF ClickRunToEnd
        <3>3. TypeOK'
            BY <1>3, <2>1, <3>2 DEF LabInv, TypeOK, Failed, NothingShown, Modes, Playback
        <3>4. PlayingIsPlayable' /\ TimerMatches' /\ PageInv' /\ PaceInv'
            BY <1>3, <2>1, <3>2 DEF Failed, PlayingIsPlayable, TimerMatches, PageInv, PaceInv
        <3> QED BY <3>3, <3>4 DEF LabInv
    <2> QED BY <2>2, <2>3, <2>4
<1>13. CASE ClickReset
    <2>1. playback' = Paused(playback) /\ session' = NewSession(session.kind) /\ Rerun
        BY <1>13 DEF ClickReset
    <2>2. session' \in Session /\ session'.kind = session.kind
        BY <1>1, <1>4, <2>1 DEF Session
    <2> QED BY <1>3, <2>1, <2>2, RerunKeeps
<1>14. CASE ClickBuild
    <2>1. TypeOK'
        BY <1>14 DEF LabInv, TypeOK, ClickBuild
    <2>2. PlayingIsPlayable' /\ TimerMatches' /\ PageInv' /\ PaceInv'
        BY <1>14 DEF LabInv, ClickBuild, PlayingIsPlayable, TimerMatches, PageInv, PaceInv
    <2> QED BY <2>1, <2>2 DEF LabInv
<1>15. CASE Edit
    BY <1>1, <1>2, <1>15, RerunKeeps DEF Edit
<1> QED
    BY <1>6, <1>7, <1>8, <1>9, <1>10, <1>11, <1>12, <1>13, <1>14, <1>15 DEF Click

-----------------------------------------------------------------------------
\* One run of the stage fragment, by a full run or by the timer.
LEMMA StageRegionFacts ==
    ASSUME LabInv, StageRegion("idle")
    PROVE  /\ playback' \in Playback /\ session' \in Session
           /\ playback'.period = playback.period /\ session'.kind = session.kind
           /\ playback'.playing => playback.playing /\ Playable(session')
           /\ phase' = IF playback.playing /\ ~playback'.playing THEN "begun" ELSE "idle"
           /\ flag' = FALSE /\ sinceTick' \in 0 .. Longest
           /\ flag => playback' = playback /\ session' = session
           /\ session' # session => ~flag /\ playback.playing /\ 10 * playback.due <= playback.period
           /\ playback'.playing =>
                sinceTick' = Longest \/ playback'.due + sinceTick' >= playback'.period
<1>1. playback \in Playback /\ session \in Session /\ sinceTick \in 0 .. Longest
    BY DEF LabInv, TypeOK, Playback, Session
<1>2. playback.playing =>
        /\ Playable(session)
        /\ sinceTick = Longest \/ playback.due + sinceTick >= playback.period
    BY DEF LabInv, PlayingIsPlayable, PaceInv
<1> DEFINE a == AdvanceIfDue(playback, session)
<1>3. /\ a.p \in Playback /\ a.s \in Session
      /\ a.p.period = playback.period /\ a.s.kind = session.kind
      /\ a.p.playing => playback.playing /\ Playable(a.s)
      /\ a.s # session => playback.playing /\ 10 * playback.due <= playback.period
      /\ a.s # session /\ a.p.playing => a.p.due = playback.period
      /\ a.s = session /\ a.p.playing => a.p = playback
    BY <1>1, AdvanceIfDueFacts
<1> HIDE DEF a
<1>4. /\ playback' = IF flag THEN playback ELSE a.p
      /\ session' = IF flag THEN session ELSE a.s
      /\ flag' = FALSE
      /\ sinceTick' = IF session' # session THEN 0 ELSE sinceTick
      /\ phase' = IF playback.playing /\ ~playback'.playing THEN "begun" ELSE "idle"
    BY DEF StageRegion, a
<1>5. sinceTick' \in 0 .. Longest
    BY <1>1, <1>4, LongestIsSlowest
<1>6. CASE flag
    BY <1>1, <1>2, <1>4, <1>5, <1>6
<1>7. CASE ~flag
    <2>1. playback' = a.p /\ session' = a.s
        BY <1>4, <1>7
    <2>2. CASE a.s # session
        <3>1. a.p.playing => a.p.due + 0 >= a.p.period
            BY <1>3, <2>2, LongestIsSlowest DEF Playback
        <3> QED BY <1>3, <1>4, <1>5, <1>7, <2>1, <2>2, <3>1
    <2>3. CASE a.s = session
        BY <1>2, <1>3, <1>4, <1>5, <1>7, <2>1, <2>3
    <2> QED BY <2>2, <2>3
<1> QED BY <1>6, <1>7

\* The script, the timer and time keep the invariant.
LEMMA SystemKeeps == ASSUME LabInv, System PROVE LabInv'
<1>1. playback \in Playback /\ session \in Session /\ sinceTick \in 0 .. Longest
    BY DEF LabInv, TypeOK, Playback, Session
<1>2. CASE Main
    <2>1. Paused(playback) \in Playback /\ ~Paused(playback).playing
        BY <1>1, LongestIsSlowest, PlaybackFacts DEF Modes
    <2>2. playback' \in Playback /\ (playback'.playing => ~pressed /\ playback' = playback)
        BY <1>1, <1>2, <2>1 DEF Main
    <2>3. session' \in Session
        BY <1>1, <1>2, LabConfig DEF Main, NewSession, Session
    <2>4. session'.kind = "none" => session.kind = "none"
        BY <1>2 DEF Main, NewSession, Building
    <2>5. playback'.playing => session' = session
        BY <1>1, <1>2, <2>2 DEF Main, Building, LabInv, PlayingIsPlayable, Playable
    <2>6. TypeOK'
        BY <1>2, <2>2, <2>3 DEF LabInv, TypeOK, Main, Playback, Session
    <2>7. PlayingIsPlayable'
        BY <2>2, <2>5 DEF LabInv, PlayingIsPlayable, Playable
    <2>8. TimerMatches'
        BY <1>2, <2>4, <2>7 DEF LabInv, TimerMatches, PageInv, Main, PlayingIsPlayable, Playable
    <2>9. PageInv'
        BY <1>2, <2>2, <2>4 DEF LabInv, PageInv, Main
    <2>10. PaceInv'
        BY <1>2, <2>2 DEF LabInv, PaceInv, Main
    <2> QED BY <2>6, <2>7, <2>8, <2>9, <2>10 DEF LabInv
<1>3. CASE Render
    <2>1. session.kind # "none" /\ flag
        BY <1>3 DEF LabInv, PageInv, Render
    <2>2. /\ playback' = playback /\ session' = session /\ flag' = FALSE
          /\ phase' = "idle" /\ sinceTick' \in 0 .. Longest
          /\ playback'.playing =>
                sinceTick' = Longest \/ playback'.due + sinceTick' >= playback'.period
        BY <1>3, <2>1, StageRegionFacts DEF Render
    <2>3. /\ shown' = Drawn(playback, session)
          /\ timer' = IF playback.playing THEN playback.period ELSE 0
          /\ pressed' = pressed
        BY <1>3, <2>2 DEF Render
    <2>4. TypeOK'
        BY <1>1, <2>2, <2>3 DEF LabInv, TypeOK, Drawn, Playback, Session
    <2>5. PlayingIsPlayable' /\ TimerMatches' /\ PageInv' /\ PaceInv'
        BY <2>1, <2>2, <2>3
        DEF LabInv, PlayingIsPlayable, TimerMatches, PageInv, PaceInv, Playable, Drawn
    <2> QED BY <2>4, <2>5 DEF LabInv
<1>4. CASE TimerRun
    <2>1. /\ playback' \in Playback /\ session' \in Session
          /\ playback'.period = playback.period /\ session'.kind = session.kind
          /\ playback'.playing => playback.playing /\ Playable(session')
          /\ phase' = IF playback.playing /\ ~playback'.playing THEN "begun" ELSE "idle"
          /\ flag' = FALSE /\ sinceTick' \in 0 .. Longest
          /\ playback'.playing =>
                sinceTick' = Longest \/ playback'.due + sinceTick' >= playback'.period
        BY <1>4, StageRegionFacts DEF TimerRun
    <2>2. pressed' = pressed /\ timer' = timer /\ shown' = shown /\ phase = "idle"
        BY <1>4 DEF TimerRun
    <2>3. TypeOK'
        BY <2>1, <2>2 DEF LabInv, TypeOK, Playback, Session
    <2>4. TimerMatches'
        BY <2>1, <2>2 DEF LabInv, TimerMatches
    <2>5. PlayingIsPlayable' /\ PageInv' /\ PaceInv'
        BY <2>1, <2>2 DEF LabInv, PlayingIsPlayable, PageInv, PaceInv
    <2> QED BY <2>3, <2>4, <2>5 DEF LabInv
<1>5. CASE Pass
    <2>1. /\ playback' \in Playback /\ playback'.playing = playback.playing
          /\ playback'.period = playback.period
          /\ playback.playing => playback'.due \in {playback.due, playback.due - 1}
        BY <1>1, <1>5, LabConfig, LongestIsSlowest DEF Pass, Playback
    <2>2. /\ sinceTick' \in 0 .. Longest
          /\ sinceTick' = Longest \/ sinceTick' = sinceTick + 1
        BY <1>1, <1>5, LongestIsSlowest DEF Pass
    <2>3. UNCHANGED <<session, flag, phase, pressed, timer, shown>>
        BY <1>5 DEF Pass
    <2>4. TypeOK'
        BY <2>1, <2>2, <2>3 DEF LabInv, TypeOK, Playback
    <2>5. PlayingIsPlayable' /\ TimerMatches' /\ PageInv'
        BY <2>1, <2>3 DEF LabInv, PlayingIsPlayable, TimerMatches, PageInv, Playable
    <2>6. PaceInv'
        <3>1. playback.due \in Int /\ playback'.due \in Int /\ playback.period \in Int
            <4>1. /\ playback.due \in -Lateness .. Longest
                  /\ playback'.due \in -Lateness .. Longest /\ playback.period \in Periods
                BY <1>1, <2>1 DEF Playback
            <4> QED BY <4>1, LongestIsSlowest, DueIsWhole
        <3>2. CASE sinceTick = Longest
            BY <1>1, <2>2, <3>2, LongestIsSlowest DEF PaceInv
        <3>3. CASE sinceTick # Longest
            BY <1>1, <2>1, <2>2, <3>1, <3>3, LongestIsSlowest DEF LabInv, PaceInv
        <3> QED BY <3>2, <3>3
    <2> QED BY <2>4, <2>5, <2>6 DEF LabInv
<1> QED BY <1>2, <1>3, <1>4, <1>5 DEF System

-----------------------------------------------------------------------------
\* The dashboard keeps its invariant through every order of clicks and runs.
THEOREM LabInvariant == Spec => []LabInv
<1>1. Init => LabInv
    <2> SUFFICES ASSUME Init PROVE LabInv
        OBVIOUS
    <2>1. NormalPeriod \in Periods /\ 0 \in -Lateness .. Longest /\ 0 \in 0 .. EpisodeTicks
        BY LabConfig, LongestIsSlowest
    <2>2. Longest \in 0 .. Longest
        BY LongestIsSlowest
    <2>3. TypeOK
        BY <2>1, <2>2 DEF Init, TypeOK, Fresh, NoSession, NothingShown, Modes
    <2>4. PlayingIsPlayable /\ TimerMatches /\ PageInv /\ PaceInv
        BY DEF Init, Fresh, NoSession, PlayingIsPlayable, TimerMatches, PageInv, PaceInv
    <2> QED BY <2>3, <2>4 DEF LabInv
<1>2. LabInv /\ [Next]_vars => LabInv'
    <2> SUFFICES ASSUME LabInv, [Next]_vars PROVE LabInv'
        OBVIOUS
    <2>1. CASE Next
        BY <2>1, ClickKeeps, SystemKeeps DEF Next
    <2>2. CASE UNCHANGED vars
        BY <2>2 DEF vars, LabInv, TypeOK, PlayingIsPlayable, TimerMatches, PageInv, PaceInv, Playable
    <2> QED BY <2>1, <2>2
<1> QED BY <1>1, <1>2, PTL DEF Spec

\* Every variable keeps its type; no session runs past its episode.
THEOREM LabTypes == Spec => []TypeOK
<1>1. LabInv => TypeOK
    BY DEF LabInv
<1> QED BY <1>1, LabInvariant, PTL

\* Playback only ever drives a controller session with ticks left.
THEOREM PlaybackDrivesPlayable == Spec => []PlayingIsPlayable
<1>1. LabInv => PlayingIsPlayable
    BY DEF LabInv
<1> QED BY <1>1, LabInvariant, PTL

\* When no run is under way the page has a timer exactly while playing.
THEOREM TimerFollowsPlayback == Spec => []TimerMatches
<1>1. LabInv => TimerMatches
    BY DEF LabInv
<1> QED BY <1>1, LabInvariant, PTL

\* While playing, only the timer steps, or the click that ends playback.
THEOREM TimerDrives == Spec => OneDriver
<1>1. LabInv /\ [Next]_vars =>
        [session'.tick > session.tick /\ playback.playing => TimerRun \/ ~playback'.playing]_vars
    <2> SUFFICES ASSUME LabInv, Next, session'.tick > session.tick, playback.playing
                 PROVE  TimerRun \/ ~playback'.playing
        BY DEF vars
    <2>1. session.kind = "controller" /\ session.tick \in Nat
        BY DEF LabInv, PlayingIsPlayable, Playable, TypeOK
    <2>2. session' # session
        BY <2>1
    <2>3. CASE Click
        <3>1. ClickStep => session' = session
            BY DEF ClickStep
        <3>2. ClickManualStep => session' = session
            BY <2>1 DEF ClickManualStep
        <3>3. ClickReset => session'.tick = 0
            BY DEF ClickReset, NewSession
        <3>4. ClickRunToEnd => ~playback'.playing
            BY DEF ClickRunToEnd, Paused, LabInv, TypeOK
        <3> QED
            BY <2>1, <2>2, <2>3, <3>1, <3>2, <3>3, <3>4
            DEF Click, ClickMode, ClickPlay, ClickPause, ClickSpeed, ClickBuild, Edit
    <2>4. CASE Main
        <3>1. session'.tick = 0
            BY <2>2, <2>4 DEF Main, NewSession
        <3> QED BY <2>1, <3>1
    <2>5. CASE Render
        BY <2>2, <2>5, StageRegionFacts DEF Render, LabInv, PageInv
    <2>6. CASE Pass
        BY <2>2, <2>6 DEF Pass
    <2> QED BY <2>3, <2>4, <2>5, <2>6 DEF Next, System
<1> QED BY <1>1, LabInvariant, PTL DEF Spec, OneDriver

\* Two ticks of the timer are never closer than the period less its tolerance.
THEOREM TicksKeepTheirDistance == Spec => NoBurst
<1>1. LabInv /\ [Next]_vars =>
        [TimerRun /\ session' # session => 10 * sinceTick >= 9 * playback.period]_vars
    <2> SUFFICES ASSUME LabInv, TimerRun, session' # session
                 PROVE  10 * sinceTick >= 9 * playback.period
        BY DEF vars
    <2>1. playback.playing /\ 10 * playback.due <= playback.period
        BY StageRegionFacts DEF TimerRun
    <2>2. sinceTick = Longest \/ playback.due + sinceTick >= playback.period
        BY <2>1 DEF LabInv, PaceInv
    <2>3. /\ playback.due \in Int /\ sinceTick \in Int
          /\ playback.period \in Int /\ 1 <= playback.period /\ playback.period <= Longest
          /\ Longest \in Int
        <3>1. /\ playback.due \in -Lateness .. Longest /\ sinceTick \in 0 .. Longest
              /\ playback.period \in Periods
            BY DEF LabInv, TypeOK
        <3>2. Longest \in Int
            BY LongestIsSlowest
        <3>3. playback.due \in Int /\ sinceTick \in Int
            BY <3>1, <3>2, DueIsWhole
        <3> QED BY <3>1, <3>2, <3>3, LongestIsSlowest
    <2> QED BY <2>1, <2>2, <2>3
<1> QED BY <1>1, LabInvariant, PTL DEF Spec, NoBurst
=============================================================================
