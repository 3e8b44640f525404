----------------------------- MODULE ScenarioLab ----------------------------
(***************************************************************************)
(* The dashboard's Scenario Lab: one simulation session, the Live City     *)
(* playback state, and the script runs that read and change them.          *)
(*                                                                         *)
(* A click runs its callback and requests a run of the whole script, which *)
(* interrupts a run in progress. The whole script first builds a session   *)
(* if asked to, then draws the stage fragment and the controls. While      *)
(* playing, a timer in the browser also runs the stage fragment alone, and *)
(* only such a run may step. Controls are drawn outside the fragment, so   *)
(* the browser clicks what the latest complete run showed (`shown`), which *)
(* may be out of date.                                                     *)
(*                                                                         *)
(* The session is abstracted to its kind and its tick. Real time passes in *)
(* any unit of which every period is a multiple (0.5x, 1x, 2x and 5x have  *)
(* periods of 40, 20, 10 and 4 twentieths of a second); next_due is kept   *)
(* as the time left until it.                                              *)
(***************************************************************************)
EXTENDS Integers

CONSTANTS
    EpisodeTicks,       \* the session's episode length
    Periods,            \* the playback periods the speed control offers
    NormalPeriod,       \* the one a new PlaybackState has (1x)
    Lateness            \* bounds the model: how far past due time is told apart

ASSUME LabConfig ==
    /\ EpisodeTicks \in Nat \ {0}
    /\ Periods \subseteq Nat \ {0} /\ NormalPeriod \in Periods
    /\ \E p \in Periods : \A q \in Periods : q <= p     \* a slowest speed
    /\ Lateness \in Nat

VARIABLES
    playback,       \* PlaybackState
    session,        \* the built session, if any
    flag,           \* st.session_state[FULL_RUN_KEY] is set
    phase,          \* where the script is: no run, before _build, before the stage
    pressed,        \* this run was requested by "Apply settings & restart"
    timer,          \* the period of the browser's fragment timer, 0 if none
    shown,          \* what the controls on the page were drawn for
    sinceTick       \* history: time since the timer last stepped, capped

vars == <<playback, session, flag, phase, pressed, timer, shown, sinceTick>>

Modes == {"inspect", "live"}
NoSession == [kind |-> "none", tick |-> 0]
NewSession(kind) == [kind |-> kind, tick |-> 0]
done == session.tick = EpisodeTicks

\* autoplay_blocker: a session that can be played.
Playable(s) == s.kind = "controller" /\ s.tick < EpisodeTicks

NothingShown == [mode |-> "inspect", playing |-> FALSE, kind |-> "none", done |-> FALSE]
Drawn(p, s) == [mode |-> p.mode, playing |-> p.playing, kind |-> s.kind,
                done |-> s.tick = EpisodeTicks]

-----------------------------------------------------------------------------
(* PlaybackState.                                                          *)
Fresh == [mode |-> "inspect", playing |-> FALSE, period |-> NormalPeriod, due |-> 0]

Paused(p) == [p EXCEPT !.playing = FALSE, !.due = 0]
Playing(p) == [p EXCEPT !.playing = TRUE, !.due = p.period]
InMode(p, mode) ==
    IF mode = "inspect" THEN Paused([p EXCEPT !.mode = mode])
    ELSE [p EXCEPT !.mode = mode]
AtSpeed(p, period) ==
    [p EXCEPT !.period = period, !.due = IF p.playing THEN period ELSE @]

\* A timer that fires a tenth of a period early still counts.
IsDue(p) == p.playing /\ 10 * p.due <= p.period

\* Slip: the next tick is due one period after the last due time.
MarkAdvancedCatchingUp(p) == [p EXCEPT !.due = @ + p.period]

MarkAdvanced(p) == [p EXCEPT !.due = p.period]

StartPlayback(p, s) == IF Playable(s) THEN Playing(p) ELSE Paused(p)

\* Slip: completing the episode does not stop playback.
AdvanceIfDueUnstopped(p, s) ==
    IF ~p.playing THEN [p |-> p, s |-> s]
    ELSE IF ~Playable(s) THEN [p |-> Paused(p), s |-> s]
    ELSE IF ~IsDue(p) THEN [p |-> p, s |-> s]
    ELSE [p |-> MarkAdvanced(p), s |-> [s EXCEPT !.tick = @ + 1]]

\* At most one tick, and none for a session that cannot play.
AdvanceIfDue(p, s) ==
    IF ~p.playing THEN [p |-> p, s |-> s]
    ELSE IF ~Playable(s) THEN [p |-> Paused(p), s |-> s]
    ELSE IF ~IsDue(p) THEN [p |-> p, s |-> s]
    ELSE LET stepped == [s EXCEPT !.tick = @ + 1]
         IN  [p |-> IF Playable(stepped) THEN MarkAdvanced(p) ELSE Paused(p),
              s |-> stepped]

-----------------------------------------------------------------------------
Longest == CHOOSE p \in Periods : \A q \in Periods : q <= p

Init ==
    /\ playback = Fresh
    /\ session = NoSession
    /\ flag = FALSE
    /\ phase = "begun"
    /\ pressed = FALSE
    /\ timer = 0
    /\ shown = NothingShown
    /\ sinceTick = Longest

(* Clicks. Each ends the run in progress and begins another.               *)
Rerun == phase' = "begun" /\ pressed' = FALSE /\ UNCHANGED <<flag, timer, shown, sinceTick>>

\* A callback that raises ends the run: the page shows the error instead.
Failed ==
    /\ phase' = "idle" /\ pressed' = FALSE
    /\ timer' = 0 /\ shown' = NothingShown
    /\ UNCHANGED <<flag, sinceTick>>

ClickMode(mode) ==
    /\ shown.kind # "none"
    /\ playback' = InMode(playback, mode)
    /\ UNCHANGED session
    /\ Rerun

ClickPlay ==
    /\ shown.mode = "live" /\ shown.kind = "controller"
    /\ ~shown.playing /\ ~shown.done
    /\ playback' = StartPlayback(playback, session)
    /\ UNCHANGED session
    /\ Rerun

ClickPause ==
    /\ shown.mode = "live" /\ shown.playing
    /\ playback' = Paused(playback)
    /\ UNCHANGED session
    /\ Rerun

ClickSpeed(period) ==
    /\ shown.mode = "live" /\ shown.kind # "none"
    /\ playback' = AtSpeed(playback, period)
    /\ UNCHANGED session
    /\ Rerun

StepShown ==
    /\ shown.kind = "controller" /\ ~shown.done
    /\ shown.mode = "live" => ~shown.playing

\* Slip: the callback trusts that a disabled button cannot be clicked.
ClickStepWhileDone ==
    /\ StepShown
    /\ session' = IF playback.playing THEN session ELSE [session EXCEPT !.tick = @ + 1]
    /\ UNCHANGED playback
    /\ Rerun

\* Next step, Step once: a no-op for an old button. After a rebuild in manual
\* mode step_controller raises.
ClickStep ==
    /\ StepShown
    /\ UNCHANGED playback
    /\ IF done \/ playback.playing THEN UNCHANGED session /\ Rerun
       ELSE IF session.kind = "controller"
       THEN session' = [session EXCEPT !.tick = @ + 1] /\ Rerun
       ELSE UNCHANGED session /\ Failed

\* Scale down, Hold, Scale up.
ClickManualStep ==
    /\ shown.mode = "inspect" /\ shown.kind = "manual" /\ ~shown.done
    /\ UNCHANGED playback
    /\ IF done THEN UNCHANGED session /\ Rerun
       ELSE IF session.kind = "manual"
       THEN session' = [session EXCEPT !.tick = @ + 1] /\ Rerun
       ELSE UNCHANGED session /\ Failed

ClickRunToEnd ==
    /\ shown.mode = "inspect" /\ shown.kind = "controller" /\ ~shown.done
    /\ playback' = Paused(playback)
    /\ IF done THEN UNCHANGED session /\ Rerun
       ELSE IF session.kind = "controller"
       THEN session' = [session EXCEPT !.tick = EpisodeTicks] /\ Rerun
       ELSE UNCHANGED session /\ Failed

ClickReset ==
    /\ shown.kind # "none"
    /\ playback' = Paused(playback)
    /\ session' = NewSession(session.kind)
    /\ Rerun

\* Apply settings & restart: the build happens in the run it requests.
ClickBuild ==
    /\ phase' = "begun" /\ pressed' = TRUE
    /\ UNCHANGED <<playback, session, flag, timer, shown, sinceTick>>

\* Any edit of the sidebar form.
Edit == UNCHANGED <<playback, session>> /\ Rerun

Click ==
    \/ \E mode \in Modes : ClickMode(mode)
    \/ ClickPlay
    \/ ClickPause
    \/ \E period \in Periods : ClickSpeed(period)
    \/ ClickStep
    \/ ClickManualStep
    \/ ClickRunToEnd
    \/ ClickReset
    \/ ClickBuild
    \/ Edit

-----------------------------------------------------------------------------
(* Script runs.                                                            *)
Building == pressed \/ session.kind = "none"

\* Slip: a full run is not told from the timer's.
MainUnflagged ==
    /\ phase = "begun"
    /\ playback' = IF pressed THEN Paused(playback) ELSE playback
    /\ session' \in IF Building
                    THEN {session, NewSession("manual"), NewSession("controller")}
                    ELSE {session}
    /\ phase' = IF session'.kind = "none" THEN "idle" ELSE "staging"
    /\ pressed' = FALSE
    /\ UNCHANGED <<flag, timer, shown, sinceTick>>

\* main(): build if asked to or if nothing is built yet; a build may fail and
\* leave the session as it was. With a session, rendering begins.
Main ==
    /\ phase = "begun"
    /\ playback' = IF pressed THEN Paused(playback) ELSE playback
    /\ session' \in IF Building
                    THEN {session, NewSession("manual"), NewSession("controller")}
                    ELSE {session}
    /\ flag' = (flag \/ session'.kind # "none")
    /\ phase' = IF session'.kind = "none" THEN "idle" ELSE "staging"
    /\ pressed' = FALSE
    /\ UNCHANGED <<timer, shown, sinceTick>>

\* Slips: the flag is read and not removed; completion requests no full run.
StageRegionKeepingFlag(after) ==
    LET advanced == IF flag THEN [p |-> playback, s |-> session]
                    ELSE AdvanceIfDue(playback, session)
    IN  /\ playback' = advanced.p
        /\ session' = advanced.s
        /\ UNCHANGED flag
        /\ sinceTick' = IF session' # session THEN 0 ELSE sinceTick
        /\ phase' = IF playback.playing /\ ~playback'.playing THEN "begun" ELSE after
StageRegionQuiet(after) ==
    LET advanced == IF flag THEN [p |-> playback, s |-> session]
                    ELSE AdvanceIfDue(playback, session)
    IN  /\ playback' = advanced.p
        /\ session' = advanced.s
        /\ flag' = FALSE
        /\ sinceTick' = IF session' # session THEN 0 ELSE sinceTick
        /\ phase' = after

\* The stage fragment: only a run of its own, by the timer, may step; when that
\* ends playback it requests a full run.
StageRegion(after) ==
    LET advanced == IF flag THEN [p |-> playback, s |-> session]
                    ELSE AdvanceIfDue(playback, session)
    IN  /\ playback' = advanced.p
        /\ session' = advanced.s
        /\ flag' = FALSE
        /\ sinceTick' = IF session' # session THEN 0 ELSE sinceTick
        /\ phase' = IF playback.playing /\ ~playback'.playing THEN "begun" ELSE after

\* The rest of a full run: the stage, then the controls and the timer.
Render ==
    /\ phase = "staging"
    /\ StageRegion("idle")
    /\ shown' = Drawn(playback', session')
    /\ timer' = IF playback.playing THEN playback.period ELSE 0
    /\ UNCHANGED pressed

\* The browser's timer runs the stage fragment, at a time of its own.
TimerRun ==
    /\ phase = "idle" /\ timer # 0
    /\ StageRegion("idle")
    /\ UNCHANGED <<pressed, timer, shown>>

\* Real time passes.
Pass ==
    /\ playback' = [playback EXCEPT
                        !.due = IF playback.playing /\ @ > -Lateness THEN @ - 1 ELSE @]
    /\ sinceTick' = IF sinceTick < Longest THEN sinceTick + 1 ELSE sinceTick
    /\ UNCHANGED <<session, flag, phase, pressed, timer, shown>>

System == Main \/ Render \/ TimerRun \/ Pass

Next == Click \/ System

Spec == Init /\ [][Next]_vars

\* The script runs when asked to, the timer keeps firing, time passes; nothing
\* is assumed of the user.
FairSpec ==
    /\ Spec
    /\ WF_vars(Main) /\ WF_vars(Render) /\ WF_vars(TimerRun) /\ WF_vars(Pass)

-----------------------------------------------------------------------------
\* Every variable in its type; in particular no session runs past its episode.
TypeOK ==
    /\ playback \in [mode : Modes, playing : BOOLEAN, period : Periods,
                     due : -Lateness .. Longest]
    /\ session \in [kind : {"none", "manual", "controller"}, tick : 0 .. EpisodeTicks]
    /\ flag \in BOOLEAN /\ pressed \in BOOLEAN
    /\ phase \in {"idle", "begun", "staging"}
    /\ timer \in {0} \cup Periods
    /\ shown \in [mode : Modes, playing : BOOLEAN,
                  kind : {"none", "manual", "controller"}, done : BOOLEAN]
    /\ sinceTick \in 0 .. Longest

\* Playback only ever drives a controller session with ticks left: completion,
\* Run to end, Reset and Build stop it, whatever is clicked on an old page.
PlayingIsPlayable == playback.playing => Playable(session)

\* Once a full run is through, the page's timer fits the playback: there is one
\* exactly while playing, at the chosen speed.
TimerMatches ==
    phase = "idle" => timer = IF playback.playing THEN playback.period ELSE 0

\* One driver at a time, and "full app runs never step": while playing, neither
\* a click nor a redraw advances the session, except Run to end, which stops
\* playback.
OneDriver ==
    [][session'.tick > session.tick /\ playback.playing
        => TimerRun \/ ~playback'.playing]_vars

\* "There is no catch-up": two ticks of the timer are never closer than the
\* current period less its tolerance, however late checks were and however
\* playback was paused, resumed or its speed changed in between.
NoBurst ==
    [][TimerRun /\ session' # session =>
        10 * sinceTick >= 9 * playback.period]_vars

\* Left alone, playback comes to its end.
Completes == <>[][System]_vars => (playback.playing ~> ~playback.playing)

\* "Inspect advances deliberately, one tick per click" (MODE_HELP).
InspectAdvancesByClick ==
    [][TimerRun /\ playback.mode = "inspect" => UNCHANGED session]_vars
=============================================================================
