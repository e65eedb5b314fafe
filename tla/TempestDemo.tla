------------------------------ MODULE TempestDemo ------------------------------
(***************************************************************************)
(* ProjectTempestDemo.exe: the screens of Tempest::Ui::InterfaceState, the *)
(* window's events and the match they drive.                               *)
(*                                                                         *)
(* One thread handles the messages that wait, then lets the match catch up *)
(* with the clock by zero or more Simulation::Step. The demo pauses by not *)
(* stepping and restarts by Simulation::Reset; it gives neither command.   *)
(*                                                                         *)
(* A key or button is known by the action bound to it: no two actions      *)
(* share an input (SettingsProfile). Enter and Escape cannot be bound.     *)
(***************************************************************************)
EXTENDS TempestMatch

VARIABLES
    screen,                  \* m_screen
    settingsReturnScreen,    \* m_settingsReturnScreen
    capturingBinding,        \* m_capturingBinding
    active,                  \* g_applicationActive: the window has the focus
    closed                   \* the window is destroyed

screens == <<screen, settingsReturnScreen, capturingBinding>>
demoVars == <<vars, screens, active, closed>>

Keys == {"Enter", "Escape", "Pause", "OpenSettings", "Restart"}

DemoInit ==
    /\ Init
    /\ screen = "Briefing" /\ settingsReturnScreen = "Briefing" /\ capturingBinding = FALSE
    /\ active = TRUE /\ closed = FALSE

(* Between two steps of the match the window's messages are handled; what   *)
(* is typed or clicked goes to the window that has the focus.               *)
Handling == ~stepping /\ ~closed
Input == Handling /\ active

Show(s) == screen' = s /\ UNCHANGED <<settingsReturnScreen, capturingBinding>>

OpenSettings(returnScreen) ==
    screen' = "Settings" /\ settingsReturnScreen' = returnScreen /\ capturingBinding' = FALSE

-----------------------------------------------------------------------------
(* InterfaceState::HandleInput outside the settings                         *)

(* Enter in the briefing, and the restart key once a match has begun. Both  *)
(* call ResetPrototype.                                                     *)
ResetPrototype == Reset

BeginMatch(key) ==
    /\ Input /\ key = "Enter" /\ screen = "Briefing"
    /\ Show("Playing") /\ ResetPrototype /\ UNCHANGED <<active, closed>>

RestartMatch(key) ==
    /\ Input /\ key = "Restart" /\ screen \in {"Pause", "Result"}
    /\ Show("Playing") /\ ResetPrototype /\ UNCHANGED <<active, closed>>

PauseMatch(key) ==
    /\ Input /\ screen = "Playing" /\ key \in {"Escape", "Pause"}
    /\ Show("Pause") /\ UNCHANGED <<vars, active, closed>>

ResumeMatch(key) ==
    /\ Input /\ screen = "Pause" /\ key \in {"Escape", "Pause"}
    /\ Show("Playing") /\ UNCHANGED <<vars, active, closed>>

PausedBehind(s) == IF s = "Playing" THEN "Pause" ELSE s

EnterSettings(key) ==
    /\ Input /\ key = "OpenSettings" /\ screen # "Settings"
    /\ OpenSettings(PausedBehind(screen)) /\ UNCHANGED <<vars, active, closed>>

Exit(key) ==
    /\ Input /\ key = "Escape" /\ screen \in {"Briefing", "Result"}
    /\ closed' = TRUE /\ UNCHANGED <<vars, screens, active>>

(* The demo asks the match whether a request would be obeyed now, submits   *)
(* it for the current tick and acknowledges it. ArcPulse is not asked about.*)
Acknowledges(request) ==
    CASE request.kind = "BuildStructure" ->
            CanBuildStructure(match, request.node, request.structure)
      [] request.kind = "ProduceUnit" -> CanProduceUnit(match, request.unit)
      [] request.kind = "ActivateAbility" -> CanActivateAbility(match, request.ability)
      [] OTHER -> ~match.paused

GameplayAction(request) ==
    /\ Input /\ screen = "Playing"
    /\ Acknowledges(request) /\ Submit(request, 0)
    /\ UNCHANGED <<screens, active, closed>>

-----------------------------------------------------------------------------
(* InterfaceState::HandleSettingsInput; values and rows are left out        *)

CaptureBinding(key) ==
    /\ Input /\ screen = "Settings" /\ ~capturingBinding /\ key = "Enter"
    /\ capturingBinding' = TRUE
    /\ UNCHANGED <<vars, screen, settingsReturnScreen, active, closed>>

(* Any input ends the capture, Escape without a new binding.                *)
EndCapture(key) ==
    /\ Input /\ screen = "Settings" /\ capturingBinding
    /\ capturingBinding' = FALSE
    /\ UNCHANGED <<vars, screen, settingsReturnScreen, active, closed>>

LeaveSettings(key) ==
    /\ Input /\ screen = "Settings" /\ ~capturingBinding /\ key = "Escape"
    /\ Show(settingsReturnScreen) /\ UNCHANGED <<vars, active, closed>>

-----------------------------------------------------------------------------
(* The window and the clock *)

(* WM_ACTIVATEAPP: losing the focus is Escape to a match that is played.    *)
IgnoreFocus(s) == s                          \* mutant: plays on unwatched
WithoutFocus(s) == IF s = "Playing" THEN "Pause" ELSE s

LoseFocus ==
    /\ Handling /\ active
    /\ active' = FALSE /\ Show(WithoutFocus(screen)) /\ UNCHANGED <<vars, closed>>

GainFocus ==
    /\ Handling /\ ~active
    /\ active' = TRUE /\ UNCHANGED <<vars, screens, closed>>

CloseWindow ==
    /\ Handling /\ closed' = TRUE /\ UNCHANGED <<vars, screens, active>>

AdvancesSimulation == screen = "Playing"

DemoBeginStep ==
    /\ Handling /\ AdvancesSimulation
    /\ BeginStep /\ UNCHANGED <<screens, active, closed>>

DemoCommand == ExecuteCommand /\ UNCHANGED <<screens, active, closed>>

SyncBeforeTick == IF match.outcome # "InProgress" THEN "Result" ELSE screen \* mutant: stale outcome
SyncOutcome ==
    IF match'.outcome # "InProgress" /\ screen # "Settings" THEN "Result" ELSE screen

(* UpdatePrototype shows the outcome after every step.                      *)
DemoEndStep ==
    /\ EndStep \/ Tick
    /\ screen' = SyncOutcome
    /\ capturingBinding' = IF screen' # screen THEN FALSE ELSE capturingBinding
    /\ UNCHANGED <<settingsReturnScreen, active, closed>>

DemoNext ==
    \/ \E key \in Keys :
          \/ BeginMatch(key) \/ RestartMatch(key) \/ PauseMatch(key) \/ ResumeMatch(key)
          \/ EnterSettings(key) \/ Exit(key)
          \/ CaptureBinding(key) \/ EndCapture(key) \/ LeaveSettings(key)
    \/ \E request \in Requests : GameplayAction(request)
    \/ LoseFocus \/ GainFocus \/ CloseWindow
    \/ DemoBeginStep \/ DemoCommand \/ DemoEndStep

DemoSpec == DemoInit /\ [][DemoNext]_demoVars

-----------------------------------------------------------------------------
(* Properties *)

(* SyncOutcome: between two steps the result is on the screen, or behind    *)
(* the settings, exactly when the match is decided.                         *)
ResultShown ==
    ~stepping => (match.outcome # "InProgress" <=>
                     \/ screen = "Result"
                     \/ screen = "Settings" /\ settingsReturnScreen = "Result")

(* In the demo a Spire that fell to a pulse has won the match by the end of *)
(* the step: nothing can pause in between, as a TogglePause command could.  *)
DecidedByEndOfStep ==
    ~stepping /\ "ChorusSpire" \notin match.standing => match.outcome = "Victory"

(* README: losing window focus enters the pause screen. The match is not    *)
(* played without the focus, whatever was on the screen.                    *)
StoppedWithoutFocus == ~active => screen # "Playing"

=============================================================================
