----------------------------- MODULE LightSwitch -----------------------------
(***************************************************************************)
(* The wall switch once it has joined a network (boot in station mode):    *)
(* the push button that drives the lamp and counts clicks, the web pages   *)
(* that force the lamp off, and the three one-shot software timers behind  *)
(* them.                                                                   *)
(*                                                                         *)
(* Three tasks of a single core meet here, in this order of priority:      *)
(*   - the esp_timer task runs the button callbacks,                       *)
(*   - the httpd task runs the HTTP handlers,                              *)
(*   - the FreeRTOS timer service task executes timer commands and expiry  *)
(*     callbacks; any step of it can be preempted by the other two.        *)
(* xTimerReset and xTimerStop only append a command to the service's queue *)
(* and, called with portMAX_DELAY, wait for room in it.                    *)
(***************************************************************************)
EXTENDS Integers, Sequences

CONSTANTS
  QueueLength,    \* slots of the timer command queue (10 in the build)
  RestartClicks,  \* releases that select the access-point mode (8 in the code)
  FactoryClicks,  \* releases that reset the device (16 in the code)
  CountModulus,   \* the counter is a uint8_t: 256 in the code
  SseMiddle,      \* the datum whose poll restarts the session timer (6)
  SseEnd,         \* the datum that wraps to 0 and restarts it too (10)
  NvsFails        \* whether NVS may refuse to be opened, written or committed

ASSUME LightSwitchAssumption ==
  /\ QueueLength \in Nat \ {0}
  /\ RestartClicks \in Nat \ {0}
  /\ FactoryClicks \in Nat
  /\ RestartClicks < FactoryClicks
  /\ CountModulus \in Nat
  /\ FactoryClicks < CountModulus
  /\ SseMiddle \in Nat \ {0}
  /\ SseEnd \in Nat
  /\ SseMiddle <= SseEnd
  /\ NvsFails \in BOOLEAN

Timers == {"detectIR", "clicks", "session"}

VARIABLES
  light,     \* level of CONFIG_Lights_GPIO
  Turn_off,  \* the driver's idea of it: TRUE after a press that turned it on
  pressed,   \* whether the button is held down
  btn,       \* where the button callback stands
  perform_factory_reset,
  count,     \* BUTTON_DOUBLE_CLICK_count, a uint8_t
  mode,      \* wifi_mode in NVS
  factory,   \* a factory reset is under way in the Matter task
  sse_id,
  http,      \* where the HTTP handler stands
  armed,     \* the running timers
  queue,     \* the timer command queue
  svc,       \* where the timer service stands
  firing,    \* the timer whose callback the service runs (none: detectIR)
  up,        \* the switch services run (FALSE: restarting, or another mode)
  late,      \* history: a click that reached RestartClicks was wiped
  refused    \* history: the mode lacks a save that NVS refused

history == <<late, refused>>
button  == <<pressed, btn, perform_factory_reset, count, mode, factory, history>>
web     == <<sse_id, http>>
service == <<armed, svc, firing>>
vars    == <<light, Turn_off, button, web, service, queue, up>>

Command == [cmd : {"reset", "stop"}, timer : Timers]

TypeOK ==
  /\ light \in {0, 1}
  /\ Turn_off \in BOOLEAN
  /\ pressed \in BOOLEAN
  /\ btn \in {"idle", "resetLight", "command", "resetClicks",
               "saveMode", "saveErase", "erase"}
  /\ perform_factory_reset \in BOOLEAN
  /\ count \in 0..(CountModulus - 1)
  /\ mode \in {"STA", "AP"}
  /\ factory \in BOOLEAN
  /\ sse_id \in 0..SseEnd
  /\ http \in {"idle", "resetSession"}
  /\ armed \in SUBSET Timers
  /\ queue \in Seq(Command)
  /\ Len(queue) <= QueueLength
  /\ svc \in {"idle", "stop", "act", "clear"}
  /\ firing \in Timers
  /\ up \in BOOLEAN
  /\ late \in BOOLEAN
  /\ refused \in BOOLEAN

(***************************************************************************)
(* Scheduling: the lower task runs only while every higher one waits.      *)
(***************************************************************************)
Full == Len(queue) = QueueLength

ButtonRuns == btn \in {"resetLight", "resetClicks"} /\ ~Full
HttpRuns   == http = "resetSession" /\ ~Full

ButtonTurn  == up
HttpTurn    == up /\ ~ButtonRuns
ServiceTurn == up /\ ~ButtonRuns /\ ~HttpRuns

\* Faulty variant: xTimerReset and xTimerStop called without waiting.
SendNoWait(c, t) ==
  queue' = IF Full THEN queue ELSE Append(queue, [cmd |-> c, timer |-> t])

Send(c, t) ==
  /\ ~Full
  /\ queue' = Append(queue, [cmd |-> c, timer |-> t])

(***************************************************************************)
(* The button.                                                             *)
(***************************************************************************)

\* app_driver_button_toggle_cb up to its xTimerReset.
PressDown ==
  /\ ButtonTurn
  /\ btn = "idle" /\ ~pressed
  /\ pressed' = TRUE
  /\ Turn_off' = ~Turn_off
  /\ light' = IF Turn_off THEN 0 ELSE 1
  /\ btn' = "resetLight"
  /\ UNCHANGED <<perform_factory_reset, count, mode, factory, history,
                 web, service, queue, up>>

\* Faulty variant: only the branch that turns the lamp off restarts the timer.
RestartAutoOffWhenOff ==
  /\ ButtonTurn
  /\ btn = "resetLight"
  /\ IF Turn_off THEN UNCHANGED queue ELSE Send("reset", "detectIR")
  /\ btn' = "command"
  /\ UNCHANGED <<light, Turn_off, pressed, perform_factory_reset, count, mode,
                 factory, history, web, service, up>>

\* Both branches of the callback restart the auto-off timer.
RestartAutoOff ==
  /\ ButtonTurn
  /\ btn = "resetLight"
  /\ Send("reset", "detectIR")
  /\ btn' = "command"
  /\ UNCHANGED <<light, Turn_off, pressed, perform_factory_reset, count, mode,
                 factory, history, web, service, up>>

\* The Toggle command to the bound devices, under the Matter stack's lock;
\* another task may hold the lock, so the callback can wait here.
UpdateBoundDevices ==
  /\ ButtonTurn
  /\ btn = "command"
  /\ btn' = "idle"
  /\ UNCHANGED <<light, Turn_off, pressed, perform_factory_reset, count, mode,
                 factory, history, web, service, queue, up>>

HoldDown ==
  /\ ButtonTurn
  /\ btn = "idle" /\ pressed
  /\ ~perform_factory_reset
  /\ perform_factory_reset' = TRUE
  /\ UNCHANGED <<light, Turn_off, pressed, btn, count, mode, factory, history,
                 web, service, queue, up>>

\* button_factory_reset_released_cb up to its xTimerReset.
Release ==
  /\ ButtonTurn
  /\ btn = "idle" /\ pressed
  /\ pressed' = FALSE
  /\ btn' = "resetClicks"
  /\ UNCHANGED <<light, Turn_off, perform_factory_reset, count, mode, factory,
                 history, web, service, queue, up>>

\* Which release saves access-point mode; the faulty variant is one late.
SavesModeLate(n) == n = RestartClicks + 1

SavesMode(n) == n = RestartClicks

\* Which release resets the device.
Erases(n) == n >= FactoryClicks \/ perform_factory_reset

\* The rest of that callback up to its first access to flash.
CountClick ==
  /\ ButtonTurn
  /\ btn = "resetClicks"
  /\ Send("reset", "clicks")
  /\ LET n == (count + 1) % CountModulus
     IN  /\ count' = n
         /\ btn' = CASE SavesMode(n) -> "saveMode"
                     [] Erases(n) /\ ~SavesMode(n) -> "saveErase"
                     [] OTHER -> "idle"
         /\ late' = (late \/ (n = RestartClicks /\ svc = "clear" /\ firing = "clicks"))
  /\ UNCHANGED <<light, Turn_off, pressed, perform_factory_reset, mode, factory,
                 refused, web, service, up>>

\* WIFI_Mode_Save(WIFI_MODE_AP) ignores what NVS answers.  It waits for the
\* flash and for the lock of NVS, so that any lower task can run before it.
WIFI_Mode_Save ==
  \/ mode' = "AP" /\ refused' = FALSE
  \/ NvsFails /\ refused' = (mode = "STA") /\ UNCHANGED mode

SaveMode ==
  /\ ButtonTurn
  /\ btn = "saveMode"
  /\ WIFI_Mode_Save
  /\ btn' = IF perform_factory_reset THEN "saveErase" ELSE "idle"
  /\ UNCHANGED <<light, Turn_off, pressed, perform_factory_reset, count, factory,
                 late, web, service, queue, up>>

SaveBeforeErase ==
  /\ ButtonTurn
  /\ btn = "saveErase"
  /\ WIFI_Mode_Save
  /\ btn' = "erase"
  /\ UNCHANGED <<light, Turn_off, pressed, perform_factory_reset, count, factory,
                 late, web, service, queue, up>>

Erase ==
  /\ ButtonTurn
  /\ btn = "erase"
  /\ factory' = TRUE
  /\ perform_factory_reset' = FALSE
  /\ btn' = "idle"
  /\ UNCHANGED <<light, Turn_off, pressed, count, mode, history, web, service,
                 queue, up>>

(***************************************************************************)
(* The web server.                                                         *)
(***************************************************************************)

\* OTA_index_html_handler and download_get_handler.  The bit that they set
\* besides, and that the session timer clears, is read by dead code only.
OpenPage ==
  /\ HttpTurn
  /\ http = "idle"
  /\ light' = 0
  /\ UNCHANGED <<Turn_off, button, web, service, queue, up>>

\* McuToHtml_handler: every poll sends the next datum; two of the data first
\* restart the session timer.
RestartsSession(id) == id = SseMiddle \/ id \notin 1..(SseEnd - 1)

\* Faulty variant: the datum index never wraps.
NextSseIdNoWrap(id) == id + 1

NextSseId(id) == IF id \in 1..(SseEnd - 1) THEN id + 1 ELSE 1

Poll ==
  /\ HttpTurn
  /\ http = "idle"
  /\ IF RestartsSession(sse_id)
     THEN http' = "resetSession" /\ UNCHANGED sse_id
     ELSE sse_id' = NextSseId(sse_id) /\ UNCHANGED http
  /\ UNCHANGED <<light, Turn_off, button, service, queue, up>>

RestartSession ==
  /\ HttpTurn
  /\ http = "resetSession"
  /\ Send("reset", "session")
  /\ sse_id' = NextSseId(sse_id)
  /\ http' = "idle"
  /\ UNCHANGED <<light, Turn_off, button, service, up>>

(***************************************************************************)
(* The timer service task of FreeRTOS and the three expiry callbacks.      *)
(***************************************************************************)
Fire(t) == svc' = "stop" /\ firing' = t

Return == svc' = "idle" /\ firing' = "detectIR"

Expire(t) ==
  /\ ServiceTurn
  /\ svc = "idle"
  /\ t \in armed
  /\ armed' = armed \ {t}
  /\ Fire(t)
  /\ UNCHANGED <<light, Turn_off, button, web, queue, up>>

\* The oldest command is executed.  A reset whose whole period has gone by
\* before it is executed runs the callback at once.
Execute ==
  /\ ServiceTurn
  /\ svc = "idle"
  /\ queue # <<>>
  /\ queue' = Tail(queue)
  /\ LET t == Head(queue).timer
     IN  \/ /\ Head(queue).cmd = "stop"
            /\ armed' = armed \ {t}
            /\ UNCHANGED <<svc, firing>>
         \/ /\ Head(queue).cmd = "reset"
            /\ armed' = armed \union {t}
            /\ UNCHANGED <<svc, firing>>
         \/ /\ Head(queue).cmd = "reset"
            /\ armed' = armed \ {t}
            /\ Fire(t)
  /\ UNCHANGED <<light, Turn_off, button, web, up>>

\* Each callback starts with xTimerStop(..., portMAX_DELAY): the service task
\* waits for room in the queue that only it empties.
StopOwnTimer ==
  /\ ServiceTurn
  /\ svc = "stop"
  /\ Send("stop", firing)
  /\ svc' = "act"
  /\ UNCHANGED <<light, Turn_off, button, web, armed, firing, up>>

\* vdetectIR_TimersCallback: first the pin, then the flag.
AutoOffPin ==
  /\ ServiceTurn
  /\ svc = "act" /\ firing = "detectIR"
  /\ light' = 0
  /\ svc' = "clear"
  /\ UNCHANGED <<Turn_off, button, web, armed, firing, queue, up>>

\* Faulty variant: the callback stops its timer once more, at its end.
AutoOffFlagStopLast ==
  /\ ServiceTurn
  /\ svc = "clear" /\ firing = "detectIR"
  /\ Send("stop", "detectIR")
  /\ Turn_off' = FALSE
  /\ Return
  /\ UNCHANGED <<light, button, web, armed, up>>

AutoOffFlag ==
  /\ ServiceTurn
  /\ svc = "clear" /\ firing = "detectIR"
  /\ Turn_off' = FALSE
  /\ Return
  /\ UNCHANGED <<light, button, web, armed, queue, up>>

\* vQuitTimersCallback of OTAServer.c.
EndSession ==
  /\ ServiceTurn
  /\ svc = "act" /\ firing = "session"
  /\ Return
  /\ UNCHANGED <<light, Turn_off, button, web, armed, queue, up>>

\* Faulty variant: the callback wants one click more than the release saved.
KeepRunningOffByOne ==
  /\ ServiceTurn
  /\ svc = "act" /\ firing = "clicks"
  /\ count <= RestartClicks
  /\ svc' = "clear"
  /\ UNCHANGED <<light, Turn_off, button, web, armed, firing, queue, up>>

\* vQuitTimersCallback of app_reset.cpp: the check, and then the clearing.
KeepRunning ==
  /\ ServiceTurn
  /\ svc = "act" /\ firing = "clicks"
  /\ count < RestartClicks
  /\ svc' = "clear"
  /\ UNCHANGED <<light, Turn_off, button, web, armed, firing, queue, up>>

\* Faulty variant: the count is not cleared.
ForgetClicksNot ==
  /\ ServiceTurn
  /\ svc = "clear" /\ firing = "clicks"
  /\ Return
  /\ UNCHANGED <<light, Turn_off, button, web, armed, queue, up>>

ForgetClicks ==
  /\ ServiceTurn
  /\ svc = "clear" /\ firing = "clicks"
  /\ count' = 0 /\ refused' = FALSE
  /\ Return
  /\ UNCHANGED <<light, Turn_off, pressed, btn, perform_factory_reset, mode,
                 factory, late, web, armed, queue, up>>

(***************************************************************************)
(* Restarts: all of RAM and the pin are lost, NVS is kept.                 *)
(***************************************************************************)
Halt ==
  /\ up' = FALSE
  /\ light' = 0 /\ Turn_off' = FALSE
  /\ pressed' = FALSE /\ btn' = "idle"
  /\ perform_factory_reset' = FALSE /\ count' = 0
  /\ factory' = FALSE /\ late' = FALSE /\ refused' = FALSE
  /\ sse_id' = 0 /\ http' = "idle"
  /\ armed' = {} /\ queue' = <<>>
  /\ svc' = "idle" /\ firing' = "detectIR"
  /\ UNCHANGED mode

ClickRestart ==
  /\ ServiceTurn
  /\ svc = "act" /\ firing = "clicks"
  /\ count >= RestartClicks
  /\ Halt

FactoryRestart == up /\ factory /\ Halt

PowerLoss == up /\ Halt

\* Only the station mode starts the switch; in access-point mode the device
\* waits for credentials (module WifiProvisioning).
Boot ==
  /\ ~up /\ mode = "STA"
  /\ up' = TRUE
  /\ UNCHANGED <<light, Turn_off, button, web, service, queue>>

Init ==
  /\ up = TRUE /\ mode = "STA"
  /\ light = 0 /\ Turn_off = FALSE
  /\ pressed = FALSE /\ btn = "idle"
  /\ perform_factory_reset = FALSE /\ count = 0
  /\ factory = FALSE /\ late = FALSE /\ refused = FALSE
  /\ sse_id = 0 /\ http = "idle"
  /\ armed = {} /\ queue = <<>>
  /\ svc = "idle" /\ firing = "detectIR"

ButtonStep  ==
  \/ RestartAutoOff \/ UpdateBoundDevices
  \/ CountClick \/ SaveMode \/ SaveBeforeErase \/ Erase
ServiceStep ==
  \/ Execute \/ StopOwnTimer
  \/ AutoOffPin \/ AutoOffFlag \/ EndSession \/ KeepRunning \/ ForgetClicks
  \/ ClickRestart

Next ==
  \/ PressDown \/ HoldDown \/ Release \/ ButtonStep
  \/ OpenPage \/ Poll \/ RestartSession
  \/ \E t \in Timers : Expire(t)
  \/ ServiceStep
  \/ FactoryRestart \/ PowerLoss \/ Boot

Spec == Init /\ [][Next]_vars

(***************************************************************************)
(* A handler that runs goes on, the tasks above the timer service are idle *)
(* time and again (the button is sampled every few milliseconds, a page    *)
(* polls every second), and a running timer comes due.                     *)
(***************************************************************************)
Fairness ==
  /\ WF_vars(ButtonStep)
  /\ WF_vars(RestartSession)
  /\ SF_vars(ServiceStep)
  /\ \A t \in Timers : SF_vars(Expire(t))
  /\ WF_vars(FactoryRestart)

FairSpec == Spec /\ Fairness

------------------------------------------------------------------------------
(***************************************************************************)
(* What the switch promises.                                               *)
(***************************************************************************)

\* Timer t will fire without another reset: it runs and no command for it is
\* queued, or the last command queued for it is a reset.
WillFire(t) ==
  \/ /\ t \in armed
     /\ \A i \in 1..Len(queue) : queue[i].timer # t
  \/ \E i \in 1..Len(queue) :
       /\ queue[i].cmd = "reset" /\ queue[i].timer = t
       /\ \A j \in (i + 1)..Len(queue) : queue[j].timer # t

\* A lamp that is on is never without a pending auto-off, whatever the order
\* of presses, expiries and queued commands: the timer will fire, the press
\* that lit it is about to restart the timer, or its callback has still to
\* pull the pin low.
LampIsTimed ==
  light = 1 => \/ WillFire("detectIR")
               \/ btn = "resetLight"
               \/ firing = "detectIR" /\ svc \in {"stop", "act"}

\* No clicks are left over: a nonzero click count is always going to be
\* examined, or cleared, by the one-second timer of app_reset.cpp.
ClicksAreTimed ==
  count > 0 => \/ WillFire("clicks")
               \/ firing = "clicks" /\ svc \in {"stop", "act", "clear"}

\* The timer's callback restarts on count >= 8 while the mode is saved on
\* count == 8 only, and after the count has changed.  A restart by clicks comes
\* up in access-point mode all the same, but for two cases: NVS refused the
\* save, or the callback runs while the release that counted the decisive click
\* still waits for the flash.
RestartMeansAP ==
  count >= RestartClicks /\ ~refused => mode = "AP" \/ btn = "saveMode"

\* Once access-point mode is saved the device is on its way to a restart; the
\* one exception is the release that arrives between the timer callback's
\* check and its clearing of the count.
SavedModeApplies ==
  mode = "AP" /\ up =>
    count >= RestartClicks \/ factory \/ btn = "erase" \/ late

\* Why the last two hold, and what makes them inductive: a factory reset is
\* under way as soon as the count reaches FactoryClicks, and the callback
\* clears a decisive count only after a late release.
DecisiveClicks ==
  /\ count >= FactoryClicks => factory \/ btn \in {"saveErase", "erase"}
  /\ svc = "clear" /\ firing = "clicks" /\ count >= RestartClicks => late
  /\ btn = "saveMode" => count >= RestartClicks \/ late

SelfWait == svc = "stop" /\ Full

\* A timer service that waits for room in its own queue never gets it: only a
\* restart ends the wait.
SelfWaitIsFinal == [][SelfWait => SelfWait' \/ ~up']_vars

\* The lamp never stays on: it goes off, unless the timer service has come to
\* wait for itself.
LampGoesOff == light = 1 ~> light = 0 \/ SelfWait

\* Every series of clicks is decided: by a restart or by forgetting it.
ClicksDecided == count > 0 ~> count = 0 \/ SelfWait
==============================================================================
