-------------------------- MODULE LightSwitchProofs --------------------------
(***************************************************************************)
(* Proofs, for every queue length and every click threshold, of the safety *)
(* properties of LightSwitch.                                              *)
(***************************************************************************)
EXTENDS LightSwitch, TLAPS

(***************************************************************************)
(* How the command queue changes what a timer will do.                     *)
(***************************************************************************)

\* A reset that has been sent makes its timer fire; a command for another
\* timer takes nothing away.
LEMMA SendWillFire ==
  ASSUME NEW c, NEW t \in Timers, NEW u \in Timers,
         queue \in Seq(Command), c \in {"reset", "stop"},
         Send(c, t), armed' = armed
  PROVE  /\ u = t /\ c = "reset" => WillFire(u)'
         /\ u # t /\ WillFire(u) => WillFire(u)'
<1> DEFINE q == Append(queue, [cmd |-> c, timer |-> t])
<1>1. /\ queue' = q
      /\ Len(q) = Len(queue) + 1
      /\ Len(queue) \in Nat
      /\ q[Len(queue) + 1] = [cmd |-> c, timer |-> t]
      /\ \A i \in 1..Len(queue) : q[i] = queue[i]
  BY DEF Send, Command, Full
<1>2. u = t /\ c = "reset" => WillFire(u)'
  <2> SUFFICES ASSUME u = t, c = "reset" PROVE WillFire(u)'
    OBVIOUS
  <2>1. Len(queue) + 1 \in 1..Len(queue')
    BY <1>1
  <2>2. /\ queue'[Len(queue) + 1].cmd = "reset"
        /\ queue'[Len(queue) + 1].timer = u
    BY <1>1
  <2>3. \A j \in (Len(queue) + 1 + 1)..Len(queue') : queue'[j].timer # u
    BY <1>1
  <2> QED BY <2>1, <2>2, <2>3 DEF WillFire
<1>3. u # t /\ WillFire(u) => WillFire(u)'
  <2> SUFFICES ASSUME u # t, WillFire(u) PROVE WillFire(u)'
    OBVIOUS
  <2>1. q[Len(queue) + 1].timer # u
    BY <1>1
  <2>2. CASE u \in armed /\ \A i \in 1..Len(queue) : queue[i].timer # u
    <3>1. \A i \in 1..Len(q) : q[i].timer # u
      BY <1>1, <2>1, <2>2
    <3> QED BY <3>1, <1>1, <2>2 DEF WillFire
  <2>3. CASE \E i \in 1..Len(queue) :
               /\ queue[i].cmd = "reset" /\ queue[i].timer = u
               /\ \A j \in (i + 1)..Len(queue) : queue[j].timer # u
    <3>1. PICK i \in 1..Len(queue) :
               /\ queue[i].cmd = "reset" /\ queue[i].timer = u
               /\ \A j \in (i + 1)..Len(queue) : queue[j].timer # u
      BY <2>3
    <3>2. i \in 1..Len(q) /\ q[i].cmd = "reset" /\ q[i].timer = u
      BY <1>1, <3>1
    <3>3. \A j \in (i + 1)..Len(q) : q[j].timer # u
      BY <1>1, <2>1, <3>1
    <3> QED BY <1>1, <3>2, <3>3 DEF WillFire
  <2> QED BY <2>2, <2>3 DEF WillFire
<1> QED BY <1>2, <1>3

\* Executing the oldest command keeps every other promise, and keeps or cashes
\* in the promise of the timer it is for.
LEMMA ExecuteWillFire ==
  ASSUME NEW u \in Timers, TypeOK, Execute, WillFire(u)
  PROVE  WillFire(u)' \/ (svc' = "stop" /\ firing' = u)
<1> DEFINE h == Head(queue)
<1>1. /\ queue' = Tail(queue)
      /\ queue # <<>>
      /\ queue \in Seq(Command)
      /\ h = queue[1]
      /\ Len(queue) \in Nat /\ Len(queue) >= 1
      /\ Len(queue') = Len(queue) - 1
      /\ \A i \in 1..Len(queue') : queue'[i] = queue[i + 1]
  BY DEF Execute, TypeOK
<1>2. CASE u \in armed /\ \A i \in 1..Len(queue) : queue[i].timer # u
  <2>1. h.timer # u
    BY <1>1, <1>2
  <2>2. u \in armed'
    BY <1>2, <2>1 DEF Execute
  <2>3. \A i \in 1..Len(queue') : queue'[i].timer # u
    BY <1>1, <1>2
  <2> QED BY <2>2, <2>3 DEF WillFire
<1>3. CASE \E i \in 1..Len(queue) :
             /\ queue[i].cmd = "reset" /\ queue[i].timer = u
             /\ \A j \in (i + 1)..Len(queue) : queue[j].timer # u
  <2>1. PICK i \in 1..Len(queue) :
             /\ queue[i].cmd = "reset" /\ queue[i].timer = u
             /\ \A j \in (i + 1)..Len(queue) : queue[j].timer # u
    BY <1>3
  <2>2. CASE i = 1
    <3>1. h.cmd = "reset" /\ h.timer = u
      BY <1>1, <2>1, <2>2
    <3>2. \A k \in 1..Len(queue') : queue'[k].timer # u
      BY <1>1, <2>1, <2>2
    <3>3. u \in armed' \/ (svc' = "stop" /\ firing' = u)
      BY <3>1 DEF Execute, Fire
    <3> QED BY <3>2, <3>3 DEF WillFire
  <2>3. CASE i # 1
    <3>1. /\ i - 1 \in 1..Len(queue')
          /\ queue'[i - 1].cmd = "reset" /\ queue'[i - 1].timer = u
      BY <1>1, <2>1, <2>3
    <3>2. \A j \in (i - 1 + 1)..Len(queue') : queue'[j].timer # u
      BY <1>1, <2>1, <2>3
    <3> QED BY <3>1, <3>2 DEF WillFire
  <2> QED BY <2>2, <2>3
<1> QED BY <1>2, <1>3 DEF WillFire

\* An expiry uses up the promise of one timer only.
LEMMA ExpireWillFire ==
  ASSUME NEW t \in Timers, NEW u \in Timers, Expire(t), WillFire(u)
  PROVE  WillFire(u)' \/ (svc' = "stop" /\ firing' = u)
BY DEF Expire, Fire, WillFire

\* A step that touches neither the queue nor the running timers.
LEMMA SameWillFire ==
  ASSUME NEW u \in Timers, UNCHANGED <<queue, armed>>
  PROVE  WillFire(u)' <=> WillFire(u)
BY DEF WillFire

\* The next value of the click counter.
LEMMA NextCount ==
  ASSUME NEW n \in 0..(CountModulus - 1)
  PROVE  (n + 1) % CountModulus = IF n + 1 = CountModulus THEN 0 ELSE n + 1
BY LightSwitchAssumption

(***************************************************************************)
(* Type correctness.                                                       *)
(***************************************************************************)
LEMMA SendTyped ==
  ASSUME TypeOK, NEW c \in {"reset", "stop"}, NEW t \in Timers, Send(c, t)
  PROVE  queue' \in Seq(Command) /\ Len(queue') <= QueueLength
<1>1. [cmd |-> c, timer |-> t] \in Command
  BY DEF Command
<1>2. Len(queue) <= QueueLength /\ Len(queue) # QueueLength
  BY DEF TypeOK, Send, Full
<1> QED BY <1>1, <1>2, LightSwitchAssumption DEF TypeOK, Send

LEMMA InitTyped == Init => TypeOK
<1> SUFFICES ASSUME Init PROVE TypeOK
  OBVIOUS
<1>1. queue \in Seq(Command) /\ Len(queue) <= QueueLength
  BY LightSwitchAssumption DEF Init
<1>2. 0 \in 0..(CountModulus - 1) /\ 0 \in 0..SseEnd
  BY LightSwitchAssumption
<1> QED BY <1>1, <1>2 DEF Init, TypeOK, Timers

LEMMA NextTyped == TypeOK /\ [Next]_vars => TypeOK'
<1> SUFFICES ASSUME TypeOK, [Next]_vars PROVE TypeOK'
  OBVIOUS
<1> USE DEF TypeOK, Timers
<1>1. CASE PressDown
  <2>1. light' \in {0, 1}
    BY <1>1 DEF PressDown
  <2>2. Turn_off' \in BOOLEAN
    BY <1>1 DEF PressDown
  <2>3. /\ pressed' = TRUE /\ btn' = "resetLight"
        /\ UNCHANGED <<perform_factory_reset, count, mode, factory, late, refused,
                       sse_id, http, armed, svc, firing, queue, up>>
    BY <1>1 DEF PressDown, web, service, history
  <2> QED BY <2>1, <2>2, <2>3
<1>2. CASE HoldDown
  BY <1>2 DEF HoldDown, web, service, history
<1>3. CASE Release
  <2>1. /\ pressed' = FALSE /\ btn' = "resetClicks"
        /\ UNCHANGED <<light, Turn_off, perform_factory_reset, count, mode, factory,
                       late, refused, sse_id, http, armed, svc, firing, queue, up>>
    BY <1>3 DEF Release, web, service, history
  <2>2. pressed' \in BOOLEAN /\ light' \in {0, 1} /\ Turn_off' \in BOOLEAN
    BY <2>1
  <2> QED BY <2>1, <2>2
<1>4. CASE RestartAutoOff
  <2>1. queue' \in Seq(Command) /\ Len(queue') <= QueueLength
    BY <1>4, SendTyped DEF RestartAutoOff
  <2> QED BY <1>4, <2>1 DEF RestartAutoOff, web, service, history
<1>5. CASE UpdateBoundDevices
  BY <1>5 DEF UpdateBoundDevices, web, service, history
<1>6. CASE CountClick
  <2>1. queue' \in Seq(Command) /\ Len(queue') <= QueueLength
    BY <1>6, SendTyped DEF CountClick
  <2>2. count' \in 0..(CountModulus - 1)
    BY <1>6, NextCount, LightSwitchAssumption DEF CountClick
  <2>3. btn' \in {"saveMode", "saveErase", "idle"}
    BY <1>6 DEF CountClick
  <2>4. late' \in BOOLEAN
    BY <1>6 DEF CountClick
  <2>5. UNCHANGED <<light, Turn_off, pressed, perform_factory_reset, mode, factory,
                    refused, sse_id, http, armed, svc, firing, up>>
    BY <1>6 DEF CountClick, web, service
  <2> QED BY <2>1, <2>2, <2>3, <2>4, <2>5
<1>21. CASE SaveMode \/ SaveBeforeErase
  <2>1. mode' \in {"STA", "AP"} /\ refused' \in BOOLEAN
    BY <1>21 DEF SaveMode, SaveBeforeErase, WIFI_Mode_Save
  <2>2. btn' \in {"saveErase", "erase", "idle"}
    BY <1>21 DEF SaveMode, SaveBeforeErase
  <2>3. UNCHANGED <<light, Turn_off, pressed, perform_factory_reset, count, factory,
                    late, sse_id, http, armed, svc, firing, queue, up>>
    BY <1>21 DEF SaveMode, SaveBeforeErase, web, service
  <2> QED BY <2>1, <2>2, <2>3
<1>22. CASE Erase
  <2>1. factory' = TRUE /\ perform_factory_reset' = FALSE /\ btn' = "idle"
    BY <1>22 DEF Erase
  <2>2. UNCHANGED <<light, Turn_off, pressed, count, mode, late, refused, sse_id, http,
                    armed, svc, firing, queue, up>>
    BY <1>22 DEF Erase, web, service, history
  <2>3. factory' \in BOOLEAN /\ perform_factory_reset' \in BOOLEAN
    BY <2>1
  <2> QED BY <2>1, <2>2, <2>3
<1>7. CASE OpenPage
  BY <1>7 DEF OpenPage, button, web, service, history
<1>8. CASE Poll
  BY <1>8, LightSwitchAssumption DEF Poll, NextSseId, button, service, history
<1>9. CASE RestartSession
  <2>1. queue' \in Seq(Command) /\ Len(queue') <= QueueLength
    BY <1>9, SendTyped DEF RestartSession
  <2> QED BY <1>9, <2>1, LightSwitchAssumption
          DEF RestartSession, NextSseId, button, service, history
<1>10. ASSUME NEW t \in Timers, Expire(t) PROVE TypeOK'
  BY <1>10 DEF Expire, Fire, button, web, history
<1>11. CASE Execute
  <2> DEFINE S == Command
  <2>1. /\ queue \in Seq(S) /\ queue # <<>> /\ queue' = Tail(queue)
        /\ Len(queue) <= QueueLength
    BY <1>11 DEF Execute
  <2>2. Head(queue) \in S
    <3> HIDE DEF S
    <3> QED BY <2>1
  <2>3. queue' \in Seq(S) /\ Len(queue') <= QueueLength
    <3> HIDE DEF S
    <3> QED BY <2>1, LightSwitchAssumption
  <2>4. Head(queue).timer \in Timers
    BY <2>2 DEF Command
  <2>5. armed' \in SUBSET Timers /\ svc' \in {"idle", "stop"} /\ firing' \in Timers
    BY <1>11, <2>4 DEF Execute, Fire
  <2> QED BY <1>11, <2>3, <2>5 DEF Execute, button, web, history
<1>12. CASE StopOwnTimer
  <2>1. queue' \in Seq(Command) /\ Len(queue') <= QueueLength
    BY <1>12, SendTyped DEF StopOwnTimer
  <2> QED BY <1>12, <2>1 DEF StopOwnTimer, button, web, history
<1>13. CASE AutoOffPin
  BY <1>13 DEF AutoOffPin, button, web, history
<1>14. CASE AutoOffFlag
  <2>1. Turn_off' = FALSE /\ svc' = "idle" /\ firing' = "detectIR"
    BY <1>14 DEF AutoOffFlag, Return
  <2>2. UNCHANGED <<light, pressed, btn, perform_factory_reset, count, mode, factory, late,
                    refused, sse_id, http, armed, queue, up>>
    BY <1>14 DEF AutoOffFlag, button, web, history
  <2>3. Turn_off' \in BOOLEAN
    BY <2>1
  <2> QED BY <2>1, <2>2, <2>3
<1>15. CASE EndSession
  BY <1>15 DEF EndSession, Return, button, web, history
<1>16. CASE KeepRunning
  BY <1>16 DEF KeepRunning, button, web, history
<1>17. CASE ForgetClicks
  <2>1. count' = 0 /\ refused' = FALSE /\ svc' = "idle" /\ firing' = "detectIR"
    BY <1>17 DEF ForgetClicks, Return
  <2>2. UNCHANGED <<light, Turn_off, pressed, btn, perform_factory_reset, mode, factory,
                    late, sse_id, http, armed, queue, up>>
    BY <1>17 DEF ForgetClicks, web
  <2>3. count' \in 0..(CountModulus - 1)
    BY <2>1, LightSwitchAssumption
  <2>4. refused' \in BOOLEAN
    BY <2>1
  <2> QED BY <2>1, <2>2, <2>3, <2>4
<1>18. CASE Halt
  <2>1. <<>> \in Seq(Command) /\ Len(<<>>) <= QueueLength
    BY LightSwitchAssumption
  <2>2. 0 \in 0..(CountModulus - 1) /\ 0 \in 0..SseEnd
    BY LightSwitchAssumption
  <2> QED BY <1>18, <2>1, <2>2 DEF Halt
<1>19. CASE Boot
  BY <1>19 DEF Boot, button, web, service, history
<1>20. CASE UNCHANGED vars
  BY <1>20 DEF vars, button, web, service, history
<1> QED
  BY <1>1, <1>2, <1>3, <1>4, <1>5, <1>6, <1>7, <1>8, <1>9, <1>10, <1>11,
     <1>12, <1>13, <1>14, <1>15, <1>16, <1>17, <1>18, <1>19, <1>20, <1>21, <1>22
  DEF Next, ButtonStep, ServiceStep, ClickRestart, FactoryRestart, PowerLoss

\* Every variable of the switch keeps its type, and the command queue never
\* holds more than its slots.
THEOREM TypeCorrect == Spec => []TypeOK
<1> QED BY InitTyped, NextTyped, PTL DEF Spec

(***************************************************************************)
(* The auto-off promise.  With the types it is inductive by itself.        *)
(***************************************************************************)
LEMMA InitLampIsTimed == Init => LampIsTimed
BY DEF Init, LampIsTimed

LEMMA NextLampIsTimed == TypeOK /\ LampIsTimed /\ [Next]_vars => LampIsTimed'
<1> SUFFICES ASSUME TypeOK, LampIsTimed, [Next]_vars PROVE LampIsTimed'
  OBVIOUS
<1>0. queue \in Seq(Command) /\ light \in {0, 1} /\ firing \in Timers
      /\ "detectIR" \in Timers /\ "clicks" \in Timers /\ "session" \in Timers
  BY DEF TypeOK, Timers
<1>1. CASE PressDown
  BY <1>1 DEF PressDown, LampIsTimed
<1>2. CASE RestartAutoOff
  <2>1. WillFire("detectIR")'
    BY <1>2, <1>0, SendWillFire DEF RestartAutoOff, service
  <2> QED BY <2>1 DEF LampIsTimed
<1>3. CASE CountClick
  <2>1. WillFire("detectIR") => WillFire("detectIR")'
    BY <1>3, <1>0, SendWillFire DEF CountClick, service
  <2> QED BY <1>3, <2>1 DEF CountClick, LampIsTimed, service
<1>4. CASE RestartSession
  <2>1. WillFire("detectIR") => WillFire("detectIR")'
    BY <1>4, <1>0, SendWillFire DEF RestartSession, service
  <2> QED BY <1>4, <2>1 DEF RestartSession, LampIsTimed, service, button
<1>5. ASSUME NEW t \in Timers, Expire(t) PROVE LampIsTimed'
  <2>1. WillFire("detectIR") => WillFire("detectIR")' \/ (svc' = "stop" /\ firing' = "detectIR")
    BY <1>5, <1>0, ExpireWillFire
  <2> QED BY <1>5, <2>1 DEF Expire, Fire, LampIsTimed, button
<1>6. CASE Execute
  <2>1. WillFire("detectIR") => WillFire("detectIR")' \/ (svc' = "stop" /\ firing' = "detectIR")
    BY <1>6, <1>0, ExecuteWillFire
  <2>2. svc = "idle" /\ UNCHANGED <<light, btn>>
    BY <1>6 DEF Execute, button
  <2> QED BY <2>1, <2>2 DEF LampIsTimed
<1>7. CASE StopOwnTimer
  <2>1. firing # "detectIR" /\ WillFire("detectIR") => WillFire("detectIR")'
    BY <1>7, <1>0, SendWillFire DEF StopOwnTimer
  <2>2. svc' = "act" /\ UNCHANGED <<light, btn, firing>>
    BY <1>7 DEF StopOwnTimer, button
  <2> QED BY <2>1, <2>2 DEF LampIsTimed
<1>8. CASE AutoOffPin
  BY <1>8 DEF AutoOffPin, LampIsTimed
<1>9. CASE Halt
  BY <1>9 DEF Halt, LampIsTimed
<1>10. CASE OpenPage
  BY <1>10 DEF OpenPage, LampIsTimed
<1>11. CASE \/ HoldDown \/ Release \/ UpdateBoundDevices \/ Poll \/ AutoOffFlag
            \/ SaveMode \/ SaveBeforeErase \/ Erase \/ EndSession \/ KeepRunning \/ ForgetClicks \/ Boot \/ UNCHANGED vars
  <2>1. UNCHANGED <<queue, armed, light>>
    BY <1>11 DEF HoldDown, Release, SaveMode, SaveBeforeErase, Erase, Return, UpdateBoundDevices, Poll, AutoOffFlag, EndSession,
                 KeepRunning, ForgetClicks, Boot, vars, service
  <2>2. WillFire("detectIR")' <=> WillFire("detectIR")
    BY <1>0, <2>1, SameWillFire
  <2>3. btn = "resetLight" => btn' = "resetLight"
    BY <1>11 DEF HoldDown, Release, SaveMode, SaveBeforeErase, Erase, Return, UpdateBoundDevices, Poll, AutoOffFlag, EndSession,
                 KeepRunning, ForgetClicks, Boot, vars, button
  <2>4. firing = "detectIR" /\ svc \in {"stop", "act"} =>
          firing' = "detectIR" /\ svc' \in {"stop", "act"}
    BY <1>11 DEF HoldDown, Release, SaveMode, SaveBeforeErase, Erase, Return, UpdateBoundDevices, Poll, AutoOffFlag, EndSession,
                 KeepRunning, ForgetClicks, Boot, vars, service
  <2> QED BY <2>1, <2>2, <2>3, <2>4 DEF LampIsTimed
<1> QED
  BY <1>1, <1>2, <1>3, <1>4, <1>5, <1>6, <1>7, <1>8, <1>9, <1>10, <1>11
  DEF Next, ButtonStep, ServiceStep, ClickRestart, FactoryRestart, PowerLoss

\* For every queue length and every interleaving: while the lamp is on its
\* three-minute auto-off is pending.
THEOREM AutoOffGuaranteed == Spec => []LampIsTimed
<1> QED BY InitLampIsTimed, NextLampIsTimed, TypeCorrect, PTL DEF Spec

(***************************************************************************)
(* The clicks: none is left over, and what is saved in flash is applied.   *)
(***************************************************************************)
LEMMA NextClicksAreTimed == TypeOK /\ ClicksAreTimed /\ [Next]_vars => ClicksAreTimed'
<1> SUFFICES ASSUME TypeOK, ClicksAreTimed, [Next]_vars PROVE ClicksAreTimed'
  OBVIOUS
<1>0. queue \in Seq(Command) /\ firing \in Timers
      /\ "detectIR" \in Timers /\ "clicks" \in Timers /\ "session" \in Timers
  BY DEF TypeOK, Timers
<1>1. CASE CountClick
  <2>1. WillFire("clicks")'
    BY <1>1, <1>0, SendWillFire DEF CountClick, service
  <2> QED BY <2>1 DEF ClicksAreTimed
<1>2. CASE RestartAutoOff
  <2>1. WillFire("clicks") => WillFire("clicks")'
    BY <1>2, <1>0, SendWillFire DEF RestartAutoOff, service
  <2> QED BY <1>2, <2>1 DEF RestartAutoOff, ClicksAreTimed, service
<1>3. CASE RestartSession
  <2>1. WillFire("clicks") => WillFire("clicks")'
    BY <1>3, <1>0, SendWillFire DEF RestartSession, service
  <2> QED BY <1>3, <2>1 DEF RestartSession, ClicksAreTimed, service, button
<1>4. ASSUME NEW t \in Timers, Expire(t) PROVE ClicksAreTimed'
  <2>1. WillFire("clicks") => WillFire("clicks")' \/ (svc' = "stop" /\ firing' = "clicks")
    BY <1>4, <1>0, ExpireWillFire
  <2> QED BY <1>4, <2>1 DEF Expire, Fire, ClicksAreTimed, button
<1>5. CASE Execute
  <2>1. WillFire("clicks") => WillFire("clicks")' \/ (svc' = "stop" /\ firing' = "clicks")
    BY <1>5, <1>0, ExecuteWillFire
  <2>2. svc = "idle" /\ UNCHANGED count
    BY <1>5 DEF Execute, button
  <2> QED BY <2>1, <2>2 DEF ClicksAreTimed
<1>6. CASE StopOwnTimer
  <2>1. firing # "clicks" /\ WillFire("clicks") => WillFire("clicks")'
    BY <1>6, <1>0, SendWillFire DEF StopOwnTimer
  <2>2. svc' = "act" /\ UNCHANGED <<count, firing>>
    BY <1>6 DEF StopOwnTimer, button
  <2> QED BY <2>1, <2>2 DEF ClicksAreTimed
<1>7. CASE ForgetClicks
  BY <1>7 DEF ForgetClicks, ClicksAreTimed
<1>8. CASE Halt
  BY <1>8 DEF Halt, ClicksAreTimed
<1>9. CASE \/ PressDown \/ HoldDown \/ Release \/ UpdateBoundDevices \/ OpenPage \/ Poll
           \/ SaveMode \/ SaveBeforeErase \/ Erase
           \/ AutoOffPin \/ AutoOffFlag \/ EndSession \/ KeepRunning \/ Boot
           \/ UNCHANGED vars
  <2>1. UNCHANGED <<queue, armed, count>>
    BY <1>9 DEF PressDown, HoldDown, SaveMode, SaveBeforeErase, Erase, Return, Release, UpdateBoundDevices, OpenPage, Poll, AutoOffPin,
                AutoOffFlag, EndSession, KeepRunning, Boot, vars, service, button
  <2>2. WillFire("clicks")' <=> WillFire("clicks")
    BY <1>0, <2>1, SameWillFire
  <2>3. firing = "clicks" /\ svc \in {"stop", "act", "clear"} =>
          firing' = "clicks" /\ svc' \in {"stop", "act", "clear"}
    BY <1>9 DEF PressDown, HoldDown, SaveMode, SaveBeforeErase, Erase, Return, Release, UpdateBoundDevices, OpenPage, Poll, AutoOffPin,
                AutoOffFlag, EndSession, KeepRunning, Boot, vars, service
  <2> QED BY <2>1, <2>2, <2>3 DEF ClicksAreTimed
<1> QED
  BY <1>1, <1>2, <1>3, <1>4, <1>5, <1>6, <1>7, <1>8, <1>9
  DEF Next, ButtonStep, ServiceStep, ClickRestart, FactoryRestart, PowerLoss

\* No click count is ever left standing without the one-second timer that
\* examines it, for every queue length and every interleaving.
THEOREM ClicksExamined == Spec => []ClicksAreTimed
<1>1. Init => ClicksAreTimed
  BY DEF Init, ClicksAreTimed
<1> QED BY <1>1, NextClicksAreTimed, TypeCorrect, PTL DEF Spec

\* The inductive invariant of the saved mode.
ModeInv == RestartMeansAP /\ SavedModeApplies /\ DecisiveClicks

LEMMA NextModeInv == TypeOK /\ ModeInv /\ [Next]_vars => ModeInv'
<1> SUFFICES ASSUME TypeOK, ModeInv, [Next]_vars PROVE ModeInv'
  OBVIOUS
<1> USE DEF ModeInv, RestartMeansAP, SavedModeApplies, DecisiveClicks
<1>1. CASE CountClick
  <2> DEFINE n == (count + 1) % CountModulus
  <2>1. /\ count \in 0..(CountModulus - 1)
        /\ n = IF count + 1 = CountModulus THEN 0 ELSE count + 1
    BY NextCount DEF TypeOK
  <2>2. /\ btn = "resetClicks" /\ count' = n
        /\ btn' \in {"saveMode", "saveErase", "idle"}
        /\ n = RestartClicks => btn' = "saveMode"
        /\ btn' = "saveMode" => n = RestartClicks
        /\ n >= FactoryClicks /\ n # RestartClicks => btn' = "saveErase"
        /\ late' = (late \/ (n = RestartClicks /\ svc = "clear" /\ firing = "clicks"))
        /\ UNCHANGED <<mode, factory, refused, up, svc, firing>>
    BY <1>1 DEF CountClick, SavesMode, Erases, service
  <2> HIDE DEF n
  <2>3. n >= RestartClicks /\ n # RestartClicks => count >= RestartClicks
    BY <2>1, LightSwitchAssumption
  <2>4. n < RestartClicks /\ count >= RestartClicks => count >= FactoryClicks
    BY <2>1, LightSwitchAssumption
  <2>5. n >= RestartClicks /\ ~refused => mode = "AP" \/ btn' = "saveMode"
    BY <2>2, <2>3
  <2>6. n >= FactoryClicks => btn' = "saveErase"
    BY <2>1, <2>2, LightSwitchAssumption
  <2>7. svc = "clear" /\ firing = "clicks" /\ n >= RestartClicks => late'
    BY <2>2, <2>3
  <2>8. mode = "AP" /\ up => n >= RestartClicks \/ factory \/ late'
    <3>1. CASE count >= RestartClicks
      <4>1. n \in Nat
        BY <2>1
      <4>2. n >= RestartClicks \/ n < RestartClicks
        BY <4>1, LightSwitchAssumption
      <4> QED BY <2>2, <2>4, <3>1, <4>2
    <3>2. CASE ~(count >= RestartClicks)
      BY <2>2, <3>2
    <3> QED BY <3>1, <3>2
  <2>9. btn' = "saveMode" => n >= RestartClicks
    BY <2>2, LightSwitchAssumption
  <2> QED BY <2>2, <2>5, <2>6, <2>7, <2>8, <2>9
<1>2. CASE SaveMode
  <2>1. /\ btn = "saveMode" /\ btn' \in {"saveErase", "idle"}
        /\ mode' = "AP" \/ (refused' = (mode = "STA") /\ mode' = mode)
        /\ UNCHANGED <<count, factory, late, up, svc, firing>>
    BY <1>2 DEF SaveMode, WIFI_Mode_Save, service
  <2>2. mode' = "AP" \/ refused'
    BY <2>1 DEF TypeOK
  <2>3. count >= FactoryClicks => factory
    BY <2>1
  <2>4. count >= RestartClicks \/ late
    BY <2>1
  <2> QED BY <2>1, <2>2, <2>3, <2>4
<1>3. CASE SaveBeforeErase
  <2>1. /\ btn = "saveErase" /\ btn' = "erase"
        /\ mode' = "AP" \/ (refused' = (mode = "STA") /\ mode' = mode)
        /\ UNCHANGED <<count, factory, late, up, svc, firing>>
    BY <1>3 DEF SaveBeforeErase, WIFI_Mode_Save, service
  <2>2. mode' = "AP" \/ refused'
    BY <2>1 DEF TypeOK
  <2> QED BY <2>1, <2>2
<1>4. CASE Erase
  BY <1>4 DEF Erase, history, service
<1>5. CASE KeepRunning
  BY <1>5, LightSwitchAssumption DEF KeepRunning, button, history, TypeOK
<1>6. CASE ForgetClicks
  <2>1. /\ count' = 0 /\ svc = "clear" /\ firing = "clicks" /\ svc' = "idle"
        /\ UNCHANGED <<btn, mode, factory, late, up>>
    BY <1>6 DEF ForgetClicks, Return
  <2>2. ~(0 >= RestartClicks) /\ ~(0 >= FactoryClicks)
    BY LightSwitchAssumption
  <2>3. count >= RestartClicks => late
    BY <2>1
  <2> QED BY <2>1, <2>2, <2>3
<1>7. CASE Halt
  BY <1>7, LightSwitchAssumption DEF Halt
<1>8. CASE Boot
  BY <1>8 DEF Boot, button, history, service, TypeOK
<1>9. CASE \/ PressDown \/ HoldDown \/ Release \/ RestartAutoOff \/ UpdateBoundDevices
           \/ OpenPage \/ Poll \/ RestartSession \/ Execute \/ StopOwnTimer \/ AutoOffPin
           \/ AutoOffFlag \/ EndSession \/ (\E t \in Timers : Expire(t)) \/ UNCHANGED vars
  <2>1. UNCHANGED <<count, mode, factory, late, refused, up>>
    BY <1>9 DEF PressDown, HoldDown, Release, RestartAutoOff, UpdateBoundDevices, OpenPage,
                Poll, RestartSession, Execute, StopOwnTimer, AutoOffPin, AutoOffFlag,
                EndSession, Expire, vars, button, history
  <2>2. svc' = "clear" /\ firing' = "clicks" => svc = "clear" /\ firing = "clicks"
    BY <1>9 DEF PressDown, HoldDown, Release, RestartAutoOff, UpdateBoundDevices, OpenPage,
                Poll, RestartSession, Execute, StopOwnTimer, AutoOffPin, AutoOffFlag,
                EndSession, Expire, Fire, Return, vars, service
  <2>3. \/ btn' = btn
        \/ /\ btn \in {"idle", "resetLight", "command"}
           /\ btn' \in {"idle", "resetLight", "command", "resetClicks"}
    BY <1>9 DEF PressDown, HoldDown, Release, RestartAutoOff, UpdateBoundDevices, OpenPage,
                Poll, RestartSession, Execute, StopOwnTimer, AutoOffPin, AutoOffFlag,
                EndSession, Expire, vars, button
  <2> QED BY <2>1, <2>2, <2>3
<1> QED
  BY <1>1, <1>2, <1>3, <1>4, <1>5, <1>6, <1>7, <1>8, <1>9
  DEF Next, ButtonStep, ServiceStep, ClickRestart, FactoryRestart, PowerLoss

LEMMA ModeInvariant == Spec => []ModeInv
<1>1. Init => ModeInv
  BY LightSwitchAssumption
  DEF Init, ModeInv, RestartMeansAP, SavedModeApplies, DecisiveClicks
<1> QED BY <1>1, NextModeInv, TypeCorrect, PTL DEF Spec

\* A restart by clicks comes up in access-point mode although the callback
\* that saves the mode and the one that restarts test the count differently,
\* unless NVS refused the save or the restart came before it.
THEOREM RestartsInAP == Spec => []RestartMeansAP
<1>1. ModeInv => RestartMeansAP
  BY DEF ModeInv
<1> QED BY <1>1, ModeInvariant, PTL

\* Once access-point mode is saved a restart follows, except after the one
\* release that falls between the callback's check and its clearing.
THEOREM SavedModeIsApplied == Spec => []SavedModeApplies
<1>1. ModeInv => SavedModeApplies
  BY DEF ModeInv
<1> QED BY <1>1, ModeInvariant, PTL

(***************************************************************************)
(* The self-wait of the timer service.                                     *)
(***************************************************************************)
LEMMA SelfWaitStep == [Next]_vars => [SelfWait => SelfWait' \/ ~up']_vars
<1> SUFFICES ASSUME Next, SelfWait PROVE SelfWait' \/ ~up'
  OBVIOUS
<1> USE DEF SelfWait, Full
<1>1. CASE Halt
  BY <1>1 DEF Halt
<1>2. CASE \/ PressDown \/ HoldDown \/ Release \/ UpdateBoundDevices \/ OpenPage \/ Poll \/ Boot
           \/ SaveMode \/ SaveBeforeErase \/ Erase
  BY <1>2 DEF SaveMode, SaveBeforeErase, Erase, PressDown, HoldDown, Release, UpdateBoundDevices, OpenPage, Poll, Boot, service
<1>3. ~(RestartAutoOff \/ CountClick \/ RestartSession \/ StopOwnTimer)
  BY DEF RestartAutoOff, CountClick, RestartSession, StopOwnTimer, Send
<1>4. /\ ~(Execute \/ AutoOffPin \/ AutoOffFlag \/ EndSession \/ KeepRunning \/ ForgetClicks)
      /\ \A t \in Timers : ~Expire(t)
  BY DEF Execute, AutoOffPin, AutoOffFlag, EndSession, KeepRunning, ForgetClicks, Expire
<1> QED
  BY <1>1, <1>2, <1>3, <1>4
  DEF Next, ButtonStep, ServiceStep, ClickRestart, FactoryRestart, PowerLoss

\* Whatever the queue length, a timer service that waits for room in its own
\* queue waits until the device restarts.
THEOREM SelfWaitForever == Spec => SelfWaitIsFinal
<1> QED BY SelfWaitStep, PTL DEF Spec, SelfWaitIsFinal
==============================================================================
