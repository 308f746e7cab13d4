------------------------ MODULE WifiProvisioningProofs ------------------------
(***************************************************************************)
(* The safety of provisioning, for every set of networks and every limit.  *)
(* What makes a saved station mode trustworthy is a chain: only a radio in *)
(* station mode connects; while it may connect, no credentials wait to be  *)
(* applied; and from the connection to the restart nothing writes the      *)
(* configuration.                                                          *)
(***************************************************************************)
EXTENDS WifiProvisioning, TLAPS

(***************************************************************************)
(* The web server and its note.                                            *)
(***************************************************************************)
ServerInv ==
  /\ boot # "wifi" => webserver_status = "0x55"
  /\ StatusMeansRunning

(***************************************************************************)
(* The radio, the credentials and the address that was got.                *)
(***************************************************************************)
Holds(queue, e) == \E i \in 1..Len(queue) : queue[i] = e

Waits(queue) == Holds(queue, "GOT_IP")

Phones(queue) == Holds(queue, "AP_STACONNECTED")

Got == epc \in {"saved", "served"} \/ Waits(events)

NoCredentials == creds = "none" \/ hpc = "stopped"

\* Nothing has begun before vTaskWifiHandler has.
Fresh ==
  /\ boot # "wifi" => wpc = "start"
  /\ wpc = "start" => /\ radio = "off" /\ link = "none" /\ ~joined
                      /\ events = <<>> /\ epc = "idle"
                      /\ hpc = "idle" /\ creds = "none"

RadioInv ==
  /\ joined => radio = "ap"
  /\ link # "none" => radio = "sta"
  /\ radio = "sta" => setMode = "sta" /\ NoCredentials

\* A phone that joins after the only start of the server: its handler aborts,
\* whatever is saved meanwhile.
Doomed == epc = "joining" /\ server_data

GotInv ==
  Got /\ ~Doomed => staConfig \in Reachable /\ radio # "ap" /\ setMode = "sta" /\ NoCredentials

SavedInv == boot = "wifi" /\ nvsMode = "STA" => epc \in {"saved", "served"}

NetworkInv == Fresh /\ RadioInv /\ GotInv /\ SavedInv

(***************************************************************************)
(* The first phone, whose handler starts the server and may be held up in  *)
(* it: until it is done no page has given credentials, and nothing asks    *)
(* the radio to connect, although vTaskWifiHandler may switch it meanwhile. *)
(***************************************************************************)
Quiet == link = "none" /\ ~Waits(events)

NoServerYet == ~server_data => server = "none" /\ creds = "none" /\ hpc = "idle"

StartingInv == epc = "joining" /\ ~server_data => Quiet /\ apBit /\ ~staBit

PhoneInv ==
  Phones(events) /\ ~server_data =>
    Quiet /\ (epc = "joining" \/ (epc = "idle" /\ radio = "ap"))

JoinInv == NoServerYet /\ StartingInv /\ PhoneInv

(***************************************************************************)
(* The queue of events.                                                    *)
(***************************************************************************)
EventsOK == events \in Seq(Events) /\ Len(events) <= MaxEvents

\* An empty queue holds nothing.
LEMMA NoneWaits == ~Waits(<<>>) /\ ~Phones(<<>>)
  BY DEF Waits, Phones, Holds

\* An event posted is the last of the queue.
LEMMA PostType ==
  ASSUME EventsOK, NEW e \in Events, Post(e)
  PROVE  /\ EventsOK'
         /\ Waits(events') => Waits(events) \/ e = "GOT_IP"
         /\ Phones(events') => Phones(events) \/ e = "AP_STACONNECTED"
<1>1. /\ events' \in Seq(Events) /\ Len(events') = Len(events) + 1
      /\ Len(events) \in Nat
      /\ \A i \in 1..Len(events) : events'[i] = events[i]
      /\ events'[Len(events) + 1] = e
  BY DEF EventsOK, Post
<1>2. Len(events') <= MaxEvents
  BY <1>1, WifiAssumption DEF Post
<1>3. ASSUME NEW f, NEW i \in 1..Len(events'), events'[i] = f
      PROVE  Holds(events, f) \/ e = f
  <2>1. i \in 1..Len(events) \/ i = Len(events) + 1
    BY <1>1
  <2> QED
    BY <1>1, <1>3, <2>1 DEF Holds
<1> QED
  BY <1>1, <1>2, <1>3 DEF EventsOK, Waits, Phones, Holds

\* An event taken was the first of the queue.
LEMMA TakeType ==
  ASSUME EventsOK, NEW e \in Events, Take(e)
  PROVE  /\ EventsOK'
         /\ Waits(events') => Waits(events)
         /\ Phones(events') => Phones(events)
         /\ e = "GOT_IP" => Waits(events)
         /\ e = "AP_STACONNECTED" => Phones(events)
         /\ boot = "wifi" /\ epc = "idle" /\ events # <<>>
<1>1. /\ events' \in Seq(Events) /\ Len(events') = Len(events) - 1
      /\ Len(events) \in Nat \ {0} /\ events[1] = e
      /\ \A i \in 1..Len(events') : i + 1 \in 1..Len(events) /\ events'[i] = events[i + 1]
  BY DEF EventsOK, Take
<1>2. Len(events') <= MaxEvents
  BY <1>1, WifiAssumption DEF EventsOK
<1>3. boot = "wifi" /\ epc = "idle" /\ events # <<>>
  BY DEF Take
<1> QED
  BY <1>1, <1>2, <1>3 DEF EventsOK, Waits, Phones, Holds

\* Stopping the radio posts no address and no phone.
LEMMA RadioStopType ==
  ASSUME EventsOK, RadioStop
  PROVE  /\ EventsOK'
         /\ Waits(events') => Waits(events)
         /\ Phones(events') => Phones(events)
<1>1. CASE UNCHANGED events
  BY <1>1 DEF EventsOK
<1>2. CASE Post("AP_STADISCONNECTED") \/ Post("STA_DISCONNECTED")
  BY <1>2, PostType DEF Events
<1> QED
  BY <1>1, <1>2 DEF RadioStop

(***************************************************************************)
(* Types.                                                                  *)
(***************************************************************************)
BitsOK ==
  joined \in BOOLEAN /\ apBit \in BOOLEAN /\ staBit \in BOOLEAN /\ server_data \in BOOLEAN

\* Every step keeps the types.
LEMMA WifiTypes == TypeOK /\ [Next]_vars => TypeOK'
<1> SUFFICES ASSUME TypeOK, [Next]_vars PROVE TypeOK'
  OBVIOUS
<1> USE WifiAssumption
    DEF TypeOK, EventsOK, BitsOK, Events, flash, driver, event, handler, html, bits, web
<1>1. CASE Boot
  BY <1>1 DEF Boot
<1>2. CASE PowerOn
  BY <1>2 DEF PowerOn
<1>3. CASE PowerLoss
  <2>1. BitsOK'
    BY <1>3, Zenon DEF PowerLoss, Restart, RamReset
  <2> QED
    BY <1>3, <2>1 DEF PowerLoss, Restart, RamReset
<1>4. CASE Associate
  BY <1>4, PostType DEF Associate, Driver
<1>5. CASE FailToConnect
  BY <1>5, PostType DEF FailToConnect, Driver
<1>6. CASE Join
  BY <1>6, PostType DEF Join, Driver
<1>7. CASE Leave
  <2>1. BitsOK'
    BY <1>7, Zenon DEF Leave, Driver
  <2> QED
    BY <1>7, <2>1, PostType DEF Leave, Driver
<1>8. CASE StaStart
  BY <1>8, TakeType DEF StaStart, Connect
<1>9. CASE StaDisconnected
  <2>1. BitsOK'
    BY <1>9, Zenon DEF StaDisconnected, Connect
  <2> QED
    BY <1>9, <2>1, TakeType DEF StaDisconnected, Connect
<1>10. CASE ApStart
  BY <1>10, TakeType DEF ApStart
<1>11. CASE ApStaConnected
  <2>1. BitsOK'
    BY <1>11, Zenon DEF ApStaConnected
  <2> QED
    BY <1>11, <2>1, TakeType DEF ApStaConnected
<1>12. CASE ServeStation
  BY <1>12 DEF ServeStation, StartFileServer
<1>13. CASE ApStaDisconnected
  <2>1. BitsOK'
    BY <1>13, Zenon DEF ApStaDisconnected
  <2> QED
    BY <1>13, <2>1, TakeType DEF ApStaDisconnected
<1>14. CASE GotIp
  BY <1>14, TakeType DEF GotIp
<1>15. CASE ServeNetwork
  <2>1. BitsOK'
    BY <1>15, Zenon DEF ServeNetwork, StartFileServer
  <2> QED
    BY <1>15, <2>1 DEF ServeNetwork, StartFileServer
<1>16. CASE RestartAsStation
  <2>1. BitsOK'
    BY <1>16, Zenon DEF RestartAsStation, Restart, RamReset
  <2> QED
    BY <1>16, <2>1 DEF RestartAsStation, Restart, RamReset
<1>17. CASE AbortOnStart
  <2>1. BitsOK'
    BY <1>17, Zenon DEF AbortOnStart, Restart, RamReset
  <2> QED
    BY <1>17, <2>1 DEF AbortOnStart, Restart, RamReset
<1>18. CASE HandlerStart
  <2>1. BitsOK'
    BY <1>18, Zenon DEF HandlerStart
  <2> QED
    BY <1>18, <2>1, PostType DEF HandlerStart
<1>19. CASE KeepAp
  BY <1>19 DEF KeepAp, WIFI_Mode_Check
<1>20. CASE KeepNothing
  BY <1>20 DEF KeepNothing, vars
<1>21. CASE LeaveAp
  BY <1>21 DEF LeaveAp, StopFileServer
<1>22. CASE KeepStation
  BY <1>22 DEF KeepStation, Connect
<1>23. CASE LeaveStation
  BY <1>23 DEF LeaveStation, StopFileServer
<1>24. CASE StaleStop
  <2>1. BitsOK'
    BY <1>24, Zenon DEF StaleStop, Restart, RamReset
  <2> QED
    BY <1>24, <2>1 DEF StaleStop, Restart, RamReset
<1>25. CASE StopRadio
  <2>1. BitsOK'
    BY <1>25, Zenon DEF StopRadio, RadioStop
  <2>2. EventsOK'
    BY <1>25, RadioStopType DEF StopRadio
  <2>3. radio' = "off" /\ link' = "none"
    BY <1>25 DEF StopRadio, RadioStop
  <2> QED
    BY <1>25, <2>1, <2>2, <2>3 DEF StopRadio
<1>26. CASE StartStation
  <2>1. BitsOK'
    BY <1>26, Zenon DEF StartStation, WIFI_vConfigStation
  <2> QED
    BY <1>26, <2>1, PostType DEF StartStation, WIFI_vConfigStation
<1>27. CASE Connected
  BY <1>27 DEF Connected
<1>28. CASE NotConnected
  <2>1. BitsOK'
    BY <1>28, Zenon DEF NotConnected
  <2> QED
    BY <1>28, <2>1 DEF NotConnected
<1>29. CASE StartAp
  BY <1>29, PostType DEF StartAp
<1>30. CASE ApplyCredentials
  <2>1. BitsOK'
    BY <1>30, Zenon DEF ApplyCredentials, RadioStop
  <2>2. EventsOK'
    BY <1>30, RadioStopType DEF ApplyCredentials
  <2>3. radio' = "off" /\ link' = "none"
    BY <1>30 DEF ApplyCredentials, RadioStop
  <2> QED
    BY <1>30, <2>1, <2>2, <2>3 DEF ApplyCredentials
<1>31. CASE TryCredentials
  <2>1. BitsOK'
    BY <1>31, Zenon DEF TryCredentials
  <2>2. events' = events \/ Post("STA_START") \/ Post("AP_START")
    BY <1>31 DEF TryCredentials
  <2>3. EventsOK'
    BY <2>2, PostType
  <2>4. radio' \in {"off", "sta", "ap"} /\ link' \in {"none", "connecting", "up"}
    BY <1>31 DEF TryCredentials
  <2> QED
    BY <1>31, <2>1, <2>3, <2>4 DEF TryCredentials
<1>32. CASE InterfaceIpAddressChanged
  <2>1. BitsOK'
    BY <1>32, Zenon DEF InterfaceIpAddressChanged, StartFileServer, StartFileServerFails
  <2>2. server' \in {"running", server}
    BY <1>32, Zenon DEF InterfaceIpAddressChanged, StartFileServer, StartFileServerFails
  <2> QED
    BY <1>32, <2>1, <2>2 DEF InterfaceIpAddressChanged
<1>33. CASE SelectAp
  BY <1>33 DEF SelectAp
<1>34. CASE LeaveMatter
  <2>1. BitsOK'
    BY <1>34, Zenon DEF LeaveMatter, Restart, RamReset
  <2> QED
    BY <1>34, <2>1 DEF LeaveMatter, Restart, RamReset
<1>35. ASSUME NEW c \in Configs, Submit(c) \/ ChangeCredentials(c) PROVE TypeOK'
  BY <1>35 DEF Submit, ChangeCredentials
<1>36. CASE UNCHANGED vars
  BY <1>36 DEF vars
<1> QED
  BY <1>1, <1>2, <1>3, <1>4, <1>5, <1>6, <1>7, <1>8, <1>9, <1>10, <1>11, <1>12, <1>13, <1>14,
     <1>15, <1>16, <1>17, <1>18, <1>19, <1>20, <1>21, <1>22, <1>23, <1>24, <1>25, <1>26, <1>27,
     <1>28, <1>29, <1>30, <1>31, <1>32, <1>33, <1>34, <1>35, <1>36
     DEF Next, EventStep, HandlerStep, HtmlStep

(***************************************************************************)
(* The note of the server.                                                 *)
(***************************************************************************)
\* Every step keeps the note true.
LEMMA ServerNext == TypeOK /\ ServerInv /\ [Next]_vars => ServerInv'
<1> SUFFICES ASSUME TypeOK, ServerInv, [Next]_vars PROVE ServerInv'
  OBVIOUS
<1> USE DEF TypeOK, ServerInv, StatusMeansRunning, handler, web
<1>1. CASE UNCHANGED <<boot, wpc, webserver_status, server>>
  BY <1>1
<1>2. CASE Boot \/ PowerOn
  BY <1>2 DEF Boot, PowerOn
<1>3. CASE PowerLoss \/ RestartAsStation \/ AbortOnStart \/ StaleStop \/ LeaveMatter
  BY <1>3 DEF PowerLoss, RestartAsStation, AbortOnStart, StaleStop, LeaveMatter, Restart, RamReset
<1>4. CASE ServeStation \/ ServeNetwork
  BY <1>4 DEF ServeStation, ServeNetwork, StartFileServer
<1>5. CASE LeaveAp \/ LeaveStation
  BY <1>5 DEF LeaveAp, LeaveStation, StopFileServer, LowTurn
<1>6. CASE StopRadio
  BY <1>6 DEF StopRadio
<1>7. CASE HandlerStart \/ StartStation \/ Connected \/ NotConnected \/ StartAp
  BY <1>7 DEF HandlerStart, StartStation, Connected, NotConnected, StartAp
<1>8. CASE InterfaceIpAddressChanged
  BY <1>8 DEF InterfaceIpAddressChanged, StartFileServer, StartFileServerFails
<1>9. CASE \/ Associate \/ FailToConnect \/ Join \/ Leave \/ SelectAp
           \/ \E c \in Configs : Submit(c) \/ ChangeCredentials(c)
  BY <1>9, <1>1
     DEF Associate, FailToConnect, Join, Leave, SelectAp, Submit, ChangeCredentials
<1>10. CASE StaStart \/ StaDisconnected \/ ApStart \/ ApStaConnected \/ ApStaDisconnected \/ GotIp
  BY <1>10, <1>1
     DEF StaStart, StaDisconnected, ApStart, ApStaConnected, ApStaDisconnected, GotIp
<1>11. CASE KeepAp \/ KeepNothing \/ KeepStation \/ ApplyCredentials \/ TryCredentials
  BY <1>11, <1>1
     DEF KeepAp, KeepNothing, KeepStation, ApplyCredentials, TryCredentials, vars
<1>12. CASE UNCHANGED vars
  BY <1>12, <1>1 DEF vars
<1> QED
  BY <1>2, <1>3, <1>4, <1>5, <1>6, <1>7, <1>8, <1>9, <1>10, <1>11, <1>12
     DEF Next, EventStep, HandlerStep, HtmlStep

(***************************************************************************)
(* The chain from the credentials to the saved mode.                       *)
(***************************************************************************)

\* A pause of the mode loop ends after the event task has done its work, or
\* while it is held up for a phone.
LEMMA PauseEndsQuiet ==
  ASSUME AfterPause, SlowHandlers \subseteq {"joining"}
  PROVE  /\ boot = "wifi" /\ NoCredentials
         /\ epc = "joining" \/ (epc = "idle" /\ events = <<>> /\ ~Got)
  BY NoneWaits DEF AfterPause, LowTurn, Got, NoCredentials

\* Every step keeps the chain, when only the handler of a phone may outlast
\* the pauses.
LEMMA NetworkNext ==
  ASSUME SlowHandlers \subseteq {"joining"}
  PROVE  TypeOK /\ NetworkInv /\ JoinInv /\ [Next]_vars => NetworkInv'
<1> SUFFICES ASSUME TypeOK, NetworkInv, JoinInv, [Next]_vars PROVE NetworkInv'
  OBVIOUS
<1> USE DEF NetworkInv, Fresh, RadioInv, GotInv, SavedInv, Got, NoCredentials, Doomed, flash,
        driver, event, handler, html, bits, web
<1>1. EventsOK
  BY DEF TypeOK, EventsOK
<1>2. CASE PowerLoss \/ RestartAsStation \/ AbortOnStart \/ StaleStop \/ LeaveMatter
  BY <1>2, NoneWaits
     DEF PowerLoss, RestartAsStation, AbortOnStart, StaleStop, LeaveMatter, Restart, RamReset
<1>3. CASE Boot
  BY <1>3, NoneWaits DEF Boot, WIFI_Mode_Check
<1>4. CASE PowerOn
  BY <1>4 DEF PowerOn
<1>5. CASE Associate
  BY <1>1, <1>5, PostType DEF Associate, Driver, Events
<1>6. CASE FailToConnect
  BY <1>1, <1>6, PostType DEF FailToConnect, Driver, Events
<1>7. CASE Join
  BY <1>1, <1>7, PostType DEF Join, Driver, Events
<1>8. CASE Leave
  BY <1>1, <1>8, PostType DEF Leave, Driver, Events
<1>9. CASE StaStart
  BY <1>1, <1>9, TakeType DEF StaStart, Connect, Events
<1>10. CASE StaDisconnected
  BY <1>1, <1>10, TakeType DEF StaDisconnected, Connect, Events
<1>11. CASE ApStart
  BY <1>1, <1>11, TakeType DEF ApStart, Events
<1>12. CASE ApStaConnected
  BY <1>1, <1>12, TakeType DEF ApStaConnected, Events
<1>13. CASE ServeStation
  BY <1>13 DEF ServeStation, StartFileServer
<1>14. CASE ApStaDisconnected
  BY <1>1, <1>14, TakeType DEF ApStaDisconnected, Events
<1>15. CASE GotIp
  BY <1>1, <1>15, TakeType DEF GotIp, Events
<1>16. CASE ServeNetwork
  BY <1>16 DEF ServeNetwork, StartFileServer
<1>17. CASE HandlerStart
  <2>1. radio = "off" /\ link = "none" /\ ~joined /\ ~Got /\ creds = "none"
    BY <1>17, NoneWaits DEF HandlerStart
  <2>2. ~Waits(events')
    BY <1>1, <1>17, <2>1, PostType DEF HandlerStart, Events
  <2>3. radio' \in {"off", "ap"} /\ wpc' = "loop" /\ boot' = "wifi"
    BY <1>17, <2>1 DEF HandlerStart, LowTurn
  <2> QED
    BY <1>17, <2>1, <2>2, <2>3 DEF HandlerStart
<1>18. CASE KeepAp
  BY <1>18 DEF KeepAp, WIFI_Mode_Check
<1>19. CASE KeepNothing
  BY <1>19 DEF KeepNothing, vars
<1>20. CASE LeaveAp
  BY <1>20 DEF LeaveAp, StopFileServer
<1>21. CASE KeepStation
  BY <1>21 DEF KeepStation, Connect
<1>22. CASE LeaveStation
  BY <1>22 DEF LeaveStation, StopFileServer
<1>23. CASE StopRadio
  <2>1. Waits(events') => Waits(events)
    BY <1>1, <1>23, RadioStopType DEF StopRadio
  <2>2. radio' = "off" /\ link' = "none" /\ ~joined'
    BY <1>23 DEF StopRadio, RadioStop
  <2> QED
    BY <1>23, <2>1, <2>2 DEF StopRadio, LowTurn
<1>24. CASE StartStation
  <2>1. /\ boot = "wifi" /\ NoCredentials /\ (~Got \/ Doomed)
    BY <1>24, PauseEndsQuiet DEF StartStation, JoinInv, StartingInv, Quiet
  <2>2. Waits(events') => Waits(events)
    BY <1>1, <1>24, PostType DEF StartStation, Events
  <2>3. /\ boot' = "wifi" /\ wpc' # "start" /\ ~joined'
        /\ radio' = "sta" /\ setMode' = "sta"
        /\ UNCHANGED <<nvsMode, epc, server_data, creds, hpc>>
    BY <1>24, <2>1 DEF StartStation
  <2> QED
    BY <2>1, <2>2, <2>3
<1>25. CASE Connected
  BY <1>25 DEF Connected
<1>26. CASE NotConnected
  BY <1>26 DEF NotConnected
<1>27. CASE StartAp
  <2>1. /\ boot = "wifi" /\ NoCredentials /\ (~Got \/ Doomed)
    BY <1>27, PauseEndsQuiet DEF StartAp, JoinInv, StartingInv, Quiet
  <2>2. Waits(events') => Waits(events)
    BY <1>1, <1>27, PostType DEF StartAp, Events
  <2>3. /\ boot' = "wifi" /\ wpc' # "start" /\ radio' = "ap" /\ link' = "none"
        /\ UNCHANGED <<nvsMode, epc, server_data>>
    BY <1>27, <2>1 DEF StartAp
  <2> QED
    BY <2>1, <2>2, <2>3
<1>28. CASE ApplyCredentials
  <2>1. Waits(events') => Waits(events)
    BY <1>1, <1>28, RadioStopType DEF ApplyCredentials
  <2>2. radio' = "off" /\ link' = "none" /\ ~joined'
    BY <1>28 DEF ApplyCredentials, RadioStop
  <2> QED
    BY <1>28, <2>1, <2>2 DEF ApplyCredentials, LowTurn
<1>29. CASE TryCredentials
  <2>1. Waits(events') => Waits(events)
    <3>1. events' = events \/ Post("STA_START") \/ Post("AP_START")
      BY <1>29 DEF TryCredentials, TypeOK
    <3> QED
      BY <1>1, <3>1, PostType DEF Events
  <2>2. /\ boot = "wifi" /\ wpc # "start" /\ creds' = "none"
        /\ radio' = (IF radio = "off" THEN setMode ELSE radio)
        /\ link' = (IF radio' = "sta" /\ link = "none" THEN "connecting" ELSE link)
        /\ radio = "off" => ~joined
    BY <1>29 DEF TryCredentials, LowTurn
  <2> QED
    BY <1>29, <2>1, <2>2 DEF TryCredentials, TypeOK
<1>30. CASE InterfaceIpAddressChanged
  BY <1>30 DEF InterfaceIpAddressChanged, StartFileServer, StartFileServerFails
<1>31. CASE SelectAp
  BY <1>31 DEF SelectAp
<1>32. ASSUME NEW c \in Configs, Submit(c) \/ ChangeCredentials(c) PROVE NetworkInv'
  BY <1>32, NoneWaits DEF Submit, ChangeCredentials
<1>33. CASE UNCHANGED vars
  BY <1>33 DEF vars
<1> QED
  BY <1>2, <1>3, <1>4, <1>5, <1>6, <1>7, <1>8, <1>9, <1>10, <1>11, <1>12, <1>13, <1>14, <1>15,
     <1>16, <1>17, <1>18, <1>19, <1>20, <1>21, <1>22, <1>23, <1>24, <1>25, <1>26, <1>27, <1>28,
     <1>29, <1>30, <1>31, <1>32, <1>33
     DEF Next, EventStep, HandlerStep, HtmlStep

\* Every step keeps what is said of the first phone.
LEMMA JoinNext ==
  ASSUME SlowHandlers \subseteq {"joining"}
  PROVE  TypeOK /\ NetworkInv /\ JoinInv /\ [Next]_vars => JoinInv'
<1> SUFFICES ASSUME TypeOK, NetworkInv, JoinInv, [Next]_vars PROVE JoinInv'
  OBVIOUS
<1> USE DEF JoinInv, NoServerYet, StartingInv, PhoneInv, Quiet, flash, driver, event, handler,
        html, bits, web
<1>1. EventsOK
  BY DEF TypeOK, EventsOK
<1>2. CASE \/ PowerLoss \/ RestartAsStation \/ AbortOnStart \/ StaleStop \/ LeaveMatter
  BY <1>2, NoneWaits
     DEF PowerLoss, RestartAsStation, AbortOnStart, StaleStop, LeaveMatter, Restart, RamReset
<1>3. CASE Boot \/ PowerOn \/ SelectAp
  BY <1>3 DEF Boot, PowerOn, SelectAp
<1>4. CASE Associate \/ FailToConnect
  BY <1>1, <1>4, PostType DEF Associate, FailToConnect, Driver, Events
<1>5. CASE Join
  <2>1. ~server_data => ~Got /\ link = "none"
    BY <1>5 DEF Join, NetworkInv, RadioInv, GotInv, Doomed
  <2>2. Waits(events') => Waits(events)
    BY <1>1, <1>5, PostType DEF Join, Events
  <2>3. epc # "joining" /\ ~server_data => epc = "idle"
    BY <2>1 DEF Got, TypeOK
  <2> QED
    BY <1>5, <2>1, <2>2, <2>3 DEF Join, Got
<1>6. CASE Leave
  BY <1>1, <1>6, PostType DEF Leave, Driver, Events
<1>7. CASE StaStart
  BY <1>1, <1>7, TakeType DEF StaStart, Connect, Events
<1>8. CASE StaDisconnected
  BY <1>1, <1>8, TakeType DEF StaDisconnected, Connect, Events
<1>9. CASE ApStart \/ ApStaDisconnected
  BY <1>1, <1>9, TakeType DEF ApStart, ApStaDisconnected, Events
<1>10. CASE ApStaConnected
  BY <1>1, <1>10, TakeType DEF ApStaConnected, Events
<1>11. CASE ServeStation \/ ServeNetwork
  BY <1>11 DEF ServeStation, ServeNetwork, StartFileServer
<1>12. CASE GotIp
  BY <1>1, <1>12, TakeType DEF GotIp, Events
<1>13. CASE HandlerStart
  BY <1>1, <1>13, PostType, NoneWaits DEF HandlerStart, NetworkInv, Fresh, Events
<1>14. CASE KeepAp \/ KeepNothing
  BY <1>14 DEF KeepAp, KeepNothing, vars
<1>15. CASE LeaveAp \/ LeaveStation
  BY <1>15 DEF LeaveAp, LeaveStation, StopFileServer
<1>16. CASE KeepStation
  <2>1. epc # "joining" \/ server_data
    BY <1>16 DEF KeepStation, ToAp
  <2>2. ~Phones(events) \/ server_data
    BY <1>16, <2>1, NoneWaits DEF KeepStation, LowTurn
  <2> QED
    BY <1>16, <2>1, <2>2 DEF KeepStation, Connect
<1>17. CASE StopRadio
  <2>1. (Waits(events') => Waits(events)) /\ (Phones(events') => Phones(events))
    BY <1>1, <1>17, RadioStopType DEF StopRadio
  <2>2. link' = "none" /\ (epc = "idle" => events = <<>>)
    BY <1>17 DEF StopRadio, RadioStop, LowTurn
  <2> QED
    BY <1>17, <2>1, <2>2, NoneWaits DEF StopRadio
<1>18. CASE StartStation
  <2>1. (Waits(events') => Waits(events)) /\ (Phones(events') => Phones(events))
    BY <1>1, <1>18, PostType DEF StartStation, Events
  <2>2. epc = "idle" => events = <<>>
    BY <1>18 DEF StartStation, AfterPause, LowTurn
  <2> QED
    BY <1>18, <2>1, <2>2, NoneWaits DEF StartStation, WIFI_vConfigStation
<1>19. CASE StartAp
  <2>1. (Waits(events') => Waits(events)) /\ (Phones(events') => Phones(events))
    BY <1>1, <1>19, PostType DEF StartAp, Events
  <2> QED
    BY <1>19, <2>1 DEF StartAp
<1>20. CASE Connected \/ NotConnected
  BY <1>20 DEF Connected, NotConnected
<1>21. CASE ApplyCredentials \/ TryCredentials
  <2>1. server_data /\ server_data'
    BY <1>21 DEF ApplyCredentials, TryCredentials
  <2> QED
    BY <2>1
<1>22. CASE InterfaceIpAddressChanged
  <2>1. server_data' = TRUE \/ (server_data' = server_data /\ server' = server)
    BY <1>22, Zenon DEF InterfaceIpAddressChanged, StartFileServer, StartFileServerFails
  <2>2. UNCHANGED <<creds, hpc, epc, link, events, radio>> /\ apBit' = FALSE /\ staBit' = TRUE
    BY <1>22 DEF InterfaceIpAddressChanged
  <2>3. epc # "joining" /\ events = <<>>
    BY <1>22, <2>2 DEF InterfaceIpAddressChanged, NetworkInv, Fresh
  <2> QED
    BY <2>1, <2>2, <2>3, NoneWaits
<1>23. ASSUME NEW c \in Configs, Submit(c) \/ ChangeCredentials(c) PROVE JoinInv'
  BY <1>23 DEF Submit, ChangeCredentials
<1>24. CASE UNCHANGED vars
  BY <1>24 DEF vars
<1> QED
  BY <1>2, <1>3, <1>4, <1>5, <1>6, <1>7, <1>8, <1>9, <1>10, <1>11, <1>12, <1>13, <1>14, <1>15,
     <1>16, <1>17, <1>18, <1>19, <1>20, <1>21, <1>22, <1>23, <1>24
     DEF Next, EventStep, HandlerStep, HtmlStep

(***************************************************************************)
(* The theorems.                                                           *)
(***************************************************************************)
\* The first state satisfies the invariants.
LEMMA WifiInit == Init => TypeOK /\ ServerInv /\ NetworkInv /\ JoinInv
<1> SUFFICES ASSUME Init PROVE TypeOK /\ ServerInv /\ NetworkInv /\ JoinInv
  OBVIOUS
<1>1. BitsOK
  BY Zenon DEF Init, BitsOK
<1>2. TypeOK
  BY <1>1, WifiAssumption DEF Init, TypeOK, BitsOK
<1>3. ServerInv
  BY DEF Init, ServerInv, StatusMeansRunning
<1>4. NetworkInv
  BY NoneWaits
     DEF Init, NetworkInv, Fresh, RadioInv, GotInv, SavedInv, Got, NoCredentials
<1>5. JoinInv
  BY NoneWaits DEF Init, JoinInv, NoServerYet, StartingInv, PhoneInv
<1> QED
  BY <1>2, <1>3, <1>4, <1>5

\* Every variable of provisioning has its type; no wait or retry is counted
\* beyond its limit.
THEOREM TypeCorrect == Spec => []TypeOK
<1> QED
  BY WifiInit, WifiTypes, PTL DEF Spec

\* webserver_status agrees with the server whenever a handler relies on it.
THEOREM StatusIsTrue == Spec => []StatusMeansRunning
<1>1. Spec => []ServerInv
  BY WifiInit, ServerNext, TypeCorrect, PTL DEF Spec
<1>2. ServerInv => StatusMeansRunning
  BY DEF ServerInv
<1> QED
  BY <1>1, <1>2, PTL

\* Station mode is saved only with a configuration that reached its network,
\* whatever the interleaving of the event task, vTaskWifiHandler and the
\* credentials task, when the handler of a new address is done within the
\* pauses of vTaskWifiHandler; the handler that starts the server for a phone
\* may take any time.
THEOREM SavedModeWasTested ==
  ASSUME SlowHandlers \subseteq {"joining"}
  PROVE  Spec => []SavedModeHasNetwork
<1>1. TypeOK /\ NetworkInv /\ JoinInv /\ [Next]_vars => NetworkInv' /\ JoinInv'
  BY NetworkNext, JoinNext
<1>2. Spec => [](NetworkInv /\ JoinInv)
  BY <1>1, WifiInit, TypeCorrect, PTL DEF Spec
<1>3. NetworkInv => SavedModeHasNetwork
  BY DEF NetworkInv, SavedInv, GotInv, Got, Doomed, SavedModeHasNetwork
<1> QED
  BY <1>2, <1>3, PTL
==============================================================================
