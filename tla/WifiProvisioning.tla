--------------------------- MODULE WifiProvisioning ---------------------------
(***************************************************************************)
(* How the device gets onto a network.  The mode kept in NVS decides what  *)
(* a boot starts: the Matter switch (station mode), or the provisioning    *)
(* firmware: an access point with a web page that takes the credentials    *)
(* of a network.                                                           *)
(*                                                                         *)
(* Three tasks share the radio and the web server:                         *)
(*   - the event task runs wifi_event_handler and ip_event_handler,        *)
(*   - vTaskWifiHandler switches between access point and station,         *)
(*   - htmltomcudata_task applies the credentials received by the page.    *)
(* The event task has the higher priority: the other two advance only when *)
(* no event waits, or while its handler is held up in a blocking call.     *)
(***************************************************************************)
EXTENDS Integers, Sequences

CONSTANTS
  Configs,        \* station configurations: pairs of SSID and password
  Default,        \* CONFIG_STATION_SSID and CONFIG_STATION_PASSPHRASE
  Reachable,      \* the configurations of networks that exist
  MaxRetry,       \* s_retry_num above which it gives up (100 in the code)
  StaPeriod,      \* stacount of the next try in station mode (720)
  ApPeriod,       \* apcount of the next reconnection (1800)
  MaxEvents,      \* bound: events that wait for the event task
  MaxPowerCycles, \* bound: losses of power
  NvsFails,       \* whether NVS may refuse to be opened or written
  StartFails,     \* whether the web server may lack the memory to start
  SlowHandlers    \* where a handler of the event task may be held up for
                  \* longer than the 200 ms pauses of vTaskWifiHandler

ASSUME WifiAssumption ==
  /\ Default \in Configs
  /\ Reachable \subseteq Configs
  /\ MaxRetry \in Nat /\ StaPeriod \in Nat /\ ApPeriod \in Nat
  /\ MaxEvents \in Nat \ {0}
  /\ MaxPowerCycles \in Nat
  /\ NvsFails \in BOOLEAN /\ StartFails \in BOOLEAN
  /\ SlowHandlers \subseteq {"joining", "saved", "served"}
  /\ "none" \notin Configs

VARIABLES
  nvsMode,    \* wifi_mode in NVS; "none" before the first write
  staConfig,  \* the station configuration in flash (WIFI_STORAGE_FLASH)
  cycles,     \* losses of power so far
  boot,       \* what runs: "off", "wifi", "matter" or "nothing"
  \* the radio and its driver
  radio, setMode, link, joined, events,
  \* the event task
  epc, s_retry_num,
  \* vTaskWifiHandler
  wpc, enWifiMode, stacount, apcount,
  \* htmltomcudata_task
  hpc, creds,
  \* the event bits and the web server
  apBit, staBit, webserver_status, server_data, server

flash   == <<nvsMode, staConfig, cycles>>
driver  == <<radio, setMode, link, joined>>
event   == <<epc, s_retry_num>>
handler == <<wpc, enWifiMode, stacount, apcount>>
html    == <<hpc, creds>>
bits    == <<apBit, staBit>>
web     == <<webserver_status, server_data, server>>
vars    == <<flash, boot, driver, events, event, handler, html, bits, web>>

Events == {"STA_START", "STA_DISCONNECTED", "GOT_IP", "AP_START",
           "AP_STACONNECTED", "AP_STADISCONNECTED"}

TypeOK ==
  /\ nvsMode \in {"none", "STA", "AP"}
  /\ staConfig \in Configs
  /\ cycles \in 0..MaxPowerCycles
  /\ boot \in {"off", "wifi", "matter", "nothing"}
  /\ radio \in {"off", "sta", "ap"}
  /\ setMode \in {"sta", "ap"}
  /\ link \in {"none", "connecting", "up"}
  /\ joined \in BOOLEAN
  /\ events \in Seq(Events) /\ Len(events) <= MaxEvents
  /\ epc \in {"idle", "saved", "served", "joining"}
  /\ s_retry_num \in 0..(MaxRetry + 1)
  /\ wpc \in {"start", "loop", "staStop", "staGap", "staWait", "apStop", "apGap"}
  /\ enWifiMode \in {"STA", "AP", "MAX"}
  /\ stacount \in 0..StaPeriod
  /\ apcount \in 0..ApPeriod
  /\ hpc \in {"idle", "stopped"}
  /\ creds \in Configs \union {"none"}
  /\ apBit \in BOOLEAN /\ staBit \in BOOLEAN
  /\ webserver_status \in {"0x55", "0xaa"}
  /\ server_data \in BOOLEAN
  /\ server \in {"none", "running", "stopped"}

(***************************************************************************)
(* Boot and restart: only flash survives.                                  *)
(***************************************************************************)
RamReset ==
  /\ radio' = "off" /\ setMode' = "sta" /\ link' = "none" /\ joined' = FALSE
  /\ events' = <<>> /\ epc' = "idle" /\ s_retry_num' = 0
  /\ wpc' = "start" /\ enWifiMode' = "AP" /\ stacount' = 0 /\ apcount' = 0
  /\ hpc' = "idle" /\ creds' = "none"
  /\ apBit' = FALSE /\ staBit' = FALSE
  /\ webserver_status' = "0x55" /\ server_data' = FALSE /\ server' = "none"

Restart == boot' = "off" /\ RamReset

\* WIFI_Mode_Check, for the values the program writes: MAX when NVS cannot be
\* opened.  ip_event_handler shares the variable with the handle, and leaves a
\* closed one behind for a check that it interrupts.
WIFI_Mode_Check ==
  {IF nvsMode = "STA" THEN "STA" ELSE "AP"}
    \union {m \in {"MAX"} : NvsFails}
    \union {m \in {"AP"} : epc \in {"saved", "served"}}

\* app_main checks twice: the access-point mode starts vTaskWifiHandler, the
\* station mode the Matter switch, and anything else nothing.
Boot ==
  /\ boot = "off"
  /\ \E first, second \in WIFI_Mode_Check :
       boot' = CASE second = "AP"                   -> "wifi"
                 [] second # "AP" /\ first = "STA" -> "matter"
                 [] second # "AP" /\ first # "STA" -> "nothing"
  /\ UNCHANGED <<flash, driver, events, event, handler, html, bits, web>>

\* The user switches a device on again that runs nothing.
PowerOn ==
  /\ boot = "nothing"
  /\ boot' = "off"
  /\ UNCHANGED <<flash, driver, events, event, handler, html, bits, web>>

PowerLoss ==
  /\ boot \in {"wifi", "matter"}
  /\ cycles < MaxPowerCycles
  /\ cycles' = cycles + 1
  /\ Restart
  /\ UNCHANGED <<nvsMode, staConfig>>

(***************************************************************************)
(* The Wi-Fi driver.                                                       *)
(***************************************************************************)
Post(e) ==
  /\ Len(events) < MaxEvents
  /\ events' = Append(events, e)

\* esp_wifi_stop; a station or a link that is lost may be reported.
RadioStop ==
  /\ radio' = "off" /\ link' = "none" /\ joined' = FALSE
  /\ \/ UNCHANGED events
     \/ joined /\ Post("AP_STADISCONNECTED")
     \/ link = "up" /\ Post("STA_DISCONNECTED")

\* esp_wifi_connect
Connect ==
  /\ link' = IF radio = "sta" /\ link = "none" THEN "connecting" ELSE link
  /\ UNCHANGED <<radio, setMode, joined>>

Driver == boot = "wifi"

Associate ==
  /\ Driver /\ link = "connecting" /\ staConfig \in Reachable
  /\ link' = "up"
  /\ Post("GOT_IP")
  /\ UNCHANGED <<flash, boot, radio, setMode, joined, event, handler, html, bits, web>>

FailToConnect ==
  /\ Driver /\ link = "connecting"
  /\ link' = "none"
  /\ Post("STA_DISCONNECTED")
  /\ UNCHANGED <<flash, boot, radio, setMode, joined, event, handler, html, bits, web>>

\* A phone joins the access point (max_connection is 1) or leaves it.
Join ==
  /\ Driver /\ radio = "ap" /\ ~joined
  /\ joined' = TRUE
  /\ Post("AP_STACONNECTED")
  /\ UNCHANGED <<flash, boot, radio, setMode, link, event, handler, html, bits, web>>

Leave ==
  /\ Driver /\ radio = "ap" /\ joined
  /\ joined' = FALSE
  /\ Post("AP_STADISCONNECTED")
  /\ UNCHANGED <<flash, boot, radio, setMode, link, event, handler, html, bits, web>>

(***************************************************************************)
(* The web server.  start_file_server keeps its data in a static pointer   *)
(* that stop_file_server does not free, so only the first start of a boot  *)
(* can succeed; the handlers wrap it in ESP_ERROR_CHECK, which aborts.     *)
(***************************************************************************)
StartFileServer ==
  /\ ~server_data
  /\ server_data' = TRUE /\ server' = "running"

\* The data may be there when httpd_start fails.
StartFileServerFails ==
  /\ server_data \/ StartFails
  /\ server_data' \in {server_data, TRUE}
  /\ UNCHANGED server

StopFileServer ==
  /\ server' = IF server = "running" THEN "stopped" ELSE server
  /\ UNCHANGED server_data

(***************************************************************************)
(* The event task.                                                         *)
(***************************************************************************)
Take(e) ==
  /\ boot = "wifi" /\ epc = "idle"
  /\ events # <<>> /\ Head(events) = e
  /\ events' = Tail(events)

StaStart ==
  /\ Take("STA_START")
  /\ Connect
  /\ UNCHANGED <<flash, boot, event, handler, html, bits, web>>

\* Faulty variant: the retries are counted without a limit.
StaDisconnectedNoLimit ==
  /\ Take("STA_DISCONNECTED")
  /\ staBit' = FALSE
  /\ Connect /\ s_retry_num' = s_retry_num + 1
  /\ UNCHANGED <<flash, boot, epc, handler, html, apBit, web>>

StaDisconnected ==
  /\ Take("STA_DISCONNECTED")
  /\ staBit' = FALSE
  /\ IF s_retry_num <= MaxRetry
     THEN Connect /\ s_retry_num' = s_retry_num + 1 /\ UNCHANGED apBit
     ELSE apBit' = TRUE /\ s_retry_num' = 0 /\ UNCHANGED driver
  /\ UNCHANGED <<flash, boot, epc, handler, html, web>>

ApStart ==
  /\ Take("AP_START")
  /\ apBit' = TRUE
  /\ UNCHANGED <<flash, boot, driver, event, handler, html, staBit, web>>

ApStaConnected ==
  /\ Take("AP_STACONNECTED")
  /\ apBit' = TRUE /\ staBit' = FALSE
  /\ epc' = IF webserver_status = "0x55" THEN "joining" ELSE "idle"
  /\ UNCHANGED <<flash, boot, driver, s_retry_num, handler, html, web>>

ServeStation ==
  /\ boot = "wifi" /\ epc = "joining"
  /\ StartFileServer
  /\ webserver_status' = "0xaa"
  /\ epc' = "idle"
  /\ UNCHANGED <<flash, boot, driver, events, s_retry_num, handler, html, bits>>

ApStaDisconnected ==
  /\ Take("AP_STADISCONNECTED")
  /\ apBit' = FALSE
  /\ UNCHANGED <<flash, boot, driver, event, handler, html, staBit, web>>

\* ip_event_handler, in the order of its effects: the mode is committed to
\* NVS, if it can be, the bits and the server follow, and the device restarts.
GotIp ==
  /\ Take("GOT_IP")
  /\ nvsMode' = "STA" \/ (NvsFails /\ UNCHANGED nvsMode)
  /\ epc' = "saved"
  /\ UNCHANGED <<staConfig, cycles, boot, driver, s_retry_num, handler, html, bits, web>>

ServeNetwork ==
  /\ boot = "wifi" /\ epc = "saved"
  /\ staBit' = TRUE /\ apBit' = FALSE
  /\ IF webserver_status = "0x55"
     THEN StartFileServer /\ webserver_status' = "0xaa"
     ELSE UNCHANGED web
  /\ epc' = "served"
  /\ UNCHANGED <<flash, boot, driver, events, s_retry_num, handler, html>>

\* Faulty variant: the handler returns instead of restarting the device.
GoOnAsStation ==
  /\ boot = "wifi" /\ epc = "served"
  /\ epc' = "idle"
  /\ UNCHANGED <<flash, boot, driver, events, s_retry_num, handler, html, bits, web>>

RestartAsStation ==
  /\ boot = "wifi" /\ epc = "served"
  /\ Restart
  /\ UNCHANGED flash

Starts == epc \in {"joining", "saved"} /\ webserver_status = "0x55"

AbortOnStart ==
  /\ boot = "wifi" /\ Starts
  /\ server_data \/ StartFails
  /\ Restart
  /\ UNCHANGED flash

EventStep ==
  \/ StaStart \/ StaDisconnected \/ ApStart \/ ApStaConnected \/ ServeStation
  \/ ApStaDisconnected \/ GotIp \/ ServeNetwork \/ RestartAsStation
  \/ AbortOnStart

(***************************************************************************)
(* vTaskWifiHandler.                                                       *)
(***************************************************************************)
LowTurn == boot = "wifi" /\ (events = <<>> \/ epc # "idle")

\* A pause of 200 ms: the html task has begun on credentials that waited, and
\* the event task has handled its events, unless a handler is held up.
AfterPause ==
  /\ LowTurn
  /\ creds = "none" \/ hpc = "stopped"
  /\ epc \in SlowHandlers \union {"idle"}

\* The task exists in access-point mode only, so its station branch is dead.
HandlerStart ==
  /\ LowTurn /\ wpc = "start"
  /\ apBit' = FALSE /\ staBit' = FALSE
  /\ wpc' = "loop"
  /\ \/ enWifiMode' = "AP" /\ radio' = "ap" /\ setMode' = "ap" /\ Post("AP_START")
     \/ enWifiMode' = "MAX" /\ NvsFails /\ UNCHANGED <<radio, setMode, events>>
  /\ UNCHANGED <<flash, boot, link, joined, event, stacount, apcount, html, web>>

ToStation ==
  enWifiMode = "AP" /\ ("STA" \in WIFI_Mode_Check \/ stacount >= StaPeriod)

\* What is read becomes the mode of the loop.
KeepAp ==
  /\ LowTurn /\ wpc = "loop" /\ enWifiMode = "AP"
  /\ stacount < StaPeriod
  /\ stacount' = stacount + 1
  /\ enWifiMode' \in WIFI_Mode_Check \ {"STA"}
  /\ UNCHANGED <<flash, boot, driver, events, event, wpc, apcount, html, bits, web>>

\* In any other mode the loop does nothing, for ever.
KeepNothing ==
  /\ LowTurn /\ wpc = "loop" /\ enWifiMode = "MAX"
  /\ UNCHANGED vars

LeaveAp ==
  /\ LowTurn /\ wpc = "loop" /\ ToStation
  /\ stacount' = 0 /\ enWifiMode' = "STA"
  /\ StopFileServer
  /\ wpc' = "staStop"
  /\ UNCHANGED <<flash, boot, driver, events, event, apcount, html, bits, webserver_status>>

\* Faulty variant: a lost network is seen only while the other bit is set.
ToApConnected == enWifiMode = "STA" /\ apBit /\ staBit

ToAp == enWifiMode = "STA" /\ apBit

KeepStation ==
  /\ LowTurn /\ wpc = "loop" /\ enWifiMode = "STA"
  /\ ~ToAp
  /\ IF apcount + 1 >= ApPeriod /\ ~staBit
     THEN apcount' = 0 /\ Connect
     ELSE apcount' = (IF apcount < ApPeriod THEN apcount + 1 ELSE apcount) /\ UNCHANGED driver
  /\ UNCHANGED <<flash, boot, events, event, wpc, enWifiMode, stacount, html, bits, web>>

LeaveStation ==
  /\ LowTurn /\ wpc = "loop" /\ ToAp
  /\ enWifiMode' = "AP"
  /\ StopFileServer
  /\ wpc' = "apStop"
  /\ UNCHANGED <<flash, boot, driver, events, event, stacount, apcount, html, bits,
                 webserver_status>>

\* httpd_stop with the handle of a server that is already stopped: undefined,
\* a crash or (LeaveAp, LeaveStation) nothing.
StaleStop ==
  /\ LowTurn /\ wpc = "loop" /\ (ToStation \/ ToAp)
  /\ server = "stopped"
  /\ Restart
  /\ UNCHANGED flash

\* Faulty variant: webserver_status is not reset with the server.
StopRadioKeepsStatus ==
  /\ LowTurn /\ wpc \in {"staStop", "apStop"}
  /\ RadioStop
  /\ wpc' = IF wpc = "staStop" THEN "staGap" ELSE "apGap"
  /\ UNCHANGED <<flash, boot, setMode, event, enWifiMode, stacount, apcount, html, bits, web>>

StopRadio ==
  /\ LowTurn /\ wpc \in {"staStop", "apStop"}
  /\ webserver_status' = "0x55"
  /\ RadioStop
  /\ wpc' = IF wpc = "staStop" THEN "staGap" ELSE "apGap"
  /\ UNCHANGED <<flash, boot, setMode, event, enWifiMode, stacount, apcount, html, bits,
                 server_data, server>>

\* The keys wifissid and wifipass, which would replace the default, are written
\* nowhere.
WIFI_vConfigStation == staConfig' = Default

\* esp_wifi_start of a radio that already runs reports nothing; the end of an
\* access point that runs is the end of its stations.
StartStation ==
  /\ AfterPause /\ wpc = "staGap"
  /\ setMode' = "sta" /\ radio' = "sta" /\ joined' = FALSE
  /\ WIFI_vConfigStation
  /\ IF radio = "off" THEN Post("STA_START")
     ELSE (joined /\ Post("AP_STADISCONNECTED")) \/ UNCHANGED events
  /\ wpc' = "staWait"
  /\ UNCHANGED <<nvsMode, cycles, boot, link, event, enWifiMode, stacount,
                 apcount, html, bits, web>>

\* 240 seconds for the connected bit.
Connected ==
  /\ LowTurn /\ wpc = "staWait" /\ staBit
  /\ wpc' = "loop"
  /\ UNCHANGED <<flash, boot, driver, events, event, enWifiMode, stacount, apcount, html,
                 bits, web>>

NotConnected ==
  /\ LowTurn /\ wpc = "staWait" /\ ~staBit
  /\ apBit' = TRUE /\ staBit' = FALSE
  /\ wpc' = "loop"
  /\ UNCHANGED <<flash, boot, driver, events, event, enWifiMode, stacount, apcount, html, web>>

StartAp ==
  /\ AfterPause /\ wpc = "apGap"
  /\ setMode' = "ap" /\ radio' = "ap" /\ link' = "none"
  /\ IF radio = "ap" THEN UNCHANGED events ELSE Post("AP_START")
  /\ wpc' = "loop"
  /\ UNCHANGED <<flash, boot, joined, event, enWifiMode, stacount, apcount, html, bits, web>>

HandlerStep ==
  \/ HandlerStart \/ KeepAp \/ KeepNothing \/ LeaveAp \/ KeepStation \/ LeaveStation \/ StaleStop
  \/ StopRadio \/ StartStation \/ Connected \/ NotConnected \/ StartAp

(***************************************************************************)
(* The page and htmltomcudata_task.                                        *)
(***************************************************************************)
Submit(c) ==
  /\ boot = "wifi" /\ joined /\ server = "running"
  /\ creds = "none"
  /\ creds' = c
  /\ UNCHANGED <<flash, boot, driver, events, event, handler, hpc, bits, web>>

\* Faulty variant: the mode is saved with the credentials, not once they work.
ApplyAndSave ==
  /\ LowTurn /\ hpc = "idle" /\ creds # "none"
  /\ RadioStop
  /\ setMode' = "sta"
  /\ staConfig' = creds /\ nvsMode' = "STA"
  /\ hpc' = "stopped"
  /\ UNCHANGED <<cycles, boot, event, handler, creds, bits, web>>

ApplyCredentials ==
  /\ LowTurn /\ hpc = "idle" /\ creds # "none"
  /\ RadioStop
  /\ setMode' = "sta"
  /\ staConfig' = creds
  /\ hpc' = "stopped"
  /\ UNCHANGED <<nvsMode, cycles, boot, event, handler, creds, bits, web>>

TryCredentials ==
  /\ LowTurn /\ hpc = "stopped"
  /\ radio' = IF radio = "off" THEN setMode ELSE radio
  /\ link' = IF radio' = "sta" /\ link = "none" THEN "connecting" ELSE link
  /\ CASE radio # "off"    -> UNCHANGED events
       [] setMode = "sta"  -> Post("STA_START")
       [] setMode = "ap"   -> Post("AP_START")
  /\ hpc' = "idle" /\ creds' = "none"
  /\ UNCHANGED <<flash, boot, setMode, joined, event, handler, bits, web>>

HtmlStep == ApplyCredentials \/ TryCredentials

(***************************************************************************)
(* The Matter switch, as far as it shares flash with provisioning.         *)
(***************************************************************************)

\* app_event_cb, kInterfaceIpAddressChanged: the result of
\* start_file_server is ignored.
InterfaceIpAddressChanged ==
  /\ boot = "matter"
  /\ StartFileServer \/ StartFileServerFails
  /\ apBit' = FALSE /\ staBit' = TRUE
  /\ UNCHANGED <<flash, boot, driver, events, event, handler, html, webserver_status>>

\* The page is served here too, and the same task applies its credentials.
ChangeCredentials(c) ==
  /\ boot = "matter" /\ server = "running"
  /\ staConfig' = c
  /\ UNCHANGED <<nvsMode, cycles, boot, driver, events, event, handler, html, bits, web>>

\* WIFI_Mode_Save(WIFI_MODE_AP) of app_reset.cpp, when NVS does not refuse.
SelectAp ==
  /\ boot = "matter" /\ nvsMode # "AP"
  /\ nvsMode' = "AP"
  /\ UNCHANGED <<staConfig, cycles, boot, driver, events, event, handler, html, bits, web>>

\* The restarts of vQuitTimersCallback, of the clicks and of the session.
LeaveMatter ==
  /\ boot = "matter"
  /\ Restart
  /\ UNCHANGED flash

Init ==
  /\ nvsMode = "none" /\ staConfig = Default /\ cycles = 0
  /\ boot = "off"
  /\ radio = "off" /\ setMode = "sta" /\ link = "none" /\ joined = FALSE
  /\ events = <<>> /\ epc = "idle" /\ s_retry_num = 0
  /\ wpc = "start" /\ enWifiMode = "AP" /\ stacount = 0 /\ apcount = 0
  /\ hpc = "idle" /\ creds = "none"
  /\ apBit = FALSE /\ staBit = FALSE
  /\ webserver_status = "0x55" /\ server_data = FALSE /\ server = "none"

Next ==
  \/ Boot \/ PowerOn \/ PowerLoss
  \/ Associate \/ FailToConnect \/ Join \/ Leave
  \/ EventStep \/ HandlerStep \/ HtmlStep
  \/ \E c \in Configs : Submit(c) \/ ChangeCredentials(c)
  \/ InterfaceIpAddressChanged \/ SelectAp \/ LeaveMatter

Spec == Init /\ [][Next]_vars

(***************************************************************************)
(* The device boots, its tasks run, and an attempt to connect ends.        *)
(***************************************************************************)
Fairness ==
  /\ WF_vars(Boot)
  /\ WF_vars(EventStep)
  /\ SF_vars(HandlerStep)
  /\ SF_vars(HtmlStep)
  /\ WF_vars(Associate \/ FailToConnect)

FairSpec == Spec /\ Fairness

------------------------------------------------------------------------------
(***************************************************************************)
(* What provisioning promises.                                             *)
(***************************************************************************)

\* webserver_status 0xaa is what keeps the handlers from starting the server
\* again: it is set only while the server runs, or while vTaskWifiHandler is
\* between stopping the server and noting it.
StatusMeansRunning ==
  boot = "wifi" /\ webserver_status = "0xaa" =>
    server = "running" \/ wpc \in {"staStop", "apStop"}

\* Station mode is saved only with a configuration in flash that reaches a
\* network: the mode that the next boot trusts was tested.
SavedModeHasNetwork ==
  boot = "wifi" /\ nvsMode = "STA" => staConfig \in Reachable

\* No mistake of the user strands the device: whatever credentials are tried,
\* the access point comes back or the Matter switch starts, unless the mode
\* could not be read.
ApReturns ==
  boot = "wifi" ~> radio = "ap" \/ boot = "matter" \/ boot = "nothing" \/ enWifiMode = "MAX"

\* A network that was reached is used: station mode once saved, the device comes
\* up as the Matter switch, whatever resets it first, unless NVS cannot be opened.
SavedModeIsUsed == boot = "wifi" /\ nvsMode = "STA" ~> boot \in {"matter", "nothing"}

\* ESP_ERROR_CHECK(start_file_server("/spiffs")), myWiFi.c:85 and :198: the
\* handlers assert that the start succeeds.
StartSucceeds == boot = "wifi" /\ Starts => ~server_data
==============================================================================
