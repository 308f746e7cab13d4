# Verification of matter_light_switch

The repository is the firmware of a Matter wall switch on an ESP32-C3: a push
button and a relay, commands to other Matter devices, an access-point mode in
which a web page takes the credentials of a network, an OTA update, a small
file server, web pages that send settings as text, an indicator LED, a battery
monitor and a log. This directory holds its TLA+ model. TLC checks it
on small instances; TLAPS proves every invariant and every action property of the
passing runs for every value of the constants (one of them under an assumption on
the scheduling, section 3).

```
tlc -workers 2 -config switch_safety.cfg LightSwitch.tla     # any run below
tlapm LightSwitchProofs.tla                                  # any *Proofs module
```

`PROJECT.json` lists the components, runs, mutants, theorems, hazards and
findings, and gives for each definition the lines of code it stands for.

## 1. Inventory

FreeRTOS runs on one core. Tasks, in order of priority: `esp_timer` (22, the
button callbacks), `sys_evt` (20, Wi-Fi and IP events), `httpd` (5, all HTTP
handlers, one at a time), `vTaskWifiHandler` and `htmltomcudata_task` (2), and
at 1 the FreeRTOS timer service (callbacks of the software timers), the LED,
log and ADC tasks. They share event bits, global variables, one timer command
queue of ten slots, a message buffer of 100 bytes, NVS and a SPIFFS partition.

| Component | Code | State | Operations | Talks to |
|---|---|---|---|---|
| light switch | `main/app_driver.cpp`, `src/app_reset.cpp` | lamp pin, `Turn_off`, click count, `perform_factory_reset`, NVS mode | press, hold, release; auto-off callback; click callback; `WIFI_Mode_Save` | timer queue; the web pages pull the same pin |
| timer service | FreeRTOS, used by the two files above and `OTAServer.c` | armed timers, command queue | execute a command, expire a timer | all callbacks; every `xTimerReset` and `xTimerStop` waits without limit |
| web pages and polling | `main/OTAServer.c` 108-147, 330-390, 654-658 | `sse_id`; a force-off bit that only dead code reads | index, download page, poll, session timeout | lamp pin, timer queue |
| network provisioning | `main/myWiFi.c`, `main/app_main.cpp` | mode in NVS, station configuration, two event bits, retry and wait counters | event handlers, mode loop, boot | radio, web server, credentials task |
| web server lifecycle | `OTAServer.c` 1102-1145, 1267-1271 | `server_data`, the handle, `webserver_status` | start, stop | three tasks call it |
| firmware update | `OTAServer.c` 149-282 | `flash_status`, OTA handle, two slots, otadata | upload, status, restart | boot loader |
| page commands | `OTAServer.c` 284-328, `main/htmltomcu.c` | message buffer, parser array, durations, status, credentials | post, parse | provisioning, switch settings, log task |
| file store | `OTAServer.c` 661-1079 | files, heap | upload, delete, download, list | SPIFFS |
| log files | `main/log_spiffs.c` | file index, place, two wake-up bits | take over and save the place (the writing branch is never reached) | battery bit, credentials |
| battery monitor | `main/ADC1_single_read_Task.c` | low-battery bit | sample, deep sleep | BIT5, shared with the log task |
| indicator LED | `main/led_Task.c`, `app_inclued.h` macros | three bits, `duty` | choose a pattern, blink, breathe | `app_main` and the Matter task |
| Matter client | `main/app_driver.cpp` 26-256, 292-310 | the console buffer, commands that wait | console lines, button's Toggle, callbacks | client layer of esp-matter |

Which behaviours are hard, and what makes each component correct:

* **Switch.** A press, an expiry and a queued command can come in any order;
  a release counts its click and then waits for the flash to save the mode;
  each callback also waits, inside the timer service, for room in the queue
  that only the timer service empties. Correct means: a lit lamp always has its
  auto-off ahead; clicks are always decided; clicks restart the device only
  after access-point mode was saved (unless NVS refused it, or the release still
  waits for the flash), and saving it leads to a restart.
* **Provisioning.** Three tasks drive one radio and one server, and events of
  an old configuration are delivered after a new one was written. Correct
  means: station mode is saved only for a network that was reached, the note of
  the server agrees with the server, and no failure strands the device.
* **Update.** Timeouts, broken connections, files that are no firmware, a second
  browser, a second upload, loss of power. Correct means: the update is atomic.
* **Page commands.** Text is parsed in an array that keeps older bytes, with
  8-bit lengths and positions; bodies may arrive in pieces or not at all, and the
  array they arrive in is not initialised. Correct means:
  what is taken from a message that arrived whole is what was typed, and a
  message starts no command but that of the request whose bytes it begins with.
* **File store.** The partition is smaller than the largest file accepted.
  Correct means: failed uploads leave nothing, and stored files do not change.
* **Indicator.** A pattern is chosen by clearing bits and setting others, and
  `duty` means opposite things to the two kinds of pattern. Correct means: no
  pattern that nobody chose is shown, and one that lasts moves the LED.
* **Log and battery.** One bit has two names and two writers, and the place is
  in RAM between its start and its save. Correct means: only credentials make
  the device save and sleep, and a place with room is never lost.
* **Matter client.** Every console line writes the same buffer, and commands
  read it when their session is there. Correct means: a command does what was
  typed, and when its buffer was reused it sends nothing that was refused.

Dead code that is not modelled: `systemRebootTask`, the first
`vTaskWifiHandler` under `#if 0`, the station branch at the start of
`vTaskWifiHandler` (the task exists in access-point mode only),
`WIFI_Mode_Save` of `myWiFi.c`, the branch of `log_task` that writes messages
with `spiffs_write_temperature` (nothing clears the bit that asks for it),
`led_driver_set_power_c3`, `get_detectIR_status`.

## 2. The modules

### LightSwitch, LightSwitchProofs

The switch after it has joined its network. Each callback is cut where another
task can see the difference: a callback that sends a timer command has one
action up to the send and one from it on (`PressDown`, `RestartAutoOff`,
`UpdateBoundDevices`; `Release`, `CountClick`); the release that saves the mode has
another behind its count, since the commit waits for the flash (`SaveMode`, and
`SaveBeforeErase` and `Erase` for the factory reset); and the callbacks of the timer
service, which any other task preempts, one per access to shared state
(`StopOwnTimer`, then `AutoOffPin` and `AutoOffFlag`, or `KeepRunning` and
`ForgetClicks`, `ClickRestart`, or `EndSession`). `ButtonTurn`, `HttpTurn`
and `ServiceTurn` are the priorities: a lower task steps only when no higher
one can. `queue` and `armed` model the timer service (external). `Execute` of
a reset may arm the timer or, when the whole period has passed since the
command was queued, run its callback at once, as `prvProcessReceivedCommands`
does. Time is left out: an armed timer may expire at any step.
`late` is a history variable: the eighth release fell between the click
callback's check and its clearing of the count. With `NvsFails`,
`WIFI_Mode_Save` may write nothing, since the code goes on after every failure of
NVS; `refused` (history) notes it.

### WifiProvisioning, MCWifiProvisioning, WifiProvisioningProofs

The device that boots for provisioning, and of the Matter boot what shares its
flash. `epc`, `wpc` and `hpc` say where the event task, `vTaskWifiHandler` and
`htmltomcudata_task` stand at a blocking call or between two effects that
another task may see. `LowTurn` is the priority of the event task over the
other two. The Wi-Fi driver (`Associate`, `FailToConnect`, `Join`, `Leave`,
`Post`, `RadioStop`, `Connect`) is external: it connects only to reachable
configurations, may fail at any time, and may or may not report what
`esp_wifi_stop` ends. `httpd_stop` on a server already stopped is undefined:
`StaleStop` restarts the device, `LeaveAp`/`LeaveStation` do nothing. A failing
`ESP_ERROR_CHECK` is `AbortOnStart`.

`WIFI_Mode_Check` is a set of results. With `NvsFails` NVS may refuse to be
opened: the result is then `WIFI_MODE_MAX`, which makes a boot start nothing
(`app_main` checks twice, so the two results may differ) and makes the mode loop
do nothing for ever (`KeepNothing`); and `GotIp` may save nothing. With
`StartFails` the server may fail to start for want of memory or in `httpd_start`
(`StartFileServerFails`), before or after its static data is allocated; the event
handlers then abort, the Matter switch goes on. `ip_event_handler` keeps its NVS handle in the
same file-level variable, so a check that it interrupts may read nothing and answer
"AP". `WIFI_vConfigStation` always writes the default network: no code writes
the keys it looks for.

### OtaUpdate, OtaUpdateProofs, FirmwareUpdate

`OtaUpdate` has the three handlers, one action per reception and per outcome of
`esp_ota_end`/`esp_ota_set_boot_partition`, the slots and the boot loader
(external), and a loss of power anywhere. The uninitialized `ota_handle` is a
choice of outcomes of `esp_ota_end`. `FirmwareUpdate` is the abstract promise:
an image that runs, an image that the next boot runs, both whole; the two change
only by `Decide` and `Boot`. The refinement maps `next` to the image that
the boot loader *would* choose (`Bootable`), which is not always the one otadata
selects.

### HtmlCommand, MCHtmlCommand, HtmlCommandProofs

`Body` is what the pages send, `Post`/`Receive`/`Send`/`DropOversize`/`GiveUp`
the HTTP handler with its message buffer, `Take` one round of
`htmltomcudata_task`, with the keyword search and the number scanner as
functions of the array `data`. `Overlay` is a reception that leaves older bytes
behind. A browser that closes its connection makes `httpd_req_recv` return 0, which
is not an error to the code: `ReceiveNothing` leads to one more message of whatever
`ota_buff` holds, an array on the stack that may still hold an earlier request, or
not (`Post`). `author` (history) is the request whose bytes it begins with.

Bytes are digits, colons, the first byte of a keyword, or ".". Lengths, positions and
the status wrap at 256, numbers at `Uint32`. Only the keywords that the pages send and
that change state are modelled; the six single-field timing keywords change none, and
no page sends `page_feed`. `Keyed` and `Command` are the search, `Field` is one of the
parser's loops up to a colon, `Behind` what it adds to `first_bit`.

`Typed` is what a field of the timing page may hold when the script sends it: digits
and other characters (a decimal point, an exponent, a sign), in any order and number.
`Durations` are those typed in whole numbers, about which `DurationsExact` speaks;
others are parsed as the code does, which skips what is no digit.

The copies of name and password have no bound, and the page limits neither
(`Overrun`). Up to 32 and 64 bytes they fit, and `snprintf` keeps 31 and 63 of
them. Beyond, what is written behind an array is undefined: the strings may come out
as any of `Garbage`, the start of the parser's array may be overwritten, or the
program stops (`Crash`), which restarts the device.

Three abstractions of the data: names and passwords hold no keyword and no colon that
would end one; a loop that runs past the end of `data` finds neither digits nor colons
there; and bytes written over `data` are taken for no character the parser knows.

### FileStore, MCFileStore, FileStoreProofs

Upload, deletion, download, and the listing of a directory (`GetDirectory` for the
GET handler, `DownloadDirectory` for the POST handler, both through
`http_resp_dir_html`, which answers 404 when the directory cannot be opened). A size counts buffers of the C library; the `tail`
of a file is what waits in memory until `fclose`, whose result the code
ignores. `leaked` counts copies of names that failed downloads keep;
`DownloadWithoutMemory` is the write through the null pointer, a panic. A loss
of power keeps any prefix of the file being written (SPIFFS, external).

### Indicator

`pattern` is the three bits; `ClearBits` and `SetBits` are the two steps of a macro,
with `chosen` and `replaced` the macro executed last and the one before it
(history). `app_main` has the priority of the LED task, so `Wake` may fall between
its steps; the Matter task is above it and is not interrupted. `Wake` is one period of
`led_instructions`: `Breath`, `Blink` or `Constant`. The fades and pauses of a period
(`vTaskDelay`) are left out, since nothing but time passes in them. `turn`
flips with each period so that a period is never a stutter.

### LogTask

`place` is the structure in NVS, `Start` the outcomes of reading it, `Save` one turn of
the loop that serves a request, `Forget` the turn after a bit was cleared.
`BatteryGood` and `BatteryLow` are the battery task's uses of BIT5, `TakeNetwork` the
credentials task's of both bits. The place in NVS holds no `deleteFlag`: a file that
was about to be begun is appended to after a restart, as in the code.

### MatterClient, MatterClientProofs

A `Line` of the console names a cluster, a command and parameters; `Later` is a line
whose command waits for a session, `Refuse` one with a wrong parameter, which has
written the buffer up to there all the same. `Session` runs the callback, which
reads the buffer as it is then; commands to a group run at once. Sessions come in any
order or never (external). A callback without data reads a pointer that was not
set: the outcome is any. `later` (history) is the set of first parameters that other
lines, also refused ones, have brought to the buffer since. Parameters are shorter than the ten digits of the buffer and at
most ten of them are typed, as the console's own limits have it.

### MCServices, ServicesProofs

The three services share only the restart; `service` chooses which of them moves,
so that one run checks each on its own without their product. `ServicesProofs` has
the proofs about the indicator and the log task, and that the composition is a
behaviour of each of the three.

## 3. The runs

| Run | States | Shows |
|---|---|---|
| `switch_safety` | 5,929,580 | lamp, clicks and mode invariants in every interleaving; a service that waits for itself stays so |
| `switch_liveness` | 268,962 | the lamp goes off, clicks are decided, unless the service waits for itself |
| `wifi` | 35,110 | note of the server, tested station mode; the access point returns, a saved mode is used |
| `ota` | 15,456 | whole image, bootable success, atomicity; uploads end and reported updates run |
| `command` | 52,338 | durations, status and credentials of whole messages are exact; no message starts another request's command; every request ends |
| `files` | 14,608 | no pieces, no loss, no change of stored files; uploads end |
| `services` | 166,044 | indicator: no strange pattern, patterns move and are shown; log: saved only when asked, what is saved is current and kept, requests are served; client: commands do what was typed, reused buffers send nothing refused |
| `wifi_server_start` | violation | the server cannot be started twice in a boot |
| `ota_timeout` | violation | a timeout is not retried |
| `ota_status` | violation | a success is wiped by another browser |
| `command_stop` | violation | a stop can be stored as a run |
| `files_uploaded` | violation | "uploaded successfully" for a file without its end |

The five violations are disagreements between the code and its own comments,
answers or assertions, listed under "findings":

1. `start_file_server` refuses while its static `server_data` is set, and
   `stop_file_server` never clears it; the next join aborts at `ESP_ERROR_CHECK`.
2. The `continue` after a timeout (`OTAServer.c:198`) is in a `do ... while
   (recv_len > 0 ...)`, so it ends the loop that the comment wants repeated.
3. `GET /index` sets `flash_status` to 0 between an upload's success and the
   page's question for it; the restart never comes.
4. The last field of a timing has no colon behind it; after a longer message it is
   read on into old digits. One digit makes of 85 at most 91 (modulo 256), but the
   three of an earlier 170 make it 85170, which is 178: that counts as running.
5. The result of `fclose` is not looked at: the tail of a file is lost when the flash
   refuses it (TLC's trace) or the partition is full.

Met while modelling, visible in the model, without a run of their own: a press
between pin and flag of the auto-off callback, or after a page forced the lamp
off, leaves the lamp as it was (`app_driver.cpp:276` looks at `Turn_off` only);
`APP_event_WIFI_AP_CONNECTED_BIT` is set as soon as the access point starts
(`myWiFi.c:175`), though its comment says "a device has joined";
`download_post_handler` writes through `filename` before it tests it; the console
example of the repository's README (section 2.3) types 0x78 where the code reads a
command's id, so the line sends command 120 without parameters, which the callback
does not support (a line of `MCLines`); an NVS that cannot be opened leaves the mode
loop idle until the power is switched, which `ApReturns` exempts by name;
the timing page accepts decimals, and the parser skips the point: 1.5 hours are stored
as 15; a name of 32 bytes or a password of 64, both legal, loses its last byte, and
longer ones overrun their arrays (`htmltomcu.c:138`); a browser that closes its
connection before its first byte may repeat the command of an earlier request;
a restart by clicks comes up in station mode when the commit of the mode was refused or
the click timer fires while it is under way.

### Bounds

* `QueueLength` is 3 (safety) and 2 (liveness), for 10: three slots hold a stop, a
  reset and another stop of one timer, the shortest sequence in which a command
  takes effect after its reason is gone, or one command of each timer; with two a
  reset can stand before or behind the stop of a callback that is still running.
  The theorems cover every length. `NvsFails` is TRUE in the run of the
  invariants; in that of liveness, where the saved mode plays no part, it is FALSE.
  `RestartClicks`/`FactoryClicks`/`CountModulus` are 2/3/4 for 8/16/256 in the same
  order, so that every threshold and the wrap are reached; so are `SseMiddle`
  and `SseEnd` (3; in the liveness run 1, so that every poll restarts the session
  timer and competes for the queue).
* `MaxRetry`, `StaPeriod`, `ApPeriod` are 1, 2, 2 for 100, 720, 1800: each limit is
  reached, passed and reset. `MaxEvents` is 3 events waiting at once,
  `MaxPowerCycles` 1. `Configs` has the factory network, another one and a
  mistyped one. `SlowHandlers = {"joining"}`: the handler that starts the
  server for a phone may be held up for longer than the 200 ms pauses of the mode
  loop, the handler of GOT_IP (a commit to NVS, the server if it does not run,
  the restart) may not: were it slower, the loop could write the factory
  configuration between its commit and its restart. With `MaxEvents` 4
  and 5 the safety properties hold, too. `NvsFails` and `StartFails` are TRUE, and
  FALSE in `wifi_server_start`, whose violation needs no such failure.
* `Pieces` is 3 of which 2 carry the image, so an upload can stop before its
  image, after it, and at its end; three images tell current, old and new apart.
* `BufferSize` and `DataSize` are those of the code; `Uint32` is 2^19, above every
  duration of the runs (TLC's integers end below 2^32). `MaxPosts` is 2: every
  promise relates a request to what one earlier request has left in the arrays or in
  the message buffer (the theorems cover any number). The requests are the page's
  default timing, a shorter one, a longer one with a decimal, an exit, a pairing
  code, and networks at every limit: 31+55 and 31+56 bytes just fit the buffer and just
  do not; passwords of 63, 64 and 65 bytes and names of 31, 32 and 33 fit, are cut and
  overrun. `Garbage` has a longest and a short pair. `Cuts = {14}` splits a body
  behind its keyword. Runs of this module
  switch the deadlock check off because requests end there; the `switch_*`
  runs because the modelled part ends when the device leaves for
  access-point mode.
* The partition holds 3 buffers and `MaxSize` is 4, so one accepted file does
  not fit, one is refused, one fills it exactly and one fails in its tail.

* `Full`, `Margin`, `InUse` are 3, 1, 2 for a tenth of the partition, 128 bytes and
  what it tells: a place can have room, be full, or lack its flag
  (`MCEarlier`). `MaxPending` is 2: one command waits while another line writes the
  buffer; `MCLines` has a line for every path, cluster and outcome.

### Fairness

* Switch: a callback that started goes on; the timer service is the lowest task
  and gets strong fairness, since higher tasks preempt it but are idle again and
  again (buttons are sampled every few milliseconds, a page polls once a
  second); an armed timer comes due. Presses, pages and losses of power have none.
* Provisioning: event handlers run; the two lower tasks get strong fairness, as
  they wait while events are handled; an attempt to connect ends. Users have none.
* Services: a writer of the bits goes on, and boot with it; the LED task and the
  log task get their turn again and again, though tasks above them come between
  (strong fairness). Neither sleeps for ever: their waits have time limits.
* Update, commands, files: handlers go on, httpd reports a silent or closed
  connection, the parser task runs. No browser is assumed to send anything but
  in `files`, where the code repeats a timeout for ever: there the browser
  sends the rest or its connection breaks.

Every property of a passing run is listed with a mutant in `PROJECT.json`: a
faulty variant of one definition of the model (marked "Faulty variant") under
which TLC finds that property violated.

## 4. What is proved

`LightSwitchProofs`, from `LightSwitchAssumption` only (positive queue length, click
thresholds in order and below the modulus):

* `TypeCorrect`: `TypeOK`, with the bound of the queue.
* `AutoOffGuaranteed` (`LampIsTimed`) and `ClicksExamined` (`ClicksAreTimed`): each is
  inductive with `TypeOK`, because it is stated by `WillFire(t)`, which looks at
  the *last* command queued for a timer. Lemmas on `Send`, `Execute` and
  `Expire` say how `WillFire` changes; each action uses one of them.
* `RestartsInAP` (`RestartMeansAP`) and `SavedModeIsApplied` (`SavedModeApplies`): not
  inductive alone. `ModeInv` adds `DecisiveClicks`: a factory reset is under
  way as soon as the count reaches its threshold, a decisive count is cleared
  only after a late release, and a release that is about to save the mode has counted
  a decisive click. Both cover an NVS that refuses the save, and the callback that
  runs while the release waits for the flash.
* `SelfWaitForever` (`SelfWaitIsFinal`): from the disabledness of every step that
  empties the queue.

`OtaUpdateProofs`, from `OtaAssumption`: `OtaInv` adds to the types and the two
safety properties that during a reception the slot holds as many pieces as
were received (`UploadInv`), without which "success is bootable" does not survive
`Finish`. From it `TypeCorrect`, `RunningStaysWhole`, `SuccessBoots` and
`UpdateImplementsAtomic`: initial states map to initial states and each step to
`Decide`, `Boot` or a stutter.

`FileStoreProofs`, from `FileStoreAssumption`: `FileInv` is `TypeOK`, `NothingLost` and
`PartialIsExplained` together; the second bounds what can still be received, which
keeps sizes typed and makes `Close` leave only whole files or files without their tail.
From it `TypeCorrect`, `NoPiecesLeft`, `NoBufferLost` and, as an action property, `FilesStay`.

`WifiProvisioningProofs`, from `WifiAssumption`: `TypeCorrect`; `StatusIsTrue`
(`StatusMeansRunning`), inductive once the other boots are known to leave the note
alone; and `SavedModeWasTested` (`SavedModeHasNetwork`), when only the handler of a
phone may outlast the pauses of the mode loop (`SlowHandlers \subseteq {"joining"}`). The
last one needs a chain, `NetworkInv`: a radio in station mode has no phone joined, so
no credentials can be submitted, and none wait to be applied (`RadioInv`); from the
moment an address is posted until the restart, the radio is not an access
point and the configuration in flash is one that was reached (`GotInv`); while
provisioning runs, station mode is in NVS only during that handler (`SavedInv`).
`JoinInv` covers the handler that is held up: the first start of the server follows
no credentials, so until it is done the link is down and no address waits, and the bits
it has set keep the loop from connecting; a later one (`Doomed`) aborts, so that nothing
need be known of it. `PauseEndsQuiet` is the one place where the assumption on the
handlers is used.

`ServicesProofs`, the indicator: the bits follow from the last two macros (`BitsFollow`), and what the
LED shows from `duty` and the pattern read last (`DutyFollows`). From these
`OnlyChosenPatterns` and `PatternsAreVisible`.

`ServicesProofs`, the log task, from `LogTaskAssumption`: the bit of the credentials has been set only by
them, a place taken over stands in RAM as in NVS, and a device that may sleep is
in its loop. From these `SleepWasAsked`, `SleepIsSafe` and `PlaceSurvives`.

`ServicesProofs`, the three together: `ServicesKeepTheirSpecs`, that `ServicesSpec`
implies `LogSpec`, `LedSpec` and `ClientSpec` (each step of the composition is a step
of one service and a stutter of the others), hence `ServicesTypes` and, by the same
implication, every theorem about one of the three for the specification that TLC runs.

`MatterClientProofs`, from `ClientAssumption`:
every command that waits finds its own parameters in the buffer, or the first
parameter of its own line or of a `later` one, and never one that was refused
(`WaitingFindOwn`). From it `CommandsAsTyped`, for any number of commands.

`HtmlCommandProofs`, from `CommandAssumption` (timings whose fields are any text of
digits and other characters, passwords of eight bytes or more, arrays of 92 to 255
bytes, a buffer that holds one array and a length), in two halves.

The first is about text. Its results hold for all inputs, which takes induction; the
library's induction theorems have an operator as parameter, so `LeastNatural` and
`InductionOnSet` state induction with sets instead (a set of numbers that is not
empty has a least one), and `RecursionHasSolution` shows that a recursive function of
the kind used here satisfies its equation. With them:

* `NumberOfDecimal`: the loop that reads digits gives back every number below `Uint32`
  that was written in decimal. `NumberIgnoresOthers`: bytes that are no digits change nothing.
* `FieldsAreParts`: for every timing and whatever lies behind the message in the
  array, the seven loops cut out the seven parts that the page wrote; the last one
  begins where the status stands. From it `DurationsRead` (with `DurationsFit`: what is
  below `Uint32` as a sum is so in its parts) and `StatusRead`.
* `BodyText`, `NetworkText`, `CommandFound`, `PassFound`: where keywords stand in the
  bodies, and which one the search over 80 bytes stops at.
* `UsedOfOneMore`, `UsedOfOneLess`: the room that messages take up in the buffer.

The second is the inductive invariant `CommandInv` of handler, message buffer and
parser. The promises are not inductive alone, since they speak of what was parsed and
not of what is on its way. `Shape` says that behind the first byte no array and no
message holds a keyword that begins a command (`Clean`); that a message which begins
with one begins with that of its own request and, if it is whole, is its body
(`HandlerExact`, `BufferSound`): later pieces overwrite the start of the array and
begin with something else, and a message without a reception is what the request
before it left there, whose `author` it carries. `NothingBehind` and `TimingsSeen` tie
the array to the longest message taken; `DamagedArray` says that bytes of an overrun
leave all of this true. `CrashKeeps` starts it anew. From it `TypeCorrect`, `DurationsAreExact`, `StatusIsExact`,
`NetworkIsExact` and, as an action property, `CommandIsOwn` (`OwnCommandOnly`).

Only model-checked, because they need fairness and ENABLED, which are beyond the
prover: `LampGoesOff`, `ClicksDecided`, `ApReturns`, `SavedModeIsUsed`,
`UploadEnds` (twice), `SuccessIsRun`, `RequestEnds`, `RequestIsServed`,
`PatternIsShown`. The five violations are counterexamples and need no proof.

## 5. What is not modelled

* Periods: one second for clicks, the auto-off and the session time are "later".
* Pin configuration, the set-up of the LED driver and of the ADC, and the Matter
  node with its clusters, in which the application keeps no state.
* The texts of answers, and the causes of an NVS failure: what refuses to be opened,
  written or committed has one effect, that the mode or the place is not read or
  not saved.
* The fades and pauses of the LED task, in which nothing but time passes.
* The re-creation of the session timer by `start_file_server`
  (`OTAServer.c:1106`): nothing reads the bit that its callback clears, and an old
  timer that comes due looks like a session that ends, which the model allows
  at any time.
* The dead code of section 1, headers of the framework, generated code, and the
  second LED program `多功能LED`, which is not part of the build.

## 6. Plan

Done, in this order: `LightSwitch` with proofs; `WifiProvisioning`; `OtaUpdate`,
`FirmwareUpdate` with proofs; `HtmlCommand`; `FileStore` with proofs; `LogTask`,
`Indicator` and `MatterClient` with proofs, joined by `MCServices`; NVS failures in
`WifiProvisioning`, and its proofs; the proofs of `HtmlCommand` and of the services'
composition; `SavedModeHasNetwork` with a slow start of the server; the save of the mode
that waits or is refused in `LightSwitch`; receptions of zero bytes, texts that overrun
their arrays and decimals in `HtmlCommand`.

Left, in the order of what they would add:

1. An abstract specification of the lamp with its auto-off, implemented by
   `LightSwitch`, and a composition of the mode in NVS between `LightSwitch` and
   `WifiProvisioning`.
2. `StatusExact` for timings whose status digits do not run into older ones, with the
   length of the older message as the condition.
