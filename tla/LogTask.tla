------------------------------- MODULE LogTask -------------------------------
(***************************************************************************)
(* The log task and the battery task.  The log task keeps in NVS the place *)
(* where the next message goes: one of ten log files and the room left in  *)
(* it.  It reads the place at its start and writes it back, once, when the *)
(* two wake-up bits ask for that before a sleep.  The battery task sets    *)
(* one of these bits (it has a second name, Low_Battery) after every good  *)
(* reading, and clears it on its way to deep sleep.                        *)
(*                                                                         *)
(* The branch that writes messages is left out: no code clears the bit     *)
(* that asks for it.                                                       *)
(***************************************************************************)
EXTENDS Integers

CONSTANTS
  Full,      \* total / 10: the room of an empty log file
  Margin,    \* 128: with no more room than that the next file is begun
  InUse,     \* bytes in use in the partition
  Earlier    \* places that an earlier firmware may have left in NVS

ASSUME LogTaskAssumption ==
  /\ Full \in Nat /\ Margin \in Nat /\ InUse \in Nat
  /\ Margin < Full
  /\ Earlier \subseteq [valid : BOOLEAN, useding : 0..9, used : Nat]

VARIABLES
  place,       \* SPIFFS_config in NVS: {} or the one place
  pc,          \* where log_task stands
  useding, used, deleteFlag, Run_once,
  wakeup,      \* BIT4 and BIT5, as a set
  asked,       \* history: both bits were set by the credentials
  log_sleep,   \* APP_event_log_spiffs_sleep_BIT
  adc,         \* where the battery task stands
  taken,       \* history: the place in NVS was taken over at this start
  failed       \* history: NVS did not take the place

log   == <<pc, useding, used, deleteFlag, Run_once, log_sleep, taken, failed>>
logVars  == <<place, log, wakeup, asked, adc>>

Place == [valid : BOOLEAN, useding : 0..9, used : Nat]

LogTypeOK ==
  /\ place \in SUBSET Place
  /\ \A p, q \in place : p = q
  /\ pc \in {"start", "loop"}
  /\ useding \in 0..9 /\ used \in Nat
  /\ deleteFlag \in BOOLEAN /\ Run_once \in BOOLEAN
  /\ wakeup \in SUBSET {4, 5}
  /\ asked \in BOOLEAN
  /\ log_sleep \in BOOLEAN
  /\ adc \in {"sampling", "sleep"}
  /\ taken \in BOOLEAN /\ failed \in BOOLEAN

(***************************************************************************)
(* log_task.                                                               *)
(***************************************************************************)
Begin(file, room, delete) ==
  /\ useding' = file /\ used' = room /\ deleteFlag' = delete

\* Faulty variant: a place with room is taken over for the first file.
TakePlaceFirstFile(p) ==
  IF p.valid
  THEN IF p.used <= Margin THEN Begin(p.useding, Full, TRUE)
                           ELSE Begin(0, p.used, FALSE)
  ELSE Begin(0, Full, TRUE)

\* A place with its flag and with room is taken over; a full file and a place
\* without the flag make the next message begin a file.
TakePlace(p) ==
  IF p.valid
  THEN IF p.used <= Margin THEN Begin(p.useding, Full, TRUE)
                           ELSE Begin(p.useding, p.used, FALSE)
  ELSE Begin(0, Full, TRUE)

Usable(p) == p.valid /\ p.used > Margin

\* The start: NVS holds a place, holds none or cannot be read; it cannot be
\* opened; the partition tells nothing about itself.
Start ==
  /\ pc = "start"
  /\ pc' = "loop"
  /\ \/ place # {} /\ \A p \in place : TakePlace(p) /\ taken' = TRUE
     \/ Begin(9, Full, TRUE) /\ taken' = FALSE
     \/ Begin(0, InUse, FALSE) /\ taken' = FALSE
     \/ Begin(0, 0, FALSE) /\ taken' = FALSE
  /\ UNCHANGED <<place, Run_once, log_sleep, failed, wakeup, asked, adc>>

\* Faulty variant: the place is not put together again before it is saved.
PlaceStale == [valid |-> TRUE, useding |-> 0, used |-> Full]

CurrentPlace == [valid |-> TRUE, useding |-> useding, used |-> used]

\* Faulty variant: only the first of the two bits is compared.
RequestedHalf == wakeup = {5}

Requested == wakeup = {4, 5}

\* Faulty variant: the device may sleep only after NVS has taken the place.
SaveOrStay ==
  /\ pc = "loop"
  /\ Requested /\ ~Run_once
  /\ Run_once' = TRUE
  /\ \/ place' = {CurrentPlace} /\ failed' = FALSE /\ log_sleep' = TRUE
     \/ failed' = TRUE /\ UNCHANGED <<place, log_sleep>>
  /\ UNCHANGED <<pc, useding, used, deleteFlag, taken, wakeup, asked, adc>>

\* One turn of the loop: a request is served once.
Save ==
  /\ pc = "loop"
  /\ Requested /\ ~Run_once
  /\ Run_once' = TRUE
  /\ \/ place' = {CurrentPlace} /\ failed' = FALSE
     \/ failed' = TRUE /\ UNCHANGED place
  /\ log_sleep' = TRUE
  /\ UNCHANGED <<pc, useding, used, deleteFlag, taken, wakeup, asked, adc>>

Forget ==
  /\ pc = "loop"
  /\ ~Requested /\ Run_once
  /\ Run_once' = FALSE
  /\ UNCHANGED <<place, pc, useding, used, deleteFlag, log_sleep, taken, failed, wakeup,
                 asked, adc>>

(***************************************************************************)
(* The tasks that set the bits.                                            *)
(***************************************************************************)

\* htmltomcudata_task, after it has applied credentials.
TakeNetwork ==
  /\ wakeup' = {4, 5}
  /\ asked' = TRUE
  /\ UNCHANGED <<place, log, adc>>

\* ADC1_single_read_Task: a good reading, or a low one and the sleep after it.
BatteryGood ==
  /\ adc = "sampling"
  /\ wakeup' = wakeup \union {5}
  /\ UNCHANGED <<place, log, asked, adc>>

BatteryLow ==
  /\ adc = "sampling"
  /\ wakeup' = wakeup \ {5}
  /\ adc' = "sleep"
  /\ UNCHANGED <<place, log, asked>>

\* A restart (deep sleep ends in one, too) keeps NVS alone.
RamReset ==
  /\ pc' = "start"
  /\ useding' = 0 /\ used' = 0 /\ deleteFlag' = FALSE /\ Run_once' = FALSE
  /\ wakeup' = {} /\ asked' = FALSE /\ log_sleep' = FALSE
  /\ adc' = "sampling"
  /\ taken' = FALSE /\ failed' = FALSE

LogReset == RamReset /\ UNCHANGED place

LogInit ==
  /\ place \in {{}} \union {{p} : p \in Earlier}
  /\ pc = "start"
  /\ useding = 0 /\ used = 0 /\ deleteFlag = FALSE /\ Run_once = FALSE
  /\ wakeup = {} /\ asked = FALSE /\ log_sleep = FALSE
  /\ adc = "sampling"
  /\ taken = FALSE /\ failed = FALSE

LogNext == Start \/ Save \/ Forget \/ TakeNetwork \/ BatteryGood \/ BatteryLow

LogSpec == LogInit /\ [][LogNext \/ LogReset]_logVars

\* The log task gets its turn once a second, and deep sleep begins.
LogFairness == WF_logVars(Start) /\ SF_logVars(Save)

------------------------------------------------------------------------------
(***************************************************************************)
(* What the log task promises.                                             *)
(***************************************************************************)

\* Although one of the two wake-up bits is also the battery's, the place is
\* saved only when the credentials asked for it: good readings do not.
SavedOnlyWhenAsked == log_sleep => asked

\* The bit that lets the device sleep means that NVS holds the place, or that
\* NVS refused it.
SavedIsCurrent ==
  log_sleep /\ ~failed =>
    \E p \in place : p.valid /\ p.useding = useding /\ p.used = used

\* A place with room survives every save, restart and sleep; only a start
\* that could not read it lets the next save replace it.
PlaceIsKept == [][\A p \in place : Usable(p) /\ taken => place' = place]_logVars

\* A request is served while both bits stand, unless the device restarts.
RequestIsServed == Requested ~> log_sleep \/ ~Requested
==============================================================================
