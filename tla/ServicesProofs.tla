---------------------------- MODULE ServicesProofs ----------------------------
(***************************************************************************)
(* The safety of the indicator and of the log task, for behaviours of      *)
(* every length and every value of the constants, and of the three         *)
(* services together: each of them goes on as its own specification says,  *)
(* so that what is proved of LogSpec, LedSpec and ClientSpec holds in      *)
(* ServicesSpec, which TLC checks.                                         *)
(***************************************************************************)
EXTENDS MCServices, MatterClientProofs

------------------------------------------------------------------------------
(***************************************************************************)
(* The indicator.  What the bits hold follows from the macro executed last *)
(* and the one before it, and what the LED shows follows from duty and the *)
(* pattern read last.                                                      *)
(***************************************************************************)

\* Between the two steps of a macro the bits are what it left of the pattern
\* before it; after them, they are the macro's own.
BitsFollow ==
  /\ writing = "none" => pattern = chosen.set
  /\ writing # "none" => chosen # NoMacro /\ pattern = replaced.set \ chosen.clear

\* Blinking leaves duty opposite to the LED, breathing leaves it equal.
DutyFollows ==
  Moving(shown) => bright = IF shown = {0} THEN duty ELSE ~duty

IndicatorInv == LedTypeOK /\ BitsFollow /\ DutyFollows

\* A macro, applied to the bits of another one, replaces them; in between they
\* are the old ones, the new ones, or none.
LEMMA MacroReplaces ==
  ASSUME NEW old \in Macros \union {NoMacro}, NEW m \in Macros
  PROVE  /\ (old.set \ m.clear) \union m.set = m.set
         /\ old.set \ m.clear \in {{}, old.set, m.set}
         /\ m.set \in SUBSET (0..2) /\ old.set \ m.clear \in SUBSET (0..2)
         /\ m # NoMacro
  BY DEF Macros, NoMacro, Breathe, Ms100, Ms500, OneSecond

\* The first state satisfies the invariant.
LEMMA IndicatorInit == LedInit => IndicatorInv
<1> SUFFICES ASSUME LedInit PROVE IndicatorInv
  OBVIOUS
<1>1. LedTypeOK
  BY DEF LedInit, LedTypeOK
<1>2. BitsFollow /\ DutyFollows
  BY DEF LedInit, BitsFollow, DutyFollows, Moving, NoMacro
<1> QED
  BY <1>1, <1>2 DEF IndicatorInv

\* The first step of a macro.
LEMMA MacroBegins ==
  ASSUME IndicatorInv, NEW task \in {"app_main", "matter"}, NEW m \in Macros,
         ClearBits(task, m), phase' \in {"mode", "AP", "STA"}
  PROVE  IndicatorInv'
<1> USE DEF IndicatorInv, ClearBits
<1>1. pattern = chosen.set /\ chosen \in Macros \union {NoMacro}
  BY DEF BitsFollow, LedTypeOK
<1>2. pattern' = chosen.set \ m.clear /\ pattern' \in SUBSET (0..2) /\ m # NoMacro
  BY <1>1, MacroReplaces DEF Effect
<1>3. LedTypeOK'
  BY <1>1, <1>2 DEF LedTypeOK, led
<1>4. BitsFollow'
  BY <1>2 DEF BitsFollow
<1>5. DutyFollows'
  BY DEF DutyFollows, led, Moving, AlwaysOn
<1> QED
  BY <1>3, <1>4, <1>5

\* Every step preserves it, a restart included.
LEMMA IndicatorNext == IndicatorInv /\ [LedNext \/ LedReset]_ledVars => IndicatorInv'
<1> SUFFICES ASSUME IndicatorInv, [LedNext \/ LedReset]_ledVars PROVE IndicatorInv'
  OBVIOUS
<1>1. CASE ShowStart \/ ShowMode \/ ShowAddress \/ ShowNoNetwork
  BY <1>1, MacroBegins
     DEF ShowStart, ShowMode, ShowAddress, ShowNoNetwork, Macros
<1>2. CASE SetBits
  <2>1. /\ chosen \in Macros /\ replaced \in Macros \union {NoMacro}
        /\ pattern = replaced.set \ chosen.clear
    BY <1>2 DEF SetBits, IndicatorInv, LedTypeOK, BitsFollow
  <2>2. pattern' = chosen.set /\ pattern' \in SUBSET (0..2)
    BY <1>2, <2>1, MacroReplaces DEF SetBits, Effect
  <2>3. LedTypeOK' /\ BitsFollow'
    BY <1>2, <2>2 DEF SetBits, IndicatorInv, LedTypeOK, BitsFollow, led
  <2>4. DutyFollows'
    BY <1>2 DEF SetBits, IndicatorInv, DutyFollows, led
  <2> QED
    BY <2>3, <2>4 DEF IndicatorInv
<1>3. CASE Wake
  <2>1. duty' \in BOOLEAN /\ bright' \in BOOLEAN /\ turn' \in BOOLEAN
    BY <1>3, Zenon DEF Wake, Breath, Blink, Constant, IndicatorInv, LedTypeOK
  <2>2. LedTypeOK' /\ BitsFollow'
    BY <1>3, <2>1 DEF Wake, IndicatorInv, LedTypeOK, BitsFollow, bits
  <2>3. DutyFollows'
    <3>1. CASE Breath
      BY <1>3, <3>1 DEF Wake, Breath, IndicatorInv, LedTypeOK, DutyFollows
    <3>2. CASE Blink
      <4>1. shown' # {0}
        BY <1>3, <3>2 DEF Wake, Blink
      <4> QED
        BY <4>1, <3>2 DEF Blink, IndicatorInv, LedTypeOK, DutyFollows
    <3>3. CASE Constant
      BY <1>3, <3>3 DEF Wake, Constant, DutyFollows, Moving
    <3> QED
      BY <1>3, <3>1, <3>2, <3>3 DEF Wake
  <2> QED
    BY <2>2, <2>3 DEF IndicatorInv
<1>4. CASE LedReset
  BY <1>4 DEF LedReset, IndicatorInv, LedTypeOK, BitsFollow, DutyFollows, Moving, NoMacro
<1>5. CASE UNCHANGED ledVars
  BY <1>5 DEF IndicatorInv, LedTypeOK, BitsFollow, DutyFollows, ledVars, bits, led
<1> QED
  BY <1>1, <1>2, <1>3, <1>4, <1>5 DEF LedNext

\* The invariant holds in every behaviour.
LEMMA IndicatorSafe == LedSpec => []IndicatorInv
<1> QED
  BY IndicatorInit, IndicatorNext, PTL DEF LedSpec

\* The types of the indicator's variables.  The three bits are all that the
\* macros of app_inclued.h set in any interleaving.
THEOREM LedTypes == LedSpec => []LedTypeOK
<1>1. IndicatorInv => LedTypeOK
  BY DEF IndicatorInv
<1> QED
  BY <1>1, IndicatorSafe, PTL

\* The bits always name the pattern chosen last, the one before it, or none:
\* no interleaving of the macros of app_inclued.h with the LED task shows
\* another one.
THEOREM OnlyChosenPatterns == LedSpec => []NoStrangePattern
<1>1. IndicatorInv => NoStrangePattern
  BY MacroReplaces DEF IndicatorInv, LedTypeOK, BitsFollow, NoStrangePattern
<1> QED
  BY <1>1, IndicatorSafe, PTL

\* A pattern that lasts moves the LED in each of its periods.
THEOREM PatternsAreVisible == LedSpec => LastingPatternMoves
<1>1. IndicatorInv /\ [LedNext \/ LedReset]_ledVars => [WakeMoves]_ledVars
  BY DEF IndicatorInv, LedTypeOK, DutyFollows, WakeMoves, Wake, Breath, Blink, Constant, Moving,
     AlwaysOn
<1> QED
  BY <1>1, IndicatorSafe, PTL DEF LedSpec, LastingPatternMoves

------------------------------------------------------------------------------
(***************************************************************************)
(* The log task.  The bit that lets the device sleep has a history: it is  *)
(* set in the loop, for both wake-up bits, of which only the credentials   *)
(* set the first.                                                          *)
(***************************************************************************)

\* The bit of the credentials, and what follows from it.
AskedByCredentials == (4 \in wakeup => asked) /\ SavedOnlyWhenAsked

\* A place that was taken over stands in RAM as it stands in NVS.
TakenIsCurrent ==
  taken => /\ pc = "loop"
           /\ \A p \in place : Usable(p) => p.useding = useding /\ p.used = used

SleepInLoop == log_sleep => pc = "loop"

LogInv == LogTypeOK /\ AskedByCredentials /\ SavedIsCurrent /\ TakenIsCurrent /\ SleepInLoop

\* The first state satisfies the invariant.
LEMMA LogFirst == LogInit => LogInv
<1> SUFFICES ASSUME LogInit PROVE LogInv
  OBVIOUS
<1>1. place \in SUBSET Place /\ \A p, q \in place : p = q
  BY LogTaskAssumption DEF LogInit, Place
<1>2. useding \in 0..9 /\ used \in Nat
  BY DEF LogInit
<1>3. LogTypeOK
  BY <1>1, <1>2, Zenon DEF LogInit, LogTypeOK
<1> QED
  BY <1>3 DEF LogInit, LogInv, AskedByCredentials, SavedOnlyWhenAsked, SavedIsCurrent,
     TakenIsCurrent, SleepInLoop

\* Taking over a place with room keeps it; every other begins a file.
LEMMA TakesUp ==
  ASSUME NEW p \in Place, TakePlace(p)
  PROVE  /\ useding' \in 0..9 /\ used' \in Nat /\ deleteFlag' \in BOOLEAN
         /\ Usable(p) => useding' = p.useding /\ used' = p.used
<1> USE LogTaskAssumption DEF TakePlace, Begin, Usable
<1>1. p.valid \in BOOLEAN /\ p.useding \in 0..9 /\ p.used \in Nat
  BY DEF Place
<1>2. CASE Usable(p)
  <2>1. ~(p.used <= Margin) /\ p.valid
    BY <1>1, <1>2
  <2> QED
    BY <1>1, <2>1, Zenon
<1>3. CASE ~Usable(p)
  <2>1. useding' \in {0, p.useding} /\ used' = Full /\ deleteFlag' = TRUE
    BY <1>1, <1>3
  <2> QED
    BY <1>1, <1>3, <2>1
<1> QED
  BY <1>2, <1>3

\* The start of the task finds a place to take over, or begins a file.
LEMMA LogStart == ASSUME LogInv, Start PROVE LogInv'
<1> USE DEF LogInv, Start
<1>1. ~log_sleep
  BY DEF SleepInLoop
<1>2. /\ useding' \in 0..9 /\ used' \in Nat /\ deleteFlag' \in BOOLEAN
      /\ taken' \in BOOLEAN
      /\ taken' => \A p \in place : Usable(p) => p.useding = useding' /\ p.used = used'
  <2>1. CASE place # {} /\ \A p \in place : TakePlace(p) /\ taken' = TRUE
    <3>1. PICK q \in place : q \in Place /\ TakePlace(q)
      BY <2>1 DEF LogTypeOK
    <3>2. \A p \in place : p = q
      BY <3>1 DEF LogTypeOK
    <3> QED
      BY <2>1, <3>1, <3>2, TakesUp
  <2>2. CASE ~(place # {} /\ \A p \in place : TakePlace(p) /\ taken' = TRUE)
    <3>1. /\ taken' = FALSE
          /\ Begin(9, Full, TRUE) \/ Begin(0, InUse, FALSE) \/ Begin(0, 0, FALSE)
      BY <2>2, Zenon
    <3>2. useding' \in 0..9 /\ used' \in Nat
      BY <3>1, LogTaskAssumption DEF Begin
    <3> QED
      BY <3>1, <3>2, Zenon DEF Begin
  <2> QED
    BY <2>1, <2>2
<1>3. LogTypeOK'
  BY <1>2 DEF LogTypeOK
<1>4. TakenIsCurrent'
  BY <1>2 DEF TakenIsCurrent, Usable
<1> QED
  BY <1>1, <1>3, <1>4
     DEF AskedByCredentials, SavedOnlyWhenAsked, SavedIsCurrent, SleepInLoop

\* A save leaves the current place in NVS, or what was there.
LEMMA LogSave == ASSUME LogInv, Save PROVE LogInv'
<1> USE DEF LogInv, Save
<1>1. CurrentPlace \in Place /\ CurrentPlace.valid
      /\ CurrentPlace.useding = useding /\ CurrentPlace.used = used
  BY DEF CurrentPlace, Place, LogTypeOK
<1>2. place' \in {{CurrentPlace}, place} /\ (~failed' => place' = {CurrentPlace})
  OBVIOUS
<1>3. LogTypeOK'
  BY <1>1, <1>2 DEF LogTypeOK
<1>4. SavedIsCurrent'
  BY <1>1, <1>2 DEF SavedIsCurrent
<1>5. TakenIsCurrent'
  BY <1>1, <1>2 DEF TakenIsCurrent, Usable
<1> QED
  BY <1>3, <1>4, <1>5 DEF AskedByCredentials, SavedOnlyWhenAsked, SleepInLoop, Requested

\* Every step preserves the invariant, a restart included.
LEMMA LogStep == LogInv /\ [LogNext \/ LogReset]_logVars => LogInv'
<1> SUFFICES ASSUME LogInv, [LogNext \/ LogReset]_logVars PROVE LogInv'
  OBVIOUS
<1> USE DEF LogInv, AskedByCredentials, SavedOnlyWhenAsked, SavedIsCurrent, TakenIsCurrent,
        SleepInLoop, LogTypeOK, Usable
<1>1. CASE Start
  BY <1>1, LogStart
<1>2. CASE Save
  BY <1>2, LogSave
<1>3. CASE Forget
  BY <1>3 DEF Forget
<1>4. CASE TakeNetwork
  BY <1>4 DEF TakeNetwork, log
<1>5. CASE BatteryGood
  BY <1>5 DEF BatteryGood, log
<1>6. CASE BatteryLow
  BY <1>6 DEF BatteryLow, log
<1>7. CASE LogReset
  <2>1. useding' \in 0..9 /\ used' \in Nat
    BY <1>7 DEF LogReset, RamReset
  <2> QED
    BY <1>7, <2>1, Zenon DEF LogReset, RamReset
<1>8. CASE UNCHANGED logVars
  BY <1>8 DEF logVars, log
<1> QED
  BY <1>1, <1>2, <1>3, <1>4, <1>5, <1>6, <1>7, <1>8 DEF LogNext

\* The invariant holds in every behaviour.
LEMMA LogSafe == LogSpec => []LogInv
<1> QED
  BY LogFirst, LogStep, PTL DEF LogSpec

\* The types of the log task's variables.  The number of a log file stays a
\* digit in RAM and in NVS, whichever place a start found or a save left.
THEOREM LogTypes == LogSpec => []LogTypeOK
<1>1. LogInv => LogTypeOK
  BY DEF LogInv
<1> QED
  BY <1>1, LogSafe, PTL

\* The place is saved, and the device allowed to sleep, only for credentials:
\* the battery task's share of BIT5 alone never asks for it.
THEOREM SleepWasAsked == LogSpec => []SavedOnlyWhenAsked
<1>1. LogInv => SavedOnlyWhenAsked
  BY DEF LogInv, AskedByCredentials
<1> QED
  BY <1>1, LogSafe, PTL

\* When the device may sleep, NVS holds the current place unless it refused it.
THEOREM SleepIsSafe == LogSpec => []SavedIsCurrent
<1>1. LogInv => SavedIsCurrent
  BY DEF LogInv
<1> QED
  BY <1>1, LogSafe, PTL

\* No step replaces a place with room that was taken over at the start.
THEOREM PlaceSurvives == LogSpec => PlaceIsKept
<1>1. ASSUME LogInv, [LogNext \/ LogReset]_logVars, NEW p \in place, Usable(p), taken
      PROVE  place' = place
  <2>1. CASE Save
    <3>1. p = CurrentPlace
      BY <1>1 DEF LogInv, TakenIsCurrent, LogTypeOK, Place, Usable, CurrentPlace
    <3>2. place = {p}
      BY <1>1 DEF LogInv, LogTypeOK
    <3> QED
      BY <2>1, <3>1, <3>2 DEF Save
  <2>2. CASE ~Save
    BY <1>1, <2>2 DEF LogNext, Start, Forget, TakeNetwork, BatteryGood, BatteryLow, LogReset, logVars
  <2> QED
    BY <2>1, <2>2
<1>2. LogInv /\ [LogNext \/ LogReset]_logVars
        => [\A p \in place : Usable(p) /\ taken => place' = place]_logVars
  BY <1>1
<1> QED
  BY <1>2, LogSafe, PTL DEF LogSpec, PlaceIsKept

------------------------------------------------------------------------------
(***************************************************************************)
(* The three together.                                                     *)
(***************************************************************************)

\* A step of one service is a step of its specification and leaves the other
\* two alone.
LEMMA ServicesStep ==
  ASSUME [ServicesNext]_servicesVars
  PROVE  /\ [LogNext \/ LogReset]_logVars
         /\ [LedNext \/ LedReset]_ledVars
         /\ [ClientNext \/ ClientReset]_clientVars
<1>1. CASE LogMoves /\ (LogNext \/ LogReset)
  BY <1>1 DEF LogMoves
<1>2. CASE LedMoves /\ (LedNext \/ LedReset)
  BY <1>2 DEF LedMoves
<1>3. CASE ClientMoves /\ (ClientNext \/ ClientReset)
  BY <1>3 DEF ClientMoves
<1>4. CASE UNCHANGED servicesVars
  BY <1>4 DEF servicesVars
<1> QED
  BY <1>1, <1>2, <1>3, <1>4 DEF ServicesNext

\* Every behaviour of the three services together is one of each of them: the
\* composition in which TLC checks them adds no step to any.
THEOREM ServicesKeepTheirSpecs == ServicesSpec => LogSpec /\ LedSpec /\ ClientSpec
<1>1. ServicesInit => LogInit /\ LedInit /\ ClientInit
  BY DEF ServicesInit
<1>2. [ServicesNext]_servicesVars
        => /\ [LogNext \/ LogReset]_logVars
           /\ [LedNext \/ LedReset]_ledVars
           /\ [ClientNext \/ ClientReset]_clientVars
  BY ServicesStep
<1> QED
  BY <1>1, <1>2, PTL DEF ServicesSpec, LogSpec, LedSpec, ClientSpec

\* The types of all three, and with them their bounds: the number of a log file
\* stays a digit in RAM and in NVS, the macros set the three bits of the LED and
\* no other, console_buffer never holds a wrong parameter.
THEOREM ServicesTypes == ServicesSpec => []ServicesTypeOK
<1>1. LogTypeOK /\ LedTypeOK /\ ClientTypeOK => ServicesTypeOK
  BY DEF ServicesTypeOK
<1>2. ServicesSpec => []LogTypeOK /\ []LedTypeOK /\ []ClientTypeOK
  BY ServicesKeepTheirSpecs, LogTypes, LedTypes, ClientTypes, PTL
<1> QED
  BY <1>1, <1>2, PTL
==============================================================================
