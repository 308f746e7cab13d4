------------------------------ MODULE Indicator ------------------------------
(***************************************************************************)
(* The indicator LED.  Three bits of the event group name a pattern; the   *)
(* LED task reads them once per period and moves the LED accordingly.  A   *)
(* macro chooses a pattern in two steps: it clears bits, then sets others. *)
(*                                                                         *)
(* app_main runs at the LED task's own priority, so the task may come      *)
(* between the two steps; app_event_cb runs in the Matter task above it    *)
(* and is not interrupted.                                                 *)
(***************************************************************************)
EXTENDS Integers

VARIABLES
  pattern,    \* BIT0 to BIT2 of APP_event_group, as a set of bits
  writing,    \* the task between the two steps of a macro
  chosen,     \* the macro executed last
  replaced,   \* the one before it
  phase,      \* how far the boot has come
  duty,       \* of led_instructions: whether it is not 0
  bright,     \* the LED is, or fades to, bright
  shown,      \* the pattern read last
  turn        \* history: flips with every period of the LED task

bits == <<pattern, writing, chosen, replaced, phase>>
led  == <<duty, bright, shown, turn>>
ledVars == <<bits, led>>

(***************************************************************************)
(* The macros that the program uses, as the bits they clear and set.       *)
(***************************************************************************)
Breathe == [clear |-> {1, 2}, set |-> {0}]
Ms100   == [clear |-> {0, 2}, set |-> {1}]
Ms500   == [clear |-> {2}, set |-> {0, 1}]

\* Faulty variant: one of the two bits is forgotten.
OneSecondLess == [clear |-> {1}, set |-> {2}]

\* Faulty variant: a bit of the event group that the LED does not own.
OneSecondElsewhere == [clear |-> {0, 1}, set |-> {3}]

OneSecond == [clear |-> {0, 1}, set |-> {2}]

NoMacro == [clear |-> {}, set |-> {}]

Macros == {Breathe, Ms100, Ms500, OneSecond}

\* Faulty variant: bits are set first and cleared then.
EffectSwapped(p, m, second) == IF second THEN p \ m.clear ELSE p \union m.set

\* What the two steps of macro m make of the bits p.
Effect(p, m, second) == IF second THEN p \union m.set ELSE p \ m.clear

AlwaysOn == {0, 1, 2}
Moving(p) == p # {} /\ p # AlwaysOn

LedTypeOK ==
  /\ pattern \in SUBSET (0..2) /\ shown \in SUBSET (0..2)
  /\ writing \in {"none", "app_main", "matter"}
  /\ chosen \in Macros \union {NoMacro}
  /\ replaced \in Macros \union {NoMacro}
  /\ phase \in {"start", "mode", "AP", "STA"}
  /\ duty \in BOOLEAN /\ bright \in BOOLEAN /\ turn \in BOOLEAN

(***************************************************************************)
(* The writers.                                                            *)
(***************************************************************************)
ClearBits(task, m) ==
  /\ writing = "none"
  /\ writing' = task
  /\ replaced' = chosen /\ chosen' = m
  /\ pattern' = Effect(pattern, m, FALSE)
  /\ UNCHANGED led

SetBits ==
  /\ writing # "none"
  /\ writing' = "none"
  /\ pattern' = Effect(pattern, chosen, TRUE)
  /\ UNCHANGED <<chosen, replaced, phase, led>>

\* app_main: a pattern before the mode is known, and one for the mode.
ShowStart ==
  /\ phase = "start"
  /\ phase' = "mode"
  /\ ClearBits("app_main", Ms100)

ShowMode ==
  /\ phase = "mode"
  /\ \/ phase' = "AP" /\ ClearBits("app_main", Ms500)
     \/ phase' = "STA" /\ ClearBits("app_main", OneSecond)

\* app_event_cb: an address was found, or the network was lost.
ShowAddress ==
  /\ phase = "STA"
  /\ ClearBits("matter", Breathe)
  /\ UNCHANGED phase

ShowNoNetwork ==
  /\ phase = "STA"
  /\ ClearBits("matter", OneSecond)
  /\ UNCHANGED phase

(***************************************************************************)
(* led_instructions, once per period.  The periods differ in length, which *)
(* is left out.                                                            *)
(***************************************************************************)

\* Faulty variant: the blinking does not remember which half it is in.
BlinkForgetful ==
  /\ pattern \in {{1}, {0, 1}, {2}, {0, 2}, {1, 2}}
  /\ bright' = duty
  /\ UNCHANGED duty

\* Breathing fades to the new duty, blinking sets the LED to its opposite.
Breath ==
  /\ pattern = {0}
  /\ duty' = ~duty /\ bright' = ~duty

Blink ==
  /\ pattern \in {{1}, {0, 1}, {2}, {0, 2}, {1, 2}}
  /\ duty' = ~duty /\ bright' = duty

Constant ==
  /\ ~Moving(pattern)
  /\ bright' = (pattern = AlwaysOn)
  /\ UNCHANGED duty

Wake ==
  /\ writing # "matter"
  /\ Breath \/ Blink \/ Constant
  /\ shown' = pattern
  /\ turn' = ~turn
  /\ UNCHANGED bits

(***************************************************************************)
(* A restart loses all of it.                                              *)
(***************************************************************************)
LedInit ==
  /\ pattern = {} /\ writing = "none" /\ chosen = NoMacro /\ replaced = NoMacro
  /\ phase = "start"
  /\ duty = TRUE /\ bright = FALSE
  /\ shown = {} /\ turn = FALSE

LedReset ==
  /\ pattern' = {} /\ writing' = "none" /\ chosen' = NoMacro /\ replaced' = NoMacro
  /\ phase' = "start"
  /\ duty' = TRUE /\ bright' = FALSE
  /\ shown' = {} /\ turn' = FALSE

LedNext ==
  \/ ShowStart \/ ShowMode \/ ShowAddress \/ ShowNoNetwork \/ SetBits
  \/ Wake

LedSpec == LedInit /\ [][LedNext \/ LedReset]_ledVars

\* A writer goes on; the pause of the LED task ends, and the Matter task above
\* it waits for its next event time and again.
LedFairness ==
  /\ WF_ledVars(SetBits) /\ WF_ledVars(ShowStart) /\ WF_ledVars(ShowMode)
  /\ SF_ledVars(Wake)

------------------------------------------------------------------------------
(***************************************************************************)
(* What the indicator promises.                                            *)
(***************************************************************************)

\* The LED task never sees a pattern that nobody chose: between the two steps
\* of a macro the bits name the old pattern, the new one, or darkness.
NoStrangePattern == pattern \in {{}, replaced.set, chosen.set}

\* A pattern that lasts can be seen: from one period to the next the LED
\* changes, although breathing and blinking use duty with opposite meanings.
WakeMoves == Wake /\ Moving(pattern) /\ shown = pattern => bright' # bright

LastingPatternMoves == [][WakeMoves]_ledVars

\* The pattern of the last macro is shown, unless another one is chosen.
PatternIsShown == \A m \in Macros : chosen = m ~> shown = m.set \/ chosen # m
==============================================================================
