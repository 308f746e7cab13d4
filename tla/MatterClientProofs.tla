-------------------------- MODULE MatterClientProofs --------------------------
(***************************************************************************)
(* The Matter client, for every set of lines and every number of commands  *)
(* that wait.  A command that waits finds its own parameters in the shared *)
(* buffer, as long as no other line has written to it, and then a first    *)
(* parameter of one of the lines.                                          *)
(***************************************************************************)
EXTENDS MatterClient, TLAPS

\* A command was typed without a wrong parameter; its data is the buffer when
\* it has parameters.
WellTyped(h) ==
  /\ Accepted(h.line.params)
  /\ h.data = IF h.line.params = <<>> THEN "unset" ELSE "console_buffer"

\* The buffer holds the parameters of the command, or was written since.
FindsOwn(h, buffer) ==
  h.line.params # <<>> =>
    /\ h.later = {} => buffer.count = Len(h.line.params)
    /\ buffer.first \in ({h.line.params[1]} \union h.later) \ {Wrong}

WaitingFindOwn ==
  \A i \in 1..Len(pending) : WellTyped(pending[i]) /\ FindsOwn(pending[i], console_buffer)

ClientInv == ClientTypeOK /\ WaitingFindOwn /\ SentAsTyped

\* The first state satisfies the invariant.
LEMMA ClientFirst == ClientInit => ClientInv
<1> SUFFICES ASSUME ClientInit PROVE ClientInv
  OBVIOUS
<1>1. /\ pending \in Seq(Handles) /\ Len(pending) = 0
      /\ console_buffer \in [count : Nat, first : Numbers \union {"empty"}]
  BY DEF ClientInit
<1>2. ClientTypeOK
  <2>1. Len(pending) <= MaxPending
    BY <1>1, ClientAssumption
  <2> QED
    BY <1>1, <2>1, Zenon DEF ClientInit, ClientTypeOK
<1>3. WaitingFindOwn
  BY <1>1 DEF WaitingFindOwn
<1>4. SentAsTyped
  BY DEF ClientInit, SentAsTyped
<1> QED
  BY <1>2, <1>3, <1>4 DEF ClientInv

\* What a line writes into the buffer.
LEMMA StoredType ==
  ASSUME ClientTypeOK, NEW l \in Line
  PROVE  /\ Stored(l.params) \in [count : Nat, first : Numbers \union {"empty"}]
         /\ l.params = <<>> => Stored(l.params) = console_buffer
         /\ l.params # <<>> => Stored(l.params).first = IF l.params[1] = Wrong
                                                       THEN console_buffer.first ELSE l.params[1]
         /\ l.params # <<>> /\ Accepted(l.params) =>
              /\ Stored(l.params).count = Len(l.params)
              /\ Stored(l.params).first = l.params[1] /\ l.params[1] # Wrong
<1>1. l.params \in Seq(Numbers \union {Wrong})
  BY DEF Line
<1>2. l.params # <<>> => 1 \in 1..Len(l.params) /\ l.params[1] \in Numbers \union {Wrong}
  BY <1>1
<1>3. Len(l.params) \in Nat
  BY <1>1
<1>4. CASE l.params = <<>>
  BY <1>4 DEF ClientTypeOK, Stored
<1>5. CASE l.params # <<>> /\ l.params[1] = Wrong
  <2>1. ~Accepted(l.params)
    BY <1>2, <1>5 DEF Accepted
  <2> QED
    BY <1>3, <1>5, <2>1 DEF ClientTypeOK, Stored
<1>6. CASE l.params # <<>> /\ l.params[1] # Wrong
  BY <1>2, <1>3, <1>6 DEF Stored
<1> QED
  BY <1>4, <1>5, <1>6

\* What it makes of the commands that wait.
LEMMA ReusedType ==
  ASSUME ClientTypeOK, NEW l \in Line
  PROVE  /\ Reused(l.params) \in Seq(Handles)
         /\ Len(Reused(l.params)) = Len(pending)
         /\ \A i \in 1..Len(pending) :
              /\ Reused(l.params)[i].line = pending[i].line
              /\ Reused(l.params)[i].data = pending[i].data
              /\ Reused(l.params)[i].later = IF l.params = <<>> THEN pending[i].later
                                             ELSE pending[i].later \union {l.params[1]}
<1> DEFINE Noted(h) == [h EXCEPT !.later = @ \union {l.params[1]}]
<1>1. l.params # <<>> => \A i \in 1..Len(pending) :
        /\ pending[i] \in Handles
        /\ Noted(pending[i]) \in Handles
  <2> HAVE l.params # <<>>
  <2> TAKE i \in 1..Len(pending)
  <2>1. pending[i] \in Handles
    BY DEF ClientTypeOK
  <2>2. l.params[1] \in Numbers \union {Wrong}
    BY DEF Line
  <2> QED
    BY <2>1, <2>2 DEF Handles
<1>2. CASE l.params = <<>>
  BY <1>2 DEF ClientTypeOK, Reused
<1>3. CASE l.params # <<>>
  <2> DEFINE r == [i \in 1..Len(pending) |-> Noted(pending[i])]
  <2>1. Len(pending) \in Nat
    BY DEF ClientTypeOK
  <2>2. r \in Seq(Handles) /\ Len(r) = Len(pending)
    <3>1. r \in [1..Len(pending) -> Handles]
      BY <1>1, <1>3
    <3> HIDE DEF r
    <3> QED
      BY <2>1, <3>1
  <2>3. \A i \in 1..Len(pending) :
          /\ r[i].line = pending[i].line
          /\ r[i].data = pending[i].data
          /\ r[i].later = pending[i].later \union {l.params[1]}
    BY <1>1, <1>3 DEF Handles
  <2>4. Reused(l.params) = r
    BY <1>3 DEF Reused
  <2> QED
    BY <1>3, <2>2, <2>3, <2>4
<1> QED
  BY <1>2, <1>3

\* Those that waited before the line go on finding their own.
LEMMA ReusedFindOwn ==
  ASSUME ClientInv, NEW l \in Line
  PROVE  \A i \in 1..Len(pending) :
           WellTyped(Reused(l.params)[i]) /\ FindsOwn(Reused(l.params)[i], Stored(l.params))
<1> TAKE i \in 1..Len(pending)
<1>1. WellTyped(pending[i]) /\ FindsOwn(pending[i], console_buffer)
  BY DEF ClientInv, WaitingFindOwn
<1>2. /\ Reused(l.params)[i].line = pending[i].line
      /\ Reused(l.params)[i].data = pending[i].data
      /\ Reused(l.params)[i].later = IF l.params = <<>> THEN pending[i].later
                                     ELSE pending[i].later \union {l.params[1]}
  BY ReusedType DEF ClientInv
<1>3. CASE l.params = <<>>
  <2>1. Stored(l.params) = console_buffer
    BY <1>3, StoredType DEF ClientInv
  <2> QED
    BY <1>1, <1>2, <1>3, <2>1 DEF WellTyped, FindsOwn
<1>4. CASE l.params # <<>>
  <2>1. Stored(l.params).first = IF l.params[1] = Wrong THEN console_buffer.first
                                 ELSE l.params[1]
    BY <1>4, StoredType DEF ClientInv
  <2> QED
    BY <1>1, <1>2, <1>4, <2>1 DEF WellTyped, FindsOwn
<1> QED
  BY <1>3, <1>4

\* The command of a line finds its own parameters when the line is done.
LEMMA HandleType ==
  ASSUME ClientInv, NEW l \in Line, Accepted(l.params)
  PROVE  /\ Handle(l) \in Handles
         /\ Handle(l).line = l
         /\ WellTyped(Handle(l)) /\ FindsOwn(Handle(l), Stored(l.params))
<1> DEFINE where == IF l.params = <<>> THEN "unset" ELSE "console_buffer"
<1>1. where \in {"unset", "console_buffer"}
  OBVIOUS
<1> HIDE DEF where
<1>2. [line |-> l, later |-> {}, data |-> where] \in Handles
  BY <1>1 DEF Handles
<1>3. Handle(l) = [line |-> l, later |-> {}, data |-> where]
  BY DEF Handle, where
<1>4. Handle(l) \in Handles /\ Handle(l).line = l /\ Handle(l).data = where
  BY <1>2, <1>3
<1> USE DEF where
<1> QED
  BY <1>4, StoredType DEF ClientInv, WellTyped, FindsOwn

\* The callbacks do what was typed when the command finds its own parameters.
LEMMA CallbackSends ==
  ASSUME NEW h \in Handles, NEW buffer \in [count : Nat, first : Numbers \union {"empty"}],
         WellTyped(h), FindsOwn(h, buffer),
         ExecuteOnOff(h) \/ ExecuteIdentify(h, buffer) \/ Unsupported(h)
  PROVE  /\ \A d \in done' : d \in Done
         /\ SentAsTyped'
<1>1. h.line \in Line /\ h.line.params \in Seq(Numbers \union {Wrong})
      /\ h.data \in {"unset", "console_buffer"}
  BY DEF Handles, Line
<1> DEFINE As(outcome, value) == [handle |-> h, outcome |-> outcome, value |-> value]
<1>2. ASSUME NEW outcome \in Outcomes, NEW value \in Numbers \union {"empty"},
             Executed(h, outcome, value),
             \/ <<outcome, value>> = Asked(h.line)
             \/ ReadsBuffer(h.line) /\ h.line.params = <<>>
             \/ /\ ReadsBuffer(h.line) /\ h.later # {}
                /\ \/ outcome = "refused"
                   \/ outcome = "identify" /\ value \in ({h.line.params[1]} \union h.later) \ {Wrong}
      PROVE  (\A d \in done' : d \in Done) /\ SentAsTyped'
  <2>1. done' = {As(outcome, value)} /\ As(outcome, value) \in Done
    BY <1>2 DEF Executed, Done
  <2>2. \A d \in done' : d.handle = h /\ d.outcome = outcome /\ d.value = value
    BY <2>1
  <2> QED
    BY <1>2, <2>1, <2>2 DEF SentAsTyped
<1>3. CASE ExecuteOnOff(h)
  <2>1. CASE h.line.id \in 0..2
    <3>1. OnOffCommands[h.line.id + 1] \in Outcomes
      BY <2>1 DEF OnOffCommands, Outcomes
    <3>2. Asked(h.line) = <<OnOffCommands[h.line.id + 1], "empty">>
      BY <1>3, <2>1 DEF ExecuteOnOff, Asked, ReadsBuffer
    <3>3. Executed(h, OnOffCommands[h.line.id + 1], "empty")
      BY <1>3, <2>1 DEF ExecuteOnOff
    <3> QED
      BY <1>2, <3>1, <3>2, <3>3
  <2>2. CASE h.line.id \notin 0..2
    <3>1. Asked(h.line) = <<"none", "empty">>
      BY <1>3, <2>2 DEF ExecuteOnOff, Asked, ReadsBuffer
    <3>2. Executed(h, "none", "empty") /\ "none" \in Outcomes
      BY <1>3, <2>2 DEF ExecuteOnOff, Outcomes
    <3> QED
      BY <1>2, <3>1, <3>2
  <2> QED
    BY <2>1, <2>2
<1>4. CASE ExecuteIdentify(h, buffer)
  <2>1. ReadsBuffer(h.line) /\ h.line.cluster # "OnOff"
    BY <1>4 DEF ExecuteIdentify, ReadsBuffer
  <2>2. "refused" \in Outcomes /\ "identify" \in Outcomes
    BY DEF Outcomes
  <2>3. CASE h.line.params = <<>>
    <3>1. \/ Executed(h, "refused", "empty")
          \/ \E v \in Numbers : Executed(h, "identify", v)
      BY <1>4, <2>3 DEF ExecuteIdentify, WellTyped
    <3> QED
      BY <1>2, <2>1, <2>2, <2>3, <3>1
  <2>4. CASE h.line.params # <<>> /\ h.later # {}
    <3>1. Executed(h, "identify", buffer.first) \/ Executed(h, "refused", "empty")
      BY <1>4, <2>4 DEF ExecuteIdentify, WellTyped
    <3>2. buffer.first \in ({h.line.params[1]} \union h.later) \ {Wrong}
      BY <2>4 DEF FindsOwn
    <3> QED
      BY <1>2, <2>1, <2>2, <2>4, <3>1, <3>2
  <2>5. CASE h.line.params # <<>> /\ h.later = {}
    <3>1. buffer.count = Len(h.line.params) /\ buffer.first = h.line.params[1]
      BY <2>5 DEF FindsOwn
    <3>2. IF Len(h.line.params) = 1
          THEN Executed(h, "identify", h.line.params[1])
          ELSE Executed(h, "refused", "empty")
      BY <1>4, <2>5, <3>1 DEF ExecuteIdentify, WellTyped
    <3>3. Asked(h.line) = IF Len(h.line.params) = 1 THEN <<"identify", h.line.params[1]>>
                                                    ELSE <<"refused", "empty">>
      BY <2>1 DEF Asked
    <3> QED
      BY <1>2, <2>2, <3>1, <3>2, <3>3
  <2> QED
    BY <2>3, <2>4, <2>5
<1>5. CASE Unsupported(h)
  <2>1. Asked(h.line) = <<"none", "empty">>
    BY <1>5 DEF Unsupported, Asked
  <2>2. Executed(h, "none", "empty") /\ "none" \in Outcomes
    BY <1>5 DEF Unsupported, Outcomes
  <2> QED
    BY <1>2, <2>1, <2>2
<1> QED
  BY <1>3, <1>4, <1>5

\* The button's command is a line like the others, without parameters.
LEMMA ButtonIsLine == ButtonToggle \in Line /\ Accepted(ButtonToggle.params)
  BY DEF ButtonToggle, Line, Accepted

\* A line whose command has to wait for a session.
LEMMA LineWaits ==
  ASSUME ClientInv, NEW l \in Line, Later(l)
  PROVE  ClientInv'
<1> DEFINE r == Reused(l.params)
<1>1. /\ r \in Seq(Handles) /\ Len(r) = Len(pending)
      /\ \A i \in 1..Len(r) : WellTyped(r[i]) /\ FindsOwn(r[i], Stored(l.params))
  BY ReusedType, ReusedFindOwn DEF ClientInv
<1>2. Handle(l) \in Handles /\ WellTyped(Handle(l)) /\ FindsOwn(Handle(l), Stored(l.params))
  BY HandleType DEF Later
<1>3. /\ pending' \in Seq(Handles) /\ Len(pending') = Len(pending) + 1
      /\ \A i \in 1..Len(pending) : pending'[i] = r[i]
      /\ pending'[Len(pending) + 1] = Handle(l)
  BY <1>1, <1>2 DEF Later
<1>4. ClientTypeOK'
  BY <1>3, StoredType, ClientAssumption DEF ClientInv, ClientTypeOK, Later
<1>5. WaitingFindOwn'
  <2> SUFFICES ASSUME NEW i \in 1..Len(pending')
               PROVE  WellTyped(pending'[i]) /\ FindsOwn(pending'[i], Stored(l.params))
    BY DEF Later, WaitingFindOwn, WellTyped, FindsOwn
  <2>1. i \in 1..Len(pending) \/ i = Len(pending) + 1
    BY <1>3 DEF ClientInv, ClientTypeOK
  <2> QED
    BY <1>1, <1>2, <1>3, <2>1
<1>6. SentAsTyped'
  BY DEF Later, ClientInv, SentAsTyped
<1> QED
  BY <1>4, <1>5, <1>6 DEF ClientInv

\* A line that is refused, or sent to a group, writes the buffer all the same.
LEMMA LineWrites ==
  ASSUME ClientInv, NEW l \in Line,
         console_buffer' = Stored(l.params), pending' = Reused(l.params)
  PROVE  /\ console_buffer' \in [count : Nat, first : Numbers \union {"empty"}]
         /\ pending' \in Seq(Handles) /\ Len(pending') <= MaxPending
         /\ WaitingFindOwn'
<1>1. /\ pending' \in Seq(Handles) /\ Len(pending') = Len(pending)
      /\ \A i \in 1..Len(pending) :
           WellTyped(pending'[i]) /\ FindsOwn(pending'[i], console_buffer')
  BY ReusedType, ReusedFindOwn DEF ClientInv
<1> QED
  BY <1>1, StoredType DEF ClientInv, ClientTypeOK, WaitingFindOwn, WellTyped, FindsOwn

\* A line with a wrong parameter.
LEMMA LineRefused ==
  ASSUME ClientInv, NEW l \in Line, Refuse(l)
  PROVE  ClientInv'
  BY LineWrites DEF Refuse, ClientInv, ClientTypeOK, SentAsTyped

\* A line for a group, whose command does not wait.
LEMMA GroupSent ==
  ASSUME ClientInv, NEW l \in Line, ready, Accepted(l.params),
         console_buffer' = Stored(l.params), pending' = Reused(l.params),
         app_driver_client_group_command_callback(Handle(l), Stored(l.params)),
         UNCHANGED ready
  PROVE  ClientInv'
<1>1. (\A d \in done' : d \in Done) /\ SentAsTyped'
  BY HandleType, StoredType, CallbackSends
     DEF app_driver_client_group_command_callback, ClientInv
<1> QED
  BY <1>1, LineWrites DEF ClientInv, ClientTypeOK

\* A command leaves the queue; the others move up.
LEMMA WithoutOne ==
  ASSUME ClientInv, NEW i \in 1..Len(pending)
  PROVE  /\ Without(i) \in Seq(Handles) /\ Len(Without(i)) = Len(pending) - 1
         /\ \A j \in 1..Len(Without(i)) :
              WellTyped(Without(i)[j]) /\ FindsOwn(Without(i)[j], console_buffer)
<1> DEFINE n == Len(pending) - 1
           f == [j \in 1..n |-> IF j < i THEN pending[j] ELSE pending[j + 1]]
<1>1. Len(pending) \in Nat /\ n \in Nat /\ pending \in Seq(Handles)
  BY DEF ClientInv, ClientTypeOK
<1>2. \A j \in 1..n : \E k \in 1..Len(pending) : f[j] = pending[k]
  <2> TAKE j \in 1..n
  <2>1. j \in 1..Len(pending) /\ j + 1 \in 1..Len(pending)
    BY <1>1
  <2> QED
    BY <2>1
<1>3. f \in [1..n -> Handles]
  BY <1>1, <1>2
<1>4. f \in Seq(Handles) /\ Len(f) = n
  BY <1>1, <1>3
<1>5. Without(i) = f
  BY DEF Without
<1> HIDE DEF f
<1> QED
  BY <1>2, <1>4, <1>5 DEF ClientInv, WaitingFindOwn

\* A command that waited gets its session, or does not.
LEMMA ClientSession ==
  ASSUME ClientInv, NEW i \in 1..Len(pending), Session(i) \/ NoSession(i)
  PROVE  ClientInv'
<1>1. pending[i] \in Handles /\ WellTyped(pending[i]) /\ FindsOwn(pending[i], console_buffer)
      /\ console_buffer \in [count : Nat, first : Numbers \union {"empty"}]
  BY DEF ClientInv, ClientTypeOK, WaitingFindOwn
<1>2. (\A d \in done' : d \in Done) /\ SentAsTyped'
  <2>1. CASE Session(i)
    BY <1>1, <2>1, CallbackSends
       DEF Session, app_driver_client_group_command_callback, app_driver_client_command_callback
  <2>2. CASE NoSession(i)
    BY <2>2 DEF NoSession, ClientInv, ClientTypeOK, SentAsTyped
  <2> QED
    BY <2>1, <2>2
<1>3. pending' \in {Without(i), pending} /\ UNCHANGED <<ready, console_buffer>>
  BY DEF Session, NoSession
<1>4. /\ pending' \in Seq(Handles) /\ Len(pending') <= Len(pending)
      /\ \A j \in 1..Len(pending') :
           WellTyped(pending'[j]) /\ FindsOwn(pending'[j], console_buffer)
  <2>1. pending \in Seq(Handles) /\ Len(pending) \in Nat
    BY DEF ClientInv, ClientTypeOK
  <2>2. CASE pending' = Without(i)
    <3>1. Len(Without(i)) <= Len(pending)
      BY <2>1, WithoutOne
    <3> QED
      BY <2>2, <3>1, WithoutOne
  <2>3. CASE pending' = pending
    BY <2>1, <2>3 DEF ClientInv, WaitingFindOwn
  <2> QED
    BY <1>3, <2>2, <2>3
<1>5. WaitingFindOwn'
  BY <1>3, <1>4 DEF WaitingFindOwn, WellTyped, FindsOwn
<1>6. Len(pending') <= MaxPending
  <2>1. Len(pending) <= MaxPending /\ Len(pending) \in Nat /\ Len(pending') \in Nat
    BY <1>4 DEF ClientInv, ClientTypeOK
  <2> QED
    BY <1>4, <2>1, ClientAssumption
<1>7. ClientTypeOK'
  BY <1>2, <1>3, <1>4, <1>6 DEF ClientInv, ClientTypeOK
<1> QED
  BY <1>2, <1>5, <1>7 DEF ClientInv

\* Every step preserves the invariant, a restart included.
LEMMA ClientStep == ClientInv /\ [ClientNext \/ ClientReset]_clientVars => ClientInv'
<1> SUFFICES ASSUME ClientInv, [ClientNext \/ ClientReset]_clientVars PROVE ClientInv'
  OBVIOUS
<1>1. CASE app_driver_switch_init
  BY <1>1 DEF app_driver_switch_init, ClientInv, ClientTypeOK, WaitingFindOwn, SentAsTyped
<1>2. ASSUME NEW l \in Lines, app_driver_bound_console_handler(l) PROVE ClientInv'
  BY <1>2, LineWaits, LineRefused, ClientAssumption DEF app_driver_bound_console_handler
<1>3. ASSUME NEW l \in Lines, app_driver_client_console_handler(l) PROVE ClientInv'
  BY <1>3, LineWaits, LineRefused, GroupSent, ClientAssumption
     DEF app_driver_client_console_handler
<1>4. CASE app_driver_button_toggle_cb
  BY <1>4, ButtonIsLine, LineWaits DEF app_driver_button_toggle_cb
<1>5. ASSUME NEW i \in 1..Len(pending), Session(i) \/ NoSession(i) PROVE ClientInv'
  BY <1>5, ClientSession
<1>6. CASE ClientReset
  <2>1. /\ pending' \in Seq(Handles) /\ Len(pending') = 0
        /\ console_buffer' \in [count : Nat, first : Numbers \union {"empty"}]
    BY <1>6 DEF ClientReset
  <2>2. ClientTypeOK'
    <3>1. Len(pending') <= MaxPending
      BY <2>1, ClientAssumption
    <3> QED
      BY <1>6, <2>1, <3>1, Zenon DEF ClientReset, ClientTypeOK
  <2>3. WaitingFindOwn'
    BY <2>1 DEF WaitingFindOwn
  <2>4. SentAsTyped'
    BY <1>6 DEF ClientReset, SentAsTyped
  <2> QED
    BY <2>2, <2>3, <2>4 DEF ClientInv
<1>7. CASE UNCHANGED clientVars
  BY <1>7 DEF clientVars, ClientInv, ClientTypeOK, WaitingFindOwn, SentAsTyped
<1> QED
  BY <1>1, <1>2, <1>3, <1>4, <1>5, <1>6, <1>7 DEF ClientNext

\* The invariant holds in every behaviour.
LEMMA ClientSafe == ClientSpec => []ClientInv
<1>1. ClientInit => ClientInv
  BY ClientFirst
<1>2. ClientInv /\ [ClientNext \/ ClientReset]_clientVars => ClientInv'
  BY ClientStep
<1> QED
  BY <1>1, <1>2, PTL DEF ClientSpec

\* The types of the client's variables.  console_buffer never holds the text of
\* a wrong parameter, and no more commands wait than the bound allows.
THEOREM ClientTypes == ClientSpec => []ClientTypeOK
<1>1. ClientInv => ClientTypeOK
  BY DEF ClientInv
<1> QED
  BY <1>1, ClientSafe, PTL

\* The callbacks of app_driver.cpp execute what was typed, but for Identify
\* without a parameter or with a buffer that another line has written, which
\* sends nothing that was not typed in one of the lines.
THEOREM CommandsAsTyped == ClientSpec => []SentAsTyped
<1>1. ClientInv => SentAsTyped
  BY DEF ClientInv
<1> QED
  BY <1>1, ClientSafe, PTL
==============================================================================
