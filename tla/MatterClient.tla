----------------------------- MODULE MatterClient -----------------------------
(***************************************************************************)
(* The switch as a client of other Matter devices.  Commands come from the *)
(* button (Toggle) and from the console: a line names a cluster, a command *)
(* and parameters, for the bound devices (bound) or for a node or group    *)
(* typed with it (client).                                                 *)
(*                                                                         *)
(* The parameters of every line go to the same static buffer, and the      *)
(* command carries a pointer to it.  The client layer of esp-matter runs   *)
(* the callback, which reads the buffer, once there is a session with the  *)
(* device: then other lines may have been typed.                           *)
(***************************************************************************)
EXTENDS Integers, Sequences

CONSTANTS
  Numbers,    \* parameters typed as the console wants them: 0x and digits
  Lines,      \* lines that are typed
  MaxPending  \* bound: commands that wait for a session

\* A line of the console; Wrong stands for a parameter without 0x or too long.
Wrong == "wrong"

Line == [path : {"bound", "client"}, group : BOOLEAN,
         cluster : {"OnOff", "Identify", "other"}, id : Nat,
         params : Seq(Numbers \union {Wrong})]

ASSUME ClientAssumption == Lines \subseteq Line /\ MaxPending \in Nat

VARIABLES
  ready,           \* app_driver_switch_init has run
  console_buffer,  \* the number of parameters, and the text of the first
  pending,         \* commands whose session is set up
  done             \* history: the last command that was executed

clientVars == <<ready, console_buffer, pending, done>>

\* A command: where its data is, and (history) the line it was typed as and the
\* first parameters of the lines that have written the buffer since.
Handles == [line : Line, data : {"unset", "console_buffer"},
            later : SUBSET (Numbers \union {Wrong})]

Outcomes == {"none", "off", "on", "toggle", "identify", "refused"}

Done == [handle : Handles, outcome : Outcomes, value : Numbers \union {"empty"}]

ClientTypeOK ==
  /\ ready \in BOOLEAN
  /\ console_buffer \in [count : Nat, first : Numbers \union {"empty"}]
  /\ pending \in Seq(Handles) /\ Len(pending) <= MaxPending
  /\ \A d \in done : d \in Done

(***************************************************************************)
(* The callbacks, which send a command to a device or to a group.          *)
(***************************************************************************)
OnOffCommands == <<"off", "on", "toggle">>

Executed(h, outcome, value) ==
  done' = {[handle |-> h, outcome |-> outcome, value |-> value]}

ExecuteOnOff(h) ==
  /\ h.line.cluster = "OnOff"
  /\ Executed(h, IF h.line.id \in 0..2 THEN OnOffCommands[h.line.id + 1] ELSE "none", "empty")

ReadsBuffer(l) == l.cluster = "Identify" /\ l.id = 0

\* Command 0 of Identify wants exactly one parameter.  Without data the
\* callback reads whatever the pointer holds.
ExecuteIdentify(h, buffer) ==
  /\ ReadsBuffer(h.line)
  /\ IF h.data = "unset"
     THEN \/ Executed(h, "refused", "empty")
          \/ \E v \in Numbers : Executed(h, "identify", v)
     ELSE IF buffer.count = 1
     THEN Executed(h, "identify", buffer.first)
     ELSE Executed(h, "refused", "empty")

Unsupported(h) ==
  /\ h.line.cluster # "OnOff" /\ ~ReadsBuffer(h.line)
  /\ Executed(h, "none", "empty")

app_driver_client_command_callback(h) ==
  ExecuteOnOff(h) \/ ExecuteIdentify(h, console_buffer) \/ Unsupported(h)

app_driver_client_group_command_callback(h, buffer) ==
  ExecuteOnOff(h) \/ ExecuteIdentify(h, buffer) \/ Unsupported(h)

(***************************************************************************)
(* The console.                                                            *)
(***************************************************************************)

\* Faulty variant: the command's id is counted as a parameter.
StoredOneMore(params) ==
  IF params = <<>> THEN console_buffer
  ELSE [ count |-> Len(params) + 1,
         first |-> IF params[1] = Wrong THEN console_buffer.first ELSE params[1] ]

\* The number comes first; a wrong parameter ends the line where it stands.
Stored(params) ==
  IF params = <<>> THEN console_buffer
  ELSE [ count |-> Len(params),
         first |-> IF params[1] = Wrong THEN console_buffer.first ELSE params[1] ]

Accepted(params) == \A i \in 1..Len(params) : params[i] # Wrong

\* The commands that wait share the buffer with a line that has parameters.
Reused(params) ==
  IF params = <<>> THEN pending
  ELSE [i \in 1..Len(pending) |-> [pending[i] EXCEPT !.later = @ \union {params[1]}]]

Handle(l) ==
  [ line |-> l, later |-> {},
    data |-> IF l.params = <<>> THEN "unset" ELSE "console_buffer" ]

\* cluster_update and connect, and the buffer that the line has filled.
Later(l) ==
  /\ Accepted(l.params)
  /\ Len(pending) < MaxPending
  /\ console_buffer' = Stored(l.params)
  /\ pending' = Append(Reused(l.params), Handle(l))
  /\ UNCHANGED <<ready, done>>

Refuse(l) ==
  /\ ~Accepted(l.params)
  /\ console_buffer' = Stored(l.params)
  /\ pending' = Reused(l.params)
  /\ UNCHANGED <<ready, done>>

app_driver_bound_console_handler(l) ==
  /\ ready /\ l.path = "bound"
  /\ Later(l) \/ Refuse(l)

\* A group is not waited for: group_command_send runs the callback at once.
app_driver_client_console_handler(l) ==
  /\ ready /\ l.path = "client"
  /\ \/ ~l.group /\ Later(l)
     \/ /\ l.group /\ Accepted(l.params)
        /\ console_buffer' = Stored(l.params)
        /\ pending' = Reused(l.params)
        /\ app_driver_client_group_command_callback(Handle(l), Stored(l.params))
        /\ UNCHANGED ready
     \/ Refuse(l)

\* The button's Toggle for the bound devices.
ButtonToggle ==
  [path |-> "bound", group |-> FALSE, cluster |-> "OnOff", id |-> 2, params |-> <<>>]

app_driver_button_toggle_cb == ready /\ Later(ButtonToggle)

(***************************************************************************)
(* The client layer: sessions are set up, or not, in any order.  A bound   *)
(* command is executed once for each device in the binding table.          *)
(***************************************************************************)
Without(i) ==
  [j \in 1..(Len(pending) - 1) |-> IF j < i THEN pending[j] ELSE pending[j + 1]]

Session(i) ==
  /\ IF pending[i].line.group
     THEN app_driver_client_group_command_callback(pending[i], console_buffer)
     ELSE app_driver_client_command_callback(pending[i])
  /\ \/ pending' = Without(i)
     \/ pending[i].line.path = "bound" /\ UNCHANGED pending
  /\ UNCHANGED <<ready, console_buffer>>

NoSession(i) ==
  /\ pending' = Without(i)
  /\ UNCHANGED <<ready, console_buffer, done>>

app_driver_switch_init ==
  /\ ~ready
  /\ ready' = TRUE
  /\ UNCHANGED <<console_buffer, pending, done>>

ClientInit ==
  /\ ready = FALSE
  /\ console_buffer = [count |-> 0, first |-> "empty"]
  /\ pending = <<>> /\ done = {}

\* A restart: a panic of a callback that reads no data, or any other.
ClientReset ==
  /\ ready' = FALSE
  /\ console_buffer' = [count |-> 0, first |-> "empty"]
  /\ pending' = <<>> /\ done' = {}

ClientNext ==
  \/ app_driver_switch_init
  \/ \E l \in Lines : app_driver_bound_console_handler(l) \/ app_driver_client_console_handler(l)
  \/ app_driver_button_toggle_cb
  \/ \E i \in 1..Len(pending) : Session(i) \/ NoSession(i)

ClientSpec == ClientInit /\ [][ClientNext \/ ClientReset]_clientVars

------------------------------------------------------------------------------
(***************************************************************************)
(* What the client promises.                                               *)
(***************************************************************************)

\* What a line asks for, whatever the buffer holds by now.
Asked(l) ==
  CASE l.cluster = "OnOff" /\ l.id \in 0..2 -> <<OnOffCommands[l.id + 1], "empty">>
    [] ReadsBuffer(l) /\ Len(l.params) = 1 -> <<"identify", l.params[1]>>
    [] ReadsBuffer(l) /\ Len(l.params) # 1 -> <<"refused", "empty">>
    [] OTHER -> <<"none", "empty">>

\* A command does what was typed, also when it is executed after other lines
\* (refused ones among them): only Identify without a parameter may do something
\* else, or Identify whose buffer another line has written.  The latter is refused,
\* or sends the first parameter of its own line or of one of the others.
SentAsTyped ==
  \A d \in done :
    LET l == d.handle.line
        later == d.handle.later
    IN  \/ <<d.outcome, d.value>> = Asked(l)
        \/ ReadsBuffer(l) /\ l.params = <<>>
        \/ /\ ReadsBuffer(l) /\ later # {}
           /\ \/ d.outcome = "refused"
              \/ d.outcome = "identify" /\ d.value \in ({l.params[1]} \union later) \ {Wrong}
==============================================================================
