------------------------------ MODULE MCServices ------------------------------
(***************************************************************************)
(* The log task, the indicator and the Matter client share nothing but the *)
(* restart, which each of them models.  A behaviour moves the one that     *)
(* "service" names and leaves the others in their first state, so that one *)
(* run checks each of the three on its own.                                *)
(***************************************************************************)
EXTENDS LogTask, Indicator, MatterClient

VARIABLE service

servicesVars == <<logVars, ledVars, clientVars, service>>

ServicesInit ==
  /\ service \in {"log", "led", "client"}
  /\ LogInit /\ LedInit /\ ClientInit
  /\ service # "log" => place = {}

LogMoves    == service = "log" /\ UNCHANGED <<ledVars, clientVars, service>>
LedMoves    == service = "led" /\ UNCHANGED <<logVars, clientVars, service>>
ClientMoves == service = "client" /\ UNCHANGED <<logVars, ledVars, service>>

ServicesNext ==
  \/ LogMoves /\ (LogNext \/ LogReset)
  \/ LedMoves /\ (LedNext \/ LedReset)
  \/ ClientMoves /\ (ClientNext \/ ClientReset)

\* The fairness of the log task and of the indicator.
ServicesFairness ==
  /\ WF_servicesVars(LogMoves /\ Start)
  /\ SF_servicesVars(LogMoves /\ Save)
  /\ WF_servicesVars(LedMoves /\ SetBits)
  /\ WF_servicesVars(LedMoves /\ ShowStart)
  /\ WF_servicesVars(LedMoves /\ ShowMode)
  /\ SF_servicesVars(LedMoves /\ Wake)

ServicesSpec == ServicesInit /\ [][ServicesNext]_servicesVars /\ ServicesFairness

\* Every variable has its type in all three: what they keep in RAM and NVS.
ServicesTypeOK == LogTypeOK /\ LedTypeOK /\ ClientTypeOK

------------------------------------------------------------------------------
\* An empty file of 3 with a margin of 1, a log file and a full one that an
\* earlier firmware left, and a place without its flag.
MCEarlier == {[valid |-> TRUE,  useding |-> 3, used |-> 2],
              [valid |-> TRUE,  useding |-> 4, used |-> 1],
              [valid |-> FALSE, useding |-> 5, used |-> 2]}

Typed(path, group, cluster, id, params) ==
  [path |-> path, group |-> group, cluster |-> cluster, id |-> id, params |-> params]

\* Lines of every path and outcome; the one with 120 as a command's id is the
\* example of the repository's README.
MCLines ==
  { Typed("client", FALSE, "Identify", 0, <<"5">>),
    Typed("client", FALSE, "Identify", 0, <<>>),
    Typed("bound",  TRUE,  "Identify", 0, <<"78">>),
    Typed("client", TRUE,  "Identify", 0, <<"5">>),
    Typed("bound",  FALSE, "Identify", 0, <<"5", "78">>),
    Typed("bound",  FALSE, "Identify", 0, <<"5", "wrong">>),
    Typed("client", FALSE, "OnOff", 0, <<>>),
    Typed("client", FALSE, "OnOff", 1, <<"wrong">>),
    Typed("client", TRUE,  "OnOff", 3, <<>>),
    Typed("bound",  FALSE, "Identify", 120, <<>>),
    Typed("client", FALSE, "other", 1, <<>>) }
==============================================================================
