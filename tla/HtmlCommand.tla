----------------------------- MODULE HtmlCommand -----------------------------
(***************************************************************************)
(* The commands that the web pages send to the device.  A page posts text  *)
(* to /HtmlToMcu; the httpd task passes the body through the message       *)
(* buffer HtmlToMcuData to htmltomcudata_task, which parses it in place:   *)
(* its array keeps the bytes of earlier, longer messages.                  *)
(*                                                                         *)
(* A byte is a digit, a colon, the first byte of a keyword (named by the   *)
(* keyword) or something else (".").                                       *)
(***************************************************************************)
EXTENDS Integers, Sequences, FiniteSetsExt

CONSTANTS
  Timings,     \* settings of the timing page: off and on are three texts, typed
               \* as hours, minutes and seconds; status is 170 (run) or 85 (stop)
  Durations,   \* hours, minutes and seconds that are whole numbers
  Networks,    \* pairs: the lengths of an SSID and of its password
  Garbage,     \* pairs that may be configured after an array was overrun
  Pairings,    \* numbers typed as a pairing code
  Cuts,        \* lengths after which a body may be split by the network
  MaxPosts,    \* bound: requests
  BufferSize,  \* bytes of the message buffer (100)
  DataSize,    \* bytes of the two arrays, data and ota_buff (96)
  Uint32       \* where the program's numbers start again at 0 (2^32)

Digits == <<"0", "1", "2", "3", "4", "5", "6", "7", "8", "9">>

\* What a field of the timing page may hold: decimals and exponents pass, too.
\* The script fills an empty field with 0.
Typed == Seq({ Digits[v + 1] : v \in 0..9 } \union {"."}) \ {<<>>}

InSeconds(t) == t[1] * 3600 + t[2] * 60 + t[3]

ASSUME CommandAssumption ==
  /\ \A t \in Timings : /\ \A k \in 1..3 : t.off[k] \in Typed /\ t.on[k] \in Typed
                        /\ t.status \in {170, 85}
  /\ \A h \in Durations : h \in Nat \X Nat \X Nat /\ InSeconds(h) < Uint32
  /\ \A n \in Networks : n \in (Nat \ {0}) \X Nat /\ n[2] >= 8
  /\ Garbage \subseteq (0..31) \X (0..63)
  /\ Pairings \subseteq Nat /\ Cuts \subseteq Nat \ {0}
  /\ MaxPosts \in Nat
  /\ DataSize \in 92..255    \* the search looks at 92 bytes, a length has 8 bits
  /\ BufferSize = DataSize + 4
  /\ Uint32 \in Nat /\ Uint32 > 255 /\ Uint32 % 256 = 0

VARIABLES
  posts,       \* requests so far
  http,        \* where HtmlToMcu_handler stands
  request,     \* the request it handles
  received,    \* bytes of its body received so far
  ota_buff,    \* the handler's array, on a stack that may keep it between calls
  HtmlToMcuData,
  data,        \* the array of htmltomcudata_task
  sleep_Time, AutolWateringTime, TimeStatus,
  config,      \* lengths in the station configuration
  exit_set,    \* APP_event_Button_PRESS_REPEAT_BIT
  wakeup_sleep,  \* the two wake-up bits, which make log_task save its place
  author,      \* history: the request whose bytes reached ota_buff last
  last,        \* history: the last timing and the last network taken whole
  longest      \* history: length of the longest message taken before

handler  == <<posts, http, request, received, ota_buff, author>>
settings == <<sleep_Time, AutolWateringTime, TimeStatus, config, exit_set, wakeup_sleep>>
history  == <<last, longest>>
vars     == <<handler, HtmlToMcuData, data, settings, history>>

(***************************************************************************)
(* Text.  Names and passwords hold no keyword.                             *)
(***************************************************************************)
Keywords == {"timed", "ssid", "pass", "pairing", "exit"}

Characters == { Digits[v + 1] : v \in 0..9 } \union {":", "."} \union Keywords

DigitValue(c) == CHOOSE v \in 0..9 : Digits[v + 1] = c

Decimal[n \in Nat] ==
  IF n < 10 THEN <<Digits[n + 1]>>
            ELSE Append(Decimal[n \div 10], Digits[(n % 10) + 1])

Dots(n) == [i \in 1..n |-> "."]

\* The bytes of a keyword with its colon.
KeyLength == [timed |-> 13, ssid |-> 5, pass |-> 5, pairing |-> 8, exit |-> 9]

Keyword(k) == <<k>> \o Dots(KeyLength[k] - 2) \o <<":">>

\* How a whole duration is typed, and how the three texts are sent.
Plainly(h) == [k \in 1..3 |-> Decimal[h[k]]]

Hms(texts) == texts[1] \o <<":">> \o texts[2] \o <<":">> \o texts[3]

Requests ==
  [kind : {"timed"}, arg : Timings] \union [kind : {"ssid"}, arg : Networks]
    \union [kind : {"pairing"}, arg : Pairings] \union [kind : {"exit"}, arg : {170}]

\* What the pages send for a request.
Body(r) ==
  CASE r.kind = "timed"   -> Keyword("timed") \o Hms(r.arg.off) \o <<":">>
                               \o Hms(r.arg.on) \o <<":">> \o Decimal[r.arg.status]
    [] r.kind = "ssid"    -> Keyword("ssid") \o Dots(r.arg[1])
                               \o Keyword("pass") \o Dots(r.arg[2])
    [] r.kind = "pairing" -> Keyword("pairing") \o Decimal[r.arg]
    [] r.kind = "exit"    -> Keyword("exit") \o Decimal[r.arg]

\* An array of the program after text is copied to its start.
Overlay(array, text) ==
  [i \in 0..(DataSize - 1) |-> IF i < Len(text) THEN text[i + 1] ELSE array[i]]

Blank == Overlay(<<>>, Dots(DataSize))

\* Bytes that messages take up in a message buffer, with their lengths.
Used(buffer) ==
  LET used[k \in 0..Len(buffer)] ==
        IF k = 0 THEN 0 ELSE used[k - 1] + Len(buffer[k].text) + 4
  IN  used[Len(buffer)]

TypeOK ==
  /\ posts \in 0..MaxPosts
  /\ http \in {"idle", "receive", "send", "sendLast"}
  /\ request \in Requests /\ author \in Requests
  /\ received \in 0..Len(Body(request))
  /\ ota_buff \in [0..(DataSize - 1) -> Characters]
  /\ data \in [0..(DataSize - 1) -> Characters]
  /\ HtmlToMcuData \in Seq([request : Requests, text : Seq(Characters), whole : BOOLEAN])
  /\ Used(HtmlToMcuData) <= BufferSize
  /\ sleep_Time \in Nat /\ AutolWateringTime \in Nat
  /\ TimeStatus \in 0..255
  /\ config \in Nat \X Nat
  /\ exit_set \in BOOLEAN /\ wakeup_sleep \in BOOLEAN
  /\ last.timed \subseteq Timings /\ last.ssid \subseteq Networks
  /\ longest \in 0..DataSize

(***************************************************************************)
(* HtmlToMcu_handler.  Its array is not initialised: it holds what the     *)
(* last call left there, or what other calls have put over it.             *)
(***************************************************************************)
Post(r) ==
  /\ http = "idle"
  /\ posts < MaxPosts
  /\ posts' = posts + 1
  /\ request' = r
  /\ received' = 0
  /\ http' = "receive"
  /\ ota_buff' \in {ota_buff, Blank}
  /\ UNCHANGED <<author, HtmlToMcuData, data, settings, history>>

Rest == Len(Body(request)) - received

\* A reception stores what has arrived at the start of the array.
Receive(n) ==
  /\ http = "receive"
  /\ n \in 1..Rest /\ n <= DataSize
  /\ ota_buff' = Overlay(ota_buff, SubSeq(Body(request), received + 1, received + n))
  /\ received' = received + n
  /\ author' = request
  /\ http' = "send"
  /\ UNCHANGED <<posts, request, HtmlToMcuData, data, settings, history>>

\* A browser that closes the connection ends the loop, too, but only behind a
\* message: what the array holds is sent once more.
ReceiveNothing ==
  /\ http = "receive"
  /\ http' = "sendLast"
  /\ UNCHANGED <<posts, request, received, ota_buff, author, HtmlToMcuData, data, settings, history>>

\* Silence or an error ends the handler: the continue of its do-while loop
\* leaves the loop too.
GiveUp ==
  /\ http = "receive"
  /\ http' = "idle"
  /\ UNCHANGED <<posts, request, received, ota_buff, author, HtmlToMcuData, data, settings, history>>

\* Each reception sends content_length bytes of the array, however few arrived.
\* The message is that of the request whose bytes the array begins with.
Message ==
  [ request |-> author,
    text    |-> [i \in 1..Len(Body(request)) |-> ota_buff[i - 1]],
    whole   |-> received = Len(Body(request)) ]

Sending == http \in {"send", "sendLast"}

AfterSend == IF http = "send" /\ Rest > 0 THEN "receive" ELSE "idle"

\* Faulty variant: a message that can never fit is waited for like any other.
OversizeNever == FALSE

Oversize == Len(Body(request)) + 4 > BufferSize

\* Faulty variant: without the four bytes of the message's length.
RoomForText == Used(HtmlToMcuData) + Len(Body(request)) <= BufferSize

Room == Used(HtmlToMcuData) + Len(Body(request)) + 4 <= BufferSize

\* xMessageBufferSend waits for room, but not for room that cannot come.
Send ==
  /\ Sending
  /\ ~Oversize /\ Room
  /\ HtmlToMcuData' = Append(HtmlToMcuData, Message)
  /\ http' = AfterSend
  /\ UNCHANGED <<posts, request, received, ota_buff, author, data, settings, history>>

DropOversize ==
  /\ Sending
  /\ Oversize
  /\ http' = AfterSend
  /\ UNCHANGED <<posts, request, received, ota_buff, author, HtmlToMcuData, data, settings, history>>

(***************************************************************************)
(* htmltomcudata_task.                                                     *)
(***************************************************************************)

Keyed(d, k) == { i \in 0..79 : d[i] = k /\ d[i + KeyLength[k] - 1] = ":" }

\* The keyword that the loop over the first 80 bytes stops at: pass counts
\* only behind an ssid.
Command(d) ==
  LET found == Keyed(d, "timed") \union Keyed(d, "pairing") \union Keyed(d, "exit")
                 \union { i \in Keyed(d, "pass") : \E j \in Keyed(d, "ssid") : j < i }
  IN  IF found = {} THEN [at |-> 0, keyword |-> "none"]
                    ELSE [at |-> Min(found), keyword |-> d[Min(found)]]

\* n bytes of d, the first of them at from, and what stands before a colon.  Bytes
\* behind the array are taken for neither digit nor colon.
Bytes(d, from, n) ==
  [i \in 1..n |-> IF from + i - 1 < DataSize THEN d[from + i - 1] ELSE "."]

UpToColon(bytes) ==
  LET colons == { i \in DOMAIN bytes : bytes[i] = ":" }
  IN  IF colons = {} THEN bytes ELSE SubSeq(bytes, 1, Min(colons) - 1)

\* The digits among the bytes as a number, whatever stands between them.
IsDigit(c) == \E v \in 0..9 : Digits[v + 1] = c

Number(bytes) ==
  LET value[k \in 0..Len(bytes)] ==
        IF k = 0 THEN 0
        ELSE IF IsDigit(bytes[k]) THEN (10 * value[k - 1] + DigitValue(bytes[k])) % Uint32
        ELSE value[k - 1]
  IN  value[Len(bytes)]

\* Faulty variant: an int8_t that holds no 170.
TempValuesSigned == 128

TempValues == 256

Temp(bytes) == Number(bytes) % TempValues

\* Faulty variant: the next field is read from the colon itself.
AfterColonLate(bit, field) == bit + Len(field)

\* Where first_bit goes when a colon ends the field that begins after it.
AfterColon(bit, field) == bit + Len(field) + 1

\* A field is read up to a colon, but from no more than first_len bytes, which
\* from the second field on reach beyond the end of the message.  Without a
\* colon first_bit stays.
Field(d, bit, first_len) == UpToColon(Bytes(d, bit + 1, first_len))

Behind(d, bit, first_len) ==
  LET field == Field(d, bit, first_len)
  IN  IF Len(field) < first_len THEN AfterColon(bit, field) ELSE bit

\* The seven fields of a timing, the first of them behind the keyword, whose 13
\* bytes the program adds to the length of the field, not to where it began.
TimedFields(d, at, first_len) ==
  LET hours == Field(d, at + 12, first_len)
      first_bit[k \in 2..7] ==
        IF k = 2 THEN IF Len(hours) < first_len THEN AfterColon(12, hours) ELSE at
                 ELSE Behind(d, first_bit[k - 1], first_len)
  IN  [k \in 1..7 |-> IF k = 1 THEN hours ELSE Field(d, first_bit[k], first_len)]

Seconds(f, k) ==
  (Number(f[k]) * 3600 + Number(f[k + 1]) * 60 + Number(f[k + 2])) % Uint32

\* Faulty variant: the value left in temp is taken for that of exit, too.
TakeTimingAndExit(d, at, n) ==
  LET f == TimedFields(d, at, (n - (at + 13)) % 256)
  IN  /\ sleep_Time' = Seconds(f, 1)
      /\ AutolWateringTime' = Seconds(f, 4)
      /\ TimeStatus' = Temp(f[7])
      /\ exit_set' = (exit_set \/ Temp(f[7]) >= 170)
      /\ UNCHANGED <<config, wakeup_sleep>>

TakeTiming(d, at, n) ==
  LET f == TimedFields(d, at, (n - (at + 13)) % 256)
  IN  /\ sleep_Time' = Seconds(f, 1)
      /\ AutolWateringTime' = Seconds(f, 4)
      /\ TimeStatus' = Temp(f[7])
      /\ UNCHANGED <<config, exit_set, wakeup_sleep>>

\* Faulty variant: the keyword is counted too.
PassLengthWithKey(n, at) == (n - at) % 256

PassLength(n, at) == (n - (at + 5)) % 256

NameLength(d, at) == (at - (Max({ i \in Keyed(d, "ssid") : i < at }) + 5)) % 256

Accepted(d, at, n) == NameLength(d, at) > 0 /\ PassLength(n, at) > 7

\* The copies to ssid (32 bytes) and password (64 bytes) have no bound: how many
\* bytes they write behind an array.
Overrun(d, at, n) ==
  IF Accepted(d, at, n)
  THEN Max({0, NameLength(d, at) - 32, PassLength(n, at) - 64})
  ELSE 0

\* The strings are cut to the fields of wifi_config_t by snprintf, which
\* keeps a byte for its end mark.
TakeNetwork(d, at, n) ==
  /\ IF Accepted(d, at, n)
     THEN /\ config' \in IF Overrun(d, at, n) > 0 THEN Garbage
                         ELSE {<<Min({NameLength(d, at), 31}), Min({PassLength(n, at), 63})>>}
          /\ wakeup_sleep' = TRUE
     ELSE UNCHANGED <<config, wakeup_sleep>>
  /\ UNCHANGED <<sleep_Time, AutolWateringTime, TimeStatus, exit_set>>

TakeExit(d, at, n) ==
  /\ exit_set' = (exit_set \/ Temp(Bytes(d, at + 9, (n - (at + 9)) % 256)) >= 170)
  /\ UNCHANGED <<sleep_Time, AutolWateringTime, TimeStatus, config, wakeup_sleep>>

Known(m, kind) == IF m.whole /\ m.request.kind = kind THEN {m.request.arg} ELSE {}

\* What a copy writes behind its own array may go to the start of this one.
Take ==
  /\ HtmlToMcuData # <<>>
  /\ HtmlToMcuData' = Tail(HtmlToMcuData)
  /\ LET m == Head(HtmlToMcuData)
         n == Len(m.text)
         d == Overlay(data, m.text)
         c == Command(d)
     IN  /\ data' \in IF c.keyword = "pass" THEN {d, Overlay(d, Dots(Overrun(d, c.at, n)))}
                      ELSE {d}
         /\ CASE c.keyword = "timed" -> TakeTiming(d, c.at, n)
              [] c.keyword = "pass"  -> TakeNetwork(d, c.at, n)
              [] c.keyword = "exit"  -> TakeExit(d, c.at, n)
              [] OTHER               -> UNCHANGED settings
         /\ last' = [ timed |-> IF c.keyword = "timed" THEN Known(m, "timed") ELSE last.timed,
                      ssid  |-> IF c.keyword = "pass" THEN Known(m, "ssid") ELSE last.ssid ]
         /\ longest' = Max({longest, n})
  /\ UNCHANGED handler

\* A copy that overruns its array may also stop the program: the device restarts.
Crash ==
  /\ HtmlToMcuData # <<>>
  /\ LET n == Len(Head(HtmlToMcuData).text)
         d == Overlay(data, Head(HtmlToMcuData).text)
         c == Command(d)
     IN  c.keyword = "pass" /\ Overrun(d, c.at, n) > 0
  /\ http' = "idle" /\ ota_buff' = Blank
  /\ HtmlToMcuData' = <<>>
  /\ data' = Blank
  /\ sleep_Time' = 86400 /\ AutolWateringTime' = 50 /\ TimeStatus' = 85
  /\ exit_set' = FALSE /\ wakeup_sleep' = FALSE
  /\ last' = [timed |-> {}, ssid |-> {}]
  /\ longest' = 0
  /\ UNCHANGED <<posts, request, received, author, config>>

\* The stack of a new task is filled with a byte that is no character.
Init ==
  /\ posts = 0
  /\ http = "idle"
  /\ request \in [kind : {"exit"}, arg : {170}] /\ author = request
  /\ received = 0
  /\ ota_buff = Blank
  /\ HtmlToMcuData = <<>>
  /\ data = Blank
  /\ sleep_Time = 86400 /\ AutolWateringTime = 50 /\ TimeStatus = 85
  /\ config = <<0, 0>>
  /\ exit_set = FALSE /\ wakeup_sleep = FALSE
  /\ last = [timed |-> {}, ssid |-> {}]
  /\ longest = 0

Next ==
  \/ \E r \in Requests : Post(r)
  \/ \E n \in Cuts \union {Min({Rest, DataSize})} : Receive(n)
  \/ ReceiveNothing \/ GiveUp \/ Send \/ DropOversize
  \/ Take \/ Crash

Spec == Init /\ [][Next]_vars

(***************************************************************************)
(* httpd gives up on a silent browser, a send goes on once it can, and the *)
(* task of the commands runs.  Each step is named by its effect on one     *)
(* variable, which no other step has, so that the fairness does not parse  *)
(* the messages again (a crash may have the same effects).                 *)
(***************************************************************************)
Silence  == http = "receive" /\ http' = "idle"
SendEnds == Sending /\ (Oversize \/ Room) /\ http' = AfterSend
TaskRuns == HtmlToMcuData # <<>> /\ HtmlToMcuData' = Tail(HtmlToMcuData)

Fairness ==
  /\ WF_http(Silence)
  /\ WF_http(SendEnds)
  /\ WF_HtmlToMcuData(TaskRuns)

FairSpec == Spec /\ Fairness

------------------------------------------------------------------------------
(***************************************************************************)
(* What the commands promise.                                              *)
(***************************************************************************)
\* Each duration of a timing that arrived in one piece, typed in whole numbers, is
\* stored as typed, whatever older bytes the array holds behind the message and
\* whatever was typed as the other one.
DurationsExact ==
  \A t \in last.timed, h \in Durations :
    /\ t.off = Plainly(h) => sleep_Time = InSeconds(h)
    /\ t.on = Plainly(h) => AutolWateringTime = InSeconds(h)

\* So is its status, the last field, which no colon ends, as long as no longer
\* message has been taken before and its loop stays within the array.
StatusExact ==
  \A t \in last.timed :
    longest = Len(Body([kind |-> "timed", arg |-> t])) /\ 2 * longest <= DataSize + 15
      => TimeStatus = t.status

\* A network that arrived in one piece, with a name of at most 31 bytes and a
\* password of at most 63, is configured with the lengths typed.
NetworkExact == \A n \in last.ssid : n[1] <= 31 /\ n[2] <= 63 => config = n

\* A message starts no command but that of the request whose bytes it begins with:
\* its own, or an earlier one's when its browser closed before any byte.  So it is
\* although the array may hold the keywords of other requests behind it, a network
\* needs two keywords far apart, and a later piece is a message of its own.
OwnCommandOnly ==
  [][\/ UNCHANGED settings
     \/ longest' = 0    \* the device restarts
     \/ LET kind == Head(HtmlToMcuData).request.kind
        IN  /\ kind # "timed" => UNCHANGED <<sleep_Time, AutolWateringTime, TimeStatus>>
            /\ kind # "ssid" => UNCHANGED <<config, wakeup_sleep>>
            /\ kind # "exit" => UNCHANGED exit_set]_vars

\* No request holds the web server for ever: there is room for its message
\* in the end, or it is given up.
RequestEnds == http # "idle" ~> http = "idle"

\* OTAServer.c:39 and htmltomcu.c:11, "85 停止": the status 85 of the stop
\* button is stored as a status that counts as stopped (at most 169).  With the
\* three digits of an earlier 170 behind it, it is read as 85170, which is 178
\* in 8 bits.
StopMeansStopped == \A t \in last.timed : t.status = 85 => TimeStatus <= 169
==============================================================================
