------------------------------ MODULE OtaUpdate ------------------------------
(***************************************************************************)
(* The firmware update of the web server: the handlers of /update, /status *)
(* and /index, the two application slots in flash, and the boot loader     *)
(* that chooses one of them.                                               *)
(*                                                                         *)
(* The httpd task runs one handler at a time, so an upload keeps every     *)
(* other request waiting; between two requests anything may happen: other  *)
(* browsers, another upload, a loss of power.  The body of an upload       *)
(* arrives in Pieces receptions, the first ImagePieces of which carry the  *)
(* image; the rest is the end of the multipart form.                       *)
(***************************************************************************)
EXTENDS Integers

CONSTANTS
  Images,       \* the firmware images
  Factory,      \* the one the device is made with
  Pieces,       \* receptions per upload
  ImagePieces   \* those after which the image is complete

ASSUME OtaAssumption ==
  /\ Factory \in Images
  /\ "junk" \notin Images
  /\ Pieces \in Nat /\ ImagePieces \in Nat \ {0}
  /\ ImagePieces <= Pieces

Slots == {"ota_0", "ota_1"}

\* What a browser uploads: an image, or something else.
Files == Images \union {"junk"}

VARIABLES
  content,           \* of each slot: what was written since it was erased
  boot,              \* the slot that otadata selects
  running,           \* the slot that runs
  flash_status,      \* 0, -1: an upload has begun, 1: it succeeded
  http,              \* where the httpd task stands
  file,              \* what is being uploaded, or was last
  sent,              \* pieces received
  content_received,  \* the handler's count, without the first piece
  started,           \* is_req_body_started: this upload holds a handle
  leaked             \* a handle of an earlier upload was never ended

flash  == <<content, boot>>
upload == <<file, sent, content_received, started>>
vars   == <<flash, running, flash_status, http, upload, leaked>>

TypeOK ==
  /\ content \in [Slots -> [fw : Files, parts : 0..Pieces]]
  /\ boot \in Slots
  /\ running \in Slots
  /\ flash_status \in {0, -1, 1}
  /\ http \in {"idle", "receive", "end", "restart"}
  /\ file \in Files
  /\ sent \in 0..Pieces
  /\ content_received \in 0..Pieces
  /\ started \in BOOLEAN
  /\ leaked \in BOOLEAN

(***************************************************************************)
(* Slots.                                                                  *)
(***************************************************************************)
Other(s) == IF s = "ota_0" THEN "ota_1" ELSE "ota_0"

Erased == [fw |-> "junk", parts |-> 0]

\* esp_image_verify
Whole(c) == c.fw \in Images /\ c.parts >= ImagePieces

\* esp_ota_write: a piece after those in c, or a failure that leaves a hole.
Written(c) ==
  { [fw |-> IF c.parts = 0 THEN file ELSE c.fw, parts |-> c.parts + 1],
    [fw |-> "junk", parts |-> c.parts + 1] }

\* Faulty variant: the slot after the one that otadata selects.
SlotAfterBoot == Other(boot)

\* esp_ota_get_next_update_partition(NULL)
update_partition == Other(running)

\* The boot loader takes the selected slot if its image is whole, or else the
\* other one.
Bootable == IF Whole(content[boot]) THEN boot ELSE Other(boot)

(***************************************************************************)
(* Requests.                                                               *)
(***************************************************************************)
Index ==
  /\ http = "idle"
  /\ flash_status' = 0
  /\ UNCHANGED <<flash, running, http, upload, leaked>>

\* The page asks after an upload; a success restarts the device a second
\* later.
Status ==
  /\ http = "idle"
  /\ flash_status = 1
  /\ http' = "restart"
  /\ UNCHANGED <<flash, running, flash_status, upload, leaked>>

Update(f) ==
  /\ http = "idle"
  /\ flash_status' = -1
  /\ file' = f
  /\ sent' = 0 /\ content_received' = 0 /\ started' = FALSE
  /\ http' = "receive"
  /\ UNCHANGED <<flash, running, leaked>>

(***************************************************************************)
(* The upload.                                                             *)
(***************************************************************************)
\* Faulty variant: the reception goes on beyond the length of the body.
ReceivingTooMuch == http = "receive" /\ sent <= Pieces

Receiving == http = "receive" /\ sent < Pieces

\* The first piece begins the update, which erases the slot, and is written
\* but not counted.
ReceiveFirst ==
  /\ Receiving /\ ~started
  /\ started' = TRUE
  /\ sent' = 1
  /\ \E c \in Written(Erased) : content' = [content EXCEPT ![update_partition] = c]
  /\ UNCHANGED <<boot, running, flash_status, http, file, content_received, leaked>>

\* esp_ota_begin may fail before or after it erases the slot.
BeginFails ==
  /\ Receiving /\ ~started
  /\ \/ UNCHANGED content
     \/ content' = [content EXCEPT ![update_partition] = Erased]
  /\ http' = "idle"
  /\ UNCHANGED <<boot, running, flash_status, upload, leaked>>

Receive ==
  /\ Receiving /\ started
  /\ sent' = sent + 1
  /\ \E c \in Written(content[update_partition]) :
       content' = [content EXCEPT ![update_partition] = c]
  /\ content_received' = content_received + 1
  /\ http' = IF content_received' < Pieces THEN "receive" ELSE "end"
  /\ UNCHANGED <<boot, running, flash_status, file, started, leaked>>

\* The whole body has been read: httpd_req_recv returns 0.
Drained ==
  /\ http = "receive" /\ sent = Pieces
  /\ http' = "end"
  /\ UNCHANGED <<flash, running, flash_status, upload, leaked>>

\* Faulty variant, and what the comment in the code intends: receive again.
Retry ==
  /\ Receiving
  /\ UNCHANGED vars

\* A silent browser: the continue statement of a do-while loop evaluates the
\* condition, recv_len > 0, and so leaves the loop.
Timeout ==
  /\ Receiving
  /\ http' = "end"
  /\ UNCHANGED <<flash, running, flash_status, upload, leaked>>

\* Any other error: the handler returns without esp_ota_end.
Broken ==
  /\ Receiving
  /\ http' = "idle"
  /\ leaked' = (leaked \/ started)
  /\ UNCHANGED <<flash, running, flash_status, upload>>

\* esp_ota_end with the handle of this upload.  Without a first piece the
\* variable is uninitialized: unknown, or by chance a handle that leaked.
HandleKnown == started \/ leaked

\* Faulty variant: the result of esp_ota_end is not looked at.
EndOKAlways == started

EndOK == HandleKnown /\ Whole(content[update_partition])

Finish ==
  /\ http = "end"
  /\ EndOK
  /\ boot' = update_partition
  /\ flash_status' = 1
  /\ leaked' \in IF started THEN {leaked} ELSE BOOLEAN
  /\ http' = "idle"
  /\ UNCHANGED <<content, running, upload>>

\* esp_ota_end or esp_ota_set_boot_partition fails.
FinishFails ==
  /\ http = "end"
  /\ leaked' \in IF started THEN {leaked} ELSE {leaked, FALSE}
  /\ http' = "idle"
  /\ UNCHANGED <<flash, running, flash_status, upload>>

(***************************************************************************)
(* esp_restart after a success, and loss of power at any time.             *)
(***************************************************************************)
Reboot ==
  /\ running' = Bootable
  /\ flash_status' = 0
  /\ http' = "idle"
  /\ file' = "junk" /\ sent' = 0 /\ content_received' = 0 /\ started' = FALSE
  /\ leaked' = FALSE
  /\ UNCHANGED flash

Restart == http = "restart" /\ Reboot

PowerLoss == Reboot

Init ==
  /\ content = [s \in Slots |-> IF s = "ota_0" THEN [fw |-> Factory, parts |-> Pieces]
                                               ELSE Erased]
  /\ boot = "ota_0" /\ running = "ota_0"
  /\ flash_status = 0
  /\ http = "idle"
  /\ file = "junk" /\ sent = 0 /\ content_received = 0 /\ started = FALSE
  /\ leaked = FALSE

Next ==
  \/ Index \/ Status \/ \E f \in Files : Update(f)
  \/ ReceiveFirst \/ BeginFails \/ Receive \/ Drained \/ Timeout \/ Broken
  \/ Finish \/ FinishFails
  \/ Restart \/ PowerLoss

Spec == Init /\ [][Next]_vars

\* The handlers go on, and httpd gives up on a silent browser.
Fairness ==
  /\ WF_vars(Timeout)
  /\ WF_vars(Drained \/ Finish \/ FinishFails)
  /\ WF_vars(Restart)

FairSpec == Spec /\ Fairness

------------------------------------------------------------------------------
(***************************************************************************)
(* What the update promises.                                               *)
(***************************************************************************)

\* The image that runs is whole and is never written to, also when a second
\* upload follows a success whose restart never came.
RunningIsWhole == Whole(content[running])

\* flash_status 1 means that a restart runs the other slot, and a whole image.
SuccessIsBootable ==
  flash_status = 1 => /\ boot = update_partition
                      /\ Whole(content[boot])

\* The update is atomic: seen through the boot loader's choice it does what
\* module FirmwareUpdate allows, whenever it is interrupted.
Atomic == INSTANCE FirmwareUpdate WITH
            current <- content[running].fw,
            next    <- content[Bootable].fw

UpdateIsAtomic == Atomic!Spec

\* No upload keeps the web server for ever.
UploadEnds == http \in {"receive", "end"} ~> http = "idle"

\* An update that the page was told of is run.
SuccessIsRun == http = "restart" ~> running = boot

\* OTAServer.c:197, "Retry receiving if timeout occurred": a timeout leaves
\* the handler receiving.
TimeoutIsRetried == [][Timeout => http' = "receive"]_vars

\* OTAServer.c:255-256, "Webpage will request status when complete.  This is
\* to let it know it was successful": a success is kept until the restart.
SuccessIsKept ==
  [][flash_status = 1 /\ flash_status' = 0 => running' = boot]_vars
==============================================================================
