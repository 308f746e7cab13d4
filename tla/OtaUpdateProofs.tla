--------------------------- MODULE OtaUpdateProofs ---------------------------
(***************************************************************************)
(* Proofs about module OtaUpdate, for any set of images and any number of  *)
(* pieces.                                                                 *)
(***************************************************************************)
EXTENDS OtaUpdate, TLAPS

\* While a body is received, the slot holds as many pieces as were received,
\* and flash_status says that nothing is decided.
UploadInv ==
  /\ http = "receive" => /\ content_received <= sent
                         /\ started => content[update_partition].parts = sent
                         /\ ~started => content_received = 0
  /\ http \in {"receive", "end"} => flash_status = -1

\* The inductive invariant.
OtaInv == TypeOK /\ UploadInv /\ RunningIsWhole /\ SuccessIsBootable

\* There are two slots: the other of the other slot is the slot itself.
LEMMA OtherSlot ==
  ASSUME NEW s \in Slots
  PROVE  Other(s) \in Slots /\ Other(s) # s /\ Other(Other(s)) = s
BY DEF Slots, Other

\* A write keeps a slot well-formed, and adds one piece to it.
LEMMA WrittenTyped ==
  ASSUME NEW c \in [fw : Files, parts : 0..Pieces], c.parts < Pieces,
         file \in Files,
         NEW d \in Written(c)
  PROVE  d \in [fw : Files, parts : 0..Pieces] /\ d.parts = c.parts + 1
BY OtaAssumption DEF Written, Files

\* The boot loader finds a whole image.
LEMMA BootableIsWhole ==
  ASSUME OtaInv
  PROVE  Bootable \in Slots /\ Whole(content[Bootable])
<1>1. boot \in Slots /\ running \in Slots /\ Whole(content[running])
  BY DEF OtaInv, TypeOK, RunningIsWhole
<1>2. CASE Whole(content[boot])
  BY <1>1, <1>2 DEF Bootable
<1>3. CASE ~Whole(content[boot])
  <2>1. running = Other(boot)
    BY <1>1, <1>3 DEF Slots, Other
  <2> QED BY <1>1, <1>3, <2>1 DEF Bootable
<1> QED BY <1>2, <1>3

LEMMA InitOtaInv ==
  ASSUME Init
  PROVE  OtaInv
<1>1. "ota_0" \in Slots /\ "ota_1" \in Slots /\ Slots = {"ota_0", "ota_1"}
  BY DEF Slots
<1>2. content \in [Slots -> [fw : Files, parts : 0..Pieces]]
  BY OtaAssumption DEF Init, Erased, Files
<1>3. TypeOK
  <2>1. started \in BOOLEAN /\ leaked \in BOOLEAN
    BY DEF Init
  <2> QED BY <1>1, <1>2, <2>1, OtaAssumption DEF Init, TypeOK, Files
<1>4. Whole(content["ota_0"])
  BY <1>1, OtaAssumption DEF Init, Whole
<1> QED
  BY <1>3, <1>4 DEF Init, OtaInv, UploadInv, RunningIsWhole, SuccessIsBootable

\* A write to the partition under update keeps what the running slot holds.
LEMMA WriteElsewhere ==
  ASSUME OtaInv,
         NEW c \in [fw : Files, parts : 0..Pieces],
         content' = [content EXCEPT ![update_partition] = c]
  PROVE  /\ content' \in [Slots -> [fw : Files, parts : 0..Pieces]]
         /\ content'[running] = content[running]
         /\ content'[update_partition] = c
<1>1. running \in Slots /\ content \in [Slots -> [fw : Files, parts : 0..Pieces]]
  BY DEF OtaInv, TypeOK
<1>2. update_partition \in Slots /\ update_partition # running
  BY <1>1, OtherSlot DEF update_partition
<1> QED BY <1>1, <1>2

LEMMA RebootOtaInv ==
  ASSUME OtaInv, Reboot
  PROVE  OtaInv'
<1>1. Bootable \in Slots /\ Whole(content[Bootable])
  BY BootableIsWhole
<1>2. TypeOK'
  <2>1. started' \in BOOLEAN /\ leaked' \in BOOLEAN
    BY DEF Reboot
  <2> QED BY <1>1, <2>1, OtaAssumption DEF OtaInv, TypeOK, Reboot, flash, Files
<1>3. RunningIsWhole'
  BY <1>1 DEF Reboot, flash, RunningIsWhole, Whole
<1> QED
  BY <1>2, <1>3 DEF OtaInv, Reboot, UploadInv, SuccessIsBootable

LEMMA NextOtaInv ==
  ASSUME OtaInv, [Next]_vars
  PROVE  OtaInv'
<1> USE DEF OtaInv
<1>0. CASE UNCHANGED vars
  BY <1>0 DEF vars, flash, upload, TypeOK, UploadInv, RunningIsWhole,
              SuccessIsBootable, Whole, update_partition, Other
<1>1. CASE Index
  BY <1>1 DEF Index, flash, upload, TypeOK, UploadInv, RunningIsWhole,
              SuccessIsBootable, Whole, update_partition, Other
<1>2. CASE Status
  BY <1>2 DEF Status, flash, upload, TypeOK, UploadInv, RunningIsWhole,
              SuccessIsBootable, Whole, update_partition, Other
<1>3. CASE \E f \in Files : Update(f)
  <2>1. PICK f \in Files : Update(f)
    BY <1>3
  <2>2. TypeOK'
    <3>1. started' \in BOOLEAN
      BY <2>1 DEF Update
    <3> QED BY <2>1, <3>1, OtaAssumption DEF Update, flash, TypeOK
  <2>3. UploadInv'
    BY <2>1 DEF Update, UploadInv
  <2>4. RunningIsWhole' /\ SuccessIsBootable'
    BY <2>1 DEF Update, flash, RunningIsWhole, SuccessIsBootable, Whole
  <2> QED BY <2>2, <2>3, <2>4
<1>4. CASE ReceiveFirst
  <2>1. Erased \in [fw : Files, parts : 0..Pieces] /\ Erased.parts = 0
    BY OtaAssumption DEF Erased, Files
  <2>2. PICK c \in Written(Erased) : content' = [content EXCEPT ![update_partition] = c]
    BY <1>4 DEF ReceiveFirst
  <2>3. c \in [fw : Files, parts : 0..Pieces] /\ c.parts = 1
    BY <2>1, <2>2, WrittenTyped, OtaAssumption DEF TypeOK
  <2>4. /\ content' \in [Slots -> [fw : Files, parts : 0..Pieces]]
        /\ content'[running] = content[running]
        /\ content'[update_partition] = c
    BY <2>2, <2>3, WriteElsewhere
  <2>5. TypeOK'
    <3>1. started' \in BOOLEAN
      BY <1>4 DEF ReceiveFirst
    <3>2. sent' \in 0..Pieces
      BY <1>4, OtaAssumption DEF ReceiveFirst
    <3> QED BY <1>4, <2>4, <3>1, <3>2 DEF ReceiveFirst, TypeOK
  <2>6. UploadInv'
    BY <1>4, <2>3, <2>4, OtaAssumption
    DEF ReceiveFirst, Receiving, TypeOK, UploadInv, update_partition
  <2>7. RunningIsWhole' /\ SuccessIsBootable'
    BY <1>4, <2>4 DEF ReceiveFirst, Receiving, UploadInv, RunningIsWhole,
                      SuccessIsBootable, Whole
  <2> QED BY <2>5, <2>6, <2>7
<1>5. CASE BeginFails
  <2>1. /\ content' \in [Slots -> [fw : Files, parts : 0..Pieces]]
        /\ content'[running] = content[running]
    <3>1. Erased \in [fw : Files, parts : 0..Pieces]
      BY OtaAssumption DEF Erased, Files
    <3>2. CASE UNCHANGED content
      BY <3>2 DEF TypeOK
    <3>3. CASE content' = [content EXCEPT ![update_partition] = Erased]
      BY <3>1, <3>3, WriteElsewhere
    <3> QED BY <1>5, <3>2, <3>3 DEF BeginFails
  <2>2. TypeOK'
    BY <1>5, <2>1 DEF BeginFails, TypeOK, upload
  <2>3. UploadInv' /\ RunningIsWhole' /\ SuccessIsBootable'
    BY <1>5, <2>1 DEF BeginFails, Receiving, UploadInv, RunningIsWhole,
                      SuccessIsBootable, Whole
  <2> QED BY <2>2, <2>3
<1>6. CASE Receive
  <2> DEFINE old == content[update_partition]
  <2>1. update_partition \in Slots
    BY OtherSlot DEF TypeOK, update_partition
  <2>2. old \in [fw : Files, parts : 0..Pieces] /\ old.parts = sent /\ sent < Pieces
    BY <1>6, <2>1 DEF Receive, Receiving, TypeOK, UploadInv
  <2>3. PICK c \in Written(old) : content' = [content EXCEPT ![update_partition] = c]
    BY <1>6 DEF Receive
  <2>4. c \in [fw : Files, parts : 0..Pieces] /\ c.parts = sent + 1
    BY <2>2, <2>3, WrittenTyped DEF TypeOK
  <2>5. /\ content' \in [Slots -> [fw : Files, parts : 0..Pieces]]
        /\ content'[running] = content[running]
        /\ content'[update_partition] = c
    BY <2>3, <2>4, WriteElsewhere
  <2>6. content_received <= sent /\ flash_status = -1
    BY <1>6 DEF Receive, Receiving, UploadInv
  <2>7. TypeOK'
    BY <1>6, <2>2, <2>5, <2>6, OtaAssumption DEF Receive, TypeOK
  <2>8. UploadInv'
    BY <1>6, <2>4, <2>5, <2>6, OtaAssumption
    DEF Receive, TypeOK, UploadInv, update_partition
  <2>9. RunningIsWhole' /\ SuccessIsBootable'
    BY <1>6, <2>5, <2>6 DEF Receive, RunningIsWhole, SuccessIsBootable, Whole
  <2> QED BY <2>7, <2>8, <2>9
<1>7. CASE Drained
  BY <1>7 DEF Drained, flash, upload, TypeOK, UploadInv, RunningIsWhole,
              SuccessIsBootable, Whole, update_partition, Other
<1>8. CASE Timeout
  BY <1>8 DEF Timeout, Receiving, flash, upload, TypeOK, UploadInv, RunningIsWhole,
              SuccessIsBootable, Whole, update_partition, Other
<1>9. CASE Broken
  <2>1. leaked' \in BOOLEAN
    BY <1>9 DEF Broken, TypeOK
  <2> QED
    BY <1>9, <2>1 DEF Broken, Receiving, flash, upload, TypeOK, UploadInv,
                      RunningIsWhole, SuccessIsBootable, Whole, update_partition, Other
<1>10. CASE Finish
  <2>1. leaked' \in BOOLEAN
    BY <1>10 DEF Finish, TypeOK
  <2>2. update_partition \in Slots /\ Whole(content[update_partition])
    BY <1>10, OtherSlot DEF Finish, EndOK, TypeOK, update_partition
  <2>3. TypeOK'
    BY <1>10, <2>1, <2>2 DEF Finish, TypeOK, upload
  <2>4. SuccessIsBootable'
    BY <1>10, <2>2 DEF Finish, SuccessIsBootable, Whole, update_partition, Other
  <2>5. UploadInv' /\ RunningIsWhole'
    BY <1>10 DEF Finish, UploadInv, RunningIsWhole, Whole
  <2> QED BY <2>3, <2>4, <2>5
<1>11. CASE FinishFails
  <2>1. leaked' \in BOOLEAN
    BY <1>11 DEF FinishFails, TypeOK
  <2> QED
    BY <1>11, <2>1 DEF FinishFails, flash, upload, TypeOK, UploadInv,
                       RunningIsWhole, SuccessIsBootable, Whole, update_partition, Other
<1>12. CASE Restart \/ PowerLoss
  BY <1>12, RebootOtaInv DEF Restart, PowerLoss
<1> QED
  BY <1>0, <1>1, <1>2, <1>3, <1>4, <1>5, <1>6, <1>7, <1>8, <1>9, <1>10, <1>11, <1>12
  DEF Next

LEMMA OtaInvariant == Spec => []OtaInv
BY InitOtaInv, NextOtaInv, PTL DEF Spec

\* The update's state is well-typed: in particular no upload writes more
\* pieces into a slot than its body has.
THEOREM TypeCorrect == Spec => []TypeOK
BY OtaInvariant, PTL DEF OtaInv

\* However uploads, failures and losses of power follow each other, the slot
\* that runs holds a whole image.
THEOREM RunningStaysWhole == Spec => []RunningIsWhole
BY OtaInvariant, PTL DEF OtaInv

\* flash_status 1, which makes /status restart the device, is set only when
\* the boot loader will find a whole image in the other slot.
THEOREM SuccessBoots == Spec => []SuccessIsBootable
BY OtaInvariant, PTL DEF OtaInv

LEMMA AtomicInit ==
  ASSUME Init
  PROVE  Atomic!Init
<1>1. OtaInv
  BY InitOtaInv
<1>2. Bootable = running
  <2>1. Whole(content[running])
    BY <1>1 DEF OtaInv, RunningIsWhole
  <2> QED BY <2>1 DEF Init, Bootable
<1>3. content[running].fw \in Images
  BY <1>1 DEF OtaInv, RunningIsWhole, Whole
<1> QED BY <1>2, <1>3 DEF Atomic!Init

\* A step that leaves the running slot alone decides what the next boot runs.
LEMMA AtomicDecide ==
  ASSUME OtaInv', content'[running'].fw = content[running].fw
  PROVE  Atomic!Decide
<1>1. Whole(content[Bootable])'
  BY BootableIsWhole, PTL
<1> QED BY <1>1 DEF Atomic!Decide, Whole

LEMMA AtomicNext ==
  ASSUME OtaInv, OtaInv', [Next]_vars
  PROVE  [Atomic!Next]_<<content[running].fw, content[Bootable].fw>>
<1>1. CASE Restart \/ PowerLoss
  <2>1. running' = Bootable /\ content' = content /\ boot' = boot
    BY <1>1 DEF Restart, PowerLoss, Reboot, flash
  <2>2. Bootable' = Bootable
    BY <2>1 DEF Bootable, Whole
  <2> QED BY <2>1, <2>2 DEF Atomic!Next, Atomic!Boot
<1>2. CASE ~(Restart \/ PowerLoss)
  <2>1. content'[running'].fw = content[running].fw
    <3>1. Erased \in [fw : Files, parts : 0..Pieces]
      BY OtaAssumption DEF Erased, Files
    <3>2. CASE content' = content /\ running' = running
      BY <3>2
    <3>3. CASE ReceiveFirst \/ Receive \/ BeginFails
      <4>1. running \in Slots /\ content \in [Slots -> [fw : Files, parts : 0..Pieces]]
        BY DEF OtaInv, TypeOK
      <4>2. update_partition # running
        BY <4>1, OtherSlot DEF update_partition
      <4>3. running' = running /\ content'[running] = content[running]
        BY <3>3, <4>1, <4>2 DEF ReceiveFirst, Receive, BeginFails
      <4> QED BY <4>3
    <3> QED
      BY <1>2, <3>2, <3>3 DEF Next, vars, flash, Index, Status, Update, Drained, Timeout,
                              Broken, Finish, FinishFails
  <2> QED BY <2>1, AtomicDecide DEF Atomic!Next
<1> QED BY <1>1, <1>2

\* The update over the air implements the atomic one: what runs, and what the
\* next boot runs, are whole images at every step, and the running image
\* changes only in a boot.
THEOREM UpdateImplementsAtomic == Spec => UpdateIsAtomic
<1>1. Init => Atomic!Init
  BY AtomicInit
<1>2. OtaInv /\ OtaInv' /\ [Next]_vars
      => [Atomic!Next]_<<content[running].fw, content[Bootable].fw>>
  BY AtomicNext
<1> QED
  BY <1>1, <1>2, OtaInvariant, PTL DEF Spec, UpdateIsAtomic, Atomic!Spec
==============================================================================
