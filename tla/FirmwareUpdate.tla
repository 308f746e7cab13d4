---------------------------- MODULE FirmwareUpdate ----------------------------
(***************************************************************************)
(* What an update over the air promises, whatever happens to the upload:   *)
(* the device runs a whole image, a boot changes to a whole image, and     *)
(* until then the running one stays what it is.                            *)
(***************************************************************************)
CONSTANT Images

VARIABLES
  current,  \* the image that runs
  next      \* the image that the next boot runs

Init ==
  /\ current \in Images
  /\ next = current

\* An upload that completes decides what the next boot runs; one that begins
\* anew may withdraw an earlier decision, which leaves the current image.
Decide ==
  /\ next' \in Images
  /\ UNCHANGED current

Boot ==
  /\ current' = next
  /\ UNCHANGED next

Next == Decide \/ Boot

Spec == Init /\ [][Next]_<<current, next>>
==============================================================================
