--------------------------- MODULE UnlockContract ---------------------------
(***************************************************************************)
(* What one call of a transactional unlocker promises its caller, whatever *)
(* it does inside (the Unlocker trait of src/src/lib.rs, fallthrough(), and*)
(* the rollback a back end of freemkv/mod.rs adds to them).                *)
(*                                                                         *)
(*   - Ok(Some): the drive holds the image that serves clear sectors;      *)
(*   - Ok(None): the caller may try the next unlocker, because the drive   *)
(*     is exactly as the call found it;                                    *)
(*   - Err(Transport): the caller must stop; nothing is said of the drive. *)
(*                                                                         *)
(* The drive's volatile memory is one opaque image.  A power cycle may     *)
(* replace it at any moment; the call it interrupts is "disturbed" and the *)
(* image says nothing about that call any more.                            *)
(***************************************************************************)
CONSTANTS
  Images,     \* the images the drive's volatile memory may hold
  Blank,      \* the image after a power cycle
  Unlocked    \* the image that serves clear sectors

VARIABLES
  image,      \* the drive's volatile memory
  entry,      \* the image the current call found
  verdict,    \* "running" inside a call, else how the last one ended
  disturbed   \* a power cycle hit the current call

contractVars == <<image, entry, verdict, disturbed>>

Verdicts == {"none", "running", "unlocked", "declined", "transport"}

Init ==
  /\ image \in Images
  /\ entry = image
  /\ verdict = "none"
  /\ disturbed = FALSE

Call ==
  /\ verdict # "running"
  /\ verdict' = "running"
  /\ entry' = image
  /\ disturbed' = FALSE
  /\ UNCHANGED image

\* Inside a call the image may pass through anything.
Work ==
  /\ verdict = "running"
  /\ image' \in Images
  /\ UNCHANGED <<entry, verdict, disturbed>>

ReturnUnlocked ==
  /\ verdict = "running"
  /\ image = Unlocked \/ disturbed
  /\ verdict' = "unlocked"
  /\ UNCHANGED <<image, entry, disturbed>>

ReturnDeclined ==
  /\ verdict = "running"
  /\ image = entry \/ disturbed
  /\ verdict' = "declined"
  /\ UNCHANGED <<image, entry, disturbed>>

ReturnTransport ==
  /\ verdict = "running"
  /\ verdict' = "transport"
  /\ UNCHANGED <<image, entry, disturbed>>

PowerCycle ==
  /\ image' = Blank
  /\ disturbed' = TRUE
  /\ UNCHANGED <<entry, verdict>>

Next ==
  \/ Call
  \/ Work
  \/ ReturnUnlocked
  \/ ReturnDeclined
  \/ ReturnTransport
  \/ PowerCycle

Spec == Init /\ [][Next]_contractVars
=============================================================================
