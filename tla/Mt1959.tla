------------------------------- MODULE Mt1959 -------------------------------
(***************************************************************************)
(* One LdUnlocker call on a MediaTek drive: firmware_unlock (ld/mod.rs)    *)
(* with the MT1959 driver under it (ld/platform/mt1959): the unlock read,  *)
(* the upload of the runtime image by either variant, the silence and the  *)
(* re-confirm after it, the speed calibration, the re-confirm after a bus  *)
(* fault, and the OEM Volume ID.                                           *)
(*                                                                         *)
(* One step is one command, or one pause; each calibration pass is one     *)
(* step too.  At most MaxFaults commands of a behaviour misbehave; the     *)
(* drive may reset by itself at most MaxResets times, and Stop may come at *)
(* any time.  Time is counted in the pauses of the re-confirm read.  The   *)
(* readiness poll is one step here, and ReadyPoll models it.               *)
(***************************************************************************)
EXTENDS Naturals

CONSTANTS
  Attempts,   \* UNLOCK_ATTEMPTS
  Rereads,    \* pauses that fit into READY_STALL
  Tries,      \* reads validate() makes, and unlock reads variant B makes
  Forms,      \* the transports there are: those that return a sense, or raise it
  MaxCalls, MaxFaults, MaxResets

ASSUME BoundsAssumption ==
  /\ Attempts \in Nat /\ Rereads \in Nat /\ Tries \in Nat \ {0}
  /\ MaxCalls \in Nat /\ MaxFaults \in Nat /\ MaxResets \in Nat

(***************************************************************************)
(* What the drive runs: the factory image, half an upload, the runtime     *)
(* image (primary marker only), the runtime image in the extended-access   *)
(* state (both markers).                                                   *)
(***************************************************************************)
Images  == {"none", "partial", "active", "extended"}

\* Answers to the unlock read, and to any other command.  "busy" is a restart
\* sense (UNIT ATTENTION or becoming ready), "sense" is any other one.
Unlocks == {"extended", "active", "inactive", "mismatch", "busy", "sense", "dead"}
Replies == {"good", "busy", "sense", "dead"}

VARIABLES
  \* the drive, and its catalog profile
  image, restarting,
  profile,     \* variant, whether the firmware blob fits, has a VID command
  form,        \* how the transport tells the host of a drive sense
  \* the call
  pc, attempt, settled, waits, tries, unlocked, initComplete, cancelled, verdict,
  \* history
  uploads,     \* of this call
  hush,        \* the step whose dead bus was the last thing heard
  doubt,       \* the step whose dead bus no unlock read has followed yet
  confirmed,   \* the last unlock read saw both markers
  slipped,     \* the drive reset since then
  calls, faults, resets

driveVars == <<image, restarting>>
driver    == <<attempt, settled, waits, tries, unlocked, initComplete>>
heard     == <<hush, doubt, confirmed, slipped>>
bounds    == <<calls, resets>>
vars      == <<driveVars, profile, form, pc, driver, cancelled, verdict, uploads, heard,
               bounds, faults>>

-----------------------------------------------------------------------------
(***************************************************************************)
(* Commands.                                                               *)
(***************************************************************************)

\* Between CriticalGuard::enter and the drop of the span.
Span == {"write", "verify", "modeSelect", "meta", "extra", "f1"}

Reads == {"unlock", "confirm", "confirmB", "again", "reconfirm"}

CommandSteps == Span \cup Reads \cup
  {"ready", "capacity", "probeInit", "validate", "coarse", "fine", "speed", "vid"}

Steps == CommandSteps \cup
  {"idle", "enter", "settle", "unlockPause", "faultSettle", "reconfirmPause"}

\* Variant: no critical span.
BlockedAlways == cancelled

Blocked == cancelled /\ pc \notin Span

Goto(next) == pc' = next /\ UNCHANGED verdict

\* From<Error> for UnlockError, and fallthrough().
End(outcome) == pc' = "idle" /\ verdict' = outcome

\* The host heard a dead bus, or something else.
Hears(dead) == hush' = IF dead THEN pc ELSE "none"

\* A misbehaving command; on a fault the drive may have reset.
Odd == faults < MaxFaults /\ faults' = faults + 1

Kept(cell) == {cell, "none"}

\* A restarting drive may come up at any command it answers.
ComesUp == restarting' \in {restarting, FALSE}

\* The unlock read: what the drive says of itself, unless something misbehaves.
Truth ==
  IF Blocked THEN "dead"
  ELSE IF restarting THEN "busy"
  ELSE IF image \in {"active", "extended"} THEN image ELSE "inactive"

\* do_unlock answered a: unlocked and init_complete follow every completed
\* handshake, whichever of its callers looks at them.
Unlock(a) ==
  /\ \/ /\ a = Truth
        /\ slipped' = (slipped /\ a # "extended")
        /\ ComesUp
        /\ UNCHANGED <<image, faults>>
     \/ /\ a \in {"inactive", "mismatch", "busy", "sense", "dead"}
        /\ ~Blocked /\ Odd
        /\ image' \in IF a = "dead" THEN Kept(image) ELSE {image}
        /\ slipped' = (slipped \/ image' # image)
        /\ UNCHANGED restarting
  /\ IF a \in {"active", "extended"}
     THEN /\ unlocked' = (a = "extended")
          /\ initComplete' = TRUE
     ELSE UNCHANGED <<unlocked, initComplete>>
  /\ Hears(a = "dead")
  /\ confirmed' = (a = "extended")
  /\ doubt' = CASE a = "dead" -> pc
                [] a \in {"active", "extended"} -> "none"
                [] OTHER -> doubt
  /\ UNCHANGED <<profile, form, cancelled, uploads, bounds>>

\* Any other command: it is answered reply and leaves the image in images.
Command(reply, images) ==
  /\ \/ /\ reply = IF Blocked THEN "dead" ELSE IF restarting THEN "busy" ELSE "good"
        /\ image' \in IF reply = "good" THEN images ELSE {image}
        /\ UNCHANGED faults
     \/ /\ reply \in {"busy", "sense", "dead"}
        /\ ~Blocked /\ Odd
        /\ image' \in images \cup (IF reply = "dead" THEN Kept(image) ELSE {image})
  /\ slipped' = (slipped \/ (image = "extended" /\ image' # image))
  /\ ComesUp
  /\ Hears(reply = "dead")
  /\ doubt' = IF reply = "dead" THEN pc ELSE doubt
  /\ confirmed' = (confirmed /\ reply # "dead")
  /\ UNCHANGED <<profile, form, cancelled, bounds>>

\* A sense becomes an Err only with a transport that raises it.
Raised(reply) == reply \in {"busy", "sense"} /\ form = "raised"

\* A pause, which a Stop ends with an error.
Pause(next) ==
  /\ IF cancelled THEN End("transport") ELSE Goto(next)
  /\ hush' = "none"
  /\ UNCHANGED <<driveVars, profile, form, cancelled, uploads, doubt, confirmed, slipped,
                 bounds, faults>>

-----------------------------------------------------------------------------
(***************************************************************************)
(* init(): run_init and the uploads.                                       *)
(***************************************************************************)

Fields == <<attempt, settled, waits, tries>>

\* LdUnlocker::unlock builds a fresh driver for the drive's profile.
Begin ==
  /\ pc = "idle"
  /\ calls < MaxCalls
  /\ calls' = calls + 1
  /\ pc' = "unlock" /\ verdict' = "running"
  /\ attempt' = 0 /\ settled' = FALSE /\ waits' = 0 /\ tries' = 0
  /\ unlocked' = FALSE /\ initComplete' = FALSE
  /\ cancelled' = FALSE /\ uploads' = 0
  /\ hush' = "none" /\ doubt' = "none" /\ confirmed' = FALSE
  /\ UNCHANGED <<driveVars, profile, form, slipped, resets, faults>>

\* The attempt is over without a confirmed upload: read again, or give up.
NextAttempt ==
  /\ attempt' = attempt + 1
  /\ IF attempt + 1 = Attempts THEN End("declined") ELSE Goto("unlock")

\* Variant: the last attempt may upload too.
ReloadAgain ==
  /\ IF profile.usable THEN Goto("enter") /\ UNCHANGED attempt ELSE NextAttempt
  /\ settled' = FALSE /\ waits' = 0 /\ UNCHANGED tries

\* The unlock read failed: upload, unless this was the read that only confirms
\* the last upload.  A blob that does not fit fails the load without a command.
Reload ==
  /\ IF attempt = Attempts THEN End("declined") /\ UNCHANGED attempt
     ELSE IF profile.usable THEN Goto("enter") /\ UNCHANGED attempt
     ELSE NextAttempt
  /\ settled' = FALSE /\ waits' = 0 /\ UNCHANGED tries

\* The upload failed, and nothing is left to confirm.
LoadFailed == NextAttempt /\ UNCHANGED <<settled, waits, tries>>

\* Variant: a completed handshake stands for the extended-access state.
InitialisedAny(extended) == Goto("capacity")

\* init() is done; firmware_unlock asks is_unlocked().
Initialised(extended) ==
  IF extended THEN Goto("capacity") ELSE End("declined")

\* unlock_read in run_init; slow reads may use up the window by themselves.
UnlockRead ==
  /\ pc = "unlock"
  /\ \E a \in Unlocks, late \in BOOLEAN :
       /\ Unlock(a)
       /\ CASE a \in {"active", "extended"} ->
                 /\ IF settled THEN Goto("ready") ELSE Initialised(a = "extended")
                 /\ settled' = FALSE
                 /\ UNCHANGED <<attempt, waits, tries>>
            [] a = "dead" -> End("transport") /\ UNCHANGED Fields
            [] a = "mismatch" -> End("declined") /\ UNCHANGED Fields
            [] a = "busy" /\ settled /\ waits < Rereads /\ ~late ->
                 Goto("unlockPause") /\ UNCHANGED Fields
            [] OTHER -> Reload

\* Variant: the re-reads are not counted.
UnlockPauseUncounted ==
  /\ pc = "unlockPause"
  /\ Pause("unlock")
  /\ UNCHANGED driver

UnlockPause ==
  /\ pc = "unlockPause"
  /\ Pause("unlock")
  /\ waits' = waits + 1
  /\ UNCHANGED <<attempt, settled, tries, unlocked, initComplete>>

\* load_firmware opens the span, or reports the Stop that came before it.
Enter ==
  /\ pc = "enter"
  /\ IF cancelled THEN End("transport")
     ELSE Goto(IF profile.variant = "A" THEN "write" ELSE "modeSelect")
  /\ UNCHANGED <<driveVars, profile, form, driver, cancelled, uploads, heard, bounds, faults>>

\* The command that carries the blob: its status is not looked at, only an Err.
Upload(at, images, next) ==
  /\ pc = at
  /\ uploads' = uploads + 1
  /\ \E reply \in Replies :
       /\ Command(reply, images)
       /\ CASE reply = "dead" -> End("transport") /\ UNCHANGED Fields
            [] Raised(reply) ->
                 IF reply = "busy" THEN Goto("settle") /\ UNCHANGED Fields ELSE LoadFailed
            [] OTHER -> Goto(next) /\ UNCHANGED Fields
  /\ UNCHANGED <<unlocked, initComplete>>

\* A step of the upload that is traced: only a dead bus ends it.
Traced(at, images, next) ==
  /\ pc = at
  /\ \E reply \in Replies :
       /\ Command(reply, images)
       /\ IF reply = "dead" THEN End("transport") ELSE Goto(next)
  /\ tries' = 0
  /\ UNCHANGED <<attempt, settled, waits, unlocked, initComplete, uploads>>

WriteBuffer  == Upload("write", {"active", "extended"}, "verify")
VerifyUpload == Traced("verify", {image}, "confirm")

ModeSelect   == Upload("modeSelect", {"partial"}, "meta")
ReadMeta     == Traced("meta", {image}, "extra")
WriteExtra   == Traced("extra", {image}, "f1")
VendorVerify ==
  Traced("f1", IF image = "partial" THEN {"active", "extended"} ELSE {image}, "confirmB")

\* Variant: a dead bus is one more failed upload.
LoadedAnyway(a) ==
  IF a = "busy" THEN Goto("settle") /\ UNCHANGED Fields ELSE LoadFailed

\* The last unlock read of an upload decides; a restarting drive did take it.
Loaded(a) ==
  CASE a = "dead" -> End("transport") /\ UNCHANGED Fields
    [] a = "busy" -> Goto("settle") /\ UNCHANGED Fields
    [] OTHER -> LoadFailed

\* Variant A reads the state once, and once more for good measure.
Confirm ==
  /\ pc = "confirm"
  /\ \E a \in Unlocks :
       /\ Unlock(a)
       /\ IF a \in {"active", "extended"} THEN Goto("again") /\ UNCHANGED Fields ELSE Loaded(a)

\* Variant B reads up to Tries times, then once more.
ConfirmB ==
  /\ pc = "confirmB"
  /\ \E a \in Unlocks :
       /\ Unlock(a)
       /\ CASE a \in {"active", "extended"} ->
                 Goto(IF tries < Tries THEN "again" ELSE "settle") /\ UNCHANGED Fields
            [] a \notin {"active", "extended", "dead"} /\ tries < Tries ->
                 /\ tries' = tries + 1
                 /\ Goto("confirmB")
                 /\ UNCHANGED <<attempt, settled, waits>>
            [] OTHER -> Loaded(a)

\* The confirmation pass: whatever it answers is ignored.
Again ==
  /\ pc = "again"
  /\ \E a \in Unlocks : Unlock(a)
  /\ Goto("settle")
  /\ UNCHANGED Fields

\* Variant: no silence after the upload.
SettleNot ==
  /\ pc = "settle"
  /\ Goto("unlock")
  /\ attempt' = attempt + 1
  /\ settled' = TRUE /\ waits' = 0
  /\ UNCHANGED <<driveVars, profile, form, tries, unlocked, initComplete, cancelled, uploads,
                 heard, bounds, faults>>

\* settle_after_upload: silence, then the next attempt only re-confirms.
Settle ==
  /\ pc = "settle"
  /\ Pause("unlock")
  /\ attempt' = attempt + 1
  /\ settled' = TRUE /\ waits' = 0
  /\ UNCHANGED <<tries, unlocked, initComplete>>

\* await_media_ready: every answer keeps the unlock, only a dead bus or a Stop
\* fails.
Ready ==
  /\ pc = "ready"
  /\ \E reply \in Replies :
       /\ Command(reply, {image})
       /\ IF reply = "dead" THEN End("transport") ELSE Initialised(unlocked)
  /\ UNCHANGED <<driver, uploads>>

-----------------------------------------------------------------------------
(***************************************************************************)
(* probe_disc(), what a bus fault in it leads to, and the Volume ID.       *)
(***************************************************************************)

\* Variant: a bus fault is a calibration miss like any other.
FaultForgotten == Goto("vid")

\* reconfirm_after_fault
Fault == Goto("faultSettle")

Calibrate(at, next, refused) ==
  /\ pc = at
  /\ \E reply \in Replies :
       /\ Command(reply, {image})
       /\ CASE reply = "dead" -> Fault
            [] reply = "good" -> Goto(next)
            [] Raised(reply) -> Goto(refused.raised)
            [] OTHER -> Goto(refused.returned)
  /\ tries' = 0
  /\ UNCHANGED <<attempt, settled, waits, unlocked, initComplete, uploads>>

Refused(returned, raised) == [returned |-> returned, raised |-> raised]

\* A capacity the drive returns no data for counts as unknown, and a refused
\* init is left to validate().
Capacity  == Calibrate("capacity", "probeInit", Refused("probeInit", "vid"))
ProbeInit == Calibrate("probeInit", "validate", Refused("validate", "validate"))

\* The sweeps: the coarse one must succeed, the fine one may end early.
Coarse == Calibrate("coarse", "fine", Refused("vid", "vid"))
Fine   == Calibrate("fine", "speed", Refused("speed", "speed"))

Validate ==
  /\ pc = "validate"
  /\ \E reply \in Replies :
       /\ Command(reply, {image})
       /\ CASE reply = "dead" -> Fault /\ UNCHANGED tries
            [] reply = "good" -> Goto("coarse") /\ UNCHANGED tries
            [] reply \in {"busy", "sense"} /\ (Raised(reply) \/ tries + 1 = Tries) ->
                 Goto("vid") /\ UNCHANGED tries
            [] OTHER -> Goto("validate") /\ tries' = tries + 1
  /\ UNCHANGED <<attempt, settled, waits, unlocked, initComplete, uploads>>

\* SET CD SPEED: the result is dropped, a dead bus included.
SetSpeed ==
  /\ pc = "speed"
  /\ \E reply \in Replies : Command(reply, {image})
  /\ Goto("vid")
  /\ UNCHANGED <<driver, uploads>>

FaultSettle ==
  /\ pc = "faultSettle"
  /\ Pause("reconfirm")
  /\ unlocked' = FALSE
  /\ waits' = 0
  /\ UNCHANGED <<attempt, settled, tries, initComplete>>

\* reconfirm_unlock: the same read, never followed by an upload.
Reconfirm ==
  /\ pc = "reconfirm"
  /\ \E a \in Unlocks, late \in BOOLEAN :
       /\ Unlock(a)
       /\ CASE a = "dead" -> End("transport")
            [] a = "busy" /\ waits < Rereads /\ ~late -> Goto("reconfirmPause")
            [] a = "extended" -> Goto("vid")
            [] OTHER -> End("declined")
  /\ UNCHANGED Fields

ReconfirmPause ==
  /\ pc = "reconfirmPause"
  /\ Pause("reconfirm")
  /\ waits' = waits + 1
  /\ UNCHANGED <<attempt, settled, tries, unlocked, initComplete>>

\* Variant: whatever the VID command answers, the unlock is not reported.
VidRequired ==
  /\ pc = "vid"
  /\ \E reply \in Replies :
       /\ Command(reply, {image})
       /\ End(CASE reply = "dead" -> "transport" [] reply = "good" -> "unlocked"
                [] OTHER -> "declined")
  /\ UNCHANGED <<driver, uploads>>

\* read_oem_vid, if the profile has the command; a raised sense is an error of
\* the call.
OemVid ==
  /\ pc = "vid"
  /\ IF profile.vidCdb
     THEN \E reply \in Replies :
            /\ Command(reply, {image})
            /\ End(CASE reply = "dead" -> "transport"
                     [] Raised(reply) -> "declined"
                     [] OTHER -> "unlocked")
     ELSE /\ End("unlocked")
          /\ UNCHANGED <<driveVars, profile, form, cancelled, heard, bounds, faults>>
  /\ UNCHANGED <<driver, uploads>>

-----------------------------------------------------------------------------

Stop ==
  /\ pc # "idle"
  /\ ~cancelled
  /\ cancelled' = TRUE
  /\ UNCHANGED <<driveVars, profile, form, pc, driver, verdict, uploads, heard, bounds, faults>>

\* The drive resets by itself, and drops what was uploaded.
Reset ==
  /\ resets < MaxResets
  /\ resets' = resets + 1
  /\ image' = "none"
  /\ restarting' = TRUE
  /\ slipped' = TRUE
  /\ UNCHANGED <<profile, form, pc, driver, cancelled, verdict, uploads, hush, doubt,
                 confirmed, calls, faults>>

Host ==
  \/ UnlockRead \/ UnlockPause \/ Enter
  \/ WriteBuffer \/ VerifyUpload \/ ModeSelect \/ ReadMeta \/ WriteExtra \/ VendorVerify
  \/ Confirm \/ ConfirmB \/ Again \/ Settle \/ Ready
  \/ Capacity \/ ProbeInit \/ Validate \/ Coarse \/ Fine \/ SetSpeed
  \/ FaultSettle \/ Reconfirm \/ ReconfirmPause \/ OemVid

Init ==
  /\ image \in {"none", "extended"} /\ restarting \in BOOLEAN
  /\ profile \in [variant : {"A", "B"}, usable : BOOLEAN, vidCdb : BOOLEAN]
  /\ form \in Forms
  /\ pc = "idle" /\ verdict = "none"
  /\ attempt = 0 /\ settled = FALSE /\ waits = 0 /\ tries = 0
  /\ unlocked = FALSE /\ initComplete = FALSE /\ cancelled = FALSE
  /\ uploads = 0 /\ hush = "none" /\ doubt = "none" /\ confirmed = FALSE /\ slipped = FALSE
  /\ calls = 0 /\ faults = 0 /\ resets = 0

Next == Begin \/ Host \/ Stop \/ Reset

Spec == Init /\ [][Next]_vars

\* The call is one host thread, and each command and pause has a timeout.
FairSpec == Spec /\ WF_vars(Host)

-----------------------------------------------------------------------------
(***************************************************************************)
(* Properties.                                                             *)
(***************************************************************************)

\* The variables stay in their ranges; the attempt never passes UNLOCK_ATTEMPTS.
TypeOK ==
  /\ image \in Images /\ restarting \in BOOLEAN
  /\ profile \in [variant : {"A", "B"}, usable : BOOLEAN, vidCdb : BOOLEAN]
  /\ form \in Forms
  /\ pc \in Steps
  /\ attempt \in 0..Attempts /\ waits \in 0..Rereads /\ tries \in 0..Tries
  /\ settled \in BOOLEAN /\ unlocked \in BOOLEAN /\ initComplete \in BOOLEAN
  /\ cancelled \in BOOLEAN
  /\ verdict \in {"none", "running", "unlocked", "declined", "transport"}
  /\ uploads \in Nat
  /\ hush \in CommandSteps \cup {"none"} /\ doubt \in CommandSteps \cup {"none"}
  /\ confirmed \in BOOLEAN /\ slipped \in BOOLEAN
  /\ calls \in 0..MaxCalls /\ faults \in 0..MaxFaults /\ resets \in 0..MaxResets

\* However the restarts and re-confirms go, a call makes at most
\* UNLOCK_ATTEMPTS uploads: the extra attempt only confirms the last one.
UploadsBounded == uploads <= Attempts

\* Stop alone never leaves half an upload in the drive, wherever it lands: the
\* span of load_firmware holds it back until every command of it is sent.
WholeUpload == pc = "idle" /\ faults = 0 /\ resets = 0 => image # "partial"

\* A call reports an unlock only of a drive in the extended-access state,
\* unless the drive reset after its last unlock read.
UnlockIsReal == pc = "idle" /\ verdict = "unlocked" => image = "extended" \/ slipped

\* No command follows a dead bus without a silence in between ("a command
\* right after the fault can wedge a USB drive"), except behind SET CD SPEED.
QuietAfterFault == pc \in CommandSteps => hush \in {"none", "speed"}

\* Only a dead bus is an Err, and every dead bus is one: a call that ends in
\* anything but Transport did not hear a dead bus last, SET CD SPEED aside.
DeadBusIsFatal ==
  pc = "idle" /\ verdict \in {"unlocked", "declined"} =>
    hush = "none" \/ (verdict = "unlocked" /\ hush = "speed")

\* An unlock survives a bus fault only if the drive confirmed it afterwards;
\* the one fault that goes unconfirmed is SET CD SPEED's.
Reconfirmed == pc = "idle" /\ verdict = "unlocked" => doubt \in {"none", "speed"}

\* "keep the unlock only if the drive re-confirms it", whichever command of the
\* calibration the fault hit.
AlwaysReconfirmed == pc = "idle" /\ verdict = "unlocked" => doubt = "none"

\* An unlock the drive confirmed is never discarded for want of a Volume ID
\* or of a calibration.
UnlockNotDiscarded == pc = "idle" /\ verdict = "declined" => ~confirmed

\* At least not with a transport that returns the drive's senses, as the
\* contract asks.
UnlockKept == form = "returned" => UnlockNotDiscarded

\* Every call ends: the re-reads, the attempts and the tries are all bounded.
CallEnds == verdict = "running" ~> verdict # "running"
=============================================================================
