----------------------------- MODULE Mt1959Proofs ------------------------------
(***************************************************************************)
(* What holds of the LdUnlocker calls for every number of attempts, reads, *)
(* pauses, calls, misbehaving commands and resets.                         *)
(***************************************************************************)
EXTENDS Mt1959, TLAPS

\* From the decision to upload to the silence behind it.
Loading == Span \cup {"enter", "confirm", "confirmB", "again", "settle"}

\* Behind the command that carries the blob.
Sent == {"verify", "meta", "extra", "f1", "confirm", "confirmB", "again", "settle"}

\* Behind a confirmed unlock.
Calibrating == {"capacity", "probeInit", "validate", "coarse", "fine", "speed", "vid"}

\* The parts of TypeOK.
DriveTypeOK ==
  /\ image \in Images
  /\ profile \in [variant : {"A", "B"}, usable : BOOLEAN, vidCdb : BOOLEAN]
  /\ form \in Forms

CallTypeOK ==
  /\ pc \in Steps
  /\ verdict \in {"none", "running", "unlocked", "declined", "transport"}
  /\ hush \in CommandSteps \cup {"none"} /\ doubt \in CommandSteps \cup {"none"}

FlagsOK ==
  /\ restarting \in BOOLEAN /\ settled \in BOOLEAN /\ unlocked \in BOOLEAN
  /\ initComplete \in BOOLEAN /\ cancelled \in BOOLEAN
  /\ confirmed \in BOOLEAN /\ slipped \in BOOLEAN

\* The counters of the call, each below its limit where it is counted up.
Counted ==
  /\ attempt \in 0..Attempts /\ (pc \in Loading => attempt < Attempts)
  /\ waits \in 0..Rereads /\ (pc \in {"unlockPause", "reconfirmPause"} => waits < Rereads)
  /\ tries \in 0..Tries /\ (pc = "validate" => tries < Tries)

\* One upload per attempt, counted before its attempt is.
Uploaded ==
  /\ uploads \in Nat /\ uploads <= Attempts
  /\ pc \in {"unlock", "unlockPause", "enter", "write", "modeSelect"} => uploads <= attempt
  /\ pc \in Sent => uploads <= attempt + 1

WithinBounds ==
  calls \in 0..MaxCalls /\ faults \in 0..MaxFaults /\ resets \in 0..MaxResets

TypeInv == DriveTypeOK /\ CallTypeOK /\ FlagsOK /\ Counted /\ Uploaded /\ WithinBounds

\* Half an upload is only ever found inside the span, where its rest follows.
Half ==
  faults = 0 /\ resets = 0 /\ image = "partial" =>
    pc \in {"meta", "extra", "f1"} /\ ~restarting

\* The drive is in the extended-access state, or it slipped out of it.
Extended == image = "extended" \/ slipped

Real ==
  /\ pc \in Calibrating => Extended
  /\ pc = "ready" /\ unlocked => Extended
  /\ UnlockIsReal

Quiet ==
  /\ pc \in CommandSteps \cup {"enter"} => hush \in {"none", "speed"}
  /\ DeadBusIsFatal

Vouched == (pc \in Calibrating \cup {"ready"} => doubt \in {"none", "speed"}) /\ Reconfirmed

Saved == (pc = "ready" /\ confirmed => unlocked) /\ UnlockKept

-----------------------------------------------------------------------------
(***************************************************************************)
(* The unlock read, other commands, and pauses.                            *)
(***************************************************************************)

\* What an unlock read tells, and what it leaves alone.
LEMMA UnlockHeard ==
  ASSUME NEW a, Unlock(a)
  PROVE  /\ hush' = IF a = "dead" THEN pc ELSE "none"
         /\ doubt' = CASE a = "dead" -> pc
                       [] a \in {"active", "extended"} -> "none"
                       [] OTHER -> doubt
         /\ UNCHANGED <<profile, form, cancelled, uploads, calls, resets>>
  BY DEF Unlock, Hears, bounds

\* The drive answers "extended" only in that state.
LEMMA UnlockImage ==
  ASSUME NEW a, Unlock(a), DriveTypeOK
  PROVE  /\ image' \in {image, "none"}
         /\ a = "extended" => image' = "extended"
         /\ Extended => Extended'
  BY DEF Unlock, Truth, Kept, Extended, DriveTypeOK, Images

\* An unlock read keeps the flags Boolean, and two of them follow its answer.
LEMMA UnlockFlags ==
  ASSUME NEW a, Unlock(a), FlagsOK
  PROVE  /\ restarting' \in BOOLEAN /\ unlocked' \in BOOLEAN /\ initComplete' \in BOOLEAN
         /\ cancelled' \in BOOLEAN /\ confirmed' \in BOOLEAN /\ slipped' \in BOOLEAN
         /\ confirmed' => a = "extended"
         /\ a = "extended" => unlocked'
         /\ a = "active" => ~unlocked'
  BY Zenon DEF Unlock, FlagsOK, ComesUp

\* A misbehaving read is counted, and any other leaves the image alone.
LEMMA UnlockCount ==
  ASSUME NEW a, Unlock(a)
  PROVE  \/ faults' = faults /\ image' = image /\ (restarting' => restarting)
         \/ faults < MaxFaults /\ faults' = faults + 1
  BY Zenon DEF Unlock, Odd, ComesUp

\* What a command tells, and what it leaves alone.
LEMMA CommandHeard ==
  ASSUME NEW reply, NEW images, Command(reply, images)
  PROVE  /\ hush' = IF reply = "dead" THEN pc ELSE "none"
         /\ doubt' = IF reply = "dead" THEN pc ELSE doubt
         /\ UNCHANGED <<profile, form, cancelled, calls, resets>>
  BY DEF Command, Hears, bounds

\* A command leaves what it writes, what was there, or nothing.
LEMMA CommandImage ==
  ASSUME NEW reply, NEW images, Command(reply, images)
  PROVE  /\ image' \in images \cup {image, "none"}
         /\ Extended => Extended'
  BY DEF Command, Kept, Extended

\* A command keeps the flags Boolean, and confirms nothing.
LEMMA CommandFlags ==
  ASSUME NEW reply, NEW images, Command(reply, images), FlagsOK
  PROVE  /\ restarting' \in BOOLEAN /\ cancelled' \in BOOLEAN
         /\ confirmed' \in BOOLEAN /\ slipped' \in BOOLEAN
         /\ confirmed' => confirmed
  BY Zenon DEF Command, FlagsOK, ComesUp

\* A command that does not misbehave is executed inside the span, unless the
\* drive restarts.
LEMMA CommandCount ==
  ASSUME NEW reply, NEW images, Command(reply, images)
  PROVE  \/ /\ faults' = faults
            /\ restarting' => restarting
            /\ image' = image \/ (image' \in images /\ ~restarting /\ reply = "good")
            /\ pc \in Span /\ ~restarting => image' \in images /\ reply = "good"
         \/ faults < MaxFaults /\ faults' = faults + 1
<1>1. restarting' => restarting
  BY Zenon DEF Command, ComesUp
<1>2. CASE Odd
  BY <1>2, Zenon DEF Odd
<1>3. ASSUME ~Odd
      PROVE  /\ reply = IF Blocked THEN "dead" ELSE IF restarting THEN "busy" ELSE "good"
             /\ image' \in IF reply = "good" THEN images ELSE {image}
             /\ faults' = faults
  BY <1>3 DEF Command
<1>4. ASSUME ~Odd
      PROVE  /\ image' = image \/ (image' \in images /\ ~restarting /\ reply = "good")
             /\ pc \in Span /\ ~restarting => image' \in images /\ reply = "good"
  BY <1>3, <1>4 DEF Blocked
<1> QED
  BY <1>1, <1>2, <1>3, <1>4

-----------------------------------------------------------------------------
(***************************************************************************)
(* Ranges.                                                                 *)
(***************************************************************************)

\* The drive, its profile and the transport stay in their ranges.
LEMMA DriveStep == TypeInv /\ Next => DriveTypeOK'
<1> SUFFICES ASSUME TypeInv, Next PROVE DriveTypeOK'
  OBVIOUS
<1> USE DEF TypeInv, DriveTypeOK, Images
<1>1. ASSUME NEW a, Unlock(a) PROVE DriveTypeOK'
  BY <1>1, UnlockImage, UnlockHeard
<1>2. ASSUME NEW reply, NEW images \in SUBSET Images, Command(reply, images)
      PROVE  DriveTypeOK'
  BY <1>2, CommandImage, CommandHeard
<1>3. ASSUME NEW next, Pause(next) PROVE DriveTypeOK'
  BY <1>3 DEF Pause, driveVars
<1>4. CASE UnlockRead \/ Confirm \/ ConfirmB \/ Again \/ Reconfirm
  BY <1>4, <1>1, Zenon DEF UnlockRead, Confirm, ConfirmB, Again, Reconfirm
<1>5. CASE UnlockPause \/ Settle \/ FaultSettle \/ ReconfirmPause
  BY <1>5, <1>3, Zenon DEF UnlockPause, Settle, FaultSettle, ReconfirmPause
<1>6. CASE WriteBuffer \/ ModeSelect
  BY <1>6, <1>2 DEF WriteBuffer, ModeSelect, Upload
<1>7. CASE VerifyUpload \/ ReadMeta \/ WriteExtra
  BY <1>7, <1>2 DEF VerifyUpload, ReadMeta, WriteExtra, Traced
<1>8. CASE VendorVerify
  BY <1>8, <1>2 DEF VendorVerify, Traced
<1>9. CASE Ready \/ Validate \/ SetSpeed
  BY <1>9, <1>2 DEF Ready, Validate, SetSpeed
<1>10. CASE Capacity \/ ProbeInit \/ Coarse \/ Fine
  BY <1>10, <1>2 DEF Capacity, ProbeInit, Coarse, Fine, Calibrate
<1>11. CASE OemVid
  BY <1>11, <1>2 DEF OemVid, driveVars
<1>12. CASE Begin \/ Enter \/ Stop \/ Reset
  BY <1>12 DEF Begin, Enter, Stop, Reset, driveVars
<1> QED
  BY <1>4, <1>5, <1>6, <1>7, <1>8, <1>9, <1>10, <1>11, <1>12 DEF Next, Host

\* The call stays in its ranges.
LEMMA CallStep == TypeInv /\ Next => CallTypeOK'
<1> SUFFICES ASSUME TypeInv, Next PROVE CallTypeOK'
  OBVIOUS
<1> USE DEF TypeInv, CallTypeOK, Steps, CommandSteps, Span, Reads, Goto, End
<1>1. ASSUME NEW a, Unlock(a), pc \in CommandSteps
      PROVE  hush' \in CommandSteps \cup {"none"} /\ doubt' \in CommandSteps \cup {"none"}
  BY <1>1, UnlockHeard
<1>2. ASSUME NEW reply, NEW images, Command(reply, images), pc \in CommandSteps
      PROVE  hush' \in CommandSteps \cup {"none"} /\ doubt' \in CommandSteps \cup {"none"}
  BY <1>2, CommandHeard
<1>3. ASSUME NEW next \in Steps, Pause(next) PROVE CallTypeOK'
  BY <1>3 DEF Pause
<1>4. CASE UnlockRead
  BY <1>4, <1>1 DEF UnlockRead, Initialised, Reload, NextAttempt
<1>5. CASE Confirm \/ ConfirmB
  BY <1>5, <1>1 DEF Confirm, ConfirmB, Loaded, LoadFailed, NextAttempt
<1>6. CASE Again \/ Reconfirm
  BY <1>6, <1>1 DEF Again, Reconfirm
<1>7. CASE UnlockPause \/ Settle \/ FaultSettle \/ ReconfirmPause
  BY <1>7, <1>3 DEF UnlockPause, Settle, FaultSettle, ReconfirmPause
<1>8. CASE WriteBuffer \/ ModeSelect
  BY <1>8, <1>2 DEF WriteBuffer, ModeSelect, Upload, LoadFailed, NextAttempt
<1>9. CASE VerifyUpload \/ ReadMeta \/ WriteExtra \/ VendorVerify
  BY <1>9, <1>2 DEF VerifyUpload, ReadMeta, WriteExtra, VendorVerify, Traced
<1>10. CASE Ready \/ Validate \/ SetSpeed
  BY <1>10, <1>2 DEF Ready, Validate, SetSpeed, Initialised, Fault
<1>11. CASE Capacity \/ ProbeInit \/ Coarse \/ Fine
  BY <1>11, <1>2 DEF Capacity, ProbeInit, Coarse, Fine, Calibrate, Refused, Fault
<1>12. CASE OemVid
  BY <1>12, <1>2 DEF OemVid, heard
<1>13. CASE Begin \/ Enter \/ Stop \/ Reset
  BY <1>13 DEF Begin, Enter, Stop, Reset, heard
<1> QED
  BY <1>4, <1>5, <1>6, <1>7, <1>8, <1>9, <1>10, <1>11, <1>12, <1>13 DEF Next, Host

\* The flags stay Boolean.
LEMMA FlagsStep == TypeInv /\ Next => FlagsOK'
<1> SUFFICES ASSUME TypeInv, Next PROVE FlagsOK'
  OBVIOUS
<1> USE DEF TypeInv
<1>1. ASSUME NEW a, Unlock(a), settled' \in BOOLEAN PROVE FlagsOK'
  BY <1>1, UnlockFlags, Zenon DEF FlagsOK
<1>2. ASSUME NEW reply, NEW images, Command(reply, images), settled' \in BOOLEAN,
             UNCHANGED <<unlocked, initComplete>>
      PROVE  FlagsOK'
  BY <1>2, CommandFlags, Zenon DEF FlagsOK
<1> USE DEF FlagsOK
<1>3. CASE UnlockRead
  <2>1. settled' \in BOOLEAN
    BY <1>3 DEF UnlockRead, Fields, Reload
  <2> QED
    BY <1>3, <2>1, <1>1, Zenon DEF UnlockRead
<1>4. CASE Confirm \/ ConfirmB
  <2>1. settled' = settled
    BY <1>4 DEF Confirm, ConfirmB, Loaded, LoadFailed, Fields
  <2> QED
    BY <1>4, <2>1, <1>1, Zenon DEF Confirm, ConfirmB, FlagsOK
<1>5. CASE Again \/ Reconfirm
  <2>1. settled' = settled
    BY <1>5 DEF Again, Reconfirm, Fields
  <2> QED
    BY <1>5, <2>1, <1>1, Zenon DEF Again, Reconfirm, FlagsOK
<1>6. CASE UnlockPause \/ Settle \/ FaultSettle \/ ReconfirmPause
  BY <1>6 DEF UnlockPause, Settle, FaultSettle, ReconfirmPause, Pause, driveVars
<1>7. CASE WriteBuffer \/ ModeSelect
  <2>1. settled' = settled /\ UNCHANGED <<unlocked, initComplete>>
    BY <1>7 DEF WriteBuffer, ModeSelect, Upload, LoadFailed, Fields
  <2> QED
    BY <1>7, <2>1, <1>2, Zenon DEF WriteBuffer, ModeSelect, Upload, FlagsOK
<1>8. CASE VerifyUpload \/ ReadMeta \/ WriteExtra \/ VendorVerify
  BY <1>8, <1>2 DEF VerifyUpload, ReadMeta, WriteExtra, VendorVerify, Traced
<1>9. CASE Ready \/ Validate \/ SetSpeed
  BY <1>9, <1>2 DEF Ready, Validate, SetSpeed, driver
<1>10. CASE Capacity \/ ProbeInit \/ Coarse \/ Fine
  BY <1>10, <1>2 DEF Capacity, ProbeInit, Coarse, Fine, Calibrate
<1>11. CASE OemVid
  BY <1>11, <1>2 DEF OemVid, driver, driveVars, heard
<1>12. CASE Begin \/ Enter \/ Stop \/ Reset
  BY <1>12 DEF Begin, Enter, Stop, Reset, driver, driveVars, heard
<1> QED
  BY <1>3, <1>4, <1>5, <1>6, <1>7, <1>8, <1>9, <1>10, <1>11, <1>12 DEF Next, Host

\* No counter of the call passes its limit.
LEMMA CountStep == TypeInv /\ Next => Counted'
<1> SUFFICES ASSUME TypeInv, Next PROVE Counted'
  OBVIOUS
<1> USE BoundsAssumption DEF TypeInv, Counted, Loading, Span, Goto, End, Fields, driver
<1>1. CASE UnlockRead
  BY <1>1 DEF UnlockRead, Initialised, Reload, NextAttempt
<1>2. CASE Confirm \/ ConfirmB
  BY <1>2 DEF Confirm, ConfirmB, Loaded, LoadFailed, NextAttempt
<1>3. CASE Again \/ Reconfirm
  BY <1>3 DEF Again, Reconfirm
<1>4. CASE UnlockPause \/ Settle \/ FaultSettle \/ ReconfirmPause
  BY <1>4 DEF UnlockPause, Settle, FaultSettle, ReconfirmPause, Pause
<1>5. CASE WriteBuffer \/ ModeSelect
  BY <1>5 DEF WriteBuffer, ModeSelect, Upload, LoadFailed, NextAttempt
<1>6. CASE VerifyUpload \/ ReadMeta \/ WriteExtra \/ VendorVerify
  BY <1>6 DEF VerifyUpload, ReadMeta, WriteExtra, VendorVerify, Traced
<1>7. CASE Ready \/ SetSpeed
  BY <1>7 DEF Ready, SetSpeed, Initialised
<1>11. CASE Validate
  <2>1. PICK reply \in Replies :
           CASE reply = "dead" -> Fault /\ UNCHANGED tries
             [] reply = "good" -> Goto("coarse") /\ UNCHANGED tries
             [] reply \in {"busy", "sense"} /\ (Raised(reply) \/ tries + 1 = Tries) ->
                  Goto("vid") /\ UNCHANGED tries
             [] OTHER -> Goto("validate") /\ tries' = tries + 1
    BY <1>11 DEF Validate
  <2>2. CASE reply \in {"dead", "good"}
    BY <1>11, <2>1, <2>2 DEF Validate, Fault
  <2>3. CASE reply \in {"busy", "sense"} /\ (Raised(reply) \/ tries + 1 = Tries)
    BY <1>11, <2>1, <2>3 DEF Validate
  <2>4. CASE reply \in {"busy", "sense"} /\ ~(Raised(reply) \/ tries + 1 = Tries)
    <3>1. tries' = tries + 1 /\ pc' = "validate"
      BY <2>1, <2>4
    <3> QED
      BY <1>11, <2>4, <3>1 DEF Validate
  <2> QED
    BY <2>2, <2>3, <2>4 DEF Replies
<1>8. CASE Capacity \/ ProbeInit \/ Coarse \/ Fine
  BY <1>8 DEF Capacity, ProbeInit, Coarse, Fine, Calibrate, Refused, Fault
<1>9. CASE OemVid
  BY <1>9 DEF OemVid
<1>10. CASE Begin \/ Enter \/ Stop \/ Reset
  BY <1>10 DEF Begin, Enter, Stop, Reset
<1> QED
  BY <1>1, <1>2, <1>3, <1>4, <1>5, <1>6, <1>7, <1>8, <1>9, <1>10, <1>11 DEF Next, Host

\* Every upload belongs to an attempt of its own.
LEMMA UploadStep == TypeInv /\ Next => Uploaded'
<1> SUFFICES ASSUME TypeInv, Next PROVE Uploaded'
  OBVIOUS
<1> USE BoundsAssumption
    DEF TypeInv, Counted, Uploaded, Loading, Sent, Span, Goto, End, Fields, driver
<1>1. ASSUME NEW a, Unlock(a) PROVE uploads' = uploads
  BY <1>1, UnlockHeard
<1>2. CASE UnlockRead
  BY <1>2, <1>1 DEF UnlockRead, Initialised, Reload, NextAttempt
<1>3. CASE Confirm \/ ConfirmB
  BY <1>3, <1>1 DEF Confirm, ConfirmB, Loaded, LoadFailed, NextAttempt
<1>4. CASE Again \/ Reconfirm
  BY <1>4, <1>1 DEF Again, Reconfirm
<1>5. CASE UnlockPause \/ Settle \/ FaultSettle \/ ReconfirmPause
  BY <1>5 DEF UnlockPause, Settle, FaultSettle, ReconfirmPause, Pause
<1>6. CASE WriteBuffer \/ ModeSelect
  BY <1>6 DEF WriteBuffer, ModeSelect, Upload, LoadFailed, NextAttempt
<1>7. CASE VerifyUpload \/ ReadMeta \/ WriteExtra \/ VendorVerify
  BY <1>7 DEF VerifyUpload, ReadMeta, WriteExtra, VendorVerify, Traced
<1>8. CASE Ready \/ Validate \/ SetSpeed
  BY <1>8 DEF Ready, Validate, SetSpeed, Initialised, Fault
<1>9. CASE Capacity \/ ProbeInit \/ Coarse \/ Fine
  BY <1>9 DEF Capacity, ProbeInit, Coarse, Fine, Calibrate, Refused, Fault
<1>10. CASE OemVid
  BY <1>10 DEF OemVid
<1>11. CASE Begin \/ Enter \/ Stop \/ Reset
  BY <1>11 DEF Begin, Enter, Stop, Reset
<1> QED
  BY <1>2, <1>3, <1>4, <1>5, <1>6, <1>7, <1>8, <1>9, <1>10, <1>11 DEF Next, Host

\* What bounds a behaviour stays within its bounds.
LEMMA BoundsStep == TypeInv /\ Next => WithinBounds'
<1> SUFFICES ASSUME TypeInv, Next PROVE WithinBounds'
  OBVIOUS
<1> USE BoundsAssumption DEF TypeInv, WithinBounds
<1>1. ASSUME NEW a, Unlock(a) PROVE WithinBounds'
  BY <1>1, UnlockHeard, UnlockCount
<1>2. ASSUME NEW reply, NEW images, Command(reply, images) PROVE WithinBounds'
  BY <1>2, CommandHeard, CommandCount
<1>3. CASE UnlockRead \/ Confirm \/ ConfirmB \/ Again \/ Reconfirm
  BY <1>3, <1>1, Zenon DEF UnlockRead, Confirm, ConfirmB, Again, Reconfirm
<1>4. CASE UnlockPause \/ Settle \/ FaultSettle \/ ReconfirmPause
  BY <1>4 DEF UnlockPause, Settle, FaultSettle, ReconfirmPause, Pause, bounds
<1>5. CASE WriteBuffer \/ ModeSelect \/ VerifyUpload \/ ReadMeta \/ WriteExtra \/ VendorVerify
  BY <1>5, <1>2, Zenon
  DEF WriteBuffer, ModeSelect, Upload, VerifyUpload, ReadMeta, WriteExtra, VendorVerify, Traced
<1>6. CASE Ready \/ Validate \/ SetSpeed \/ Capacity \/ ProbeInit \/ Coarse \/ Fine
  BY <1>6, <1>2, Zenon
  DEF Ready, Validate, SetSpeed, Capacity, ProbeInit, Coarse, Fine, Calibrate
<1>7. CASE OemVid
  <2>1. WithinBounds' \/ UNCHANGED <<bounds, faults>>
    BY <1>7, <1>2, Zenon DEF OemVid
  <2> QED
    BY <2>1 DEF bounds
<1>8. CASE Begin \/ Enter \/ Stop \/ Reset
  BY <1>8 DEF Begin, Enter, Stop, Reset, bounds
<1> QED
  BY <1>3, <1>4, <1>5, <1>6, <1>7, <1>8 DEF Next, Host

-----------------------------------------------------------------------------
(***************************************************************************)
(* The safety invariants.                                                  *)
(***************************************************************************)

\* Without a fault or a reset, the rest of an upload follows its first half.
LEMMA HalfStep == TypeInv /\ Half /\ Next => Half'
<1> SUFFICES ASSUME TypeInv, Half, Next, faults' = 0, resets' = 0, image' = "partial"
             PROVE  pc' \in {"meta", "extra", "f1"} /\ ~restarting'
  BY DEF Half
<1> USE BoundsAssumption DEF TypeInv, WithinBounds, Half, Goto
<1>1. ASSUME NEW a, Unlock(a), pc \notin {"meta", "extra", "f1"} PROVE FALSE
  BY <1>1, UnlockHeard, UnlockCount
<1>2. ASSUME NEW reply, NEW images, Command(reply, images),
             image' \notin images \/ images = {image}, pc \notin {"meta", "extra", "f1"}
      PROVE  FALSE
  BY <1>2, CommandHeard, CommandCount
<1>3. ASSUME NEW next, Pause(next), pc \notin {"meta", "extra", "f1"} PROVE FALSE
  BY <1>3 DEF Pause, driveVars, bounds
<1>4. CASE UnlockRead \/ Confirm \/ ConfirmB \/ Again \/ Reconfirm
  BY <1>4, <1>1 DEF UnlockRead, Confirm, ConfirmB, Again, Reconfirm
<1>5. CASE UnlockPause \/ Settle \/ FaultSettle \/ ReconfirmPause
  BY <1>5, <1>3 DEF UnlockPause, Settle, FaultSettle, ReconfirmPause
<1>6. CASE WriteBuffer
  BY <1>6, <1>2 DEF WriteBuffer, Upload
<1>7. CASE ModeSelect
  <2>1. PICK reply \in Replies :
          /\ Command(reply, {"partial"})
          /\ reply = "good" => pc' = "meta"
    BY <1>7 DEF ModeSelect, Upload, Raised
  <2> QED
    BY <1>7, <2>1, CommandHeard, CommandCount DEF ModeSelect, Upload
<1>8. CASE VerifyUpload
  BY <1>8, <1>2 DEF VerifyUpload, Traced
<1>9. CASE ReadMeta \/ WriteExtra
  <2>1. PICK reply \in Replies :
          /\ Command(reply, {image})
          /\ reply = "good" => pc' \in {"extra", "f1"}
    BY <1>9 DEF ReadMeta, WriteExtra, Traced
  <2> QED
    BY <1>9, <2>1, CommandHeard, CommandCount DEF ReadMeta, WriteExtra, Traced, Span
<1>10. CASE VendorVerify
  <2>1. PICK reply \in Replies :
          Command(reply, IF image = "partial" THEN {"active", "extended"} ELSE {image})
    BY <1>10 DEF VendorVerify, Traced
  <2> QED
    BY <1>10, <2>1, CommandHeard, CommandCount DEF VendorVerify, Traced, Span
<1>11. CASE Ready \/ Validate \/ SetSpeed
  BY <1>11, <1>2 DEF Ready, Validate, SetSpeed
<1>12. CASE Capacity \/ ProbeInit \/ Coarse \/ Fine
  BY <1>12, <1>2 DEF Capacity, ProbeInit, Coarse, Fine, Calibrate
<1>13. CASE OemVid
  BY <1>13, <1>2 DEF OemVid, driveVars, bounds
<1>14. CASE Begin \/ Enter \/ Stop \/ Reset
  BY <1>14 DEF Begin, Enter, Stop, Reset, driveVars, bounds
<1> QED
  BY <1>4, <1>5, <1>6, <1>7, <1>8, <1>9, <1>10, <1>11, <1>12, <1>13, <1>14 DEF Next, Host

\* From the read that confirmed it on, the state is there or slipped away.
LEMMA RealStep == TypeInv /\ Real /\ Next => Real'
<1> SUFFICES ASSUME TypeInv, Real, Next PROVE Real'
  OBVIOUS
<1> USE DEF TypeInv, Real, UnlockIsReal, Calibrating, Goto, End
<1>1. CASE UnlockRead
  <2>1. PICK a \in Unlocks :
          /\ Unlock(a)
          /\ pc' \in Calibrating => a = "extended"
          /\ pc' = "ready" => a \in {"active", "extended"}
          /\ pc' = "idle" => verdict' # "unlocked"
    BY <1>1 DEF UnlockRead, Initialised, Reload, NextAttempt
  <2>2. a = "extended" => Extended'
    BY <2>1, UnlockImage DEF Extended
  <2>3. a = "active" => ~unlocked'
    BY <2>1, UnlockFlags
  <2> QED
    BY <2>1, <2>2, <2>3, Zenon DEF Extended
<1>2. CASE Confirm \/ ConfirmB \/ Again
  <2>1. pc' \notin Calibrating \cup {"ready"} /\ (pc' = "idle" => verdict' # "unlocked")
    BY <1>2 DEF Confirm, ConfirmB, Again, Loaded, LoadFailed, NextAttempt
  <2> QED
    BY <2>1
<1>3. CASE Reconfirm
  <2>1. PICK a \in Unlocks :
          /\ Unlock(a)
          /\ pc' \in Calibrating => a = "extended"
          /\ pc' # "ready" /\ (pc' = "idle" => verdict' # "unlocked")
    BY <1>3 DEF Reconfirm
  <2>2. a = "extended" => Extended'
    BY <2>1, UnlockImage DEF Extended
  <2> QED
    BY <2>1, <2>2
<1>4. CASE UnlockPause \/ Settle \/ FaultSettle \/ ReconfirmPause
  BY <1>4 DEF UnlockPause, Settle, FaultSettle, ReconfirmPause, Pause
<1>5. CASE WriteBuffer \/ ModeSelect
  BY <1>5 DEF WriteBuffer, ModeSelect, Upload, LoadFailed, NextAttempt
<1>6. CASE VerifyUpload \/ ReadMeta \/ WriteExtra \/ VendorVerify
  BY <1>6 DEF VerifyUpload, ReadMeta, WriteExtra, VendorVerify, Traced
<1>7. CASE Ready
  <2>1. PICK reply \in Replies : Command(reply, {image})
    BY <1>7 DEF Ready
  <2>2. Extended => Extended'
    BY <2>1, CommandImage
  <2>3. unlocked' = unlocked /\ pc = "ready"
    BY <1>7 DEF Ready, driver
  <2>4. /\ pc' \in Calibrating => unlocked
        /\ pc' # "ready" /\ (pc' = "idle" => verdict' # "unlocked")
    BY <1>7 DEF Ready, Initialised
  <2> QED
    BY <2>2, <2>3, <2>4 DEF Extended
<1>8. CASE Validate \/ SetSpeed \/ Capacity \/ ProbeInit \/ Coarse \/ Fine
  <2>1. PICK reply \in Replies : Command(reply, {image})
    BY <1>8 DEF Validate, SetSpeed, Capacity, ProbeInit, Coarse, Fine, Calibrate
  <2>2. pc \in Calibrating
    BY <1>8 DEF Validate, SetSpeed, Capacity, ProbeInit, Coarse, Fine, Calibrate
  <2>3. pc' \notin {"idle", "ready"}
    BY <1>8 DEF Validate, SetSpeed, Capacity, ProbeInit, Coarse, Fine, Calibrate, Fault, Refused
  <2> QED
    BY <2>1, <2>2, <2>3, CommandImage DEF Extended
<1>9. CASE OemVid
  <2>1. pc = "vid" /\ pc' = "idle"
    BY <1>9 DEF OemVid
  <2>2. Extended => Extended'
    BY <1>9, CommandImage DEF OemVid, driveVars, heard, Extended
  <2> QED
    BY <2>1, <2>2 DEF Extended
<1>10. CASE Begin \/ Enter \/ Stop
  BY <1>10 DEF Begin, Enter, Stop, driveVars, driver, heard, Extended
<1>11. CASE Reset
  BY <1>11 DEF Reset, Extended
<1> QED
  BY <1>1, <1>2, <1>3, <1>4, <1>5, <1>6, <1>7, <1>8, <1>9, <1>10, <1>11 DEF Next, Host

\* A step of the calibration goes on from a dead bus only behind SET CD SPEED.
LEMMA CalibrationStep ==
  ASSUME Ready \/ Validate \/ SetSpeed \/ Capacity \/ ProbeInit \/ Coarse \/ Fine
  PROVE  \E reply \in Replies :
           /\ Command(reply, {image})
           /\ pc \in Calibrating \cup {"ready"}
           /\ pc' = "idle" => verdict' \in {"transport", "declined"}
           /\ pc' = "idle" /\ verdict' = "declined" => reply # "dead"
           /\ reply = "dead" => pc' \in {"idle", "faultSettle"} \/ pc = "speed"
<1> USE DEF Calibrating, Goto, End
<1>1. CASE Ready
  BY <1>1 DEF Ready, Initialised
<1>2. CASE Validate
  <2>1. pc = "validate" /\ pc' # "idle"
    BY <1>2 DEF Validate, Fault
  <2>2. PICK reply \in Replies : Command(reply, {image}) /\ (reply = "dead" => Fault)
    BY <1>2 DEF Validate, Raised
  <2> QED
    BY <2>1, <2>2 DEF Fault
<1>3. CASE SetSpeed
  BY <1>3 DEF SetSpeed
<1>4. CASE Capacity \/ ProbeInit \/ Coarse \/ Fine
  <2>1. pc \in Calibrating /\ pc' # "idle"
    BY <1>4 DEF Capacity, ProbeInit, Coarse, Fine, Calibrate, Fault, Refused
  <2>2. PICK reply \in Replies : Command(reply, {image}) /\ (reply = "dead" => Fault)
    BY <1>4 DEF Capacity, ProbeInit, Coarse, Fine, Calibrate, Raised
  <2> QED
    BY <2>1, <2>2 DEF Fault
<1> QED
  BY <1>1, <1>2, <1>3, <1>4

\* Behind a dead bus comes a silence, or the end of the call.
LEMMA QuietStep == TypeInv /\ Quiet /\ Next => Quiet'
<1> SUFFICES ASSUME TypeInv, Quiet, Next PROVE Quiet'
  OBVIOUS
<1> USE DEF Quiet, DeadBusIsFatal, CommandSteps, Span, Reads, Goto, End
<1>1. CASE UnlockRead
  BY <1>1, UnlockHeard DEF UnlockRead, Initialised, Reload, NextAttempt
<1>2. CASE Confirm \/ ConfirmB
  BY <1>2, UnlockHeard DEF Confirm, ConfirmB, Loaded, LoadFailed, NextAttempt
<1>3. CASE Again \/ Reconfirm
  BY <1>3, UnlockHeard DEF Again, Reconfirm
<1>4. CASE UnlockPause \/ Settle \/ FaultSettle \/ ReconfirmPause
  BY <1>4 DEF UnlockPause, Settle, FaultSettle, ReconfirmPause, Pause
<1>5. CASE WriteBuffer \/ ModeSelect
  BY <1>5, CommandHeard DEF WriteBuffer, ModeSelect, Upload, Raised, LoadFailed, NextAttempt
<1>6. CASE VerifyUpload \/ ReadMeta \/ WriteExtra \/ VendorVerify
  BY <1>6, CommandHeard DEF VerifyUpload, ReadMeta, WriteExtra, VendorVerify, Traced
<1>7. CASE Ready \/ Validate \/ SetSpeed \/ Capacity \/ ProbeInit \/ Coarse \/ Fine
  BY <1>7, CalibrationStep, CommandHeard
<1>8. CASE OemVid
  BY <1>8, CommandHeard DEF OemVid, Raised, heard
<1>9. CASE Begin \/ Enter \/ Stop \/ Reset
  BY <1>9 DEF Begin, Enter, Stop, Reset, heard
<1> QED
  BY <1>1, <1>2, <1>3, <1>4, <1>5, <1>6, <1>7, <1>8, <1>9 DEF Next, Host

\* On the way to "unlocked" the drive is heard again after every fault but one.
LEMMA VouchedStep == TypeInv /\ Vouched /\ Next => Vouched'
<1> SUFFICES ASSUME TypeInv, Vouched, Next PROVE Vouched'
  OBVIOUS
<1> USE DEF Vouched, Reconfirmed, Calibrating, Goto, End
<1>1. CASE UnlockRead
  BY <1>1, UnlockHeard DEF UnlockRead, Initialised, Reload, NextAttempt
<1>2. CASE Confirm \/ ConfirmB
  BY <1>2 DEF Confirm, ConfirmB, Loaded, LoadFailed, NextAttempt
<1>3. CASE Again \/ Reconfirm
  BY <1>3, UnlockHeard DEF Again, Reconfirm
<1>4. CASE UnlockPause \/ Settle \/ FaultSettle \/ ReconfirmPause
  BY <1>4 DEF UnlockPause, Settle, FaultSettle, ReconfirmPause, Pause
<1>5. CASE WriteBuffer \/ ModeSelect
  BY <1>5 DEF WriteBuffer, ModeSelect, Upload, LoadFailed, NextAttempt
<1>6. CASE VerifyUpload \/ ReadMeta \/ WriteExtra \/ VendorVerify
  BY <1>6 DEF VerifyUpload, ReadMeta, WriteExtra, VendorVerify, Traced
<1>7. CASE Ready \/ Validate \/ SetSpeed \/ Capacity \/ ProbeInit \/ Coarse \/ Fine
  BY <1>7, CalibrationStep, CommandHeard
<1>8. CASE OemVid
  BY <1>8, CommandHeard DEF OemVid, heard
<1>9. CASE Begin \/ Enter \/ Stop \/ Reset
  BY <1>9 DEF Begin, Enter, Stop, Reset, heard
<1> QED
  BY <1>1, <1>2, <1>3, <1>4, <1>5, <1>6, <1>7, <1>8, <1>9 DEF Next, Host

\* Where a call declines, the last unlock read confirmed nothing, or a sense
\* was raised.
LEMMA SavedStep == TypeInv /\ Saved /\ Next => Saved'
<1> SUFFICES ASSUME TypeInv, Saved, Next PROVE Saved'
  OBVIOUS
<1> USE DEF TypeInv, Saved, UnlockKept, UnlockNotDiscarded, Goto, End
<1>1. CASE UnlockRead
  <2>1. PICK a \in Unlocks :
          /\ Unlock(a)
          /\ pc' = "idle" => a # "extended"
    BY <1>1 DEF UnlockRead, Initialised, Reload, NextAttempt
  <2>2. (confirmed' => a = "extended") /\ (a = "extended" => unlocked')
    BY <2>1, UnlockFlags
  <2> QED
    BY <2>1, <2>2
<1>2. CASE Confirm \/ ConfirmB \/ Again \/ Reconfirm
  <2>1. PICK a \in Unlocks :
          /\ Unlock(a)
          /\ pc' = "idle" => a # "extended"
          /\ pc' # "ready"
    BY <1>2 DEF Confirm, ConfirmB, Again, Reconfirm, Loaded, LoadFailed, NextAttempt
  <2>2. confirmed' => a = "extended"
    BY <2>1, UnlockFlags
  <2> QED
    BY <2>1, <2>2
<1>3. CASE UnlockPause \/ Settle \/ FaultSettle \/ ReconfirmPause
  BY <1>3 DEF UnlockPause, Settle, FaultSettle, ReconfirmPause, Pause
<1>4. CASE WriteBuffer \/ ModeSelect
  <2>1. form' = form /\ pc' # "ready"
    BY <1>4, CommandHeard
    DEF WriteBuffer, ModeSelect, Upload, LoadFailed, NextAttempt
  <2>2. form = "returned" => pc' # "idle" \/ verdict' # "declined"
    BY <1>4 DEF WriteBuffer, ModeSelect, Upload, Raised
  <2> QED
    BY <2>1, <2>2
<1>5. CASE VerifyUpload \/ ReadMeta \/ WriteExtra \/ VendorVerify
  BY <1>5 DEF VerifyUpload, ReadMeta, WriteExtra, VendorVerify, Traced
<1>6. CASE Ready
  <2>1. PICK reply \in Replies : Command(reply, {image})
    BY <1>6 DEF Ready
  <2>2. confirmed' => confirmed
    BY <2>1, CommandFlags
  <2>3. /\ pc = "ready" /\ pc' # "ready"
        /\ pc' = "idle" /\ verdict' = "declined" => ~unlocked
    BY <1>6 DEF Ready, Initialised
  <2> QED
    BY <2>2, <2>3
<1>7. CASE Validate \/ SetSpeed \/ Capacity \/ ProbeInit \/ Coarse \/ Fine
  BY <1>7
  DEF Validate, SetSpeed, Capacity, ProbeInit, Coarse, Fine, Calibrate, Fault, Refused
<1>8. CASE OemVid
  BY <1>8, CommandHeard DEF OemVid, Raised
<1>9. CASE Begin
  BY <1>9 DEF Begin
<1>10. CASE Enter
  BY <1>10 DEF Enter
<1>11. CASE Stop \/ Reset
  BY <1>11 DEF Stop, Reset, driver, heard
<1> QED
  BY <1>1, <1>2, <1>3, <1>4, <1>5, <1>6, <1>7, <1>8, <1>9, <1>10, <1>11 DEF Next, Host

IInv == TypeInv /\ Half /\ Real /\ Quiet /\ Vouched /\ Saved

\* The first call finds the invariant in place.
LEMMA InitInv == Init => IInv
<1> SUFFICES ASSUME Init PROVE IInv
  OBVIOUS
<1>1. DriveTypeOK /\ CallTypeOK
  BY DEF Init, DriveTypeOK, CallTypeOK, Images, Steps
<1>2. FlagsOK
  BY DEF Init, FlagsOK
<1>3. Counted /\ Uploaded /\ WithinBounds
  BY BoundsAssumption DEF Init, Counted, Uploaded, WithinBounds, Loading, Sent, Span
<1>4. Half /\ Quiet /\ Vouched
  BY DEF Init, Half, Quiet, DeadBusIsFatal, Vouched, Reconfirmed, CommandSteps, Calibrating
<1>5. Real /\ Saved
  BY DEF Init, Real, UnlockIsReal, Saved, UnlockKept, UnlockNotDiscarded, Calibrating
<1> QED
  BY <1>1, <1>2, <1>3, <1>4, <1>5 DEF IInv, TypeInv

\* Every step keeps the invariant.
LEMMA InvStep == IInv /\ [Next]_vars => IInv'
<1> SUFFICES ASSUME IInv, [Next]_vars PROVE IInv'
  OBVIOUS
<1>1. CASE Next
  BY <1>1, DriveStep, CallStep, FlagsStep, CountStep, UploadStep, BoundsStep, HalfStep,
     RealStep, QuietStep, VouchedStep, SavedStep DEF IInv, TypeInv
<1>2. CASE UNCHANGED vars
  <2> USE <1>2 DEF vars, driveVars, driver, heard, bounds, IInv, TypeInv
  <2>1. DriveTypeOK' /\ CallTypeOK' /\ FlagsOK'
    BY DEF DriveTypeOK, CallTypeOK, FlagsOK
  <2>2. Counted' /\ Uploaded' /\ WithinBounds'
    BY DEF Counted, Uploaded, WithinBounds
  <2>3. Half' /\ Quiet' /\ Vouched'
    BY DEF Half, Quiet, DeadBusIsFatal, Vouched, Reconfirmed
  <2>4. Real' /\ Saved'
    BY DEF Real, Extended, UnlockIsReal, Saved, UnlockKept, UnlockNotDiscarded
  <2> QED
    BY <2>1, <2>2, <2>3, <2>4
<1> QED
  BY <1>1, <1>2

\* The invariant holds in every reachable state.
LEMMA Invariant == Spec => []IInv
  BY InitInv, InvStep, PTL DEF Spec

-----------------------------------------------------------------------------

\* The variables stay in their ranges, and the attempts, pauses and tries never
\* pass their limits.
THEOREM TypeCorrect == Spec => []TypeOK
<1>1. IInv => TypeOK
  BY DEF IInv, TypeInv, DriveTypeOK, CallTypeOK, FlagsOK, Counted, Uploaded, WithinBounds, TypeOK
<1> QED
  BY Invariant, <1>1, PTL

\* For every UNLOCK_ATTEMPTS and however the restarts and re-confirms go, a
\* call makes at most that many uploads.
THEOREM UploadsAreBounded == Spec => []UploadsBounded
<1>1. IInv => UploadsBounded
  BY DEF IInv, TypeInv, Uploaded, UploadsBounded
<1> QED
  BY Invariant, <1>1, PTL

\* A Stop alone, wherever it lands, leaves no half upload in the drive.
THEOREM UploadsAreWhole == Spec => []WholeUpload
<1>1. IInv => WholeUpload
  BY DEF IInv, Half, WholeUpload
<1> QED
  BY Invariant, <1>1, PTL

\* "Unlocked" is said of a drive in the extended-access state, unless it reset
\* after its last unlock read.
THEOREM UnlocksAreReal == Spec => []UnlockIsReal
<1>1. IInv => UnlockIsReal
  BY DEF IInv, Real
<1> QED
  BY Invariant, <1>1, PTL

\* Behind every dead bus but SET CD SPEED's comes a silence before the next
\* command.
THEOREM FaultsAreSettled == Spec => []QuietAfterFault
<1>1. IInv => QuietAfterFault
  BY DEF IInv, Quiet, QuietAfterFault
<1> QED
  BY Invariant, <1>1, PTL

\* A call that hears a dead bus last ends in Transport, SET CD SPEED aside.
THEOREM DeadBusEndsCall == Spec => []DeadBusIsFatal
<1>1. IInv => DeadBusIsFatal
  BY DEF IInv, Quiet
<1> QED
  BY Invariant, <1>1, PTL

\* An unlock is kept over a bus fault only if the drive confirmed it again,
\* SET CD SPEED aside.
THEOREM UnlocksAreReconfirmed == Spec => []Reconfirmed
<1>1. IInv => Reconfirmed
  BY DEF IInv, Vouched
<1> QED
  BY Invariant, <1>1, PTL

\* With a transport that returns the drive's senses, no confirmed unlock is
\* discarded for want of a Volume ID or of a calibration.
THEOREM UnlocksAreKept == Spec => []UnlockKept
<1>1. IInv => UnlockKept
  BY DEF IInv, Saved
<1> QED
  BY Invariant, <1>1, PTL
-----------------------------------------------------------------------------
(***************************************************************************)
(* How long a call can take.  Remaining bounds the commands and pauses     *)
(* still to come: a fixed tail behind the unlock, and one lap for every    *)
(* attempt that is left.                                                   *)
(***************************************************************************)

\* From the unlock read to the silence behind the upload.
UploadSteps ==
  {"unlock", "unlockPause", "enter", "write", "verify", "modeSelect", "meta", "extra", "f1",
   "confirm", "confirmB", "again", "settle"}

\* The settle behind a bus fault and everything after it; the longest way from
\* the unlock to the end; an upload; an attempt with all its re-reads.
AfterFault == 2 * Rereads + 3
Tail       == AfterFault + Tries + 6
UploadLeft == Tries + 8
Lap        == UploadLeft + 2 * Rereads + 2

\* What is left of the lap, or of the tail, at each step.
LeftOf(step) ==
  CASE step = "idle"           -> 0
    [] step = "vid"            -> 1
    [] step = "speed"          -> 2
    [] step = "reconfirm"      -> 2 * (Rereads - waits) + 2
    [] step = "reconfirmPause" -> 2 * (Rereads - waits) + 1
    [] step = "faultSettle"    -> AfterFault
    [] step = "fine"           -> AfterFault + 1
    [] step = "coarse"         -> AfterFault + 2
    [] step = "validate"       -> AfterFault + 3 + Tries - tries
    [] step = "probeInit"      -> AfterFault + 4 + Tries
    [] step = "capacity"       -> AfterFault + 5 + Tries
    [] step = "ready"          -> Tail
    [] step = "settle"         -> 1
    [] step = "again"          -> 2
    [] step = "confirm"        -> 3
    [] step = "confirmB"       -> 3 + Tries - tries
    [] step = "verify"         -> 4
    [] step = "write"          -> 5
    [] step = "f1"             -> Tries + 4
    [] step = "extra"          -> Tries + 5
    [] step = "meta"           -> Tries + 6
    [] step = "modeSelect"     -> Tries + 7
    [] step = "enter"          -> UploadLeft
    [] step = "unlockPause"    -> UploadLeft + 2 * (Rereads - waits) + 1
    [] step = "unlock"         -> UploadLeft + 2 * (Rereads - waits) + 2

Laps(tried) == (Attempts - tried) * Lap

Remaining ==
  LeftOf(pc) + IF pc \in UploadSteps THEN Tail + Laps(attempt) ELSE 0

Budget == Tail + (Attempts + 1) * Lap

\* What the provers are to know of products.
LEMMA Distributes ==
  ASSUME NEW a \in Nat, NEW b \in Nat, NEW c \in Nat
  PROVE  (a + b) * c = a * c + b * c /\ a * c \in Nat
OBVIOUS

\* Every attempt costs one lap.
LEMMA LapsLeft ==
  ASSUME NEW a \in 0..Attempts
  PROVE  /\ Lap \in Nat /\ Laps(a) \in Nat /\ Laps(a) <= Attempts * Lap
         /\ a + 1 \in 0..Attempts => Laps(a) = Laps(a + 1) + Lap
<1> DEFINE n == Attempts - a
<1>1. n \in Nat /\ a \in Nat /\ Attempts = n + a /\ Lap \in Nat
  BY BoundsAssumption DEF Lap, UploadLeft
<1>2. a + 1 \in 0..Attempts => n - 1 \in Nat /\ Attempts - (a + 1) = n - 1
  BY <1>1
<1>3. Laps(a) = n * Lap BY DEF Laps
<1> HIDE DEF n
<1>4. Laps(a) \in Nat BY <1>1, <1>3, Distributes
<1>5. Laps(a) <= Attempts * Lap
  <2>1. (n + a) * Lap = n * Lap + a * Lap /\ a * Lap \in Nat
    BY <1>1, Distributes
  <2> QED BY <1>1, <1>3, <1>4, <2>1
<1>6. ASSUME a + 1 \in 0..Attempts PROVE Laps(a) = Laps(a + 1) + Lap
  <2>1. n - 1 \in Nat /\ Laps(a + 1) = (n - 1) * Lap BY <1>2, <1>6 DEF Laps
  <2>2. ((n - 1) + 1) * Lap = (n - 1) * Lap + 1 * Lap BY <1>1, <2>1, Distributes
  <2>3. (n - 1) + 1 = n /\ 1 * Lap = Lap BY <1>1
  <2> QED BY <1>3, <2>1, <2>2, <2>3
<1> QED BY <1>1, <1>4, <1>5, <1>6

\* The lengths of the parts of a call.
LEMMA Lengths ==
  /\ Rereads \in Nat /\ Tries \in Nat \ {0} /\ Attempts \in Nat
  /\ Tail = 2 * Rereads + Tries + 9
  /\ Lap = Tries + 2 * Rereads + 10
BY BoundsAssumption DEF Tail, AfterFault, Lap, UploadLeft

\* The counters, before and after a step.
LEMMA Counts ==
  ASSUME TypeInv, TypeInv'
  PROVE  /\ waits \in 0..Rereads /\ waits' \in 0..Rereads
         /\ tries \in 0..Tries /\ tries' \in 0..Tries
         /\ attempt \in 0..Attempts /\ attempt' \in 0..Attempts
BY DEF TypeInv, Counted

\* One step closer.
Closer == Remaining' < Remaining

\* The commands of an upload.
LEMMA UploadCloser ==
  ASSUME TypeInv, TypeInv', attempt' = attempt,
         \/ pc = "enter" /\ pc' \in {"write", "modeSelect", "idle"}
         \/ pc = "write" /\ pc' \in {"verify", "settle", "idle"}
         \/ pc = "verify" /\ pc' \in {"confirm", "idle"}
         \/ pc = "modeSelect" /\ pc' \in {"meta", "settle", "idle"}
         \/ pc = "meta" /\ pc' \in {"extra", "idle"}
         \/ pc = "extra" /\ pc' \in {"f1", "idle"}
         \/ pc = "f1" /\ pc' \in {"confirmB", "idle"}
         \/ pc \in {"confirm", "confirmB"} /\ pc' \in {"again", "settle", "idle"}
         \/ pc = "confirmB" /\ pc' = "confirmB" /\ tries' = tries + 1
         \/ pc = "again" /\ pc' = "settle"
  PROVE  Closer
<1> DEFINE n == LeftOf(pc)
           m == LeftOf(pc)'
<1>1. n > m /\ n \in Nat /\ m \in Nat
  BY Counts, Lengths DEF LeftOf, UploadLeft
<1>2. Laps(attempt) \in Nat /\ Tail \in Nat BY LapsLeft, Counts, Lengths
<1>3. Remaining = n + Tail + Laps(attempt)
  BY <1>1, <1>2 DEF Remaining, UploadSteps
<1>4. Remaining' = m + Tail + Laps(attempt) \/ Remaining' = m
  BY <1>1, <1>2 DEF Remaining, UploadSteps
<1> QED BY <1>1, <1>2, <1>3, <1>4 DEF Closer

\* A further attempt costs less than a lap.
LEMMA AttemptCloser ==
  ASSUME TypeInv, TypeInv', attempt' = attempt + 1, pc \in UploadSteps, pc' \in {"unlock", "idle"}
  PROVE  Closer
<1> DEFINE n == LeftOf(pc)
           m == LeftOf(pc)'
<1>1. n \in Nat /\ n > 0 /\ m \in 0..Lap
  <2>1. n \in Nat /\ n > 0
    <3>1. CASE pc \in {"unlock", "unlockPause"}
      <4>1. n \in Nat BY <3>1, Counts, Lengths DEF LeftOf, UploadLeft
      <4>2. n > 0 BY <3>1, Counts, Lengths DEF LeftOf, UploadLeft
      <4> QED BY <4>1, <4>2
    <3>2. CASE pc \in {"enter", "write", "verify", "modeSelect", "meta", "extra", "f1"}
      <4>1. n \in Nat BY <3>2, Counts, Lengths DEF LeftOf, UploadLeft
      <4>2. n > 0 BY <3>2, Counts, Lengths DEF LeftOf, UploadLeft
      <4> QED BY <4>1, <4>2
    <3>3. CASE pc \in {"confirm", "confirmB", "again", "settle"}
      <4>1. n \in Nat BY <3>3, Counts, Lengths DEF LeftOf, UploadLeft
      <4>2. n > 0 BY <3>3, Counts, Lengths DEF LeftOf, UploadLeft
      <4> QED BY <4>1, <4>2
    <3> QED BY <3>1, <3>2, <3>3 DEF UploadSteps
  <2>2. CASE pc' = "unlock"
    <3>1. m = Tries + 8 + 2 * (Rereads - waits') + 2 BY <2>2 DEF LeftOf, UploadLeft
    <3> QED BY <2>1, <3>1, Counts, Lengths
  <2>3. CASE pc' = "idle"
    <3>1. m = 0 BY <2>3 DEF LeftOf
    <3> QED BY <2>1, <3>1, Counts, Lengths
  <2> QED BY <2>2, <2>3
<1>2. /\ Laps(attempt) = Laps(attempt') + Lap /\ Laps(attempt) \in Nat /\ Laps(attempt') \in Nat
      /\ Lap \in Nat /\ Tail \in Nat
  BY LapsLeft, Counts, Lengths
<1>3. Remaining = n + Tail + Laps(attempt)
  BY <1>1, <1>2 DEF Remaining, UploadSteps
<1>4. Remaining' = m + Tail + Laps(attempt') \/ Remaining' = m
  BY <1>1, <1>2 DEF Remaining, UploadSteps
<1> HIDE DEF n, m
<1>5. Remaining' \in Nat /\ Remaining' <= m + Tail + Laps(attempt') BY <1>1, <1>2, <1>4
<1>6. \A x, left \in Nat, y \in 0..Lap :
        x > 0 => \A r \in Nat : r <= y + Tail + left => r < x + Tail + (left + Lap)
  BY <1>2
<1>7. Remaining' < Remaining BY <1>1, <1>2, <1>3, <1>5, <1>6
<1> QED BY <1>7 DEF Closer

\* The unlock read, its pauses, and what they lead to.
LEMMA ReadCloser ==
  ASSUME TypeInv, TypeInv', attempt' = attempt,
         \/ pc = "unlock" /\ pc' = "unlockPause" /\ waits' = waits
         \/ pc = "unlock" /\ pc' \in {"enter", "ready", "capacity", "idle"}
         \/ pc = "unlockPause" /\ pc' = "unlock" /\ waits' = waits + 1
         \/ pc = "unlockPause" /\ pc' = "idle"
         \/ pc = "settle" /\ pc' = "idle"
  PROVE  Closer
<1> DEFINE n == LeftOf(pc)
           m == LeftOf(pc)'
<1>1. /\ n \in Nat /\ m \in Nat
      /\ pc' \in UploadSteps => n > m
      /\ pc' \notin UploadSteps => n + Tail > m
  BY Counts, Lengths DEF LeftOf, UploadLeft, UploadSteps, AfterFault
<1>2. Laps(attempt) \in Nat /\ Tail \in Nat BY LapsLeft, Counts, Lengths
<1>3. Remaining = n + Tail + Laps(attempt)
  BY <1>1, <1>2 DEF Remaining, UploadSteps
<1>4. Remaining' = IF pc' \in UploadSteps THEN m + Tail + Laps(attempt) ELSE m
  BY <1>1, <1>2 DEF Remaining
<1> QED BY <1>1, <1>2, <1>3, <1>4 DEF Closer

\* Behind the unlock.
LEMMA TailCloser ==
  ASSUME TypeInv, TypeInv',
         \/ pc = "ready" /\ pc' \in {"capacity", "idle"}
         \/ pc = "capacity" /\ pc' \in {"probeInit", "vid", "faultSettle"}
         \/ pc = "probeInit" /\ pc' \in {"validate", "faultSettle"}
         \/ pc = "validate" /\ pc' \in {"coarse", "vid", "faultSettle"}
         \/ pc = "validate" /\ pc' = "validate" /\ tries' = tries + 1
         \/ pc = "coarse" /\ pc' \in {"fine", "vid", "faultSettle"}
         \/ pc = "fine" /\ pc' \in {"speed", "faultSettle"}
         \/ pc = "speed" /\ pc' = "vid"
         \/ pc = "faultSettle" /\ pc' \in {"reconfirm", "idle"}
         \/ pc = "reconfirm" /\ pc' = "reconfirmPause" /\ waits' = waits
         \/ pc = "reconfirm" /\ pc' \in {"vid", "idle"}
         \/ pc = "reconfirmPause" /\ pc' = "reconfirm" /\ waits' = waits + 1
         \/ pc = "reconfirmPause" /\ pc' = "idle"
         \/ pc = "vid" /\ pc' = "idle"
  PROVE  Closer
<1>1. pc \notin UploadSteps /\ pc' \notin UploadSteps BY DEF UploadSteps
<1> DEFINE n == LeftOf(pc)
           m == LeftOf(pc)'
<1>2. n \in Nat /\ m \in Nat /\ m < n
  <2>1. CASE pc \in {"reconfirm", "reconfirmPause"}
    BY <2>1, Counts, Lengths DEF LeftOf, AfterFault
  <2>2. CASE pc = "validate"
    BY <2>2, Counts, Lengths DEF LeftOf, AfterFault
  <2>3. CASE pc \in {"ready", "capacity", "probeInit"}
    BY <2>3, Counts, Lengths DEF LeftOf, AfterFault, Tail
  <2>4. CASE pc \in {"coarse", "fine", "speed", "vid"}
    BY <2>4, Counts, Lengths DEF LeftOf, AfterFault
  <2>5. CASE pc = "faultSettle"
    BY <2>5, Counts, Lengths DEF LeftOf, AfterFault
  <2> QED BY <2>1, <2>2, <2>3, <2>4, <2>5
<1>3. Remaining = n /\ Remaining' = m
  BY <1>1, <1>2 DEF Remaining
<1> QED BY <1>2, <1>3 DEF Closer

\* Whatever the host does, one step less is left.
LEMMA HostCloser ==
  ASSUME TypeInv, TypeInv', Host
  PROVE  Closer
<1>1. CASE UnlockRead
  <2>1. /\ pc = "unlock"
        /\ \/ attempt' = attempt /\ pc' = "unlockPause" /\ waits' = waits
           \/ attempt' = attempt /\ pc' \in {"enter", "ready", "capacity", "idle"}
           \/ attempt' = attempt + 1 /\ pc' \in {"unlock", "idle"}
    BY <1>1 DEF UnlockRead, Initialised, Reload, NextAttempt, Goto, End, Fields
  <2> QED BY <2>1, ReadCloser, AttemptCloser DEF UploadSteps
<1>2. CASE UnlockPause
  <2>1. /\ pc = "unlockPause" /\ attempt' = attempt /\ waits' = waits + 1
        /\ pc' \in {"unlock", "idle"}
    BY <1>2 DEF UnlockPause, Pause, Goto, End
  <2> QED BY <2>1, ReadCloser
<1>3. CASE Enter
  <2>1. pc = "enter" /\ pc' \in {"write", "modeSelect", "idle"} /\ UNCHANGED <<attempt, tries>>
    BY <1>3 DEF Enter, Goto, End, driver
  <2> QED BY <2>1, UploadCloser
<1>4. CASE WriteBuffer \/ ModeSelect
  <2>1. \/ /\ UNCHANGED <<attempt, tries>>
           /\ \/ pc = "write" /\ pc' \in {"verify", "settle", "idle"}
              \/ pc = "modeSelect" /\ pc' \in {"meta", "settle", "idle"}
        \/ /\ pc \in {"write", "modeSelect"} /\ attempt' = attempt + 1
           /\ pc' \in {"unlock", "idle"}
    BY <1>4 DEF WriteBuffer, ModeSelect, Upload, LoadFailed, NextAttempt, Goto, End, Fields
  <2> QED BY <2>1, UploadCloser, AttemptCloser DEF UploadSteps
<1>5. CASE VerifyUpload \/ ReadMeta \/ WriteExtra \/ VendorVerify
  <2>1. attempt' = attempt /\ tries' = 0
    BY <1>5 DEF VerifyUpload, ReadMeta, WriteExtra, VendorVerify, Traced
  <2>2. \/ pc = "verify" /\ pc' \in {"confirm", "idle"}
        \/ pc = "meta" /\ pc' \in {"extra", "idle"}
        \/ pc = "extra" /\ pc' \in {"f1", "idle"}
        \/ pc = "f1" /\ pc' \in {"confirmB", "idle"}
    BY <1>5 DEF VerifyUpload, ReadMeta, WriteExtra, VendorVerify, Traced, Goto, End
  <2> QED BY <2>1, <2>2, UploadCloser
<1>6. CASE Confirm \/ ConfirmB
  <2>1. \/ /\ UNCHANGED <<attempt, tries>> /\ pc \in {"confirm", "confirmB"}
           /\ pc' \in {"again", "settle", "idle"}
        \/ /\ UNCHANGED attempt /\ tries' = tries + 1
           /\ pc = "confirmB" /\ pc' = "confirmB"
        \/ /\ pc \in {"confirm", "confirmB"} /\ attempt' = attempt + 1
           /\ pc' \in {"unlock", "idle"}
    BY <1>6 DEF Confirm, ConfirmB, Loaded, LoadFailed, NextAttempt, Goto, End, Fields
  <2> QED BY <2>1, UploadCloser, AttemptCloser DEF UploadSteps
<1>7. CASE Again
  <2>1. UNCHANGED <<attempt, tries>> /\ pc = "again" /\ pc' = "settle"
    BY <1>7 DEF Again, Goto, Fields
  <2> QED BY <2>1, UploadCloser
<1>8. CASE Settle
  <2>1. pc = "settle" /\ attempt' = attempt + 1 /\ pc' \in {"unlock", "idle"}
    BY <1>8 DEF Settle, Pause, Goto, End
  <2> QED BY <2>1, AttemptCloser DEF UploadSteps
<1>9. CASE Ready \/ SetSpeed \/ OemVid
  <2>1. \/ pc = "ready" /\ pc' \in {"capacity", "idle"}
        \/ pc = "speed" /\ pc' = "vid"
        \/ pc = "vid" /\ pc' = "idle"
    BY <1>9 DEF Ready, SetSpeed, OemVid, Initialised, Goto, End
  <2> QED BY <2>1, TailCloser
<1>10. CASE Capacity \/ ProbeInit \/ Coarse \/ Fine
  <2>1. \/ pc = "capacity" /\ pc' \in {"probeInit", "vid", "faultSettle"}
        \/ pc = "probeInit" /\ pc' \in {"validate", "faultSettle"}
        \/ pc = "coarse" /\ pc' \in {"fine", "vid", "faultSettle"}
        \/ pc = "fine" /\ pc' \in {"speed", "faultSettle"}
    BY <1>10 DEF Capacity, ProbeInit, Coarse, Fine, Calibrate, Refused, Fault, Goto
  <2> QED BY <2>1, TailCloser
<1>11. CASE Validate
  <2>1. /\ pc = "validate"
        /\ \/ pc' \in {"coarse", "vid", "faultSettle"}
           \/ pc' = "validate" /\ tries' = tries + 1
    BY <1>11 DEF Validate, Fault, Goto
  <2> QED BY <2>1, TailCloser
<1>12. CASE FaultSettle \/ Reconfirm \/ ReconfirmPause
  <2>1. \/ pc = "faultSettle" /\ pc' \in {"reconfirm", "idle"}
        \/ pc = "reconfirm" /\ pc' = "reconfirmPause" /\ waits' = waits
        \/ pc = "reconfirm" /\ pc' \in {"vid", "idle"}
        \/ pc = "reconfirmPause" /\ pc' = "reconfirm" /\ waits' = waits + 1
        \/ pc = "reconfirmPause" /\ pc' = "idle"
    BY <1>12 DEF FaultSettle, Reconfirm, ReconfirmPause, Pause, Goto, End, Fields
  <2> QED BY <2>1, TailCloser
<1> QED
  BY <1>1, <1>2, <1>3, <1>4, <1>5, <1>6, <1>7, <1>8, <1>9, <1>10, <1>11, <1>12 DEF Host

\* What is left of a call never exceeds a full budget.
LEMMA WithinBudget == TypeInv => Remaining \in 0..Budget
<1> SUFFICES ASSUME TypeInv PROVE Remaining \in 0..Budget
  OBVIOUS
<1> DEFINE n == LeftOf(pc)
<1>1. pc \in Steps /\ waits \in 0..Rereads /\ tries \in 0..Tries /\ attempt \in 0..Attempts
  BY DEF TypeInv, CallTypeOK, Counted
<1>2. CASE pc \in UploadSteps
  <2>1. n \in 0..Lap
    <3>1. CASE pc \in {"unlock", "unlockPause"}
      <4>1. n \in Nat BY <1>1, <3>1, Lengths DEF LeftOf, UploadLeft
      <4>2. n <= Lap BY <1>1, <3>1, Lengths DEF LeftOf, UploadLeft
      <4> QED BY <4>1, <4>2, Lengths
    <3>2. CASE pc \in {"enter", "write", "verify", "modeSelect", "meta", "extra", "f1"}
      <4>1. n \in Nat BY <1>1, <3>2, Lengths DEF LeftOf, UploadLeft
      <4>2. n <= Lap BY <1>1, <3>2, Lengths DEF LeftOf, UploadLeft
      <4> QED BY <4>1, <4>2, Lengths
    <3>3. CASE pc \in {"confirm", "confirmB", "again", "settle"}
      <4>1. n \in Nat BY <1>1, <3>3, Lengths DEF LeftOf, UploadLeft
      <4>2. n <= Lap BY <1>1, <3>3, Lengths DEF LeftOf, UploadLeft
      <4> QED BY <4>1, <4>2, Lengths
    <3> QED BY <1>2, <3>1, <3>2, <3>3 DEF UploadSteps
  <2>2. Remaining = n + (Tail + Laps(attempt)) BY <1>2 DEF Remaining
  <2> HIDE DEF n
  <2>3. /\ Laps(attempt) \in Nat /\ Laps(attempt) <= Attempts * Lap
        /\ Lap \in Nat /\ Tail \in Nat /\ Attempts * Lap \in Nat
    BY <1>1, LapsLeft, Lengths, Distributes
  <2>4. Budget = Tail + Attempts * Lap + Lap
    BY <2>3, Lengths, Distributes DEF Budget
  <2> QED BY <2>1, <2>2, <2>3, <2>4
<1>3. CASE pc \notin UploadSteps
  <2>1. n \in 0..Tail
    <3>1. CASE pc \in {"idle", "vid", "speed", "reconfirm", "reconfirmPause", "faultSettle"}
      <4>1. n \in Nat BY <1>1, <3>1, Lengths DEF LeftOf, AfterFault
      <4>2. n <= Tail BY <1>1, <3>1, Lengths DEF LeftOf, AfterFault
      <4> QED BY <4>1, <4>2, Lengths
    <3>2. CASE pc \in {"fine", "coarse", "validate", "probeInit", "capacity", "ready"}
      <4>1. n \in Nat BY <1>1, <3>2, Lengths DEF LeftOf, AfterFault
      <4>2. n <= Tail BY <1>1, <3>2, Lengths DEF LeftOf, AfterFault
      <4> QED BY <4>1, <4>2, Lengths
    <3> QED BY <1>1, <1>3, <3>1, <3>2 DEF Steps, CommandSteps, Span, Reads, UploadSteps
  <2>2. Remaining = n BY <1>3, <2>1, Lengths DEF Remaining
  <2>3. Budget = Tail + (Attempts + 1) * Lap /\ (Attempts + 1) * Lap \in Nat /\ Tail \in Nat
    BY Lengths, Distributes DEF Budget
  <2> HIDE DEF n
  <2> QED BY <2>1, <2>2, <2>3
<1> QED BY <1>2, <1>3

\* However the answers fall, every command and every pause brings the call
\* nearer its end, and a full budget of them is the most a call takes: the
\* attempts, the re-reads and the tries are all counted, and a Stop or a reset
\* of the drive starts none of them over (run_init, do_unlock, validate).
THEOREM CallsAreBounded ==
  Spec => /\ [](Remaining \in 0..Budget)
          /\ [][/\ Host => Remaining' < Remaining
                /\ Stop \/ Reset => Remaining' = Remaining]_vars
<1> DEFINE Step == /\ Host => Remaining' < Remaining
                   /\ Stop \/ Reset => Remaining' = Remaining
<1>1. IInv => Remaining \in 0..Budget
  BY WithinBudget DEF IInv
<1>2. IInv /\ IInv' /\ [Next]_vars => [Step]_vars
  <2> SUFFICES ASSUME IInv, IInv' PROVE Step
    OBVIOUS
  <2>1. Host => Remaining' < Remaining
    BY HostCloser DEF IInv, Closer
  <2>2. Stop \/ Reset => Remaining' = Remaining
    BY DEF Stop, Reset, driver, Remaining, LeftOf
  <2> QED BY <2>1, <2>2
<1> QED
  BY Invariant, <1>1, <1>2, PTL DEF Spec
=============================================================================
