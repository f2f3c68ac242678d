--------------------------- MODULE RenesasInstall ---------------------------
(***************************************************************************)
(* The runtime hook transaction of a Renesas drive: FreemkvUnlocker's      *)
(* full_unlock_with_drive / unlock_backend (src/src/freemkv/mod.rs) run    *)
(* with the Renesas back end (src/src/freemkv/renesas.rs), together with   *)
(* the drive memory it edits.                                              *)
(*                                                                         *)
(* The host copies a payload into unused drive RAM and then redirects two  *)
(* firmware callback slots to it; the payload itself redirects a third one *)
(* (security) when it executes SET Encryption=OFF.  Every host read of     *)
(* drive memory is a READ BUFFER, and READ BUFFER is dispatched through    *)
(* the first of those slots; host writes use the WRITE BUFFER callback,    *)
(* which is never redirected.                                              *)
(*                                                                         *)
(* One step is one command (a run of commands that only reads, or whose    *)
(* refusals the code ignores, is one step).  A command may misbehave at    *)
(* most MaxFaults times in a behaviour: answer with a refusal, die on the  *)
(* bus, and, for a write, land wholly, in part or not at all; a write may  *)
(* also be reported GOOD and have no effect.  The drive may lose power,    *)
(* report a media change, or change a guarded runtime map at any time, and *)
(* the user may press Stop at any time.                                    *)
(***************************************************************************)
EXTENDS Naturals

CONSTANTS
  MaxCalls,     \* unlock calls made in a behaviour
  MaxFaults,    \* commands that misbehave, and runtime maps that move
  MaxResets     \* power cycles and media changes

ASSUME BoundsAssumption == MaxCalls \in Nat /\ MaxFaults \in Nat /\ MaxResets \in Nat

(***************************************************************************)
(* ptr, vid and sec are the READ BUFFER, READ DISC STRUCTURE and security  *)
(* callback slots; mem is the reserved RAM they point into when hooked.    *)
(* "oem": the firmware's own table (for mem: unused contents); "own": this *)
(* implementation's table or payload; "foreign": another implementation's; *)
(* "torn": an incomplete transfer.                                         *)
(***************************************************************************)
Slots  == {"ptr", "vid", "sec"}
Cells  == Slots \cup {"mem"}
Values == {"oem", "own", "foreign", "torn"}

Blank    == [c \in Cells |-> "oem"]
Resident == [c \in Cells |-> "own"]

Errors   == {"none", "notApplicable", "vidUnavailable", "transport"}
Replies  == {"good", "refused", "dead"}
Verdicts == {"none", "running", "unlocked", "declined", "transport"}

VARIABLES
  \* the drive
  ram,        \* contents of the four cells
  guardsOk,   \* the runtime maps under profile.guards are as recorded
  active,     \* loaded / checked / result bytes say "activated"
  attention,  \* a UNIT ATTENTION waits for the next command
  hung,       \* the firmware jumped through a callback that is not there
  \* the call
  pc,         \* next command of the host
  existing,   \* IDENTITY was answered by a resident hook
  touched,    \* Backend::touched
  saved,      \* Prepared::original, what the reserved RAM held
  err,        \* the result carried to finish(): "none" or the first error
  cancelled,  \* Stop was pressed
  verdict,    \* how the call ended
  \* history, and what bounds the model
  entry,      \* ram when the call began
  disturbed,  \* a power cycle hit this call
  faulty,     \* something misbehaved during this call
  lied,       \* a write was reported GOOD and had no effect
  warned,     \* since the last power cycle a call ended in Transport
  calls, faults, resets

drive   == <<ram, guardsOk, active, attention, hung>>
history == <<entry, disturbed, faulty, lied, warned, calls, faults, resets>>
vars    == <<drive, pc, existing, touched, saved, err, cancelled, verdict, history>>

Holds(slot) == ram[slot] = "oem" \/ (ram[slot] # "torn" /\ ram[slot] = ram["mem"])

-----------------------------------------------------------------------------
(***************************************************************************)
(* Commands.                                                               *)
(***************************************************************************)

\* Between CriticalGuard::enter and its drop.
CriticalSteps ==
  {"check", "writePayload", "verifyPayload", "writeVid", "verifyVid", "writePtr",
   "verifyPtr", "reprobe", "optional", "encrypt", "verifyState", "verifyHook", "getVid",
   "finish", "finishVerify", "detachPtr", "checkPtr", "detachVid", "checkVid",
   "checkPaths", "readPolicy", "restorePolicy", "checkPolicy", "restoreMem", "checkMem"}

Steps == CriticalSteps \cup
  {"idle", "probe", "platform", "prepare", "enter", "close", "tune"}

\* Variant: no critical span, a Stop takes effect at once.
BlockedAlways == cancelled

\* A cancelled transport refuses every command outside a critical span.
Blocked == cancelled /\ pc \notin CriticalSteps

\* A command dispatched through a broken slot hangs the firmware.
Jumps(slot) == ~Blocked /\ ~hung /\ ~attention /\ slot \in Slots /\ ~Holds(slot)

\* The drive executes the command it is sent.
Executes(slot) == ~Blocked /\ ~hung /\ ~attention /\ ~Jumps(slot)

\* A misbehaving command: the drive does execute it, the answer is wrong.
Odd(slot) ==
  /\ Executes(slot)
  /\ faults < MaxFaults
  /\ faults' = faults + 1
  /\ faulty' = TRUE

\* What the host is told when nothing misbehaves.
Reply(slot) ==
  IF Executes(slot) THEN "good"
  ELSE IF Blocked \/ hung \/ Jumps(slot) THEN "dead" ELSE "refused"

\* Effect of any command on the drive's command processor.
Sent(slot) ==
  /\ hung' = (hung \/ Jumps(slot))
  /\ attention' = (attention /\ (Blocked \/ hung))

\* One command through slot ("write" names the path that is never hooked),
\* answered with reply; it changes no cell.
Command(slot, reply) ==
  /\ Sent(slot)
  /\ \/ /\ reply = Reply(slot)
        /\ faulty' = (faulty \/ (~Executes(slot) /\ ~Blocked))
        /\ faults' = faults
     \/ /\ reply \in {"refused", "dead"}
        /\ Odd(slot)

\* One WRITE BUFFER of value into cell.  An answer other than GOOD leaves
\* the cell as it was, written, or torn.
Store(cell, value, reply) ==
  /\ Sent("write")
  /\ \/ /\ reply = Reply("write")
        /\ ram' = IF reply = "good" THEN [ram EXCEPT ![cell] = value] ELSE ram
        /\ faulty' = (faulty \/ (~Executes("write") /\ ~Blocked))
        /\ UNCHANGED <<faults, lied>>
     \/ /\ reply \in {"refused", "dead"}
        /\ Odd("write")
        /\ \E v \in {ram[cell], value, "torn"} : ram' = [ram EXCEPT ![cell] = v]
        /\ UNCHANGED lied
     \/ /\ reply = "good"
        /\ Odd("write")
        /\ lied' = TRUE
        /\ UNCHANGED ram

callVars  == <<existing, touched, saved, cancelled>>
callBook  == <<entry, disturbed, calls, resets>>

Goto(next) == pc' = next /\ UNCHANGED <<err, verdict, warned>>

\* The call ends: fallthrough() lets only Transport through as an error.
Return(e) ==
  /\ pc' = "idle"
  /\ err' = e
  /\ warned' = (warned \/ e = "transport")
  /\ verdict' = CASE e = "none" -> "unlocked"
                  [] e = "transport" -> "transport"
                  [] OTHER -> "declined"

\* The closure in unlock_backend is left with error e; finish() runs next.
FailTo(e) == pc' = "finish" /\ err' = e /\ UNCHANGED <<verdict, warned>>

-----------------------------------------------------------------------------
(***************************************************************************)
(* Recognising and preparing (nothing is written yet).                     *)
(***************************************************************************)

Begin ==
  /\ pc = "idle"
  /\ calls < MaxCalls
  /\ calls' = calls + 1
  /\ pc' = "probe"
  /\ verdict' = "running"
  /\ entry' = ram
  /\ err' = "none"
  /\ existing' = FALSE /\ touched' = FALSE /\ saved' = "oem" /\ cancelled' = FALSE
  /\ disturbed' = FALSE /\ faulty' = FALSE
  /\ UNCHANGED <<drive, lied, warned, faults, resets>>

\* The IDENTITY knock is a READ BUFFER: only a resident hook answers it.  A
\* foreign hook may or may not speak the same protocol.
Probe ==
  /\ pc = "probe"
  /\ \E reply \in Replies, known \in BOOLEAN :
       /\ Command("ptr", reply)
       /\ known => reply = "good" /\ ram["ptr"] \in {"own", "foreign"}
       /\ ram["ptr"] = "own" /\ reply = "good" => known
       /\ existing' = known
       /\ CASE reply = "dead" -> Return("transport")
            [] known -> Goto("prepare")
            [] OTHER -> Goto("platform")
  /\ UNCHANGED <<ram, guardsOk, active, touched, saved, cancelled, lied, callBook>>

\* is_renesas: a rejection means another platform.
Platform ==
  /\ pc = "platform"
  /\ \E reply \in Replies :
       /\ Command("ptr", reply)
       /\ CASE reply = "dead" -> Return("transport")
            [] reply = "refused" -> Return("notApplicable")
            [] OTHER -> Goto("prepare")
  /\ UNCHANGED <<ram, guardsOk, active, callVars, lied, callBook>>

\* preparation_error: a resident hook makes every failure fatal.
PreparationError(reply) ==
  IF existing \/ reply = "dead" THEN "transport" ELSE "notApplicable"

\* The slots are the OEM ones, or this implementation's if it is resident;
\* the security slot may also still be OEM then.
Owned ==
  LET mine == IF existing THEN "own" ELSE "oem" IN
  /\ ram["ptr"] = mine
  /\ ram["vid"] = mine
  /\ ram["sec"] \in {"oem", mine}

\* hook::prepare: the knock, the image, the ownership checks, and the copy
\* of the reserved RAM that cleanup will put back.
Prepare ==
  /\ pc = "prepare"
  /\ \E reply \in Replies :
       /\ Command("ptr", reply)
       /\ IF reply = "good" /\ guardsOk /\ Owned /\ (existing => ram["mem"] = "own")
          THEN /\ saved' = ram["mem"]
               /\ Goto("enter")
          ELSE /\ Return(PreparationError(reply))
               /\ UNCHANGED saved
  /\ UNCHANGED <<ram, guardsOk, active, existing, touched, cancelled, lied, callBook>>

\* CriticalGuard::enter fails if the operation is already cancelled.
Enter ==
  /\ pc = "enter"
  /\ IF cancelled THEN Return("transport") ELSE Goto("check")
  /\ UNCHANGED <<drive, callVars, callBook, faulty, lied, faults>>

-----------------------------------------------------------------------------
(***************************************************************************)
(* The critical span: install, activate, verify.                           *)
(***************************************************************************)

\* A command that only reads memory: go on if it is answered and test holds.
Read(at, test, next, e) ==
  /\ pc = at
  /\ \E reply \in Replies :
       /\ Command("ptr", reply)
       /\ IF reply = "good" /\ test THEN Goto(next) ELSE FailTo(e)
  /\ UNCHANGED <<ram, guardsOk, active, callVars, lied, callBook>>

\* A command that writes one cell: only a GOOD answer goes on.
Write(at, cell, value, next) ==
  /\ pc = at
  /\ \E reply \in Replies :
       /\ Store(cell, value, reply)
       /\ IF reply = "good" THEN Goto(next) ELSE FailTo("transport")
  /\ UNCHANGED <<guardsOk, active, callVars, callBook>>

\* check_prepared: everything prepare relied on, again, before any write.
Check ==
  /\ pc = "check"
  /\ \E reply \in Replies :
       /\ Command("ptr", reply)
       /\ IF reply = "good" /\ guardsOk /\ Owned /\ ram["mem"] = saved
          THEN /\ touched' = TRUE
               /\ Goto(IF existing THEN "optional" ELSE "writePayload")
          ELSE /\ FailTo(PreparationError(reply))
               /\ UNCHANGED touched
  /\ UNCHANGED <<ram, guardsOk, active, existing, saved, cancelled, lied, callBook>>

\* stage: payload, then the VID slot, then the pointer; each read back.
WritePayload  == Write("writePayload", "mem", "own", "verifyPayload")
VerifyPayload == Read("verifyPayload", ram["mem"] = "own", "writeVid", "transport")
WriteVid      == Write("writeVid", "vid", "own", "verifyVid")
VerifyVid     == Read("verifyVid", ram["vid"] = "own", "writePtr", "transport")
WritePtr      == Write("writePtr", "ptr", "own", "verifyPtr")
VerifyPtr     == Read("verifyPtr", ram["ptr"] = "own", "reprobe", "transport")

\* The new hook must answer IDENTITY itself.
Reprobe == Read("reprobe", ram["ptr"] = "own", "optional", "notApplicable")

\* SET Region and SET Unrestricted: a refusal is ignored, a dead bus is not.
Optional ==
  /\ pc = "optional"
  /\ \E reply \in Replies :
       /\ Command("ptr", reply)
       /\ IF reply = "dead" THEN FailTo("transport") ELSE Goto("encrypt")
  /\ UNCHANGED <<ram, guardsOk, active, callVars, lied, callBook>>

\* What the hook does with SET Encryption=OFF before it answers: refuse it
\* (reader busy, a borrowed callback or the security slot not as expected),
\* or redirect security and run the reactivation, which may fail.
Suppressing == ram["ptr"] = "own" /\ guardsOk /\ ram["sec"] \in {"oem", "own"}

SetEncryption ==
  /\ pc = "encrypt"
  /\ \E reply \in Replies, runs, works \in BOOLEAN :
       /\ Command("ptr", reply)
       /\ runs => Executes("ptr") /\ Suppressing
       /\ works => runs
       /\ IF runs
          THEN /\ ram' = [ram EXCEPT !["sec"] = "own"]
               /\ active' \in BOOLEAN
          ELSE UNCHANGED <<ram, active>>
       /\ IF reply = "good" /\ works THEN Goto("verifyState")
          ELSE FailTo(IF reply = "dead" THEN "transport" ELSE "vidUnavailable")
  /\ UNCHANGED <<guardsOk, callVars, lied, callBook>>

\* verify_resident's conditions.
IsResident == ram = Resident /\ guardsOk

VerifyState == Read("verifyState", active, "verifyHook", "transport")
VerifyHook  == Read("verifyHook", IsResident, "getVid", "transport")

\* read_aacs_vid: an unreadable VID is not a failure, a dead bus is.
GetVid ==
  /\ pc = "getVid"
  /\ \E reply \in Replies :
       /\ Command("vid", reply)
       /\ IF reply = "dead" THEN FailTo("transport") ELSE Goto("finish")
  /\ UNCHANGED <<ram, guardsOk, active, callVars, lied, callBook>>

-----------------------------------------------------------------------------
(***************************************************************************)
(* finish() and cleanup(): verify once more, or take the hook out again.   *)
(***************************************************************************)

\* Variant: the first error is reported, not the fatal one.
UnverifiedKeepsError ==
  /\ pc' = IF existing THEN "close" ELSE "detachPtr"
  /\ UNCHANGED <<err, verdict, warned>>

\* Variant: a hook that was already resident is removed too.
UnverifiedRemovesAll ==
  /\ err' = "transport"
  /\ pc' = "detachPtr"
  /\ UNCHANGED <<verdict, warned>>

\* Not verified: a hook this call installed is removed, a resident one stays.
Unverified ==
  /\ err' = "transport"
  /\ pc' = IF existing THEN "close" ELSE "detachPtr"
  /\ UNCHANGED <<verdict, warned>>

Finish ==
  /\ pc = "finish"
  /\ IF ~touched THEN Goto("close")
     ELSE IF err = "none" THEN Goto("finishVerify") ELSE Unverified
  /\ UNCHANGED <<drive, callVars, callBook, faulty, lied, faults>>

FinishVerify ==
  /\ pc = "finishVerify"
  /\ \E reply \in Replies :
       /\ Command("ptr", reply)
       /\ IF reply = "good" /\ IsResident THEN Goto("close") ELSE Unverified
  /\ UNCHANGED <<ram, guardsOk, active, callVars, lied, callBook>>

\* One step of cleanup: the first failure abandons the rest.
Undo(at, test, next) ==
  /\ pc = at
  /\ \E reply \in Replies :
       /\ Command("ptr", reply)
       /\ Goto(IF reply = "good" /\ test THEN next ELSE "close")
  /\ UNCHANGED <<ram, guardsOk, active, callVars, lied, callBook>>

UndoWrite(at, cell, value, next) ==
  /\ pc = at
  /\ \E reply \in Replies :
       /\ Store(cell, value, reply)
       /\ Goto(IF reply = "good" THEN next ELSE "close")
  /\ UNCHANGED <<guardsOk, active, callVars, callBook>>

\* Variants: look at the pointer before detaching it; take a VID slot that was
\* acknowledged for one that was written; free before the policy is restored.
DetachPtrAfterLook == Undo("detachPtr", TRUE, "checkPtr")
CheckVidTrusting   == Undo("checkVid", TRUE, "checkPaths")
CheckPathsNoPolicy == Undo("checkPaths", guardsOk, "restoreMem")

DetachPtr     == UndoWrite("detachPtr", "ptr", "oem", "checkPtr")
CheckPtr      == Undo("checkPtr", ram["ptr"] = "oem", "detachVid")
DetachVid     == UndoWrite("detachVid", "vid", "oem", "checkVid")
CheckVid      == Undo("checkVid", ram["vid"] = "oem", "checkPaths")
CheckPaths    == Undo("checkPaths", guardsOk, "readPolicy")

\* restore_policy: only OEM's table or the one of this payload is touched.
ReadPolicy    ==
  Undo("readPolicy", ram["sec"] \in {"oem", "own"},
       IF ram["sec"] = "own" THEN "restorePolicy" ELSE "restoreMem")
RestorePolicy == UndoWrite("restorePolicy", "sec", "oem", "checkPolicy")
CheckPolicy   == Undo("checkPolicy", ram["sec"] = "oem", "restoreMem")

RestoreMem    == UndoWrite("restoreMem", "mem", saved, "checkMem")
CheckMem      == Undo("checkMem", ram["mem"] = saved, "close")

\* Variant: nobody asks for the Stop the span held back.
CloseNoPause ==
  /\ pc = "close"
  /\ IF err = "none" THEN Goto("tune") ELSE Return(err)
  /\ UNCHANGED <<drive, callVars, callBook, faulty, lied, faults>>

\* The span closes, and pause(0) reports a Stop that was held back by it.
Close ==
  /\ pc = "close"
  /\ IF cancelled THEN Return("transport")
     ELSE IF err = "none" THEN Goto("tune") ELSE Return(err)
  /\ UNCHANGED <<drive, callVars, callBook, faulty, lied, faults>>

\* speed::configure: anything but a dead bus leaves the unlock standing.
Tune ==
  /\ pc = "tune"
  /\ \E reply \in Replies :
       /\ Command("vendor", reply)
       /\ Return(IF reply = "dead" THEN "transport" ELSE "none")
  /\ UNCHANGED <<ram, guardsOk, active, callVars, lied, callBook>>

-----------------------------------------------------------------------------
(***************************************************************************)
(* The environment.                                                        *)
(***************************************************************************)

Stop ==
  /\ pc # "idle"
  /\ ~cancelled
  /\ cancelled' = TRUE
  /\ UNCHANGED <<drive, pc, existing, touched, saved, err, verdict, history>>

PowerCycle ==
  /\ resets < MaxResets
  /\ resets' = resets + 1
  /\ ram' = Blank
  /\ guardsOk' = TRUE /\ active' = FALSE /\ hung' = FALSE
  /\ attention' = TRUE
  /\ disturbed' = TRUE
  /\ faulty' = TRUE
  /\ warned' = FALSE
  /\ UNCHANGED <<pc, existing, touched, saved, err, cancelled, verdict,
                 entry, lied, calls, faults>>

\* A new medium: the key state is gone, the hook is not.
MediaChange ==
  /\ resets < MaxResets
  /\ resets' = resets + 1
  /\ active' = FALSE
  /\ attention' = TRUE
  /\ faulty' = TRUE
  /\ UNCHANGED <<ram, guardsOk, hung, pc, existing, touched, saved, err, cancelled,
                 verdict, entry, disturbed, lied, warned, calls, faults>>

\* The firmware changes one of the maps listed under profile.guards.
MapMoves ==
  /\ faults < MaxFaults
  /\ faults' = faults + 1
  /\ guardsOk
  /\ guardsOk' = FALSE
  /\ faulty' = TRUE
  /\ UNCHANGED <<ram, active, attention, hung, pc, existing, touched, saved, err,
                 cancelled, verdict, entry, disturbed, lied, warned, calls, resets>>

Host ==
  \/ Probe \/ Platform \/ Prepare \/ Enter
  \/ Check \/ WritePayload \/ VerifyPayload \/ WriteVid \/ VerifyVid \/ WritePtr \/ VerifyPtr
  \/ Reprobe \/ Optional \/ SetEncryption \/ VerifyState \/ VerifyHook \/ GetVid
  \/ Finish \/ FinishVerify
  \/ DetachPtr \/ CheckPtr \/ DetachVid \/ CheckVid \/ CheckPaths
  \/ ReadPolicy \/ RestorePolicy \/ CheckPolicy \/ RestoreMem \/ CheckMem
  \/ Close \/ Tune

Environment == Stop \/ PowerCycle \/ MediaChange \/ MapMoves

\* A call finds either an untouched drive, or one that another implementation
\* hooked, wholly or in what an interrupted removal left behind.
Init ==
  /\ \E mem \in {"oem", "foreign"} :
       ram \in [Cells -> {"oem", mem}] /\ ram["mem"] = mem
  /\ guardsOk = TRUE /\ active = FALSE /\ attention \in BOOLEAN /\ hung = FALSE
  /\ pc = "idle"
  /\ existing = FALSE /\ touched = FALSE /\ saved = "oem" /\ err = "none"
  /\ cancelled = FALSE /\ verdict = "none"
  /\ entry = ram /\ disturbed = FALSE /\ faulty = FALSE /\ lied = FALSE /\ warned = FALSE
  /\ calls = 0 /\ faults = 0 /\ resets = 0

Next == Begin \/ Host \/ Environment

Spec == Init /\ [][Next]_vars

-----------------------------------------------------------------------------
(***************************************************************************)
(* Properties.                                                             *)
(***************************************************************************)

\* The variables stay in their ranges.
DriveTypeOK ==
  /\ ram \in [Cells -> Values]
  /\ guardsOk \in BOOLEAN /\ active \in BOOLEAN /\ attention \in BOOLEAN /\ hung \in BOOLEAN

CallTypeOK ==
  /\ pc \in Steps
  /\ existing \in BOOLEAN /\ touched \in BOOLEAN /\ cancelled \in BOOLEAN
  /\ saved \in Values
  /\ err \in Errors
  /\ verdict \in Verdicts

HistoryTypeOK ==
  /\ entry \in [Cells -> Values]
  /\ disturbed \in BOOLEAN /\ faulty \in BOOLEAN /\ lied \in BOOLEAN /\ warned \in BOOLEAN
  /\ calls \in 0..MaxCalls /\ faults \in 0..MaxFaults /\ resets \in 0..MaxResets

TypeOK == DriveTypeOK /\ CallTypeOK /\ HistoryTypeOK

\* A slot that names a hook's table always finds that hook's whole payload in
\* the reserved RAM: however stage() and cleanup() are interrupted, and in
\* whatever state the next call finds the drive, no callback dangles.
HookIntact ==
  \A s \in Slots : ram[s] \in {"own", "foreign"} => ram["mem"] = ram[s]

\* A Stop is never mistaken for "this drive is not mine": whenever it lands
\* during a call, also inside the span that holds it back, the call ends in
\* Transport and no other unlocker runs.
StopIsFatal == pc = "idle" /\ cancelled => verdict = "transport"

\* Unless the bus, the drive or the power misbehaves, a call installs all of
\* the hook or leaves the drive as it found it, wherever Stop lands and
\* whatever the drive refuses (the critical span of unlock_backend, finish()).
AllOrNothing ==
  pc = "idle" /\ verdict # "none" /\ ~faulty => ram \in {entry, Resident}

\* The reserved RAM is written only while no slot leads into it: stage()
\* fills it before attaching, and cleanup() detaches, and verifies that it
\* did, before it frees.
FilledDetached ==
  [][ram'["mem"] # ram["mem"] => ram' = Blank \/ \A s \in Slots : ram[s] = "oem"]_vars

\* The drive is never sent through a torn callback by the call that tore it:
\* only the recognition commands of a later call can be, and only after a
\* call that ended in Transport ("fatal to this drive session"), unless the
\* drive acknowledged a write it did not carry out.
HangIsAnnounced ==
  [][hung' /\ ~hung => lied \/ (warned /\ pc \in {"probe", "platform"})]_vars

\* A call that found the hook resident never takes it out or rewrites it,
\* whatever fails: it may only re-assert the suppression.
ResidentHookKept ==
  [][existing /\ existing' =>
       ram' = Blank \/ \A c \in Cells \ {"sec"} : ram'[c] = ram[c]]_vars

\* Every call ends as the Unlocker trait promises.
Contract == INSTANCE UnlockContract WITH
  Images <- [Cells -> Values], Unlocked <- Resident, image <- ram

ContractHolds == Contract!Spec

=============================================================================
