-------------------------- MODULE FirmwareControl --------------------------
(***************************************************************************)
(* FirmwareControl, the typed driver of the vendor commands of a drive     *)
(* with freemkv firmware: the raw verbs a host tool issues (SET, RESET in  *)
(* its three modes, SAVE) and the named recipes AacsUnlocker arms a drive  *)
(* with.                                                                   *)
(*                                                                         *)
(* The drive keeps a table of feature states in RAM and, once saved, one   *)
(* in flash; a boot loads the saved table, or the baked defaults.  It      *)
(* loses its power at any time.  One command in a while misbehaves: its    *)
(* answer is lost or turned into a refusal, or it is answered GOOD and not *)
(* executed.                                                               *)
(*                                                                         *)
(* Left out: the bytes of commands and banners; DUMPALL, IDENTITY on its   *)
(* own and GET on its own, which change nothing; the BD and DVD region     *)
(* values, which are one state "other".                                    *)
(***************************************************************************)
EXTENDS Naturals, Sequences

CONSTANTS
  Baked,      \* the feature states the firmware was built with
  Requests,   \* the feature and state pairs host tools SET
  MaxFaults   \* how many commands misbehave

VARIABLES
  firmware,   \* "none", "old" (below MIN_FW_VERSION) or "good"
  ram,        \* the feature states in force
  flash,      \* the saved feature states, or Blank
  pc,         \* where the recipe is; "idle" between calls
  recipe,     \* the recipe of the last call
  at,         \* its step, from 1
  outcome,    \* what the last call returned; "raw" for a single verb
  before,     \* history: ram and flash when the recipe began, or after a verb
  cycled,     \* history: has the drive lost power since?
  faults

vars == <<firmware, ram, flash, pc, recipe, at, outcome, before, cycled, faults>>
driveVars == <<firmware, ram, flash>>
callVars == <<pc, recipe, at, outcome>>

AllFeatures == <<"speed", "region", "unrestricted", "hrl", "encryption">>
Features == {AllFeatures[i] : i \in DOMAIN AllFeatures}
States == {"pass", "off", "on", "other"}
Tables == [Features -> States]
Blank == [f \in Features |-> "blank"]
OemTable == [f \in Features |-> "pass"]

ASSUME BakedAssumption == Baked \in Tables
ASSUME RequestsAssumption == Requests \subseteq Features \X States
ASSUME FaultsAssumption == MaxFaults \in Nat

Unrestricted == <<"unrestricted", "on">>
HrlSkipped == <<"hrl", "off">>
EncryptionOff == <<"encryption", "off">>

\* Variant: encryption goes first.
StepsEncryptionFirst == [
  oemBd     |-> <<HrlSkipped>>,
  oemUhd    |-> <<EncryptionOff, Unrestricted, HrlSkipped>>,
  bypassBd  |-> <<EncryptionOff, HrlSkipped>>,
  bypassUhd |-> <<EncryptionOff, Unrestricted, HrlSkipped>>,
  stealth   |-> [i \in DOMAIN AllFeatures |-> <<AllFeatures[i], "pass">>]]

\* The feature and state pairs of each recipe, in the order they are sent, or
\* only read back by the disarming one.
Steps == [
  oemBd     |-> <<HrlSkipped>>,
  oemUhd    |-> <<Unrestricted, HrlSkipped, EncryptionOff>>,
  bypassBd  |-> <<HrlSkipped, EncryptionOff>>,
  bypassUhd |-> <<Unrestricted, HrlSkipped, EncryptionOff>>,
  stealth   |-> [i \in DOMAIN AllFeatures |-> <<AllFeatures[i], "pass">>]]
Recipes == DOMAIN Steps

Feature == Steps[recipe][at][1]
Wanted == Steps[recipe][at][2]

Outcomes == {"raw", "ok", "rejected", "unsupported", "verifyFailed", "transport"}
Replies == {"good", "refused", "dead"}

(***************************************************************************)
(* The drive                                                               *)
(***************************************************************************)

\* A verb that would leave the drive with these tables.  Firmware of another
\* grammar executes it or not; a drive without freemkv firmware refuses it.
Sent(reply, newRam, newFlash) ==
  /\ \/ /\ firmware = "good" /\ reply = "good"
        /\ ram' = newRam /\ flash' = newFlash
        /\ UNCHANGED faults
     \/ /\ firmware = "old" /\ reply = "good"
        /\ \/ ram' = newRam /\ flash' = newFlash
           \/ UNCHANGED <<ram, flash>>
        /\ UNCHANGED faults
     \/ /\ firmware = "none" /\ reply = "refused"
        /\ UNCHANGED <<ram, flash, faults>>
     \/ /\ faults < MaxFaults /\ faults' = faults + 1
        /\ reply \in Replies
        /\ \/ firmware # "none" /\ ram' = newRam /\ flash' = newFlash
           \/ UNCHANGED <<ram, flash>>
  /\ UNCHANGED firmware

\* GET: the state of the feature.  Firmware that does not know the request
\* answers GOOD with zeros, the byte of "off".
Got(reply, state) ==
  /\ \/ firmware # "none" /\ reply = "good" /\ state = ram[Feature] /\ UNCHANGED faults
     \/ firmware = "old" /\ reply = "good" /\ state = "off" /\ UNCHANGED faults
     \/ firmware = "none" /\ reply = "refused" /\ state = "off" /\ UNCHANGED faults
     \/ /\ faults < MaxFaults /\ faults' = faults + 1
        /\ reply \in {"refused", "dead"} /\ state = "off"
  /\ UNCHANGED driveVars

\* What a boot, and RESET_TO_FLASH, load.
Booted == IF flash = Blank THEN Baked ELSE flash

PowerCycle ==
  /\ ram' = Booted
  /\ cycled' = TRUE
  /\ UNCHANGED <<firmware, flash, callVars, before, faults>>

(***************************************************************************)
(* The verbs                                                               *)
(***************************************************************************)

\* A verb on its own, between recipes; whatever it returns.
Verb(newRam, newFlash) ==
  /\ pc = "idle"
  /\ \E reply \in Replies : Sent(reply, newRam, newFlash)
  /\ outcome' = "raw"
  /\ before' = [ram |-> ram', flash |-> flash'] /\ cycled' = FALSE
  /\ UNCHANGED <<pc, recipe, at>>

Set == \E r \in Requests : Verb([ram EXCEPT ![r[1]] = r[2]], flash)
Reset == Verb(OemTable, Blank)
ResetToDefaults == Verb(Baked, flash)
ResetToFlash == Verb(Booted, flash)
Save == Verb(ram, ram)

(***************************************************************************)
(* The recipes                                                             *)
(***************************************************************************)

End(result) == pc' = "idle" /\ outcome' = result

Failed(reply) == IF reply = "dead" THEN "transport" ELSE "rejected"

Arm ==
  /\ pc = "idle"
  /\ recipe' \in Recipes
  /\ pc' = "identify" /\ at' = 1 /\ outcome' = "raw"
  /\ before' = [ram |-> ram, flash |-> flash] /\ cycled' = FALSE
  /\ UNCHANGED <<driveVars, faults>>

\* What the gate makes of an answer to IDENTITY; a refusal is no freemkv drive.
Pass(supported) ==
  \E reply \in Replies :
    /\ Sent(reply, ram, flash)
    /\ CASE reply = "dead" -> End("transport")
         [] reply = "good" /\ supported ->
              pc' = (IF recipe = "stealth" THEN "reset" ELSE "set") /\ UNCHANGED outcome
         [] OTHER -> End("unsupported")

\* Variant: any freemkv banner will do.
IdentifyAnyVersion ==
  /\ pc = "identify" /\ Pass(firmware # "none")
  /\ UNCHANGED <<recipe, at, before, cycled>>

\* require_supported.
Identify ==
  /\ pc = "identify" /\ Pass(firmware = "good")
  /\ UNCHANGED <<recipe, at, before, cycled>>

\* The SET of set_verify.
SetStep ==
  /\ pc = "set"
  /\ \E reply \in Replies :
       /\ Sent(reply, [ram EXCEPT ![Feature] = Wanted], flash)
       /\ IF reply = "good" THEN pc' = "verify" /\ UNCHANGED outcome ELSE End(Failed(reply))
  /\ UNCHANGED <<recipe, at, before, cycled>>

\* The RESET of arm_stealth_oem.
ResetStep ==
  /\ pc = "reset"
  /\ \E reply \in Replies :
       /\ Sent(reply, OemTable, Blank)
       /\ IF reply = "good" THEN pc' = "verify" /\ UNCHANGED outcome ELSE End(Failed(reply))
  /\ UNCHANGED <<recipe, at, before, cycled>>

\* The next step of the recipe, or its end; last is where it ends.
Onward(last) ==
  IF at = last
  THEN End("ok") /\ UNCHANGED at
  ELSE /\ at' = at + 1
       /\ pc' = (IF recipe = "stealth" THEN "verify" ELSE "set")
       /\ UNCHANGED outcome

\* The GET behind a SET, or behind the RESET, and the states it may read.
Check(stuck, last) ==
  /\ pc = "verify"
  /\ \E reply \in Replies, state \in States :
       /\ Got(reply, state)
       /\ IF reply # "good" THEN End(Failed(reply)) /\ UNCHANGED at
          ELSE IF state \in stuck THEN Onward(last)
          ELSE End("verifyFailed") /\ UNCHANGED at
  /\ UNCHANGED <<recipe, before, cycled>>

\* Variant: the state that was read back is not compared.
VerifyAnything == Check(States, Len(Steps[recipe]))

\* The GET of set_verify, and each GET of arm_stealth_oem.
Verify == Check({Wanted}, Len(Steps[recipe]))

Init ==
  /\ firmware \in {"none", "old", "good"}
  /\ flash = Blank /\ ram = (IF firmware = "none" THEN OemTable ELSE Baked)
  /\ pc = "idle" /\ recipe = "stealth" /\ at = 1 /\ outcome = "raw"
  /\ before = [ram |-> ram, flash |-> flash] /\ cycled = FALSE
  /\ faults = 0

Next ==
  \/ Set \/ Reset \/ ResetToDefaults \/ ResetToFlash \/ Save
  \/ Arm \/ Identify \/ SetStep \/ ResetStep \/ Verify
  \/ PowerCycle

Spec == Init /\ [][Next]_vars

(***************************************************************************)
(* Properties                                                              *)
(***************************************************************************)

\* The variables stay in their ranges; in particular a recipe has no step past
\* its last.
TypeOK ==
  /\ firmware \in {"none", "old", "good"}
  /\ ram \in Tables
  /\ flash \in Tables \cup {Blank}
  /\ pc \in {"idle", "identify", "set", "reset", "verify"}
  /\ recipe \in Recipes
  /\ at \in DOMAIN Steps[recipe]
  /\ outcome \in Outcomes
  /\ before \in [ram : Tables, flash : Tables \cup {Blank}]
  /\ cycled \in BOOLEAN
  /\ faults \in 0..MaxFaults

\* Are the first n steps of the recipe in force?
InForce(n) == \A i \in 1..n : ram[Steps[recipe][i][1]] = Steps[recipe][i][2]

\* ... or taken back since by a power cycle?
Reached(n) ==
  \A i \in 1..n :
    LET f == Steps[recipe][i][1] IN
      ram[f] = Steps[recipe][i][2] \/ (cycled /\ ram[f] = Booted[f])

\* A recipe that returns Ok has every one of its features in force at once, on
\* firmware that knows them, whatever command misbehaved; only a power cycle in
\* between, which the recipe cannot notice, may have taken some of them back, and
\* those are then as the boot left them.
ArmIsReal ==
  pc = "idle" /\ outcome = "ok" => firmware = "good" /\ Reached(Len(Steps[recipe]))

Recipe == pc # "idle" \/ outcome # "raw"

\* A recipe no power cycle hit, complete or not, leaves each feature as it was or as the recipe
\* wants it, and writes no flash unless it disarms; it does nothing to a drive
\* whose firmware does not speak this grammar.
NothingElse ==
  Recipe /\ ~cycled =>
    /\ \A f \in Features :
         \/ ram[f] = before.ram[f]
         \/ \E i \in DOMAIN Steps[recipe] : Steps[recipe][i] = <<f, ram[f]>>
    /\ flash = before.flash \/ (recipe = "stealth" /\ flash = Blank)
    /\ firmware # "good" => ram = before.ram /\ flash = before.flash

\* A recipe turns encryption off as its last step: if no power cycle hit it, a
\* drive whose encryption a failed recipe has turned off has everything else the
\* recipe wants.  A call that falls back to the certificate exchange then meets a
\* fully armed drive, never one that serves plain content it does not engage with.
EncryptionLast ==
  Recipe /\ recipe # "stealth" /\ ~cycled /\ ram["encryption"] # before.ram["encryption"] =>
    InForce(Len(Steps[recipe]))
=============================================================================
