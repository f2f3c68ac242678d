----------------------- MODULE FirmwareControlProofs -----------------------
(***************************************************************************)
(* A recipe that returns Ok is in force, for every firmware, every table   *)
(* the firmware was built with, every request a host may SET and any       *)
(* number of misbehaving commands.                                         *)
(***************************************************************************)
EXTENDS FirmwareControl, TLAPS

-----------------------------------------------------------------------------
(***************************************************************************)
(* The recipes.                                                            *)
(***************************************************************************)

LEMMA FeaturesAre ==
  Features = {"speed", "region", "unrestricted", "hrl", "encryption"}
<1>1. DOMAIN AllFeatures = 1..5
  BY DEF AllFeatures
<1>2. DOMAIN AllFeatures = {1, 2, 3, 4, 5}
  BY <1>1
<1>3. /\ AllFeatures[1] = "speed" /\ AllFeatures[2] = "region"
      /\ AllFeatures[3] = "unrestricted" /\ AllFeatures[4] = "hrl"
      /\ AllFeatures[5] = "encryption"
  BY DEF AllFeatures
<1> QED
  BY <1>2, <1>3 DEF Features

\* A table of steps: it has some, each a feature and a state, and no feature
\* occurs in two of them.
WellFormed(s) ==
  /\ Len(s) \in Nat \ {0}
  /\ DOMAIN s = 1..Len(s)
  /\ \A i \in 1..Len(s) : s[i] = <<s[i][1],
     s[i][2]>> /\ s[i][1] \in Features /\ s[i][2] \in States
  /\ \A i, j \in 1..Len(s) : s[i][1] = s[j][1] => i = j

LEMMA StepsAre ==
  /\ Recipes = {"oemBd", "oemUhd", "bypassBd", "bypassUhd", "stealth"}
  /\ Steps["oemBd"] = <<HrlSkipped>>
  /\ Steps["oemUhd"] = <<Unrestricted, HrlSkipped, EncryptionOff>>
  /\ Steps["bypassBd"] = <<HrlSkipped, EncryptionOff>>
  /\ Steps["bypassUhd"] = <<Unrestricted, HrlSkipped, EncryptionOff>>
  /\ Steps["stealth"] = [i \in DOMAIN AllFeatures |-> <<AllFeatures[i], "pass">>]
BY DEF Steps, Recipes

LEMMA OneStep == WellFormed(<<HrlSkipped>>)
BY FeaturesAre DEF WellFormed, HrlSkipped, States

LEMMA TwoSteps == WellFormed(<<HrlSkipped, EncryptionOff>>)
BY FeaturesAre DEF WellFormed, HrlSkipped, EncryptionOff, States

LEMMA ThreeSteps == WellFormed(<<Unrestricted, HrlSkipped, EncryptionOff>>)
BY FeaturesAre DEF WellFormed, Unrestricted, HrlSkipped, EncryptionOff, States

LEMMA StealthSteps == WellFormed([i \in DOMAIN AllFeatures |-> <<AllFeatures[i], "pass">>])
<1> DEFINE s == [i \in DOMAIN AllFeatures |-> <<AllFeatures[i], "pass">>]
<1>1. DOMAIN AllFeatures = 1..5 /\ DOMAIN s = 1..5 /\ 1..5 = {1, 2, 3, 4, 5}
  BY DEF AllFeatures
<1>2. Len(s) = 5
  BY <1>1
<1>3. /\ AllFeatures[1] = "speed" /\ AllFeatures[2] = "region"
      /\ AllFeatures[3] = "unrestricted" /\ AllFeatures[4] = "hrl"
      /\ AllFeatures[5] = "encryption"
  BY DEF AllFeatures
<1>4. \A i \in 1..5 : s[i] = <<AllFeatures[i], "pass">>
  BY <1>1
<1>5. \A i \in 1..5 : s[i][1] = AllFeatures[i] /\ s[i][2] = "pass"
  BY <1>4
<1> QED
  BY <1>1, <1>2, <1>3, <1>4, <1>5, FeaturesAre DEF WellFormed, States

\* Every recipe is such a table.
LEMMA WellFormedSteps == \A r \in Recipes : WellFormed(Steps[r])
BY StepsAre, OneStep, TwoSteps, ThreeSteps, StealthSteps

-----------------------------------------------------------------------------
(***************************************************************************)
(* Types.                                                                  *)
(***************************************************************************)

FlashTables == Tables \cup {Blank}

LEMMA TablesAre ==
  /\ OemTable \in Tables /\ Baked \in Tables /\ Blank \in FlashTables
  /\ \A t \in Tables, f \in Features, s \in States : [t EXCEPT ![f] = s] \in Tables
BY BakedAssumption DEF Tables, OemTable, States, FlashTables

\* What a boot loads is a table.
LEMMA BootedIsTable == TypeOK => Booted \in Tables
BY TablesAre DEF TypeOK, Booted

\* The step a recipe is at.
LEMMA StepIs ==
  ASSUME TypeOK
  PROVE  /\ WellFormed(Steps[recipe])
         /\ at \in 1..Len(Steps[recipe])
         /\ Feature \in Features /\ Wanted \in States
<1>1. WellFormed(Steps[recipe])
  BY WellFormedSteps DEF TypeOK
<1>2. at \in 1..Len(Steps[recipe])
  BY <1>1 DEF TypeOK, WellFormed
<1> QED
  BY <1>1, <1>2 DEF WellFormed, Feature, Wanted

\* A command moves the tables only to those it would leave.
LEMMA SentTypes ==
  ASSUME TypeOK, NEW reply, NEW newRam \in Tables, NEW newFlash \in FlashTables,
         Sent(reply, newRam, newFlash)
  PROVE  /\ firmware' = firmware
         /\ ram' \in Tables /\ flash' \in FlashTables /\ faults' \in 0..MaxFaults
         /\ (ram' = newRam /\ flash' = newFlash) \/ (ram' = ram /\ flash' = flash)
BY FaultsAssumption DEF TypeOK, Sent, FlashTables

LEMMA VerbTypes ==
  ASSUME TypeOK, NEW newRam \in Tables, NEW newFlash \in FlashTables, Verb(newRam, newFlash)
  PROVE  TypeOK'
<1>1. PICK reply \in Replies : Sent(reply, newRam, newFlash)
  BY DEF Verb
<1>2. /\ firmware' = firmware /\ ram' \in Tables /\ flash' \in FlashTables
      /\ faults' \in 0..MaxFaults
  BY <1>1, SentTypes
<1> QED
  BY <1>2 DEF TypeOK, Verb, Outcomes, FlashTables

\* The verbs and what they would leave.
LEMMA RawVerb ==
  ASSUME TypeOK, Set \/ Reset \/ ResetToDefaults \/ ResetToFlash \/ Save
  PROVE  \E newRam \in Tables, newFlash \in FlashTables : Verb(newRam, newFlash)
<1> USE TablesAre, BootedIsTable DEF FlashTables
<1>1. CASE Set
  <2>1. PICK r \in Requests : Verb([ram EXCEPT ![r[1]] = r[2]], flash)
    BY <1>1 DEF Set
  <2>2. r[1] \in Features /\ r[2] \in States
    BY RequestsAssumption
  <2> QED
    BY <2>1, <2>2 DEF TypeOK
<1>2. CASE Reset
  BY <1>2 DEF Reset
<1>3. CASE ResetToDefaults
  BY <1>3 DEF ResetToDefaults, TypeOK
<1>4. CASE ResetToFlash
  BY <1>4 DEF ResetToFlash, TypeOK
<1>5. CASE Save
  BY <1>5 DEF Save, TypeOK
<1> QED
  BY <1>1, <1>2, <1>3, <1>4, <1>5

\* The steps of a recipe that send a command other than GET.
LEMMA CommandTypes ==
  ASSUME TypeOK, Identify \/ SetStep \/ ResetStep
  PROVE  TypeOK'
<1> USE TablesAre, StepIs DEF FlashTables
<1>1. CASE Identify
  <2>1. PICK reply \in Replies : /\ Sent(reply, ram, flash)
                                 /\ pc' \in {"idle", "reset", "set"}
                                 /\ outcome' \in Outcomes
    BY <1>1 DEF Identify, Pass, End, TypeOK, Outcomes
  <2>2. /\ firmware' = firmware /\ ram' \in Tables /\ flash' \in FlashTables
        /\ faults' \in 0..MaxFaults
    BY <2>1, SentTypes DEF TypeOK
  <2> QED
    BY <1>1, <2>1, <2>2 DEF Identify, TypeOK
<1>2. CASE SetStep
  <2>1. PICK reply \in Replies : /\ Sent(reply, [ram EXCEPT ![Feature] = Wanted], flash)
                                 /\ pc' \in {"idle", "verify"}
                                 /\ outcome' \in Outcomes
    BY <1>2 DEF SetStep, End, Failed, TypeOK, Outcomes
  <2>2. /\ firmware' = firmware /\ ram' \in Tables /\ flash' \in FlashTables
        /\ faults' \in 0..MaxFaults
    BY <2>1, SentTypes DEF TypeOK
  <2> QED
    BY <1>2, <2>1, <2>2 DEF SetStep, TypeOK
<1>3. CASE ResetStep
  <2>1. PICK reply \in Replies : /\ Sent(reply, OemTable, Blank)
                                 /\ pc' \in {"idle", "verify"}
                                 /\ outcome' \in Outcomes
    BY <1>3 DEF ResetStep, End, Failed, TypeOK, Outcomes
  <2>2. /\ firmware' = firmware /\ ram' \in Tables /\ flash' \in FlashTables
        /\ faults' \in 0..MaxFaults
    BY <2>1, SentTypes
  <2> QED
    BY <1>3, <2>1, <2>2 DEF ResetStep, TypeOK
<1> QED
  BY <1>1, <1>2, <1>3

\* A GET behind a step ends the recipe or goes one step on, never past the last.
LEMMA VerifyTypes ==
  ASSUME TypeOK, Verify
  PROVE  TypeOK'
<1>1. PICK reply \in Replies, state \in States :
        /\ Got(reply, state)
        /\ IF reply # "good" THEN End(Failed(reply)) /\ UNCHANGED at
           ELSE IF state \in {Wanted} THEN Onward(Len(Steps[recipe]))
           ELSE End("verifyFailed") /\ UNCHANGED at
  BY DEF Verify, Check
<1>2. UNCHANGED driveVars /\ faults' \in 0..MaxFaults
  BY <1>1, FaultsAssumption DEF Got, TypeOK
<1>3. Len(Steps[recipe]) \in Nat /\ DOMAIN Steps[recipe] = 1..Len(Steps[recipe])
      /\ at \in 1..Len(Steps[recipe])
  BY StepIs DEF WellFormed
<1>4. /\ pc' \in {"idle", "set", "verify"} /\ outcome' \in Outcomes
      /\ at' \in 1..Len(Steps[recipe])
  BY <1>1, <1>3 DEF End, Failed, Onward, TypeOK, Outcomes
<1> QED
  BY <1>2, <1>3, <1>4 DEF Verify, Check, TypeOK, driveVars

LEMMA InitType == Init => TypeOK
<1> SUFFICES ASSUME Init PROVE TypeOK
  OBVIOUS
<1>1. WellFormed(Steps["stealth"]) /\ "stealth" \in Recipes
  BY WellFormedSteps, StepsAre
<1>2. 1 \in DOMAIN Steps["stealth"]
  BY <1>1 DEF WellFormed
<1>3. ram \in Tables /\ flash \in FlashTables
  BY TablesAre DEF Init
<1>4. before \in [ram : Tables, flash : FlashTables]
  BY <1>3 DEF Init
<1>5. faults \in 0..MaxFaults
  BY FaultsAssumption DEF Init
<1>6. recipe \in Recipes /\ at \in DOMAIN Steps[recipe]
  BY <1>1, <1>2 DEF Init
<1>7. /\ firmware \in {"none", "old", "good"} /\ cycled \in BOOLEAN
      /\ pc \in {"idle", "identify", "set", "reset", "verify"} /\ outcome \in Outcomes
  BY DEF Init, Outcomes
<1> QED
  BY <1>3, <1>4, <1>5, <1>6, <1>7 DEF TypeOK, FlashTables

LEMMA NextType == TypeOK /\ [Next]_vars => TypeOK'
<1> SUFFICES ASSUME TypeOK, [Next]_vars PROVE TypeOK'
  OBVIOUS
<1>1. CASE Set \/ Reset \/ ResetToDefaults \/ ResetToFlash \/ Save
  BY <1>1, RawVerb, VerbTypes
<1>2. CASE Arm
  <2>1. recipe' \in Recipes /\ WellFormed(Steps[recipe'])
    BY <1>2, WellFormedSteps DEF Arm
  <2>2. at' \in DOMAIN Steps[recipe']
    BY <1>2, <2>1 DEF Arm, WellFormed
  <2> QED
    BY <1>2, <2>1, <2>2 DEF Arm, TypeOK, driveVars, Outcomes
<1>3. CASE Identify \/ SetStep \/ ResetStep
  BY <1>3, CommandTypes
<1>4. CASE Verify
  BY <1>4, VerifyTypes
<1>5. CASE PowerCycle
  BY <1>5, BootedIsTable DEF PowerCycle, TypeOK, callVars
<1>6. CASE UNCHANGED vars
  BY <1>6 DEF vars, TypeOK
<1> QED
  BY <1>1, <1>2, <1>3, <1>4, <1>5, <1>6 DEF Next

\* The variables of the driver and the drive stay in their ranges: in particular
\* a recipe never reaches past its last step.
THEOREM TypeCorrect == Spec => []TypeOK
<1> QED
  BY InitType, NextType, PTL DEF Spec

-----------------------------------------------------------------------------
(***************************************************************************)
(* An Ok is real.  The steps in front of the one a recipe is at are in     *)
(* force, unless the drive has lost its power: a SET disturbs no feature   *)
(* but its own, and a step is left behind only when its state was read.    *)
(***************************************************************************)

Armed ==
  /\ pc \in {"identify", "reset"} => at = 1
  /\ pc = "reset" => recipe = "stealth"
  /\ pc \in {"set", "reset", "verify"} => firmware = "good"
  /\ pc \in {"set", "verify"} => Reached(at - 1)
  /\ ArmIsReal

Inv == TypeOK /\ Armed

\* Without a power cycle what a recipe has reached is in force.
LEMMA StillInForce ==
  ASSUME NEW n, ~cycled
  PROVE  Reached(n) <=> InForce(n)
BY DEF Reached, InForce

\* Setting the feature of a step leaves those in front of it alone.
LEMMA SetKeeps ==
  ASSUME TypeOK, Reached(at - 1), UNCHANGED <<recipe, at, flash, cycled>>,
         ram' = [ram EXCEPT ![Feature] = Wanted] \/ ram' = ram
  PROVE  Reached(at - 1)'
<1> DEFINE s == Steps[recipe]
<1>1. WellFormed(s) /\ at \in 1..Len(s) /\ Feature \in Features
  BY StepIs
<1>2. SUFFICES ASSUME NEW i \in 1..(at - 1)
               PROVE  ram'[s[i][1]] = s[i][2] \/ (cycled /\ ram'[s[i][1]] = Booted[s[i][1]])
  BY DEF Reached, Booted
<1>3. i \in 1..Len(s) /\ i # at
  BY <1>1 DEF WellFormed
<1>4. s[i][1] \in Features /\ s[i][1] # Feature
  BY <1>1, <1>3 DEF WellFormed, Feature
<1>5. ram'[s[i][1]] = ram[s[i][1]]
  BY <1>4 DEF TypeOK, Tables
<1>6. ram[s[i][1]] = s[i][2] \/ (cycled /\ ram[s[i][1]] = Booted[s[i][1]])
  BY <1>2 DEF Reached
<1> QED
  BY <1>5, <1>6

\* What was read back extends what is reached by a step.
LEMMA CheckExtends ==
  ASSUME TypeOK, Reached(at - 1), ram[Feature] = Wanted
  PROVE  Reached(at)
<1>1. at \in 1..Len(Steps[recipe]) /\ Len(Steps[recipe]) \in Nat
  BY StepIs DEF WellFormed
<1>2. \A i \in 1..at : i \in 1..(at - 1) \/ i = at
  BY <1>1
<1> QED
  BY <1>2 DEF Reached, Feature, Wanted

LEMMA VerifyArmed ==
  ASSUME Inv, Verify
  PROVE  Armed'
<1> DEFINE n == Len(Steps[recipe])
<1>1. PICK reply \in Replies, state \in States :
        /\ Got(reply, state)
        /\ IF reply # "good" THEN End(Failed(reply)) /\ UNCHANGED at
           ELSE IF state \in {Wanted} THEN Onward(n)
           ELSE End("verifyFailed") /\ UNCHANGED at
  BY DEF Verify, Check
<1>2. pc = "verify" /\ firmware = "good" /\ UNCHANGED <<driveVars, recipe, before, cycled>>
  BY <1>1 DEF Verify, Check, Inv, Armed, Got
<1>3. at \in 1..n /\ n \in Nat
  BY StepIs DEF WellFormed, Inv
<1>4. CASE reply = "good" /\ state = Wanted
  <2>1. ram[Feature] = Wanted
    BY <1>1, <1>2, <1>4 DEF Got
  <2>2. Reached(at)
    BY <1>2, <2>1, CheckExtends DEF Inv, Armed
  <2>3. Onward(n)
    BY <1>1, <1>4
  <2>4. CASE at = n
    <3>1. pc' = "idle" /\ outcome' = "ok"
      BY <2>3, <2>4 DEF Onward, End
    <3> QED
      BY <1>2, <2>2, <2>4, <3>1 DEF Armed, ArmIsReal, Reached, Booted, driveVars
  <2>5. CASE at # n
    <3>1. at' = at + 1 /\ pc' \in {"verify", "set"}
      BY <2>3, <2>5 DEF Onward
    <3>2. at' - 1 = at
      BY <1>3, <3>1
    <3> QED
      BY <1>2, <2>2, <3>1, <3>2 DEF Armed, ArmIsReal, Reached, Booted, driveVars
  <2> QED
    BY <2>4, <2>5
<1>5. CASE ~(reply = "good" /\ state = Wanted)
  <2>1. pc' = "idle" /\ outcome' # "ok"
    BY <1>1, <1>5 DEF End, Failed
  <2> QED
    BY <2>1 DEF Armed, ArmIsReal
<1> QED
  BY <1>4, <1>5

LEMMA CommandArmed ==
  ASSUME Inv, Identify \/ SetStep \/ ResetStep
  PROVE  Armed'
<1> USE TablesAre, StepIs DEF FlashTables
<1>1. CASE Identify
  <2>1. PICK reply \in Replies :
          /\ Sent(reply, ram, flash)
          /\ CASE reply = "dead" -> End("transport")
               [] reply = "good" /\ firmware = "good" ->
                    pc' = (IF recipe = "stealth" THEN "reset" ELSE "set") /\ UNCHANGED outcome
               [] OTHER -> End("unsupported")
    BY <1>1 DEF Identify, Pass
  <2>2. firmware' = firmware /\ at = 1 /\ at' = at
    BY <1>1, <2>1, SentTypes DEF Identify, Inv, Armed, TypeOK
  <2>3. \/ pc' = "set" /\ firmware = "good"
        \/ pc' = "reset" /\ recipe = "stealth" /\ firmware = "good"
        \/ pc' = "idle" /\ outcome' # "ok"
    BY <2>1 DEF End
  <2>4. Reached(1 - 1)' /\ recipe' = recipe
    BY <1>1 DEF Reached, Identify
  <2> QED
    BY <2>2, <2>3, <2>4 DEF Armed, ArmIsReal
<1>2. CASE SetStep
  <2>1. PICK reply \in Replies :
          /\ Sent(reply, [ram EXCEPT ![Feature] = Wanted], flash)
          /\ IF reply = "good" THEN pc' = "verify" /\ UNCHANGED outcome ELSE End(Failed(reply))
    BY <1>2 DEF SetStep
  <2>2. /\ firmware' = firmware
        /\ ram' = [ram EXCEPT ![Feature] = Wanted] \/ ram' = ram
        /\ flash' = flash
    BY <2>1, SentTypes DEF Inv, TypeOK
  <2>3. /\ pc = "set" /\ firmware = "good" /\ Reached(at - 1)
        /\ UNCHANGED <<recipe, at, before, cycled>>
    BY <1>2 DEF SetStep, Inv, Armed
  <2>4. Reached(at - 1)'
    BY <2>2, <2>3, SetKeeps DEF Inv
  <2>5. pc' = "verify" \/ (pc' = "idle" /\ outcome' # "ok")
    BY <2>1 DEF End, Failed
  <2> QED
    BY <2>2, <2>3, <2>4, <2>5 DEF Armed, ArmIsReal
<1>3. CASE ResetStep
  <2>1. PICK reply \in Replies :
          /\ Sent(reply, OemTable, Blank)
          /\ IF reply = "good" THEN pc' = "verify" /\ UNCHANGED outcome ELSE End(Failed(reply))
    BY <1>3 DEF ResetStep
  <2>2. firmware' = firmware
    BY <2>1, SentTypes DEF Inv
  <2>3. at = 1 /\ firmware = "good" /\ UNCHANGED <<recipe, at, before, cycled>>
    BY <1>3 DEF ResetStep, Inv, Armed
  <2>4. Reached(1 - 1)'
    BY DEF Reached
  <2>5. pc' = "verify" \/ (pc' = "idle" /\ outcome' # "ok")
    BY <2>1 DEF End, Failed
  <2> QED
    BY <2>2, <2>3, <2>4, <2>5 DEF Armed, ArmIsReal
<1> QED
  BY <1>1, <1>2, <1>3

LEMMA NextArmed == Inv /\ [Next]_vars => Armed'
<1> SUFFICES ASSUME Inv, [Next]_vars PROVE Armed'
  OBVIOUS
<1>1. CASE Set \/ Reset \/ ResetToDefaults \/ ResetToFlash \/ Save
  <2>1. PICK newRam \in Tables, newFlash \in FlashTables : Verb(newRam, newFlash)
    BY <1>1, RawVerb DEF Inv
  <2>2. pc' = "idle" /\ outcome' = "raw"
    BY <2>1 DEF Verb
  <2> QED
    BY <2>2 DEF Armed, ArmIsReal
<1>2. CASE Arm
  BY <1>2 DEF Arm, Armed, ArmIsReal
<1>3. CASE Identify \/ SetStep \/ ResetStep
  BY <1>3, CommandArmed
<1>4. CASE Verify
  BY <1>4, VerifyArmed
<1>5. CASE PowerCycle
  <2>1. ram' = Booted /\ Booted' = Booted /\ cycled' /\ UNCHANGED <<firmware, callVars>>
    BY <1>5 DEF PowerCycle, Booted
  <2>2. \A n : Reached(n)'
    BY <2>1 DEF Reached
  <2>3. Reached(at - 1)' /\ Reached(Len(Steps[recipe]))'
    BY <2>2 DEF Reached
  <2> QED
    BY <2>1, <2>3 DEF Inv, Armed, ArmIsReal, callVars
<1>6. CASE UNCHANGED vars
  BY <1>6 DEF vars, Inv, Armed, ArmIsReal, Reached, Booted
<1> QED
  BY <1>1, <1>2, <1>3, <1>4, <1>5, <1>6 DEF Next

LEMMA InvHolds == Spec => []Inv
<1>1. Init => Inv
  BY InitType DEF Inv, Armed, ArmIsReal, Init
<1>2. Inv /\ [Next]_vars => Inv'
  BY NextType, NextArmed DEF Inv
<1> QED
  BY <1>1, <1>2, PTL DEF Spec

\* A recipe that returns Ok is in force on firmware of this grammar, whatever
\* commands misbehaved and whatever was set, saved or reset before it.
THEOREM OkIsReal == Spec => []ArmIsReal
<1>1. Inv => ArmIsReal
  BY DEF Inv, Armed
<1> QED
  BY <1>1, InvHolds, PTL

-----------------------------------------------------------------------------
(***************************************************************************)
(* What a recipe leaves behind when it fails.  Both properties are         *)
(* inductive once Inv is known: only SetStep and ResetStep move a table    *)
(* during a recipe.                                                        *)
(***************************************************************************)

\* Only the last step of an arming recipe can be about encryption.
LEMMA OnlyLast ==
  \A r \in Recipes \ {"stealth"} :
    \A i \in 1..Len(Steps[r]) : i # Len(Steps[r]) => Steps[r][i][1] # "encryption"
<1>1. SUFFICES ASSUME NEW r \in Recipes \ {"stealth"},
                      NEW i \in 1..Len(Steps[r]), i # Len(Steps[r])
               PROVE  Steps[r][i][1] # "encryption"
  OBVIOUS
<1>2. CASE Steps[r] = <<HrlSkipped>>
  <2>1. Len(Steps[r]) = 1
    BY <1>2
  <2> QED
    BY <1>1, <2>1
<1>3. CASE Steps[r] = <<HrlSkipped, EncryptionOff>>
  <2>1. Len(Steps[r]) = 2
    BY <1>3
  <2>2. i = 1
    BY <1>1, <2>1
  <2> QED
    BY <1>3, <2>2 DEF HrlSkipped
<1>4. CASE Steps[r] = <<Unrestricted, HrlSkipped, EncryptionOff>>
  <2>1. Len(Steps[r]) = 3
    BY <1>4
  <2>2. i \in {1, 2}
    BY <1>1, <2>1
  <2> QED
    BY <1>4, <2>2 DEF HrlSkipped, Unrestricted
<1> QED
  BY <1>1, <1>2, <1>3, <1>4, StepsAre

\* The last SET puts a recipe in force; a SET that changes nothing keeps it there.
LEMMA SetCompletes ==
  ASSUME Inv, SetStep, ~cycled, EncryptionLast
  PROVE  EncryptionLast'
<1> DEFINE n == Len(Steps[recipe])
<1> USE TablesAre DEF FlashTables
<1>1. PICK reply \in Replies : Sent(reply, [ram EXCEPT ![Feature] = Wanted], flash)
  BY DEF SetStep
<1>2. ram' = [ram EXCEPT ![Feature] = Wanted] \/ ram' = ram
  BY <1>1, StepIs, SentTypes DEF Inv, TypeOK
<1>3. /\ pc = "set" /\ Reached(at - 1) /\ InForce(at - 1)
      /\ UNCHANGED <<recipe, at, before, cycled>>
  BY StillInForce DEF SetStep, Inv, Armed
<1>4. SUFFICES ASSUME recipe # "stealth", ram'["encryption"] # before.ram["encryption"]
              PROVE  InForce(n)'
  BY <1>3 DEF EncryptionLast
<1>5. /\ WellFormed(Steps[recipe]) /\ at \in 1..n /\ Feature \in Features
  BY StepIs DEF Inv
<1>6. CASE InForce(n)
  <2>1. ram[Feature] = Wanted
    BY <1>5, <1>6 DEF InForce, Feature, Wanted
  <2>2. \A f \in Features : ram'[f] = ram[f]
    BY <1>2, <1>5, <2>1 DEF Inv, TypeOK, Tables
  <2>3. \A i \in 1..n : Steps[recipe][i][1] \in Features
    BY <1>5 DEF WellFormed
  <2> QED
    BY <1>3, <1>6, <2>2, <2>3 DEF InForce
<1>7. CASE ~InForce(n)
  <2>1. ram["encryption"] = before.ram["encryption"]
    BY <1>3, <1>4, <1>7 DEF EncryptionLast, Recipe
  <2>2. ram' = [ram EXCEPT ![Feature] = Wanted] /\ Feature = "encryption"
    <3>1. ram' = [ram EXCEPT ![Feature] = Wanted]
      BY <1>2, <1>4, <2>1
    <3>2. "encryption" \in Features
      BY FeaturesAre
    <3> QED
      BY <1>4, <1>5, <2>1, <3>1, <3>2 DEF Inv, TypeOK, Tables
  <2>3. at = n
    BY <1>4, <1>5, <2>2, OnlyLast DEF Inv, TypeOK, Feature
  <2>4. ram'[Feature] = Wanted
    BY <1>5, <2>2 DEF Inv, TypeOK, Tables
  <2>5. InForce(at - 1)'
    <3>1. flash' = flash /\ ~cycled'
      BY <1>1, <1>3, StepIs, SentTypes DEF Inv, TypeOK, SetStep
    <3>2. Reached(at - 1)'
      BY <1>2, <1>3, <3>1, SetKeeps DEF Inv
    <3> QED
      BY <3>1, <3>2 DEF Reached, InForce
  <2>6. \A i \in 1..n : i \in 1..(at - 1) \/ i = at
    BY <1>5, <2>3 DEF WellFormed
  <2> QED
    BY <1>3, <2>4, <2>5, <2>6 DEF InForce, Feature, Wanted
<1> QED
  BY <1>6, <1>7

LEMMA NextLast == Inv /\ EncryptionLast /\ [Next]_vars => EncryptionLast'
<1> SUFFICES ASSUME Inv, EncryptionLast, [Next]_vars PROVE EncryptionLast'
  OBVIOUS
<1> USE TablesAre DEF FlashTables
<1>1. CASE Set \/ Reset \/ ResetToDefaults \/ ResetToFlash \/ Save
  <2>1. PICK newRam \in Tables, newFlash \in FlashTables : Verb(newRam, newFlash)
    BY <1>1, RawVerb DEF Inv
  <2> QED
    BY <2>1 DEF Verb, EncryptionLast, Recipe
<1>2. CASE Arm
  BY <1>2 DEF Arm, EncryptionLast, driveVars
<1>3. CASE Identify
  <2>1. PICK reply \in Replies : Sent(reply, ram, flash)
    BY <1>3 DEF Identify, Pass
  <2>2. ram' = ram /\ pc = "identify" /\ UNCHANGED <<recipe, before, cycled>>
    BY <1>3, <2>1, SentTypes DEF Identify, Inv, TypeOK
  <2> QED
    BY <2>2 DEF EncryptionLast, Recipe, InForce
<1>4. CASE SetStep
  <2>1. CASE cycled
    BY <1>4, <2>1 DEF SetStep, EncryptionLast
  <2> QED
    BY <1>4, <2>1, SetCompletes
<1>5. CASE ResetStep
  BY <1>5 DEF ResetStep, Inv, Armed, EncryptionLast
<1>6. CASE Verify
  <2>1. pc = "verify" /\ UNCHANGED <<ram, recipe, before, cycled>>
    BY <1>6 DEF Verify, Check, Got, driveVars
  <2> QED
    BY <2>1 DEF EncryptionLast, Recipe, InForce
<1>7. CASE PowerCycle
  BY <1>7 DEF PowerCycle, EncryptionLast
<1>8. CASE UNCHANGED vars
  BY <1>8 DEF vars, EncryptionLast, Recipe, InForce
<1> QED
  BY <1>1, <1>2, <1>3, <1>4, <1>5, <1>6, <1>7, <1>8 DEF Next

\* A recipe that has turned encryption off, failed or not, has everything else it
\* wants in force.
THEOREM EncryptionIsLast == Spec => []EncryptionLast
<1>1. Init => EncryptionLast
  BY DEF Init, EncryptionLast, Recipe
<1>2. Inv /\ EncryptionLast /\ [Next]_vars => EncryptionLast'
  BY NextLast
<1> QED
  BY <1>1, <1>2, InvHolds, PTL DEF Spec

\* Every feature occurs in the disarming recipe, with the OEM state.
LEMMA StealthCovers ==
  \A f \in Features : \E i \in DOMAIN Steps["stealth"] : Steps["stealth"][i] = <<f, "pass">>
<1>1. SUFFICES ASSUME NEW f \in Features
               PROVE  \E i \in DOMAIN Steps["stealth"] : Steps["stealth"][i] = <<f, "pass">>
  OBVIOUS
<1>2. PICK i \in DOMAIN AllFeatures : f = AllFeatures[i]
  BY DEF Features
<1> QED
  BY <1>2, StepsAre

\* A SET moves its own feature to the state of its step, and nothing else.
LEMMA SetTouches ==
  ASSUME Inv, SetStep, ~cycled, NothingElse
  PROVE  NothingElse'
<1> USE TablesAre DEF FlashTables
<1>1. PICK reply \in Replies : Sent(reply, [ram EXCEPT ![Feature] = Wanted], flash)
  BY DEF SetStep
<1>2. /\ ram' = [ram EXCEPT ![Feature] = Wanted] \/ ram' = ram
      /\ flash' = flash /\ firmware' = firmware
  BY <1>1, StepIs, SentTypes DEF Inv, TypeOK
<1>3. /\ pc = "set" /\ firmware = "good" /\ UNCHANGED <<recipe, at, before, cycled>>
  BY DEF SetStep, Inv, Armed
<1>4. /\ at \in DOMAIN Steps[recipe] /\ Steps[recipe][at] = <<Feature, Wanted>>
      /\ Feature \in Features
  BY StepIs DEF Inv, TypeOK, WellFormed, Feature, Wanted
<1>5. /\ \A f \in Features :
           \/ ram[f] = before.ram[f]
           \/ \E i \in DOMAIN Steps[recipe] : Steps[recipe][i] = <<f, ram[f]>>
      /\ flash = before.flash \/ (recipe = "stealth" /\ flash = Blank)
  BY <1>3 DEF NothingElse, Recipe
<1>6. ASSUME NEW f \in Features
      PROVE  \/ ram'[f] = before.ram[f]
             \/ \E i \in DOMAIN Steps[recipe] : Steps[recipe][i] = <<f, ram'[f]>>
  <2>1. CASE ram'[f] = ram[f]
    BY <1>5, <2>1
  <2>2. CASE ram'[f] # ram[f]
    <3>1. f = Feature /\ ram'[f] = Wanted
      BY <1>2, <1>4, <2>2 DEF Inv, TypeOK, Tables
    <3> QED
      BY <1>4, <3>1
  <2> QED
    BY <2>1, <2>2
<1> QED
  BY <1>2, <1>3, <1>5, <1>6 DEF NothingElse

LEMMA ResetTouches ==
  ASSUME Inv, ResetStep, ~cycled, NothingElse
  PROVE  NothingElse'
<1> USE TablesAre DEF FlashTables
<1>1. PICK reply \in Replies : Sent(reply, OemTable, Blank)
  BY DEF ResetStep
<1>2. /\ (ram' = OemTable /\ flash' = Blank) \/ (ram' = ram /\ flash' = flash)
      /\ firmware' = firmware
  BY <1>1, SentTypes DEF Inv
<1>3. /\ pc = "reset" /\ recipe = "stealth" /\ firmware = "good"
      /\ UNCHANGED <<recipe, before, cycled>>
  BY DEF ResetStep, Inv, Armed
<1>4. CASE ram' = ram /\ flash' = flash
  BY <1>2, <1>3, <1>4 DEF NothingElse, Recipe
<1>5. CASE ram' = OemTable /\ flash' = Blank
  <2>1. \A f \in Features : ram'[f] = "pass"
    BY <1>5 DEF OemTable
  <2> QED
    BY <1>2, <1>3, <1>5, <2>1, StealthCovers DEF NothingElse
<1> QED
  BY <1>2, <1>4, <1>5

LEMMA NextTouches == Inv /\ NothingElse /\ [Next]_vars => NothingElse'
<1> SUFFICES ASSUME Inv, NothingElse, [Next]_vars PROVE NothingElse'
  OBVIOUS
<1> USE TablesAre DEF FlashTables
<1>1. CASE Set \/ Reset \/ ResetToDefaults \/ ResetToFlash \/ Save
  <2>1. PICK newRam \in Tables, newFlash \in FlashTables : Verb(newRam, newFlash)
    BY <1>1, RawVerb DEF Inv
  <2> QED
    BY <2>1 DEF Verb, NothingElse, Recipe
<1>2. CASE Arm
  BY <1>2 DEF Arm, NothingElse, driveVars
<1>3. CASE Identify
  <2>1. PICK reply \in Replies : Sent(reply, ram, flash)
    BY <1>3 DEF Identify, Pass
  <2>2. /\ ram' = ram /\ flash' = flash /\ firmware' = firmware
        /\ pc = "identify" /\ UNCHANGED <<recipe, before, cycled>>
    BY <1>3, <2>1, SentTypes DEF Identify, Inv, TypeOK
  <2> QED
    BY <2>2 DEF NothingElse, Recipe
<1>4. CASE SetStep
  <2>1. CASE cycled
    BY <1>4, <2>1 DEF SetStep, NothingElse
  <2> QED
    BY <1>4, <2>1, SetTouches
<1>5. CASE ResetStep
  <2>1. CASE cycled
    BY <1>5, <2>1 DEF ResetStep, NothingElse
  <2> QED
    BY <1>5, <2>1, ResetTouches
<1>6. CASE Verify
  <2>1. pc = "verify" /\ UNCHANGED <<firmware, ram, flash, recipe, before, cycled>>
    BY <1>6 DEF Verify, Check, Got, driveVars
  <2> QED
    BY <2>1 DEF NothingElse, Recipe
<1>7. CASE PowerCycle
  BY <1>7 DEF PowerCycle, NothingElse
<1>8. CASE UNCHANGED vars
  BY <1>8 DEF vars, NothingElse, Recipe
<1> QED
  BY <1>1, <1>2, <1>3, <1>4, <1>5, <1>6, <1>7, <1>8 DEF Next

\* A recipe moves no feature but to a state it wants, writes no flash but to
\* blank it when it disarms, and leaves firmware of another grammar alone.
THEOREM RecipesTouchNothingElse == Spec => []NothingElse
<1>1. Init => NothingElse
  BY DEF Init, NothingElse, Recipe
<1> QED
  BY <1>1, NextTouches, InvHolds, PTL DEF Spec
-----------------------------------------------------------------------------
(***************************************************************************)
(* Power cycles.  A boot in the middle of a recipe is not noticed.         *)
(***************************************************************************)

\* The recipes whose Ok spares AacsUnlocker the certificate exchange.
Openers == {"oemUhd", "bypassBd", "bypassUhd"}

Last == Steps[recipe][Len(Steps[recipe])]

\* A feature is as the recipe wants it, as the recipe found it, or as the boot of a
\* power cycle in between made it.
NothingThird ==
  Recipe => \A f \in Features :
    \/ ram[f] \in {before.ram[f], Booted[f]}
    \/ \E i \in DOMAIN Steps[recipe] : Steps[recipe][i] = <<f, ram[f]>>

\* Where a recipe returns Ok, its last step is in force.
OkStep ==
  pc # "idle" /\ pc' = "idle" /\ outcome' = "ok" =>
    /\ firmware' = "good" /\ ram'[Last[1]] = Last[2]
    /\ (recipe \in Openers => ram'["encryption"] = "off")

\* The last step of a recipe that opens the drive turns encryption off.
LEMMA OpenersEnd == recipe \in Openers => Last = EncryptionOff
<1>1. Len(<<HrlSkipped, EncryptionOff>>) = 2
      /\ Len(<<Unrestricted, HrlSkipped, EncryptionOff>>) = 3
  OBVIOUS
<1>2. <<HrlSkipped, EncryptionOff>>[2] = EncryptionOff
      /\ <<Unrestricted, HrlSkipped, EncryptionOff>>[3] = EncryptionOff
  OBVIOUS
<1> QED
  BY <1>1, <1>2, StepsAre DEF Openers, Last

\* Only the GET behind a recipe's last step can return Ok, and it has read what the
\* step wanted.
LEMMA OkSteps == Inv /\ [Next]_vars => [OkStep]_vars
<1> SUFFICES ASSUME Inv, Next, pc # "idle", pc' = "idle", outcome' = "ok"
             PROVE  OkStep
  BY DEF OkStep
<1>1. Verify
  <2>1. \A reply \in Replies : Failed(reply) # "ok"
    BY DEF Failed
  <2>2. ~(Identify \/ SetStep \/ ResetStep)
    BY <2>1 DEF Identify, Pass, SetStep, ResetStep, End, Inv
  <2> QED
    BY <2>2 DEF Next, Set, Reset, ResetToDefaults, ResetToFlash, Save, Verb, Arm, PowerCycle,
       callVars
<1>2. PICK reply \in Replies, state \in States :
        /\ Got(reply, state)
        /\ IF reply # "good" THEN End(Failed(reply)) /\ UNCHANGED at
           ELSE IF state \in {Wanted} THEN Onward(Len(Steps[recipe]))
           ELSE End("verifyFailed") /\ UNCHANGED at
  BY <1>1 DEF Verify, Check
<1>3. pc = "verify" /\ firmware = "good" /\ UNCHANGED <<driveVars, recipe>>
  BY <1>1, <1>2 DEF Verify, Check, Inv, Armed, Got
<1>4. reply = "good" /\ state = Wanted /\ at = Len(Steps[recipe])
  BY <1>2, <1>3 DEF End, Failed, Onward
<1>5. ram[Feature] = Wanted
  BY <1>2, <1>3, <1>4 DEF Got
<1> QED
  BY <1>3, <1>4, <1>5, OpenersEnd DEF OkStep, Last, Feature, Wanted, EncryptionOff, driveVars

LEMMA NextThird == Inv /\ NothingThird /\ [Next]_vars => NothingThird'
<1> SUFFICES ASSUME Inv, NothingThird, [Next]_vars PROVE NothingThird'
  OBVIOUS
<1> USE TablesAre DEF FlashTables
<1>1. CASE Set \/ Reset \/ ResetToDefaults \/ ResetToFlash \/ Save
  <2>1. PICK newRam \in Tables, newFlash \in FlashTables : Verb(newRam, newFlash)
    BY <1>1, RawVerb DEF Inv
  <2> QED
    BY <2>1 DEF Verb, NothingThird, Recipe
<1>2. CASE Arm
  BY <1>2 DEF Arm, NothingThird, driveVars
<1>3. CASE Identify
  <2>1. PICK reply \in Replies : Sent(reply, ram, flash)
    BY <1>3 DEF Identify, Pass
  <2>2. /\ ram' = ram /\ flash' = flash
        /\ pc = "identify" /\ UNCHANGED <<recipe, before>>
    BY <1>3, <2>1, SentTypes DEF Identify, Inv, TypeOK
  <2> QED
    BY <2>2 DEF NothingThird, Recipe, Booted
<1>4. CASE SetStep
  <2>1. PICK reply \in Replies : Sent(reply, [ram EXCEPT ![Feature] = Wanted], flash)
    BY <1>4 DEF SetStep
  <2>2. (ram' = [ram EXCEPT ![Feature] = Wanted] \/ ram' = ram) /\ flash' = flash
    BY <2>1, StepIs, SentTypes DEF Inv, TypeOK
  <2>3. pc = "set" /\ UNCHANGED <<recipe, before>>
    BY <1>4 DEF SetStep
  <2>4. /\ at \in DOMAIN Steps[recipe] /\ Steps[recipe][at] = <<Feature, Wanted>>
        /\ Feature \in Features
    BY StepIs DEF Inv, TypeOK, WellFormed, Feature, Wanted
  <2>5. Booted' = Booted
    BY <2>2 DEF Booted
  <2>6. ASSUME NEW f \in Features
        PROVE  \/ ram'[f] \in {before.ram[f], Booted[f]}
               \/ \E i \in DOMAIN Steps[recipe] : Steps[recipe][i] = <<f, ram'[f]>>
    <3>1. CASE ram'[f] = ram[f]
      BY <2>3, <3>1 DEF NothingThird, Recipe
    <3>2. CASE ram'[f] # ram[f]
      <4>1. f = Feature /\ ram'[f] = Wanted
        BY <2>2, <2>4, <3>2 DEF Inv, TypeOK, Tables
      <4> QED
        BY <2>4, <4>1
    <3> QED
      BY <3>1, <3>2
  <2> QED
    BY <2>3, <2>5, <2>6 DEF NothingThird
<1>5. CASE ResetStep
  <2>1. PICK reply \in Replies : Sent(reply, OemTable, Blank)
    BY <1>5 DEF ResetStep
  <2>2. (ram' = OemTable /\ flash' = Blank) \/ (ram' = ram /\ flash' = flash)
    BY <2>1, SentTypes DEF Inv
  <2>3. pc = "reset" /\ recipe = "stealth" /\ UNCHANGED <<recipe, before>>
    BY <1>5 DEF ResetStep, Inv, Armed
  <2>4. CASE ram' = OemTable
    <3>1. \A f \in Features : ram'[f] = "pass"
      BY <2>4 DEF OemTable
    <3> QED
      BY <2>3, <3>1, StealthCovers DEF NothingThird
  <2>5. CASE ram' = ram /\ flash' = flash
    BY <2>3, <2>5 DEF NothingThird, Recipe, Booted
  <2> QED
    BY <2>2, <2>4, <2>5
<1>6. CASE Verify
  <2>1. pc = "verify" /\ UNCHANGED <<ram, flash, recipe, before>>
    BY <1>6 DEF Verify, Check, Got, driveVars
  <2> QED
    BY <2>1 DEF NothingThird, Recipe, Booted
<1>7. CASE PowerCycle
  BY <1>7 DEF PowerCycle, NothingThird, Booted
<1>8. CASE UNCHANGED vars
  BY <1>8 DEF vars, NothingThird, Recipe, Booted
<1> QED
  BY <1>1, <1>2, <1>3, <1>4, <1>5, <1>6, <1>7, <1>8 DEF Next

\* A power cycle takes back the states set so far, and the recipe behind it goes on
\* to report Ok (set_verify looks at one feature at a time).  What the Ok is still
\* worth: the feature its last step names is as wanted at that moment, which for
\* every recipe that spares AacsUnlocker the certificates means encryption is off;
\* and no other feature is in a state that neither the recipe, nor the boot, nor
\* the tool before them put it in.
THEOREM OkOutlivesPowerCycle == Spec => []NothingThird /\ [][OkStep]_vars
<1>1. Init => NothingThird
  BY DEF Init, NothingThird, Recipe
<1> QED
  BY <1>1, NextThird, OkSteps, InvHolds, PTL DEF Spec
-----------------------------------------------------------------------------
(***************************************************************************)
(* How long a recipe can take.                                             *)
(***************************************************************************)

\* How many commands are left of a recipe, at most: a SET and a GET for each of its
\* steps; the disarming one is a RESET, and a GET for each feature.
Rest == Len(Steps[recipe]) - at

Remaining ==
  CASE pc = "idle"     -> 0
    [] pc = "verify"   -> IF recipe = "stealth" THEN Rest + 1 ELSE 2 * Rest + 1
    [] pc = "set"      -> 2 * Rest + 2
    [] pc = "reset"    -> Rest + 2
    [] pc = "identify" -> 7

\* The lengths of the recipes.
LEMMA Lengths ==
  TypeOK => /\ Rest \in Nat /\ Rest <= 4
            /\ (recipe # "stealth" => Rest <= 2)
<1> SUFFICES ASSUME TypeOK PROVE /\ Rest \in Nat /\ Rest <= 4
                                 /\ (recipe # "stealth" => Rest <= 2)
  OBVIOUS
<1>1. at \in 1..Len(Steps[recipe]) /\ Len(Steps[recipe]) \in Nat
  BY StepIs DEF WellFormed
<1>2. recipe \in Recipes BY DEF TypeOK
<1>3. CASE recipe = "stealth"
  <2>1. DOMAIN AllFeatures = 1..5 BY DEF AllFeatures
  <2>2. Len(Steps[recipe]) = 5
    BY <1>3, <2>1, StepsAre
  <2> QED BY <1>1, <1>3, <2>2 DEF Rest
<1>4. CASE recipe # "stealth"
  <2>1. Len(Steps[recipe]) <= 3
    <3>1. /\ Len(<<HrlSkipped>>) = 1 /\ Len(<<HrlSkipped, EncryptionOff>>) = 2
          /\ Len(<<Unrestricted, HrlSkipped, EncryptionOff>>) = 3
      OBVIOUS
    <3>2. \/ Steps[recipe] = <<HrlSkipped>> \/ Steps[recipe] = <<HrlSkipped, EncryptionOff>>
          \/ Steps[recipe] = <<Unrestricted, HrlSkipped, EncryptionOff>>
      BY <1>2, <1>4, StepsAre
    <3>3. Len(Steps[recipe]) = 1 \/ Len(Steps[recipe]) = 2 \/ Len(Steps[recipe]) = 3
      BY <3>1, <3>2
    <3> DEFINE n == Len(Steps[recipe])
    <3> HIDE DEF n
    <3>4. n = 1 \/ n = 2 \/ n = 3 BY <3>3 DEF n
    <3>5. n <= 3 BY <3>4
    <3> QED BY <3>5 DEF n
  <2> QED BY <1>1, <2>1 DEF Rest
<1> QED BY <1>3, <1>4

\* The disarming recipe sets nothing: it reads back behind its RESET.
Disarming == pc = "set" => recipe # "stealth"

LEMMA NextDisarming == Disarming /\ [Next]_vars => Disarming'
<1> SUFFICES ASSUME Disarming, [Next]_vars PROVE Disarming'
  OBVIOUS
<1>1. CASE Set \/ Reset \/ ResetToDefaults \/ ResetToFlash \/ Save
  BY <1>1 DEF Set, Reset, ResetToDefaults, ResetToFlash, Save, Verb, Disarming
<1>2. CASE Arm \/ PowerCycle \/ UNCHANGED vars
  BY <1>2 DEF Arm, PowerCycle, vars, callVars, Disarming
<1>3. CASE Identify
  BY <1>3 DEF Identify, Pass, End, Disarming
<1>4. CASE SetStep \/ ResetStep
  BY <1>4 DEF SetStep, ResetStep, End, Disarming
<1>5. CASE Verify
  BY <1>5 DEF Verify, Check, Onward, End, Disarming
<1> QED
  BY <1>1, <1>2, <1>3, <1>4, <1>5 DEF Next

\* Whatever the drive answers, every command of a recipe brings it nearer its end,
\* and seven are the most it takes; a power cycle does not lengthen it.
THEOREM RecipesAreBounded ==
  Spec => /\ [](Remaining \in 0..7)
          /\ [][/\ Identify \/ SetStep \/ ResetStep \/ Verify => Remaining' < Remaining
                /\ PowerCycle => Remaining' = Remaining]_vars
<1> DEFINE Step == /\ Identify \/ SetStep \/ ResetStep \/ Verify => Remaining' < Remaining
                   /\ PowerCycle => Remaining' = Remaining
           rest == Rest
<1>1. ASSUME Inv
      PROVE  rest \in Nat /\ rest <= 4 /\ (recipe # "stealth" => rest <= 2)
  BY <1>1, Lengths DEF Inv
<1>2. Inv /\ Disarming => Remaining \in 0..7
  <2> SUFFICES ASSUME Inv, Disarming PROVE Remaining \in 0..7
    OBVIOUS
  <2>1. pc \in {"idle", "identify", "set", "reset", "verify"} BY DEF Inv, TypeOK
  <2>2. \/ Remaining \in {0, 7, rest + 1, rest + 2}
        \/ recipe # "stealth" /\ Remaining \in {2 * rest + 1, 2 * rest + 2}
    BY <2>1 DEF Remaining, Disarming
  <2> HIDE DEF rest
  <2> QED BY <1>1, <2>2
<1>3. Inv /\ Disarming /\ [Next]_vars => [Step]_vars
  <2> SUFFICES ASSUME Inv, Disarming PROVE Step
    OBVIOUS
  <2>1. ASSUME Identify PROVE Remaining' < Remaining
    <3>1. pc = "identify" /\ UNCHANGED <<recipe, at>>
          /\ (pc' = "reset" \/ (pc' = "set" /\ recipe # "stealth") \/ pc' = "idle")
      BY <2>1 DEF Identify, Pass, End
    <3>2. Rest' = rest BY <3>1 DEF Rest
    <3>3. Remaining = 7 BY <3>1 DEF Remaining
    <3>4. \/ Remaining' \in {0, rest + 2}
          \/ recipe # "stealth" /\ Remaining' = 2 * rest + 2
      BY <3>1, <3>2 DEF Remaining
    <3> HIDE DEF rest
    <3> QED BY <1>1, <3>3, <3>4
  <2>2. ASSUME SetStep \/ ResetStep PROVE Remaining' < Remaining
    <3>1. /\ pc = "set" \/ (pc = "reset" /\ recipe = "stealth")
          /\ UNCHANGED <<recipe, at>> /\ pc' \in {"verify", "idle"}
      BY <2>2 DEF SetStep, ResetStep, End, Inv, Armed
    <3>2. Rest' = rest BY <3>1 DEF Rest
    <3>3. \/ Remaining = 2 * rest + 2 /\ Remaining' \in {0, 2 * rest + 1}
          \/ Remaining = rest + 2 /\ Remaining' \in {0, rest + 1}
      BY <3>1, <3>2 DEF Remaining, Disarming
    <3> HIDE DEF rest
    <3> QED BY <1>1, <3>3
  <2>3. ASSUME Verify PROVE Remaining' < Remaining
    <3>1. /\ pc = "verify" /\ recipe' = recipe
          /\ \/ pc' = "idle"
             \/ at' = at + 1 /\ pc' = (IF recipe = "stealth" THEN "verify" ELSE "set")
                /\ at # Len(Steps[recipe])
      BY <2>3 DEF Verify, Check, Onward, End
    <3>2. Remaining = rest + 1 \/ Remaining = 2 * rest + 1
      BY <3>1 DEF Remaining
    <3>3. CASE pc' = "idle"
      <4>1. Remaining' = 0 BY <3>3 DEF Remaining
      <4> HIDE DEF rest
      <4> QED BY <1>1, <3>2, <4>1
    <3>4. CASE at' = at + 1 /\ pc' = (IF recipe = "stealth" THEN "verify" ELSE "set")
      <4>1. at \in 1..Len(Steps[recipe]) /\ Len(Steps[recipe]) \in Nat
        BY StepIs DEF WellFormed, Inv
      <4>2. Rest' = rest - 1
        <5> DEFINE n == Len(Steps[recipe])
        <5>1. Rest' = n - (at + 1) /\ rest = n - at BY <3>1, <3>4 DEF Rest
        <5> HIDE DEF n, rest
        <5> QED BY <4>1, <5>1 DEF n
      <4>3. \/ Remaining = rest + 1 /\ Remaining' = (rest - 1) + 1
            \/ Remaining = 2 * rest + 1 /\ Remaining' = 2 * (rest - 1) + 2
        BY <3>1, <3>4, <4>2 DEF Remaining
      <4> HIDE DEF rest
      <4> QED BY <1>1, <4>3
    <3> QED BY <3>1, <3>3, <3>4
  <2>4. PowerCycle => Remaining' = Remaining
    BY DEF PowerCycle, callVars, Remaining, Rest
  <2> QED BY <2>1, <2>2, <2>3, <2>4
<1>4. Init => Disarming
  BY DEF Init, Disarming
<1> QED
  BY InvHolds, NextDisarming, <1>2, <1>3, <1>4, PTL DEF Spec
=============================================================================
