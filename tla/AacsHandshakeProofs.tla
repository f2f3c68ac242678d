-------------------------- MODULE AacsHandshakeProofs --------------------------
(***************************************************************************)
(* What holds of an AacsUnlocker call for every number of grants, host     *)
(* certificates and misbehaving commands.                                  *)
(***************************************************************************)
EXTENDS AacsHandshake, FiniteSetTheorems, TLAPS

\* Where an exchange is under way, and where it may still be.
Exchanging == Guarded \cup {"sweep", "allocate"}
Attempting == Exchanging \cup {"pause"}

\* The parts of TypeOK.
DriveTypeOK == kind \in Kinds /\ hrl \in BOOLEAN /\ held \subseteq Agids /\ mine \subseteq held

CallTypeOK ==
  /\ pc \in Steps
  /\ swept \subseteq Agids /\ agid \in Agids \cup {None}
  /\ (agid # None <=> pc \in Guarded)
  /\ after \in {"none", "two", "next"} \cup Ends
  /\ (after # "none" <=> pc = "release")
  /\ verdict \in {"none", "running"} \cup Ends
  /\ (pc = "idle" <=> verdict # "running")

PathOK ==
  /\ cert \in Certs /\ path \in {"one", "two", "bare"}
  /\ (path = "one" /\ pc \in Attempting => cert.v1 # "dead")
  /\ (path = "two" /\ pc \in Attempting => cert.v2 # "dead")
  /\ (pc \in Attempting => path # "bare")
  /\ (pc = "bareVid" => path = "bare")
  /\ (after = "two" => path = "one" /\ cert.v2 # "dead")

FlagsOK ==
  /\ v1Dead \in BOOLEAN /\ key \in BOOLEAN /\ cancelled \in BOOLEAN
  /\ excused \in BOOLEAN /\ clean \in BOOLEAN
  /\ genuine \in BOOLEAN /\ worked \in BOOLEAN /\ lost \in BOOLEAN

WithinBounds ==
  /\ looked \in 0..MaxCerts /\ tried \in 0..MaxAttempts /\ usable \in 0..looked
  /\ faults \in 0..MaxFaults /\ tried <= usable

\* How many exchanges the drive has had since the last pause.
Paced ==
  /\ burst \in 0..2
  /\ (tried = 0 => burst = 0)
  /\ (pc \in Attempting => tried # 0)
  /\ (pc \in {"sweep", "allocate"} =>
       burst <= (IF path = "two" /\ cert.v1 # "dead" THEN 1 ELSE 0))
  /\ WedgeGuard

TypeInv == DriveTypeOK /\ CallTypeOK /\ PathOK /\ FlagsOK /\ WithinBounds

\* Whose grant the drive may still hold for this call.
Ours ==
  /\ AgidReleased

\* Where a dead bus may have been the last answer.
Hearing ==
  lost => \/ pc \in {"sweep", "allocate"}
          \/ pc = "release" /\ after = "transport"
          \/ pc = "idle" /\ verdict = "transport"

\* What the answers have vouched for at each step.
Vouching ==
  /\ (pc \in Guarded \ {"release"} => genuine)
  /\ (pc \in {"readKey", "sendKey", "readVid", "readDataKeys"} => DriveCertVerifies)
  /\ (pc = "readDataKeys" => MacVerifies)
  /\ (after = "unlocked" => genuine /\ DriveCertVerifies /\ MacVerifies)
  /\ VidIsVouched

\* The certificate under way would be taken, by the exchange under way or, failing
\* that, by the P-256 exchange after it.
TwoAble == Passes(cert.v2) /\ kind.two = "verifies"
Able    == IF path = "one" THEN Works(cert) ELSE TwoAble

\* What an undisturbed call finds at each step: the sweep has freed what it
\* swept, the drive knows the grant, and a certificate it would take is still
\* on its way to it.
Wanted ==
  clean =>
    /\ ~cancelled
    /\ (v1Dead => kind.one # "verifies")
    /\ (pc = "pause" => swept = {})
    /\ (pc = "sweep" => held \cap swept = {})
    /\ (pc = "allocate" => held = {})
    /\ (pc \in Guarded \ {"release"} => agid \in held)
    /\ (pc \in Guarded \ {"release", "sendCert"} /\ path = "one" => Passes(cert.v1))
    /\ (pc \in Attempting \ {"release"} /\ worked => Able)
    /\ (after = "two" /\ worked => TwoAble)
    /\ (after \in {"next", "declined"} => ~worked)
    /\ (pc \in {"arm", "bareVid", "next"} => ~worked)
    /\ (verdict \in {"none", "declined"} => ~worked)

IInv == TypeInv /\ Paced /\ Ours /\ Hearing /\ Vouching /\ Wanted

-----------------------------------------------------------------------------
(***************************************************************************)
(* Commands.                                                               *)
(***************************************************************************)

\* What any command, misbehaving or not, can do to the grants.
LEMMA SentDrive ==
  ASSUME NEW reply \in Replies, NEW accepted, NEW grants, NEW blocked,
         Sent(reply, accepted, grants, blocked)
  PROVE  /\ held' = held \/ held' = grants \/ held' = {}
         /\ mine' = (mine \cup (held' \ held)) \cap held'
         /\ UNCHANGED <<kind, hrl, cancelled>>
  BY DEF Sent, Drive, Misbehaves, Replies

\* ... to the counters,
LEMMA SentCount ==
  ASSUME NEW reply \in Replies, NEW accepted, NEW grants, NEW blocked,
         Sent(reply, accepted, grants, blocked), faults \in 0..MaxFaults
  PROVE  faults' \in 0..MaxFaults
<1>1. faults' = faults \/ (faults < MaxFaults /\ faults' = faults + 1)
  BY Zenon DEF Sent, Misbehaves
<1> QED
  BY <1>1, BoundsAssumption, SMT

\* ... and to the history.
LEMMA SentFlag ==
  ASSUME NEW reply \in Replies, NEW accepted, NEW grants, NEW blocked,
         Sent(reply, accepted, grants, blocked), clean \in BOOLEAN
  PROVE  clean' \in BOOLEAN
  BY DEF Sent, Misbehaves

\* A command that misbehaves is counted: any other is executed, unless the drive
\* refuses it or a Stop blocks it.
LEMMA SentExcused ==
  ASSUME NEW reply \in Replies, NEW accepted, NEW grants, NEW blocked,
         Sent(reply, accepted, grants, blocked), faults \in 0..MaxFaults,
         faults' = faults
  PROVE  /\ reply \in {"good", "refused", "dead"}
         /\ ~blocked /\ accepted => reply = "good"
         /\ reply = "good" => held' = grants
         /\ reply # "good" => held' = held
<1>1. faults' # faults + 1
  BY BoundsAssumption, SMT
<1> QED
  BY <1>1, Zenon DEF Sent, Drive, Misbehaves

-----------------------------------------------------------------------------
(***************************************************************************)
(* Ranges.                                                                 *)
(***************************************************************************)

\* The drive and the grants stay in their ranges.
LEMMA DriveStep == TypeInv /\ Next => DriveTypeOK'
<1> SUFFICES ASSUME TypeInv, Next PROVE DriveTypeOK'
  OBVIOUS
<1> USE DEF TypeInv, DriveTypeOK
<1>1. ASSUME NEW reply \in Replies, NEW accepted, NEW grants \in SUBSET Agids, NEW blocked,
             Sent(reply, accepted, grants, blocked)
      PROVE  DriveTypeOK'
  BY <1>1, SentDrive
<1>2. CASE Begin \/ ListEnds \/ NextCert \/ Pause \/ Stop
  BY <1>2 DEF Begin, ListEnds, NextCert, Pause, Stop, driveVars, history
<1>3. CASE Arm
  BY <1>3 DEF Arm
<1>4. CASE BareVid \/ SendCert \/ SendKey \/ ReadDataKeys
  BY <1>4, <1>1 DEF BareVid, SendCert, SendKey, ReadDataKeys, Asks
<1>5. CASE ReadCert \/ ReadKey \/ ReadVid
  BY <1>5, <1>1 DEF ReadCert, ReadKey, ReadVid, Reads, Asks
<1>6. CASE Sweep
  BY <1>6, <1>1 DEF Sweep
<1>7. CASE Allocate
  BY <1>7, <1>1 DEF Allocate
<1>8. CASE DropGuard
  BY <1>8, <1>1 DEF DropGuard
<1> QED
  BY <1>2, <1>3, <1>4, <1>5, <1>6, <1>7, <1>8 DEF Next, Host

\* Where a failed exchange leads.
LEMMA Rejects ==
  ASSUME NEW reply \in Replies
  PROVE  /\ Reject(reply) \in {"transport", "two", "next"}
         /\ Reject(reply) = "transport" <=> reply = "dead"
         /\ Reject(reply) = "two" => path = "one" /\ cert.v2 # "dead"
  BY DEF Reject

\* Where the release of a grant leads.
LEMMA Leaves ==
  ASSUME NEW to \in {"two", "next"} \cup Ends, Leave(to), swept \subseteq Agids,
         cert \in Certs, path \in {"one", "two", "bare"}
  PROVE  /\ pc' \in {"sweep", "next", "idle"}
         /\ pc' = "sweep" <=> to = "two"
         /\ pc' = "next" <=> to = "next"
         /\ to \in Ends => verdict' = to /\ UNCHANGED <<cert, path, swept>>
         /\ to = "two" => path' = "two" /\ UNCHANGED <<cert, verdict>>
         /\ to = "next" => path' = "one" /\ UNCHANGED verdict
         /\ swept' \subseteq Agids /\ cert' \in Certs /\ path' \in {"one", "two", "bare"}
<1>1. NoCert \in Certs
  BY DEF NoCert, Certs
<1>2. CASE to = "two"
  BY <1>2 DEF Leave, Goto, Ends
<1>3. CASE to = "next"
  BY <1>1, <1>3 DEF Leave, Goto, Ends
<1>4. CASE to \in Ends
  BY <1>4 DEF Leave, End, Ends
<1> QED
  BY <1>2, <1>3, <1>4

\* The call stays in its ranges, and the guard lives where it should.
LEMMA CallStep == TypeInv /\ Next => CallTypeOK'
<1> SUFFICES ASSUME TypeInv, Next PROVE CallTypeOK'
  OBVIOUS
<1> USE AgidsAssumption DEF TypeInv, CallTypeOK, Steps, Guarded, Ends, Goto, End
<1>1. CASE Begin \/ ListEnds
  BY <1>1 DEF Begin, ListEnds
<1>2. CASE Arm
  BY <1>2 DEF Arm
<1>3. CASE BareVid
  BY <1>3 DEF BareVid
<1>4. CASE NextCert
  BY <1>4 DEF NextCert, Attempt
<1>5. CASE Pause
  BY <1>5 DEF Pause
<1>6. CASE Sweep
  BY <1>6 DEF Sweep
<1>7. CASE Allocate
  <2>1. PICK a \in Agids, reply \in Replies :
          \/ /\ reply \in {"good", "garbled"}
             /\ Goto("sendCert")
             /\ agid' \in IF reply = "good" THEN {a} ELSE Agids
             /\ UNCHANGED <<cert, path, swept>>
          \/ /\ reply # "good"
             /\ Leave(Reject(reply))
             /\ UNCHANGED agid
    BY <1>7 DEF Allocate
  <2>2. CASE Goto("sendCert") /\ agid' \in Agids /\ UNCHANGED swept
    BY <1>7, <2>2 DEF Allocate
  <2>3. CASE Leave(Reject(reply)) /\ UNCHANGED agid
    BY <1>7, <2>3, Rejects, Leaves DEF Allocate, PathOK
  <2> QED
    BY <2>1, <2>2, <2>3
<1>8. CASE SendCert \/ SendKey
  BY <1>8, Rejects DEF SendCert, SendKey, GoOn, Release
<1>9. CASE ReadCert \/ ReadKey
  BY <1>9, Rejects DEF ReadCert, ReadKey, GoOn, Release
<1>10. CASE ReadVid
  BY <1>10 DEF ReadVid, GoOn, Release, Replies
<1>11. CASE ReadDataKeys
  BY <1>11 DEF ReadDataKeys, Release
<1>12. CASE DropGuard
  BY <1>12, Leaves DEF DropGuard, PathOK
<1>13. CASE Stop
  BY <1>13 DEF Stop, callVars
<1> QED
  BY <1>1, <1>2, <1>3, <1>4, <1>5, <1>6, <1>7, <1>8, <1>9, <1>10, <1>11, <1>12, <1>13
  DEF Next, Host

\* The exchange of a certificate is one it may still pass.
LEMMA PathStep == TypeInv /\ Next => PathOK'
<1> SUFFICES ASSUME TypeInv, Next PROVE PathOK'
  OBVIOUS
<1> USE DEF TypeInv, PathOK, Attempting, Exchanging, Guarded, Goto, End
<1>1. CASE Begin \/ ListEnds
  BY <1>1 DEF Begin, ListEnds
<1>2. CASE Arm
  BY <1>2 DEF Arm, CallTypeOK
<1>3. CASE BareVid
  BY <1>3 DEF BareVid
<1>4. CASE NextCert
  BY <1>4 DEF NextCert, Attempt, Skipped, CallTypeOK
<1>5. CASE Pause
  BY <1>5 DEF Pause
<1>6. CASE Sweep
  BY <1>6 DEF Sweep
<1>7. CASE Allocate
  <2>1. PICK a \in Agids, reply \in Replies :
          \/ /\ reply \in {"good", "garbled"}
             /\ Goto("sendCert")
             /\ agid' \in IF reply = "good" THEN {a} ELSE Agids
             /\ UNCHANGED <<cert, path, swept>>
          \/ /\ reply # "good"
             /\ Leave(Reject(reply))
             /\ UNCHANGED agid
    BY <1>7 DEF Allocate
  <2>2. after' = after /\ after = "none"
    BY <1>7 DEF Allocate, CallTypeOK
  <2>3. CASE Goto("sendCert") /\ UNCHANGED <<cert, path>>
    BY <1>7, <2>2, <2>3 DEF Allocate
  <2>4. CASE Leave(Reject(reply))
    BY <1>7, <2>2, <2>4, Rejects, Leaves DEF Allocate, CallTypeOK, Ends
  <2> QED
    BY <2>1, <2>3, <2>4
<1>8. CASE SendCert \/ SendKey
  BY <1>8, Rejects DEF SendCert, SendKey, GoOn, Release, CallTypeOK
<1>9. CASE ReadCert \/ ReadKey
  BY <1>9, Rejects DEF ReadCert, ReadKey, GoOn, Release, CallTypeOK
<1>10. CASE ReadVid
  BY <1>10 DEF ReadVid, GoOn, Release, Replies, MacVerifies, CallTypeOK
<1>11. CASE ReadDataKeys
  BY <1>11 DEF ReadDataKeys, Release
<1>12. CASE DropGuard
  BY <1>12, Leaves DEF DropGuard, CallTypeOK
<1>13. CASE Stop
  BY <1>13 DEF Stop, callVars
<1> QED
  BY <1>1, <1>2, <1>3, <1>4, <1>5, <1>6, <1>7, <1>8, <1>9, <1>10, <1>11, <1>12, <1>13
  DEF Next, Host

\* The flags stay Boolean.
LEMMA FlagsStep == TypeInv /\ Next => FlagsOK'
<1> SUFFICES ASSUME TypeInv, Next PROVE FlagsOK'
  OBVIOUS
<1> USE DEF TypeInv, FlagsOK
<1>1. ASSUME NEW reply \in Replies, NEW accepted, NEW grants, NEW blocked,
             Sent(reply, accepted, grants, blocked)
      PROVE  cancelled' \in BOOLEAN /\ clean' \in BOOLEAN
  BY <1>1, SentDrive, SentFlag
<1>2. CASE Begin \/ ListEnds \/ Pause
  BY <1>2 DEF Begin, ListEnds, Pause, history, loopVars
<1>3. CASE Arm
  BY <1>3 DEF Arm, loopVars
<1>4. CASE NextCert
  BY <1>4 DEF NextCert, Works, Passes, DriveTypeOK, history
<1>5. CASE BareVid \/ SendCert \/ SendKey
  BY <1>5, <1>1 DEF BareVid, SendCert, SendKey, Asks, Heard, loopVars
<1>6. CASE ReadKey \/ ReadVid
  BY <1>6, <1>1 DEF ReadKey, ReadVid, Reads, Asks, Heard, loopVars
<1>7. CASE ReadCert
  BY <1>7, <1>1 DEF ReadCert, Reads, Asks, Heard, loopVars
<1>8. CASE ReadDataKeys
  BY <1>8, <1>1 DEF ReadDataKeys, Asks, Heard, loopVars
<1>9. CASE Sweep
  BY <1>9, <1>1 DEF Sweep, Heard, loopVars
<1>10. CASE Allocate
  BY <1>10, <1>1 DEF Allocate, Heard, loopVars
<1>11. CASE DropGuard
  BY <1>11, <1>1 DEF DropGuard, loopVars
<1>12. CASE Stop
  BY <1>12 DEF Stop, callVars, loopVars
<1> QED
  BY <1>2, <1>3, <1>4, <1>5, <1>6, <1>7, <1>8, <1>9, <1>10, <1>11, <1>12 DEF Next, Host

\* The counters stay within their bounds, and no attempt is spent on a
\* certificate that is not usable.
LEMMA BoundsStep == TypeInv /\ Next => WithinBounds'
<1> SUFFICES ASSUME TypeInv, Next PROVE WithinBounds'
  OBVIOUS
<1> USE BoundsAssumption DEF TypeInv, WithinBounds, loopVars
<1>1. ASSUME NEW reply \in Replies, NEW accepted, NEW grants, NEW blocked,
             Sent(reply, accepted, grants, blocked)
      PROVE  faults' \in 0..MaxFaults
  BY <1>1, SentCount
<1>2. CASE Begin \/ ListEnds \/ Pause
  BY <1>2 DEF Begin, ListEnds, Pause
<1>3. CASE Arm
  <2>1. faults' = faults \/ (faults < MaxFaults /\ faults' = faults + 1)
    BY <1>3 DEF Arm
  <2> QED
    BY <2>1, <1>3 DEF Arm
<1>4. CASE NextCert
  <2>1. PICK c \in Certs :
          /\ usable' = usable + (IF c = NoCert THEN 0 ELSE 1)
          /\ IF Skipped(c)
             THEN Goto("next") /\ UNCHANGED <<tried, cert, path, swept>>
             ELSE Attempt(c)
    BY <1>4 DEF NextCert
  <2>2. looked' = looked + 1 /\ looked < MaxCerts /\ tried < MaxAttempts /\ faults' = faults
    BY <1>4 DEF NextCert
  <2>3. CASE Skipped(c)
    BY <2>1, <2>2, <2>3 DEF MaxAttempts
  <2>4. CASE ~Skipped(c)
    <3>1. c # NoCert
      BY <2>4 DEF Skipped, NoCert
    <3>2. tried' = tried + 1 /\ usable' = usable + 1
      BY <2>1, <2>4, <3>1 DEF Attempt
    <3> QED
      BY <2>2, <3>2 DEF MaxAttempts
  <2> QED
    BY <2>3, <2>4
<1>5. CASE BareVid \/ SendCert \/ SendKey \/ ReadDataKeys
  BY <1>5, <1>1 DEF BareVid, SendCert, SendKey, ReadDataKeys, Asks
<1>6. CASE ReadCert \/ ReadKey \/ ReadVid
  BY <1>6, <1>1 DEF ReadCert, ReadKey, ReadVid, Reads, Asks
<1>7. CASE Sweep
  BY <1>7, <1>1 DEF Sweep
<1>8. CASE Allocate
  BY <1>8, <1>1 DEF Allocate
<1>9. CASE DropGuard
  BY <1>9, <1>1 DEF DropGuard
<1>10. CASE Stop
  BY <1>10 DEF Stop, callVars
<1> QED
  BY <1>2, <1>3, <1>4, <1>5, <1>6, <1>7, <1>8, <1>9, <1>10 DEF Next, Host

-----------------------------------------------------------------------------
(***************************************************************************)
(* The pace.                                                               *)
(***************************************************************************)

\* Every exchange is counted, and a pause starts the count again.
LEMMA PacedStep == TypeInv /\ Paced /\ Next => Paced'
<1> SUFFICES ASSUME TypeInv, Paced, Next PROVE Paced'
  OBVIOUS
<1> USE DEF Paced, WedgeGuard, Attempting, Exchanging, loopVars
<1>1. CASE Begin \/ ListEnds
  BY <1>1 DEF Begin, ListEnds, history, Guarded, End
<1>2. CASE Arm \/ BareVid
  BY <1>2 DEF Arm, BareVid, Guarded, Goto, End
<1>3. CASE NextCert
  <2>1. burst' = burst /\ tried \in Nat
    BY <1>3 DEF NextCert, history, TypeInv, WithinBounds, MaxAttempts
  <2>2. CASE pc' = "next" /\ tried' = tried
    BY <2>1, <2>2 DEF Guarded
  <2>3. CASE pc' = "pause" /\ tried' = tried + 1
    BY <2>1, <2>3 DEF Guarded
  <2>4. CASE pc' = "sweep" /\ tried = 0 /\ tried' = tried + 1
    BY <2>1, <2>4 DEF Guarded
  <2>5. \/ pc' = "next" /\ tried' = tried
        \/ pc' = "pause" /\ tried' = tried + 1
        \/ pc' = "sweep" /\ tried = 0 /\ tried' = tried + 1
    <3>1. PICK c \in Certs :
            IF Skipped(c)
            THEN Goto("next") /\ UNCHANGED <<tried, cert, path, swept>>
            ELSE Attempt(c)
      BY <1>3 DEF NextCert
    <3> QED
      BY <2>1, <3>1 DEF Attempt, Goto
  <2> QED
    BY <2>2, <2>3, <2>4, <2>5
<1>4. CASE Pause
  BY <1>4 DEF Pause, Guarded, Goto, End
<1>5. CASE Sweep
  BY <1>5 DEF Sweep, Guarded, Goto
<1>6. CASE Allocate
  <2>1. /\ burst' = burst + 1 /\ tried' = tried /\ tried # 0
        /\ burst <= (IF path = "two" /\ cert.v1 # "dead" THEN 1 ELSE 0)
    BY <1>6 DEF Allocate, MaxBurst
  <2>2. PICK a \in Agids, reply \in Replies :
          \/ /\ reply \in {"good", "garbled"}
             /\ Goto("sendCert")
             /\ agid' \in IF reply = "good" THEN {a} ELSE Agids
             /\ UNCHANGED <<cert, path, swept>>
          \/ /\ reply # "good"
             /\ Leave(Reject(reply))
             /\ UNCHANGED agid
    BY <1>6 DEF Allocate
  <2>3. CASE Goto("sendCert") /\ UNCHANGED <<cert, path>>
    BY <2>1, <2>3 DEF Goto
  <2>4. CASE Leave(Reject(reply))
    <3>1. CASE Reject(reply) = "two"
      <4>1. path = "one" /\ cert.v1 # "dead"
        BY <1>6, <3>1, Rejects DEF Allocate, TypeInv, PathOK
      <4>2. pc' = "sweep" /\ path' = "two" /\ cert' = cert
        BY <2>4, <3>1 DEF Leave, Goto
      <4> QED
        BY <2>1, <4>1, <4>2 DEF Guarded
    <3>2. CASE Reject(reply) \in {"next", "transport"}
      <4>1. pc' \in {"next", "idle"}
        BY <2>4, <3>2 DEF Leave, Goto, End
      <4> QED
        BY <2>1, <4>1 DEF Guarded
    <3> QED
      BY <3>1, <3>2, Rejects
  <2> QED
    BY <2>2, <2>3, <2>4
<1>7. CASE SendCert \/ SendKey \/ ReadDataKeys
  BY <1>7 DEF SendCert, SendKey, ReadDataKeys, GoOn, Release, Guarded, Goto
<1>8. CASE ReadCert \/ ReadKey \/ ReadVid
  BY <1>8 DEF ReadCert, ReadKey, ReadVid, GoOn, Release, Replies, Guarded, Goto
<1>9. CASE DropGuard
  <2>1. Leave(after) /\ burst' = burst /\ tried' = tried /\ tried # 0
    BY <1>9 DEF DropGuard, Guarded
  <2>2. CASE after = "two"
    <3>1. path = "one" /\ burst <= 1 /\ cert.v1 # "dead"
      BY <1>9, <2>2 DEF DropGuard, TypeInv, PathOK, Guarded
    <3>2. pc' = "sweep" /\ path' = "two" /\ cert' = cert
      BY <2>1, <2>2 DEF Leave, Goto
    <3> QED
      BY <2>1, <3>1, <3>2 DEF Guarded
  <2>3. CASE after # "two"
    <3>1. pc' \in {"next", "idle"}
      BY <2>1, <2>3 DEF Leave, Goto, End
    <3> QED
      BY <2>1, <3>1 DEF Guarded
  <2> QED
    BY <2>2, <2>3
<1>10. CASE Stop
  BY <1>10 DEF Stop, callVars, history
<1> QED
  BY <1>1, <1>2, <1>3, <1>4, <1>5, <1>6, <1>7, <1>8, <1>9, <1>10 DEF Next, Host

-----------------------------------------------------------------------------
(***************************************************************************)
(* Grants.                                                                 *)
(***************************************************************************)

\* Every step accounts for the grant of the call.
LEMMA OursStep == TypeInv /\ Ours /\ Next => Ours'
<1> SUFFICES ASSUME TypeInv, Ours, Next PROVE Ours'
  OBVIOUS
<1> USE DEF Ours
<1>1. ASSUME mine' \subseteq mine, agid' = agid, excused => excused'
      PROVE  Ours'
  BY <1>1 DEF AgidReleased
<1>2. ASSUME NEW reply \in Replies, NEW accepted, NEW grants \in SUBSET held, NEW blocked,
             Sent(reply, accepted, grants, blocked)
      PROVE  mine' \subseteq mine
  BY <1>2, SentDrive
<1>10. ASSUME NEW reply \in Replies, NEW accepted, Asks(reply, accepted)
      PROVE  mine' \subseteq mine
  BY <1>10, <1>2 DEF Asks
<1>3. CASE Begin \/ ListEnds \/ NextCert \/ Pause \/ Stop
  BY <1>3, <1>1 DEF Begin, ListEnds, NextCert, Pause, Stop, history, callVars
<1>4. CASE Arm
  BY <1>4, <1>1 DEF Arm
<1>5. CASE BareVid \/ SendCert \/ SendKey \/ ReadDataKeys
  <2>1. mine' \subseteq mine
    BY <1>5, <1>10, Zenon DEF BareVid, SendCert, SendKey, ReadDataKeys
  <2>2. agid' = agid /\ excused' = excused
    BY <1>5 DEF BareVid, SendCert, SendKey, ReadDataKeys
  <2> QED
    BY <2>1, <2>2, <1>1
<1>6. CASE ReadCert \/ ReadKey \/ ReadVid
  <2>1. \E reply \in Replies : Asks(reply, agid \in held)
    BY <1>6 DEF ReadCert, ReadKey, ReadVid, Reads
  <2>2. agid' = agid /\ excused' = excused
    BY <1>6 DEF ReadCert, ReadKey, ReadVid
  <2> QED
    BY <2>1, <2>2, <1>1, <1>10
<1>7. CASE Sweep
  BY <1>7, <1>1, <1>2 DEF Sweep
<1>8. CASE Allocate
  <2>1. PICK a \in Agids, reply \in Replies :
          /\ Sent(reply, a \notin held, held \cup {a}, cancelled)
          /\ \/ /\ reply \in {"good", "garbled"}
                /\ agid' \in IF reply = "good" THEN {a} ELSE Agids
             \/ reply # "good" /\ UNCHANGED agid
          /\ excused' = (excused \/ faults' # faults)
    BY <1>8 DEF Allocate
  <2>2. agid = None
    BY <1>8 DEF Allocate, TypeInv, CallTypeOK, Guarded
  <2>3. CASE excused \/ faults' # faults
    <3>1. excused'
      BY <2>1, <2>3
    <3> QED
      BY <3>1 DEF AgidReleased
  <2>4. CASE ~excused /\ faults' = faults
    <3>1. mine = {}
      BY <2>2, <2>4 DEF AgidReleased
    <3>2. CASE reply = "good"
      <4>1. agid' = a /\ mine' \subseteq {a}
        BY <2>1, <3>1, <3>2, SentDrive
      <4> QED
        BY <4>1, AgidsAssumption DEF AgidReleased
    <3>3. CASE reply # "good"
      <4>1. held' = held /\ reply \in {"refused", "dead"}
        BY <2>1, <2>4, <3>3, SentExcused DEF TypeInv, WithinBounds
      <4>2. mine' = {}
        BY <2>1, <3>1, <4>1, SentDrive
      <4> QED
        BY <4>2 DEF AgidReleased
    <3> QED
      BY <3>2, <3>3
  <2> QED
    BY <2>3, <2>4 DEF TypeInv, FlagsOK
<1>9. CASE DropGuard
  <2>1. PICK reply \in Replies :
          /\ Sent(reply, TRUE, held \ {agid}, FALSE)
          /\ excused' = (excused \/ faults' # faults)
    BY <1>9 DEF DropGuard, Cleanup
  <2>2. CASE excused \/ faults' # faults
    <3>1. excused'
      BY <2>1, <2>2
    <3> QED
      BY <3>1 DEF AgidReleased
  <2>3. CASE ~excused /\ faults' = faults
    <3>1. mine \subseteq {agid}
      BY <2>3 DEF AgidReleased
    <3>2. held' = held \ {agid}
      BY <2>1, <2>3, SentExcused DEF TypeInv, WithinBounds
    <3>3. mine' = {}
      BY <2>1, <3>1, <3>2, SentDrive
    <3> QED
      BY <3>3 DEF AgidReleased
  <2> QED
    BY <2>2, <2>3 DEF TypeInv, FlagsOK
<1> QED
  BY <1>3, <1>4, <1>5, <1>6, <1>7, <1>8, <1>9 DEF Next, Host

-----------------------------------------------------------------------------
(***************************************************************************)
(* Dead buses, and what a Volume ID is vouched for by.                     *)
(***************************************************************************)

\* A dead bus leads to "transport" wherever the call waits for the answer.
LEMMA HearingStep == TypeInv /\ Hearing /\ Next => Hearing'
<1> SUFFICES ASSUME TypeInv, Hearing, Next PROVE Hearing'
  OBVIOUS
<1> USE DEF Hearing, Goto, End
<1>1. CASE Begin \/ ListEnds \/ NextCert \/ Pause
  BY <1>1 DEF Begin, ListEnds, NextCert, Attempt, Pause, history
<1>2. CASE Arm
  BY <1>2 DEF Arm
<1>3. CASE BareVid
  BY <1>3 DEF BareVid, Asks, Heard
<1>4. CASE Sweep
  BY <1>4 DEF Sweep
<1>5. CASE Allocate
  <2>1. PICK reply \in Replies :
          /\ Heard(reply)
          /\ (reply \in {"good", "garbled"} /\ pc' = "sendCert") \/ Leave(Reject(reply))
    BY <1>5 DEF Allocate
  <2>2. CASE reply = "dead"
    <3>1. pc' = "idle" /\ verdict' = "transport"
      BY <2>1, <2>2, Rejects DEF Leave
    <3> QED
      BY <3>1
  <2>3. CASE reply # "dead"
    BY <2>1, <2>3 DEF Heard
  <2> QED
    BY <2>2, <2>3
<1>6. CASE SendCert \/ SendKey
  BY <1>6 DEF SendCert, SendKey, Asks, Heard, GoOn, Release, Reject
<1>7. CASE ReadCert \/ ReadKey
  BY <1>7 DEF ReadCert, ReadKey, Reads, Asks, Heard, GoOn, Release, Reject
<1>8. CASE ReadVid
  BY <1>8 DEF ReadVid, Reads, Asks, Heard, Release
<1>9. CASE ReadDataKeys
  BY <1>9 DEF ReadDataKeys, Asks, Heard, Release
<1>10. CASE DropGuard
  BY <1>10 DEF DropGuard, Leave
<1>11. CASE Stop
  BY <1>11 DEF Stop, callVars
<1> QED
  BY <1>1, <1>2, <1>3, <1>4, <1>5, <1>6, <1>7, <1>8, <1>9, <1>10, <1>11 DEF Next, Host

\* Every step on the way to a Volume ID is vouched for.
LEMMA VouchingStep == TypeInv /\ Vouching /\ Next => Vouching'
<1> SUFFICES ASSUME TypeInv, Vouching, Next PROVE Vouching'
  OBVIOUS
<1> USE DEF Vouching, VidIsVouched, DriveCertVerifies, MacVerifies, Guarded, Goto, End
<1>1. CASE Begin \/ ListEnds
  BY <1>1 DEF Begin, ListEnds, history, driveVars
<1>2. CASE Arm
  BY <1>2 DEF Arm, TypeInv, CallTypeOK
<1>3. CASE BareVid
  BY <1>3 DEF BareVid, TypeInv, CallTypeOK, PathOK
<1>4. CASE NextCert \/ Pause
  BY <1>4 DEF NextCert, Attempt, Pause, history, driveVars, TypeInv, CallTypeOK
<1>5. CASE Sweep
  BY <1>5 DEF Sweep, TypeInv, CallTypeOK
<1>6. CASE Allocate
  <2>1. /\ genuine' = TRUE /\ after' = "none"
        /\ pc' = "sendCert" \/ \E reply \in Replies : Leave(Reject(reply))
    BY <1>6 DEF Allocate, TypeInv, CallTypeOK
  <2>2. verdict' # "unlocked" /\ pc' \in {"sendCert", "sweep", "next", "idle"}
    BY <1>6, <2>1, Rejects DEF Allocate, Leave, TypeInv, CallTypeOK
  <2> QED
    BY <2>1, <2>2
<1>7. CASE SendCert
  BY <1>7, Rejects DEF SendCert, Asks, GoOn, Release, TypeInv, CallTypeOK
<1>8. CASE SendKey
  <2>1. UNCHANGED <<kind, path, genuine, verdict>>
    BY <1>8, SentDrive DEF SendKey, Asks, GoOn, Release
  <2>2. (pc' = "readVid" /\ after' = after) \/ (pc' = "release" /\ after' # "unlocked")
    <3>1. PICK reply \in Replies :
            IF reply \in {"good", "garbled"} THEN GoOn("readVid") ELSE Release(Reject(reply))
      BY <1>8 DEF SendKey
    <3> QED
      BY <3>1, Rejects DEF GoOn, Release
  <2> QED
    BY <1>8, <2>1, <2>2 DEF SendKey, TypeInv, CallTypeOK
<1>9. CASE ReadCert
  <2>1. PICK reply \in Replies :
          /\ Reads(reply, agid \in held)
          /\ IF reply = "good" /\ DriveCertVerifies
             THEN GoOn("readKey") ELSE Release(Reject(reply))
    BY <1>9 DEF ReadCert
  <2>2. UNCHANGED <<kind, path, verdict>> /\ genuine' = (genuine /\ reply # "garbled")
    BY <1>9, <2>1, SentDrive DEF ReadCert, Reads, Asks, GoOn, Release
  <2> QED
    BY <1>9, <2>1, <2>2, Rejects DEF ReadCert, GoOn, Release, TypeInv, CallTypeOK
<1>10. CASE ReadKey
  <2>1. PICK reply \in Replies :
          /\ Reads(reply, agid \in held)
          /\ IF reply = "good" /\ ~(path = "two" /\ cert.v2 = "mispaired")
             THEN GoOn("sendKey") ELSE Release(Reject(reply))
    BY <1>10 DEF ReadKey
  <2>2. UNCHANGED <<kind, path, verdict>> /\ genuine' = (genuine /\ reply # "garbled")
    BY <1>10, <2>1, SentDrive DEF ReadKey, Reads, Asks, GoOn, Release
  <2> QED
    BY <1>10, <2>1, <2>2, Rejects DEF ReadKey, GoOn, Release, TypeInv, CallTypeOK
<1>11. CASE ReadVid
  <2>1. PICK reply \in Replies :
          /\ Reads(reply, agid \in held)
          /\ \/ reply = "good" /\ MacVerifies /\ (GoOn("readDataKeys") \/ Release("unlocked"))
             \/ \E to \in {"two", "declined", "transport"} : Release(to)
    BY <1>11 DEF ReadVid, Replies
  <2>2. UNCHANGED <<kind, path, verdict>> /\ genuine' = (genuine /\ reply # "garbled")
    BY <1>11, <2>1, SentDrive DEF ReadVid, Reads, Asks, GoOn, Release
  <2> QED
    BY <1>11, <2>1, <2>2 DEF ReadVid, GoOn, Release, TypeInv, CallTypeOK
<1>12. CASE ReadDataKeys
  <2>1. UNCHANGED <<kind, path, genuine, verdict>>
    BY <1>12, SentDrive DEF ReadDataKeys, Asks, Release
  <2>2. pc' = "release" /\ after' \in {"transport", "unlocked"}
    BY <1>12 DEF ReadDataKeys, Release
  <2> QED
    BY <1>12, <2>1, <2>2 DEF ReadDataKeys, TypeInv, CallTypeOK
<1>13. CASE DropGuard
  <2>1. Leave(after) /\ after' = "none" /\ UNCHANGED <<kind, genuine>>
    BY <1>13, SentDrive DEF DropGuard
  <2>2. pc' \in {"sweep", "next", "idle"}
    BY <2>1 DEF Leave
  <2>3. verdict' = "unlocked" => after = "unlocked" /\ path' = path
    BY <1>13, <2>1 DEF DropGuard, Leave, TypeInv, CallTypeOK
  <2> QED
    BY <2>1, <2>2, <2>3
<1>14. CASE Stop
  BY <1>14 DEF Stop, callVars, driveVars
<1> QED
  BY <1>1, <1>2, <1>3, <1>4, <1>5, <1>6, <1>7, <1>8, <1>9, <1>10, <1>11, <1>12, <1>13, <1>14
  DEF Next, Host

-----------------------------------------------------------------------------
(***************************************************************************)
(* Undisturbed calls.                                                      *)
(***************************************************************************)

\* A command that does not misbehave is answered as the drive would answer it.
LEMMA SentClean ==
  ASSUME NEW reply \in Replies, NEW accepted, NEW grants,
         Sent(reply, accepted, grants, cancelled), clean', TypeInv, Wanted
  PROVE  /\ clean /\ ~cancelled
         /\ (reply = "good" /\ accepted /\ held' = grants)
              \/ (reply = "refused" /\ ~accepted /\ held' = held)
         /\ UNCHANGED <<kind, hrl, cancelled>>
<1>1. clean
  BY Zenon DEF Sent, Misbehaves
<1>2. ~cancelled
  BY <1>1 DEF Wanted
<1>3. UNCHANGED <<kind, hrl, cancelled>>
  BY DEF Sent
<1>4. /\ reply = IF accepted THEN "good" ELSE "refused"
      /\ Drive(IF reply = "good" THEN grants ELSE held)
  BY <1>2, Zenon DEF Sent, Misbehaves
<1>5. CASE accepted
  BY <1>1, <1>2, <1>3, <1>4, <1>5 DEF Drive
<1>6. CASE ~accepted
  BY <1>1, <1>2, <1>3, <1>4, <1>6 DEF Drive
<1> QED
  BY <1>5, <1>6

\* ... in an exchange, too, where the drive knows the grant.
LEMMA AsksClean ==
  ASSUME NEW reply \in Replies, NEW accepted \in BOOLEAN,
         Asks(reply, accepted), clean', TypeInv, Wanted
  PROVE  /\ clean /\ ~cancelled
         /\ reply = IF accepted THEN "good" ELSE "refused"
         /\ UNCHANGED <<held, kind, hrl, cancelled>>
<1>1. Sent(reply, accepted, held, cancelled)
  BY DEF Asks
<1>2. /\ clean /\ ~cancelled /\ UNCHANGED <<kind, hrl, cancelled>>
      /\ (reply = "good" /\ accepted /\ held' = held)
           \/ (reply = "refused" /\ ~accepted /\ held' = held)
  BY <1>1, SentClean
<1> QED
  BY <1>2

\* ... and served, if all it needs is the grant.
LEMMA HeldClean ==
  ASSUME NEW reply \in Replies, Asks(reply, agid \in held), clean', TypeInv, Wanted
  PROVE  /\ clean /\ UNCHANGED <<held, kind, hrl, cancelled>>
         /\ agid \in held => reply = "good"
<1>1. (agid \in held) \in BOOLEAN
  OBVIOUS
<1>2. /\ clean /\ ~cancelled
      /\ reply = IF agid \in held THEN "good" ELSE "refused"
      /\ UNCHANGED <<held, kind, hrl, cancelled>>
  BY <1>1, AsksClean, Zenon
<1> QED
  BY <1>2, Zenon

\* A dead pairing passes nowhere.
LEMMA DeadFails == ~Passes("dead") /\ ~Passes("mispaired")
  BY DEF Passes

\* The calls to the drive before and between the exchanges.
LEMMA WantedLoop ==
  ASSUME TypeInv, Wanted, clean',
         Begin \/ Arm \/ BareVid \/ ListEnds \/ NextCert \/ Pause
  PROVE  Wanted'
<1> USE DEF Attempting, Exchanging, Guarded, Goto, End
<1>1. CASE Begin \/ ListEnds
  BY <1>1 DEF Begin, ListEnds, history, driveVars, loopVars, Wanted, TypeInv, CallTypeOK
<1>2. CASE Arm
  BY <1>2 DEF Arm, loopVars, Wanted, TypeInv, CallTypeOK
<1>3. CASE BareVid
  <2>1. PICK reply \in Replies :
          /\ Asks(reply, TRUE)
          /\ End(IF reply = "dead" THEN "transport" ELSE "unlocked")
    BY <1>3 DEF BareVid
  <2>2. clean /\ UNCHANGED <<held, kind, cancelled>>
    BY <2>1, AsksClean
  <2> QED
    BY <1>3, <2>1, <2>2 DEF BareVid, loopVars, Wanted, TypeInv, CallTypeOK
<1>4. CASE NextCert
  <2>1. PICK c \in Certs :
          /\ worked' = (worked \/ Works(c))
          /\ IF Skipped(c)
             THEN Goto("next") /\ UNCHANGED <<tried, cert, path, swept>>
             ELSE Attempt(c)
    BY <1>4 DEF NextCert
  <2>2. /\ clean /\ ~worked /\ after = "none" /\ agid = None /\ verdict = "running"
        /\ UNCHANGED <<kind, hrl, held, cancelled, v1Dead, after, agid, verdict>>
    BY <1>4, <2>1 DEF NextCert, Attempt, Wanted, history, driveVars, TypeInv, CallTypeOK
  <2>3. CASE Skipped(c)
    <3>1. ~Works(c)
      BY <2>2, <2>3, DeadFails DEF Skipped, Works, Wanted
    <3>2. ~worked'
      BY <2>1, <2>2, <3>1
    <3>3. pc' = "next"
      BY <2>1, <2>3
    <3> QED
      BY <2>2, <3>2, <3>3 DEF Wanted
  <2>4. CASE ~Skipped(c)
    <3>1. /\ cert' = c /\ swept' = {} /\ pc' \in {"pause", "sweep"}
          /\ path' = IF c.v1 # "dead" /\ ~v1Dead THEN "one" ELSE "two"
      BY <2>1, <2>4 DEF Attempt
    <3>2. worked' => Works(c)
      BY <2>1, <2>2
    <3>3. worked' => Able'
      BY <2>2, <3>1, <3>2, DeadFails DEF Able, TwoAble, Works, Passes, Wanted
    <3> QED
      BY <2>2, <3>1, <3>3 DEF Wanted
  <2> QED
    BY <2>3, <2>4
<1>5. CASE Pause
  <2>1. /\ UNCHANGED <<kind, hrl, held, cert, path, swept, worked, v1Dead, cancelled, after>>
        /\ clean /\ pc = "pause" /\ pc' \in {"sweep", "idle"}
        /\ (pc' = "idle" => verdict' = "transport")
        /\ (pc' = "sweep" => verdict' = verdict)
    BY <1>5 DEF Pause, driveVars, loopVars
  <2>2. Able' = Able /\ TwoAble' = TwoAble
    BY <2>1 DEF Able, TwoAble, Works, Passes
  <2> QED
    BY <2>1, <2>2 DEF Wanted, TypeInv, CallTypeOK
<1> QED
  BY <1>1, <1>2, <1>3, <1>4, <1>5

\* The sweep frees every grant, and so one is left to allocate.
LEMMA WantedRoom ==
  ASSUME TypeInv, Wanted, clean', Sweep \/ Allocate
  PROVE  Wanted'
<1> USE DEF Attempting, Exchanging, Guarded, Goto
<1>1. CASE Sweep
  <2>1. PICK a \in Agids, reply \in Replies :
          Sent(reply, TRUE, held \ {a}, cancelled) /\ swept' = swept \cup {a}
    BY <1>1 DEF Sweep
  <2>2. clean /\ held' = held \ {a} /\ UNCHANGED <<kind, hrl, cancelled>>
    BY <2>1, SentClean
  <2>3. held \cap swept = {}
    BY <1>1, <2>2 DEF Sweep, Wanted
  <2>4. /\ UNCHANGED <<cert, path, worked, v1Dead, after, verdict>> /\ pc = "sweep"
        /\ pc' = "sweep" \/ (pc' = "allocate" /\ swept' = Agids)
    BY <1>1 DEF Sweep, loopVars
  <2>5. held' \cap swept' = {} /\ held' \subseteq Agids
    BY <2>1, <2>2, <2>3 DEF TypeInv, DriveTypeOK
  <2>6. pc' = "allocate" => held' = {}
    BY <2>4, <2>5
  <2>7. Able' = Able /\ TwoAble' = TwoAble
    BY <2>2, <2>4 DEF Able, TwoAble, Works, Passes
  <2> QED
    BY <2>2, <2>4, <2>5, <2>6, <2>7 DEF Wanted, TypeInv, CallTypeOK
<1>2. CASE Allocate
  <2>1. PICK a \in Agids, reply \in Replies :
          /\ Sent(reply, a \notin held, held \cup {a}, cancelled)
          /\ \/ /\ reply \in {"good", "garbled"}
                /\ Goto("sendCert")
                /\ agid' \in IF reply = "good" THEN {a} ELSE Agids
                /\ UNCHANGED <<cert, path, swept>>
             \/ /\ reply # "good"
                /\ Leave(Reject(reply))
                /\ UNCHANGED agid
    BY <1>2 DEF Allocate
  <2>2. /\ clean /\ UNCHANGED <<kind, hrl, cancelled>>
        /\ (reply = "good" /\ a \notin held /\ held' = held \cup {a})
             \/ (reply = "refused" /\ a \in held /\ held' = held)
    BY <2>1, SentClean
  <2>3. held = {}
    BY <1>2, <2>2 DEF Allocate, Wanted
  <2>4. reply = "good" /\ held' = {a}
    BY <2>2, <2>3
  <2>5. /\ pc' = "sendCert" /\ agid' = a
        /\ UNCHANGED <<cert, path, worked, v1Dead, after, verdict>> /\ pc = "allocate"
    BY <1>2, <2>1, <2>4 DEF Allocate, loopVars
  <2>6. Able' = Able /\ TwoAble' = TwoAble
    BY <2>2, <2>5 DEF Able, TwoAble, Works, Passes
  <2> QED
    BY <2>2, <2>4, <2>5, <2>6 DEF Wanted, TypeInv, CallTypeOK
<1> QED
  BY <1>1, <1>2

\* A step of an exchange goes on, or the certificate was none the drive takes.
LEMMA WantedOn ==
  ASSUME TypeInv, Wanted, clean, clean', pc \in Guarded \ {"release"},
         pc' \in Guarded \ {"release", "sendCert"}, path = "one" => Passes(cert.v1),
         v1Dead' => kind.one # "verifies",
         UNCHANGED <<kind, hrl, held, cancelled, cert, path, worked, agid, after, verdict>>
  PROVE  Wanted'
<1>1. Able' = Able /\ TwoAble' = TwoAble /\ Passes(cert.v1)' = Passes(cert.v1)
  BY DEF Able, TwoAble, Works, Passes
<1>2. cancelled' = cancelled /\ ~cancelled /\ agid \in held
  BY DEF Wanted
<1> QED
  BY <1>1, <1>2 DEF Wanted, Attempting, Exchanging, Guarded, TypeInv, CallTypeOK

\* ... and then its grant is released.
LEMMA WantedOff ==
  ASSUME TypeInv, Wanted, clean, clean', pc \in Guarded \ {"release"},
         pc' = "release", v1Dead' => kind.one # "verifies",
         after' = "two" /\ worked => TwoAble,
         after' \in {"next", "declined"} => ~worked,
         UNCHANGED <<kind, hrl, held, cancelled, cert, path, worked, agid, verdict>>
  PROVE  Wanted'
<1>1. TwoAble' = TwoAble
  BY DEF TwoAble, Passes
<1>2. ~cancelled
  BY DEF Wanted
<1> QED
  BY <1>1, <1>2 DEF Wanted, Attempting, Exchanging, Guarded, TypeInv, CallTypeOK

\* The drive refuses a certificate it does not take, and the exchange is over.
LEMMA WantedSend ==
  ASSUME TypeInv, Wanted, clean', SendCert
  PROVE  Wanted'
<1>1. PICK reply \in Replies :
        /\ Asks(reply, agid \in held /\ (path = "one" => Passes(cert.v1)))
        /\ IF reply \in {"good", "garbled"} THEN GoOn("readCert") ELSE Release(Reject(reply))
  BY DEF SendCert
<1>2. (agid \in held /\ (path = "one" => Passes(cert.v1))) \in BOOLEAN
  BY DEF Passes, TypeInv, DriveTypeOK
<1>3. /\ clean /\ UNCHANGED <<held, kind, hrl, cancelled>>
      /\ reply = IF agid \in held /\ (path = "one" => Passes(cert.v1))
                 THEN "good" ELSE "refused"
  BY <1>1, <1>2, AsksClean
<1>4. /\ pc = "sendCert" /\ agid \in held /\ (worked => Able)
      /\ v1Dead' = v1Dead /\ (v1Dead => kind.one # "verifies")
      /\ UNCHANGED <<cert, path, worked, agid, verdict>>
  BY <1>1, <1>3 DEF SendCert, Wanted, Attempting, Exchanging, Guarded, loopVars, GoOn, Release,
     Goto
<1>5. CASE path = "one" => Passes(cert.v1)
  <2>1. pc' = "readCert" /\ after' = after
    BY <1>1, <1>3, <1>4, <1>5 DEF GoOn, Goto
  <2> QED
    BY <1>3, <1>4, <1>5, <2>1, WantedOn DEF Guarded
<1>6. CASE path = "one" /\ ~Passes(cert.v1)
  <2>1. pc' = "release" /\ after' = Reject("refused")
    BY <1>1, <1>3, <1>6 DEF Release, Goto
  <2>2. worked => TwoAble
    BY <1>4, <1>6 DEF Able, TwoAble, Works
  <2>3. after' \in {"next", "declined"} => ~worked
    BY <1>6, <2>1, <2>2, DeadFails DEF Reject, TwoAble
  <2> QED
    BY <1>3, <1>4, <2>1, <2>2, <2>3, WantedOff DEF Guarded
<1> QED
  BY <1>5, <1>6

\* A drive certificate that does not verify is one the host turns down, and a
\* recognised one rules out the other 1.0 exchanges.
LEMMA WantedReadCert ==
  ASSUME TypeInv, Wanted, clean', ReadCert
  PROVE  Wanted'
<1>1. PICK reply \in Replies :
        /\ Asks(reply, agid \in held)
        /\ IF reply = "good" /\ DriveCertVerifies
           THEN GoOn("readKey") ELSE Release(Reject(reply))
        /\ v1Dead' \in CASE path = "one" /\ reply = "garbled" -> {v1Dead, TRUE}
                          [] path = "one" /\ reply = "good" -> {v1Dead \/ kind.one = "forged"}
                          [] OTHER -> {v1Dead}
  BY DEF ReadCert, Reads
<1>2. clean /\ UNCHANGED <<held, kind, hrl, cancelled>>
  BY <1>1, HeldClean
<1>3. /\ pc = "readCert" /\ agid \in held /\ (worked => Able)
      /\ (path = "one" => Passes(cert.v1)) /\ (v1Dead => kind.one # "verifies")
      /\ UNCHANGED <<cert, path, worked, agid, verdict>>
  BY <1>1, <1>2 DEF ReadCert, Wanted, Attempting, Exchanging, Guarded, loopVars, GoOn, Release,
     Goto
<1>4. reply = "good"
  BY <1>1, <1>3, HeldClean
<1>5. v1Dead' => kind.one # "verifies"
  BY <1>1, <1>3, <1>4
<1>6. CASE DriveCertVerifies
  <2>1. pc' = "readKey" /\ after' = after
    BY <1>1, <1>4, <1>6 DEF GoOn, Goto
  <2> QED
    BY <1>2, <1>3, <1>5, <2>1, WantedOn DEF Guarded
<1>7. CASE ~DriveCertVerifies
  <2>1. pc' = "release" /\ after' = Reject("good")
    BY <1>1, <1>4, <1>7 DEF Release, Goto
  <2>2. after' = IF path = "one" /\ cert.v2 # "dead" THEN "two" ELSE "next"
    BY <2>1 DEF Reject
  <2>3. path = "one" /\ worked => TwoAble
    BY <1>3, <1>7 DEF Able, TwoAble, Works, DriveCertVerifies
  <2>4. path # "one" => ~worked
    BY <1>3, <1>7 DEF Able, TwoAble, DriveCertVerifies
  <2>5. after' \in {"next", "declined"} => ~worked
    BY <2>2, <2>3, <2>4, DeadFails DEF TwoAble
  <2>6. after' = "two" /\ worked => TwoAble
    BY <2>2, <2>3
  <2> QED
    BY <1>2, <1>3, <1>5, <2>1, <2>5, <2>6, WantedOff DEF Guarded
<1> QED
  BY <1>6, <1>7

\* The host's own signature fails only for a key that was mispaired.
LEMMA WantedKeys ==
  ASSUME TypeInv, Wanted, clean', ReadKey \/ SendKey
  PROVE  Wanted'
<1>1. PICK reply \in Replies :
        /\ Asks(reply, agid \in held)
        /\ \/ /\ pc = "sendKey"
              /\ IF reply \in {"good", "garbled"}
                 THEN GoOn("readVid") ELSE Release(Reject(reply))
           \/ /\ pc = "readKey"
              /\ IF reply = "good" /\ ~(path = "two" /\ cert.v2 = "mispaired")
                 THEN GoOn("sendKey") ELSE Release(Reject(reply))
  BY DEF ReadKey, SendKey, Reads
<1>2. clean /\ UNCHANGED <<held, kind, hrl, cancelled>>
  BY <1>1, HeldClean
<1>3. /\ pc \in {"readKey", "sendKey"} /\ agid \in held /\ (worked => Able)
      /\ (path = "one" => Passes(cert.v1)) /\ (v1Dead => kind.one # "verifies")
      /\ UNCHANGED <<cert, path, worked, agid, verdict, v1Dead>>
  BY <1>1, <1>2 DEF ReadKey, SendKey, Wanted, Attempting, Exchanging, Guarded, loopVars, GoOn,
     Release, Goto
<1>4. reply = "good"
  BY <1>1, <1>3, HeldClean
<1>5. CASE pc' \in {"readVid", "sendKey"} /\ after' = after
  BY <1>2, <1>3, <1>5, WantedOn DEF Guarded
<1>6. CASE path = "two" /\ cert.v2 = "mispaired" /\ pc' = "release" /\ after' = "next"
  <2>1. ~worked
    BY <1>3, <1>6, DeadFails DEF Able, TwoAble
  <2> QED
    BY <1>2, <1>3, <1>6, <2>1, WantedOff DEF Guarded
<1>7. \/ pc' \in {"readVid", "sendKey"} /\ after' = after
      \/ path = "two" /\ cert.v2 = "mispaired" /\ pc' = "release" /\ after' = "next"
  BY <1>1, <1>4 DEF GoOn, Release, Goto, Reject
<1> QED
  BY <1>5, <1>6, <1>7

\* A MAC that fails is the 1.0 bus key's, which does not vouch for the Volume ID.
LEMMA WantedReads ==
  ASSUME TypeInv, Wanted, clean', ReadVid \/ ReadDataKeys
  PROVE  Wanted'
<1>1. CASE ReadVid
  <2>1. PICK reply \in Replies :
          /\ Asks(reply, agid \in held)
          /\ CASE reply = "good" /\ MacVerifies ->
                    \E asks \in AsksDataKeys :
                      IF asks THEN GoOn("readDataKeys") ELSE Release("unlocked")
               [] reply = "good" /\ ~MacVerifies ->
                    Release(IF cert.v2 # "dead" THEN "two" ELSE "declined")
               [] reply = "garbled" ->
                    Release("declined") \/ (path = "one" /\ cert.v2 # "dead" /\ Release("two"))
               [] reply = "refused" -> Release("declined")
               [] reply = "dead" -> Release("transport")
    BY <1>1 DEF ReadVid, Reads
  <2>2. clean /\ UNCHANGED <<held, kind, hrl, cancelled>>
    BY <2>1, HeldClean
  <2>3. /\ pc = "readVid" /\ agid \in held /\ (worked => Able)
        /\ (path = "one" => Passes(cert.v1)) /\ (v1Dead => kind.one # "verifies")
        /\ path \in {"one", "two"}
        /\ UNCHANGED <<cert, path, worked, agid, verdict, v1Dead>>
    <3>1. pc = "readVid" /\ UNCHANGED <<cert, path, worked, agid, v1Dead>>
      BY <1>1 DEF ReadVid, loopVars
    <3>2. verdict' = verdict
      BY <2>1 DEF GoOn, Release, Goto, Replies
    <3> QED
      BY <2>2, <3>1, <3>2 DEF Wanted, Attempting, Exchanging, Guarded, TypeInv, PathOK
  <2>4. reply = "good"
    BY <2>1, <2>3, HeldClean
  <2>5. CASE pc' = "readDataKeys" /\ after' = after
    BY <2>2, <2>3, <2>5, WantedOn DEF Guarded
  <2>6. CASE pc' = "release" /\ after' = "unlocked"
    BY <2>2, <2>3, <2>6, WantedOff DEF Guarded
  <2>7. CASE ~MacVerifies /\ pc' = "release"
             /\ after' = IF cert.v2 # "dead" THEN "two" ELSE "declined"
    <3>1. worked => TwoAble
      BY <2>3, <2>7 DEF MacVerifies, Able, TwoAble, Works
    <3>2. after' = "declined" => ~worked
      BY <2>7, <3>1, DeadFails DEF TwoAble
    <3> QED
      BY <2>2, <2>3, <2>7, <3>1, <3>2, WantedOff DEF Guarded
  <2>8. CASE MacVerifies
    BY <2>1, <2>4, <2>5, <2>6, <2>8 DEF GoOn, Release, Goto
  <2>9. CASE ~MacVerifies
    BY <2>1, <2>4, <2>7, <2>9 DEF Release, Goto
  <2> QED
    BY <2>8, <2>9
<1>2. CASE ReadDataKeys
  <2>1. PICK reply \in Replies, served \in BOOLEAN :
          /\ Asks(reply, agid \in held /\ served)
          /\ Release(IF reply = "dead" THEN "transport" ELSE "unlocked")
    BY <1>2 DEF ReadDataKeys
  <2>2. clean /\ UNCHANGED <<held, kind, hrl, cancelled>>
    BY <2>1, AsksClean
  <2>3. /\ pc = "readDataKeys" /\ (v1Dead => kind.one # "verifies")
        /\ UNCHANGED <<cert, path, worked, agid, verdict, v1Dead>>
    BY <1>2, <2>1, <2>2 DEF ReadDataKeys, Wanted, loopVars, Release, Goto
  <2>4. pc' = "release" /\ after' \in {"transport", "unlocked"}
    BY <2>1 DEF Release, Goto
  <2> QED
    BY <2>2, <2>3, <2>4, WantedOff DEF Guarded
<1> QED
  BY <1>1, <1>2

\* Once its grant is released, a certificate gives way to the P-256 exchange or to
\* the next one.
LEMMA WantedDrop ==
  ASSUME TypeInv, Wanted, clean', DropGuard
  PROVE  Wanted'
<1> USE DEF Attempting, Exchanging, Guarded
<1>1. PICK reply \in Replies : Sent(reply, TRUE, held \ {agid}, Cleanup)
  BY DEF DropGuard
<1>2. clean /\ UNCHANGED <<kind, hrl, cancelled>>
  BY <1>1, Zenon DEF Sent, Misbehaves
<1>3. /\ pc = "release" /\ Leave(after) /\ after' = "none"
      /\ UNCHANGED <<worked, v1Dead>> /\ verdict = "running"
      /\ after \in {"two", "next"} \cup Ends
  BY DEF DropGuard, loopVars, TypeInv, CallTypeOK
<1>4. CASE after = "two"
  <2>1. pc' = "sweep" /\ path' = "two" /\ swept' = {} /\ UNCHANGED <<cert, verdict>>
    BY <1>3, <1>4 DEF Leave, Goto
  <2>2. worked => TwoAble
    BY <1>2, <1>4 DEF Wanted
  <2>3. TwoAble' = TwoAble /\ Able' = TwoAble'
    BY <1>2, <2>1 DEF Able, TwoAble, Passes
  <2> QED
    BY <1>2, <1>3, <2>1, <2>2, <2>3 DEF Wanted
<1>5. CASE after = "next"
  <2>1. pc' = "next" /\ verdict' = verdict
    BY <1>3, <1>5 DEF Leave, Goto
  <2> QED
    BY <1>2, <1>3, <1>5, <2>1 DEF Wanted
<1>6. CASE after \in Ends
  <2>1. pc' = "idle" /\ verdict' = after
    BY <1>3, <1>6 DEF Leave, End, Ends
  <2> QED
    BY <1>2, <1>3, <1>6, <2>1 DEF Wanted, Ends
<1> QED
  BY <1>3, <1>4, <1>5, <1>6

\* An undisturbed call takes every certificate the drive would take to its end.
LEMMA WantedStep == TypeInv /\ Wanted /\ Next => Wanted'
<1> SUFFICES ASSUME TypeInv, Wanted, Next, clean' PROVE Wanted'
  BY DEF Wanted
<1>1. CASE Stop
  BY <1>1 DEF Stop
<1> QED
  BY <1>1, WantedLoop, WantedRoom, WantedSend, WantedReadCert, WantedKeys, WantedReads,
     WantedDrop DEF Next, Host

-----------------------------------------------------------------------------

\* The call finds the invariant in place.
LEMMA InitInv == Init => IInv
<1> SUFFICES ASSUME Init PROVE IInv
  OBVIOUS
<1>1. DriveTypeOK
  BY DEF Init, DriveTypeOK
<1>2. CallTypeOK /\ PathOK
  BY DEF Init, CallTypeOK, PathOK, Steps, Guarded, Attempting, Exchanging, NoCert, Certs
<1>3. FlagsOK
  BY DEF Init, FlagsOK
<1>4. WithinBounds
  BY BoundsAssumption DEF Init, WithinBounds, MaxAttempts
<1>5. Paced /\ Ours /\ Hearing
  BY DEF Init, Paced, WedgeGuard, Ours, AgidReleased, Hearing, Guarded, Attempting, Exchanging
<1>6. Vouching /\ Wanted
  BY DEF Init, Vouching, VidIsVouched, Wanted, Guarded, Attempting, Exchanging
<1> QED
  BY <1>1, <1>2, <1>3, <1>4, <1>5, <1>6 DEF IInv, TypeInv

\* The invariant holds in every reachable state.
LEMMA Invariant == Spec => []IInv
<1>1. IInv /\ Next => IInv'
  BY DriveStep, CallStep, PathStep, FlagsStep, BoundsStep, PacedStep, OursStep, HearingStep,
     VouchingStep, WantedStep DEF IInv, TypeInv
<1>2. TypeInv /\ UNCHANGED vars => TypeInv'
  BY DEF vars, driveVars, loopVars, callVars, history, TypeInv, DriveTypeOK, CallTypeOK, PathOK,
     FlagsOK, WithinBounds
<1>3. Paced /\ Ours /\ Hearing /\ UNCHANGED vars => (Paced /\ Ours /\ Hearing)'
  BY DEF vars, driveVars, loopVars, callVars, history, Paced, WedgeGuard, Ours, AgidReleased,
     Hearing
<1>4. Vouching /\ UNCHANGED vars => Vouching'
  BY DEF vars, driveVars, loopVars, callVars, history, Vouching, VidIsVouched, DriveCertVerifies,
     MacVerifies
<1>5. Wanted /\ UNCHANGED vars => Wanted'
  BY DEF vars, driveVars, loopVars, callVars, history, Wanted, Able, TwoAble, Works, Passes
<1> QED
  BY InitInv, <1>1, <1>2, <1>3, <1>4, <1>5, PTL DEF Spec, IInv

-----------------------------------------------------------------------------

\* The variables stay in their ranges; an AGID guard is alive exactly where the
\* exchange or its release needs it, and an exchange runs only on a certificate
\* that may still pass it.
THEOREM TypeCorrect == Spec => []TypeOK
<1>1. IInv => TypeOK
  BY DEF IInv, TypeInv, DriveTypeOK, CallTypeOK, PathOK, FlagsOK, WithinBounds, Paced, Guarded,
     Attempting, Exchanging, TypeOK
<1> QED
  BY Invariant, <1>1, PTL

\* "One release per allocation": for any number of grants and certificates, and
\* however the other commands of the call misbehave, the drive keeps no grant of
\* it but the one in use.
THEOREM GrantsGivenBack == Spec => []AgidReleased
<1>1. IInv => AgidReleased
  BY DEF IInv, Ours
<1> QED
  BY Invariant, <1>1, PTL

\* The cap on the attempts starves nobody: an undisturbed call that declines
\* looked at no certificate the drive would take, and no attempt was spent on a
\* certificate that is not usable.
THEOREM CertsAreNotStarved == Spec => []NotStarved
<1>1. IInv => NotStarved
  BY DEF IInv, TypeInv, WithinBounds, Wanted, NotStarved
<1> QED
  BY Invariant, <1>1, PTL

\* At most the two exchanges of one certificate reach the drive between two
\* pauses, however long the list of certificates is.
THEOREM DriveIsNotRushed == Spec => []WedgeGuard
<1>1. IInv => WedgeGuard
  BY DEF IInv, Paced
<1> QED
  BY Invariant, <1>1, PTL

\* No Volume ID is reported that one and the same exchange has not vouched for,
\* by a drive certificate and by a MAC that both verified.
THEOREM VolumeIdsAreVouched == Spec => []VidIsVouched
<1>1. IInv => VidIsVouched
  BY DEF IInv, Vouching
<1> QED
  BY Invariant, <1>1, PTL

\* A call that ends in anything but Transport last heard a drive.
THEOREM DeadBusEndsCall == Spec => []DeadBusIsFatal
<1>1. IInv => DeadBusIsFatal
  BY DEF IInv, TypeInv, CallTypeOK, Hearing, DeadBusIsFatal
<1> QED
  BY Invariant, <1>1, PTL
-----------------------------------------------------------------------------
(***************************************************************************)
(* How long a call can take.                                               *)
(***************************************************************************)

\* The commands an exchange leaves before its grant is back, at each step: the
\* sweep, the allocation and six steps of the exchange, then the release.
InExchange ==
  CASE pc = "sweep"        -> Cardinality(Agids \ swept) + 8
    [] pc = "allocate"     -> 8
    [] pc = "sendCert"     -> 7
    [] pc = "readCert"     -> 6
    [] pc = "readKey"      -> 5
    [] pc = "sendKey"      -> 4
    [] pc = "readVid"      -> 3
    [] pc = "readDataKeys" -> 2
    [] pc = "release"      -> 1

Exchange == Cardinality(Agids) + 8

\* A turn is a pause and the two exchanges of one certificate.
Turn == 2 * Exchange + 1

Turns(taken) == (MaxAttempts - taken) * Turn

\* The P-256 exchange an AACS 1.0 exchange may still lead to.
Aside == IF path = "one" THEN Exchange ELSE 0

\* What is left of the turn, or ahead of the loop.
InTurn ==
  CASE pc = "arm"      -> 1
    [] pc = "next"     -> 0
    [] pc = "pause"    -> Turn
    [] pc \in Exchanging -> InExchange + Aside

\* What lies behind the turn: the turns and the certificates not taken yet, and
\* the end of the list.
Behind == Turns(tried) + (MaxCerts - looked) + 1

Remaining ==
  CASE pc = "idle"    -> 0
    [] pc = "bareVid" -> 1
    [] OTHER -> InTurn + Behind

Budget == MaxAttempts * Turn + MaxCerts + 2


\* The grants the sweep has not tried yet are finitely many, and one fewer
\* behind every try.
LEMMA Unswept ==
  /\ Cardinality(Agids) \in Nat
  /\ \A gone : /\ Cardinality(Agids \ gone) \in Nat
               /\ Cardinality(Agids \ gone) <= Cardinality(Agids)
  /\ \A gone : \A a \in Agids \ gone :
       Cardinality(Agids \ (gone \cup {a})) = Cardinality(Agids \ gone) - 1
<1>1. Cardinality(Agids) \in Nat
  BY AgidsAssumption, FS_CardinalityType
<1>2. ASSUME NEW gone
      PROVE  /\ IsFiniteSet(Agids \ gone) /\ Cardinality(Agids \ gone) \in Nat
             /\ Cardinality(Agids \ gone) <= Cardinality(Agids)
  <2>1. Agids \ gone \subseteq Agids OBVIOUS
  <2>2. IsFiniteSet(Agids \ gone) /\ Cardinality(Agids \ gone) <= Cardinality(Agids)
    BY <2>1, AgidsAssumption, FS_Subset
  <2> QED BY <2>2, FS_CardinalityType
<1>3. ASSUME NEW gone, NEW a \in Agids \ gone
      PROVE  Cardinality(Agids \ (gone \cup {a})) = Cardinality(Agids \ gone) - 1
  <2>1. Agids \ (gone \cup {a}) = (Agids \ gone) \ {a} OBVIOUS
  <2> QED BY <1>2, <2>1, FS_RemoveElement
<1> QED BY <1>1, <1>2, <1>3

\* A turn is taken off what is left of the turns.
LEMMA TurnsLeft ==
  /\ Exchange \in Nat \ 0..7 /\ Turn \in Nat /\ Turn = 2 * Exchange + 1
  /\ \A taken \in 0..MaxAttempts :
       /\ Turns(taken) \in 0..(MaxAttempts * Turn)
       /\ taken < MaxAttempts => Turns(taken) = Turn + Turns(taken + 1)
<1>1. Exchange \in Nat \ 0..7 BY Unswept DEF Exchange
<1>2. Turn \in Nat /\ Turn = 2 * Exchange + 1 BY <1>1 DEF Turn
<1>3. ASSUME NEW taken \in 0..MaxAttempts
      PROVE  /\ Turns(taken) \in 0..(MaxAttempts * Turn)
             /\ taken < MaxAttempts => Turns(taken) = Turn + Turns(taken + 1)
  <2> DEFINE t == Turn
  <2>1. t \in Nat BY <1>2
  <2> HIDE DEF t
  <2>2. Turns(0) = 3 * t /\ Turns(1) = 2 * t /\ Turns(2) = t /\ Turns(3) = 0
    BY <2>1 DEF Turns, MaxAttempts, t
  <2>3. MaxAttempts * Turn = 3 * t BY DEF MaxAttempts, t
  <2>4. taken = 0 \/ taken = 1 \/ taken = 2 \/ taken = 3 BY DEF MaxAttempts
  <2>5. Turns(taken) \in 0..3 * t BY <2>1, <2>2, <2>4
  <2>6. taken < 3 => Turns(taken) = t + Turns(taken + 1) BY <2>1, <2>2, <2>4
  <2> QED BY <2>3, <2>5, <2>6 DEF MaxAttempts, t
<1> QED BY <1>1, <1>2, <1>3

\* What lies behind the turn, or behind the exchange, is a number.
LEMMA Ahead ==
  ASSUME TypeInv
  PROVE  /\ Behind \in 1..(MaxAttempts * Turn + MaxCerts + 1) /\ Aside \in {0, Exchange}
         /\ Aside \in Nat
<1>1. looked \in 0..MaxCerts /\ tried \in 0..MaxAttempts
  BY DEF TypeInv, WithinBounds
<1> DEFINE all  == MaxAttempts * Turn
           rest == Turns(tried)
<1>2. all \in Nat /\ rest \in 0..all BY <1>1, TurnsLeft DEF MaxAttempts
<1> HIDE DEF all, rest
<1>3. rest + (MaxCerts - looked) + 1 \in 1..(all + MaxCerts + 1)
  BY <1>1, <1>2, BoundsAssumption
<1>4. Behind \in 1..(MaxAttempts * Turn + MaxCerts + 1)
  BY <1>3 DEF Behind, all, rest
<1> QED BY <1>4, TurnsLeft DEF Aside

\* An exchange has at least its release left, and no more than the whole of it.
LEMMA InExchangeRange ==
  ASSUME pc \in Exchanging
  PROVE  InExchange \in 1..Exchange
<1> DEFINE rest == Cardinality(Agids \ swept)
           all  == Cardinality(Agids)
<1>1. all \in Nat /\ rest \in Nat /\ rest <= all BY Unswept
<1> HIDE DEF rest, all
<1>2. CASE pc = "sweep"
  <2>1. InExchange = rest + 8 BY <1>2 DEF InExchange, rest
  <2> QED BY <1>1, <2>1 DEF Exchange, all
<1>3. CASE pc # "sweep"
  <2>1. InExchange \in 1..8 BY <1>3 DEF InExchange, Exchanging, Guarded
  <2> QED BY <1>1, <2>1 DEF Exchange, all
<1> QED BY <1>2, <1>3

\* What is left of the call, by where it is.
LEMMA RemainingIs ==
  /\ pc \in Exchanging => Remaining = InExchange + Aside + Behind
  /\ pc = "pause" => Remaining = Turn + Behind
  /\ pc = "next" => Remaining = 0 + Behind
  /\ pc = "arm" => Remaining = 1 + Behind
  /\ pc = "bareVid" => Remaining = 1
  /\ pc = "idle" => Remaining = 0
BY DEF Remaining, InTurn, Exchanging, Guarded

\* ... and of where it is next.
LEMMA RemainingWillBe ==
  /\ pc' \in Exchanging => Remaining' = InExchange' + Aside' + Behind'
  /\ pc' = "next" => Remaining' = 0 + Behind'
  /\ pc' = "pause" => Remaining' = Turn + Behind'
  /\ pc' = "bareVid" => Remaining' = 1
  /\ pc' = "idle" => Remaining' = 0
BY DEF Remaining, InTurn, Exchanging, Guarded

\* What is left is a number, and at most a full budget.
LEMMA WithinBudget == TypeInv /\ Paced => Remaining \in 0..Budget
<1> SUFFICES ASSUME TypeInv, Paced PROVE Remaining \in 0..Budget
  OBVIOUS
<1>1. pc \in Steps BY DEF TypeInv, CallTypeOK
<1>2. /\ Behind \in 1..(MaxAttempts * Turn + MaxCerts + 1)
      /\ Aside \in {0, Exchange} /\ Aside \in Nat
  BY Ahead
<1>3. \A n \in Nat : n \in 0..Exchange /\ Exchange \in Nat => n + Aside \in 0..(2 * Exchange)
  BY <1>2
<1>4. pc \in Exchanging => InExchange + Aside \in 0..(2 * Exchange)
  BY <1>3, InExchangeRange, TurnsLeft
<1>5. MaxAttempts * Turn \in Nat BY TurnsLeft DEF MaxAttempts
<1>6. CASE pc \in {"idle", "bareVid"}
  <2>1. Remaining \in 0..1 BY <1>6, RemainingIs
  <2> QED BY <2>1, <1>5, BoundsAssumption DEF Budget
<1> DEFINE all == MaxAttempts * Turn
<1>7. all \in Nat /\ all = MaxAttempts * Turn BY <1>5
<1> HIDE DEF all
<1>8. CASE pc \in {"arm", "next"}
  <2>1. Remaining = 0 + Behind \/ Remaining = 1 + Behind BY <1>8, RemainingIs
  <2> QED BY <2>1, <1>2, <1>7, BoundsAssumption DEF Budget
<1>9. CASE pc \in Attempting
  <2> DEFINE before == tried - 1
             rest   == Turns(tried)
             certs  == MaxCerts - looked
             spent  == Remaining - Behind
  <2>1. tried \in 1..MaxAttempts /\ looked \in 0..MaxCerts
    BY <1>9 DEF Paced, TypeInv, WithinBounds
  <2>2. before \in 0..MaxAttempts /\ before < MaxAttempts /\ before + 1 = tried
    BY <2>1 DEF MaxAttempts
  <2>3. Turns(before) \in 0..all /\ Turns(before) = Turn + Turns(before + 1)
        /\ rest \in 0..all
    BY <2>1, <2>2, <1>7, TurnsLeft
  <2>4. Turn + rest <= all /\ rest \in Nat
    BY <2>2, <2>3, <1>7
  <2>5. certs \in 0..MaxCerts BY <2>1, BoundsAssumption
  <2>6. Behind = rest + certs + 1 BY DEF Behind
  <2>7. PICK n \in 0..Turn : Remaining = n + Behind
    <3>1. CASE pc = "pause" BY <3>1, RemainingIs, TurnsLeft
    <3>2. CASE pc \in Exchanging
      <4>1. Remaining = (InExchange + Aside) + Behind BY <3>2, RemainingIs
      <4>2. InExchange + Aside \in 0..Turn BY <3>2, <1>4, TurnsLeft
      <4> QED BY <4>1, <4>2
    <3> QED BY <1>9, <3>1, <3>2 DEF Attempting
  <2> HIDE DEF before, rest, certs
  <2>8. Remaining = n + (rest + certs + 1) BY <2>6, <2>7
  <2>9. n \in Nat /\ n <= Turn /\ Turn \in Nat BY <2>7, TurnsLeft
  <2> QED BY <2>4, <2>5, <2>8, <2>9, <1>7, BoundsAssumption DEF Budget
<1> QED BY <1>1, <1>6, <1>8, <1>9 DEF Steps, Attempting, Exchanging, Guarded

\* A step within an exchange.
LEMMA Staying ==
  ASSUME TypeInv, pc \in Exchanging, pc' \in Exchanging, UNCHANGED <<path, loopVars>>,
         InExchange' < InExchange, InExchange' \in Nat
  PROVE  Remaining' < Remaining
<1> DEFINE n == InExchange
           m == InExchange'
<1>1. Behind' = Behind /\ Aside' = Aside BY DEF Behind, Aside, loopVars
<1>2. Remaining = n + Aside + Behind BY RemainingIs
<1>3. Remaining' = m + Aside + Behind BY <1>1, RemainingWillBe
<1>4. n \in Nat /\ m \in Nat /\ m < n BY InExchangeRange, TurnsLeft
<1>5. Aside \in Nat /\ Behind \in Nat BY Ahead, TurnsLeft, BoundsAssumption DEF MaxAttempts
<1> HIDE DEF n, m
<1> QED BY <1>2, <1>3, <1>4, <1>5

\* A step out of an exchange.
LEMMA Leaving ==
  ASSUME TypeInv, pc \in Exchanging, NEW to \in {"two", "next"} \cup Ends, Leave(to),
         to = "two" => path = "one", UNCHANGED loopVars
  PROVE  Remaining' < Remaining
<1> DEFINE n == InExchange
<1>1. Behind' = Behind BY DEF Behind, loopVars
<1>2. Remaining = n + Aside + Behind BY RemainingIs
<1>3. n \in Nat \ {0} BY InExchangeRange, TurnsLeft
<1>4. Aside \in Nat /\ Behind \in Nat BY Ahead, TurnsLeft, BoundsAssumption DEF MaxAttempts
<1>5. CASE to = "two"
  <2>1. pc' = "sweep" /\ path' = "two" /\ swept' = {} BY <1>5 DEF Leave, Goto, Ends
  <2>2. InExchange' = Exchange
    <3>1. InExchange' = Cardinality(Agids \ {}) + 8 BY <2>1 DEF InExchange
    <3>2. Agids \ {} = Agids OBVIOUS
    <3> QED BY <3>1, <3>2 DEF Exchange
  <2>3. Remaining' = Exchange + 0 + Behind
    <3>1. Aside' = 0 BY <2>1 DEF Aside
    <3> QED BY <1>1, <2>1, <2>2, <3>1, RemainingWillBe DEF Exchanging
  <2>4. Aside = Exchange /\ Exchange \in Nat BY <1>5, TurnsLeft DEF Aside
  <2> HIDE DEF n
  <2> QED BY <1>2, <1>3, <1>4, <2>3, <2>4
<1>6. CASE to = "next"
  <2>1. pc' = "next" BY <1>6 DEF Leave, Goto, Ends
  <2>2. Remaining' = 0 + Behind BY <1>1, <2>1, RemainingWillBe
  <2> HIDE DEF n
  <2> QED BY <1>2, <1>3, <1>4, <2>2
<1>7. CASE to \in Ends
  <2>1. pc' = "idle" BY <1>7 DEF Leave, End, Ends
  <2>2. Remaining' = 0 BY <2>1, RemainingWillBe
  <2> HIDE DEF n
  <2> QED BY <1>2, <1>3, <1>4, <2>2
<1> QED BY <1>5, <1>6, <1>7

\* The loop over the certificates.
LEMMA LoopShortens ==
  ASSUME TypeInv, Arm \/ BareVid \/ ListEnds \/ NextCert \/ Pause
  PROVE  Remaining' < Remaining
<1> DEFINE b == Behind
<1>1. b \in Nat \ {0} BY Ahead, TurnsLeft, BoundsAssumption DEF MaxAttempts
<1>2. looked \in 0..MaxCerts /\ tried \in 0..MaxAttempts
  BY DEF TypeInv, WithinBounds
<1>3. Exchange \in Nat /\ Turn \in Nat /\ Turn = 2 * Exchange + 1 BY TurnsLeft
<1>4. CASE Arm
  <2>1. pc = "arm" /\ pc' \in {"next", "bareVid", "idle"} /\ UNCHANGED loopVars
    BY <1>4 DEF Arm, Goto, End
  <2>2. Behind' = b BY <2>1 DEF Behind, loopVars
  <2>3. Remaining = 1 + b BY <2>1, RemainingIs
  <2>4. Remaining' = 0 + b \/ Remaining' = 1 \/ Remaining' = 0 BY <2>1, <2>2, RemainingWillBe
  <2> HIDE DEF b
  <2> QED BY <1>1, <2>3, <2>4
<1>5. CASE BareVid
  <2>1. pc = "bareVid" /\ pc' = "idle" BY <1>5 DEF BareVid, End
  <2> QED BY <2>1, RemainingIs, RemainingWillBe
<1>6. CASE ListEnds
  <2>1. pc = "next" /\ pc' = "idle" BY <1>6 DEF ListEnds, End
  <2>2. Remaining = 0 + b /\ Remaining' = 0 BY <2>1, RemainingIs, RemainingWillBe
  <2> HIDE DEF b
  <2> QED BY <1>1, <2>2
<1>7. CASE NextCert
  <2>1. PICK c \in Certs :
          IF Skipped(c) THEN Goto("next") /\ UNCHANGED <<tried, cert, path, swept>>
          ELSE Attempt(c)
    BY <1>7 DEF NextCert
  <2>2. pc = "next" /\ looked' = looked + 1 /\ looked < MaxCerts /\ tried < MaxAttempts
    BY <1>7 DEF NextCert
  <2> DEFINE certs == MaxCerts - looked
             turns == Turns(tried)
             more  == Turns(tried + 1)
  <2>3. certs \in Nat /\ MaxCerts - (looked + 1) = certs - 1
    BY <1>2, BoundsAssumption
  <2>4. turns \in Nat /\ more \in Nat /\ turns = Turn + more
    <3>1. tried + 1 \in 0..MaxAttempts BY <1>2, <2>2 DEF MaxAttempts
    <3>2. MaxAttempts * Turn \in Nat BY <1>3 DEF MaxAttempts
    <3> QED BY <1>2, <2>2, <3>1, <3>2, TurnsLeft
  <2>5. Remaining = 0 + (turns + certs + 1) BY <2>2, RemainingIs DEF Behind
  <2>6. CASE Skipped(c)
    <3>1. pc' = "next" /\ tried' = tried BY <2>1, <2>6 DEF Goto
    <3>2. Behind' = turns + (certs - 1) + 1 BY <2>2, <2>3, <3>1 DEF Behind
    <3>3. Remaining' = 0 + (turns + (certs - 1) + 1) BY <3>1, <3>2, RemainingWillBe
    <3> HIDE DEF certs, turns
    <3> QED BY <2>3, <2>4, <2>5, <3>3
  <2>7. CASE ~Skipped(c)
    <3>1. pc' \in {"pause", "sweep"} /\ tried' = tried + 1 /\ swept' = {}
      BY <2>1, <2>7 DEF Attempt, Goto
    <3>2. Behind' = more + (certs - 1) + 1 BY <2>2, <2>3, <3>1 DEF Behind
    <3>3. CASE pc' = "pause"
      <4>1. Remaining' = Turn + (more + (certs - 1) + 1) BY <3>2, <3>3, RemainingWillBe
      <4> HIDE DEF certs, turns, more
      <4> QED BY <1>3, <2>3, <2>4, <2>5, <4>1
    <3>4. CASE pc' = "sweep"
      <4>1. InExchange' = Exchange
        <5>1. InExchange' = Cardinality(Agids \ {}) + 8 BY <3>1, <3>4 DEF InExchange
        <5>2. Agids \ {} = Agids OBVIOUS
        <5> QED BY <5>1, <5>2 DEF Exchange
      <4>2. Aside' \in {0, Exchange} BY DEF Aside
      <4>3. Remaining' = Exchange + Aside' + (more + (certs - 1) + 1)
        BY <3>2, <3>4, <4>1, RemainingWillBe DEF Exchanging
      <4>4. Remaining' \in {Exchange + 0 + (more + (certs - 1) + 1),
                            Exchange + Exchange + (more + (certs - 1) + 1)}
        BY <4>2, <4>3
      <4> HIDE DEF certs, turns, more
      <4> QED BY <1>3, <2>3, <2>4, <2>5, <4>4
    <3> QED BY <3>1, <3>3, <3>4
  <2> QED BY <2>6, <2>7
<1>8. CASE Pause
  <2>1. /\ pc = "pause" /\ pc' \in {"sweep", "idle"}
        /\ UNCHANGED <<loopVars, path, swept>>
    BY <1>8 DEF Pause, Goto, End
  <2>2. Behind' = b BY <2>1 DEF Behind, loopVars
  <2>3. Remaining = Turn + b BY <2>1, RemainingIs
  <2>4. CASE pc' = "idle"
    <3>1. Remaining' = 0 BY <2>4, RemainingWillBe
    <3> HIDE DEF b
    <3> QED BY <1>1, <1>3, <2>3, <3>1
  <2>5. CASE pc' = "sweep"
    <3> DEFINE m == Cardinality(Agids \ swept) + 8
    <3>1. InExchange' = m BY <2>1, <2>5 DEF InExchange
    <3>2. m \in Nat /\ m <= Exchange
      <4> DEFINE rest == Cardinality(Agids \ swept)
                 all  == Cardinality(Agids)
      <4>1. rest \in Nat /\ all \in Nat /\ rest <= all BY Unswept
      <4>2. m = rest + 8 /\ Exchange = all + 8 BY DEF Exchange
      <4> HIDE DEF rest, all, m
      <4> QED BY <4>1, <4>2
    <3>3. Aside' \in {0, Exchange} BY DEF Aside
    <3>4. Remaining' = m + Aside' + b BY <2>2, <2>5, <3>1, RemainingWillBe DEF Exchanging
    <3>5. Remaining' \in {m + 0 + b, m + Exchange + b} BY <3>3, <3>4
    <3> HIDE DEF b, m
    <3> QED BY <1>1, <1>3, <2>3, <3>2, <3>5
  <2> QED BY <2>1, <2>4, <2>5
<1> QED BY <1>4, <1>5, <1>6, <1>7, <1>8

\* An exchange goes on or is left.
LEMMA ExchangeShortens ==
  ASSUME TypeInv, \/ Sweep \/ Allocate \/ SendCert \/ ReadCert \/ ReadKey \/ SendKey \/ ReadVid
                  \/ ReadDataKeys \/ DropGuard
  PROVE  Remaining' < Remaining
<1>1. CASE Sweep
  <2>1. PICK a \in Agids \ swept : swept' = swept \cup {a}
    BY <1>1 DEF Sweep
  <2>2. /\ pc = "sweep" /\ pc' \in {"sweep", "allocate"}
        /\ UNCHANGED <<path, loopVars>>
    BY <1>1 DEF Sweep, Goto
  <2>3. InExchange = Cardinality(Agids \ swept) + 8 BY <2>2 DEF InExchange
  <2>4. InExchange' \in {Cardinality(Agids \ (swept \cup {a})) + 8, 8}
    BY <2>1, <2>2 DEF InExchange
  <2>5. /\ Cardinality(Agids \ (swept \cup {a})) = Cardinality(Agids \ swept) - 1
        /\ Cardinality(Agids \ (swept \cup {a})) \in Nat /\ Cardinality(Agids \ swept) \in Nat
    BY Unswept
  <2>6. InExchange' < InExchange /\ InExchange' \in Nat
    BY <2>3, <2>4, <2>5
  <2> QED BY <2>2, <2>6, Staying DEF Exchanging
<1>2. CASE Allocate
  <2>1. PICK reply \in Replies :
          \/ Goto("sendCert") /\ UNCHANGED <<cert, path, swept>>
          \/ Leave(Reject(reply))
    BY <1>2 DEF Allocate
  <2>2. pc = "allocate" /\ UNCHANGED loopVars BY <1>2 DEF Allocate
  <2>3. CASE Goto("sendCert") /\ UNCHANGED <<cert, path, swept>>
    <3>1. InExchange = 8 /\ InExchange' = 7 BY <2>2, <2>3 DEF InExchange, Goto
    <3>2. pc' = "sendCert" BY <2>3 DEF Goto
    <3> QED BY <2>2, <2>3, <3>1, <3>2, Staying DEF Exchanging, Guarded
  <2>4. CASE Leave(Reject(reply))
    BY <2>2, <2>4, Rejects, Leaving DEF Exchanging, Ends
  <2> QED BY <2>1, <2>3, <2>4
<1>3. CASE SendCert \/ ReadCert \/ ReadKey \/ SendKey \/ ReadVid \/ ReadDataKeys
  <2>1. /\ \/ pc = "sendCert" /\ pc' \in {"readCert", "release"}
           \/ pc = "readCert" /\ pc' \in {"readKey", "release"}
           \/ pc = "readKey" /\ pc' \in {"sendKey", "release"}
           \/ pc = "sendKey" /\ pc' \in {"readVid", "release"}
           \/ pc = "readVid" /\ pc' \in {"readDataKeys", "release"}
           \/ pc = "readDataKeys" /\ pc' = "release"
        /\ UNCHANGED <<path, loopVars>>
    BY <1>3 DEF SendCert, ReadCert, ReadKey, SendKey, ReadVid, ReadDataKeys, GoOn, Release, Goto,
       Replies
  <2>2. InExchange' < InExchange /\ InExchange' \in Nat BY <2>1 DEF InExchange
  <2> QED BY <2>1, <2>2, Staying DEF Exchanging, Guarded
<1>4. CASE DropGuard
  <2>1. pc = "release" /\ Leave(after) /\ UNCHANGED loopVars BY <1>4 DEF DropGuard
  <2>2. after \in {"two", "next"} \cup Ends /\ (after = "two" => path = "one")
    BY <2>1 DEF TypeInv, CallTypeOK, PathOK
  <2> QED BY <2>1, <2>2, Leaving DEF Exchanging, Guarded
<1> QED BY <1>1, <1>2, <1>3, <1>4

\* Whatever the drive answers and however the certificates are paired, every
\* command and pause of a call brings it nearer its end: at most two exchanges
\* for each of three certificates, whose commands are as many as the grants and
\* eight.  A Stop does not lengthen it (attempt_one_cert, invalidate_agids).
THEOREM CallsAreBounded ==
  Spec => /\ [](Remaining \in 0..Budget)
          /\ [][/\ Host => Remaining' < Remaining
                /\ Stop => Remaining' = Remaining]_vars
<1> DEFINE Step == /\ Host => Remaining' < Remaining
                   /\ Stop => Remaining' = Remaining
<1>1. IInv => Remaining \in 0..Budget
  BY WithinBudget DEF IInv
<1>2. IInv /\ [Next]_vars => [Step]_vars
  <2> SUFFICES ASSUME IInv PROVE Step
    OBVIOUS
  <2>1. Host => Remaining' < Remaining
    BY LoopShortens, ExchangeShortens DEF Host, IInv
  <2>2. Stop => Remaining' = Remaining
    BY DEF Stop, callVars, loopVars, Remaining, InTurn, InExchange, Aside, Behind
  <2> QED BY <2>1, <2>2
<1> QED
  BY Invariant, <1>1, <1>2, PTL DEF Spec
=============================================================================
