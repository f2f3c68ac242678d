----------------------------- MODULE CssAuthProofs -----------------------------
(***************************************************************************)
(* What holds of the DvdUnlocker calls for every number of grants, calls,  *)
(* misbehaving commands and new discs.                                     *)
(***************************************************************************)
EXTENDS CssAuth, FiniteSetTheorems, TLAPS

\* Where an AGID guard is alive.
Guarded == {"hostChallenge", "key1", "driveChallenge", "key2", "release", "discKey"}

\* The parts of TypeOK.
DriveTypeOK == disc \in {"dvd", "other"} /\ held \subseteq Agids /\ mine \subseteq held

CallTypeOK ==
  /\ pc \in Steps /\ swept \subseteq Agids
  /\ agid \in Agids \cup {None} /\ (agid # None <=> pc \in Guarded)
  /\ failure \in {"none", "declined", "transport"}
  /\ verdict \in {"none", "running", "unlocked", "declined", "notApplicable", "transport"}
  /\ hush \in Steps \cup {"none"}

FlagsOK ==
  /\ asf \in BOOLEAN /\ cancelled \in BOOLEAN /\ excused \in BOOLEAN
  /\ clean \in BOOLEAN /\ swapped \in BOOLEAN

WithinBounds ==
  calls \in 0..MaxCalls /\ faults \in 0..MaxFaults /\ ejects \in 0..MaxEjects

\* The guard drops on an error, and nothing else.
Failing == pc = "release" => failure \in {"declined", "transport"}

\* Whose grant the drive may still hold for this call.
Ours ==
  /\ pc \in {"probe", "sweep", "allocate"} => mine = {}
  /\ pc \in Guarded => mine \subseteq {agid}
  /\ AgidReleased

\* The drive opened its sectors before the disc key is read.
Granted == (pc = "discKey" => asf \/ swapped) /\ UnlockIsReal

\* What an undisturbed call finds at each step: the sweep has freed what it
\* swept, and from the allocation on the drive knows the grant.
Room ==
  clean =>
    /\ ~cancelled
    /\ pc = "probe" => swept = {}
    /\ pc = "sweep" => held \cap swept = {}
    /\ pc = "allocate" => held = {}
    /\ pc \in Guarded => pc # "release" /\ agid \in held
    /\ pc = "idle" /\ verdict # "none" /\ disc = "dvd" => verdict = "unlocked"

TypeInv == DriveTypeOK /\ CallTypeOK /\ FlagsOK /\ WithinBounds /\ Failing
IInv    == TypeInv /\ Ours /\ Granted /\ Room

-----------------------------------------------------------------------------
(***************************************************************************)
(* Commands.                                                               *)
(***************************************************************************)

\* What any command, misbehaving or not, can do to the grants.
LEMMA SentDrive ==
  ASSUME NEW reply, NEW accepted, NEW grants, NEW open, NEW blocked,
         Sent(reply, accepted, grants, open, blocked)
  PROVE  /\ held' = held \/ held' = grants \/ held' = {}
         /\ mine' = (mine \cup (held' \ held)) \cap held'
         /\ UNCHANGED <<disc, cancelled, swapped, calls, ejects>>
  BY DEF Sent, Drive, Misbehaves, Replies

\* ... to the sectors,
LEMMA SentOpen ==
  ASSUME NEW reply, NEW accepted, NEW grants, NEW open, NEW blocked,
         Sent(reply, accepted, grants, open, blocked)
  PROVE  /\ asf' = asf \/ asf' = open \/ asf' = FALSE
         /\ reply \in {"good", "short"} => asf' = open
         /\ reply # "dead" => asf' = asf \/ asf' = open
  BY DEF Sent, Drive, Misbehaves, Replies

\* ... and to the counters.
LEMMA SentCount ==
  ASSUME NEW reply, NEW accepted, NEW grants, NEW open, NEW blocked,
         Sent(reply, accepted, grants, open, blocked), faults \in 0..MaxFaults
  PROVE  faults' \in 0..MaxFaults
<1>1. faults' = faults \/ (faults < MaxFaults /\ faults' = faults + 1)
  BY Zenon DEF Sent, Misbehaves
<1> QED
  BY <1>1, BoundsAssumption, SMT

\* A command that does not misbehave is executed unless a Stop blocks it.
LEMMA SentClean ==
  ASSUME NEW reply, NEW accepted, NEW grants, NEW open, NEW blocked,
         Sent(reply, accepted, grants, open, blocked), clean'
  PROVE  /\ clean
         /\ ~blocked /\ accepted => reply = "good"
         /\ held' = held \/ (reply = "good" /\ held' = grants)
         /\ reply = "good" => held' = grants
  BY DEF Sent, Drive, Misbehaves

\* A command leaves the history Boolean.
LEMMA SentFlag ==
  ASSUME NEW reply, NEW accepted, NEW grants, NEW open, NEW blocked,
         Sent(reply, accepted, grants, open, blocked), clean \in BOOLEAN
  PROVE  clean' \in BOOLEAN
  BY DEF Sent, Misbehaves

\* A command that does misbehave is counted.
LEMMA SentExcused ==
  ASSUME NEW reply, NEW accepted, NEW grants, NEW open, NEW blocked,
         Sent(reply, accepted, grants, open, blocked), faults \in 0..MaxFaults,
         faults' = faults
  PROVE  ~blocked /\ accepted => reply = "good" /\ held' = grants
<1>1. faults' # faults + 1
  BY BoundsAssumption, SMT
<1> QED
  BY <1>1, Zenon DEF Sent, Drive, Misbehaves

-----------------------------------------------------------------------------
(***************************************************************************)
(* Ranges.                                                                 *)
(***************************************************************************)

\* The drive and the grants stay in their ranges.
LEMMA DriveStep == TypeInv /\ Next => DriveTypeOK'
<1> SUFFICES ASSUME TypeInv, Next PROVE DriveTypeOK'
  OBVIOUS
<1> USE DEF TypeInv, DriveTypeOK
<1>1. ASSUME NEW reply, NEW accepted, NEW grants \in SUBSET Agids, NEW open, NEW blocked,
             Sent(reply, accepted, grants, open, blocked)
      PROVE  DriveTypeOK'
  BY <1>1, SentDrive
<1>2. CASE Begin
  BY <1>2 DEF Begin, driveVars
<1>3. CASE Probe
  BY <1>3, <1>1 DEF Probe, Asks
<1>4. CASE Sweep
  BY <1>4, <1>1 DEF Sweep
<1>5. CASE Allocate
  BY <1>5, <1>1 DEF Allocate
<1>6. ASSUME NEW at, NEW next, NEW open, NEW fine, Handshake(at, next, open, fine)
      PROVE  DriveTypeOK'
  BY <1>6, <1>1 DEF Handshake
<1>7. CASE HostChallenge \/ Key1 \/ DriveChallenge \/ Key2
  BY <1>7, <1>6 DEF HostChallenge, Key1, DriveChallenge, Key2
<1>8. CASE Release
  BY <1>8, <1>1 DEF Release
<1>9. CASE DiscKey
  BY <1>9, <1>1 DEF DiscKey, Asks
<1>10. CASE Stop
  BY <1>10 DEF Stop, driveVars
<1>11. CASE Eject
  BY <1>11 DEF Eject
<1> QED
  BY <1>2, <1>3, <1>4, <1>5, <1>7, <1>8, <1>9, <1>10, <1>11 DEF Next, Host

\* The call stays in its ranges, and the guard lives where it should.
LEMMA CallStep == TypeInv /\ Next => CallTypeOK' /\ Failing'
<1> SUFFICES ASSUME TypeInv, Next PROVE CallTypeOK' /\ Failing'
  OBVIOUS
<1> USE AgidsAssumption DEF TypeInv, CallTypeOK, Failing, Steps, Guarded, Goto, End, Heard, StepErr
<1>1. CASE Begin
  BY <1>1 DEF Begin
<1>2. CASE Probe
  BY <1>2 DEF Probe, Asks
<1>3. CASE Sweep
  BY <1>3 DEF Sweep
<1>4. CASE Allocate
  BY <1>4 DEF Allocate
<1>5. CASE HostChallenge
  BY <1>5 DEF HostChallenge, Handshake
<1>6. CASE Key1
  BY <1>6 DEF Key1, Handshake
<1>7. CASE DriveChallenge
  BY <1>7 DEF DriveChallenge, Handshake
<1>8. CASE Key2
  BY <1>8 DEF Key2, Handshake
<1>9. CASE Release
  BY <1>9 DEF Release
<1>10. CASE DiscKey
  BY <1>10 DEF DiscKey, Asks
<1>11. CASE Stop \/ Eject
  BY <1>11 DEF Stop, Eject, callVars
<1> QED
  BY <1>1, <1>2, <1>3, <1>4, <1>5, <1>6, <1>7, <1>8, <1>9, <1>10, <1>11 DEF Next, Host

\* The flags stay Boolean.
LEMMA FlagsStep == TypeInv /\ Next => FlagsOK'
<1> SUFFICES ASSUME TypeInv, Next PROVE FlagsOK'
  OBVIOUS
<1> USE DEF TypeInv, FlagsOK
<1>1. ASSUME NEW reply, NEW accepted, NEW grants, NEW open, NEW blocked,
             Sent(reply, accepted, grants, open, blocked), open \in BOOLEAN
      PROVE  asf' \in BOOLEAN /\ cancelled' \in BOOLEAN /\ clean' \in BOOLEAN
             /\ swapped' \in BOOLEAN
  BY <1>1, SentDrive, SentOpen, SentFlag
<1>2. CASE Begin
  BY <1>2 DEF Begin, driveVars
<1>3. CASE Probe
  BY <1>3, <1>1 DEF Probe, Asks
<1>4. CASE Sweep
  BY <1>4, <1>1 DEF Sweep
<1>5. CASE Allocate
  BY <1>5, <1>1 DEF Allocate
<1>6. ASSUME NEW at, NEW next, NEW open \in BOOLEAN, NEW fine, Handshake(at, next, open, fine)
      PROVE  FlagsOK'
  BY <1>6, <1>1 DEF Handshake
<1>7. CASE HostChallenge \/ Key1 \/ DriveChallenge \/ Key2
  BY <1>7, <1>6 DEF HostChallenge, Key1, DriveChallenge, Key2
<1>8. CASE Release
  BY <1>8, <1>1 DEF Release
<1>9. CASE DiscKey
  BY <1>9, <1>1 DEF DiscKey, Asks
<1>10. CASE Stop
  BY <1>10 DEF Stop, driveVars
<1>11. CASE Eject
  BY <1>11 DEF Eject
<1> QED
  BY <1>2, <1>3, <1>4, <1>5, <1>7, <1>8, <1>9, <1>10, <1>11 DEF Next, Host

\* The counters stay within their bounds.
LEMMA BoundsStep == TypeInv /\ Next => WithinBounds'
<1> SUFFICES ASSUME TypeInv, Next PROVE WithinBounds'
  OBVIOUS
<1> USE BoundsAssumption DEF TypeInv, WithinBounds
<1>1. ASSUME NEW reply, NEW accepted, NEW grants, NEW open, NEW blocked,
             Sent(reply, accepted, grants, open, blocked)
      PROVE  WithinBounds'
  BY <1>1, SentDrive, SentCount
<1>2. CASE Begin
  BY <1>2 DEF Begin
<1>3. CASE Probe \/ DiscKey
  BY <1>3, <1>1 DEF Probe, DiscKey, Asks
<1>4. CASE Sweep \/ Allocate \/ Release
  BY <1>4, <1>1 DEF Sweep, Allocate, Release
<1>5. ASSUME NEW at, NEW next, NEW open, NEW fine, Handshake(at, next, open, fine)
      PROVE  WithinBounds'
  BY <1>5, <1>1 DEF Handshake
<1>6. CASE HostChallenge \/ Key1 \/ DriveChallenge \/ Key2
  BY <1>6, <1>5 DEF HostChallenge, Key1, DriveChallenge, Key2
<1>7. CASE Stop
  BY <1>7 DEF Stop
<1>8. CASE Eject
  BY <1>8 DEF Eject
<1> QED
  BY <1>2, <1>3, <1>4, <1>6, <1>7, <1>8 DEF Next, Host

-----------------------------------------------------------------------------
(***************************************************************************)
(* Grants.                                                                 *)
(***************************************************************************)

\* A step of the handshake takes no grant.
LEMMA OursHandshake ==
  ASSUME TypeInv, Ours, NEW at \in Guarded, NEW next \in Guarded, NEW open, NEW fine,
         Handshake(at, next, open, fine)
  PROVE  Ours'
<1>1. mine' \subseteq mine /\ agid' = agid
  BY SentDrive DEF Handshake
<1>2. pc' \in Guarded /\ pc \in Guarded
  BY DEF Handshake, Goto, Guarded
<1> QED
  BY <1>1, <1>2 DEF Ours, AgidReleased, Guarded

\* Every step accounts for the grant of the call.
LEMMA OursStep == TypeInv /\ Ours /\ Next => Ours'
<1> SUFFICES ASSUME TypeInv, Ours, Next PROVE Ours'
  OBVIOUS
<1>1. CASE Begin
  BY <1>1 DEF Begin, Ours, AgidReleased, Guarded
<1>2. CASE Probe
  <2>1. mine' = {} /\ pc' \in {"sweep", "idle"}
    BY <1>2, SentDrive DEF Probe, Asks, Ours, Goto, End
  <2> QED
    BY <2>1 DEF Ours, AgidReleased, Guarded
<1>3. CASE Sweep
  <2>1. PICK a \in Agids, reply \in Replies : Sent(reply, TRUE, held \ {a}, asf, cancelled)
    BY <1>3 DEF Sweep
  <2>2. mine = {} /\ pc' \in {"sweep", "allocate"}
    BY <1>3 DEF Sweep, Ours, Goto
  <2>3. /\ held' = held \/ held' = held \ {a} \/ held' = {}
        /\ mine' = (mine \cup (held' \ held)) \cap held'
    BY <2>1, SentDrive, Zenon
  <2>4. mine' = {}
    BY <2>2, <2>3
  <2> QED
    BY <2>2, <2>4 DEF Ours, AgidReleased, Guarded
<1>4. CASE Allocate
  <2>1. PICK a \in Agids, reply \in Replies :
          /\ Sent(reply, a \notin held, held \cup {a}, asf, cancelled)
          /\ IF reply = "good"
             THEN Goto("hostChallenge") /\ agid' = a
             ELSE End(StepErr(reply)) /\ UNCHANGED agid
          /\ excused' = (reply # "good")
    BY <1>4 DEF Allocate
  <2>2. mine' \subseteq {a}
    BY <2>1, <1>4, SentDrive DEF Ours, Allocate
  <2>3. CASE reply = "good"
    <3>1. pc' = "hostChallenge" /\ agid' = a
      BY <2>1, <2>3 DEF Goto
    <3> QED
      BY <2>2, <3>1 DEF Ours, AgidReleased, Guarded
  <2>4. CASE reply # "good"
    <3>1. pc' = "idle" /\ excused'
      BY <2>1, <2>4 DEF End
    <3> QED
      BY <3>1 DEF Ours, AgidReleased, Guarded
  <2> QED
    BY <2>3, <2>4
<1>5. CASE HostChallenge \/ Key1 \/ DriveChallenge \/ Key2
  BY <1>5, OursHandshake DEF HostChallenge, Key1, DriveChallenge, Key2, Guarded
<1>6. CASE Release
  <2>1. PICK reply \in Replies :
          /\ Sent(reply, TRUE, held \ {agid}, asf, FALSE)
          /\ excused' = (excused \/ faults' # faults)
    BY <1>6 DEF Release, Cleanup
  <2>2. mine \subseteq {agid} /\ pc' = "idle"
    BY <1>6 DEF Release, Ours, Guarded, End
  <2>3. CASE faults' = faults
    <3>1. held' = held \ {agid}
      BY <2>1, <2>3, SentExcused DEF TypeInv, WithinBounds
    <3>2. mine' = {}
      BY <2>1, <2>2, <3>1, SentDrive
    <3> QED
      BY <2>2, <3>2 DEF Ours, AgidReleased, Guarded
  <2>4. CASE faults' # faults
    <3>1. excused'
      BY <2>1, <2>4
    <3> QED
      BY <2>2, <3>1 DEF Ours, AgidReleased, Guarded
  <2> QED
    BY <2>3, <2>4
<1>7. CASE DiscKey
  BY <1>7 DEF DiscKey, End, Ours, AgidReleased, Guarded
<1>8. CASE Stop
  BY <1>8 DEF Stop, callVars, Ours, AgidReleased, Guarded
<1>9. CASE Eject
  BY <1>9 DEF Eject, callVars, Ours, AgidReleased, Guarded
<1> QED
  BY <1>1, <1>2, <1>3, <1>4, <1>5, <1>6, <1>7, <1>8, <1>9 DEF Next, Host

-----------------------------------------------------------------------------
(***************************************************************************)
(* Sectors, and room for a call.                                           *)
(***************************************************************************)

\* Every step on the way to "unlocked" keeps the sectors open.
LEMMA GrantedStep == TypeInv /\ Granted /\ Next => Granted'
<1> SUFFICES ASSUME TypeInv, Granted, Next PROVE Granted'
  OBVIOUS
<1>1. CASE Begin
  BY <1>1 DEF Begin, Granted, UnlockIsReal
<1>2. CASE Probe \/ Sweep \/ Allocate
  <2>1. pc' # "discKey" /\ (pc' # "idle" \/ verdict' # "unlocked")
    BY <1>2 DEF Probe, Sweep, Allocate, Goto, End, StepErr
  <2> QED
    BY <2>1 DEF Granted, UnlockIsReal
<1>3. CASE HostChallenge \/ Key1 \/ DriveChallenge
  <2>1. pc' # "discKey" /\ pc' # "idle"
    BY <1>3 DEF HostChallenge, Key1, DriveChallenge, Handshake, Goto
  <2> QED
    BY <2>1 DEF Granted, UnlockIsReal
<1>4. CASE Key2
  <2>1. PICK reply \in Replies :
          /\ Sent(reply, agid \in held, held, TRUE, cancelled)
          /\ IF reply \in Taken
             THEN Goto("discKey") /\ UNCHANGED failure
             ELSE Goto("release") /\ failure' = StepErr(reply)
    BY <1>4 DEF Key2, Handshake
  <2>2. pc' # "idle" /\ (pc' = "discKey" => reply \in Taken)
    BY <2>1 DEF Goto
  <2>3. reply \in Taken => asf' = TRUE
    BY <2>1, SentOpen DEF Taken
  <2> QED
    BY <2>2, <2>3, Zenon DEF Granted, UnlockIsReal
<1>5. CASE Release
  BY <1>5 DEF Release, End, Granted, UnlockIsReal, TypeInv, Failing
<1>6. CASE DiscKey
  <2>1. PICK reply \in Replies :
          Sent(reply, agid \in held, held, asf, cancelled) /\ Heard(reply)
    BY <1>6 DEF DiscKey, Asks
  <2>2. asf \/ swapped
    BY <1>6 DEF DiscKey, Granted
  <2>3. swapped' = swapped
    BY <2>1, SentDrive
  <2>4. asf' = asf \/ hush' = "discKey"
    BY <2>1, <1>6, SentOpen DEF Heard, DiscKey
  <2>5. pc' = "idle"
    BY <1>6 DEF DiscKey, End
  <2> QED
    BY <2>2, <2>3, <2>4, <2>5 DEF Granted, UnlockIsReal
<1>7. CASE Stop
  BY <1>7 DEF Stop, callVars, driveVars, Granted, UnlockIsReal
<1>8. CASE Eject
  BY <1>8 DEF Eject, callVars, Granted, UnlockIsReal
<1> QED
  BY <1>1, <1>2, <1>3, <1>4, <1>5, <1>6, <1>7, <1>8 DEF Next, Host

\* A step of an undisturbed handshake succeeds.
LEMMA RoomHandshake ==
  ASSUME TypeInv, Room, NEW at \in Guarded \ {"release"}, NEW next \in Guarded \ {"release"},
         NEW open, NEW fine, "good" \in fine, Handshake(at, next, open, fine)
  PROVE  Room'
<1> SUFFICES ASSUME clean' PROVE Room'
  BY DEF Room
<1>1. PICK reply \in Replies :
        /\ Sent(reply, agid \in held, held, open, cancelled)
        /\ IF reply \in fine
           THEN Goto(next) /\ UNCHANGED failure
           ELSE Goto("release") /\ failure' = StepErr(reply)
  BY DEF Handshake
<1>2. clean /\ held' = held /\ cancelled' = cancelled
  BY <1>1, SentClean, SentDrive
<1>3. ~cancelled /\ agid \in held
  BY <1>2 DEF Room, Handshake
<1>4. reply = "good"
  BY <1>1, <1>3, Zenon DEF Sent, Misbehaves
<1>5. pc' = next /\ agid' = agid
  BY <1>1, <1>4 DEF Goto, Handshake
<1> QED
  BY <1>2, <1>3, <1>5 DEF Room, Guarded

\* Every step of an undisturbed call leaves room for the next one.
LEMMA RoomStep == TypeInv /\ Room /\ Next => Room'
<1> SUFFICES ASSUME TypeInv, Room, Next, clean' PROVE Room'
  BY DEF Room
<1>1. CASE Begin
  BY <1>1 DEF Begin, Room, Guarded
<1>2. CASE Probe
  <2>1. PICK reply \in Replies :
          /\ Sent(reply, TRUE, held, asf, cancelled)
          /\ CASE reply = "good" ->
                    IF disc = "dvd" THEN Goto("sweep") ELSE End("declined")
               [] reply = "dead" -> End("transport")
               [] reply = "raised" -> End("notApplicable")
               [] OTHER -> End("declined")
    BY <1>2 DEF Probe, Asks
  <2>2. clean /\ held' = held /\ cancelled' = cancelled /\ disc' = disc
    BY <2>1, SentClean, SentDrive
  <2>3. ~cancelled /\ swept = {} /\ swept' = swept
    BY <2>2, <1>2 DEF Room, Probe
  <2>4. reply = "good"
    BY <2>1, <2>3, Zenon DEF Sent, Misbehaves
  <2>5. pc' = "sweep" \/ (pc' = "idle" /\ disc # "dvd")
    BY <2>1, <2>4 DEF Goto, End
  <2> QED
    BY <2>2, <2>3, <2>5 DEF Room, Guarded
<1>3. CASE Sweep
  <2>1. PICK a \in Agids, reply \in Replies :
          /\ Sent(reply, TRUE, held \ {a}, asf, cancelled)
          /\ swept' = swept \cup {a}
    BY <1>3 DEF Sweep
  <2>2. clean /\ cancelled' = cancelled
    BY <2>1, SentClean, SentDrive
  <2>3. ~cancelled /\ held \cap swept = {}
    BY <2>2, <1>3 DEF Room, Sweep
  <2>4. held' = held \ {a}
    BY <2>1, <2>3, Zenon DEF Sent, Misbehaves, Drive
  <2>5. held' \cap swept' = {}
    BY <2>1, <2>3, <2>4
  <2>6. pc' = "sweep" \/ (pc' = "allocate" /\ swept' = Agids)
    BY <1>3 DEF Sweep, Goto
  <2>7. held' \subseteq Agids
    BY <2>4 DEF TypeInv, DriveTypeOK
  <2>8. CASE pc' = "sweep"
    BY <2>2, <2>3, <2>5, <2>8 DEF Room, Guarded
  <2>9. CASE pc' = "allocate" /\ swept' = Agids
    <3>1. held' = {}
      BY <2>5, <2>7, <2>9
    <3> QED
      BY <2>2, <2>3, <2>9, <3>1 DEF Room, Guarded
  <2> QED
    BY <2>6, <2>8, <2>9
<1>4. CASE Allocate
  <2>1. PICK a \in Agids, reply \in Replies :
          /\ Sent(reply, a \notin held, held \cup {a}, asf, cancelled)
          /\ IF reply = "good"
             THEN Goto("hostChallenge") /\ agid' = a
             ELSE End(StepErr(reply)) /\ UNCHANGED agid
    BY <1>4 DEF Allocate
  <2>2. clean /\ cancelled' = cancelled
    BY <2>1, SentClean, SentDrive
  <2>3. ~cancelled /\ held = {}
    BY <2>2, <1>4 DEF Room, Allocate
  <2>4. reply = "good" /\ held' = held \cup {a}
    <3>1. a \notin held
      BY <2>3
    <3> QED
      BY <2>1, <2>3, <3>1, Zenon DEF Sent, Misbehaves, Drive
  <2>5. pc' = "hostChallenge" /\ agid' = a
    BY <2>1, <2>4 DEF Goto
  <2> QED
    BY <2>2, <2>3, <2>4, <2>5 DEF Room, Guarded
<1>5. CASE HostChallenge \/ Key1 \/ DriveChallenge \/ Key2
  <2> DEFINE Busy == Guarded \ {"release"}
  <2>1. /\ {"hostChallenge", "key1", "driveChallenge", "key2", "discKey"} \subseteq Busy
        /\ "good" \in Taken /\ "good" \in Answered
    BY DEF Guarded, Taken, Answered
  <2>2. CASE HostChallenge
    BY <2>1, <2>2, RoomHandshake, Zenon DEF HostChallenge
  <2>3. CASE Key1
    BY <2>1, <2>3, RoomHandshake, Zenon DEF Key1
  <2>4. CASE DriveChallenge
    BY <2>1, <2>4, RoomHandshake, Zenon DEF DriveChallenge
  <2>5. CASE Key2
    BY <2>1, <2>5, RoomHandshake, Zenon DEF Key2
  <2> QED
    BY <1>5, <2>2, <2>3, <2>4, <2>5
<1>6. CASE Release
  <2>1. clean
    BY <1>6, SentClean DEF Release
  <2> QED
    BY <2>1, <1>6 DEF Room, Release, Guarded
<1>7. CASE DiscKey
  <2>1. clean /\ cancelled' = cancelled
    BY <1>7, SentClean, SentDrive DEF DiscKey, Asks
  <2>2. pc' = "idle" /\ verdict' = "unlocked"
    BY <1>7 DEF DiscKey, End
  <2> QED
    BY <2>1, <2>2 DEF Room, Guarded
<1>8. CASE Stop \/ Eject
  BY <1>8 DEF Stop, Eject
<1> QED
  BY <1>1, <1>2, <1>3, <1>4, <1>5, <1>6, <1>7, <1>8 DEF Next, Host

\* The first call finds the invariant in place.
LEMMA InitInv == Init => IInv
<1> SUFFICES ASSUME Init PROVE IInv
  OBVIOUS
<1>1. DriveTypeOK
  BY DEF Init, DriveTypeOK
<1>2. CallTypeOK /\ Failing
  BY DEF Init, CallTypeOK, Failing, Steps, Guarded
<1>3. FlagsOK
  BY DEF Init, FlagsOK
<1>4. WithinBounds
  BY BoundsAssumption DEF Init, WithinBounds
<1>5. Ours /\ Granted /\ Room
  BY DEF Init, Ours, AgidReleased, Granted, UnlockIsReal, Room, Guarded
<1> QED
  BY <1>1, <1>2, <1>3, <1>4, <1>5 DEF IInv, TypeInv

\* The invariant holds in every reachable state.
LEMMA Invariant == Spec => []IInv
<1>1. IInv /\ Next => IInv'
  BY DriveStep, CallStep, FlagsStep, BoundsStep, OursStep, GrantedStep, RoomStep
  DEF IInv, TypeInv
<1>2. IInv /\ UNCHANGED vars => IInv'
  BY DEF vars, driveVars, callVars, history, IInv, TypeInv, DriveTypeOK, CallTypeOK, FlagsOK,
     WithinBounds, Failing, Ours, AgidReleased, Granted, UnlockIsReal, Room
<1> QED
  BY InitInv, <1>1, <1>2, PTL DEF Spec

-----------------------------------------------------------------------------

\* The variables stay in their ranges, and an AGID guard is alive exactly where
\* the handshake, the release or the disc key read needs it.
THEOREM TypeCorrect == Spec => []TypeOK
<1>1. IInv => TypeOK
  BY DEF IInv, TypeInv, DriveTypeOK, CallTypeOK, FlagsOK, WithinBounds, Guarded, TypeOK
<1> QED
  BY Invariant, <1>1, PTL

\* For any number of grants and however the commands of a call misbehave, a
\* call that does not unlock has given its grant back, unless the allocation or
\* the release itself misbehaved.
THEOREM GrantGivenBack == Spec => []AgidReleased
<1>1. IInv => AgidReleased
  BY DEF IInv, Ours
<1> QED
  BY Invariant, <1>1, PTL

\* The sweep makes room: whichever grants were abandoned before, an undisturbed
\* call on a DVD unlocks it.
THEOREM SweepMakesRoom == Spec => []NeverStarved
<1>1. IInv => NeverStarved
  BY DEF IInv, Room, NeverStarved
<1> QED
  BY Invariant, <1>1, PTL

\* "Unlocked" is said of a drive whose sectors are open, unless a new disc came
\* or the bus died in the disc key read.
THEOREM UnlocksAreReal == Spec => []UnlockIsReal
<1>1. IInv => UnlockIsReal
  BY DEF IInv, Granted
<1> QED
  BY Invariant, <1>1, PTL
-----------------------------------------------------------------------------
(***************************************************************************)
(* How long a call can take.                                               *)
(***************************************************************************)

\* How many commands are left of the call, at most: the grants the sweep has
\* still to free, and the handshake behind them.
Remaining ==
  CASE pc = "idle"           -> 0
    [] pc = "release"        -> 1
    [] pc = "discKey"        -> 1
    [] pc = "key2"           -> 2
    [] pc = "driveChallenge" -> 3
    [] pc = "key1"           -> 4
    [] pc = "hostChallenge"  -> 5
    [] pc = "allocate"       -> 6
    [] pc = "sweep"          -> Cardinality(Agids \ swept) + 6
    [] pc = "probe"          -> Cardinality(Agids) + 7

Budget == Cardinality(Agids) + 7

\* The grants the sweep has not tried yet are finitely many, and one fewer
\* behind every try.
LEMMA Unswept ==
  /\ Cardinality(Agids) \in Nat
  /\ \A tried : /\ Cardinality(Agids \ tried) \in Nat
                /\ Cardinality(Agids \ tried) <= Cardinality(Agids)
  /\ \A tried : \A a \in Agids \ tried :
       Cardinality(Agids \ (tried \cup {a})) = Cardinality(Agids \ tried) - 1
<1>1. Cardinality(Agids) \in Nat
  BY AgidsAssumption, FS_CardinalityType
<1>2. ASSUME NEW tried
      PROVE  /\ IsFiniteSet(Agids \ tried) /\ Cardinality(Agids \ tried) \in Nat
             /\ Cardinality(Agids \ tried) <= Cardinality(Agids)
  <2>1. Agids \ tried \subseteq Agids OBVIOUS
  <2>2. IsFiniteSet(Agids \ tried) /\ Cardinality(Agids \ tried) <= Cardinality(Agids)
    BY <2>1, AgidsAssumption, FS_Subset
  <2> QED BY <2>2, FS_CardinalityType
<1>3. ASSUME NEW tried, NEW a \in Agids \ tried
      PROVE  Cardinality(Agids \ (tried \cup {a})) = Cardinality(Agids \ tried) - 1
  <2>1. Agids \ (tried \cup {a}) = (Agids \ tried) \ {a} OBVIOUS
  <2> QED BY <1>2, <2>1, FS_RemoveElement
<1> QED BY <1>1, <1>2, <1>3

\* What is left is a number, and at most a full budget.
LEMMA WithinBudget == TypeInv => Remaining \in 0..Budget
<1> SUFFICES ASSUME TypeInv PROVE Remaining \in 0..Budget
  OBVIOUS
<1>1. pc \in Steps BY DEF TypeInv, CallTypeOK
<1> DEFINE all  == Cardinality(Agids)
           rest == Cardinality(Agids \ swept)
<1>2. all \in Nat /\ rest \in Nat /\ rest <= all BY Unswept
<1> HIDE DEF all, rest
<1>3. Remaining = CASE pc = "idle"           -> 0
                    [] pc = "release"        -> 1
                    [] pc = "discKey"        -> 1
                    [] pc = "key2"           -> 2
                    [] pc = "driveChallenge" -> 3
                    [] pc = "key1"           -> 4
                    [] pc = "hostChallenge"  -> 5
                    [] pc = "allocate"       -> 6
                    [] pc = "sweep"          -> rest + 6
                    [] pc = "probe"          -> all + 7
  BY DEF Remaining, all, rest
<1>4. Remaining \in Nat BY <1>1, <1>2, <1>3 DEF Steps
<1>5. Remaining <= all + 7 BY <1>1, <1>2, <1>3 DEF Steps
<1> QED BY <1>2, <1>4, <1>5 DEF Budget, all

\* Whatever the drive answers, every command of a call brings it nearer its end,
\* and one command per grant and seven are the most it takes; neither a Stop nor
\* a new disc lengthens it (DvdUnlocker::unlock, invalidate_agids).
THEOREM CallsAreBounded ==
  Spec => /\ [](Remaining \in 0..Budget)
          /\ [][/\ Host => Remaining' < Remaining
                /\ Stop \/ Eject => Remaining' = Remaining]_vars
<1> DEFINE Step == /\ Host => Remaining' < Remaining
                   /\ Stop \/ Eject => Remaining' = Remaining
<1>1. IInv => Remaining \in 0..Budget
  BY WithinBudget DEF IInv
<1>2. IInv /\ [Next]_vars => [Step]_vars
  <2> SUFFICES ASSUME IInv PROVE Step
    OBVIOUS
  <2>1. ASSUME Probe PROVE Remaining' < Remaining
    <3>1. /\ pc = "probe" /\ swept' = swept /\ pc' \in {"sweep", "idle"}
      BY <2>1 DEF Probe, Goto, End
    <3>2. Remaining = Cardinality(Agids) + 7 BY <3>1 DEF Remaining
    <3>3. Remaining' \in {Cardinality(Agids \ swept) + 6, 0} BY <3>1 DEF Remaining
    <3> QED BY <3>2, <3>3, Unswept
  <2>2. ASSUME Sweep PROVE Remaining' < Remaining
    <3>1. PICK a \in Agids \ swept : swept' = swept \cup {a}
      BY <2>2 DEF Sweep
    <3>2. pc = "sweep" /\ pc' \in {"sweep", "allocate"}
      BY <2>2 DEF Sweep, Goto
    <3>3. Remaining = Cardinality(Agids \ swept) + 6 BY <3>2 DEF Remaining
    <3>4. Remaining' \in {Cardinality(Agids \ (swept \cup {a})) + 6, 6}
      BY <3>1, <3>2 DEF Remaining
    <3>5. /\ Cardinality(Agids \ (swept \cup {a})) = Cardinality(Agids \ swept) - 1
          /\ Cardinality(Agids \ (swept \cup {a})) \in Nat /\ Cardinality(Agids \ swept) \in Nat
      BY Unswept
    <3> QED BY <3>3, <3>4, <3>5
  <2>3. ASSUME Allocate \/ HostChallenge \/ Key1 \/ DriveChallenge \/ Key2 \/ Release \/ DiscKey
        PROVE  Remaining' < Remaining
    <3>1. \/ pc = "allocate" /\ pc' \in {"hostChallenge", "idle"}
          \/ pc = "hostChallenge" /\ pc' \in {"key1", "release"}
          \/ pc = "key1" /\ pc' \in {"driveChallenge", "release"}
          \/ pc = "driveChallenge" /\ pc' \in {"key2", "release"}
          \/ pc = "key2" /\ pc' \in {"discKey", "release"}
          \/ pc \in {"release", "discKey"} /\ pc' = "idle"
      BY <2>3 DEF Allocate, HostChallenge, Key1, DriveChallenge, Key2, Handshake, Release,
         DiscKey, Goto, End
    <3> QED BY <3>1 DEF Remaining
  <2>4. Stop \/ Eject => Remaining' = Remaining
    BY DEF Stop, Eject, callVars, Remaining
  <2> QED BY <2>1, <2>2, <2>3, <2>4 DEF Host
<1> QED
  BY Invariant, <1>1, <1>2, PTL DEF Spec
=============================================================================
