------------------------------ MODULE CssAuth ------------------------------
(***************************************************************************)
(* DvdUnlocker calls on one drive (css/mod.rs): is the disc a DVD, the     *)
(* sweep that frees every AGID, the allocation of one, the challenge and   *)
(* response that set the drive's Authentication Success Flag, the guard    *)
(* that frees the AGID of a failed handshake, and the disc key read, which *)
(* nobody waits for.                                                       *)
(*                                                                         *)
(* One step is one command.  Keys are not computed: an answer either fits  *)
(* one of the 32 variants or it does not ("short" stands for that, too).   *)
(* At most MaxFaults commands of a behaviour misbehave; a Stop may come at *)
(* any time, and a new disc at most MaxEjects times.                       *)
(***************************************************************************)
EXTENDS FiniteSets, Naturals

CONSTANTS
  Agids,      \* the drive's authentication grants
  None,       \* no grant
  MaxCalls, MaxFaults, MaxEjects

ASSUME AgidsAssumption == IsFiniteSet(Agids) /\ Agids # {} /\ None \notin Agids
ASSUME BoundsAssumption == MaxCalls \in Nat /\ MaxFaults \in Nat /\ MaxEjects \in Nat

\* "raised" is a drive sense that arrives as an Err.
Replies == {"good", "sense", "raised", "short", "dead"}

VARIABLES
  \* the drive
  disc,       \* "dvd" or "other"
  held,       \* the grants it has given out
  asf,        \* scrambled sectors can be read
  \* the call
  pc, swept,  \* the grants the sweep has tried to free
  agid,       \* what AgidGuard holds
  failure,    \* the error it drops on
  cancelled, verdict,
  \* history
  mine,       \* the grants of this call the drive has not had back
  excused,    \* the allocation or the release of this call misbehaved
  clean,      \* no fault, Stop or new disc since the call began
  swapped,    \* a new disc since the drive took Key2
  hush,       \* the step whose dead bus was the last answer waited for
  calls, faults, ejects

driveVars == <<disc, held, asf>>
callVars  == <<pc, swept, agid, failure, verdict>>
history   == <<mine, excused, clean, swapped, hush>>
vars      == <<driveVars, callVars, cancelled, history, calls, faults, ejects>>

Steps == {"idle", "probe", "sweep", "allocate", "hostChallenge", "key1", "driveChallenge",
          "key2", "release", "discKey"}

-----------------------------------------------------------------------------
(***************************************************************************)
(* Commands.                                                               *)
(***************************************************************************)

Goto(next)   == pc' = next /\ UNCHANGED verdict
End(outcome) == pc' = "idle" /\ verdict' = outcome

\* The drive after a command: the grants it holds, and whether reads are open.
Drive(grants, open) ==
  /\ held' = grants /\ asf' = open
  /\ mine' = (mine \cup (grants \ held)) \cap grants

\* A misbehaving command may have been executed, and a bus fault may have reset
\* the drive.
Misbehaves(reply, grants, open) ==
  /\ faults < MaxFaults /\ faults' = faults + 1
  /\ clean' = FALSE
  /\ CASE reply \in {"sense", "raised"} -> Drive(held, asf)
       [] reply = "short" -> Drive(grants, open)
       [] reply = "dead" -> \/ Drive(held, asf) \/ Drive(grants, open) \/ Drive({}, FALSE)

\* A command with its effect on the drive, which the drive accepts or refuses: a
\* "short" answer is one it accepted.  A Stop keeps it from the drive, unless it
\* is a clean-up.
Sent(reply, accepted, grants, open, blocked) ==
  /\ \/ /\ reply = IF blocked THEN "dead" ELSE IF accepted THEN "good" ELSE "sense"
        /\ IF reply = "good" THEN Drive(grants, open) ELSE Drive(held, asf)
        /\ UNCHANGED <<faults, clean>>
     \/ /\ ~blocked
        /\ reply \in Replies \ {"good"} /\ (reply = "short" => accepted)
        /\ Misbehaves(reply, grants, open)
  /\ UNCHANGED <<disc, cancelled, swapped, calls, ejects>>

\* The answer to a command the call waits for.
Heard(reply) == hush' = IF reply = "dead" THEN pc ELSE "none"

\* A command that only looks at the drive.
Asks(reply, accepted) == Sent(reply, accepted, held, asf, cancelled) /\ Heard(reply)

\* step_err, and From<Error> for UnlockError: only a dead bus is a transport
\* failure.
StepErr(reply) == IF reply = "dead" THEN "transport" ELSE "declined"

-----------------------------------------------------------------------------
(***************************************************************************)
(* The call.                                                               *)
(***************************************************************************)

Begin ==
  /\ pc = "idle"
  /\ calls < MaxCalls /\ calls' = calls + 1
  /\ pc' = "probe" /\ verdict' = "running"
  /\ cancelled' = FALSE
  /\ swept' = {} /\ agid' = None /\ failure' = "none"
  /\ mine' = {} /\ excused' = FALSE /\ clean' = TRUE /\ swapped' = FALSE /\ hush' = "none"
  /\ UNCHANGED <<driveVars, faults, ejects>>

\* mounted_disc_is_dvd: a sense that arrives as an Err is an Err of the call.
Probe ==
  /\ pc = "probe"
  /\ \E reply \in Replies :
       /\ Asks(reply, TRUE)
       /\ CASE reply = "good" ->
                 IF disc = "dvd" THEN Goto("sweep") ELSE End("declined")
            [] reply = "dead" -> End("transport")
            [] reply = "raised" -> End("notApplicable")
            [] OTHER -> End("declined")
  /\ UNCHANGED <<swept, agid, failure, excused>>

\* Variant: the sweep sends another key format.
SweepAsks ==
  /\ pc = "sweep"
  /\ \E a \in Agids \ swept, reply \in Replies :
       /\ Asks(reply, TRUE)
       /\ swept' = swept \cup {a}
  /\ Goto(IF swept' = Agids THEN "allocate" ELSE "sweep")
  /\ UNCHANGED <<agid, failure, excused>>

\* invalidate_agid, for every grant, whoever holds it; the answers are ignored.
Sweep ==
  /\ pc = "sweep"
  /\ \E a \in Agids \ swept, reply \in Replies :
       /\ Sent(reply, TRUE, held \ {a}, asf, cancelled) /\ Heard(reply)
       /\ swept' = swept \cup {a}
  /\ Goto(IF swept' = Agids THEN "allocate" ELSE "sweep")
  /\ UNCHANGED <<agid, failure, excused>>

\* The grant is guarded only once its number is known.
Allocate ==
  /\ pc = "allocate"
  /\ \E a \in Agids, reply \in Replies :
       /\ a \in held => held = Agids
       /\ Sent(reply, a \notin held, held \cup {a}, asf, cancelled) /\ Heard(reply)
       /\ IF reply = "good"
          THEN Goto("hostChallenge") /\ agid' = a
          ELSE End(StepErr(reply)) /\ UNCHANGED agid
       /\ excused' = (reply # "good")
  /\ UNCHANGED <<swept, failure>>

\* One step of authenticate_with_agid: an error drops the guard.
Handshake(at, next, open, fine) ==
  /\ pc = at
  /\ \E reply \in Replies :
       /\ Sent(reply, agid \in held, held, open, cancelled) /\ Heard(reply)
       /\ IF reply \in fine
          THEN Goto(next) /\ UNCHANGED failure
          ELSE Goto("release") /\ failure' = StepErr(reply)
  /\ UNCHANGED <<swept, agid, excused>>

\* An answer has its length, and where it is a key it fits a variant; SEND KEY
\* has no answer to measure.
Answered == {"good"}
Taken    == {"good", "short"}

HostChallenge  == Handshake("hostChallenge", "key1", asf, Taken)
Key1           == Handshake("key1", "driveChallenge", asf, Answered)
DriveChallenge == Handshake("driveChallenge", "key2", asf, Answered)

\* Variant: nobody looks at the answer to Key2.
Key2Unchecked ==
  /\ pc = "key2"
  /\ \E reply \in Replies : Sent(reply, agid \in held, held, TRUE, cancelled) /\ Heard(reply)
  /\ Goto("discKey")
  /\ UNCHANGED <<swept, agid, failure, excused>>

\* The drive accepts Key2 and opens its sectors; the guard is defused.
Key2 == Handshake("key2", "discKey", TRUE, Taken)

\* Variant: the release is a command like any other, and a Stop refuses it.
CleanupBlocked == cancelled

\* execute_cleanup reaches the drive after a Stop, too.
Cleanup == FALSE

\* AgidGuard is dropped; a failed release changes nothing for the caller.
Release ==
  /\ pc = "release"
  /\ \E reply \in Replies :
       /\ Sent(reply, TRUE, held \ {agid}, asf, Cleanup)
       /\ excused' = (excused \/ faults' # faults)
  /\ End(failure)
  /\ agid' = None
  /\ UNCHANGED <<swept, failure, hush>>

\* read_disc_key under the grant that is still held; a dead bus is no failure.
DiscKey ==
  /\ pc = "discKey"
  /\ \E reply \in Replies : Asks(reply, agid \in held)
  /\ End("unlocked")
  /\ agid' = None
  /\ UNCHANGED <<swept, failure, excused>>

-----------------------------------------------------------------------------

Stop ==
  /\ pc # "idle"
  /\ ~cancelled
  /\ cancelled' = TRUE
  /\ clean' = FALSE
  /\ UNCHANGED <<driveVars, callVars, mine, excused, swapped, hush, calls, faults, ejects>>

\* A new disc closes the drive's sessions.
Eject ==
  /\ ejects < MaxEjects /\ ejects' = ejects + 1
  /\ disc' \in {"dvd", "other"}
  /\ held' = {} /\ asf' = FALSE /\ mine' = {}
  /\ clean' = FALSE /\ swapped' = (swapped \/ pc \in {"discKey", "idle"})
  /\ UNCHANGED <<callVars, cancelled, excused, hush, calls, faults>>

Host ==
  \/ Probe \/ Sweep \/ Allocate \/ HostChallenge \/ Key1 \/ DriveChallenge \/ Key2
  \/ Release \/ DiscKey

\* The grants earlier sessions abandoned are still given out.
Init ==
  /\ disc \in {"dvd", "other"} /\ held \in SUBSET Agids /\ asf \in BOOLEAN
  /\ pc = "idle" /\ swept = {} /\ agid = None /\ failure = "none"
  /\ cancelled = FALSE /\ verdict = "none"
  /\ mine = {} /\ excused = FALSE /\ clean = TRUE /\ swapped = FALSE /\ hush = "none"
  /\ calls = 0 /\ faults = 0 /\ ejects = 0

Next == Begin \/ Host \/ Stop \/ Eject

Spec == Init /\ [][Next]_vars

-----------------------------------------------------------------------------
(***************************************************************************)
(* Properties.                                                             *)
(***************************************************************************)

\* The variables stay in their ranges, and a guard exists exactly while the
\* handshake, the release or the disc key read needs it.
TypeOK ==
  /\ disc \in {"dvd", "other"} /\ held \subseteq Agids /\ asf \in BOOLEAN
  /\ pc \in Steps /\ swept \subseteq Agids
  /\ agid \in Agids \cup {None}
  /\ agid # None <=>
       pc \in {"hostChallenge", "key1", "driveChallenge", "key2", "release", "discKey"}
  /\ failure \in {"none", "declined", "transport"}
  /\ verdict \in {"none", "running", "unlocked", "declined", "notApplicable", "transport"}
  /\ cancelled \in BOOLEAN /\ excused \in BOOLEAN /\ clean \in BOOLEAN
  /\ swapped \in BOOLEAN
  /\ mine \subseteq held
  /\ hush \in Steps \cup {"none"}
  /\ calls \in 0..MaxCalls /\ faults \in 0..MaxFaults /\ ejects \in 0..MaxEjects

\* "Exactly one release per allocation": a call that does not unlock gives its
\* grant back, after a Stop or a dead bus as well, unless the allocation or the
\* release itself misbehaved.
AgidReleased ==
  pc = "idle" /\ verdict \notin {"none", "unlocked"} /\ ~excused => mine = {}

\* However many grants earlier calls and other programs abandoned, an
\* undisturbed call on a DVD unlocks it: the sweep makes room for it.
NeverStarved == pc = "idle" /\ verdict # "none" /\ clean /\ disc = "dvd" => verdict = "unlocked"

\* An unlock that is reported is one the drive granted to the disc in it: its
\* sectors are open, unless the disc went after the drive took Key2, or the bus
\* died in the disc key read.  One that went earlier, although its kind had been
\* read, took the sessions with it, and the call is not to report its unlock.
UnlockIsReal ==
  pc = "idle" /\ verdict = "unlocked" => asf \/ swapped \/ hush = "discKey"

\* "Err(Transport) on a dead bus": whichever command met it, the disc key read
\* included, and so did a Stop.
DeadBusAborts == pc = "idle" /\ verdict = "unlocked" => hush = "none"

\* "Only a dead bus is Err".
OnlyDeadBusIsErr == verdict # "notApplicable"

=============================================================================
