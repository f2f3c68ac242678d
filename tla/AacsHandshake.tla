--------------------------- MODULE AacsHandshake ---------------------------
(***************************************************************************)
(* One AacsUnlocker call (aacs/mod.rs, aacs/handshake.rs): the optional    *)
(* arming of the firmware, then the loop over the host certificates.  Each *)
(* certificate may cost an AACS 1.0 exchange and, where it carries usable  *)
(* 2.0 credentials, a P-256 exchange; both sweep the drive's grants (AGIDs)*)
(* and allocate one, and both end in the Volume ID and the data keys.      *)
(*                                                                         *)
(* One step is one command.  Keys, signatures and MACs are not computed:   *)
(* an answer verifies or it does not.  The list of certificates is chosen  *)
(* as the loop walks it, at most MaxCerts of them.  At most MaxFaults      *)
(* commands misbehave, and a Stop may come at any time.                    *)
(***************************************************************************)
EXTENDS FiniteSets, Naturals

CONSTANTS
  Agids,      \* the drive's authentication grants
  None,       \* no grant
  MaxCerts, MaxFaults

ASSUME AgidsAssumption == IsFiniteSet(Agids) /\ Agids # {} /\ None \notin Agids

ASSUME BoundsAssumption == MaxCerts \in Nat /\ MaxFaults \in Nat

\* A sense arrives as a status or as an Err, with the same outcome.  A garbled
\* answer is too short, or not what the drive would say.
Replies == {"good", "refused", "garbled", "dead"}

MaxAttempts == 3

\* Where the count of exchanges stops.
MaxBurst == 3

\* What a stored pairing is worth: dead (or missing) ones are found out on the
\* host before the drive is touched; a mispaired 2.0 key only when it signs (a
\* revoked one ends the same way).  In production every v2 is "dead"
\* (AACS2_P256_EXPERIMENTAL).
Certs == [v1 : {"dead", "revoked", "fits"}, v2 : {"dead", "mispaired", "fits"}]

NoCert == [v1 |-> "dead", v2 |-> "dead"]

VARIABLES
  \* the drive
  kind,       \* what it is: see Kinds
  hrl,        \* revoked certificates pass
  held,       \* the grants it has given out
  \* the call
  pc, looked, tried, v1Dead,
  cert, path, \* the certificate and the exchange under way
  swept, agid,
  after,      \* where the release of the grant leads
  key,        \* a read data key was learnt
  cancelled, verdict,
  \* history
  mine,       \* the grants of this call the drive has not had back
  excused,    \* an allocation or a release of this call misbehaved
  clean,      \* no fault and no Stop
  genuine,    \* no answer of this exchange was garbled
  worked,     \* a certificate the drive would have accepted was looked at
  usable,     \* how many usable certificates were looked at
  burst,      \* the exchanges since the last pause
  lost,       \* the last answer the call waited for was a dead bus
  faults

driveVars == <<kind, hrl, held>>
loopVars  == <<looked, tried, worked, usable>>
callVars  == <<pc, loopVars, v1Dead, cert, path, swept, agid, after, key, verdict>>
history   == <<mine, excused, clean, genuine, burst, lost>>
vars      == <<driveVars, callVars, cancelled, history, faults>>

\* The drive's certificates on the two exchanges.  On the 1.0 exchange it is one
\* that verifies ("weak" on a 2.0 drive whose 1.0 bus key does not vouch for the
\* Volume ID), a recognised one that does not (0x01 forged, or 0x11), or one of a
\* type nobody knows.
Kinds == [one : {"verifies", "weak", "forged", "odd"}, two : {"verifies", "forged"}]

Steps == {"idle", "arm", "bareVid", "next", "pause", "sweep", "allocate", "sendCert",
          "readCert", "readKey", "sendKey", "readVid", "readDataKeys", "release"}
Ends  == {"unlocked", "declined", "transport"}

-----------------------------------------------------------------------------
(***************************************************************************)
(* Commands.                                                               *)
(***************************************************************************)

Goto(next)   == pc' = next /\ UNCHANGED verdict
End(outcome) == pc' = "idle" /\ verdict' = outcome

\* The grants the drive holds after a command.
Drive(grants) ==
  /\ held' = grants
  /\ mine' = (mine \cup (grants \ held)) \cap grants

\* A misbehaving command may have been executed, and a bus fault may have reset
\* the drive.
Misbehaves(reply, grants) ==
  /\ faults < MaxFaults /\ faults' = faults + 1
  /\ clean' = FALSE
  /\ CASE reply = "refused" -> Drive(held)
       [] reply = "garbled" -> Drive(grants)
       [] reply = "dead" -> Drive(held) \/ Drive(grants) \/ Drive({})

\* scsi_read and scsi_write of a command the drive accepts or refuses.  A Stop
\* keeps it from the drive, unless it is a clean-up.
Sent(reply, accepted, grants, blocked) ==
  /\ \/ /\ reply = IF blocked THEN "dead" ELSE IF accepted THEN "good" ELSE "refused"
        /\ Drive(IF reply = "good" THEN grants ELSE held)
        /\ UNCHANGED <<faults, clean>>
     \/ /\ ~blocked
        /\ reply \in Replies \ {"good"}
        /\ Misbehaves(reply, grants)
  /\ UNCHANGED <<kind, hrl, cancelled>>

\* The answer to a command the call waits for.
Heard(reply) == lost' = (reply = "dead")

\* A command that moves no grant.
Asks(reply, accepted) == Sent(reply, accepted, held, cancelled) /\ Heard(reply)

\* A command whose answer the host has to believe.
Reads(reply, accepted) ==
  Asks(reply, accepted) /\ genuine' = (genuine /\ reply # "garbled")

\* A failed exchange: a dead bus ends the call, anything else leads to the
\* P-256 exchange or to the next certificate.
Reject(reply) ==
  IF reply = "dead" THEN "transport"
  ELSE IF path = "one" /\ cert.v2 # "dead" THEN "two" ELSE "next"

\* Where a certificate's exchange leads once its grant is released.
Leave(to) ==
  CASE to = "two" -> Goto("sweep") /\ path' = "two" /\ swept' = {} /\ UNCHANGED cert
    [] to = "next" -> Goto("next") /\ path' = "one" /\ swept' = {} /\ cert' = NoCert
    [] OTHER -> End(to) /\ UNCHANGED <<cert, path, swept>>

-----------------------------------------------------------------------------
(***************************************************************************)
(* The loop over the certificates.                                         *)
(***************************************************************************)

\* AacsUnlocker::unlock on an AACS disc; on any other it declines without a
\* command.  With no certificate at all ListEnds is next.
Begin ==
  /\ pc = "idle" /\ verdict = "none"
  /\ pc' = "arm" /\ verdict' = "running"
  /\ UNCHANGED <<driveVars, loopVars, v1Dead, cert, path, swept, agid, after, key, cancelled,
                 history, faults>>

\* maybe_arm: without a recipe nothing is sent; with one, FirmwareControl applies
\* all of it, or part of it, or nothing.  Only a recipe that turns encryption
\* off, and succeeds, spares the exchange.
Arm ==
  /\ pc = "arm"
  /\ \/ Goto("next") /\ UNCHANGED <<hrl, path, clean, lost, faults>>
     \/ /\ ~cancelled
        /\ hrl' \in BOOLEAN
        /\ \/ Goto("next") /\ UNCHANGED path
           \/ Goto("bareVid") /\ path' = "bare"
        /\ UNCHANGED <<clean, lost, faults>>
     \/ /\ cancelled \/ faults < MaxFaults
        /\ IF cancelled
           THEN UNCHANGED <<hrl, faults>>
           ELSE hrl' \in BOOLEAN /\ faults' = faults + 1
        /\ clean' = FALSE
        /\ End("transport")
        /\ lost' = TRUE
        /\ UNCHANGED path
  /\ UNCHANGED <<kind, held, loopVars, v1Dead, cert, swept, agid, after, key, cancelled, mine,
                 excused, genuine, burst>>

\* read_aacs_vid on the opened drive; the Volume ID is optional.
BareVid ==
  /\ pc = "bareVid"
  /\ \E reply \in Replies :
       /\ Asks(reply, TRUE)
       /\ End(IF reply = "dead" THEN "transport" ELSE "unlocked")
  /\ UNCHANGED <<loopVars, v1Dead, cert, path, swept, agid, after, key, excused, genuine, burst>>

Passes(worth) == worth = "fits" \/ (worth = "revoked" /\ hrl)

\* Would the drive have accepted this certificate on either exchange?
Works(c) ==
  \/ Passes(c.v1) /\ kind.one = "verifies"
  \/ Passes(c.v2) /\ kind.two = "verifies"

\* run_cert_handshake_with_anchors returns; fallthrough makes each of its
\* outcomes but the dead bus "not this unlocker's drive".
ListEnds ==
  /\ pc = "next"
  /\ End("declined")
  /\ UNCHANGED <<driveVars, loopVars, v1Dead, cert, path, swept, agid, after, key, cancelled,
                 history, faults>>

\* No exchange can pass: neither usable 2.0 credentials nor a 1.0 pairing that is
\* alive on the host and not ruled out by the drive.
Skipped(c) == c.v2 = "dead" /\ (v1Dead \/ c.v1 = "dead")

\* attempt_one_cert: the 1.0 exchange first, where it can still pass.
Attempt(c) ==
  /\ tried' = tried + 1
  /\ cert' = c
  /\ path' = IF c.v1 # "dead" /\ ~v1Dead THEN "one" ELSE "two"
  /\ swept' = {}
  /\ Goto(IF tried > 0 THEN "pause" ELSE "sweep")

\* Variant: a dead pairing counts as an attempt.
NextCertCountsAll ==
  /\ pc = "next"
  /\ tried < MaxAttempts /\ looked < MaxCerts
  /\ looked' = looked + 1
  /\ \E c \in Certs :
       /\ usable' = usable + (IF c = NoCert THEN 0 ELSE 1)
       /\ worked' = (worked \/ Works(c))
       /\ IF Skipped(c) THEN Goto("next") /\ tried' = tried + 1 /\ UNCHANGED <<cert, path, swept>>
          ELSE Attempt(c)
  /\ UNCHANGED <<driveVars, v1Dead, agid, after, key, cancelled, history, faults>>

\* The next certificate: skipped without a command, or tried, after a pause unless
\* it is the first.
NextCert ==
  /\ pc = "next"
  /\ tried < MaxAttempts /\ looked < MaxCerts
  /\ looked' = looked + 1
  /\ \E c \in Certs :
       /\ usable' = usable + (IF c = NoCert THEN 0 ELSE 1)
       /\ worked' = (worked \/ Works(c))
       /\ IF Skipped(c)
          THEN Goto("next") /\ UNCHANGED <<tried, cert, path, swept>>
          ELSE Attempt(c)
  /\ UNCHANGED <<driveVars, v1Dead, agid, after, key, cancelled, history, faults>>

\* Variant: the outcome of the pause is dropped, and so is the wait.
PauseSkipped ==
  /\ pc = "pause"
  /\ Goto("sweep")
  /\ UNCHANGED <<driveVars, loopVars, v1Dead, cert, path, swept, agid, after, key, cancelled,
                 history, faults>>

\* The one-second pause before an attempt that is not the first; a Stop ends it.
Pause ==
  /\ pc = "pause"
  /\ IF cancelled
     THEN End("transport") /\ UNCHANGED burst
     ELSE Goto("sweep") /\ burst' = 0
  /\ UNCHANGED <<driveVars, loopVars, v1Dead, cert, path, swept, agid, after, key, cancelled,
                 mine, excused, clean, genuine, lost, faults>>

-----------------------------------------------------------------------------
(***************************************************************************)
(* One exchange: aacs1_ake on path "one", aacs2_authenticate_p256 on "two".*)
(***************************************************************************)

\* Invalidate every grant, whoever holds it; the answers are ignored.
Sweep ==
  /\ pc = "sweep"
  /\ \E a \in Agids \ swept, reply \in Replies :
       /\ Sent(reply, TRUE, held \ {a}, cancelled) /\ Heard(reply)
       /\ swept' = swept \cup {a}
  /\ Goto(IF swept' = Agids THEN "allocate" ELSE "sweep")
  /\ UNCHANGED <<loopVars, v1Dead, cert, path, agid, after, key, excused, genuine, burst>>

\* The grant is guarded only once its number is known.
Allocate ==
  /\ pc = "allocate"
  /\ \E a \in Agids, reply \in Replies :
       /\ a \in held => held = Agids
       /\ Sent(reply, a \notin held, held \cup {a}, cancelled) /\ Heard(reply)
       /\ \/ /\ reply \in {"good", "garbled"}
             /\ Goto("sendCert")
             /\ agid' \in IF reply = "good" THEN {a} ELSE Agids
             /\ UNCHANGED <<cert, path, swept>>
          \/ /\ reply # "good"
             /\ Leave(Reject(reply))
             /\ UNCHANGED agid
       /\ excused' = (excused \/ faults' # faults)
  /\ genuine' = TRUE
  /\ burst' = IF burst < MaxBurst THEN burst + 1 ELSE burst
  /\ UNCHANGED <<loopVars, v1Dead, after, key>>

\* A step of the exchange goes on, or the guard is dropped.
GoOn(next)  == Goto(next) /\ UNCHANGED after
Release(to) == Goto("release") /\ after' = to

\* SEND KEY: host certificate and nonce; the drive consults its revocation list.
SendCert ==
  /\ pc = "sendCert"
  /\ \E reply \in Replies :
       /\ Asks(reply, agid \in held /\ (path = "one" => Passes(cert.v1)))
       /\ IF reply \in {"good", "garbled"} THEN GoOn("readCert") ELSE Release(Reject(reply))
  /\ UNCHANGED <<loopVars, v1Dead, cert, path, swept, agid, key, excused, genuine, burst>>

DriveCertVerifies ==
  IF path = "one" THEN kind.one \in {"verifies", "weak"} ELSE kind.two = "verifies"

\* REPORT KEY: the drive certificate must verify.  On the 1.0 exchange a
\* recognised one that does not rules out every other 1.0 exchange; a type nobody
\* knows proves nothing.
ReadCert ==
  /\ pc = "readCert"
  /\ \E reply \in Replies :
       /\ Reads(reply, agid \in held)
       /\ IF reply = "good" /\ DriveCertVerifies
          THEN GoOn("readKey") ELSE Release(Reject(reply))
       /\ v1Dead' \in CASE path = "one" /\ reply = "garbled" -> {v1Dead, TRUE}
                         [] path = "one" /\ reply = "good" -> {v1Dead \/ kind.one = "forged"}
                         [] OTHER -> {v1Dead}
  /\ UNCHANGED <<loopVars, cert, path, swept, agid, key, excused, burst>>

\* REPORT KEY: the drive's key point, whose signature must verify; then the
\* host signs, and checks its own signature before it goes out.
ReadKey ==
  /\ pc = "readKey"
  /\ \E reply \in Replies :
       /\ Reads(reply, agid \in held)
       /\ IF reply = "good" /\ ~(path = "two" /\ cert.v2 = "mispaired")
          THEN GoOn("sendKey") ELSE Release(Reject(reply))
  /\ UNCHANGED <<loopVars, v1Dead, cert, path, swept, agid, key, excused, burst>>

\* SEND KEY: the host's key point and signature.
SendKey ==
  /\ pc = "sendKey"
  /\ \E reply \in Replies :
       /\ Asks(reply, agid \in held)
       /\ IF reply \in {"good", "garbled"} THEN GoOn("readVid") ELSE Release(Reject(reply))
  /\ UNCHANGED <<loopVars, v1Dead, cert, path, swept, agid, key, excused, genuine, burst>>

\* finish_auth asks for data keys where the drive certificate says Bus Encryption
\* Capable; the P-256 exchange takes that for granted.
AsksDataKeys == IF path = "one" THEN BOOLEAN ELSE {TRUE}

\* The 1.0 or the 2.0 bus key vouches for the Volume ID.
MacVerifies == path = "two" \/ kind.one # "weak"

\* Variant: the MAC of the Volume ID is not compared.
ReadVidUnchecked ==
  /\ pc = "readVid"
  /\ \E reply \in Replies :
       /\ Reads(reply, agid \in held)
       /\ IF reply \in {"good", "garbled"}
          THEN \E asks \in AsksDataKeys :
                 IF asks THEN GoOn("readDataKeys") ELSE Release("unlocked")
          ELSE Release(IF reply = "dead" THEN "transport" ELSE "declined")
  /\ UNCHANGED <<loopVars, v1Dead, cert, path, swept, agid, key, excused, burst>>

\* finish_auth: the Volume ID and its MAC under the bus key.  A MAC that fails
\* leads to the P-256 exchange where there is one; a Volume ID that cannot be
\* read ends the call.
ReadVid ==
  /\ pc = "readVid"
  /\ \E reply \in Replies :
       /\ Reads(reply, agid \in held)
       /\ CASE reply = "good" /\ MacVerifies ->
                 \E asks \in AsksDataKeys :
                   IF asks THEN GoOn("readDataKeys") ELSE Release("unlocked")
            [] reply = "good" /\ ~MacVerifies ->
                 Release(IF cert.v2 # "dead" THEN "two" ELSE "declined")
            [] reply = "garbled" ->
                 Release("declined") \/ (path = "one" /\ cert.v2 # "dead" /\ Release("two"))
            [] reply = "refused" -> Release("declined")
            [] reply = "dead" -> Release("transport")
  /\ UNCHANGED <<loopVars, v1Dead, cert, path, swept, agid, key, excused, burst>>

\* Variant: a dead bus in the data key read is "no data key served".
ReadDataKeysDeaf ==
  /\ pc = "readDataKeys"
  /\ \E reply \in Replies :
       /\ \E served \in BOOLEAN : Asks(reply, agid \in held /\ served)
       /\ key' = (reply = "good")
  /\ Release("unlocked")
  /\ UNCHANGED <<loopVars, v1Dead, cert, path, swept, agid, excused, genuine, burst>>

\* finish_auth: the data keys, which have no MAC; the call unlocks without them.
ReadDataKeys ==
  /\ pc = "readDataKeys"
  /\ \E reply \in Replies :
       /\ \E served \in BOOLEAN : Asks(reply, agid \in held /\ served)
       /\ key' \in IF reply = "garbled" THEN BOOLEAN ELSE {reply = "good"}
       /\ Release(IF reply = "dead" THEN "transport" ELSE "unlocked")
  /\ UNCHANGED <<loopVars, v1Dead, cert, path, swept, agid, excused, genuine, burst>>

\* Variant: the release is a command like any other, and a Stop refuses it.
CleanupBlocked == cancelled

\* execute_cleanup reaches the drive after a Stop, too.
Cleanup == FALSE

\* AgidGuard is dropped, after a success as well; a failed release changes
\* nothing for the caller.
DropGuard ==
  /\ pc = "release"
  /\ \E reply \in Replies :
       /\ Sent(reply, TRUE, held \ {agid}, Cleanup)
       /\ excused' = (excused \/ faults' # faults)
  /\ Leave(after)
  /\ agid' = None /\ after' = "none"
  /\ UNCHANGED <<loopVars, v1Dead, key, genuine, burst, lost>>

-----------------------------------------------------------------------------

Stop ==
  /\ pc # "idle"
  /\ ~cancelled
  /\ cancelled' = TRUE
  /\ clean' = FALSE
  /\ UNCHANGED <<driveVars, callVars, mine, excused, genuine, burst, lost, faults>>

Host ==
  \/ Arm \/ BareVid \/ NextCert \/ ListEnds \/ Pause \/ Sweep \/ Allocate
  \/ SendCert \/ ReadCert \/ ReadKey \/ SendKey \/ ReadVid \/ ReadDataKeys \/ DropGuard

\* The grants earlier sessions abandoned are still given out.
Init ==
  /\ kind \in Kinds /\ hrl = FALSE /\ held \in SUBSET Agids
  /\ pc = "idle" /\ looked = 0 /\ tried = 0 /\ v1Dead = FALSE
  /\ cert = NoCert /\ path = "one" /\ swept = {} /\ agid = None
  /\ after = "none" /\ key = FALSE /\ cancelled = FALSE /\ verdict = "none"
  /\ mine = {} /\ excused = FALSE /\ clean = TRUE /\ genuine = TRUE /\ worked = FALSE
  /\ usable = 0 /\ burst = 0 /\ lost = FALSE
  /\ faults = 0

Next == Begin \/ Host \/ Stop

Spec == Init /\ [][Next]_vars

-----------------------------------------------------------------------------
(***************************************************************************)
(* Properties.                                                             *)
(***************************************************************************)

Guarded == {"sendCert", "readCert", "readKey", "sendKey", "readVid", "readDataKeys", "release"}

\* The variables stay in their ranges, a guard exists exactly while an exchange
\* or its release needs it, and only a certificate that may still pass is used.
TypeOK ==
  /\ kind \in Kinds /\ hrl \in BOOLEAN /\ held \subseteq Agids
  /\ pc \in Steps
  /\ looked \in 0..MaxCerts /\ tried \in 0..MaxAttempts /\ usable \in 0..looked
  /\ v1Dead \in BOOLEAN /\ key \in BOOLEAN
  /\ cert \in Certs /\ path \in {"one", "two", "bare"}
  /\ swept \subseteq Agids /\ agid \in Agids \cup {None}
  /\ agid # None <=> pc \in Guarded
  /\ after \in {"none", "two", "next"} \cup Ends
  /\ after # "none" <=> pc = "release"
  /\ path = "one" /\ pc \in Guarded => cert.v1 # "dead"
  /\ path = "two" /\ pc \in Guarded => cert.v2 # "dead"
  /\ cancelled \in BOOLEAN /\ excused \in BOOLEAN /\ clean \in BOOLEAN
  /\ genuine \in BOOLEAN /\ worked \in BOOLEAN
  /\ verdict \in {"none", "running"} \cup Ends
  /\ mine \subseteq held
  /\ lost \in BOOLEAN
  /\ burst \in 0..2 /\ faults \in 0..MaxFaults

\* "One release per allocation", on success, too: a call that is over left no
\* grant behind, after a Stop or a dead bus either, and an exchange never holds
\* two, unless an allocation or a release itself misbehaved.
AgidReleased == ~excused => mine = IF agid = None THEN {} ELSE mine \cap {agid}

\* The cap is spent on the drive: an undisturbed call that declines did not look
\* at a certificate the drive would have taken, and a call that reached the cap
\* looked at as many usable certificates, however many dead pairings lay between.
NotStarved ==
  /\ verdict = "declined" /\ clean => ~worked
  /\ verdict = "declined" => tried <= usable

\* The drive is never rushed: at most the two exchanges of one certificate run
\* between two pauses.
WedgeGuard ==
  pc \in Guarded => burst <= (IF path = "two" /\ cert.v1 # "dead" THEN 2 ELSE 1)

\* A Volume ID is only reported under a drive certificate that verified and with
\* a MAC that verified, in one and the same exchange, or from an opened drive.
VidIsVouched ==
  verdict = "unlocked" => path = "bare" \/ (genuine /\ DriveCertVerifies /\ MacVerifies)

\* A dead bus ends the call in Transport wherever an answer is waited for: a call
\* that ends otherwise last heard a drive.
DeadBusIsFatal == verdict \in {"unlocked", "declined"} => ~lost

=============================================================================
