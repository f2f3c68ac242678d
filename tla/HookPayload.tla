------------------------------ MODULE HookPayload ------------------------------
(***************************************************************************)
(* The resident payload of the Renesas hook while it runs in the drive: the*)
(* machine code that assemble() and vid_wrapper() emit (module operations  *)
(* of src/src/freemkv/renesas.rs), for the commands the drive routes to it.*)
(*                                                                         *)
(* The drive's command task runs one command at a time.  Other firmware    *)
(* tasks, the background reader among them, run only where that task gives *)
(* up the processor: in the scheduler's delay, in the OEM dispatcher and in*)
(* the data transfer.  A step is a stretch of code between two such points.*)
(***************************************************************************)
EXTENDS Naturals

CONSTANTS
  Waits,        \* delays the payload grants the background reader
  MaxCommands,  \* commands sent in a behaviour
  MaxMoves      \* guarded callbacks that another task replaces

ASSUME WaitsAssumption == Waits \in Nat /\ MaxCommands \in Nat /\ MaxMoves \in Nat

\* Engine states of the background reader: 0 and from 8 on it is at rest.
EngineStates == {0, 1, 7, 8}
AtRest(engine) == engine = 0 \/ engine >= 8

Acknowledged == {"Region", "Unrestricted", "Hrl"}
Features     == Acknowledged \cup {"Speed", "Encryption"}
SetStates    == {"off", "on", "passthrough", "other"}

\* Commands.  "framed": every CDB byte but the arguments is as it must be.
\* Of the VID read, "tail": the reserved bits beside the AGID are set.
Commands ==
  [op: {"set"}, framed: BOOLEAN, feature: Features, state: SetStates] \cup
  [op: {"identity"}, framed: BOOLEAN] \cup
  [op: {"vid"}, volumeId: BOOLEAN, tail: BOOLEAN, agid: {0, 1}, framed: BOOLEAN,
   length: {0, 4, 36}] \cup
  [op: {"read", "foreign"}]

Idle == [op |-> "none"]

VARIABLES
  engine,       \* state of the background reader
  policy,       \* the table the security slot names
  acquisition,  \* the OEM acquisition callback: in place, borrowed, replaced
  reset,        \* the OEM reset callback is the expected one
  eligible,     \* checked = 1 and result = 0
  ready,        \* the hardware holds a VID
  data,         \* the VID bytes inside the payload: zero as built, or a VID
  command, pc,
  waits,        \* delays still granted
  asked,        \* the policy the command asks for
  answer,       \* how the last command was answered
  commands, moves

drive == <<engine, policy, acquisition, reset, eligible, ready, data>>
vars  == <<drive, command, pc, waits, asked, answer, commands, moves>>

PCs     == {"idle", "route", "vid", "wait", "delay", "dispatch", "send"}
Answers == {"none", "good", "refused", "oem"}

\* Where other firmware tasks run.
Yields == {"idle", "delay", "dispatch", "send"}

\* The command is answered, or handed on to the OEM handler.
Reply(how) ==
  /\ pc' = "idle" /\ command' = Idle /\ asked' = "none"
  /\ answer' = how

Goto(next) == pc' = next /\ UNCHANGED <<command, asked, answer>>

Target(state) == IF state = "off" THEN "own" ELSE "oem"

SwitchesPolicy(c) ==
  c.op = "set" /\ c.framed /\ c.feature = "Encryption" /\ c.state # "other"

-----------------------------------------------------------------------------

Receive ==
  /\ pc = "idle" /\ commands < MaxCommands
  /\ commands' = commands + 1
  /\ \E c \in Commands :
       /\ command' = c
       /\ pc' = IF c.op = "vid" THEN "vid" ELSE "route"
       /\ asked' = IF c.op = "set" /\ SwitchesPolicy(c) THEN Target(c.state) ELSE "other"
  /\ answer' = "none"
  /\ UNCHANGED <<drive, waits, moves>>

\* How routing::enter and the head of assemble() answer what switches nothing.
Routed(c) ==
  IF c.op \notin {"set", "identity"} THEN "oem"
  ELSE IF ~c.framed THEN "refused"
  ELSE IF c.op = "identity" \/ c.feature \in Acknowledged THEN "good" ELSE "refused"

\* An OEM READ may leave the background reader running.
Route ==
  /\ pc = "route"
  /\ IF asked # "other"
     THEN Goto("wait") /\ waits' = Waits /\ UNCHANGED engine
     ELSE /\ Reply(Routed(command))
          /\ engine' \in IF command.op = "read" THEN EngineStates ELSE {engine}
          /\ UNCHANGED waits
  /\ UNCHANGED <<policy, acquisition, reset, eligible, ready, data, commands, moves>>

\* The callbacks are the OEM's, and the policy is the OEM's or this payload's.
MaySwitchAny == acquisition = "oem" /\ reset
MaySwitch    == acquisition = "oem" /\ reset /\ policy \in {"oem", "own"}

\* The policy is switched and, for OFF, the acquisition callback borrowed.
Switch ==
  /\ policy' = asked
  /\ acquisition' = IF asked = "own" THEN "borrowed" ELSE acquisition
  /\ Goto("dispatch")

\* Variant: a reader that stays busy for all the waits is no obstacle.
WaitGivesUp ==
  /\ pc = "wait"
  /\ IF ~AtRest(engine) /\ waits > 0
     THEN Goto("delay") /\ UNCHANGED <<policy, acquisition>>
     ELSE IF MaySwitch THEN Switch
     ELSE Reply("refused") /\ UNCHANGED <<policy, acquisition>>
  /\ UNCHANGED <<engine, reset, eligible, ready, data, waits, commands, moves>>

\* wait_read_idle, and the checks and policy writes behind it with no yield.
Wait ==
  /\ pc = "wait"
  /\ IF ~AtRest(engine) /\ waits > 0
     THEN Goto("delay") /\ UNCHANGED <<policy, acquisition>>
     ELSE IF AtRest(engine) /\ MaySwitch THEN Switch
     ELSE Reply("refused") /\ UNCHANGED <<policy, acquisition>>
  /\ UNCHANGED <<engine, reset, eligible, ready, data, waits, commands, moves>>

\* Variant: the delays are not counted.
DelayUncounted ==
  /\ pc = "delay"
  /\ waits' = waits
  /\ Goto("wait") \/ Reply("refused")
  /\ UNCHANGED <<drive, commands, moves>>

\* scheduler_delay returns; anything but success refuses the command.
Delay ==
  /\ pc = "delay"
  /\ waits' = waits - 1
  /\ Goto("wait") \/ Reply("refused")
  /\ UNCHANGED <<drive, commands, moves>>

\* The medium was reacquired, for OFF through the borrowed callback, which makes
\* it eligible; a failure may have left it so or not.
Reacquired(works) == eligible' \in IF works /\ asked = "own" THEN {TRUE} ELSE BOOLEAN

\* Variant: only a successful reactivation gives the callback back.
DispatchKeeps ==
  /\ pc = "dispatch"
  /\ \E works \in BOOLEAN :
       /\ Reply(IF works THEN "good" ELSE "refused")
       /\ Reacquired(works)
       /\ acquisition' = IF works THEN "oem" ELSE acquisition
  /\ UNCHANGED <<engine, policy, reset, ready, data, waits, commands, moves>>

\* The OEM dispatcher returns.  Whether it worked or not, the callback is given
\* back before the reply.
Dispatch ==
  /\ pc = "dispatch"
  /\ \E works \in BOOLEAN :
       /\ Reply(IF works THEN "good" ELSE "refused")
       /\ Reacquired(works)
  /\ acquisition' = "oem"
  /\ UNCHANGED <<engine, policy, reset, ready, data, waits, commands, moves>>

\* vid_wrapper: the OEM's command unless it asks for the Volume ID, with AGID
\* 0, under this payload's policy.
VidFor(c) ==
  IF ~c.volumeId \/ policy # "own" THEN "oem"
  ELSE IF c.tail THEN "refused"
  ELSE IF c.agid # 0 THEN "oem"
  ELSE IF ~c.framed THEN "refused"
  ELSE IF c.length = 0 THEN "good"
  ELSE IF ~ready THEN "refused" ELSE "send"

Vid ==
  /\ pc = "vid"
  /\ IF VidFor(command) = "send"
     THEN Goto("send") /\ data' = "vid"
     ELSE Reply(VidFor(command)) /\ UNCHANGED data
  /\ UNCHANGED <<engine, policy, acquisition, reset, eligible, ready, waits, commands, moves>>

\* Variant: a reply too short to carry the whole VID leaves it behind.
SendKeepsShort ==
  /\ pc = "send"
  /\ data' = IF command.length < 20 THEN data ELSE "zero"
  /\ Reply("good")
  /\ UNCHANGED <<engine, policy, acquisition, reset, eligible, ready, waits, commands, moves>>

\* The transfer is over: the resident bytes are put back before the reply.
Send ==
  /\ pc = "send"
  /\ data' = "zero"
  /\ Reply("good")
  /\ UNCHANGED <<engine, policy, acquisition, reset, eligible, ready, waits, commands, moves>>

-----------------------------------------------------------------------------
(***************************************************************************)
(* Other firmware tasks, while the command task is not running.            *)
(***************************************************************************)

\* The reader works on; it starts only for a READ.
Reader ==
  /\ pc \in Yields /\ ~AtRest(engine)
  /\ engine' \in EngineStates
  /\ UNCHANGED <<policy, acquisition, reset, eligible, ready, data, command, pc, waits,
                 asked, answer, commands, moves>>

MediaChange ==
  /\ pc \in Yields
  /\ ready' = ~ready /\ eligible' = FALSE
  /\ UNCHANGED <<engine, policy, acquisition, reset, data, command, pc, waits,
                 asked, answer, commands, moves>>

\* Another task replaces a callback the payload depends on.
Replace ==
  /\ pc \in Yields /\ moves < MaxMoves
  /\ moves' = moves + 1
  /\ \/ acquisition' = "replaced" /\ UNCHANGED reset
     \/ reset' = FALSE /\ UNCHANGED acquisition
  /\ UNCHANGED <<engine, policy, eligible, ready, data, command, pc, waits, asked, answer,
                 commands>>

Task  == Route \/ Wait \/ Delay \/ Dispatch \/ Vid \/ Send
Other == Reader \/ MediaChange \/ Replace

\* The hook was attached with the security slot the OEM's, its own from an
\* earlier call, or since replaced by another implementation.
Init ==
  /\ engine \in EngineStates
  /\ policy \in {"oem", "own", "foreign"}
  /\ acquisition = "oem" /\ reset = TRUE
  /\ eligible \in BOOLEAN /\ ready \in BOOLEAN /\ data = "zero"
  /\ command = Idle /\ pc = "idle" /\ waits = 0 /\ asked = "none" /\ answer = "none"
  /\ commands = 0 /\ moves = 0

Next == Receive \/ Task \/ Other

Spec == Init /\ [][Next]_vars

\* The OEM routines the payload calls return: the delay after its ticks, the
\* transfer when the host took or aborted it, the dispatcher with a result.
FairSpec == Spec /\ WF_vars(Task)

-----------------------------------------------------------------------------
(***************************************************************************)
(* Properties.                                                             *)
(***************************************************************************)

\* The variables stay in their ranges.
TypeOK ==
  /\ engine \in EngineStates
  /\ policy \in {"oem", "own", "foreign"}
  /\ acquisition \in {"oem", "borrowed", "replaced"}
  /\ reset \in BOOLEAN /\ eligible \in BOOLEAN /\ ready \in BOOLEAN
  /\ data \in {"zero", "vid"}
  /\ command \in Commands \cup {Idle}
  /\ pc \in PCs /\ waits \in 0..Waits
  /\ asked \in {"none", "other", "oem", "own"} /\ answer \in Answers
  /\ commands \in 0..MaxCommands /\ moves \in 0..MaxMoves

\* No command is answered while the OEM's acquisition callback is still
\* borrowed, whether the reactivation worked or not.
CallbackReturned == pc = "idle" => acquisition # "borrowed"

\* The security policy is not switched under a background reader that is still
\* working on an earlier READ, however long that takes.
ReaderUndisturbed == [][policy' # policy => AtRest(engine)]_vars

\* At every reply the payload's bytes are those the host copied in and will
\* compare: no VID stays behind in them.
ResidentBytesKept == pc = "idle" => data = "zero"

\* What the host may rely on after SET Encryption.
Contract == INSTANCE EncryptionSwitch
SwitchHolds == Contract!Spec

\* Every command is answered, also while the reader never comes to rest.
CommandEnds == pc # "idle" ~> pc = "idle"
=============================================================================
