--------------------------- MODULE HookPayloadProofs ---------------------------
(***************************************************************************)
(* What holds of the resident payload however many delays it grants and    *)
(* however many commands, media changes and replaced callbacks it meets.   *)
(***************************************************************************)
EXTENDS HookPayload, TLAPS

\* The parts of TypeOK: what the drive holds, what the command is, the counters.
DriveTypeOK ==
  /\ engine \in EngineStates
  /\ policy \in {"oem", "own", "foreign"}
  /\ acquisition \in {"oem", "borrowed", "replaced"}
  /\ reset \in BOOLEAN /\ eligible \in BOOLEAN /\ ready \in BOOLEAN
  /\ data \in {"zero", "vid"}

TaskTypeOK ==
  /\ command \in Commands \cup {Idle}
  /\ pc \in PCs
  /\ asked \in {"none", "other", "oem", "own"} /\ answer \in Answers

\* A delay is granted only while there are some left.
Counted ==
  /\ waits \in 0..Waits
  /\ pc = "delay" => waits > 0
  /\ commands \in 0..MaxCommands /\ moves \in 0..MaxMoves

\* The OEM's callback is out of its slot only around the OEM dispatcher, and
\* the VID is in the payload only around the transfer.
Lent == (pc # "dispatch" => acquisition # "borrowed") /\ (pc # "send" => data = "zero")

\* What the command asks for, at each stretch of the payload.
AskedAt ==
  /\ (pc = "idle") <=> (asked = "none")
  /\ pc \in {"vid", "send"} => asked = "other"
  /\ pc \in {"wait", "delay", "dispatch"} => asked \in {"oem", "own"}
  /\ pc = "dispatch" => policy = asked

IInv == DriveTypeOK /\ TaskTypeOK /\ Counted /\ Lent /\ AskedAt

-----------------------------------------------------------------------------

\* The payload is attached in a state the invariant holds of.
LEMMA InitInv == Init => IInv
<1> SUFFICES ASSUME Init PROVE IInv
  OBVIOUS
<1>1. DriveTypeOK
  BY DEF Init, DriveTypeOK
<1>2. TaskTypeOK
  BY DEF Init, TaskTypeOK, PCs, Answers
<1>3. Counted
  BY WaitsAssumption DEF Init, Counted
<1>4. Lent /\ AskedAt
  BY DEF Init, Lent, AskedAt
<1> QED
  BY <1>1, <1>2, <1>3, <1>4 DEF IInv

\* Every step keeps what the drive holds in its ranges.
LEMMA DriveStep == IInv /\ [Next]_vars => DriveTypeOK'
<1> SUFFICES ASSUME IInv, [Next]_vars PROVE DriveTypeOK'
  OBVIOUS
<1> USE DEF IInv, DriveTypeOK
<1>1. CASE Receive
  BY <1>1 DEF Receive, drive
<1>2. CASE Route
  BY <1>2 DEF Route
<1>3. CASE Wait
  BY <1>3 DEF Wait, Switch, AskedAt
<1>4. CASE Delay
  BY <1>4 DEF Delay, drive
<1>5. CASE Dispatch
  BY <1>5 DEF Dispatch, Reacquired
<1>6. CASE Vid
  BY <1>6 DEF Vid
<1>7. CASE Send
  BY <1>7 DEF Send
<1>8. CASE Reader
  BY <1>8 DEF Reader
<1>9. CASE MediaChange
  BY <1>9 DEF MediaChange
<1>10. CASE Replace
  BY <1>10 DEF Replace
<1>11. CASE UNCHANGED vars
  BY <1>11 DEF vars, drive
<1> QED
  BY <1>1, <1>2, <1>3, <1>4, <1>5, <1>6, <1>7, <1>8, <1>9, <1>10, <1>11
  DEF Next, Task, Other

\* Every step keeps the command and the answer in their ranges.
LEMMA TaskStep == IInv /\ [Next]_vars => TaskTypeOK'
<1> SUFFICES ASSUME IInv, [Next]_vars PROVE TaskTypeOK'
  OBVIOUS
<1> USE DEF IInv, TaskTypeOK, Goto, Reply, PCs, Answers
<1>1. CASE Receive
  BY <1>1 DEF Receive, Target
<1>2. CASE Route
  BY <1>2 DEF Route, Routed
<1>3. CASE Wait
  BY <1>3 DEF Wait, Switch
<1>4. CASE Delay
  BY <1>4 DEF Delay
<1>5. CASE Dispatch
  BY <1>5 DEF Dispatch
<1>6. CASE Vid
  BY <1>6 DEF Vid, VidFor
<1>7. CASE Send
  BY <1>7 DEF Send
<1>8. CASE Other \/ UNCHANGED vars
  BY <1>8 DEF Other, Reader, MediaChange, Replace, vars
<1> QED
  BY <1>1, <1>2, <1>3, <1>4, <1>5, <1>6, <1>7, <1>8 DEF Next, Task

\* Every step keeps the counters within their bounds.
LEMMA CountStep == IInv /\ [Next]_vars => Counted'
<1> SUFFICES ASSUME IInv, [Next]_vars PROVE Counted'
  OBVIOUS
<1> USE WaitsAssumption DEF IInv, Counted, Goto, Reply
<1>1. CASE Receive
  BY <1>1 DEF Receive
<1>2. CASE Route
  BY <1>2 DEF Route
<1>3. CASE Wait
  BY <1>3 DEF Wait, Switch
<1>4. CASE Delay
  BY <1>4 DEF Delay
<1>5. CASE Dispatch
  BY <1>5 DEF Dispatch
<1>6. CASE Vid
  BY <1>6 DEF Vid
<1>7. CASE Send
  BY <1>7 DEF Send
<1>8. CASE Other \/ UNCHANGED vars
  BY <1>8 DEF Other, Reader, MediaChange, Replace, vars
<1> QED
  BY <1>1, <1>2, <1>3, <1>4, <1>5, <1>6, <1>7, <1>8 DEF Next, Task

\* Every step keeps what is lent, and what is asked for, in its place.
LEMMA PlaceStep == IInv /\ [Next]_vars => Lent' /\ AskedAt'
<1> SUFFICES ASSUME IInv, [Next]_vars PROVE Lent' /\ AskedAt'
  OBVIOUS
<1> USE DEF IInv, TaskTypeOK, Lent, AskedAt, Goto, Reply
<1>1. CASE Receive
  BY <1>1 DEF Receive, Target, drive
<1>2. CASE Route
  BY <1>2 DEF Route
<1>3. CASE Wait
  BY <1>3 DEF Wait, Switch, MaySwitch
<1>4. CASE Delay
  BY <1>4 DEF Delay, drive
<1>5. CASE Dispatch
  BY <1>5 DEF Dispatch
<1>6. CASE Vid
  BY <1>6 DEF Vid
<1>7. CASE Send
  BY <1>7 DEF Send
<1>8. CASE Other \/ UNCHANGED vars
  BY <1>8 DEF Other, Reader, MediaChange, Replace, vars, drive
<1> QED
  BY <1>1, <1>2, <1>3, <1>4, <1>5, <1>6, <1>7, <1>8 DEF Next, Task

\* The invariant holds in every reachable state.
LEMMA Invariant == Spec => []IInv
<1>1. IInv /\ [Next]_vars => IInv'
  BY DriveStep, TaskStep, CountStep, PlaceStep DEF IInv
<1> QED
  BY InitInv, <1>1, PTL DEF Spec

-----------------------------------------------------------------------------

\* The variables of the payload and of the drive stay in their ranges.
THEOREM TypeCorrect == Spec => []TypeOK
<1>1. IInv => TypeOK
  BY DEF IInv, DriveTypeOK, TaskTypeOK, Counted, TypeOK
<1> QED
  BY Invariant, <1>1, PTL

\* Whether the reactivation worked or not, the OEM's acquisition callback is
\* back in its slot, or replaced by another task, at every reply.
THEOREM CallbackIsReturned == Spec => []CallbackReturned
<1>1. IInv => CallbackReturned
  BY DEF IInv, Lent, CallbackReturned
<1> QED
  BY Invariant, <1>1, PTL

\* At every reply the payload is byte for byte what the host copied in.
THEOREM BytesAreKept == Spec => []ResidentBytesKept
<1>1. IInv => ResidentBytesKept
  BY DEF IInv, Lent, ResidentBytesKept
<1> QED
  BY Invariant, <1>1, PTL

\* However many delays the reader is granted, the policy is switched only when
\* it has come to rest.
THEOREM ReaderIsUndisturbed == Spec => ReaderUndisturbed
<1>1. [Next]_vars => [policy' # policy => AtRest(engine)]_vars
  <2> SUFFICES ASSUME Next PROVE policy' # policy => AtRest(engine)
    OBVIOUS
  <2>1. CASE Wait
    BY <2>1 DEF Wait
  <2>2. CASE Receive \/ Route \/ Delay \/ Dispatch \/ Vid \/ Send \/ Other
    BY <2>2 DEF Receive, Route, Delay, Dispatch, Vid, Send, Other, Reader, MediaChange,
       Replace, drive
  <2> QED
    BY <2>1, <2>2 DEF Next, Task
<1> QED
  BY <1>1, PTL DEF Spec, ReaderUndisturbed

\* The payload implements what the host relies on after SET Encryption: every
\* step of it is one of EncryptionSwitch or changes nothing the host can see.
THEOREM ImplementsSwitch == Spec => SwitchHolds
<1>1. Init => Contract!Init
  BY DEF Init, Contract!Init, Contract!Owners
<1>2. IInv /\ [Next]_vars => [Contract!Next]_(Contract!switchVars)
  <2> SUFFICES ASSUME IInv, [Next]_vars
               PROVE  Contract!Next \/ UNCHANGED <<policy, asked, answer>>
    BY DEF Contract!switchVars
  <2> USE DEF Goto, Reply, IInv, AskedAt, TaskTypeOK
  <2>1. CASE Receive
    BY <2>1 DEF Receive, Target, drive, Contract!Next, Contract!Ask, Contract!Owners
  <2>2. CASE Route
    BY <2>2 DEF Route, Routed, Contract!Next, Contract!Good, Contract!Refuse, Contract!Pass
  <2>3. CASE Wait
    BY <2>3 DEF Wait, Switch, MaySwitch, Contract!Next, Contract!Switch, Contract!Refuse,
       Contract!Owners
  <2>4. CASE Delay
    BY <2>4 DEF Delay, drive, Contract!Next, Contract!Refuse
  <2>5. CASE Dispatch
    BY <2>5 DEF Dispatch, Contract!Next, Contract!Good, Contract!Refuse
  <2>6. CASE Vid
    BY <2>6 DEF Vid, VidFor, Contract!Next, Contract!Good, Contract!Refuse, Contract!Pass
  <2>7. CASE Send
    BY <2>7 DEF Send, Contract!Next, Contract!Good
  <2>8. CASE Other \/ UNCHANGED vars
    BY <2>8 DEF Other, Reader, MediaChange, Replace, vars, drive
  <2> QED
    BY <2>1, <2>2, <2>3, <2>4, <2>5, <2>6, <2>7, <2>8 DEF Next, Task
<1> QED
  BY Invariant, <1>1, <1>2, PTL DEF Spec, SwitchHolds, Contract!Spec
-----------------------------------------------------------------------------
(***************************************************************************)
(* How long a command can take.                                            *)
(***************************************************************************)

\* How many stretches of code are left of the command, at most.
Remaining ==
  CASE pc = "idle"     -> 0
    [] pc = "send"     -> 1
    [] pc = "dispatch" -> 1
    [] pc = "vid"      -> 2
    [] pc = "delay"    -> 2 * waits + 1
    [] pc = "wait"     -> 2 * waits + 2
    [] pc = "route"    -> 2 * Waits + 3

\* What is left is a number, and bounded by the delays granted.
LEMMA WithinBudget == IInv => Remaining \in 0..2 * Waits + 3
<1> SUFFICES ASSUME IInv PROVE Remaining \in 0..2 * Waits + 3
  OBVIOUS
<1>1. pc \in PCs /\ waits \in 0..Waits /\ Waits \in Nat
  BY WaitsAssumption DEF IInv, TaskTypeOK, Counted
<1>2. Remaining \in Nat BY <1>1 DEF Remaining, PCs
<1>3. Remaining <= 2 * Waits + 3 BY <1>1 DEF Remaining, PCs
<1> QED BY <1>1, <1>2, <1>3

\* However the background reader, the medium and the other tasks behave, every
\* stretch of the payload brings its command nearer the reply, at most twice
\* the granted delays and three of them (wait_read_idle, its bounded loop).
THEOREM CommandsAreBounded ==
  Spec => /\ [](Remaining \in 0..2 * Waits + 3)
          /\ [][/\ Task => Remaining' < Remaining
                /\ Other => Remaining' = Remaining]_vars
<1> DEFINE Step == /\ Task => Remaining' < Remaining
                   /\ Other => Remaining' = Remaining
<1>1. IInv /\ IInv' /\ [Next]_vars => [Step]_vars
  <2> SUFFICES ASSUME IInv, IInv' PROVE Step
    OBVIOUS
  <2>1. /\ waits \in 0..Waits /\ waits' \in 0..Waits /\ Waits \in Nat
        /\ pc = "delay" => waits > 0
    BY WaitsAssumption DEF IInv, Counted
  <2>2. ASSUME Route PROVE Remaining' < Remaining
    <3>1. pc = "route" /\ (pc' = "idle" \/ (pc' = "wait" /\ waits' = Waits))
      BY <2>2 DEF Route, Goto, Reply
    <3> QED BY <2>1, <3>1 DEF Remaining
  <2>3. ASSUME Wait PROVE Remaining' < Remaining
    <3>1. pc = "wait" /\ pc' \in {"idle", "delay", "dispatch"} /\ waits' = waits
      BY <2>3 DEF Wait, Switch, Goto, Reply
    <3> QED BY <2>1, <3>1 DEF Remaining
  <2>4. ASSUME Delay PROVE Remaining' < Remaining
    <3>1. pc = "delay" /\ pc' \in {"idle", "wait"} /\ waits' = waits - 1
      BY <2>4 DEF Delay, Goto, Reply
    <3> QED BY <2>1, <3>1 DEF Remaining
  <2>5. ASSUME Dispatch \/ Vid \/ Send PROVE Remaining' < Remaining
    <3>1. /\ pc \in {"dispatch", "vid", "send"}
          /\ pc' = "idle" \/ (pc = "vid" /\ pc' = "send")
      BY <2>5 DEF Dispatch, Vid, Send, Goto, Reply
    <3> QED BY <2>1, <3>1 DEF Remaining
  <2>6. Other => Remaining' = Remaining
    BY DEF Other, Reader, MediaChange, Replace, Remaining
  <2> QED BY <2>2, <2>3, <2>4, <2>5, <2>6 DEF Task
<1>2. IInv => Remaining \in 0..2 * Waits + 3
  BY WithinBudget
<1> QED BY Invariant, <1>1, <1>2, PTL DEF Spec
=============================================================================
