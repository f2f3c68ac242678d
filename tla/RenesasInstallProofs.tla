------------------------ MODULE RenesasInstallProofs ------------------------
(***************************************************************************)
(* Proofs about RenesasInstall, for every number of calls, faults and      *)
(* resets.  TypeCorrect comes first; the inductive invariant IInv then     *)
(* records, for each step of the transaction, what the steps before it     *)
(* have established about the slots and the payload.                       *)
(***************************************************************************)
EXTENDS RenesasInstall, TLAPS

(***************************************************************************)
(* What a command may change, whatever it is.                              *)
(***************************************************************************)

\* A command (OpticalTransport::exec) leaves the drive's flags in their ranges.
LEMMA CommandTypes ==
  ASSUME TypeOK, NEW slot, NEW reply \in Replies, Command(slot, reply)
  PROVE  /\ hung' \in BOOLEAN /\ attention' \in BOOLEAN /\ faulty' \in BOOLEAN
         /\ faults' \in 0..MaxFaults
<1>1. hung' \in BOOLEAN /\ attention' \in BOOLEAN
  BY Zenon DEF Command, Sent
<1>2. faulty' \in BOOLEAN
  BY Zenon DEF Command, Odd
<1>3. faults' \in 0..MaxFaults
  BY BoundsAssumption, SMT DEF TypeOK, DriveTypeOK, CallTypeOK, HistoryTypeOK, Command, Odd
<1> QED
  BY <1>1, <1>2, <1>3

\* A write of memory() leaves the cells and the flags in their ranges.
LEMMA StoreTypes ==
  ASSUME TypeOK, NEW cell \in Cells, NEW value \in Values, NEW reply \in Replies,
         Store(cell, value, reply)
  PROVE  /\ hung' \in BOOLEAN /\ attention' \in BOOLEAN /\ faulty' \in BOOLEAN
         /\ faults' \in 0..MaxFaults /\ lied' \in BOOLEAN
         /\ ram' \in [Cells -> Values]
<1>1. hung' \in BOOLEAN /\ attention' \in BOOLEAN
  BY Zenon DEF Store, Sent
<1>2. faulty' \in BOOLEAN /\ lied' \in BOOLEAN
  BY Zenon DEF TypeOK, DriveTypeOK, CallTypeOK, HistoryTypeOK, Store, Odd
<1>3. faults' \in 0..MaxFaults
  BY BoundsAssumption, SMT DEF TypeOK, DriveTypeOK, CallTypeOK, HistoryTypeOK, Store, Odd
<1>4. ram' \in [Cells -> Values]
  BY SMT DEF TypeOK, DriveTypeOK, CallTypeOK, HistoryTypeOK, Store, Values
<1> QED
  BY <1>1, <1>2, <1>3, <1>4

\* A write changes only its own cell, and only if the drive executes it:
\* then no UNIT ATTENTION was pending.
LEMMA StoreEffect ==
  ASSUME TypeOK, NEW cell \in Cells, NEW value \in Values, NEW reply \in Replies,
         Store(cell, value, reply)
  PROVE  /\ \A c \in Cells \ {cell} : ram'[c] = ram[c]
         /\ ram'[cell] \in {ram[cell], value, "torn"}
         /\ ram' # ram => ~attention
         /\ ram'[cell] = ram[cell] \/ ~attention
BY DEF TypeOK, DriveTypeOK, CallTypeOK, HistoryTypeOK, Store, Odd, Reply, Executes

-----------------------------------------------------------------------------
(***************************************************************************)
(* Type correctness.                                                       *)
(***************************************************************************)

\* Every variable of the transaction and of the drive stays in its range
\* through all the steps of unlock_backend and of the environment.
THEOREM TypeCorrect == Spec => []TypeOK
<1>1. Init => TypeOK
  <2> SUFFICES ASSUME Init PROVE TypeOK
    OBVIOUS
  <2>1. ram \in [Cells -> Values]
    BY DEF Init, Values
  <2>2. DriveTypeOK
    BY <2>1 DEF Init, DriveTypeOK
  <2>3. CallTypeOK
    BY DEF Init, CallTypeOK, Steps, Values, Errors, Verdicts
  <2>4. HistoryTypeOK
    <3>1. 0 \in 0..MaxCalls /\ 0 \in 0..MaxFaults /\ 0 \in 0..MaxResets
      BY BoundsAssumption, SMT
    <3> QED
      BY <2>1, <3>1, Zenon DEF Init, HistoryTypeOK
  <2> QED
    BY <2>2, <2>3, <2>4 DEF TypeOK
<1>2. TypeOK /\ [Next]_vars => TypeOK'
  <2> SUFFICES ASSUME TypeOK, [Next]_vars PROVE TypeOK'
    OBVIOUS
  <2> USE DEF TypeOK, Goto, FailTo, Return, callVars, callBook
  <2>1. CASE Begin
    <3>1. DriveTypeOK'
      BY <2>1, BoundsAssumption DEF Begin, drive, DriveTypeOK
    <3>2. CallTypeOK'
      BY <2>1, BoundsAssumption DEF Begin, drive, CallTypeOK, Steps, Values, Errors, Verdicts
    <3>3. HistoryTypeOK'
      <4>1. calls' \in 0..MaxCalls
        BY <2>1, BoundsAssumption, SMT DEF Begin, HistoryTypeOK
      <4> QED
        BY <2>1, <4>1, Zenon DEF Begin, drive, HistoryTypeOK, DriveTypeOK
    <3> QED
      BY <3>1, <3>2, <3>3
  <2>2. CASE Probe
    <3>1. DriveTypeOK'
      BY <2>2, CommandTypes DEF Probe, DriveTypeOK
    <3>2. CallTypeOK'
      BY <2>2, CommandTypes DEF Probe, CallTypeOK, PreparationError, Steps, Errors, Verdicts,
         DriveTypeOK
    <3>3. HistoryTypeOK'
      BY <2>2, CommandTypes DEF Probe, HistoryTypeOK
    <3> QED
      BY <3>1, <3>2, <3>3
  <2>3. CASE Platform
    <3>1. DriveTypeOK'
      BY <2>3, CommandTypes DEF Platform, DriveTypeOK
    <3>2. CallTypeOK'
      BY <2>3, CommandTypes DEF Platform, CallTypeOK, PreparationError, Steps, Errors,
         Verdicts, DriveTypeOK
    <3>3. HistoryTypeOK'
      BY <2>3, CommandTypes DEF Platform, HistoryTypeOK
    <3> QED
      BY <3>1, <3>2, <3>3
  <2>4. CASE Prepare
    <3>1. DriveTypeOK'
      BY <2>4, CommandTypes DEF Prepare, DriveTypeOK
    <3>2. CallTypeOK'
      BY <2>4, CommandTypes DEF Prepare, CallTypeOK, PreparationError, Steps, Errors, Verdicts,
         DriveTypeOK, Cells
    <3>3. HistoryTypeOK'
      BY <2>4, CommandTypes DEF Prepare, HistoryTypeOK
    <3> QED
      BY <3>1, <3>2, <3>3
  <2>5. CASE Enter
    <3>1. DriveTypeOK'
      BY <2>5 DEF Enter, Unverified, drive, DriveTypeOK
    <3>2. CallTypeOK'
      BY <2>5 DEF Enter, Unverified, drive, CallTypeOK, Steps, CriticalSteps, Errors, Verdicts
    <3>3. HistoryTypeOK'
      BY <2>5 DEF Enter, Unverified, drive, HistoryTypeOK
    <3> QED
      BY <3>1, <3>2, <3>3
  <2>6. CASE Finish
    <3>1. DriveTypeOK'
      BY <2>6 DEF Finish, Unverified, drive, DriveTypeOK
    <3>2. CallTypeOK'
      BY <2>6 DEF Finish, Unverified, drive, CallTypeOK, Steps, CriticalSteps, Errors, Verdicts
    <3>3. HistoryTypeOK'
      BY <2>6 DEF Finish, Unverified, drive, HistoryTypeOK
    <3> QED
      BY <3>1, <3>2, <3>3
  <2>7. CASE Close
    <3>1. DriveTypeOK'
      BY <2>7 DEF Close, Unverified, drive, DriveTypeOK
    <3>2. CallTypeOK'
      BY <2>7 DEF Close, Unverified, drive, CallTypeOK, Steps, CriticalSteps, Errors, Verdicts
    <3>3. HistoryTypeOK'
      BY <2>7 DEF Close, Unverified, drive, HistoryTypeOK
    <3> QED
      BY <3>1, <3>2, <3>3
  <2>8. CASE Check
    <3>1. DriveTypeOK'
      BY <2>8, CommandTypes DEF Check, DriveTypeOK
    <3>2. CallTypeOK'
      BY <2>8, CommandTypes DEF Check, CallTypeOK, PreparationError, Steps, CriticalSteps, Errors
    <3>3. HistoryTypeOK'
      BY <2>8, CommandTypes DEF Check, HistoryTypeOK
    <3> QED
      BY <3>1, <3>2, <3>3
  <2>9. CASE VerifyPayload
    <3>1. DriveTypeOK'
      BY <2>9, CommandTypes DEF VerifyPayload, Read, DriveTypeOK
    <3>2. CallTypeOK'
      BY <2>9, CommandTypes DEF VerifyPayload, Read, CallTypeOK, Steps, CriticalSteps, Errors
    <3>3. HistoryTypeOK'
      BY <2>9, CommandTypes DEF VerifyPayload, Read, HistoryTypeOK
    <3> QED
      BY <3>1, <3>2, <3>3
  <2>10. CASE VerifyVid
    <3>1. DriveTypeOK'
      BY <2>10, CommandTypes DEF VerifyVid, Read, DriveTypeOK
    <3>2. CallTypeOK'
      BY <2>10, CommandTypes DEF VerifyVid, Read, CallTypeOK, Steps, CriticalSteps, Errors
    <3>3. HistoryTypeOK'
      BY <2>10, CommandTypes DEF VerifyVid, Read, HistoryTypeOK
    <3> QED
      BY <3>1, <3>2, <3>3
  <2>11. CASE VerifyPtr
    <3>1. DriveTypeOK'
      BY <2>11, CommandTypes DEF VerifyPtr, Read, DriveTypeOK
    <3>2. CallTypeOK'
      BY <2>11, CommandTypes DEF VerifyPtr, Read, CallTypeOK, Steps, CriticalSteps, Errors
    <3>3. HistoryTypeOK'
      BY <2>11, CommandTypes DEF VerifyPtr, Read, HistoryTypeOK
    <3> QED
      BY <3>1, <3>2, <3>3
  <2>12. CASE Reprobe
    <3>1. DriveTypeOK'
      BY <2>12, CommandTypes DEF Reprobe, Read, DriveTypeOK
    <3>2. CallTypeOK'
      BY <2>12, CommandTypes DEF Reprobe, Read, CallTypeOK, Steps, CriticalSteps, Errors
    <3>3. HistoryTypeOK'
      BY <2>12, CommandTypes DEF Reprobe, Read, HistoryTypeOK
    <3> QED
      BY <3>1, <3>2, <3>3
  <2>13. CASE VerifyState
    <3>1. DriveTypeOK'
      BY <2>13, CommandTypes DEF VerifyState, Read, DriveTypeOK
    <3>2. CallTypeOK'
      BY <2>13, CommandTypes DEF VerifyState, Read, CallTypeOK, Steps, CriticalSteps, Errors
    <3>3. HistoryTypeOK'
      BY <2>13, CommandTypes DEF VerifyState, Read, HistoryTypeOK
    <3> QED
      BY <3>1, <3>2, <3>3
  <2>14. CASE VerifyHook
    <3>1. DriveTypeOK'
      BY <2>14, CommandTypes DEF VerifyHook, Read, DriveTypeOK
    <3>2. CallTypeOK'
      BY <2>14, CommandTypes DEF VerifyHook, Read, CallTypeOK, Steps, CriticalSteps, Errors
    <3>3. HistoryTypeOK'
      BY <2>14, CommandTypes DEF VerifyHook, Read, HistoryTypeOK
    <3> QED
      BY <3>1, <3>2, <3>3
  <2>15. CASE WritePayload
    <3>1. DriveTypeOK'
      BY <2>15, StoreTypes DEF WritePayload, Write, Cells, Slots, Values, DriveTypeOK
    <3>2. CallTypeOK'
      BY <2>15, StoreTypes DEF WritePayload, Write, Cells, Slots, Values, CallTypeOK, Steps,
         CriticalSteps, Errors
    <3>3. HistoryTypeOK'
      BY <2>15, StoreTypes DEF WritePayload, Write, Cells, Slots, Values, HistoryTypeOK
    <3> QED
      BY <3>1, <3>2, <3>3
  <2>16. CASE WriteVid
    <3>1. DriveTypeOK'
      BY <2>16, StoreTypes DEF WriteVid, Write, Cells, Slots, Values, DriveTypeOK
    <3>2. CallTypeOK'
      BY <2>16, StoreTypes DEF WriteVid, Write, Cells, Slots, Values, CallTypeOK, Steps,
         CriticalSteps, Errors
    <3>3. HistoryTypeOK'
      BY <2>16, StoreTypes DEF WriteVid, Write, Cells, Slots, Values, HistoryTypeOK
    <3> QED
      BY <3>1, <3>2, <3>3
  <2>17. CASE WritePtr
    <3>1. DriveTypeOK'
      BY <2>17, StoreTypes DEF WritePtr, Write, Cells, Slots, Values, DriveTypeOK
    <3>2. CallTypeOK'
      BY <2>17, StoreTypes DEF WritePtr, Write, Cells, Slots, Values, CallTypeOK, Steps,
         CriticalSteps, Errors
    <3>3. HistoryTypeOK'
      BY <2>17, StoreTypes DEF WritePtr, Write, Cells, Slots, Values, HistoryTypeOK
    <3> QED
      BY <3>1, <3>2, <3>3
  <2>18. CASE Optional
    <3>1. DriveTypeOK'
      BY <2>18, CommandTypes DEF Optional, Unverified, DriveTypeOK
    <3>2. CallTypeOK'
      BY <2>18, CommandTypes DEF Optional, Unverified, CallTypeOK, Steps, CriticalSteps,
         Errors, Verdicts
    <3>3. HistoryTypeOK'
      BY <2>18, CommandTypes DEF Optional, Unverified, HistoryTypeOK
    <3> QED
      BY <3>1, <3>2, <3>3
  <2>19. CASE GetVid
    <3>1. DriveTypeOK'
      BY <2>19, CommandTypes DEF GetVid, Unverified, DriveTypeOK
    <3>2. CallTypeOK'
      BY <2>19, CommandTypes DEF GetVid, Unverified, CallTypeOK, Steps, CriticalSteps, Errors,
         Verdicts
    <3>3. HistoryTypeOK'
      BY <2>19, CommandTypes DEF GetVid, Unverified, HistoryTypeOK
    <3> QED
      BY <3>1, <3>2, <3>3
  <2>20. CASE FinishVerify
    <3>1. DriveTypeOK'
      BY <2>20, CommandTypes DEF FinishVerify, Unverified, DriveTypeOK
    <3>2. CallTypeOK'
      BY <2>20, CommandTypes DEF FinishVerify, Unverified, CallTypeOK, Steps, CriticalSteps,
         Errors, Verdicts
    <3>3. HistoryTypeOK'
      BY <2>20, CommandTypes DEF FinishVerify, Unverified, HistoryTypeOK
    <3> QED
      BY <3>1, <3>2, <3>3
  <2>21. CASE Tune
    <3>1. DriveTypeOK'
      BY <2>21, CommandTypes DEF Tune, Unverified, DriveTypeOK
    <3>2. CallTypeOK'
      BY <2>21, CommandTypes DEF Tune, Unverified, CallTypeOK, Steps, CriticalSteps, Errors,
         Verdicts
    <3>3. HistoryTypeOK'
      BY <2>21, CommandTypes DEF Tune, Unverified, HistoryTypeOK
    <3> QED
      BY <3>1, <3>2, <3>3
  <2>22. CASE SetEncryption
    <3>1. DriveTypeOK'
      BY <2>22, CommandTypes DEF SetEncryption, DriveTypeOK, Values
    <3>2. CallTypeOK'
      BY <2>22, CommandTypes DEF SetEncryption, CallTypeOK, Steps, CriticalSteps, Errors
    <3>3. HistoryTypeOK'
      BY <2>22, CommandTypes DEF SetEncryption, HistoryTypeOK
    <3> QED
      BY <3>1, <3>2, <3>3
  <2>23. CASE CheckPtr
    <3>1. DriveTypeOK'
      BY <2>23, CommandTypes DEF CheckPtr, Undo, DriveTypeOK
    <3>2. CallTypeOK'
      BY <2>23, CommandTypes DEF CheckPtr, Undo, CallTypeOK, Steps, CriticalSteps
    <3>3. HistoryTypeOK'
      BY <2>23, CommandTypes DEF CheckPtr, Undo, HistoryTypeOK
    <3> QED
      BY <3>1, <3>2, <3>3
  <2>24. CASE CheckVid
    <3>1. DriveTypeOK'
      BY <2>24, CommandTypes DEF CheckVid, Undo, DriveTypeOK
    <3>2. CallTypeOK'
      BY <2>24, CommandTypes DEF CheckVid, Undo, CallTypeOK, Steps, CriticalSteps
    <3>3. HistoryTypeOK'
      BY <2>24, CommandTypes DEF CheckVid, Undo, HistoryTypeOK
    <3> QED
      BY <3>1, <3>2, <3>3
  <2>25. CASE CheckPaths
    <3>1. DriveTypeOK'
      BY <2>25, CommandTypes DEF CheckPaths, Undo, DriveTypeOK
    <3>2. CallTypeOK'
      BY <2>25, CommandTypes DEF CheckPaths, Undo, CallTypeOK, Steps, CriticalSteps
    <3>3. HistoryTypeOK'
      BY <2>25, CommandTypes DEF CheckPaths, Undo, HistoryTypeOK
    <3> QED
      BY <3>1, <3>2, <3>3
  <2>26. CASE ReadPolicy
    <3>1. DriveTypeOK'
      BY <2>26, CommandTypes DEF ReadPolicy, Undo, DriveTypeOK
    <3>2. CallTypeOK'
      BY <2>26, CommandTypes DEF ReadPolicy, Undo, CallTypeOK, Steps, CriticalSteps
    <3>3. HistoryTypeOK'
      BY <2>26, CommandTypes DEF ReadPolicy, Undo, HistoryTypeOK
    <3> QED
      BY <3>1, <3>2, <3>3
  <2>27. CASE CheckPolicy
    <3>1. DriveTypeOK'
      BY <2>27, CommandTypes DEF CheckPolicy, Undo, DriveTypeOK
    <3>2. CallTypeOK'
      BY <2>27, CommandTypes DEF CheckPolicy, Undo, CallTypeOK, Steps, CriticalSteps
    <3>3. HistoryTypeOK'
      BY <2>27, CommandTypes DEF CheckPolicy, Undo, HistoryTypeOK
    <3> QED
      BY <3>1, <3>2, <3>3
  <2>28. CASE CheckMem
    <3>1. DriveTypeOK'
      BY <2>28, CommandTypes DEF CheckMem, Undo, DriveTypeOK
    <3>2. CallTypeOK'
      BY <2>28, CommandTypes DEF CheckMem, Undo, CallTypeOK, Steps, CriticalSteps
    <3>3. HistoryTypeOK'
      BY <2>28, CommandTypes DEF CheckMem, Undo, HistoryTypeOK
    <3> QED
      BY <3>1, <3>2, <3>3
  <2>29. CASE DetachPtr
    <3>1. DriveTypeOK'
      BY <2>29, StoreTypes DEF DetachPtr, UndoWrite, Cells, Slots, Values, CallTypeOK, DriveTypeOK
    <3>2. CallTypeOK'
      BY <2>29, StoreTypes DEF DetachPtr, UndoWrite, Cells, Slots, Values, CallTypeOK,
         CallTypeOK, Steps, CriticalSteps
    <3>3. HistoryTypeOK'
      BY <2>29, StoreTypes DEF DetachPtr, UndoWrite, Cells, Slots, Values, CallTypeOK,
         HistoryTypeOK
    <3> QED
      BY <3>1, <3>2, <3>3
  <2>30. CASE DetachVid
    <3>1. DriveTypeOK'
      BY <2>30, StoreTypes DEF DetachVid, UndoWrite, Cells, Slots, Values, CallTypeOK, DriveTypeOK
    <3>2. CallTypeOK'
      BY <2>30, StoreTypes DEF DetachVid, UndoWrite, Cells, Slots, Values, CallTypeOK,
         CallTypeOK, Steps, CriticalSteps
    <3>3. HistoryTypeOK'
      BY <2>30, StoreTypes DEF DetachVid, UndoWrite, Cells, Slots, Values, CallTypeOK,
         HistoryTypeOK
    <3> QED
      BY <3>1, <3>2, <3>3
  <2>31. CASE RestorePolicy
    <3>1. DriveTypeOK'
      BY <2>31, StoreTypes DEF RestorePolicy, UndoWrite, Cells, Slots, Values, CallTypeOK,
         DriveTypeOK
    <3>2. CallTypeOK'
      BY <2>31, StoreTypes DEF RestorePolicy, UndoWrite, Cells, Slots, Values, CallTypeOK,
         CallTypeOK, Steps, CriticalSteps
    <3>3. HistoryTypeOK'
      BY <2>31, StoreTypes DEF RestorePolicy, UndoWrite, Cells, Slots, Values, CallTypeOK,
         HistoryTypeOK
    <3> QED
      BY <3>1, <3>2, <3>3
  <2>32. CASE RestoreMem
    <3>1. DriveTypeOK'
      BY <2>32, StoreTypes DEF RestoreMem, UndoWrite, Cells, Slots, Values, CallTypeOK,
         DriveTypeOK
    <3>2. CallTypeOK'
      BY <2>32, StoreTypes DEF RestoreMem, UndoWrite, Cells, Slots, Values, CallTypeOK,
         CallTypeOK, Steps, CriticalSteps
    <3>3. HistoryTypeOK'
      BY <2>32, StoreTypes DEF RestoreMem, UndoWrite, Cells, Slots, Values, CallTypeOK,
         HistoryTypeOK
    <3> QED
      BY <3>1, <3>2, <3>3
  <2>33. CASE Stop
    <3>1. DriveTypeOK'
      BY <2>33, BoundsAssumption DEF Stop, drive, history, DriveTypeOK, Blank, Values
    <3>2. CallTypeOK'
      BY <2>33, BoundsAssumption DEF Stop, drive, history, CallTypeOK
    <3>3. HistoryTypeOK'
      BY <2>33, BoundsAssumption DEF Stop, drive, history, HistoryTypeOK
    <3> QED
      BY <3>1, <3>2, <3>3
  <2>34. CASE PowerCycle
    <3>1. DriveTypeOK'
      BY <2>34, BoundsAssumption DEF PowerCycle, drive, history, DriveTypeOK, Blank, Values
    <3>2. CallTypeOK'
      BY <2>34, BoundsAssumption DEF PowerCycle, drive, history, CallTypeOK
    <3>3. HistoryTypeOK'
      <4>1. resets' \in 0..MaxResets
        BY <2>34, BoundsAssumption, SMT DEF PowerCycle, HistoryTypeOK
      <4> QED
        BY <2>34, <4>1, Zenon DEF PowerCycle, drive, history, HistoryTypeOK
    <3> QED
      BY <3>1, <3>2, <3>3
  <2>35. CASE MediaChange
    <3>1. DriveTypeOK'
      BY <2>35, BoundsAssumption DEF MediaChange, drive, history, DriveTypeOK, Blank, Values
    <3>2. CallTypeOK'
      BY <2>35, BoundsAssumption DEF MediaChange, drive, history, CallTypeOK
    <3>3. HistoryTypeOK'
      BY <2>35, BoundsAssumption DEF MediaChange, drive, history, HistoryTypeOK
    <3> QED
      BY <3>1, <3>2, <3>3
  <2>36. CASE MapMoves
    <3>1. DriveTypeOK'
      BY <2>36, BoundsAssumption DEF MapMoves, drive, history, DriveTypeOK, Blank, Values
    <3>2. CallTypeOK'
      BY <2>36, BoundsAssumption DEF MapMoves, drive, history, CallTypeOK
    <3>3. HistoryTypeOK'
      BY <2>36, BoundsAssumption DEF MapMoves, drive, history, HistoryTypeOK
    <3> QED
      BY <3>1, <3>2, <3>3
  <2>37. CASE UNCHANGED vars
    BY <2>37 DEF DriveTypeOK, CallTypeOK, HistoryTypeOK, vars, drive, history
  <2> QED
    BY <2>1, <2>2, <2>3, <2>4, <2>5, <2>6, <2>7, <2>8, <2>9, <2>10, <2>11, <2>12, <2>13, <2>14,
       <2>15, <2>16, <2>17, <2>18, <2>19, <2>20, <2>21, <2>22, <2>23, <2>24, <2>25, <2>26,
          <2>27, <2>28, <2>29, <2>30, <2>31, <2>32, <2>33, <2>34, <2>35, <2>36, <2>37 DEF Next,
             Host, Environment
<1> QED
  BY <1>1, <1>2, PTL DEF Spec

-----------------------------------------------------------------------------
(***************************************************************************)
(* No callback dangles.  HookIntact is not inductive by itself: that a     *)
(* slot may be written, or the reserved RAM freed, rests on what the steps *)
(* before it have verified.  IInv records that.                            *)
(***************************************************************************)

SlotsOem == ram["ptr"] = "oem" /\ ram["vid"] = "oem" /\ ram["sec"] = "oem"

\* Before the first slot is written, and when the reserved RAM is freed, no
\* slot is hooked; each detached slot stays detached on the way there.
Detached ==
  /\ pc \in {"writePayload", "verifyPayload", "writeVid", "restoreMem"} => SlotsOem
  /\ pc \in {"detachVid", "checkVid", "checkPaths", "readPolicy", "restorePolicy",
             "checkPolicy"} => ram["ptr"] = "oem"
  /\ pc \in {"checkPaths", "readPolicy", "restorePolicy", "checkPolicy"}
       => ram["vid"] = "oem"

\* While the slots are being written the payload is there, or a reset took it
\* and the next command will be refused.
Filled ==
  pc \in {"writeVid", "verifyVid", "writePtr"} => ram["mem"] = "own" \/ attention

IInv == HookIntact /\ Detached /\ Filled


\* A GOOD answer shows that no UNIT ATTENTION was pending.
LEMMA GoodCommand ==
  ASSUME NEW slot, Command(slot, "good")
  PROVE  ~attention
BY Zenon DEF Command, Reply, Odd, Executes

\* The same of a write.
LEMMA GoodStore ==
  ASSUME NEW cell, NEW value, Store(cell, value, "good")
  PROVE  ~attention
BY Zenon DEF Store, Reply, Odd, Executes

\* No step of the transaction, of the drive or of the environment leaves a
\* hooked slot without its payload.
LEMMA Inductive == TypeOK /\ IInv /\ [Next]_vars => IInv'
<1> SUFFICES ASSUME TypeOK, IInv, [Next]_vars PROVE IInv'
  OBVIOUS
<1> USE DEF IInv, Goto, FailTo, Return
<1>1. CASE Begin
  BY <1>1 DEF Begin, drive, HookIntact, Detached, Filled, SlotsOem
<1>2. CASE Probe
  BY <1>2, GoodCommand DEF Probe, Unverified, Owned, HookIntact, Detached, Filled, SlotsOem
<1>3. CASE Platform
  BY <1>3, GoodCommand DEF Platform, Unverified, Owned, HookIntact, Detached, Filled, SlotsOem
<1>4. CASE Prepare
  BY <1>4, GoodCommand DEF Prepare, Unverified, Owned, HookIntact, Detached, Filled, SlotsOem
<1>5. CASE Check
  BY <1>5, GoodCommand DEF Check, Unverified, Owned, HookIntact, Detached, Filled, SlotsOem
<1>6. CASE Optional
  BY <1>6, GoodCommand DEF Optional, Unverified, Owned, HookIntact, Detached, Filled, SlotsOem
<1>7. CASE GetVid
  BY <1>7, GoodCommand DEF GetVid, Unverified, Owned, HookIntact, Detached, Filled, SlotsOem
<1>8. CASE FinishVerify
  BY <1>8, GoodCommand DEF FinishVerify, Unverified, Owned, HookIntact, Detached, Filled, SlotsOem
<1>9. CASE Tune
  BY <1>9, GoodCommand DEF Tune, Unverified, Owned, HookIntact, Detached, Filled, SlotsOem
<1>10. CASE Enter
  BY <1>10 DEF Enter, Unverified, drive, HookIntact, Detached, Filled, SlotsOem
<1>11. CASE Finish
  BY <1>11 DEF Finish, Unverified, drive, HookIntact, Detached, Filled, SlotsOem
<1>12. CASE Close
  BY <1>12 DEF Close, Unverified, drive, HookIntact, Detached, Filled, SlotsOem
<1>13. CASE VerifyPayload
  BY <1>13, GoodCommand DEF VerifyPayload, Read, HookIntact, Detached, Filled, SlotsOem
<1>14. CASE VerifyVid
  BY <1>14, GoodCommand DEF VerifyVid, Read, HookIntact, Detached, Filled, SlotsOem
<1>15. CASE VerifyPtr
  BY <1>15, GoodCommand DEF VerifyPtr, Read, HookIntact, Detached, Filled, SlotsOem
<1>16. CASE Reprobe
  BY <1>16, GoodCommand DEF Reprobe, Read, HookIntact, Detached, Filled, SlotsOem
<1>17. CASE VerifyState
  BY <1>17, GoodCommand DEF VerifyState, Read, HookIntact, Detached, Filled, SlotsOem
<1>18. CASE VerifyHook
  BY <1>18, GoodCommand DEF VerifyHook, Read, HookIntact, Detached, Filled, SlotsOem
<1>19. CASE WritePayload
  BY <1>19, StoreEffect, GoodStore DEF WritePayload, Write, Cells, Slots, Values, HookIntact,
     Detached, Filled, SlotsOem
<1>20. CASE WriteVid
  BY <1>20, StoreEffect, GoodStore DEF WriteVid, Write, Cells, Slots, Values, HookIntact,
     Detached, Filled, SlotsOem
<1>21. CASE WritePtr
  BY <1>21, StoreEffect, GoodStore DEF WritePtr, Write, Cells, Slots, Values, HookIntact,
     Detached, Filled, SlotsOem
<1>22. CASE SetEncryption
  BY <1>22 DEF SetEncryption, Suppressing, TypeOK, DriveTypeOK, Cells, Slots, HookIntact,
     Detached, Filled, SlotsOem
<1>23. CASE CheckPtr
  BY <1>23, GoodCommand DEF CheckPtr, Undo, HookIntact, Detached, Filled, SlotsOem
<1>24. CASE CheckVid
  BY <1>24, GoodCommand DEF CheckVid, Undo, HookIntact, Detached, Filled, SlotsOem
<1>25. CASE CheckPaths
  BY <1>25, GoodCommand DEF CheckPaths, Undo, HookIntact, Detached, Filled, SlotsOem
<1>26. CASE ReadPolicy
  BY <1>26, GoodCommand DEF ReadPolicy, Undo, HookIntact, Detached, Filled, SlotsOem
<1>27. CASE CheckPolicy
  BY <1>27, GoodCommand DEF CheckPolicy, Undo, HookIntact, Detached, Filled, SlotsOem
<1>28. CASE CheckMem
  BY <1>28, GoodCommand DEF CheckMem, Undo, HookIntact, Detached, Filled, SlotsOem
<1>29. CASE DetachPtr
  BY <1>29, StoreEffect, GoodStore DEF DetachPtr, UndoWrite, Cells, Slots, Values, HookIntact,
     Detached, Filled, SlotsOem
<1>30. CASE DetachVid
  BY <1>30, StoreEffect, GoodStore DEF DetachVid, UndoWrite, Cells, Slots, Values, HookIntact,
     Detached, Filled, SlotsOem
<1>31. CASE RestorePolicy
  BY <1>31, StoreEffect, GoodStore DEF RestorePolicy, UndoWrite, Cells, Slots, Values,
     HookIntact, Detached, Filled, SlotsOem
<1>32. CASE RestoreMem
  BY <1>32, StoreEffect, GoodStore DEF TypeOK, CallTypeOK, RestoreMem, UndoWrite, Cells, Slots,
     Values, HookIntact, Detached, Filled, SlotsOem
<1>33. CASE Stop
  BY <1>33 DEF Stop, Blank, drive, Cells, Slots, HookIntact, Detached, Filled, SlotsOem
<1>34. CASE PowerCycle
  BY <1>34 DEF PowerCycle, Blank, drive, Cells, Slots, HookIntact, Detached, Filled, SlotsOem
<1>35. CASE MediaChange
  BY <1>35 DEF MediaChange, Blank, drive, Cells, Slots, HookIntact, Detached, Filled, SlotsOem
<1>36. CASE MapMoves
  BY <1>36 DEF MapMoves, Blank, drive, Cells, Slots, HookIntact, Detached, Filled, SlotsOem
<1>37. CASE UNCHANGED vars
  BY <1>37 DEF vars, drive, HookIntact, Detached, Filled, SlotsOem
<1> QED
  BY <1>1, <1>2, <1>3, <1>4, <1>5, <1>6, <1>7, <1>8, <1>9, <1>10, <1>11, <1>12, <1>13, <1>14,
     <1>15, <1>16, <1>17, <1>18, <1>19, <1>20, <1>21, <1>22, <1>23, <1>24, <1>25, <1>26, <1>27,
        <1>28, <1>29, <1>30, <1>31, <1>32, <1>33, <1>34, <1>35, <1>36, <1>37 DEF Next, Host,
           Environment

\* However stage() and cleanup() are interrupted, a hooked slot finds the
\* whole payload of its hook in the reserved RAM.
THEOREM HookIsIntact == Spec => []HookIntact
<1>1. Init => IInv
  BY DEF Init, IInv, HookIntact, Detached, Filled, SlotsOem, Cells, Slots
<1>2. IInv => HookIntact
  BY DEF IInv
<1> QED
  BY <1>1, <1>2, TypeCorrect, Inductive, PTL DEF Spec

-----------------------------------------------------------------------------
(***************************************************************************)
(* The reserved RAM changes only while it is detached.                     *)
(***************************************************************************)

MemStep == ram'["mem"] # ram["mem"] => ram' = Blank \/ \A s \in Slots : ram[s] = "oem"

\* stage() and cleanup() write the reserved RAM only while it is detached.
LEMMA MemSteps == TypeOK /\ IInv /\ [Next]_vars => [MemStep]_vars
<1> SUFFICES ASSUME TypeOK, IInv, [Next]_vars PROVE MemStep
  OBVIOUS
<1> USE DEF MemStep
<1>1. CASE Begin
  BY <1>1 DEF Begin, drive
<1>2. CASE Probe
  BY <1>2 DEF Probe
<1>3. CASE Platform
  BY <1>3 DEF Platform
<1>4. CASE Prepare
  BY <1>4 DEF Prepare
<1>5. CASE Check
  BY <1>5 DEF Check
<1>6. CASE Optional
  BY <1>6 DEF Optional
<1>7. CASE GetVid
  BY <1>7 DEF GetVid
<1>8. CASE FinishVerify
  BY <1>8 DEF FinishVerify
<1>9. CASE Tune
  BY <1>9 DEF Tune
<1>10. CASE Enter
  BY <1>10 DEF Enter, drive
<1>11. CASE Finish
  BY <1>11 DEF Finish, drive
<1>12. CASE Close
  BY <1>12 DEF Close, drive
<1>13. CASE VerifyPayload
  BY <1>13 DEF VerifyPayload, Read
<1>14. CASE VerifyVid
  BY <1>14 DEF VerifyVid, Read
<1>15. CASE VerifyPtr
  BY <1>15 DEF VerifyPtr, Read
<1>16. CASE Reprobe
  BY <1>16 DEF Reprobe, Read
<1>17. CASE VerifyState
  BY <1>17 DEF VerifyState, Read
<1>18. CASE VerifyHook
  BY <1>18 DEF VerifyHook, Read
<1>19. CASE WritePayload
  BY <1>19 DEF WritePayload, Write, IInv, Detached, SlotsOem, Slots
<1>20. CASE WriteVid
  BY <1>20, StoreEffect DEF WriteVid, Write, Cells, Slots, Values
<1>21. CASE WritePtr
  BY <1>21, StoreEffect DEF WritePtr, Write, Cells, Slots, Values
<1>22. CASE SetEncryption
  BY <1>22 DEF SetEncryption, TypeOK, DriveTypeOK, Cells
<1>23. CASE CheckPtr
  BY <1>23 DEF CheckPtr, Undo
<1>24. CASE CheckVid
  BY <1>24 DEF CheckVid, Undo
<1>25. CASE CheckPaths
  BY <1>25 DEF CheckPaths, Undo
<1>26. CASE ReadPolicy
  BY <1>26 DEF ReadPolicy, Undo
<1>27. CASE CheckPolicy
  BY <1>27 DEF CheckPolicy, Undo
<1>28. CASE CheckMem
  BY <1>28 DEF CheckMem, Undo
<1>29. CASE DetachPtr
  BY <1>29, StoreEffect DEF DetachPtr, UndoWrite, Cells, Slots, Values
<1>30. CASE DetachVid
  BY <1>30, StoreEffect DEF DetachVid, UndoWrite, Cells, Slots, Values
<1>31. CASE RestorePolicy
  BY <1>31, StoreEffect DEF RestorePolicy, UndoWrite, Cells, Slots, Values
<1>32. CASE RestoreMem
  BY <1>32 DEF RestoreMem, UndoWrite, IInv, Detached, SlotsOem, Slots
<1>33. CASE Stop
  BY <1>33 DEF Stop, drive
<1>34. CASE PowerCycle
  BY <1>34 DEF PowerCycle, drive
<1>35. CASE MediaChange
  BY <1>35 DEF MediaChange, drive
<1>36. CASE MapMoves
  BY <1>36 DEF MapMoves, drive
<1>37. CASE UNCHANGED vars
  BY <1>37 DEF vars, drive
<1> QED
  BY <1>1, <1>2, <1>3, <1>4, <1>5, <1>6, <1>7, <1>8, <1>9, <1>10, <1>11, <1>12, <1>13, <1>14,
     <1>15, <1>16, <1>17, <1>18, <1>19, <1>20, <1>21, <1>22, <1>23, <1>24, <1>25, <1>26, <1>27,
        <1>28, <1>29, <1>30, <1>31, <1>32, <1>33, <1>34, <1>35, <1>36, <1>37 DEF Next, Host,
           Environment

\* stage() fills the reserved RAM before attaching to it, and cleanup() frees
\* it only after it has seen every slot detached.
THEOREM FilledWhileDetached == Spec => FilledDetached
<1>1. Init => IInv
  BY DEF Init, IInv, HookIntact, Detached, Filled, SlotsOem, Cells, Slots
<1> QED
  BY <1>1, TypeCorrect, Inductive, MemSteps, PTL DEF Spec, FilledDetached, MemStep

-----------------------------------------------------------------------------
(***************************************************************************)
(* A Stop always surfaces as Transport.                                    *)
(***************************************************************************)

\* A Stop survives every step of the call: pause(0) or the next command
\* outside the span reports it.
LEMMA StopSteps == TypeOK /\ StopIsFatal /\ [Next]_vars => StopIsFatal'
<1> SUFFICES ASSUME TypeOK, StopIsFatal, [Next]_vars PROVE StopIsFatal'
  OBVIOUS
<1> USE DEF StopIsFatal, Goto, FailTo, Return, callVars, TypeOK, CallTypeOK
<1>1. CASE Begin
  BY <1>1 DEF Begin
<1>2. CASE Probe
  BY <1>2 DEF Probe, PreparationError, Command, Odd, Executes, Reply, Blocked, CriticalSteps
<1>3. CASE Platform
  BY <1>3 DEF Platform, PreparationError, Command, Odd, Executes, Reply, Blocked, CriticalSteps
<1>4. CASE Prepare
  BY <1>4 DEF Prepare, PreparationError, Command, Odd, Executes, Reply, Blocked, CriticalSteps
<1>5. CASE Tune
  BY <1>5 DEF Tune, PreparationError, Command, Odd, Executes, Reply, Blocked, CriticalSteps
<1>6. CASE Check
  BY <1>6 DEF Check
<1>7. CASE Optional
  BY <1>7 DEF Optional
<1>8. CASE GetVid
  BY <1>8 DEF GetVid
<1>9. CASE FinishVerify
  BY <1>9 DEF FinishVerify, Unverified
<1>10. CASE Enter
  BY <1>10 DEF Enter, Unverified
<1>11. CASE Finish
  BY <1>11 DEF Finish, Unverified
<1>12. CASE Close
  BY <1>12 DEF Close, Unverified
<1>13. CASE VerifyPayload
  BY <1>13 DEF VerifyPayload, Read
<1>14. CASE VerifyVid
  BY <1>14 DEF VerifyVid, Read
<1>15. CASE VerifyPtr
  BY <1>15 DEF VerifyPtr, Read
<1>16. CASE Reprobe
  BY <1>16 DEF Reprobe, Read
<1>17. CASE VerifyState
  BY <1>17 DEF VerifyState, Read
<1>18. CASE VerifyHook
  BY <1>18 DEF VerifyHook, Read
<1>19. CASE WritePayload
  BY <1>19 DEF WritePayload, Write
<1>20. CASE WriteVid
  BY <1>20 DEF WriteVid, Write
<1>21. CASE WritePtr
  BY <1>21 DEF WritePtr, Write
<1>22. CASE SetEncryption
  BY <1>22 DEF SetEncryption
<1>23. CASE CheckPtr
  BY <1>23 DEF CheckPtr, Undo
<1>24. CASE CheckVid
  BY <1>24 DEF CheckVid, Undo
<1>25. CASE CheckPaths
  BY <1>25 DEF CheckPaths, Undo
<1>26. CASE ReadPolicy
  BY <1>26 DEF ReadPolicy, Undo
<1>27. CASE CheckPolicy
  BY <1>27 DEF CheckPolicy, Undo
<1>28. CASE CheckMem
  BY <1>28 DEF CheckMem, Undo
<1>29. CASE DetachPtr
  BY <1>29 DEF DetachPtr, UndoWrite
<1>30. CASE DetachVid
  BY <1>30 DEF DetachVid, UndoWrite
<1>31. CASE RestorePolicy
  BY <1>31 DEF RestorePolicy, UndoWrite
<1>32. CASE RestoreMem
  BY <1>32 DEF RestoreMem, UndoWrite
<1>33. CASE Stop
  BY <1>33 DEF Stop
<1>34. CASE PowerCycle
  BY <1>34 DEF PowerCycle
<1>35. CASE MediaChange
  BY <1>35 DEF MediaChange
<1>36. CASE MapMoves
  BY <1>36 DEF MapMoves
<1>37. CASE UNCHANGED vars
  BY <1>37 DEF vars
<1> QED
  BY <1>1, <1>2, <1>3, <1>4, <1>5, <1>6, <1>7, <1>8, <1>9, <1>10, <1>11, <1>12, <1>13, <1>14,
     <1>15, <1>16, <1>17, <1>18, <1>19, <1>20, <1>21, <1>22, <1>23, <1>24, <1>25, <1>26, <1>27,
        <1>28, <1>29, <1>30, <1>31, <1>32, <1>33, <1>34, <1>35, <1>36, <1>37 DEF Next, Host,
           Environment

\* Wherever Stop lands, also inside the critical span, the call ends in
\* Transport and never as a refusal to handle the drive.
THEOREM StopAlwaysFatal == Spec => []StopIsFatal
<1>1. Init => StopIsFatal
  BY DEF Init, StopIsFatal
<1> QED
  BY <1>1, TypeCorrect, StopSteps, PTL DEF Spec

-----------------------------------------------------------------------------
(***************************************************************************)
(* A resident hook stays, and every call keeps the unlocker's contract.    *)
(* CallInv says what each step knows about the image the call found.       *)
(***************************************************************************)

Removing ==
  {"detachPtr", "checkPtr", "detachVid", "checkVid", "checkPaths", "readPolicy",
   "restorePolicy", "checkPolicy", "restoreMem", "checkMem"}

Installing ==
  {"writePayload", "verifyPayload", "writeVid", "verifyVid", "writePtr", "verifyPtr",
   "reprobe"}

Untouched == ram = entry \/ disturbed

CallInv ==
  /\ pc \in Installing \cup Removing => ~existing
  /\ pc \in Removing => err = "transport"
  /\ pc \in {"probe", "platform", "prepare", "enter", "check"} => ~touched
  /\ pc \in Installing \cup Removing
       \cup {"optional", "encrypt", "verifyState", "verifyHook", "getVid", "finishVerify"}
       => touched
  /\ pc # "idle" /\ ~touched => Untouched
  /\ pc \in {"finish", "close"} /\ ~touched => err # "none"
  /\ pc = "finishVerify" => err = "none"
  /\ pc = "close" /\ touched => err \in {"none", "transport"}
  /\ pc = "close" /\ err = "none" => ram = Resident \/ disturbed
  /\ pc = "tune" => ram = Resident \/ disturbed
  /\ pc = "idle" <=> verdict # "running"

\* Where the call stands determines what it has verified and what it may
\* still undo.
LEMMA CallSteps == TypeOK /\ CallInv /\ [Next]_vars => CallInv'
<1> SUFFICES ASSUME TypeOK, CallInv, [Next]_vars PROVE CallInv'
  OBVIOUS
<1> USE DEF CallInv, Untouched, Installing, Removing, Goto, FailTo, Return, callVars, callBook
<1>1. CASE Begin
  BY <1>1 DEF Begin, drive
<1>2. CASE Probe
  BY <1>2 DEF Probe, PreparationError
<1>3. CASE Platform
  BY <1>3 DEF Platform, PreparationError
<1>4. CASE Prepare
  BY <1>4 DEF Prepare, PreparationError
<1>5. CASE Tune
  BY <1>5 DEF Tune, PreparationError
<1>6. CASE Optional
  BY <1>6 DEF Optional, PreparationError
<1>7. CASE GetVid
  BY <1>7 DEF GetVid, PreparationError
<1>8. CASE Check
  BY <1>8 DEF Check, PreparationError
<1>9. CASE FinishVerify
  BY <1>9 DEF FinishVerify, Unverified, IsResident
<1>10. CASE Enter
  BY <1>10 DEF Enter, Unverified, drive
<1>11. CASE Finish
  BY <1>11 DEF Finish, Unverified, drive
<1>12. CASE Close
  BY <1>12 DEF Close, Unverified, drive
<1>13. CASE VerifyPayload
  BY <1>13 DEF VerifyPayload, Read
<1>14. CASE VerifyVid
  BY <1>14 DEF VerifyVid, Read
<1>15. CASE VerifyPtr
  BY <1>15 DEF VerifyPtr, Read
<1>16. CASE Reprobe
  BY <1>16 DEF Reprobe, Read
<1>17. CASE VerifyState
  BY <1>17 DEF VerifyState, Read
<1>18. CASE VerifyHook
  BY <1>18 DEF VerifyHook, Read
<1>19. CASE WritePayload
  BY <1>19 DEF WritePayload, Write
<1>20. CASE WriteVid
  BY <1>20 DEF WriteVid, Write
<1>21. CASE WritePtr
  BY <1>21 DEF WritePtr, Write
<1>22. CASE SetEncryption
  BY <1>22 DEF SetEncryption
<1>23. CASE CheckPtr
  BY <1>23 DEF CheckPtr, Undo
<1>24. CASE CheckVid
  BY <1>24 DEF CheckVid, Undo
<1>25. CASE CheckPaths
  BY <1>25 DEF CheckPaths, Undo
<1>26. CASE ReadPolicy
  BY <1>26 DEF ReadPolicy, Undo
<1>27. CASE CheckPolicy
  BY <1>27 DEF CheckPolicy, Undo
<1>28. CASE CheckMem
  BY <1>28 DEF CheckMem, Undo
<1>29. CASE DetachPtr
  BY <1>29 DEF DetachPtr, UndoWrite
<1>30. CASE DetachVid
  BY <1>30 DEF DetachVid, UndoWrite
<1>31. CASE RestorePolicy
  BY <1>31 DEF RestorePolicy, UndoWrite
<1>32. CASE RestoreMem
  BY <1>32 DEF RestoreMem, UndoWrite
<1>33. CASE Stop
  BY <1>33 DEF Stop, drive, history
<1>34. CASE PowerCycle
  BY <1>34 DEF PowerCycle, drive, history
<1>35. CASE MediaChange
  BY <1>35 DEF MediaChange, drive, history
<1>36. CASE MapMoves
  BY <1>36 DEF MapMoves, drive, history
<1>37. CASE UNCHANGED vars
  BY <1>37 DEF vars, drive, history
<1> QED
  BY <1>1, <1>2, <1>3, <1>4, <1>5, <1>6, <1>7, <1>8, <1>9, <1>10, <1>11, <1>12, <1>13, <1>14,
     <1>15, <1>16, <1>17, <1>18, <1>19, <1>20, <1>21, <1>22, <1>23, <1>24, <1>25, <1>26, <1>27,
        <1>28, <1>29, <1>30, <1>31, <1>32, <1>33, <1>34, <1>35, <1>36, <1>37 DEF Next, Host,
           Environment

\* A call that finds the hook resident may re-assert the suppression, and
\* changes no other cell, whatever fails in it.
KeptStep ==
  existing /\ existing' =>
    ram' = Blank \/ \A c \in Cells \ {"sec"} : ram'[c] = ram[c]

\* Only SET Encryption=OFF writes while a hook found resident is in place.
LEMMA KeptSteps == TypeOK /\ CallInv /\ [Next]_vars => [KeptStep]_vars
<1> SUFFICES ASSUME TypeOK, CallInv, [Next]_vars PROVE KeptStep
  OBVIOUS
<1> USE DEF KeptStep
<1>1. CASE Begin
  BY <1>1 DEF Begin, drive
<1>2. CASE Probe
  BY <1>2 DEF Probe
<1>3. CASE Platform
  BY <1>3 DEF Platform
<1>4. CASE Prepare
  BY <1>4 DEF Prepare
<1>5. CASE Tune
  BY <1>5 DEF Tune
<1>6. CASE Optional
  BY <1>6 DEF Optional
<1>7. CASE GetVid
  BY <1>7 DEF GetVid
<1>8. CASE Check
  BY <1>8 DEF Check
<1>9. CASE FinishVerify
  BY <1>9 DEF FinishVerify
<1>10. CASE Enter
  BY <1>10 DEF Enter, drive
<1>11. CASE Finish
  BY <1>11 DEF Finish, drive
<1>12. CASE Close
  BY <1>12 DEF Close, drive
<1>13. CASE VerifyPayload
  BY <1>13 DEF VerifyPayload, Read
<1>14. CASE VerifyVid
  BY <1>14 DEF VerifyVid, Read
<1>15. CASE VerifyPtr
  BY <1>15 DEF VerifyPtr, Read
<1>16. CASE Reprobe
  BY <1>16 DEF Reprobe, Read
<1>17. CASE VerifyState
  BY <1>17 DEF VerifyState, Read
<1>18. CASE VerifyHook
  BY <1>18 DEF VerifyHook, Read
<1>19. CASE WritePayload
  BY <1>19 DEF WritePayload, Write, CallInv, Installing
<1>20. CASE WriteVid
  BY <1>20 DEF WriteVid, Write, CallInv, Installing
<1>21. CASE WritePtr
  BY <1>21 DEF WritePtr, Write, CallInv, Installing
<1>22. CASE SetEncryption
  BY <1>22 DEF SetEncryption, TypeOK, DriveTypeOK
<1>23. CASE CheckPtr
  BY <1>23 DEF CheckPtr, Undo
<1>24. CASE CheckVid
  BY <1>24 DEF CheckVid, Undo
<1>25. CASE CheckPaths
  BY <1>25 DEF CheckPaths, Undo
<1>26. CASE ReadPolicy
  BY <1>26 DEF ReadPolicy, Undo
<1>27. CASE CheckPolicy
  BY <1>27 DEF CheckPolicy, Undo
<1>28. CASE CheckMem
  BY <1>28 DEF CheckMem, Undo
<1>29. CASE DetachPtr
  BY <1>29 DEF DetachPtr, UndoWrite, CallInv, Removing
<1>30. CASE DetachVid
  BY <1>30 DEF DetachVid, UndoWrite, CallInv, Removing
<1>31. CASE RestorePolicy
  BY <1>31 DEF RestorePolicy, UndoWrite, CallInv, Removing
<1>32. CASE RestoreMem
  BY <1>32 DEF RestoreMem, UndoWrite, CallInv, Removing
<1>33. CASE Stop
  BY <1>33 DEF Stop, drive
<1>34. CASE PowerCycle
  BY <1>34 DEF PowerCycle, drive
<1>35. CASE MediaChange
  BY <1>35 DEF MediaChange, drive
<1>36. CASE MapMoves
  BY <1>36 DEF MapMoves, drive
<1>37. CASE UNCHANGED vars
  BY <1>37 DEF vars, drive
<1> QED
  BY <1>1, <1>2, <1>3, <1>4, <1>5, <1>6, <1>7, <1>8, <1>9, <1>10, <1>11, <1>12, <1>13, <1>14,
     <1>15, <1>16, <1>17, <1>18, <1>19, <1>20, <1>21, <1>22, <1>23, <1>24, <1>25, <1>26, <1>27,
        <1>28, <1>29, <1>30, <1>31, <1>32, <1>33, <1>34, <1>35, <1>36, <1>37 DEF Next, Host,
           Environment

\* A call that finds the hook resident never takes it out or rewrites it: of
\* finish()'s cleanup none runs, and only the suppression is re-asserted.
THEOREM ResidentKept == Spec => ResidentHookKept
<1>1. Init => CallInv
  BY DEF Init, CallInv, Installing, Removing
<1> QED
  BY <1>1, TypeCorrect, CallSteps, KeptSteps, PTL DEF Spec, ResidentHookKept, KeptStep

\* Every step of the transaction is a step of the contract, or a stutter.
LEMMA ContractSteps ==
  TypeOK /\ TypeOK' /\ CallInv /\ [Next]_vars => [Contract!Next]_(Contract!contractVars)
<1> SUFFICES ASSUME TypeOK, TypeOK', CallInv, [Next]_vars
             PROVE  [Contract!Next]_(Contract!contractVars)
  OBVIOUS
<1> USE DEF CallInv, Untouched, Goto, FailTo, Return, callVars, callBook, Contract!Next,
   Contract!contractVars, Contract!Call, Contract!Work, Contract!ReturnUnlocked,
   Contract!ReturnDeclined, Contract!ReturnTransport, Contract!PowerCycle, TypeOK, DriveTypeOK
<1>1. CASE Begin
  BY <1>1 DEF Begin, drive
<1>2. CASE Probe
  BY <1>2 DEF Probe, PreparationError
<1>3. CASE Platform
  BY <1>3 DEF Platform, PreparationError
<1>4. CASE Prepare
  BY <1>4 DEF Prepare, PreparationError
<1>5. CASE Tune
  BY <1>5 DEF Tune, PreparationError
<1>6. CASE Optional
  BY <1>6 DEF Optional, PreparationError
<1>7. CASE GetVid
  BY <1>7 DEF GetVid, PreparationError
<1>8. CASE Check
  BY <1>8 DEF Check, PreparationError
<1>9. CASE FinishVerify
  BY <1>9 DEF FinishVerify, Unverified
<1>10. CASE Enter
  BY <1>10 DEF Enter, Unverified, drive
<1>11. CASE Finish
  BY <1>11 DEF Finish, Unverified, drive
<1>12. CASE Close
  BY <1>12 DEF Close, Unverified, drive
<1>13. CASE VerifyPayload
  BY <1>13 DEF VerifyPayload, Read
<1>14. CASE VerifyVid
  BY <1>14 DEF VerifyVid, Read
<1>15. CASE VerifyPtr
  BY <1>15 DEF VerifyPtr, Read
<1>16. CASE Reprobe
  BY <1>16 DEF Reprobe, Read
<1>17. CASE VerifyState
  BY <1>17 DEF VerifyState, Read
<1>18. CASE VerifyHook
  BY <1>18 DEF VerifyHook, Read
<1>19. CASE WritePayload
  BY <1>19 DEF WritePayload, Write
<1>20. CASE WriteVid
  BY <1>20 DEF WriteVid, Write
<1>21. CASE WritePtr
  BY <1>21 DEF WritePtr, Write
<1>22. CASE SetEncryption
  BY <1>22 DEF SetEncryption
<1>23. CASE CheckPtr
  BY <1>23 DEF CheckPtr, Undo
<1>24. CASE CheckVid
  BY <1>24 DEF CheckVid, Undo
<1>25. CASE CheckPaths
  BY <1>25 DEF CheckPaths, Undo
<1>26. CASE ReadPolicy
  BY <1>26 DEF ReadPolicy, Undo
<1>27. CASE CheckPolicy
  BY <1>27 DEF CheckPolicy, Undo
<1>28. CASE CheckMem
  BY <1>28 DEF CheckMem, Undo
<1>29. CASE DetachPtr
  BY <1>29 DEF DetachPtr, UndoWrite
<1>30. CASE DetachVid
  BY <1>30 DEF DetachVid, UndoWrite
<1>31. CASE RestorePolicy
  BY <1>31 DEF RestorePolicy, UndoWrite
<1>32. CASE RestoreMem
  BY <1>32 DEF RestoreMem, UndoWrite
<1>33. CASE Stop
  BY <1>33 DEF Stop, drive, history
<1>34. CASE PowerCycle
  BY <1>34 DEF PowerCycle, drive, history
<1>35. CASE MediaChange
  BY <1>35 DEF MediaChange, drive, history
<1>36. CASE MapMoves
  BY <1>36 DEF MapMoves, drive, history
<1>37. CASE UNCHANGED vars
  BY <1>37 DEF vars, drive, history
<1> QED
  BY <1>1, <1>2, <1>3, <1>4, <1>5, <1>6, <1>7, <1>8, <1>9, <1>10, <1>11, <1>12, <1>13, <1>14,
     <1>15, <1>16, <1>17, <1>18, <1>19, <1>20, <1>21, <1>22, <1>23, <1>24, <1>25, <1>26, <1>27,
        <1>28, <1>29, <1>30, <1>31, <1>32, <1>33, <1>34, <1>35, <1>36, <1>37 DEF Next, Host,
           Environment

\* Every call keeps the contract of the Unlocker trait: "unlocked" only with
\* the whole hook verified in place, a decline only from an untouched drive.
THEOREM KeepsContract == Spec => ContractHolds
<1>1. Init => CallInv /\ Contract!Init
  BY DEF Init, CallInv, Installing, Removing, Contract!Init, Values
<1> QED
  BY <1>1, TypeCorrect, CallSteps, ContractSteps, PTL DEF Spec, ContractHolds, Contract!Spec

-----------------------------------------------------------------------------
(***************************************************************************)
(* All or nothing.                                                         *)
(***************************************************************************)

\* What the host's table and the reserved RAM hold, the security slot aside.
Holding(p, v, m) == ram["ptr"] = p /\ ram["vid"] = v /\ ram["mem"] = m

\* The cells at each step of stage() and cleanup(), while nothing misbehaves.
Staged ==
  /\ pc = "writePayload" => ram = entry
  /\ pc \in {"verifyPayload", "writeVid"} => Holding("oem", "oem", "own")
  /\ pc \in {"verifyVid", "writePtr"} => Holding("oem", "own", "own")
  /\ pc \in {"verifyPtr", "reprobe", "optional", "encrypt", "detachPtr"} =>
       Holding("own", "own", "own")
  /\ pc \in {"verifyState", "verifyHook", "getVid", "finishVerify"} => ram = Resident
  /\ pc = "finish" /\ touched => Holding("own", "own", "own") /\ (err = "none" => ram = Resident)
  /\ pc \in {"checkPtr", "detachVid"} => Holding("oem", "own", "own")
  /\ pc \in {"checkVid", "checkPaths", "readPolicy", "restorePolicy", "checkPolicy",
              "restoreMem"} => Holding("oem", "oem", "own")
  /\ pc \in Installing \cup {"checkPolicy", "restoreMem", "checkMem"} => ram["sec"] = "oem"
  /\ pc = "checkMem" => ram = entry

\* What cleanup() has to put back.
Removable ==
  /\ entry["ptr"] = "oem" /\ entry["vid"] = "oem" /\ entry["sec"] = "oem"
  /\ saved = entry["mem"]

Orderly ==
  ~faulty =>
    /\ ~disturbed
    /\ pc \in {"enter", "check"} /\ existing => saved = "own"
    /\ pc # "idle" /\ touched =>
         /\ guardsOk /\ ram["sec"] \in {"oem", "own"}
         /\ IF existing THEN ram \in {entry, Resident} ELSE Removable
    /\ Staged
    /\ pc = "close" => ram \in {entry, Resident}
    /\ AllOrNothing

\* A command of the critical span that does not misbehave is executed.
LEMMA Honest ==
  ASSUME TypeOK, NEW slot, NEW reply \in Replies, Command(slot, reply), ~faulty',
         pc \in CriticalSteps
  PROVE  ~faulty /\ reply = "good"
BY Zenon DEF Command, Odd, Reply, Blocked

\* ... and so is a write.
LEMMA HonestStore ==
  ASSUME TypeOK, NEW cell \in Cells, NEW value \in Values, NEW reply \in Replies,
         Store(cell, value, reply), ~faulty', pc \in CriticalSteps
  PROVE  ~faulty /\ reply = "good" /\ ram' = [ram EXCEPT ![cell] = value]
BY Zenon DEF Store, Odd, Reply, Blocked

\* No command takes back that something misbehaved.
LEMMA Faults ==
  ASSUME NEW slot, NEW reply, Command(slot, reply), ~faulty'
  PROVE  ~faulty
BY Zenon DEF Command, Odd

\* As long as nothing misbehaves, every write is what the next check expects, and
\* the removal puts back what the call found.
LEMMA OrderlySteps == TypeOK /\ CallInv /\ Orderly /\ [Next]_vars => Orderly'
<1> SUFFICES ASSUME TypeOK, CallInv, Orderly, [Next]_vars, ~faulty' PROVE Orderly'
  BY DEF Orderly
<1> USE DEF Orderly, Staged, Holding, Removable, AllOrNothing, Installing, Goto, FailTo, Return,
        callVars, callBook
<1>1. CASE Begin
  BY <1>1 DEF Begin
<1>2. CASE Probe
  BY <1>2, Faults DEF Probe, CallInv, Untouched
<1>3. CASE Platform
  BY <1>3, Faults DEF Platform, CallInv, Untouched
<1>4. CASE Prepare
  BY <1>4, Faults DEF Prepare, CallInv, Untouched
<1>5. CASE Tune
  BY <1>5, Faults DEF Tune, CallInv
<1>6. CASE Enter
  BY <1>6 DEF Enter, drive, CallInv, Untouched
<1>7. CASE Check
  <2>1. ~faulty /\ ram = entry /\ ~touched
    BY <1>7, Faults DEF Check, CallInv, Untouched
  <2>2. CASE guardsOk /\ Owned /\ ram["mem"] = saved /\ touched'
             /\ pc' = (IF existing THEN "optional" ELSE "writePayload")
    <3>1. CASE existing
      BY <1>7, <2>1, <2>2, <3>1 DEF Check, Owned
    <3>2. CASE ~existing
      BY <1>7, <2>1, <2>2, <3>2 DEF Check, Owned
    <3> QED
      BY <3>1, <3>2
  <2>3. CASE pc' = "finish" /\ ~touched'
    BY <1>7, <2>1, <2>3 DEF Check
  <2> QED
    BY <1>7, <2>1, <2>2, <2>3 DEF Check, TypeOK, CallTypeOK
<1>8. CASE VerifyPayload
  BY <1>8, Honest DEF VerifyPayload, Read, CriticalSteps, CallInv
<1>9. CASE VerifyVid
  BY <1>9, Honest DEF VerifyVid, Read, CriticalSteps, CallInv
<1>10. CASE VerifyPtr
  BY <1>10, Honest DEF VerifyPtr, Read, CriticalSteps, CallInv
<1>11. CASE Reprobe
  BY <1>11, Honest DEF Reprobe, Read, CriticalSteps, CallInv
<1>12. CASE VerifyState
  BY <1>12, Honest DEF VerifyState, Read, CriticalSteps, CallInv, Resident,
     Cells, Slots
<1>13. CASE VerifyHook
  BY <1>13, Honest DEF VerifyHook, Read, CriticalSteps, CallInv, IsResident
<1>14. CASE WritePayload
  BY <1>14, HonestStore DEF WritePayload, Write, CriticalSteps, CallInv, Cells, Slots, Values,
     TypeOK, DriveTypeOK
<1>15. CASE WriteVid
  BY <1>15, HonestStore DEF WriteVid, Write, CriticalSteps, CallInv, Cells, Slots, Values,
     TypeOK, DriveTypeOK
<1>16. CASE WritePtr
  BY <1>16, HonestStore DEF WritePtr, Write, CriticalSteps, CallInv, Cells, Slots, Values,
     TypeOK, DriveTypeOK
<1>17. CASE Optional
  BY <1>17, Honest DEF Optional, CriticalSteps, CallInv
<1>18. CASE GetVid
  BY <1>18, Honest DEF GetVid, CriticalSteps, CallInv, Resident, Cells, Slots
<1>19. CASE FinishVerify
  BY <1>19, Honest DEF FinishVerify, CriticalSteps, CallInv, IsResident
<1>20. CASE SetEncryption
  BY <1>20, Honest DEF SetEncryption, CriticalSteps, CallInv, Resident, Cells, Slots, TypeOK,
     DriveTypeOK
<1>21. CASE Finish
  BY <1>21 DEF Finish, Unverified, drive, CallInv, Untouched
<1>22. CASE Close
  BY <1>22 DEF Close, drive, CallInv
<1>23. CASE CheckPtr
  BY <1>23, Honest DEF CheckPtr, Undo, CriticalSteps, CallInv, Removing
<1>24. CASE CheckVid
  BY <1>24, Honest DEF CheckVid, Undo, CriticalSteps, CallInv, Removing
<1>25. CASE CheckPaths
  BY <1>25, Honest DEF CheckPaths, Undo, CriticalSteps, CallInv, Removing
<1>26. CASE ReadPolicy
  BY <1>26, Honest DEF ReadPolicy, Undo, CriticalSteps, CallInv, Removing
<1>27. CASE CheckPolicy
  BY <1>27, Honest DEF CheckPolicy, Undo, CriticalSteps, CallInv, Removing
<1>28. CASE CheckMem
  BY <1>28, Honest DEF CheckMem, Undo, CriticalSteps, CallInv, Removing
<1>29. CASE DetachPtr
  BY <1>29, HonestStore DEF DetachPtr, UndoWrite, CriticalSteps, CallInv, Removing, Cells,
     Slots, Values,
     TypeOK, DriveTypeOK, CallTypeOK, HistoryTypeOK
<1>30. CASE DetachVid
  BY <1>30, HonestStore DEF DetachVid, UndoWrite, CriticalSteps, CallInv, Removing, Cells,
     Slots, Values,
     TypeOK, DriveTypeOK, CallTypeOK, HistoryTypeOK
<1>31. CASE RestorePolicy
  BY <1>31, HonestStore DEF RestorePolicy, UndoWrite, CriticalSteps, CallInv, Removing, Cells,
     Slots, Values,
     TypeOK, DriveTypeOK, CallTypeOK, HistoryTypeOK
<1>32. CASE RestoreMem
  BY <1>32, HonestStore DEF RestoreMem, UndoWrite, CriticalSteps, CallInv, Removing, Cells,
     Slots, Values,
     TypeOK, DriveTypeOK, CallTypeOK, HistoryTypeOK
<1>33. CASE Stop
  BY <1>33 DEF Stop, drive, history
<1>34. CASE PowerCycle \/ MediaChange \/ MapMoves
  BY <1>34 DEF PowerCycle, MediaChange, MapMoves
<1>35. CASE UNCHANGED vars
  BY <1>35 DEF vars, drive, history
<1> QED
  BY <1>1, <1>2, <1>3, <1>4, <1>5, <1>6, <1>7, <1>8, <1>9, <1>10, <1>11, <1>12, <1>13, <1>14,
     <1>15, <1>16, <1>17, <1>18, <1>19, <1>20, <1>21, <1>22, <1>23, <1>24, <1>25, <1>26,
     <1>27, <1>28, <1>29, <1>30, <1>31, <1>32, <1>33, <1>34, <1>35
  DEF Next, Host, Environment

\* A call during which nothing misbehaves installs the whole hook or leaves the
\* drive as it found it, wherever Stop lands and whatever the drive refuses.
THEOREM AllOrNothingHolds == Spec => []AllOrNothing
<1>1. Init => CallInv /\ Orderly
  BY DEF Init, CallInv, Orderly, Staged, Removable, AllOrNothing, Installing, Removing
<1>2. Orderly => AllOrNothing
  BY DEF Orderly, AllOrNothing
<1> QED
  BY <1>1, <1>2, TypeCorrect, CallSteps, OrderlySteps, PTL DEF Spec

-----------------------------------------------------------------------------
(***************************************************************************)
(* Torn callbacks.                                                         *)
(***************************************************************************)

\* Where the pointer may be torn: on the way to its removal, or after a call that
\* ended in Transport, until the next call's recognition runs into it.
Torn ==
  /\ ram["ptr"] = "torn" /\ ~lied =>
       \/ err = "transport" /\ pc \in {"finish", "detachPtr", "close"}
       \/ warned /\ pc \in {"idle", "probe", "platform"}
  /\ pc = "getVid" => ram = Resident \/ ram = Blank

\* A torn pointer answers no command.
LEMMA Answered ==
  ASSUME NEW reply, Command("ptr", reply), ram["ptr"] = "torn"
  PROVE  reply = "dead" \/ (reply = "refused" /\ attention)
BY DEF Command, Odd, Reply, Executes, Jumps, Holds, Slots

\* A write takes back no lie, and a GOOD answer is one unless the cell was written.
LEMMA Stored ==
  ASSUME TypeOK, NEW cell \in Cells, NEW value \in Values, NEW reply \in Replies,
         Store(cell, value, reply), ~lied'
  PROVE  /\ ~lied
         /\ \A c \in Cells \ {cell} : ram'[c] = ram[c]
         /\ reply = "good" => ram'[cell] = value
<1>1. ~lied
  BY Zenon DEF Store
<1>2. reply = "good" => ram' = [ram EXCEPT ![cell] = value]
  BY Zenon DEF Store
<1> QED
  BY <1>1, <1>2, StoreEffect DEF TypeOK, DriveTypeOK

\* Only a write of the pointer tears it, and it is detached or the call fails.
LEMMA TornSteps == TypeOK /\ CallInv /\ Torn /\ [Next]_vars => Torn'
<1> SUFFICES ASSUME TypeOK, CallInv, Torn, [Next]_vars PROVE Torn'
  OBVIOUS
<1> USE DEF Torn, Goto, FailTo, Return, callVars, callBook
<1>1. CASE Begin
  BY <1>1 DEF Begin, drive
<1>2. CASE Probe
  BY <1>2, Answered DEF Probe
<1>3. CASE Platform
  BY <1>3, Answered DEF Platform
<1>4. CASE Prepare
  BY <1>4 DEF Prepare
<1>5. CASE Check
  BY <1>5 DEF Check
<1>6. CASE Optional
  BY <1>6 DEF Optional
<1>7. CASE GetVid
  BY <1>7 DEF GetVid
<1>8. CASE Tune
  BY <1>8 DEF Tune
<1>9. CASE Enter \/ Finish \/ Close
  BY <1>9 DEF Enter, Finish, Close, Unverified, drive
<1>10. CASE FinishVerify
  BY <1>10 DEF FinishVerify, Unverified
<1>11. CASE VerifyPayload
  BY <1>11 DEF VerifyPayload, Read
<1>12. CASE VerifyVid
  BY <1>12 DEF VerifyVid, Read
<1>13. CASE VerifyPtr
  BY <1>13 DEF VerifyPtr, Read
<1>14. CASE Reprobe
  BY <1>14 DEF Reprobe, Read
<1>15. CASE VerifyState
  BY <1>15 DEF VerifyState, Read
<1>16. CASE VerifyHook
  BY <1>16 DEF VerifyHook, Read, IsResident
<1>17. CASE WritePayload
  BY <1>17, Stored DEF WritePayload, Write, Cells, Slots, Values, TypeOK, DriveTypeOK,
     CallTypeOK, HistoryTypeOK
<1>18. CASE WriteVid
  BY <1>18, Stored DEF WriteVid, Write, Cells, Slots, Values, TypeOK, DriveTypeOK, CallTypeOK,
     HistoryTypeOK
<1>19. CASE WritePtr
  BY <1>19, Stored DEF WritePtr, Write, Cells, Slots, Values, TypeOK, DriveTypeOK, CallTypeOK,
     HistoryTypeOK
<1>20. CASE SetEncryption
  BY <1>20 DEF SetEncryption, TypeOK, DriveTypeOK, Cells, Slots
<1>21. CASE CheckPtr
  BY <1>21 DEF CheckPtr, Undo
<1>22. CASE CheckVid
  BY <1>22 DEF CheckVid, Undo
<1>23. CASE CheckPaths
  BY <1>23 DEF CheckPaths, Undo
<1>24. CASE ReadPolicy
  BY <1>24 DEF ReadPolicy, Undo
<1>25. CASE CheckPolicy
  BY <1>25 DEF CheckPolicy, Undo
<1>26. CASE CheckMem
  BY <1>26 DEF CheckMem, Undo
<1>27. CASE DetachPtr
  BY <1>27, Stored DEF DetachPtr, UndoWrite, CallInv, Removing, Cells, Slots, Values, TypeOK,
     DriveTypeOK, CallTypeOK, HistoryTypeOK
<1>28. CASE DetachVid
  BY <1>28, Stored DEF DetachVid, UndoWrite, CallInv, Removing, Cells, Slots, Values, TypeOK,
     DriveTypeOK, CallTypeOK, HistoryTypeOK
<1>29. CASE RestorePolicy
  BY <1>29, Stored DEF RestorePolicy, UndoWrite, CallInv, Removing, Cells, Slots, Values,
     TypeOK, DriveTypeOK, CallTypeOK, HistoryTypeOK
<1>30. CASE RestoreMem
  BY <1>30, Stored DEF RestoreMem, UndoWrite, CallInv, Removing, Cells, Slots, Values, TypeOK,
     DriveTypeOK, CallTypeOK, HistoryTypeOK
<1>31. CASE Stop \/ MediaChange \/ MapMoves
  BY <1>31 DEF Stop, MediaChange, MapMoves, drive, history
<1>32. CASE PowerCycle
  BY <1>32 DEF PowerCycle, Blank, Cells, Slots
<1>33. CASE UNCHANGED vars
  BY <1>33 DEF vars, drive, history
<1> QED
  BY <1>1, <1>2, <1>3, <1>4, <1>5, <1>6, <1>7, <1>8, <1>9, <1>10, <1>11, <1>12, <1>13, <1>14,
     <1>15, <1>16, <1>17, <1>18, <1>19, <1>20, <1>21, <1>22, <1>23, <1>24, <1>25, <1>26,
     <1>27, <1>28, <1>29, <1>30, <1>31, <1>32, <1>33 DEF Next, Host, Environment

\* A command through the pointer hangs the drive only if the pointer is torn.
LEMMA Jumping ==
  ASSUME TypeOK, IInv, Torn, NEW reply, Command("ptr", reply), hung', ~hung,
         pc \notin {"finish", "detachPtr", "close", "idle"}
  PROVE  lied \/ (warned /\ pc \in {"probe", "platform"})
<1>1. ~Holds("ptr")
  BY DEF Command, Sent, Jumps
<1>2. ram["ptr"] = "torn"
  BY <1>1 DEF Holds, IInv, HookIntact, Slots, Cells, Values, TypeOK, DriveTypeOK
<1> QED
  BY <1>2 DEF Torn

\* What HangIsAnnounced says of one step.
HangStep == hung' /\ ~hung => lied \/ (warned /\ pc \in {"probe", "platform"})

\* No step but the recognition of a later call runs into a torn callback.
LEMMA HangSteps == TypeOK /\ IInv /\ Torn /\ [Next]_vars => [HangStep]_vars
<1> SUFFICES ASSUME TypeOK, IInv, Torn, [Next]_vars, hung', ~hung PROVE HangStep
  BY DEF HangStep
<1> USE DEF Torn, HangStep
<1>1. CASE Begin \/ Enter \/ Finish \/ Close
  BY <1>1 DEF Begin, Enter, Finish, Close, drive
<1>2. CASE Probe
  BY <1>2, Jumping DEF Probe
<1>3. CASE Platform
  BY <1>3, Jumping DEF Platform
<1>4. CASE Prepare
  BY <1>4, Jumping DEF Prepare
<1>5. CASE Check
  BY <1>5, Jumping DEF Check
<1>6. CASE Optional
  BY <1>6, Jumping DEF Optional
<1>7. CASE SetEncryption
  BY <1>7, Jumping DEF SetEncryption
<1>8. CASE FinishVerify
  BY <1>8, Jumping DEF FinishVerify
<1>9. CASE Tune
  BY <1>9 DEF Tune, Command, Sent, Jumps, Slots
<1>10. CASE GetVid
  BY <1>10 DEF GetVid, Command, Sent, Jumps, Holds, Resident, Blank, Cells, Slots
<1>11. CASE VerifyPayload
  BY <1>11, Jumping DEF VerifyPayload, Read
<1>12. CASE VerifyVid
  BY <1>12, Jumping DEF VerifyVid, Read
<1>13. CASE VerifyPtr
  BY <1>13, Jumping DEF VerifyPtr, Read
<1>14. CASE Reprobe
  BY <1>14, Jumping DEF Reprobe, Read
<1>15. CASE VerifyState
  BY <1>15, Jumping DEF VerifyState, Read
<1>16. CASE VerifyHook
  BY <1>16, Jumping DEF VerifyHook, Read
<1>17. CASE WritePayload \/ WriteVid \/ WritePtr
  BY <1>17 DEF WritePayload, WriteVid, WritePtr, Write, Store, Sent, Jumps, Slots
<1>18. CASE CheckPtr
  BY <1>18, Jumping DEF CheckPtr, Undo
<1>19. CASE CheckVid
  BY <1>19, Jumping DEF CheckVid, Undo
<1>20. CASE CheckPaths
  BY <1>20, Jumping DEF CheckPaths, Undo
<1>21. CASE ReadPolicy
  BY <1>21, Jumping DEF ReadPolicy, Undo
<1>22. CASE CheckPolicy
  BY <1>22, Jumping DEF CheckPolicy, Undo
<1>23. CASE CheckMem
  BY <1>23, Jumping DEF CheckMem, Undo
<1>24. CASE DetachPtr \/ DetachVid \/ RestorePolicy \/ RestoreMem
  BY <1>24 DEF DetachPtr, DetachVid, RestorePolicy, RestoreMem, UndoWrite, Store, Sent, Jumps,
     Slots
<1>25. CASE Stop \/ MediaChange \/ MapMoves \/ PowerCycle
  BY <1>25 DEF Stop, MediaChange, MapMoves, PowerCycle, drive
<1>26. CASE UNCHANGED vars
  BY <1>26 DEF vars, drive
<1> QED
  BY <1>1, <1>2, <1>3, <1>4, <1>5, <1>6, <1>7, <1>8, <1>9, <1>10, <1>11, <1>12, <1>13, <1>14,
     <1>15, <1>16, <1>17, <1>18, <1>19, <1>20, <1>21, <1>22, <1>23, <1>24, <1>25, <1>26 DEF
     Next, Host, Environment

\* The call that tore a callback never sends the drive through it: only the
\* recognition of a later call can, after a call that ended in Transport, unless
\* the drive acknowledged a write it did not carry out.
THEOREM HangsAreAnnounced == Spec => HangIsAnnounced
<1>1. Init => IInv /\ CallInv /\ Torn
  BY DEF Init, IInv, HookIntact, Detached, Filled, SlotsOem, Cells, Slots, CallInv, Installing,
     Removing, Torn
<1> QED
  BY <1>1, TypeCorrect, Inductive, CallSteps, TornSteps, HangSteps, PTL
  DEF Spec, HangIsAnnounced, HangStep
-----------------------------------------------------------------------------
(***************************************************************************)
(* How long a call can take, and how long a Stop can wait.                 *)
(***************************************************************************)

\* How many steps are left of the call, at most: to the installed hook, and
\* from wherever that is left through the cleanup.
Remaining ==
  CASE pc = "probe"         -> 31
    [] pc = "platform"      -> 30
    [] pc = "prepare"       -> 29
    [] pc = "enter"         -> 28
    [] pc = "check"         -> 27
    [] pc = "writePayload"  -> 26
    [] pc = "verifyPayload" -> 25
    [] pc = "writeVid"      -> 24
    [] pc = "verifyVid"     -> 23
    [] pc = "writePtr"      -> 22
    [] pc = "verifyPtr"     -> 21
    [] pc = "reprobe"       -> 20
    [] pc = "optional"      -> 19
    [] pc = "encrypt"       -> 18
    [] pc = "verifyState"   -> 17
    [] pc = "verifyHook"    -> 16
    [] pc = "getVid"        -> 15
    [] pc = "finish"        -> 14
    [] pc = "finishVerify"  -> 13
    [] pc = "detachPtr"     -> 12
    [] pc = "checkPtr"      -> 11
    [] pc = "detachVid"     -> 10
    [] pc = "checkVid"      -> 9
    [] pc = "checkPaths"    -> 8
    [] pc = "readPolicy"    -> 7
    [] pc = "restorePolicy" -> 6
    [] pc = "checkPolicy"   -> 5
    [] pc = "restoreMem"    -> 4
    [] pc = "checkMem"      -> 3
    [] pc = "close"         -> 2
    [] pc = "tune"          -> 1
    [] pc = "idle"          -> 0

Longest == 31

Closer == Remaining' < Remaining

\* Recognition and preparation (unlock_backend up to its critical span).
LEMMA PreparingShortens == Probe \/ Platform \/ Prepare \/ Enter => Closer
<1> SUFFICES ASSUME Probe \/ Platform \/ Prepare \/ Enter PROVE Closer
  OBVIOUS
<1>1. \/ pc = "probe" /\ pc' \in {"prepare", "platform", "idle"}
      \/ pc = "platform" /\ pc' \in {"prepare", "idle"}
      \/ pc = "prepare" /\ pc' \in {"enter", "idle"}
      \/ pc = "enter" /\ pc' \in {"check", "idle"}
  BY DEF Probe, Platform, Prepare, Enter, Goto, Return
<1> QED BY <1>1 DEF Closer, Remaining

\* The installation (stage, activate, verify): a failure leads to finish().
LEMMA InstallingShortens ==
  ASSUME \/ Check \/ WritePayload \/ VerifyPayload \/ WriteVid \/ VerifyVid \/ WritePtr
         \/ VerifyPtr \/ Reprobe \/ Optional \/ SetEncryption \/ VerifyState \/ VerifyHook
         \/ GetVid
  PROVE  Closer
<1>1. \/ pc = "check" /\ pc' \in {"optional", "writePayload", "finish"}
      \/ pc = "optional" /\ pc' \in {"encrypt", "finish"}
      \/ pc = "encrypt" /\ pc' \in {"verifyState", "finish"}
      \/ pc = "getVid" /\ pc' = "finish"
      \/ ~(Check \/ Optional \/ SetEncryption \/ GetVid)
  BY DEF Check, Optional, SetEncryption, GetVid, Goto, FailTo
<1>2. \/ pc = "writePayload" /\ pc' \in {"verifyPayload", "finish"}
      \/ pc = "writeVid" /\ pc' \in {"verifyVid", "finish"}
      \/ pc = "writePtr" /\ pc' \in {"verifyPtr", "finish"}
      \/ ~(WritePayload \/ WriteVid \/ WritePtr)
  BY DEF WritePayload, WriteVid, WritePtr, Write, Goto, FailTo
<1>3. \/ pc = "verifyPayload" /\ pc' \in {"writeVid", "finish"}
      \/ pc = "verifyVid" /\ pc' \in {"writePtr", "finish"}
      \/ pc = "verifyPtr" /\ pc' \in {"reprobe", "finish"}
      \/ pc = "reprobe" /\ pc' \in {"optional", "finish"}
      \/ pc = "verifyState" /\ pc' \in {"verifyHook", "finish"}
      \/ pc = "verifyHook" /\ pc' \in {"getVid", "finish"}
      \/ ~(VerifyPayload \/ VerifyVid \/ VerifyPtr \/ Reprobe \/ VerifyState \/ VerifyHook)
  BY DEF VerifyPayload, VerifyVid, VerifyPtr, Reprobe, VerifyState, VerifyHook, Read, Goto, FailTo
<1> QED BY <1>1, <1>2, <1>3 DEF Closer, Remaining

\* finish() and cleanup(), whose first failure leads out of the span.
LEMMA FinishingShortens ==
  ASSUME \/ Finish \/ FinishVerify
         \/ DetachPtr \/ CheckPtr \/ DetachVid \/ CheckVid \/ CheckPaths
         \/ ReadPolicy \/ RestorePolicy \/ CheckPolicy \/ RestoreMem \/ CheckMem
         \/ Close \/ Tune
  PROVE  Closer
<1>1. \/ pc = "finish" /\ pc' \in {"close", "finishVerify", "detachPtr"}
      \/ pc = "finishVerify" /\ pc' \in {"close", "detachPtr"}
      \/ pc = "close" /\ pc' \in {"tune", "idle"}
      \/ pc = "tune" /\ pc' = "idle"
      \/ ~(Finish \/ FinishVerify \/ Close \/ Tune)
  BY DEF Finish, FinishVerify, Unverified, Close, Tune, Goto, Return
<1>2. \/ pc = "detachPtr" /\ pc' \in {"checkPtr", "close"}
      \/ pc = "detachVid" /\ pc' \in {"checkVid", "close"}
      \/ pc = "restorePolicy" /\ pc' \in {"checkPolicy", "close"}
      \/ pc = "restoreMem" /\ pc' \in {"checkMem", "close"}
      \/ ~(DetachPtr \/ DetachVid \/ RestorePolicy \/ RestoreMem)
  BY DEF DetachPtr, DetachVid, RestorePolicy, RestoreMem, UndoWrite, Goto
<1>3. \/ pc = "checkPtr" /\ pc' \in {"detachVid", "close"}
      \/ pc = "checkVid" /\ pc' \in {"checkPaths", "close"}
      \/ pc = "checkPaths" /\ pc' \in {"readPolicy", "close"}
      \/ pc = "readPolicy" /\ pc' \in {"restorePolicy", "restoreMem", "close"}
      \/ pc = "checkPolicy" /\ pc' \in {"restoreMem", "close"}
      \/ pc = "checkMem" /\ pc' = "close"
      \/ ~(CheckPtr \/ CheckVid \/ CheckPaths \/ ReadPolicy \/ CheckPolicy \/ CheckMem)
  BY DEF CheckPtr, CheckVid, CheckPaths, ReadPolicy, CheckPolicy, CheckMem, Undo, Goto
<1> QED BY <1>1, <1>2, <1>3 DEF Closer, Remaining

\* Outside the span a cancelled transport keeps every command from the drive, and
\* the two steps that send none look at the Stop themselves.
LEMMA StopServed ==
  ASSUME pc \in Steps, cancelled = TRUE, pc \notin CriticalSteps, Host
  PROVE  pc' = "idle" /\ verdict' = "transport"
<1>1. Blocked BY DEF Blocked
<1>2. ASSUME NEW slot, NEW reply \in Replies, Command(slot, reply) PROVE reply = "dead"
  BY <1>1, <1>2 DEF Command, Odd, Executes, Reply
<1>3. pc \in {"idle", "probe", "platform", "prepare", "enter", "close", "tune"}
  BY DEF Steps
<1>4. Probe \/ Platform \/ Prepare \/ Enter \/ Close \/ Tune
  BY <1>3 DEF Host, Check, WritePayload, VerifyPayload, WriteVid, VerifyVid, WritePtr, VerifyPtr,
     Reprobe, Optional, SetEncryption, VerifyState, VerifyHook, GetVid, Finish, FinishVerify,
     DetachPtr, CheckPtr, DetachVid, CheckVid, CheckPaths, ReadPolicy, RestorePolicy,
     CheckPolicy, RestoreMem, CheckMem, Read, Write, Undo, UndoWrite
<1>5. CASE Enter \/ Close
  BY <1>5 DEF Enter, Close, Return
<1>6. CASE Probe \/ Platform \/ Tune
  BY <1>2, <1>6 DEF Probe, Platform, Tune, Return
<1>7. CASE Prepare
  <2>1. PICK reply \in Replies :
          /\ Command("ptr", reply)
          /\ reply # "good" => Return(PreparationError(reply))
    BY <1>7 DEF Prepare
  <2>2. reply = "dead" BY <1>2, <2>1
  <2> QED BY <2>1, <2>2 DEF PreparationError, Return
<1> QED BY <1>4, <1>5, <1>6, <1>7

\* A call of the Renesas back end is never stuck: wherever the hook's installation
\* fails, and whatever the drive answers, every step brings the call nearer its
\* end, and no other event lengthens it.  A Stop is held back by the critical
\* span (CriticalGuard::enter) and by nothing else: outside the span the next step
\* ends the call in Transport.
THEOREM CallsAreBounded ==
  Spec => /\ [](Remaining \in 0..Longest)
          /\ [][/\ Host => Remaining' < Remaining
                /\ Environment => Remaining' = Remaining
                /\ Host /\ cancelled /\ pc \notin CriticalSteps =>
                     pc' = "idle" /\ verdict' = "transport"]_vars
<1> DEFINE Step == /\ Host => Remaining' < Remaining
                   /\ Environment => Remaining' = Remaining
                   /\ Host /\ cancelled /\ pc \notin CriticalSteps =>
                        pc' = "idle" /\ verdict' = "transport"
<1>1. TypeOK => Remaining \in 0..Longest
  <2> SUFFICES ASSUME TypeOK PROVE Remaining \in 0..Longest
    OBVIOUS
  <2>1. pc \in Steps BY DEF TypeOK, CallTypeOK
  <2> QED BY <2>1 DEF Steps, CriticalSteps, Remaining, Longest
<1>2. TypeOK /\ [Next]_vars => [Step]_vars
  <2> SUFFICES ASSUME TypeOK PROVE Step
    OBVIOUS
  <2>1. Host => Remaining' < Remaining
    <3>1. Host => Closer
      BY PreparingShortens, InstallingShortens, FinishingShortens, Zenon DEF Host
    <3> QED BY <3>1 DEF Closer
  <2>2. Environment => Remaining' = Remaining
    BY DEF Environment, Stop, PowerCycle, MediaChange, MapMoves, Remaining
  <2>3. Host /\ cancelled /\ pc \notin CriticalSteps => pc' = "idle" /\ verdict' = "transport"
    BY StopServed DEF TypeOK, CallTypeOK
  <2> QED BY <2>1, <2>2, <2>3
<1> QED
  BY TypeCorrect, <1>1, <1>2, PTL DEF Spec
=============================================================================
