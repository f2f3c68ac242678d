-------------------------- MODULE ReadyPollProofs --------------------------
(***************************************************************************)
(* The readiness poll is bounded, and what it says of the medium is true,  *)
(* for every set of answers and every choice of the times.                 *)
(***************************************************************************)
EXTENDS ReadyPoll, FiniteSetTheorems, TLAPS

Round  == Poll + TurTime
Budget == Cardinality(seen) * Stretch
Spent  == emptyRun * Round

-----------------------------------------------------------------------------
(***************************************************************************)
(* Arithmetic.                                                             *)
(***************************************************************************)

\* The times are naturals, and the window is not empty.
LEMMA Times ==
  /\ Poll \in Nat /\ Poll > 0 /\ Stall \in Nat /\ Stall > 0
  /\ TurTime \in Nat /\ StartTime \in Nat /\ MaxEmpty \in Nat /\ MaxEmpty > 0
  /\ Stretch \in Nat /\ Round \in Nat
BY TimesAssumption DEF Stretch, Round

\* One more of something costs one more of its price.
LEMMA OneMore ==
  ASSUME NEW n \in Nat, NEW k \in Nat
  PROVE  n * k \in Nat /\ (n + 1) * k \in Nat /\ (n + 1) * k = n * k + k
BY SMT

\* More of something does not cost less.
LEMMA Monotone ==
  ASSUME NEW m \in Nat, NEW n \in Nat, NEW k \in Nat, m <= n
  PROVE  m * k <= n * k
<1>1. PICK d \in Nat : n = m + d
  BY n - m \in Nat, n = m + (n - m), SMT
<1>2. (m + d) * k = m * k + d * k
  BY SMT
<1>3. m * k \in Nat /\ d * k \in Nat
  BY OneMore
<1> QED
  BY <1>1, <1>2, <1>3, SMT

\* A round covers a poll and the wait before the next one.
LEMMA RoundCovers ==
  ASSUME NEW t \in Nat, NEW u \in Nat, NEW s \in Nat, t <= s, u <= t + TurTime
  PROVE  u + Poll <= s + Round
BY Times, SMT DEF Round

\* A set of answers has a size, which that of all answers bounds.
LEMMA BudgetOf ==
  ASSUME NEW S \in SUBSET Answers
  PROVE  /\ Cardinality(S) \in Nat
         /\ Cardinality(S) <= Cardinality(Answers)
         /\ Cardinality(Answers) \in Nat
BY AnswersAssumption, FS_Subset, FS_CardinalityType

\* A new answer adds one stretch to the budget.
LEMMA BudgetGrows ==
  ASSUME NEW S \in SUBSET Answers, NEW a \in Answers, a \notin S
  PROVE  Cardinality(S \cup {a}) * Stretch = Cardinality(S) * Stretch + Stretch
<1>1. IsFiniteSet(S)
  BY AnswersAssumption, FS_Subset
<1>2. Cardinality(S \cup {a}) = Cardinality(S) + 1
  BY <1>1, FS_AddElement
<1> QED
  BY <1>2, BudgetOf, OneMore, Times

-----------------------------------------------------------------------------
(***************************************************************************)
(* Time is paid for by the answers: lastProgress out of the budget of the  *)
(* answers already seen, and the stretch since then by the next one.       *)
(***************************************************************************)

TimeInv ==
  /\ pc \in {"poll", "wait", "start"} => lastProgress <= Budget
  /\ pc = "wait"  => now <= Budget + Stall
  /\ pc = "poll"  => now <= Budget + Stall + Poll
  /\ pc = "start" => now <= Budget + Stall + Poll + TurTime
  /\ pc \in {"judge", "done"} => now <= Budget + Stretch
  /\ pc = "judge" /\ answer \in seen => lastProgress <= Budget

\* START UNIT is sent at the first 04/02, which is a new answer.
StartInv ==
  /\ InitRequired \in seen => startSent
  /\ pc = "judge" /\ answer = InitRequired => startSent
  /\ pc = "start" => answer = InitRequired /\ ~startSent

\* The flag is set as soon as 04/01 is heard.
BecomingInv ==
  /\ Becoming \in seen => becomingSeen
  /\ pc = "judge" /\ answer = Becoming => becomingSeen
  /\ outcome = "noMedium" => ~becomingSeen
  /\ pc # "done" => outcome \notin {"noMedium", "stalled"}

\* While only "no medium" was heard, each answer cost at most one round, and
\* there were fewer of them than it takes to report an empty drive.
EmptyInv ==
  /\ pc \in {"poll", "wait"} /\ seen \subseteq Empty =>
       ~becomingSeen /\ emptyRun < MaxEmpty /\ now <= Spent
  /\ pc = "wait" /\ seen \subseteq Empty => now + Poll <= Spent
  /\ pc = "judge" /\ seen \subseteq Empty /\ answer \in Empty =>
       ~becomingSeen /\ emptyRun < MaxEmpty /\ now + Poll <= Spent
  /\ outcome = "stalled" => ~(seen \subseteq Empty)

\* The drive answers TEST UNIT READY with a.
Heard(a) ==
  /\ answer' = a
  /\ emptyRun' = EmptyRun(a)
  /\ becomingSeen' = (becomingSeen \/ a = Becoming)
  /\ IF IsEmpty(emptyRun', becomingSeen') THEN Finish("noMedium")
     ELSE IF a \in Final THEN Finish("notReadiness")
     ELSE Goto(IF a = InitRequired /\ ~startSent THEN "start" ELSE "judge")

IInv == TypeOK /\ TimeInv /\ StartInv /\ BecomingInv /\ EmptyInv

\* A poll that has not begun spent nothing.
LEMMA IInvInit == Init => IInv
<1> SUFFICES ASSUME Init PROVE IInv
  OBVIOUS
<1>1. Cardinality({}) = 0
  BY FS_EmptySet
<1>2. Budget = 0 /\ Spent = 0
  BY <1>1, Times, SMT DEF Init, Budget, Spent
<1>3. TypeOK
  <2>1. startSent \in BOOLEAN /\ becomingSeen \in BOOLEAN /\ cancelled \in BOOLEAN
    BY Zenon DEF Init
  <2>2. now \in Nat /\ lastProgress \in Nat /\ emptyRun \in Nat /\ lastProgress <= now
    BY SMT DEF Init
  <2>3. /\ pc \in {"poll", "start", "judge", "wait", "done"}
        /\ answer \in Answers /\ seen \subseteq Answers /\ outcome \in Outcomes
    BY Zenon DEF Init, Outcomes
  <2> QED
    BY <2>1, <2>2, <2>3 DEF TypeOK
<1>4. TimeInv
  BY <1>2, Times, SMT DEF Init, TimeInv
<1>5. StartInv /\ BecomingInv
  BY Zenon DEF Init, StartInv, BecomingInv
<1>6. EmptyInv
  BY <1>2, Times, SMT DEF Init, EmptyInv
<1> QED
  BY <1>3, <1>4, <1>5, <1>6 DEF IInv

\* What was spent is a natural number.
LEMMA SpentNat == TypeOK => Spent \in Nat
BY OneMore, Times DEF TypeOK, Spent

\* The budget is a natural number.
LEMMA BudgetNat == TypeOK => Budget \in Nat
BY BudgetOf, OneMore, Times DEF TypeOK, Budget

\* Only a judged answer adds to the budget.
LEMMA SameBudget == UNCHANGED seen => Budget' = Budget
BY DEF Budget, Stretch

\* The times of a poll add up, whatever it answers.
LEMMA TurStep == IInv /\ Tur => IInv'
<1> SUFFICES ASSUME IInv, Tur PROVE IInv'
  OBVIOUS
<1> USE DEF IInv
<1>1. Budget' = Budget /\ Budget \in Nat
  BY SameBudget, BudgetNat DEF Tur
<1>2. now' \in Nat /\ now <= now' /\ now' <= now + TurTime
  BY Times, SMT DEF Tur, TypeOK
<1>a. \/ /\ pc' = "done" /\ outcome' \in {"error", "ready"}
         /\ UNCHANGED <<answer, emptyRun, becomingSeen>>
      \/ \E a \in Answers : Heard(a)
  BY Zenon DEF Tur, Finish, Heard
<1>b. pc = "poll" /\ UNCHANGED <<seen, lastProgress, startSent, cancelled>>
  BY DEF Tur
<1>c. ASSUME NEW a \in Answers, Heard(a)
      PROVE  /\ answer' = a /\ emptyRun' \in Nat
             /\ becomingSeen' \in BOOLEAN
             /\ becomingSeen \/ a = Becoming => becomingSeen'
             /\ becomingSeen' => becomingSeen \/ a = Becoming
             /\ \/ pc' = "done" /\ outcome' = "noMedium" /\ ~becomingSeen'
                \/ pc' = "done" /\ outcome' = "notReadiness"
                \/ pc' = "start" /\ a = InitRequired /\ ~startSent /\ outcome' = outcome
                \/ pc' = "judge" /\ (a = InitRequired => startSent) /\ outcome' = outcome
  <2>1. answer' = a /\ (becomingSeen' = (becomingSeen \/ a = Becoming))
    BY <1>c, Zenon DEF Heard
  <2>2. becomingSeen' \in BOOLEAN
    BY <2>1, Zenon
  <2>3. emptyRun' \in Nat
    BY <1>c, SMT DEF Heard, EmptyRun, TypeOK
  <2>4. \/ pc' = "done" /\ outcome' = "noMedium" /\ ~becomingSeen'
        \/ pc' = "done" /\ outcome' = "notReadiness"
        \/ pc' = "start" /\ a = InitRequired /\ ~startSent /\ outcome' = outcome
        \/ pc' = "judge" /\ (a = InitRequired => startSent) /\ outcome' = outcome
    BY <1>c, Zenon DEF Heard, IsEmpty, Finish, Goto
  <2> QED
    BY <2>1, <2>2, <2>3, <2>4, Zenon
<1>3. TypeOK'
  BY <1>2, <1>a, <1>b, <1>c, SMT DEF TypeOK, Outcomes
<1>4. TimeInv'
  BY <1>1, <1>2, <1>a, <1>b, <1>c, Times, SMT DEF TimeInv, TypeOK, StartInv, Stretch
<1>5. StartInv'
  BY <1>a, <1>b, <1>c, SMT DEF StartInv
<1>7. EmptyInv'
  <2>1. CASE pc' = "done" /\ outcome' \in {"error", "ready"}
    BY <2>1, SMT DEF EmptyInv
  <2>2. ASSUME NEW a \in Answers, Heard(a) PROVE EmptyInv'
    <3>1. CASE pc' = "judge" /\ a \in Empty /\ seen \subseteq Empty
      <4>1. ~becomingSeen /\ emptyRun < MaxEmpty /\ now <= Spent
        BY <3>1, <1>b, Zenon DEF EmptyInv
      <4>2. emptyRun' = emptyRun + 1
        BY <2>2, <3>1 DEF Heard, EmptyRun
      <4>3. ~becomingSeen'
        BY <2>2, <3>1, <4>1, AnswersAssumption, Zenon DEF Heard
      <4>4. emptyRun' < MaxEmpty
        <5>1. ~IsEmpty(emptyRun', becomingSeen')
          BY <2>2, <3>1 DEF Heard, Finish
        <5> QED
          BY <5>1, <4>2, <4>3, Times, SMT DEF IsEmpty, TypeOK
      <4>5. Spent' = Spent + Round /\ Spent \in Nat
        BY <4>2, OneMore, Times DEF Spent, TypeOK, Round
      <4>6. now' + Poll <= Spent'
        <5>1. now \in Nat /\ now <= Spent
          BY <4>1 DEF TypeOK
        <5> QED
          BY <5>1, <4>5, <1>2, RoundCovers
      <4>7. outcome' # "stalled"
        BY <1>b, <1>c, <2>2, <3>1, Zenon DEF BecomingInv
      <4> QED
        BY <3>1, <4>3, <4>4, <4>6, <4>7, SMT DEF EmptyInv
    <3>2. CASE ~(pc' = "judge" /\ a \in Empty /\ seen \subseteq Empty)
      <4>1. outcome \notin {"noMedium", "stalled"}
        BY <1>b, Zenon DEF BecomingInv
      <4>2. outcome' # "stalled" /\ pc' \in {"done", "start", "judge"} /\ answer' = a
        BY <1>c, <2>2, <4>1, SMT
      <4> QED
        BY <1>b, <3>2, <4>2, SMT DEF EmptyInv
    <3> QED
      BY <3>1, <3>2
  <2> QED
    BY <1>a, <2>1, <2>2
<1>6. BecomingInv'
  <2>1. becomingSeen => becomingSeen'
    BY <1>a, <1>c, Zenon
  <2>2. outcome \notin {"noMedium", "stalled"}
    BY <1>b, Zenon DEF BecomingInv
  <2> QED
    BY <1>a, <1>b, <1>c, <2>1, <2>2, Zenon DEF BecomingInv
<1> QED
  BY <1>3, <1>4, <1>5, <1>6, <1>7

\* START STOP UNIT moves the clock to its own end, and the progress with it.
LEMMA StartStep == IInv /\ StartUnit => IInv'
<1> SUFFICES ASSUME IInv, StartUnit PROVE IInv'
  OBVIOUS
<1> USE DEF IInv
<1>1. Budget' = Budget /\ Budget \in Nat
  BY SameBudget, BudgetNat DEF StartUnit
<1>2. now' \in Nat /\ now <= now' /\ now' <= now + StartTime
  BY Times, SMT DEF StartUnit, TypeOK
<1>3. TypeOK'
  BY <1>2, SMT DEF StartUnit, TypeOK, Finish, Goto, Outcomes
<1>4. answer' \notin seen'
  BY DEF StartUnit, StartInv
<1>5. TimeInv'
  BY <1>1, <1>2, <1>4, Times, SMT DEF StartUnit, TimeInv, TypeOK, Finish, Goto, Stretch
<1>6. StartInv' /\ BecomingInv'
  BY AnswersAssumption, SMT DEF StartUnit, StartInv, BecomingInv, Finish, Goto
<1>7. EmptyInv'
  <2>1. answer' \notin Empty /\ pc' \in {"done", "judge"} /\ outcome' # "stalled"
    BY AnswersAssumption, SMT DEF StartUnit, StartInv, BecomingInv, Finish, Goto
  <2> QED
    BY <2>1, SMT DEF EmptyInv
<1> QED
  BY <1>3, <1>5, <1>6, <1>7

\* A new answer brings its stretch; an old one stalls only after a window that
\* "no medium" alone cannot fill.
LEMMA JudgeStep == IInv /\ Judge => IInv'
<1> SUFFICES ASSUME IInv, Judge PROVE IInv'
  OBVIOUS
<1> USE DEF IInv
<1>1. TypeOK'
  BY SMT DEF Judge, TypeOK, Finish, Goto, Outcomes
<1>2. TimeInv'
  <2>0. Budget \in Nat
    BY BudgetNat
  <2>1. CASE answer \notin seen
    <3>1. Budget' = Budget + Stretch
      BY <2>1, BudgetGrows DEF Judge, TypeOK, Budget, Stretch
    <3> QED
      BY <2>0, <2>1, <3>1, Times, SMT DEF Judge, TimeInv, TypeOK, Goto
  <2>2. CASE answer \in seen
    <3>1. Budget' = Budget
      BY <2>2, SameBudget DEF Judge
    <3> QED
      BY <2>0, <2>2, <3>1, Times, SMT DEF Judge, TimeInv, TypeOK, Finish, Goto, Stretch
  <2> QED
    BY <2>1, <2>2
<1>3. StartInv' /\ BecomingInv'
  BY SMT DEF Judge, StartInv, BecomingInv, Finish, Goto
<1>4. EmptyInv'
  <2>1. /\ pc = "judge" /\ UNCHANGED <<now, answer, emptyRun, becomingSeen>>
        /\ seen' = seen \cup {answer}
    BY SMT DEF Judge
  <2>2. Spent' = Spent /\ Spent \in Nat
    BY <2>1, SpentNat DEF Spent, Round
  <2>3. outcome # "stalled"
    BY <2>1 DEF BecomingInv
  <2>4. CASE seen' \subseteq Empty
    <3>1. ~becomingSeen /\ emptyRun < MaxEmpty /\ now + Poll <= Spent
      BY <2>1, <2>4, SMT DEF EmptyInv
    <3>2. Spent <= MaxEmpty * Round /\ MaxEmpty * Round \in Nat
      BY <3>1, Monotone, OneMore, Times DEF Spent, TypeOK
    <3>3. MaxEmpty * Round <= Stall
      BY EmptyIsQuick DEF Round
    <3>4. now < Stall
      BY <3>1, <3>2, <3>3, <2>2, Times, SMT DEF TypeOK
    <3>5. pc' = "wait" /\ outcome' = outcome
      BY <3>4, Times, SMT DEF Judge, Goto, TypeOK
    <3> QED
      BY <2>1, <2>2, <2>3, <3>1, <3>5, Times, SMT DEF EmptyInv, TypeOK
  <2>5. CASE ~(seen' \subseteq Empty)
    <3>1. pc' \in {"wait", "done"}
      BY DEF Judge, Finish, Goto
    <3> QED
      BY <2>5, <3>1, SMT DEF EmptyInv
  <2> QED
    BY <2>4, <2>5
<1> QED
  BY <1>1, <1>2, <1>3, <1>4

\* The wait before the next poll is part of its round.
LEMMA WaitStep == IInv /\ Wait => IInv'
<1> SUFFICES ASSUME IInv, Wait PROVE IInv'
  OBVIOUS
<1> USE DEF IInv
<1>1. Budget' = Budget /\ Budget \in Nat
  BY SameBudget, BudgetNat DEF Wait
<1>2. TypeOK'
  BY Times, SMT DEF Wait, TypeOK, Finish, Goto, Outcomes
<1>3. TimeInv'
  BY <1>1, Times, SMT DEF Wait, TimeInv, TypeOK, Finish, Goto, Stretch
<1>4. StartInv' /\ BecomingInv'
  BY SMT DEF Wait, StartInv, BecomingInv, Finish, Goto
<1>5. Spent' = Spent /\ Spent \in Nat
  BY SpentNat DEF Wait, Spent, Round
<1>6. EmptyInv'
  BY <1>5, Times, SMT DEF Wait, EmptyInv, BecomingInv, Finish, Goto, TypeOK
<1> QED
  BY <1>2, <1>3, <1>4, <1>6

\* IInv is inductive.
LEMMA Inductive == IInv /\ [Next]_vars => IInv'
<1> SUFFICES ASSUME IInv, [Next]_vars PROVE IInv'
  OBVIOUS
<1>1. CASE Host
  BY <1>1, TurStep, StartStep, JudgeStep, WaitStep DEF Host
<1>2. CASE UNCHANGED <<pc, now, answer, seen, lastProgress, startSent, emptyRun, becomingSeen,
                       outcome>> /\ cancelled' \in BOOLEAN
  <2>1. Budget' = Budget /\ Spent' = Spent
    BY <1>2, SameBudget DEF Spent, Round
  <2>2. TypeOK' /\ TimeInv'
    BY <1>2, <2>1, SMT DEF IInv, TypeOK, TimeInv, Stretch
  <2>3. StartInv' /\ BecomingInv'
    BY <1>2, SMT DEF IInv, StartInv, BecomingInv
  <2>4. EmptyInv'
    BY <1>2, <2>1, SMT DEF IInv, EmptyInv
  <2> QED
    BY <2>2, <2>3, <2>4 DEF IInv
<1>3. CASE Stop
  BY <1>2, <1>3 DEF Stop
<1>4. CASE UNCHANGED vars
  BY <1>2, <1>4 DEF vars, IInv, TypeOK
<1> QED
  BY <1>1, <1>3, <1>4 DEF Next

\* The variables of await_media_ready stay in their ranges, and its clock never
\* runs behind the last progress it recorded.
THEOREM TypeCorrect == Spec => []TypeOK
<1>1. IInv => TypeOK
  BY DEF IInv
<1> QED
  BY <1>1, IInvInit, Inductive, PTL DEF Spec

\* "No total cap" of await_media_ready is still a bound: a poll never lasts
\* longer than one stretch per answer a drive can give, and one more.
THEOREM PollIsBounded == Spec => []PollBounded
<1>1. IInv => PollBounded
  <2> SUFFICES ASSUME IInv PROVE PollBounded
    OBVIOUS
  <2>1. now <= Budget + Stretch
    BY BudgetNat, Times, SMT DEF IInv, TypeOK, TimeInv, Stretch
  <2>2. Cardinality(seen) <= Cardinality(Answers)
        /\ Cardinality(seen) \in Nat /\ Cardinality(Answers) \in Nat
    BY BudgetOf DEF IInv, TypeOK
  <2>3. Budget <= Cardinality(Answers) * Stretch
    BY <2>2, Monotone, Times DEF Budget
  <2>4. (Cardinality(Answers) + 1) * Stretch = Cardinality(Answers) * Stretch + Stretch
        /\ Cardinality(Answers) * Stretch \in Nat
    BY <2>2, OneMore, Times
  <2>5. now \in Nat /\ Budget \in Nat
    BY BudgetNat DEF IInv, TypeOK
  <2> HIDE DEF Budget, Stretch
  <2> QED
    BY <2>1, <2>3, <2>4, <2>5, Times, SMT DEF PollBounded
<1> QED
  BY <1>1, IInvInit, Inductive, PTL DEF Spec

\* await_media_ready reports an empty drive only if it never heard 04/01.
THEOREM NoMediumHolds == Spec => []NoMediumIsFinal
<1>1. IInv => NoMediumIsFinal
  BY DEF IInv, BecomingInv, NoMediumIsFinal
<1> QED
  BY <1>1, IInvInit, Inductive, PTL DEF Spec

\* await_media_ready reports a stall only of a drive that said something else
\* than "no medium": the cap on its empty answers is reached before the window
\* is over.
THEOREM EmptyIsReported == Spec => []StallIsNotEmpty
<1>1. IInv => StallIsNotEmpty
  BY DEF IInv, EmptyInv, StallIsNotEmpty
<1> QED
  BY <1>1, IInvInit, Inductive, PTL DEF Spec
=============================================================================
