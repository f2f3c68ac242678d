----------------------------- MODULE ReadyPoll -----------------------------
(***************************************************************************)
(* The readiness poll after a firmware upload: await_media_ready           *)
(* (ld/platform/mt1959/mod.rs).  TEST UNIT READY is sent every Poll units  *)
(* of time until the drive is ready, gives an answer that settles the      *)
(* matter, or has said nothing new for Stall units; there is no total cap. *)
(*                                                                         *)
(* A command takes any time up to its timeout.  The drive may answer       *)
(* anything at any time; a Stop or a dead bus ends the poll with an error. *)
(***************************************************************************)
EXTENDS Naturals, FiniteSets

CONSTANTS
  Answers,      \* the (sense key, ASC, ASCQ) triples a drive may answer
  Becoming,     \* 02/04/01
  InitRequired, \* 02/04/02
  Empty,        \* 02/3A/xx
  Final,        \* 02/30/xx, and sense keys 3, 4 and 5
  Poll,         \* READY_POLL
  Stall,        \* READY_STALL
  TurTime,      \* TUR_TIMEOUT_MS
  StartTime,    \* START_UNIT_TIMEOUT_MS
  MaxEmpty      \* READY_MAX_EMPTY_POLLS

ASSUME AnswersAssumption ==
  /\ IsFiniteSet(Answers)
  /\ Becoming \in Answers \ (Empty \cup Final)
  /\ InitRequired \in Answers \ (Empty \cup Final)
  /\ Becoming # InitRequired
  /\ Empty \subseteq Answers /\ Final \subseteq Answers /\ Empty \cap Final = {}

ASSUME TimesAssumption ==
  /\ Poll \in Nat \ {0} /\ Stall \in Nat \ {0} /\ TurTime \in Nat /\ StartTime \in Nat
  /\ MaxEmpty \in Nat \ {0}

\* 10 polls of 5 s each, half a second apart, are shorter than the 60 s window.
ASSUME EmptyIsQuick == MaxEmpty * (Poll + TurTime) <= Stall

Outcomes == {"none", "ready", "noMedium", "notReadiness", "stalled", "error"}

VARIABLES
  pc,            \* "poll", "start", "judge", "wait" or "done"
  now,           \* clock.elapsed()
  answer,        \* the last answer
  seen, lastProgress, startSent, emptyRun, becomingSeen,
  outcome,
  cancelled

vars == <<pc, now, answer, seen, lastProgress, startSent, emptyRun, becomingSeen,
          outcome, cancelled>>

Init ==
  /\ pc = "poll"
  /\ now = 0 /\ lastProgress = 0
  /\ answer \in Answers     \* not looked at before the first answer
  /\ seen = {} /\ startSent = FALSE /\ emptyRun = 0 /\ becomingSeen = FALSE
  /\ outcome = "none" /\ cancelled = FALSE

Finish(o) == pc' = "done" /\ outcome' = o
Goto(next) == pc' = next /\ UNCHANGED outcome

-----------------------------------------------------------------------------

EmptyRun(a) == IF a \in Empty THEN emptyRun + 1 ELSE 0

\* Variant: an empty drive is polled like any other.
NeverEmpty(run, becoming) == FALSE

\* Enough 3A answers in a row, and never 04/01: there is no medium.
IsEmpty(run, becoming) == ~becoming /\ run >= MaxEmpty

\* TEST UNIT READY, and what its answer settles at once.
Tur ==
  /\ pc = "poll"
  /\ \E d \in 0..TurTime : now' = now + d
  /\ \/ /\ Finish("error")                     \* dead bus, or a Stop
        /\ UNCHANGED <<answer, emptyRun, becomingSeen>>
     \/ /\ ~cancelled
        /\ Finish("ready")
        /\ UNCHANGED <<answer, emptyRun, becomingSeen>>
     \/ /\ ~cancelled
        /\ \E a \in Answers :
             /\ answer' = a
             /\ emptyRun' = EmptyRun(a)
             /\ becomingSeen' = (becomingSeen \/ a = Becoming)
             /\ IF IsEmpty(emptyRun', becomingSeen') THEN Finish("noMedium")
                ELSE IF a \in Final THEN Finish("notReadiness")
                ELSE Goto(IF a = InitRequired /\ ~startSent THEN "start" ELSE "judge")
  /\ UNCHANGED <<seen, lastProgress, startSent, cancelled>>

\* The one START STOP UNIT; it counts as progress, whatever the drive says.
StartUnit ==
  /\ pc = "start"
  /\ startSent' = TRUE
  /\ lastProgress' = now
  /\ \E d \in 0..StartTime : now' = now + d
  /\ \/ Finish("error")
     \/ ~cancelled /\ Goto("judge")
  /\ UNCHANGED <<answer, seen, emptyRun, becomingSeen, cancelled>>

\* Variant: every answer counts as progress.
JudgeLenient ==
  /\ pc = "judge"
  /\ seen' = seen \cup {answer}
  /\ lastProgress' = now
  /\ Goto("wait")
  /\ UNCHANGED <<now, answer, startSent, emptyRun, becomingSeen, cancelled>>

\* A new answer is progress; an old one ends the poll once the window is over.
Judge ==
  /\ pc = "judge"
  /\ IF answer \notin seen
     THEN /\ seen' = seen \cup {answer}
          /\ lastProgress' = now
          /\ Goto("wait")
     ELSE /\ IF now - lastProgress >= Stall THEN Finish("stalled") ELSE Goto("wait")
          /\ UNCHANGED <<seen, lastProgress>>
  /\ UNCHANGED <<now, answer, startSent, emptyRun, becomingSeen, cancelled>>

\* Variant: every poll starts its own clock.
WaitRestarts ==
  /\ pc = "wait"
  /\ IF cancelled
     THEN Finish("error") /\ UNCHANGED now
     ELSE Goto("poll") /\ now' = Poll
  /\ UNCHANGED <<answer, seen, lastProgress, startSent, emptyRun, becomingSeen, cancelled>>

Wait ==
  /\ pc = "wait"
  /\ IF cancelled
     THEN Finish("error") /\ UNCHANGED now
     ELSE Goto("poll") /\ now' = now + Poll
  /\ UNCHANGED <<answer, seen, lastProgress, startSent, emptyRun, becomingSeen, cancelled>>

Stop ==
  /\ pc # "done"
  /\ ~cancelled
  /\ cancelled' = TRUE
  /\ UNCHANGED <<pc, now, answer, seen, lastProgress, startSent, emptyRun, becomingSeen, outcome>>

Host == Tur \/ StartUnit \/ Judge \/ Wait

Next == Host \/ Stop

Spec == Init /\ [][Next]_vars

\* The poll is one host thread, and every command of it has a timeout.
FairSpec == Spec /\ WF_vars(Host)

-----------------------------------------------------------------------------

\* The variables stay in their ranges, and progress is never in the future (the
\* window is computed with a saturating subtraction).
TypeOK ==
  /\ pc \in {"poll", "start", "judge", "wait", "done"}
  /\ now \in Nat /\ lastProgress \in Nat /\ emptyRun \in Nat
  /\ lastProgress <= now
  /\ answer \in Answers /\ seen \subseteq Answers
  /\ startSent \in BOOLEAN /\ becomingSeen \in BOOLEAN /\ cancelled \in BOOLEAN
  /\ outcome \in Outcomes

\* The longest stretch without progress: a poll just inside the window, the
\* wait after it, and the commands of the next one.
Stretch == Stall + Poll + TurTime + StartTime

\* "No total cap" is not forever: whatever the drive answers, the poll is over
\* after one stretch per distinct answer it gave, and one more.
PollBounded == now <= (Cardinality(Answers) + 1) * Stretch

\* An empty drive is reported as one and never waited out: a poll that stalls
\* has heard something else than "no medium".
StallIsNotEmpty == outcome = "stalled" => ~(seen \subseteq Empty)

\* A drive that said it is becoming ready is not taken for an empty one.
NoMediumIsFinal == outcome = "noMedium" => Becoming \notin seen

\* The poll ends, even on a drive that never becomes ready.
PollEnds == <>(pc = "done")
=============================================================================
