-------------------------- MODULE ProgressionProofs --------------------------
(***************************************************************************)
(* Proofs about progression and mastery, for any lessons, misconceptions,  *)
(* sessions, workers and limits.                                           *)
(***************************************************************************)
EXTENDS Progression, SequenceTheorems, TLAPS

-----------------------------------------------------------------------------
(* Part 1: what holds with any number of workers. *)

\* An item is of its submission's purpose, and what is not an assessment
\* follows an evaluated submission of the same session and lesson.
StudyInv ==
    /\ Len(submission) <= MaxSubmissions
    /\ \A s \in Ids :
          /\ submission[s].item.kind = submission[s].purpose
          /\ submission[s].purpose # "assessment" =>
                /\ submission[s].parent \in 1..(s-1)
                /\ Evaluated(submission[s].parent)
                /\ SameStudy(submission[s].parent, s)

\* A submission is evaluated by one worker, and running meanwhile.
WorkInv ==
    /\ \A p \in Proc : worker[p].pc # "idle" =>
          worker[p].sub \in Ids /\ submission[worker[p].sub].status = "running"
    /\ \A p, q \in Proc :
          worker[p].pc # "idle" /\ worker[q].pc # "idle" /\ worker[p].sub = worker[q].sub => p = q

\* A decision about to be committed was legal for the row that was read, and
\* mastery that is new to that row is earned: by a transfer with its tests run,
\* directly after the lesson's own item was passed.
Decided(w) ==
    /\ w.status \in AllowedNext(w.read.status)
    /\ w.status = "mastered" /\ w.read.status # "mastered" =>
          LET a == submission[w.sub].parent IN
          /\ w.evaluation.good /\ w.sandbox
          /\ submission[w.sub].item.kind = "transfer"
          /\ a \in 1..(w.sub - 1) /\ submission[a].purpose = "assessment" /\ Passed(a)
          /\ SameStudy(a, w.sub)
          /\ w.item = submission[a].item

DecisionInv == \A p \in Proc : worker[p].pc = "committing" => Decided(worker[p])

StudyIsSound == TypeOK /\ StudyInv /\ WorkInv /\ DecisionInv /\ StepsAreGrounded /\ MasteryIsEarned

USE BoundsAssumption, NoneAssumption, ContentAssumption

LEMMA StudyInit == Init => StudyIsSound
  <1> SUFFICES ASSUME Init PROVE StudyIsSound
    OBVIOUS
  <1>1. submission = <<>> /\ Len(submission) = 0 /\ Ids = {}
    BY DEF Init, Ids
  <1>2. TypeOK
    BY <1>1 DEF Init, TypeOK, NoRow, Row, Idle, WorkerState
  <1> QED BY <1>1, <1>2 DEF Init, StudyIsSound, StudyInv, WorkInv, DecisionInv, StepsAreGrounded,
             MasteryIsEarned, Idle, NoRow

\* A worker is known by what it does.
LEMMA WorkerShape ==
    ASSUME TypeOK, NEW p \in Proc
    PROVE  /\ worker[p].pc \in {"idle", "evaluating", "committing"}
           /\ worker[p].pc # "idle" => worker[p].sub \in 1..MaxSubmissions
           /\ worker[p].pc = "committing" =>
                 /\ worker[p].evaluation \in Evaluation /\ worker[p].sandbox \in BOOLEAN
                 /\ worker[p].item \in Item /\ worker[p].status \in ProgressState
                 /\ worker[p].read \in Row
  <1>1. worker[p] \in WorkerState
    BY DEF TypeOK
  <1> QED BY <1>1 DEF WorkerState, Idle

-----------------------------------------------------------------------------
(* How the submissions change: their requests never do, and an evaluated     *)
(* submission not at all.                                                    *)

SameRequest(x, y) ==
    /\ x.session = y.session /\ x.purpose = y.purpose
    /\ x.item = y.item /\ x.parent = y.parent

SubmissionsKept ==
    /\ Ids \subseteq Ids'
    /\ \A s \in Ids : /\ SameRequest(submission'[s], submission[s])
                      /\ Evaluated(s) => submission'[s] = submission[s]

LEMMA IdsAre ==
    ASSUME TypeOK
    PROVE  /\ Len(submission) \in Nat
           /\ Ids = 1..Len(submission)
           /\ \A s \in Ids : s \in Nat \ {0} /\ submission[s] \in Submission
  BY LenProperties, ElementOfSeq DEF TypeOK, Ids

\* A submission that is being worked on changes.
LEMMA Updated ==
    ASSUME TypeOK, NEW s \in Ids, ~Evaluated(s), NEW x \in Submission,
           SameRequest(x, submission[s]), submission' = [submission EXCEPT ![s] = x]
    PROVE  /\ submission' \in Seq(Submission)
           /\ Len(submission') = Len(submission)
           /\ Ids' = Ids
           /\ \A t \in Ids : submission'[t] = IF t = s THEN x ELSE submission[t]
           /\ SubmissionsKept
  <1>1. s \in 1..Len(submission) /\ Ids = 1..Len(submission)
    BY IdsAre
  <1>2. /\ submission' \in Seq(Submission)
        /\ Len(submission') = Len(submission)
        /\ \A t \in 1..Len(submission) : submission'[t] = IF t = s THEN x ELSE submission[t]
    BY <1>1, ExceptSeq DEF TypeOK
  <1>3. Ids' = Ids
    BY <1>1, <1>2, LenProperties DEF Ids
  <1> QED BY <1>1, <1>2, <1>3 DEF SubmissionsKept, SameRequest

\* What was passed, evaluated or grounded stays so.
LEMMA StudyStays ==
    ASSUME TypeOK, SubmissionsKept
    PROVE  /\ \A s \in Ids : Evaluated(s) => Evaluated(s)'
           /\ \A s \in Ids : Passed(s) => Passed(s)'
           /\ \A s, t \in Ids : SameStudy(s, t) => SameStudy(s, t)'
           /\ \A t \in Ids : TransferIsGrounded(t) => TransferIsGrounded(t)'
           /\ \A t \in Ids : PracticeIsDiagnosed(t) => PracticeIsDiagnosed(t)'
  <1>1. \A s \in Ids : Evaluated(s) => Evaluated(s)'
    BY DEF SubmissionsKept, Evaluated
  <1>2. \A s \in Ids : Passed(s) => Passed(s)'
    BY <1>1 DEF SubmissionsKept, Passed
  <1>3. \A s, t \in Ids : SameStudy(s, t) => SameStudy(s, t)'
    BY DEF SubmissionsKept, SameRequest, SameStudy
  <1>4. \A t \in Ids : \A q \in 1..(t-1) : q \in Ids
    BY IdsAre
  <1>5. \A t \in Ids : TransferIsGrounded(t) => TransferIsGrounded(t)'
    BY <1>2, <1>3, <1>4 DEF TransferIsGrounded, SubmissionsKept, SameRequest
  <1>6. \A t \in Ids : PracticeIsDiagnosed(t) => PracticeIsDiagnosed(t)'
    BY <1>1, <1>3, <1>4 DEF PracticeIsDiagnosed, SubmissionsKept, SameRequest
  <1> QED BY <1>1, <1>2, <1>3, <1>5, <1>6

\* Without a new submission the study stays in order.
LEMMA StudyKept ==
    ASSUME TypeOK, StudyInv, StepsAreGrounded, SubmissionsKept, Ids' = Ids,
           Len(submission') = Len(submission)
    PROVE  StudyInv' /\ StepsAreGrounded'
  <1>1. \A s \in Ids : \A q \in 1..(s-1) : q \in Ids
    BY IdsAre
  <1>2. StudyInv'
    BY <1>1, StudyStays DEF StudyInv, SubmissionsKept, SameRequest
  <1>3. StepsAreGrounded'
    BY StudyStays DEF StepsAreGrounded, SubmissionsKept, SameRequest
  <1> QED BY <1>2, <1>3

LEMMA EarnedStays ==
    ASSUME TypeOK, SubmissionsKept
    PROVE  \A i \in Item : Earned(i) => Earned(i)'
  <1>1. \A s \in Ids : Passed(s) => submission'[s] = submission[s] /\ s \in Ids'
    BY DEF SubmissionsKept, Passed
  <1> QED BY <1>1, StudyStays DEF Earned

\* Decisions under way stay sound.
LEMMA DecisionsStay ==
    ASSUME TypeOK, StudyInv, WorkInv, DecisionInv, SubmissionsKept,
           \A p \in Proc : worker'[p].pc = "committing" => worker'[p] = worker[p]
    PROVE  DecisionInv'
  <1> SUFFICES ASSUME NEW p \in Proc, worker'[p].pc = "committing" PROVE Decided(worker[p])'
    BY DEF DecisionInv
  <1>1. worker'[p] = worker[p] /\ Decided(worker[p]) /\ worker[p].sub \in Ids
    BY DEF DecisionInv, WorkInv
  <1>2. \A a \in 1..(worker[p].sub - 1) : a \in Ids
    BY <1>1, IdsAre
  <1>3. /\ submission'[worker[p].sub].item = submission[worker[p].sub].item
        /\ submission'[worker[p].sub].parent = submission[worker[p].sub].parent
    BY <1>1 DEF SubmissionsKept, SameRequest
  <1>4. ASSUME NEW a \in 1..(worker[p].sub - 1), submission[a].purpose = "assessment", Passed(a),
               SameStudy(a, worker[p].sub)
        PROVE  /\ submission'[a].purpose = "assessment" /\ submission'[a].item = submission[a].item
               /\ Passed(a)' /\ SameStudy(a, worker[p].sub)'
    <2>1. a \in Ids /\ worker[p].sub \in Ids
      BY <1>1, <1>2
    <2>2. /\ submission'[a].purpose = submission[a].purpose /\ submission'[a].item = submission[a].item
          /\ submission'[a].session = submission[a].session
      BY <2>1 DEF SubmissionsKept, SameRequest
    <2>3. Passed(a)' /\ SameStudy(a, worker[p].sub)
      BY <1>4, <2>1, StudyStays
    <2>4. submission'[worker[p].sub].session = submission[worker[p].sub].session
      BY <2>1 DEF SubmissionsKept, SameRequest
    <2> QED BY <1>1, <1>3, <1>4, <2>2, <2>3, <2>4 DEF SameStudy
  <1> QED BY <1>1, <1>3, <1>4 DEF Decided, AllowedNext

-----------------------------------------------------------------------------
(* The steps. *)

LEMMA LearnStep ==
    ASSUME StudyIsSound, NEW session \in Session, NEW purpose \in Purpose, NEW item \in Item,
           NEW parent \in {0} \union Ids, Submit(session, purpose, item, parent)
    PROVE  StudyIsSound'
  <1> USE DEF StudyIsSound
  <1>n. PICK n \in Nat : n = Len(submission) + 1
    BY IdsAre
  <1> DEFINE new == [session |-> session, purpose |-> purpose, item |-> item, parent |-> parent,
                     event |-> EventOf(purpose, parent), status |-> "pending", attempts |-> 0,
                     evaluation |-> NotEvaluated, sandbox |-> FALSE, disrupted |-> FALSE]
  <1>1. /\ submission' = Append(submission, new) /\ UNCHANGED <<progress, history, worker>>
        /\ n <= MaxSubmissions /\ n \in Nat
    BY <1>n, IdsAre DEF Submit
  <1>2. new \in Submission
    <2>1. parent \in 0..MaxSubmissions
      BY IdsAre DEF StudyInv
    <2>2. EventOf(purpose, parent) \in EventType
      BY DEF EventOf, EventType
    <2> QED BY <2>1, <2>2 DEF Submission, NotEvaluated, Evaluation
  <1>3. /\ submission' \in Seq(Submission) /\ Len(submission') = n
        /\ \A s \in Ids : submission'[s] = submission[s]
        /\ submission'[n] = new
    BY <1>n, <1>1, <1>2, IdsAre DEF TypeOK
  <1>f. /\ submission'[n].session = session /\ submission'[n].purpose = purpose
        /\ submission'[n].item = item /\ submission'[n].parent = parent
    BY <1>3
  <1>4. Ids = 1..(n-1) /\ Ids' = 1..n
    BY <1>n, <1>3, IdsAre, LenProperties DEF Ids
  <1>k. \A s \in Ids : s \in Ids' /\ s < n /\ submission'[s] = submission[s]
    BY <1>1, <1>3, <1>4
  <1> HIDE DEF new
  <1>5. SubmissionsKept
    BY <1>3, <1>4 DEF SubmissionsKept, SameRequest
  <1>6. TypeOK'
    BY <1>1, <1>3 DEF TypeOK
  <1>7. /\ item.kind = purpose
        /\ purpose # "assessment" =>
              parent \in Ids /\ Evaluated(parent) /\ submission[parent].session = session
    BY DEF Submit, ValidProgression, Retries, PracticeFollows, TransferFollows, PracticeItem,
           TransferItem, StudyInv
  <1>8. purpose # "assessment" => item.lesson = submission[parent].item.lesson
    BY <1>7 DEF Submit, ValidProgression, Retries, PracticeFollows, TransferFollows,
                PracticeItem, TransferItem
  <1>9. purpose # "assessment" => parent \in 1..(n-1) /\ Evaluated(parent)' /\ SameStudy(parent, n)'
    BY <1>1, <1>f, <1>k, <1>4, <1>7, <1>8 DEF Evaluated, SameStudy
  <1>10. StudyInv'
    <2>1. \A s \in Ids : \A q \in 1..(s-1) : q \in Ids
      BY IdsAre
    <2>2. ASSUME NEW s \in Ids
          PROVE  /\ submission'[s].item.kind = submission'[s].purpose
                 /\ submission'[s].purpose # "assessment" =>
                       /\ submission'[s].parent \in 1..(s-1)
                       /\ Evaluated(submission[s].parent)'
                       /\ SameStudy(submission[s].parent, s)'
      BY <1>3, <1>5, <2>1, StudyStays DEF StudyInv
    <2>3. ASSUME NEW s \in Ids', s \notin Ids PROVE s = n
      BY <1>1, <1>4, <2>3
    <2> QED BY <1>1, <1>3, <1>f, <1>7, <1>9, <2>2, <2>3 DEF StudyInv
  <1>11. StepsAreGrounded'
    <2>1. ASSUME purpose = "transfer" PROVE TransferIsGrounded(n)'
      <3>1. CASE submission[parent].purpose = "transfer"
        <4>1. PICK q \in 1..(parent-1) : SameStudy(q, parent) /\ submission[q].purpose # "transfer" /\ Passed(q)
          BY <1>7, <2>1, <3>1 DEF StepsAreGrounded, TransferIsGrounded
        <4>2. q \in Ids /\ q \in 1..(n-1)
          BY <1>4, <1>7, <2>1, IdsAre
        <4> QED BY <1>f, <1>k, <1>7, <1>8, <2>1, <4>1, <4>2 DEF TransferIsGrounded, SameStudy, Passed, Evaluated
      <3>2. CASE submission[parent].purpose # "transfer"
        <4>1. Passed(parent)
          BY <1>7, <2>1, <3>2 DEF Submit, ValidProgression, Retries, TransferFollows, Passed
        <4>2. parent \in Ids /\ parent \in 1..(n-1) /\ SameStudy(parent, n)'
          BY <1>7, <1>9, <2>1
        <4>3. submission'[parent] = submission[parent]
          BY <1>k, <4>2
        <4>4. Passed(parent)' /\ submission'[parent].purpose # "transfer"
          BY <3>2, <4>1, <4>3 DEF Passed, Evaluated
        <4> QED BY <4>2, <4>4 DEF TransferIsGrounded
      <3> QED BY <3>1, <3>2
    <2>2. ASSUME purpose = "practice" PROVE PracticeIsDiagnosed(n)'
      <3>1. CASE Retries(purpose, item, parent)
        <4>1. PICK q \in 1..(parent-1) :
                 /\ SameStudy(q, parent) /\ Evaluated(q) /\ submission[q].evaluation.supported
                 /\ submission[q].evaluation.misconception = item.of
          BY <1>7, <2>2, <3>1 DEF StepsAreGrounded, PracticeIsDiagnosed, Retries
        <4>2. q \in Ids /\ q \in 1..(n-1)
          BY <1>4, <1>7, <2>2, IdsAre
        <4> QED BY <1>f, <1>k, <1>7, <1>8, <2>2, <4>1, <4>2 DEF PracticeIsDiagnosed, SameStudy, Evaluated
      <3>2. CASE PracticeFollows(item, parent)
        <4>1. /\ parent \in Ids /\ parent \in 1..(n-1) /\ Evaluated(parent)'
              /\ SameStudy(parent, n)'
          BY <1>7, <1>9, <2>2
        <4>2. /\ submission[parent].evaluation.supported
              /\ submission[parent].evaluation.misconception = item.of
          BY <3>2 DEF PracticeFollows, PracticeItem
        <4> QED BY <1>f, <1>k, <4>1, <4>2 DEF PracticeIsDiagnosed
      <3> QED BY <2>2, <3>1, <3>2 DEF Submit, ValidProgression
    <2>3. ASSUME NEW s \in Ids', s \notin Ids PROVE s = n
      BY <1>1, <1>4, <2>3
    <2> QED BY <1>f, <1>k, <1>5, <2>1, <2>2, <2>3, StudyStays DEF StepsAreGrounded
  <1>12. WorkInv'
    BY <1>1, <1>3, <1>4 DEF WorkInv
  <1>13. DecisionInv'
    BY <1>1, <1>5, DecisionsStay
  <1>14. MasteryIsEarned'
    BY <1>1, <1>5, EarnedStays DEF MasteryIsEarned
  <1> QED BY <1>6, <1>10, <1>11, <1>12, <1>13, <1>14

\* Worker p becomes w and its submission s, which is not evaluated, becomes x;
\* nothing else changes, progress included.
Moves(p, s, x, w) ==
    /\ ~Evaluated(s)
    /\ SameRequest(x, submission[s])
    /\ \A q \in Proc : q # p /\ worker[q].pc # "idle" => worker[q].sub # s
    /\ w.pc \in {"idle", "evaluating"}
    /\ w.pc # "idle" => w.sub = s /\ x.status = "running"
    /\ submission' = [submission EXCEPT ![s] = x]
    /\ worker' = [worker EXCEPT ![p] = w]
    /\ UNCHANGED <<progress, history>>

LEMMA WorkMoves ==
    ASSUME StudyIsSound, NEW p \in Proc, NEW s \in Ids, NEW x \in Submission,
           NEW w \in WorkerState, Moves(p, s, x, w)
    PROVE  StudyIsSound'
  <1> USE DEF StudyIsSound
  <1>1. /\ submission' \in Seq(Submission) /\ Len(submission') = Len(submission) /\ Ids' = Ids
        /\ \A t \in Ids : submission'[t] = IF t = s THEN x ELSE submission[t]
        /\ SubmissionsKept
    BY Updated DEF Moves
  <1>2. \A q \in Proc : worker'[q] = IF q = p THEN w ELSE worker[q]
    BY DEF Moves, TypeOK
  <1>3. TypeOK'
    BY <1>1 DEF Moves, TypeOK
  <1>4. StudyInv' /\ StepsAreGrounded'
    BY <1>1, StudyKept
  <1>5. WorkInv'
    BY <1>1, <1>2 DEF Moves, WorkInv
  <1>6. DecisionInv'
    BY <1>1, <1>2, DecisionsStay DEF Moves
  <1>7. MasteryIsEarned'
    BY <1>1, EarnedStays DEF Moves, MasteryIsEarned
  <1> QED BY <1>3, <1>4, <1>5, <1>6, <1>7

LEMMA ClaimStep ==
    ASSUME StudyIsSound, NEW p \in Proc, NEW s \in Ids, ClaimJob(p, s)
    PROVE  StudyIsSound'
  <1>1. submission[s] \in Submission /\ s \in 1..MaxSubmissions
    BY IdsAre DEF StudyIsSound, StudyInv
  <1>2. submission[s].attempts + 1 \in 0..MaxAttempts
    BY <1>1 DEF ClaimJob, Submission
  <1>3. PICK x \in Submission :
           x = [submission[s] EXCEPT !.status = "running", !.attempts = submission[s].attempts + 1]
    BY <1>1, <1>2 DEF Submission
  <1>4. PICK w \in WorkerState : w = [pc |-> "evaluating", sub |-> s]
    BY <1>1 DEF WorkerState
  <1>5. submission' = [submission EXCEPT ![s] = x] /\ worker' = [worker EXCEPT ![p] = w]
    BY <1>3, <1>4 DEF ClaimJob
  <1>6. SameRequest(x, submission[s]) /\ x.status = "running"
    BY <1>1, <1>3 DEF Submission, SameRequest
  <1>7. ~Evaluated(s) /\ UNCHANGED <<progress, history>>
    BY DEF ClaimJob, Evaluated
  <1>8. \A q \in Proc : worker[q].pc # "idle" => worker[q].sub # s
    BY DEF ClaimJob, StudyIsSound, WorkInv
  <1>9. w.pc = "evaluating" /\ w.sub = s
    BY <1>4
  <1>10. Moves(p, s, x, w)
    BY <1>5, <1>6, <1>7, <1>8, <1>9 DEF Moves
  <1> QED BY <1>10, WorkMoves

LEMMA FailStep ==
    ASSUME StudyIsSound, NEW p \in Proc, worker[p].pc # "idle", NEW disrupted \in BOOLEAN,
           FailAttempt(p, disrupted)
    PROVE  StudyIsSound'
  <1>1. PICK s \in Ids : s = worker[p].sub
    BY DEF StudyIsSound, WorkInv
  <1>2. submission[s] \in Submission /\ ~Evaluated(s)
    BY <1>1, IdsAre DEF StudyIsSound, WorkInv, Evaluated
  <1>3. PICK x \in Submission :
           x = [submission[s] EXCEPT !.status = FailedStatus(s),
                                     !.disrupted = submission[s].disrupted \/ disrupted]
    BY <1>2 DEF Submission, FailedStatus
  <1>4. PICK w \in WorkerState : w = Idle
    BY DEF WorkerState
  <1>5. submission' = [submission EXCEPT ![s] = x] /\ worker' = [worker EXCEPT ![p] = w]
    BY <1>1, <1>3, <1>4 DEF FailAttempt
  <1>6. SameRequest(x, submission[s])
    BY <1>2, <1>3 DEF Submission, SameRequest
  <1>7. \A q \in Proc : q # p /\ worker[q].pc # "idle" => worker[q].sub # s
    BY <1>1 DEF StudyIsSound, WorkInv
  <1>8. w.pc = "idle" /\ UNCHANGED <<progress, history>>
    BY <1>4 DEF Idle, FailAttempt
  <1>9. Moves(p, s, x, w)
    BY <1>2, <1>5, <1>6, <1>7, <1>8 DEF Moves
  <1> QED BY <1>9, WorkMoves

\* Mastery is only credited by a transfer directly after its assessment: a
\* practice has an item of its own, and ValidParentChain wants its root's.
LEMMA MasteryFollows ==
    ASSUME StudyIsSound, NEW s \in Ids, NEW e \in Evaluation, NEW sandbox \in BOOLEAN,
           NEW a, a = submission[s].parent, EarnsMastery(s, e, sandbox)
    PROVE  /\ e.good /\ sandbox /\ submission[s].item.kind = "transfer"
           /\ a \in 1..(s-1) /\ a \in Ids
           /\ submission[a].purpose = "assessment" /\ Passed(a) /\ SameStudy(a, s)
           /\ Root(a) = submission[a]
  <1>1. /\ e.good /\ sandbox /\ submission[s].purpose = "transfer" /\ ValidParentChain(s)
    BY DEF EarnsMastery
  <1>2. submission[s].item.kind = "transfer" /\ a \in 1..(s-1) /\ Evaluated(a) /\ SameStudy(a, s)
    BY <1>1 DEF StudyIsSound, StudyInv
  <1>3. a \in Ids
    BY <1>2, IdsAre DEF StudyIsSound
  <1>4. submission[a].evaluation.good /\ submission[a].purpose \in {"assessment", "practice"}
    BY <1>1 DEF ValidParentChain
  <1>5. submission[a].purpose # "practice"
    <2> SUFFICES ASSUME submission[a].purpose = "practice" PROVE FALSE
      OBVIOUS
    <2>1. submission[a].parent \in 1..(a-1) /\ submission[a].item.kind = "practice"
      BY <1>3 DEF StudyIsSound, StudyInv
    <2>2. submission[a].parent \in Ids /\ submission[a].parent # 0
      BY <1>3, <2>1, IdsAre DEF StudyIsSound
    <2>3. /\ submission[submission[a].parent].purpose = "assessment"
          /\ submission[submission[a].parent].item = submission[a].item
      BY <1>1, <2>2 DEF ValidParentChain, Root
    <2> QED BY <2>1, <2>2, <2>3 DEF StudyIsSound, StudyInv
  <1> QED BY <1>1, <1>2, <1>3, <1>4, <1>5 DEF Passed, Root

LEMMA DecideStep ==
    ASSUME StudyIsSound, NEW p \in Proc, NEW e \in Evaluation, NEW sandbox \in BOOLEAN,
           FinishDecide(p, e, sandbox)
    PROVE  StudyIsSound'
  <1> USE DEF StudyIsSound
  <1>1. PICK s \in Ids : s = worker[p].sub
    BY DEF FinishDecide, WorkInv
  <1>2. PICK a : a = submission[s].parent
    OBVIOUS
  <1>3. submission[s] \in Submission /\ s \in 1..MaxSubmissions /\ submission[s].status = "running"
    BY <1>1, IdsAre DEF StudyInv, WorkInv, FinishDecide
  <1>4. ProgressItem(s, e, sandbox) \in Item
    <2>1. CASE EarnsMastery(s, e, sandbox)
      <3>1. Root(a) = submission[a] /\ submission[a] \in Submission
        BY <1>2, <2>1, MasteryFollows, IdsAre
      <3> QED BY <1>2, <2>1, <3>1 DEF ProgressItem, Submission
    <2>2. CASE ~EarnsMastery(s, e, sandbox)
      BY <1>3, <2>2 DEF ProgressItem, Submission
    <2> QED BY <2>1, <2>2
  <1>5. PICK item \in Item : item = ProgressItem(s, e, sandbox)
    BY <1>4
  <1>6. PICK row \in Row : row = progress[item]
    BY <1>5 DEF TypeOK
  <1>7. Requested(s, e, sandbox) \in ProgressState
    BY DEF Requested, ProgressState
  <1>8. PICK target \in ProgressState : target = Target(row.status, Requested(s, e, sandbox))
    BY <1>7 DEF Target, ProgressState
  <1>9. PICK w \in WorkerState :
           w = [pc |-> "committing", sub |-> s, evaluation |-> e, sandbox |-> sandbox,
                item |-> item, status |-> target, read |-> row]
    BY <1>3 DEF WorkerState
  <1>10. /\ worker' = [worker EXCEPT ![p] = w] /\ target \in AllowedNext(row.status)
         /\ UNCHANGED <<submission, progress, history>>
    BY <1>1, <1>5, <1>6, <1>8, <1>9 DEF FinishDecide
  <1>11. \A q \in Proc : worker'[q] = IF q = p THEN w ELSE worker[q]
    BY <1>10 DEF TypeOK
  <1>12. Decided(w)
    <2>1. ASSUME target = "mastered", row.status # "mastered" PROVE EarnsMastery(s, e, sandbox)
      BY <1>8, <2>1 DEF Target, Requested
    <2>2. ASSUME EarnsMastery(s, e, sandbox) PROVE item = submission[a].item
      BY <1>2, <1>5, <2>2, MasteryFollows DEF ProgressItem
    <2>3. /\ w.status = target /\ w.read = row /\ w.sub = s /\ w.item = item
          /\ w.evaluation = e /\ w.sandbox = sandbox
      BY <1>9
    <2> QED BY <1>2, <1>10, <2>1, <2>2, <2>3, MasteryFollows DEF Decided
  <1>13. Ids' = Ids
    BY <1>10 DEF Ids
  <1>14. SubmissionsKept
    BY <1>10, <1>13 DEF SubmissionsKept, SameRequest
  <1>15. TypeOK'
    BY <1>10 DEF TypeOK
  <1>16. StudyInv' /\ StepsAreGrounded'
    BY <1>10, <1>13, <1>14, StudyKept
  <1>17. WorkInv'
    BY <1>1, <1>9, <1>10, <1>11, <1>13 DEF WorkInv, FinishDecide
  <1>18. DecisionInv'
    <2> SUFFICES ASSUME NEW q \in Proc, worker'[q].pc = "committing" PROVE Decided(worker[q])'
      BY DEF DecisionInv
    <2>1. Decided(worker'[q])
      BY <1>11, <1>12 DEF DecisionInv
    <2> QED BY <1>10, <2>1 DEF Decided, AllowedNext, Passed, Evaluated, SameStudy
  <1>19. MasteryIsEarned'
    BY <1>10, <1>14, EarnedStays DEF MasteryIsEarned
  <1> QED BY <1>15, <1>16, <1>17, <1>18, <1>19

LEMMA CommitStep ==
    ASSUME StudyIsSound, NEW p \in Proc, FinishCommit(p)
    PROVE  StudyIsSound'
  <1> USE DEF StudyIsSound
  <1>1. PICK w : w = worker[p]
    OBVIOUS
  <1>2. PICK s \in Ids : s = w.sub
    BY <1>1 DEF FinishCommit, WorkInv
  <1>3. submission[s] \in Submission /\ submission[s].status = "running"
    BY <1>1, <1>2, IdsAre DEF WorkInv, FinishCommit
  <1>4. /\ w.pc = "committing" /\ w.evaluation \in Evaluation /\ w.sandbox \in BOOLEAN
        /\ w.item \in Item /\ w.status \in ProgressState /\ w.read \in Row
    BY <1>1, WorkerShape DEF FinishCommit
  <1>5. PICK x \in Submission :
           x = [submission[s] EXCEPT !.status = "succeeded", !.evaluation = w.evaluation,
                                     !.sandbox = w.sandbox]
    BY <1>3, <1>4 DEF Submission
  <1>6. /\ submission' = [submission EXCEPT ![s] = x] /\ worker' = [worker EXCEPT ![p] = Idle]
        /\ progress' = [progress EXCEPT ![w.item] =
              IF Changed(w) THEN Written(w) ELSE progress[w.item]]
        /\ history' = [history EXCEPT ![w.item] =
              IF Changed(w) THEN Append(history[w.item], w.status) ELSE history[w.item]]
    BY <1>1, <1>2, <1>5 DEF FinishCommit
  <1>7. SameRequest(x, submission[s]) /\ x.status = "succeeded"
        /\ x.evaluation = w.evaluation /\ x.sandbox = w.sandbox
    BY <1>3, <1>5 DEF SameRequest, Submission
  <1>8. /\ submission' \in Seq(Submission) /\ Len(submission') = Len(submission) /\ Ids' = Ids
        /\ \A t \in Ids : submission'[t] = IF t = s THEN x ELSE submission[t]
        /\ SubmissionsKept
    BY <1>3, <1>6, <1>7, Updated DEF Evaluated
  <1>9. \A q \in Proc : worker'[q] = IF q = p THEN Idle ELSE worker[q]
    BY <1>6 DEF TypeOK
  <1>10. TypeOK'
    <2>1. Written(w) \in Row
      BY <1>4 DEF Written, Row
    <2>2. progress' \in [Item -> Row]
      BY <1>4, <1>6, <2>1 DEF TypeOK
    <2>3. Append(history[w.item], w.status) \in Seq(ProgressState)
      BY <1>4 DEF TypeOK
    <2>4. history' \in [Item -> Seq(ProgressState)]
      BY <1>4, <1>6, <2>3 DEF TypeOK
    <2>5. worker' \in [Proc -> WorkerState]
      BY <1>6 DEF TypeOK, WorkerState
    <2> QED BY <1>8, <2>2, <2>4, <2>5 DEF TypeOK
  <1>11. StudyInv' /\ StepsAreGrounded'
    BY <1>8, StudyKept
  <1>12. \A q \in Proc : q # p /\ worker[q].pc # "idle" => worker[q].sub # s
    BY <1>1, <1>2, <1>4 DEF WorkInv
  <1>13. WorkInv'
    BY <1>8, <1>9, <1>12 DEF WorkInv, Idle
  <1>14. DecisionInv'
    BY <1>8, <1>9, DecisionsStay DEF Idle
  <1>15. MasteryIsEarned'
    <2> SUFFICES ASSUME NEW i \in Item, progress'[i].status = "mastered" PROVE Earned(i)'
      BY DEF MasteryIsEarned
    <2>1. CASE progress'[i] = progress[i]
      BY <1>8, <2>1, EarnedStays DEF MasteryIsEarned
    <2>2. CASE i = w.item /\ Changed(w)
      <3>1. progress'[i].status = w.status
        BY <1>4, <1>6, <2>2 DEF TypeOK, Written
      <3>2. w.status = "mastered" /\ w.read.status # "mastered"
        BY <2>2, <3>1 DEF Changed
      <3>3. PICK a : a = submission[s].parent
        OBVIOUS
      <3>4. /\ w.evaluation.good /\ w.sandbox /\ submission[s].item.kind = "transfer"
            /\ a \in 1..(s-1) /\ submission[a].purpose = "assessment" /\ Passed(a)
            /\ SameStudy(a, s) /\ i = submission[a].item
        BY <1>1, <1>2, <1>4, <2>2, <3>2, <3>3 DEF DecisionInv, Decided
      <3>5. a \in Ids /\ submission'[a] = submission[a]
        BY <1>8, <3>4, IdsAre DEF SubmissionsKept, Passed
      <3>6. Passed(a)' /\ SameStudy(a, s)'
        BY <1>8, <3>4, <3>5, StudyStays
      <3>7. Passed(s)' /\ submission'[s].sandbox
        BY <1>7, <1>8, <3>4 DEF Passed, Evaluated
      <3>8. submission'[s].item.kind = "transfer" /\ submission'[s].parent = a
        BY <1>7, <1>8, <3>3, <3>4 DEF SameRequest
      <3> QED BY <1>8, <3>4, <3>5, <3>6, <3>7, <3>8 DEF Earned
    <2> QED BY <1>4, <1>6, <2>1, <2>2 DEF TypeOK
  <1> QED BY <1>10, <1>11, <1>13, <1>14, <1>15

LEMMA StudyStep == StudyIsSound /\ [Next]_vars => StudyIsSound'
  <1> SUFFICES ASSUME StudyIsSound, [Next]_vars PROVE StudyIsSound'
    OBVIOUS
  <1>1. CASE UNCHANGED vars
    <2>1. Ids' = Ids /\ SubmissionsKept
      BY <1>1 DEF vars, Ids, SubmissionsKept, SameRequest
    <2> QED BY <1>1, <2>1, StudyKept, DecisionsStay, EarnedStays
         DEF vars, StudyIsSound, TypeOK, WorkInv, MasteryIsEarned
  <1>2. CASE Learn
    BY <1>2, LearnStep DEF Learn
  <1>3. ASSUME NEW p \in Proc, Work(p) PROVE StudyIsSound'
    <2>1. CASE \E s \in Ids : ClaimJob(p, s)
      BY <2>1, ClaimStep
    <2>2. CASE Disrupted(p)
      BY <2>2, FailStep DEF Disrupted
    <2>3. CASE \E e \in Evaluation, sandbox \in BOOLEAN : FinishDecide(p, e, sandbox)
      BY <2>3, DecideStep
    <2>4. CASE \E e \in Evaluation, sandbox \in BOOLEAN : FinishIllegal(p, e, sandbox)
      BY <2>4, FailStep DEF FinishIllegal
    <2>5. CASE FinishCommit(p)
      BY <2>5, CommitStep
    <2>6. CASE FinishConflict(p)
      BY <2>6, FailStep DEF FinishConflict
    <2> QED BY <1>3, <2>1, <2>2, <2>3, <2>4, <2>5, <2>6 DEF Work
  <1> QED BY <1>1, <1>2, <1>3 DEF Next

LEMMA StudyInvariant == Spec => []StudyIsSound
  BY StudyInit, StudyStep, PTL DEF Spec

\* The type invariant of progression.
THEOREM ProgressionTypeCorrect == Spec => []TypeOK
  BY StudyInvariant, PTL DEF StudyIsSound

\* Nobody has mastered an item without passing it and then, in the same
\* session, its lesson's transfer with the tests run in the sandbox.
THEOREM MasteryNeedsATransfer == Spec => []MasteryIsEarned
  BY StudyInvariant, PTL DEF StudyIsSound

\* Through any chain of retries, a transfer rests on a passed item and a
\* practice on a supported diagnosis of its misconception.
THEOREM ChainsAreGrounded == Spec => []StepsAreGrounded
  BY StudyInvariant, PTL DEF StudyIsSound

\* Which step is offered, by what the evaluation says and what the lesson has.
LEMMA OffersFollow ==
    ASSUME TypeOK, StudyInv, NEW s \in Ids, Evaluated(s)
    PROVE  /\ \A step \in NextStep(s) : StepIsAccepted(s, step)
           /\ NextStep(s) = {} =>
                 /\ Passed(s)
                 /\ submission[s].purpose = "transfer"
                       \/ submission[s].item.lesson \notin WithTransfer
  <1> DEFINE e == submission[s].evaluation
             lesson == submission[s].item.lesson
  <1>1. submission[s] \in Submission /\ submission[s].item \in Item /\ e.good \in BOOLEAN
    BY IdsAre DEF Submission, Evaluation
  <1>2. CASE e.good /\ (submission[s].purpose = "transfer" \/ lesson \notin WithTransfer)
    BY <1>2 DEF NextStep, Passed
  <1>3. CASE e.good /\ submission[s].purpose # "transfer" /\ lesson \in WithTransfer
    <2>1. PICK step : step = [purpose |-> "transfer", item |-> TransferItem(lesson)]
      OBVIOUS
    <2>2. NextStep(s) = {step}
      BY <1>3, <2>1 DEF NextStep
    <2>3. TransferItem(lesson) \in Item
      BY <1>3 DEF Item
    <2>4. StepIsAccepted(s, step)
      BY <1>3, <2>1, <2>3 DEF StepIsAccepted, ValidProgression, TransferFollows
    <2> QED BY <2>2, <2>4
  <1>4. CASE ~e.good /\ e.supported /\ HasPractice(lesson, e.misconception)
    <2>1. PICK step : step = [purpose |-> "practice", item |-> PracticeItem(lesson, e.misconception)]
      OBVIOUS
    <2>2. NextStep(s) = {step}
      BY <1>4, <2>1 DEF NextStep
    <2>3. PracticeItem(lesson, e.misconception) \in Item
      BY <1>4 DEF Item, HasPractice
    <2>4. StepIsAccepted(s, step)
      BY <1>4, <2>1, <2>3 DEF StepIsAccepted, ValidProgression, PracticeFollows
    <2> QED BY <2>2, <2>4
  <1>5. CASE ~e.good /\ ~(e.supported /\ HasPractice(lesson, e.misconception))
    <2>1. PICK step : step = [purpose |-> submission[s].purpose, item |-> submission[s].item]
      OBVIOUS
    <2>2. NextStep(s) = {step}
      BY <1>5, <2>1 DEF NextStep
    <2>3. submission[s].item.kind = submission[s].purpose
      BY DEF StudyInv
    <2>4. StepIsAccepted(s, step)
      BY <1>1, <2>1, <2>3 DEF StepIsAccepted, ValidProgression, Retries
    <2> QED BY <2>2, <2>4
  <1> QED BY <1>1, <1>2, <1>3, <1>4, <1>5

\* The step a learner is offered exists and is accepted as it stands, whatever
\* the lessons define; only who has passed all a lesson has is offered none.
THEOREM OffersAreAccepted == Spec => []OfferedStepIsAccepted
  <1>1. StudyIsSound => OfferedStepIsAccepted
    BY OffersFollow DEF StudyIsSound, OfferedStepIsAccepted
  <1> QED BY <1>1, StudyInvariant, PTL

-----------------------------------------------------------------------------
(* Part 2: what holds when one worker finishes at a time. *)

OneWorker == \A p, q \in Proc : p = q

\* A mastered item stays so, and the row a decision was made from is still the
\* row at its commit.
HistoryInv ==
    /\ HistoryMatchesProgress
    /\ \A i \in Item : \A n \in DOMAIN history[i] :
          history[i][n] = "mastered" => progress[i].status = "mastered"
    /\ \A p \in Proc : worker[p].pc = "committing" => worker[p].read = progress[worker[p].item]

LEMMA HistoryInit == Init => HistoryInv
  BY DEF Init, HistoryInv, HistoryMatchesProgress, NoRow, Idle

\* A step that leaves progress alone keeps its history right.
LEMMA HistoryKept ==
    ASSUME HistoryInv, UNCHANGED <<progress, history>>,
           \A p \in Proc : worker'[p].pc = "committing" => worker'[p].read = progress[worker'[p].item]
    PROVE  HistoryInv'
  BY DEF HistoryInv, HistoryMatchesProgress

\* The row a commit writes was decided from the row it replaces.
LEMMA CommitIsCurrent ==
    ASSUME StudyIsSound, HistoryInv, NEW p \in Proc, FinishCommit(p), NEW w, w = worker[p]
    PROVE  /\ w.item \in Item /\ w.status \in ProgressState
           /\ w.read = progress[w.item] /\ w.status \in AllowedNext(w.read.status)
           /\ progress' = [progress EXCEPT ![w.item] =
                 IF Changed(w) THEN Written(w) ELSE progress[w.item]]
           /\ history' = [history EXCEPT ![w.item] =
                 IF Changed(w) THEN Append(history[w.item], w.status) ELSE history[w.item]]
  BY WorkerShape DEF FinishCommit, StudyIsSound, HistoryInv, DecisionInv, Decided

LEMMA HistoryCommit ==
    ASSUME OneWorker, StudyIsSound, HistoryInv, NEW p \in Proc, FinishCommit(p)
    PROVE  HistoryInv'
  <1>1. PICK w : w = worker[p]
    OBVIOUS
  <1>2. /\ w.item \in Item /\ w.status \in ProgressState
        /\ w.read = progress[w.item] /\ w.status \in AllowedNext(w.read.status)
        /\ progress' = [progress EXCEPT ![w.item] =
              IF Changed(w) THEN Written(w) ELSE progress[w.item]]
        /\ history' = [history EXCEPT ![w.item] =
              IF Changed(w) THEN Append(history[w.item], w.status) ELSE history[w.item]]
    BY <1>1, CommitIsCurrent
  <1>3. \A q \in Proc : worker'[q].pc # "committing"
    BY DEF OneWorker, FinishCommit, Idle, StudyIsSound, TypeOK
  <1>4. ASSUME NEW i \in Item
        PROVE  /\ progress'[i].version = Len(history'[i])
               /\ history'[i] # <<>> => history'[i][Len(history'[i])] = progress'[i].status
               /\ \A m, n \in DOMAIN history'[i] :
                     history'[i][m] = "mastered" /\ history'[i][n] = "mastered" => m = n
               /\ \A n \in DOMAIN history'[i] :
                     history'[i][n] = "mastered" => progress'[i].status = "mastered"
    <2>1. CASE i # w.item \/ ~Changed(w)
      <3>1. progress'[i] = progress[i] /\ history'[i] = history[i]
        BY <1>2, <2>1 DEF StudyIsSound, TypeOK
      <3> QED BY <3>1 DEF HistoryInv, HistoryMatchesProgress
    <2>2. CASE i = w.item /\ Changed(w)
      <3>1. PICK h \in Seq(ProgressState) : h = history[i]
        BY DEF StudyIsSound, TypeOK
      <3>2. PICK g : g = Append(h, w.status)
        OBVIOUS
      <3>3. /\ progress'[i].version = progress[i].version + 1 /\ progress'[i].status = w.status
            /\ history'[i] = g
        BY <1>2, <2>2, <3>1, <3>2 DEF StudyIsSound, TypeOK, Written
      <3>4. /\ Len(h) \in Nat /\ Len(g) = Len(h) + 1 /\ DOMAIN g = 1..(Len(h) + 1)
            /\ DOMAIN h = 1..Len(h)
            /\ \A n \in 1..Len(h) : g[n] = h[n]
            /\ g[Len(h) + 1] = w.status
        BY <1>2, <3>1, <3>2, AppendProperties, LenProperties
      <3>5. /\ progress[i].version = Len(h)
            /\ \A m, n \in 1..Len(h) : h[m] = "mastered" /\ h[n] = "mastered" => m = n
            /\ \A n \in 1..Len(h) : h[n] = "mastered" => progress[i].status = "mastered"
        BY <3>1, <3>4 DEF HistoryInv, HistoryMatchesProgress
      <3>6. progress[i].status = "mastered" => w.status = "mastered"
        BY <1>2, <2>2 DEF AllowedNext
      <3>7. progress[i].status # w.status
        BY <1>2, <2>2 DEF Changed
      <3>8. \A n \in 1..Len(h) : h[n] # "mastered"
        BY <3>5, <3>6, <3>7
      <3>9. \A m, n \in 1..(Len(h) + 1) : g[m] = "mastered" /\ g[n] = "mastered" => m = n
        <4>1. \A n \in 1..(Len(h) + 1) : n \in 1..Len(h) \/ n = Len(h) + 1
          BY <3>4
        <4> QED BY <3>4, <3>8, <4>1
      <3>10. \A n \in 1..(Len(h) + 1) : g[n] = "mastered" => w.status = "mastered"
        BY <3>4, <3>8
      <3> QED BY <3>3, <3>4, <3>5, <3>9, <3>10
    <2> QED BY <2>1, <2>2
  <1> QED BY <1>3, <1>4 DEF HistoryInv, HistoryMatchesProgress

LEMMA HistoryStep ==
    ASSUME OneWorker, StudyIsSound, HistoryInv, [Next]_vars
    PROVE  HistoryInv'
  <1>1. CASE UNCHANGED vars
    BY <1>1, HistoryKept DEF vars, HistoryInv
  <1>2. CASE Learn
    BY <1>2, HistoryKept DEF Learn, Submit, HistoryInv
  <1>3. ASSUME NEW p \in Proc, Work(p) PROVE HistoryInv'
    <2>1. ASSUME NEW s \in Ids, ClaimJob(p, s) PROVE HistoryInv'
      BY <2>1, HistoryKept DEF ClaimJob, HistoryInv, StudyIsSound, TypeOK
    <2>2. ASSUME NEW disrupted \in BOOLEAN, FailAttempt(p, disrupted) PROVE HistoryInv'
      BY <2>2, HistoryKept DEF FailAttempt, HistoryInv, Idle, StudyIsSound, TypeOK
    <2>3. ASSUME NEW e \in Evaluation, NEW sandbox \in BOOLEAN, FinishDecide(p, e, sandbox)
          PROVE  HistoryInv'
      BY <2>3, HistoryKept DEF FinishDecide, HistoryInv, StudyIsSound, TypeOK
    <2> QED BY <1>3, <2>1, <2>2, <2>3, HistoryCommit
         DEF Work, Disrupted, FinishIllegal, FinishConflict
  <1> QED BY <1>1, <1>2, <1>3 DEF Next

LEMMA HistoryInvariant ==
    ASSUME OneWorker
    PROVE  Spec => []HistoryInv
  <1>1. HistoryInv /\ StudyIsSound /\ [Next]_vars => HistoryInv'
    BY HistoryStep
  <1> QED BY <1>1, HistoryInit, StudyInvariant, PTL DEF Spec

\* With one worker the history accounts for every progress row: its version
\* counts the recorded changes, the last is its status, mastery is among them
\* once.
THEOREM HistoryIsTrue ==
    ASSUME OneWorker
    PROVE  Spec => []HistoryMatchesProgress
  BY HistoryInvariant, PTL DEF HistoryInv

LEMMA ForwardStep ==
    ASSUME StudyIsSound, HistoryInv, [Next]_vars, NEW i \in Item
    PROVE  \/ progress'[i] = progress[i]
           \/ progress'[i].status \in AllowedNext(progress[i].status)
  <1>1. CASE UNCHANGED progress
    BY <1>1
  <1>2. ASSUME NEW p \in Proc, FinishCommit(p)
        PROVE  \/ progress'[i] = progress[i]
               \/ progress'[i].status \in AllowedNext(progress[i].status)
    <2>1. PICK w : w = worker[p]
      OBVIOUS
    <2>2. /\ w.item \in Item /\ w.read = progress[w.item] /\ w.status \in AllowedNext(w.read.status)
          /\ progress' = [progress EXCEPT ![w.item] =
                IF Changed(w) THEN Written(w) ELSE progress[w.item]]
      BY <1>2, <2>1, CommitIsCurrent
    <2>3. progress'[i] # progress[i] => i = w.item /\ progress'[i] = Written(w)
      BY <2>2 DEF StudyIsSound, TypeOK
    <2> QED BY <2>2, <2>3 DEF Written
  <1>3. ASSUME NEW p \in Proc, Work(p), progress' # progress PROVE FinishCommit(p)
    BY <1>3 DEF Work, ClaimJob, Disrupted, FailAttempt, FinishDecide, FinishIllegal, FinishConflict
  <1>4. CASE Learn
    BY <1>1, <1>4 DEF Learn, Submit
  <1>5. CASE UNCHANGED vars
    BY <1>1, <1>5 DEF vars
  <1> QED BY <1>1, <1>2, <1>3, <1>4, <1>5 DEF Next

\* With one worker a learner who is ready for the transfer, or has mastered the
\* item, never falls back, and mastery is only reached from readiness.
THEOREM ProgressHolds ==
    ASSUME OneWorker
    PROVE  Spec => ProgressNeverRegresses
  <1>1. StudyIsSound /\ HistoryInv /\ [Next]_vars =>
          [\A i \in Item :
             LET before == progress[i].status  after == progress'[i].status IN
             /\ before = "mastered" => after = "mastered"
             /\ before = "transfer_ready" => after \in {"transfer_ready", "mastered"}
             /\ after = "mastered" => before \in {"transfer_ready", "mastered"}]_vars
    BY ForwardStep DEF AllowedNext
  <1> QED BY <1>1, StudyInvariant, HistoryInvariant, PTL DEF Spec, ProgressNeverRegresses

=============================================================================
