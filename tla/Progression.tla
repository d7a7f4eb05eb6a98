----------------------------- MODULE Progression -----------------------------
(***************************************************************************)
(* One learner working through a content package: the progression check of *)
(* assessments/router.py, and the progress and mastery half of finish_job. *)
(*                                                                         *)
(* Jobs follow JobLifecycle: one worker at a time holds a job.  Different  *)
(* workers may finish different submissions of the learner at once;        *)
(* finish_job reads the learner_progress row, decides in Python and writes *)
(* it by primary key at commit, so that each finish is two steps.          *)
(*                                                                         *)
(* An evaluation keeps what the code tests: `good' (correct and sound), a  *)
(* supported diagnosis, and the misconception it names.                    *)
(***************************************************************************)
EXTENDS Naturals, Sequences

CONSTANTS
    Lesson,           \* lessons of the package
    Misconception,    \* misconception ids
    MisconceptionIds, \* MisconceptionIds[l]: those that lesson l lists
    WithPractice,     \* lessons that define what they list, with a practice item for each
    WithTransfer,     \* lessons with a transfer item
    Session,          \* sessions of the learner on the package
    Proc,             \* worker processes
    MaxAttempts,      \* settings.worker_max_attempts
    MaxSubmissions,   \* bound: submissions made in a behaviour
    None              \* no misconception

ASSUME BoundsAssumption == MaxAttempts \in Nat \ {0} /\ MaxSubmissions \in Nat
ASSUME NoneAssumption == None \notin Misconception
\* A lesson may list misconceptions and define none, but not some of them.
ASSUME ContentAssumption ==
    /\ MisconceptionIds \in [Lesson -> SUBSET Misconception]
    /\ WithPractice \subseteq Lesson /\ WithTransfer \subseteq Lesson

VARIABLES
    submission,  \* submissions with their job and evaluation, in acceptance order
    progress,    \* learner_progress: status and version per item
    history,     \* per item, the statuses of its progress events, oldest first
    worker

vars == <<submission, progress, history, worker>>

Purpose == {"assessment", "practice", "transfer"}

LessonItem(l) == [lesson |-> l, kind |-> "assessment", of |-> None]

TransferItem(l) == [lesson |-> l, kind |-> "transfer", of |-> None]

PracticeItem(l, m) == [lesson |-> l, kind |-> "practice", of |-> m]

HasPractice(l, m) == l \in WithPractice /\ m \in MisconceptionIds[l]

\* The items of the package, which require_item finds.
Item == {LessonItem(l) : l \in Lesson} \union {TransferItem(l) : l \in WithTransfer}
          \union UNION {{PracticeItem(l, m) : m \in MisconceptionIds[l]} : l \in WithPractice}

Evaluation == [good : BOOLEAN, supported : BOOLEAN, misconception : Misconception \union {None}]

NotEvaluated == [good |-> FALSE, supported |-> FALSE, misconception |-> None]

ProgressState == {"needs_retry", "practicing", "transfer_ready", "mastered"}

EventType == {"assessment_submitted", "retry_submitted", "intervention_started",
              "transfer_submitted"}

Submission ==
    [session    : Session,
     purpose    : Purpose,
     item       : Item,
     parent     : 0..MaxSubmissions,      \* 0 is no parent
     event      : EventType,              \* the event recorded on acceptance
     status     : {"pending", "running", "succeeded", "failed"},
     attempts   : 0..MaxAttempts,
     evaluation : Evaluation,             \* of a succeeded job
     sandbox    : BOOLEAN,                \* sandbox_passed of that evaluation
     disrupted  : BOOLEAN]                \* an attempt met an infrastructure failure

Row == [status : ProgressState \union {"absent"}, version : Nat]

NoRow == [status |-> "absent", version |-> 0]

Idle == [pc |-> "idle"]

WorkerState ==
    {Idle} \union [pc : {"evaluating"}, sub : 1..MaxSubmissions]
           \union [pc : {"committing"}, sub : 1..MaxSubmissions, evaluation : Evaluation,
                   sandbox : BOOLEAN, item : Item, status : ProgressState, read : Row]

TypeOK ==
    /\ submission \in Seq(Submission)
    /\ progress \in [Item -> Row]
    /\ history \in [Item -> Seq(ProgressState)]
    /\ worker \in [Proc -> WorkerState]

Init ==
    /\ submission = <<>>
    /\ progress = [i \in Item |-> NoRow]
    /\ history = [i \in Item |-> <<>>]
    /\ worker = [p \in Proc |-> Idle]

-----------------------------------------------------------------------------
(* Acceptance: what the router lets a learner submit. *)

Ids == DOMAIN submission

Evaluated(s) == submission[s].status = "succeeded"

\* _validate_progression.
Retries(purpose, item, parent) ==
    submission[parent].purpose = purpose /\ submission[parent].item = item

\* Seeded fault: any practice item of the lesson will do.
PracticeFollowsAny(item, parent) ==
    /\ item.kind = "practice"
    /\ item.lesson = submission[parent].item.lesson

PracticeFollows(item, parent) ==
    LET diagnosed == submission[parent] IN
    /\ diagnosed.evaluation.supported
    /\ HasPractice(diagnosed.item.lesson, diagnosed.evaluation.misconception)
    /\ item = PracticeItem(diagnosed.item.lesson, diagnosed.evaluation.misconception)

TransferFollows(item, parent) ==
    LET passed == submission[parent] IN
    /\ passed.evaluation.good
    /\ passed.item.lesson \in WithTransfer
    /\ item = TransferItem(passed.item.lesson)

\* Seeded fault: another attempt at the same item is not provided for.
ValidProgressionForward(session, purpose, item, parent) ==
    /\ submission[parent].session = session
    /\ Evaluated(parent)
    /\ \/ purpose = "practice" /\ PracticeFollows(item, parent)
       \/ purpose = "transfer" /\ TransferFollows(item, parent)

ValidProgression(session, purpose, item, parent) ==
    /\ submission[parent].session = session
    /\ Evaluated(parent)
    /\ \/ Retries(purpose, item, parent)
       \/ purpose = "practice" /\ PracticeFollows(item, parent)
       \/ purpose = "transfer" /\ TransferFollows(item, parent)

\* get_next_step of an evaluated submission: what it offers.  It offers nothing
\* after a passed transfer, and fails (a server error) after a passed item of a
\* lesson that has no transfer.  A misconception nobody has defined is retried.
NextStep(s) ==
    LET e == submission[s].evaluation
        lesson == submission[s].item.lesson IN
    CASE e.good /\ (submission[s].purpose = "transfer" \/ lesson \notin WithTransfer) -> {}
      [] e.good /\ submission[s].purpose # "transfer" /\ lesson \in WithTransfer ->
            {[purpose |-> "transfer", item |-> TransferItem(lesson)]}
      [] ~e.good /\ e.supported /\ HasPractice(lesson, e.misconception) ->
            {[purpose |-> "practice", item |-> PracticeItem(lesson, e.misconception)]}
      [] OTHER -> {[purpose |-> submission[s].purpose, item |-> submission[s].item]}

\* The event type accept_submission derives from the request.
EventOf(purpose, parent) ==
    CASE purpose = "transfer"                  -> "transfer_submitted"
      [] purpose = "practice"                  -> "intervention_started"
      [] purpose = "assessment" /\ parent # 0  -> "retry_submitted"
      [] OTHER                                 -> "assessment_submitted"

\* An assessment has no parent, the others have one (SubmissionCreate), and
\* an assessment is of a lesson's own item (catalog.get_lesson).  The parent
\* is read before acceptance commits; a succeeded parent does not change.
Submit(session, purpose, item, parent) ==
    /\ Len(submission) < MaxSubmissions
    /\ purpose = "assessment" <=> parent = 0
    /\ purpose = "assessment" => item.kind = "assessment"
    /\ purpose # "assessment" => ValidProgression(session, purpose, item, parent)
    /\ submission' = Append(submission,
          [session |-> session, purpose |-> purpose, item |-> item, parent |-> parent,
           event |-> EventOf(purpose, parent), status |-> "pending", attempts |-> 0,
           evaluation |-> NotEvaluated, sandbox |-> FALSE, disrupted |-> FALSE])
    /\ UNCHANGED <<progress, history, worker>>

-----------------------------------------------------------------------------
(* Evaluation and the progress it leads to. *)

\* Misconceptions the resolved item lists, which _validate_evaluation enforces.
NamedBy(item) ==
    CASE item.kind = "assessment" -> MisconceptionIds[item.lesson]
      [] item.kind = "practice"   -> {item.of}
      [] OTHER                    -> {}

ValidEvaluations(item) ==
    {e \in Evaluation : e.misconception # None => e.supported /\ e.misconception \in NamedBy(item)}

\* Seeded fault: every transition is allowed.
AllowedNextAll(current) == ProgressState

\* next_progress_state; "absent" is a learner without a row.
AllowedNext(current) ==
    CASE current = "transfer_ready" -> {"transfer_ready", "mastered"}
      [] current = "mastered"       -> {"mastered"}
      [] OTHER                      -> {"needs_retry", "practicing", "transfer_ready"}

\* The submission the mastery of a transfer is credited to.
Root(parent) ==
    LET q == submission[parent] IN
    IF q.purpose = "practice" /\ q.parent # 0 THEN submission[q.parent] ELSE q

ValidParentChain(s) ==
    LET t == submission[s]
        q == submission[t.parent]
        root == Root(t.parent) IN
    /\ q.session = t.session
    /\ q.item # t.item
    /\ q.purpose \in {"assessment", "practice"}
    /\ Evaluated(t.parent) /\ q.evaluation.good
    /\ q.purpose = "practice" =>
          /\ root.purpose = "assessment"
          /\ root.session = t.session
          /\ root.item = q.item
          /\ root.status = "succeeded" /\ root.evaluation.good

\* Seeded fault: the sandbox result is not looked at.
EarnsMasteryUntested(s, e, sandbox) ==
    /\ submission[s].purpose = "transfer"
    /\ e.good
    /\ submission[s].parent # 0
    /\ ValidParentChain(s)

EarnsMastery(s, e, sandbox) ==
    /\ submission[s].purpose = "transfer"
    /\ sandbox
    /\ e.good
    /\ submission[s].parent # 0
    /\ ValidParentChain(s)

ProgressItem(s, e, sandbox) ==
    IF EarnsMastery(s, e, sandbox) THEN Root(submission[s].parent).item ELSE submission[s].item

Requested(s, e, sandbox) ==
    CASE EarnsMastery(s, e, sandbox)                                  -> "mastered"
      [] submission[s].purpose = "transfer" /\ ~EarnsMastery(s, e, sandbox) -> "transfer_ready"
      [] submission[s].purpose # "transfer" /\ e.good                 -> "transfer_ready"
      [] submission[s].purpose # "transfer" /\ ~e.good /\ e.supported -> "practicing"
      [] OTHER                                                        -> "needs_retry"

\* Seeded fault: mastery is not kept.
TargetAlways(current, requested) == requested

\* A mastered item stays mastered whatever is requested.
Target(current, requested) == IF current = "mastered" THEN "mastered" ELSE requested

FailedStatus(s) == IF submission[s].attempts < MaxAttempts THEN "pending" ELSE "failed"

\* The attempt raises and run_once calls fail_job.
FailAttempt(p, disrupted) ==
    LET s == worker[p].sub IN
    /\ submission' = [submission EXCEPT ![s].status = FailedStatus(s),
                                        ![s].disrupted = @ \/ disrupted]
    /\ worker' = [worker EXCEPT ![p] = Idle]
    /\ UNCHANGED <<progress, history>>

ClaimJob(p, s) ==
    /\ worker[p].pc = "idle"
    /\ submission[s].status = "pending"
    /\ submission[s].attempts < MaxAttempts
    /\ submission' = [submission EXCEPT ![s].status = "running", ![s].attempts = @ + 1]
    /\ worker' = [worker EXCEPT ![p] = [pc |-> "evaluating", sub |-> s]]
    /\ UNCHANGED <<progress, history>>

\* Sandbox, provider or database failure, an evaluation that _validate_evaluation
\* refuses, or a crash and its expired lease.
Disrupted(p) ==
    /\ worker[p].pc # "idle"
    /\ FailAttempt(p, TRUE)

\* finish_job up to its commit: the evaluation is in hand, the progress row is
\* read and the new status decided.
FinishDecide(p, e, sandbox) ==
    LET s == worker[p].sub
        item == ProgressItem(s, e, sandbox)
        row == progress[item]
        target == Target(row.status, Requested(s, e, sandbox)) IN
    /\ worker[p].pc = "evaluating"
    /\ e \in ValidEvaluations(submission[s].item)
    /\ target \in AllowedNext(row.status)
    /\ worker' = [worker EXCEPT ![p] =
          [pc |-> "committing", sub |-> s, evaluation |-> e, sandbox |-> sandbox,
           item |-> item, status |-> target, read |-> row]]
    /\ UNCHANGED <<submission, progress, history>>

\* next_progress_state raises ValueError; finish_job is rolled back.
FinishIllegal(p, e, sandbox) ==
    LET s == worker[p].sub
        row == progress[ProgressItem(s, e, sandbox)] IN
    /\ worker[p].pc = "evaluating"
    /\ e \in ValidEvaluations(submission[s].item)
    /\ Target(row.status, Requested(s, e, sandbox)) \notin AllowedNext(row.status)
    /\ FailAttempt(p, FALSE)

\* Seeded fault: the version is written as it was read.
WrittenUnversioned(w) == [status |-> w.status, version |-> w.read.version]

\* What the commit makes of the progress row: an insert, an update by primary
\* key with the version computed from the row that was read, or nothing.
Written(w) == [status |-> w.status, version |-> w.read.version + 1]

Changed(w) == w.status # w.read.status

FinishCommit(p) ==
    LET w == worker[p] IN
    /\ w.pc = "committing"
    /\ w.read = NoRow => progress[w.item] = NoRow
    /\ submission' = [submission EXCEPT ![w.sub].status = "succeeded",
                                        ![w.sub].evaluation = w.evaluation,
                                        ![w.sub].sandbox = w.sandbox]
    /\ progress' = [progress EXCEPT ![w.item] = IF Changed(w) THEN Written(w) ELSE @]
    /\ history' = [history EXCEPT ![w.item] = IF Changed(w) THEN Append(@, w.status) ELSE @]
    /\ worker' = [worker EXCEPT ![p] = Idle]

\* Another worker inserted the progress row first: IntegrityError.
FinishConflict(p) ==
    /\ worker[p].pc = "committing"
    /\ worker[p].read = NoRow
    /\ progress[worker[p].item] # NoRow
    /\ FailAttempt(p, FALSE)

Learn == \E session \in Session, purpose \in Purpose, item \in Item, parent \in {0} \union Ids :
            Submit(session, purpose, item, parent)

Work(p) ==
    \/ \E s \in Ids : ClaimJob(p, s)
    \/ Disrupted(p)
    \/ \E e \in Evaluation, sandbox \in BOOLEAN :
          FinishDecide(p, e, sandbox) \/ FinishIllegal(p, e, sandbox)
    \/ FinishCommit(p)
    \/ FinishConflict(p)

Next == Learn \/ \E p \in Proc : Work(p)

Spec == Init /\ [][Next]_vars

-----------------------------------------------------------------------------
(* Properties that hold with any number of workers. *)

Passed(s) == Evaluated(s) /\ submission[s].evaluation.good

SameStudy(s, t) ==
    /\ submission[s].session = submission[t].session
    /\ submission[s].item.lesson = submission[t].item.lesson

Earned(i) ==
    \E a, t \in Ids :
        /\ submission[a].purpose = "assessment" /\ submission[a].item = i /\ Passed(a)
        /\ submission[t].item.kind = "transfer" /\ Passed(t) /\ submission[t].sandbox
        /\ submission[t].parent = a /\ SameStudy(a, t)

\* Mastery is awarded to a lesson's own item, and only to a learner who passed
\* that item and then, in the same session, passed the lesson's transfer item
\* with its tests run in the sandbox (checklist: "Require changed-context
\* transfer, sandbox-owned test success, sound reasoning ... before mastery").
MasteryIsEarned == \A i \in Item : progress[i].status = "mastered" => Earned(i)

\* What POST makes of an offered step: require_item must find the item, and a
\* follow-up must be a valid progression from the submission it follows.
StepIsAccepted(s, step) ==
    /\ step.item \in Item
    /\ \/ step.purpose = "assessment" /\ step.item.kind = "assessment"
       \/ /\ step.purpose # "assessment"
          /\ ValidProgression(submission[s].session, step.purpose, step.item, s)

\* The learner is never sent where the next request is refused: each step
\* GET /next offers is accepted by POST as it stands, through any chain of
\* retries and in lessons without transfer or practice; and only who has passed
\* all the lesson has for him is offered none.
OfferedStepIsAccepted ==
    \A s \in Ids : Evaluated(s) =>
        /\ \A step \in NextStep(s) : StepIsAccepted(s, step)
        /\ NextStep(s) = {} =>
              /\ Passed(s)
              /\ submission[s].purpose = "transfer"
                    \/ submission[s].item.lesson \notin WithTransfer

TransferIsGrounded(t) ==
    \E q \in 1..(t-1) : SameStudy(q, t) /\ submission[q].purpose # "transfer" /\ Passed(q)

PracticeIsDiagnosed(t) ==
    \E q \in 1..(t-1) :
        /\ SameStudy(q, t)
        /\ Evaluated(q)
        /\ submission[q].evaluation.supported
        /\ submission[q].evaluation.misconception = submission[t].item.of

\* However many retries a chain holds, nobody reaches a lesson's transfer item
\* without having passed its assessment or a practice, nor a practice item
\* without a supported diagnosis of its own misconception, in the same session.
StepsAreGrounded ==
    \A t \in Ids :
        /\ submission[t].purpose = "transfer" => TransferIsGrounded(t)
        /\ submission[t].purpose = "practice" => PracticeIsDiagnosed(t)

(* Properties that hold when one worker finishes at a time. *)

\* A learner never falls back from transfer_ready or from mastered, and
\* mastered is only reached from transfer_ready.
ProgressNeverRegresses ==
    [][\A i \in Item :
          LET before == progress[i].status  after == progress'[i].status IN
          /\ before = "mastered" => after = "mastered"
          /\ before = "transfer_ready" => after \in {"transfer_ready", "mastered"}
          /\ after = "mastered" => before \in {"transfer_ready", "mastered"}]_vars

\* The version of a progress row is the number of its recorded changes, the
\* last of them is its status, and MASTERY_AWARDED is among them once: the
\* history accounts for the profile.
HistoryMatchesProgress ==
    \A i \in Item :
        /\ progress[i].version = Len(history[i])
        /\ history[i] # <<>> => history[i][Len(history[i])] = progress[i].status
        /\ \A m, n \in DOMAIN history[i] :
              history[i][m] = "mastered" /\ history[i][n] = "mastered" => m = n

(* What the runbook says and the code does not do. *)

\* "A failed submission can be retried after the infrastructure issue is
\* resolved" (day2-runbook.md:19): jobs fail for infrastructure reasons only.
FailureIsInfrastructure ==
    \A s \in Ids : submission[s].status = "failed" => submission[s].disrupted

=============================================================================
