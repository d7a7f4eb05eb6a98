----------------------- MODULE EvaluationPipelineProofs -----------------------
(***************************************************************************)
(* Proofs about the inside of a worker, for any lease, database and        *)
(* sandbox that keep TimelyAssumption, and any number of evaluations.      *)
(***************************************************************************)
EXTENDS EvaluationPipeline, TLAPS

USE TimelyAssumption

\* What the lease has left while its worker is at work: one call, a renewal
\* interval and a second call after it was last set, and a third when that call
\* or the one that stores the verdict fails.
LeaseInv ==
    row.ours =>
        /\ run.pc = "waiting" =>
              row.lease + RenewalInterval >= Lease - StoreTime + run.left
        /\ run.pc \in {"renewing", "finishing"} =>
              row.lease + RenewalInterval >= Lease - 2 * StoreTime + run.left
        /\ run.pc = "failing" =>
              row.lease + RenewalInterval >= Lease - 3 * StoreTime + run.left

\* An evaluation that has passed the sandbox carries its result, and a verdict
\* agrees with it.
SandboxInv ==
    \A t \in Slot :
        /\ task[t].pc = "sandbox" => settings.sandbox
        /\ task[t].pc \in {"evaluate", "asking", "done"} =>
              IF settings.sandbox
              THEN /\ task[t].code # "loops"
                   /\ task[t].tested = IF task[t].code = "passes" THEN "passed" ELSE "failed"
              ELSE task[t].tested = "untested"
        /\ task[t].pc = "done" =>
              /\ task[t].tested = "passed" => task[t].outcome = "correct"
              /\ task[t].tested = "failed" => task[t].outcome = "incorrect"

PipelineInv == PipelineTypeOK /\ LeaseInv /\ SandboxInv /\ VerdictIsTested

LEMMA IntervalIsNat == RenewalInterval \in Nat /\ 3 * StoreTime + RenewalInterval < Lease
  BY DEF RenewalInterval

LEMMA PipelineStart == PipelineInit => PipelineInv
  <1> SUFFICES ASSUME PipelineInit PROVE PipelineInv
    OBVIOUS
  <1>1. Resting \in Run /\ Free \in Task /\ Resting.pc = "resting" /\ Free.pc = "free"
    BY DEF Resting, Run, Free, Task
  <1>2. PipelineTypeOK
    <2>1. row \in [ours : BOOLEAN, lease : 0..Lease]
      BY DEF PipelineInit
    <2>2. task \in [Slot -> Task] /\ run \in Run
      BY <1>1 DEF PipelineInit
    <2> QED BY <2>1, <2>2 DEF PipelineInit, PipelineTypeOK
  <1>3. SandboxInv
    BY <1>1 DEF PipelineInit, SandboxInv
  <1> QED BY <1>1, <1>2, <1>3 DEF PipelineInit, PipelineInv, LeaseInv, VerdictIsTested

\* What run_once holds, by where it is.
LEMMA RunShape ==
    ASSUME PipelineTypeOK
    PROVE  /\ run.pc \in {"claiming", "failing", "renewing", "finishing"} => run.left \in 0..StoreTime
           /\ run.pc = "waiting" => run.left \in 0..RenewalInterval
           /\ run.pc \in {"waiting", "renewing"} => run.slot \in Slot
           /\ run.pc = "finishing" =>
                 run.code \in Code /\ run.outcome \in Outcome /\ run.passed \in BOOLEAN
           /\ run.pc \in {"resting", "idle", "exiting", "claiming", "failing", "waiting", "renewing",
                          "finishing"}
           /\ row.ours \in BOOLEAN /\ row.lease \in 0..Lease
  BY DEF PipelineTypeOK, Run

LEMMA TaskShape ==
    ASSUME PipelineTypeOK, NEW t \in Slot
    PROVE  /\ task[t].pc \in {"sandbox", "cleanup", "evaluate", "asking", "done"} =>
                 task[t].code \in Code
           /\ task[t].pc \in {"sandbox", "cleanup"} => task[t].cancelled \in BOOLEAN
           /\ task[t].pc = "sandbox" => task[t].left \in 0..SandboxTime
           /\ task[t].pc \in {"evaluate", "asking", "done"} => task[t].tested \in Tested
           /\ task[t].pc = "asking" => task[t].provider \in Provider
           /\ task[t].pc = "done" => task[t].outcome \in Outcome
           /\ task[t].pc \in {"free", "broken", "sandbox", "cleanup", "evaluate", "asking", "done"}
  <1>1. task[t] \in Task
    BY DEF PipelineTypeOK
  <1> QED BY <1>1 DEF Task, Free, Broken

-----------------------------------------------------------------------------
(* Steps of the evaluations. *)

\* Evaluations that keep SandboxInv one by one keep PipelineInv.
TaskOK(state) ==
    /\ state \in Task
    /\ state.pc = "sandbox" => settings.sandbox
    /\ state.pc \in {"evaluate", "asking", "done"} =>
          IF settings.sandbox
          THEN /\ state.code # "loops"
               /\ state.tested = IF state.code = "passes" THEN "passed" ELSE "failed"
          ELSE state.tested = "untested"
    /\ state.pc = "done" =>
          /\ state.tested = "passed" => state.outcome = "correct"
          /\ state.tested = "failed" => state.outcome = "incorrect"

LEMMA TasksAreOK ==
    ASSUME PipelineInv, NEW t \in Slot
    PROVE  TaskOK(task[t])
  BY DEF PipelineInv, PipelineTypeOK, SandboxInv, TaskOK

LEMMA TasksMove ==
    ASSUME PipelineInv, UNCHANGED settings, NEW f \in [Slot -> Task], task' = f,
           \A t \in Slot : TaskOK(f[t])
    PROVE  task' \in [Slot -> Task] /\ SandboxInv'
  BY DEF SandboxInv, TaskOK

LEMMA FreeIsOK == TaskOK(Free) /\ TaskOK(Broken)
  BY DEF TaskOK, Free, Broken, Task

LEMMA OneMoves ==
    ASSUME PipelineInv, NEW t \in Slot, NEW state, TaskOK(state), UNCHANGED <<settings, row, run>>,
           task' = [task EXCEPT ![t] = state], stray' \in BOOLEAN
    PROVE  PipelineInv'
  <1>1. [task EXCEPT ![t] = state] \in [Slot -> Task]
    BY DEF PipelineInv, PipelineTypeOK, TaskOK
  <1>2. PICK f \in [Slot -> Task] : f = [task EXCEPT ![t] = state]
    BY <1>1
  <1>3. \A u \in Slot : TaskOK(f[u])
    BY <1>2, TasksAreOK DEF PipelineInv, PipelineTypeOK
  <1>4. task' \in [Slot -> Task] /\ SandboxInv'
    BY <1>2, <1>3, TasksMove
  <1>5. PipelineTypeOK'
    BY <1>4 DEF PipelineInv, PipelineTypeOK
  <1> QED BY <1>4, <1>5 DEF PipelineInv, LeaseInv, VerdictIsTested

LEMMA EvaluateKeeps ==
    ASSUME PipelineInv, NEW t \in Slot, EvaluateStep(t) \/ SandboxBreaks(t)
    PROVE  PipelineInv'
  <1>s. settings \in Settings /\ stray \in BOOLEAN
    BY DEF PipelineInv, PipelineTypeOK
  <1>t. TaskOK(task[t]) /\ PipelineTypeOK
    BY TasksAreOK DEF PipelineInv
  <1>b. /\ task[t].pc \in {"sandbox", "cleanup", "evaluate", "asking", "done"} => task[t].code \in Code
        /\ task[t].pc \in {"sandbox", "cleanup"} => task[t].cancelled \in BOOLEAN
        /\ task[t].pc \in {"evaluate", "asking", "done"} => task[t].tested \in Tested
    BY <1>t, TaskShape
  <1>m. ASSUME NEW state, TaskOK(state), Becomes(t, state), UNCHANGED <<settings, row, run>>,
               stray' \in BOOLEAN
        PROVE  PipelineInv'
    BY <1>m, OneMoves DEF Becomes
  <1>1. CASE SandboxEnds(t)
    <2>1. PICK state : state = IF task[t].cancelled THEN Free
                  ELSE [pc |-> "evaluate", code |-> task[t].code,
                        tested |-> IF task[t].code = "passes" THEN "passed" ELSE "failed"]
      OBVIOUS
    <2>2. TaskOK(state)
      BY <1>1, <1>t, <1>b, <2>1, FreeIsOK DEF SandboxEnds, TaskOK, Task, Tested
    <2> QED BY <1>1, <1>s, <1>m, <2>1, <2>2 DEF SandboxEnds
  <1>2. CASE SandboxBreaks(t) \/ Dropped(t)
    BY <1>2, <1>s, <1>m, FreeIsOK DEF SandboxBreaks, Dropped
  <1>3. CASE SandboxTimesOut(t)
    <2>1. PICK state : state = [pc |-> "cleanup", code |-> task[t].code, cancelled |-> task[t].cancelled]
      OBVIOUS
    <2>2. TaskOK(state)
      BY <1>3, <1>b, <2>1 DEF SandboxTimesOut, TaskOK, Task
    <2> QED BY <1>3, <1>s, <1>m, <2>1, <2>2 DEF SandboxTimesOut
  <1>4. CASE RemoveContainer(t)
    BY <1>4, <1>s, <1>m, FreeIsOK DEF RemoveContainer
  <1>5. ASSUME task[t].pc \in {"evaluate", "asking"}, NEW said \in Outcome
        PROVE  TaskOK(Answered(t, said))
    <2>1. Judged(task[t].tested, said) \in Outcome
      BY DEF Judged, Outcome
    <2>2. Answered(t, said) \in Task
      BY <1>5, <1>b, <2>1 DEF Answered, Task
    <2> QED BY <1>5, <1>t, <2>2 DEF TaskOK, Answered, Judged
  <1>6. ASSUME task[t].pc \in {"evaluate", "asking"}, NEW provider \in Provider
        PROVE  TaskOK(Asking(t, provider))
    <2>1. Asking(t, provider) \in Task
      BY <1>6, <1>b DEF Asking, Task
    <2> QED BY <1>6, <1>t, <2>1 DEF TaskOK, Asking
  <1>7. CASE Evaluate(t)
    <2>1. ASSUME NEW said \in {"correct", "incorrect"}, Becomes(t, Answered(t, said))
          PROVE  PipelineInv'
      BY <1>7, <1>s, <1>m, <1>5, <2>1 DEF Evaluate, FixtureOutcome, Outcome
    <2>2. ASSUME NEW provider \in Provider, Becomes(t, Asking(t, provider)) PROVE PipelineInv'
      BY <1>7, <1>s, <1>m, <1>6, <2>2 DEF Evaluate
    <2>3. ASSUME Becomes(t, Broken) PROVE PipelineInv'
      BY <1>7, <1>s, <1>m, <2>3, FreeIsOK DEF Evaluate
    <2> QED BY <1>7, <2>1, <2>2, <2>3 DEF Evaluate, FixtureOutcome, Outcome, Provider
  <1>8. CASE ProviderAnswers(t)
    BY <1>8, <1>s, <1>m, <1>5 DEF ProviderAnswers
  <1>9. CASE ProviderFails(t)
    BY <1>9, <1>s, <1>m, <1>6, FreeIsOK DEF ProviderFails, Provider
  <1> QED BY <1>1, <1>2, <1>3, <1>4, <1>7, <1>8, <1>9 DEF EvaluateStep

-----------------------------------------------------------------------------
(* Steps of run_once. *)

\* What a step of run_once, or of the world, may make of the job and of itself.
RunOK(r, w) ==
    /\ w \in Run
    /\ r \in [ours : BOOLEAN, lease : 0..Lease]
    /\ r.ours =>
          /\ w.pc = "waiting" => r.lease + RenewalInterval >= Lease - StoreTime + w.left
          /\ w.pc \in {"renewing", "finishing"} =>
                r.lease + RenewalInterval >= Lease - 2 * StoreTime + w.left
          /\ w.pc = "failing" =>
                r.lease + RenewalInterval >= Lease - 3 * StoreTime + w.left
    /\ w.pc = "finishing" =>
          IF settings.sandbox
          THEN /\ w.code # "loops"
               /\ w.passed <=> w.code = "passes"
               /\ w.outcome = IF w.code = "passes" THEN "correct" ELSE "incorrect"
          ELSE ~w.passed

LEMMA RunIsOK ==
    ASSUME PipelineInv
    PROVE  RunOK(row, run) /\ row \in [ours : BOOLEAN, lease : 0..Lease] /\ PipelineTypeOK
  BY DEF PipelineInv, PipelineTypeOK, LeaseInv, VerdictIsTested, RunOK

LEMMA RunMoves ==
    ASSUME PipelineInv, NEW r, NEW w, RunOK(r, w), row' = r, run' = w, NEW f \in [Slot -> Task],
           task' = f, \A t \in Slot : TaskOK(f[t]), UNCHANGED settings, stray' \in BOOLEAN
    PROVE  PipelineInv'
  <1>1. task' \in [Slot -> Task] /\ SandboxInv'
    BY TasksMove
  <1>2. PipelineTypeOK'
    BY <1>1 DEF PipelineInv, PipelineTypeOK, RunOK
  <1>3. LeaseInv' /\ VerdictIsTested'
    BY DEF RunOK, LeaseInv, VerdictIsTested
  <1> QED BY <1>1, <1>2, <1>3 DEF PipelineInv

LEMMA RunMovesAlone ==
    ASSUME PipelineInv, NEW r, NEW w, RunOK(r, w), row' = r, run' = w,
           UNCHANGED <<settings, task, stray>>
    PROVE  PipelineInv'
  <1>1. PICK f \in [Slot -> Task] : f = task
    BY DEF PipelineInv, PipelineTypeOK
  <1>2. \A t \in Slot : TaskOK(f[t])
    BY <1>1, TasksAreOK
  <1>3. stray' \in BOOLEAN
    BY DEF PipelineInv, PipelineTypeOK
  <1> QED BY <1>1, <1>2, <1>3, RunMoves

\* A task that is set or cancelled beside a step of run_once.
LEMMA RunMovesOne ==
    ASSUME PipelineInv, NEW r, NEW w, RunOK(r, w), row' = r, run' = w, NEW t \in Slot, NEW state,
           TaskOK(state), task' = [task EXCEPT ![t] = state], UNCHANGED <<settings, stray>>
    PROVE  PipelineInv'
  <1>1. PICK f \in [Slot -> Task] : f = [task EXCEPT ![t] = state]
    BY DEF PipelineInv, PipelineTypeOK, TaskOK
  <1>2. \A u \in Slot : TaskOK(f[u])
    BY <1>1, TasksAreOK DEF PipelineInv, PipelineTypeOK
  <1>3. stray' \in BOOLEAN
    BY DEF PipelineInv, PipelineTypeOK
  <1> QED BY <1>1, <1>2, <1>3, RunMoves

LEMMA CancelledIsOK ==
    ASSUME PipelineInv, NEW t \in Slot
    PROVE  TaskOK(CancelledTask(t))
  <1>1. TaskOK(task[t]) /\ task[t] \in Task
    BY TasksAreOK DEF TaskOK
  <1>2. CASE task[t].pc \in {"sandbox", "cleanup"}
    <2>1. [task[t] EXCEPT !.cancelled = TRUE] \in Task
      BY <1>1, <1>2 DEF Task, Free, Broken
    <2>2. [task[t] EXCEPT !.cancelled = TRUE].pc = task[t].pc
      BY <1>1, <1>2 DEF Task, Free, Broken
    <2> QED BY <1>1, <1>2, <2>1, <2>2 DEF CancelledTask, TaskOK
  <1>3. CASE task[t].pc \notin {"sandbox", "cleanup"}
    BY <1>3, FreeIsOK DEF CancelledTask
  <1> QED BY <1>2, <1>3

LEMMA StartIsOK ==
    ASSUME PipelineInv, NEW code \in Code
    PROVE  TaskOK(Start(code))
  <1>1. settings.sandbox \in BOOLEAN
    BY DEF PipelineInv, PipelineTypeOK, Settings
  <1>2. SandboxTime \in 0..SandboxTime
    OBVIOUS
  <1>3. Start(code) \in Task
    BY <1>2 DEF Start, Task, Tested
  <1> QED BY <1>1, <1>3 DEF TaskOK, Start

\* After a call that sets the lease.
LEMMA LeasedIs ==
    ASSUME PipelineTypeOK, run.pc \in {"claiming", "renewing"}
    PROVE  /\ Leased \in [ours : BOOLEAN, lease : 0..Lease] /\ Leased.ours
           /\ Leased.lease >= Lease - StoreTime
  <1>1. run.left \in 0..StoreTime
    BY RunShape
  <1>2. Lease - (StoreTime - run.left) \in 0..Lease
    BY <1>1, IntervalIsNat
  <1> QED BY <1>1, <1>2 DEF Leased

LEMMA RestingIsOK ==
    ASSUME NEW r \in [ours : BOOLEAN, lease : 0..Lease]
    PROVE  RunOK(r, Resting) /\ RunOK(r, [pc |-> "exiting"]) /\ RunOK(r, [pc |-> "idle"])
           /\ RunOK(r, Call("claiming"))
  BY DEF RunOK, Run, Resting, Call

LEMMA FailingIsOK ==
    ASSUME NEW r \in [ours : BOOLEAN, lease : 0..Lease],
           r.ours => r.lease + RenewalInterval >= Lease - 2 * StoreTime
    PROVE  RunOK(r, Call("failing"))
  BY IntervalIsNat DEF RunOK, Run, Call

LEMMA ProcessKeeps ==
    ASSUME PipelineInv, Process
    PROVE  PipelineInv'
  <1>t. PipelineTypeOK /\ RunOK(row, run) /\ row \in [ours : BOOLEAN, lease : 0..Lease]
    BY RunIsOK
  <1>n. RenewalInterval \in Nat /\ 3 * StoreTime + RenewalInterval < Lease /\ StoreTime \in Nat /\ Lease \in Nat
    BY IntervalIsNat
  <1>1. CASE PollJobs \/ NothingToDo \/ Restarts
    BY <1>1, <1>t, RestingIsOK, RunMovesAlone DEF PollJobs, NothingToDo, Restarts
  <1>2. CASE ClaimUnknownItem
    <2>1. RunOK(Leased, Call("failing"))
      BY <1>2, <1>t, <1>n, LeasedIs, FailingIsOK DEF ClaimUnknownItem
    <2> QED BY <1>2, <2>1, RunMovesAlone DEF ClaimUnknownItem
  <1>3. ASSUME NEW t \in Slot, run.pc \in {"claiming", "renewing"}
        PROVE  RunOK(Leased, [pc |-> "waiting", slot |-> t, left |-> RenewalInterval])
    <2>1. [pc |-> "waiting", slot |-> t, left |-> RenewalInterval] \in Run
      BY <1>n DEF Run
    <2> QED BY <1>3, <1>t, <1>n, <2>1, LeasedIs DEF RunOK
  <1>4. ASSUME NEW t \in Slot, NEW code \in Code, ClaimAndStart(t, code) PROVE PipelineInv'
    BY <1>3, <1>4, StartIsOK, RunMovesOne DEF ClaimAndStart
  <1>5. CASE TakeVerdict
    <2>1. PICK t \in Slot : t = run.slot
      BY <1>5, <1>t, RunShape DEF TakeVerdict
    <2>2. /\ run.left \in 0..RenewalInterval /\ TaskOK(task[t]) /\ task[t].pc = "done"
          /\ task[t].code \in Code /\ task[t].tested \in Tested /\ task[t].outcome \in Outcome
      BY <1>5, <1>t, <2>1, RunShape, TaskShape, TasksAreOK DEF TakeVerdict
    <2>3. PICK w : w = [pc |-> "finishing", code |-> task[t].code, outcome |-> task[t].outcome,
                        passed |-> task[t].tested = "passed", left |-> StoreTime]
      OBVIOUS
    <2>4. w \in Run
      BY <1>n, <2>2, <2>3 DEF Run
    <2>5. row.ours => row.lease + RenewalInterval >= Lease - 2 * StoreTime + w.left
      BY <1>5, <1>t, <1>n, <2>2, <2>3 DEF RunOK, TakeVerdict
    <2>6. RunOK(row, w)
      BY <1>t, <2>2, <2>3, <2>4, <2>5 DEF RunOK, TaskOK
    <2> QED BY <1>5, <2>1, <2>3, <2>6, FreeIsOK, RunMovesOne DEF TakeVerdict
  <1>6. CASE TakeFailure
    <2>1. PICK t \in Slot : t = run.slot
      BY <1>6, <1>t, RunShape DEF TakeFailure
    <2>2. RunOK(row, Call("failing"))
      BY <1>6, <1>t, <1>n, RunShape, FailingIsOK DEF TakeFailure, RunOK
    <2> QED BY <1>6, <2>1, <2>2, FreeIsOK, RunMovesOne DEF TakeFailure
  <1>7. CASE StartRenewal
    <2>1. PICK w : w = [pc |-> "renewing", slot |-> run.slot, left |-> StoreTime]
      OBVIOUS
    <2>2. w \in Run
      BY <1>7, <1>t, <1>n, <2>1, RunShape DEF StartRenewal, Run
    <2>3. RunOK(row, w)
      BY <1>7, <1>t, <1>n, <2>1, <2>2 DEF StartRenewal, RunOK
    <2> QED BY <1>7, <2>1, <2>3, RunMovesAlone DEF StartRenewal
  <1>8. CASE Renewed
    BY <1>3, <1>8, <1>t, RunShape, RunMovesAlone DEF Renewed
  <1>9. CASE RenewalRefused
    <2>1. PICK t \in Slot : t = run.slot
      BY <1>9, <1>t, RunShape DEF RenewalRefused
    <2>2. RunOK(row, Call("failing"))
      BY <1>9, <1>t, FailingIsOK DEF RenewalRefused
    <2> QED BY <1>9, <2>1, <2>2, CancelledIsOK, RunMovesOne DEF RenewalRefused
  <1>10. CASE RenewalRaises
    <2>1. RunOK(row, Call("failing"))
      BY <1>10, <1>t, <1>n, RunShape, FailingIsOK DEF RenewalRaises, RunOK
    <2>2. RunOK(Leased, Call("failing"))
      BY <1>10, <1>t, <1>n, LeasedIs, FailingIsOK DEF RenewalRaises
    <2> QED BY <1>10, <2>1, <2>2, RunMovesAlone DEF RenewalRaises
  <1>11. CASE Settle
    <2>1. [row EXCEPT !.ours = FALSE] \in [ours : BOOLEAN, lease : 0..Lease]
      BY <1>t
    <2> QED BY <1>11, <2>1, RestingIsOK, RunMovesAlone DEF Settle
  <1>12. CASE FinishRaises
    <2>1. RunOK(row, Call("failing"))
      BY <1>12, <1>t, <1>n, RunShape, FailingIsOK DEF FinishRaises, RunOK
    <2> QED BY <1>12, <2>1, RunMovesAlone DEF FinishRaises
  <1>13. CASE ProcessFails
    <2>1. PICK f : f = [t \in Slot |-> CancelledTask(t)]
      OBVIOUS
    <2>2. f \in [Slot -> Task] /\ \A t \in Slot : TaskOK(f[t])
      BY <2>1, CancelledIsOK DEF TaskOK
    <2>3. stray' \in BOOLEAN /\ task' = f /\ run' = [pc |-> "exiting"] /\ row' = row
      BY <1>13, <1>t, <2>1 DEF ProcessFails, PipelineTypeOK
    <2>4. UNCHANGED settings
      BY <1>13 DEF ProcessFails
    <2> QED BY <1>t, <2>2, <2>3, <2>4, RestingIsOK, RunMoves
  <1> QED BY <1>1, <1>2, <1>4, <1>5, <1>6, <1>7, <1>8, <1>9, <1>10, <1>11, <1>12, <1>13 DEF Process

-----------------------------------------------------------------------------
(* The world, and the theorems. *)

LEMMA LossKeeps ==
    ASSUME PipelineInv, JobIsLost
    PROVE  PipelineInv'
  <1>1. RunOK(row, run) /\ row \in [ours : BOOLEAN, lease : 0..Lease]
    BY RunIsOK
  <1>2. PICK r : r = [row EXCEPT !.ours = FALSE]
    OBVIOUS
  <1>3. RunOK(r, run)
    BY <1>1, <1>2 DEF RunOK
  <1> QED BY <1>2, <1>3, RunMovesAlone DEF JobIsLost

LEMMA CrashKeeps ==
    ASSUME PipelineInv, WorkerCrashes
    PROVE  PipelineInv'
  <1>1. RunOK(row, Resting)
    BY RunIsOK, RestingIsOK
  <1>2. PICK f : f = [t \in Slot |-> Free]
    OBVIOUS
  <1>3. f \in [Slot -> Task] /\ \A t \in Slot : TaskOK(f[t])
    BY <1>2, FreeIsOK DEF TaskOK
  <1>4. /\ row' = row /\ run' = Resting /\ task' = f /\ UNCHANGED settings
        /\ stray' \in BOOLEAN
    BY <1>2 DEF WorkerCrashes, PipelineInv, PipelineTypeOK
  <1> QED BY <1>1, <1>3, <1>4, RunMoves

LEMMA TickKeeps ==
    ASSUME PipelineInv, Tick
    PROVE  PipelineInv'
  <1>t. PipelineTypeOK /\ RunOK(row, run) /\ row \in [ours : BOOLEAN, lease : 0..Lease]
    BY RunIsOK
  <1>n. RenewalInterval \in Nat /\ 3 * StoreTime + RenewalInterval < Lease /\ StoreTime \in Nat /\ Lease \in Nat
    BY IntervalIsNat
  <1>1. PICK r : r = [row EXCEPT !.lease = IF @ = 0 THEN 0 ELSE @ - 1]
    OBVIOUS
  <1>2. r \in [ours : BOOLEAN, lease : 0..Lease] /\ r.ours = row.ours
        /\ r.lease = IF row.lease = 0 THEN 0 ELSE row.lease - 1
    BY <1>t, <1>1
  <1>3. PICK f : f = [t \in Slot |-> IF task[t].pc = "sandbox"
                                     THEN [task[t] EXCEPT !.left = @ - 1] ELSE task[t]]
    OBVIOUS
  <1>4. ASSUME NEW t \in Slot PROVE TaskOK(f[t])
    <2>1. TaskOK(task[t]) /\ task[t] \in Task
      BY TasksAreOK DEF TaskOK
    <2>2. CASE task[t].pc = "sandbox"
      <3>1. task[t].left \in 0..SandboxTime /\ task[t].left # 0
        BY <1>t, <2>2, TaskShape DEF Tick, TaskIsDue
      <3>2. f[t] \in Task /\ f[t].pc = "sandbox"
        BY <1>3, <2>1, <2>2, <3>1 DEF Task, Free, Broken
      <3> QED BY <2>1, <2>2, <3>2 DEF TaskOK
    <2> QED BY <1>3, <2>1, <2>2
  <1>5. f \in [Slot -> Task]
    BY <1>3, <1>4 DEF TaskOK
  <1>6. row' = r /\ task' = f /\ UNCHANGED settings /\ stray' \in BOOLEAN
    BY <1>1, <1>3, <1>t DEF Tick, PipelineTypeOK
  <1>7. CASE run.pc \in {"resting", "idle", "exiting"}
    <2>1. RunOK(r, [pc |-> "idle"]) /\ run' \in {[pc |-> "idle"], run}
      BY <1>2, <1>7, RestingIsOK DEF Tick
    <2>2. RunOK(r, run)
      BY <1>t, <1>2, <1>7 DEF RunOK
    <2> QED BY <1>4, <1>5, <1>6, <2>1, <2>2, RunMoves
  <1>8. CASE run.pc \notin {"resting", "idle", "exiting"}
    <2>1. PICK w : w = [run EXCEPT !.left = @ - 1]
      OBVIOUS
    <2>2. run' = w
      BY <1>8, <2>1 DEF Tick
    <2>3. run.left # 0 /\ run.left \in Nat /\ run \in Run
      BY <1>t, <1>8, <1>n, RunShape DEF Tick, RunIsDue, PipelineTypeOK
    <2>4. w \in Run /\ w.pc = run.pc /\ w.left = run.left - 1
      BY <1>8, <1>n, <2>1, <2>3 DEF Run
    <2>5. w.pc = "finishing" => w.code = run.code /\ w.outcome = run.outcome /\ w.passed = run.passed
      BY <2>1, <2>3, <2>4 DEF Run
    <2>6. RunOK(r, w)
      BY <1>t, <1>n, <1>2, <2>3, <2>4, <2>5 DEF RunOK
    <2> QED BY <1>4, <1>5, <1>6, <2>2, <2>6, RunMoves
  <1> QED BY <1>7, <1>8

LEMMA PipelineInvariant == PipelineSpec => []PipelineInv
  <1>1. PipelineInv /\ [PipelineNext]_pipelineVars => PipelineInv'
    <2> SUFFICES ASSUME PipelineInv, [PipelineNext]_pipelineVars PROVE PipelineInv'
      OBVIOUS
    <2>1. CASE UNCHANGED pipelineVars
      BY <2>1 DEF pipelineVars, PipelineInv, PipelineTypeOK, LeaseInv, SandboxInv, VerdictIsTested
    <2> QED BY <2>1, ProcessKeeps, EvaluateKeeps, LossKeeps, CrashKeeps, TickKeeps DEF PipelineNext
  <1> QED BY <1>1, PipelineStart, PTL DEF PipelineSpec

\* The type invariant of the worker's inside.
THEOREM PipelineTypeCorrect == PipelineSpec => []PipelineTypeOK
  BY PipelineInvariant, PTL DEF PipelineInv

\* While a worker is at work the lease of its job does not run out, however
\* long the evaluation takes and whichever call fails: what the queue's
\* theorems assume of undisturbed workers.
THEOREM LeasesAreRenewed == PipelineSpec => []LeaseIsLive
  <1>1. PipelineInv => LeaseIsLive
    BY IntervalIsNat, RunShape DEF PipelineInv, LeaseInv, LeaseIsLive
  <1> QED BY <1>1, PipelineInvariant, PTL

\* With the sandbox on a verdict is what the tests say; with it off nothing
\* counts as tested.
THEOREM VerdictsAreTested == PipelineSpec => []VerdictIsTested
  BY PipelineInvariant, PTL DEF PipelineInv

=============================================================================
