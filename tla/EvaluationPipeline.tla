-------------------------- MODULE EvaluationPipeline --------------------------
(***************************************************************************)
(* One worker process from the inside: run_once waits for an evaluation    *)
(* and renews the lease meanwhile, _evaluate runs the answer in a Docker   *)
(* container and asks a model provider or the fixture for a verdict.       *)
(*                                                                         *)
(* The evaluation is an asyncio task of its own, and the sandbox a thread  *)
(* of its own with a container that dockerd keeps: each may outlive whoever *)
(* started it.  Durations are timers that count down; all that is not      *)
(* waiting for something takes no time.                                    *)
(***************************************************************************)
EXTENDS Naturals

CONSTANTS
    Slot,        \* bound: evaluations the process has under way at once
    Lease,       \* settings.worker_lease_seconds
    StoreTime,   \* how long the database takes to answer
    SandboxTime  \* settings.sandbox_timeout_seconds + 2

\* Three calls in a row and a renewal interval fit into a lease: by default
\* sixty seconds, with an interval of twenty.
ASSUME TimelyAssumption ==
    /\ Lease \in Nat /\ StoreTime \in Nat /\ SandboxTime \in Nat
    /\ 3 * StoreTime + Lease \div 3 < Lease

VARIABLES
    settings,  \* what the process was configured with
    row,       \* the job in the database: is it running for this process, and its lease's rest
    run,       \* run_once
    task,      \* the evaluations under way
    stray      \* a container runs for ever and nothing will stop it

pipelineVars == <<settings, row, run, task, stray>>

Provider == {"groq", "openrouter"}

\* The keys of a process in fixture mode are not looked at.
Settings ==
    [sandbox : BOOLEAN, mode : {"fixture"}, keys : {{}}] \union
    [sandbox : BOOLEAN, mode : {"provider"}, keys : SUBSET Provider]

Code == {"passes", "fails", "loops"}   \* what the package's tests make of an answer

Outcome == {"correct", "incorrect", "unverified"}

Tested == {"passed", "failed", "untested"}   \* input_data.sandbox_passed

\* Seeded fault: the lease is renewed when it runs out.
RenewalIntervalLate == Lease

\* max(1.0, worker_lease_seconds / 3), of at least five seconds.
RenewalInterval == Lease \div 3

Run ==
    [pc : {"resting", "idle", "exiting"}] \union
    [pc : {"claiming", "failing"}, left : 0..StoreTime] \union
    [pc : {"waiting"}, slot : Slot, left : 0..RenewalInterval] \union
    [pc : {"renewing"}, slot : Slot, left : 0..StoreTime] \union
    [pc : {"finishing"}, code : Code, outcome : Outcome, passed : BOOLEAN, left : 0..StoreTime]

Free == [pc |-> "free"]

Broken == [pc |-> "broken"]   \* it raised an exception

Task ==
    {Free, Broken} \union
    [pc : {"sandbox"}, code : Code, cancelled : BOOLEAN, left : 0..SandboxTime] \union
    [pc : {"cleanup"}, code : Code, cancelled : BOOLEAN] \union
    [pc : {"evaluate"}, code : Code, tested : Tested] \union
    [pc : {"asking"}, code : Code, tested : Tested, provider : Provider] \union
    [pc : {"done"}, code : Code, tested : Tested, outcome : Outcome]

PipelineTypeOK ==
    /\ settings \in Settings
    /\ row \in [ours : BOOLEAN, lease : 0..Lease]
    /\ run \in Run
    /\ task \in [Slot -> Task]
    /\ stray \in BOOLEAN

Resting == [pc |-> "resting"]

PipelineInit ==
    /\ settings \in Settings
    /\ row = [ours |-> FALSE, lease |-> 0]
    /\ run = Resting
    /\ task = [t \in Slot |-> Free]
    /\ stray = FALSE

-----------------------------------------------------------------------------
(* run_once and _evaluate_with_lease. *)

Call(pc) == [pc |-> pc, left |-> StoreTime]

\* The lease is counted from the start of the call that sets it.
Leased == [ours |-> TRUE, lease |-> Lease - (StoreTime - run.left)]

\* _evaluate up to its first await.
Start(code) ==
    IF settings.sandbox
    THEN [pc |-> "sandbox", code |-> code, cancelled |-> FALSE, left |-> SandboxTime]
    ELSE [pc |-> "evaluate", code |-> code, tested |-> "untested"]

\* heartbeat, then claim_job.
PollJobs ==
    /\ run.pc = "idle"
    /\ run' = Call("claiming")
    /\ UNCHANGED <<settings, row, task, stray>>

NothingToDo ==
    /\ run.pc = "claiming"
    /\ run' = Resting
    /\ UNCHANGED <<settings, row, task, stray>>

ClaimAndStart(t, code) ==
    /\ run.pc = "claiming"
    /\ task[t] = Free
    /\ row' = Leased
    /\ task' = [task EXCEPT ![t] = Start(code)]
    /\ run' = [pc |-> "waiting", slot |-> t, left |-> RenewalInterval]
    /\ UNCHANGED <<settings, stray>>

\* catalog.get_item raises.
ClaimUnknownItem ==
    /\ run.pc = "claiming"
    /\ row' = Leased
    /\ run' = Call("failing")
    /\ UNCHANGED <<settings, task, stray>>

Ended(t) == task[t].pc \in {"done", "broken"}

\* The evaluation is there, and validated.
TakeVerdict ==
    LET done == task[run.slot] IN
    /\ run.pc = "waiting"
    /\ done.pc = "done"
    /\ run' = [pc |-> "finishing", code |-> done.code, outcome |-> done.outcome,
               passed |-> done.tested = "passed", left |-> StoreTime]
    /\ task' = [task EXCEPT ![run.slot] = Free]
    /\ UNCHANGED <<settings, row, stray>>

\* It raised, or _validate_evaluation refuses what it cites or names.
TakeFailure ==
    /\ run.pc = "waiting"
    /\ Ended(run.slot)
    /\ run' = Call("failing")
    /\ task' = [task EXCEPT ![run.slot] = Free]
    /\ UNCHANGED <<settings, row, stray>>

\* wait_for times out; the shield keeps the task going.
StartRenewal ==
    /\ run.pc = "waiting"
    /\ run.left = 0
    /\ run' = [pc |-> "renewing", slot |-> run.slot, left |-> StoreTime]
    /\ UNCHANGED <<settings, row, task, stray>>

Renewed ==
    /\ run.pc = "renewing"
    /\ row.ours
    /\ row' = Leased
    /\ run' = [pc |-> "waiting", slot |-> run.slot, left |-> RenewalInterval]
    /\ UNCHANGED <<settings, task, stray>>

\* Cancelling ends a task at its await; a thread goes on to its end.
CancelledTask(t) ==
    IF task[t].pc \in {"sandbox", "cleanup"} THEN [task[t] EXCEPT !.cancelled = TRUE] ELSE Free

RenewalRefused ==
    /\ run.pc = "renewing"
    /\ ~row.ours
    /\ task' = [task EXCEPT ![run.slot] = CancelledTask(run.slot)]
    /\ run' = Call("failing")
    /\ UNCHANGED <<settings, row, stray>>

\* The database fails, before the commit or after: nobody cancels the evaluation.
RenewalRaises ==
    /\ run.pc = "renewing"
    /\ row' \in {row} \union (IF row.ours THEN {Leased} ELSE {})
    /\ run' = Call("failing")
    /\ UNCHANGED <<settings, task, stray>>

\* finish_job or fail_job, whether the job is still this worker's or not.
Settle ==
    /\ run.pc \in {"finishing", "failing"}
    /\ row' = [row EXCEPT !.ours = FALSE]
    /\ run' = Resting
    /\ UNCHANGED <<settings, task, stray>>

FinishRaises ==
    /\ run.pc = "finishing"
    /\ run' = Call("failing")
    /\ UNCHANGED <<settings, row, task, stray>>

\* Nothing catches what these calls raise: asyncio.run cancels the tasks, waits
\* for the threads, and the process ends.
ProcessFails ==
    /\ run.pc \in {"claiming", "failing"}
    /\ run' = [pc |-> "exiting"]
    /\ task' = [t \in Slot |-> CancelledTask(t)]
    /\ UNCHANGED <<settings, row, stray>>

Restarts ==
    /\ run.pc = "exiting"
    /\ \A t \in Slot : task[t] = Free
    /\ run' = Resting
    /\ UNCHANGED <<settings, row, task, stray>>

Process ==
    \/ PollJobs \/ NothingToDo \/ ClaimUnknownItem
    \/ \E t \in Slot, code \in Code : ClaimAndStart(t, code)
    \/ TakeVerdict \/ TakeFailure \/ StartRenewal \/ Renewed \/ RenewalRefused \/ RenewalRaises
    \/ Settle \/ FinishRaises \/ ProcessFails \/ Restarts

-----------------------------------------------------------------------------
(* _evaluate. *)

Becomes(t, state) == task' = [task EXCEPT ![t] = state]

\* The harness prints its result; a cancelled task has nobody to tell.
SandboxEnds(t) ==
    /\ task[t].pc = "sandbox"
    /\ task[t].code # "loops"
    /\ Becomes(t, IF task[t].cancelled THEN Free
                  ELSE [pc |-> "evaluate", code |-> task[t].code,
                        tested |-> IF task[t].code = "passes" THEN "passed" ELSE "failed"])
    /\ UNCHANGED <<settings, row, run, stray>>

\* SandboxUnavailable: no docker, a container that fails, no result to trust.
SandboxBreaks(t) ==
    /\ task[t].pc = "sandbox"
    /\ Becomes(t, IF task[t].cancelled THEN Free ELSE Broken)
    /\ UNCHANGED <<settings, row, run, stray>>

\* Seeded fault: no timeout.
SandboxTimesOutNever(t) == FALSE /\ UNCHANGED pipelineVars

\* subprocess.TimeoutExpired: the docker command is killed, its container not.
SandboxTimesOut(t) ==
    /\ task[t].pc = "sandbox"
    /\ task[t].left = 0
    /\ Becomes(t, [pc |-> "cleanup", code |-> task[t].code, cancelled |-> task[t].cancelled])
    /\ UNCHANGED <<settings, row, run, stray>>

\* docker rm --force; nobody asks whether it worked.
RemoveContainer(t) ==
    /\ task[t].pc = "cleanup"
    /\ Becomes(t, IF task[t].cancelled THEN Free ELSE Broken)
    /\ stray' \in {stray, stray \/ task[t].code = "loops"}
    /\ UNCHANGED <<settings, row, run>>

Asking(t, provider) ==
    [pc |-> "asking", code |-> task[t].code, tested |-> task[t].tested, provider |-> provider]

\* Seeded fault: the model has the last word.
JudgedByModel(tested, said) == said

\* What the sandbox found out overrides the evaluator.
Judged(tested, said) ==
    CASE tested = "passed" -> "correct"
      [] tested = "failed" -> "incorrect"
      [] OTHER             -> said

\* The fixture compares the answer with the expected code; what it says of an
\* answer that was tested is what Judged makes of it.
FixtureOutcome == Outcome \ {"unverified"}

Answered(t, said) ==
    [pc |-> "done", code |-> task[t].code, tested |-> task[t].tested,
     outcome |-> Judged(task[t].tested, said)]

\* The fixture, or the first provider that has a key.
Evaluate(t) ==
    /\ task[t].pc = "evaluate"
    /\ \/ /\ settings.mode = "fixture"
          /\ \E said \in FixtureOutcome : Becomes(t, Answered(t, said))
       \/ /\ settings.mode = "provider"
          /\ settings.keys = {}
          /\ Becomes(t, Broken)
       \/ /\ settings.mode = "provider"
          /\ settings.keys # {}
          /\ Becomes(t, Asking(t, IF "groq" \in settings.keys THEN "groq" ELSE "openrouter"))
    /\ UNCHANGED <<settings, row, run, stray>>

ProviderAnswers(t) ==
    /\ task[t].pc = "asking"
    /\ \E said \in Outcome : Becomes(t, Answered(t, said))
    /\ UNCHANGED <<settings, row, run, stray>>

\* Timeouts, quotas, and answers that are not of the schema: the next provider.
ProviderFails(t) ==
    /\ task[t].pc = "asking"
    /\ Becomes(t, IF task[t].provider = "groq" /\ "openrouter" \in settings.keys
                  THEN Asking(t, "openrouter") ELSE Broken)
    /\ UNCHANGED <<settings, row, run, stray>>

Awaited(t) == run.pc \in {"waiting", "renewing"} /\ run.slot = t

\* An evaluation nobody waits for any more.
Dropped(t) ==
    /\ Ended(t)
    /\ ~Awaited(t)
    /\ Becomes(t, Free)
    /\ UNCHANGED <<settings, row, run, stray>>

EvaluateStep(t) ==
    \/ SandboxEnds(t) \/ SandboxTimesOut(t) \/ RemoveContainer(t)
    \/ Evaluate(t) \/ ProviderAnswers(t) \/ ProviderFails(t) \/ Dropped(t)

-----------------------------------------------------------------------------
(* The world around. *)

\* An operator deletes the learner, or the lease has run out and another
\* worker takes the job.
JobIsLost ==
    /\ row.ours
    /\ row' = [row EXCEPT !.ours = FALSE]
    /\ UNCHANGED <<settings, run, task, stray>>

\* The process is killed, and its threads with it; containers are dockerd's.
WorkerCrashes ==
    /\ run' = Resting
    /\ task' = [t \in Slot |-> Free]
    /\ stray' = (stray \/ \E t \in Slot : /\ task[t].pc \in {"sandbox", "cleanup"}
                                          /\ task[t].code = "loops")
    /\ UNCHANGED <<settings, row>>

\* What must happen before the clock moves on.
RunIsDue ==
    \/ run.pc \in {"claiming", "waiting", "renewing", "finishing", "failing"} /\ run.left = 0
    \/ run.pc = "waiting" /\ Ended(run.slot)

TaskIsDue(t) == task[t].pc = "evaluate" \/ (task[t].pc = "sandbox" /\ task[t].left = 0)

Tick ==
    /\ ~RunIsDue
    /\ \A t \in Slot : ~TaskIsDue(t)
    /\ row' = [row EXCEPT !.lease = IF @ = 0 THEN 0 ELSE @ - 1]
    /\ run' = CASE run.pc = "resting"                                 -> [pc |-> "idle"]
                [] run.pc \in {"idle", "exiting"}                      -> run
                [] run.pc \notin {"resting", "idle", "exiting"} -> [run EXCEPT !.left = @ - 1]
    /\ task' = [t \in Slot |-> IF task[t].pc = "sandbox" THEN [task[t] EXCEPT !.left = @ - 1]
                               ELSE task[t]]
    /\ UNCHANGED <<settings, stray>>

PipelineNext ==
    \/ Process
    \/ \E t \in Slot : EvaluateStep(t) \/ SandboxBreaks(t)
    \/ JobIsLost \/ WorkerCrashes \/ Tick

PipelineSpec == PipelineInit /\ [][PipelineNext]_pipelineVars

\* The event loop runs, docker commands and requests to providers end, and time
\* passes.  An answer that loops ends by no fairness, only by its timeout.
PipelineFairSpec ==
    /\ PipelineSpec
    /\ WF_pipelineVars(Process)
    /\ \A t \in Slot : WF_pipelineVars(EvaluateStep(t))
    /\ WF_pipelineVars(Tick)

-----------------------------------------------------------------------------
\* A worker at work never lets the lease of its job run out, through renewals,
\* evaluations of any length and failing calls: nobody retakes the job of a
\* worker that lives (what Undisturbed assumes of the queue).
LeaseIsLive ==
    row.ours /\ run.pc \in {"waiting", "renewing", "finishing", "failing"} => row.lease > 0

\* With the sandbox on, a verdict is what the tests say of this answer, whatever
\* the evaluator thinks, and an answer that never ends gets none; with it off
\* nothing counts as tested.
VerdictIsTested ==
    run.pc = "finishing" =>
        IF settings.sandbox
        THEN /\ run.code # "loops"
             /\ run.passed <=> run.code = "passes"
             /\ run.outcome = IF run.code = "passes" THEN "correct" ELSE "incorrect"
        ELSE ~run.passed

\* No answer keeps a worker for ever: it comes back to poll, unless the process
\* is killed again and again.
WorkerReturns == []<>(run.pc = "idle") \/ []<><<WorkerCrashes>>_pipelineVars

\* Every evaluation ends, also one that nobody waits for any more.
EvaluationsEnd == \A t \in Slot : task[t] # Free ~> task[t] = Free

\* Containers are ephemeral, with "timeout ... and forced cleanup"
\* (day1-contracts.md:58): none is left to run for ever.  A worker that stops
\* leaves the container of an answer that loops, and so no run checks this.
ContainersAreEphemeral == ~stray

=============================================================================
