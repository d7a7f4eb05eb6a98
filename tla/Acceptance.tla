----------------------------- MODULE Acceptance -----------------------------
(***************************************************************************)
(* Accepting submissions into one session of one learner, while clients    *)
(* repeat their requests, the worker stores evaluations and an operator    *)
(* may delete the learner: accept_submission of the router and of          *)
(* DatabaseStore, the commit of finish_job, and delete_learner.            *)
(*                                                                         *)
(* The database runs READ COMMITTED: every statement sees the rows         *)
(* committed before it.  The unique constraint on idempotency_records      *)
(* makes a second insert of a key wait for the transaction of the first,   *)
(* and then fail; so an insert and its commit are one step.  The deletion  *)
(* is one transaction of several statements, each of which dooms the rows  *)
(* it sees; they go together when it commits, and until then whoever wants *)
(* to write them waits.                                                    *)
(*                                                                         *)
(* A submission is named by the call that created it; its job, idempotency *)
(* record, events and evaluation are rows of that name in their tables.    *)
(***************************************************************************)
EXTENDS Naturals, FiniteSets

CONSTANTS
    Call,      \* POST requests; a client's repetition is a call of its own
    Key,       \* idempotency keys
    Payload,   \* request bodies, as _payload_hash tells them apart
    NoCall

ASSUME NoCallAssumption == NoCall \notin Call

VARIABLES
    session,   \* the session row exists
    row,       \* row[t]: the rows of table t
    call,      \* the calls: what was asked and how far the server is
    deletion   \* the delete_learner transaction

vars == <<session, row, call, deletion>>

\* Learner progress and the second event of finish_job are left out: they are
\* written with the evaluation_event and deleted with it.
Table == {"submission", "job", "idempotency", "acceptance_event",
          "evaluation", "evaluation_event"}

Answer == {"none", "accepted", "conflict", "not_found", "error"}

CallState ==
    [pc      : {"new", "get_session", "owned_session", "lookup", "insert", "reread",
                "replay", "answered"},
     key     : Key,
     payload : Payload,
     found   : Call \union {NoCall},     \* submission_id of the idempotency record
     answer  : Answer]

Deleting == {"evaluation", "job", "idempotency", "events", "submission"}

DeletionState ==
    [pc     : {"idle", "commit", "done"} \union Deleting,
     ids    : SUBSET Call,               \* submission_ids
     doomed : [Table -> SUBSET Call],
     late   : SUBSET Call]               \* history: calls not yet verified at the commit

TypeOK ==
    /\ session \in BOOLEAN
    /\ row \in [Table -> SUBSET Call]
    /\ call \in [Call -> CallState]
    /\ deletion \in DeletionState

NoneDoomed == [t \in Table |-> {}]

NoDeletion == [pc |-> "idle", ids |-> {}, doomed |-> NoneDoomed, late |-> {}]

Init ==
    /\ session = TRUE
    /\ row = [t \in Table |-> {}]
    /\ call \in [Call -> {c \in CallState : c.pc = "new" /\ c.found = NoCall /\ c.answer = "none"}]
    /\ deletion = NoDeletion

-----------------------------------------------------------------------------
(* accept_submission. *)

Advance(c, step) == call' = [call EXCEPT ![c].pc = step]

Reply(c, answer, submission) ==
    call' = [call EXCEPT ![c].pc = "answered", ![c].answer = answer, ![c].found = submission]

Send(c) ==
    /\ call[c].pc = "new"
    /\ Advance(c, "get_session")
    /\ UNCHANGED <<session, row, deletion>>

\* The router's ownership check, in a transaction of its own, and then
\* _accept_submission's.
CheckSession(c) ==
    /\ \/ call[c].pc = "get_session" /\ session /\ Advance(c, "owned_session")
       \/ call[c].pc = "owned_session" /\ session /\ Advance(c, "lookup")
       \/ call[c].pc \in {"get_session", "owned_session"} /\ ~session /\ Reply(c, "not_found", NoCall)
    /\ UNCHANGED <<session, row, deletion>>

\* The committed idempotency records of the key of c.
Recorded(c) == {s \in row["idempotency"] : call[s].key = call[c].key}

SamePayload(c, s) == call[c].payload = call[s].payload

\* Seeded fault: the payload hash is not compared.
FoundAnyPayload(c, s) == call' = [call EXCEPT ![c].pc = "replay", ![c].found = s]

\* A record of the key is found.
Found(c, s) ==
    \/ ~SamePayload(c, s) /\ Reply(c, "conflict", NoCall)
    \/ SamePayload(c, s) /\ call' = [call EXCEPT ![c].pc = "replay", ![c].found = s]

Lookup(c) ==
    /\ call[c].pc = "lookup"
    /\ \/ Recorded(c) = {} /\ Advance(c, "insert")
       \/ \E s \in Recorded(c) : Found(c, s)
    /\ UNCHANGED <<session, row, deletion>>

\* Seeded fault: no unique constraint on idempotency_records.
InsertUnconstrained(c) ==
    /\ call[c].pc = "insert"
    /\ row' = [t \in Table |-> IF t \in {"evaluation", "evaluation_event"}
                               THEN row[t] ELSE row[t] \union {c}]
    /\ Reply(c, "accepted", c)
    /\ UNCHANGED <<session, deletion>>

\* Seeded fault: the answer is sent before the commit, which may fail.
InsertAnswersFirst(c) ==
    /\ call[c].pc = "insert"
    /\ Recorded(c) = {}
    /\ Reply(c, "accepted", c)
    /\ UNCHANGED <<session, row, deletion>>

\* Flush and commit.  The acknowledgement may be lost, to the server or to the
\* client: the submission is accepted and the answer is an error.
Insert(c) ==
    /\ call[c].pc = "insert"
    /\ Recorded(c) = {}
    /\ row' = [t \in Table |-> IF t \in {"evaluation", "evaluation_event"}
                               THEN row[t] ELSE row[t] \union {c}]
    /\ Reply(c, "accepted", c) \/ Reply(c, "error", NoCall)
    /\ UNCHANGED <<session, deletion>>

\* IntegrityError, once no deletion of the record is in the way.
InsertFails(c) ==
    /\ call[c].pc = "insert"
    /\ Recorded(c) \ deletion.doomed["idempotency"] # {}
    /\ Advance(c, "reread")
    /\ UNCHANGED <<session, row, deletion>>

Reread(c) ==
    /\ call[c].pc = "reread"
    /\ \/ Recorded(c) = {} /\ Reply(c, "conflict", NoCall)
       \/ \E s \in Recorded(c) : Found(c, s)
    /\ UNCHANGED <<session, row, deletion>>

\* The submission, its job and its evaluation are read (SubmissionView models
\* what a read beside a finishing worker may see).
Replay(c) ==
    LET s == call[c].found IN
    /\ call[c].pc = "replay"
    /\ IF s \in row["submission"] \intersect row["job"]
       THEN Reply(c, "accepted", s) \/ Reply(c, "error", NoCall)
       ELSE Reply(c, "not_found", NoCall)
    /\ UNCHANGED <<session, row, deletion>>

\* The API or its database is gone before the answer; nothing is committed.
Abort(c) ==
    /\ call[c].pc \in {"get_session", "owned_session", "lookup", "insert", "reread", "replay"}
    /\ Reply(c, "error", NoCall)
    /\ UNCHANGED <<session, row, deletion>>

Accept(c) == Send(c) \/ CheckSession(c) \/ Lookup(c) \/ Insert(c) \/ InsertFails(c)
                \/ Reread(c) \/ Replay(c) \/ Abort(c)

-----------------------------------------------------------------------------
(* The worker and the operator. *)

\* finish_job's commit.  The job row is updated by primary key: it waits for a
\* deletion that has it, and fails when the row is gone.  Events are written
\* for a submission that is there.
FinishJob(s) ==
    /\ s \in row["job"] \ deletion.doomed["job"]
    /\ s \notin row["evaluation"]
    /\ row' = [row EXCEPT !["evaluation"] = @ \union {s},
                          !["evaluation_event"] =
                              IF s \in row["submission"] THEN @ \union {s} ELSE @]
    /\ UNCHANGED <<session, call, deletion>>

\* SELECT submission_id; without submissions the tables keyed by it are skipped.
DeleteSelects ==
    /\ deletion.pc = "idle"
    /\ session
    /\ deletion' = [deletion EXCEPT !.pc = IF row["submission"] = {} THEN "events" ELSE "evaluation",
                                    !.ids = row["submission"]]
    /\ UNCHANGED <<session, row, call>>

Doom(step, doomed, next) ==
    /\ deletion.pc = step
    /\ deletion' = [deletion EXCEPT !.pc = next, !.doomed = doomed]
    /\ UNCHANGED <<session, row, call>>

ById(t) == [deletion.doomed EXCEPT ![t] = row[t] \intersect deletion.ids]

DeleteEvaluations  == Doom("evaluation", ById("evaluation"), "job")
DeleteJobs         == Doom("job", ById("job"), "idempotency")
DeleteIdempotency  == Doom("idempotency", ById("idempotency"), "events")

\* By owner: whatever the learner has now.
DeleteEvents ==
    Doom("events", [deletion.doomed EXCEPT !["acceptance_event"] = row["acceptance_event"],
                                           !["evaluation_event"] = row["evaluation_event"]],
         "submission")

\* Seeded fault: the submissions selected at the start, not those of the owner.
DeleteSelectedSubmissions == Doom("submission", ById("submission"), "commit")

DeleteSubmissions ==
    Doom("submission", [deletion.doomed EXCEPT !["submission"] = row["submission"]], "commit")

Unverified == {c \in Call : call[c].pc \in {"new", "get_session", "owned_session"}}

\* The sessions go with the last statement.
DeleteCommits ==
    /\ deletion.pc = "commit"
    /\ row' = [t \in Table |-> row[t] \ deletion.doomed[t]]
    /\ session' = FALSE
    /\ deletion' = [deletion EXCEPT !.pc = "done", !.doomed = NoneDoomed, !.late = Unverified]
    /\ UNCHANGED call

\* The operator's command dies, or the database rolls it back.
DeleteAborts ==
    /\ deletion.pc \in Deleting \union {"commit"}
    /\ deletion' = NoDeletion
    /\ UNCHANGED <<session, row, call>>

Delete == DeleteSelects \/ DeleteEvaluations \/ DeleteJobs \/ DeleteIdempotency
            \/ DeleteEvents \/ DeleteSubmissions \/ DeleteCommits \/ DeleteAborts

Next == \/ \E c \in Call : Accept(c) \/ FinishJob(c)
        \/ Delete

Spec == Init /\ [][Next]_vars

-----------------------------------------------------------------------------
\* However often and however concurrently a request is repeated, one
\* submission exists for its key (the unique constraint and its recovery).
OneSubmissionPerKey ==
    \A c, d \in row["submission"] : call[c].key = call[d].key => c = d

IsOwn(c, s) == s \in Call /\ call[s].key = call[c].key /\ call[s].payload = call[c].payload

KeyOfAnother(c) ==
    \E d \in Call : call[d].key = call[c].key /\ ~SamePayload(c, d) /\ call[d].pc # "new"

\* A call is told of acceptance only with a submission made from its own key
\* and payload, never with somebody else's; and 409 is for a key that was used
\* with another payload, unless the learner has been deleted meanwhile.
AnswersAreTrue ==
    \A c \in Call :
        /\ call[c].answer = "accepted" => IsOwn(c, call[c].found)
        /\ call[c].answer = "conflict" => deletion.pc = "done" \/ KeyOfAnother(c)

\* A submission that exists can be evaluated, is in the history and cannot be
\* accepted again, whatever statement of a deletion it slipped past.
SubmissionIsWhole ==
    \A s \in row["submission"] :
        s \in row["job"] /\ s \in row["idempotency"] /\ s \in row["acceptance_event"]

\* An accepted submission stays until the operator deletes the learner; and a
\* call whose ownership the store has not yet verified by then is never
\* accepted: no request brings a deleted learner back.
AcceptedIsKept ==
    /\ \A c \in Call : call[c].answer = "accepted" =>
          call[c].found \in row["submission"] \/ deletion.pc = "done"
    /\ \A c \in deletion.late : call[c].answer # "accepted"

\* "retention until explicit deletion" (governance.md:23): explicit deletion
\* leaves nothing of the learner.  It does when the learner is active meanwhile,
\* and so no run checks this.
NothingOutlivesDeletion == deletion.pc = "done" => \A t \in Table : row[t] = {}

=============================================================================
