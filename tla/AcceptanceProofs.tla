-------------------------- MODULE AcceptanceProofs --------------------------
(***************************************************************************)
(* Proofs about acceptance and deletion, for any number of calls, keys and *)
(* payloads.                                                               *)
(***************************************************************************)
EXTENDS Acceptance, TLAPS

\* The tables that accept_submission fills and delete_learner empties by
\* statements of different selections.
Accepted == {"submission", "job", "idempotency", "acceptance_event"}

\* Until a deletion commits a submission has all its rows or none, and the
\* deletion has selected and doomed nothing else.
TablesInv ==
    deletion.pc # "done" =>
        /\ \A t \in Accepted : row[t] = row["submission"]
        /\ deletion.ids \subseteq row["submission"]
        /\ \A t \in Accepted : deletion.doomed[t] \subseteq row["submission"]

\* At the commit of a deletion no submission loses a row and stays; afterwards
\* each that is there is whole.
DeletionInv ==
    /\ deletion.pc = "commit" =>
          \A t \in Accepted : deletion.doomed[t] \subseteq deletion.doomed["submission"]
    /\ deletion.pc = "done" => SubmissionIsWhole /\ deletion.doomed = NoneDoomed

\* One idempotency record per key.
RecordInv == \A c, d \in row["idempotency"] : call[c].key = call[d].key => c = d

\* Rows belong to calls that were sent.
SentInv == \A t \in Accepted : \A s \in row[t] : call[s].pc # "new"

\* How far a call is and what it knows: one that lost the race for its key
\* finds the winner unless the learner is deleted.
CallInv ==
    \A c \in Call :
        /\ call[c].pc # "answered" => call[c].answer = "none"
        /\ call[c].pc = "replay" => IsOwn(c, call[c].found)
        /\ call[c].pc = "reread" => Recorded(c) # {} \/ deletion.pc = "done"

\* The calls not yet verified when the deletion committed.
LateInv ==
    /\ deletion.pc = "done" => ~session
    /\ deletion.pc # "done" => deletion.late = {}
    /\ \A c \in deletion.late :
          call[c].pc \in {"new", "get_session", "owned_session", "answered"}

AcceptanceInv ==
    /\ TypeOK /\ TablesInv /\ DeletionInv /\ RecordInv /\ SentInv /\ CallInv /\ LateInv
    /\ AnswersAreTrue /\ AcceptedIsKept

USE NoCallAssumption

LEMMA AcceptanceInit == Init => AcceptanceInv
  BY DEF Init, AcceptanceInv, TypeOK, TablesInv, DeletionInv, RecordInv, SentInv, CallInv, LateInv,
         AnswersAreTrue, AcceptedIsKept, CallState, DeletionState, NoDeletion, NoneDoomed, Table,
         Accepted, Deleting, Answer

-----------------------------------------------------------------------------
(* Calls. *)

Steps == {"get_session", "owned_session", "lookup", "insert", "reread", "replay"}

\* What the states a call moves to must satisfy for the invariant to go on.
Sound(c, x) ==
    /\ x \in CallState
    /\ x.key = call[c].key /\ x.payload = call[c].payload
    /\ x.pc # "new"
    /\ x.pc # "answered" => x.answer = "none"
    /\ x.pc = "replay" => IsOwn(c, x.found)
    /\ x.pc = "reread" => Recorded(c) # {} \/ deletion.pc = "done"
    /\ x.answer = "accepted" => IsOwn(c, x.found)
    /\ x.answer = "accepted" => x.found \in row["submission"] \/ deletion.pc = "done"
    /\ x.answer = "conflict" => deletion.pc = "done" \/ KeyOfAnother(c)
    /\ c \in deletion.late =>
          x.answer # "accepted" /\ x.pc \in {"new", "get_session", "owned_session", "answered"}

\* Keys and payloads are for ever, and no call is unsent again.
LEMMA CallKeeps ==
    ASSUME TypeOK, NEW c \in Call, NEW x, Sound(c, x), call' = [call EXCEPT ![c] = x]
    PROVE  /\ call' \in [Call -> CallState]
           /\ call'[c] = x
           /\ \A d \in Call : d # c => call'[d] = call[d]
           /\ \A d \in Call : /\ call'[d].key = call[d].key
                              /\ call'[d].payload = call[d].payload
                              /\ call'[d].pc = "new" => call[d].pc = "new"
  BY DEF TypeOK, Sound

\* A call that moves to a sound state and writes nothing keeps the invariant.
LEMMA CallMoves ==
    ASSUME AcceptanceInv, NEW c \in Call, NEW x, Sound(c, x),
           call' = [call EXCEPT ![c] = x], UNCHANGED <<session, row, deletion>>
    PROVE  AcceptanceInv'
  <1> USE DEF AcceptanceInv
  <1>1. TypeOK'
    BY CallKeeps DEF TypeOK
  <1>2. \A d \in Call : Recorded(d)' = Recorded(d)
    BY CallKeeps DEF Recorded, TypeOK, Table
  <1>3. \A d \in Call : \A s : IsOwn(d, s)' <=> IsOwn(d, s)
    BY CallKeeps DEF IsOwn
  <1>4. \A d \in Call : KeyOfAnother(d) => KeyOfAnother(d)'
    BY CallKeeps DEF KeyOfAnother, SamePayload
  <1>5. TablesInv' /\ DeletionInv'
    BY DEF TablesInv, DeletionInv, SubmissionIsWhole
  <1>6. RecordInv'
    <2>1. row["idempotency"] \subseteq Call /\ row' = row
      BY DEF TypeOK, Table
    <2> QED BY <2>1, CallKeeps DEF RecordInv
  <1>7. SentInv'
    BY CallKeeps DEF SentInv, TypeOK, Table, Accepted
  <1>8. CallInv'
    BY CallKeeps, <1>2, <1>3 DEF CallInv, Sound
  <1>9. LateInv'
    BY CallKeeps DEF LateInv, Sound, TypeOK, DeletionState
  <1>10. AnswersAreTrue'
    BY CallKeeps, <1>3, <1>4 DEF AnswersAreTrue, Sound
  <1>11. AcceptedIsKept'
    BY CallKeeps DEF AcceptedIsKept, Sound, TypeOK, DeletionState
  <1> QED BY <1>1, <1>5, <1>6, <1>7, <1>8, <1>9, <1>10, <1>11

LEMMA AdvanceSound ==
    ASSUME AcceptanceInv, NEW c \in Call, NEW step \in Steps \ {"replay"}, Advance(c, step),
           call[c].pc # "answered", c \notin deletion.late \/ step \in {"get_session", "owned_session"},
           step = "reread" => Recorded(c) # {}
    PROVE  \E x : Sound(c, x) /\ call' = [call EXCEPT ![c] = x]
  <1> DEFINE x == [call[c] EXCEPT !.pc = step]
  <1>1. call' = [call EXCEPT ![c] = x]
    BY DEF Advance
  <1>2. call[c] \in CallState /\ call[c].answer = "none"
    BY DEF AcceptanceInv, TypeOK, CallInv
  <1>3. Sound(c, x)
    BY <1>2 DEF Sound, CallState, Steps
  <1> QED BY <1>1, <1>3

LEMMA ReplySound ==
    ASSUME AcceptanceInv, NEW c \in Call, NEW answer \in {"accepted", "conflict", "not_found", "error"},
           NEW s \in Call \union {NoCall}, Reply(c, answer, s),
           answer = "accepted" => /\ c \notin deletion.late
                                  /\ IsOwn(c, s)
                                  /\ s \in row["submission"],
           answer = "conflict" => deletion.pc = "done" \/ KeyOfAnother(c)
    PROVE  \E x : Sound(c, x) /\ call' = [call EXCEPT ![c] = x]
  <1> DEFINE x == [call[c] EXCEPT !.pc = "answered", !.answer = answer, !.found = s]
  <1>1. call' = [call EXCEPT ![c] = x]
    BY DEF Reply
  <1>2. call[c] \in CallState
    BY DEF AcceptanceInv, TypeOK
  <1>3. Sound(c, x)
    BY <1>2 DEF Sound, CallState, Answer
  <1> QED BY <1>1, <1>3

\* The record that is found decides: a changed payload is a conflict with a call
\* that was sent, the same payload is replayed as one's own.
LEMMA FoundSound ==
    ASSUME AcceptanceInv, NEW c \in Call, NEW s \in Recorded(c), Found(c, s),
           call[c].pc \in {"lookup", "reread"}
    PROVE  \E x : Sound(c, x) /\ call' = [call EXCEPT ![c] = x]
  <1>1. s \in Call /\ s \in row["idempotency"] /\ call[s].key = call[c].key
    BY DEF Recorded, AcceptanceInv, TypeOK, Table
  <1>2. CASE ~SamePayload(c, s) /\ Reply(c, "conflict", NoCall)
    <2>1. KeyOfAnother(c)
      BY <1>1, <1>2 DEF AcceptanceInv, SentInv, Accepted, KeyOfAnother
    <2> QED BY <1>2, <2>1, ReplySound
  <1>3. CASE SamePayload(c, s) /\ call' = [call EXCEPT ![c].pc = "replay", ![c].found = s]
    <2> DEFINE x == [call[c] EXCEPT !.pc = "replay", !.found = s]
    <2>1. call' = [call EXCEPT ![c] = x]
      BY <1>3
    <2>2. call[c] \in CallState /\ call[c].answer = "none" /\ c \notin deletion.late
      BY DEF AcceptanceInv, TypeOK, CallInv, LateInv
    <2>3. Sound(c, x)
      BY <1>1, <1>3, <2>2 DEF Sound, CallState, IsOwn, SamePayload
    <2> QED BY <2>1, <2>3
  <1> QED BY <1>2, <1>3 DEF Found

LEMMA CallSteps ==
    ASSUME AcceptanceInv, NEW c \in Call,
           Send(c) \/ CheckSession(c) \/ Lookup(c) \/ InsertFails(c) \/ Reread(c) \/ Replay(c) \/ Abort(c)
    PROVE  AcceptanceInv'
  <1>1. UNCHANGED <<session, row, deletion>>
    BY DEF Send, CheckSession, Lookup, InsertFails, Reread, Replay, Abort
  <1>2. c \in deletion.late =>
            call[c].pc \in {"new", "get_session", "owned_session", "answered"} /\ ~session
    BY DEF AcceptanceInv, LateInv
  <1>3. \E x : Sound(c, x) /\ call' = [call EXCEPT ![c] = x]
    <2>1. CASE Send(c)
      BY <2>1, AdvanceSound DEF Send, Steps
    <2>2. CASE CheckSession(c)
      <3>1. CASE call[c].pc = "get_session" /\ session /\ Advance(c, "owned_session")
        BY <3>1, AdvanceSound DEF Steps
      <3>2. CASE call[c].pc = "owned_session" /\ session /\ Advance(c, "lookup")
        BY <1>2, <3>2, AdvanceSound DEF Steps
      <3>3. CASE Reply(c, "not_found", NoCall)
        BY <3>3, ReplySound
      <3> QED BY <2>2, <3>1, <3>2, <3>3 DEF CheckSession
    <2>3. CASE Lookup(c)
      <3>1. CASE Advance(c, "insert")
        BY <1>2, <2>3, <3>1, AdvanceSound DEF Lookup, Steps
      <3>2. CASE \E s \in Recorded(c) : Found(c, s)
        BY <2>3, <3>2, FoundSound DEF Lookup
      <3> QED BY <2>3, <3>1, <3>2 DEF Lookup
    <2>4. CASE InsertFails(c)
      BY <1>2, <2>4, AdvanceSound DEF InsertFails, Steps
    <2>5. CASE Reread(c)
      <3>1. CASE Recorded(c) = {} /\ Reply(c, "conflict", NoCall)
        <4>1. deletion.pc = "done"
          BY <2>5, <3>1 DEF Reread, AcceptanceInv, CallInv
        <4> QED BY <3>1, <4>1, ReplySound
      <3>2. CASE \E s \in Recorded(c) : Found(c, s)
        BY <2>5, <3>2, FoundSound DEF Reread
      <3> QED BY <2>5, <3>1, <3>2 DEF Reread
    <2>6. CASE Replay(c)
      <3>1. call[c].found \in Call \union {NoCall} /\ IsOwn(c, call[c].found) /\ c \notin deletion.late
        BY <1>2, <2>6 DEF Replay, AcceptanceInv, TypeOK, CallState, CallInv
      <3>2. CASE call[c].found \in row["submission"] /\ Reply(c, "accepted", call[c].found)
        BY <3>1, <3>2, ReplySound
      <3>3. CASE Reply(c, "error", NoCall) \/ Reply(c, "not_found", NoCall)
        BY <3>3, ReplySound
      <3> QED BY <2>6, <3>2, <3>3 DEF Replay
    <2>7. CASE Abort(c)
      BY <2>7, ReplySound DEF Abort
    <2> QED BY <2>1, <2>2, <2>3, <2>4, <2>5, <2>6, <2>7
  <1>4. PICK x : Sound(c, x) /\ call' = [call EXCEPT ![c] = x]
    BY <1>3
  <1> QED BY <1>1, <1>4, CallMoves

LEMMA InsertStep ==
    ASSUME AcceptanceInv, NEW c \in Call, Insert(c)
    PROVE  AcceptanceInv'
  <1> DEFINE x == call'[c]
  <1> USE DEF AcceptanceInv
  <1>1. /\ row' \in [Table -> SUBSET Call]
        /\ \A t \in Accepted : row'[t] = row[t] \union {c}
        /\ session' = session /\ deletion' = deletion
    BY DEF Insert, TypeOK, Table, Accepted
  <1>2. /\ call' \in [Call -> CallState]
        /\ \A d \in Call : d # c => call'[d] = call[d]
        /\ \A d \in Call : call'[d].key = call[d].key /\ call'[d].payload = call[d].payload
        /\ \A d \in Call : call'[d].pc = "new" => call[d].pc = "new"
        /\ x.pc = "answered"
        /\ (x.answer = "accepted" /\ x.found = c) \/ x.answer = "error"
    BY DEF Insert, Reply, TypeOK, CallState, Answer
  <1>3. c \notin row["idempotency"] /\ \A s \in row["idempotency"] : call[s].key # call[c].key
    BY DEF Insert, Recorded
  <1>4. c \notin deletion.late
    BY DEF Insert, LateInv
  <1>5. "submission" \in Accepted /\ "idempotency" \in Accepted /\ Accepted \subseteq Table
    BY DEF Accepted, Table
  <1>6. TypeOK'
    BY <1>1, <1>2 DEF TypeOK
  <1>7. TablesInv'
    BY <1>1, <1>5 DEF TablesInv
  <1>8. DeletionInv'
    BY <1>1, <1>5 DEF DeletionInv, SubmissionIsWhole, Accepted
  <1>9. RecordInv'
    BY <1>1, <1>2, <1>3, <1>5, <1>6 DEF RecordInv, TypeOK
  <1>10. SentInv'
    BY <1>1, <1>2, <1>5 DEF SentInv, TypeOK
  <1>11. CallInv'
    <2>1. \A d \in Call : Recorded(d) \subseteq Recorded(d)'
      BY <1>1, <1>2, <1>5, <1>6 DEF Recorded, TypeOK
    <2>2. \A d \in Call : IsOwn(d, call[d].found) /\ d # c => IsOwn(d, call[d].found)'
      BY <1>2 DEF IsOwn
    <2> QED BY <1>1, <1>2, <2>1, <2>2 DEF CallInv
  <1>12. LateInv'
    BY <1>1, <1>2 DEF LateInv, TypeOK, DeletionState
  <1>13. AnswersAreTrue'
    BY <1>1, <1>2 DEF AnswersAreTrue, IsOwn, KeyOfAnother, SamePayload
  <1>14. AcceptedIsKept'
    BY <1>1, <1>2, <1>4, <1>5 DEF AcceptedIsKept, TypeOK, DeletionState
  <1> QED BY <1>6, <1>7, <1>8, <1>9, <1>10, <1>11, <1>12, <1>13, <1>14

-----------------------------------------------------------------------------
(* The worker and the operator. *)

LEMMA FinishStep ==
    ASSUME AcceptanceInv, NEW s \in Call, FinishJob(s)
    PROVE  AcceptanceInv'
  <1> USE DEF AcceptanceInv
  <1>1. /\ row' \in [Table -> SUBSET Call]
        /\ \A t \in Accepted : row'[t] = row[t]
        /\ UNCHANGED <<session, call, deletion>>
    BY DEF FinishJob, TypeOK, Table, Accepted
  <1>2. "submission" \in Accepted /\ "idempotency" \in Accepted
    BY DEF Accepted
  <1>3. TypeOK' /\ TablesInv' /\ RecordInv' /\ SentInv' /\ LateInv'
    BY <1>1, <1>2 DEF TypeOK, TablesInv, RecordInv, SentInv, LateInv
  <1>4. DeletionInv'
    BY <1>1, <1>2 DEF DeletionInv, SubmissionIsWhole, Accepted
  <1>5. CallInv'
    BY <1>1, <1>2 DEF CallInv, IsOwn, Recorded
  <1>6. AnswersAreTrue' /\ AcceptedIsKept'
    BY <1>1, <1>2 DEF AnswersAreTrue, AcceptedIsKept, IsOwn, KeyOfAnother, SamePayload
  <1> QED BY <1>3, <1>4, <1>5, <1>6

\* A statement of the deletion before its commit writes nothing yet: what it
\* dooms and selects must be rows of submissions.
LEMMA DeletionMoves ==
    ASSUME AcceptanceInv, UNCHANGED <<session, row, call>>, deletion.pc # "done",
           deletion' \in DeletionState, deletion'.pc # "done", deletion'.late = {},
           deletion'.ids \subseteq row["submission"],
           \A t \in Accepted : deletion'.doomed[t] \subseteq row["submission"],
           deletion'.pc = "commit" => deletion'.doomed["submission"] = row["submission"]
    PROVE  AcceptanceInv'
  <1> USE DEF AcceptanceInv
  <1>1. session' = session /\ row' = row /\ call' = call
    OBVIOUS
  <1>2. TypeOK' /\ TablesInv' /\ DeletionInv' /\ RecordInv' /\ SentInv' /\ LateInv'
    BY <1>1 DEF TypeOK, TablesInv, DeletionInv, RecordInv, SentInv, LateInv
  <1>3. CallInv'
    BY <1>1 DEF CallInv, IsOwn, Recorded
  <1>4. AnswersAreTrue' /\ AcceptedIsKept'
    BY <1>1 DEF AnswersAreTrue, AcceptedIsKept, IsOwn, KeyOfAnother, SamePayload
  <1> QED BY <1>2, <1>3, <1>4

LEMMA DeleteStatements ==
    ASSUME AcceptanceInv,
           \/ DeleteSelects \/ DeleteEvaluations \/ DeleteJobs \/ DeleteIdempotency
           \/ DeleteEvents \/ DeleteSubmissions \/ DeleteAborts
    PROVE  AcceptanceInv'
  <1>1. /\ UNCHANGED <<session, row, call>>
        /\ deletion.pc # "done"
    BY DEF DeleteSelects, DeleteEvaluations, DeleteJobs, DeleteIdempotency, DeleteEvents,
           DeleteSubmissions, DeleteAborts, Doom, Deleting
  <1>2. /\ deletion \in DeletionState /\ row \in [Table -> SUBSET Call]
        /\ deletion.ids \subseteq row["submission"]
        /\ \A t \in Accepted : row[t] = row["submission"]
        /\ \A t \in Accepted : deletion.doomed[t] \subseteq row["submission"]
        /\ deletion.late = {}
    BY <1>1 DEF AcceptanceInv, TypeOK, TablesInv, LateInv
  <1>3. CASE DeleteSelects
    BY <1>1, <1>2, <1>3, DeletionMoves DEF DeleteSelects, DeletionState, Deleting, Table
  <1>4. CASE DeleteEvaluations
    BY <1>1, <1>2, <1>4, DeletionMoves
       DEF DeleteEvaluations, Doom, ById, DeletionState, Deleting, Table, Accepted
  <1>5. CASE DeleteJobs
    BY <1>1, <1>2, <1>5, DeletionMoves
       DEF DeleteJobs, Doom, ById, DeletionState, Deleting, Table, Accepted
  <1>6. CASE DeleteIdempotency
    BY <1>1, <1>2, <1>6, DeletionMoves
       DEF DeleteIdempotency, Doom, ById, DeletionState, Deleting, Table, Accepted
  <1>7. CASE DeleteEvents
    BY <1>1, <1>2, <1>7, DeletionMoves
       DEF DeleteEvents, Doom, DeletionState, Deleting, Table, Accepted
  <1>8. CASE DeleteSubmissions
    BY <1>1, <1>2, <1>8, DeletionMoves
       DEF DeleteSubmissions, Doom, DeletionState, Deleting, Table, Accepted
  <1>9. CASE DeleteAborts
    BY <1>1, <1>2, <1>9, DeletionMoves
       DEF DeleteAborts, NoDeletion, NoneDoomed, DeletionState, Deleting, Table, Accepted
  <1> QED BY <1>3, <1>4, <1>5, <1>6, <1>7, <1>8, <1>9

LEMMA CommitStep ==
    ASSUME AcceptanceInv, DeleteCommits
    PROVE  AcceptanceInv'
  <1> USE DEF AcceptanceInv
  <1>1. /\ deletion.pc = "commit"
        /\ row' = [t \in Table |-> row[t] \ deletion.doomed[t]]
        /\ row' \in [Table -> SUBSET Call]
        /\ session' = FALSE
        /\ call' = call
    BY DEF DeleteCommits, TypeOK
  <1>2. /\ deletion' \in DeletionState
        /\ deletion'.pc = "done"
        /\ deletion'.doomed = NoneDoomed
        /\ deletion'.late = Unverified
    BY DEF DeleteCommits, TypeOK, DeletionState, NoneDoomed, Unverified
  <1>3. \A t \in Accepted : row'[t] = row[t] \ deletion.doomed[t]
    BY <1>1 DEF Accepted, Table
  <1>4. TypeOK' /\ TablesInv'
    BY <1>1, <1>2 DEF TypeOK, TablesInv
  <1>5. DeletionInv'
    <2>1. \A t \in Accepted : row'["submission"] \subseteq row'[t]
      BY <1>1, <1>3 DEF DeletionInv, TablesInv, Accepted
    <2>2. SubmissionIsWhole'
      BY <2>1 DEF SubmissionIsWhole, Accepted
    <2> QED BY <1>2, <2>2 DEF DeletionInv, NoneDoomed
  <1>6. RecordInv' /\ SentInv'
    BY <1>1, <1>3 DEF RecordInv, SentInv, Accepted
  <1>7. CallInv'
    BY <1>1, <1>2 DEF CallInv, IsOwn
  <1>8. LateInv'
    BY <1>1, <1>2 DEF LateInv, Unverified
  <1>9. AnswersAreTrue'
    BY <1>1, <1>2 DEF AnswersAreTrue, IsOwn, KeyOfAnother, SamePayload
  <1>10. AcceptedIsKept'
    BY <1>1, <1>2 DEF AcceptedIsKept, CallInv, Unverified
  <1> QED BY <1>4, <1>5, <1>6, <1>7, <1>8, <1>9, <1>10

LEMMA AcceptanceStep == AcceptanceInv /\ [Next]_vars => AcceptanceInv'
  <1> SUFFICES ASSUME AcceptanceInv, [Next]_vars PROVE AcceptanceInv'
    OBVIOUS
  <1>1. ASSUME NEW c \in Call, Accept(c) PROVE AcceptanceInv'
    BY <1>1, CallSteps, InsertStep DEF Accept
  <1>2. ASSUME NEW c \in Call, FinishJob(c) PROVE AcceptanceInv'
    BY <1>2, FinishStep
  <1>3. ASSUME Delete PROVE AcceptanceInv'
    BY <1>3, DeleteStatements, CommitStep DEF Delete
  <1>4. CASE UNCHANGED vars
    <2>1. session' = session /\ row' = row /\ call' = call /\ deletion' = deletion
      BY <1>4 DEF vars
    <2> QED BY <2>1 DEF AcceptanceInv, TypeOK, TablesInv, DeletionInv, SubmissionIsWhole, RecordInv,
              SentInv, CallInv, LateInv, AnswersAreTrue, AcceptedIsKept, IsOwn, KeyOfAnother,
              SamePayload, Recorded
  <1> QED BY <1>1, <1>2, <1>3, <1>4 DEF Next

LEMMA AcceptanceInvariant == Spec => []AcceptanceInv
  BY AcceptanceInit, AcceptanceStep, PTL DEF Spec

\* The type invariant of acceptance and deletion (the tables' rows, the calls
\* and the deletion).
THEOREM AcceptanceTypeCorrect == Spec => []TypeOK
  <1>1. AcceptanceInv => TypeOK
    BY DEF AcceptanceInv
  <1> QED BY <1>1, AcceptanceInvariant, PTL

\* Before and after a deletion every submission has its job, its idempotency
\* record and its event.
LEMMA WholeInv == AcceptanceInv => SubmissionIsWhole
  <1> SUFFICES ASSUME AcceptanceInv PROVE SubmissionIsWhole
    OBVIOUS
  <1>1. CASE deletion.pc = "done"
    BY <1>1 DEF AcceptanceInv, DeletionInv
  <1>2. CASE deletion.pc # "done"
    BY <1>2 DEF AcceptanceInv, TablesInv, SubmissionIsWhole, Accepted
  <1> QED BY <1>1, <1>2

\* No submission is ever left without its job, its idempotency record or its
\* event, between whichever statements of a deletion it was accepted.
THEOREM SubmissionsAreWhole == Spec => []SubmissionIsWhole
  BY WholeInv, AcceptanceInvariant, PTL

\* However many calls repeat a key, one submission exists for it.
THEOREM KeysAreUsedOnce == Spec => []OneSubmissionPerKey
  <1>1. AcceptanceInv => OneSubmissionPerKey
    <2>1. ASSUME AcceptanceInv PROVE row["submission"] \subseteq row["idempotency"]
      BY <2>1, WholeInv DEF SubmissionIsWhole
    <2> QED BY <2>1 DEF AcceptanceInv, RecordInv, OneSubmissionPerKey
  <1> QED BY <1>1, AcceptanceInvariant, PTL

\* What a client is told, acceptance or conflict, is so.
THEOREM CallsAreAnsweredTruly == Spec => []AnswersAreTrue
  <1>1. AcceptanceInv => AnswersAreTrue
    BY DEF AcceptanceInv
  <1> QED BY <1>1, AcceptanceInvariant, PTL

\* Accepted submissions stay until the deletion commits, and nobody is accepted
\* whose session was not verified before that.
THEOREM AcceptedSubmissionsStay == Spec => []AcceptedIsKept
  <1>1. AcceptanceInv => AcceptedIsKept
    BY DEF AcceptanceInv
  <1> QED BY <1>1, AcceptanceInvariant, PTL

=============================================================================
