--------------------------- MODULE LearnerClient ---------------------------
(***************************************************************************)
(* The browser tab of one learner (TutorExperience of App.tsx) against a   *)
(* network that loses requests and answers, and a page that may be         *)
(* reloaded at any time.  What a reload leaves is in local storage, and    *)
(* requests that are on their way.                                         *)
(*                                                                         *)
(* JavaScript runs a handler up to its next await: an action is a handler  *)
(* from one await to the next, together with the effects React runs after  *)
(* it.  What goes on after an await is a task, which keeps the values it   *)
(* had when it began.  The service is what Acceptance and Progression say  *)
(* of it: idempotent per session and key, and strict about parents.        *)
(***************************************************************************)
EXTENDS Naturals, Sequences, FiniteSets

CONSTANTS
    Lesson,          \* items of their own page
    Text,            \* what a learner may write, answer and reasoning
    Nothing,         \* no lesson, no text
    MaxSubmissions,  \* bounds: submissions accepted,
    MaxKeys,         \*   idempotency keys drawn,
    MaxSessions      \*   sessions created

ASSUME NothingAssumption == Nothing \notin Lesson \union Text

ASSUME BoundsAssumption == MaxSubmissions \in Nat /\ MaxKeys \in Nat /\ MaxSessions \in Nat

VARIABLES
    page,      \* the React state
    pending,   \* local storage: pending[i] is cobri.pending.<i>
    task,      \* handlers that await an answer
    wire,      \* submissions on their way to the service
    service,   \* submissions stored, sessions created, keys drawn
    shown      \* history: submissions whose outcome and next step were shown

vars == <<page, pending, task, wire, service, shown>>

Purpose == {"assessment", "practice", "transfer"}

Id == 0..MaxSubmissions        \* 0: none
Key == 0..MaxKeys
Session == 0..MaxSessions

Status == {"none", "waiting", "succeeded", "failed"}   \* waiting: pending or running

\* What GET next answers: the purpose of the next item, or why there is none.
Step == Purpose \union {"complete", "failed"}

Page ==
    [route : Lesson \union {Nothing}, loading : BOOLEAN, lesson : BOOLEAN,
     purpose : Purpose, parent : Id, text : Text \union {Nothing}, session : Session,
     submission : Id, status : Status, nextOf : Id, next : Step \union {"none"},
     timer : BOOLEAN, checking : BOOLEAN, sent : BOOLEAN, editor : BOOLEAN, error : BOOLEAN,
     discovering : BOOLEAN]

Pending == [session : Session, key : Key, submission : Id]

NotPending == [session |-> 0, key |-> 0, submission |-> 0]

\* A request to submit; Blank in tasks that have none.
Request ==
    [session : Session, key : Key, lesson : Lesson \union {Nothing},
     purpose : Purpose, parent : Id, text : Text \union {Nothing}]

Blank == [session |-> 0, key |-> 0, lesson |-> Nothing,
          purpose |-> "assessment", parent |-> 0, text |-> Nothing]

\* resend: the submit handler of a page without a submission, which on a
\* failure offers the editor again.
Task ==
    [at : {"idle", "session", "post", "accepted", "submission", "read", "next"},
     request : Request, resend : BOOLEAN, id : Id, status : Status]

Tasks == 1..2                  \* bound: handlers under way

Idle == [at |-> "idle", request |-> Blank, resend |-> FALSE, id |-> 0, status |-> "none"]

Stored == [request : Request, status : Status, next : Step \union {"none"}]

TypeOK ==
    /\ page \in Page
    /\ pending \in [Lesson -> Pending]
    /\ task \in [Tasks -> Task]
    /\ wire \subseteq Request
    /\ service.stored \in Seq(Stored) /\ Len(service.stored) <= MaxSubmissions
    /\ service.sessions \in Session /\ service.keys \in Key
    /\ shown \subseteq DOMAIN service.stored

FreshPage ==
    [route |-> Nothing, loading |-> FALSE, lesson |-> FALSE,
     purpose |-> "assessment", parent |-> 0, text |-> Nothing, session |-> 0,
     submission |-> 0, status |-> "none", nextOf |-> 0, next |-> "none",
     timer |-> FALSE, checking |-> FALSE, sent |-> FALSE, editor |-> FALSE, error |-> FALSE,
     discovering |-> FALSE]

Init ==
    /\ page = FreshPage
    /\ pending = [i \in Lesson |-> NotPending]
    /\ task = [t \in Tasks |-> Idle]
    /\ wire = {}
    /\ service = [stored |-> <<>>, sessions |-> 0, keys |-> 0]
    /\ shown = {}

-----------------------------------------------------------------------------
(* Parts of handlers. *)

OnlyPage == UNCHANGED <<pending, task, wire, service, shown>>
OnlyPageAndTasks == UNCHANGED <<pending, wire, service, shown>>

Decided(status) == status \in {"succeeded", "failed"}

Free(t) == task[t].at = "idle" /\ \A u \in Tasks : u < t => task[u].at # "idle"

\* Seeded fault: no poll is planned.
ShowUntimed(p, id, status) ==
    [p EXCEPT !.submission = id, !.status = status, !.timer = FALSE]

\* setSubmission; the poll effect sets its timer for a submission that waits.
Show(p, id, status) ==
    [p EXCEPT !.submission = id, !.status = status, !.timer = status = "waiting"]

NoSubmission(p) ==
    [p EXCEPT !.submission = 0, !.status = "none", !.timer = FALSE,
              !.nextOf = 0, !.next = "none"]

\* loadResult(id) as a page at lesson i calls it.
Load(i, id) == [Idle EXCEPT !.at = "submission", !.request.lesson = i, !.id = id]

Saved(i) == IF i \in Lesson THEN pending[i] ELSE NotPending

\* The effect that looks for a pending submission of the page's lesson.
Restored(p) ==
    LET saved == Saved(p.route) IN
    IF saved = NotPending THEN p
    ELSE IF saved.submission = 0 THEN [p EXCEPT !.session = saved.session]
    ELSE [p EXCEPT !.session = saved.session,
                   !.sent = TRUE, !.editor = FALSE, !.checking = TRUE]

RestoreLoads(i) ==
    IF Saved(i).submission = 0 THEN UNCHANGED task
    ELSE \E t \in Tasks : Free(t) /\ task' = [task EXCEPT ![t] = Load(i, Saved(i).submission)]

\* Seeded fault: the submission of the page before stays.
EnteredKeeping(p, i) ==
    [p EXCEPT !.route = i, !.loading = (i # Nothing), !.lesson = FALSE,
              !.text = Nothing, !.parent = 0, !.error = FALSE, !.sent = FALSE]

\* The effect of a new route: everything is reset but checking and the session.
Entered(p, i) ==
    [NoSubmission(p) EXCEPT !.route = i, !.loading = (i # Nothing), !.lesson = FALSE,
                            !.purpose = "assessment", !.text = Nothing, !.parent = 0,
                            !.error = FALSE, !.sent = FALSE]

-----------------------------------------------------------------------------
(* Navigation. *)

\* The topic composer, which is there on every page (discover up to its await).
\* Which lessons the answer offers, if any, is left open.
Discover ==
    /\ ~page.discovering
    /\ page' = [page EXCEPT !.discovering = TRUE, !.error = FALSE]

TopicArrives ==
    /\ page.discovering
    /\ page' = [page EXCEPT !.discovering = FALSE]

TopicFails ==
    /\ page.discovering
    /\ page' = [page EXCEPT !.discovering = FALSE, !.error = TRUE]

\* The link of a lesson on offer (openLesson, and the effects of the route).
FollowLink(i) ==
    /\ ~page.discovering
    /\ i # page.route
    /\ page' = Restored(Entered([page EXCEPT !.session = 0, !.editor = TRUE], i))
    /\ RestoreLoads(i)
    /\ OnlyPageAndTasks

\* The link of the lesson at hand: openLesson alone.
FollowOwnLink ==
    /\ ~page.discovering
    /\ page.route # Nothing
    /\ page' = [page EXCEPT !.text = Nothing, !.parent = 0, !.session = 0, !.editor = TRUE]
    /\ OnlyPage

\* Back and forward, or an address.
Revisit(i) ==
    /\ i # page.route
    /\ page' = Restored(Entered(page, i))
    /\ RestoreLoads(i)
    /\ OnlyPageAndTasks

GoHome ==
    /\ page.route # Nothing
    /\ page' = [NoSubmission(page) EXCEPT !.route = Nothing, !.loading = FALSE, !.lesson = FALSE,
                                          !.editor = FALSE, !.sent = FALSE]
    /\ OnlyPage

\* The tasks are gone; what they have sent is not.
Reload ==
    /\ page' = Restored(Entered(FreshPage, page.route))
    /\ LET saved == Saved(page.route).submission IN
       task' = [t \in Tasks |-> IF t = 1 /\ saved # 0 THEN Load(page.route, saved) ELSE Idle]
    /\ OnlyPageAndTasks

\* The effects that depend on the locale run again.
SwitchLanguage ==
    /\ page' = [Restored(page) EXCEPT !.timer = page.status = "waiting"]
    /\ RestoreLoads(page.route)
    /\ OnlyPageAndTasks

LessonArrives == page' = [page EXCEPT !.loading = FALSE, !.lesson = TRUE, !.editor = TRUE]

LessonFails == page' = [page EXCEPT !.loading = FALSE, !.error = TRUE]

-----------------------------------------------------------------------------
(* The drawer and the submit handler. *)

Drawer == page.editor /\ page.lesson

Edit(x) == Drawer /\ page' = [page EXCEPT !.text = x]

CloseDrawer == Drawer /\ page' = [page EXCEPT !.editor = FALSE]

OpenDrawer ==
    page.lesson /\ ~page.editor /\ ~page.sent /\ page' = [page EXCEPT !.editor = TRUE]

\* Seeded fault: every request has a new key.
KeyForNew(i) == service.keys + 1

KeyFor(i) == IF pending[i] = NotPending THEN service.keys + 1 ELSE pending[i].key

\* Seeded fault: the key is written down when the answer is there.
NoteWhenAccepted(r, id) ==
    IF id = 0 THEN NotPending ELSE [session |-> r.session, key |-> r.key, submission |-> id]

\* What submit writes to local storage.
Note(r, id) == [session |-> r.session, key |-> r.key, submission |-> id]

\* With a session at hand: find or draw the key, write it down, send.
Post(t, k, session) ==
    LET key == KeyFor(k.request.lesson)
        request == [k.request EXCEPT !.session = session, !.key = key] IN
    /\ key <= MaxKeys
    /\ pending' = [pending EXCEPT ![request.lesson] = Note(request, 0)]
    /\ task' = [task EXCEPT ![t] = [k EXCEPT !.at = "post", !.request = request]]
    /\ wire' = wire \union {request}
    /\ service' = [service EXCEPT !.sessions = IF session > @ THEN session ELSE @,
                                  !.keys = IF key > @ THEN key ELSE @]

Submit(t) ==
    LET request == [Blank EXCEPT !.lesson = page.route, !.purpose = page.purpose, !.text = page.text,
                        !.parent = IF page.purpose = "assessment" THEN 0 ELSE page.parent]
        k == [Idle EXCEPT !.at = "session", !.request = request, !.resend = page.submission = 0] IN
    /\ Free(t)
    /\ Drawer /\ page.text # Nothing /\ ~page.checking
    /\ page' = [page EXCEPT !.checking = TRUE, !.sent = TRUE, !.editor = FALSE, !.error = FALSE,
                            !.nextOf = 0, !.next = "none"]
    /\ IF page.session # 0 THEN Post(t, k, page.session)
       ELSE task' = [task EXCEPT ![t] = k] /\ UNCHANGED <<pending, wire, service>>
    /\ UNCHANGED shown

SessionCreated(t) ==
    LET new == service.sessions + 1 IN
    /\ task[t].at = "session"
    /\ new <= MaxSessions
    /\ page' = [page EXCEPT !.session = new]
    /\ Post(t, task[t], new)
    /\ UNCHANGED shown

-----------------------------------------------------------------------------
(* The service. *)

Legal(r) ==
    IF r.purpose = "assessment" THEN r.parent = 0
    ELSE /\ r.parent \in DOMAIN service.stored
         /\ LET parent == service.stored[r.parent] IN
            /\ parent.request.session = r.session /\ parent.status = "succeeded"
            /\ r.purpose \in {parent.next, parent.request.purpose}

Found(r) ==
    {id \in DOMAIN service.stored : LET found == service.stored[id].request IN
                                    found.session = r.session /\ found.key = r.key}

\* The tasks that wait for the answer to r get one, unless it is lost.
Answer(r, id, status) ==
    \/ task' = [t \in Tasks |-> IF task[t].at = "post" /\ task[t].request = r
                                THEN [task[t] EXCEPT !.at = "accepted", !.id = id, !.status = status]
                                ELSE task[t]]
    \/ UNCHANGED task

Accept(r) ==
    /\ Found(r) = {} /\ Legal(r) /\ Len(service.stored) < MaxSubmissions
    /\ service' = [service EXCEPT !.stored =
                      Append(@, [request |-> r, status |-> "waiting", next |-> "none"])]
    /\ Answer(r, Len(service.stored) + 1, "waiting")

Replay(r) ==
    /\ \E id \in Found(r) :
          service.stored[id].request = r /\ Answer(r, id, service.stored[id].status)
    /\ UNCHANGED service

\* r is accepted or replayed; or it is lost, or refused, and who waits for it
\* fails (RequestFails).
Deliver(r) ==
    /\ wire' = wire \ {r}
    /\ Accept(r) \/ Replay(r) \/ UNCHANGED <<task, service>>
    /\ UNCHANGED <<page, pending, shown>>

\* Seeded fault: the action is taken for the purpose.
OffersRetry(purpose) ==
    {"practice", "retry"} \union (IF purpose = "transfer" THEN {"complete"} ELSE {"transfer"})

\* What get_next_step may answer for an evaluated submission.
Offers(purpose) ==
    {"practice", purpose} \union (IF purpose = "transfer" THEN {"complete"} ELSE {"transfer"})

\* The worker decides the job.
Decide(id) ==
    /\ id \in DOMAIN service.stored
    /\ service.stored[id].status = "waiting"
    /\ \/ \E next \in Offers(service.stored[id].request.purpose) :
          service' = [service EXCEPT !.stored[id].status = "succeeded", !.stored[id].next = next]
       \/ service' = [service EXCEPT !.stored[id].status = "failed", !.stored[id].next = "failed"]
    /\ UNCHANGED <<page, pending, task, wire, shown>>

-----------------------------------------------------------------------------
(* Answers. *)

\* Seeded fault: the failure is shown, and the page goes on checking.
FailedPageChecking(k) ==
    [page EXCEPT !.error = TRUE, !.sent = IF k.resend THEN FALSE ELSE @]

FailedPage(k) ==
    [page EXCEPT !.error = TRUE, !.checking = FALSE, !.sent = IF k.resend THEN FALSE ELSE @]

\* A request or its answer is lost, or the answer is an error.
RequestFails(t) ==
    /\ task[t].at \in {"session", "post", "submission", "next"}
    /\ page' = FailedPage(task[t])
    /\ task' = [task EXCEPT ![t] = Idle]
    /\ OnlyPageAndTasks

\* submit goes on: the id is written down, and a decided replay is loaded.
Accepted(t) ==
    LET k == task[t]
        loading == [Load(k.request.lesson, k.id) EXCEPT !.resend = k.resend] IN
    /\ k.at = "accepted"
    /\ pending' = [pending EXCEPT ![k.request.lesson] = Note(k.request, k.id)]
    /\ page' = Show(page, k.id, k.status)
    /\ task' = [task EXCEPT ![t] = IF Decided(k.status) THEN loading ELSE Idle]
    /\ UNCHANGED <<wire, service, shown>>

\* GET submission is answered (SubmissionView).
ReadSubmission(t) ==
    /\ task[t].at = "submission"
    /\ task' = [task EXCEPT ![t].at = "read", ![t].status = service.stored[task[t].id].status]
    /\ UNCHANGED <<page, pending, wire, service, shown>>

Loaded(t) ==
    LET k == task[t] IN
    /\ k.at = "read"
    /\ page' = Show(page, k.id, k.status)
    /\ task' = [task EXCEPT ![t] = IF Decided(k.status) THEN [k EXCEPT !.at = "next"] ELSE Idle]
    /\ OnlyPageAndTasks

NextArrives(t) ==
    LET k == task[t] IN
    /\ k.at = "next"
    /\ page' = [page EXCEPT !.nextOf = k.id, !.next = service.stored[k.id].next,
                            !.checking = FALSE]
    /\ pending' = [pending EXCEPT ![k.request.lesson] = NotPending]
    /\ task' = [task EXCEPT ![t] = Idle]
    /\ shown' = shown \union {k.id}
    /\ UNCHANGED <<wire, service>>

Poll(t) ==
    /\ Free(t)
    /\ page.timer
    /\ page' = [page EXCEPT !.timer = FALSE]
    /\ task' = [task EXCEPT ![t] = Load(page.route, page.submission)]
    /\ OnlyPageAndTasks

-----------------------------------------------------------------------------
(* The buttons of the conversation. *)

NextParent == IF page.next = "assessment" THEN 0 ELSE page.submission

ContinueFlow ==
    /\ page.lesson /\ page.status = "succeeded" /\ page.next \in Purpose
    /\ page' = [NoSubmission(page) EXCEPT
                  !.purpose = page.next, !.parent = NextParent,
                  !.text = Nothing, !.error = FALSE, !.sent = FALSE, !.editor = TRUE]
    /\ OnlyPage

RetryInfrastructureFailure ==
    /\ page.next = "failed"
    /\ page' = [NoSubmission(page) EXCEPT
                  !.error = FALSE, !.checking = FALSE, !.sent = FALSE, !.editor = TRUE]
    /\ pending' = [pending EXCEPT ![page.route] = NotPending]
    /\ UNCHANGED <<task, wire, service, shown>>

RetryResultRequest ==
    /\ page.error
    /\ \/ /\ page.submission = 0 /\ page.lesson
          /\ page' = [page EXCEPT !.error = FALSE, !.sent = FALSE, !.editor = TRUE]
          /\ UNCHANGED task
       \/ /\ page.submission # 0
          /\ page' = [page EXCEPT !.error = FALSE, !.checking = TRUE]
          /\ \E t \in Tasks : Free(t)
                /\ task' = [task EXCEPT ![t] = Load(page.route, page.submission)]
    /\ OnlyPageAndTasks

-----------------------------------------------------------------------------
Leave == (\E i \in Lesson : FollowLink(i) \/ Revisit(i)) \/ GoHome

Ask == (Discover \/ TopicArrives \/ TopicFails) /\ OnlyPage

Arrive == page.loading /\ (LessonArrives \/ LessonFails) /\ OnlyPage

Write == ((\E x \in Text : Edit(x)) \/ CloseDrawer \/ OpenDrawer) /\ OnlyPage

Serve ==
    \/ \E r \in wire : Deliver(r)
    \/ \E id \in DOMAIN service.stored : Decide(id)

Proceed(t) ==
    SessionCreated(t) \/ RequestFails(t) \/ Accepted(t) \/ ReadSubmission(t) \/ Loaded(t) \/ NextArrives(t)

Click == ContinueFlow \/ RetryInfrastructureFailure \/ RetryResultRequest

\* Whatever the page allows.
Next ==
    \/ Leave \/ FollowOwnLink \/ SwitchLanguage \/ Reload \/ Ask \/ Arrive \/ Write \/ Serve
    \/ Click
    \/ \E t \in Tasks : Submit(t) \/ Proceed(t) \/ Poll(t)

Spec == Init /\ [][Next]_vars

Quiet == ~page.loading /\ ~page.timer /\ \A t \in Tasks : task[t].at = "idle"

\* A settled learner goes to another lesson only when nothing is under way,
\* leaves the language and the link of the lesson at hand alone, leaves the
\* buttons under a result or an error alone while the page is checking (a topic
\* request that fails offers "Try again" beside a poll), and goes on from a
\* result by the button under it, although after a reload the drawer is open
\* beside it.
SettledNext ==
    \/ Quiet /\ Leave
    \/ Reload \/ Ask \/ Arrive \/ Write \/ Serve
    \/ ~page.checking /\ Click
    \/ page.submission = 0 /\ \E t \in Tasks : Submit(t)
    \/ \E t \in Tasks : Proceed(t) \/ Poll(t)

SettledSpec == Init /\ [][SettledNext]_vars

\* fetch settles and timers fire (one of them is under way at a time), and the
\* worker decides every job (EveryJobIsDecided of EvaluationJobs).
Fairness ==
    /\ WF_vars(\E t \in Tasks : Proceed(t) \/ Poll(t))
    /\ \A id \in 1..MaxSubmissions : WF_vars(Decide(id))

FairSettledSpec == SettledSpec /\ Fairness

-----------------------------------------------------------------------------
Unseen(i) ==
    {id \in DOMAIN service.stored : service.stored[id].request.lesson = i /\ id \notin shown}

\* One attempt is one submission: whatever is lost, reloaded or sent again, a
\* lesson never has two submissions whose results the learner has not seen.
AttemptIsSubmittedOnce == \A i \in Lesson : Cardinality(Unseen(i)) <= 1

\* What the service has accepted can be found again: until its result has been
\* shown, the session and the key of a submission are in local storage.
AcceptedIsRemembered ==
    \A i \in Lesson : \A id \in Unseen(i) :
        /\ pending[i].session = service.stored[id].request.session
        /\ pending[i].key = service.stored[id].request.key

\* The submission on the page is one of the lesson on the page, the next step
\* under it is its own, and what is sent from there is legal: parent, session
\* and purpose of a request, kept in different places, fit together.
PageIsOfOneSubmission ==
    /\ page.submission # 0 => service.stored[page.submission].request.lesson = page.route
    /\ page.next # "none" /\ page.submission # 0 => page.nextOf = page.submission
    /\ \A r \in wire : Legal(r)

\* The page says it is checking only while something is under way that will
\* end that: a handler that waits, or the timer of the next poll.
CheckingMeansWork == page.checking => page.timer \/ \E t \in Tasks : task[t].at # "idle"

\* The page does not go on checking for ever: unless the learner reloads it
\* again and again, it comes to a result or to an error.
CheckingEnds == <>[][~Reload]_vars => (page.checking ~> ~page.checking)

=============================================================================
