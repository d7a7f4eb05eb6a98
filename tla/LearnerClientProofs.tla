------------------------ MODULE LearnerClientProofs ------------------------
(***************************************************************************)
(* Theorems about the learner's page, for any lessons, texts and numbers   *)
(* of submissions, keys and sessions: that its state is well formed        *)
(* whatever the learner does, and for a settled learner that an attempt is *)
(* submitted once, remembered and shown.  That checking ends               *)
(* (CheckingEnds) rests on fairness and is left to TLC.                    *)
(***************************************************************************)
EXTENDS LearnerClient, FiniteSetTheorems, SequenceTheorems, TLAPS

Stores == DOMAIN service.stored

-----------------------------------------------------------------------------
(* Part 1: what holds whatever the learner does. *)

\* Handlers, page and local storage know only submissions that exist, and a
\* lesson is at hand where one is answered.
References ==
    /\ \A t \in Tasks :
          /\ task[t].at \in {"accepted", "submission", "read", "next"} => task[t].id \in Stores
          /\ task[t].at = "session" => task[t].request.lesson \in Lesson
    /\ page.submission # 0 => page.submission \in Stores
    /\ page.submission = 0 => page.status = "none" /\ ~page.timer
    /\ page.loading \/ page.lesson => page.route \in Lesson
    /\ \A i \in Lesson : pending[i].submission # 0 => pending[i].submission \in Stores

TypeInv ==
    /\ TypeOK
    /\ service \in [stored : Seq(Stored), sessions : Session, keys : Key]
    /\ References

USE NothingAssumption, BoundsAssumption

LEMMA NoneTypes ==
    /\ 0 \in Id /\ 0 \in Key /\ 0 \in Session
    /\ Blank \in Request /\ Idle \in Task /\ NotPending \in Pending /\ FreshPage \in Page
  BY DEF Id, Key, Session, Blank, Request, Idle, Task, NotPending, Pending, FreshPage, Page, Purpose,
         Status, Step

LEMMA StoresAreIds ==
  ASSUME TypeInv
  PROVE  Stores = 1..Len(service.stored) /\ Stores \subseteq Id
         /\ \A id \in Stores : service.stored[id] \in Stored
  BY DEF TypeInv, TypeOK, Stores, Id

LEMMA LoadType ==
  ASSUME NEW i \in Lesson \union {Nothing}, NEW id \in Id
  PROVE  /\ Load(i, id) \in Task /\ Load(i, id).at = "submission" /\ Load(i, id).id = id
         /\ Load(i, id).request.lesson = i
  BY NoneTypes DEF Load, Idle, Task, Blank, Request

LEMMA ShowType ==
  ASSUME NEW p \in Page, NEW id \in Id, NEW status \in Status
  PROVE  Show(p, id, status) \in Page
  BY DEF Show, Page

LEMMA NoSubmissionType ==
  ASSUME NEW p \in Page
  PROVE  NoSubmission(p) \in Page
  BY NoneTypes DEF NoSubmission, Page, Status

LEMMA EnteredType ==
  ASSUME NEW p \in Page, NEW i \in Lesson \union {Nothing}
  PROVE  /\ Entered(p, i) \in Page /\ Entered(p, i).submission = 0 /\ Entered(p, i).nextOf = 0
         /\ Entered(p, i).next = "none" /\ Entered(p, i).status = "none" /\ ~Entered(p, i).timer
         /\ Entered(p, i).route = i /\ Entered(p, i).loading = (i # Nothing) /\ ~Entered(p, i).lesson
         /\ Entered(p, i).purpose = "assessment" /\ ~Entered(p, i).error
         /\ Entered(p, i).session = p.session /\ Entered(p, i).checking = p.checking
<1>1. /\ NoSubmission(p) \in Page /\ NoSubmission(p).submission = 0 /\ NoSubmission(p).nextOf = 0
      /\ NoSubmission(p).next = "none" /\ NoSubmission(p).status = "none" /\ ~NoSubmission(p).timer
      /\ NoSubmission(p).session = p.session /\ NoSubmission(p).checking = p.checking
  BY NoSubmissionType DEF NoSubmission, Page
<1>2. 0 \in Id /\ "assessment" \in Purpose
  BY NoneTypes DEF Purpose
<1>. DEFINE q == NoSubmission(p)
            b == i # Nothing
            e == [q EXCEPT !.route = i, !.loading = b, !.lesson = FALSE, !.purpose = "assessment",
                           !.text = Nothing, !.parent = 0, !.error = FALSE, !.sent = FALSE]
<1>3. Entered(p, i) = e
  BY DEF Entered
<1>4. q \in Page /\ b \in BOOLEAN
  BY <1>1
<1>. HIDE DEF q, b
<1>5. e \in Page
  <2>. DEFINE f == [q EXCEPT !.route = i, !.loading = b]
              g == [f EXCEPT !.lesson = FALSE, !.error = FALSE, !.sent = FALSE]
  <2>1. f \in Page
    BY <1>4 DEF Page
  <2>. HIDE DEF f
  <2>2. g \in Page
    BY <2>1 DEF Page
  <2>. HIDE DEF g
  <2>3. [g EXCEPT !.purpose = "assessment", !.text = Nothing, !.parent = 0] \in Page
    BY <1>2, <2>2 DEF Page
  <2>4. e = [g EXCEPT !.purpose = "assessment", !.text = Nothing, !.parent = 0]
    BY <1>4 DEF Page, f, g
  <2>. QED  BY <2>3, <2>4
<1>6. /\ e.submission = q.submission /\ e.nextOf = q.nextOf
      /\ e.next = q.next /\ e.status = q.status /\ e.timer = q.timer
      /\ e.session = q.session /\ e.checking = q.checking
  BY <1>4 DEF Page
<1>7. e.route = i /\ e.loading = b /\ ~e.lesson /\ e.purpose = "assessment" /\ ~e.error
  BY <1>4 DEF Page
<1>. HIDE DEF e
<1>. QED  BY <1>1, <1>3, <1>5, <1>6, <1>7 DEF q, b

LEMMA RestoredType ==
  ASSUME TypeInv, NEW p \in Page
  PROVE  /\ Saved(p.route) \in Pending /\ Restored(p) \in Page
         /\ Restored(p).loading = p.loading /\ Restored(p).lesson = p.lesson
         /\ Restored(p).route = p.route /\ Restored(p).submission = p.submission
         /\ Restored(p).status = p.status /\ Restored(p).timer = p.timer
<1>1. Saved(p.route) \in Pending
  BY NoneTypes DEF Saved, TypeInv, TypeOK
<1>. DEFINE saved == Saved(p.route)
<1>2. saved \in Pending /\ saved.session \in Session
  BY <1>1 DEF Pending
<1>3. \/ Restored(p) = p \/ Restored(p) = [p EXCEPT !.session = saved.session]
      \/ Restored(p) = [p EXCEPT !.session = saved.session,
                                 !.sent = TRUE, !.editor = FALSE, !.checking = TRUE]
  BY DEF Restored
<1>. HIDE DEF saved
<1>4. CASE Restored(p) = p
  BY <1>1, <1>4
<1>5. CASE Restored(p) = [p EXCEPT !.session = saved.session]
  BY <1>1, <1>2, <1>5 DEF Page
<1>6. CASE Restored(p) = [p EXCEPT !.session = saved.session,
                                   !.sent = TRUE, !.editor = FALSE, !.checking = TRUE]
  BY <1>1, <1>2, <1>6 DEF Page
<1>. QED  BY <1>3, <1>4, <1>5, <1>6

LEMMA TypeInit == Init => TypeInv
<1>. SUFFICES ASSUME Init
              PROVE  TypeInv
  OBVIOUS
<1>1. /\ page = FreshPage /\ pending = [i \in Lesson |-> NotPending] /\ task = [t \in Tasks |-> Idle]
      /\ wire = {} /\ service = [stored |-> <<>>, sessions |-> 0, keys |-> 0] /\ shown = {}
  BY DEF Init
<1>2. <<>> \in Seq(Stored) /\ Len(<<>>) = 0 /\ DOMAIN <<>> = {}
  OBVIOUS
<1>3. TypeOK
  BY <1>1, <1>2, NoneTypes DEF TypeOK
<1>4. References
  BY <1>1 DEF References, Idle, FreshPage, NotPending
<1>. QED  BY <1>1, <1>2, <1>3, <1>4, NoneTypes DEF TypeInv

\* A step of page and handlers that leaves the rest alone.
LEMMA PageAndTaskTypes ==
  ASSUME TypeInv, OnlyPageAndTasks, page' \in Page, task' \in [Tasks -> Task],
         page'.submission # 0 => page'.submission \in Stores,
         page'.submission = 0 => page'.status = "none" /\ ~page'.timer,
         page'.loading \/ page'.lesson => page'.route \in Lesson,
         \A t \in Tasks : task'[t] # task[t] =>
             (task'[t].at \in {"submission", "read", "next"} /\ task'[t].id \in Stores) \/ task'[t] = Idle
  PROVE  TypeInv'
<1>1. TypeOK' /\ service' = service /\ pending' = pending /\ Stores' = Stores
  BY DEF TypeInv, TypeOK, OnlyPageAndTasks, Stores
<1>2. ASSUME NEW t \in Tasks
      PROVE  /\ task'[t].at \in {"accepted", "submission", "read", "next"} => task'[t].id \in Stores
             /\ task'[t].at = "session" => task'[t].request.lesson \in Lesson
  BY DEF TypeInv, References, Idle
<1>3. References'
  BY <1>1, <1>2 DEF TypeInv, References
<1>. QED  BY <1>1, <1>3 DEF TypeInv

LEMMA RestoreTypes ==
  ASSUME TypeInv, NEW i \in Lesson \union {Nothing}, RestoreLoads(i)
  PROVE  /\ task' \in [Tasks -> Task]
         /\ \A t \in Tasks : task'[t] # task[t] => task'[t].at = "submission" /\ task'[t].id \in Stores
<1>1. CASE Saved(i).submission = 0
  BY <1>1 DEF RestoreLoads, TypeInv, TypeOK
<1>2. CASE Saved(i).submission # 0
  <2>1. i \in Lesson /\ Saved(i).submission \in Stores /\ Saved(i).submission \in Id
    BY <1>2, StoresAreIds DEF Saved, NotPending, TypeInv, References
  <2>2. PICK t \in Tasks : task' = [task EXCEPT ![t] = Load(i, Saved(i).submission)]
    BY <1>2 DEF RestoreLoads
  <2>3. LET k == Load(i, Saved(i).submission) IN
        k \in Task /\ k.at = "submission" /\ k.id = Saved(i).submission
    BY <2>1, LoadType
  <2>. QED  BY <2>1, <2>2, <2>3 DEF TypeInv, TypeOK
<1>. QED  BY <1>1, <1>2

LEMMA PostTypes ==
  ASSUME TypeInv, NEW t \in Tasks, NEW k \in Task, NEW session \in Session,
         k.request.lesson \in Lesson, Post(t, k, session)
  PROVE  /\ pending' \in [Lesson -> Pending] /\ task' \in [Tasks -> Task] /\ wire' \subseteq Request
         /\ service' \in [stored : Seq(Stored), sessions : Session, keys : Key]
         /\ service'.stored = service.stored
         /\ task'[t].at = "post" /\ \A u \in Tasks : u # t => task'[u] = task[u]
         /\ \A i \in Lesson : pending'[i] = pending[i] \/ pending'[i].submission = 0
<1>. DEFINE key == KeyFor(k.request.lesson)
            r == [k.request EXCEPT !.session = session, !.key = key]
            after == [k EXCEPT !.at = "post", !.request = r]
<1>0. pending \in [Lesson -> Pending] /\ service \in [stored : Seq(Stored), sessions : Session, keys : Key]
      /\ task \in [Tasks -> Task] /\ wire \subseteq Request
  BY DEF TypeInv, TypeOK
<1>1. key \in Key
  BY <1>0 DEF Post, KeyFor, Pending, Key
<1>2. r \in Request /\ r.lesson = k.request.lesson
  <2>1. k.request \in Request
    BY DEF Task
  <2>. QED  BY <1>1, <2>1 DEF Request
<1>3. after \in Task /\ after.at = "post"
  BY <1>2 DEF Task
<1>4. /\ pending' = [pending EXCEPT ![r.lesson] = Note(r, 0)] /\ task' = [task EXCEPT ![t] = after]
      /\ wire' = wire \union {r}
      /\ service' = [service EXCEPT !.sessions = IF session > @ THEN session ELSE @,
                                    !.keys = IF key > @ THEN key ELSE @]
  BY DEF Post
<1>5. Note(r, 0) \in Pending /\ Note(r, 0).submission = 0
  BY <1>2, NoneTypes DEF Note, Pending, Request
<1>6. service' \in [stored : Seq(Stored), sessions : Session, keys : Key] /\ service'.stored = service.stored
  BY <1>0, <1>1, <1>4
<1>. HIDE DEF r, after, key
<1>. QED  BY <1>0, <1>2, <1>3, <1>4, <1>5, <1>6

LEMMA PostReferences ==
  ASSUME TypeInv, NEW t \in Tasks, NEW k \in Task, NEW session \in Session,
         k.request.lesson \in Lesson, Post(t, k, session), page' \in Page, UNCHANGED shown,
         page'.submission = page.submission, page'.route = page.route,
         page'.loading = page.loading, page'.lesson = page.lesson,
         page'.status = page.status, page'.timer = page.timer
  PROVE  TypeInv'
<1>1. TypeOK'
  BY PostTypes DEF TypeInv, TypeOK
<1>2. References'
  BY PostTypes DEF TypeInv, References, Stores
<1>. QED  BY <1>1, <1>2, PostTypes DEF TypeInv

\* Going to another route, with or without a reload.
LEMMA EnterTypes ==
  ASSUME TypeInv, NEW p \in Page, NEW i \in Lesson \union {Nothing}
  PROVE  /\ Restored(Entered(p, i)) \in Page
         /\ Restored(Entered(p, i)).submission = 0
         /\ Restored(Entered(p, i)).status = "none" /\ ~Restored(Entered(p, i)).timer
         /\ Restored(Entered(p, i)).loading \/ Restored(Entered(p, i)).lesson => i \in Lesson
         /\ Restored(Entered(p, i)).route = i
<1>2. /\ Entered(p, i) \in Page /\ Entered(p, i).submission = 0 /\ Entered(p, i).route = i
      /\ Entered(p, i).loading = (i # Nothing) /\ ~Entered(p, i).lesson
      /\ Entered(p, i).status = "none" /\ ~Entered(p, i).timer
  BY EnteredType
<1>3. /\ Restored(Entered(p, i)) \in Page
      /\ Restored(Entered(p, i)).loading = Entered(p, i).loading
      /\ Restored(Entered(p, i)).lesson = Entered(p, i).lesson
      /\ Restored(Entered(p, i)).route = Entered(p, i).route
      /\ Restored(Entered(p, i)).submission = Entered(p, i).submission
      /\ Restored(Entered(p, i)).status = Entered(p, i).status
      /\ Restored(Entered(p, i)).timer = Entered(p, i).timer
  BY <1>2, RestoredType
<1>. QED  BY <1>2, <1>3

LEMMA TypeLeave == TypeInv /\ Leave => TypeInv'
<1>. SUFFICES ASSUME TypeInv, Leave
              PROVE  TypeInv'
  OBVIOUS
<1>0. page \in Page
  BY DEF TypeInv, TypeOK
<1>1. ASSUME NEW i \in Lesson, FollowLink(i)
      PROVE  TypeInv'
  <2>1. [page EXCEPT !.session = 0, !.editor = TRUE] \in Page
    BY <1>0, NoneTypes DEF Page
  <2>. QED  BY <1>1, <2>1, EnterTypes, RestoreTypes, PageAndTaskTypes DEF FollowLink
<1>2. ASSUME NEW i \in Lesson, Revisit(i)
      PROVE  TypeInv'
  BY <1>0, <1>2, EnterTypes, RestoreTypes, PageAndTaskTypes DEF Revisit
<1>3. CASE GoHome
  <2>1. NoSubmission(page) \in Page /\ NoSubmission(page).submission = 0
        /\ NoSubmission(page).status = "none" /\ ~NoSubmission(page).timer
    BY <1>0, NoSubmissionType DEF NoSubmission, Page
  <2>2. page' \in Page /\ page'.submission = 0 /\ ~page'.loading /\ ~page'.lesson
        /\ page'.status = "none" /\ ~page'.timer
    BY <1>3, <2>1 DEF GoHome, Page
  <2>. QED  BY <1>3, <2>2, PageAndTaskTypes DEF GoHome, OnlyPage, OnlyPageAndTasks, TypeInv, TypeOK
<1>. QED  BY <1>1, <1>2, <1>3 DEF Leave

\* A topic request changes nothing of the page but its own flag and the error.
LEMMA AskedPage ==
  ASSUME page \in Page, Ask
  PROVE  /\ page' \in Page
         /\ page'.submission = page.submission /\ page'.nextOf = page.nextOf
         /\ page'.next = page.next /\ page'.status = page.status /\ page'.timer = page.timer
         /\ page'.checking = page.checking /\ page'.route = page.route
         /\ page'.session = page.session /\ page'.purpose = page.purpose
         /\ page'.parent = page.parent /\ page'.loading = page.loading
         /\ page'.lesson = page.lesson
<1>1. CASE Discover
  BY <1>1 DEF Discover, Page
<1>2. CASE TopicArrives
  BY <1>2 DEF TopicArrives, Page
<1>3. CASE TopicFails
  BY <1>3 DEF TopicFails, Page
<1>. QED  BY <1>1, <1>2, <1>3 DEF Ask

LEMMA TypeStay ==
  TypeInv /\ (FollowOwnLink \/ SwitchLanguage \/ Reload \/ Ask \/ Arrive \/ Write) => TypeInv'
<1>. SUFFICES ASSUME TypeInv, FollowOwnLink \/ SwitchLanguage \/ Reload \/ Ask \/ Arrive \/ Write
              PROVE  TypeInv'
  OBVIOUS
<1>0. page \in Page /\ page.route \in Lesson \union {Nothing} /\ task \in [Tasks -> Task]
  BY DEF TypeInv, TypeOK, Page
<1>only. ASSUME OnlyPage, page' \in Page, page'.submission = page.submission, page'.route = page.route,
                page'.loading \/ page'.lesson => page.loading \/ page.lesson,
                page'.status = page.status, page'.timer = page.timer
         PROVE  TypeInv'
  BY <1>0, <1>only, PageAndTaskTypes DEF OnlyPage, OnlyPageAndTasks, TypeInv, References
<1>1. CASE FollowOwnLink
  BY <1>0, <1>1, <1>only, NoneTypes DEF FollowOwnLink, Page
<1>2. CASE SwitchLanguage
  <2>1. /\ Restored(page) \in Page /\ Restored(page).submission = page.submission
        /\ Restored(page).route = page.route /\ Restored(page).lesson = page.lesson
        /\ Restored(page).loading = page.loading /\ Restored(page).status = page.status
    BY <1>0, RestoredType
  <2>2. /\ page' \in Page /\ page'.submission = page.submission /\ page'.route = page.route
        /\ page'.lesson = page.lesson /\ page'.loading = page.loading
        /\ page'.status = page.status /\ page'.timer = (page.status = "waiting")
    <3>. DEFINE q == Restored(page)
    <3>1. page' = [q EXCEPT !.timer = page.status = "waiting"]
      BY <1>2 DEF SwitchLanguage
    <3>2. /\ q \in Page /\ q.submission = page.submission /\ q.route = page.route
          /\ q.lesson = page.lesson /\ q.loading = page.loading /\ q.status = page.status
      BY <2>1
    <3>. HIDE DEF q
    <3>. QED  BY <3>1, <3>2 DEF Page
  <2>. QED  BY <1>0, <1>2, <2>2, RestoreTypes, PageAndTaskTypes DEF SwitchLanguage, TypeInv, References
<1>3. CASE Reload
  <2>1. FreshPage \in Page
    BY NoneTypes
  <2>2. /\ page' \in Page /\ page'.submission = 0 /\ page'.route = page.route
        /\ page'.loading \/ page'.lesson => page.route \in Lesson
        /\ page'.status = "none" /\ ~page'.timer
    BY <1>0, <1>3, <2>1, EnterTypes DEF Reload
  <2>3. ASSUME Saved(page.route).submission # 0
        PROVE  /\ Saved(page.route).submission \in Stores
               /\ Load(page.route, Saved(page.route).submission) \in Task
               /\ Load(page.route, Saved(page.route).submission).at = "submission"
               /\ Load(page.route, Saved(page.route).submission).id = Saved(page.route).submission
    <3>1. page.route \in Lesson /\ Saved(page.route).submission \in Stores
      BY <1>0, <2>3 DEF Saved, NotPending, TypeInv, References
    <3>. QED  BY <1>0, <3>1, StoresAreIds, LoadType
  <2>4. task' \in [Tasks -> Task]
    BY <1>3, <2>3, NoneTypes DEF Reload
  <2>5. \A t \in Tasks : task'[t] = Idle \/ (task'[t].at = "submission" /\ task'[t].id \in Stores)
    BY <1>3, <2>3 DEF Reload
  <2>. QED  BY <1>3, <2>2, <2>4, <2>5, PageAndTaskTypes DEF Reload
<1>4. CASE Arrive
  <2>1. page.loading /\ (LessonArrives \/ LessonFails) /\ OnlyPage
    BY <1>4 DEF Arrive
  <2>2. page' \in Page /\ page'.submission = page.submission /\ page'.route = page.route
        /\ page'.status = page.status /\ page'.timer = page.timer
    <3>1. CASE LessonArrives
      BY <1>0, <3>1 DEF LessonArrives, Page
    <3>2. CASE LessonFails
      BY <1>0, <3>2 DEF LessonFails, Page
    <3>. QED  BY <2>1, <3>1, <3>2
  <2>. QED  BY <1>only, <2>1, <2>2
<1>5. CASE Write
  <2>1. OnlyPage
    BY <1>5 DEF Write
  <2>2. \/ \E x \in Text : page' = [page EXCEPT !.text = x]
        \/ page' = [page EXCEPT !.editor = FALSE] \/ page' = [page EXCEPT !.editor = TRUE]
    BY <1>5 DEF Write, Edit, CloseDrawer, OpenDrawer
  <2>. DEFINE kept == /\ page' \in Page /\ page'.submission = page.submission
                      /\ page'.route = page.route /\ page'.loading = page.loading
                      /\ page'.lesson = page.lesson /\ page'.status = page.status
                      /\ page'.timer = page.timer
  <2>3. ASSUME NEW x \in Text, page' = [page EXCEPT !.text = x]
        PROVE  kept
    BY <1>0, <2>3 DEF Page
  <2>4. ASSUME page' = [page EXCEPT !.editor = FALSE]
        PROVE  kept
    BY <1>0, <2>4 DEF Page
  <2>5. ASSUME page' = [page EXCEPT !.editor = TRUE]
        PROVE  kept
    BY <1>0, <2>5 DEF Page
  <2>. HIDE DEF kept
  <2>6. kept
    BY <2>2, <2>3, <2>4, <2>5
  <2>. QED  BY <1>only, <2>1, <2>6 DEF kept
<1>6. CASE Ask
  BY <1>0, <1>6, <1>only, AskedPage DEF Ask
<1>. QED  BY <1>1, <1>2, <1>3, <1>4, <1>5, <1>6

LEMMA TypeSubmit ==
  ASSUME TypeInv, NEW t \in Tasks, Submit(t)
  PROVE  TypeInv'
<1>. DEFINE r == [Blank EXCEPT !.lesson = page.route, !.purpose = page.purpose, !.text = page.text,
                        !.parent = IF page.purpose = "assessment" THEN 0 ELSE page.parent]
            k == [Idle EXCEPT !.at = "session", !.request = r, !.resend = page.submission = 0]
<1>0. page \in Page /\ page.route \in Lesson /\ task \in [Tasks -> Task]
  BY DEF Submit, Drawer, TypeInv, TypeOK, References
<1>1. r \in Request /\ r.lesson = page.route
  BY <1>0, NoneTypes DEF Request, Page, Blank
<1>2. k \in Task /\ k.request = r /\ k.at = "session"
  BY <1>1, NoneTypes DEF Idle, Task
<1>3. /\ page' \in Page /\ page'.submission = page.submission /\ page'.route = page.route
      /\ page'.loading = page.loading /\ page'.lesson = page.lesson
      /\ page'.status = page.status /\ page'.timer = page.timer
  BY <1>0, NoneTypes DEF Submit, Page
<1>. HIDE DEF k, r
<1>4. CASE page.session # 0
  <2>1. Post(t, k, page.session) /\ UNCHANGED shown
    BY <1>4 DEF Submit, k, r
  <2>2. page.session \in Session
    BY <1>0 DEF Page
  <2>. QED  BY <1>0, <1>1, <1>2, <1>3, <2>1, <2>2, PostReferences
<1>5. CASE page.session = 0
  <2>1. task' = [task EXCEPT ![t] = k] /\ UNCHANGED <<pending, wire, service, shown>>
    BY <1>5 DEF Submit, k, r
  <2>2. TypeOK' /\ Stores' = Stores
    BY <1>2, <1>3, <2>1 DEF TypeInv, TypeOK, Stores
  <2>3. References'
    BY <1>0, <1>1, <1>2, <1>3, <2>1, <2>2 DEF TypeInv, References
  <2>. QED  BY <2>1, <2>2, <2>3 DEF TypeInv
<1>. QED  BY <1>4, <1>5

\* A decision is written into its row and nowhere else.
LEMMA DecidedRow ==
  ASSUME TypeInv, NEW id \in Stores, Decide(id)
  PROVE  /\ service' \in [stored : Seq(Stored), sessions : Session, keys : Key]
         /\ Len(service'.stored) = Len(service.stored) /\ Stores' = Stores
         /\ \A a \in Stores : /\ service'.stored[a].request = service.stored[a].request
                              /\ a # id => service'.stored[a] = service.stored[a]
         /\ service.stored[id].status = "waiting" /\ Decided(service'.stored[id].status)
<1>. DEFINE old == service.stored
<1>0. /\ service \in [stored : Seq(Stored), sessions : Session, keys : Key]
      /\ old \in Seq(Stored) /\ id \in 1..Len(old) /\ old[id] \in Stored /\ Stores = 1..Len(old)
  BY StoresAreIds DEF TypeInv
<1>1. ASSUME NEW status \in {"succeeded", "failed"}, NEW next \in Step \union {"none"},
             service' = [service EXCEPT !.stored[id].status = status, !.stored[id].next = next]
      PROVE  /\ service' \in [stored : Seq(Stored), sessions : Session, keys : Key]
             /\ Len(service'.stored) = Len(service.stored) /\ Stores' = Stores
             /\ \A a \in Stores : /\ service'.stored[a].request = service.stored[a].request
                                  /\ a # id => service'.stored[a] = service.stored[a]
             /\ service'.stored[id].status = status
  <2>. DEFINE new == [old[id] EXCEPT !.status = status, !.next = next]
  <2>1. new \in Stored /\ new.request = old[id].request /\ new.status = status
    BY <1>0 DEF Stored, Status
  <2>2. service' = [service EXCEPT !.stored = [old EXCEPT ![id] = new]]
    BY <1>0, <1>1
  <2>. HIDE DEF new
  <2>3. service'.stored = [old EXCEPT ![id] = new]
    BY <1>0, <2>2
  <2>4. service'.stored \in Seq(Stored) /\ Len(service'.stored) = Len(old)
    BY <1>0, <2>1, <2>3, ExceptSeq
  <2>5. service' \in [stored : Seq(Stored), sessions : Session, keys : Key]
    BY <1>0, <2>2, <2>3, <2>4
  <2>6. Stores' = Stores
    BY <1>0, <2>4 DEF Stores
  <2>7. \A a \in Stores : service'.stored[a] = IF a = id THEN new ELSE old[a]
    BY <1>0, <2>3
  <2>. QED  BY <1>0, <2>1, <2>4, <2>5, <2>6, <2>7
<1>2. Offers(old[id].request.purpose) \subseteq Step
  BY <1>0 DEF Offers, Step, Purpose, Stored, Request
<1>3. "failed" \in Step
  BY DEF Step
<1>. QED  BY <1>1, <1>2, <1>3 DEF Decide, Decided

\* The service.
LEMMA TypeServe == TypeInv /\ Serve => TypeInv'
<1>. SUFFICES ASSUME TypeInv, Serve
              PROVE  TypeInv'
  OBVIOUS
<1>0. /\ task \in [Tasks -> Task] /\ wire \subseteq Request
      /\ service \in [stored : Seq(Stored), sessions : Session, keys : Key]
      /\ Len(service.stored) <= MaxSubmissions
      /\ Stores = 1..Len(service.stored) /\ Stores \subseteq Id
      /\ \A id \in Stores : service.stored[id] \in Stored
  BY StoresAreIds DEF TypeInv, TypeOK
<1>grow. ASSUME UNCHANGED <<page, pending, shown>>, wire' \subseteq wire, task' \in [Tasks -> Task],
                service' \in [stored : Seq(Stored), sessions : Session, keys : Key],
                Len(service'.stored) <= MaxSubmissions, Stores \subseteq Stores',
                \A t \in Tasks : task'[t] # task[t] => task'[t].at = "accepted" /\ task'[t].id \in Stores'
         PROVE  TypeInv'
  <2>1. TypeOK'
    BY <1>0, <1>grow DEF TypeInv, TypeOK, Stores
  <2>2. References'
    BY <1>0, <1>grow DEF TypeInv, References
  <2>. QED  BY <1>grow, <2>1, <2>2 DEF TypeInv
<1>answer. ASSUME NEW r, NEW id \in Id, NEW status \in Status, Answer(r, id, status)
           PROVE  /\ task' \in [Tasks -> Task]
                  /\ \A t \in Tasks : task'[t] # task[t] => task'[t].at = "accepted" /\ task'[t].id = id
  <2>1. ASSUME NEW u \in Tasks
        PROVE  LET k == [task[u] EXCEPT !.at = "accepted", !.id = id, !.status = status] IN
               k \in Task /\ k.at = "accepted" /\ k.id = id
    BY <1>0 DEF Task
  <2>2. CASE UNCHANGED task
    BY <1>0, <2>2
  <2>3. CASE task' = [u \in Tasks |-> IF task[u].at = "post" /\ task[u].request = r
                                     THEN [task[u] EXCEPT !.at = "accepted", !.id = id, !.status = status]
                                     ELSE task[u]]
    BY <1>0, <2>1, <2>3
  <2>. QED  BY <1>answer, <2>2, <2>3 DEF Answer
<1>1. ASSUME NEW r \in wire, Deliver(r), Accept(r)
      PROVE  TypeInv'
  <2>. DEFINE row == [request |-> r, status |-> "waiting", next |-> "none"]
              n == Len(service.stored) + 1
  <2>1. row \in Stored
    BY <1>0 DEF Stored, Status
  <2>2. /\ service' = [service EXCEPT !.stored = Append(@, row)]
        /\ Answer(r, n, "waiting") /\ Len(service.stored) < MaxSubmissions
    BY <1>1 DEF Accept
  <2>3. service.stored \in Seq(Stored) /\ service'.stored = Append(service.stored, row)
    BY <1>0, <2>2
  <2>4. service'.stored \in Seq(Stored) /\ Len(service'.stored) = n /\ Stores' = 1..n
    BY <2>1, <2>3 DEF Stores
  <2>5. service' \in [stored : Seq(Stored), sessions : Session, keys : Key]
    BY <1>0, <2>2, <2>3, <2>4
  <2>6. n \in Id /\ n \in Stores' /\ Stores \subseteq Stores' /\ n <= MaxSubmissions
    BY <1>0, <2>2, <2>4 DEF Id
  <2>7. UNCHANGED <<page, pending, shown>> /\ wire' \subseteq wire
    BY <1>1 DEF Deliver
  <2>8. "waiting" \in Status
    BY DEF Status
  <2>. HIDE DEF row, n
  <2>9. /\ task' \in [Tasks -> Task]
        /\ \A t \in Tasks : task'[t] # task[t] => task'[t].at = "accepted" /\ task'[t].id = n
    BY <1>answer, <2>2, <2>6, <2>8
  <2>. QED  BY <1>grow, <2>4, <2>5, <2>6, <2>7, <2>9
<1>2. ASSUME NEW r \in wire, Deliver(r), Replay(r)
      PROVE  TypeInv'
  <2>1. PICK id \in Stores : Answer(r, id, service.stored[id].status)
    BY <1>2 DEF Replay, Found, Stores
  <2>2. service.stored[id].status \in Status /\ id \in Id
    BY <1>0 DEF Stored
  <2>3. UNCHANGED <<page, pending, shown, service>> /\ wire' \subseteq wire
    BY <1>2 DEF Deliver, Replay
  <2>. QED  BY <1>0, <1>grow, <1>answer, <2>1, <2>2, <2>3 DEF Stores
<1>3. ASSUME NEW r \in wire, Deliver(r), UNCHANGED <<task, service>>
      PROVE  TypeInv'
  BY <1>0, <1>3, <1>grow DEF Deliver, Stores
<1>4. ASSUME NEW id \in Stores, Decide(id)
      PROVE  TypeInv'
  BY <1>0, <1>4, <1>grow, DecidedRow DEF Decide
<1>. QED  BY <1>1, <1>2, <1>3, <1>4 DEF Serve, Deliver, Stores

LEMMA TypeProceed ==
  ASSUME TypeInv, NEW t \in Tasks, Proceed(t)
  PROVE  TypeInv'
<1>0. page \in Page /\ task \in [Tasks -> Task] /\ task[t] \in Task /\ pending \in [Lesson -> Pending]
      /\ Stores \subseteq Id /\ \A id \in Stores : service.stored[id] \in Stored
  BY StoresAreIds DEF TypeInv, TypeOK
<1>1. CASE SessionCreated(t)
  <2>. DEFINE new == service.sessions + 1
  <2>1. new \in Session /\ Post(t, task[t], new) /\ UNCHANGED shown
    BY <1>1 DEF SessionCreated, Session, TypeInv
  <2>2. page' = [page EXCEPT !.session = new]
    BY <1>1 DEF SessionCreated
  <2>. HIDE DEF new
  <2>3. /\ page' \in Page /\ page'.submission = page.submission /\ page'.route = page.route
        /\ page'.loading = page.loading /\ page'.lesson = page.lesson
        /\ page'.status = page.status /\ page'.timer = page.timer
    BY <1>0, <2>1, <2>2 DEF Page
  <2>4. task[t].request.lesson \in Lesson
    BY <1>1 DEF SessionCreated, TypeInv, References
  <2>. QED  BY <1>0, <2>1, <2>3, <2>4, PostReferences
<1>2. CASE RequestFails(t)
  <2>1. /\ page' \in Page /\ page'.submission = page.submission /\ page'.route = page.route
        /\ page'.loading = page.loading /\ page'.lesson = page.lesson
        /\ page'.status = page.status /\ page'.timer = page.timer
    <3>. DEFINE sent == IF task[t].resend THEN FALSE ELSE page.sent
    <3>1. sent \in BOOLEAN
      BY <1>0 DEF Page
    <3>2. page' = [page EXCEPT !.error = TRUE, !.checking = FALSE, !.sent = sent]
      BY <1>2 DEF RequestFails, FailedPage
    <3>. HIDE DEF sent
    <3>. QED  BY <1>0, <3>1, <3>2 DEF Page
  <2>2. task' = [task EXCEPT ![t] = Idle]
    BY <1>2 DEF RequestFails
  <2>. QED
    BY <1>0, <1>2, <2>1, <2>2, NoneTypes, PageAndTaskTypes DEF RequestFails, TypeInv, References
<1>3. CASE Accepted(t)
  <2>. DEFINE k == task[t]
              loading == [Load(k.request.lesson, k.id) EXCEPT !.resend = k.resend]
  <2>1. k.id \in Stores /\ k.id \in Id /\ k.id # 0 /\ k.request \in Request /\ k.status \in Status
    BY <1>0, <1>3, StoresAreIds DEF Accepted, TypeInv, References, Task
  <2>2. loading \in Task /\ loading.at = "submission" /\ loading.id = k.id
    <3>1. k.request.lesson \in Lesson \union {Nothing} /\ k.resend \in BOOLEAN
      BY <1>0, <2>1 DEF Request, Task
    <3>. QED  BY <2>1, <3>1, LoadType DEF Task
  <2>3. /\ page' = Show(page, k.id, k.status)
        /\ pending' = [pending EXCEPT ![k.request.lesson] = Note(k.request, k.id)]
        /\ (task' = [task EXCEPT ![t] = loading] \/ task' = [task EXCEPT ![t] = Idle])
        /\ UNCHANGED <<wire, service, shown>>
    BY <1>3 DEF Accepted
  <2>4. page' \in Page /\ page'.submission = k.id /\ page'.route = page.route
        /\ page'.loading = page.loading /\ page'.lesson = page.lesson
    <3>1. page' \in Page
      BY <1>0, <2>1, <2>3, ShowType
    <3>. QED  BY <1>0, <2>3, <3>1 DEF Show, Page
  <2>5. Note(k.request, k.id) \in Pending /\ Note(k.request, k.id).submission = k.id
    BY <2>1 DEF Note, Pending, Request
  <2>. HIDE DEF loading, k
  <2>6. TypeOK' /\ Stores' = Stores
    <3>1. pending' \in [Lesson -> Pending]
      BY <1>0, <2>3, <2>5 DEF TypeInv, TypeOK
    <3>2. task' \in [Tasks -> Task]
      BY <1>0, <2>2, <2>3, NoneTypes
    <3>. QED  BY <2>3, <2>4, <3>1, <3>2 DEF TypeInv, TypeOK, Stores
  <2>7. References'
    <3>1. \A u \in Tasks : task'[u] = task[u] \/ task'[u] = loading \/ task'[u] = Idle
      BY <1>0, <2>3
    <3>2. \A i \in Lesson : pending'[i] = pending[i] \/ pending'[i].submission = k.id
      BY <1>0, <2>3, <2>5
    <3>3. Idle.at = "idle"
      BY DEF Idle
    <3>. QED  BY <2>1, <2>2, <2>4, <2>6, <3>1, <3>2, <3>3 DEF TypeInv, References
  <2>. QED  BY <2>3, <2>6, <2>7 DEF TypeInv
<1>4. CASE ReadSubmission(t)
  <2>1. task[t].id \in Stores
    BY <1>4 DEF ReadSubmission, TypeInv, References
  <2>2. service.stored[task[t].id].status \in Status
    BY <1>0, <2>1 DEF Stored
  <2>. DEFINE c == [task[t] EXCEPT !.at = "read", !.status = service.stored[task[t].id].status]
  <2>3. task' = [task EXCEPT ![t] = c]
    BY <1>0, <1>4 DEF ReadSubmission
  <2>4. c \in Task /\ c.at = "read" /\ c.id = task[t].id
    BY <1>0, <2>2 DEF Task
  <2>. HIDE DEF c
  <2>5. /\ task' \in [Tasks -> Task]
        /\ \A u \in Tasks : task'[u] # task[u] => task'[u].at = "read" /\ task'[u].id \in Stores
    BY <1>0, <2>1, <2>3, <2>4
  <2>6. page' = page /\ OnlyPageAndTasks
    BY <1>4 DEF ReadSubmission, OnlyPageAndTasks
  <2>. QED  BY <1>0, <2>5, <2>6, PageAndTaskTypes DEF TypeInv, References
<1>5. CASE Loaded(t)
  <2>1. task[t].id \in Stores /\ task[t].id \in Id /\ task[t].status \in Status /\ task[t].id # 0
    BY <1>0, <1>5, StoresAreIds DEF Loaded, TypeInv, References, Task
  <2>2. page' = Show(page, task[t].id, task[t].status)
    BY <1>5 DEF Loaded
  <2>3. page' \in Page
    BY <1>0, <2>1, <2>2, ShowType
  <2>4. page'.submission = task[t].id /\ page'.route = page.route
        /\ page'.loading = page.loading /\ page'.lesson = page.lesson
    BY <1>0, <2>2 DEF Show, Page
  <2>5. \E c \in Task : task' = [task EXCEPT ![t] = c]
                        /\ (c = Idle \/ (c.at = "next" /\ c.id = task[t].id))
    <3>1. [task[t] EXCEPT !.at = "next"] \in Task
          /\ [task[t] EXCEPT !.at = "next"].at = "next" /\ [task[t] EXCEPT !.at = "next"].id = task[t].id
      BY <1>0 DEF Task
    <3>. QED  BY <1>5, <3>1, NoneTypes DEF Loaded
  <2>. QED  BY <1>0, <1>5, <2>1, <2>3, <2>4, <2>5, PageAndTaskTypes DEF Loaded, TypeInv, References
<1>6. CASE NextArrives(t)
  <2>1. task[t].id \in Stores /\ task[t].id \in Id
    BY <1>0, <1>6 DEF NextArrives, TypeInv, References
  <2>2. service.stored[task[t].id].next \in Step \union {"none"}
    BY <1>0, <2>1 DEF Stored
  <2>3. /\ page' \in Page /\ page'.submission = page.submission /\ page'.route = page.route
        /\ page'.loading = page.loading /\ page'.lesson = page.lesson
        /\ page'.status = page.status /\ page'.timer = page.timer
    BY <1>0, <1>6, <2>1, <2>2 DEF NextArrives, Page
  <2>4. /\ pending' = [pending EXCEPT ![task[t].request.lesson] = NotPending]
        /\ task' = [task EXCEPT ![t] = Idle] /\ shown' = shown \union {task[t].id}
        /\ UNCHANGED <<wire, service>>
    BY <1>6 DEF NextArrives
  <2>5. TypeOK' /\ Stores' = Stores
    BY <1>0, <2>1, <2>3, <2>4, NoneTypes DEF TypeInv, TypeOK, Stores
  <2>6. References'
    <3>1. \A u \in Tasks : task'[u] = task[u] \/ task'[u].at = "idle"
      BY <1>0, <2>4 DEF Idle
    <3>2. \A i \in Lesson : pending'[i] = pending[i] \/ pending'[i].submission = 0
      BY <1>0, <2>4 DEF NotPending
    <3>. QED  BY <2>3, <2>5, <3>1, <3>2 DEF TypeInv, References
  <2>. QED  BY <2>4, <2>5, <2>6 DEF TypeInv
<1>. QED  BY <1>1, <1>2, <1>3, <1>4, <1>5, <1>6 DEF Proceed

LEMMA TypePollAndClick == TypeInv /\ ((\E t \in Tasks : Poll(t)) \/ Click) => TypeInv'
<1>. SUFFICES ASSUME TypeInv, (\E t \in Tasks : Poll(t)) \/ Click
              PROVE  TypeInv'
  OBVIOUS
<1>0. page \in Page /\ task \in [Tasks -> Task] /\ page.route \in Lesson \union {Nothing}
      /\ Stores \subseteq Id /\ \A id \in Stores : service.stored[id] \in Stored
  BY StoresAreIds DEF TypeInv, TypeOK, Page
<1>none. NoSubmission(page) \in Page /\ NoSubmission(page).submission = 0
         /\ NoSubmission(page).status = "none" /\ ~NoSubmission(page).timer
         /\ NoSubmission(page).route = page.route
         /\ NoSubmission(page).loading = page.loading /\ NoSubmission(page).lesson = page.lesson
  BY <1>0, NoSubmissionType DEF NoSubmission, Page
<1>load. ASSUME NEW t \in Tasks, OnlyPageAndTasks, page.submission # 0,
                task' = [task EXCEPT ![t] = Load(page.route, page.submission)],
                page' \in Page, page'.submission = page.submission, page'.route = page.route,
                page'.loading = page.loading, page'.lesson = page.lesson
         PROVE  TypeInv'
  <2>1. page.submission \in Stores
    BY <1>load DEF TypeInv, References
  <2>. DEFINE k == Load(page.route, page.submission)
  <2>2. k \in Task /\ k.at = "submission" /\ k.id = page.submission
    BY <1>0, <2>1, LoadType
  <2>. HIDE DEF k
  <2>3. task' = [task EXCEPT ![t] = k]
    BY <1>load DEF k
  <2>4. /\ task' \in [Tasks -> Task]
        /\ \A u \in Tasks : task'[u] # task[u] =>
               task'[u].at \in {"submission", "read", "next"} /\ task'[u].id \in Stores
    BY <1>0, <2>1, <2>2, <2>3
  <2>. QED  BY <1>load, <2>1, <2>4, PageAndTaskTypes DEF TypeInv, References
<1>1. ASSUME NEW t \in Tasks, Poll(t)
      PROVE  TypeInv'
  <2>1. /\ page' \in Page /\ page'.submission = page.submission /\ page'.route = page.route
        /\ page'.loading = page.loading /\ page'.lesson = page.lesson
    BY <1>0, <1>1 DEF Poll, Page
  <2>2. page.submission # 0 /\ OnlyPageAndTasks
        /\ task' = [task EXCEPT ![t] = Load(page.route, page.submission)]
    BY <1>1 DEF Poll, TypeInv, References
  <2>. QED  BY <1>load, <2>1, <2>2
<1>2. CASE ContinueFlow
  <2>1. NextParent \in Id /\ page.next \in Purpose
    BY <1>0, <1>2, NoneTypes DEF ContinueFlow, NextParent, Page
  <2>. DEFINE q == NoSubmission(page)
  <2>2. page' = [q EXCEPT !.purpose = page.next, !.parent = NextParent, !.text = Nothing,
                          !.error = FALSE, !.sent = FALSE, !.editor = TRUE]
    BY <1>2 DEF ContinueFlow
  <2>. HIDE DEF q
  <2>3. /\ page' \in Page /\ page'.submission = q.submission /\ page'.route = q.route
        /\ page'.loading = q.loading /\ page'.lesson = q.lesson
        /\ page'.status = q.status /\ page'.timer = q.timer
    BY <1>none, <2>1, <2>2 DEF Page, q
  <2>. QED
    BY <1>0, <1>2, <1>none, <2>3, PageAndTaskTypes
    DEF ContinueFlow, OnlyPage, OnlyPageAndTasks, TypeInv, References, q
<1>3. CASE RetryInfrastructureFailure
  <2>. DEFINE q == NoSubmission(page)
  <2>2. page' = [q EXCEPT !.error = FALSE, !.checking = FALSE, !.sent = FALSE, !.editor = TRUE]
        /\ pending' = [pending EXCEPT ![page.route] = NotPending]
        /\ UNCHANGED <<task, wire, service, shown>>
    BY <1>3 DEF RetryInfrastructureFailure
  <2>. HIDE DEF q
  <2>3. /\ page' \in Page /\ page'.submission = q.submission /\ page'.route = q.route
        /\ page'.loading = q.loading /\ page'.lesson = q.lesson
        /\ page'.status = q.status /\ page'.timer = q.timer
    BY <1>none, <2>2 DEF Page, q
  <2>4. TypeOK' /\ Stores' = Stores
    BY <2>2, <2>3, NoneTypes DEF TypeInv, TypeOK, Stores
  <2>5. References'
    <3>1. pending \in [Lesson -> Pending]
      BY DEF TypeInv, TypeOK
    <3>2. \A i \in Lesson : pending'[i] = pending[i] \/ pending'[i].submission = 0
      BY <2>2, <3>1 DEF NotPending
    <3>. QED  BY <1>none, <2>2, <2>3, <2>4, <3>2 DEF TypeInv, References, q
  <2>. QED  BY <2>2, <2>4, <2>5 DEF TypeInv
<1>4. CASE RetryResultRequest
  <2>1. /\ page' \in Page /\ page'.submission = page.submission /\ page'.route = page.route
        /\ page'.loading = page.loading /\ page'.lesson = page.lesson
        /\ page'.status = page.status /\ page'.timer = page.timer
    <3>1. CASE page' = [page EXCEPT !.error = FALSE, !.sent = FALSE, !.editor = TRUE]
      BY <1>0, <3>1 DEF Page
    <3>2. CASE page' = [page EXCEPT !.error = FALSE, !.checking = TRUE]
      BY <1>0, <3>2 DEF Page
    <3>. QED  BY <1>4, <3>1, <3>2 DEF RetryResultRequest
  <2>2. CASE UNCHANGED task
    BY <1>0, <1>4, <2>1, <2>2, PageAndTaskTypes DEF RetryResultRequest, TypeInv, References
  <2>3. CASE ~UNCHANGED task
    BY <1>4, <1>load, <2>1, <2>3 DEF RetryResultRequest
  <2>. QED  BY <2>2, <2>3
<1>. QED  BY <1>1, <1>2, <1>3, <1>4 DEF Click

LEMMA TypeStep == TypeInv /\ [Next]_vars => TypeInv'
<1>1. TypeInv /\ UNCHANGED vars => TypeInv'
  BY DEF vars, TypeInv, TypeOK, References, Stores
<1>. QED
  BY <1>1, TypeLeave, TypeStay, TypeSubmit, TypeServe, TypeProceed, TypePollAndClick DEF Next

\* Whatever the learner clicks and whatever is lost, page, handlers, local
\* storage and service keep their types, and a submission they name exists.
THEOREM ClientTypeCorrect == Spec => []TypeOK
<1>1. Spec => []TypeInv
  BY TypeInit, TypeStep, PTL DEF Spec
<1>. QED  BY <1>1, PTL DEF TypeInv

-----------------------------------------------------------------------------
(* Part 2: what holds of a settled learner. *)

Sending == {"session", "post", "accepted"}

Working == page.timer \/ \E t \in Tasks : task[t].at # "idle"

\* The submissions that page and handlers are about.
PageIds == ({page.submission, page.nextOf} \union {task[t].id : t \in Tasks}) \ {0}

SameKey(a, r) == a.session = r.session /\ a.key = r.key

\* One submission per session and key; what is stored or on its way was sent
\* from a lesson, with a session and a key.
ServiceInv ==
    /\ \A a, b \in Stores : SameKey(service.stored[a].request, service.stored[b].request) => a = b
    /\ \A id \in Stores :
          /\ service.stored[id].request.session # 0 /\ service.stored[id].request.lesson \in Lesson
          /\ service.stored[id].status # "none"
    /\ \A r \in wire : r.session # 0 /\ r.key # 0 /\ r.lesson \in Lesson

\* What local storage has written down.
PendingInv ==
    \A i \in Lesson :
        /\ pending[i] # NotPending => pending[i].session # 0 /\ pending[i].key # 0
        /\ pending[i].submission # 0 =>
              /\ service.stored[pending[i].submission].request.lesson = i
              /\ SameKey(pending[i], service.stored[pending[i].submission].request)

\* A request that may still be accepted is legal and has its key in local storage.
WireInv == \A r \in wire : Legal(r) /\ (Found(r) # {} \/ SameKey(pending[r.lesson], r))

DataInv == ServiceInv /\ PendingInv /\ WireInv /\ AcceptedIsRemembered

\* The lesson and the session of the page, and the parent of its item.
RouteInv ==
    /\ ~(page.loading /\ page.lesson)
    /\ page.route \in Lesson /\ pending[page.route] # NotPending =>
          page.session = pending[page.route].session
    /\ page.purpose # "assessment" =>
          Legal([Blank EXCEPT !.session = page.session, !.purpose = page.purpose, !.parent = page.parent])

\* Page and handlers are about one submission, of this lesson and session,
\* which is remembered or was shown.
SubjectInv ==
    /\ \A a, b \in PageIds : a = b
    /\ \A id \in PageIds :
          LET r == service.stored[id].request IN
          /\ id \in Stores /\ r.lesson = page.route /\ r.session = page.session
          /\ SameKey(pending[page.route], r) \/ (pending[page.route] = NotPending /\ id \in shown)

\* What the page shows is what the service has decided.
ResultInv ==
    /\ Decided(page.status) => service.stored[page.submission].status = page.status
    /\ page.next # "none" => page.nextOf # 0
    /\ page.nextOf # 0 =>
          /\ pending[page.route] = NotPending
          /\ service.stored[page.nextOf].next = page.next
          /\ Decided(service.stored[page.nextOf].status)

\* What a handler knows.
HandlerInv ==
    \A t \in Tasks :
        LET k == task[t] IN
        /\ k.at \in {"idle", "session", "post"} <=> k.id = 0
        /\ k.at # "idle" => k.request.lesson = page.route
        /\ k.at \in Sending => page.lesson
        /\ k.at = "session" =>
              /\ page.session = 0 /\ k.request.purpose = "assessment" /\ k.request.parent = 0
              /\ pending[page.route] = NotPending
        /\ k.at \in {"post", "accepted"} =>
              page.session = k.request.session /\ k.request.session # 0
              /\ SameKey(pending[page.route], k.request)
        /\ k.at = "accepted" => SameKey(service.stored[k.id].request, k.request)
        /\ k.at \in {"accepted", "read"} =>
              /\ k.status # "none"
              /\ Decided(k.status) => service.stored[k.id].status = k.status
        /\ k.at = "next" => Decided(service.stored[k.id].status)

\* At most one handler or the timer is at work, and the page says so; the next
\* step on the page is that of the submission on the page.
OneAtWork ==
    /\ \A t, u \in Tasks : task[t].at # "idle" /\ task[u].at # "idle" => t = u
    /\ page.timer => \A t \in Tasks : task[t].at = "idle"
    /\ Working => page.checking
    /\ page.nextOf # 0 => page.submission = page.nextOf
    /\ \A t \in Tasks : /\ task[t].at = "next" => page.submission = task[t].id
                        /\ task[t].at \in Sending => page.submission = 0

ViewInv == RouteInv /\ SubjectInv /\ ResultInv /\ HandlerInv /\ OneAtWork /\ CheckingMeansWork

SettledInv == TypeInv /\ DataInv /\ ViewInv

LEMMA SettledInit == Init => SettledInv
<1>. SUFFICES ASSUME Init
              PROVE  SettledInv
  OBVIOUS
<1>1. /\ page = FreshPage /\ pending = [i \in Lesson |-> NotPending] /\ task = [t \in Tasks |-> Idle]
      /\ wire = {} /\ service.stored = <<>> /\ Stores = {}
  BY DEF Init, Stores
<1>2. PageIds = {}
  BY <1>1 DEF PageIds, FreshPage, Idle
<1>3. TypeInv
  BY TypeInit
<1>4. DataInv
  BY <1>1 DEF DataInv, ServiceInv, PendingInv, WireInv, AcceptedIsRemembered, Unseen, Stores, NotPending
<1>5. ViewInv
  BY <1>1, <1>2 DEF ViewInv, RouteInv, SubjectInv, ResultInv, HandlerInv, OneAtWork,
     CheckingMeansWork, FreshPage, Idle, Decided, Working, Sending
<1>. QED  BY <1>3, <1>4, <1>5 DEF SettledInv

\* Steps of the page alone.
LEMMA DataSame == DataInv /\ UNCHANGED <<pending, wire, service, shown>> => DataInv'
  BY DEF DataInv, ServiceInv, PendingInv, WireInv, AcceptedIsRemembered, Unseen, Stores, Legal, Found

LEMMA SubjectSame ==
  ASSUME SubjectInv, PageIds' \subseteq PageIds, UNCHANGED <<pending, service, shown>>,
         page'.route = page.route, page'.session = page.session
  PROVE  SubjectInv'
  BY DEF SubjectInv, Stores

LEMMA QuietIsIdle ==
  ASSUME SettledInv, ~Working
  PROVE  /\ ~page.checking /\ ~page.timer
         /\ \A t \in Tasks : task[t].at = "idle" /\ task[t].id = 0
  BY DEF SettledInv, ViewInv, HandlerInv, CheckingMeansWork, Working

\* The work that the page has after it restored the submission of lesson i.
Restoring(i) ==
    IF Saved(i).submission = 0 THEN \A t \in Tasks : task'[t].at = "idle" /\ task'[t].id = 0
    ELSE \E t \in Tasks : /\ task'[t] = Load(i, Saved(i).submission)
                          /\ \A u \in Tasks : u # t => task'[u].at = "idle" /\ task'[u].id = 0

\* Going to another route, or to the same one anew.
LEMMA EnterSettled ==
  ASSUME SettledInv, TypeInv', NEW q \in Page, ~q.checking, NEW i \in Lesson \union {Nothing},
         page' = Restored(Entered(q, i)), Restoring(i), UNCHANGED <<pending, wire, service, shown>>
  PROVE  SettledInv'
<1>0. pending \in [Lesson -> Pending]
  BY DEF SettledInv, TypeInv, TypeOK
<1>. DEFINE e == Entered(q, i)
            saved == Saved(i)
<1>1. /\ e \in Page /\ e.submission = 0 /\ e.nextOf = 0 /\ e.next = "none" /\ e.status = "none"
      /\ ~e.timer /\ e.route = i /\ e.loading = (i # Nothing) /\ ~e.lesson
      /\ e.purpose = "assessment" /\ ~e.error /\ e.session = q.session /\ ~e.checking
  BY EnteredType
<1>. HIDE DEF e
<1>2. page' = Restored(e) /\ saved \in Pending
  BY <1>0, NoneTypes DEF e, Saved
<1>3. saved = IF i \in Lesson THEN pending[i] ELSE NotPending
  BY DEF Saved
<1>4. /\ page'.submission = 0 /\ page'.nextOf = 0 /\ page'.next = "none" /\ page'.status = "none"
      /\ ~page'.timer /\ page'.route = i /\ page'.loading = (i # Nothing) /\ ~page'.lesson
      /\ page'.purpose = "assessment" /\ ~page'.error
      /\ saved # NotPending => page'.session = saved.session
      /\ page'.checking = (saved.submission # 0)
  <2>1. CASE saved = NotPending
    <3>1. page' = e /\ saved.submission = 0
      BY <1>1, <1>2, <2>1 DEF Restored, NotPending
    <3>. QED  BY <1>1, <2>1, <3>1 DEF Page
  <2>2. CASE saved # NotPending /\ saved.submission = 0
    <3>1. page' = [e EXCEPT !.session = saved.session]
      BY <1>1, <1>2, <2>2 DEF Restored
    <3>. QED  BY <1>1, <2>2, <3>1 DEF Page
  <2>3. CASE saved # NotPending /\ saved.submission # 0
    <3>1. page' = [e EXCEPT !.session = saved.session, !.sent = TRUE, !.editor = FALSE, !.checking = TRUE]
      BY <1>1, <1>2, <2>3 DEF Restored
    <3>2. saved.session \in Session
      BY <1>2 DEF Pending
    <3>. HIDE DEF saved
    <3>3. /\ page'.submission = 0 /\ page'.nextOf = 0 /\ page'.next = "none" /\ page'.status = "none"
          /\ ~page'.timer /\ page'.route = i /\ page'.loading = e.loading /\ ~page'.lesson
          /\ page'.purpose = "assessment" /\ ~page'.error
      BY <1>1, <3>1 DEF Page
    <3>4. page'.session = saved.session /\ page'.checking = TRUE
      BY <1>1, <3>1 DEF Page
    <3>. QED  BY <1>1, <2>3, <3>3, <3>4
  <2>. QED  BY <2>1, <2>2, <2>3
<1>5. CASE saved.submission = 0
  <2>1. \A t \in Tasks : task'[t].at = "idle" /\ task'[t].id = 0
    BY <1>5 DEF Restoring
  <2>2. PageIds' = {}
    BY <1>4, <2>1 DEF PageIds
  <2>3. ViewInv'
    BY <1>3, <1>4, <1>5, <2>1, <2>2
    DEF ViewInv, RouteInv, SubjectInv, ResultInv, HandlerInv, OneAtWork, CheckingMeansWork, Working,
        Sending, Decided
  <2>. QED  BY <2>3, DataSame DEF SettledInv
<1>6. CASE saved.submission # 0
  <2>. DEFINE id == saved.submission
  <2>1. PICK t \in Tasks : /\ task'[t] = Load(i, id)
                           /\ \A u \in Tasks : u # t => task'[u].at = "idle" /\ task'[u].id = 0
    BY <1>6 DEF Restoring
  <2>2. i \in Lesson /\ id \in Stores /\ id \in Id
    BY <1>3, <1>6, StoresAreIds DEF NotPending, SettledInv, TypeInv, References
  <2>3. task'[t].at = "submission" /\ task'[t].id = id /\ task'[t].request.lesson = i
    BY <2>1, <2>2, LoadType
  <2>4. PageIds' \subseteq {id}
    BY <1>4, <2>1, <2>3 DEF PageIds
  <2>5. /\ service.stored[id].request.lesson = i
        /\ SameKey(pending[i], service.stored[id].request) /\ pending[i] = saved
        /\ saved # NotPending
    BY <1>3, <1>6, <2>2 DEF SettledInv, DataInv, PendingInv, NotPending
  <2>6. SubjectInv'
    BY <1>4, <2>2, <2>4, <2>5 DEF SubjectInv, SameKey, Stores
  <2>7. HandlerInv'
    BY <1>4, <1>6, <2>1, <2>3 DEF HandlerInv, Sending
  <2>8. OneAtWork'
    BY <1>4, <1>6, <2>1, <2>3 DEF OneAtWork, Working, Sending
  <2>9. CheckingMeansWork'
    BY <2>3 DEF CheckingMeansWork
  <2>10. RouteInv' /\ ResultInv'
    BY <1>4, <2>5 DEF RouteInv, ResultInv, Decided
  <2>. QED  BY <2>6, <2>7, <2>8, <2>9, <2>10, DataSame DEF SettledInv, ViewInv
<1>. QED  BY <1>5, <1>6

LEMMA RestoringLoads ==
  ASSUME SettledInv, ~Working, NEW i \in Lesson, RestoreLoads(i)
  PROVE  Restoring(i)
<1>0. task \in [Tasks -> Task]
  BY DEF SettledInv, TypeInv, TypeOK
<1>. QED  BY <1>0, QuietIsIdle DEF RestoreLoads, Restoring

LEMMA SettledLeave == SettledInv /\ Quiet /\ Leave => SettledInv'
<1>. SUFFICES ASSUME SettledInv, Quiet, Leave
              PROVE  SettledInv'
  OBVIOUS
<1>0. page \in Page /\ TypeInv' /\ ~Working
  BY TypeLeave DEF SettledInv, TypeInv, TypeOK, Quiet, Working
<1>1. ASSUME NEW i \in Lesson, FollowLink(i)
      PROVE  SettledInv'
  <2>. DEFINE q == [page EXCEPT !.session = 0, !.editor = TRUE]
  <2>1. q \in Page /\ ~q.checking
    BY <1>0, QuietIsIdle, NoneTypes DEF Page
  <2>. HIDE DEF q
  <2>2. page' = Restored(Entered(q, i)) /\ Restoring(i) /\ UNCHANGED <<pending, wire, service, shown>>
    BY <1>0, <1>1, RestoringLoads DEF FollowLink, OnlyPageAndTasks, q
  <2>. QED  BY <1>0, <2>1, <2>2, EnterSettled
<1>2. ASSUME NEW i \in Lesson, Revisit(i)
      PROVE  SettledInv'
  <2>1. page' = Restored(Entered(page, i)) /\ Restoring(i) /\ UNCHANGED <<pending, wire, service, shown>>
    BY <1>0, <1>2, RestoringLoads DEF Revisit, OnlyPageAndTasks
  <2>. QED  BY <1>0, <2>1, QuietIsIdle, EnterSettled
<1>3. CASE GoHome
  <2>. DEFINE q == NoSubmission(page)
  <2>1. /\ q \in Page /\ q.submission = 0 /\ q.status = "none" /\ ~q.timer /\ q.nextOf = 0
        /\ q.next = "none" /\ q.session = page.session /\ q.purpose = page.purpose
        /\ q.parent = page.parent /\ q.checking = page.checking
    BY <1>0, NoSubmissionType DEF NoSubmission, Page
  <2>2. /\ page' = [q EXCEPT !.route = Nothing, !.loading = FALSE, !.lesson = FALSE,
                             !.editor = FALSE, !.sent = FALSE]
        /\ UNCHANGED <<pending, task, wire, service, shown>>
    BY <1>3 DEF GoHome, OnlyPage
  <2>. HIDE DEF q
  <2>3. /\ page'.submission = 0 /\ page'.status = "none" /\ ~page'.timer /\ page'.nextOf = 0
        /\ page'.next = "none" /\ page'.session = page.session /\ page'.purpose = page.purpose
        /\ page'.parent = page.parent /\ page'.checking = page.checking
        /\ page'.route = Nothing /\ ~page'.loading /\ ~page'.lesson
    BY <2>1, <2>2 DEF Page
  <2>4. ~page'.checking /\ \A t \in Tasks : task'[t].at = "idle" /\ task'[t].id = 0
    BY <1>0, <2>2, <2>3, QuietIsIdle
  <2>5. PageIds' = {}
    BY <2>3, <2>4 DEF PageIds
  <2>6. RouteInv'
    BY <2>2, <2>3 DEF RouteInv, SettledInv, ViewInv, Legal
  <2>7. ViewInv'
    BY <2>3, <2>4, <2>5, <2>6
    DEF ViewInv, SubjectInv, ResultInv, HandlerInv, OneAtWork, CheckingMeansWork, Working, Sending,
        Decided
  <2>. QED  BY <1>0, <2>2, <2>7, DataSame DEF SettledInv
<1>. QED  BY <1>1, <1>2, <1>3 DEF Leave

LEMMA SettledReload == SettledInv /\ Reload => SettledInv'
<1>. SUFFICES ASSUME SettledInv, Reload
              PROVE  SettledInv'
  OBVIOUS
<1>0. page.route \in Lesson \union {Nothing} /\ TypeInv'
  BY TypeStay DEF SettledInv, TypeInv, TypeOK, Page
<1>1. FreshPage \in Page /\ ~FreshPage.checking
  BY NoneTypes DEF FreshPage
<1>2. page' = Restored(Entered(FreshPage, page.route)) /\ UNCHANGED <<pending, wire, service, shown>>
  BY DEF Reload, OnlyPageAndTasks
<1>3. Restoring(page.route)
  <2>1. task' = [t \in Tasks |-> IF t = 1 /\ Saved(page.route).submission # 0
                                THEN Load(page.route, Saved(page.route).submission) ELSE Idle]
    BY DEF Reload
  <2>2. 1 \in Tasks /\ Idle.at = "idle" /\ Idle.id = 0
    BY DEF Tasks, Idle
  <2>. QED  BY <2>1, <2>2 DEF Restoring
<1>. QED  BY <1>0, <1>1, <1>2, <1>3, EnterSettled

\* Steps of the page that leave what it is about, and its work, alone.
LEMMA SettledPage ==
  ASSUME SettledInv, TypeInv', UNCHANGED <<pending, task, wire, service, shown>>,
         page'.submission = page.submission, page'.nextOf = page.nextOf, page'.next = page.next,
         page'.status = page.status, page'.timer = page.timer, page'.checking = page.checking,
         page'.route = page.route, page'.session = page.session, page'.purpose = page.purpose,
         page'.parent = page.parent, page.lesson => page'.lesson, ~(page'.loading /\ page'.lesson)
  PROVE  SettledInv'
<1>1. PageIds' = PageIds /\ Working' = Working
  BY DEF PageIds, Working
<1>2. RouteInv'
  BY DEF SettledInv, ViewInv, RouteInv, Legal
<1>3. SubjectInv' /\ ResultInv'
  BY <1>1, SubjectSame DEF SettledInv, ViewInv, ResultInv
<1>4. HandlerInv' /\ CheckingMeansWork'
  BY DEF SettledInv, ViewInv, HandlerInv, CheckingMeansWork
<1>5. OneAtWork'
  BY <1>1 DEF SettledInv, ViewInv, OneAtWork
<1>. QED  BY <1>2, <1>3, <1>4, <1>5, DataSame DEF SettledInv, ViewInv

LEMMA SettledAskArriveAndWrite == SettledInv /\ (Ask \/ Arrive \/ Write) => SettledInv'
<1>. SUFFICES ASSUME SettledInv, Ask \/ Arrive \/ Write
              PROVE  SettledInv'
  OBVIOUS
<1>0. page \in Page /\ TypeInv' /\ ~(page.loading /\ page.lesson)
  BY TypeStay DEF SettledInv, TypeInv, TypeOK, ViewInv, RouteInv
<1>1. CASE Arrive /\ LessonArrives
  <2>1. /\ page' = [page EXCEPT !.loading = FALSE, !.lesson = TRUE, !.editor = TRUE]
        /\ UNCHANGED <<pending, task, wire, service, shown>> /\ page.loading
    BY <1>1 DEF Arrive, LessonArrives, OnlyPage
  <2>. QED  BY <1>0, <2>1, SettledPage DEF Page
<1>2. CASE Arrive /\ LessonFails
  <2>1. /\ page' = [page EXCEPT !.loading = FALSE, !.error = TRUE]
        /\ UNCHANGED <<pending, task, wire, service, shown>> /\ page.loading
    BY <1>2 DEF Arrive, LessonFails, OnlyPage
  <2>. QED  BY <1>0, <2>1, SettledPage DEF Page
<1>3. CASE Write
  <2>1. /\ \/ \E x \in Text : page' = [page EXCEPT !.text = x]
           \/ page' = [page EXCEPT !.editor = FALSE] \/ page' = [page EXCEPT !.editor = TRUE]
        /\ UNCHANGED <<pending, task, wire, service, shown>> /\ page.lesson
    BY <1>3 DEF Write, Edit, CloseDrawer, OpenDrawer, Drawer, OnlyPage
  <2>. QED  BY <1>0, <2>1, SettledPage DEF Page
<1>4. CASE Ask
  BY <1>0, <1>4, AskedPage, SettledPage DEF Ask, OnlyPage
<1>. QED  BY <1>1, <1>2, <1>3, <1>4 DEF Arrive

\* Pages that differ in neither route, session nor item.
SamePlace ==
    /\ page'.route = page.route /\ page'.session = page.session
    /\ page'.loading = page.loading /\ page'.lesson = page.lesson
    /\ page'.purpose = page.purpose /\ page'.parent = page.parent

LEMMA RouteSame ==
  ASSUME RouteInv, SamePlace, UNCHANGED <<pending, service>>
  PROVE  RouteInv'
  BY DEF RouteInv, SamePlace, Legal

\* What a handler says of itself stays true while the rest stays.
LEMMA HandlersSame ==
  ASSUME SettledInv, SamePlace, UNCHANGED <<pending, service>>, NEW t \in Tasks, NEW k \in Task,
         task' = [task EXCEPT ![t] = k],
         k.at \notin Sending, k.at = "idle" <=> k.id = 0, k.at # "idle" => k.request.lesson = page.route,
         k.at = "read" => k.status # "none" /\ k.status = service.stored[k.id].status,
         k.at = "next" => Decided(service.stored[k.id].status)
  PROVE  HandlerInv'
<1>1. task \in [Tasks -> Task]
  BY DEF SettledInv, TypeInv, TypeOK
<1>2. \A u \in Tasks : task'[u] = IF u = t THEN k ELSE task[u]
  BY <1>1
<1>. QED  BY <1>2 DEF SettledInv, ViewInv, HandlerInv, SamePlace, Sending

LEMMA SettledFails ==
  ASSUME SettledInv, NEW t \in Tasks, RequestFails(t)
  PROVE  SettledInv'
<1>0. page \in Page /\ task \in [Tasks -> Task] /\ TypeInv'
  BY TypeProceed DEF SettledInv, TypeInv, TypeOK, Proceed
<1>1. /\ page' = FailedPage(task[t]) /\ task' = [task EXCEPT ![t] = Idle]
      /\ UNCHANGED <<pending, wire, service, shown>> /\ task[t].at # "idle"
  BY DEF RequestFails, OnlyPageAndTasks
<1>2. /\ SamePlace /\ page'.submission = page.submission /\ page'.nextOf = page.nextOf
      /\ page'.next = page.next /\ page'.status = page.status /\ page'.timer = page.timer
      /\ ~page'.checking
  BY <1>0, <1>1 DEF FailedPage, Page, SamePlace
<1>3. Idle.at = "idle" /\ Idle.id = 0 /\ Idle \in Task
  BY NoneTypes DEF Idle
<1>4. \A u \in Tasks : task'[u] = IF u = t THEN Idle ELSE task[u]
  BY <1>0, <1>1
<1>5. PageIds' \subseteq PageIds
  BY <1>2, <1>3, <1>4 DEF PageIds
<1>6. RouteInv' /\ SubjectInv' /\ ResultInv'
  BY <1>1, <1>2, <1>5, RouteSame, SubjectSame DEF SettledInv, ViewInv, ResultInv, SamePlace
<1>7. HandlerInv'
  BY <1>1, <1>2, <1>3, HandlersSame DEF Sending
<1>8. OneAtWork' /\ CheckingMeansWork'
  <2>1. /\ ~page.timer /\ \A u \in Tasks : u # t => task[u].at = "idle"
        /\ page.nextOf # 0 => page.submission = page.nextOf
    BY <1>1 DEF SettledInv, ViewInv, OneAtWork
  <2>2. ~Working' /\ \A u \in Tasks : task'[u].at = "idle"
    BY <1>2, <1>3, <1>4, <2>1 DEF Working
  <2>. QED  BY <1>2, <2>1, <2>2 DEF OneAtWork, CheckingMeansWork, Sending
<1>. QED  BY <1>0, <1>1, <1>6, <1>7, <1>8, DataSame DEF SettledInv, ViewInv

LEMMA SettledRead ==
  ASSUME SettledInv, NEW t \in Tasks, ReadSubmission(t)
  PROVE  SettledInv'
<1>. DEFINE k == [task[t] EXCEPT !.at = "read", !.status = service.stored[task[t].id].status]
<1>0. page \in Page /\ task \in [Tasks -> Task] /\ TypeInv'
  BY TypeProceed DEF SettledInv, TypeInv, TypeOK, Proceed
<1>1. /\ task' = [task EXCEPT ![t] = k] /\ task[t].at = "submission"
      /\ UNCHANGED <<page, pending, wire, service, shown>>
  BY <1>0 DEF ReadSubmission
<1>2. task[t].id \in Stores
  BY <1>1 DEF SettledInv, TypeInv, References
<1>3. service.stored[task[t].id].status \in Status /\ service.stored[task[t].id].status # "none"
  BY <1>2, StoresAreIds DEF SettledInv, DataInv, ServiceInv, Stored
<1>4. /\ k \in Task /\ k.at = "read" /\ k.id = task[t].id /\ k.request = task[t].request
      /\ k.status = service.stored[k.id].status
  BY <1>0, <1>3 DEF Task
<1>. HIDE DEF k
<1>5. \A u \in Tasks : task'[u] = IF u = t THEN k ELSE task[u]
  BY <1>0, <1>1
<1>6. PageIds' \subseteq PageIds /\ SamePlace
  BY <1>1, <1>4, <1>5 DEF PageIds, SamePlace
<1>7. RouteInv' /\ SubjectInv' /\ ResultInv'
  BY <1>1, <1>6, RouteSame, SubjectSame DEF SettledInv, ViewInv, ResultInv, SamePlace
<1>8. HandlerInv'
  <2>1. k.id # 0 /\ k.request.lesson = page.route
    BY <1>1, <1>4 DEF SettledInv, ViewInv, HandlerInv
  <2>. QED  BY <1>1, <1>3, <1>4, <1>6, <2>1, HandlersSame DEF Sending
<1>9. OneAtWork' /\ CheckingMeansWork'
  <2>1. \A u \in Tasks : task'[u].at = "idle" <=> task[u].at = "idle"
    BY <1>1, <1>4, <1>5
  <2>2. Working' = Working
    BY <1>1, <2>1 DEF Working
  <2>. QED  BY <1>1, <1>4, <1>5, <2>1, <2>2
            DEF SettledInv, ViewInv, OneAtWork, CheckingMeansWork, Sending
<1>. QED  BY <1>0, <1>1, <1>7, <1>8, <1>9, DataSame DEF SettledInv, ViewInv

LEMMA SettledLoaded ==
  ASSUME SettledInv, NEW t \in Tasks, Loaded(t)
  PROVE  SettledInv'
<1>. DEFINE k == task[t]
            next == [k EXCEPT !.at = "next"]
            c == IF Decided(k.status) THEN next ELSE Idle
<1>0. page \in Page /\ task \in [Tasks -> Task] /\ TypeInv'
  BY TypeProceed DEF SettledInv, TypeInv, TypeOK, Proceed
<1>1. /\ page' = Show(page, k.id, k.status) /\ task' = [task EXCEPT ![t] = c] /\ k.at = "read"
      /\ UNCHANGED <<pending, wire, service, shown>>
  BY DEF Loaded, OnlyPageAndTasks
<1>2. /\ SamePlace /\ page'.submission = k.id /\ page'.nextOf = page.nextOf /\ page'.next = page.next
      /\ page'.status = k.status /\ page'.timer = (k.status = "waiting")
      /\ page'.checking = page.checking /\ page'.error = page.error
  BY <1>0, <1>1 DEF Show, Page, SamePlace
<1>3. /\ k.id \in Stores /\ k.id # 0 /\ k.request.lesson = page.route /\ k.status # "none"
      /\ Decided(k.status) => service.stored[k.id].status = k.status
      /\ k.status \in Status
  BY <1>0, <1>1 DEF SettledInv, TypeInv, References, ViewInv, HandlerInv, Task
<1>4. /\ c \in Task /\ c.at = (IF Decided(k.status) THEN "next" ELSE "idle")
      /\ c.id = (IF Decided(k.status) THEN k.id ELSE 0)
      /\ Decided(k.status) => c.request = k.request
      /\ Decided(k.status) <=> k.status # "waiting"
  BY <1>0, <1>3, NoneTypes DEF Idle, Task, Decided, Status
<1>5. \A u \in Tasks : task'[u] = IF u = t THEN c ELSE task[u]
  BY <1>0, <1>1, <1>4
<1>. HIDE DEF c, k
<1>6. PageIds' \subseteq PageIds
  BY <1>2, <1>3, <1>4, <1>5 DEF PageIds, k
<1>7. RouteInv' /\ SubjectInv'
  BY <1>1, <1>2, <1>6, RouteSame, SubjectSame DEF SettledInv, ViewInv, SamePlace
<1>8. ResultInv'
  BY <1>1, <1>2, <1>3 DEF SettledInv, ViewInv, ResultInv, SamePlace
<1>9. HandlerInv'
  BY <1>1, <1>2, <1>3, <1>4, HandlersSame DEF Sending
<1>10. CheckingMeansWork'
  <2>1. page'.timer \/ task'[t].at # "idle"
    BY <1>2, <1>4, <1>5
  <2>. QED  BY <2>1 DEF CheckingMeansWork
<1>11. OneAtWork'
  <2>1. /\ page.checking /\ \A u \in Tasks : u # t => task[u].at = "idle"
    BY <1>1 DEF SettledInv, ViewInv, OneAtWork, Working, k
  <2>2. page'.nextOf # 0 => page'.submission = page'.nextOf
    <3>1. k.id \in PageIds /\ (page.nextOf # 0 => page.nextOf \in PageIds)
      BY <1>3 DEF PageIds, k
    <3>. QED  BY <1>2, <3>1 DEF SettledInv, ViewInv, SubjectInv
  <2>3. /\ page'.checking
        /\ \A u \in Tasks : task'[u].at # "idle" =>
               u = t /\ task'[u].at = "next" /\ task'[u].id = page'.submission /\ ~page'.timer
    BY <1>2, <1>4, <1>5, <2>1
  <2>. QED  BY <2>2, <2>3 DEF OneAtWork, Sending
<1>. QED  BY <1>0, <1>1, <1>7, <1>8, <1>9, <1>10, <1>11, DataSame DEF SettledInv, ViewInv

\* A load of the submission on the page begins, by the timer or by a click.
LEMMA SettledLoads ==
  ASSUME SettledInv, TypeInv', NEW t \in Tasks, task[t].at = "idle", page.submission # 0, SamePlace,
         task' = [task EXCEPT ![t] = Load(page.route, page.submission)],
         UNCHANGED <<pending, wire, service, shown>>,
         page'.submission = page.submission, page'.nextOf = page.nextOf, page'.next = page.next,
         page'.status = page.status, page'.checking, ~page'.timer,
         \A u \in Tasks : task[u].at = "idle"
  PROVE  SettledInv'
<1>. DEFINE k == Load(page.route, page.submission)
<1>0. page \in Page /\ task \in [Tasks -> Task] /\ page.submission \in Id
      /\ page.route \in Lesson \union {Nothing}
  BY DEF SettledInv, TypeInv, TypeOK, Page
<1>1. k \in Task /\ k.at = "submission" /\ k.id = page.submission /\ k.request.lesson = page.route
  BY <1>0, LoadType
<1>2. task' = [task EXCEPT ![t] = k]
  OBVIOUS
<1>. HIDE DEF k
<1>3. \A u \in Tasks : task'[u] = IF u = t THEN k ELSE task[u]
  BY <1>0, <1>2
<1>4. PageIds' \subseteq PageIds
  BY <1>1, <1>3 DEF PageIds
<1>5. RouteInv' /\ SubjectInv' /\ ResultInv'
  BY <1>4, RouteSame, SubjectSame DEF SettledInv, ViewInv, ResultInv, SamePlace
<1>6. HandlerInv'
  BY <1>1, <1>2, HandlersSame DEF Sending
<1>7. OneAtWork' /\ CheckingMeansWork'
  BY <1>1, <1>3
  DEF SettledInv, ViewInv, OneAtWork, CheckingMeansWork, Sending, SamePlace, Working
<1>. QED  BY <1>5, <1>6, <1>7, DataSame DEF SettledInv, ViewInv

LEMMA SettledPoll ==
  ASSUME SettledInv, NEW t \in Tasks, Poll(t)
  PROVE  SettledInv'
<1>0. page \in Page /\ TypeInv'
  BY TypePollAndClick DEF SettledInv, TypeInv, TypeOK
<1>1. /\ task[t].at = "idle" /\ page.timer /\ page' = [page EXCEPT !.timer = FALSE]
      /\ task' = [task EXCEPT ![t] = Load(page.route, page.submission)]
      /\ UNCHANGED <<pending, wire, service, shown>>
  BY DEF Poll, Free, OnlyPageAndTasks
<1>2. /\ SamePlace /\ page'.submission = page.submission /\ page'.nextOf = page.nextOf
      /\ page'.next = page.next /\ page'.status = page.status /\ ~page'.timer
      /\ page'.checking = page.checking
  BY <1>0, <1>1 DEF Page, SamePlace
<1>3. page.submission # 0
  BY <1>1 DEF SettledInv, TypeInv, References
<1>4. page.checking /\ \A u \in Tasks : task[u].at = "idle"
  BY <1>1 DEF SettledInv, ViewInv, OneAtWork, Working
<1>. QED  BY <1>0, <1>1, <1>2, <1>3, <1>4, SettledLoads

LEMMA SettledClick == SettledInv /\ ~page.checking /\ Click => SettledInv'
<1>. SUFFICES ASSUME SettledInv, ~page.checking, Click
              PROVE  SettledInv'
  OBVIOUS
<1>0. page \in Page /\ task \in [Tasks -> Task] /\ pending \in [Lesson -> Pending] /\ TypeInv'
  BY TypePollAndClick DEF SettledInv, TypeInv, TypeOK
<1>idle. ~page.timer /\ \A t \in Tasks : task[t].at = "idle" /\ task[t].id = 0
  BY QuietIsIdle DEF SettledInv, ViewInv, OneAtWork
<1>. DEFINE q == NoSubmission(page)
<1>none. /\ q \in Page /\ q.submission = 0 /\ q.status = "none" /\ ~q.timer /\ q.nextOf = 0
         /\ q.next = "none" /\ q.session = page.session /\ q.route = page.route
         /\ q.loading = page.loading /\ q.lesson = page.lesson /\ q.purpose = page.purpose
         /\ q.parent = page.parent /\ q.checking = page.checking
  <2>1. q \in Page
    BY <1>0, NoSubmissionType
  <2>. QED  BY <1>0, <2>1 DEF NoSubmission, Page
<1>1. CASE ContinueFlow
  <2>1. /\ page' = [q EXCEPT !.purpose = page.next, !.parent = NextParent, !.text = Nothing,
                             !.error = FALSE, !.sent = FALSE, !.editor = TRUE]
        /\ UNCHANGED <<pending, task, wire, service, shown>>
        /\ page.lesson /\ page.status = "succeeded" /\ page.next \in Purpose
    BY <1>1 DEF ContinueFlow, OnlyPage
  <2>2. /\ page.nextOf # 0 /\ page.submission = page.nextOf
        /\ service.stored[page.submission].next = page.next
        /\ service.stored[page.submission].status = "succeeded"
    BY <2>1 DEF SettledInv, ViewInv, ResultInv, OneAtWork, Decided, Purpose
  <2>3. ~page.checking /\ \A t \in Tasks : task'[t].at = "idle" /\ task'[t].id = 0
    BY <1>idle, <2>1
  <2>. HIDE DEF q
  <2>4. NextParent \in Id
    BY <1>0, NoneTypes DEF NextParent, Page
  <2>5. /\ page'.submission = 0 /\ page'.status = "none" /\ ~page'.timer /\ page'.nextOf = 0
        /\ page'.next = "none" /\ page'.session = page.session /\ page'.route = page.route
        /\ page'.loading = page.loading /\ page'.lesson = page.lesson /\ ~page'.checking
        /\ page'.purpose = page.next /\ page'.parent = NextParent
    BY <1>none, <2>1, <2>3, <2>4 DEF Page
  <2>6. page.submission \in PageIds
    BY <2>2 DEF PageIds
  <2>7. /\ page.submission \in Stores
        /\ service.stored[page.submission].request.session = page.session
    BY <2>6 DEF SettledInv, ViewInv, SubjectInv
  <2>8. RouteInv'
    <3>1. page'.purpose # "assessment" => page'.parent = page.submission
      BY <2>5 DEF NextParent
    <3>2. LET r == [Blank EXCEPT !.session = page'.session, !.purpose = page'.purpose,
                                 !.parent = page'.parent] IN
          r.session = page'.session /\ r.purpose = page'.purpose /\ r.parent = page'.parent
      BY DEF Blank
    <3>. QED  BY <2>1, <2>2, <2>5, <2>7, <3>1, <3>2
              DEF RouteInv, Legal, SettledInv, ViewInv, Stores
  <2>9. PageIds' = {}
    BY <2>3, <2>5 DEF PageIds
  <2>10. ViewInv'
    BY <2>3, <2>5, <2>8, <2>9
    DEF ViewInv, SubjectInv, ResultInv, HandlerInv, OneAtWork, CheckingMeansWork, Working, Sending,
        Decided
  <2>. QED  BY <1>0, <2>1, <2>10, DataSame DEF SettledInv
<1>2. CASE RetryInfrastructureFailure
  <2>1. /\ page' = [q EXCEPT !.error = FALSE, !.checking = FALSE, !.sent = FALSE, !.editor = TRUE]
        /\ pending' = [pending EXCEPT ![page.route] = NotPending]
        /\ UNCHANGED <<task, wire, service, shown>> /\ page.next = "failed"
    BY <1>2 DEF RetryInfrastructureFailure
  <2>2. page.nextOf # 0 /\ pending[page.route] = NotPending
    BY <2>1 DEF SettledInv, ViewInv, ResultInv
  <2>3. pending' = pending
    BY <1>0, <2>1, <2>2
  <2>. HIDE DEF q
  <2>4. /\ page'.submission = 0 /\ page'.status = "none" /\ ~page'.timer /\ page'.nextOf = 0
        /\ page'.next = "none" /\ ~page'.checking /\ SamePlace
    BY <1>none, <2>1 DEF Page, SamePlace
  <2>5. PageIds' \subseteq PageIds
    BY <2>1, <2>4 DEF PageIds
  <2>6. RouteInv' /\ SubjectInv' /\ ResultInv'
    BY <2>1, <2>3, <2>4, <2>5, RouteSame, SubjectSame
    DEF SettledInv, ViewInv, ResultInv, SamePlace, Decided
  <2>7. HandlerInv' /\ CheckingMeansWork'
    BY <2>1, <2>3, <2>4 DEF SettledInv, ViewInv, HandlerInv, CheckingMeansWork, SamePlace, Sending
  <2>8. OneAtWork'
    BY <1>idle, <2>1, <2>4 DEF OneAtWork, Working, Sending
  <2>. QED  BY <1>0, <2>1, <2>3, <2>6, <2>7, <2>8, DataSame DEF SettledInv, ViewInv
<1>3. CASE RetryResultRequest /\ page.submission = 0
  <2>1. /\ page' = [page EXCEPT !.error = FALSE, !.sent = FALSE, !.editor = TRUE]
        /\ UNCHANGED <<pending, task, wire, service, shown>> /\ page.lesson
    BY <1>3 DEF RetryResultRequest, OnlyPageAndTasks
  <2>2. ~(page.loading /\ page.lesson)
    BY DEF SettledInv, ViewInv, RouteInv
  <2>. QED  BY <1>0, <2>1, <2>2, SettledPage DEF Page
<1>4. CASE RetryResultRequest /\ page.submission # 0
  <2>1. PICK t \in Tasks : /\ task[t].at = "idle"
                           /\ task' = [task EXCEPT ![t] = Load(page.route, page.submission)]
    BY <1>4 DEF RetryResultRequest, Free
  <2>2. /\ page' = [page EXCEPT !.error = FALSE, !.checking = TRUE]
        /\ UNCHANGED <<pending, wire, service, shown>>
    BY <1>4 DEF RetryResultRequest, OnlyPageAndTasks
  <2>3. /\ SamePlace /\ page'.submission = page.submission /\ page'.nextOf = page.nextOf
        /\ page'.next = page.next /\ page'.status = page.status /\ page'.timer = page.timer
        /\ page'.checking
    BY <1>0, <2>2 DEF Page, SamePlace
  <2>. QED  BY <1>0, <1>4, <1>idle, <2>1, <2>2, <2>3, SettledLoads
<1>. QED  BY <1>1, <1>2, <1>3, <1>4 DEF Click

\* A submission is written down and sent.
LEMMA PostData ==
  ASSUME SettledInv, NEW t \in Tasks, NEW k \in Task, NEW session \in Session, session # 0,
         NEW i \in Lesson, k.request.lesson = i, Post(t, k, session), UNCHANGED shown,
         pending[i] # NotPending => session = pending[i].session,
         Legal([k.request EXCEPT !.session = session])
  PROVE  /\ DataInv'
         /\ service'.stored = service.stored
         /\ pending'[i].session = session /\ SameKey(pending'[i], task'[t].request)
         /\ task'[t].at = "post" /\ task'[t].id = k.id /\ task'[t].request.lesson = i
         /\ \A u \in Tasks : u # t => task'[u] = task[u]
<1>. DEFINE key == KeyFor(i)
            r == [k.request EXCEPT !.session = session, !.key = key]
            after == [k EXCEPT !.at = "post", !.request = r]
            n == Note(r, 0)
<1>0. /\ pending \in [Lesson -> Pending] /\ task \in [Tasks -> Task] /\ wire \subseteq Request
      /\ service \in [stored : Seq(Stored), sessions : Session, keys : Key]
  BY DEF SettledInv, TypeInv, TypeOK
<1>1. key \in Key /\ key # 0 /\ (pending[i] # NotPending => key = pending[i].key)
  BY <1>0 DEF Post, KeyFor, Pending, Key, SettledInv, DataInv, PendingInv
<1>2. /\ r \in Request /\ r.lesson = i /\ r.session = session /\ r.key = key
      /\ r.purpose = k.request.purpose /\ r.parent = k.request.parent
  <2>1. k.request \in Request
    BY DEF Task
  <2>. QED  BY <1>1, <2>1 DEF Request
<1>3. after \in Task /\ after.at = "post" /\ after.id = k.id /\ after.request = r
  BY <1>2 DEF Task
<1>4. /\ pending' = [pending EXCEPT ![i] = n] /\ task' = [task EXCEPT ![t] = after]
      /\ wire' = wire \union {r}
  BY <1>2 DEF Post
<1>5. service'.stored = service.stored
  BY <1>0 DEF Post
<1>6. n.session = session /\ n.key = key /\ n.submission = 0
  BY <1>2 DEF Note
<1>7. Legal(r)
  <2>1. LET q == [k.request EXCEPT !.session = session] IN
        q.session = session /\ q.purpose = k.request.purpose /\ q.parent = k.request.parent
    BY DEF Task, Request
  <2>. QED  BY <1>2, <2>1 DEF Legal
<1>. HIDE DEF key, r, after, n
<1>8. pending'[i] = n /\ \A j \in Lesson : j # i => pending'[j] = pending[j]
  BY <1>0, <1>4
<1>9. pending[i].session # 0 => SameKey(n, pending[i])
  BY <1>1, <1>6 DEF SameKey, NotPending
<1>10. ServiceInv'
  BY <1>1, <1>2, <1>4, <1>5 DEF SettledInv, DataInv, ServiceInv, Stores
<1>11. PendingInv'
  BY <1>1, <1>5, <1>6, <1>8 DEF SettledInv, DataInv, PendingInv
<1>12. WireInv'
  <2>1. ASSUME NEW s \in wire'
        PROVE  Legal(s)' /\ (Found(s)' # {} \/ SameKey(pending'[s.lesson], s))
    <3>1. s \in wire \/ s = r
      BY <1>4
    <3>2. CASE s = r
      BY <1>2, <1>5, <1>6, <1>7, <1>8, <3>2 DEF Legal, SameKey
    <3>3. CASE s \in wire
      <4>1. /\ Legal(s) /\ (Found(s) # {} \/ SameKey(pending[s.lesson], s))
            /\ s.session # 0 /\ s.lesson \in Lesson
        BY <3>3 DEF SettledInv, DataInv, WireInv, ServiceInv
      <4>2. Legal(s)' /\ Found(s)' = Found(s)
        BY <1>5, <4>1 DEF Legal, Found
      <4>. QED  BY <1>8, <1>9, <4>1, <4>2 DEF SameKey
    <3>. QED  BY <3>1, <3>2, <3>3
  <2>. QED  BY <2>1 DEF WireInv
<1>13. AcceptedIsRemembered'
  <2>1. ASSUME NEW j \in Lesson, NEW id \in Unseen(j)
        PROVE  SameKey(pending'[j], service.stored[id].request)
    <3>1. SameKey(pending[j], service.stored[id].request) /\ service.stored[id].request.session # 0
      BY DEF SettledInv, DataInv, ServiceInv, AcceptedIsRemembered, Unseen, Stores, SameKey
    <3>. QED  BY <1>8, <1>9, <3>1 DEF SameKey
  <2>2. \A j \in Lesson : Unseen(j)' = Unseen(j)
    BY <1>5 DEF Unseen
  <2>. QED  BY <1>5, <2>1, <2>2 DEF AcceptedIsRemembered, SameKey
<1>14. task'[t] = after /\ \A u \in Tasks : u # t => task'[u] = task[u]
  BY <1>0, <1>4
<1>15. SameKey(n, r)
  BY <1>2, <1>6 DEF SameKey
<1>. QED
  BY <1>2, <1>3, <1>5, <1>6, <1>8, <1>10, <1>11, <1>12, <1>13, <1>14, <1>15 DEF DataInv

\* From a page at which nothing is under way a submission is sent.
LEMMA PostSettled ==
  ASSUME SettledInv, TypeInv', NEW t \in Tasks, NEW k \in Task, NEW session \in Session, session # 0,
         Post(t, k, session), UNCHANGED shown, k.id = 0,
         \A u \in Tasks : u # t => task[u].at = "idle" /\ task[u].id = 0,
         page.route \in Lesson, k.request.lesson = page.route, page.lesson,
         pending[page.route] # NotPending => session = pending[page.route].session,
         page.purpose # "assessment" => page.session = session,
         Legal([k.request EXCEPT !.session = session]),
         page.submission = 0,
         page'.submission = 0, page'.nextOf = 0, page'.next = "none", page'.status = "none",
         ~page'.timer, page'.checking, page'.session = session,
         page'.route = page.route, page'.loading = page.loading, page'.lesson = page.lesson,
         page'.purpose = page.purpose, page'.parent = page.parent
  PROVE  SettledInv'
<1>1. /\ DataInv' /\ service'.stored = service.stored
      /\ pending'[page.route].session = session
      /\ SameKey(pending'[page.route], task'[t].request)
      /\ task'[t].at = "post" /\ task'[t].id = 0 /\ task'[t].request.lesson = page.route
      /\ \A u \in Tasks : u # t => task'[u] = task[u]
  BY PostData
<1>2. PageIds' = {}
  BY <1>1 DEF PageIds
<1>3. RouteInv'
  BY <1>1 DEF RouteInv, SettledInv, ViewInv, Legal
<1>4. SubjectInv' /\ ResultInv'
  BY <1>2 DEF SubjectInv, ResultInv, Decided
<1>5. HandlerInv'
  BY <1>1 DEF HandlerInv, Sending, SameKey
<1>6. OneAtWork' /\ CheckingMeansWork'
  BY <1>1 DEF OneAtWork, CheckingMeansWork, Working, Sending
<1>. QED  BY <1>1, <1>3, <1>4, <1>5, <1>6 DEF SettledInv, ViewInv

\* Without a session, nothing was submitted from the page.
LEMMA NoSession ==
  ASSUME SettledInv, page.session = 0
  PROVE  page.purpose = "assessment" /\ (page.route \in Lesson => pending[page.route] = NotPending)
<1>1. CASE page.purpose # "assessment"
  <2>. DEFINE r == [Blank EXCEPT !.session = page.session, !.purpose = page.purpose,
                                 !.parent = page.parent]
  <2>1. r.session = 0 /\ r.purpose = page.purpose /\ r.parent = page.parent /\ Legal(r)
    BY <1>1 DEF SettledInv, ViewInv, RouteInv, Blank
  <2>. HIDE DEF r
  <2>2. page.parent \in Stores /\ service.stored[page.parent].request.session = 0
    BY <1>1, <2>1 DEF Legal, Stores
  <2>. QED  BY <2>2 DEF SettledInv, DataInv, ServiceInv
<1>2. ASSUME page.route \in Lesson, pending[page.route] # NotPending
      PROVE  FALSE
  BY <1>2 DEF SettledInv, ViewInv, RouteInv, DataInv, PendingInv
<1>. QED  BY <1>1, <1>2

LEMMA SettledSubmit ==
  ASSUME SettledInv, page.submission = 0, NEW t \in Tasks, Submit(t)
  PROVE  SettledInv'
<1>. DEFINE r == [Blank EXCEPT !.lesson = page.route, !.purpose = page.purpose, !.text = page.text,
                        !.parent = IF page.purpose = "assessment" THEN 0 ELSE page.parent]
            k == [Idle EXCEPT !.at = "session", !.request = r, !.resend = page.submission = 0]
<1>0. /\ page \in Page /\ page.route \in Lesson /\ task \in [Tasks -> Task] /\ TypeInv'
      /\ page.status = "none" /\ ~page.timer /\ page.lesson /\ ~page.checking
  BY TypeSubmit DEF Submit, Drawer, SettledInv, TypeInv, TypeOK, References
<1>1. /\ r \in Request /\ r.lesson = page.route /\ r.purpose = page.purpose
      /\ r.parent = IF page.purpose = "assessment" THEN 0 ELSE page.parent
  <2>. DEFINE parent == IF page.purpose = "assessment" THEN 0 ELSE page.parent
  <2>1. parent \in Id /\ page.purpose \in Purpose /\ page.text \in Text \union {Nothing}
    BY <1>0, NoneTypes DEF Page
  <2>2. r = [Blank EXCEPT !.lesson = page.route, !.purpose = page.purpose, !.text = page.text,
                          !.parent = parent]
    OBVIOUS
  <2>. HIDE DEF r, parent
  <2>3. r \in Request /\ r.lesson = page.route /\ r.purpose = page.purpose /\ r.parent = parent
    BY <1>0, <2>1, <2>2, NoneTypes DEF Request, Blank
  <2>. QED  BY <2>3 DEF parent
<1>2. k \in Task /\ k.request = r /\ k.at = "session" /\ k.id = 0
  BY <1>1, NoneTypes DEF Idle, Task
<1>3. /\ page'.submission = 0 /\ page'.nextOf = 0 /\ page'.next = "none" /\ page'.status = "none"
      /\ ~page'.timer /\ page'.checking /\ page'.session = page.session
      /\ page'.route = page.route /\ page'.loading = page.loading /\ page'.lesson = page.lesson
      /\ page'.purpose = page.purpose /\ page'.parent = page.parent
  BY <1>0, NoneTypes DEF Submit, Page
<1>4. ~Working
  BY <1>0 DEF SettledInv, ViewInv, OneAtWork
<1>5. \A u \in Tasks : task[u].at = "idle" /\ task[u].id = 0
  BY <1>4, QuietIsIdle
<1>. HIDE DEF k, r
<1>6. CASE page.session # 0
  <2>1. Post(t, k, page.session) /\ UNCHANGED shown
    BY <1>6 DEF Submit, k, r
  <2>2. page.session \in Session
    BY <1>0 DEF Page
  <2>3. pending[page.route] # NotPending => page.session = pending[page.route].session
    BY <1>0 DEF SettledInv, ViewInv, RouteInv
  <2>4. Legal([k.request EXCEPT !.session = page.session])
    <3>. DEFINE sent == [k.request EXCEPT !.session = page.session]
                asked == [Blank EXCEPT !.session = page.session, !.purpose = page.purpose,
                                       !.parent = page.parent]
    <3>1. /\ sent.session = page.session /\ sent.purpose = page.purpose
          /\ sent.parent = IF page.purpose = "assessment" THEN 0 ELSE page.parent
      BY <1>1, <1>2, <2>2 DEF Request
    <3>2. asked.session = page.session /\ asked.purpose = page.purpose /\ asked.parent = page.parent
      BY DEF Blank
    <3>3. page.purpose # "assessment" => Legal(asked)
      BY DEF SettledInv, ViewInv, RouteInv
    <3>. HIDE DEF sent, asked
    <3>4. Legal(sent)
      BY <3>1, <3>2, <3>3 DEF Legal
    <3>. QED  BY <3>4 DEF sent
  <2>. QED  BY <1>0, <1>1, <1>2, <1>3, <1>5, <1>6, <2>1, <2>2, <2>3, <2>4, PostSettled
<1>7. CASE page.session = 0
  <2>1. task' = [task EXCEPT ![t] = k] /\ UNCHANGED <<pending, wire, service, shown>>
    BY <1>7 DEF Submit, k, r
  <2>2. \A u \in Tasks : task'[u] = IF u = t THEN k ELSE task[u]
    BY <1>0, <1>2, <2>1
  <2>3. PageIds' = {}
    BY <1>2, <1>3, <1>5, <2>2 DEF PageIds
  <2>4. page.purpose = "assessment" /\ pending[page.route] = NotPending
    BY <1>0, <1>7, NoSession
  <2>5. RouteInv' /\ SubjectInv' /\ ResultInv'
    BY <1>3, <2>1, <2>3, <2>4
    DEF SettledInv, ViewInv, RouteInv, SubjectInv, ResultInv, Decided
  <2>6. HandlerInv'
    BY <1>0, <1>1, <1>2, <1>3, <1>5, <1>7, <2>1, <2>2, <2>4 DEF HandlerInv, Sending
  <2>7. OneAtWork' /\ CheckingMeansWork'
    BY <1>2, <1>3, <1>5, <2>2 DEF OneAtWork, CheckingMeansWork, Working, Sending
  <2>. QED  BY <1>0, <2>1, <2>5, <2>6, <2>7, DataSame DEF SettledInv, ViewInv
<1>. QED  BY <1>6, <1>7

LEMMA SettledSessionCreated ==
  ASSUME SettledInv, NEW t \in Tasks, SessionCreated(t)
  PROVE  SettledInv'
<1>. DEFINE k == task[t]
            new == service.sessions + 1
<1>0. page \in Page /\ task \in [Tasks -> Task] /\ TypeInv' /\ page.route \in Lesson \union {Nothing}
  BY TypeProceed DEF SettledInv, TypeInv, TypeOK, Proceed, Page
<1>1. /\ new \in Session /\ new # 0 /\ Post(t, k, new) /\ UNCHANGED shown
      /\ page' = [page EXCEPT !.session = new] /\ k.at = "session"
  BY DEF SessionCreated, Session, SettledInv, TypeInv
<1>. HIDE DEF new
<1>2. /\ k.id = 0 /\ k.request.lesson = page.route /\ page.lesson /\ page.session = 0
      /\ k.request.purpose = "assessment" /\ k.request.parent = 0
      /\ pending[page.route] = NotPending
  BY <1>1 DEF SettledInv, ViewInv, HandlerInv, Sending
<1>3. /\ page.submission = 0 /\ page.nextOf = 0 /\ ~page.timer /\ page.checking
      /\ \A u \in Tasks : u # t => task[u].at = "idle"
  BY <1>1, <1>2 DEF SettledInv, ViewInv, OneAtWork, Working, Sending
<1>4. page.next = "none" /\ page.status = "none"
  BY <1>3 DEF SettledInv, TypeInv, References, ViewInv, ResultInv
<1>5. \A u \in Tasks : u # t => task[u].at = "idle" /\ task[u].id = 0
  BY <1>3 DEF SettledInv, ViewInv, HandlerInv
<1>6. page.route \in Lesson /\ page.purpose = "assessment"
  BY <1>2, NoSession DEF SettledInv, TypeInv, References
<1>7. Legal([k.request EXCEPT !.session = new])
  <2>1. k.request \in Request
    BY <1>0 DEF Task
  <2>2. LET q == [k.request EXCEPT !.session = new] IN q.purpose = "assessment" /\ q.parent = 0
    BY <1>2, <2>1 DEF Request
  <2>. QED  BY <2>2 DEF Legal
<1>8. /\ page'.submission = 0 /\ page'.nextOf = 0 /\ page'.next = "none" /\ page'.status = "none"
      /\ ~page'.timer /\ page'.checking /\ page'.session = new
      /\ page'.route = page.route /\ page'.loading = page.loading /\ page'.lesson = page.lesson
      /\ page'.purpose = page.purpose /\ page'.parent = page.parent
  BY <1>0, <1>1, <1>3, <1>4 DEF Page
<1>. QED  BY <1>0, <1>1, <1>2, <1>3, <1>5, <1>6, <1>7, <1>8, PostSettled

LEMMA SettledAccepted ==
  ASSUME SettledInv, NEW t \in Tasks, Accepted(t)
  PROVE  SettledInv'
<1>. DEFINE k == task[t]
            i == page.route
            n == Note(k.request, k.id)
            loading == [Load(k.request.lesson, k.id) EXCEPT !.resend = k.resend]
            c == IF Decided(k.status) THEN loading ELSE Idle
<1>0. /\ page \in Page /\ task \in [Tasks -> Task] /\ pending \in [Lesson -> Pending] /\ TypeInv'
      /\ k \in Task
  BY TypeProceed DEF SettledInv, TypeInv, TypeOK, Proceed
<1>1. /\ k.at = "accepted" /\ page' = Show(page, k.id, k.status) /\ task' = [task EXCEPT ![t] = c]
      /\ pending' = [pending EXCEPT ![k.request.lesson] = n]
      /\ UNCHANGED <<wire, service, shown>>
  BY DEF Accepted
<1>2. /\ k.id # 0 /\ k.request.lesson = i /\ page.lesson
      /\ page.session = k.request.session /\ k.request.session # 0
      /\ SameKey(pending[i], k.request) /\ SameKey(service.stored[k.id].request, k.request)
      /\ k.status # "none" /\ (Decided(k.status) => service.stored[k.id].status = k.status)
  BY <1>1 DEF SettledInv, ViewInv, HandlerInv, Sending
<1>3. /\ k.id \in Stores /\ service.stored[k.id].request.lesson = i
      /\ service.stored[k.id].request.session = page.session
  <2>1. k.id \in PageIds
    BY <1>2 DEF PageIds
  <2>. QED  BY <2>1 DEF SettledInv, ViewInv, SubjectInv
<1>4. i \in Lesson /\ k.status \in Status /\ k.id \in Id /\ k.request \in Request /\ k.resend \in BOOLEAN
  BY <1>0, <1>2 DEF SettledInv, TypeInv, References, Task
<1>5. /\ ~page.timer /\ page.checking /\ page.nextOf = 0
      /\ \A u \in Tasks : u # t => task[u].at = "idle" /\ task[u].id = 0
  <2>1. /\ ~page.timer /\ page.checking /\ page.nextOf = 0
        /\ \A u \in Tasks : u # t => task[u].at = "idle"
    BY <1>1 DEF SettledInv, ViewInv, OneAtWork, Working, Sending
  <2>. QED  BY <2>1 DEF SettledInv, ViewInv, HandlerInv
<1>6. /\ SamePlace /\ page'.submission = k.id /\ page'.nextOf = 0 /\ page'.next = page.next
      /\ page'.status = k.status /\ page'.timer = (k.status = "waiting")
      /\ page'.checking
  BY <1>0, <1>1, <1>4, <1>5 DEF Show, Page, SamePlace
<1>7. /\ c \in Task /\ c.at = (IF Decided(k.status) THEN "submission" ELSE "idle")
      /\ c.id = (IF Decided(k.status) THEN k.id ELSE 0)
      /\ Decided(k.status) => c.request.lesson = i
      /\ Decided(k.status) <=> k.status # "waiting"
  <2>. DEFINE l == Load(k.request.lesson, k.id)
  <2>1. l \in Task /\ l.at = "submission" /\ l.id = k.id /\ l.request.lesson = i
    BY <1>2, <1>4, LoadType
  <2>. HIDE DEF l
  <2>2. LET m == [l EXCEPT !.resend = k.resend] IN
        m \in Task /\ m.at = "submission" /\ m.id = k.id /\ m.request.lesson = i
    BY <1>4, <2>1 DEF Task
  <2>3. loading \in Task /\ loading.at = "submission" /\ loading.id = k.id /\ loading.request.lesson = i
    BY <2>2 DEF l
  <2>. HIDE DEF loading
  <2>. QED  BY <1>2, <1>4, <2>3, NoneTypes DEF Idle, Decided, Status
<1>8. n.session = k.request.session /\ n.key = k.request.key /\ n.submission = k.id
  BY DEF Note
<1>. HIDE DEF c, n
<1>9. \A u \in Tasks : task'[u] = IF u = t THEN c ELSE task[u]
  BY <1>0, <1>1
<1>. HIDE DEF k
<1>10. /\ pending'[i] = n /\ \A j \in Lesson : j # i => pending'[j] = pending[j]
       /\ \A j \in Lesson : pending'[j].session = pending[j].session /\ pending'[j].key = pending[j].key
  BY <1>0, <1>1, <1>2, <1>4, <1>8 DEF SameKey
<1>11. DataInv'
  <2>1. ServiceInv'
    BY <1>1 DEF SettledInv, DataInv, ServiceInv, Stores
  <2>2. PendingInv'
    <3>1. n.session # 0 /\ n.key # 0
      BY <1>2, <1>4, <1>8 DEF SameKey, SettledInv, DataInv, PendingInv, NotPending
    <3>2. SameKey(n, service.stored[k.id].request)
      BY <1>2, <1>8 DEF SameKey
    <3>. QED  BY <1>1, <1>3, <1>8, <1>10, <3>1, <3>2 DEF SettledInv, DataInv, PendingInv
  <2>3. WireInv'
    <3>1. \A r \in wire : Legal(r) /\ (Found(r) # {} \/ SameKey(pending[r.lesson], r))
                          /\ r.lesson \in Lesson
      BY DEF SettledInv, DataInv, WireInv, ServiceInv
    <3>2. \A r \in wire : Legal(r)' = Legal(r) /\ Found(r)' = Found(r)
      BY <1>1 DEF Legal, Found
    <3>. QED  BY <1>1, <1>10, <3>1, <3>2 DEF WireInv, SameKey
  <2>4. AcceptedIsRemembered'
    BY <1>1, <1>10 DEF SettledInv, DataInv, AcceptedIsRemembered, Unseen
  <2>. QED  BY <2>1, <2>2, <2>3, <2>4 DEF DataInv
<1>12. PageIds' \subseteq {k.id}
  BY <1>5, <1>6, <1>7, <1>9 DEF PageIds
<1>13. RouteInv'
  BY <1>1, <1>2, <1>4, <1>6, <1>8, <1>10 DEF SettledInv, ViewInv, RouteInv, SamePlace, Legal
<1>14. SubjectInv'
  <2>1. \A a, b \in PageIds' : a = b
    BY <1>12
  <2>2. SameKey(n, service.stored[k.id].request)
    BY <1>2, <1>8 DEF SameKey
  <2>3. page'.route = i /\ page'.session = page.session /\ pending'[i] = n
    BY <1>6, <1>10 DEF SamePlace
  <2>. QED  BY <1>1, <1>3, <1>12, <2>1, <2>2, <2>3 DEF SubjectInv, SameKey, Stores
<1>15. ResultInv'
  BY <1>1, <1>2, <1>5, <1>6 DEF SettledInv, ViewInv, ResultInv
<1>16. HandlerInv'
  BY <1>1, <1>2, <1>5, <1>6, <1>7, <1>9 DEF HandlerInv, SamePlace, Sending
<1>17. OneAtWork' /\ CheckingMeansWork'
  BY <1>5, <1>6, <1>7, <1>9 DEF OneAtWork, CheckingMeansWork, Working, Sending
<1>. QED  BY <1>0, <1>11, <1>13, <1>14, <1>15, <1>16, <1>17 DEF SettledInv, ViewInv

LEMMA SettledNextArrives ==
  ASSUME SettledInv, NEW t \in Tasks, NextArrives(t)
  PROVE  SettledInv'
<1>. DEFINE k == task[t]
            i == page.route
            stored == service.stored
<1>0. /\ page \in Page /\ task \in [Tasks -> Task] /\ pending \in [Lesson -> Pending] /\ TypeInv'
      /\ \A id \in Stores : stored[id].next \in Step \union {"none"}
  BY TypeProceed, StoresAreIds DEF SettledInv, TypeInv, TypeOK, Proceed, Stored
<1>1. /\ k.at = "next" /\ k.id # 0 /\ k.request.lesson = i /\ Decided(stored[k.id].status)
  BY DEF NextArrives, SettledInv, ViewInv, HandlerInv
<1>2. /\ page' = [page EXCEPT !.nextOf = k.id, !.next = stored[k.id].next, !.checking = FALSE]
      /\ pending' = [pending EXCEPT ![i] = NotPending] /\ task' = [task EXCEPT ![t] = Idle]
      /\ shown' = shown \union {k.id} /\ UNCHANGED <<wire, service>>
  BY <1>1 DEF NextArrives
<1>3. k.id \in PageIds
  BY <1>1 DEF PageIds
<1>4. /\ k.id \in Stores /\ k.id \in Id /\ stored[k.id].request.lesson = i /\ i \in Lesson
      /\ SameKey(pending[i], stored[k.id].request) \/ pending[i] = NotPending
      /\ stored[k.id].request.session # 0 /\ stored[k.id].request.session = page.session
  BY <1>3, StoresAreIds DEF SettledInv, ViewInv, SubjectInv, DataInv, ServiceInv
<1>5. /\ SamePlace /\ page'.submission = page.submission /\ page'.nextOf = k.id
      /\ page'.next = stored[k.id].next /\ page'.status = page.status /\ page'.timer = page.timer
      /\ ~page'.checking
  BY <1>0, <1>2, <1>4 DEF Page, SamePlace
<1>6. Idle.at = "idle" /\ Idle.id = 0 /\ NotPending.submission = 0 /\ NotPending.session = 0
  BY DEF Idle, NotPending
<1>7. \A u \in Tasks : task'[u] = IF u = t THEN Idle ELSE task[u]
  BY <1>0, <1>2
<1>8. pending'[i] = NotPending /\ \A j \in Lesson : j # i => pending'[j] = pending[j]
  BY <1>0, <1>2, <1>4
<1>9. DataInv'
  <2>1. ServiceInv'
    BY <1>2 DEF SettledInv, DataInv, ServiceInv, Stores
  <2>4. PendingInv'
    BY <1>2, <1>6, <1>8 DEF SettledInv, DataInv, PendingInv
  <2>2. WireInv'
    <3>1. ASSUME NEW r \in wire
          PROVE  Legal(r)' /\ (Found(r)' # {} \/ SameKey(pending'[r.lesson], r))
      <4>1. /\ Legal(r) /\ (Found(r) # {} \/ SameKey(pending[r.lesson], r))
            /\ r.session # 0 /\ r.lesson \in Lesson
        BY DEF SettledInv, DataInv, WireInv, ServiceInv
      <4>2. Legal(r)' = Legal(r) /\ Found(r)' = Found(r)
        BY <1>2 DEF Legal, Found
      <4>3. CASE r.lesson = i /\ SameKey(pending[i], r)
        <5>1. k.id \in Found(r)
          BY <1>4, <1>6, <4>1, <4>3 DEF Found, SameKey, Stores
        <5>. QED  BY <4>1, <4>2, <5>1
      <4>. QED  BY <1>8, <4>1, <4>2, <4>3
    <3>. QED  BY <1>2, <3>1 DEF WireInv
  <2>3. AcceptedIsRemembered'
    <3>1. ASSUME NEW j \in Lesson, NEW id \in Unseen(j)'
          PROVE  SameKey(pending'[j], stored[id].request)
      <4>1. /\ id \in Stores /\ id \in Unseen(j) /\ id # k.id /\ stored[id].request.lesson = j
            /\ SameKey(pending[j], stored[id].request) /\ stored[id].request.session # 0
        BY <1>2 DEF Unseen, Stores, SameKey, SettledInv, DataInv, AcceptedIsRemembered, ServiceInv
      <4>2. CASE j = i
        <5>1. SameKey(stored[k.id].request, stored[id].request)
          BY <1>4, <1>6, <4>1, <4>2 DEF SameKey
        <5>. QED  BY <1>4, <4>1, <5>1 DEF SettledInv, DataInv, ServiceInv
      <4>. QED  BY <1>8, <4>1, <4>2
    <3>. QED  BY <1>2, <3>1 DEF AcceptedIsRemembered, SameKey
  <2>. QED  BY <2>1, <2>2, <2>3, <2>4 DEF DataInv
<1>10. PageIds' \subseteq PageIds
  BY <1>3, <1>5, <1>6, <1>7 DEF PageIds
<1>11. RouteInv'
  BY <1>2, <1>5, <1>8 DEF SettledInv, ViewInv, RouteInv, SamePlace, Legal
<1>12. SubjectInv'
  <2>1. \A id \in PageIds' : id = k.id
    BY <1>3, <1>10 DEF SettledInv, ViewInv, SubjectInv
  <2>. QED  BY <1>2, <1>4, <1>5, <1>8, <2>1 DEF SubjectInv, SamePlace, Stores
<1>13. ResultInv'
  BY <1>1, <1>2, <1>5, <1>8 DEF SettledInv, ViewInv, ResultInv, SamePlace
<1>14. /\ ~page.timer /\ page.submission = k.id
       /\ \A u \in Tasks : u # t => task[u].at = "idle"
  BY <1>1 DEF SettledInv, ViewInv, OneAtWork
<1>15. HandlerInv'
  <2>1. \A u \in Tasks : u # t => task'[u] = task[u] /\ task[u].at \notin Sending
    BY <1>7, <1>14 DEF Sending
  <2>2. /\ task'[t].at = "idle" /\ task'[t].id = 0
        /\ page'.route = page.route /\ service' = service
    BY <1>2, <1>5, <1>6, <1>7 DEF SamePlace
  <2>. HIDE DEF k
  <2>. QED  BY <2>1, <2>2 DEF SettledInv, ViewInv, HandlerInv, Sending
<1>16. OneAtWork' /\ CheckingMeansWork'
  BY <1>5, <1>6, <1>7, <1>14 DEF OneAtWork, CheckingMeansWork, Working, Sending
<1>. QED  BY <1>0, <1>9, <1>11, <1>12, <1>13, <1>15, <1>16 DEF SettledInv, ViewInv

\* Rows are added, and decided once.
Grows ==
    /\ Stores \subseteq Stores'
    /\ \A id \in Stores :
          /\ service'.stored[id].request = service.stored[id].request
          /\ Decided(service.stored[id].status) => service'.stored[id] = service.stored[id]

LEMMA DataGrows ==
  ASSUME SettledInv, Grows, wire' \subseteq wire, UNCHANGED <<pending, shown>>,
         \A id \in Stores' : service'.stored[id].status # "none",
         \A id \in Stores' \ Stores :
             LET r == service'.stored[id].request IN
             /\ r.session # 0 /\ r.lesson \in Lesson /\ SameKey(pending[r.lesson], r)
             /\ \A a \in Stores' : SameKey(service'.stored[a].request, r) => a = id
  PROVE  DataInv'
<1>1. ServiceInv'
  <2>1. ASSUME NEW a \in Stores', NEW b \in Stores',
               SameKey(service'.stored[a].request, service'.stored[b].request)
        PROVE  a = b
    <3>1. CASE a \in Stores /\ b \in Stores
      BY <2>1, <3>1 DEF SettledInv, DataInv, ServiceInv, Grows
    <3>2. CASE b \notin Stores
      BY <2>1, <3>2
    <3>3. CASE a \notin Stores
      BY <2>1, <3>3 DEF SameKey
    <3>. QED  BY <3>1, <3>2, <3>3
  <2>2. ASSUME NEW id \in Stores'
        PROVE  /\ service'.stored[id].request.session # 0
               /\ service'.stored[id].request.lesson \in Lesson
    BY DEF SettledInv, DataInv, ServiceInv, Grows
  <2>3. \A r \in wire' : r.session # 0 /\ r.key # 0 /\ r.lesson \in Lesson
    BY DEF SettledInv, DataInv, ServiceInv
  <2>. QED  BY <2>1, <2>2, <2>3 DEF ServiceInv, SameKey
<1>2. PendingInv'
  BY DEF SettledInv, TypeInv, References, DataInv, PendingInv, Grows
<1>3. WireInv'
  <2>1. ASSUME NEW r \in wire'
        PROVE  Legal(r)' /\ (Found(r)' # {} \/ SameKey(pending'[r.lesson], r))
    <3>1. Legal(r) /\ (Found(r) # {} \/ SameKey(pending[r.lesson], r))
      BY DEF SettledInv, DataInv, WireInv
    <3>2. Legal(r)'
      BY <3>1 DEF Legal, Grows, Stores, Decided
    <3>3. Found(r) \subseteq Found(r)'
      BY DEF Found, Grows, Stores
    <3>. QED  BY <3>1, <3>2, <3>3
  <2>. QED  BY <2>1 DEF WireInv
<1>4. AcceptedIsRemembered'
  <2>1. ASSUME NEW j \in Lesson, NEW id \in Unseen(j)'
        PROVE  SameKey(pending'[j], service'.stored[id].request)
    <3>1. id \in Stores' /\ service'.stored[id].request.lesson = j /\ id \notin shown
      BY DEF Unseen, Stores
    <3>2. CASE id \in Stores
      <4>1. id \in Unseen(j) /\ service'.stored[id].request = service.stored[id].request
        BY <3>1, <3>2 DEF Unseen, Stores, Grows
      <4>. QED  BY <4>1 DEF SettledInv, DataInv, AcceptedIsRemembered, SameKey
    <3>. QED  BY <3>1, <3>2
  <2>. QED  BY <2>1 DEF AcceptedIsRemembered, SameKey
<1>. QED  BY <1>1, <1>2, <1>3, <1>4 DEF DataInv

\* The page and its work when nothing is answered.
LEMMA ViewGrows ==
  ASSUME SettledInv, Grows, UNCHANGED <<page, pending, shown>>
  PROVE  /\ RouteInv' /\ ResultInv'
         /\ PageIds' \subseteq PageIds => SubjectInv'
         /\ UNCHANGED task => ViewInv'
<1>1. RouteInv'
  BY DEF SettledInv, ViewInv, RouteInv, Legal, Grows, Stores, Decided
<1>2. ResultInv'
  <2>1. page.nextOf # 0 => page.nextOf \in Stores
    BY DEF SettledInv, ViewInv, SubjectInv, PageIds
  <2>2. Decided(page.status) => page.submission \in Stores
    BY DEF SettledInv, TypeInv, References, Decided
  <2>. QED  BY <2>1, <2>2 DEF SettledInv, ViewInv, ResultInv, Grows
<1>3. PageIds' \subseteq PageIds => SubjectInv'
  BY DEF SettledInv, ViewInv, SubjectInv, Grows
<1>4. ASSUME UNCHANGED task
      PROVE  ViewInv'
  <2>1. SubjectInv'
    BY <1>3, <1>4 DEF PageIds
  <2>2. HandlerInv'
    <3>1. ASSUME NEW t \in Tasks, task[t].at \in {"accepted", "read", "next"}
          PROVE  task[t].id \in Stores
      BY <3>1 DEF SettledInv, TypeInv, References
    <3>. QED  BY <1>4, <3>1 DEF SettledInv, ViewInv, HandlerInv, Grows, Decided
  <2>3. OneAtWork' /\ CheckingMeansWork'
    BY <1>4 DEF SettledInv, ViewInv, OneAtWork, CheckingMeansWork, Working
  <2>. QED  BY <1>1, <1>2, <2>1, <2>2, <2>3 DEF ViewInv
<1>. QED  BY <1>1, <1>2, <1>3, <1>4

\* The handler that waits for the answer to r gets it.
LEMMA ViewAnswered ==
  ASSUME SettledInv, Grows, UNCHANGED <<page, pending, shown>>, NEW r, NEW id \in Stores',
         NEW status \in Status, status # "none", Answer(r, id, status),
         service'.stored[id].request = r, service'.stored[id].status = status, id \in Id, id # 0
  PROVE  ViewInv'
<1>0. task \in [Tasks -> Task] /\ \A t \in Tasks : task[t] \in Task
  BY DEF SettledInv, TypeInv, TypeOK
<1>1. CASE UNCHANGED task
  BY <1>1, ViewGrows
<1>. DEFINE waits(t) == task[t].at = "post" /\ task[t].request = r
            answered(t) == [task[t] EXCEPT !.at = "accepted", !.id = id, !.status = status]
<1>2. CASE task' = [t \in Tasks |-> IF waits(t) THEN answered(t) ELSE task[t]]
  <2>1. CASE \A t \in Tasks : ~waits(t)
    <3>1. task' = task
      BY <1>0, <1>2, <2>1
    <3>. QED  BY <1>1, <3>1
  <2>2. ASSUME NEW t \in Tasks, waits(t)
        PROVE  ViewInv'
    <3>1. /\ r.lesson = page.route /\ page.lesson /\ page.session = r.session /\ r.session # 0
          /\ SameKey(pending[page.route], r)
      BY <2>2 DEF SettledInv, ViewInv, HandlerInv, Sending
    <3>2. /\ page.checking /\ ~page.timer /\ page.nextOf = 0 /\ page.submission = 0
          /\ \A u \in Tasks : u # t => task[u].at = "idle"
      BY <2>2, <3>1 DEF SettledInv, ViewInv, OneAtWork, Working, Sending
    <3>3. \A u \in Tasks : u # t => task[u].id = 0
      BY <3>2 DEF SettledInv, ViewInv, HandlerInv
    <3>. DEFINE c == answered(t)
    <3>4. /\ c.at = "accepted" /\ c.id = id /\ c.status = status /\ c.request = r
      BY <1>0, <2>2 DEF Task
    <3>5. \A u \in Tasks : u # t => task'[u] = task[u]
      BY <1>2, <3>2
    <3>6. task'[t] = c
      BY <1>2, <2>2
    <3>. HIDE DEF c, waits, answered
    <3>7. PageIds' \subseteq {id}
      BY <3>2, <3>3, <3>4, <3>5, <3>6 DEF PageIds
    <3>8. SubjectInv'
      BY <3>1, <3>7 DEF SubjectInv
    <3>9. HandlerInv'
      BY <3>1, <3>2, <3>3, <3>4, <3>5, <3>6 DEF HandlerInv, Sending, SameKey
    <3>10. OneAtWork' /\ CheckingMeansWork'
      BY <3>2, <3>4, <3>5, <3>6 DEF OneAtWork, CheckingMeansWork, Working, Sending
    <3>. QED  BY <3>8, <3>9, <3>10, ViewGrows DEF ViewInv
  <2>. QED  BY <2>1, <2>2
<1>. QED  BY <1>1, <1>2 DEF Answer

LEMMA SettledServe == SettledInv /\ Serve => SettledInv'
<1>. SUFFICES ASSUME SettledInv, Serve
              PROVE  SettledInv'
  OBVIOUS
<1>0. /\ TypeInv' /\ wire \subseteq Request /\ Stores = 1..Len(service.stored)
      /\ service \in [stored : Seq(Stored), sessions : Session, keys : Key]
      /\ \A id \in Stores : id \in Id /\ service.stored[id].status \in Status
                            /\ service.stored[id].status # "none"
      /\ \A r \in wire : r.session # 0 /\ r.lesson \in Lesson
  BY TypeServe, StoresAreIds DEF SettledInv, TypeInv, TypeOK, DataInv, ServiceInv, Stored
<1>1. ASSUME NEW r \in wire, Deliver(r), Accept(r)
      PROVE  SettledInv'
  <2>. DEFINE row == [request |-> r, status |-> "waiting", next |-> "none"]
              n == Len(service.stored) + 1
  <2>1. /\ service' = [service EXCEPT !.stored = Append(@, row)] /\ Found(r) = {}
        /\ Answer(r, n, "waiting") /\ Len(service.stored) < MaxSubmissions
        /\ UNCHANGED <<page, pending, shown>> /\ wire' \subseteq wire
    BY <1>1 DEF Accept, Deliver
  <2>2. row \in Stored /\ row.request = r /\ row.status = "waiting" /\ "waiting" \in Status
    BY <1>0 DEF Stored, Status
  <2>3. service.stored \in Seq(Stored) /\ service'.stored = Append(service.stored, row)
    BY <1>0, <2>1
  <2>. HIDE DEF row
  <2>4. /\ Stores' = 1..n /\ service'.stored[n] = row
        /\ \A id \in Stores : service'.stored[id] = service.stored[id]
    BY <1>0, <2>2, <2>3 DEF Stores
  <2>5. n \notin Stores /\ n \in Stores' /\ Stores' = Stores \union {n} /\ n \in Id /\ n # 0
    BY <1>0, <2>1, <2>3, <2>4 DEF Id
  <2>. HIDE DEF n
  <2>6. Grows
    BY <2>4, <2>5 DEF Grows
  <2>7. SameKey(pending[r.lesson], r)
    BY <2>1 DEF SettledInv, DataInv, WireInv
  <2>8. \A a \in Stores' : SameKey(service'.stored[a].request, r) => a = n
    <3>1. \A a \in Stores : ~SameKey(service.stored[a].request, r)
      BY <2>1 DEF Found, SameKey, Stores
    <3>. QED  BY <2>4, <2>5, <3>1
  <2>9. DataInv'
    BY <1>0, <2>1, <2>2, <2>4, <2>5, <2>6, <2>7, <2>8, DataGrows
  <2>10. ViewInv'
    BY <2>1, <2>2, <2>4, <2>5, <2>6, ViewAnswered
  <2>. QED  BY <1>0, <2>9, <2>10 DEF SettledInv
<1>stay. ASSUME UNCHANGED <<page, pending, shown, service>>, wire' \subseteq wire
         PROVE  Grows /\ DataInv'
  <2>1. Grows /\ Stores' = Stores
    BY <1>stay DEF Grows, Stores
  <2>. QED  BY <1>0, <1>stay, <2>1, DataGrows
<1>2. ASSUME NEW r \in wire, Deliver(r), Replay(r)
      PROVE  SettledInv'
  <2>1. PICK id \in Stores : /\ service.stored[id].request = r
                             /\ Answer(r, id, service.stored[id].status)
    BY <1>2 DEF Replay, Found, Stores
  <2>2. UNCHANGED <<page, pending, shown, service>> /\ wire' \subseteq wire
    BY <1>2 DEF Deliver, Replay
  <2>3. id \in Id /\ id # 0 /\ id \in Stores'
    BY <1>0, <2>2 DEF Stores
  <2>4. ViewInv'
    BY <1>0, <1>stay, <2>1, <2>2, <2>3, ViewAnswered
  <2>. QED  BY <1>0, <1>stay, <2>2, <2>4 DEF SettledInv
<1>3. ASSUME NEW r \in wire, Deliver(r), UNCHANGED <<task, service>>
      PROVE  SettledInv'
  <2>1. UNCHANGED <<page, pending, shown, service>> /\ wire' \subseteq wire
    BY <1>3 DEF Deliver
  <2>. QED  BY <1>0, <1>3, <1>stay, <2>1, ViewGrows DEF SettledInv
<1>4. ASSUME NEW id \in Stores, Decide(id)
      PROVE  SettledInv'
  <2>1. UNCHANGED <<page, pending, task, wire, shown>>
    BY <1>4 DEF Decide
  <2>2. /\ Stores' = Stores
        /\ \A a \in Stores : /\ service'.stored[a].request = service.stored[a].request
                             /\ a # id => service'.stored[a] = service.stored[a]
        /\ service.stored[id].status = "waiting" /\ Decided(service'.stored[id].status)
    BY <1>4, DecidedRow DEF SettledInv
  <2>3. Grows
    BY <2>2 DEF Grows, Decided
  <2>4. \A a \in Stores' : service'.stored[a].status # "none"
    BY <1>0, <2>2 DEF Decided
  <2>. QED  BY <1>0, <2>1, <2>2, <2>3, <2>4, DataGrows, ViewGrows DEF SettledInv
<1>. QED  BY <1>1, <1>2, <1>3, <1>4 DEF Serve, Deliver, Stores

LEMMA SettledStep == SettledInv /\ [SettledNext]_vars => SettledInv'
<1>. SUFFICES ASSUME SettledInv, [SettledNext]_vars
              PROVE  SettledInv'
  OBVIOUS
<1>1. CASE UNCHANGED vars
  <2>1. TypeInv'
    BY <1>1, TypeStep DEF SettledInv
  <2>2. ViewInv'
    BY <1>1
    DEF vars, SettledInv, ViewInv, RouteInv, Legal, SubjectInv, PageIds, ResultInv, HandlerInv,
        OneAtWork, CheckingMeansWork, Working, Stores
  <2>. QED  BY <1>1, <2>1, <2>2, DataSame DEF vars, SettledInv
<1>2. ASSUME NEW t \in Tasks, Proceed(t)
      PROVE  SettledInv'
  BY <1>2, SettledSessionCreated, SettledFails, SettledAccepted, SettledRead, SettledLoaded,
     SettledNextArrives DEF Proceed
<1>. QED
  BY <1>1, <1>2, SettledLeave, SettledReload, SettledAskArriveAndWrite, SettledServe, SettledClick,
     SettledSubmit, SettledPoll DEF SettledNext

LEMMA SettledHolds == SettledSpec => []SettledInv
  BY SettledInit, SettledStep, PTL DEF SettledSpec

\* Whatever is lost, sent again or reloaded, a settled learner never has two
\* submissions of one lesson whose results were not shown: submit takes the
\* key of the pending submission again, and the service knows it.
THEOREM AttemptsAreSubmittedOnce == SettledSpec => []AttemptIsSubmittedOnce
<1>1. SettledInv => AttemptIsSubmittedOnce
  <2>. SUFFICES ASSUME SettledInv, NEW i \in Lesson
                PROVE  Cardinality(Unseen(i)) <= 1
    BY DEF AttemptIsSubmittedOnce
  <2>1. \A a, b \in Unseen(i) : a = b
    BY DEF SettledInv, DataInv, ServiceInv, AcceptedIsRemembered, Unseen, Stores, SameKey
  <2>2. CASE Unseen(i) = {}
    BY <2>2, FS_EmptySet
  <2>3. CASE Unseen(i) # {}
    <3>1. PICK a \in Unseen(i) : TRUE
      BY <2>3
    <3>2. Unseen(i) = {a}
      BY <2>1, <3>1
    <3>. QED  BY <3>2, FS_Singleton
  <2>. QED  BY <2>2, <2>3
<1>. QED  BY <1>1, SettledHolds, PTL

\* Session and key of an accepted submission stay in local storage until the
\* learner has seen its result: submit writes them down before it sends, and
\* only loadResult and the retry of a failed evaluation remove them.
THEOREM AcceptedStaysRemembered == SettledSpec => []AcceptedIsRemembered
<1>1. SettledInv => AcceptedIsRemembered
  BY DEF SettledInv, DataInv
<1>. QED  BY <1>1, SettledHolds, PTL

\* The submission, the next step and the lesson on the page belong together,
\* and every request on its way is one the service may accept.
THEOREM PageAndSubmissionAgree == SettledSpec => []PageIsOfOneSubmission
<1>1. SettledInv => PageIsOfOneSubmission
  <2>. SUFFICES ASSUME SettledInv
                PROVE  PageIsOfOneSubmission
    OBVIOUS
  <2>1. page.submission # 0 => service.stored[page.submission].request.lesson = page.route
    BY DEF SettledInv, ViewInv, SubjectInv, PageIds
  <2>2. page.next # "none" /\ page.submission # 0 => page.nextOf = page.submission
    BY DEF SettledInv, ViewInv, ResultInv, SubjectInv, PageIds
  <2>3. \A r \in wire : Legal(r)
    BY DEF SettledInv, DataInv, WireInv
  <2>. QED  BY <2>1, <2>2, <2>3 DEF PageIsOfOneSubmission
<1>. QED  BY <1>1, SettledHolds, PTL

\* The page never says it is checking with nothing under way that would end
\* it: every handler that fails or arrives resets checking or plans a poll.
THEOREM CheckingIsWork == SettledSpec => []CheckingMeansWork
<1>1. SettledInv => CheckingMeansWork
  BY DEF SettledInv, ViewInv
<1>. QED  BY <1>1, SettledHolds, PTL

=============================================================================
