-------------------------- MODULE TraceStoreProofs --------------------------
(***************************************************************************)
(* Proofs about the trace store, for any events, sessions and goroutines:  *)
(* every pointer in the database resolves to a file, no query sees part of *)
(* an event, and the store implements the archive; and about its readers,  *)
(* that an event they find is read whole unless it goes meanwhile.         *)
(***************************************************************************)
EXTENDS EventQueries, TLAPS

(* Who is idle, and who is about to edit a session. *)
LEMMA IdleJob ==
    /\ Idle \in Jobs /\ Idle.at = "idle" /\ Idle.ev = NoEvent
    /\ \A s \in Sid, step \in {"delete", "rename"} :
        LET j == [Idle EXCEPT !.at = step, !.sess = s] IN
        j \in Jobs /\ j.at = step /\ j.sess = s /\ j.ev = NoEvent
  BY DEF Idle, Jobs, Editing

(* What an event brings along. *)
LEMMA ShapeFacts ==
  ASSUME NEW shape \in Shapes
  PROVE  /\ shape.roles \subseteq Role /\ shape.tables \subseteq Tables
         /\ "detail" \in shape.tables
<1> DEFINE indexed == {{"detail", "events_fts"} \union more : more \in SUBSET {"tags", "sections"}}
<1>1. /\ shape.roles \in {{"hook_payload"}, {"request_body", "response_body"}}
      /\ shape.tables \in {{"detail"}, {"detail", "tags"}} \union indexed
  BY DEF Shapes
<1>2. ASSUME shape.tables \in indexed
      PROVE  shape.tables \subseteq Tables /\ "detail" \in shape.tables
  BY <1>2 DEF Tables
<1> QED
  BY <1>1, <1>2 DEF Role, Tables

(* What the step a goroutine is at says about the rest of its job. *)
LEMMA JobKinds ==
  ASSUME TypeOK, NEW r \in Req
  PROVE  /\ At(r, "write") \/ At(r, "rows") => job[r] \in Writing
         /\ At(r, "delete") \/ At(r, "removeFiles") \/ At(r, "rename") => job[r] \in Editing
         /\ At(r, "idle") => job[r] = Idle
         /\ job[r].ev # NoEvent => At(r, "write") \/ At(r, "rows")
<1>1. job[r] \in {Idle} \union Writing \union Editing
  BY DEF TypeOK, Jobs
<1>2. CASE job[r] = Idle
  BY <1>2 DEF At, Idle
<1>3. CASE job[r] \in Writing
  BY <1>3 DEF At, Writing
<1>4. CASE job[r] \in Editing
  BY <1>4 DEF At, Editing
<1> QED
  BY <1>1, <1>2, <1>3, <1>4

(* A goroutine gets a new job. *)
LEMMA NewJob ==
  ASSUME TypeOK, NEW r \in Req, NEW j \in Jobs, job' = [job EXCEPT ![r] = j]
  PROVE  job' \in [Req -> Jobs] /\ job'[r] = j /\ \A q \in Req \ {r} : job'[q] = job[q]
  BY DEF TypeOK

(* A goroutine is done. *)
LEMMA FinishJob ==
  ASSUME TypeOK, NEW r \in Req, Finish(r)
  PROVE  job' \in [Req -> Jobs] /\ job'[r] = Idle /\ \A q \in Req \ {r} : job'[q] = job[q]
  BY IdleJob, NewJob DEF Finish

(* A writer or a deleter has taken the lock and goes on. *)
LEMMA LockJob ==
  ASSUME TypeOK, NEW r \in Req, NEW step \in {"rows", "removeFiles"},
         At(r, IF step = "rows" THEN "write" ELSE "delete"),
         job' = [job EXCEPT ![r].at = step]
  PROVE  /\ job' \in [Req -> Jobs]
         /\ job'[r].at = step
         /\ job'[r].ev = job[r].ev /\ job'[r].sess = job[r].sess
         /\ job'[r].done = job[r].done /\ job'[r].tables = job[r].tables
         /\ \A q \in Req \ {r} : job'[q] = job[q]
<1> DEFINE j == [job[r] EXCEPT !.at = step]
<1>1. /\ j \in Jobs /\ j.at = step /\ j.ev = job[r].ev /\ j.sess = job[r].sess
      /\ j.done = job[r].done /\ j.tables = job[r].tables
  <2>1. CASE step = "rows"
    BY <2>1, JobKinds DEF Jobs, Writing
  <2>2. CASE step = "removeFiles"
    BY <2>2, JobKinds DEF Jobs, Editing
  <2> QED
    BY <2>1, <2>2
<1>2. job' = [job EXCEPT ![r] = j]
  OBVIOUS
<1> HIDE DEF j
<1> QED
  BY <1>1, <1>2, NewJob

(* A writer has stored an artifact. *)
LEMMA StoreJob ==
  ASSUME TypeOK, NEW r \in Req, At(r, "rows"), NEW a \in Role,
         job' = [job EXCEPT ![r].todo = job[r].todo \ {a},
                            ![r].done = job[r].done \union {a}]
  PROVE  /\ job' \in [Req -> Jobs]
         /\ job'[r].at = "rows"
         /\ job'[r].ev = job[r].ev /\ job'[r].sess = job[r].sess
         /\ job'[r].tables = job[r].tables
         /\ job'[r].done = job[r].done \union {a}
         /\ \A q \in Req \ {r} : job'[q] = job[q]
<1> DEFINE j == [job[r] EXCEPT !.todo = job[r].todo \ {a}, !.done = job[r].done \union {a}]
<1>1. /\ j \in Jobs /\ j.at = "rows" /\ j.ev = job[r].ev /\ j.sess = job[r].sess
      /\ j.done = job[r].done \union {a} /\ j.tables = job[r].tables
  BY JobKinds DEF Jobs, Writing, At
<1>2. job' = [job EXCEPT ![r] = j]
  BY JobKinds DEF TypeOK, Writing
<1> HIDE DEF j
<1> QED
  BY <1>1, <1>2, NewJob

(* A writer has skipped an artifact. *)
LEMMA SkipJob ==
  ASSUME TypeOK, NEW r \in Req, At(r, "rows"), NEW a \in Role,
         job' = [job EXCEPT ![r].todo = job[r].todo \ {a}]
  PROVE  /\ job' \in [Req -> Jobs]
         /\ job'[r].at = "rows"
         /\ job'[r].ev = job[r].ev /\ job'[r].sess = job[r].sess
         /\ job'[r].tables = job[r].tables
         /\ job'[r].done = job[r].done
         /\ \A q \in Req \ {r} : job'[q] = job[q]
<1> DEFINE j == [job[r] EXCEPT !.todo = job[r].todo \ {a}]
<1>1. /\ j \in Jobs /\ j.at = "rows" /\ j.ev = job[r].ev /\ j.sess = job[r].sess
      /\ j.done = job[r].done /\ j.tables = job[r].tables
  BY JobKinds DEF Jobs, Writing, At
<1>2. job' = [job EXCEPT ![r] = j]
  OBVIOUS
<1> HIDE DEF j
<1> QED
  BY <1>1, <1>2, NewJob

(* A capture starts with everything still to store. *)
LEMMA CaptureJob ==
  ASSUME TypeOK, NEW r \in Req, NEW e \in Event, NEW shape \in Shapes, Capture(r, e, shape)
  PROVE  /\ job' \in [Req -> Jobs]
         /\ job'[r].at = "write" /\ job'[r].ev = e /\ job'[r].sess = SessionOf[e]
         /\ job'[r].done = {} /\ "detail" \in job'[r].tables
         /\ \A q \in Req \ {r} : job'[q] = job[q]
<1> DEFINE j == [at |-> "write", ev |-> e, sess |-> SessionOf[e],
                 todo |-> shape.roles, done |-> {}, tables |-> shape.tables]
<1>1. /\ j \in Jobs /\ j.at = "write" /\ j.ev = e /\ j.sess = SessionOf[e]
      /\ j.done = {} /\ "detail" \in j.tables
  BY ShapeFacts, SessionOfType DEF Jobs, Writing
<1>2. job' = [job EXCEPT ![r] = j]
  BY DEF Capture
<1> HIDE DEF j
<1> QED
  BY <1>1, <1>2, NewJob

(* A user opens a session to delete or to rename it. *)
LEMMA EditJob ==
  ASSUME TypeOK, NEW r \in Req, NEW s \in Sid, NEW step \in {"delete", "rename"},
         job' = [job EXCEPT ![r] = [Idle EXCEPT !.at = step, !.sess = s]]
  PROVE  /\ job' \in [Req -> Jobs]
         /\ job'[r].at = step /\ job'[r].sess = s /\ job'[r].ev = NoEvent
         /\ \A q \in Req \ {r} : job'[q] = job[q]
<1> DEFINE j == [Idle EXCEPT !.at = step, !.sess = s]
<1>1. j \in Jobs /\ j.at = step /\ j.sess = s /\ j.ev = NoEvent
  <2>1. j.at = step /\ j.sess = s /\ j.ev = NoEvent
    BY DEF Idle
  <2>2. j \in Editing
    BY DEF Idle, Editing
  <2> QED
    BY <2>1, <2>2 DEF Jobs
<1> HIDE DEF j
<1> QED
  BY <1>1, NewJob DEF j
------------------------------------------------------------------------------
(* At start every table is empty and everybody idle. *)
LEMMA TypeInit == Init => TypeOK
<1> SUFFICES ASSUME Init PROVE TypeOK
  OBVIOUS
<1>1. job \in [Req -> Jobs]
  BY IdleJob DEF Init
<1>2. details \in [Tables -> SUBSET Event]
  BY DEF Init
<1> QED
  BY <1>1, <1>2 DEF Init, TypeOK

(* Every step keeps the types. *)
LEMMA TypeStep == TypeOK /\ [Next]_vars => TypeOK'
<1> SUFFICES ASSUME TypeOK, [Next]_vars PROVE TypeOK'
  OBVIOUS
<1>1. ASSUME NEW r \in Req, NEW e \in Event, NEW shape \in Shapes, Capture(r, e, shape)
      PROVE  TypeOK'
  BY <1>1, CaptureJob DEF Capture, TypeOK, rows
<1>2. ASSUME NEW r \in Req, WriteBegin(r) PROVE TypeOK'
  BY <1>2, LockJob, FinishJob DEF WriteBegin, TypeOK, rows
<1>3. ASSUME NEW r \in Req, NEW a \in Role, WriteArtifact(r, a) PROVE TypeOK'
  <2>1. job[r].ev \in Event
    BY <1>3, JobKinds DEF WriteArtifact, Writing
  <2>2. <<job[r].ev, a>> \in Files
    BY <2>1 DEF Files
  <2>3. job' \in [Req -> Jobs]
    BY <1>3, StoreJob, SkipJob, FinishJob DEF WriteArtifact
  <2> QED
    BY <1>3, <2>2, <2>3 DEF WriteArtifact, TypeOK, Unlock, rows
<1>4. ASSUME NEW r \in Req, WriteCommit(r) PROVE TypeOK'
  <2>1. job[r] \in Writing
    BY <1>4, JobKinds DEF WriteCommit
  <2>2. /\ job[r].ev \in Event /\ job[r].sess \in Sid
        /\ {<<job[r].ev, a>> : a \in job[r].done} \subseteq Files
    BY <2>1 DEF Writing, Files
  <2> QED
    BY <1>4, <2>2, FinishJob DEF WriteCommit, UpsertSession, Unlock, TypeOK, rows
<1>5. ASSUME NEW r \in Req, NEW s \in Sid, DeleteCheck(r, s) \/ RenameCheck(r, s)
      PROVE  TypeOK'
  BY <1>5, EditJob DEF DeleteCheck, RenameCheck, TypeOK, rows
<1>6. ASSUME NEW r \in Req, DeleteCommit(r) PROVE TypeOK'
  <2>1. job[r].sess \in Sid
    BY <1>6, JobKinds DEF DeleteCommit, Editing
  <2> QED
    BY <1>6, <2>1, LockJob, FinishJob DEF DeleteCommit, EraseRows, TypeOK, rows
<1>7. ASSUME NEW r \in Req, DeleteFiles(r) PROVE TypeOK'
  BY <1>7, FinishJob DEF DeleteFiles, Unlock, TypeOK, rows
<1>8. ASSUME NEW r \in Req, NEW l \in Label \union {NoLabel}, RenameSet(r, l)
      PROVE  TypeOK'
  BY <1>8, FinishJob DEF RenameSet, TypeOK
<1>9. CASE Crash
  BY <1>9, IdleJob DEF Crash, TypeOK, rows
<1>10. CASE UNCHANGED vars
  BY <1>10 DEF vars, rows, TypeOK
<1> QED
  BY <1>1, <1>2, <1>3, <1>4, <1>5, <1>6, <1>7, <1>8, <1>9, <1>10 DEF Next, Work

(* Rows, files, lock and jobs keep their types. *)
THEOREM TypeCorrect == Spec => []TypeOK
  BY TypeInit, TypeStep, PTL DEF Spec
------------------------------------------------------------------------------
(* The inductive invariant.  Its heart is that a goroutine between its     *)
(* files and its commit, or between its commit and its files, holds the    *)
(* lock, so that the two never overlap.                                    *)

Holder == \A r \in Req : At(r, "rows") \/ At(r, "removeFiles") => mu = {r}

(* What a goroutine writes is new, its own, and complete. *)
WriterAt(r) ==
    LET j == job[r] IN
    /\ j.ev \in drawn \ events
    /\ j.sess = SessionOf[j.ev]
    /\ "detail" \in j.tables
    /\ At(r, "write") => j.done = {}
    /\ \A a \in j.done : <<j.ev, a>> \in files
    /\ \A q \in Req \ {r} : job[q].ev # j.ev

Writers == \A r \in Req : At(r, "write") \/ At(r, "rows") => WriterAt(r)

(* The rows are gone before the files go. *)
Removers == \A r \in Req : At(r, "removeFiles") => Listed(job[r].sess) = {}

IInv ==
    /\ TypeOK
    /\ Holder
    /\ Writers
    /\ Removers
    /\ events \subseteq drawn
    /\ PointersResolve
    /\ NothingDangles

(* The empty store satisfies the invariant. *)
LEMMA InitInv == Init => IInv
<1> SUFFICES ASSUME Init PROVE IInv
  OBVIOUS
<1>1. TypeOK
  BY TypeInit
<1>2. \A r \in Req : job[r].at = "idle"
  BY IdleJob DEF Init
<1>3. Holder /\ Writers /\ Removers
  BY <1>2 DEF Holder, Writers, Removers, At
<1>4. PointersResolve /\ NothingDangles
  BY DEF Init, PointersResolve, NothingDangles, Detailed, Searchable, Listed, Tables
<1> QED
  BY <1>1, <1>3, <1>4 DEF IInv, Init

(* A step that changes no row, but for labels, keeps what the queries      *)
(* return.                                                                 *)
captured == <<sessions, events, details, pointers>>

LEMMA RowsUnchanged ==
  ASSUME IInv, TypeOK', UNCHANGED captured, pointers \subseteq files', drawn \subseteq drawn'
  PROVE  events' \subseteq drawn' /\ PointersResolve' /\ NothingDangles'
  BY DEF IInv, captured, PointersResolve, NothingDangles, Detailed, Searchable, Listed

(* A captured event is one no goroutine has and no table holds. *)
LEMMA CaptureInv ==
  ASSUME IInv, TypeOK', NEW r \in Req, NEW e \in Event, NEW shape \in Shapes,
         Capture(r, e, shape)
  PROVE  IInv'
<1>1. /\ job'[r].at = "write" /\ job'[r].ev = e /\ job'[r].sess = SessionOf[e]
      /\ job'[r].done = {} /\ "detail" \in job'[r].tables
      /\ \A q \in Req \ {r} : job'[q] = job[q]
  BY CaptureJob DEF IInv
<1>2. /\ e \notin drawn /\ drawn' = drawn \union {e} /\ e # NoEvent
      /\ UNCHANGED <<rows, files, mu>>
  BY NoEventFresh DEF Capture
<1>3. \A q \in Req : job[q].ev # e
  BY <1>2, JobKinds DEF IInv, Writers, WriterAt
<1>4. Holder'
  BY <1>1, <1>2 DEF IInv, Holder, At
<1>5. Writers'
  <2>1. WriterAt(r)'
    BY <1>1, <1>2, <1>3 DEF IInv, WriterAt, At, rows
  <2>2. ASSUME NEW q \in Req \ {r}, At(q, "write") \/ At(q, "rows") PROVE WriterAt(q)'
    BY <1>1, <1>2, <1>3, <2>2 DEF IInv, Writers, WriterAt, At, rows
  <2> QED
    BY <1>1, <2>1, <2>2 DEF Writers, At
<1>6. Removers'
  BY <1>1, <1>2 DEF IInv, Removers, Listed, At, rows
<1> QED
  BY <1>2, <1>4, <1>5, <1>6, RowsUnchanged DEF captured, rows, IInv, PointersResolve

(* A goroutine finishes, or a crash finishes all, without touching a row   *)
(* and without removing a file somebody needs.                             *)
LEMMA EndInv ==
  ASSUME IInv, TypeOK', UNCHANGED <<captured, drawn>>, NEW gone \in SUBSET Req,
         \A q \in gone : job'[q] = Idle,
         \A q \in Req \ gone : job'[q] = job[q],
         mu' \in {mu, mu \ gone},
         pointers \subseteq files',
         \A q \in Req \ gone : At(q, "rows") =>
            \A a \in job[q].done : <<job[q].ev, a>> \in files'
  PROVE  IInv'
<1>1. \A q \in gone : ~At(q, "write")' /\ ~At(q, "rows")' /\ ~At(q, "removeFiles")'
  BY IdleJob DEF At
<1>2. Holder'
  BY <1>1 DEF IInv, Holder, At
<1>3. Writers'
  <2>1. ASSUME NEW q \in Req \ gone, At(q, "write") \/ At(q, "rows") PROVE WriterAt(q)'
    <3>1. WriterAt(q) /\ job[q].ev \in Event /\ job'[q] = job[q]
      BY <2>1 DEF IInv, Writers, WriterAt, TypeOK
    <3>2. ASSUME NEW p \in Req \ {q} PROVE job'[p].ev # job[q].ev
      <4>1. CASE p \in gone
        BY <3>1, <4>1, IdleJob, NoEventFresh
      <4>2. CASE p \notin gone
        BY <3>1, <4>2 DEF WriterAt
      <4> QED
        BY <4>1, <4>2
    <3>3. \A a \in job[q].done : <<job[q].ev, a>> \in files'
      BY <2>1, <3>1 DEF WriterAt
    <3> QED
      BY <3>1, <3>2, <3>3 DEF WriterAt, At, captured
  <2> QED
    BY <1>1, <2>1 DEF Writers, At
<1>4. Removers'
  BY <1>1 DEF IInv, Removers, Listed, At, captured
<1> QED
  BY <1>2, <1>3, <1>4, RowsUnchanged DEF IInv

(* One goroutine finishes without touching a row. *)
LEMMA FinishInv ==
  ASSUME IInv, TypeOK', UNCHANGED <<captured, drawn>>, NEW r \in Req, Finish(r),
         mu' \in {mu, mu \ {r}}, pointers \subseteq files',
         \A q \in Req \ {r} : At(q, "rows") =>
            \A a \in job[q].done : <<job[q].ev, a>> \in files'
  PROVE  IInv'
<1>1. \A q \in {r} : job'[q] = Idle
  BY FinishJob DEF IInv
<1>2. \A q \in Req \ {r} : job'[q] = job[q]
  BY FinishJob DEF IInv
<1>3. {r} \in SUBSET Req
  OBVIOUS
<1> QED
  BY <1>1, <1>2, <1>3, EndInv

(* Write takes the lock, or gives up. *)
LEMMA WriteBeginInv ==
  ASSUME IInv, TypeOK', NEW r \in Req, WriteBegin(r)
  PROVE  IInv'
<1>1. CASE Finish(r) /\ UNCHANGED mu
  <2>1. UNCHANGED <<rows, drawn, files>> /\ pointers \subseteq files'
    BY DEF WriteBegin, IInv, PointersResolve
  <2>2. \A q \in Req \ {r} : At(q, "rows") =>
           \A a \in job[q].done : <<job[q].ev, a>> \in files'
    BY <2>1 DEF IInv, Writers, WriterAt
  <2> QED
    BY <1>1, <2>1, <2>2, FinishInv DEF captured, rows
<1>2. CASE mu' = {r} /\ job' = [job EXCEPT ![r].at = "rows"]
  <2>1. mu = {} /\ At(r, "write") /\ UNCHANGED <<drawn, rows, files>>
    BY DEF WriteBegin
  <2>2. /\ job'[r].at = "rows"
        /\ job'[r].ev = job[r].ev /\ job'[r].sess = job[r].sess
        /\ job'[r].done = job[r].done /\ job'[r].tables = job[r].tables
        /\ \A q \in Req \ {r} : job'[q] = job[q]
    BY <1>2, <2>1, LockJob DEF IInv
  <2>3. Holder'
    BY <1>2, <2>1, <2>2 DEF IInv, Holder, At
  <2>4. Writers'
    BY <2>1, <2>2 DEF IInv, Writers, WriterAt, At, rows
  <2>5. Removers'
    BY <2>1, <2>2 DEF IInv, Removers, Listed, At, rows
  <2> QED
    BY <2>1, <2>3, <2>4, <2>5, RowsUnchanged DEF captured, rows, IInv, PointersResolve
<1> QED
  BY <1>1, <1>2 DEF WriteBegin

(* Write stores a file, under the lock. *)
LEMMA WriteArtifactInv ==
  ASSUME IInv, TypeOK', NEW r \in Req, NEW a \in Role, WriteArtifact(r, a)
  PROVE  IInv'
<1>1. At(r, "rows") /\ mu = {r} /\ files \subseteq files' /\ UNCHANGED <<drawn, rows>>
  BY DEF IInv, Holder, WriteArtifact
<1>2. CASE Finish(r) /\ Unlock
  <2>1. \A q \in Req \ {r} : At(q, "rows") =>
           \A b \in job[q].done : <<job[q].ev, b>> \in files'
    BY <1>1 DEF IInv, Writers, WriterAt
  <2>2. mu' = mu \ {r} /\ pointers \subseteq files'
    BY <1>1, <1>2 DEF Unlock, IInv, PointersResolve
  <2> QED
    BY <1>1, <1>2, <2>1, <2>2, FinishInv DEF captured, rows
<1>3. ASSUME UNCHANGED mu,
             job'[r].at = "rows", job'[r].ev = job[r].ev, job'[r].sess = job[r].sess,
             job'[r].tables = job[r].tables,
             \A b \in job'[r].done : b \in job[r].done \/ <<job[r].ev, b>> \in files',
             \A q \in Req \ {r} : job'[q] = job[q]
      PROVE  IInv'
  <2>1. Holder'
    BY <1>1, <1>3 DEF IInv, Holder, At
  <2>2. Writers'
    BY <1>1, <1>3 DEF IInv, Writers, WriterAt, At, rows
  <2>3. Removers'
    BY <1>1, <1>3 DEF IInv, Removers, Listed, At, rows
  <2> QED
    BY <1>1, <2>1, <2>2, <2>3, RowsUnchanged DEF captured, rows, IInv, PointersResolve
<1>4. CASE /\ files' = files \union {<<job[r].ev, a>>}
           /\ job' = [job EXCEPT ![r].todo = job[r].todo \ {a},
                                 ![r].done = job[r].done \union {a}]
           /\ UNCHANGED mu
  <2>1. /\ job'[r].at = "rows" /\ job'[r].ev = job[r].ev /\ job'[r].sess = job[r].sess
        /\ job'[r].tables = job[r].tables
        /\ job'[r].done = job[r].done \union {a}
        /\ \A q \in Req \ {r} : job'[q] = job[q]
    BY <1>1, <1>4, StoreJob DEF IInv
  <2> QED
    BY <1>3, <1>4, <2>1
<1>5. CASE job' = [job EXCEPT ![r].todo = job[r].todo \ {a}] /\ UNCHANGED <<files, mu>>
  <2>1. /\ job'[r].at = "rows" /\ job'[r].ev = job[r].ev /\ job'[r].sess = job[r].sess
        /\ job'[r].tables = job[r].tables
        /\ job'[r].done = job[r].done
        /\ \A q \in Req \ {r} : job'[q] = job[q]
    BY <1>1, <1>5, SkipJob DEF IInv
  <2> QED
    BY <1>3, <1>5, <2>1
<1> QED
  BY <1>2, <1>4, <1>5 DEF WriteArtifact

(* The rows of a new event appear together, its files being there. *)
LEMMA WriteCommitInv ==
  ASSUME IInv, TypeOK', NEW r \in Req, WriteCommit(r)
  PROVE  IInv'
<1> DEFINE e == job[r].ev
<1>1. /\ At(r, "rows") /\ mu = {r} /\ mu' = {}
      /\ UNCHANGED <<drawn, files>>
      /\ Finish(r)
      /\ \A q \in Req \ {r} : ~At(q, "rows") /\ ~At(q, "removeFiles")
  BY DEF IInv, Holder, WriteCommit, Unlock
<1>2. /\ job'[r] = Idle
      /\ \A q \in Req \ {r} : job'[q] = job[q]
  BY <1>1, FinishJob DEF IInv
<1>3. WriterAt(r) /\ e \in Event
  BY <1>1 DEF IInv, Writers, WriterAt, TypeOK
<1>4. CASE UNCHANGED <<rows, deleted>>
  <2>1. mu' = mu \ {r} /\ pointers \subseteq files'
    BY <1>1 DEF IInv, PointersResolve
  <2> QED
    BY <1>1, <1>4, <2>1, FinishInv DEF captured, rows
<1>5. CASE /\ UpsertSession(job[r].sess)
           /\ events' = events \union {e}
           /\ details' = [t \in Tables |->
                 IF t \in job[r].tables THEN details[t] \union {e} ELSE details[t]]
           /\ pointers' = pointers \union {<<e, a>> : a \in job[r].done}
  <2> \A q \in Req : ~At(q, "rows")' /\ ~At(q, "removeFiles")'
    <3> SUFFICES ASSUME NEW q \in Req PROVE ~At(q, "rows")' /\ ~At(q, "removeFiles")'
      OBVIOUS
    <3>1. CASE q = r
      BY <1>2, <3>1, IdleJob DEF At
    <3>2. CASE q # r
      BY <1>1, <1>2, <3>2 DEF At
    <3> QED
      BY <3>1, <3>2
  <2>1. Holder'
    BY DEF Holder
  <2>2. Writers'
    <3>1. ASSUME NEW q \in Req, At(q, "write")' PROVE WriterAt(q)'
      <4>1. q # r
        <5>1. CASE q = r
          <6>1. job'[q].at = "idle"
            BY <1>2, <5>1, IdleJob
          <6> QED
            BY <3>1, <6>1 DEF At
        <5> QED
          BY <5>1
      <4>4. At(q, "write") /\ job'[q] = job[q]
        BY <1>2, <3>1, <4>1 DEF At
      <4>2. WriterAt(q) /\ job[q].ev # e /\ job[q].ev # NoEvent
        BY <1>3, <4>1, <4>4, NoEventFresh DEF IInv, Writers, WriterAt, TypeOK
      <4>3. ASSUME NEW p \in Req \ {q} PROVE job'[p].ev # job[q].ev
        <5>1. CASE p = r
          BY <1>2, <4>2, <5>1, IdleJob
        <5>2. CASE p # r
          BY <1>2, <4>2, <5>2 DEF WriterAt
        <5> QED
          BY <5>1, <5>2
      <4> QED
        BY <1>1, <1>5, <4>1, <4>4, <4>2, <4>3 DEF WriterAt, At
    <3> QED
      BY <3>1 DEF Writers
  <2>3. Removers'
    BY DEF Removers
  <2>4. events' \subseteq drawn'
    BY <1>1, <1>3, <1>5 DEF IInv, WriterAt
  <2>5. PointersResolve'
    BY <1>1, <1>3, <1>5 DEF IInv, PointersResolve, WriterAt
  <2>6. NothingDangles'
    <3>1. \A t \in Tables : details'[t] \subseteq events'
      BY <1>5 DEF IInv, NothingDangles
    <3>2. \A x \in events' : Detailed(x)'
      BY <1>3, <1>5 DEF IInv, NothingDangles, Detailed, WriterAt, Tables
    <3>3. sessions' = {SessionOf[x] : x \in events'}
      BY <1>3, <1>5 DEF IInv, NothingDangles, UpsertSession, WriterAt
    <3>4. \A p \in pointers' : p[1] \in events'
      BY <1>5 DEF IInv, NothingDangles, Listed
    <3> QED
      BY <3>1, <3>2, <3>3, <3>4 DEF NothingDangles, Listed, Searchable, Tables
  <2> QED
    BY <2>1, <2>2, <2>3, <2>4, <2>5, <2>6 DEF IInv
<1> QED
  BY <1>4, <1>5 DEF WriteCommit

(* A request that has found its session changes nothing yet. *)
LEMMA CheckInv ==
  ASSUME IInv, TypeOK', NEW r \in Req, NEW s \in Sid, DeleteCheck(r, s) \/ RenameCheck(r, s)
  PROVE  IInv'
<1>1. /\ job'[r].at \in {"delete", "rename"} /\ job'[r].ev = NoEvent
      /\ \A q \in Req \ {r} : job'[q] = job[q]
  BY EditJob DEF DeleteCheck, RenameCheck, IInv
<1>2. UNCHANGED <<drawn, rows, files, mu>>
  BY DEF DeleteCheck, RenameCheck
<1>3. Holder'
  BY <1>1, <1>2 DEF IInv, Holder, At
<1>4. Writers'
  <2>1. ASSUME NEW q \in Req \ {r}, At(q, "write") \/ At(q, "rows") PROVE WriterAt(q)'
    <3>1. WriterAt(q) /\ job[q].ev # NoEvent
      BY <2>1, NoEventFresh DEF IInv, Writers, WriterAt, TypeOK
    <3> QED
      BY <1>1, <1>2, <3>1 DEF WriterAt, At, rows
  <2> QED
    BY <1>1, <2>1 DEF Writers, At
<1>5. Removers'
  BY <1>1, <1>2 DEF IInv, Removers, Listed, At, rows
<1> QED
  BY <1>2, <1>3, <1>4, <1>5, RowsUnchanged DEF captured, rows, IInv, PointersResolve

(* The rows of a session go together, from every table. *)
LEMMA DeleteCommitInv ==
  ASSUME IInv, TypeOK', NEW r \in Req, DeleteCommit(r)
  PROVE  IInv'
<1>1. At(r, "delete") /\ mu = {} /\ UNCHANGED <<drawn, files>>
  BY DEF DeleteCommit
<1>2. CASE Finish(r) /\ UNCHANGED <<rows, mu, deleted>>
  <2>1. \A q \in Req \ {r} : At(q, "rows") =>
           \A a \in job[q].done : <<job[q].ev, a>> \in files'
    BY <1>1 DEF IInv, Writers, WriterAt
  <2>2. pointers \subseteq files'
    BY <1>1 DEF IInv, PointersResolve
  <2> QED
    BY <1>1, <1>2, <2>1, <2>2, FinishInv DEF captured, rows
<1>3. CASE /\ EraseRows(job[r].sess)
           /\ mu' = {r}
           /\ job' = [job EXCEPT ![r].at = "removeFiles"]
  <2> DEFINE s == job[r].sess
             gone == {e \in events : SessionOf[e] = s}
  <2>1. /\ job'[r].at = "removeFiles" /\ job'[r].sess = s /\ job'[r].ev = job[r].ev
        /\ \A q \in Req \ {r} : job'[q] = job[q]
    BY <1>1, <1>3, LockJob DEF IInv
  <2>2. /\ events' = events \ gone
        /\ details' = [t \in Tables |-> details[t] \ gone]
        /\ pointers' = {p \in pointers : p[1] \notin gone}
        /\ sessions' = sessions \ {s}
    BY <1>3 DEF EraseRows
  <2>3. Holder'
    BY <1>1, <1>3, <2>1 DEF IInv, Holder, At
  <2>4. Writers'
    <3>1. ASSUME NEW q \in Req, At(q, "write")' \/ At(q, "rows")' PROVE WriterAt(q)'
      <4>1. q # r /\ job'[q] = job[q] /\ WriterAt(q)
        BY <2>1, <3>1 DEF IInv, Writers, At
      <4>2. \A p \in Req \ {q} : job'[p].ev # job[q].ev
        BY <2>1, <4>1 DEF WriterAt
      <4> QED
        BY <1>1, <2>2, <4>1, <4>2 DEF WriterAt, At
    <3> QED
      BY <3>1 DEF Writers
  <2>5. Removers'
    <3>1. \A q \in Req \ {r} : ~At(q, "removeFiles")
      BY <1>1 DEF IInv, Holder
    <3>2. ASSUME NEW q \in Req, At(q, "removeFiles")' PROVE q = r
      BY <2>1, <3>1, <3>2 DEF At
    <3>3. Listed(job[r].sess)' = {}
      BY <2>1, <2>2 DEF Listed
    <3> QED
      BY <3>2, <3>3 DEF Removers
  <2>6. events' \subseteq drawn' /\ PointersResolve'
    BY <1>1, <2>2 DEF IInv, PointersResolve
  <2>7. NothingDangles'
    <3>1. \A t \in Tables : details'[t] \subseteq events'
      BY <2>2 DEF IInv, NothingDangles
    <3>2. \A x \in events' : Detailed(x)'
      BY <2>2 DEF IInv, NothingDangles, Detailed, Tables
    <3>3. sessions' = {SessionOf[x] : x \in events'}
      BY <2>2 DEF IInv, NothingDangles
    <3>4. \A p \in pointers' : p[1] \in events'
      BY <2>2 DEF IInv, NothingDangles, Listed
    <3> QED
      BY <3>1, <3>2, <3>3, <3>4 DEF NothingDangles, Listed, Searchable, Tables
  <2> QED
    BY <2>3, <2>4, <2>5, <2>6, <2>7 DEF IInv
<1> QED
  BY <1>2, <1>3 DEF DeleteCommit

(* The heart of PointersResolve: what is removed has no pointer left, and  *)
(* nobody is between its files and its commit.                             *)
LEMMA DeleteFilesInv ==
  ASSUME IInv, TypeOK', NEW r \in Req, DeleteFiles(r)
  PROVE  IInv'
<1>1. /\ At(r, "removeFiles") /\ mu = {r} /\ mu' = {}
      /\ files \ FilesOf(job[r].sess) \subseteq files'
      /\ UNCHANGED <<drawn, rows>> /\ Finish(r)
  BY DEF DeleteFiles, Unlock, IInv, Holder
<1>2. \A q \in Req \ {r} : ~At(q, "rows")
  BY <1>1 DEF IInv, Holder
<1>3. pointers \subseteq files'
  <2>1. \A p \in pointers : SessionOf[p[1]] # job[r].sess
    BY <1>1 DEF IInv, Removers, NothingDangles, Listed
  <2> QED
    BY <1>1, <2>1 DEF FilesOf, IInv, PointersResolve
<1>4. mu' = mu \ {r}
  BY <1>1
<1> QED
  BY <1>1, <1>2, <1>3, <1>4, FinishInv DEF captured, rows

(* A label is no part of any event. *)
LEMMA RenameSetInv ==
  ASSUME IInv, TypeOK', NEW r \in Req, NEW l \in Label \union {NoLabel}, RenameSet(r, l)
  PROVE  IInv'
<1>1. /\ UNCHANGED <<captured, drawn, files, mu>> /\ Finish(r)
  BY DEF RenameSet, captured
<1>2. \A q \in Req \ {r} : At(q, "rows") =>
         \A a \in job[q].done : <<job[q].ev, a>> \in files'
  BY <1>1 DEF IInv, Writers, WriterAt
<1>3. pointers \subseteq files'
  BY <1>1 DEF IInv, PointersResolve
<1> QED
  BY <1>1, <1>2, <1>3, FinishInv

(* A crash leaves committed rows and all files. *)
LEMMA CrashInv ==
  ASSUME IInv, TypeOK', Crash
  PROVE  IInv'
<1>1. UNCHANGED <<captured, drawn, files>> /\ mu' = mu \ Req
  BY DEF Crash, captured, rows, IInv, TypeOK
<1>2. \A q \in Req : job'[q] = Idle
  BY DEF Crash
<1>3. pointers \subseteq files'
  BY <1>1 DEF IInv, PointersResolve
<1> QED
  BY <1>1, <1>2, <1>3, EndInv

(* Nothing happens. *)
LEMMA StutterInv == IInv /\ UNCHANGED vars => IInv'
  BY DEF vars, rows, IInv, TypeOK, Holder, Writers, WriterAt, Removers, PointersResolve,
         NothingDangles, Detailed, Listed, Searchable, At

(* Every step keeps the invariant. *)
LEMMA StepInv == IInv /\ [Next]_vars => IInv'
<1> SUFFICES ASSUME IInv, [Next]_vars PROVE IInv'
  OBVIOUS
<1> TypeOK'
  BY TypeStep DEF IInv
<1>1. ASSUME NEW r \in Req, NEW e \in Event, NEW shape \in Shapes, Capture(r, e, shape)
      PROVE  IInv'
  BY <1>1, CaptureInv
<1>2. ASSUME NEW r \in Req, WriteBegin(r) PROVE IInv'
  BY <1>2, WriteBeginInv
<1>3. ASSUME NEW r \in Req, NEW a \in Role, WriteArtifact(r, a) PROVE IInv'
  BY <1>3, WriteArtifactInv
<1>4. ASSUME NEW r \in Req, WriteCommit(r) PROVE IInv'
  BY <1>4, WriteCommitInv
<1>5. ASSUME NEW r \in Req, NEW s \in Sid, DeleteCheck(r, s) \/ RenameCheck(r, s)
      PROVE  IInv'
  BY <1>5, CheckInv
<1>6. ASSUME NEW r \in Req, DeleteCommit(r) PROVE IInv'
  BY <1>6, DeleteCommitInv
<1>7. ASSUME NEW r \in Req, DeleteFiles(r) PROVE IInv'
  BY <1>7, DeleteFilesInv
<1>8. ASSUME NEW r \in Req, NEW l \in Label \union {NoLabel}, RenameSet(r, l) PROVE IInv'
  BY <1>8, RenameSetInv
<1>9. CASE Crash
  BY <1>9, CrashInv
<1>10. CASE UNCHANGED vars
  BY <1>10, StutterInv
<1> QED
  BY <1>1, <1>2, <1>3, <1>4, <1>5, <1>6, <1>7, <1>8, <1>9, <1>10 DEF Next, Work

(* The invariant holds in every reachable state. *)
LEMMA Inductive == Spec => []IInv
  BY InitInv, StepInv, PTL DEF Spec

(* At every instant, through crashes, rollbacks and failing statements,    *)
(* every raw file the database points to is on disk.                       *)
THEOREM RawBytesResolve == Spec => []PointersResolve
<1>1. IInv => PointersResolve
  BY DEF IInv
<1> QED
  BY <1>1, Inductive, PTL

(* No query ever returns part of an event, although the search index has   *)
(* no foreign key and rows of one event are spread over seven tables.      *)
THEOREM WholeEvents == Spec => []NothingDangles
<1>1. IInv => NothingDangles
  BY DEF IInv
<1> QED
  BY <1>1, Inductive, PTL
------------------------------------------------------------------------------
(* Each step of the store is one of the archive or a stutter: events       *)
(* appear with the commit of Write and go with that of DeleteSession.      *)
LEMMA StepRefines ==
  ASSUME IInv, [Next]_vars
  PROVE  [Archive!ArchiveNext]_(Archive!archiveVars)
<1> USE DEF Archive!archiveVars
<1>1. ASSUME NEW r \in Req, NEW e \in Event, NEW shape \in Shapes, Capture(r, e, shape)
      PROVE  UNCHANGED <<events, label>>
  BY <1>1 DEF Capture, rows
<1>2. ASSUME NEW r \in Req, WriteBegin(r) PROVE UNCHANGED <<events, label>>
  BY <1>2 DEF WriteBegin, rows
<1>3. ASSUME NEW r \in Req, NEW a \in Role, WriteArtifact(r, a)
      PROVE  UNCHANGED <<events, label>>
  BY <1>3 DEF WriteArtifact, rows
<1>4. ASSUME NEW r \in Req, WriteCommit(r)
      PROVE  Archive!ArchiveNext \/ UNCHANGED <<events, label>>
  <2>1. job[r].ev \in Event \ events
    BY <1>4 DEF IInv, Writers, WriterAt, WriteCommit, TypeOK
  <2>2. CASE UpsertSession(job[r].sess) /\ events' = events \union {job[r].ev}
    BY <2>1, <2>2 DEF UpsertSession, Archive!ArchiveNext, Archive!Record
  <2> QED
    BY <1>4, <2>2 DEF WriteCommit, rows
<1>5. ASSUME NEW r \in Req, NEW s \in Sid, DeleteCheck(r, s) \/ RenameCheck(r, s)
      PROVE  UNCHANGED <<events, label>>
  BY <1>5 DEF DeleteCheck, RenameCheck, rows
<1>6. ASSUME NEW r \in Req, DeleteCommit(r)
      PROVE  Archive!ArchiveNext \/ UNCHANGED <<events, label>>
  <2>1. job[r].sess \in Sid
    BY <1>6, JobKinds DEF DeleteCommit, Editing, IInv
  <2>2. CASE EraseRows(job[r].sess)
    <3>1. Archive!Delete(job[r].sess)
      BY <2>2 DEF EraseRows, Archive!Delete
    <3> QED
      BY <2>1, <3>1 DEF Archive!ArchiveNext
  <2> QED
    BY <1>6, <2>2 DEF DeleteCommit, rows
<1>7. ASSUME NEW r \in Req, DeleteFiles(r) PROVE UNCHANGED <<events, label>>
  BY <1>7 DEF DeleteFiles, rows
<1>8. ASSUME NEW r \in Req, NEW l \in Label \union {NoLabel}, RenameSet(r, l)
      PROVE  Archive!ArchiveNext \/ UNCHANGED <<events, label>>
  <2> DEFINE s == job[r].sess
  <2>1. s \in Sid
    BY <1>8, JobKinds DEF RenameSet, Editing, IInv
  <2>2. CASE s \in sessions /\ label' = [label EXCEPT ![s] = l]
    <3>1. \E e \in events : SessionOf[e] = s
      BY <2>2 DEF IInv, NothingDangles
    <3>2. Archive!Rename(s, l)
      BY <1>8, <2>2, <3>1 DEF RenameSet, Archive!Rename
    <3> QED
      BY <2>1, <3>2 DEF Archive!ArchiveNext
  <2> QED
    BY <1>8, <2>2 DEF RenameSet
<1>9. CASE Crash
  BY <1>9 DEF Crash, rows
<1>10. CASE UNCHANGED vars
  BY <1>10 DEF vars, rows
<1> QED
  BY <1>1, <1>2, <1>3, <1>4, <1>5, <1>6, <1>7, <1>8, <1>9, <1>10 DEF Next, Work

(* The store is an archive of whole events and named sessions, whatever    *)
(* fails and whenever the process dies.                                    *)
THEOREM StoreIsArchive == Spec => ImplementsArchive
<1>1. Init => Archive!ArchiveInit
  BY DEF Init, Archive!ArchiveInit
<1> QED
  BY <1>1, Inductive, StepRefines, PTL
     DEF Spec, ImplementsArchive, Archive!ArchiveSpec
------------------------------------------------------------------------------
(* The readers change nothing of the store. *)
LEMMA ReadersOnlyRead == QuerySpec => Spec
<1>1. QueryInit => Init
  BY DEF QueryInit
<1>2. [QueryNext]_queryVars => [Next]_vars
  BY DEF QueryNext, queryVars, Next
<1> QED
  BY <1>1, <1>2, PTL DEF QuerySpec, Spec

(* What a reader has found out of an event: if it is still there, it has   *)
(* what it had; and nobody is about to write it.                           *)
KnowsOf(r) ==
    /\ r.ev \in drawn
    /\ \A p \in Req : job[p].ev # r.ev
    /\ r.ev \in events => Parts(r.ev) = r.had

(* What it has read and opened is that, unless the event went meanwhile.   *)
HasRead(r) ==
    /\ r.at = "rawFiles" =>
          \/ r.got = r.had \intersect {"tags"}
          \/ r.ev \notin events /\ r.got = {}
    /\ r.at = "answered" =>
          \/ r.got = r.had
          \/ r.ev \notin events /\ r.got \subseteq r.had \intersect {"tags"}
    /\ r.at \in {"tags", "rawFiles", "path"} => r.role = "request_body"
    /\ r.at = "open" => r.role \in r.had
    /\ r.at = "missing" \/ (r.at = "noPath" /\ "request_body" \in r.had) => r.ev \notin events

ReadSound(r) == r.at # "idle" => KnowsOf(r) /\ HasRead(r)

QInv ==
    /\ reading \in [Reader -> Reads \union {NoRead}]
    /\ \A q \in Reader : ReadSound(reading[q])

(* An event that is gone has left nothing behind. *)
LEMMA GoneIsGone ==
  ASSUME IInv, NEW e, e \notin events
  PROVE  Parts(e) = {}
<1>1. \A t \in {"tags"} : e \notin details[t]
  BY DEF IInv, NothingDangles, Tables
<1>2. \A a \in Role : <<e, a>> \notin pointers
  BY DEF IInv, NothingDangles, Listed
<1> QED
  BY <1>1, <1>2 DEF Parts

(* No step but its deletion touches an event that has been written, and    *)
(* none brings a deleted one back.                                         *)
LEMMA WrittenStays ==
  ASSUME IInv, Work, NEW e \in drawn, \A p \in Req : job[p].ev # e
  PROVE  /\ e \in drawn' /\ \A p \in Req : job'[p].ev # e
         /\ e \in events' => e \in events /\ Parts(e)' = Parts(e)
<1> DEFINE Free == \A p \in Req : job'[p].ev # e
           Stays == /\ e \in drawn' /\ Free
                    /\ e \in events' => e \in events /\ Parts(e)' = Parts(e)
<1> TypeOK /\ e \in Event
  BY DEF IInv, TypeOK
<1> e # NoEvent
  BY NoEventFresh
<1>0. ASSUME NEW r \in Req, job'[r].ev \in {job[r].ev, NoEvent},
             \A q \in Req \ {r} : job'[q] = job[q]
      PROVE  Free
  BY <1>0
<1>9. ASSUME NEW r \in Req, Finish(r) PROVE Free
  <2>1. job'[r].ev = NoEvent /\ \A q \in Req \ {r} : job'[q] = job[q]
    BY <1>9, FinishJob, IdleJob
  <2> QED
    BY <1>0, <2>1
<1>1. ASSUME NEW r \in Req, NEW x \in Event, NEW shape \in Shapes, Capture(r, x, shape)
      PROVE  Stays
  <2>1. e # x /\ job'[r].ev = x /\ \A q \in Req \ {r} : job'[q] = job[q]
    BY <1>1, CaptureJob DEF Capture
  <2>2. Free
    BY <2>1
  <2> QED
    BY <1>1, <2>2 DEF Capture, rows, Parts
<1>2. ASSUME NEW r \in Req, WriteBegin(r)
      PROVE  Stays
  <2>1. CASE job' = [job EXCEPT ![r].at = "rows"]
    <3>1. job'[r].ev = job[r].ev /\ \A q \in Req \ {r} : job'[q] = job[q]
      BY <1>2, <2>1, LockJob DEF WriteBegin
    <3>2. Free
      BY <1>0, <3>1
    <3> QED
      BY <1>2, <3>2 DEF WriteBegin, rows, Parts
  <2> QED
    BY <1>2, <1>9, <2>1 DEF WriteBegin, rows, Parts
<1>3. ASSUME NEW r \in Req, NEW a \in Role, WriteArtifact(r, a)
      PROVE  Stays
  <2>1. Free
    <3>1. CASE Finish(r)
      BY <1>9, <3>1
    <3>2. CASE ~Finish(r)
      <4>1. job'[r].ev = job[r].ev /\ \A q \in Req \ {r} : job'[q] = job[q]
        BY <1>3, <3>2, StoreJob, SkipJob DEF WriteArtifact
      <4> QED
        BY <1>0, <4>1
    <3> QED
      BY <3>1, <3>2
  <2> QED
    BY <1>3, <2>1 DEF WriteArtifact, rows, Parts
<1>4. ASSUME NEW r \in Req, WriteCommit(r)
      PROVE  Stays
  <2>1. e \in drawn' /\ Free
    BY <1>4, <1>9 DEF WriteCommit
  <2>2. CASE UNCHANGED rows
    BY <2>1, <2>2 DEF rows, Parts
  <2>3. CASE /\ events' = events \union {job[r].ev}
             /\ details' = [t \in Tables |-> IF t \in job[r].tables
                              THEN details[t] \union {job[r].ev} ELSE details[t]]
             /\ pointers' = pointers \union {<<job[r].ev, a>> : a \in job[r].done}
    <3>1. e \in events' => e \in events
      BY <2>3
    <3>2. \A t \in {"tags"} : e \in details'[t] <=> e \in details[t]
      BY <2>3 DEF Tables
    <3>3. \A a \in Role : <<e, a>> \in pointers' <=> <<e, a>> \in pointers
      BY <2>3
    <3> QED
      BY <2>1, <3>1, <3>2, <3>3 DEF Parts
  <2> QED
    BY <1>4, <2>2, <2>3 DEF WriteCommit
<1>5. ASSUME NEW r \in Req, NEW s \in Sid, DeleteCheck(r, s) \/ RenameCheck(r, s)
      PROVE  Stays
  <2>1. job'[r].ev = NoEvent /\ \A q \in Req \ {r} : job'[q] = job[q]
    BY <1>5, EditJob DEF DeleteCheck, RenameCheck
  <2>2. Free
    BY <1>0, <2>1
  <2> QED
    BY <1>5, <2>2 DEF DeleteCheck, RenameCheck, rows, Parts
<1>6. ASSUME NEW r \in Req, DeleteCommit(r)
      PROVE  Stays
  <2>1. e \in drawn' /\ Free
    <3>1. CASE Finish(r)
      BY <1>6, <1>9, <3>1 DEF DeleteCommit
    <3>2. CASE ~Finish(r)
      <4>1. job'[r].ev = job[r].ev /\ \A q \in Req \ {r} : job'[q] = job[q]
        BY <1>6, <3>2, LockJob DEF DeleteCommit
      <4> QED
        BY <1>0, <1>6, <4>1 DEF DeleteCommit
    <3> QED
      BY <3>1, <3>2
  <2>2. CASE UNCHANGED rows
    BY <2>1, <2>2 DEF rows, Parts
  <2>3. CASE EraseRows(job[r].sess)
    <3> SUFFICES ASSUME e \in events' PROVE e \in events /\ Parts(e)' = Parts(e)
      BY <2>1
    <3>1. e \in events /\ SessionOf[e] # job[r].sess
      BY <2>3 DEF EraseRows
    <3>2. \A t \in {"tags"} : e \in details'[t] <=> e \in details[t]
      BY <2>3, <3>1 DEF EraseRows, Tables
    <3>3. \A a \in Role : <<e, a>> \in pointers' <=> <<e, a>> \in pointers
      BY <2>3, <3>1 DEF EraseRows
    <3> QED
      BY <3>1, <3>2, <3>3 DEF Parts
  <2> QED
    BY <1>6, <2>2, <2>3 DEF DeleteCommit
<1>7. ASSUME NEW r \in Req, DeleteFiles(r)
      PROVE  Stays
  BY <1>7, <1>9 DEF DeleteFiles, rows, Parts
<1>8. ASSUME NEW r \in Req, NEW l \in Label \union {NoLabel}, RenameSet(r, l)
      PROVE  Stays
  BY <1>8, <1>9 DEF RenameSet, Parts
<1> QED
  BY <1>1, <1>2, <1>3, <1>4, <1>5, <1>6, <1>7, <1>8 DEF Work

(* What a reader knows stays true while the store works. *)
LEMMA ReadStays ==
  ASSUME IInv, Work, NEW r, ReadSound(r)
  PROVE  ReadSound(r)'
<1> SUFFICES ASSUME r.at # "idle" PROVE KnowsOf(r)' /\ HasRead(r)'
  BY DEF ReadSound
<1>1. KnowsOf(r) /\ HasRead(r)
  BY DEF ReadSound
<1>2. /\ r.ev \in drawn' /\ \A p \in Req : job'[p].ev # r.ev
      /\ r.ev \in events' => r.ev \in events /\ Parts(r.ev)' = Parts(r.ev)
  BY <1>1, WrittenStays DEF KnowsOf
<1>3. KnowsOf(r)'
  BY <1>1, <1>2 DEF KnowsOf
<1>4. HasRead(r)'
  BY <1>1, <1>2 DEF HasRead
<1> QED
  BY <1>3, <1>4

(* A reader that has just found an event knows what it has. *)
LEMMA FoundSound ==
  ASSUME IInv, NEW r, r.ev \in events, r.had = Parts(r.ev),
         \/ r.at = "tags" /\ r.role = "request_body"
         \/ r.at = "open" /\ r.role \in Parts(r.ev)
  PROVE  ReadSound(r)
<1>1. \A p \in Req : job[p].ev # r.ev
  BY NoEventFresh, JobKinds DEF IInv, Writers, WriterAt, TypeOK
<1>2. KnowsOf(r)
  BY <1>1 DEF KnowsOf, IInv
<1>3. HasRead(r)
  BY DEF HasRead
<1> QED
  BY <1>2, <1>3 DEF ReadSound

(* A reader goes on to a new state of its own. *)
LEMMA NewRead ==
  ASSUME QInv, NEW q \in Reader, NEW r \in Reads \union {NoRead},
         reading' = [reading EXCEPT ![q] = r], ReadSound(r), UNCHANGED vars
  PROVE  QInv'
<1>1. reading' \in [Reader -> Reads \union {NoRead}]
  BY DEF QInv
<1>2. ASSUME NEW p \in Reader PROVE ReadSound(reading'[p])
  BY <1>2 DEF QInv
<1>3. ASSUME NEW x, ReadSound(x) PROVE ReadSound(x)'
  BY <1>3 DEF ReadSound, KnowsOf, HasRead, Parts, vars, rows
<1> QED
  BY <1>1, <1>2, <1>3 DEF QInv

(* Each step of a reader keeps what readers know true. *)
LEMMA ReadStepInv ==
  ASSUME IInv, QInv, UNCHANGED vars, NEW q \in Reader, ReadStep(q)
  PROVE  QInv'
<1> DEFINE r == reading[q]
<1>1. ReadSound(r) /\ r \in Reads \union {NoRead} /\ Parts(r.ev) \subseteq Part
  BY DEF QInv, Parts, Part
<1>2. r.at # "idle" => r \in Reads
  BY <1>1 DEF NoRead
<1>3. ASSUME NEW e \in Event, NEW purpose \in {"view", "body"}, FindEvent(q, e, purpose)
      PROVE  QInv'
  <2> DEFINE n == [at |-> "tags", purpose |-> purpose, ev |-> e, role |-> "request_body",
                   got |-> {}, had |-> Parts(e)]
  <2>1. n \in Reads
    BY DEF Reads, Busy, Role, Parts, Part
  <2>2. /\ n.ev \in events /\ n.had = Parts(n.ev)
        /\ n.at = "tags" /\ n.role = "request_body"
    BY <1>3 DEF FindEvent
  <2>3. reading' = [reading EXCEPT ![q] = n]
    BY <1>3 DEF FindEvent
  <2> HIDE DEF n
  <2>4. ReadSound(n)
    BY <2>2, FoundSound
  <2> QED
    BY <2>1, <2>3, <2>4, NewRead
<1>4. ASSUME NEW e \in Event, NEW role \in Role, FindRaw(q, e, role)
      PROVE  QInv'
  <2> DEFINE n == [at |-> "open", purpose |-> "raw", ev |-> e, role |-> role,
                   got |-> {}, had |-> Parts(e)]
  <2>1. n \in Reads
    BY DEF Reads, Busy, Role, Parts, Part
  <2>2. n.had = Parts(n.ev) /\ n.at = "open" /\ n.role \in Parts(n.ev)
    BY <1>4 DEF FindRaw
  <2>3. reading' = [reading EXCEPT ![q] = n]
    BY <1>4 DEF FindRaw
  <2>4. n.ev \in events
    <3>1. Parts(e) # {}
      BY <1>4 DEF FindRaw
    <3> QED
      BY <3>1, GoneIsGone
  <2> HIDE DEF n
  <2>5. ReadSound(n)
    BY <2>2, <2>4, FoundSound
  <2> QED
    BY <2>1, <2>3, <2>5, NewRead
<1>5. ASSUME LoadTags(q) PROVE QInv'
  <2> DEFINE n == [r EXCEPT !.at = "rawFiles", !.got = Parts(r.ev) \intersect {"tags"}]
  <2>1. r \in Reads /\ KnowsOf(r) /\ HasRead(r) /\ r.at = "tags"
    BY <1>1, <1>2, <1>5 DEF LoadTags, Doing, ReadSound
  <2>2. /\ n \in Reads /\ n.at = "rawFiles" /\ n.ev = r.ev /\ n.had = r.had /\ n.role = r.role
        /\ n.got = Parts(r.ev) \intersect {"tags"}
    BY <1>1, <2>1 DEF Reads, Busy, Part
  <2>3. reading' = [reading EXCEPT ![q] = n]
    BY <1>5 DEF LoadTags
  <2> HIDE DEF n
  <2>4. HasRead(n)
    BY <2>1, <2>2, GoneIsGone DEF HasRead, KnowsOf
  <2>5. ReadSound(n)
    BY <2>1, <2>2, <2>4 DEF ReadSound, KnowsOf
  <2> QED
    BY <2>2, <2>3, <2>5, NewRead
<1>6. ASSUME LoadRawFiles(q) PROVE QInv'
  <2> DEFINE n == [r EXCEPT !.at = IF r.purpose = "view" THEN "answered" ELSE "path",
                            !.got = @ \union (Parts(r.ev) \intersect Role)]
  <2>1. r \in Reads /\ KnowsOf(r) /\ HasRead(r) /\ r.at = "rawFiles"
    BY <1>1, <1>2, <1>6 DEF LoadRawFiles, Doing, ReadSound
  <2>2. /\ n \in Reads /\ n.at \in {"answered", "path"}
        /\ n.ev = r.ev /\ n.had = r.had /\ n.role = r.role
        /\ n.got = r.got \union (Parts(r.ev) \intersect Role)
    BY <1>1, <2>1 DEF Reads, Busy, Results, Part
  <2>3. reading' = [reading EXCEPT ![q] = n]
    BY <1>6 DEF LoadRawFiles
  <2> HIDE DEF n
  <2>4. HasRead(n)
    <3>1. CASE r.ev \in events
      <4>1. n.got = (r.had \intersect {"tags"}) \union (r.had \intersect Role)
        BY <2>1, <2>2, <3>1 DEF HasRead, KnowsOf
      <4>2. r.had \subseteq {"tags"} \union Role
        BY <2>1 DEF Reads, Part
      <4>3. n.got = n.had
        BY <2>2, <4>1, <4>2
      <4> QED
        BY <2>1, <2>2, <4>3 DEF HasRead
    <3>2. CASE r.ev \notin events
      <4>1. Parts(r.ev) = {}
        BY <3>2, GoneIsGone
      <4>2. n.got = r.got
        BY <2>2, <4>1
      <4> QED
        BY <2>1, <2>2, <3>2, <4>2 DEF HasRead
    <3> QED
      BY <3>1, <3>2
  <2>5. ReadSound(n)
    BY <2>1, <2>2, <2>4 DEF ReadSound, KnowsOf
  <2> QED
    BY <2>2, <2>3, <2>5, NewRead
<1>7. ASSUME FindPath(q) PROVE QInv'
  <2> DEFINE n == [r EXCEPT !.at = IF "request_body" \in Parts(r.ev) THEN "open" ELSE "noPath"]
  <2>1. r \in Reads /\ KnowsOf(r) /\ HasRead(r) /\ r.at = "path"
    BY <1>1, <1>2, <1>7 DEF FindPath, Doing, ReadSound
  <2>2. /\ n \in Reads /\ n.ev = r.ev /\ n.had = r.had /\ n.role = r.role
        /\ n.at = IF "request_body" \in Parts(r.ev) THEN "open" ELSE "noPath"
    BY <2>1 DEF Reads, Busy, Results
  <2>3. reading' = [reading EXCEPT ![q] = n]
    BY <1>7 DEF FindPath, MovesTo
  <2> HIDE DEF n
  <2>6. r.role = "request_body"
    BY <2>1 DEF HasRead
  <2>4. HasRead(n)
    BY <2>1, <2>2, <2>6, GoneIsGone DEF HasRead, KnowsOf
  <2>5. ReadSound(n)
    BY <2>1, <2>2, <2>4 DEF ReadSound, KnowsOf
  <2> QED
    BY <2>2, <2>3, <2>5, NewRead
<1>8. ASSUME OpenFile(q) PROVE QInv'
  <2> DEFINE n == [r EXCEPT !.at = IF <<r.ev, r.role>> \in files THEN "served" ELSE "missing"]
  <2>1. r \in Reads /\ KnowsOf(r) /\ HasRead(r) /\ r.at = "open"
    BY <1>1, <1>2, <1>8 DEF OpenFile, Doing, ReadSound
  <2>2. /\ n \in Reads /\ n.ev = r.ev /\ n.had = r.had
        /\ n.at = IF <<r.ev, r.role>> \in files THEN "served" ELSE "missing"
    BY <2>1 DEF Reads, Results
  <2>3. reading' = [reading EXCEPT ![q] = n]
    BY <1>8 DEF OpenFile, MovesTo
  <2> HIDE DEF n
  <2>6. r.ev \in events => <<r.ev, r.role>> \in files
    <3> SUFFICES ASSUME r.ev \in events PROVE <<r.ev, r.role>> \in pointers
      BY DEF IInv, PointersResolve
    <3>1. r.role \in Parts(r.ev) /\ r.role \in Role
      BY <2>1 DEF HasRead, KnowsOf, Reads
    <3> QED
      BY <3>1 DEF Parts, Role
  <2>4. HasRead(n)
    BY <2>2, <2>6 DEF HasRead
  <2>5. ReadSound(n)
    BY <2>1, <2>2, <2>4 DEF ReadSound, KnowsOf
  <2> QED
    BY <2>2, <2>3, <2>5, NewRead
<1>9. ASSUME GiveUp(q) PROVE QInv'
  <2>1. ReadSound(NoRead)
    BY DEF ReadSound, NoRead
  <2> QED
    BY <1>9, <2>1, NewRead DEF GiveUp
<1> QED
  BY <1>3, <1>4, <1>5, <1>6, <1>7, <1>8, <1>9 DEF ReadStep

(* What readers know is true in every reachable state. *)
LEMMA ReadersKnow == QuerySpec => [](IInv /\ QInv)
<1>1. QueryInit => QInv
  <2>1. ReadSound(NoRead)
    BY DEF ReadSound, NoRead
  <2> QED
    BY <2>1 DEF QueryInit, QInv
<1>2. IInv /\ QInv /\ [QueryNext]_queryVars => QInv'
  <2> SUFFICES ASSUME IInv, QInv, [QueryNext]_queryVars PROVE QInv'
    OBVIOUS
  <2>1. CASE Work /\ UNCHANGED reading
    BY <2>1, ReadStays DEF QInv
  <2>2. CASE reading' = [q \in Reader |-> NoRead]
    <3>1. ReadSound(NoRead)'
      BY DEF ReadSound, NoRead
    <3> QED
      BY <2>2, <3>1 DEF QInv
  <2>3. ASSUME NEW q \in Reader, ReadStep(q), UNCHANGED vars PROVE QInv'
    BY <2>3, ReadStepInv
  <2>4. CASE UNCHANGED queryVars
    BY <2>4 DEF QInv, ReadSound, KnowsOf, HasRead, Parts, queryVars, vars, rows
  <2> QED
    BY <2>1, <2>2, <2>3, <2>4 DEF QueryNext
<1> QED
  BY <1>1, <1>2, ReadersOnlyRead, Inductive, PTL DEF QuerySpec

(* Store and readers keep their types. *)
THEOREM ReadersAreTyped == QuerySpec => []QueryTypeOK
<1>1. IInv /\ QInv => QueryTypeOK
  BY DEF IInv, QInv, QueryTypeOK
<1> QED
  BY <1>1, ReadersKnow, PTL

(* What GetEvent answers is all of an event, or the event has been deleted *)
(* since it was found, however its statements fall between the commits of  *)
(* others.                                                                 *)
THEOREM WholeAnswers == QuerySpec => []AnswersAreWhole
<1>1. QInv => AnswersAreWhole
  <2> SUFFICES ASSUME QInv, NEW q \in Reader, reading[q].at = "answered"
               PROVE  \/ reading[q].got = reading[q].had
                      \/ /\ reading[q].ev \notin events
                         /\ reading[q].got \subseteq reading[q].had \intersect {"tags"}
    BY DEF AnswersAreWhole
  <2>1. HasRead(reading[q])
    BY DEF QInv, ReadSound
  <2> QED
    BY <2>1 DEF HasRead
<1> QED
  BY <1>1, ReadersKnow, PTL

(* A raw file somebody was told of can be opened until the event goes.     *)
THEOREM FilesOpen == QuerySpec => []ToldFilesOpen
<1>1. QInv => ToldFilesOpen
  BY DEF QInv, ReadSound, HasRead, ToldFilesOpen
<1> QED
  BY <1>1, ReadersKnow, PTL

(* No reader is misled about an event that is still recorded, for any      *)
(* number of readers and however writes, deletes and crashes fall between  *)
(* their statements.                                                       *)
THEOREM ReadersAreRight == QuerySpec => []ReadersAreNotMisled
  BY WholeAnswers, FilesOpen, PTL DEF ReadersAreNotMisled
==============================================================================
