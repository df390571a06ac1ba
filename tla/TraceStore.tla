----------------------------- MODULE TraceStore -----------------------------
(***************************************************************************)
(* The trace store: captured events as rows in SQLite and as raw files     *)
(* beside it.  Store.mu serialises Write and DeleteSession, a transaction  *)
(* makes the rows of one call appear together, but the files belong to no  *)
(* transaction: Write creates them before its commit, DeleteSession        *)
(* removes them after its own, and a crash or an error may come anywhere.  *)
(*                                                                         *)
(* SQLite is taken at its word: a transaction commits or leaves no trace,  *)
(* and one connection writes at a time.  What a transaction has done so    *)
(* far is in the job of its goroutine.                                     *)
(***************************************************************************)
CONSTANTS
    Event,        \* events that can be captured, each id random and used once
    Sid,          \* sessions, "_nosession" being one like any other
    SessionOf,    \* event -> session
    Label,        \* names users give to sessions
    NoLabel, NoEvent, NoSid,
    Req,          \* goroutines that call the store
    DiskMayFail   \* whether SQL statements and file operations may fail

ASSUME SessionOfType == SessionOf \in [Event -> Sid]
ASSUME NoLabelFresh == NoLabel \notin Label
ASSUME NoEventFresh == NoEvent \notin Event /\ NoSid \notin Sid
ASSUME FailBool == DiskMayFail \in BOOLEAN

VARIABLES
    drawn,     \* events some goroutine has captured
    sessions,  \* rows of sessions
    label,     \* their label column
    events,    \* rows of events
    details,   \* table keyed by event_id -> events with a row in it
    pointers,  \* rows of raw_files, as <<event, role>>
    files,     \* files under raw/, as <<event, role>>
    mu,        \* the goroutine that holds Store.mu, as a set
    job,       \* goroutine -> what it is doing
    \* history, read by a property only
    deleted    \* sessions deleted and not captured again since

rows == <<sessions, label, events, details, pointers>>
vars == <<drawn, rows, files, mu, job, deleted>>

Role == {"request_body", "response_body", "hook_payload"}

(* http_exchanges and hook_events, an event having a row in one of them. *)
Tables == {"detail", "tags", "sections", "events_fts"}

(* What an event brings along: its raw artifacts and the tables it has     *)
(* rows in.  The proxy and the replay capture every exchange they record,  *)
(* and the hook handler every hook, so none goes without its detail row.   *)
(* Beyond it, a hook may be tagged; an exchange that could be normalized   *)
(* is indexed and may be tagged and have sections.                         *)
Shapes ==
    [roles : {{"hook_payload"}}, tables : {{"detail"}, {"detail", "tags"}}]
    \union
    [roles : {{"request_body", "response_body"}},
     tables : {{"detail"}} \union {{"detail", "events_fts"} \union more :
                                     more \in SUBSET {"tags", "sections"}}]

Files == Event \X Role
FilesOf(s) == {f \in Files : SessionOf[f[1]] = s}

Idle == [at |-> "idle", ev |-> NoEvent, sess |-> NoSid,
         todo |-> {}, done |-> {}, tables |-> {}]
Writing == [at : {"write", "rows"}, ev : Event, sess : Sid,
            todo : SUBSET Role, done : SUBSET Role, tables : SUBSET Tables]
Editing == [at : {"delete", "removeFiles", "rename"}, ev : {NoEvent}, sess : Sid,
            todo : {{}}, done : {{}}, tables : {{}}]
Jobs == {Idle} \union Writing \union Editing

TypeOK ==
    /\ drawn \subseteq Event
    /\ sessions \subseteq Sid
    /\ label \in [Sid -> Label \union {NoLabel}]
    /\ events \subseteq Event
    /\ details \in [Tables -> SUBSET Event]
    /\ pointers \subseteq Files
    /\ files \subseteq Files
    /\ mu \in {{}} \union {{r} : r \in Req}
    /\ job \in [Req -> Jobs]
    /\ deleted \subseteq Sid

Init ==
    /\ drawn = {}
    /\ sessions = {}
    /\ label = [s \in Sid |-> NoLabel]
    /\ events = {}
    /\ details = [t \in Tables |-> {}]
    /\ pointers = {}
    /\ files = {}
    /\ mu = {}
    /\ job = [r \in Req |-> Idle]
    /\ deleted = {}

At(r, step) == job[r].at = step
Finish(r) == job' = [job EXCEPT ![r] = Idle]
Unlock == mu' = {}

------------------------------------------------------------------------------
(* Store.Write *)

Capture(r, e, shape) ==
    /\ At(r, "idle")
    /\ e \notin drawn
    /\ drawn' = drawn \union {e}
    /\ job' = [job EXCEPT ![r] = [at |-> "write", ev |-> e, sess |-> SessionOf[e],
                                  todo |-> shape.roles, done |-> {},
                                  tables |-> shape.tables]]
    /\ UNCHANGED <<rows, files, mu, deleted>>

WriteBegin(r) ==
    /\ At(r, "write")
    /\ mu = {}
    /\ \/ mu' = {r} /\ job' = [job EXCEPT ![r].at = "rows"]
       \/ DiskMayFail /\ Finish(r) /\ UNCHANGED mu
    /\ UNCHANGED <<drawn, rows, files, deleted>>

(* One artifact: its file, then its row.  An artifact that cannot be       *)
(* decoded is skipped; any other error rolls the transaction back, and the *)
(* file may stay.                                                         *)
WriteArtifact(r, a) ==
    LET j == job[r] IN
    /\ At(r, "rows") /\ a \in j.todo
    /\ \/ /\ files' = files \union {<<j.ev, a>>}
          /\ job' = [job EXCEPT ![r].todo = j.todo \ {a}, ![r].done = j.done \union {a}]
          /\ UNCHANGED mu
       \/ /\ job' = [job EXCEPT ![r].todo = j.todo \ {a}]
          /\ UNCHANGED <<files, mu>>
       \/ /\ DiskMayFail
          /\ \E left \in SUBSET {<<j.ev, a>>} : files' = files \union left
          /\ Finish(r) /\ Unlock
    /\ UNCHANGED <<drawn, rows, deleted>>

(* Mutant: INSERT OR REPLACE, which forgets the label. *)
UpsertReplaces(s) ==
    /\ sessions' = sessions \union {s}
    /\ label' = [label EXCEPT ![s] = NoLabel]

(* A new session has no label, a known one keeps its own. *)
UpsertSession(s) ==
    /\ sessions' = sessions \union {s}
    /\ UNCHANGED label

(* Everything else the transaction does becomes visible here, or, if one   *)
(* of its statements or the commit fails, never.                           *)
WriteCommit(r) ==
    LET j == job[r] IN
    /\ At(r, "rows") /\ j.todo = {}
    /\ \/ /\ UpsertSession(j.sess)
          /\ events' = events \union {j.ev}
          /\ details' = [t \in Tables |->
                            IF t \in j.tables THEN details[t] \union {j.ev} ELSE details[t]]
          /\ pointers' = pointers \union {<<j.ev, a>> : a \in j.done}
          /\ deleted' = deleted \ {j.sess}
       \/ DiskMayFail /\ UNCHANGED <<rows, deleted>>
    /\ Finish(r) /\ Unlock
    /\ UNCHANGED <<drawn, files>>

------------------------------------------------------------------------------
(* DELETE /api/sessions/{id} *)

DeleteCheck(r, s) ==
    /\ At(r, "idle")
    /\ s \in sessions
    /\ job' = [job EXCEPT ![r] = [Idle EXCEPT !.at = "delete", !.sess = s]]
    /\ UNCHANGED <<drawn, rows, files, mu, deleted>>

(* Mutant: the search index, which no foreign key guards, is left alone. *)
EraseRowsNotIndex(s) ==
    LET gone == {e \in events : SessionOf[e] = s} IN
    /\ details' = [t \in Tables |->
                    IF t = "events_fts" THEN details[t] ELSE details[t] \ gone]
    /\ pointers' = {p \in pointers : p[1] \notin gone}
    /\ events' = events \ gone
    /\ sessions' = sessions \ {s}
    /\ label' = [label EXCEPT ![s] = NoLabel]

EraseRows(s) ==
    LET gone == {e \in events : SessionOf[e] = s} IN
    /\ details' = [t \in Tables |-> details[t] \ gone]
    /\ pointers' = {p \in pointers : p[1] \notin gone}
    /\ events' = events \ gone
    /\ sessions' = sessions \ {s}
    /\ label' = [label EXCEPT ![s] = NoLabel]

(* Mutant: the lock is released before the files are removed. *)
DeleteCommitUnlocks(r) ==
    /\ At(r, "delete")
    /\ mu = {}
    /\ EraseRows(job[r].sess)
    /\ deleted' = deleted \union {job[r].sess}
    /\ job' = [job EXCEPT ![r].at = "removeFiles"]
    /\ UNCHANGED <<drawn, files, mu>>

(* Mutant: the files go first, and the transaction may fail after that. *)
DeleteCommitFilesFirst(r) ==
    /\ At(r, "delete")
    /\ mu = {}
    /\ files' = files \ FilesOf(job[r].sess)
    /\ \/ EraseRows(job[r].sess) /\ deleted' = deleted \union {job[r].sess}
       \/ DiskMayFail /\ UNCHANGED <<rows, deleted>>
    /\ Finish(r)
    /\ UNCHANGED <<drawn, mu>>

DeleteCommit(r) ==
    /\ At(r, "delete")
    /\ mu = {}
    /\ \/ /\ EraseRows(job[r].sess)
          /\ mu' = {r}
          /\ deleted' = deleted \union {job[r].sess}
          /\ job' = [job EXCEPT ![r].at = "removeFiles"]
       \/ DiskMayFail /\ Finish(r) /\ UNCHANGED <<rows, mu, deleted>>
    /\ UNCHANGED <<drawn, files>>

(* os.RemoveAll, its error ignored: some of the files may stay. *)
DeleteFiles(r) ==
    LET mine == FilesOf(job[r].sess) IN
    /\ At(r, "removeFiles")
    /\ \/ files' = files \ mine
       \/ DiskMayFail /\ \E f \in SUBSET mine : files' = files \ f
    /\ Finish(r) /\ Unlock
    /\ UNCHANGED <<drawn, rows, deleted>>

------------------------------------------------------------------------------
(* PATCH /api/sessions/{id}: not under Store.mu, so that it waits for an   *)
(* open write transaction in SQLite, up to the busy timeout.               *)

RenameCheck(r, s) ==
    /\ At(r, "idle")
    /\ s \in sessions
    /\ job' = [job EXCEPT ![r] = [Idle EXCEPT !.at = "rename", !.sess = s]]
    /\ UNCHANGED <<drawn, rows, files, mu, deleted>>

NoTransaction == \A r \in Req : ~At(r, "rows")

RenameSet(r, l) ==
    LET s == job[r].sess IN
    /\ At(r, "rename")
    /\ \/ /\ NoTransaction
          /\ label' = IF s \in sessions THEN [label EXCEPT ![s] = l] ELSE label
       \/ DiskMayFail /\ UNCHANGED label
    /\ Finish(r)
    /\ UNCHANGED <<drawn, sessions, events, details, pointers, files, mu, deleted>>

------------------------------------------------------------------------------
(* The process dies: open transactions are gone, files stay as they are. *)
Crash ==
    /\ job' = [r \in Req |-> Idle]
    /\ mu' = {}
    /\ UNCHANGED <<drawn, rows, files, deleted>>

Work ==
    \/ \E r \in Req, e \in Event, shape \in Shapes : Capture(r, e, shape)
    \/ \E r \in Req : WriteBegin(r) \/ WriteCommit(r) \/ DeleteCommit(r) \/ DeleteFiles(r)
    \/ \E r \in Req, a \in Role : WriteArtifact(r, a)
    \/ \E r \in Req, s \in Sid : DeleteCheck(r, s) \/ RenameCheck(r, s)
    \/ \E r \in Req, l \in Label \union {NoLabel} : RenameSet(r, l)

Next == Work \/ Crash

Spec == Init /\ [][Next]_vars
------------------------------------------------------------------------------
(* What the viewer's queries return. *)
Listed(s) == {e \in events : SessionOf[e] = s}        \* ListEvents
Detailed(e) == e \in events /\ e \in details["detail"] \* GetEvent
Searchable == details["events_fts"]                    \* SearchEvents, Search

(* Properties. *)

(* A raw file the database points to is on disk, at every instant: Write   *)
(* creates it before the commit and DeleteSession removes it after its     *)
(* own, and the lock keeps the second from a file of the first.            *)
PointersResolve == pointers \subseteq files

(* No query returns a part of an event: whatever a session lists has its   *)
(* detail row and its session, and what is searched, tagged, sectioned or  *)
(* pointed to is still listed.                                             *)
NothingDangles ==
    /\ \A e \in events : Detailed(e)
    /\ sessions = {SessionOf[e] : e \in events}
    /\ Searchable \subseteq events
    /\ \A t \in Tables : details[t] \subseteq events
    /\ \A p \in pointers : p[1] \in Listed(SessionOf[p[1]])

(* The store implements the archive of whole events and named sessions,    *)
(* through failing statements, rollbacks and crashes.                      *)
Archive == INSTANCE TraceArchive WITH recorded <- events, names <- label
ImplementsArchive == Archive!ArchiveSpec

------------------------------------------------------------------------------
(* What the comment of DeleteSession says: it "permanently removes a       *)
(* session and ALL its captured data", down to "the raw bytes on disk".    *)
(* When a session has been deleted and nobody is at work, none is left.    *)
DeletedIsErased ==
    (\A r \in Req : At(r, "idle"))
        => \A s \in deleted : files \intersect FilesOf(s) = {}
==============================================================================
