------------------------------- MODULE Library -------------------------------
(***************************************************************************)
(* What the user curates, the replay cases and the hook events, used by    *)
(* the handlers of a running server and brought up to date by every start  *)
(* of the program, of any version in any order.  store.Open seeds row by   *)
(* row, outside a transaction, before the new process tries to listen: a   *)
(* start can die half way, and a second start seeds under the feet of the  *)
(* server that is still running.  One step is one SQL statement.           *)
(***************************************************************************)
EXTENDS Cases, HookEvents

CONSTANTS
    Req,          \* handler goroutines
    NoId,
    DefaultsOf    \* version -> the hook events it wires by default

ASSUME NoIdFresh == NoId \notin SeedId \union CaseId \union Hook
ASSUME HooksAreNoCases == Hook \intersect (SeedId \union CaseId) = {}
ASSUME DefaultsOfType == DefaultsOf \in [Version -> SUBSET Hook]

VARIABLES
    server,    \* whether a server is listening
    opener,    \* the process that is starting: its next step, version, rows to do
    job,       \* goroutine -> the handler's next step, its id and the row it read
    \* history, read by properties only
    drawn,     \* the user's case ids in use so far
    partial,   \* versions that installed seeds and did not save their digest
    edits,     \* built-in cases overwritten since they were last installed
    stale,     \* those whose overwrite had read the row of another version
    gone,      \* cases deleted while no other handler worked on them
    choice,    \* hook -> what the user last asked for it
    installed  \* hooks that some start has seeded

vars == <<casesVars, hooks, server, opener, job, drawn, partial, edits, stale,
          gone, choice, installed>>
caseHistory == <<drawn, partial, edits, stale, gone>>
hookHistory == <<choice, installed>>

NoOpener == [at |-> "off", ver |-> NoVersion, todo |-> {}]
Openers ==
    [at : {"seeds"}, ver : Version, todo : SUBSET SeedId]
    \union [at : {"hooks"}, ver : Version, todo : SUBSET Hook]
    \union {NoOpener}

Idle == [at |-> "idle", id |-> NoId, row |-> NoRow]
Jobs ==
    [at : {"overwrite"}, id : SeedId \union CaseId, row : Row]
    \union [at : {"remove"}, id : SeedId \union CaseId, row : {NoRow}]
    \union [at : {"removeHook"}, id : Hook, row : {NoRow}]
    \union {Idle}

Choices == {"none", "on", "off", "gone"}

TypeOK ==
    /\ CasesTypeOK /\ HooksTypeOK
    /\ server \in BOOLEAN
    /\ opener \in Openers
    /\ job \in [Req -> Jobs]
    /\ drawn \subseteq CaseId
    /\ partial \subseteq Version
    /\ edits \subseteq SeedId /\ stale \subseteq SeedId
    /\ gone \subseteq CaseId
    /\ choice \in [Hook -> Choices]
    /\ installed \subseteq Hook

Init ==
    /\ CasesInit /\ HooksInit
    /\ server = FALSE
    /\ opener = NoOpener
    /\ job = [r \in Req |-> Idle]
    /\ drawn = {} /\ partial = {} /\ edits = {} /\ stale = {} /\ gone = {}
    /\ choice = [h \in Hook |-> "none"]
    /\ installed = {}

At(r, step) == job[r].at = step
Become(r, step, c, row) ==
    job' = [job EXCEPT ![r] = [at |-> step, id |-> c, row |-> row]]
Finish(r) == job' = [job EXCEPT ![r] = Idle]

------------------------------------------------------------------------------
(* store.Open, then ListenAndServe.  The order of the embedded seeds is    *)
(* not fixed here.                                                         *)

OpenBegin(v) ==
    /\ opener = NoOpener
    /\ opener' = IF digest = v
                 THEN [at |-> "hooks", ver |-> v, todo |-> DefaultsOf[v]]
                 ELSE [at |-> "seeds", ver |-> v, todo |-> SeedsOf[v]]
    /\ UNCHANGED <<casesVars, hooks, server, job, caseHistory, hookHistory>>

OpenSeed(c) ==
    /\ opener.at = "seeds" /\ c \in opener.todo
    /\ InstallSeed(opener.ver, c)
    /\ opener' = [opener EXCEPT !.todo = @ \ {c}]
    /\ partial' = partial \union {opener.ver}
    /\ edits' = edits \ {c} /\ stale' = stale \ {c}
    /\ UNCHANGED <<digest, hooks, server, job, drawn, gone, hookHistory>>

(* Mutant: the digest is saved before the last seeds are installed. *)
OpenDigestEarly ==
    /\ opener.at = "seeds"
    /\ SaveDigest(opener.ver)
    /\ opener' = [opener EXCEPT !.at = "hooks", !.todo = DefaultsOf[opener.ver]]
    /\ partial' = {}
    /\ UNCHANGED <<cases, hooks, server, job, drawn, edits, stale, gone, hookHistory>>

OpenDigest ==
    /\ opener.at = "seeds" /\ opener.todo = {}
    /\ SaveDigest(opener.ver)
    /\ opener' = [opener EXCEPT !.at = "hooks", !.todo = DefaultsOf[opener.ver]]
    /\ partial' = {}
    /\ UNCHANGED <<cases, hooks, server, job, drawn, edits, stale, gone, hookHistory>>

OpenHook(h) ==
    /\ opener.at = "hooks" /\ h \in opener.todo
    /\ SeedHook(h)
    /\ opener' = [opener EXCEPT !.todo = @ \ {h}]
    /\ installed' = installed \union {h}
    /\ UNCHANGED <<casesVars, server, job, caseHistory, choice>>

(* A process that cannot listen, as another does, has seeded and exits. *)
OpenListen ==
    /\ opener.at = "hooks" /\ opener.todo = {}
    /\ server' = TRUE
    /\ opener' = NoOpener
    /\ UNCHANGED <<casesVars, hooks, job, caseHistory, hookHistory>>

(* It is killed, or a statement fails and Open returns the error. *)
OpenDies ==
    /\ opener # NoOpener
    /\ opener' = NoOpener
    /\ UNCHANGED <<casesVars, hooks, server, job, caseHistory, hookHistory>>

ServerDies ==
    /\ server
    /\ server' = FALSE
    /\ job' = [r \in Req |-> Idle]
    /\ UNCHANGED <<casesVars, hooks, opener, caseHistory, hookHistory>>

------------------------------------------------------------------------------
(* The handlers of /api/cases.  A statement that fails changes nothing.    *)

(* POST /api/cases and /api/cases/{id}/snapshot: a new row of the user's,  *)
(* copied from a recorded event or another case that was read before, or   *)
(* typed in.  It does not matter here if what was copied is gone by now.   *)
CreateCase(c) ==
    /\ server
    /\ c \notin drawn
    /\ AddCase(c, UserRow)
    /\ drawn' = drawn \union {c}
    /\ UNCHANGED <<digest, hooks, server, opener, job, partial, edits, stale,
                   gone, hookHistory>>

OverwriteRead(r, c) ==
    /\ server /\ At(r, "idle")
    /\ Exists(c)
    /\ Become(r, "overwrite", c, cases[c])
    /\ UNCHANGED <<casesVars, hooks, server, opener, caseHistory, hookHistory>>

(* The request body was read in between; the row that is written back may  *)
(* have been deleted or reinstalled since.                                 *)
OverwriteStore(r) ==
    LET c == job[r].id IN
    /\ At(r, "overwrite")
    /\ \/ /\ AddCase(c, Edited(job[r].row))
          /\ edits' = IF c \in SeedId THEN edits \union {c} ELSE edits
          /\ stale' = IF c \notin SeedId THEN stale
                      ELSE IF cases[c].meta # job[r].row.meta
                           THEN stale \union {c} ELSE stale
       \/ UNCHANGED <<cases, edits, stale>>       \* 400: no body; 500
    /\ Finish(r)
    /\ UNCHANGED <<digest, hooks, server, opener, drawn, partial, gone, hookHistory>>

DeleteRead(r, c) ==
    /\ server /\ At(r, "idle")
    /\ Exists(c) /\ cases[c].source # "seed"      \* 404, 403
    /\ Become(r, "remove", c, NoRow)
    /\ UNCHANGED <<casesVars, hooks, server, opener, caseHistory, hookHistory>>

DeleteRow(r) ==
    LET c == job[r].id IN
    /\ At(r, "remove")
    /\ \/ /\ RemoveCase(c)
          /\ gone' = IF \A q \in Req \ {r} : job[q].id # c
                     THEN gone \union {c} ELSE gone
       \/ UNCHANGED <<cases, gone>>
    /\ Finish(r)
    /\ UNCHANGED <<digest, hooks, server, opener, drawn, partial, edits, stale,
                   hookHistory>>

------------------------------------------------------------------------------
(* The handlers of /api/hook-events. *)

AddHook(h) ==
    /\ server
    /\ AddHookEvent(h)
    /\ choice' = [choice EXCEPT ![h] = "on"]
    /\ UNCHANGED <<casesVars, server, opener, job, caseHistory, installed>>

ToggleHook(h, on) ==
    /\ server
    /\ Listed(h)                                  \* 404
    /\ SetHookEventEnabled(h, on)
    /\ choice' = [choice EXCEPT ![h] = IF on THEN "on" ELSE "off"]
    /\ UNCHANGED <<casesVars, server, opener, job, caseHistory, installed>>

DeleteHookRead(r, h) ==
    /\ server /\ At(r, "idle")
    /\ hooks[h].source = "user"                   \* 404, 403
    /\ Become(r, "removeHook", h, NoRow)
    /\ UNCHANGED <<casesVars, hooks, server, opener, caseHistory, hookHistory>>

DeleteHookRow(r) ==
    LET h == job[r].id IN
    /\ At(r, "removeHook")
    /\ \/ DeleteHookEvent(h) /\ choice' = [choice EXCEPT ![h] = "gone"]
       \/ UNCHANGED <<hooks, choice>>
    /\ Finish(r)
    /\ UNCHANGED <<casesVars, server, opener, caseHistory, installed>>

------------------------------------------------------------------------------
Open ==
    \/ \E v \in Version : OpenBegin(v)
    \/ \E c \in SeedId : OpenSeed(c)
    \/ \E h \in Hook : OpenHook(h)
    \/ OpenDigest \/ OpenListen \/ OpenDies

Handler(r) ==
    \/ \E c \in SeedId \union CaseId : OverwriteRead(r, c) \/ DeleteRead(r, c)
    \/ OverwriteStore(r) \/ DeleteRow(r)
    \/ \E h \in Hook : DeleteHookRead(r, h)
    \/ DeleteHookRow(r)

Next ==
    \/ Open \/ ServerDies
    \/ \E r \in Req : Handler(r)
    \/ \E c \in CaseId : CreateCase(c)
    \/ \E h \in Hook : AddHook(h) \/ ToggleHook(h, TRUE) \/ ToggleHook(h, FALSE)

Spec == Init /\ [][Next]_vars
------------------------------------------------------------------------------
(* Properties. *)

(* While no seeding has been cut short, the table holds every built-in     *)
(* case of the version the digest names, in that version's form, with the  *)
(* body the user last gave it or, if none since, the version's own: edits  *)
(* survive restarts, upgrades refresh everything, crashes are made up for. *)
(* Only an overwrite that read the row before another version installed    *)
(* its own brings back an old form, whole, with the user's body.  That no  *)
(* built-in is ever missing is the code's word, not its comments': these   *)
(* let the user delete one, and have it stay gone until the set changes,   *)
(* but handleDeleteCase, which alone deletes cases, refuses built-ins.     *)
SeedsInSync ==
    partial = {} /\ digest # NoVersion =>
        \A c \in SeedsOf[digest] :
            IF c \in stale THEN \E v \in Version : cases[c] = Edited(SeedRow(v))
            ELSE cases[c] = IF c \in edits THEN Edited(SeedRow(digest))
                                           ELSE SeedRow(digest)

(* A case that was deleted while nobody else worked on it never returns:   *)
(* not by a late overwrite, not by a seeding.                              *)
DeletedCasesStayGone == \A c \in gone : ~Exists(c)

(* Whatever starts of whatever versions do, and however they overlap with  *)
(* requests: what the user muted is listed and not wired, what the user    *)
(* added or enabled is wired, a default the user never touched is wired,   *)
(* and nothing else is.                                                    *)
ChoicesSurvive ==
    \A h \in Hook :
        CASE choice[h] = "off"  -> Listed(h) /\ h \notin Wired
          [] choice[h] = "on"   -> h \in Wired
          [] choice[h] = "none" -> IF h \in installed
                                   THEN h \in Wired /\ hooks[h].source = "seed"
                                   ELSE ~Listed(h)
          [] choice[h] = "gone" -> Listed(h) => h \in Wired /\ hooks[h].source = "seed"

------------------------------------------------------------------------------
(* What a comment says, and the code does not do. *)

(* seedCases "installs the built-in cases and keeps them in sync with the  *)
(* embedded seed files": a start that completes leaves the seeds of its    *)
(* own version in the table.                                               *)
StartInstallsOwnSeeds ==
    [][(~server /\ server') =>
          \A c \in SeedsOf[opener.ver] : cases'[c].meta = opener.ver]_vars
==============================================================================
