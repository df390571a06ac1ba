---------------------------- MODULE LibraryProofs ----------------------------
(***************************************************************************)
(* Theorems about Library, for any versions, built-in cases, default hooks *)
(* and number of goroutines.                                               *)
(***************************************************************************)
EXTENDS Library, TLAPS

(* Every row the program makes is one. *)
LEMMA RowFacts ==
    /\ NoRow \in Row /\ UserRow \in Row /\ NoRow.source = "none"
    /\ UserRow.source = "user" /\ NoId \notin SeedId \union CaseId
    /\ \A v \in Version : SeedRow(v) \in Row
    /\ \A row \in Row : Edited(row) \in Row
  BY NoIdFresh DEF Row, NoRow, UserRow, SeedRow, Edited

(* Every job the handlers set up is one. *)
LEMMA JobFacts ==
    /\ Idle \in Jobs
    /\ \A c \in SeedId \union CaseId, row \in Row :
        [at |-> "overwrite", id |-> c, row |-> row] \in Jobs
    /\ \A c \in SeedId \union CaseId : [at |-> "remove", id |-> c, row |-> NoRow] \in Jobs
    /\ \A h \in Hook : [at |-> "removeHook", id |-> h, row |-> NoRow] \in Jobs
  BY DEF Idle, Jobs

(* What the step of a job says of its other fields. *)
LEMMA JobKinds ==
  ASSUME NEW j \in Jobs
  PROVE  /\ j.at \in {"idle", "overwrite", "remove", "removeHook"}
         /\ j.at = "overwrite" => j.id \in SeedId \union CaseId /\ j.row \in Row
         /\ j.at = "remove" => j.id \in SeedId \union CaseId
         /\ j.at = "removeHook" => j.id \in Hook
         /\ j.at = "idle" => j = Idle
  BY DEF Jobs, Idle

(* What the step of a starting process says of its other fields. *)
LEMMA OpenerKinds ==
  ASSUME NEW o \in Openers
  PROVE  /\ o.at = "seeds" => o.ver \in Version /\ o.todo \in SUBSET SeedId
         /\ o.at = "hooks" => o.ver \in Version /\ o.todo \in SUBSET Hook
         /\ o.at \in {"off", "seeds", "hooks"}
         /\ o.at = "off" => o = NoOpener
  BY DEF Openers, NoOpener
------------------------------------------------------------------------------
(* A built-in row has the form of the version it came from, and a body of  *)
(* the user's exactly if it was edited since.                              *)
SeedRows ==
    \A c \in SeedId : Exists(c) =>
        /\ cases[c].meta \in Version
        /\ cases[c] = IF c \in edits THEN Edited(SeedRow(cases[c].meta))
                                     ELSE SeedRow(cases[c].meta)

(* A handler overwrites a built-in case with a row that was a built-in one, *)
(* and removes only the user's cases.                                      *)
JobRows ==
    \A r \in Req :
        /\ At(r, "overwrite") /\ job[r].id \in SeedId =>
              /\ job[r].row.meta \in Version
              /\ Edited(job[r].row) = Edited(SeedRow(job[r].row.meta))
        /\ At(r, "remove") => job[r].id \in CaseId

Sound == TypeOK /\ SeedRows /\ JobRows

(* At start the tables are empty and nothing runs. *)
LEMMA TypeInit == Init => TypeOK
<1> SUFFICES ASSUME Init PROVE TypeOK
  OBVIOUS
<1>1. CasesTypeOK
  BY RowFacts DEF Init, CasesInit, CasesTypeOK
<1>2. HooksTypeOK
  BY DEF Init, HooksInit, HooksTypeOK, HookRow, NoHook
<1>3. opener \in Openers /\ job \in [Req -> Jobs]
  BY JobFacts DEF Init, Openers
<1>4. choice \in [Hook -> Choices]
  BY DEF Init, Choices
<1> QED
  BY <1>1, <1>2, <1>3, <1>4 DEF Init, TypeOK

(* So there is nothing to say of rows and jobs. *)
LEMMA SoundInit == Init => Sound
  BY TypeInit, RowFacts DEF Init, Sound, SeedRows, JobRows, CasesInit, Exists, At, Idle

(* The steps of a starting process keep the types. *)
LEMMA TypeOpen == ASSUME TypeOK, Open PROVE TypeOK'
<1> USE DEF TypeOK, CasesTypeOK, HooksTypeOK, caseHistory, hookHistory, casesVars
<1>1. ASSUME NEW v \in Version, OpenBegin(v) PROVE TypeOK'
  <2>1. opener' \in Openers
    BY <1>1, SeedsOfType, DefaultsOfType DEF OpenBegin, Openers
  <2> QED
    BY <1>1, <2>1 DEF OpenBegin
<1>2. ASSUME NEW c \in SeedId, OpenSeed(c) PROVE TypeOK'
  <2>1. opener.ver \in Version /\ opener.todo \in SUBSET SeedId
    BY <1>2, OpenerKinds DEF OpenSeed
  <2>2. opener' \in Openers
    BY <1>2, <2>1 DEF OpenSeed, Openers, NoOpener
  <2>3. cases' \in [SeedId \union CaseId -> Row]
    BY <1>2, <2>1, RowFacts DEF OpenSeed, InstallSeed, AddCase
  <2> QED
    BY <1>2, <2>1, <2>2, <2>3 DEF OpenSeed
<1>3. ASSUME OpenDigest PROVE TypeOK'
  <2>1. opener.ver \in Version
    BY <1>3, OpenerKinds DEF OpenDigest
  <2>2. opener' \in Openers
    BY <1>3, <2>1, DefaultsOfType DEF OpenDigest, Openers, NoOpener
  <2> QED
    BY <1>3, <2>1, <2>2 DEF OpenDigest, SaveDigest
<1>4. ASSUME NEW h \in Hook, OpenHook(h) PROVE TypeOK'
  <2>1. opener.ver \in Version /\ opener.todo \in SUBSET Hook
    BY <1>4, OpenerKinds DEF OpenHook
  <2>2. opener' \in Openers
    BY <1>4, <2>1 DEF OpenHook, Openers, NoOpener
  <2>3. hooks' \in [Hook -> HookRow]
    BY <1>4 DEF OpenHook, SeedHook, HookRow
  <2> QED
    BY <1>4, <2>2, <2>3 DEF OpenHook
<1>5. CASE OpenListen
  BY <1>5 DEF OpenListen, Openers
<1>6. CASE OpenDies
  BY <1>6 DEF OpenDies, Openers
<1> QED
  BY <1>1, <1>2, <1>3, <1>4, <1>5, <1>6 DEF Open

(* The steps of a handler keep the types. *)
LEMMA TypeHandler == ASSUME Sound, NEW r \in Req, Handler(r) PROVE TypeOK'
<1> USE DEF Sound, TypeOK, CasesTypeOK, HooksTypeOK, caseHistory, hookHistory, casesVars
<1>1. ASSUME NEW c \in SeedId \union CaseId, OverwriteRead(r, c) PROVE TypeOK'
  BY <1>1, JobFacts DEF OverwriteRead, Become
<1>2. ASSUME NEW c \in SeedId \union CaseId, DeleteRead(r, c) PROVE TypeOK'
  BY <1>2, JobFacts DEF DeleteRead, Become
<1>3. ASSUME OverwriteStore(r) PROVE TypeOK'
  <2>1. job[r].id \in SeedId \union CaseId /\ job[r].row \in Row
    BY <1>3, JobKinds DEF OverwriteStore, At
  <2>2. cases' \in [SeedId \union CaseId -> Row]
    BY <1>3, <2>1, RowFacts DEF OverwriteStore, AddCase
  <2> QED
    BY <1>3, <2>1, <2>2, JobFacts DEF OverwriteStore, Finish
<1>4. ASSUME NEW h \in Hook, DeleteHookRead(r, h) PROVE TypeOK'
  BY <1>4, JobFacts DEF DeleteHookRead, Become
<1>5. ASSUME DeleteHookRow(r) PROVE TypeOK'
  <2>1. hooks' \in [Hook -> HookRow] /\ choice' \in [Hook -> Choices]
    <3>1. NoHook \in HookRow
      BY DEF NoHook, HookRow
    <3>2. hooks' \in [Hook -> HookRow]
      BY <1>5, <3>1 DEF DeleteHookRow, DeleteHookEvent
    <3>3. choice' \in [Hook -> Choices]
      BY <1>5 DEF DeleteHookRow, Choices
    <3> QED
      BY <3>2, <3>3
  <2>2. job' \in [Req -> Jobs]
    BY <1>5, JobFacts DEF DeleteHookRow, Finish
  <2> QED
    BY <1>5, <2>1, <2>2 DEF DeleteHookRow
<1>6. ASSUME DeleteRow(r) PROVE TypeOK'
  <2>1. job[r].id \in CaseId
    BY <1>6 DEF DeleteRow, JobRows
  <2>2. cases' \in [SeedId \union CaseId -> Row]
    BY <1>6, RowFacts DEF DeleteRow, RemoveCase
  <2> QED
    BY <1>6, <2>1, <2>2, JobFacts DEF DeleteRow, Finish
<1> QED
  BY <1>1, <1>2, <1>3, <1>4, <1>5, <1>6 DEF Handler

(* Every step keeps the types. *)
LEMMA TypeNext == ASSUME Sound, [Next]_vars PROVE TypeOK'
<1>1. CASE Open
  BY <1>1, TypeOpen DEF Sound
<1>2. CASE \E r \in Req : Handler(r)
  BY <1>2, TypeHandler
<1> USE DEF Sound, TypeOK, CasesTypeOK, HooksTypeOK, caseHistory, hookHistory, casesVars
<1>3. CASE ServerDies
  BY <1>3, JobFacts DEF ServerDies
<1>4. ASSUME NEW c \in CaseId, CreateCase(c) PROVE TypeOK'
  BY <1>4, RowFacts DEF CreateCase, AddCase
<1>5. ASSUME NEW h \in Hook, AddHook(h) PROVE TypeOK'
  BY <1>5 DEF AddHook, AddHookEvent, HookRow, Choices
<1>6. ASSUME NEW h \in Hook, NEW on \in BOOLEAN, ToggleHook(h, on) PROVE TypeOK'
  BY <1>6 DEF ToggleHook, SetHookEventEnabled, HookRow, Choices
<1>7. CASE UNCHANGED vars
  BY <1>7 DEF vars
<1> QED
  BY <1>1, <1>2, <1>3, <1>4, <1>5, <1>6, <1>7 DEF Next

(* What a step can do to a built-in row: a start installs it, an overwrite *)
(* writes back the row it read, everything else leaves it alone.           *)
LEMMA SeedRowSteps ==
  ASSUME Sound, [Next]_vars, NEW c \in SeedId
  PROVE  \/ /\ opener.at = "seeds" /\ opener.ver \in Version \intersect partial'
            /\ cases'[c] = SeedRow(opener.ver)
            /\ c \notin edits' /\ c \notin stale'
         \/ \E r \in Req :
                /\ job[r].row.meta \in Version
                /\ cases'[c] = Edited(SeedRow(job[r].row.meta))
                /\ c \in edits'
                /\ \/ c \in stale'
                   \/ c \notin stale /\ cases[c].meta = job[r].row.meta
         \/ /\ cases'[c] = cases[c]
            /\ (c \in edits') = (c \in edits) /\ (c \in stale') = (c \in stale)
<1> USE DEF caseHistory, hookHistory, casesVars
<1>1. ASSUME NEW d \in SeedId, OpenSeed(d)
      PROVE  \/ /\ cases'[c] = SeedRow(opener.ver) /\ c \notin edits' /\ c \notin stale'
             \/ /\ cases'[c] = cases[c]
                /\ (c \in edits') = (c \in edits) /\ (c \in stale') = (c \in stale)
  BY <1>1 DEF OpenSeed, InstallSeed, AddCase, Sound, TypeOK, CasesTypeOK
<1>2. ASSUME NEW d \in SeedId, OpenSeed(d)
      PROVE  opener.at = "seeds" /\ opener.ver \in Version \intersect partial'
  BY <1>2, OpenerKinds DEF OpenSeed, Sound, TypeOK
<1>3. ASSUME NEW r \in Req, OverwriteStore(r), job[r].id = c
      PROVE  \/ /\ job[r].row.meta \in Version
                /\ cases'[c] = Edited(SeedRow(job[r].row.meta))
                /\ c \in edits'
                /\ \/ c \in stale'
                   \/ c \notin stale /\ cases[c].meta = job[r].row.meta
             \/ /\ cases'[c] = cases[c]
                /\ edits' = edits /\ stale' = stale
  BY <1>3 DEF OverwriteStore, AddCase, Sound, TypeOK, CasesTypeOK, JobRows
<1>4. ASSUME NEW r \in Req, OverwriteStore(r), job[r].id # c
      PROVE  /\ cases'[c] = cases[c]
             /\ (c \in edits') = (c \in edits) /\ (c \in stale') = (c \in stale)
  BY <1>4 DEF OverwriteStore, AddCase, Sound, TypeOK, CasesTypeOK
<1>5. ASSUME NEW r \in Req, DeleteRow(r)
      PROVE  cases'[c] = cases[c] /\ UNCHANGED <<edits, stale>>
  BY <1>5, IdsDiffer DEF DeleteRow, RemoveCase, Sound, TypeOK, CasesTypeOK, JobRows
<1>6. ASSUME NEW d \in CaseId, CreateCase(d)
      PROVE  cases'[c] = cases[c] /\ UNCHANGED <<edits, stale>>
  BY <1>6, IdsDiffer DEF CreateCase, AddCase, Sound, TypeOK, CasesTypeOK
<1>7. CASE UNCHANGED <<cases, edits, stale>>
  BY <1>7
<1>8. \/ \E d \in SeedId : OpenSeed(d)
      \/ \E r \in Req : OverwriteStore(r) \/ DeleteRow(r)
      \/ \E d \in CaseId : CreateCase(d)
      \/ UNCHANGED <<cases, edits, stale>>
  BY DEF Next, Open, Handler, vars, OpenBegin, OpenHook, OpenDigest, OpenListen, OpenDies,
     ServerDies, OverwriteRead, DeleteRead, DeleteHookRead, DeleteHookRow, AddHook, ToggleHook
<1> QED
  BY <1>1, <1>2, <1>3, <1>4, <1>5, <1>6, <1>7, <1>8

(* Built-in rows keep their form. *)
LEMMA SeedRowsNext == ASSUME Sound, [Next]_vars PROVE SeedRows'
<1> SUFFICES ASSUME NEW c \in SeedId, Exists(c)'
             PROVE  /\ cases'[c].meta \in Version
                    /\ cases'[c] = IF c \in edits' THEN Edited(SeedRow(cases'[c].meta))
                                                   ELSE SeedRow(cases'[c].meta)
  BY DEF SeedRows
<1>1. ASSUME NEW v PROVE SeedRow(v).meta = v /\ Edited(SeedRow(v)).meta = v
  BY DEF SeedRow, Edited
<1>2. CASE /\ opener.ver \in Version
           /\ cases'[c] = SeedRow(opener.ver) /\ c \notin edits'
  BY <1>1, <1>2
<1>3. ASSUME NEW r \in Req, job[r].row.meta \in Version,
             cases'[c] = Edited(SeedRow(job[r].row.meta)), c \in edits'
      PROVE  /\ cases'[c].meta \in Version
             /\ cases'[c] = Edited(SeedRow(cases'[c].meta))
  BY <1>1, <1>3
<1>4. CASE cases'[c] = cases[c] /\ (c \in edits') = (c \in edits)
  BY <1>4 DEF Sound, SeedRows, Exists
<1> QED
  BY <1>2, <1>3, <1>4, SeedRowSteps

(* Handlers take only rows and ids that suit them. *)
LEMMA JobRowsNext == ASSUME Sound, [Next]_vars PROVE JobRows'
<1> USE DEF caseHistory, hookHistory, casesVars
<1>1. ASSUME NEW r \in Req, NEW c \in SeedId \union CaseId, OverwriteRead(r, c)
      PROVE  JobRows'
  <2>1. c \in SeedId => /\ cases[c].meta \in Version
                        /\ Edited(cases[c]) = Edited(SeedRow(cases[c].meta))
    BY <1>1 DEF OverwriteRead, Sound, SeedRows, Edited, SeedRow
  <2>2. job' = [job EXCEPT ![r] = [at |-> "overwrite", id |-> c, row |-> cases[c]]]
    BY <1>1 DEF OverwriteRead, Become
  <2> QED
    BY <2>1, <2>2 DEF Sound, TypeOK, JobRows, At
<1>2. ASSUME NEW r \in Req, NEW c \in SeedId \union CaseId, DeleteRead(r, c)
      PROVE  JobRows'
  <2>1. c \in CaseId
    <3>1. Exists(c) /\ cases[c].source # "seed"
      BY <1>2 DEF DeleteRead
    <3>2. \A v \in Version : SeedRow(v).source = "seed" /\ Edited(SeedRow(v)).source = "seed"
      BY DEF SeedRow, Edited
    <3> QED
      BY <3>1, <3>2 DEF Sound, SeedRows
  <2>2. job' = [job EXCEPT ![r] = [at |-> "remove", id |-> c, row |-> NoRow]]
    BY <1>2 DEF DeleteRead, Become
  <2> QED
    BY <2>1, <2>2 DEF Sound, TypeOK, JobRows, At
<1>3. ASSUME NEW r \in Req, NEW h \in Hook, DeleteHookRead(r, h) PROVE JobRows'
  <2>1. job' = [job EXCEPT ![r] = [at |-> "removeHook", id |-> h, row |-> NoRow]]
    BY <1>3 DEF DeleteHookRead, Become
  <2> QED
    BY <2>1 DEF Sound, TypeOK, JobRows, At
<1>4. ASSUME NEW r \in Req, Finish(r) PROVE JobRows'
  BY <1>4 DEF Finish, Idle, Sound, TypeOK, JobRows, At
<1>5. CASE ServerDies
  BY <1>5 DEF ServerDies, Idle, JobRows, At
<1>6. CASE UNCHANGED job
  BY <1>6 DEF Sound, JobRows, At
<1>7. \/ \E r \in Req, c \in SeedId \union CaseId : OverwriteRead(r, c) \/ DeleteRead(r, c)
      \/ \E r \in Req, h \in Hook : DeleteHookRead(r, h)
      \/ \E r \in Req : Finish(r)
      \/ ServerDies \/ UNCHANGED job
  BY DEF Next, Open, Handler, vars, OpenBegin, OpenSeed, OpenHook, OpenDigest, OpenListen,
     OpenDies, CreateCase, AddHook, ToggleHook, OverwriteStore, DeleteRow, DeleteHookRow
<1> QED
  BY <1>1, <1>2, <1>3, <1>4, <1>5, <1>6, <1>7

(* The three together are inductive. *)
LEMMA SoundNext == ASSUME Sound, [Next]_vars PROVE Sound'
  BY TypeNext, SeedRowsNext, JobRowsNext DEF Sound

LEMMA Soundness == Spec => []Sound
  BY SoundInit, SoundNext, PTL DEF Spec

(* Rows, handlers, starts and history keep their types, in particular the  *)
(* recorded deletes are of the user's own cases.                           *)
THEOREM TypeCorrect == Spec => []TypeOK
  BY Soundness, PTL DEF Sound
------------------------------------------------------------------------------
(* Built-in cases and the digest. *)

Current(v, row) == row.source # "none" /\ row.meta = v

(* A start under way has installed what is not on its list any more. *)
Seeding ==
    opener.at = "seeds" =>
        \A c \in SeedsOf[opener.ver] \ (opener.todo \union stale) :
            Current(opener.ver, cases[c])

(* If no start was cut short, the digest's version has all its seeds. *)
Synced ==
    partial = {} /\ digest # NoVersion =>
        \A c \in SeedsOf[digest] \ stale : Current(digest, cases[c])

(* What a late overwrite brought back is there, and is an edit. *)
StaleRows == \A c \in stale : Exists(c) /\ c \in edits

SeedInv == Sound /\ Seeding /\ Synced /\ StaleRows

(* A built-in case stays current through every step but the installation   *)
(* of another version's, unless a late overwrite makes it stale.           *)
LEMMA StaysCurrent ==
  ASSUME Sound, [Next]_vars, NEW v \in Version, NEW c \in SeedId,
         c \notin stale => Current(v, cases[c]), c \notin stale',
         opener.at = "seeds" /\ opener.ver \in partial' => opener.ver = v
  PROVE  Current(v, cases'[c])
<1>1. ASSUME NEW w \in Version
      PROVE  /\ SeedRow(w).meta = w /\ SeedRow(w).source = "seed"
             /\ Edited(SeedRow(w)).meta = w /\ Edited(SeedRow(w)).source = "seed"
  BY DEF SeedRow, Edited
<1>2. CASE cases'[c] = SeedRow(v)
  BY <1>1, <1>2 DEF Current, Exists
<1>3. ASSUME NEW r \in Req, job[r].row.meta \in Version,
             cases'[c] = Edited(SeedRow(job[r].row.meta)),
             c \notin stale, cases[c].meta = job[r].row.meta
      PROVE  Current(v, cases'[c])
  BY <1>1, <1>3 DEF Current, Exists
<1>4. CASE cases'[c] = cases[c] /\ (c \in stale') = (c \in stale)
  BY <1>4 DEF Current, Exists
<1> QED
  BY <1>2, <1>3, <1>4, SeedRowSteps

(* A start goes on installing its own version's seeds, one by one. *)
LEMMA OpenerSteps ==
  ASSUME Sound, [Next]_vars, opener'.at = "seeds"
  PROVE  \/ opener' = opener
         \/ opener.at # "seeds" /\ opener'.todo = SeedsOf[opener'.ver]
         \/ \E d \in SeedId :
                /\ opener.at = "seeds" /\ opener'.ver = opener.ver
                /\ opener'.todo = opener.todo \ {d}
                /\ cases'[d] = SeedRow(opener.ver)
<1>1. ASSUME NEW v \in Version, OpenBegin(v)
      PROVE  opener.at # "seeds" /\ opener'.todo = SeedsOf[opener'.ver]
  BY <1>1 DEF OpenBegin, NoOpener
<1>2. ASSUME NEW d \in SeedId, OpenSeed(d)
      PROVE  /\ opener.at = "seeds" /\ opener'.ver = opener.ver
             /\ opener'.todo = opener.todo \ {d}
             /\ cases'[d] = SeedRow(opener.ver)
  BY <1>2, OpenerKinds DEF OpenSeed, InstallSeed, AddCase, Sound, TypeOK, CasesTypeOK, Openers
<1>3. ASSUME NEW h \in Hook, OpenHook(h) PROVE FALSE
  BY <1>3 DEF OpenHook, Sound, TypeOK, Openers
<1>4. ~OpenDigest /\ ~OpenListen /\ ~OpenDies
  <2>1. CASE OpenDigest
    <3>1. opener \in [at : {"seeds"}, ver : Version, todo : SUBSET SeedId]
      BY <2>1 DEF OpenDigest, Sound, TypeOK, Openers, NoOpener
    <3>2. opener'.at = "hooks"
      BY <2>1, <3>1 DEF OpenDigest
    <3> QED
      BY <3>2
  <2>2. CASE OpenListen \/ OpenDies
    BY <2>2 DEF OpenListen, OpenDies, NoOpener
  <2> QED
    BY <2>1, <2>2
<1>5. CASE opener' = opener
  BY <1>5
<1>6. \/ \E v \in Version : OpenBegin(v)
      \/ \E d \in SeedId : OpenSeed(d)
      \/ \E h \in Hook : OpenHook(h)
      \/ OpenDigest \/ OpenListen \/ OpenDies \/ opener' = opener
  BY DEF Next, Open, Handler, vars, ServerDies, OverwriteRead, OverwriteStore, DeleteRead,
     DeleteRow, DeleteHookRead, DeleteHookRow, CreateCase, AddHook, ToggleHook
<1> QED
  BY <1>1, <1>2, <1>3, <1>4, <1>5, <1>6

(* Every step keeps what a start has done so far. *)
LEMMA SeedingNext == ASSUME SeedInv, [Next]_vars PROVE Seeding'
<1> SUFFICES ASSUME opener'.at = "seeds",
                    NEW c \in SeedsOf[opener'.ver] \ (opener'.todo \union stale')
             PROVE  Current(opener'.ver, cases'[c])
  BY DEF Seeding
<1>1. Sound' /\ opener'.ver \in Version /\ c \in SeedId
  BY SoundNext, OpenerKinds, SeedsOfType DEF SeedInv, Sound, TypeOK
<1>2. ASSUME opener.at = "seeds", opener'.ver = opener.ver,
             c \notin opener.todo
      PROVE  Current(opener'.ver, cases'[c])
  <2> DEFINE v == opener.ver
  <2>1. c \notin stale => Current(v, cases[c])
    BY <1>2 DEF SeedInv, Seeding
  <2> QED
    BY <1>1, <1>2, <2>1, StaysCurrent DEF SeedInv, Current, Exists
<1>3. ASSUME opener'.ver = opener.ver, cases'[c] = SeedRow(opener.ver)
      PROVE  Current(opener'.ver, cases'[c])
  BY <1>3 DEF Current, Exists, SeedRow
<1> QED
  BY <1>2, <1>3, OpenerSteps DEF SeedInv

(* Only the end of a seeding makes the table a version's. *)
LEMMA SyncedSteps ==
  ASSUME Sound, [Next]_vars, partial' = {}
  PROVE  \/ partial = {} /\ digest' = digest
         \/ /\ opener.at = "seeds" /\ opener.todo = {}
            /\ digest' = opener.ver /\ UNCHANGED <<cases, stale>>
<1>1. ASSUME NEW d \in SeedId, OpenSeed(d) PROVE FALSE
  BY <1>1 DEF OpenSeed
<1>2. CASE OpenDigest
  BY <1>2 DEF OpenDigest, SaveDigest
<1>3. CASE UNCHANGED <<partial, digest>>
  BY <1>3
<1>4. \/ \E d \in SeedId : OpenSeed(d)
      \/ OpenDigest \/ UNCHANGED <<partial, digest>>
  BY DEF Next, Open, Handler, vars, OpenBegin, OpenHook, OpenListen, OpenDies, ServerDies,
     OverwriteRead, OverwriteStore, DeleteRead, DeleteRow, DeleteHookRead, DeleteHookRow,
     CreateCase, AddHook, ToggleHook, caseHistory, casesVars
<1> QED
  BY <1>1, <1>2, <1>3, <1>4

(* Every step keeps the seeds of the digest's version. *)
LEMMA SyncedNext == ASSUME SeedInv, [Next]_vars PROVE Synced'
<1> SUFFICES ASSUME partial' = {}, digest' # NoVersion,
                    NEW c \in SeedsOf[digest'] \ stale'
             PROVE  Current(digest', cases'[c])
  BY DEF Synced
<1>1. digest' \in Version /\ c \in SeedId
  BY SoundNext, SeedsOfType DEF SeedInv, Sound, TypeOK, CasesTypeOK
<1>2. CASE partial = {} /\ digest' = digest
  <2> DEFINE v == digest
  <2>1. c \notin stale => Current(v, cases[c])
    BY <1>2 DEF SeedInv, Synced
  <2> QED
    BY <1>1, <1>2, <2>1, StaysCurrent DEF SeedInv, Current, Exists
<1>3. CASE /\ opener.at = "seeds" /\ opener.todo = {}
           /\ digest' = opener.ver /\ UNCHANGED <<cases, stale>>
  BY <1>3 DEF SeedInv, Seeding, Current, Exists
<1> QED
  BY <1>2, <1>3, SyncedSteps DEF SeedInv

(* Every step keeps what late overwrites brought back, or installs anew. *)
LEMMA StaleRowsNext == ASSUME SeedInv, [Next]_vars PROVE StaleRows'
<1> SUFFICES ASSUME NEW c \in stale' PROVE Exists(c)' /\ c \in edits'
  BY DEF StaleRows
<1>1. c \in SeedId
  BY SoundNext DEF SeedInv, Sound, TypeOK
<1>2. \A v : Edited(SeedRow(v)).source = "seed"
  BY DEF Edited, SeedRow
<1>3. c \in stale => Exists(c) /\ c \in edits
  BY DEF SeedInv, StaleRows
<1> QED
  BY <1>1, <1>2, <1>3, SeedRowSteps DEF SeedInv, Exists

(* At start nothing is installed. *)
LEMMA SeedInit == Init => SeedInv
  BY SoundInit DEF Init, SeedInv, Seeding, Synced, StaleRows, CasesInit, NoOpener

(* So the invariant holds throughout. *)
LEMMA SeedInvariance == Spec => []SeedInv
<1>1. SeedInv /\ [Next]_vars => SeedInv'
  BY SoundNext, SeedingNext, SyncedNext, StaleRowsNext DEF SeedInv
<1> QED
  BY <1>1, SeedInit, PTL DEF Spec

(* Built-in cases stay those of the digest's version, with the user's      *)
(* edits, through starts of any versions in any order, crashes and         *)
(* requests, as long as no seeding is left half done; a late overwrite     *)
(* leaves an edited row of another version, and no request removes one.    *)
THEOREM BuiltinsInSync == Spec => []SeedsInSync
<1>1. SeedInv => SeedsInSync
  <2> SUFFICES ASSUME SeedInv, partial = {}, digest # NoVersion,
                      NEW c \in SeedsOf[digest]
               PROVE  IF c \in stale THEN \E v \in Version : cases[c] = Edited(SeedRow(v))
                      ELSE cases[c] = IF c \in edits THEN Edited(SeedRow(digest))
                                                     ELSE SeedRow(digest)
    BY DEF SeedsInSync
  <2>1. c \in SeedId
    BY SeedsOfType DEF SeedInv, Sound, TypeOK, CasesTypeOK
  <2>2. c \in stale => Exists(c) /\ c \in edits
    BY DEF SeedInv, StaleRows
  <2>3. c \notin stale => Exists(c) /\ cases[c].meta = digest
    BY DEF SeedInv, Synced, Current, Exists
  <2> QED
    BY <2>1, <2>2, <2>3 DEF SeedInv, Sound, SeedRows
<1> QED
  BY <1>1, SeedInvariance, PTL
------------------------------------------------------------------------------
(* The user's own cases. *)

(* An id that is in the table or in a handler was drawn. *)
Drawn ==
    \A c \in CaseId : Exists(c) \/ (\E r \in Req : job[r].id = c) => c \in drawn

(* A case deleted with nobody else at work is in no handler's hands. *)
Gone ==
    \A c \in gone :
        c \in drawn /\ ~Exists(c) /\ \A r \in Req : job[r].id # c

GoneInv == Sound /\ Drawn /\ Gone

(* A handler that is over holds no id. *)
LEMMA FinishedHoldsNone == Idle.id = NoId /\ Idle.id \notin CaseId
  BY RowFacts DEF Idle

(* A handler takes an id only from a row that exists. *)
LEMMA GoneTaken ==
  ASSUME GoneInv, NEW r \in Req, NEW d, d \in CaseId => Exists(d),
         \E step, row : job' = [job EXCEPT ![r] = [at |-> step, id |-> d, row |-> row]],
         UNCHANGED <<cases, drawn, gone>>
  PROVE  Drawn' /\ Gone'
<1>1. PICK step, row : job' = [job EXCEPT ![r] = [at |-> step, id |-> d, row |-> row]]
  OBVIOUS
<1>2. /\ job'[r].id = d
      /\ \A q \in Req \ {r} : job'[q] = job[q]
  BY <1>1 DEF GoneInv, Sound, TypeOK
<1>3. Drawn'
  BY <1>2 DEF GoneInv, Drawn, Exists
<1>4. Gone'
  BY <1>2 DEF GoneInv, Gone, Exists, Sound, TypeOK
<1> QED
  BY <1>3, <1>4

(* Every step keeps Drawn and Gone. *)
LEMMA GoneNext == ASSUME GoneInv, [Next]_vars PROVE Drawn' /\ Gone'
<1> USE DEF caseHistory, hookHistory, casesVars
<1>1. ASSUME NEW r \in Req, NEW d \in SeedId \union CaseId,
             OverwriteRead(r, d) \/ DeleteRead(r, d)
      PROVE  Drawn' /\ Gone'
  BY <1>1, GoneTaken DEF OverwriteRead, DeleteRead, Become
<1>2. ASSUME NEW r \in Req, NEW h \in Hook, DeleteHookRead(r, h)
      PROVE  Drawn' /\ Gone'
  BY <1>2, GoneTaken, HooksAreNoCases DEF DeleteHookRead, Become
<1>3. ASSUME NEW r \in Req, Finish(r)
      PROVE  /\ job'[r].id \notin CaseId
             /\ \A q \in Req \ {r} : job'[q] = job[q]
  BY <1>3, FinishedHoldsNone DEF Finish, GoneInv, Sound, TypeOK
<1>4. ASSUME NEW r \in Req, OverwriteStore(r) PROVE Drawn' /\ Gone'
  <2> DEFINE d == job[r].id
  <2>1. /\ \A c \in CaseId \ {d} : cases'[c] = cases[c]
        /\ UNCHANGED <<drawn, gone>> /\ Finish(r)
    BY <1>4 DEF OverwriteStore, AddCase, GoneInv, Sound, TypeOK, CasesTypeOK
  <2>2. d \in CaseId => d \in drawn
    BY DEF GoneInv, Drawn
  <2>3. d \notin gone
    BY DEF GoneInv, Gone
  <2>4. gone \subseteq CaseId
    BY DEF GoneInv, Sound, TypeOK
  <2> HIDE DEF d
  <2>5. Drawn'
    BY <1>3, <2>1, <2>2 DEF GoneInv, Drawn, Exists
  <2>6. Gone'
    BY <1>3, <2>1, <2>3, <2>4 DEF GoneInv, Gone, Exists
  <2> QED
    BY <2>5, <2>6
<1>5. ASSUME NEW r \in Req, DeleteRow(r) PROVE Drawn' /\ Gone'
  <2> DEFINE d == job[r].id
  <2>1. d \in CaseId /\ d \in drawn
    BY <1>5 DEF DeleteRow, GoneInv, Drawn, Sound, JobRows
  <2>2. /\ \/ /\ cases'[d].source = "none" /\ \A c \in CaseId \ {d} : cases'[c] = cases[c]
              /\ \/ gone' = gone
                 \/ gone' = gone \union {d} /\ \A q \in Req \ {r} : job[q].id # d
           \/ UNCHANGED <<cases, gone>>
        /\ UNCHANGED drawn /\ Finish(r)
    BY <1>5, <2>1, RowFacts DEF DeleteRow, RemoveCase, GoneInv, Sound, TypeOK, CasesTypeOK
  <2>3. gone \subseteq CaseId
    BY DEF GoneInv, Sound, TypeOK
  <2> HIDE DEF d
  <2>4. Drawn'
    BY <1>3, <2>1, <2>2 DEF GoneInv, Drawn, Exists
  <2>5. Gone'
    BY <1>3, <2>1, <2>2, <2>3 DEF GoneInv, Gone, Exists
  <2> QED
    BY <2>4, <2>5
<1>6. ASSUME NEW d \in CaseId, CreateCase(d) PROVE Drawn' /\ Gone'
  <2>1. /\ d \notin drawn /\ drawn' = drawn \union {d}
        /\ \A c \in CaseId \ {d} : cases'[c] = cases[c]
        /\ UNCHANGED <<gone, job>>
    BY <1>6 DEF CreateCase, AddCase, GoneInv, Sound, TypeOK, CasesTypeOK
  <2>2. gone \subseteq CaseId
    BY DEF GoneInv, Sound, TypeOK
  <2> QED
    BY <2>1, <2>2 DEF GoneInv, Drawn, Gone, Exists
<1>7. ASSUME NEW d \in SeedId, OpenSeed(d) PROVE Drawn' /\ Gone'
  <2>1. /\ \A c \in CaseId : cases'[c] = cases[c]
        /\ UNCHANGED <<drawn, gone, job>>
    BY <1>7, IdsDiffer DEF OpenSeed, InstallSeed, AddCase, GoneInv, Sound, TypeOK, CasesTypeOK
  <2>2. gone \subseteq CaseId
    BY DEF GoneInv, Sound, TypeOK
  <2> QED
    BY <2>1, <2>2 DEF GoneInv, Drawn, Gone, Exists
<1>8. ASSUME NEW r \in Req, DeleteHookRow(r) PROVE Drawn' /\ Gone'
  <2>1. UNCHANGED <<cases, drawn, gone>> /\ Finish(r) /\ gone \subseteq CaseId
    BY <1>8 DEF DeleteHookRow, GoneInv, Sound, TypeOK
  <2>2. Drawn'
    BY <1>3, <2>1 DEF GoneInv, Drawn, Exists
  <2>3. Gone'
    BY <1>3, <2>1 DEF GoneInv, Gone, Exists
  <2> QED
    BY <2>2, <2>3
<1>9. CASE ServerDies
  <2>1. /\ UNCHANGED <<cases, drawn, gone>> /\ gone \subseteq CaseId
        /\ \A q \in Req : job'[q].id \notin CaseId
    BY <1>9, FinishedHoldsNone DEF ServerDies, GoneInv, Sound, TypeOK
  <2> QED
    BY <2>1 DEF GoneInv, Drawn, Gone, Exists
<1>10. CASE UNCHANGED <<cases, drawn, gone, job>>
  BY <1>10 DEF GoneInv, Drawn, Gone, Exists
<1>11. \/ \E r \in Req : \/ \E d \in SeedId \union CaseId : OverwriteRead(r, d) \/ DeleteRead(r, d)
                         \/ \E h \in Hook : DeleteHookRead(r, h)
                         \/ OverwriteStore(r) \/ DeleteRow(r) \/ DeleteHookRow(r)
       \/ \E d \in CaseId : CreateCase(d)
       \/ \E d \in SeedId : OpenSeed(d)
       \/ ServerDies \/ UNCHANGED <<cases, drawn, gone, job>>
  <2>1. CASE Open
    BY <2>1 DEF Open, OpenBegin, OpenHook, OpenDigest, OpenListen, OpenDies
  <2>2. CASE \E r \in Req : Handler(r)
    BY <2>2 DEF Handler
  <2>3. CASE \E h \in Hook : AddHook(h) \/ ToggleHook(h, TRUE) \/ ToggleHook(h, FALSE)
    BY <2>3 DEF AddHook, ToggleHook
  <2>4. CASE UNCHANGED vars
    BY <2>4 DEF vars
  <2> QED
    BY <2>1, <2>2, <2>3, <2>4 DEF Next
<1> QED
  BY <1>1, <1>2, <1>4, <1>5, <1>6, <1>7, <1>8, <1>9, <1>10, <1>11

(* At start there are no cases and no handlers. *)
LEMMA GoneInit == Init => GoneInv
  BY SoundInit, RowFacts, FinishedHoldsNone
  DEF Init, GoneInv, Drawn, Gone, CasesInit, Exists

(* A case whose delete met no other handler never comes back, whatever     *)
(* overwrites, starts and crashes follow.                                  *)
THEOREM DeleteIsFinal == Spec => []DeletedCasesStayGone
<1>1. GoneInv /\ [Next]_vars => GoneInv'
  BY SoundNext, GoneNext DEF GoneInv
<1>2. GoneInv => DeletedCasesStayGone
  BY DEF GoneInv, Gone, DeletedCasesStayGone
<1> QED
  BY <1>1, <1>2, GoneInit, PTL DEF Spec
------------------------------------------------------------------------------
(* Hook events. *)

(* ChoicesSurvive, said of one hook. *)
Honoured(ch, row, seeded) ==
    /\ ch = "off" => row.source # "none" /\ ~row.enabled
    /\ ch = "on" => row.source # "none" /\ row.enabled
    /\ ch = "none" => IF seeded THEN row.source = "seed" /\ row.enabled
                               ELSE row.source = "none"
    /\ ch = "gone" /\ row.source # "none" => row.source = "seed" /\ row.enabled

AllHonoured == \A h \in Hook : Honoured(choice[h], hooks[h], h \in installed)

(* That is what it says. *)
LEMMA ChoicesPointwise == TypeOK => (ChoicesSurvive <=> AllHonoured)
<1> SUFFICES ASSUME TypeOK PROVE ChoicesSurvive <=> AllHonoured
  OBVIOUS
<1>1. ASSUME NEW h \in Hook
      PROVE  /\ choice[h] \in {"none", "on", "off", "gone"}
             /\ h \in Wired <=> hooks[h].source # "none" /\ hooks[h].enabled
             /\ Listed(h) <=> hooks[h].source # "none"
  BY <1>1 DEF TypeOK, Choices, Wired, Listed
<1> QED
  BY <1>1 DEF ChoicesSurvive, AllHonoured, Honoured

(* Every statement on a hook honours the user's last word on it. *)
LEMMA ChoicesNext == ASSUME Sound, ChoicesSurvive, [Next]_vars PROVE ChoicesSurvive'
<1>1. TypeOK /\ AllHonoured /\ TypeOK'
  BY ChoicesPointwise, TypeNext DEF Sound
<1>2. AllHonoured' => ChoicesSurvive'
  BY <1>1, ChoicesPointwise, PTL
<1> SUFFICES ASSUME NEW h \in Hook
             PROVE  Honoured(choice'[h], hooks'[h], h \in installed')
  BY <1>2 DEF AllHonoured
<1>3. Honoured(choice[h], hooks[h], h \in installed)
  BY <1>1 DEF AllHonoured
<1>4. hooks \in [Hook -> HookRow] /\ choice \in [Hook -> Choices]
  BY <1>1 DEF TypeOK, HooksTypeOK
<1>5. ASSUME NEW g \in Hook, OpenHook(g)
      PROVE  Honoured(choice'[h], hooks'[h], h \in installed')
  BY <1>3, <1>4, <1>5 DEF OpenHook, SeedHook, Listed, Honoured, HookRow, Choices
<1>6. ASSUME NEW g \in Hook, AddHook(g)
      PROVE  Honoured(choice'[h], hooks'[h], h \in installed')
  BY <1>3, <1>4, <1>6 DEF AddHook, AddHookEvent, Listed, Honoured, HookRow, Choices
<1>7. ASSUME NEW g \in Hook, NEW on \in BOOLEAN, ToggleHook(g, on)
      PROVE  Honoured(choice'[h], hooks'[h], h \in installed')
  BY <1>3, <1>4, <1>7 DEF ToggleHook, SetHookEventEnabled, Listed, Honoured, HookRow, Choices
<1>8. ASSUME NEW r \in Req, DeleteHookRow(r)
      PROVE  Honoured(choice'[h], hooks'[h], h \in installed')
  BY <1>3, <1>4, <1>8 DEF DeleteHookRow, DeleteHookEvent, NoHook, Honoured, HookRow, Choices
<1>9. CASE UNCHANGED <<hooks, choice, installed>>
  BY <1>3, <1>9
<1>10. \/ \E g \in Hook : \/ OpenHook(g) \/ AddHook(g)
                          \/ ToggleHook(g, TRUE) \/ ToggleHook(g, FALSE)
       \/ \E r \in Req : DeleteHookRow(r)
       \/ UNCHANGED <<hooks, choice, installed>>
  BY DEF Next, Open, Handler, vars, OpenBegin, OpenSeed, OpenDigest, OpenListen, OpenDies,
     ServerDies, OverwriteRead, OverwriteStore, DeleteRead, DeleteRow, DeleteHookRead,
     CreateCase, hookHistory
<1> QED
  BY <1>5, <1>6, <1>7, <1>8, <1>9, <1>10

(* At start nothing is chosen, seeded or listed. *)
LEMMA ChoicesInit == Init => ChoicesSurvive
  BY DEF Init, HooksInit, NoHook, ChoicesSurvive, Listed, Wired

(* What the user muted stays muted and what the user added stays wired,    *)
(* through any requests, crashes, and starts of any versions.              *)
THEOREM ChoicesAreKept == Spec => []ChoicesSurvive
<1>1. Sound /\ ChoicesSurvive /\ [Next]_vars => (Sound /\ ChoicesSurvive)'
  BY SoundNext, ChoicesNext
<1> QED
  BY <1>1, SoundInit, ChoicesInit, PTL DEF Spec
==============================================================================
