------------------------- MODULE CodexDesktopProofs -------------------------
(***************************************************************************)
(* Proofs about the Codex desktop install and restore, for any number of   *)
(* requests: that routing is never taken for the user's config, however    *)
(* handlers overlap; and that, until two of them cross, the user's config  *)
(* is lost to no crash and no failing file operation.                      *)
(***************************************************************************)
EXTENDS CodexDesktop, TLAPS

(* The file contents the handlers write are contents, and told apart. *)
LEMMA Contents ==
    /\ Missing \in Content /\ Torn \in Content
    /\ \A t \in Text : UserText(t) \in Content
    /\ \A c \in Content : Merge(c) \in Content
    /\ ~HasCodexMarker(Missing) /\ ~HasCodexMarker(Torn)
    /\ \A c \in Content : HasCodexMarker(Merge(c))
    /\ Missing # Torn
  BY DEF Missing, Torn, UserText, Merge, HasCodexMarker, Content

(* An idle goroutine. *)
LEMMA IdleJob ==
    /\ Idle \in Jobs /\ Idle.at = "idle" /\ Idle.original = Missing
    /\ "idle" \notin Steps
  BY DEF Idle, Jobs, Steps

(* A goroutine that is at some step has a typed job. *)
LEMMA BusyJob ==
  ASSUME TypeOK, NEW r \in Req, job[r].at # "idle"
  PROVE  job[r] \in [at : Steps, had : BOOLEAN, original : Content]
  BY IdleJob DEF TypeOK, Jobs

(* The handler goes on to its next step with the same local variables. *)
LEMMA MoveJob ==
  ASSUME TypeOK, NEW r \in Req, job[r].at # "idle", NEW step \in Steps, MoveTo(r, step)
  PROVE  /\ job' \in [Req -> Jobs]
         /\ job'[r].at = step
         /\ job'[r].had = job[r].had /\ job'[r].original = job[r].original
         /\ \A q \in Req \ {r} : job'[q] = job[q]
<1> DEFINE j == [job[r] EXCEPT !.at = step]
<1>1. /\ j \in [at : Steps, had : BOOLEAN, original : Content]
      /\ j.at = step /\ j.had = job[r].had /\ j.original = job[r].original
  BY BusyJob
<1>2. job' = [job EXCEPT ![r] = j]
  BY DEF MoveTo
<1> HIDE DEF j
<1> QED
  BY <1>1, <1>2 DEF TypeOK, Jobs

(* A handler starts: it is at its first step and has read nothing yet. *)
LEMMA StartJob ==
  ASSUME TypeOK, NEW r \in Req, At(r, "idle"), NEW step \in Steps, MoveTo(r, step)
  PROVE  /\ job' \in [Req -> Jobs]
         /\ job'[r].at = step /\ job'[r].original = job[r].original
         /\ \A q \in Req \ {r} : job'[q] = job[q]
<1>1. job[r].at \notin Steps
  BY IdleJob DEF At
<1>2. job[r] = Idle
  BY <1>1 DEF TypeOK, Jobs
<1> DEFINE j == [job[r] EXCEPT !.at = step]
<1>3. /\ j \in [at : Steps, had : BOOLEAN, original : Content]
      /\ j.at = step /\ j.original = job[r].original
  <2>1. job[r] \in [at : {"idle"}, had : BOOLEAN, original : Content]
    BY <1>2, Contents DEF Idle
  <2> QED
    BY <2>1
<1>4. job' = [job EXCEPT ![r] = j]
  BY DEF MoveTo
<1> HIDE DEF j
<1> QED
  BY <1>3, <1>4 DEF TypeOK, Jobs

(* The handler has read a file and goes on with what it read. *)
LEMMA ReadJob ==
  ASSUME TypeOK, NEW r \in Req, NEW step \in Steps, NEW had \in BOOLEAN, NEW c \in Content,
         job' = [job EXCEPT ![r] = [at |-> step, had |-> had, original |-> c]]
  PROVE  /\ job' \in [Req -> Jobs]
         /\ job'[r].at = step /\ job'[r].had = had /\ job'[r].original = c
         /\ \A q \in Req \ {r} : job'[q] = job[q]
  BY DEF TypeOK, Jobs

(* The handler is over. *)
LEMMA FinishJob ==
  ASSUME TypeOK, NEW r \in Req, Finish(r)
  PROVE  /\ job' \in [Req -> Jobs]
         /\ job'[r] = Idle
         /\ \A q \in Req \ {r} : job'[q] = job[q]
  BY IdleJob DEF Finish, TypeOK

(* The steps a handler can be at. *)
LEMMA StepNames ==
    {"read", "openBackup", "writeBackup", "openConfig", "writeConfig", "openState",
     "writeState", "readBackup", "reopenConfig", "rewriteConfig", "removeBackup",
     "removeConfig", "removeState"} \subseteq Steps
  BY DEF Steps
------------------------------------------------------------------------------
(* The files, the jobs and the history keep their types. *)
THEOREM TypeCorrect == Spec => []TypeOK
<1>1. Init => TypeOK
  BY Contents, IdleJob DEF Init, TypeOK, StateFile
<1>2. TypeOK /\ [Next]_vars => TypeOK'
  <2> SUFFICES ASSUME TypeOK, [Next]_vars PROVE TypeOK'
    OBVIOUS
  <2> USE StepNames, Contents, IdleJob
  <2>1. ASSUME NEW r \in Req, Install(r) PROVE TypeOK'
    <3>1. CASE InstallCheck(r)
      BY <3>1, StartJob DEF InstallCheck, Enter, TypeOK, files, history
    <3>2. CASE InstallRead(r)
      <4>1. \/ Finish(r)
            \/ job' = [job EXCEPT ![r] =
                         [at |-> "openBackup", had |-> TRUE, original |-> config]]
            \/ job' = [job EXCEPT ![r] =
                         [at |-> "openConfig", had |-> FALSE, original |-> Missing]]
        BY <3>2 DEF InstallRead
      <4>2. job' \in [Req -> Jobs]
        BY <4>1, FinishJob, ReadJob DEF TypeOK
      <4> QED
        BY <3>2, <4>2 DEF InstallRead, TypeOK, files
    <3>3. CASE InstallOpenBackup(r)
      BY <3>3, MoveJob, FinishJob DEF InstallOpenBackup, GiveUp, At, TypeOK, files, history
    <3>4. CASE InstallWriteBackup(r)
      BY <3>4, BusyJob, MoveJob, FinishJob
         DEF InstallWriteBackup, GiveUp, At, TypeOK, files, history
    <3>5. CASE InstallOpenConfig(r)
      BY <3>5, MoveJob, FinishJob DEF InstallOpenConfig, GiveUp, At, TypeOK, files, history
    <3>6. CASE InstallWriteConfig(r)
      BY <3>6, BusyJob, MoveJob, FinishJob
         DEF InstallWriteConfig, GiveUp, At, TypeOK, files, history
    <3>7. CASE InstallOpenState(r)
      BY <3>7, MoveJob, FinishJob
         DEF InstallOpenState, GiveUp, At, TypeOK, StateFile, files, history
    <3>8. CASE InstallWriteState(r)
      BY <3>8, FinishJob DEF InstallWriteState, GiveUp, At, TypeOK, StateFile, files, history
    <3> QED
      BY <2>1, <3>1, <3>2, <3>3, <3>4, <3>5, <3>6, <3>7, <3>8 DEF Install
  <2>2. ASSUME NEW r \in Req, Restore(r) PROVE TypeOK'
    <3>1. CASE RestoreCheck(r)
      BY <3>1, StartJob DEF RestoreCheck, Enter, TypeOK, files
    <3>2. CASE RestoreReadBackup(r)
      <4>1. \/ Finish(r)
            \/ job' = [job EXCEPT ![r] =
                         [at |-> "reopenConfig", had |-> TRUE, original |-> backup]]
        BY <3>2 DEF RestoreReadBackup
      <4>2. job' \in [Req -> Jobs]
        BY <4>1, FinishJob, ReadJob DEF TypeOK
      <4> QED
        BY <3>2, <4>2 DEF RestoreReadBackup, TypeOK, files, history
    <3>3. CASE RestoreOpenConfig(r)
      BY <3>3, MoveJob, FinishJob DEF RestoreOpenConfig, GiveUp, At, TypeOK, files, history
    <3>4. CASE RestoreWriteConfig(r)
      BY <3>4, BusyJob, MoveJob, FinishJob
         DEF RestoreWriteConfig, GiveUp, At, TypeOK, files, history
    <3>5. CASE RestoreRemoveBackup(r)
      BY <3>5, MoveJob DEF RestoreRemoveBackup, At, TypeOK, history
    <3>6. CASE RestoreRemoveConfig(r)
      BY <3>6, MoveJob DEF RestoreRemoveConfig, At, TypeOK, history
    <3>7. CASE RestoreRemoveState(r)
      BY <3>7, FinishJob DEF RestoreRemoveState, At, TypeOK, StateFile, history
    <3> QED
      BY <2>2, <3>1, <3>2, <3>3, <3>4, <3>5, <3>6, <3>7 DEF Restore
  <2>3. ASSUME NEW c \in Content, UserEdits(c) PROVE TypeOK'
    BY <2>3 DEF UserEdits, TypeOK
  <2>4. CASE Crash
    BY <2>4 DEF Crash, TypeOK, files, history
  <2>5. CASE UNCHANGED vars
    BY <2>5 DEF vars, TypeOK
  <2> QED
    BY <2>1, <2>2, <2>3, <2>4, <2>5 DEF Next
<1> QED
  BY <1>1, <1>2, PTL DEF Spec
------------------------------------------------------------------------------
(* agenttape's own block is never backed up, merged again or restored, for *)
(* any number of overlapping, failing and interrupted handlers.            *)
THEOREM NeverSaved == Spec => []InjectionNeverSaved
<1>1. Init => InjectionNeverSaved
  BY Contents, IdleJob DEF Init, InjectionNeverSaved
<1>2. TypeOK /\ InjectionNeverSaved /\ [Next]_vars => InjectionNeverSaved'
  <2> SUFFICES ASSUME TypeOK, InjectionNeverSaved, [Next]_vars PROVE InjectionNeverSaved'
    OBVIOUS
  <2> USE StepNames, Contents, IdleJob DEF InjectionNeverSaved
  <2>1. ASSUME NEW r \in Req, Install(r) PROVE InjectionNeverSaved'
    <3>1. CASE InstallCheck(r)
      BY <3>1, StartJob DEF InstallCheck, Enter, files
    <3>2. CASE InstallRead(r)
      <4>1. \/ Finish(r)
            \/ /\ ~HasCodexMarker(config)
               /\ job' = [job EXCEPT ![r] =
                            [at |-> "openBackup", had |-> TRUE, original |-> config]]
            \/ job' = [job EXCEPT ![r] =
                         [at |-> "openConfig", had |-> FALSE, original |-> Missing]]
        BY <3>2 DEF InstallRead
      <4>2. ~HasCodexMarker(job'[r].original) /\ \A q \in Req \ {r} : job'[q] = job[q]
        BY <4>1, FinishJob, ReadJob DEF TypeOK
      <4> QED
        BY <3>2, <4>2 DEF InstallRead, files
    <3>3. CASE InstallWriteBackup(r)
      BY <3>3, MoveJob, FinishJob DEF InstallWriteBackup, GiveUp, At, files
    <3>4. CASE InstallOpenBackup(r)
      BY <3>4, MoveJob, FinishJob DEF InstallOpenBackup, GiveUp, At, files
    <3>5. CASE InstallOpenConfig(r) \/ InstallWriteConfig(r)
      BY <3>5, MoveJob, FinishJob DEF InstallOpenConfig, InstallWriteConfig, GiveUp, At, files
    <3>6. CASE InstallOpenState(r) \/ InstallWriteState(r)
      BY <3>6, MoveJob, FinishJob DEF InstallOpenState, InstallWriteState, GiveUp, At, files
    <3> QED
      BY <2>1, <3>1, <3>2, <3>3, <3>4, <3>5, <3>6 DEF Install
  <2>2. ASSUME NEW r \in Req, Restore(r) PROVE InjectionNeverSaved'
    <3>1. CASE RestoreCheck(r)
      BY <3>1, StartJob DEF RestoreCheck, Enter, files
    <3>2. CASE RestoreReadBackup(r)
      <4>1. \/ Finish(r)
            \/ job' = [job EXCEPT ![r] =
                         [at |-> "reopenConfig", had |-> TRUE, original |-> backup]]
        BY <3>2 DEF RestoreReadBackup
      <4>2. ~HasCodexMarker(job'[r].original) /\ \A q \in Req \ {r} : job'[q] = job[q]
        BY <4>1, FinishJob, ReadJob DEF TypeOK
      <4> QED
        BY <3>2, <4>2 DEF RestoreReadBackup, files
    <3>3. CASE RestoreOpenConfig(r) \/ RestoreWriteConfig(r)
      BY <3>3, MoveJob, FinishJob DEF RestoreOpenConfig, RestoreWriteConfig, GiveUp, At, files
    <3>4. CASE RestoreRemoveBackup(r) \/ RestoreRemoveConfig(r)
      BY <3>4, MoveJob DEF RestoreRemoveBackup, RestoreRemoveConfig, At
    <3>5. CASE RestoreRemoveState(r)
      BY <3>5, FinishJob DEF RestoreRemoveState
    <3> QED
      BY <2>2, <3>1, <3>2, <3>3, <3>4, <3>5 DEF Restore
  <2>3. ASSUME NEW c \in Content, UserEdits(c) PROVE InjectionNeverSaved'
    BY <2>3 DEF UserEdits
  <2>4. CASE Crash
    BY <2>4 DEF Crash, files
  <2>5. CASE UNCHANGED vars
    BY <2>5 DEF vars
  <2> QED
    BY <2>1, <2>2, <2>3, <2>4, <2>5 DEF Next
<1> QED
  BY <1>1, <1>2, TypeCorrect, PTL DEF Spec
------------------------------------------------------------------------------
(* What an active state file promises about the backup: it is the user's   *)
(* config, until a restore has put that back.                              *)
StateIsRight ==
    /\ state = "hadOriginal" => backup = mine \/ (backup = Missing /\ config = mine)
    /\ state = "hadNone" => mine = Missing

(* What each step of a handler relies on. *)
HandlerIsRight(r) ==
    /\ At(r, "openBackup") \/ At(r, "writeBackup") =>
        ~Active /\ job[r].had /\ job[r].original = mine /\ config = mine
    /\ At(r, "openConfig") \/ At(r, "writeConfig") =>
        ~Active /\ IF job[r].had THEN backup = mine ELSE mine = Missing
    /\ At(r, "openState") \/ At(r, "writeState") =>
        ~Active /\ IF job[r].had THEN backup = mine ELSE mine = Missing
    /\ At(r, "readBackup") => state = "hadOriginal"
    /\ At(r, "reopenConfig") \/ At(r, "rewriteConfig") =>
        state = "hadOriginal" /\ job[r].original = mine /\ backup = mine
    /\ At(r, "removeBackup") => state = "hadOriginal" /\ config = mine /\ backup = mine
    /\ At(r, "removeConfig") => state = "hadNone"
    /\ At(r, "removeState") => config = mine \/ (DiskMayFail /\ state = "hadNone")
    /\ At(r, "read") => ~Active

(* At most one handler is at work. *)
Alone == \A q, r \in Req : q = r \/ At(q, "idle") \/ At(r, "idle")

LossInv ==
    \/ blind
    \/ crossed
    \/ /\ OriginalIsRecoverable
       /\ StateIsRight
       /\ Alone
       /\ \A r \in Req : HandlerIsRight(r)

(* A step of one handler leaves the others where they are. *)
LEMMA OneMoves ==
  ASSUME TypeOK, NEW r \in Req, Install(r) \/ Restore(r)
  PROVE  \A q \in Req \ {r} : job'[q] = job[q]
<1>1. CASE Install(r)
  <2>1. \E j : job' = [job EXCEPT ![r] = j]
    BY <1>1 DEF Install, InstallCheck, InstallRead, InstallOpenBackup,
       InstallWriteBackup, InstallOpenConfig, InstallWriteConfig, InstallOpenState,
       InstallWriteState, MoveTo, Finish, GiveUp
  <2> QED
    BY <2>1 DEF TypeOK
<1>2. CASE Restore(r)
  <2>1. \E j : job' = [job EXCEPT ![r] = j]
    BY <1>2 DEF Restore, RestoreCheck, RestoreReadBackup, RestoreOpenConfig,
       RestoreWriteConfig, RestoreRemoveBackup, RestoreRemoveConfig,
       RestoreRemoveState, MoveTo, Finish, GiveUp
  <2> QED
    BY <2>1 DEF TypeOK
<1> QED
  BY <1>1, <1>2

(* A handler that crosses no other one finds all the others idle. *)
LEMMA OthersIdle ==
  ASSUME Alone, ~crossed', NEW r \in Req, Install(r) \/ Restore(r)
  PROVE  \A q \in Req \ {r} : At(q, "idle")
<1>1. CASE InstallCheck(r) \/ RestoreCheck(r)
  BY <1>1 DEF InstallCheck, RestoreCheck, Enter, Quiet
<1>2. CASE ~InstallCheck(r) /\ ~RestoreCheck(r)
  <2>1. ~At(r, "idle")
    BY <1>2 DEF At, Install, InstallRead, InstallOpenBackup, InstallWriteBackup,
       InstallOpenConfig, InstallWriteConfig, InstallOpenState, InstallWriteState,
       Restore, RestoreReadBackup, RestoreOpenConfig, RestoreWriteConfig,
       RestoreRemoveBackup, RestoreRemoveConfig, RestoreRemoveState
  <2> QED
    BY <2>1 DEF Alone
<1> QED
  BY <1>1, <1>2

(* So the invariant holds after a step of a handler when it holds for the  *)
(* files and for that handler.                                             *)
LEMMA LossByHandler ==
  ASSUME TypeOK, LossInv, ~blind, ~crossed, NEW r \in Req, Install(r) \/ Restore(r),
         blind' \/ (OriginalIsRecoverable' /\ StateIsRight' /\ HandlerIsRight(r)')
  PROVE  LossInv'
<1>1. CASE blind' \/ crossed'
  BY <1>1 DEF LossInv
<1>2. CASE ~blind' /\ ~crossed'
  <2>1. \A q \in Req \ {r} : At(q, "idle")'
    BY <1>2, OneMoves, OthersIdle DEF LossInv, At
  <2>2. \A q \in Req \ {r} : HandlerIsRight(q)'
    BY <2>1 DEF HandlerIsRight, At
  <2>3. Alone'
    BY <2>1 DEF Alone
  <2> QED
    BY <1>2, <2>2, <2>3 DEF LossInv
<1> QED
  BY <1>1, <1>2

(* Every step of an install keeps the user's config. *)
LEMMA LossInstall ==
  ASSUME TypeOK, LossInv, ~blind, ~crossed, NEW r \in Req, Install(r)
  PROVE  LossInv'
<1> USE StepNames, Contents, IdleJob
<1>0. OriginalIsRecoverable /\ StateIsRight /\ HandlerIsRight(r)
  BY DEF LossInv
<1> USE DEF OriginalIsRecoverable, StateIsRight, HandlerIsRight, Active, At
<1>1. CASE InstallCheck(r)
  BY <1>0, <1>1, StartJob, LossByHandler DEF InstallCheck, Enter, files, history
<1>2. CASE InstallRead(r)
  <2>1. CASE /\ job' = [job EXCEPT ![r] =
                        [at |-> "openBackup", had |-> TRUE, original |-> config]]
             /\ blind' = (blind \/ config # mine)
    BY <1>0, <1>2, <2>1, ReadJob, LossByHandler DEF InstallRead, files, TypeOK
  <2>2. CASE /\ job' = [job EXCEPT ![r] =
                        [at |-> "openConfig", had |-> FALSE, original |-> Missing]]
             /\ blind' = (blind \/ mine # Missing)
    BY <1>0, <1>2, <2>2, ReadJob, LossByHandler DEF InstallRead, files
  <2>3. CASE Finish(r)
    BY <1>0, <1>2, <2>3, FinishJob, LossByHandler DEF InstallRead, files
  <2> QED
    BY <1>2, <2>1, <2>2, <2>3 DEF InstallRead
<1>3. CASE InstallOpenBackup(r)
  BY <1>0, <1>3, MoveJob, FinishJob, LossByHandler DEF InstallOpenBackup, GiveUp, files, history
<1>4. CASE InstallWriteBackup(r)
  BY <1>0, <1>4, MoveJob, FinishJob, LossByHandler DEF InstallWriteBackup, GiveUp, files, history
<1>5. CASE InstallOpenConfig(r)
  BY <1>0, <1>5, MoveJob, FinishJob, LossByHandler DEF InstallOpenConfig, GiveUp, files, history
<1>6. CASE InstallWriteConfig(r)
  BY <1>0, <1>6, MoveJob, FinishJob, LossByHandler DEF InstallWriteConfig, GiveUp, files, history
<1>7. CASE InstallOpenState(r)
  BY <1>0, <1>7, MoveJob, FinishJob, LossByHandler DEF InstallOpenState, GiveUp, files, history
<1>8. CASE InstallWriteState(r)
  BY <1>0, <1>8, FinishJob, LossByHandler DEF InstallWriteState, GiveUp, files, history
<1> QED
  BY <1>1, <1>2, <1>3, <1>4, <1>5, <1>6, <1>7, <1>8 DEF Install

(* Every step of a restore keeps the user's config. *)
LEMMA LossRestore ==
  ASSUME TypeOK, LossInv, ~blind, ~crossed, NEW r \in Req, Restore(r)
  PROVE  LossInv'
<1> USE StepNames, Contents, IdleJob
<1>0. OriginalIsRecoverable /\ StateIsRight /\ HandlerIsRight(r)
  BY DEF LossInv
<1> USE DEF OriginalIsRecoverable, StateIsRight, HandlerIsRight, Active, At
<1>1. CASE RestoreCheck(r)
  BY <1>0, <1>1, StartJob, LossByHandler DEF RestoreCheck, Enter, files, history
<1>2. CASE RestoreReadBackup(r)
  <2>1. CASE /\ backup # Missing
             /\ job' = [job EXCEPT ![r] =
                        [at |-> "reopenConfig", had |-> TRUE, original |-> backup]]
    BY <1>0, <1>2, <2>1, ReadJob, LossByHandler DEF RestoreReadBackup, files, history, TypeOK
  <2>2. CASE Finish(r)
    BY <1>0, <1>2, <2>2, FinishJob, LossByHandler DEF RestoreReadBackup, files, history
  <2> QED
    BY <1>2, <2>1, <2>2 DEF RestoreReadBackup
<1>3. CASE RestoreOpenConfig(r)
  BY <1>0, <1>3, MoveJob, FinishJob, LossByHandler DEF RestoreOpenConfig, GiveUp, files, history
<1>4. CASE RestoreWriteConfig(r)
  BY <1>0, <1>4, MoveJob, FinishJob, LossByHandler DEF RestoreWriteConfig, GiveUp, files, history
<1>5. CASE RestoreRemoveBackup(r)
  BY <1>0, <1>5, MoveJob, LossByHandler DEF RestoreRemoveBackup, history
<1>6. CASE RestoreRemoveConfig(r)
  BY <1>0, <1>6, MoveJob, LossByHandler DEF RestoreRemoveConfig, history
<1>7. CASE RestoreRemoveState(r)
  BY <1>0, <1>7, FinishJob, LossByHandler DEF RestoreRemoveState, history
<1> QED
  BY <1>1, <1>2, <1>3, <1>4, <1>5, <1>6, <1>7 DEF Restore

(* So the invariant holds whatever crashes and file errors happen.         *)
LEMMA LossInvariance == Spec => []LossInv
<1>1. Init => LossInv
  BY IdleJob, StepNames DEF Init, LossInv, OriginalIsRecoverable, StateIsRight,
     HandlerIsRight, Alone, At
<1>2. TypeOK /\ LossInv /\ [Next]_vars => LossInv'
  <2> SUFFICES ASSUME TypeOK, LossInv, [Next]_vars PROVE LossInv'
    OBVIOUS
  <2>1. ASSUME NEW r \in Req, Install(r) \/ Restore(r) PROVE LossInv'
    <3>1. CASE blind \/ crossed
      <4>1. \/ UNCHANGED history
            \/ Enter
            \/ (blind => blind') /\ UNCHANGED crossed
        <5>1. CASE InstallRead(r)
          BY <5>1 DEF InstallRead
        <5>2. CASE ~InstallRead(r)
          BY <2>1, <5>2
             DEF Install, Restore, InstallCheck, InstallOpenBackup, InstallWriteBackup,
                 InstallOpenConfig, InstallWriteConfig, InstallOpenState,
                 InstallWriteState, RestoreCheck, RestoreReadBackup, RestoreOpenConfig,
                 RestoreWriteConfig, RestoreRemoveBackup, RestoreRemoveConfig,
                 RestoreRemoveState
        <5> QED
          BY <5>1, <5>2
      <4>2. blind' \/ crossed'
        BY <3>1, <4>1 DEF Enter, history
      <4> QED
        BY <4>2 DEF LossInv
    <3>2. CASE ~blind /\ ~crossed
      BY <2>1, <3>2, LossInstall, LossRestore
    <3> QED
      BY <3>1, <3>2
  <2>2. ASSUME NEW c \in Content, UserEdits(c) PROVE LossInv'
    BY <2>2, IdleJob, StepNames
       DEF UserEdits, Quiet, LossInv, OriginalIsRecoverable, StateIsRight, HandlerIsRight,
           Alone, At, Active
  <2>3. CASE Crash
    BY <2>3, IdleJob, StepNames
       DEF Crash, files, history, LossInv, OriginalIsRecoverable, StateIsRight,
           HandlerIsRight, Alone, At
  <2>4. CASE UNCHANGED vars
    BY <2>4 DEF vars, LossInv, OriginalIsRecoverable, StateIsRight, HandlerIsRight, Alone,
           At, Active
  <2> QED
    BY <2>1, <2>2, <2>3, <2>4, Contents DEF Next
<1> QED
  BY <1>1, <1>2, TypeCorrect, PTL DEF Spec

(* Until two requests cross, agenttape never loses the user's config.toml, *)
(* whatever crashes and file errors happen, except by an install that      *)
(* could not read it or found it torn.                                     *)
THEOREM LossIsBlind == Spec => []LostOnlyToBlindInstall
<1>1. LossInv => LostOnlyToBlindInstall
  BY DEF LossInv, LostOnlyToBlindInstall
<1> QED
  BY <1>1, LossInvariance, PTL

(* And a restore that is recorded as done has put back exactly what the    *)
(* user had before the install, unless that install was blind, two         *)
(* requests crossed, or there was nothing to put back and agenttape's file *)
(* could not be removed.                                                   *)
THEOREM RestoresExactly == Spec => RestoreIsExact
<1>1. LossInv => \A r \in Req : At(r, "removeState") /\ At(r, "idle")' /\ state' = "none"
            => \/ config = mine \/ blind \/ crossed
               \/ DiskMayFail /\ state = "hadNone"
  BY DEF LossInv, HandlerIsRight
<1> QED
  BY <1>1, LossInvariance, PTL DEF RestoreIsExact
==============================================================================
