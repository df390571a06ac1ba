---------------------------- MODULE CodexDesktop ----------------------------
(***************************************************************************)
(* Routing the Codex desktop app through the proxy: the install and        *)
(* restore handlers, which rewrite ~/.codex/config.toml, and the two files *)
(* they keep beside it, a backup and a state file.  No lock and no rename  *)
(* protects the files: os.WriteFile truncates, then writes, and the        *)
(* handlers can overlap or be cut short anywhere by a crash.  One step is  *)
(* one file operation.                                                     *)
(***************************************************************************)
CONSTANTS
    Req,          \* handler goroutines that can be in flight at a time
    Text,         \* texts the user may write into config.toml
    NoText,
    Crashes,      \* whether the server may die between two steps
    DiskMayFail   \* whether a file operation or a query may return an error

ASSUME NoTextFresh == NoText \notin Text
ASSUME CrashesBool == Crashes \in BOOLEAN
ASSUME FailBool == DiskMayFail \in BOOLEAN

VARIABLES
    config,   \* ~/.codex/config.toml
    backup,   \* ~/.codex/config.toml.agenttape-bak
    state,    \* ~/.codex/.agenttape-desktop-state.json
    job,      \* goroutine -> the handler's next step and its local variables
    \* history, read by properties only
    mine,     \* config.toml as the user last left it
    blind,    \* an install took something else for it
    crossed   \* since then, two handlers were at work at a time

vars == <<config, backup, state, job, mine, blind, crossed>>
files == <<config, backup, state>>
history == <<mine, blind, crossed>>

(* A text file: missing, torn (truncated, and not yet or not completely    *)
(* written), the user's own, or merged by agenttape from a text.           *)
Content == [by : {"none", "torn", "user", "agenttape"}, text : Text \union {NoText}]

Missing     == [by |-> "none", text |-> NoText]
Torn        == [by |-> "torn", text |-> NoText]
UserText(t) == [by |-> "user", text |-> t]

(* MergeCodexDesktopConfig: the marker, our provider, the user's settings. *)
Merge(original) == [original EXCEPT !.by = "agenttape"]
HasCodexMarker(c) == c.by = "agenttape"

(* The state file, as far as restore depends on it. *)
StateFile == {"none", "torn", "hadOriginal", "hadNone"}

(* readCodexState: a file that does not parse counts as none. *)
Active == state \in {"hadOriginal", "hadNone"}

Steps == {"read", "openBackup", "writeBackup", "openConfig", "writeConfig",
          "openState", "writeState", "readBackup", "reopenConfig",
          "rewriteConfig", "removeBackup", "removeConfig", "removeState"}

Idle == [at |-> "idle", had |-> FALSE, original |-> Missing]
Jobs == [at : Steps, had : BOOLEAN, original : Content] \union {Idle}

TypeOK ==
    /\ config \in Content
    /\ backup \in Content
    /\ state \in StateFile
    /\ job \in [Req -> Jobs]
    /\ mine \in Content
    /\ blind \in BOOLEAN
    /\ crossed \in BOOLEAN

Init ==
    /\ config \in {Missing} \union {UserText(t) : t \in Text}
    /\ backup = Missing
    /\ state = "none"
    /\ job = [r \in Req |-> Idle]
    /\ mine = config
    /\ blind = FALSE
    /\ crossed = FALSE

At(r, step) == job[r].at = step
MoveTo(r, step) == job' = [job EXCEPT ![r].at = step]
Finish(r) == job' = [job EXCEPT ![r] = Idle]
Quiet == \A r \in Req : At(r, "idle")
Enter == crossed' = (crossed \/ ~Quiet) /\ UNCHANGED <<mine, blind>>

------------------------------------------------------------------------------
(* POST /api/codex-desktop/install *)

InstallCheck(r) ==
    /\ At(r, "idle")
    /\ ~Active
    /\ MoveTo(r, "read") /\ Enter
    /\ UNCHANGED files

(* Mutant: the marker is not looked for. *)
InstallReadAnyway(r) ==
    /\ At(r, "read")
    /\ job' = [job EXCEPT ![r] =
                [at |-> IF config # Missing THEN "openBackup" ELSE "openConfig",
                 had |-> config # Missing, original |-> config]]
    /\ blind' = (blind \/ config # mine)
    /\ UNCHANGED <<files, mine, crossed>>

(* Any read error counts as "there was no config". *)
InstallRead(r) ==
    /\ At(r, "read")
    /\ \/ /\ config # Missing /\ ~HasCodexMarker(config)
          /\ job' = [job EXCEPT ![r] =
                        [at |-> "openBackup", had |-> TRUE, original |-> config]]
          /\ blind' = (blind \/ config # mine)
       \/ /\ config = Missing \/ DiskMayFail
          /\ job' = [job EXCEPT ![r] =
                        [at |-> "openConfig", had |-> FALSE, original |-> Missing]]
          /\ blind' = (blind \/ mine # Missing)
       \/ /\ HasCodexMarker(config) \/ DiskMayFail    \* 409, 500: hook events
          /\ Finish(r)
          /\ UNCHANGED blind
    /\ UNCHANGED <<files, mine, crossed>>

(* An error from os.WriteFile ends the handler: at its open nothing has    *)
(* happened to the file yet, at its write the file is left torn.           *)
GiveUp(r) == DiskMayFail /\ Finish(r) /\ UNCHANGED files

InstallOpenBackup(r) ==
    /\ At(r, "openBackup")
    /\ \/ backup' = Torn /\ MoveTo(r, "writeBackup") /\ UNCHANGED <<config, state>>
       \/ GiveUp(r)
    /\ UNCHANGED history

InstallWriteBackup(r) ==
    /\ At(r, "writeBackup")
    /\ \/ /\ backup' = job[r].original
          /\ MoveTo(r, "openConfig")
          /\ UNCHANGED <<config, state>>
       \/ GiveUp(r)
    /\ UNCHANGED history

InstallOpenConfig(r) ==
    /\ At(r, "openConfig")
    /\ \/ config' = Torn /\ MoveTo(r, "writeConfig") /\ UNCHANGED <<backup, state>>
       \/ GiveUp(r)
    /\ UNCHANGED history

InstallWriteConfig(r) ==
    /\ At(r, "writeConfig")
    /\ \/ /\ config' = Merge(job[r].original)
          /\ MoveTo(r, "openState")
          /\ UNCHANGED <<backup, state>>
       \/ GiveUp(r)
    /\ UNCHANGED history

(* The error of this write is ignored: the answer is "ok" all the same. *)
InstallOpenState(r) ==
    /\ At(r, "openState")
    /\ \/ state' = "torn" /\ MoveTo(r, "writeState") /\ UNCHANGED <<config, backup>>
       \/ GiveUp(r)
    /\ UNCHANGED history

InstallWriteState(r) ==
    /\ At(r, "writeState")
    /\ \/ /\ state' = IF job[r].had THEN "hadOriginal" ELSE "hadNone"
          /\ Finish(r)
          /\ UNCHANGED <<config, backup>>
       \/ GiveUp(r)
    /\ UNCHANGED history

------------------------------------------------------------------------------
(* POST /api/codex-desktop/restore; without an active state it does nothing *)

(* Mutant: the had_original flag is not looked at. *)
RestoreIgnoresHadOriginal(r) ==
    /\ At(r, "idle")
    /\ Active
    /\ MoveTo(r, "removeConfig") /\ Enter
    /\ UNCHANGED files

RestoreCheck(r) ==
    /\ At(r, "idle")
    /\ Active
    /\ MoveTo(r, IF state = "hadOriginal" THEN "readBackup" ELSE "removeConfig") /\ Enter
    /\ UNCHANGED files

(* Mutant: the backup is moved away as it is read. *)
RestoreTakesBackup(r) ==
    /\ At(r, "readBackup")
    /\ backup # Missing
    /\ job' = [job EXCEPT ![r] =
                [at |-> "reopenConfig", had |-> TRUE, original |-> backup]]
    /\ backup' = Missing
    /\ UNCHANGED <<config, state, history>>

RestoreReadBackup(r) ==
    /\ At(r, "readBackup")
    /\ \/ /\ backup # Missing
          /\ job' = [job EXCEPT ![r] =
                        [at |-> "reopenConfig", had |-> TRUE, original |-> backup]]
       \/ /\ backup = Missing \/ DiskMayFail          \* 500
          /\ Finish(r)
    /\ UNCHANGED <<files, history>>

RestoreOpenConfig(r) ==
    /\ At(r, "reopenConfig")
    /\ \/ config' = Torn /\ MoveTo(r, "rewriteConfig") /\ UNCHANGED <<backup, state>>
       \/ GiveUp(r)
    /\ UNCHANGED history

RestoreWriteConfig(r) ==
    /\ At(r, "rewriteConfig")
    /\ \/ /\ config' = job[r].original
          /\ MoveTo(r, "removeBackup")
          /\ UNCHANGED <<backup, state>>
       \/ GiveUp(r)
    /\ UNCHANGED history

(* The errors of the three removals are ignored. *)
RestoreRemoveBackup(r) ==
    /\ At(r, "removeBackup")
    /\ backup' = Missing \/ (DiskMayFail /\ UNCHANGED backup)
    /\ MoveTo(r, "removeState")
    /\ UNCHANGED <<config, state, history>>

RestoreRemoveConfig(r) ==
    /\ At(r, "removeConfig")
    /\ config' = Missing \/ (DiskMayFail /\ UNCHANGED config)
    /\ MoveTo(r, "removeState")
    /\ UNCHANGED <<backup, state, history>>

RestoreRemoveState(r) ==
    /\ At(r, "removeState")
    /\ state' = "none" \/ (DiskMayFail /\ UNCHANGED state)
    /\ Finish(r)
    /\ UNCHANGED <<config, backup, history>>

------------------------------------------------------------------------------
(* The environment.  The user edits or deletes config.toml, cleaning up by *)
(* hand if need be, while routing is off and no handler is at work; edits  *)
(* made while routing is on are not the original and restore drops them.   *)
UserEdits(c) ==
    /\ ~Active /\ Quiet
    /\ config # c
    /\ config' = c /\ mine' = c /\ blind' = FALSE /\ crossed' = FALSE
    /\ UNCHANGED <<backup, state, job>>

Crash ==
    /\ Crashes
    /\ job' = [r \in Req |-> Idle]
    /\ UNCHANGED <<files, history>>

Install(r) ==
    \/ InstallCheck(r) \/ InstallRead(r)
    \/ InstallOpenBackup(r) \/ InstallWriteBackup(r)
    \/ InstallOpenConfig(r) \/ InstallWriteConfig(r)
    \/ InstallOpenState(r) \/ InstallWriteState(r)

Restore(r) ==
    \/ RestoreCheck(r) \/ RestoreReadBackup(r)
    \/ RestoreOpenConfig(r) \/ RestoreWriteConfig(r)
    \/ RestoreRemoveBackup(r) \/ RestoreRemoveConfig(r) \/ RestoreRemoveState(r)

Next ==
    \/ \E r \in Req : Install(r) \/ Restore(r)
    \/ \E t \in Text : UserEdits(UserText(t))
    \/ UserEdits(Missing)
    \/ Crash

Spec == Init /\ [][Next]_vars
------------------------------------------------------------------------------
(* Properties. *)

(* The user's config is in place or in the backup ("no file" is never      *)
(* lost).                                                                  *)
OriginalIsRecoverable == mine \in {Missing, config, backup}

(* Unless two handlers cross, the user's config.toml survives any crash    *)
(* and any failing file operation, at every instant and until the next     *)
(* install: only an install that could not read the config, or found it    *)
(* torn by an earlier failure, destroys it.                                *)
LostOnlyToBlindInstall == OriginalIsRecoverable \/ blind \/ crossed

(* agenttape's own routing is never taken for the user's config: it is not *)
(* backed up, not merged a second time and not brought back by a restore,  *)
(* however handlers overlap, crash and retry.                              *)
InjectionNeverSaved ==
    /\ ~HasCodexMarker(backup)
    /\ \A r \in Req : ~HasCodexMarker(job[r].original)

(* When a restore has cleared the state file, config.toml is what the user *)
(* left before the install that it undoes, also after crashes, failures    *)
(* and retries; only the removal of a config that was not there before may *)
(* fail unnoticed.                                                         *)
RestoreIsExact ==
    [][\A r \in Req : At(r, "removeState") /\ At(r, "idle")' /\ state' = "none"
            => \/ config = mine \/ blind \/ crossed
               \/ DiskMayFail /\ state = "hadNone"]_vars

------------------------------------------------------------------------------
(* What the comments say, and the code does not do. *)

(* The install "is always paired with the verbatim backup + the restore    *)
(* endpoint": while routing is recorded as active and no handler is at     *)
(* work, a restore has the backup it needs.                                *)
RestoreStaysPossible ==
    (Quiet /\ state = "hadOriginal") => backup # Missing
==============================================================================
