----------------------------- MODULE LaunchPanel -----------------------------
(***************************************************************************)
(* The launch page: the configuration, the command the server previews for *)
(* it, the command that is generated for it (which registers a session),   *)
(* and the launch in a terminal.  Answers come back after the user has     *)
(* gone on to another configuration.                                       *)
(***************************************************************************)
EXTENDS Sequences, Naturals, SequencesExt

CONSTANTS
    Args,      \* native arguments for the client
    Dir,       \* working directories; NoDir is the empty field
    NoDir,
    Cap,       \* length of the history of directories (8 in the code)
    Allowed    \* the server was started with -allow-launch

(* The history of directories has a length.                                *)
ASSUME LaunchAssumption == Cap \in Nat

VARIABLES
    target, mode, args, workdir, hasKey,   \* state of the panel
    preview,             \* the launch that the preview at hand describes
    template,            \* the template of the configuration has arrived
    generating,          \* the registration under way
    envCmd,              \* state: the configuration of the generated command
    launching,           \* the launch under way
    recent,              \* the directories in localStorage
    moved, late          \* history: the configuration changed since a command
                         \* was asked for; it had when the shown one came

launchVars == <<target, mode, args, workdir, hasKey, preview, template,
                generating, envCmd, launching, recent, moved, late>>

Targets == {"cc", "codex", "codex-desktop"}
Modes == {"subscription", "key"}
KindOf(t) == IF t = "codex-desktop" THEN "codex" ELSE t
Configs == [kind : {"cc", "codex"}, mode : Modes, args : Args]
Config == [kind |-> KindOf(target), mode |-> mode, args |-> args]
Launches == [cfg : Configs, dir : Dir \union {NoDir}]
Request == [cfg |-> Config, dir |-> workdir]
None == [kind |-> "none"]

LaunchPanelTypeOK ==
    /\ target \in Targets /\ mode \in Modes /\ args \in Args
    /\ workdir \in Dir \union {NoDir} /\ hasKey \in BOOLEAN
    /\ preview \in Launches \union {None} /\ template \in BOOLEAN
    /\ generating \in Configs \union {None}
    /\ envCmd \in Configs \union {None}
    /\ launching \in Launches \union {None}
    /\ recent \in Seq(Dir) /\ Len(recent) <= Cap
    /\ \A k, l \in DOMAIN recent : recent[k] = recent[l] => k = l
    /\ moved \in BOOLEAN /\ late \in BOOLEAN

LaunchInit ==
    /\ target = "cc" /\ mode = "subscription" /\ args \in Args
    /\ workdir = NoDir /\ hasKey = FALSE
    /\ preview = None /\ template = FALSE
    /\ generating = None /\ envCmd = None /\ launching = None
    /\ recent = <<>> /\ moved = FALSE /\ late = FALSE

(* The directory in front of the others: the filter for others takes one   *)
(* out at most, as none is in the list twice.                              *)
InFront(dir) ==
    LET rest == IF dir \in ToSet(recent)
                THEN RemoveAt(recent, CHOOSE k \in DOMAIN recent : recent[k] = dir)
                ELSE recent
    IN <<dir>> \o rest

(* Mutant: the directory stays at its old place too. *)
RememberTwice(dir) ==
    IF dir = NoDir THEN recent
    ELSE LET next == <<dir>> \o recent
         IN SubSeq(next, 1, IF Len(next) > Cap THEN Cap ELSE Len(next))

(* saveWorkdirHistory: most recent first, without doubles, at most Cap.    *)
Remember(dir) ==
    IF dir = NoDir THEN recent
    ELSE LET next == InFront(dir)
         IN SubSeq(next, 1, IF Len(next) > Cap THEN Cap ELSE Len(next))

(* Mutant: no effect forgets the generated command. *)
ReconfigureKeepsCommand(t, m, a) ==
    /\ target' = t /\ mode' = m /\ args' = a
    /\ UNCHANGED <<workdir, hasKey, generating, envCmd, late, launching, recent>>
    /\ IF <<KindOf(t), m, a>> = <<KindOf(target), mode, args>>
       THEN UNCHANGED <<preview, template, moved>>
       ELSE /\ preview' \in {None, Request'} /\ template' \in BOOLEAN
            /\ moved' = (moved \/ generating # None)

(* A change of the configuration: other queries, which may be cached or    *)
(* not, and the effect that forgets the generated command.                 *)
Reconfigure(t, m, a) ==
    /\ target' = t /\ mode' = m /\ args' = a
    /\ UNCHANGED <<workdir, hasKey, generating, launching, recent>>
    /\ IF <<KindOf(t), m, a>> = <<KindOf(target), mode, args>>
       THEN UNCHANGED <<preview, template, envCmd, moved, late>>
       ELSE /\ preview' \in {None, Request'} /\ template' \in BOOLEAN
            /\ envCmd' = None /\ late' = FALSE
            /\ moved' = (moved \/ generating # None)

Configure ==
    \/ \E t \in Targets : Reconfigure(t, mode, args)
    \/ target # "codex-desktop" /\ \E m \in Modes : Reconfigure(target, m, args)
    \/ target # "codex-desktop" /\ \E a \in Args : Reconfigure(target, mode, a)

(* Mutant: the directory is not part of the key of the preview. *)
TypeDirKeepsPreview(dir) ==
    /\ target # "codex-desktop" /\ dir # workdir
    /\ workdir' = dir
    /\ UNCHANGED <<target, mode, args, hasKey, preview, template, generating,
                   envCmd, launching, recent, moved, late>>

(* The preview, not the template, depends on the directory.                *)
TypeDir(dir) ==
    /\ target # "codex-desktop" /\ dir # workdir
    /\ workdir' = dir
    /\ UNCHANGED <<target, mode, args, hasKey, template, generating, envCmd,
                   launching, recent, moved, late>>
    /\ preview' \in {None, Request'}

(* Leaving the field saves what is in it. *)
BlurDir ==
    /\ target # "codex-desktop"
    /\ recent' = Remember(workdir)
    /\ UNCHANGED <<target, mode, args, workdir, hasKey, preview, template,
                   generating, envCmd, launching, moved, late>>

(* One of the directories saved before is picked, and saved as the latest. *)
PickRecent(dir) ==
    /\ target # "codex-desktop" /\ dir \in ToSet(recent)
    /\ workdir' = dir /\ recent' = Remember(dir)
    /\ UNCHANGED <<target, mode, args, hasKey, template, generating, envCmd,
                   launching, moved, late>>
    /\ IF dir = workdir THEN UNCHANGED preview ELSE preview' \in {None, Request'}

TypeKey(b) ==
    /\ target # "codex-desktop" /\ mode = "key" /\ hasKey' = b
    /\ UNCHANGED <<target, mode, args, workdir, preview, template, generating,
                   envCmd, launching, recent, moved, late>>

PreviewArrives ==
    /\ preview = None /\ preview' = Request
    /\ UNCHANGED <<target, mode, args, workdir, hasKey, template, generating,
                   envCmd, launching, recent, moved, late>>

TemplateArrives ==
    /\ ~template /\ template' = TRUE
    /\ UNCHANGED <<target, mode, args, workdir, hasKey, preview, generating,
                   envCmd, launching, recent, moved, late>>

EnvDisplay == envCmd # None \/ template

CopyEnv ==
    /\ target # "codex-desktop" /\ EnvDisplay /\ generating = None
    /\ recent' = Remember(workdir)
    /\ generating' = Config /\ moved' = FALSE
    /\ UNCHANGED <<target, mode, args, workdir, hasKey, preview, template,
                   envCmd, launching, late>>

Generated ==
    /\ generating # None /\ generating' = None
    /\ envCmd' = generating /\ late' = moved
    /\ UNCHANGED <<target, mode, args, workdir, hasKey, preview, template,
                   launching, recent, moved>>

GenerateFails ==
    /\ generating # None /\ generating' = None
    /\ UNCHANGED <<target, mode, args, workdir, hasKey, preview, template,
                   envCmd, launching, recent, moved, late>>

CopyFull ==
    /\ target # "codex-desktop" /\ preview # None
    /\ recent' = Remember(workdir)
    /\ UNCHANGED <<target, mode, args, workdir, hasKey, preview, template,
                   generating, envCmd, launching, moved, late>>

CanLaunch == mode = "subscription" \/ hasKey
ServerLaunchEnabled == preview # None /\ Allowed

Launch ==
    /\ target # "codex-desktop" /\ launching = None
    /\ CanLaunch /\ ServerLaunchEnabled
    /\ recent' = Remember(workdir)
    /\ launching' = Request
    /\ UNCHANGED <<target, mode, args, workdir, hasKey, preview, template,
                   generating, envCmd, moved, late>>

Launched ==
    /\ launching # None /\ launching' = None
    /\ UNCHANGED <<target, mode, args, workdir, hasKey, preview, template,
                   generating, envCmd, recent, moved, late>>

LaunchNext ==
    \/ Configure \/ BlurDir \/ PreviewArrives \/ TemplateArrives
    \/ CopyEnv \/ Generated \/ GenerateFails \/ CopyFull \/ Launch \/ Launched
    \/ \E dir \in Dir \union {NoDir} : TypeDir(dir)
    \/ \E dir \in Dir : PickRecent(dir)
    \/ \E b \in BOOLEAN : TypeKey(b)

LaunchSpec == LaunchInit /\ [][LaunchNext]_launchVars
------------------------------------------------------------------------------
(* The effect's comment: "a generated cmd is tied to this config".         *)
GeneratedIsForThisConfig == envCmd \in {None, Config}

(* It is, unless it came after the user had gone on to another one.        *)
OnlyLateCommandsAreStale == envCmd \in {None, Config} \/ late

(* What is launched is what the previewed command line says.               *)
LaunchIsPreviewed ==
    launching = None /\ launching' # None => launching' = preview

LaunchesWhatIsPreviewed == [][LaunchIsPreviewed]_launchVars
==============================================================================
