---------------------------- MODULE DesktopPanel ----------------------------
(***************************************************************************)
(* The Codex Desktop part of the launch page: it shows install or restore  *)
(* by the status it last fetched.  The page mounts and unmounts it with    *)
(* the chosen target, while its requests work on the user's config file,   *)
(* which module CodexDesktop models; here a request takes effect at its    *)
(* end, with the state file.                                               *)
(***************************************************************************)
EXTENDS Query

CONSTANTS Slot, FetchesFail

VARIABLES
    routed,   \* the server: the state file is there
    status,   \* query ["codex-desktop-status"]
    invalid,  \* it was invalidated while no panel used it
    mounted,
    work,     \* slot -> request under way
    left      \* history: the user left the panel with a request under way

desktopVars == <<routed, status, invalid, mounted, work, left>>

Free == [kind |-> "free", phase |-> "idle", here |-> FALSE]
Works == [kind : {"install", "restore"}, here : BOOLEAN,
          phase : {"sent", "serving", "answered", "refetching"}]

DesktopPanelTypeOK ==
    /\ routed \in BOOLEAN /\ invalid \in BOOLEAN /\ mounted \in BOOLEAN
    /\ status \in Entries(BOOLEAN, Slot)
    /\ work \in [Slot -> Works \union {Free}]
    /\ left \in BOOLEAN

DesktopInit ==
    /\ routed \in BOOLEAN
    /\ status = NewEntry /\ invalid = FALSE /\ mounted = FALSE
    /\ work = [k \in Slot |-> Free] /\ left = FALSE

(* Choosing the target; data less than 2 s old is not fetched again.       *)
Mount ==
    /\ ~mounted /\ mounted' = TRUE
    /\ \/ status' = Fetched(status)
       \/ status.data # NoData /\ ~invalid /\ status' = status
    /\ UNCHANGED <<routed, invalid, work, left>>

(* Choosing another: what the panel knew of its requests is gone.          *)
Unmount ==
    /\ mounted /\ mounted' = FALSE
    /\ work' = [k \in Slot |-> [work[k] EXCEPT !.here = FALSE]]
    /\ left' = (left \/ \E k \in Slot : work[k].here)
    /\ UNCHANGED <<routed, status, invalid>>

Focus ==
    /\ mounted /\ status.flight = "idle" /\ status' = Fetched(status)
    /\ UNCHANGED <<routed, invalid, mounted, work, left>>

StatusServed ==
    /\ status.flight = "asked" /\ status' = Served(status, routed)
    /\ UNCHANGED <<routed, invalid, mounted, work, left>>

Ended == [k \in Slot |-> IF work[k].phase = "refetching" /\ k \in status.waiting
                         THEN Free ELSE work[k]]

StatusArrives ==
    /\ status.flight = "answered" /\ status' = Arrived(status) /\ work' = Ended
    /\ invalid' = FALSE
    /\ UNCHANGED <<routed, mounted, left>>

StatusFails ==
    /\ FetchesFail /\ status.flight # "idle"
    /\ status' = Lost(status) /\ work' = Ended
    /\ UNCHANGED <<routed, invalid, mounted, left>>

Active == status.data = TRUE
Pending(kind) == \E k \in Slot : work[k].kind = kind /\ work[k].here

(* Mutant: the button is not disabled while its request is under way. *)
ClickAgain(kind) ==
    /\ mounted /\ ~Loading(status)
    /\ Active <=> kind = "restore"
    /\ \E k \in Slot :
         /\ work[k] = Free
         /\ work' = [work EXCEPT ![k] = [kind |-> kind, phase |-> "sent",
                                         here |-> TRUE]]
    /\ UNCHANGED <<routed, status, invalid, mounted, left>>

Click(kind) ==
    /\ mounted /\ ~Loading(status) /\ ~Pending(kind)
    /\ Active <=> kind = "restore"
    /\ \E k \in Slot :
         /\ work[k] = Free
         /\ work' = [work EXCEPT ![k] = [kind |-> kind, phase |-> "sent",
                                         here |-> TRUE]]
    /\ UNCHANGED <<routed, status, invalid, mounted, left>>

(* An install is refused while the config is routed, a restore otherwise.  *)
Begin(k) ==
    /\ work[k].phase = "sent"
    /\ work' = [work EXCEPT ![k] =
          IF routed <=> work[k].kind = "restore"
          THEN [work[k] EXCEPT !.phase = "serving"] ELSE Free]
    /\ UNCHANGED <<routed, status, invalid, mounted, left>>

End(k) ==
    /\ work[k].phase = "serving"
    /\ \/ /\ routed' = (work[k].kind = "install")
          /\ work' = [work EXCEPT ![k].phase = "answered"]
       \/ /\ work' = [work EXCEPT ![k] = Free] /\ UNCHANGED routed
    /\ UNCHANGED <<status, invalid, mounted, left>>

(* Without a panel the status is only marked, and an answer still under    *)
(* way takes the mark away again.  A refetch cut by a second answer ends   *)
(* the first one's wait.                                                   *)
Answer(k) ==
    /\ work[k].phase = "answered"
    /\ IF mounted
       THEN /\ status' = Invalidated(status, k)
            /\ work' = [j \in Slot |->
                 IF j = k THEN [work[k] EXCEPT !.phase = "refetching"]
                 ELSE IF j \in status.waiting \ status'.waiting THEN Free
                 ELSE work[j]]
            /\ UNCHANGED invalid
       ELSE /\ invalid' = TRUE /\ work' = [work EXCEPT ![k] = Free]
            /\ status' = [status EXCEPT !.reused =
                             @ \/ status.flight = "answered"]
    /\ UNCHANGED <<routed, mounted, left>>

DesktopNext ==
    \/ Mount \/ Unmount \/ Focus \/ StatusServed \/ StatusArrives \/ StatusFails
    \/ \E kind \in {"install", "restore"} : Click(kind)
    \/ \E k \in Slot : Begin(k) \/ End(k) \/ Answer(k)
------------------------------------------------------------------------------
(* Two requests work on the config at once only if the user left the panel *)
(* while one was under way: what is disabled is enough otherwise.          *)
OverlapOnlyAfterLeaving ==
    \A j, k \in Slot :
      j # k /\ work[j].phase = "serving" /\ work[k].phase = "serving" => left

(* When nothing is under way the panel offers what the config needs.       *)
QuietStatusIsCurrent ==
    /\ mounted /\ status.data # NoData /\ status.flight = "idle"
    /\ ~status.failed /\ ~status.reused /\ ~invalid
    /\ \A k \in Slot : work[k].phase # "answered"
    => status.data = routed
==============================================================================
