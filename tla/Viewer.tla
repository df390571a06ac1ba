------------------------------- MODULE Viewer -------------------------------
(***************************************************************************)
(* The viewer: its pages and panels, of which the router shows one; a      *)
(* behaviour stays on one.  The case library, the curl sheet, the launch   *)
(* page and the diff have their own variables.  The other pages share      *)
(* theirs, by the part that they play on each.                             *)
(***************************************************************************)
EXTENDS CasePanel, CurlSheet, LaunchPanel, MessageDiff, Timestamps

CONSTANTS
    Pages,           \* those that may be shown
    RunnerSession, AuthOf, Keyed, Foreign,       \* the case runner
    Item, Title, NoTitle,                        \* the sidebar; hooks are items
    NoHookName,
    LastEvent, Mixes, Edit, ReplaySlot,          \* the events of a session
    Thread, Captured, Kind, Big, NoKey,          \* the request tab
    Agent, Main,                                 \* the flow graph
    Unused

VARIABLES
    page,
    kept,      \* what the server holds, or the page was given
    query,     \* the entry of the query cache
    sent,      \* the requests under way
    chosen,    \* what the user has open or picked
    noted,     \* history
    own1, own2, own3, own4, own5, own6   \* what is left of the page's state

Runner == INSTANCE RunnerAuth WITH
    Session <- RunnerSession, PollsFail <- FetchesFail,
    live <- kept, sessions <- query, closing <- sent, sessionId <- chosen,
    pick <- noted, keyless <- own1, started <- own2, confirming <- own3,
    running <- own4, key <- own5, keying <- own6

Desktop == INSTANCE DesktopPanel WITH
    routed <- kept, status <- query, work <- sent, mounted <- chosen,
    left <- noted, invalid <- own1

EventPage == INSTANCE EventPanel WITH
    Slot <- ReplaySlot,
    listed <- kept, detail <- query, calls <- sent, reqId <- chosen,
    view <- noted, listFailed <- own1, tab <- own2, raw <- own3,
    detailTab <- own4, erased <- own5, kind <- own6

List == INSTANCE SessionList WITH
    Session <- Item,
    titles <- kept, sessions <- query, calls <- sent, opened <- chosen,
    excused <- noted, hidden <- own1, editing <- own2

Capture == INSTANCE HookPanel WITH
    Hook <- Item,
    hooks <- kept, defs <- query, calls <- sent, alarm <- chosen,
    unseen <- noted

Fold == INSTANCE Sections WITH
    thread <- kept, clicked <- noted, parts <- own1, blocks <- own2,
    groupRounds <- own3, collapsed <- own4, has <- own5

Flow == INSTANCE TurnFlow WITH
    log <- kept, agent <- own1, prompt <- own2

(* Events are counted, and of some kind.  No session is the absent one, no *)
(* title says that its session is gone, and no table of hooks or list of   *)
(* sessions is a missing one.  A thread is a list of messages.             *)
ASSUME ViewerAssumption ==
    /\ LastEvent \in Nat /\ Main \in Agent
    /\ Mixes \subseteq [EventPage!Event -> EventPage!Kinds]
    /\ NoSession \notin Item \union RunnerSession
    /\ List!Gone \notin Title \union {NoTitle}
    /\ NoData \notin [Item -> Capture!HookRow]
    /\ Thread \subseteq Seq([role : STRING, kinds : SUBSET Kind])
    /\ Captured \subseteq Thread \X SUBSET Fold!Named
    /\ \A S \in SUBSET Runner!Listed : NoData \notin Runner!Orders(S)
------------------------------------------------------------------------------
Shows(panel) == page = panel

own == <<caseVars, curlVars, launchVars, diffVars>>
shared == <<kept, query, sent, chosen, noted, own1, own2, own3, own4, own5, own6>>
vars == <<page, own, shared>>

(* What a page does not use stays in one of its initial states. *)
Init ==
    /\ page \in Pages
    /\ CaseInit /\ CurlInit /\ LaunchInit /\ DiffInit
    /\ Shows("curl") \/ (session = NoSession /\ text = CHOOSE t \in Text : TRUE)
    /\ Shows("diff") \/ (left = <<>> /\ right = <<>>)
    /\ \/ Shows("runner") /\ Runner!AuthInit
       \/ /\ Shows("desktop") /\ Desktop!DesktopInit
          /\ own2 = Unused /\ own3 = Unused /\ own4 = Unused
          /\ own5 = Unused /\ own6 = Unused
       \/ Shows("event") /\ EventPage!EventInit
       \/ /\ Shows("list") /\ List!ListInit
          /\ own3 = Unused /\ own4 = Unused /\ own5 = Unused
          /\ own6 = Unused
       \/ /\ Shows("hooks") /\ Capture!HookPanelInit
          /\ own1 = Unused /\ own2 = Unused /\ own3 = Unused
          /\ own4 = Unused /\ own5 = Unused /\ own6 = Unused
       \/ /\ Shows("sections") /\ Fold!SectionsInit
          /\ query = Unused /\ sent = Unused /\ chosen = Unused
          /\ own6 = Unused
       \/ /\ Shows("flow") /\ Flow!FlowInit
          /\ query = Unused /\ sent = Unused /\ chosen = Unused
          /\ noted = Unused /\ own3 = Unused /\ own4 = Unused
          /\ own5 = Unused /\ own6 = Unused
       \/ /\ page \in {"cases", "curl", "launch", "diff"}
          /\ kept = Unused /\ query = Unused /\ sent = Unused
          /\ chosen = Unused /\ noted = Unused /\ own1 = Unused
          /\ own2 = Unused /\ own3 = Unused /\ own4 = Unused
          /\ own5 = Unused /\ own6 = Unused

Next ==
    \/ /\ Shows("cases") /\ CaseNext
       /\ UNCHANGED <<page, curlVars, launchVars, diffVars, shared>>
    \/ /\ Shows("curl") /\ CurlNext
       /\ UNCHANGED <<page, caseVars, launchVars, diffVars, shared>>
    \/ /\ Shows("launch") /\ LaunchNext
       /\ UNCHANGED <<page, caseVars, curlVars, diffVars, shared>>
    \/ /\ Shows("diff") /\ DiffNext
       /\ UNCHANGED <<page, caseVars, curlVars, launchVars, shared>>
    \/ Shows("runner") /\ Runner!AuthNext /\ UNCHANGED <<page, own>>
    \/ /\ Shows("desktop") /\ Desktop!DesktopNext
       /\ UNCHANGED <<page, own, own2, own3, own4, own5, own6>>
    \/ Shows("event") /\ EventPage!EventNext /\ UNCHANGED <<page, own>>
    \/ /\ Shows("list") /\ List!ListNext
       /\ UNCHANGED <<page, own, own3, own4, own5, own6>>
    \/ /\ Shows("hooks") /\ Capture!HookPanelNext
       /\ UNCHANGED <<page, own, own1, own2, own3, own4, own5, own6>>
    \/ /\ Shows("sections") /\ Fold!SectionsNext
       /\ UNCHANGED <<page, own, query, sent, chosen, own6>>
    \/ /\ Shows("flow") /\ Flow!FlowNext
       /\ UNCHANGED <<page, own, query, sent, chosen, noted, own3, own4, own5, own6>>

Spec == Init /\ [][Next]_vars
------------------------------------------------------------------------------
(* Every panel keeps its types: no call is kept for a slot that is free,   *)
(* no draft for a row that is gone, no answer for a fetch that is over.    *)
ViewerTypeOK ==
    /\ (Shows("cases") => CasePanelTypeOK)
    /\ (Shows("curl") => CurlSheetTypeOK)
    /\ (Shows("launch") => LaunchPanelTypeOK)
    /\ (Shows("diff") => DiffTypeOK)
    /\ (Shows("runner") => Runner!RunnerAuthTypeOK)
    /\ (Shows("desktop") => Desktop!DesktopPanelTypeOK)
    /\ (Shows("event") => EventPage!EventPanelTypeOK)
    /\ (Shows("list") => List!SessionListTypeOK)
    /\ (Shows("hooks") => Capture!HookPanelTypeOK)
    /\ (Shows("sections") => Fold!SectionsTypeOK)
    /\ (Shows("flow") => Flow!TurnFlowTypeOK)

(* At rest the pages show what the server has: the runner offers no        *)
(* session whose close has settled, the Codex Desktop panel what the       *)
(* config needs, the sidebar the sessions there are, and the hook card     *)
(* what a launch wires, but for what was added.  (The case library has     *)
(* QuietListIsCurrent.)                                                    *)
PagesAreCurrent ==
    /\ (Shows("runner") => Runner!ClosedSessionsLeaveTheList)
    /\ (Shows("desktop") => Desktop!QuietStatusIsCurrent)
    /\ (Shows("list") => List!QuietSidebarIsCurrent)
    /\ (Shows("hooks") => Capture!OnlyAddsAreUnseen)

(* Case runner: runs and keys go to the session the user picked, as long   *)
(* as there is one.                                                        *)
PickedSessionIsUsed == [][Shows("runner") => Runner!PickedSessionIsUsed]_vars

(* Case runner: the auth shown before a pick is the one that a run uses. *)
ShownAuthIsUsed == Shows("runner") => Runner!ShownAuthIsUsed

(* Codex Desktop panel: two requests overlap only if the user left the     *)
(* panel in between.                                                       *)
OverlapOnlyAfterLeaving == Shows("desktop") => Desktop!OverlapOnlyAfterLeaving

(* Event detail: draft, confirmation, result and other side are about the  *)
(* event shown, unless the view went on under them.                        *)
OnlyCrossingMixes == Shows("event") => EventPage!OnlyCrossingMixes

(* Event detail: what is replayed is what the editor shows, for the event  *)
(* shown.                                                                  *)
SendsWhatIsShown == [][Shows("event") => EventPage!SendsWhatIsShown]_vars

(* Sidebar: no one stays on the page of a session that they deleted. *)
NoGhostIsOpen == Shows("list") => List!NoGhostIsOpen

(* Sidebar: no one is sent away but who deleted the session they were on. *)
OnlyDeletersAreSentAway == [][Shows("list") => List!OnlyDeletersAreSentAway]_vars

(* Hook capture: a click on a switch turns the event round, however fast   *)
(* it follows others.                                                      *)
SwitchFlips == [][Shows("hooks") => Capture!SwitchFlips]_vars

(* Hook capture: no alarm is raised over an event that the server took. *)
TakenAddIsNoError == Shows("hooks") => Capture!TakenAddIsNoError

(* Request tab: the rounds are the shown messages, cut at each user        *)
(* message and nowhere else, and merge under a filter only if it hides a   *)
(* question.                                                               *)
RoundsFollowQuestions == Shows("sections") => Fold!RoundsFollowQuestions

(* Request tab: every click turns its section round. *)
ClickTurnsSection == Shows("sections") => Fold!ClickTurnsSection

(* Flow graph: a hook is shown under the wrong request only if the agent   *)
(* did two things at once, or a fraction of a second is cut.               *)
OnlyOverlapOrCutMisleads == Shows("flow") => Flow!OnlyOverlapOrCutMisleads

(* Flow graph: as requests end late, references move one way only. *)
RefsOnlyConverge == [][Shows("flow") => Flow!RefsOnlyConverge]_vars

(* Flow graph: the comment has every hook under its request. *)
FlowIsExact == Shows("flow") => Flow!FlowIsExact
==============================================================================
