# A formal model of agenttape

agenttape is a local server that stands between coding agents (Claude Code,
Codex) and their model providers: it proxies and records their requests,
receives their hook events, keeps everything in SQLite and raw files, and lets
its user browse, replay and re-send what was recorded, in a viewer that runs in
the browser. This directory holds
TLA+ models of the parts of it where steps of several actors meet, the TLC
configurations that check them, and proofs of their main properties.

## 1. Inventory

| Component | State | Operations | Meets | Hard behaviour |
|---|---|---|---|---|
| Session registry (`source/httpcap/session.go`, `store/live_sessions.go`) | `byToken`, `byID`, `headers`, `inject` under an RWMutex; rows of `live_sessions` | Register, RememberHeaders, RememberInject, Remove, BindPersister | all handlers, the proxy, SQLite | rows written outside the lock, credentials stored by id after the session is gone, restart |
| Capturing proxy (`source/httpcap/proxy.go`) | local to a request | ServeHTTP | registry, upstream, `emit` | minutes between looking a session up and using it |
| Gateway handlers (`server/*.go`) | local to a request | register, launch, close, re-supply key, replay, run case | registry, proxy (through HTTP), store | check-then-act, failure half way |
| Codex Desktop routing (`server/codex_desktop_api.go`) | three files in `~/.codex` | install, restore | registry, the user's editor, Codex | no lock, crash between and inside file writes |
| Trace store (`store/*.go`, `server/sessions_api.go`) | SQLite tables, raw files, `Store.mu` | Write, DeleteSession, SetSessionLabel | proxy and hooks (through `emit`), API handlers | rows are transactional, files are not; rename takes no lock |
| Replay case library (`store/cases.go`, `server/cases_api.go`) | `replay_cases`, the seed digest | add, snapshot, overwrite, delete, seeding | raw files, registry | upgrades, read-then-replace |
| Hook event registry (`store/client_hook_events.go`) | `client_hook_events` | add, toggle, delete, seeding | launchers | upgrades against user choices |
| Hook adapter (`source/hook`) | none | receive a hook | `emit` | none of its own |
| Compaction detection (`server/compaction.go`, `store/compaction_query.go`) | none: computed from the store at each query | pair neighbouring completions, grade each pair | the store's rows, in two statements | records come late and in any order; times are compared as texts |
| Normalization (`normalize/`) | none (pure) | assemble a response from its stream | `emit`, replay | streams cut off or interleaved |
| Viewer view models (`frontend/src/viewmodel`) | none (pure) | turns, rounds, flow references, line diff, auth targets | API answers | overlap of requests and hooks, filters, ties and borders |
| Viewer query cache (`frontend/src/query`) | one entry per query key, pending mutations | fetch, poll, mutate, invalidate | API, every panel | a refetch cuts an earlier one; callbacks outlive what asked for them |
| Viewer case library (`ui/CasesPanel.tsx`) | selection, dialogs, draft, picked session, typed key, curl sheet | create, snapshot, overwrite, delete, run, close, re-enter key, copy | query cache, `cases_api.go`, registry | answers and polls that come between two clicks |
| Viewer launch page (`ui/LaunchPanel.tsx`, `ui/CodexDesktopPanel.tsx`) | form, preview, generated command, saved directories | preview, launch, generate, install, restore | launch API, `codex_desktop_api.go` | answers for a form that has changed; leaving and coming back |
| Viewer session pages (`ui/SessionList.tsx`, `SessionDetail.tsx`, `ReplayView.tsx`, `DiffView.tsx`, ...) | URL, tabs, folds, filters, drafts of titles and bodies | rename, delete, select, replay, compare | query cache, the trace store's API | polls that move or unmount what the user works on |
| Viewer hook capture (`ui/HookEventsPanel.tsx`) | draft, pending requests | add, toggle, remove | `hook_events_api.go` | requests of one card that overlap |
| Sinks, CLI, search page, embedded viewer | none that is shared | | | |

What makes each correct:

* registry and proxy: a session that a restart should bring back is brought
  back, one the user closed is not; the real key replaces the placeholder
  whenever it should; no handler blocks another for ever;
* Codex Desktop: the user's `config.toml` is never lost, never confused with
  agenttape's own version, and a restore is exact and stays possible;
* trace store: an event is there whole or not at all, in every table; what the
  database points to is on disk; deleting is final;
* case library and hook registry: user data survives upgrades, built-ins
  follow the program;
* compaction detection: a verdict is the one the instants give, and stays what
  it is once all that concerns its pair is recorded;
* panels: what a page shows, sends, copies or launches belongs together, and at
  rest it shows what the server has, however late or disordered the answers;
* pure parts: they compute what their comments define, for any interleaving of
  the recorded events.

`PROJECT.json` lists every component with its status and every hazard with its
line and the properties that watch it.

## 2. Modules

| Module | Models | State and actions |
|---|---|---|
| `SessionRegistry` | `Sessions` and `live_sessions` | one variable per map (`live` stands for `byToken` and `byID`, which change together), one operator per method; methods that leave the lock or hold it across SQLite are two operators (`Insert`/`SaveRow`, `Drop`/`EraseRow`) |
| `Gateway` (extends it) | handlers and proxy | `job[r]` is the program counter and the locals of goroutine `r`; an action is one critical section, one SQLite statement or one exchange with the upstream |
| `GatewayProofs` | | theorems about `Gateway` |
| `CodexDesktop` | install and restore | three files, each `none`, `torn`, or written by someone; an action is one file operation, `os.WriteFile` being an open that truncates and a write that fills |
| `CodexDesktopProofs` | | theorems about `CodexDesktop` |
| `TraceArchive` | abstract: an archive of whole events and named sessions | `Record`, `Delete`, `Rename` |
| `TraceStore` | `Store.Write`, `DeleteSession`, `SetSessionLabel` | rows appear at a commit, files one by one; `mu` is `Store.mu`; a rollback or crash may come anywhere |
| `EventQueries` (extends `TraceStore`) | `GetEvent`, `RawFilePath` and the handlers that go on from them | `reading[q]` is the request of reader `q` and what it has read; an action is one statement, or the opening of the file |
| `TraceStoreProofs` | | theorems about `TraceStore`, among them that it implements `TraceArchive`, and about `EventQueries` |
| `Timestamps` | RFC3339Nano | no state: instants, their texts, and the two orders |
| `Compaction` (extends it) | the detection of compactions in one session | what is under way and what is recorded, and a query between its two statements; the verdicts are operators on the records |
| `TimestampsProofs`, `CompactionProofs` (extends it) | | theorems about the two |
| `Cases`, `HookEvents` | the tables `replay_cases` (with the seed digest) and `client_hook_events` | one operator per SQL statement |
| `Library` (extends both) | their handlers, and `store.Open` of any version | `opener` is a process that is starting, row by row; `job[r]` a handler between its read and its write; a second start may seed under a running server, as the program opens the database before it listens |
| `LibraryProofs` | | theorems about `Library` |
| `Query` | one entry of the viewer's query cache (TanStack Query, external) | operators on an entry: asked, served, arrived, lost, invalidated |
| `CasePanel` (extends it) | the page of the case library | the server's table, the list the page shows, selection, dialogs and draft, and up to two requests under way; each request is sent, served, answered, refetched and over in steps of their own |
| `RunnerAuth` (extends `Query`) | which live session a case runs with | the registry, its list in a new order at each poll, the pick, the confirmation of a run, closes and key entry |
| `CurlSheet` | the sheet that builds a curl command | the props that change under it, its effect, the answer that counts, the clipboard |
| `LaunchPanel` | the launch page | form, preview, generated command, launch, saved directories |
| `DesktopPanel` (extends `Query`) | its Codex Desktop part | status query, mount, requests under way; what they do to the files is `CodexDesktop` |
| `EventPanel` | a session's page with its Diff and Replay tabs | URL, tabs, which details and bodies are in the cache, and the state of the mounted view |
| `SessionList` (extends `Query`) | the sidebar | list, filter, open session, rows being edited, renames and deletes under way |
| `HookPanel` (extends `HookEvents`, `Query`) | the hook capture card | the server's table (the operators of `HookEvents`), the list, requests under way, the error shown |
| `Sections` | folds, filters and rounds of the request tab | the UI store and the pure functions that cut the thread |
| `MessageDiff` | the line diff | the table filled cell by cell, the walk, the script, the summary |
| `TurnFlow` (extends `Timestamps`) | turns, flow references and the links of a hook's detail | the recorded log, written by external agents by the clock; the view is operators on it that compare the texts of times |
| `Viewer` (extends or instantiates the eleven panels above) | the viewer | the page that the router shows, and a step of that page |
| `PageProofs` | | theorems about `CasePanel`, `CurlSheet` and `LaunchPanel`, and about `DesktopPanel`, `SessionList` and `HookPanel` within `Viewer` |
| `ViewerProofs` (extends it and `TimestampsProofs`) | | theorems about `MessageDiff`, about `EventPanel`, `RunnerAuth`, `TurnFlow` and `Sections` within `Viewer`, and about `Viewer` as a whole |
| `MCGateway`, `MCCodexDesktop`, `MCTraceStore`, `MCEventQueries`, `MCLibrary`, `MCCompaction`, `MCViewer` | | model values and symmetry for TLC |

Conventions. A request that is refused and changes nothing (404, 409, a 502 for
an unknown token) is not a step. Variables called history are read by
properties only. Definitions marked *Mutant* are wrong variants of the
definition that follows them; each property has one that breaks it.

Abstractions.

* A session's id and token are two fresh random values for one thing; an event
  id is random. `Sid` and `Event` are sets of such values, each used once.
* A header set is the credential it carries (`Cred`): none, a request without
  any, the placeholder, the agent's own in one of its successive versions, the
  real key.
* A config file is who wrote it and the user's text in it. `Merge` keeps the
  text and adds agenttape's block; `stripTopLevelModelProvider` and the layout
  are not told apart.
* SQLite is taken at its word: one statement, or one transaction, is atomic
  and durable. That `SetSessionLabel` waits for an open write transaction is
  `NoTransaction` in its guard; giving up after the busy timeout is the failing
  branch.
* `http_exchanges` and `hook_events` are one table `detail`, since an event has
  a row in exactly one of them, chosen by its kind.
* A version of the program is its set of built-in cases and default hooks; the
  worst case, that every version changes the text of all its cases, is the one
  modelled. A case is whose metadata and whose body it holds. A client and one
  of its event names are one `Hook`. The order in which a start installs its
  rows is left open. One start is under way at a time.
* An instant is a second and a fraction of `Digits` digits in base `Base` (nine
  and ten, in the code). The text before the fraction has one length, so it is
  its number. The clock does not go back, and no two completions of a session
  arrive in the same nanosecond. A completion is what the detector asks of it:
  whether its envelope could be parsed, the length of its history, its response,
  and which responses are found in the history, of which the sampled anchors are
  the test. Only the hooks that the query selects are recorded. Sessions are not
  deleted in `Compaction`; `TraceStore` says what a delete leaves.
* A click, a keystroke, a tick of a poll, the arrival of an answer and a step of
  the server are actions of their own in the viewer's modules; a render and the
  effects and callbacks it runs belong to the action that causes them. React
  keeps the state of a component exactly as long as it is mounted at its place
  under its key, and that is where drafts and confirmations go in `Unmounted`,
  `Show` and `Rerender`. Typing is one action that sets the whole text. A poll
  is asked, served and answered at different moments, or it fails; the three
  attempts of a fetch are one that fails or does not.
* `invalidateQueries` cancels a fetch that is under way and asks anew, unless
  the entry has no data yet: then the first fetch is shared, although the server
  may have answered it before the change. Callbacks given to `mutate` run only
  while their component is mounted and only for its latest call, those given to
  `useMutation` always.
* Bodies, titles, texts and directories are a few values each. A body that is
  no JSON is one value, `Garbage`. A message in `MessageDiff` is a number with a
  key, and two different messages may have one key, as they may in the code,
  which compares a text of the message.
* `TurnFlow` invents the agents: each asks for a completion, runs the tools it
  calls for one after the other, and asks again. Only the texts of their times
  (`Timestamps`) reach the view; the completion that caused an event is history,
  and the properties compare the view's guess with it. The clock goes on from
  event to event, so the texts of two events differ, and the sort by
  `localeCompare` and the comparison by `<=` are one order, `TextOrder`: the
  texts hold digits, `-`, `:`, `T`, `.` and `Z`, which both put in one order
  where two of these texts differ.
* In `EventPanel` an event is a completion, a probe (an exchange that is none)
  or a hook. Probes are listed and shown and can be opened in the same views,
  but they are neither a default selection beside a completion, nor a side of a
  comparison, and the server refuses to replay them. When the session is deleted,
  what was listed is gone (`erased`) and can be fetched no more; what the cache
  holds stays. `Mixes` says which kinds the events of a session are.
* In `Sections` a thread comes with or without a system prompt and tools
  (`has`); which thread has which is `Captured`.
* A restart reads the saved sessions all or not at all: `AllLiveSessions` may
  break off between two rows, but the persister that the program binds returns
  no record with an error (`server/live_session_persist.go:24`), so
  `BindPersister` never loads a part. Every event comes with its detail row: the
  proxy, the replay and the hook handler set `Capture`, or the payload, on all
  they record.
* The pages share no state but the cache and the URL, and a user is on one page
  at a time, so `Viewer` puts eleven pages side by side, one per behaviour.
  Four keep their own variables, frozen while another page is shown; the other
  seven share theirs, so that a state has one value for each and not seven.
* A key of `MessageDiff` begins with the role of its message, and the system
  prompt is put in front of the messages, which are taken to be of other roles:
  `DiffAssumption` and `RequestSequence` say so.
* Without a store (the JSONL debug mode) `persist` is nil and nothing survives
  a restart; this mode is not modelled.

## 3. What the runs check

Runs that pass:

| Run | Bounds | Shows |
|---|---|---|
| `gateway` | 1 session, 2 handlers, 1 refresh of the agent's login, failing SQLite, restarts | `SavedSessionsSurvive`, `CleanlyClosedIsGone`, `LaunchedNeedsKeyOnlyAfterLoss`, `PlaceholderLeavesOnlyAfterLoss`; `HandlersFinish` under fairness |
| `codex_desktop` | 2 requests that may overlap, crash and failure anywhere, the user's edits between | `InjectionNeverSaved`; `LostOnlyToBlindInstall` and `RestoreIsExact`, which speak of requests that do not cross |
| `trace_store` | 3 events in 2 sessions, 2 goroutines, crash and failure | `PointersResolve`, `NothingDangles`, `ImplementsArchive` |
| `event_queries` | 2 events of one session, 2 goroutines that write and delete, 1 reader, crash and failure | `ReadersAreNotMisled` |
| `library` | 2 versions, 2 built-in cases, 1 case of the user's, 2 hooks, 2 handlers | `SeedsInSync`, `DeletedCasesStayGone`, `ChoicesSurvive` |
| `compaction` | 3 completions of 3 shapes and 1 hook, at 8 instants in 2 seconds, under way, recorded or lost in any order; a query at any moment | `OnlyCutFractionsMisgrade`, `HookConfirmsOne`, `AnswersStayTrue` |
| `viewer`, case library | 2 cases of the user's, 2 bodies and one that is no JSON, 2 requests under way, failing fetches | `QuietListIsCurrent`, `AnswersStayHome`, `MadeCaseIsShown`, `RunsWhatWasShown` |
| `viewer`, case runner | 2 sessions of two auths, started and closed at any time, polls that fail and reorder | `PickedSessionIsUsed`, `PagesAreCurrent` |
| `viewer`, curl sheet | 2 sessions, 2 bodies, both modes | `CopiesWhatIsShown`, `RevealsOnlyOnDemand` |
| `viewer`, launch page | all targets and modes, 2 directories and none, a history of 2 | `OnlyLateCommandsAreStale`, `LaunchesWhatIsPreviewed` |
| `viewer`, Codex Desktop | 2 requests under way, mounts and unmounts | `OverlapOnlyAfterLeaving`, `PagesAreCurrent` |
| `viewer`, session page | 3 events, a hook between two completions or a probe between two hooks, 1 edited body, 1 replay under way, the session deleted or not | `OnlyCrossingMixes`, `SendsWhatIsShown` |
| `viewer`, sidebar | 2 sessions, 1 title, 2 requests under way | `NoGhostIsOpen`, `OnlyDeletersAreSentAway`, `PagesAreCurrent` |
| `viewer`, hook capture | 2 events, 2 requests under way | `PagesAreCurrent`, `SwitchFlips` |
| `viewer`, request tab | a thread of 3 messages with system prompt and tools, one of 2 without, two kinds of blocks, every filter and fold | `RoundsFollowQuestions` |
| `viewer`, diff | every pair of requests of up to 4 and 2 messages over 5 messages with 4 keys | `DiffIsTrue` |
| `viewer`, flow graph | every log of a main agent and a second one over 6 instants, two seconds of three tenths | `OnlyOverlapOrCutMisleads`, `RefsOnlyConverge` |

Types are checked by `gateway` and, for the panels, by `viewer`
(`ViewerTypeOK`); the type invariants of the other modules are proved
(`TypeCorrect`, `ReadersAreTyped`, `LogIsTyped`), and so is `WalkStaysOptimal`,
the invariant of the diff's walk. `PagesAreCurrent` says of four pages what
`QuietListIsCurrent` says of the case library: at rest they show what the server has
(`ClosedSessionsLeaveTheList`, `QuietStatusIsCurrent`,
`QuietSidebarIsCurrent`, `OnlyAddsAreUnseen`). `RoundsFollowQuestions`,
`DiffIsTrue` and `ReadersAreNotMisled` likewise join the parts of one claim,
which their modules name. `viewer`, `trace_store` and
`compaction` visit some two million states each, in one to three minutes;
the other runs take seconds.

Why the bounds are enough. Every race of this code is between two requests
that work on one session, one file or one lock, so two goroutines show it; a
third would only repeat one of them. Sessions of the registry share nothing but
the lock, which the second handler can hold for the one session as well as for
another, and the theorems below hold for any number of both. One refresh gives
an agent two credentials, an older and a newer. Two events of one session tell
a delete of a session from that of an event, and a third shows that other
sessions are left alone. A reader of one event meets writers and deleters, and
changes nothing that another reader could see. Two binary digits give every way in which one fraction may
end where another goes on, and three completions are the fewest of which one can
come between the other two. Of two versions, started in any order, the second adds a case
and a hook to those of the first, so that there are common, new and retired
built-ins. In the viewer, two requests under way are enough for an
answer to meet another and for a refetch to cut one; two items tell the one
worked on from another; of three events one is the latest, one is selected and
one is a hook, which has no such views, or a probe, which is never compared or
replayed. Four messages against two are the
smallest requests in which three are removed in a row next to one that is kept,
as the hint at a compaction needs. Five instants are enough for a log in which
two completions and two tool hooks cross, and one digit in base three for a
fraction that is cut, one that follows it and one more in the same second. `Permutations` of slots, bodies
and items are sound: no module compares or chooses among them (an item is a case
of the library, a session of the sidebar or a hook; the keyed session of the
runner and the main agent of the flow graph are left out). Pages where the
user can have everything answered and nothing to click may stop, so the runs of
`MCViewer` do not look for deadlock; nor does `compaction`, which stops when as
many completions and hooks are recorded as its bounds allow and the clock has
come to its last instant.

Runs that show a disagreement between the code and a comment or test (one
property each; `PROJECT.json` quotes the line):

| Run | What happens |
|---|---|
| `gateway_closed_unusable` | a completion that ends after its session was closed stores the credential again, and replay uses it |
| `codex_lost` | the backup of the user's config is overwritten by a torn file |
| `runner_other_auth` | after a poll in another order the chooser shows one auth and the run uses another |
| `hook_add_alarm` | an event that was added is reported as an error, as its empty answer is parsed as JSON |
| `section_click` | the first click on a section folded by default does not open it |

`runner_other_auth` has three sessions, two of them of one auth, as the
disagreement needs.

A disagreement that no step of the model can show, since nothing happens:
whether the user may delete a built-in case. The comment on `handleDeleteCase`
(`server/cases_api.go:240`) says that "Built-in seed cases are deletable too"
and that "a deleted built-in stays gone across restarts" until the set of
built-ins changes; the one on `seedCases` (`store/cases.go:126`) says the same,
and `TestSeedCasesOnce` (`store/cases_seed_test.go:55`) checks it with a delete
through the store. But `handleDeleteCase`, the only caller of `DeleteCase`,
answers 403 to such a request (`server/cases_api.go:256`), and a comment beside
it says "not user-deletable". The model follows the code: `DeleteRead` goes on
for the user's own cases only, so `SeedsInSync` says that no built-in is ever
missing, which the comments and the test do not promise. Were built-ins
deletable, the property would have to leave out those deleted since the digest
was written; `OpenBegin`, which compares digests only, would leave them
deleted.

The model shows more that no run is kept for. Stated in the modules, and refuted
when TLC is asked:

* `ClosedStaysClosed` (`Gateway`): a close inside `Register`, between map and
  row, and the session is back after a restart, against
  `TestReattachAfterRestart`;
* `RestoreStaysPossible` (`CodexDesktop`): a restore that dies between the
  removal of the backup and that of the state file can never be completed;
* `DeletedIsErased` (`TraceStore`): a crash after the commit of a delete leaves
  raw files that no request can remove;
* `StartInstallsOwnSeeds` (`Library`): a newer version dies while it seeds, the
  older one finds its own digest and serves the newer one's cases;
* `VerdictsFollowTime` (`Compaction`): the comment of `compactHookBetween`
  (`server/compaction.go:118`) says that "RFC3339Nano timestamps sort
  lexicographically", but `...:05Z`, or `...:05.1Z`, sorts after `...:05.12Z`: two
  completions, or a completion and a hook, may change places;
* `ResultIsOfShownEvent` (`EventPanel`): a replay's result is compared with the
  original of another event, when the next one is in the cache;
* `FlowIsExact` (`TurnFlow`): the comment on the flow graph
  (`viewmodel/detail.ts:66`) says that "the association uses the strict causal
  ordering of the lifecycle, so it's exact, not a time-based guess". With two
  agents a tool hook is shown under the request of the other; and one agent that
  does one thing at a time is enough: a prompt at `...:05Z` and its completion at
  `...:05.1Z`, whose text sorts first, so that the graph shows the prompt without
  its request (`MCViewer` with `Agent = {m1}`, four states). Hence the premise of
  `OnlyOverlapOrCutMisleads`;
* `ProxyCarriesNoSecret` (`CurlSheet`): the session ends while a revealed direct curl
  is shown, the user changes to proxy mode, nothing is asked anew without a
  session, and the revealed text is still there to be copied;
* `GeneratedIsForThisConfig` (`LaunchPanel`): a generated command arrives after
  the configuration changed.

And in passing: two overlapping installs lose the
original as a crash does; an install that dies before its state file leaves
routing the viewer does not show; of two overlapping requests the one that ends
last, not the latest one, leaves its headers; a manual command in key mode needs a key from its
first moment (`NeedsKey` is commented as a state after a restart); the viewer's
proxy curl replaces a captured credential by none and reaches the upstream of a
subscription session without auth; a case run is recorded by the proxy, though
its handler says it is not persisted; a run that was confirmed after its
session vanished from the list is sent without one; one failed poll of a
session's page takes its drafts and results; a default selection moves with the
next completion, under an open draft.

Fairness. `gateway` assumes, for `HandlersFinish`, strong fairness of each goroutine's next step,
and nothing else: Go schedules every runnable goroutine, `sync.RWMutex` does
not starve a waiter (the lock comes and goes, hence strong), and the
ten-minute timeout of the HTTP client ends every exchange. No request, refresh
or restart is ever owed. The safety runs need no fairness. Nothing in the viewer
is owed either: a user may stop clicking and an answer may never come.

## 4. What is proved

All theorems hold for every value of the constants that satisfies the modules'
assumptions, hence for any number of sessions, events, goroutines, requests
under way, messages and agents. The assumptions are of three kinds: sentinel
values are fresh (`NoSidFresh`, `CasePanelAssumption`, the larger part of
`ViewerAssumption`); bounds and counters are numbers (`RefreshBound`,
`LaunchAssumption`, `TimestampsAssumption`); data has its type (`SessionOfType`,
`SeedsOfType`, `DefaultsOfType`, `ShapeAssumption`, and of `Thread`, `Captured`
and `Mixes` in `ViewerAssumption`). Only `DiffAssumption` says something of the data: that equal
keys have equal roles, since a key begins with the role.

**Gateway.** `TypeCorrect`; `SavedSurvive`, `CleanCloseIsFinal`,
`NeedsKeyIsLoss` and `PlaceholderIsLoss` from one inductive invariant
(`Invariance`). The invariant has to say what the four properties do not: that a
session whose id was not drawn is nowhere in the registry; that only the
goroutine between the two halves of `Remove` holds the lock, its session being
out of the maps but not yet out of the rows; that a handler's session was drawn;
that no handler works on a cleanly closed session, so none can bring its
credential back; and that a launched session is in one of three situations (key
in memory, key lost or session closed, or still inside its own launch).

**Codex Desktop.** `TypeCorrect`; `NeverSaved`: agenttape's block never reaches
the backup or a handler's copy of the original, for any number of overlapping
requests, as the marker check and the copy come from the same read;
`LossIsBlind` and `RestoresExactly`, for any number of requests too, and without
an assumption that they come one at a time: a history variable, `crossed`, says
whether a request has started while another was at work since the user last
edited the file, and the invariant (`LossInv`) says that until then at most one
is at work (`Alone`), which it follows through an install and a restore step by
step: each step says which of config and backup holds the original. A restore
that is about to remove the state file has put that original back, or found that
there was none. Once two have crossed, nothing is promised but `NeverSaved`; that
the original can then be lost is in section 3.

**Trace store.** `TypeCorrect`; `RawBytesResolve`, `WholeEvents` and
`StoreIsArchive`. The invariant's heart is `Holder`: a goroutine between its
files and its commit, or between its commit and its files, holds the lock.
`Writers` adds that an event being written is in no table, belongs to one
goroutine and has the files its pointers will name; `Removers` that a session
whose files are being removed has no row left. The refinement maps `recorded` to
`events` and `names` to `label`; the commit of a write is `Record`, that of a
delete is `Delete`, an effective rename is `Rename` (a session has a row exactly
if it has events, by `NothingDangles`), and every other step, crashes included,
stutters.

Readers (`QuerySpec`): `ReadersAreRight` from `WholeAnswers` and `FilesOpen`. A
step of the store changes what an event has only by deleting the whole event
(`KnowsOf`), so what a reader found when it started is there at each of its
statements or the event is gone for good, its id being used once; `HasRead` says
for each place between two statements what has been read so far. That the files
come before the rows in a write, and after them in a delete, is what lets a
reader that was told of a file open it.

**Library.** `TypeCorrect`; `BuiltinsInSync`, `DeleteIsFinal` and
`ChoicesAreKept`, each from an invariant of its own on top of `Sound`: a
built-in row has the form of one version, with the user's body exactly if it was
edited since it was installed, a handler that overwrites a built-in case holds
such a row, and only the user's cases are removed. `BuiltinsInSync` adds
`Seeding` (what a start has taken off its list is in the table, in its version)
and `Synced` (the same for the digest's version, if no start was cut short); the
end of a seeding turns the one into the other. A row that an overwrite brought
back across a start is still that of some version with the user's body, and the
invariant follows it as such. `DeleteIsFinal` adds that the ids
in rows and handlers were drawn and that a case deleted alone is in nobody's
hands.

**Compaction.** `TextsSortUnlessCut` (`TimestampsProofs`): two texts sort as their instants do, but for
the pairs of which the earlier fraction, as written, is the beginning of the
later one, and those sort the other way round. So the departure is known
exactly, not only bounded. The proof finds the first place where two fractions
differ, as the least number of a set, and from there both orders are total
(`TextIsOrder`). `OnlyCutsMisgrade` follows, as a verdict depends on nothing but
the order of the recorded stamps (`SameOrderSameVerdicts`). `HooksConfirmOne`:
the pair that a hook falls into is the last completion before it and the first
one not before it, which exist as a finite set of stamps has extremes
(`Nearest`, by the least cardinality of those that would have none), and only
once (`OnePair`). `AnswersAreFinal` needs `AnswersSound`: a query has read
completions that are recorded, and what was recorded since is stamped after the
pairs that were complete; and of every verdict that was answered, what is under
way or will come is stamped after its pair (`Past`), so that it can come between
the two, in the order of the texts, only if a fraction is cut.

**Case library page.** `PanelIsTyped`; `ListIsCurrent`, `LateAnswersStayHome`,
`RunsAreHonest` and `MadeCasesAreShown`. `ListIsCurrent` rests on `Current`: the
list the page shows, or the answer that is under way to it, is the table as it
was before the writes that nobody has heard of yet (`Unheard`), and `Waiters`: a
request that waits for a refetch is noted in the entry. `LateAnswersStayHome`
rests on `Home`: a request whose callbacks will still run belongs to the dialog
that is open, or was spared because the dialog's case is leaving the list with
the very fetch its answer waited for; the property therefore speaks of the
selected case, and `viewer` has two cases so that this occurs. The last two rest
on one ledger of what is under way (`Ledger`): a run carries the body that its
case shows, or that the draft shows (`CallsAreHonest`); each row of the list is
that of the table, but for the cases whose writes are unheard of
(`RowsAreCurrent`); and a case that was made is in the list once its request is
over (`MadeIsListed`).

**Curl sheet.** `CopiesAreCurrent` and `RevealIsDemanded`, from: while the sheet
is open and has a session, the latest request is for exactly what it shows;
`reveal` is set only in direct mode and only by a click since the mode last
became direct.

**Launch page.** `LaunchIsTyped`: the history of directories keeps to its limit
and never names one twice. `StaleCommandsAreLate` and `LaunchesArePreviewed`,
from: a preview at hand is that of the present form; a registration under way is
for the present configuration or `moved` is set.

**Diff** (`ViewerProofs`). `DiffIsTyped`, `WalkIsOptimal` and `DiffIsRight`, for requests of any
length. Five invariants carry them. `DiffSound`: every cell that has been
reached satisfies the recurrence, the cells beyond are borders, the walk stays
within the table, and what it has emitted balances its place. `TableIsBest`: a
reached cell is at least as large as every common subsequence of what is left of
the two requests from it on, which each step of the fill extends by one cell
(`BestBoundsSame`: where the keys agree, a common subsequence has at most one
position in the cell's row or column; `BestBoundsOther`: where they do not, it
leaves one of them out). `KeepsOK`: what the walk has kept is such a
subsequence, so at the end the bound is reached. `Leads`: each operation stands
at its place on both sides. `SummaryOK`: whether a system prompt was removed or
added so far, which the same one on both sides never is; and where messages give
way to a new one, the walk has kept all before them and is within, or past, a
run of three removals, since the table forces it to remove there (`MustRemove`).
The proof did without a hypothesis that the property once had, that the messages
have different keys, and it is gone from the property.

**Codex Desktop panel, sidebar, hook capture** (`PageProofs`, like the case
library, the curl sheet and the launch page). The three show a
status or a list that is polled, cut and refetched, and each has an invariant
like that of the case library: `DesktopSound`, `ListSound`, `HookSound`.
`RequestsOverlapAfterLeaving` needs `DesktopOne`: while the user stays, the
requests under way are the panel's own and differ in kind, and one that the
server works on is for the state that the config is not in. `NoGhostStaysOpen`
and `DeletersAreSentAway` need `Deletes`: a delete that was carried out is of a
session that is gone and, if that is the one that is open, leads away from it
when it is over; and who stays on a session that is gone waits for such a
delete. `SwitchesFlip` needs `Switches`: at most one switch is under way, and
one that knew the event's state still has something to turn round, unless the
event is gone.

**Session page, case runner, flow graph** (`ViewerProofs`).
`OnlyCrossingMixesViews` and `ReplaysWhatIsShown` rest on `EventSound`: until
the view crosses to another event under its own state, every answer that will
still come to it is of the event shown. `PickIsUsed` and the runner's part of
`PagesShowTheServer` rest on `RunnerSound`: who is listed was started; a pick is
in the list or has ended; a session whose close came back has ended, and no list
that is still to come has it. `ExactUnlessOverlapOrCut` and `ReferencesConverge` hold
for logs of any length and any resolution of the clock: times are unique and a
cause comes before what it causes (`FlowSound`). If nothing was asked for between
a hook and its completion, and no cut fraction makes the two sort the wrong way
round, nor the earlier one with a prompt or completion before it, nor the later
one with one after it, then by `TextsSortUnlessCut` the texts of the prompts and
completions fall on the same side of the two as their instants do: hook and completion are in one turn, and
the view's last completion before the hook, or first one after the prompt, is
that completion.

**Request tab.** `RoundsFollow`, for threads of any length with any kinds of blocks
and any filter. What the page shows is computed by a filter, a fold and a
flattening, which the prover cannot unfold by induction over the list. Each is
first shown to be a function on prefixes that exists and goes on message by
message, and what holds of all prefixes is then proved by the least-number
principle: there is no shortest prefix that breaks it. Of the rounds this is
`GoodRounds` (a user's message opens a round and is nowhere else in one; the
rounds are numbered in order; put together they are the messages) and, for a
filter that hides no question, `MergesNone` (what is left has fewer rounds only
if it begins with a question, because the answers before it are hidden).

**The viewer as a whole.** `PanelsKeepToTheirSpecs`: each panel with variables
of its own behaves as its specification says within `Viewer`, so that the
theorems above hold there too. `ViewerIsTyped` and `PagesShowTheServer` join the
pages' invariants.

Only model-checked: liveness (`HandlersFinish`), which the prover does not
handle, and everything the violation runs show. Every other property of a run
is the statement of a theorem.

## 5. Not modelled, and the plan

Rendering, command lines, wording, the JSONL sink and the field-by-field
translation of provider JSON are not modelled. Of the viewer: the search page,
the provider filter of the gallery, the fields of the create form other than
the body, raw views and content blocks, the cards of the flow graph, the
compaction panel, the copied manual commands of the launch page and its hints;
they are text, or state that no other actor meets. The composition of a page
with the server's own interleavings is left out where the server's module shows
that a request takes effect at one step (`Library`, `TraceStore`); the panels
then take that step as `Serve`. `DesktopPanel` takes effect with the state file,
the last step of an install, and leaves the files to `CodexDesktop`. A
diff of a request that could not be fetched shows the other side as all new; no
property speaks of it.

The next modules, in order:

1. `SseStream`, `Normalize`: accumulating a response from stream events,
   checked against the whole document, for any split and any cut.
2. `CasePanel` with `Library` in place of its table, so that an upgrade under a
   running viewer is part of it.

Theorems to add: that the tables of the case library page and of the hook card
change only by steps that `Library` allows, which would carry `BuiltinsInSync`
and `ChoicesAreKept` over to the viewer.
