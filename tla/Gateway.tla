------------------------------- MODULE Gateway -------------------------------
(***************************************************************************)
(* The HTTP handlers that use the session registry: registration (CLI,     *)
(* manual command, API-key launch), the capturing proxy, key re-supply,    *)
(* closing a session, event replay and case runs, interleaved step by step *)
(* and interrupted by crashes and restarts of the server.  One step is one *)
(* critical section of the registry, one SQLite statement or one exchange  *)
(* with the upstream.  A request that is refused without changing any      *)
(* state (404, 409, 502 for an unknown token) is not a step.               *)
(***************************************************************************)
EXTENDS SessionRegistry

CONSTANT NoSid
ASSUME NoSidFresh == NoSid \notin Sid

VARIABLES
    origin,   \* session -> how it was registered ("none": id not drawn yet)
    agents,   \* sessions whose agent may be running; agents outlive the server
    refresh,  \* session -> version of the credential its agent holds
    traced,   \* sessions with a recorded completion in the store
    job,      \* goroutine -> the handler it runs and its local variables
    \* history, read by properties only
    saved,    \* sessions whose SaveSession returned without error
    closed,   \* sessions the user has closed
    clean,    \* sessions whose close met no other handler and no disk error
    keyLost   \* sessions older than a restart, their key not re-supplied since

vars == <<registryVars, origin, agents, refresh, traced, job,
          saved, closed, clean, keyLost>>
history == <<saved, closed, clean, keyLost>>

(* "register" is every registration in subscription mode: /_register, the  *)
(* manual command, the Codex Desktop install.  In "manualKey" the user puts *)
(* a key into their own shell; in "launch" the server keeps it.            *)
Origins == {"register", "manualKey", "launch"}

(* Where a handler is: the step it will take next. *)
Steps == {"save", "supply", "terminal", "eraseRow", "reinject", "swap",
          "upstream", "remember", "emit", "replay", "caseAuth", "caseSend"}

(* The session it works for, the credential that came in with its request  *)
(* and the one it sends upstream.                                          *)
JobAt(step, s) ==
    [at |-> step, sess |-> s, inb |-> Absent, out |-> Absent]
Idle == JobAt("idle", NoSid)

Busy == [at : Steps, sess : Sid, inb : Cred, out : Cred]
Jobs == Busy \union {Idle}

TypeOK ==
    /\ RegistryTypeOK
    /\ origin \in [Sid -> Origins \union {"none"}]
    /\ agents \subseteq Sid
    /\ refresh \in [Sid -> 0..MaxRefresh]
    /\ traced \subseteq Sid
    /\ job \in [Req -> Jobs]
    /\ saved \subseteq Sid /\ closed \subseteq Sid
    /\ clean \subseteq Sid /\ keyLost \subseteq Sid

Init ==
    /\ RegistryInit
    /\ origin = [s \in Sid |-> "none"]
    /\ agents = {}
    /\ refresh = [s \in Sid |-> 0]
    /\ traced = {}
    /\ job = [r \in Req |-> Idle]
    /\ saved = {} /\ closed = {} /\ clean = {} /\ keyLost = {}

At(r, step) == job[r].at = step
Become(r, j) == job' = [job EXCEPT ![r] = j]
MoveTo(r, step) == Become(r, [job[r] EXCEPT !.at = step])
Finish(r) == Become(r, Idle)

KeyMode(s) == origin[s] \in {"manualKey", "launch"}

(* Only the launch handler hands the agent a placeholder. *)
AgentCred(s) == IF origin[s] = "launch" THEN Placeholder ELSE Own(refresh[s])

(* In key mode without a key in memory: what the viewer shows as needs_key. *)
NeedsKey(s) == Known(s) /\ KeyMode(s) /\ inject[s] = Absent

------------------------------------------------------------------------------
(* Registration: /_register, the manual command, and the API-key launch.   *)

RegisterInsert(r, s, o) ==
    /\ At(r, "idle") /\ Unlocked
    /\ origin[s] = "none"
    /\ origin' = [origin EXCEPT ![s] = o]
    /\ Insert(s)
    /\ Become(r, JobAt("save", s))
    /\ UNCHANGED <<headers, inject, rows, mu, agents, refresh, traced, history>>

(* The answer carries the token, so from here on the agent may run; the    *)
(* launch handler still has to put the key in memory and open a terminal.  *)
RegisterSave(r) ==
    LET s == job[r].sess IN
    /\ At(r, "save")
    /\ SaveRow(s)
    /\ saved' = IF s \in rows' THEN saved \union {s} ELSE saved
    /\ IF origin[s] = "launch"
       THEN MoveTo(r, "supply") /\ UNCHANGED agents
       ELSE Finish(r) /\ agents' = agents \union {s}
    /\ UNCHANGED <<live, headers, inject, mu, origin, refresh, traced,
                   closed, clean, keyLost>>

(* Mutant: the launch goes on without RememberInject. *)
LaunchWithoutSupply(r) ==
    /\ At(r, "supply") /\ Unlocked
    /\ MoveTo(r, "terminal")
    /\ UNCHANGED <<registryVars, origin, agents, refresh, traced, history>>

LaunchSupply(r) ==
    /\ At(r, "supply") /\ Unlocked
    /\ RememberInject(job[r].sess)
    /\ MoveTo(r, "terminal")
    /\ UNCHANGED <<live, headers, rows, mu, origin, agents, refresh, traced, history>>

(* The script file, the terminal lookup or `open' may fail: the handler    *)
(* answers an error and leaves the session and its key as they are.        *)
LaunchTerminal(r) ==
    /\ At(r, "terminal")
    /\ \/ agents' = agents \union {job[r].sess}
       \/ UNCHANGED agents
    /\ Finish(r)
    /\ UNCHANGED <<registryVars, origin, refresh, traced, history>>

------------------------------------------------------------------------------
(* DELETE /api/active-sessions/{id} and POST /api/active-sessions/{id}/key *)

RemoveDrop(r, s) ==
    /\ At(r, "idle") /\ Unlocked
    /\ Known(s)
    /\ Drop(s, r)
    /\ closed' = closed \union {s}
    /\ Become(r, JobAt("eraseRow", s))
    /\ UNCHANGED <<rows, origin, agents, refresh, traced, saved, clean, keyLost>>

RemoveRow(r) ==
    LET s == job[r].sess IN
    /\ At(r, "eraseRow")
    /\ EraseRow(s)
    /\ clean' = IF s \notin rows' /\ \A q \in Req \ {r} : job[q].sess # s
                THEN clean \union {s} ELSE clean
    /\ Finish(r)
    /\ UNCHANGED <<live, headers, inject, origin, agents, refresh, traced,
                   saved, closed, keyLost>>

(* The mode is checked before the request body is read; the key is stored  *)
(* after, without another look at the registry.                            *)
ReinjectGet(r, s) ==
    /\ At(r, "idle") /\ Unlocked
    /\ Known(s) /\ KeyMode(s)
    /\ Become(r, JobAt("reinject", s))
    /\ UNCHANGED <<registryVars, origin, agents, refresh, traced, history>>

ReinjectStore(r) ==
    /\ At(r, "reinject")
    /\ \/ /\ Unlocked
          /\ RememberInject(job[r].sess)
          /\ keyLost' = keyLost \ {job[r].sess}
       \/ UNCHANGED <<inject, keyLost>>           \* 400: no key in the body
    /\ Finish(r)
    /\ UNCHANGED <<live, headers, rows, mu, origin, agents, refresh, traced,
                   saved, closed, clean>>

------------------------------------------------------------------------------
(* The proxy, /s/<token>/...  A request comes from the session's agent or  *)
(* from the curl the viewer shows, which carries no credential.            *)

ProxyLookup(r, s) ==
    /\ At(r, "idle") /\ Unlocked
    /\ Known(s)
    /\ \/ s \in agents /\ Become(r, [JobAt("swap", s) EXCEPT !.inb = AgentCred(s)])
       \/ Become(r, [JobAt("swap", s) EXCEPT !.inb = Bare])
    /\ UNCHANGED <<registryVars, origin, agents, refresh, traced, history>>

(* Mutant: the injected headers are added, the agent's own not deleted. *)
ProxySwapKeepsOwn(r) ==
    LET s == job[r].sess IN
    /\ At(r, "swap") /\ Unlocked
    /\ Become(r, [job[r] EXCEPT !.at = "upstream",
                    !.out = IF job[r].inb # Bare THEN job[r].inb ELSE inject[s]])
    /\ UNCHANGED <<registryVars, origin, agents, refresh, traced, history>>

ProxySwap(r) ==
    LET s == job[r].sess IN
    /\ At(r, "swap") /\ Unlocked
    /\ Become(r, [job[r] EXCEPT !.at = "upstream",
                    !.out = IF inject[s] # Absent THEN inject[s] ELSE job[r].inb])
    /\ UNCHANGED <<registryVars, origin, agents, refresh, traced, history>>

ProxyUpstream(r) ==
    /\ At(r, "upstream")
    /\ MoveTo(r, "remember") \/ Finish(r)         \* 502: no answer
    /\ UNCHANGED <<registryVars, origin, agents, refresh, traced, history>>

(* After the whole response was streamed; what is kept are the headers the *)
(* request came in with, and nothing asks whether the session still lives. *)
ProxyRemember(r) ==
    /\ At(r, "remember") /\ Unlocked
    /\ RememberHeaders(job[r].sess, job[r].inb)
    /\ MoveTo(r, "emit")
    /\ UNCHANGED <<live, inject, rows, mu, origin, agents, refresh, traced, history>>

ProxyEmit(r) ==
    /\ At(r, "emit")
    /\ \/ traced' = traced \union {job[r].sess}
       \/ UNCHANGED traced                        \* not a completion, or not written
    /\ Finish(r)
    /\ UNCHANGED <<registryVars, origin, agents, refresh, history>>

------------------------------------------------------------------------------
(* Replay of a recorded completion, straight to the upstream: it asks for  *)
(* credentials by session id and never whether the session is live.        *)

ReplayAuth(r, s) ==
    /\ At(r, "idle") /\ Unlocked
    /\ s \in traced
    /\ AuthFor(s) # Absent
    /\ Become(r, [JobAt("replay", s) EXCEPT !.out = AuthFor(s)])
    /\ UNCHANGED <<registryVars, origin, agents, refresh, traced, history>>

ReplaySend(r) ==
    /\ At(r, "replay")
    /\ Finish(r)
    /\ UNCHANGED <<registryVars, origin, agents, refresh, traced, history>>

(* A case run takes the session and its credential in two critical         *)
(* sections, then calls this server's own proxy with them and waits.       *)
CaseGet(r, s) ==
    /\ At(r, "idle") /\ Unlocked
    /\ Known(s)
    /\ Become(r, JobAt("caseAuth", s))
    /\ UNCHANGED <<registryVars, origin, agents, refresh, traced, history>>

CaseAuth(r) ==
    LET auth == AuthFor(job[r].sess) IN
    /\ At(r, "caseAuth") /\ Unlocked
    /\ IF auth # Absent
       THEN Become(r, [job[r] EXCEPT !.at = "caseSend", !.inb = auth])
       ELSE Finish(r)                             \* 409
    /\ UNCHANGED <<registryVars, origin, agents, refresh, traced, history>>

CaseSend(r) ==
    /\ At(r, "caseSend") /\ Unlocked
    /\ IF Known(job[r].sess) THEN MoveTo(r, "swap") ELSE Finish(r)
    /\ UNCHANGED <<registryVars, origin, agents, refresh, traced, history>>

------------------------------------------------------------------------------
(* The environment: agents renew their login, the process dies and is      *)
(* started again.  Nothing is served between the two.                      *)

AgentRefresh(s) ==
    /\ s \in agents
    /\ refresh[s] < MaxRefresh
    /\ refresh' = [refresh EXCEPT ![s] = @ + 1]
    /\ UNCHANGED <<registryVars, origin, agents, traced, job, history>>

Restart ==
    /\ Rebind
    /\ job' = [r \in Req |-> Idle]
    /\ keyLost' = keyLost \union {s \in Sid : origin[s] # "none"}
    /\ UNCHANGED <<origin, agents, refresh, traced, saved, closed, clean>>

Handler(r) ==
    \/ RegisterSave(r) \/ LaunchSupply(r) \/ LaunchTerminal(r)
    \/ RemoveRow(r) \/ ReinjectStore(r)
    \/ ProxySwap(r) \/ ProxyUpstream(r) \/ ProxyRemember(r) \/ ProxyEmit(r)
    \/ ReplaySend(r) \/ CaseAuth(r) \/ CaseSend(r)

Arrive(r, s) ==
    \/ \E o \in Origins : RegisterInsert(r, s, o)
    \/ RemoveDrop(r, s) \/ ReinjectGet(r, s) \/ ProxyLookup(r, s)
    \/ ReplayAuth(r, s) \/ CaseGet(r, s)

Next ==
    \/ \E r \in Req : Handler(r)
    \/ \E r \in Req, s \in Sid : Arrive(r, s)
    \/ \E s \in Sid : AgentRefresh(s)
    \/ Restart

Spec == Init /\ [][Next]_vars

(* Every step of a goroutine that is under way is eventually taken: Go     *)
(* schedules it, Go's RWMutex does not starve a waiter (hence SF: the lock *)
(* comes and goes), and the 10-minute client timeout ends every exchange.  *)
(* Nobody owes the server a new request, a refresh or a restart.           *)
FairSpec == Spec /\ \A r \in Req : SF_vars(Handler(r))
------------------------------------------------------------------------------
(* Properties. *)

(* A live session whose row was once saved still has it, at every instant  *)
(* of every interleaving: whenever the process dies, the next one can      *)
(* re-attach the session's agent (BindPersister).                          *)
SavedSessionsSurvive == live \intersect saved \subseteq rows

(* Once a close has finished with no other handler of that session under   *)
(* way and no disk error, nothing of the session is left and nothing ever  *)
(* brings it back: no route, no row a restart could load, no credential a  *)
(* replay could use.                                                       *)
CleanlyClosedIsGone ==
    \A s \in clean : ~Known(s) /\ s \notin rows /\ AuthFor(s) = Absent

(* The viewer asks for the key of a launched session only when a restart   *)
(* lost it, or in the moment between its registration and the storing of   *)
(* the key by the same launch handler.                                     *)
LaunchedNeedsKeyOnlyAfterLoss ==
    \A s \in Sid : origin[s] = "launch" /\ NeedsKey(s) =>
        \/ s \in keyLost
        \/ \E r \in Req : job[r].sess = s /\ job[r].at \in {"save", "supply"}

(* The placeholder a launched agent holds never goes upstream in place of  *)
(* the real key, by proxy, replay or case run, unless a restart lost the   *)
(* key and it was not re-supplied, or the user closed the session while    *)
(* the request was under way.                                              *)
PlaceholderLeavesOnlyAfterLoss ==
    [][\A r \in Req : job'[r].out = Placeholder /\ job[r].out # Placeholder
            => job'[r].sess \in keyLost \union closed]_vars

(* No handler waits for ever on the registry lock or on another handler.   *)
HandlersFinish == \A r \in Req : ~At(r, "idle") ~> At(r, "idle")

------------------------------------------------------------------------------
(* What the code's comments and tests say, and the code does not do.       *)

(* Remove's comment: after it, "the agent's next proxied request fails and *)
(* replay can no longer use" the session: none of its recorded completions *)
(* finds a credential.                                                     *)
ClosedIsUnusable ==
    \A s \in closed \ live : s \in traced => AuthFor(s) = Absent

(* TestReattachAfterRestart: "removed session should not come back on the  *)
(* next restart", once Remove has returned.                                *)
Closing(s) == \E r \in Req : At(r, "eraseRow") /\ job[r].sess = s

ClosedStaysClosed ==
    [][\A s \in closed : ~Known(s) /\ ~Closing(s) => ~Known(s)']_vars
==============================================================================
