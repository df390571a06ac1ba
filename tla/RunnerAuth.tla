----------------------------- MODULE RunnerAuth -----------------------------
(***************************************************************************)
(* Whose credentials a case run uses: the runner's choice among the live   *)
(* sessions.  The list is polled, the server returns it in a new random    *)
(* order each time (a Go map), sessions come and go in terminals, and the  *)
(* user confirms runs and closes, and re-enters keys, while it moves.      *)
(***************************************************************************)
EXTENDS Naturals, Query, SequencesExt

CONSTANTS
    Session,     \* ids of sessions, each started once
    AuthOf,      \* session -> its (upstream, credential kind)
    Keyed,       \* those started with an API key, which a restart loses
    Foreign,     \* the sessions whose client does not match the case's provider
    NoSession,
    PollsFail

VARIABLES
    live,        \* the server's registry
    keyless,     \* those that lost their key
    started,     \* sessions that were ever live
    sessions,    \* query ["active-sessions"]
    sessionId,   \* state of CaseRunner: the user's pick
    confirming,  \* the confirmation of a run is open
    running,     \* a run is under way
    closing,     \* session -> how far its close has come
    key,         \* state of ReenterKeyBanner: a key was typed
    keying,      \* the session a key is being sent for, and how far it is
    pick         \* history: the user's last pick that they did not close

authVars == <<live, keyless, started, sessions, sessionId, confirming,
              running, closing, key, keying, pick>>
server == <<live, keyless, started>>
requests == <<running, closing, keying>>

NotKeying == [id |-> NoSession, phase |-> "idle"]
Listed == [id : Session, needsKey : BOOLEAN]
ListedNow == {[id |-> s, needsKey |-> s \in keyless] : s \in live}

RunnerAuthTypeOK ==
    /\ keyless \subseteq live /\ live \subseteq started /\ started \subseteq Session
    /\ sessions.flight \in {"idle", "asked", "answered"}
    /\ sessionId \in Session \union {NoSession}
    /\ confirming \in BOOLEAN
    /\ running \in BOOLEAN
    /\ closing \in [Session -> {"no", "sent", "answered", "refetching", "done"}]
    /\ key \in BOOLEAN
    /\ keying \in [id : Session, phase : {"sent", "answered"}] \union {NotKeying}
    /\ pick \in Session \union {NoSession}

AuthInit ==
    /\ live \in SUBSET Session /\ started = live
    /\ keyless \in SUBSET (live \intersect Keyed)
    /\ sessions = Fetched(NewEntry)
    /\ sessionId = NoSession /\ pick = NoSession
    /\ confirming = FALSE
    /\ running = FALSE /\ closing = [s \in Session |-> "no"]
    /\ key = FALSE /\ keying = NotKeying
------------------------------------------------------------------------------
(* The lists that an answer may be: a Go map has any order. *)
Orders(S) == {list \in [1..Cardinality(S) -> S] : ToSet(list) = S}

(* What the runner makes of the list.  The dropdown of AuthSelect is taken *)
(* as open whenever the user needs it.                                     *)

Active(q) == IF q.data = NoData THEN <<>> ELSE q.data
Id(q, i) == Active(q)[i].id

(* Positions in the list: those that fit the case, and authTargets, the    *)
(* first of them for each auth.                                            *)
Compatible(q) == {i \in DOMAIN Active(q) : Id(q, i) \notin Foreign}
Targets(q) ==
    {i \in Compatible(q) :
       \A j \in Compatible(q) : j < i => AuthOf[Id(q, j)] # AuthOf[Id(q, i)]}

Holds(q, at, id) == \E i \in at : Id(q, i) = id
Fits(q, id) == Holds(q, Compatible(q), id)
Offers(q, id) == Holds(q, Targets(q), id)

Effective(q) ==
    IF Fits(q, sessionId) THEN sessionId
    ELSE IF Targets(q) # {} THEN Id(q, Min(Targets(q))) ELSE NoSession

(* The row AuthSelect shows as selected. *)
ShownTarget(q) ==
    LET at == {i \in Targets(q) : Id(q, i) = Effective(q)}
    IN Id(q, IF at = {} THEN Min(Targets(q)) ELSE CHOOSE i \in at : TRUE)

Banner(q) ==
    \E i \in DOMAIN Active(q) : Id(q, i) = Effective(q) /\ Active(q)[i].needsKey

(* A new list: what is not rendered any more loses its state. *)
Show(q) ==
    /\ sessions' = q
    /\ key' = (key /\ Banner(q))
------------------------------------------------------------------------------
(* The list's query: asked at the mount, every 5 s, and after a close or a *)
(* new key.  The server draws the order; it is fixed where it is seen.     *)

Poll ==
    /\ sessions.flight = "idle"
    /\ sessions' = Fetched(sessions)
    /\ UNCHANGED <<server, sessionId, confirming, requests, key, pick>>

PollServed ==
    /\ sessions.flight = "asked"
    /\ sessions' = Served(sessions, ListedNow)
    /\ UNCHANGED <<server, sessionId, confirming, requests, key, pick>>

PollArrives ==
    /\ sessions.flight = "answered"
    /\ \E list \in Orders(sessions.answer) :
         Show([Arrived(sessions) EXCEPT !.data = list])
    /\ closing' = [s \in Session |-> IF closing[s] = "refetching" THEN "done"
                                     ELSE closing[s]]
    /\ UNCHANGED <<server, sessionId, confirming, running, keying, pick>>

PollFails ==
    /\ PollsFail /\ sessions.flight # "idle"
    /\ sessions' = Lost(sessions)
    /\ closing' = [s \in Session |-> IF closing[s] = "refetching" THEN "no"
                                     ELSE closing[s]]
    /\ UNCHANGED <<server, sessionId, confirming, running, keying, key, pick>>
------------------------------------------------------------------------------
(* The user.  An open confirmation covers everything else.                 *)

(* A single auth is a label, without a dropdown. *)
Pick(s) ==
    /\ ~confirming /\ Offers(sessions, s) /\ Cardinality(Targets(sessions)) > 1
    /\ sessionId' = s /\ pick' = s
    /\ key' = (key /\ \E i \in DOMAIN Active(sessions) :
                        Id(sessions, i) = s /\ Active(sessions)[i].needsKey)
    /\ UNCHANGED <<server, sessions, confirming, requests>>

AskRun ==
    /\ ~confirming /\ ~running /\ Effective(sessions) # NoSession
    /\ confirming' = TRUE
    /\ UNCHANGED <<server, sessions, sessionId, requests, key, pick>>

Cancel ==
    /\ confirming /\ confirming' = FALSE
    /\ UNCHANGED <<server, sessions, sessionId, requests, key, pick>>

(* doRun does not look again: the session may have changed or be gone.     *)
(* The request names Effective(sessions).                                  *)
DoRun ==
    /\ confirming /\ confirming' = FALSE
    /\ running' = TRUE
    /\ UNCHANGED <<server, sessions, sessionId, closing, keying, key, pick>>

(* Mutant: any close forgets the pick. *)
DoCloseForgetsPick(s) ==
    /\ ~confirming /\ Offers(sessions, s)
    /\ closing' = [closing EXCEPT ![s] = "sent"]
    /\ sessionId' = NoSession
    /\ pick' = IF s = pick THEN NoSession ELSE pick
    /\ UNCHANGED <<server, sessions, confirming, running, keying, key>>

(* Confirmed as well, but nothing is read between question and answer.     *)
DoClose(s) ==
    /\ ~confirming /\ Offers(sessions, s)
    /\ closing' = [closing EXCEPT ![s] = "sent"]
    /\ sessionId' = IF s = Effective(sessions) THEN NoSession ELSE sessionId
    /\ pick' = IF s = pick THEN NoSession ELSE pick
    /\ UNCHANGED <<server, sessions, confirming, running, keying, key>>

TypeKey ==
    /\ ~confirming /\ Banner(sessions) /\ key' = TRUE
    /\ UNCHANGED <<server, sessions, sessionId, confirming, requests, pick>>

SubmitKey ==
    /\ ~confirming /\ Banner(sessions) /\ key /\ keying = NotKeying
    /\ keying' = [id |-> Effective(sessions), phase |-> "sent"]
    /\ UNCHANGED <<server, sessions, sessionId, confirming, running, closing,
                   key, pick>>
------------------------------------------------------------------------------
(* Terminals, the server, the answers. *)

Start(s) ==
    /\ s \notin started
    /\ live' = live \union {s} /\ started' = started \union {s}
    /\ UNCHANGED <<keyless, sessions, sessionId, confirming, requests, key, pick>>

CloseServed(s) ==
    /\ closing[s] = "sent"
    /\ live' = live \ {s} /\ keyless' = keyless \ {s}
    /\ closing' = [closing EXCEPT ![s] = IF s \in live THEN "answered" ELSE "no"]
    /\ UNCHANGED <<started, sessions, sessionId, confirming, running, keying,
                   key, pick>>

(* Mutant: the invalidation joins a poll that is under way. *)
CloseJoinsPoll(s) ==
    /\ closing[s] = "answered"
    /\ sessions' = [Fetched(sessions) EXCEPT !.waiting = @ \union {s}]
    /\ closing' = [closing EXCEPT ![s] = "refetching"]
    /\ UNCHANGED <<server, sessionId, confirming, running, keying, key, pick>>

CloseAnswered(s) ==
    /\ closing[s] = "answered"
    /\ sessions' = Invalidated(sessions, s)
    /\ closing' = [closing EXCEPT ![s] = "refetching"]
    /\ UNCHANGED <<server, sessionId, confirming, running, keying, key, pick>>

KeyServed ==
    /\ keying.phase = "sent"
    /\ keyless' = keyless \ {keying.id}
    /\ keying' = IF keying.id \in live THEN [keying EXCEPT !.phase = "answered"]
                 ELSE NotKeying
    /\ UNCHANGED <<live, started, sessions, sessionId, confirming, running,
                   closing, key, pick>>

(* The field is cleared if the banner is still there. *)
KeyAnswered ==
    /\ keying.phase = "answered"
    /\ keying' = NotKeying /\ key' = FALSE
    /\ sessions' = Invalidated(sessions, keying.id)
    /\ UNCHANGED <<server, sessionId, confirming, running, closing, pick>>

RunAnswered ==
    /\ running /\ running' = FALSE
    /\ UNCHANGED <<server, sessions, sessionId, confirming, closing, keying,
                   key, pick>>

AuthNext ==
    \/ Poll \/ PollServed \/ PollArrives \/ PollFails
    \/ AskRun \/ Cancel \/ DoRun \/ TypeKey \/ SubmitKey
    \/ KeyServed \/ KeyAnswered \/ RunAnswered
    \/ \E s \in Session : Pick(s) \/ DoClose(s) \/ Start(s)
                          \/ CloseServed(s) \/ CloseAnswered(s)

AuthSpec == AuthInit /\ [][AuthNext]_authVars
------------------------------------------------------------------------------
(* Runs and keys go to the session the user picked for as long as the list *)
(* has it, wherever the new order puts it and whoever else is closed.      *)
PickedSessionIsUsed ==
    DoRun \/ SubmitKey =>
      \/ Effective(sessions) = pick
      \/ ~Fits(sessions, pick)

(* Once a close has settled, the session is not offered again, although an *)
(* older list may have been on its way when it was closed.                 *)
ClosedSessionsLeaveTheList ==
    \A s \in Session : closing[s] = "done" => ~Holds(sessions, DOMAIN Active(sessions), s)

(* The comment on AuthSelect: it "picks the auth (a live session) a case   *)
(* runs against"; so the auth it shows is the one a run uses.              *)
ShownAuthIsUsed ==
    Targets(sessions) # {} =>
      AuthOf[ShownTarget(sessions)] = AuthOf[Effective(sessions)]
==============================================================================
