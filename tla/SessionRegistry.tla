--------------------------- MODULE SessionRegistry ---------------------------
(***************************************************************************)
(* The registry of live capture sessions (httpcap.Sessions) and the rows   *)
(* it keeps in SQLite so that a restarted server re-attaches the agents    *)
(* that are still running.  The module holds the registry's state and one  *)
(* operator per method; Gateway.tla calls them from the HTTP handlers.     *)
(*                                                                         *)
(* A session's id and token are two fresh random values that name the same *)
(* session, and byToken and byID are only ever written together under the  *)
(* lock, so one value of Sid stands for both and `live' for both maps.     *)
(***************************************************************************)
EXTENDS Naturals

CONSTANTS
    Sid,          \* session identities RandomID can hand out, each at most once
    Req,          \* handler goroutines that can be in flight at a time
    MaxRefresh,   \* bound: how often an agent may refresh its own credential
    DiskMayFail   \* whether SQLite statements may return an error

ASSUME RefreshBound == MaxRefresh \in Nat
ASSUME DiskMayFailBool == DiskMayFail \in BOOLEAN

VARIABLES
    live,     \* sessions in byToken and byID
    headers,  \* session -> request headers captured from its traffic
    inject,   \* session -> auth the proxy swaps in (API-key launch mode)
    rows,     \* sessions with a row in live_sessions
    mu        \* the goroutine that holds mu across a step, as a set

registryVars == <<live, headers, inject, rows, mu>>

(* The credential a set of headers carries.  `none' is Go's nil map; `bare' *)
(* is a request without any; `own' is the agent's own login or key, `ver'  *)
(* telling its successive values apart; `key' is the real API key.         *)
Cred == [kind : {"none", "bare", "placeholder", "own", "key"}, ver : 0..MaxRefresh]

Absent      == [kind |-> "none", ver |-> 0]
Bare        == [kind |-> "bare", ver |-> 0]
Placeholder == [kind |-> "placeholder", ver |-> 0]
RealKey     == [kind |-> "key", ver |-> 0]
Own(v)      == [kind |-> "own", ver |-> v]

RegistryTypeOK ==
    /\ live \subseteq Sid
    /\ headers \in [Sid -> Cred]
    /\ inject \in [Sid -> {Absent, RealKey}]
    /\ rows \subseteq Sid
    /\ mu \in {{}} \union {{r} : r \in Req}

RegistryInit ==
    /\ live = {}
    /\ headers = [s \in Sid |-> Absent]
    /\ inject = [s \in Sid |-> Absent]
    /\ rows = {}
    /\ mu = {}

Unlocked == mu = {}

------------------------------------------------------------------------------
(* Lookup by token and Get by id. *)
Known(s) == s \in live

(* The best auth for replaying a session's requests. *)
AuthFor(s) == IF inject[s] # Absent THEN inject[s] ELSE headers[s]

(* Register, first half: under the lock. *)
Insert(s) == live' = live \union {s}

(* Register, second half: after the unlock.  An error is only logged. *)
SaveRow(s) ==
    \/ rows' = rows \union {s}
    \/ DiskMayFail /\ UNCHANGED rows

(* Mutant: the launch stores the placeholder where the key belongs. *)
InjectPlaceholder(s) == inject' = [inject EXCEPT ![s] = Placeholder]

(* Neither method asks whether the session is still live. *)
RememberHeaders(s, h) == headers' = [headers EXCEPT ![s] = h]
RememberInject(s)     == inject' = [inject EXCEPT ![s] = RealKey]

(* Mutant: the route is not deleted from the maps. *)
DropKeepsRoute(s, r) ==
    /\ headers' = [headers EXCEPT ![s] = Absent]
    /\ inject' = [inject EXCEPT ![s] = Absent]
    /\ mu' = {r}
    /\ UNCHANGED live

(* Mutant: the injected key is not deleted. *)
DropKeepsKey(s, r) ==
    /\ live' = live \ {s}
    /\ headers' = [headers EXCEPT ![s] = Absent]
    /\ mu' = {r}
    /\ UNCHANGED inject

(* Remove, first half: every in-memory fact goes; the lock is kept. *)
Drop(s, r) ==
    /\ live' = live \ {s}
    /\ headers' = [headers EXCEPT ![s] = Absent]
    /\ inject' = [inject EXCEPT ![s] = Absent]
    /\ mu' = {r}

(* Mutant: the error path returns without the unlock. *)
EraseRowKeepsLock(s) ==
    \/ rows' = rows \ {s} /\ mu' = {}
    \/ DiskMayFail /\ UNCHANGED <<rows, mu>>

(* Remove, second half: the row, then the deferred unlock. *)
EraseRow(s) ==
    /\ \/ rows' = rows \ {s}
       \/ DiskMayFail /\ UNCHANGED rows
    /\ mu' = {}

(* A new process: empty maps, then BindPersister rehydrates the routes, or *)
(* nothing at all when AllSessions fails: it returns no record with an     *)
(* error, even if the store had read some rows before it.                  *)
Rebind ==
    /\ \/ live' = rows
       \/ DiskMayFail /\ live' = {}
    /\ headers' = [s \in Sid |-> Absent]
    /\ inject' = [s \in Sid |-> Absent]
    /\ mu' = {}
    /\ UNCHANGED rows
==============================================================================
