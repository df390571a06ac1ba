---------------------------- MODULE GatewayProofs ----------------------------
(***************************************************************************)
(* Proofs about Gateway for every set of sessions and goroutines and every *)
(* value of the bounds.                                                    *)
(***************************************************************************)
EXTENDS Gateway, TLAPS

(* The credentials the handlers store are credentials. *)
LEMMA CredTypes ==
    /\ Absent \in Cred /\ Bare \in Cred /\ Placeholder \in Cred /\ RealKey \in Cred
    /\ \A v \in 0..MaxRefresh : Own(v) \in Cred
<1>1. 0 \in 0..MaxRefresh
  BY RefreshBound
<1> QED
  BY <1>1 DEF Cred, Absent, Bare, Placeholder, RealKey, Own

(* The kinds of headers are told apart. *)
LEMMA CredKinds ==
    /\ Absent # RealKey /\ Absent # Placeholder /\ RealKey # Placeholder
    /\ Bare # Placeholder /\ Bare # Absent
    /\ \A v : Own(v) # Placeholder /\ Own(v) # Absent
  BY DEF Absent, Bare, Placeholder, RealKey, Own

(* A job built from scratch has the fields it was given. *)
LEMMA NewJob ==
  ASSUME NEW s \in Sid, NEW step \in Steps
  PROVE  LET k == JobAt(step, s) IN
         k \in Busy /\ k.at = step /\ k.sess = s /\ k.inb = Absent /\ k.out = Absent
  BY CredTypes DEF Busy, JobAt

(* An idle goroutine works for no session and carries no credential. *)
LEMMA IdleJob ==
    /\ Idle \in Jobs
    /\ Idle.at = "idle" /\ Idle.sess = NoSid /\ Idle.inb = Absent /\ Idle.out = Absent
  BY DEF Idle, JobAt, Jobs

(* The steps a handler can be at, none of them idleness. *)
LEMMA StepNames ==
    /\ {"save", "supply", "terminal", "eraseRow", "reinject", "swap", "upstream",
        "remember", "emit", "replay", "caseAuth", "caseSend"} \subseteq Steps
    /\ "idle" \notin Steps
  BY DEF Steps

(* Whoever is not idle has a session. *)
LEMMA BusyJob ==
  ASSUME TypeOK, NEW r \in Req, NEW step \in Steps, At(r, step)
  PROVE  job[r] \in Busy /\ job[r].sess \in Sid /\ job[r].inb \in Cred /\ job[r].out \in Cred
<1>1. job[r] # Idle
  BY IdleJob, StepNames DEF At
<1> QED
  BY <1>1 DEF TypeOK, Jobs, Busy

(* A handler that moves on keeps its session and credentials. *)
LEMMA MovedJob ==
  ASSUME NEW j \in Busy, NEW step \in Steps
  PROVE  LET k == [j EXCEPT !.at = step] IN
         /\ k \in Busy
         /\ k.at = step /\ k.sess = j.sess /\ k.inb = j.inb /\ k.out = j.out
  BY DEF Busy

(* AuthFor and AgentCred answer with credentials. *)
LEMMA AuthTypes ==
  ASSUME TypeOK, NEW s \in Sid
  PROVE  AuthFor(s) \in Cred /\ AgentCred(s) \in Cred
  BY CredTypes DEF TypeOK, RegistryTypeOK, AuthFor, AgentCred

(* How a step of goroutine r leaves every job.  The cases are told apart   *)
(* by what the later proofs need: where r is now, for which session, and   *)
(* which credentials it carries.                                           *)
LEMMA BecomeJob ==
  ASSUME TypeOK, NEW r \in Req, NEW j \in Jobs, Become(r, j)
  PROVE  /\ job' \in [Req -> Jobs]
         /\ job'[r] = j
         /\ \A q \in Req \ {r} : job'[q] = job[q]
  BY DEF Become, TypeOK

(* The handler is over: the goroutine forgets session and credentials. *)
LEMMA FinishJob ==
  ASSUME TypeOK, NEW r \in Req, Finish(r)
  PROVE  /\ job' \in [Req -> Jobs]
         /\ job'[r] = Idle
         /\ \A q \in Req \ {r} : job'[q] = job[q]
  BY BecomeJob, IdleJob DEF Finish

(* The handler goes on to its next step, for the same session. *)
LEMMA MoveJob ==
  ASSUME TypeOK, NEW r \in Req, NEW from \in Steps, At(r, from),
         NEW step \in Steps, MoveTo(r, step)
  PROVE  /\ job' \in [Req -> Jobs]
         /\ job'[r].at = step /\ job'[r].sess = job[r].sess
         /\ job'[r].inb = job[r].inb /\ job'[r].out = job[r].out
         /\ \A q \in Req \ {r} : job'[q] = job[q]
<1> DEFINE j == [job[r] EXCEPT !.at = step]
<1>1. /\ j \in Busy
      /\ j.at = step /\ j.sess = job[r].sess /\ j.inb = job[r].inb /\ j.out = job[r].out
  BY BusyJob, MovedJob
<1>2. Become(r, j)
  BY DEF MoveTo
<1> HIDE DEF j
<1> QED
  BY <1>1, <1>2, BecomeJob DEF Jobs

(* A new handler starts with a session and no credential. *)
LEMMA StartJob ==
  ASSUME TypeOK, NEW r \in Req, NEW step \in Steps, NEW s \in Sid,
         Become(r, JobAt(step, s))
  PROVE  /\ job' \in [Req -> Jobs]
         /\ job'[r].at = step /\ job'[r].sess = s
         /\ job'[r].inb = Absent /\ job'[r].out = Absent
         /\ \A q \in Req \ {r} : job'[q] = job[q]
<1>1. JobAt(step, s) \in Jobs
  BY NewJob DEF Jobs
<1> QED
  BY <1>1, BecomeJob, NewJob

(* The three steps that also write a credential into the job. *)
LEMMA SwapJob ==
  ASSUME TypeOK, NEW r \in Req, ProxySwap(r)
  PROVE  /\ job' \in [Req -> Jobs]
         /\ job[r].at = "swap" /\ job[r].sess \in Sid
         /\ job'[r].at = "upstream" /\ job'[r].sess = job[r].sess /\ job'[r].inb = job[r].inb
         /\ job'[r].out = IF inject[job[r].sess] # Absent THEN inject[job[r].sess]
                                                         ELSE job[r].inb
         /\ \A q \in Req \ {r} : job'[q] = job[q]
         /\ UNCHANGED <<live, headers, inject, rows, mu, origin, agents, refresh, traced,
                       saved, closed, clean, keyLost>>
<1> DEFINE c == IF inject[job[r].sess] # Absent THEN inject[job[r].sess] ELSE job[r].inb
           j == [job[r] EXCEPT !.at = "upstream", !.out = c]
<1>1. c \in Cred /\ job[r] \in Busy
  BY BusyJob, StepNames, CredTypes DEF ProxySwap, TypeOK, RegistryTypeOK
<1>2. Become(r, j)
  BY DEF ProxySwap
<1> HIDE DEF c
<1>3. /\ j \in Jobs /\ j.at = "upstream" /\ j.sess = job[r].sess
      /\ j.inb = job[r].inb /\ j.out = c
  BY <1>1, StepNames DEF Busy, Jobs
<1> HIDE DEF j
<1>4. /\ job[r].at = "swap" /\ job[r].sess \in Sid
      /\ UNCHANGED <<live, headers, inject, rows, mu, origin, agents, refresh, traced,
                       saved, closed, clean, keyLost>>
  BY BusyJob, StepNames DEF ProxySwap, At, registryVars, history
<1> QED
  BY <1>2, <1>3, <1>4, BecomeJob DEF c

(* A case run leaves CaseAuth with the session's auth, or is over. *)
LEMMA CaseAuthJob ==
  ASSUME TypeOK, NEW r \in Req, CaseAuth(r)
  PROVE  /\ job' \in [Req -> Jobs]
         /\ \/ job'[r] = Idle
            \/ /\ job'[r].at = "caseSend" /\ job'[r].sess = job[r].sess
               /\ job'[r].inb = AuthFor(job[r].sess) /\ job'[r].out = job[r].out
         /\ job[r].at = "caseAuth" /\ job[r].sess \in Sid
         /\ \A q \in Req \ {r} : job'[q] = job[q]
         /\ UNCHANGED <<live, headers, inject, rows, mu, origin, agents, refresh, traced,
                       saved, closed, clean, keyLost>>
<1> DEFINE c == AuthFor(job[r].sess)
           j == [job[r] EXCEPT !.at = "caseSend", !.inb = c]
<1>1. c \in Cred /\ job[r] \in Busy
  BY BusyJob, AuthTypes, StepNames DEF CaseAuth
<1>2. Become(r, j) \/ Finish(r)
  BY DEF CaseAuth
<1> HIDE DEF c
<1>3. /\ j \in Jobs /\ j.at = "caseSend" /\ j.sess = job[r].sess
      /\ j.inb = c /\ j.out = job[r].out
  BY <1>1, StepNames DEF Busy, Jobs
<1> HIDE DEF j
<1>4. /\ job[r].at = "caseAuth" /\ job[r].sess \in Sid
      /\ UNCHANGED <<live, headers, inject, rows, mu, origin, agents, refresh, traced,
                       saved, closed, clean, keyLost>>
  BY BusyJob, StepNames DEF CaseAuth, At, registryVars, history
<1> QED
  BY <1>2, <1>3, <1>4, BecomeJob, FinishJob DEF c

(* The proxy starts with the agent's credential or with none. *)
LEMMA LookupJob ==
  ASSUME TypeOK, NEW r \in Req, NEW s \in Sid, ProxyLookup(r, s)
  PROVE  /\ job' \in [Req -> Jobs]
         /\ job'[r].at = "swap" /\ job'[r].sess = s /\ job'[r].out = Absent
         /\ job'[r].inb = Bare \/ (s \in agents /\ job'[r].inb = AgentCred(s))
         /\ \A q \in Req \ {r} : job'[q] = job[q]
         /\ job[r].at = "idle" /\ s \in live /\ mu = {}
         /\ UNCHANGED <<live, headers, inject, rows, mu, origin, agents, refresh, traced,
                       saved, closed, clean, keyLost>>
<1>1. ASSUME NEW c \in Cred, Become(r, [JobAt("swap", s) EXCEPT !.inb = c])
      PROVE  /\ job' \in [Req -> Jobs]
             /\ job'[r].at = "swap" /\ job'[r].sess = s
             /\ job'[r].inb = c /\ job'[r].out = Absent
             /\ \A q \in Req \ {r} : job'[q] = job[q]
  <2> DEFINE j == [JobAt("swap", s) EXCEPT !.inb = c]
  <2>1. /\ j \in Jobs /\ j.at = "swap" /\ j.sess = s /\ j.inb = c /\ j.out = Absent
    BY StepNames, CredTypes DEF JobAt, Busy, Jobs
  <2>2. Become(r, j)
    BY <1>1
  <2> HIDE DEF j
  <2> QED
    BY <2>1, <2>2, BecomeJob
<1>2. /\ job[r].at = "idle" /\ s \in live /\ mu = {}
      /\ UNCHANGED <<live, headers, inject, rows, mu, origin, agents, refresh, traced,
                    saved, closed, clean, keyLost>>
  BY DEF ProxyLookup, At, Known, Unlocked, registryVars, history
<1>3. \/ s \in agents /\ Become(r, [JobAt("swap", s) EXCEPT !.inb = AgentCred(s)])
      \/ Become(r, [JobAt("swap", s) EXCEPT !.inb = Bare])
  BY DEF ProxyLookup
<1>4. AgentCred(s) \in Cred /\ Bare \in Cred
  BY AuthTypes, CredTypes
<1> QED
  BY <1>1, <1>2, <1>3, <1>4

(* A replay starts with what AuthFor answered. *)
LEMMA ReplayJob ==
  ASSUME TypeOK, NEW r \in Req, NEW s \in Sid, ReplayAuth(r, s)
  PROVE  /\ job' \in [Req -> Jobs]
         /\ job'[r].at = "replay" /\ job'[r].sess = s
         /\ job'[r].inb = Absent /\ job'[r].out = AuthFor(s)
         /\ \A q \in Req \ {r} : job'[q] = job[q]
<1> DEFINE c == AuthFor(s)
           j == [JobAt("replay", s) EXCEPT !.out = c]
<1>1. c \in Cred
  BY AuthTypes
<1>2. Become(r, j)
  BY DEF ReplayAuth
<1> HIDE DEF c
<1>3. /\ j \in Jobs /\ j.at = "replay" /\ j.sess = s /\ j.inb = Absent /\ j.out = c
  BY <1>1, StepNames, CredTypes DEF JobAt, Busy, Jobs
<1> HIDE DEF j
<1> QED
  BY <1>2, <1>3, BecomeJob DEF c

(* No step takes the jobs out of their type. *)
LEMMA JobsTyped ==
  ASSUME TypeOK, [Next]_vars
  PROVE  job' \in [Req -> Jobs]
<1>1. ASSUME NEW r \in Req, Handler(r) PROVE job' \in [Req -> Jobs]
  <2>1. CASE RegisterSave(r)
    BY <2>1, FinishJob, MoveJob, StepNames DEF RegisterSave
  <2>2. CASE LaunchSupply(r)
    BY <2>2, MoveJob, StepNames DEF LaunchSupply
  <2>3. CASE LaunchTerminal(r)
    BY <2>3, FinishJob DEF LaunchTerminal
  <2>4. CASE RemoveRow(r)
    BY <2>4, FinishJob DEF RemoveRow
  <2>5. CASE ReinjectStore(r)
    BY <2>5, FinishJob DEF ReinjectStore
  <2>6. CASE ProxySwap(r)
    BY <2>6, SwapJob
  <2>7. CASE ProxyUpstream(r)
    BY <2>7, FinishJob, MoveJob, StepNames DEF ProxyUpstream
  <2>8. CASE ProxyRemember(r)
    BY <2>8, MoveJob, StepNames DEF ProxyRemember
  <2>9. CASE ProxyEmit(r)
    BY <2>9, FinishJob DEF ProxyEmit
  <2>10. CASE ReplaySend(r)
    BY <2>10, FinishJob DEF ReplaySend
  <2>11. CASE CaseAuth(r)
    BY <2>11, CaseAuthJob
  <2>12. CASE CaseSend(r)
    BY <2>12, FinishJob, MoveJob, StepNames DEF CaseSend
  <2> QED
    BY <1>1, <2>1, <2>2, <2>3, <2>4, <2>5, <2>6, <2>7, <2>8, <2>9, <2>10,
       <2>11, <2>12 DEF Handler
<1>2. ASSUME NEW r \in Req, NEW s \in Sid, Arrive(r, s) PROVE job' \in [Req -> Jobs]
  <2>1. ASSUME NEW o \in Origins, RegisterInsert(r, s, o) PROVE job' \in [Req -> Jobs]
    BY <2>1, StartJob, StepNames DEF RegisterInsert
  <2>2. CASE RemoveDrop(r, s)
    BY <2>2, StartJob, StepNames DEF RemoveDrop
  <2>3. CASE ReinjectGet(r, s)
    BY <2>3, StartJob, StepNames DEF ReinjectGet
  <2>4. CASE ProxyLookup(r, s)
    BY <2>4, LookupJob
  <2>5. CASE ReplayAuth(r, s)
    BY <2>5, ReplayJob
  <2>6. CASE CaseGet(r, s)
    BY <2>6, StartJob, StepNames DEF CaseGet
  <2> QED
    BY <1>2, <2>1, <2>2, <2>3, <2>4, <2>5, <2>6 DEF Arrive
<1>3. CASE \E s \in Sid : AgentRefresh(s)
  BY <1>3 DEF AgentRefresh, TypeOK
<1>4. CASE Restart
  BY <1>4, IdleJob DEF Restart
<1>5. CASE UNCHANGED vars
  BY <1>5 DEF vars, TypeOK
<1> QED
  BY <1>1, <1>2, <1>3, <1>4, <1>5 DEF Next

(* Every variable keeps its type, whatever the handlers do. *)
THEOREM TypeCorrect == Spec => []TypeOK
<1>1. Init => TypeOK
  BY IdleJob, CredTypes, RefreshBound
     DEF Init, TypeOK, RegistryInit, RegistryTypeOK
<1>2. TypeOK /\ [Next]_vars => TypeOK'
  <2> SUFFICES ASSUME TypeOK, [Next]_vars PROVE TypeOK'
    OBVIOUS
  <2>0. job' \in [Req -> Jobs]
    BY JobsTyped
  <2>1. ASSUME NEW r \in Req, Handler(r) PROVE TypeOK'
    <3>1. CASE RegisterSave(r)
      <4>1. job[r].sess \in Sid
        BY <3>1, BusyJob, StepNames DEF RegisterSave
      <4> QED
        BY <2>0, <3>1, <4>1 DEF RegisterSave, SaveRow, TypeOK, RegistryTypeOK
    <3>2. CASE LaunchSupply(r)
      BY <2>0, <3>2, CredTypes
         DEF LaunchSupply, RememberInject, TypeOK, RegistryTypeOK, history
    <3>3. CASE LaunchTerminal(r)
      <4>1. job[r].sess \in Sid
        BY <3>3, BusyJob, StepNames DEF LaunchTerminal
      <4> QED
        BY <2>0, <3>3, <4>1
           DEF LaunchTerminal, TypeOK, RegistryTypeOK, registryVars, history
    <3>4. CASE RemoveRow(r)
      <4>1. job[r].sess \in Sid
        BY <3>4, BusyJob, StepNames DEF RemoveRow
      <4> QED
        BY <2>0, <3>4, <4>1 DEF RemoveRow, EraseRow, TypeOK, RegistryTypeOK
    <3>5. CASE ReinjectStore(r)
      BY <2>0, <3>5 DEF ReinjectStore, RememberInject, TypeOK, RegistryTypeOK
    <3>6. CASE ProxySwap(r) \/ ProxyUpstream(r) \/ ReplaySend(r) \/ CaseAuth(r) \/ CaseSend(r)
      BY <2>0, <3>6 DEF ProxySwap, ProxyUpstream, ReplaySend, CaseAuth, CaseSend,
                        TypeOK, RegistryTypeOK, registryVars, history
    <3>7. CASE ProxyRemember(r)
      <4>1. job[r].inb \in Cred
        BY <3>7, BusyJob, StepNames DEF ProxyRemember
      <4> QED
        BY <2>0, <3>7, <4>1
           DEF ProxyRemember, RememberHeaders, TypeOK, RegistryTypeOK, history
    <3>8. CASE ProxyEmit(r)
      <4>1. job[r].sess \in Sid
        BY <3>8, BusyJob, StepNames DEF ProxyEmit
      <4> QED
        BY <2>0, <3>8, <4>1
           DEF ProxyEmit, TypeOK, RegistryTypeOK, registryVars, history
    <3> QED
      BY <2>1, <3>1, <3>2, <3>3, <3>4, <3>5, <3>6, <3>7, <3>8 DEF Handler
  <2>2. ASSUME NEW r \in Req, NEW s \in Sid, Arrive(r, s) PROVE TypeOK'
    <3>1. ASSUME NEW o \in Origins, RegisterInsert(r, s, o) PROVE TypeOK'
      BY <2>0, <3>1 DEF RegisterInsert, Insert, TypeOK, RegistryTypeOK, history
    <3>2. CASE RemoveDrop(r, s)
      BY <2>0, <3>2, CredTypes DEF RemoveDrop, Drop, TypeOK, RegistryTypeOK
    <3>3. CASE ReinjectGet(r, s) \/ ProxyLookup(r, s) \/ ReplayAuth(r, s) \/ CaseGet(r, s)
      BY <2>0, <3>3 DEF ReinjectGet, ProxyLookup, ReplayAuth, CaseGet,
                        TypeOK, RegistryTypeOK, registryVars, history
    <3> QED
      BY <2>2, <3>1, <3>2, <3>3 DEF Arrive
  <2>3. ASSUME NEW s \in Sid, AgentRefresh(s) PROVE TypeOK'
    BY <2>0, <2>3, RefreshBound
       DEF AgentRefresh, TypeOK, RegistryTypeOK, registryVars, history
  <2>4. CASE Restart
    BY <2>0, <2>4, CredTypes DEF Restart, Rebind, TypeOK, RegistryTypeOK
  <2>5. CASE UNCHANGED vars
    BY <2>0, <2>5 DEF vars, TypeOK, RegistryTypeOK, registryVars
  <2> QED
    BY <2>1, <2>2, <2>3, <2>4, <2>5 DEF Next
<1> QED BY <1>1, <1>2, PTL DEF Spec
------------------------------------------------------------------------------
(* An id that has not been drawn yet is nowhere. *)
UndrawnIsNowhere ==
    /\ \A s \in Sid : origin[s] = "none" =>
          s \notin live \union rows \union agents \union traced \union saved \union clean
    /\ \A r \in Req : ~At(r, "idle") => origin[job[r].sess] # "none"

(* The goroutine that erases a row holds the lock, and nothing of its      *)
(* session is in memory any more.                                          *)
EraserHoldsLock ==
    \A r \in Req : At(r, "eraseRow") =>
        /\ mu = {r}
        /\ ~Known(job[r].sess)
        /\ headers[job[r].sess] = Absent /\ inject[job[r].sess] = Absent

(* A session is drawn before anything else happens to it. *)
LEMMA UndrawnStep ==
  ASSUME TypeOK, UndrawnIsNowhere, [Next]_vars
  PROVE  UndrawnIsNowhere'
<1> USE IdleJob, StepNames, NoSidFresh DEF TypeOK, RegistryTypeOK, Known, Unlocked, At
<1>1. ASSUME NEW r \in Req, Handler(r) PROVE UndrawnIsNowhere'
  <2>1. CASE RegisterSave(r)
    BY <2>1, BusyJob, FinishJob, MoveJob
       DEF RegisterSave, SaveRow, UndrawnIsNowhere
  <2>2. CASE LaunchSupply(r)
    BY <2>2, BusyJob, MoveJob
       DEF LaunchSupply, RememberInject, UndrawnIsNowhere, history
  <2>3. CASE LaunchTerminal(r)
    BY <2>3, BusyJob, FinishJob
       DEF LaunchTerminal, UndrawnIsNowhere, registryVars, history
  <2>4. CASE RemoveRow(r)
    BY <2>4, BusyJob, FinishJob DEF RemoveRow, EraseRow, UndrawnIsNowhere
  <2>5. CASE ReinjectStore(r)
    BY <2>5, BusyJob, FinishJob
       DEF ReinjectStore, RememberInject, UndrawnIsNowhere
  <2>6. CASE ProxySwap(r)
    BY <2>6, BusyJob, SwapJob DEF UndrawnIsNowhere
  <2>7. CASE ProxyUpstream(r)
    BY <2>7, BusyJob, FinishJob, MoveJob
       DEF ProxyUpstream, UndrawnIsNowhere, registryVars, history
  <2>8. CASE ProxyRemember(r)
    BY <2>8, BusyJob, MoveJob
       DEF ProxyRemember, RememberHeaders, UndrawnIsNowhere, history
  <2>9. CASE ProxyEmit(r)
    BY <2>9, BusyJob, FinishJob
       DEF ProxyEmit, UndrawnIsNowhere, registryVars, history
  <2>10. CASE ReplaySend(r)
    BY <2>10, BusyJob, FinishJob
       DEF ReplaySend, UndrawnIsNowhere, registryVars, history
  <2>11. CASE CaseAuth(r)
    BY <2>11, BusyJob, CaseAuthJob DEF UndrawnIsNowhere
  <2>12. CASE CaseSend(r)
    BY <2>12, BusyJob, FinishJob, MoveJob
       DEF CaseSend, UndrawnIsNowhere, registryVars, history
  <2> QED
    BY <1>1, <2>1, <2>2, <2>3, <2>4, <2>5, <2>6, <2>7, <2>8, <2>9, <2>10,
       <2>11, <2>12 DEF Handler
<1>2. ASSUME NEW r \in Req, NEW s \in Sid, Arrive(r, s) PROVE UndrawnIsNowhere'
  <2>1. ASSUME NEW o \in Origins, RegisterInsert(r, s, o) PROVE UndrawnIsNowhere'
    BY <2>1, StartJob
       DEF RegisterInsert, Insert, UndrawnIsNowhere, Origins, history
  <2>2. CASE RemoveDrop(r, s)
    BY <2>2, StartJob DEF RemoveDrop, Drop, UndrawnIsNowhere
  <2>3. CASE ReinjectGet(r, s)
    BY <2>3, StartJob DEF ReinjectGet, UndrawnIsNowhere, registryVars, history
  <2>4. CASE ProxyLookup(r, s)
    BY <2>4, LookupJob DEF UndrawnIsNowhere
  <2>5. CASE ReplayAuth(r, s)
    BY <2>5, ReplayJob DEF ReplayAuth, UndrawnIsNowhere, registryVars, history
  <2>6. CASE CaseGet(r, s)
    BY <2>6, StartJob DEF CaseGet, UndrawnIsNowhere, registryVars, history
  <2> QED
    BY <1>2, <2>1, <2>2, <2>3, <2>4, <2>5, <2>6 DEF Arrive
<1>3. ASSUME NEW s \in Sid, AgentRefresh(s) PROVE UndrawnIsNowhere'
  BY <1>3 DEF AgentRefresh, UndrawnIsNowhere, registryVars, history
<1>4. CASE Restart
  BY <1>4 DEF Restart, UndrawnIsNowhere, Rebind
<1>5. CASE UNCHANGED vars
  BY <1>5 DEF vars, UndrawnIsNowhere, registryVars
<1> QED
  BY <1>1, <1>2, <1>3, <1>4, <1>5 DEF Next

(* Whoever holds the lock keeps everybody else away from the registry. *)
LEMMA EraserStep ==
  ASSUME TypeOK, EraserHoldsLock, [Next]_vars
  PROVE  EraserHoldsLock'
<1> USE IdleJob, StepNames DEF TypeOK, RegistryTypeOK, Known, Unlocked, At
<1>1. ASSUME NEW r \in Req, Handler(r) PROVE EraserHoldsLock'
  <2>1. CASE RegisterSave(r)
    BY <2>1, BusyJob, FinishJob, MoveJob
       DEF RegisterSave, SaveRow, EraserHoldsLock
  <2>2. CASE LaunchSupply(r)
    BY <2>2, BusyJob, MoveJob
       DEF LaunchSupply, RememberInject, EraserHoldsLock, history
  <2>3. CASE LaunchTerminal(r)
    BY <2>3, BusyJob, FinishJob
       DEF LaunchTerminal, EraserHoldsLock, registryVars, history
  <2>4. CASE RemoveRow(r)
    <3>1. At(r, "eraseRow") /\ job'[r] = Idle /\ \A q \in Req \ {r} : job'[q] = job[q]
      BY <2>4, FinishJob DEF RemoveRow
    <3>2. \A q \in Req : At(q, "eraseRow") => q = r
      BY <3>1 DEF EraserHoldsLock
    <3>3. \A q \in Req : ~At(q, "eraseRow")'
      BY <3>1, <3>2
    <3> QED
      BY <3>3 DEF EraserHoldsLock
  <2>5. CASE ReinjectStore(r)
    <3>1. At(r, "reinject") /\ job'[r] = Idle /\ \A q \in Req \ {r} : job'[q] = job[q]
      BY <2>5, FinishJob DEF ReinjectStore
    <3>2. \A q \in Req : At(q, "eraseRow")' => q # r /\ At(q, "eraseRow") /\ job'[q] = job[q]
      BY <3>1
    <3>3. live' = live /\ headers' = headers /\ mu' = mu
      BY <2>5 DEF ReinjectStore
    <3>4. CASE Unlocked
      <4>1. \A q \in Req : ~At(q, "eraseRow")
        BY <3>4 DEF EraserHoldsLock
      <4> QED
        BY <3>2, <4>1 DEF EraserHoldsLock
    <3>5. CASE inject' = inject
      BY <3>2, <3>3, <3>5 DEF EraserHoldsLock
    <3> QED
      BY <2>5, <3>4, <3>5 DEF ReinjectStore
  <2>6. CASE ProxySwap(r)
    BY <2>6, BusyJob, SwapJob DEF EraserHoldsLock
  <2>7. CASE ProxyUpstream(r)
    BY <2>7, BusyJob, FinishJob, MoveJob
       DEF ProxyUpstream, EraserHoldsLock, registryVars, history
  <2>8. CASE ProxyRemember(r)
    BY <2>8, BusyJob, MoveJob
       DEF ProxyRemember, RememberHeaders, EraserHoldsLock, history
  <2>9. CASE ProxyEmit(r)
    BY <2>9, BusyJob, FinishJob
       DEF ProxyEmit, EraserHoldsLock, registryVars, history
  <2>10. CASE ReplaySend(r)
    BY <2>10, BusyJob, FinishJob
       DEF ReplaySend, EraserHoldsLock, registryVars, history
  <2>11. CASE CaseAuth(r)
    BY <2>11, BusyJob, CaseAuthJob DEF EraserHoldsLock
  <2>12. CASE CaseSend(r)
    BY <2>12, BusyJob, FinishJob, MoveJob
       DEF CaseSend, EraserHoldsLock, registryVars, history
  <2> QED
    BY <1>1, <2>1, <2>2, <2>3, <2>4, <2>5, <2>6, <2>7, <2>8, <2>9, <2>10,
       <2>11, <2>12 DEF Handler
<1>2. ASSUME NEW r \in Req, NEW s \in Sid, Arrive(r, s) PROVE EraserHoldsLock'
  <2>1. ASSUME NEW o \in Origins, RegisterInsert(r, s, o) PROVE EraserHoldsLock'
    BY <2>1, StartJob DEF RegisterInsert, Insert, EraserHoldsLock, history
  <2>2. CASE RemoveDrop(r, s)
    BY <2>2, StartJob DEF RemoveDrop, Drop, EraserHoldsLock
  <2>3. CASE ReinjectGet(r, s)
    BY <2>3, StartJob DEF ReinjectGet, EraserHoldsLock, registryVars, history
  <2>4. CASE ProxyLookup(r, s)
    BY <2>4, LookupJob DEF EraserHoldsLock
  <2>5. CASE ReplayAuth(r, s)
    BY <2>5, ReplayJob DEF ReplayAuth, EraserHoldsLock, registryVars, history
  <2>6. CASE CaseGet(r, s)
    BY <2>6, StartJob DEF CaseGet, EraserHoldsLock, registryVars, history
  <2> QED
    BY <1>2, <2>1, <2>2, <2>3, <2>4, <2>5, <2>6 DEF Arrive
<1>3. ASSUME NEW s \in Sid, AgentRefresh(s) PROVE EraserHoldsLock'
  BY <1>3 DEF AgentRefresh, EraserHoldsLock, registryVars, history
<1>4. CASE Restart
  BY <1>4 DEF Restart, EraserHoldsLock, Rebind
<1>5. CASE UNCHANGED vars
  BY <1>5 DEF vars, EraserHoldsLock, registryVars
<1> QED
  BY <1>1, <1>2, <1>3, <1>4, <1>5 DEF Next

(* Only a goroutine that has dropped the route erases the row. *)
LEMMA SavedStep ==
  ASSUME TypeOK, UndrawnIsNowhere, EraserHoldsLock, SavedSessionsSurvive, [Next]_vars
  PROVE  SavedSessionsSurvive'
<1> USE IdleJob, StepNames DEF TypeOK, RegistryTypeOK, Known, Unlocked, At
<1>1. ASSUME NEW r \in Req, Handler(r) PROVE SavedSessionsSurvive'
  <2>1. CASE RegisterSave(r)
    BY <2>1, BusyJob, FinishJob, MoveJob
       DEF RegisterSave, SaveRow, SavedSessionsSurvive
  <2>2. CASE LaunchSupply(r)
    BY <2>2, BusyJob, MoveJob
       DEF LaunchSupply, RememberInject, SavedSessionsSurvive, history
  <2>3. CASE LaunchTerminal(r)
    BY <2>3, BusyJob, FinishJob
       DEF LaunchTerminal, SavedSessionsSurvive, registryVars, history
  <2>4. CASE RemoveRow(r)
    BY <2>4, BusyJob, FinishJob
       DEF RemoveRow, EraseRow, SavedSessionsSurvive, EraserHoldsLock
  <2>5. CASE ReinjectStore(r)
    BY <2>5, BusyJob, FinishJob
       DEF ReinjectStore, RememberInject, SavedSessionsSurvive
  <2>6. CASE ProxySwap(r)
    BY <2>6, BusyJob, SwapJob DEF SavedSessionsSurvive
  <2>7. CASE ProxyUpstream(r)
    BY <2>7, BusyJob, FinishJob, MoveJob
       DEF ProxyUpstream, SavedSessionsSurvive, registryVars, history
  <2>8. CASE ProxyRemember(r)
    BY <2>8, BusyJob, MoveJob
       DEF ProxyRemember, RememberHeaders, SavedSessionsSurvive, history
  <2>9. CASE ProxyEmit(r)
    BY <2>9, BusyJob, FinishJob
       DEF ProxyEmit, SavedSessionsSurvive, registryVars, history
  <2>10. CASE ReplaySend(r)
    BY <2>10, BusyJob, FinishJob
       DEF ReplaySend, SavedSessionsSurvive, registryVars, history
  <2>11. CASE CaseAuth(r)
    BY <2>11, BusyJob, CaseAuthJob DEF SavedSessionsSurvive
  <2>12. CASE CaseSend(r)
    BY <2>12, BusyJob, FinishJob, MoveJob
       DEF CaseSend, SavedSessionsSurvive, registryVars, history
  <2> QED
    BY <1>1, <2>1, <2>2, <2>3, <2>4, <2>5, <2>6, <2>7, <2>8, <2>9, <2>10,
       <2>11, <2>12 DEF Handler
<1>2. ASSUME NEW r \in Req, NEW s \in Sid, Arrive(r, s) PROVE SavedSessionsSurvive'
  <2>1. ASSUME NEW o \in Origins, RegisterInsert(r, s, o) PROVE SavedSessionsSurvive'
    BY <2>1, StartJob
       DEF RegisterInsert, Insert, SavedSessionsSurvive, UndrawnIsNowhere, history
  <2>2. CASE RemoveDrop(r, s)
    BY <2>2, StartJob DEF RemoveDrop, Drop, SavedSessionsSurvive
  <2>3. CASE ReinjectGet(r, s)
    BY <2>3, StartJob DEF ReinjectGet, SavedSessionsSurvive, registryVars, history
  <2>4. CASE ProxyLookup(r, s)
    BY <2>4, LookupJob DEF SavedSessionsSurvive
  <2>5. CASE ReplayAuth(r, s)
    BY <2>5, ReplayJob DEF ReplayAuth, SavedSessionsSurvive, registryVars, history
  <2>6. CASE CaseGet(r, s)
    BY <2>6, StartJob DEF CaseGet, SavedSessionsSurvive, registryVars, history
  <2> QED
    BY <1>2, <2>1, <2>2, <2>3, <2>4, <2>5, <2>6 DEF Arrive
<1>3. ASSUME NEW s \in Sid, AgentRefresh(s) PROVE SavedSessionsSurvive'
  BY <1>3 DEF AgentRefresh, SavedSessionsSurvive, registryVars, history
<1>4. CASE Restart
  BY <1>4 DEF Restart, SavedSessionsSurvive, Rebind
<1>5. CASE UNCHANGED vars
  BY <1>5 DEF vars, SavedSessionsSurvive, registryVars
<1> QED
  BY <1>1, <1>2, <1>3, <1>4, <1>5 DEF Next

(* CleanlyClosedIsGone, made inductive: nobody works for such a session.   *)
CleanInv ==
    \A s \in clean :
        /\ ~Known(s) /\ s \notin rows
        /\ headers[s] = Absent /\ inject[s] = Absent
        /\ \A r \in Req : job[r].sess # s

(* Nothing brings a cleanly closed session back. *)
LEMMA CleanStep ==
  ASSUME TypeOK, UndrawnIsNowhere, EraserHoldsLock, CleanInv, [Next]_vars
  PROVE  CleanInv'
<1> USE IdleJob, StepNames, NoSidFresh DEF TypeOK, RegistryTypeOK, Known, Unlocked, At
<1>1. ASSUME NEW r \in Req, Handler(r) PROVE CleanInv'
  <2>1. CASE RegisterSave(r)
    BY <2>1, BusyJob, FinishJob, MoveJob DEF RegisterSave, SaveRow, CleanInv
  <2>2. CASE LaunchSupply(r)
    BY <2>2, BusyJob, MoveJob DEF LaunchSupply, RememberInject, CleanInv, history
  <2>3. CASE LaunchTerminal(r)
    BY <2>3, BusyJob, FinishJob
       DEF LaunchTerminal, CleanInv, registryVars, history
  <2>4. CASE RemoveRow(r)
    BY <2>4, BusyJob, FinishJob DEF RemoveRow, EraseRow, CleanInv, EraserHoldsLock
  <2>5. CASE ReinjectStore(r)
    BY <2>5, BusyJob, FinishJob DEF ReinjectStore, RememberInject, CleanInv
  <2>6. CASE ProxySwap(r)
    BY <2>6, BusyJob, SwapJob DEF CleanInv
  <2>7. CASE ProxyUpstream(r)
    BY <2>7, BusyJob, FinishJob, MoveJob
       DEF ProxyUpstream, CleanInv, registryVars, history
  <2>8. CASE ProxyRemember(r)
    BY <2>8, BusyJob, MoveJob
       DEF ProxyRemember, RememberHeaders, CleanInv, history
  <2>9. CASE ProxyEmit(r)
    BY <2>9, BusyJob, FinishJob DEF ProxyEmit, CleanInv, registryVars, history
  <2>10. CASE ReplaySend(r)
    BY <2>10, BusyJob, FinishJob DEF ReplaySend, CleanInv, registryVars, history
  <2>11. CASE CaseAuth(r)
    BY <2>11, BusyJob, CaseAuthJob DEF CleanInv
  <2>12. CASE CaseSend(r)
    BY <2>12, BusyJob, FinishJob, MoveJob
       DEF CaseSend, CleanInv, registryVars, history
  <2> QED
    BY <1>1, <2>1, <2>2, <2>3, <2>4, <2>5, <2>6, <2>7, <2>8, <2>9, <2>10,
       <2>11, <2>12 DEF Handler
<1>2. ASSUME NEW r \in Req, NEW s \in Sid, Arrive(r, s) PROVE CleanInv'
  <2>1. ASSUME NEW o \in Origins, RegisterInsert(r, s, o) PROVE CleanInv'
    BY <2>1, StartJob
       DEF RegisterInsert, Insert, CleanInv, UndrawnIsNowhere, history
  <2>2. CASE RemoveDrop(r, s)
    BY <2>2, StartJob DEF RemoveDrop, Drop, CleanInv
  <2>3. CASE ReinjectGet(r, s)
    BY <2>3, StartJob DEF ReinjectGet, CleanInv, registryVars, history
  <2>4. CASE ProxyLookup(r, s)
    <3>1. s \in live /\ job'[r].sess = s /\ \A q \in Req \ {r} : job'[q] = job[q]
      BY <2>4, LookupJob
    <3>2. UNCHANGED <<live, headers, inject, rows, clean>>
      BY <2>4, LookupJob
    <3>3. s \notin clean
      BY <3>1 DEF CleanInv
    <3>4. \A t \in clean, q \in Req : job'[q].sess # t
      BY <3>1, <3>3 DEF CleanInv
    <3> QED
      BY <3>2, <3>4 DEF CleanInv
  <2>5. CASE ReplayAuth(r, s)
    BY <2>5, ReplayJob DEF ReplayAuth, CleanInv, AuthFor, registryVars, history
  <2>6. CASE CaseGet(r, s)
    BY <2>6, StartJob DEF CaseGet, CleanInv, registryVars, history
  <2> QED
    BY <1>2, <2>1, <2>2, <2>3, <2>4, <2>5, <2>6 DEF Arrive
<1>3. ASSUME NEW s \in Sid, AgentRefresh(s) PROVE CleanInv'
  BY <1>3 DEF AgentRefresh, CleanInv, registryVars, history
<1>4. CASE Restart
  BY <1>4 DEF Restart, CleanInv, Rebind
<1>5. CASE UNCHANGED vars
  BY <1>5 DEF vars, CleanInv, registryVars
<1> QED
  BY <1>1, <1>2, <1>3, <1>4, <1>5 DEF Next

(* Only a restart takes the key of a live launched session. *)
LEMMA NeedsKeyStep ==
  ASSUME TypeOK, LaunchedNeedsKeyOnlyAfterLoss, [Next]_vars
  PROVE  LaunchedNeedsKeyOnlyAfterLoss'
<1> USE IdleJob, StepNames, CredKinds, NoSidFresh DEF TypeOK, RegistryTypeOK, Known, Unlocked, At
<1>1. ASSUME NEW r \in Req, Handler(r) PROVE LaunchedNeedsKeyOnlyAfterLoss'
  <2>1. CASE RegisterSave(r)
    BY <2>1, BusyJob, FinishJob, MoveJob
       DEF RegisterSave, SaveRow, LaunchedNeedsKeyOnlyAfterLoss, NeedsKey, KeyMode
  <2>2. CASE LaunchSupply(r)
    BY <2>2, BusyJob, MoveJob
       DEF LaunchSupply, RememberInject, LaunchedNeedsKeyOnlyAfterLoss, NeedsKey, KeyMode, history
  <2>3. CASE LaunchTerminal(r)
    BY <2>3, BusyJob, FinishJob
       DEF LaunchTerminal, LaunchedNeedsKeyOnlyAfterLoss, NeedsKey, KeyMode, registryVars, history
  <2>4. CASE RemoveRow(r)
    BY <2>4, BusyJob, FinishJob
       DEF RemoveRow, EraseRow, LaunchedNeedsKeyOnlyAfterLoss, NeedsKey, KeyMode
  <2>5. CASE ReinjectStore(r)
    BY <2>5, BusyJob, FinishJob
       DEF ReinjectStore, RememberInject, LaunchedNeedsKeyOnlyAfterLoss, NeedsKey, KeyMode
  <2>6. CASE ProxySwap(r)
    BY <2>6, BusyJob, SwapJob DEF LaunchedNeedsKeyOnlyAfterLoss, NeedsKey, KeyMode
  <2>7. CASE ProxyUpstream(r)
    BY <2>7, BusyJob, FinishJob, MoveJob
       DEF ProxyUpstream, LaunchedNeedsKeyOnlyAfterLoss, NeedsKey, KeyMode, registryVars, history
  <2>8. CASE ProxyRemember(r)
    BY <2>8, BusyJob, MoveJob
       DEF ProxyRemember, RememberHeaders, LaunchedNeedsKeyOnlyAfterLoss, NeedsKey, KeyMode, history
  <2>9. CASE ProxyEmit(r)
    BY <2>9, BusyJob, FinishJob
       DEF ProxyEmit, LaunchedNeedsKeyOnlyAfterLoss, NeedsKey, KeyMode, registryVars, history
  <2>10. CASE ReplaySend(r)
    BY <2>10, BusyJob, FinishJob
       DEF ReplaySend, LaunchedNeedsKeyOnlyAfterLoss, NeedsKey, KeyMode, registryVars, history
  <2>11. CASE CaseAuth(r)
    BY <2>11, BusyJob, CaseAuthJob
       DEF LaunchedNeedsKeyOnlyAfterLoss, NeedsKey, KeyMode
  <2>12. CASE CaseSend(r)
    BY <2>12, BusyJob, FinishJob, MoveJob
       DEF CaseSend, LaunchedNeedsKeyOnlyAfterLoss, NeedsKey, KeyMode, registryVars, history
  <2> QED
    BY <1>1, <2>1, <2>2, <2>3, <2>4, <2>5, <2>6, <2>7, <2>8, <2>9, <2>10,
       <2>11, <2>12 DEF Handler
<1>2. ASSUME NEW r \in Req, NEW s \in Sid, Arrive(r, s) PROVE LaunchedNeedsKeyOnlyAfterLoss'
  <2>1. ASSUME NEW o \in Origins, RegisterInsert(r, s, o) PROVE LaunchedNeedsKeyOnlyAfterLoss'
    BY <2>1, StartJob
       DEF RegisterInsert, Insert, LaunchedNeedsKeyOnlyAfterLoss, NeedsKey, KeyMode, history
  <2>2. CASE RemoveDrop(r, s)
    BY <2>2, StartJob
       DEF RemoveDrop, Drop, LaunchedNeedsKeyOnlyAfterLoss, NeedsKey, KeyMode
  <2>3. CASE ReinjectGet(r, s)
    BY <2>3, StartJob
       DEF ReinjectGet, LaunchedNeedsKeyOnlyAfterLoss, NeedsKey, KeyMode, registryVars, history
  <2>4. CASE ProxyLookup(r, s)
    BY <2>4, LookupJob DEF LaunchedNeedsKeyOnlyAfterLoss, NeedsKey, KeyMode
  <2>5. CASE ReplayAuth(r, s)
    BY <2>5, ReplayJob
       DEF ReplayAuth, LaunchedNeedsKeyOnlyAfterLoss, NeedsKey, KeyMode, registryVars, history
  <2>6. CASE CaseGet(r, s)
    BY <2>6, StartJob
       DEF CaseGet, LaunchedNeedsKeyOnlyAfterLoss, NeedsKey, KeyMode, registryVars, history
  <2> QED
    BY <1>2, <2>1, <2>2, <2>3, <2>4, <2>5, <2>6 DEF Arrive
<1>3. ASSUME NEW s \in Sid, AgentRefresh(s) PROVE LaunchedNeedsKeyOnlyAfterLoss'
  BY <1>3
     DEF AgentRefresh, LaunchedNeedsKeyOnlyAfterLoss, NeedsKey, KeyMode, registryVars, history
<1>4. CASE Restart
  BY <1>4 DEF Restart, LaunchedNeedsKeyOnlyAfterLoss, NeedsKey, KeyMode, Rebind
<1>5. CASE UNCHANGED vars
  BY <1>5 DEF vars, LaunchedNeedsKeyOnlyAfterLoss, NeedsKey, KeyMode, registryVars
<1> QED
  BY <1>1, <1>2, <1>3, <1>4, <1>5 DEF Next

(* A placeholder, wherever it is, belongs to a launched session whose agent *)
(* was started, and such a session has its key unless it lost it.          *)
KeyHeldOrLost(s) == inject[s] = RealKey \/ s \in keyLost \union closed

PlaceholderInv ==
    /\ \A s \in agents : origin[s] = "launch" => KeyHeldOrLost(s)
    /\ \A s \in Sid : headers[s] = Placeholder => s \in agents /\ origin[s] = "launch"
    /\ \A r \in Req : job[r].inb = Placeholder =>
          job[r].sess \in agents /\ origin[job[r].sess] = "launch"
    /\ \A r \in Req : At(r, "supply") \/ At(r, "terminal") => origin[job[r].sess] = "launch"
    /\ \A r \in Req : At(r, "terminal") => KeyHeldOrLost(job[r].sess)

(* A placeholder is in circulation only where the key is held or was lost. *)
LEMMA PlaceholderStep ==
  ASSUME TypeOK, UndrawnIsNowhere, PlaceholderInv, [Next]_vars
  PROVE  PlaceholderInv'
<1> USE IdleJob, StepNames, CredKinds, NoSidFresh DEF TypeOK, RegistryTypeOK, Known, Unlocked, At
<1>1. ASSUME NEW r \in Req, Handler(r) PROVE PlaceholderInv'
  <2>1. CASE RegisterSave(r)
    BY <2>1, BusyJob, FinishJob, MoveJob
       DEF RegisterSave, SaveRow, PlaceholderInv, KeyHeldOrLost
  <2>2. CASE LaunchSupply(r)
    BY <2>2, BusyJob, MoveJob
       DEF LaunchSupply, RememberInject, PlaceholderInv, KeyHeldOrLost, history
  <2>3. CASE LaunchTerminal(r)
    BY <2>3, BusyJob, FinishJob
       DEF LaunchTerminal, PlaceholderInv, KeyHeldOrLost, registryVars, history
  <2>4. CASE RemoveRow(r)
    BY <2>4, BusyJob, FinishJob
       DEF RemoveRow, EraseRow, PlaceholderInv, KeyHeldOrLost
  <2>5. CASE ReinjectStore(r)
    BY <2>5, BusyJob, FinishJob
       DEF ReinjectStore, RememberInject, PlaceholderInv, KeyHeldOrLost
  <2>6. CASE ProxySwap(r)
    BY <2>6, BusyJob, SwapJob DEF PlaceholderInv, KeyHeldOrLost
  <2>7. CASE ProxyUpstream(r)
    BY <2>7, BusyJob, FinishJob, MoveJob
       DEF ProxyUpstream, PlaceholderInv, KeyHeldOrLost, registryVars, history
  <2>8. CASE ProxyRemember(r)
    BY <2>8, BusyJob, MoveJob
       DEF ProxyRemember, RememberHeaders, PlaceholderInv, KeyHeldOrLost, history
  <2>9. CASE ProxyEmit(r)
    BY <2>9, BusyJob, FinishJob
       DEF ProxyEmit, PlaceholderInv, KeyHeldOrLost, registryVars, history
  <2>10. CASE ReplaySend(r)
    BY <2>10, BusyJob, FinishJob
       DEF ReplaySend, PlaceholderInv, KeyHeldOrLost, registryVars, history
  <2>11. CASE CaseAuth(r)
    BY <2>11, BusyJob, CaseAuthJob DEF PlaceholderInv, KeyHeldOrLost, AuthFor
  <2>12. CASE CaseSend(r)
    BY <2>12, BusyJob, FinishJob, MoveJob
       DEF CaseSend, PlaceholderInv, KeyHeldOrLost, registryVars, history
  <2> QED
    BY <1>1, <2>1, <2>2, <2>3, <2>4, <2>5, <2>6, <2>7, <2>8, <2>9, <2>10,
       <2>11, <2>12 DEF Handler
<1>2. ASSUME NEW r \in Req, NEW s \in Sid, Arrive(r, s) PROVE PlaceholderInv'
  <2>1. ASSUME NEW o \in Origins, RegisterInsert(r, s, o) PROVE PlaceholderInv'
    <3>1. /\ job'[r].at = "save" /\ job'[r].sess = s /\ job'[r].inb = Absent
          /\ \A q \in Req \ {r} : job'[q] = job[q]
      BY <2>1, StartJob DEF RegisterInsert
    <3>2. origin[s] = "none" /\ s \notin agents /\ \A t \in Sid \ {s} : origin'[t] = origin[t]
      BY <2>1 DEF RegisterInsert, UndrawnIsNowhere
    <3>3. /\ agents' = agents /\ headers' = headers
          /\ \A t \in Sid : KeyHeldOrLost(t)' <=> KeyHeldOrLost(t)
      BY <2>1 DEF RegisterInsert, KeyHeldOrLost, history
    <3>4. agents \subseteq Sid /\ \A t \in agents : origin'[t] = origin[t]
      BY <3>2
    <3>5. \A q \in Req : job'[q].inb = Placeholder \/ At(q, "supply")' \/ At(q, "terminal")' =>
            q # r /\ job'[q] = job[q]
      BY <3>1
    <3>6. \A q \in Req : origin[job[q].sess] = "launch" => origin'[job[q].sess] = "launch"
      BY <2>1, <3>2 DEF RegisterInsert
    <3>7. \A q \in Req : At(q, "terminal") => job[q].sess \in Sid
      BY BusyJob
    <3> QED
      BY <3>3, <3>4, <3>5, <3>6, <3>7 DEF PlaceholderInv
  <2>2. CASE RemoveDrop(r, s)
    <3>1. /\ job'[r].at = "eraseRow" /\ job'[r].inb = Absent
          /\ \A q \in Req \ {r} : job'[q] = job[q]
      BY <2>2, StartJob DEF RemoveDrop
    <3>2. agents' = agents /\ origin' = origin
      BY <2>2 DEF RemoveDrop
    <3>3. \A t \in Sid : headers'[t] = Placeholder => headers[t] = Placeholder
      BY <2>2 DEF RemoveDrop, Drop
    <3>4. \A t \in Sid : KeyHeldOrLost(t) => KeyHeldOrLost(t)'
      <4>1. s \in closed' /\ closed \subseteq closed' /\ keyLost' = keyLost
        BY <2>2 DEF RemoveDrop
      <4>2. \A t \in Sid \ {s} : inject'[t] = inject[t]
        BY <2>2 DEF RemoveDrop, Drop
      <4> QED
        BY <4>1, <4>2 DEF KeyHeldOrLost
    <3>5. \A q \in Req : job'[q].inb = Placeholder \/ At(q, "supply")' \/ At(q, "terminal")' =>
            q # r /\ job'[q] = job[q]
      BY <3>1
    <3>6. \A q \in Req : At(q, "terminal") => job[q].sess \in Sid
      BY BusyJob
    <3> QED
      BY <3>2, <3>3, <3>4, <3>5, <3>6 DEF PlaceholderInv
  <2>3. CASE ReinjectGet(r, s)
    <3>1. /\ job'[r].at = "reinject" /\ job'[r].inb = Absent
          /\ \A q \in Req \ {r} : job'[q] = job[q]
      BY <2>3, StartJob DEF ReinjectGet
    <3>2. /\ agents' = agents /\ origin' = origin /\ headers' = headers
          /\ \A t \in Sid : KeyHeldOrLost(t)' <=> KeyHeldOrLost(t)
      BY <2>3 DEF ReinjectGet, KeyHeldOrLost, registryVars, history
    <3>3. \A q \in Req : job'[q].inb = Placeholder \/ At(q, "supply")' \/ At(q, "terminal")' =>
            q # r /\ job'[q] = job[q]
      BY <3>1
    <3>4. \A q \in Req : At(q, "terminal") => job[q].sess \in Sid
      BY BusyJob
    <3> QED
      BY <3>2, <3>3, <3>4 DEF PlaceholderInv
  <2>4. CASE ProxyLookup(r, s)
    <3>1. /\ job'[r].at = "swap" /\ job'[r].sess = s
          /\ job'[r].inb = Bare \/ (s \in agents /\ job'[r].inb = AgentCred(s))
          /\ \A q \in Req \ {r} : job'[q] = job[q]
      BY <2>4, LookupJob
    <3>2. /\ agents' = agents /\ origin' = origin /\ headers' = headers
          /\ \A t \in Sid : KeyHeldOrLost(t)' <=> KeyHeldOrLost(t)
      BY <2>4, LookupJob DEF KeyHeldOrLost
    <3>3. job'[r].inb = Placeholder => s \in agents /\ origin[s] = "launch"
      BY <3>1 DEF AgentCred
    <3>4. \A q \in Req : At(q, "supply")' \/ At(q, "terminal")' => q # r /\ job'[q] = job[q]
      BY <3>1
    <3>5. \A q \in Req : job'[q].inb = Placeholder =>
            job'[q].sess \in agents /\ origin[job'[q].sess] = "launch"
      BY <3>1, <3>3 DEF PlaceholderInv
    <3>6. \A q \in Req : At(q, "terminal") => job[q].sess \in Sid
      BY BusyJob
    <3> QED
      BY <3>2, <3>4, <3>5, <3>6 DEF PlaceholderInv
  <2>5. CASE ReplayAuth(r, s)
    BY <2>5, ReplayJob
       DEF ReplayAuth, PlaceholderInv, KeyHeldOrLost, registryVars, history
  <2>6. CASE CaseGet(r, s)
    BY <2>6, StartJob
       DEF CaseGet, PlaceholderInv, KeyHeldOrLost, registryVars, history
  <2> QED
    BY <1>2, <2>1, <2>2, <2>3, <2>4, <2>5, <2>6 DEF Arrive
<1>3. ASSUME NEW s \in Sid, AgentRefresh(s) PROVE PlaceholderInv'
  BY <1>3 DEF AgentRefresh, PlaceholderInv, KeyHeldOrLost, registryVars, history
<1>4. CASE Restart
  BY <1>4 DEF Restart, PlaceholderInv, KeyHeldOrLost, Rebind
<1>5. CASE UNCHANGED vars
  BY <1>5 DEF vars, PlaceholderInv, KeyHeldOrLost, registryVars
<1> QED
  BY <1>1, <1>2, <1>3, <1>4, <1>5 DEF Next
------------------------------------------------------------------------------
(* The inductive invariant: the properties, and what each needs to be kept *)
(* by every step of every handler.                                         *)
IInv ==
    /\ UndrawnIsNowhere
    /\ EraserHoldsLock
    /\ SavedSessionsSurvive
    /\ CleanInv
    /\ LaunchedNeedsKeyOnlyAfterLoss
    /\ PlaceholderInv

(* The strengthened invariant, from which every safety theorem follows. *)
THEOREM Invariance == Spec => []IInv
<1>1. Init => IInv
  BY IdleJob, CredKinds, NoSidFresh
     DEF Init, RegistryInit, IInv, UndrawnIsNowhere, EraserHoldsLock, SavedSessionsSurvive,
         CleanInv, LaunchedNeedsKeyOnlyAfterLoss, PlaceholderInv, At, NeedsKey, Known
<1>2. TypeOK /\ IInv /\ [Next]_vars => IInv'
  BY UndrawnStep, EraserStep, SavedStep, CleanStep, NeedsKeyStep, PlaceholderStep
     DEF IInv
<1> QED
  BY <1>1, <1>2, TypeCorrect, PTL DEF Spec

(* A session whose row was saved keeps it as long as it is live, so a      *)
(* restart at any instant re-attaches its agent.                           *)
THEOREM SavedSurvive == Spec => []SavedSessionsSurvive
  BY Invariance, PTL DEF IInv

(* A session closed with nobody else at work on it and no disk error never *)
(* comes back, in memory or on disk.                                       *)
THEOREM CleanCloseIsFinal == Spec => []CleanlyClosedIsGone
<1>1. IInv => CleanlyClosedIsGone
  BY DEF IInv, CleanInv, CleanlyClosedIsGone, AuthFor
<1> QED
  BY <1>1, Invariance, PTL

(* needs_key is only ever shown for a launched session that lost its key.  *)
THEOREM NeedsKeyIsLoss == Spec => []LaunchedNeedsKeyOnlyAfterLoss
  BY Invariance, PTL DEF IInv

(* No placeholder is sent upstream for a session that still has its key.   *)
THEOREM PlaceholderIsLoss == Spec => PlaceholderLeavesOnlyAfterLoss
<1> DEFINE A == \A r \in Req : job'[r].out = Placeholder /\ job[r].out # Placeholder
                  => job'[r].sess \in keyLost \union closed
<1>1. TypeOK /\ IInv /\ [Next]_vars => [A]_vars
  <2> SUFFICES ASSUME TypeOK, IInv, Next, NEW q \in Req,
                      job'[q].out = Placeholder, job[q].out # Placeholder
               PROVE  job'[q].sess \in keyLost \union closed
    OBVIOUS
  <2> USE IdleJob, StepNames, CredKinds
  <2>1. ASSUME NEW r \in Req, Handler(r) PROVE job'[q].sess \in keyLost \union closed
    <3>1. CASE ProxySwap(r)
      BY <3>1, SwapJob
         DEF IInv, PlaceholderInv, KeyHeldOrLost, TypeOK, RegistryTypeOK
    <3>2. CASE CaseAuth(r)
      BY <3>2, CaseAuthJob
    <3>3. CASE \/ RegisterSave(r) \/ LaunchSupply(r) \/ ProxyUpstream(r)
               \/ ProxyRemember(r) \/ CaseSend(r)
      <4>1. Finish(r) \/ \E from, step \in Steps : At(r, from) /\ MoveTo(r, step)
        BY <3>3
           DEF RegisterSave, LaunchSupply, ProxyUpstream, ProxyRemember, CaseSend
      <4> QED
        BY <4>1, FinishJob, MoveJob
    <3>4. CASE \/ LaunchTerminal(r) \/ RemoveRow(r) \/ ReinjectStore(r)
               \/ ProxyEmit(r) \/ ReplaySend(r)
      BY <3>4, FinishJob
         DEF LaunchTerminal, RemoveRow, ReinjectStore, ProxyEmit, ReplaySend
    <3> QED
      BY <2>1, <3>1, <3>2, <3>3, <3>4 DEF Handler
  <2>2. ASSUME NEW r \in Req, NEW s \in Sid, Arrive(r, s)
        PROVE  job'[q].sess \in keyLost \union closed
    <3>1. CASE ReplayAuth(r, s)
      BY <3>1, ReplayJob
         DEF IInv, PlaceholderInv, KeyHeldOrLost, AuthFor, TypeOK, RegistryTypeOK
    <3>2. CASE ProxyLookup(r, s)
      BY <3>2, LookupJob
    <3>3. CASE \/ \E o \in Origins : RegisterInsert(r, s, o)
               \/ RemoveDrop(r, s) \/ ReinjectGet(r, s) \/ CaseGet(r, s)
      <4>1. \E step \in Steps : Become(r, JobAt(step, s))
        BY <3>3 DEF RegisterInsert, RemoveDrop, ReinjectGet, CaseGet
      <4> QED
        BY <4>1, StartJob
    <3> QED
      BY <2>2, <3>1, <3>2, <3>3 DEF Arrive
  <2>3. CASE \E s \in Sid : AgentRefresh(s)
    BY <2>3 DEF AgentRefresh
  <2>4. CASE Restart
    BY <2>4 DEF Restart
  <2> QED
    BY <2>1, <2>2, <2>3, <2>4 DEF Next
<1> QED
  BY <1>1, Invariance, TypeCorrect, PTL DEF Spec, PlaceholderLeavesOnlyAfterLoss
==============================================================================
