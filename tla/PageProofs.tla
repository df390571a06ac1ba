------------------------------ MODULE PageProofs ------------------------------
(***************************************************************************)
(* Theorems about four pages of the viewer that show a list or a status    *)
(* which is polled, cut and refetched: the case library, the Codex Desktop *)
(* panel, the sidebar and the hook card, for any cases, sessions, titles,  *)
(* hooks and number of requests under way; and about two forms, the curl   *)
(* sheet and the launch page.                                              *)
(***************************************************************************)
EXTENDS Viewer, FiniteSetTheorems, TLAPS

(* The page of the case library, by itself. *)

Now == [c \in Rows |-> table[c]]
CaseCalls == [Slot -> Calls \union {Free}]

(* A write that the server has done and the panel has not heard of. *)
Unheard == \E k \in Slot : calls[k].phase = "answered" /\ calls[k].kind # "run"

(* Who waits for a fetch is a call whose invalidation asked for it. *)
Waiters == \A k \in cases.waiting : calls[k].phase = "refetching"

(* The answer under way, and the list once no fetch is, are the table, but *)
(* for what the panel still has to hear of or was content with.            *)
Current ==
    /\ cases.flight = "answered" => cases.answer = Now \/ cases.reused \/ Unheard
    /\ cases.flight = "idle" =>
         cases.data = Now \/ cases.failed \/ cases.reused \/ Unheard

(* Calls with a callback belong to the dialog that is open, or was until   *)
(* the list that just came; at most one of those waited for it.            *)
RunnerHere(k) == calls[k].here /\ calls[k].kind \in {"overwrite", "snapshot", "run"}
CreatorHere(k) == calls[k].here /\ calls[k].kind = "create"
Home ==
    /\ \A k \in Slot : CreatorHere(k) => creating
    /\ \A g, k \in Slot : CreatorHere(g) /\ CreatorHere(k) => g = k
    /\ \A k \in Slot : RunnerHere(k) =>
         /\ calls[k].id # NoCase /\ calls[k].id = selectedId
         /\ Selected = selectedId \/ Over(k)
    /\ \A g, k \in Slot : RunnerHere(g) /\ Over(k) /\ Selected # selectedId => g = k
    /\ cases.data # NoData => \A g, k \in cases.waiting : g = k

(* Lists are of cases that were there once; while a fetch is awaited there *)
(* is one.                                                                 *)
Known(list) == \A c \in DOMAIN list : table[c] # NoBody
ListsAreKnown ==
    /\ cases.flight = "answered" => cases.answer \in Lists /\ Known(cases.answer)
    /\ cases.data # NoData => Known(cases.data)
    /\ cases.waiting # {} => cases.flight # "idle"

(* A row that a list has is the table's, but for a write of this case that *)
(* the panel has not heard of.                                             *)
UnheardOf(c) ==
    \E k \in Slot : /\ calls[k].phase = "answered" /\ calls[k].id = c
                    /\ calls[k].kind \in {"overwrite", "delete"}
AsInTable(list) == \A c \in DOMAIN list : list[c] = table[c] \/ UnheardOf(c)
RowsAreCurrent ==
    /\ cases.flight = "answered" => cases.reused \/ AsInTable(cases.answer)
    /\ cases.flight = "idle" /\ cases.data # NoData =>
         cases.failed \/ cases.reused \/ AsInTable(cases.data)

(* What is under way: a run of what was shown, unless it is excused, a     *)
(* delete of a case there was, and writes of bodies.                       *)
RunIsHonest(k) ==
    /\ calls[k].id \in Case /\ table[calls[k].id] # NoBody
    /\ calls[k].shown = IF calls[k].body = NoBody THEN table[calls[k].id]
                        ELSE calls[k].body
CallsAreHonest ==
    \A k \in Slot :
      /\ calls[k].kind = "run" /\ calls[k].phase = "sent" /\ ~calls[k].overlap =>
           RunIsHonest(k)
      /\ calls[k].kind \in {"overwrite", "delete"} =>
           calls[k].id \in Case /\ table[calls[k].id] # NoBody
      /\ calls[k].kind \in {"create", "snapshot", "overwrite"} /\ calls[k].phase = "sent" =>
           calls[k].body \in Body

(* A case that was made from the dialog that is open is not being deleted, *)
(* and is in the list that its call waits for.                             *)
Made(k) ==
    /\ calls[k].here /\ calls[k].kind \in {"create", "snapshot"}
    /\ calls[k].phase \in {"answered", "refetching"}
MadeIsListed ==
    \A k \in Slot : Made(k) =>
      /\ calls[k].made \in Rows
      /\ \A l \in Slot : calls[l].kind = "delete" => calls[l].id # calls[k].made
      /\ calls[k].phase = "refetching" /\ cases.flight = "answered" /\ k \in cases.waiting =>
           cases.reused \/ calls[k].made \in DOMAIN cases.answer
      /\ calls[k].phase = "refetching" /\ k \notin cases.waiting =>
           cases.failed \/ cases.reused \/ calls[k].made \in DOMAIN ListOf(cases)
------------------------------------------------------------------------------
(* The operations on a cache entry keep its type. *)
LEMMA QueryTyped ==
  ASSUME NEW D, NEW W, NEW q \in Entries(D, W)
  PROVE  /\ Asked(q) \in Entries(D, W) /\ Fetched(q) \in Entries(D, W)
         /\ Arrived(q) \in Entries(D, W) /\ Lost(q) \in Entries(D, W)
         /\ \A v \in D : Served(q, v) \in Entries(D, W)
         /\ \A k \in W : Invalidated(q, k) \in Entries(D, W)
<1>1. Asked(q) \in Entries(D, W) /\ Fetched(q) \in Entries(D, W)
  BY DEF Entries, Asked, Fetched
<1>2. Arrived(q) \in Entries(D, W) /\ Lost(q) \in Entries(D, W)
  BY DEF Entries, Arrived, Lost
<1>3. \A v \in D : Served(q, v) \in Entries(D, W)
  BY DEF Entries, Served
<1>4. \A k \in W : Invalidated(q, k) \in Entries(D, W)
  <2> TAKE k \in W
  <2>1. CASE q.flight # "idle" /\ q.data = NoData
    BY <2>1 DEF Entries, Invalidated
  <2>2. CASE ~(q.flight # "idle" /\ q.data = NoData)
    BY <1>1, <2>2 DEF Entries, Invalidated
  <2> QED
    BY <2>1, <2>2
<1> QED
  BY <1>1, <1>2, <1>3, <1>4

(* What the server answers is a list. *)
LEMMA NowIsList == Now \in Lists
<1>1. Rows \in SUBSET Case /\ Now \in [Rows -> Body]
  BY DEF Now, Rows
<1> QED
  BY <1>1 DEF Lists

(* A call that was served is a call. *)
LEMMA DeliveredTyped ==
  ASSUME NEW x \in Calls
  PROVE  /\ Delivered(x) \in Calls
         /\ \A c \in Case : [Delivered(x) EXCEPT !.made = c] \in Calls
         /\ \A c \in Case : LET y == [Delivered(x) EXCEPT !.made = c] IN
              /\ y.kind = x.kind /\ y.id = x.id /\ y.here = x.here
              /\ y.phase = "answered"
         /\ Delivered(x).kind = x.kind /\ Delivered(x).id = x.id
         /\ Delivered(x).here = x.here /\ Delivered(x).phase = "answered"
  BY DEF Calls, Delivered

(* The editor holds a text while a case is selected. *)
LEMMA EditorTyped ==
  ASSUME CasePanelTypeOK, Selected # NoCase
  PROVE  /\ Selected = selectedId /\ Selected \in Case
         /\ Editor \in Body \union {Garbage}
         /\ Editor # NoBody \/ NoBody \in Body \union {Garbage}
<1>1. Selected = selectedId /\ selectedId \in DOMAIN ListOf(cases)
  BY DEF Selected, InList
<1>2. cases.data # NoData /\ cases.data \in Lists
  BY <1>1 DEF ListOf, CasePanelTypeOK, Entries
<1>3. ListOf(cases) = cases.data
  BY <1>2 DEF ListOf
<1>4. PICK S \in SUBSET Case : cases.data \in [S -> Body]
  BY <1>2 DEF Lists
<1>5. Pretty \in Body /\ selectedId \in Case
  BY <1>1, <1>3, <1>4 DEF Pretty
<1>6. Editor \in Body \union {Garbage}
  BY <1>5 DEF Editor, CasePanelTypeOK
<1> QED
  BY <1>1, <1>5, <1>6

(* An unmount, and the sparing of those called back first, keep the type.  *)
LEMMA UnmountedTyped ==
  ASSUME NEW cs \in CaseCalls, NEW kinds
  PROVE  /\ Unmounted(cs, kinds) \in CaseCalls
         /\ \A k \in Slot : /\ Unmounted(cs, kinds)[k].phase = cs[k].phase
                            /\ Unmounted(cs, kinds)[k].kind = cs[k].kind
                            /\ Unmounted(cs, kinds)[k].id = cs[k].id
                            /\ Unmounted(cs, kinds)[k].here =>
                                 cs[k].here /\ cs[k].kind \notin kinds
<1>1. ASSUME NEW k \in Slot
      PROVE  /\ Unmounted(cs, kinds)[k] \in Calls \union {Free}
             /\ Unmounted(cs, kinds)[k].phase = cs[k].phase
             /\ Unmounted(cs, kinds)[k].kind = cs[k].kind
             /\ Unmounted(cs, kinds)[k].id = cs[k].id
             /\ Unmounted(cs, kinds)[k].here => cs[k].here /\ cs[k].kind \notin kinds
  <2>1. Unmounted(cs, kinds)[k] =
          [cs[k] EXCEPT !.here = cs[k].here /\ cs[k].kind \notin kinds]
    BY DEF Unmounted
  <2>2. CASE cs[k] \in Calls
    BY <2>1, <2>2 DEF Calls
  <2>3. CASE cs[k] = Free
    <3>1. (cs[k].here /\ cs[k].kind \notin kinds) = FALSE
      BY <2>3 DEF Free
    <3>2. Unmounted(cs, kinds)[k] = [Free EXCEPT !.here = FALSE]
      BY <2>1, <2>3, <3>1
    <3>3. Unmounted(cs, kinds)[k] = Free
      BY <3>2 DEF Free
    <3> QED
      BY <2>3, <3>3 DEF Free
  <2> QED
    BY <2>2, <2>3 DEF CaseCalls
<1>2. Unmounted(cs, kinds) \in CaseCalls
  BY <1>1 DEF CaseCalls, Unmounted
<1> QED
  BY <1>1, <1>2

(* A render changes the calls' callbacks, the selection and the draft. *)
LEMMA RenderTyped ==
  ASSUME CasePanelTypeOK, NEW cs \in CaseCalls, NEW id \in Case \union {NoCase},
         Render(id, cases, cs), UNCHANGED table, creating' \in BOOLEAN
  PROVE  /\ CasePanelTypeOK' /\ cases' = cases
         /\ \A k \in Slot : /\ calls'[k].phase = cs[k].phase
                            /\ calls'[k].kind = cs[k].kind
<1>1. CASE InList(id, cases) = Selected
  BY <1>1 DEF Render, CasePanelTypeOK, CaseCalls
<1>2. CASE InList(id, cases) # Selected
  <2>1. calls' = Unmounted(cs, {"overwrite", "snapshot", "run"})
    BY <1>2 DEF Render
  <2>2. calls' \in CaseCalls
    BY <2>1, UnmountedTyped
  <2> QED
    BY <1>2, <2>1, <2>2, UnmountedTyped DEF Render, CasePanelTypeOK, CaseCalls
<1> QED
  BY <1>1, <1>2

(* A render changes nothing of a call but its callback, which it keeps if  *)
(* the selection stays what it was.                                        *)
LEMMA RenderCalls ==
  ASSUME NEW cs \in CaseCalls, NEW id, NEW q, Render(id, q, cs)
  PROVE  \A k \in Slot :
           /\ calls'[k].phase = cs[k].phase /\ calls'[k].kind = cs[k].kind
           /\ calls'[k].id = cs[k].id
           /\ calls'[k].here => /\ cs[k].here
                                /\ \/ InList(id, q) = Selected
                                   \/ cs[k].kind \notin {"overwrite", "snapshot", "run"}
<1>1. CASE InList(id, q) = Selected
  BY <1>1 DEF Render
<1>2. CASE InList(id, q) # Selected
  <2>1. calls' = Unmounted(cs, {"overwrite", "snapshot", "run"})
    BY <1>2 DEF Render
  <2> QED
    BY <2>1, UnmountedTyped
<1> QED
  BY <1>1, <1>2

(* A call that is sent is one. *)
LEMMA SendTyped ==
  ASSUME CasePanelTypeOK, NEW kind \in Kinds, NEW id \in Case \union {NoCase},
         NEW c \in Body \union {Garbage, NoBody}, Send(kind, id, c)
  PROVE  CasePanelTypeOK'
<1>1. [Free EXCEPT !.kind = kind, !.id = id, !.body = c, !.here = TRUE,
                   !.phase = "sent"] \in Calls
  BY DEF Free, Calls
<1> QED
  BY <1>1 DEF Send, CasePanelTypeOK

(* The type invariant is inductive; one step per action. *)
LEMMA TypeNext ==
  ASSUME CasePanelTypeOK, Waiters, [CaseNext]_caseVars PROVE CasePanelTypeOK'
<1>1. cases \in Entries(Lists, Slot) /\ calls \in CaseCalls
  BY DEF CasePanelTypeOK, CaseCalls
<1>2. ASSUME NEW k \in Slot, Finish(k) PROVE CasePanelTypeOK'
  <2>1. calls[k] \in Calls
    BY <1>1, <1>2 DEF Finish, Over, CaseCalls, Free
  <2>2. calls[k].made \in Case \union {NoCase}
    BY <2>1 DEF Calls
  <2>3. [calls EXCEPT ![k] = Free] \in CaseCalls
    BY <1>1 DEF CaseCalls
  <2>4. CASE calls[k].here /\ calls[k].kind \in {"create", "snapshot"}
    BY <1>2, <2>2, <2>3, <2>4, RenderTyped DEF Finish, CasePanelTypeOK
  <2>5. CASE ~(calls[k].here /\ calls[k].kind \in {"create", "snapshot"})
    BY <1>2, <2>3, <2>5 DEF Finish, CasePanelTypeOK, CaseCalls
  <2> QED
    BY <2>4, <2>5
<1>3. CASE FetchServed
  BY <1>1, <1>3, QueryTyped, NowIsList DEF FetchServed, CasePanelTypeOK, Now
<1>4. CASE FetchArrives
  <2>1. cases' \in Entries(Lists, Slot)
    BY <1>1, <1>4, QueryTyped DEF FetchArrives
  <2>2. draft' \in Body \union {Garbage, NoBody}
    BY <1>4 DEF FetchArrives, CasePanelTypeOK
  <2>3. calls' \in CaseCalls
    BY <1>1, <1>4, UnmountedTyped DEF FetchArrives, Spared, CaseCalls
  <2> QED
    BY <1>4, <2>1, <2>2, <2>3 DEF FetchArrives, CasePanelTypeOK, CaseCalls
<1>5. CASE FetchFails
  BY <1>1, <1>5, QueryTyped DEF FetchFails, CasePanelTypeOK
<1>6. CASE Focus
  BY <1>1, <1>6, QueryTyped DEF Focus, CasePanelTypeOK
<1>7. CASE Close
  BY <1>1, <1>7, RenderTyped DEF Close, CasePanelTypeOK
<1>8. ASSUME NEW c \in Case, Open(c) PROVE CasePanelTypeOK'
  BY <1>1, <1>8, RenderTyped DEF Open, CasePanelTypeOK
<1>9. CASE OpenCreator
  BY <1>9 DEF OpenCreator, CasePanelTypeOK
<1>10. CASE CloseCreator
  BY <1>1, <1>10, UnmountedTyped DEF CloseCreator, CasePanelTypeOK, CaseCalls
<1>11. ASSUME NEW c \in Body \union {Garbage}, Type(c) PROVE CasePanelTypeOK'
  BY <1>11 DEF Type, CasePanelTypeOK
<1>12. ASSUME NEW c \in Body, SaveNew(c) PROVE CasePanelTypeOK'
  BY <1>12, SendTyped DEF SaveNew, Kinds
<1>13. CASE SaveOverwrite
  BY <1>13, SendTyped, EditorTyped DEF SaveOverwrite, Kinds
<1>14. CASE SaveSnapshot
  BY <1>14, SendTyped, EditorTyped DEF SaveSnapshot, Kinds
<1>15. ASSUME NEW c \in Case, RemoveCase(c) PROVE CasePanelTypeOK'
  BY <1>15, SendTyped DEF RemoveCase, Kinds
<1>16. CASE DoRun
  <2>1. PICK k \in Slot :
          calls' = [calls EXCEPT ![k] =
               [Free EXCEPT !.kind = "run", !.id = Selected,
                            !.body = IF Edited THEN Editor ELSE NoBody,
                            !.here = TRUE, !.phase = "sent", !.shown = Editor,
                            !.overlap = ~Settled \/ Writing(Selected)]]
    BY <1>16 DEF DoRun
  <2>2. calls'[k] \in Calls
    BY <1>1, <1>16, <2>1, EditorTyped DEF DoRun, Calls, Kinds, Free, CaseCalls
  <2>3. calls' \in CaseCalls
    BY <1>1, <2>1, <2>2 DEF CaseCalls
  <2> QED
    BY <1>16, <2>3 DEF DoRun, CasePanelTypeOK, CaseCalls
<1>17. ASSUME NEW k \in Slot, ServeNew(k) PROVE CasePanelTypeOK'
  <2>1. calls[k] \in Calls
    BY <1>1, <1>17 DEF ServeNew, CaseCalls, Free
  <2>2. PICK c \in Case :
          /\ table' = [table EXCEPT ![c] = calls[k].body]
          /\ calls' = [calls EXCEPT ![k] = [Delivered(calls[k]) EXCEPT !.made = c]]
    BY <1>17 DEF ServeNew, Fresh
  <2>3. calls'[k] \in Calls
    BY <1>1, <2>1, <2>2, DeliveredTyped DEF CaseCalls
  <2>4. calls' \in CaseCalls
    BY <1>1, <2>2, <2>3 DEF CaseCalls
  <2>5. calls[k].body \in Body \union {Gone, NoBody}
    BY <2>1 DEF Calls, Gone
  <2>6. table' \in [Case -> Body \union {NoBody, Gone}]
    BY <2>2, <2>5 DEF CasePanelTypeOK
  <2> QED
    BY <1>17, <2>4, <2>6 DEF ServeNew, CasePanelTypeOK, CaseCalls
<1>18. ASSUME NEW k \in Slot, ServeWrite(k) PROVE CasePanelTypeOK'
  <2>1. calls[k] \in Calls
    BY <1>1, <1>18 DEF ServeWrite, CaseCalls, Free
  <2>2. table' \in [Case -> Body \union {NoBody, Gone}]
    BY <1>18, <2>1 DEF ServeWrite, CasePanelTypeOK, Calls, Gone
  <2>3. ASSUME NEW l \in Slot PROVE calls'[l] \in Calls \union {Free}
    <3>1. CASE l = k
      BY <1>18, <2>1, <3>1, DeliveredTyped DEF ServeWrite
    <3>2. CASE l # k /\ calls[l] \in Calls
      BY <1>18, <3>2 DEF ServeWrite, Calls
    <3>3. CASE l # k /\ calls[l] = Free
      <4>1. (calls[l].overlap \/ (calls[l].kind = "run" /\ calls[l].id = calls[k].id))
              = FALSE
        BY <3>3 DEF Free
      <4>2. calls'[l] = [Free EXCEPT !.overlap = FALSE]
        BY <1>18, <3>3, <4>1 DEF ServeWrite
      <4> QED
        BY <4>2 DEF Free
    <3> QED
      BY <1>1, <3>1, <3>2, <3>3 DEF CaseCalls
  <2>4. calls' \in CaseCalls
    BY <1>18, <2>3 DEF ServeWrite, CaseCalls
  <2> QED
    BY <1>18, <2>2, <2>4 DEF ServeWrite, CasePanelTypeOK, CaseCalls
<1>19. ASSUME NEW k \in Slot, ServeRun(k) PROVE CasePanelTypeOK'
  <2>1. calls[k] \in Calls
    BY <1>1, <1>19 DEF ServeRun, CaseCalls, Free
  <2> QED
    BY <1>1, <1>19, <2>1, DeliveredTyped DEF ServeRun, CasePanelTypeOK, CaseCalls
<1>20. ASSUME NEW k \in Slot, Refuse(k) PROVE CasePanelTypeOK'
  BY <1>20 DEF Refuse, CasePanelTypeOK
<1>21. ASSUME NEW k \in Slot, Answer(k) PROVE CasePanelTypeOK'
  <2>1. CASE calls[k].kind = "run"
    BY <1>21, <2>1 DEF Answer, CasePanelTypeOK
  <2>2. CASE calls[k].kind # "run"
    <3>1. cases' \in Entries(Lists, Slot)
      <4>1. cases' = Invalidated(cases, k)
        BY <1>21, <2>2 DEF Answer
      <4> QED
        BY <1>1, <4>1, QueryTyped
    <3>2. ASSUME NEW l \in Slot PROVE calls'[l] \in Calls \union {Free}
      <4>1. calls[k] \in Calls
        BY <1>1, <1>21 DEF Answer, CaseCalls, Free
      <4>2. [calls[k] EXCEPT !.phase = "refetching"] \in Calls
        BY <4>1 DEF Calls
      <4>3. CASE calls[l] \in Calls
        BY <1>21, <2>2, <4>2, <4>3 DEF Answer, Calls
      <4>4. CASE calls[l] = Free
        <5>1. l \notin cases.waiting /\ l # k
          BY <1>21, <4>4 DEF Waiters, Free, Answer
        <5> QED
          BY <1>21, <2>2, <4>4, <5>1 DEF Answer
      <4> QED
        BY <1>1, <4>3, <4>4 DEF CaseCalls
    <3>3. calls' \in CaseCalls
      BY <1>21, <2>2, <3>2 DEF Answer, CaseCalls
    <3> QED
      BY <1>21, <3>1, <3>3 DEF Answer, CasePanelTypeOK, CaseCalls
  <2> QED
    BY <2>1, <2>2
<1>22. CASE UNCHANGED caseVars
  BY <1>22 DEF caseVars, CasePanelTypeOK
<1> QED
  BY <1>2, <1>3, <1>4, <1>5, <1>6, <1>7, <1>8, <1>9, <1>10, <1>11, <1>12, <1>13,
     <1>14, <1>15, <1>16, <1>17, <1>18, <1>19, <1>20, <1>21, <1>22
     DEF CaseNext, Fetching, Asking, Serving

(* Nothing but the end of its fetch ends the wait of a call. *)
LEMMA WaitersNext ==
  ASSUME CasePanelTypeOK, Waiters, [CaseNext]_caseVars PROVE Waiters'
<1>1. cases \in Entries(Lists, Slot) /\ calls \in CaseCalls
  BY DEF CasePanelTypeOK, CaseCalls
<1>2. ASSUME NEW k \in Slot, Finish(k) PROVE Waiters'
  <2>1. k \notin cases.waiting
    BY <1>2 DEF Finish, Over, Waiters
  <2>2. [calls EXCEPT ![k] = Free] \in CaseCalls
    BY <1>1 DEF CaseCalls
  <2>3. cases' = cases
    BY <1>2 DEF Finish, Render
  <2>4. \A l \in Slot : l # k => calls'[l].phase = calls[l].phase
    <3>1. CASE calls[k].here /\ calls[k].kind \in {"create", "snapshot"}
      <4>1. Render(calls[k].made, cases, [calls EXCEPT ![k] = Free])
        BY <1>2, <3>1 DEF Finish
      <4>2. \A l \in Slot : calls'[l].phase = [calls EXCEPT ![k] = Free][l].phase
        BY <2>2, <4>1, RenderCalls
      <4> QED
        BY <1>1, <4>2 DEF CaseCalls
    <3>2. CASE ~(calls[k].here /\ calls[k].kind \in {"create", "snapshot"})
      BY <1>1, <1>2, <3>2 DEF Finish, CaseCalls
    <3> QED
      BY <3>1, <3>2
  <2>5. cases.waiting \subseteq Slot
    BY <1>1 DEF Entries
  <2> QED
    BY <2>1, <2>3, <2>4, <2>5 DEF Waiters
<1>3. CASE FetchServed
  BY <1>3 DEF FetchServed, Waiters, Served
<1>4. CASE FetchArrives \/ FetchFails \/ Focus
  <2>1. cases'.waiting = {}
    BY <1>1, <1>4 DEF FetchArrives, FetchFails, Focus, Arrived, Lost, Fetched, Asked,
       Entries
  <2> QED
    BY <2>1 DEF Waiters
<1>5. ASSUME cases' = cases, \A k \in Slot : calls'[k].phase = calls[k].phase
      PROVE  Waiters'
  BY <1>1, <1>5 DEF Waiters, Entries
<1>6. CASE Close \/ \E c \in Case : Open(c)
  BY <1>1, <1>5, <1>6, UnmountedTyped DEF Close, Open, Render
<1>7. CASE OpenCreator \/ (\E c \in Body \union {Garbage} : Type(c))
           \/ UNCHANGED caseVars
  BY <1>5, <1>7 DEF OpenCreator, Type, caseVars
<1>8. CASE CloseCreator
  BY <1>1, <1>5, <1>8, UnmountedTyped DEF CloseCreator
<1>9. ASSUME NEW k \in Slot, calls[k].phase \in {"idle", "sent"}, cases' = cases,
             \A l \in Slot : l # k => calls'[l].phase = calls[l].phase
      PROVE  Waiters'
  BY <1>1, <1>9 DEF Waiters, Entries
<1>10. ASSUME NEW kind, NEW id, NEW c, Send(kind, id, c) PROVE Waiters'
  BY <1>1, <1>9, <1>10 DEF Send, Free, CaseCalls
<1>11. CASE DoRun
  BY <1>1, <1>9, <1>11 DEF DoRun, Free, CaseCalls
<1>12. ASSUME NEW k \in Slot, Serving(k) PROVE Waiters'
  <2>1. calls[k].phase = "sent" /\ cases' = cases
    BY <1>12 DEF Serving, ServeNew, ServeWrite, ServeRun, Refuse
  <2>2. CASE ServeNew(k)
    BY <1>1, <1>9, <2>1, <2>2 DEF ServeNew, CaseCalls
  <2>3. CASE ServeWrite(k)
    <3>1. \A l \in Slot : l # k => calls'[l].phase = calls[l].phase
      BY <1>1, <2>3 DEF ServeWrite, CaseCalls, Calls, Free
    <3> QED
      BY <1>9, <2>1, <3>1
  <2>4. CASE ServeRun(k) \/ Refuse(k)
    BY <1>1, <1>9, <2>1, <2>4 DEF ServeRun, Refuse, CaseCalls
  <2> QED
    BY <1>12, <2>2, <2>3, <2>4 DEF Serving
<1>13. ASSUME NEW k \in Slot, Answer(k) PROVE Waiters'
  <2>1. CASE calls[k].kind = "run"
    <3>1. k \notin cases.waiting
      BY <1>13 DEF Answer, Waiters
    <3> QED
      BY <1>1, <1>13, <2>1, <3>1 DEF Answer, Waiters, CaseCalls, Entries
  <2>2. CASE calls[k].kind # "run"
    <3>1. cases'.waiting \subseteq cases.waiting \union {k}
      BY <1>1, <1>13, <2>2 DEF Answer, Invalidated, Asked, Entries
    <3>2. \A l \in cases'.waiting : l # k => calls'[l] = calls[l]
      BY <1>1, <1>13, <2>2, <3>1 DEF Answer, Entries
    <3>3. calls[k] \in Calls
      BY <1>1, <1>13 DEF Answer, CaseCalls, Free
    <3>4. calls'[k].phase = "refetching"
      BY <1>13, <2>2, <3>3 DEF Answer, Calls
    <3> QED
      BY <3>1, <3>2, <3>4 DEF Waiters
  <2> QED
    BY <2>1, <2>2
<1> QED
  BY <1>2, <1>3, <1>4, <1>6, <1>7, <1>8, <1>10, <1>11, <1>12, <1>13
     DEF CaseNext, Fetching, Asking, SaveNew, SaveOverwrite, SaveSnapshot, RemoveCase

(* Between two changes of the table the list under way stays what it is;   *)
(* a change is unheard of until an invalidation asks for another list.     *)
LEMMA CurrentNext ==
  ASSUME CasePanelTypeOK, Current, [CaseNext]_caseVars PROVE Current'
<1>1. cases \in Entries(Lists, Slot) /\ calls \in CaseCalls
  BY DEF CasePanelTypeOK, CaseCalls
<1>2. ASSUME table' = table, cases' = cases,
             \A l \in Slot : calls[l].phase = "answered" =>
                calls'[l].phase = "answered" /\ calls'[l].kind = calls[l].kind
      PROVE  Current'
  BY <1>2 DEF Current, Unheard, Now, Rows
<1>3. ASSUME NEW k \in Slot, Finish(k) PROVE Current'
  <2>1. calls[k].phase # "answered" /\ table' = table /\ cases' = cases
    BY <1>3 DEF Finish, Over, Render
  <2>2. [calls EXCEPT ![k] = Free] \in CaseCalls
    BY <1>1 DEF CaseCalls
  <2>3. \A l \in Slot : l # k =>
          calls'[l].phase = calls[l].phase /\ calls'[l].kind = calls[l].kind
    <3>1. CASE calls[k].here /\ calls[k].kind \in {"create", "snapshot"}
      <4>1. Render(calls[k].made, cases, [calls EXCEPT ![k] = Free])
        BY <1>3, <3>1 DEF Finish
      <4>2. \A l \in Slot : /\ calls'[l].phase = [calls EXCEPT ![k] = Free][l].phase
                            /\ calls'[l].kind = [calls EXCEPT ![k] = Free][l].kind
        BY <2>2, <4>1, RenderCalls
      <4> QED
        BY <1>1, <4>2 DEF CaseCalls
    <3>2. CASE ~(calls[k].here /\ calls[k].kind \in {"create", "snapshot"})
      BY <1>1, <1>3, <3>2 DEF Finish, CaseCalls
    <3> QED
      BY <3>1, <3>2
  <2> QED
    BY <1>2, <2>1, <2>3
<1>4. CASE FetchServed
  BY <1>1, <1>4 DEF FetchServed, Served, Entries, Current, Now, Rows
<1>5. CASE FetchArrives
  <2>1. /\ cases'.data = cases.answer /\ cases'.flight = "idle"
        /\ cases'.reused = cases.reused
    BY <1>1, <1>5 DEF FetchArrives, Arrived, Entries
  <2>2. \A l \in Slot :
          calls'[l].phase = calls[l].phase /\ calls'[l].kind = calls[l].kind
    BY <1>1, <1>5, UnmountedTyped DEF FetchArrives, Spared
  <2>3. Now' = Now /\ (Unheard => Unheard')
    BY <1>5, <2>2 DEF FetchArrives, Now, Rows, Unheard
  <2> QED
    BY <1>5, <2>1, <2>3 DEF FetchArrives, Current
<1>6. CASE FetchFails \/ Focus
  BY <1>1, <1>6 DEF FetchFails, Focus, Lost, Fetched, Asked, Entries, Current
<1>7. CASE Close \/ \E c \in Case : Open(c)
  BY <1>1, <1>2, <1>7, RenderCalls DEF Close, Open, Render
<1>8. CASE OpenCreator \/ (\E c \in Body \union {Garbage} : Type(c))
           \/ UNCHANGED caseVars
  BY <1>2, <1>8 DEF OpenCreator, Type, caseVars
<1>9. CASE CloseCreator
  BY <1>1, <1>2, <1>9, UnmountedTyped DEF CloseCreator
<1>10. ASSUME NEW kind, NEW id, NEW c, Send(kind, id, c) PROVE Current'
  BY <1>1, <1>2, <1>10 DEF Send, Free, CaseCalls
<1>11. CASE DoRun
  BY <1>1, <1>2, <1>11 DEF DoRun, Free, CaseCalls
<1>12. ASSUME NEW k \in Slot, Serving(k) PROVE Current'
  <2>1. calls[k] \in Calls \/ ~Serving(k)
    BY <1>1 DEF Serving, ServeNew, ServeWrite, ServeRun, Refuse, CaseCalls, Free
  <2>2. CASE ServeNew(k) \/ ServeWrite(k)
    <3>1. calls'[k].phase = "answered" /\ calls'[k].kind = calls[k].kind
      <4>1. CASE ServeNew(k)
        BY <1>1, <1>12, <2>1, <4>1, DeliveredTyped DEF ServeNew, CaseCalls, Fresh
      <4>2. CASE ServeWrite(k)
        BY <1>1, <1>12, <2>1, <4>2, DeliveredTyped DEF ServeWrite, CaseCalls
      <4> QED
        BY <2>2, <4>1, <4>2
    <3>2. Unheard'
      BY <2>2, <3>1 DEF Unheard, ServeNew, ServeWrite
    <3> QED
      BY <2>2, <3>2 DEF Current, ServeNew, ServeWrite
  <2>3. CASE ServeRun(k) \/ Refuse(k)
    BY <1>1, <1>2, <2>3 DEF ServeRun, Refuse, CaseCalls
  <2> QED
    BY <1>12, <2>2, <2>3 DEF Serving
<1>13. ASSUME NEW k \in Slot, Answer(k) PROVE Current'
  <2>1. CASE calls[k].kind = "run"
    <3>1. Unheard => Unheard'
      BY <1>1, <1>13, <2>1 DEF Answer, Unheard, CaseCalls
    <3> QED
      BY <1>13, <2>1, <3>1 DEF Answer, Current, Now, Rows
  <2>2. CASE calls[k].kind # "run"
    BY <1>1, <1>13, <2>2 DEF Answer, Invalidated, Asked, Entries, Current
  <2> QED
    BY <2>1, <2>2
<1> QED
  BY <1>3, <1>4, <1>5, <1>6, <1>7, <1>8, <1>9, <1>10, <1>11, <1>12, <1>13
     DEF CaseNext, Fetching, Asking, SaveNew, SaveOverwrite, SaveSnapshot, RemoveCase

(* At rest the list is the table: a list is never mistaken for no list.    *)
LEMMA CurrentIsQuiet ==
  ASSUME Current PROVE QuietListIsCurrent
<1> SUFFICES ASSUME Settled, \A k \in Slot : calls[k].phase # "answered"
             PROVE  ListOf(cases) = Now
  BY DEF QuietListIsCurrent, Now
<1>1. cases.data = Now
  BY DEF Current, Settled, Unheard
<1> QED
  BY <1>1, NowIsList, CasePanelAssumption DEF ListOf
------------------------------------------------------------------------------
(* At the start the first list is asked for and nothing else under way.    *)
LEMMA Start == CaseInit => CasePanelTypeOK /\ Waiters /\ Current /\ Home
<1> SUFFICES ASSUME CaseInit PROVE CasePanelTypeOK /\ Waiters /\ Current /\ Home
  OBVIOUS
<1>1. cases = Asked(NewEntry) /\ cases.flight = "asked" /\ cases.waiting = {}
  BY DEF CaseInit, Fetched, NewEntry, Asked
<1>2. cases \in Entries(Lists, Slot)
  BY <1>1 DEF Asked, NewEntry, Entries
<1>3. CasePanelTypeOK
  BY <1>2 DEF CaseInit, CasePanelTypeOK
<1>4. Waiters /\ Current
  BY <1>1 DEF Waiters, Current
<1>5. Home
  BY <1>1 DEF CaseInit, Home, RunnerHere, CreatorHere, Free
<1> QED
  BY <1>3, <1>4, <1>5
------------------------------------------------------------------------------
(* Steps that give no call a callback it had not, and leave the dialogs.   *)
LEMMA HomeKept ==
  ASSUME Home, \A k \in Slot : ~Over(k),
         selectedId' = selectedId, creating' = creating, cases'.data = cases.data,
         cases'.data # NoData => \A g, k \in cases'.waiting : g = k,
         \A k \in Slot : CreatorHere(k)' \/ RunnerHere(k)' =>
            /\ calls[k].here /\ calls'[k].kind = calls[k].kind
            /\ calls'[k].id = calls[k].id
  PROVE  Home'
<1>1. Selected' = Selected
  BY DEF Selected, InList, ListOf
<1>2. \A k \in Slot : /\ CreatorHere(k)' => CreatorHere(k)
                      /\ RunnerHere(k)' => RunnerHere(k) /\ Selected = selectedId
  BY DEF Home, CreatorHere, RunnerHere
<1>3. \A k \in Slot : RunnerHere(k)' => calls'[k].id = calls[k].id
  OBVIOUS
<1> QED
  BY <1>1, <1>2, <1>3 DEF Home

(* A call that is sent from the dialog that is open. *)
LEMMA HomeSent ==
  ASSUME CasePanelTypeOK, Home, \A k \in Slot : ~Over(k),
         UNCHANGED <<cases, selectedId, creating>>,
         NEW k \in Slot, \A l \in Slot : l # k => calls'[l] = calls[l],
         \/ calls'[k].kind = "delete"
         \/ calls'[k].kind = "create" /\ creating /\ ~Pending("create")
         \/ /\ calls'[k].kind \in {"overwrite", "snapshot", "run"}
            /\ calls'[k].id = Selected /\ Selected # NoCase
  PROVE  Home'
<1>1. Selected' = Selected
  BY DEF Selected, InList, ListOf
<1>2. \A l \in Slot : RunnerHere(l) => Selected = selectedId
  BY DEF Home
<1>3. \A l \in Slot : RunnerHere(l)' =>
        Selected = selectedId /\ calls'[l].id = selectedId /\ calls'[l].id # NoCase
  <2> TAKE l \in Slot
  <2> HAVE RunnerHere(l)'
  <2>1. CASE l = k
    BY <2>1, EditorTyped DEF RunnerHere
  <2>2. CASE l # k
    <3>1. RunnerHere(l) /\ calls'[l] = calls[l]
      BY <2>2 DEF RunnerHere
    <3> QED
      BY <3>1 DEF Home
  <2> QED
    BY <2>1, <2>2
<1>4. \A l \in Slot : CreatorHere(l)' =>
        creating /\ (l # k => CreatorHere(l)) /\ (l = k => ~Pending("create"))
  BY DEF Home, CreatorHere
<1>5. \A l \in Slot : CreatorHere(l) => Pending("create")
  BY DEF CreatorHere, Pending
<1>6. \A g, l \in Slot : CreatorHere(g)' /\ CreatorHere(l)' => g = l
  BY <1>4, <1>5 DEF Home
<1> QED
  BY <1>1, <1>3, <1>4, <1>6 DEF Home

(* Another selection: the runner's calls keep no callback. *)
LEMMA HomeRendered ==
  ASSUME Home, NEW cs \in CaseCalls, NEW id, Render(id, cases, cs),
         \A k \in Slot : cs[k] = calls[k] \/ ~cs[k].here,
         creating' = creating \/ \A k \in Slot : ~(cs[k].here /\ cs[k].kind = "create"),
         InList(id, cases) = Selected =>
           \A k \in Slot : cs[k].here /\ cs[k].kind \in {"overwrite", "snapshot", "run"}
                             => Selected = selectedId
  PROVE  Home'
<1>1. cases' = cases /\ selectedId' = id
  BY DEF Render
<1>2. Selected' = InList(id, cases)
  BY <1>1 DEF Selected, InList, ListOf
<1>3. \A k \in Slot :
        /\ calls'[k].kind = cs[k].kind /\ calls'[k].id = cs[k].id
        /\ calls'[k].here => /\ cs[k].here
                             /\ \/ InList(id, cases) = Selected
                                \/ cs[k].kind \notin {"overwrite", "snapshot", "run"}
  BY RenderCalls
<1>4. \A k \in Slot : CreatorHere(k)' => CreatorHere(k) /\ creating' = creating
  BY <1>3 DEF CreatorHere
<1>5. ASSUME NEW k \in Slot, RunnerHere(k)'
      PROVE  /\ calls'[k].id # NoCase /\ calls'[k].id = selectedId'
             /\ Selected' = selectedId'
  <2>1. cs[k].here /\ cs[k].kind = calls'[k].kind /\ cs[k].id = calls'[k].id
    BY <1>3, <1>5 DEF RunnerHere
  <2>2. calls[k] = cs[k] /\ InList(id, cases) = Selected
    BY <1>3, <1>5, <2>1 DEF RunnerHere
  <2>3. RunnerHere(k) /\ Selected = selectedId
    BY <1>5, <2>1, <2>2 DEF RunnerHere
  <2>4. calls[k].id # NoCase /\ calls[k].id = selectedId
    BY <2>3 DEF Home
  <2>5. InList(id, cases) = id
    BY <2>2, <2>3, <2>4 DEF InList
  <2> QED
    BY <1>1, <1>2, <2>1, <2>2, <2>3, <2>4, <2>5
<1>6. \A k \in Slot : CreatorHere(k)' => creating'
  BY <1>4 DEF Home
<1>7. \A g, k \in Slot : CreatorHere(g)' /\ CreatorHere(k)' => g = k
  BY <1>4 DEF Home
<1>8. cases'.data # NoData => \A g, k \in cases'.waiting : g = k
  BY <1>1 DEF Home
<1> QED
  BY <1>5, <1>6, <1>7, <1>8 DEF Home

(* The end of a call. *)
LEMMA HomeFinished ==
  ASSUME CasePanelTypeOK, Home, NEW k \in Slot, Finish(k) PROVE Home'
<1>1. calls \in CaseCalls /\ Over(k)
  BY DEF CasePanelTypeOK, CaseCalls, Finish
<1> DEFINE rest == [calls EXCEPT ![k] = Free]
<1>2. /\ rest \in CaseCalls /\ ~rest[k].here
      /\ \A l \in Slot : l # k => rest[l] = calls[l]
  BY <1>1 DEF CaseCalls, Free
<1>3. \A l \in Slot : l # k /\ RunnerHere(l) => Selected = selectedId
  BY <1>1 DEF Home
<1> HIDE DEF rest
<1>4. CASE calls[k].here /\ calls[k].kind \in {"create", "snapshot"}
  <2>1. /\ Render(calls[k].made, cases, rest)
        /\ creating' = (creating /\ calls[k].kind # "create")
    BY <1>4 DEF Finish, rest
  <2>2. \A l \in Slot : rest[l].here /\ rest[l].kind \in {"overwrite", "snapshot", "run"}
                         => Selected = selectedId
    BY <1>2, <1>3 DEF RunnerHere
  <2>3. creating' = creating \/ \A l \in Slot : ~(rest[l].here /\ rest[l].kind = "create")
    <3>1. CASE calls[k].kind = "create"
      BY <1>2, <1>4, <3>1 DEF Home, CreatorHere
    <3>2. CASE calls[k].kind # "create"
      BY <2>1, <3>2 DEF CasePanelTypeOK
    <3> QED
      BY <3>1, <3>2
  <2>4. \A l \in Slot : rest[l] = calls[l] \/ ~rest[l].here
    BY <1>2
  <2> QED
    BY <1>2, <2>1, <2>2, <2>3, <2>4, HomeRendered
<1>5. CASE ~(calls[k].here /\ calls[k].kind \in {"create", "snapshot"})
  <2>1. calls' = rest /\ UNCHANGED <<cases, selectedId, creating>>
    BY <1>5 DEF Finish, rest
  <2>2. Selected' = Selected
    BY <2>1 DEF Selected, InList, ListOf
  <2>3. \A l \in Slot : RunnerHere(l)' => l # k /\ RunnerHere(l) /\ calls'[l] = calls[l]
    BY <1>2, <2>1 DEF RunnerHere
  <2>4. \A l \in Slot : CreatorHere(l)' => CreatorHere(l)
    BY <1>2, <2>1 DEF CreatorHere
  <2>5. \A l \in Slot : RunnerHere(l)' => /\ Selected' = selectedId'
                                          /\ calls'[l].id # NoCase
                                          /\ calls'[l].id = selectedId'
    BY <1>3, <2>1, <2>2, <2>3 DEF Home
  <2> QED
    BY <2>1, <2>4, <2>5 DEF Home
<1> QED
  BY <1>4, <1>5

(* The list arrives: who waited for it is called back although its dialog  *)
(* may be gone with its case, and no one else is.                          *)
LEMMA HomeArrived ==
  ASSUME CasePanelTypeOK, Waiters, Home, \A k \in Slot : ~Over(k), FetchArrives
  PROVE  Home'
<1>1. calls \in CaseCalls /\ cases \in Entries(Lists, Slot)
  BY DEF CasePanelTypeOK, CaseCalls
<1>2. cases'.waiting = {} /\ UNCHANGED <<selectedId, creating>>
  BY <1>1 DEF FetchArrives, Arrived, Entries
<1>3. Selected' = InList(selectedId, cases')
  BY <1>2 DEF Selected
<1>4. CASE Selected' = Selected
  <2>1. calls' = calls
    BY <1>3, <1>4 DEF FetchArrives
  <2>2. \A k \in Slot : /\ CreatorHere(k)' = CreatorHere(k)
                        /\ RunnerHere(k)' = RunnerHere(k)
    BY <2>1 DEF CreatorHere, RunnerHere
  <2> QED
    BY <1>2, <1>4, <2>1, <2>2 DEF Home
<1>5. CASE Selected' # Selected
  <2>1. calls' = Spared(Unmounted(calls, {"overwrite", "snapshot", "run"}))
    BY <1>3, <1>5 DEF FetchArrives
  <2>2. \A k \in Slot :
          /\ calls'[k].kind = calls[k].kind /\ calls'[k].id = calls[k].id
          /\ calls'[k].phase = calls[k].phase
          /\ calls'[k].here => calls[k].here
          /\ RunnerHere(k)' => k \in cases.waiting
    BY <1>1, <2>1, UnmountedTyped DEF Spared, RunnerHere
  <2>3. \A k \in Slot : /\ CreatorHere(k)' => CreatorHere(k)
                        /\ RunnerHere(k)' => RunnerHere(k)
    BY <2>2 DEF CreatorHere, RunnerHere
  <2>4. \A k \in Slot : RunnerHere(k)' =>
          calls'[k].id # NoCase /\ calls'[k].id = selectedId' /\ Over(k)'
    BY <1>2, <2>2, <2>3 DEF Home, Over, Waiters
  <2>5. \A k \in Slot : Over(k)' => k \in cases.waiting
    BY <2>2 DEF Over
  <2>6. \A k \in Slot : RunnerHere(k)' => cases.data # NoData
    <3> TAKE k \in Slot
    <3> HAVE RunnerHere(k)'
    <3>1. Selected = selectedId /\ selectedId # NoCase
      BY <2>3 DEF Home
    <3> QED
      BY <3>1 DEF Selected, InList, ListOf
  <2>7. \A g, k \in Slot : RunnerHere(g)' /\ Over(k)' => g = k
    BY <2>2, <2>5, <2>6 DEF Home
  <2>8. \A g, k \in Slot : CreatorHere(g)' /\ CreatorHere(k)' => g = k
    BY <2>3 DEF Home
  <2>9. \A k \in Slot : CreatorHere(k)' => creating'
    BY <1>2, <2>3 DEF Home
  <2> QED
    BY <1>2, <2>4, <2>7, <2>8, <2>9 DEF Home
<1> QED
  BY <1>4, <1>5

(* Every step keeps the callbacks at home. *)
LEMMA HomeNext ==
  ASSUME CasePanelTypeOK, Waiters, Home, [CaseNext]_caseVars PROVE Home'
<1>1. calls \in CaseCalls /\ cases \in Entries(Lists, Slot)
  BY DEF CasePanelTypeOK, CaseCalls
<1>2. CASE \E k \in Slot : Finish(k)
  BY <1>2, HomeFinished
<1>3. CASE UNCHANGED caseVars
  <2>1. Selected' = Selected
    BY <1>3 DEF caseVars, Selected, InList, ListOf
  <2> QED
    BY <1>3, <2>1 DEF caseVars, Home, CreatorHere, RunnerHere, Over
<1>4. ASSUME \A k \in Slot : ~Over(k),
             Fetching \/ Asking \/ \E k \in Slot : Serving(k) \/ Answer(k)
      PROVE  Home'
  <2>1. CASE FetchServed \/ FetchFails \/ Focus
    <3>1. /\ UNCHANGED <<selectedId, creating, calls>>
          /\ cases'.data = cases.data /\ cases'.waiting \subseteq cases.waiting
      BY <1>1, <2>1 DEF FetchServed, FetchFails, Focus, Served, Lost, Fetched, Asked,
         Entries
    <3>2. cases'.data # NoData => \A g, k \in cases'.waiting : g = k
      BY <3>1 DEF Home
    <3> QED
      BY <1>4, <3>1, <3>2, HomeKept DEF CreatorHere, RunnerHere
  <2>2. CASE FetchArrives
    BY <1>4, <2>2, HomeArrived
  <2>3. CASE Close \/ \E c \in Case : Open(c)
    <3>1. PICK id \in Case \union {NoCase} : Render(id, cases, calls)
      BY <2>3 DEF Close, Open
    <3>2. creating' = creating
      BY <2>3 DEF Close, Open
    <3>3. \A k \in Slot :
            calls[k].here /\ calls[k].kind \in {"overwrite", "snapshot", "run"}
            => Selected = selectedId
      BY <1>4 DEF Home, RunnerHere
    <3> QED
      BY <1>1, <3>1, <3>2, <3>3, HomeRendered
  <2>4. CASE OpenCreator
    <3>1. creating' = TRUE /\ UNCHANGED <<cases, selectedId, calls>>
      BY <2>4 DEF OpenCreator
    <3>2. Selected' = Selected
      BY <3>1 DEF Selected, InList, ListOf
    <3> QED
      BY <3>1, <3>2 DEF Home, CreatorHere, RunnerHere, Over
  <2>5. CASE CloseCreator
    <3>1. creating' = FALSE /\ UNCHANGED <<cases, selectedId>>
      BY <2>5 DEF CloseCreator
    <3>2. \A k \in Slot : /\ calls'[k].phase = calls[k].phase
                          /\ calls'[k].kind = calls[k].kind
                          /\ calls'[k].id = calls[k].id
                          /\ calls'[k].here => calls[k].here /\ calls[k].kind # "create"
      BY <1>1, <2>5, UnmountedTyped DEF CloseCreator
    <3>3. \A k \in Slot : ~CreatorHere(k)' /\ (RunnerHere(k)' => RunnerHere(k))
      BY <3>2 DEF CreatorHere, RunnerHere
    <3>4. Selected' = Selected
      BY <3>1 DEF Selected, InList, ListOf
    <3>5. \A k \in Slot : RunnerHere(k)' => /\ Selected' = selectedId'
                                            /\ calls'[k].id # NoCase
                                            /\ calls'[k].id = selectedId'
      BY <1>4, <3>1, <3>2, <3>3, <3>4 DEF Home
    <3> QED
      BY <3>1, <3>3, <3>5 DEF Home
  <2>6. CASE \E c \in Body \union {Garbage} : Type(c)
    BY <1>4, <2>6, HomeKept DEF Type, CreatorHere, RunnerHere, Home
  <2>7. ASSUME NEW kind, NEW id, NEW c, Send(kind, id, c),
               \/ kind = "delete"
               \/ kind = "create" /\ creating /\ ~Pending("create")
               \/ /\ kind \in {"overwrite", "snapshot", "run"}
                  /\ id = Selected /\ Selected # NoCase
        PROVE  Home'
    <3>1. PICK k \in Slot :
            calls' = [calls EXCEPT ![k] =
              [Free EXCEPT !.kind = kind, !.id = id, !.body = c, !.here = TRUE,
                           !.phase = "sent"]]
      BY <2>7 DEF Send
    <3>2. calls'[k].kind = kind /\ calls'[k].id = id
      BY <1>1, <3>1 DEF CaseCalls, Free
    <3>3. \A l \in Slot : l # k => calls'[l] = calls[l]
      BY <1>1, <3>1 DEF CaseCalls
    <3> QED
      BY <1>4, <2>7, <3>2, <3>3, HomeSent DEF Send
  <2>8. CASE DoRun
    <3>1. PICK k \in Slot :
            calls' = [calls EXCEPT ![k] =
               [Free EXCEPT !.kind = "run", !.id = Selected,
                            !.body = IF Edited THEN Editor ELSE NoBody,
                            !.here = TRUE, !.phase = "sent", !.shown = Editor,
                            !.overlap = ~Settled \/ Writing(Selected)]]
      BY <2>8 DEF DoRun
    <3>2. calls'[k].kind = "run" /\ calls'[k].id = Selected
      BY <1>1, <3>1 DEF CaseCalls, Free
    <3>3. \A l \in Slot : l # k => calls'[l] = calls[l]
      BY <1>1, <3>1 DEF CaseCalls
    <3> QED
      BY <1>4, <2>8, <3>2, <3>3, HomeSent DEF DoRun
  <2>9. ASSUME NEW k \in Slot, Serving(k) PROVE Home'
    <3>1. UNCHANGED <<cases, selectedId, creating>> /\ calls[k] \in Calls
      BY <1>1, <2>9 DEF Serving, ServeNew, ServeWrite, ServeRun, Refuse, CaseCalls, Free
    <3>2. \A l \in Slot : calls'[l].here =>
            /\ calls[l].here /\ calls'[l].kind = calls[l].kind
            /\ calls'[l].id = calls[l].id
      <4>1. CASE ServeNew(k)
        BY <1>1, <3>1, <4>1, DeliveredTyped DEF ServeNew, CaseCalls, Fresh
      <4>2. CASE ServeWrite(k)
        BY <1>1, <3>1, <4>2, DeliveredTyped DEF ServeWrite, CaseCalls, Calls, Free
      <4>3. CASE ServeRun(k) \/ Refuse(k)
        BY <1>1, <3>1, <4>3, DeliveredTyped DEF ServeRun, Refuse, CaseCalls, Free
      <4> QED
        BY <2>9, <4>1, <4>2, <4>3 DEF Serving
    <3>3. cases'.data # NoData => \A g, l \in cases'.waiting : g = l
      BY <3>1 DEF Home
    <3> QED
      BY <1>4, <3>1, <3>2, <3>3, HomeKept DEF CreatorHere, RunnerHere
  <2>10. ASSUME NEW k \in Slot, Answer(k) PROVE Home'
    <3>1. CASE calls[k].kind = "run"
      <4>1. UNCHANGED <<cases, selectedId, creating>>
        BY <2>10, <3>1 DEF Answer
      <4>2. \A l \in Slot : calls'[l].here => calls'[l] = calls[l]
        BY <1>1, <2>10, <3>1 DEF Answer, CaseCalls, Free
      <4>3. cases'.data # NoData => \A g, l \in cases'.waiting : g = l
        BY <4>1 DEF Home
      <4> QED
        BY <1>4, <4>1, <4>2, <4>3, HomeKept DEF CreatorHere, RunnerHere
    <3>2. CASE calls[k].kind # "run"
      <4>1. UNCHANGED <<selectedId, creating>> /\ cases' = Invalidated(cases, k)
        BY <2>10, <3>2 DEF Answer
      <4>2. /\ cases'.data = cases.data
            /\ cases'.data # NoData => \A g, l \in cases'.waiting : g = l
        BY <1>1, <4>1 DEF Invalidated, Asked, Entries
      <4>3. \A l \in Slot : /\ calls'[l].here = calls[l].here
                            /\ calls'[l].kind = calls[l].kind
                            /\ calls'[l].id = calls[l].id
        BY <1>1, <2>10, <3>2 DEF Answer, CaseCalls, Calls, Free
      <4> QED
        BY <1>4, <4>1, <4>2, <4>3, HomeKept DEF CreatorHere, RunnerHere
    <3> QED
      BY <3>1, <3>2
  <2> QED
    BY <1>4, <2>1, <2>2, <2>3, <2>4, <2>5, <2>6, <2>7, <2>8, <2>9, <2>10
       DEF Fetching, Asking, SaveNew, SaveOverwrite, SaveSnapshot, RemoveCase,
           CreatorInReach
<1> QED
  BY <1>2, <1>3, <1>4 DEF CaseNext

(* Only the end of a call frees it and moves the user. *)
LEMMA HomeStep ==
  ASSUME CasePanelTypeOK, Home, [CaseNext]_caseVars PROVE AnswerStaysHome
<1> SUFFICES ASSUME NEW k \in Slot, Over(k), calls'[k] = Free,
                    selectedId' # selectedId
             PROVE  \/ calls[k].kind = "create" /\ creating
                    \/ calls[k].kind = "snapshot" /\ selectedId = calls[k].id
  BY DEF AnswerStaysHome
<1>1. PICK l \in Slot : Finish(l)
  BY DEF CaseNext, caseVars
<1>2. /\ calls[l].here /\ calls[l].kind \in {"create", "snapshot"}
      /\ Render(calls[l].made, cases, [calls EXCEPT ![l] = Free])
  BY <1>1 DEF Finish
<1>3. k = l
  <2> SUFFICES ASSUME k # l PROVE FALSE
    OBVIOUS
  <2>1. calls \in CaseCalls /\ [calls EXCEPT ![l] = Free] \in CaseCalls
    BY DEF CasePanelTypeOK, CaseCalls
  <2>2. calls'[k].kind = calls[k].kind
    BY <1>2, <2>1, RenderCalls DEF CaseCalls
  <2>3. calls[k].kind # "free"
    BY <2>1 DEF CaseCalls, Calls, Kinds, Free, Over
  <2> QED
    BY <2>2, <2>3 DEF Free
<1> QED
  BY <1>2, <1>3 DEF Home, CreatorHere, RunnerHere
------------------------------------------------------------------------------
(* A call that is what it was, but perhaps for its callback. *)
SameCall(x, y) ==
    /\ x.kind = y.kind /\ x.id = y.id /\ x.body = y.body /\ x.made = y.made
    /\ x.phase = y.phase /\ x.shown = y.shown /\ x.overlap = y.overlap
    /\ x.here => y.here

(* An unmount takes callbacks and nothing else, *)
LEMMA UnmountedSame ==
  ASSUME NEW cs \in CaseCalls, NEW kinds
  PROVE  \A k \in Slot : SameCall(Unmounted(cs, kinds)[k], cs[k])
<1> TAKE k \in Slot
<1>1. Unmounted(cs, kinds)[k] = [cs[k] EXCEPT !.here = cs[k].here /\ cs[k].kind \notin kinds]
  BY DEF Unmounted
<1>2. CASE cs[k] \in Calls
  BY <1>1, <1>2 DEF Calls, SameCall
<1>3. CASE cs[k] = Free
  BY <1>1, <1>3 DEF Free, SameCall
<1> QED
  BY <1>2, <1>3 DEF CaseCalls

(* and so does a render. *)
LEMMA RenderSame ==
  ASSUME NEW cs \in CaseCalls, NEW id, NEW q, Render(id, q, cs)
  PROVE  \A k \in Slot : SameCall(calls'[k], cs[k])
<1>1. \A k \in Slot : SameCall(cs[k], cs[k])
  BY DEF SameCall
<1> QED
  BY <1>1, UnmountedSame DEF Render

(* What each step does to the calls: the end of one, *)
LEMMA FinishCalls ==
  ASSUME CasePanelTypeOK, NEW k \in Slot, Finish(k)
  PROVE  /\ table' = table /\ cases' = cases
         /\ calls'[k].kind = "free" /\ ~calls'[k].here
         /\ \A l \in Slot : l # k => SameCall(calls'[l], calls[l])
<1> DEFINE rest == [calls EXCEPT ![k] = Free]
<1>1. /\ rest \in CaseCalls /\ rest[k].kind = "free" /\ ~rest[k].here
      /\ \A l \in Slot : l # k => rest[l] = calls[l]
  BY DEF CasePanelTypeOK, CaseCalls, Free
<1> HIDE DEF rest
<1>2. \A l \in Slot : SameCall(rest[l], rest[l])
  BY DEF SameCall
<1>3. CASE calls[k].here /\ calls[k].kind \in {"create", "snapshot"}
  <2>1. Render(calls[k].made, cases, rest)
    BY <1>3 DEF Finish, rest
  <2>2. \A l \in Slot : SameCall(calls'[l], rest[l])
    BY <1>1, <2>1, RenderSame
  <2> QED
    BY <1>1, <2>1, <2>2 DEF Finish, Render, SameCall
<1>4. CASE ~(calls[k].here /\ calls[k].kind \in {"create", "snapshot"})
  <2>1. calls' = rest /\ cases' = cases /\ table' = table
    BY <1>4 DEF Finish, rest
  <2> QED
    BY <1>1, <1>2, <2>1
<1> QED
  BY <1>3, <1>4

(* a fetch, *)
LEMMA FetchCalls ==
  ASSUME CasePanelTypeOK, Fetching
  PROVE  table' = table /\ \A l \in Slot : SameCall(calls'[l], calls[l])
<1>1. \A l \in Slot : SameCall(calls[l], calls[l])
  BY DEF SameCall
<1>2. CASE FetchServed \/ FetchFails \/ Focus
  BY <1>1, <1>2 DEF FetchServed, FetchFails, Focus
<1>3. CASE FetchArrives
  <2>1. \A l \in Slot : SameCall(Unmounted(calls, {"overwrite", "snapshot", "run"})[l], calls[l])
    BY UnmountedSame DEF CasePanelTypeOK, CaseCalls
  <2> QED
    BY <1>1, <1>3, <2>1 DEF FetchArrives, Spared
<1> QED
  BY <1>2, <1>3 DEF Fetching

(* a click or a keystroke that sends nothing, *)
LEMMA LookCalls ==
  ASSUME CasePanelTypeOK,
         \/ Close \/ OpenCreator \/ CloseCreator \/ UNCHANGED caseVars
         \/ \E c \in Case : Open(c)
         \/ \E c \in Body \union {Garbage} : Type(c)
  PROVE  table' = table /\ cases' = cases /\ \A l \in Slot : SameCall(calls'[l], calls[l])
<1>1. \A l \in Slot : SameCall(calls[l], calls[l])
  BY DEF SameCall
<1>2. calls \in CaseCalls
  BY DEF CasePanelTypeOK, CaseCalls
<1>3. CASE OpenCreator \/ UNCHANGED caseVars \/ \E c \in Body \union {Garbage} : Type(c)
  BY <1>1, <1>3 DEF OpenCreator, caseVars, Type
<1>4. CASE CloseCreator
  BY <1>2, <1>4, UnmountedSame DEF CloseCreator
<1>5. CASE Close \/ \E c \in Case : Open(c)
  <2>1. PICK id : Render(id, cases, calls)
    BY <1>5 DEF Close, Open
  <2>2. \A l \in Slot : SameCall(calls'[l], calls[l])
    BY <1>2, <2>1, RenderSame
  <2> QED
    BY <1>5, <2>1, <2>2 DEF Close, Open, Render
<1> QED
  BY <1>3, <1>4, <1>5

(* one that sends, *)
LEMMA SendCalls ==
  ASSUME CasePanelTypeOK, NEW kind, NEW id, NEW c, Send(kind, id, c)
  PROVE  /\ table' = table /\ cases' = cases
         /\ \E k \in Slot :
              /\ calls'[k].kind = kind /\ calls'[k].id = id /\ calls'[k].body = c
              /\ calls'[k].phase = "sent" /\ calls[k].phase = "idle"
              /\ \A l \in Slot : l # k => calls'[l] = calls[l]
<1>1. PICK k \in Slot :
        /\ calls[k] = Free
        /\ calls' = [calls EXCEPT ![k] =
             [Free EXCEPT !.kind = kind, !.id = id, !.body = c, !.here = TRUE,
                          !.phase = "sent"]]
  BY DEF Send
<1>2. /\ calls'[k].kind = kind /\ calls'[k].id = id /\ calls'[k].body = c
      /\ calls'[k].phase = "sent" /\ calls[k].phase = "idle"
      /\ \A l \in Slot : l # k => calls'[l] = calls[l]
  BY <1>1 DEF CasePanelTypeOK, Free
<1> QED
  BY <1>2 DEF Send

(* a run, *)
LEMMA RunCalls ==
  ASSUME CasePanelTypeOK, DoRun
  PROVE  /\ table' = table /\ cases' = cases
         /\ \E k \in Slot :
              /\ calls'[k].kind = "run" /\ calls'[k].id = Selected
              /\ calls'[k].body = IF Edited THEN Editor ELSE NoBody
              /\ calls'[k].shown = Editor
              /\ calls'[k].overlap = (~Settled \/ Writing(Selected))
              /\ calls'[k].phase = "sent" /\ calls[k].phase = "idle"
              /\ \A l \in Slot : l # k => calls'[l] = calls[l]
<1>1. PICK k \in Slot :
        /\ calls[k] = Free
        /\ calls' = [calls EXCEPT ![k] =
               [Free EXCEPT !.kind = "run", !.id = Selected,
                            !.body = IF Edited THEN Editor ELSE NoBody,
                            !.here = TRUE, !.phase = "sent", !.shown = Editor,
                            !.overlap = ~Settled \/ Writing(Selected)]]
  BY DEF DoRun
<1>2. /\ calls'[k].kind = "run" /\ calls'[k].id = Selected
      /\ calls'[k].body = IF Edited THEN Editor ELSE NoBody
      /\ calls'[k].shown = Editor
      /\ calls'[k].overlap = (~Settled \/ Writing(Selected))
      /\ calls'[k].phase = "sent" /\ calls[k].phase = "idle"
      /\ \A l \in Slot : l # k => calls'[l] = calls[l]
  BY <1>1 DEF CasePanelTypeOK, Free
<1> QED
  BY <1>2 DEF DoRun

(* a case that is made, *)
LEMMA MakeCalls ==
  ASSUME CasePanelTypeOK, NEW k \in Slot, ServeNew(k)
  PROVE  /\ cases' = cases
         /\ calls[k].phase = "sent" /\ calls[k].kind \in {"create", "snapshot"}
         /\ calls'[k].kind = calls[k].kind /\ calls'[k].id = calls[k].id
         /\ calls'[k].here = calls[k].here /\ calls'[k].phase = "answered"
         /\ calls'[k].made \in Case /\ table[calls'[k].made] = NoBody
         /\ table' = [table EXCEPT ![calls'[k].made] = calls[k].body]
         /\ \A l \in Slot : l # k => calls'[l] = calls[l]
<1>1. calls \in CaseCalls /\ calls[k] \in Calls
  BY DEF CasePanelTypeOK, CaseCalls, ServeNew, Free
<1>2. PICK c \in Fresh :
        /\ table' = [table EXCEPT ![c] = calls[k].body]
        /\ calls' = [calls EXCEPT ![k] = [Delivered(calls[k]) EXCEPT !.made = c]]
  BY DEF ServeNew
<1>3. c \in Case /\ table[c] = NoBody
  BY DEF Fresh
<1>4. [Delivered(calls[k]) EXCEPT !.made = c].made = c
  BY <1>1 DEF Delivered, Calls
<1>5. /\ calls'[k] = [Delivered(calls[k]) EXCEPT !.made = c]
      /\ \A l \in Slot : l # k => calls'[l] = calls[l]
  BY <1>1, <1>2 DEF CaseCalls
<1> QED
  <2>1. LET y == [Delivered(calls[k]) EXCEPT !.made = c] IN
          /\ y.kind = calls[k].kind /\ y.id = calls[k].id /\ y.here = calls[k].here
          /\ y.phase = "answered"
    BY <1>1, <1>3, DeliveredTyped
  <2>2. /\ cases' = cases /\ calls[k].phase = "sent"
        /\ calls[k].kind \in {"create", "snapshot"}
    BY DEF ServeNew
  <2>3. calls'[k].made = c
    BY <1>4, <1>5
  <2> QED
    BY <1>2, <1>3, <1>5, <2>1, <2>2, <2>3

(* a case that is written or deleted, which makes its runs overlap, *)
LEMMA WriteCalls ==
  ASSUME CasePanelTypeOK, CallsAreHonest, NEW k \in Slot, ServeWrite(k)
  PROVE  /\ cases' = cases /\ calls[k].id \in Case /\ calls[k].kind \in {"overwrite", "delete"}
         /\ calls[k].phase = "sent" /\ table[calls[k].id] \in Body
         /\ table' = [table EXCEPT ![calls[k].id] =
                        IF calls[k].kind = "delete" THEN Gone ELSE calls[k].body]
         /\ calls'[k].kind = calls[k].kind /\ calls'[k].id = calls[k].id
         /\ calls'[k].here = calls[k].here /\ calls'[k].phase = "answered"
         /\ \A l \in Slot : l # k =>
              /\ calls'[l].kind = calls[l].kind /\ calls'[l].id = calls[l].id
              /\ calls'[l].body = calls[l].body /\ calls'[l].made = calls[l].made
              /\ calls'[l].phase = calls[l].phase /\ calls'[l].shown = calls[l].shown
              /\ calls'[l].here = calls[l].here
              /\ ~calls'[l].overlap => ~calls[l].overlap
              /\ ~calls'[l].overlap /\ calls[l].kind = "run" => calls[l].id # calls[k].id
<1>1. calls \in CaseCalls /\ calls[k] \in Calls
  BY DEF CasePanelTypeOK, CaseCalls, ServeWrite, Free
<1>2. ASSUME NEW l \in Slot, l # k
      PROVE  /\ calls'[l].kind = calls[l].kind /\ calls'[l].id = calls[l].id
             /\ calls'[l].body = calls[l].body /\ calls'[l].made = calls[l].made
             /\ calls'[l].phase = calls[l].phase /\ calls'[l].shown = calls[l].shown
             /\ calls'[l].here = calls[l].here
             /\ calls'[l].overlap = (calls[l].overlap \/ (calls[l].kind = "run"
                                                          /\ calls[l].id = calls[k].id))
  <2>1. calls'[l] = [calls[l] EXCEPT !.overlap =
                       calls[l].overlap \/ (calls[l].kind = "run" /\ calls[l].id = calls[k].id)]
    BY <1>2 DEF ServeWrite
  <2>2. CASE calls[l] \in Calls
    BY <2>1, <2>2 DEF Calls
  <2>3. CASE calls[l] = Free
    BY <2>1, <2>3 DEF Free
  <2> QED
    BY <1>1, <2>2, <2>3 DEF CaseCalls
<1>3. calls'[k] = Delivered(calls[k])
  BY DEF ServeWrite
<1> QED
  <2>1. /\ calls'[k].kind = calls[k].kind /\ calls'[k].id = calls[k].id
        /\ calls'[k].here = calls[k].here /\ calls'[k].phase = "answered"
    BY <1>1, <1>3, DeliveredTyped
  <2>2. /\ cases' = cases /\ calls[k].kind \in {"overwrite", "delete"}
        /\ calls[k].phase = "sent" /\ table[calls[k].id] \in Body
        /\ table' = [table EXCEPT ![calls[k].id] =
                       IF calls[k].kind = "delete" THEN Gone ELSE calls[k].body]
    BY DEF ServeWrite
  <2>3. calls[k].id \in Case
    BY <2>2 DEF CallsAreHonest
  <2> QED
    BY <1>2, <2>1, <2>2, <2>3

(* a run that is served, or a request that is refused, *)
LEMMA EndedCalls ==
  ASSUME CasePanelTypeOK, NEW k \in Slot, ServeRun(k) \/ Refuse(k)
  PROVE  /\ table' = table /\ cases' = cases /\ calls[k].phase = "sent"
         /\ calls'[k].kind \in {"run", "free"} /\ calls'[k].phase # "sent"
         /\ \A l \in Slot : l # k => calls'[l] = calls[l]
<1>1. calls \in CaseCalls
  BY DEF CasePanelTypeOK, CaseCalls
<1>2. CASE ServeRun(k)
  <2>1. calls[k] \in Calls
    BY <1>1, <1>2 DEF ServeRun, CaseCalls, Free
  <2>2. calls'[k] = Delivered(calls[k])
    BY <1>1, <1>2 DEF ServeRun, CaseCalls
  <2> QED
    BY <1>1, <1>2, <2>1, <2>2, DeliveredTyped DEF ServeRun, CaseCalls
<1>3. CASE Refuse(k)
  BY <1>1, <1>3 DEF Refuse, CaseCalls, Free
<1> QED
  BY <1>2, <1>3

(* and the answer to one, which may cut the wait of another. *)
LEMMA AnswerCalls ==
  ASSUME CasePanelTypeOK, Waiters, NEW k \in Slot, Answer(k)
  PROVE  /\ table' = table /\ calls[k].phase = "answered" /\ calls'[k].phase # "sent"
         /\ calls[k].kind = "run" => cases' = cases /\ calls'[k].kind = "free"
         /\ calls[k].kind # "run" =>
              /\ cases' = Invalidated(cases, k)
              /\ calls'[k].kind = calls[k].kind /\ calls'[k].id = calls[k].id
              /\ calls'[k].made = calls[k].made /\ calls'[k].here = calls[k].here
         /\ \A l \in Slot : l # k =>
              \/ calls'[l] = calls[l] /\ (l \in cases.waiting => l \in cases'.waiting)
              \/ /\ calls'[l].phase = "cut" /\ l \in cases.waiting
                 /\ calls'[l].kind = calls[l].kind /\ calls'[l].id = calls[l].id
<1>1. calls \in CaseCalls /\ calls[k] \in Calls
  BY DEF CasePanelTypeOK, CaseCalls, Answer, Free
<1>2. CASE calls[k].kind = "run"
  BY <1>1, <1>2 DEF Answer, CaseCalls, Free
<1>3. CASE calls[k].kind # "run"
  <2>1. calls'[k] = [calls[k] EXCEPT !.phase = "refetching"]
    BY <1>3 DEF Answer
  <2>2. /\ calls'[k].kind = calls[k].kind /\ calls'[k].id = calls[k].id
        /\ calls'[k].made = calls[k].made /\ calls'[k].here = calls[k].here
        /\ calls'[k].phase = "refetching"
    BY <1>1, <2>1 DEF Calls
  <2>3. ASSUME NEW l \in Slot, l # k
        PROVE  \/ calls'[l] = calls[l] /\ (l \in cases.waiting => l \in cases'.waiting)
               \/ /\ calls'[l].phase = "cut" /\ l \in cases.waiting
                  /\ calls'[l].kind = calls[l].kind /\ calls'[l].id = calls[l].id
    <3>1. CASE l \in cases.waiting \ cases'.waiting
      <4>1. calls'[l] = [calls[l] EXCEPT !.phase = "cut"]
        BY <1>3, <2>3, <3>1 DEF Answer
      <4>2. calls[l] \in Calls
        BY <1>1, <3>1 DEF Waiters, CaseCalls, Free
      <4> QED
        BY <3>1, <4>1, <4>2 DEF Calls
    <3>2. CASE l \notin cases.waiting \ cases'.waiting
      BY <1>3, <2>3, <3>2 DEF Answer
    <3> QED
      BY <3>1, <3>2
  <2> QED
    BY <1>3, <2>2, <2>3 DEF Answer
<1> QED
  BY <1>2, <1>3
------------------------------------------------------------------------------
(* The rows of a list are cases. *)
LEMMA ListRows == ASSUME NEW list \in Lists PROVE DOMAIN list \subseteq Case
  BY DEF Lists

(* A case that was there once stays one that was. *)
LEMMA TableGrows ==
  ASSUME CasePanelTypeOK, Waiters, CallsAreHonest, [CaseNext]_caseVars
  PROVE  \A c \in Case : table[c] # NoBody => table'[c] # NoBody
<1>1. NoBody \notin Body /\ Gone # NoBody
  BY CasePanelAssumption DEF Gone
<1>2. ASSUME NEW k \in Slot, ServeNew(k) \/ ServeWrite(k)
      PROVE  \A c \in Case : table[c] # NoBody => table'[c] # NoBody
  <2>1. CASE ServeNew(k)
    BY <1>2, <2>1, MakeCalls DEF CasePanelTypeOK
  <2>2. CASE ServeWrite(k)
    <3>1. calls[k].kind = "delete" \/ calls[k].body \in Body
      BY <2>2, WriteCalls DEF CallsAreHonest
    <3> QED
      BY <1>1, <2>2, <3>1, WriteCalls DEF CasePanelTypeOK
  <2> QED
    BY <1>2, <2>1, <2>2
<1>3. CASE table' = table
  BY <1>3
<1>4. \/ table' = table
      \/ \E k \in Slot : ServeNew(k) \/ ServeWrite(k)
  <2>1. ASSUME NEW k \in Slot, Finish(k) PROVE table' = table
    BY <2>1 DEF Finish
  <2>2. Fetching => table' = table
    BY FetchCalls
  <2>3. Asking \/ UNCHANGED caseVars => table' = table
    BY LookCalls, SendCalls, RunCalls
       DEF Asking, SaveNew, SaveOverwrite, SaveSnapshot, RemoveCase
  <2>4. ASSUME NEW k \in Slot, ServeRun(k) \/ Refuse(k) \/ Answer(k) PROVE table' = table
    BY <2>4, EndedCalls, AnswerCalls
  <2> QED
    BY <2>1, <2>2, <2>3, <2>4 DEF CaseNext, Serving
<1> QED
  BY <1>2, <1>3, <1>4

(* The list changes by fetches and by invalidations only. *)
LEMMA ListSteps ==
  ASSUME CasePanelTypeOK, Waiters, CallsAreHonest, [CaseNext]_caseVars
  PROVE  \/ cases' = cases
         \/ (\A k \in Slot : ~Over(k)) /\ Fetching
         \/ \E k \in Slot : /\ Answer(k) /\ calls[k].kind # "run" /\ cases' = Invalidated(cases, k)
                            /\ table' = table /\ \A l \in Slot : ~Over(l)
<1>1. ASSUME NEW k \in Slot, Finish(k) PROVE cases' = cases
  BY <1>1, FinishCalls
<1>2. Asking \/ UNCHANGED caseVars => cases' = cases
  BY LookCalls, SendCalls, RunCalls
     DEF Asking, SaveNew, SaveOverwrite, SaveSnapshot, RemoveCase
<1>3. ASSUME NEW k \in Slot, Serving(k) PROVE cases' = cases
  BY <1>3, MakeCalls, WriteCalls, EndedCalls DEF Serving
<1>4. ASSUME NEW k \in Slot, Answer(k)
      PROVE  \/ cases' = cases
             \/ /\ calls[k].kind # "run" /\ cases' = Invalidated(cases, k) /\ table' = table
  BY <1>4, AnswerCalls
<1> QED
  BY <1>1, <1>2, <1>3, <1>4 DEF CaseNext

(* What a list holds was there; a fetch that is awaited goes on. *)
LEMMA KnownNext ==
  ASSUME CasePanelTypeOK, Waiters, ListsAreKnown, CallsAreHonest, [CaseNext]_caseVars
  PROVE  ListsAreKnown'
<1>1. cases \in Entries(Lists, Slot)
  BY DEF CasePanelTypeOK
<1>2. ASSUME NEW list \in Lists, Known(list) PROVE Known(list)'
  BY <1>2, ListRows, TableGrows DEF Known
<1>3. /\ cases.data # NoData => cases.data \in Lists
      /\ NoData \notin Lists
  BY <1>1, CasePanelAssumption DEF Entries
<1>4. CASE cases' = cases
  BY <1>2, <1>3, <1>4 DEF ListsAreKnown
<1>5. CASE FetchServed
  <2>1. /\ cases'.flight = "answered" /\ cases'.answer = Now /\ cases'.data = cases.data
    BY <1>1, <1>5 DEF FetchServed, Served, Entries, Now
  <2>2. \A c \in DOMAIN Now : c \in Case /\ table[c] # NoBody
    BY CasePanelAssumption DEF Now, Rows
  <2>3. table' = table
    BY <1>5 DEF FetchServed
  <2> QED
    BY <1>2, <1>3, <2>1, <2>2, <2>3, NowIsList DEF ListsAreKnown, Known
<1>6. CASE FetchArrives \/ FetchFails \/ Focus
  <2>1. /\ cases'.data \in {cases.data, cases.answer}
        /\ cases'.data # cases.data => cases.flight = "answered"
        /\ cases'.flight # "answered" \/ cases' = cases
        /\ cases'.waiting = {} \/ cases' = cases
    BY <1>1, <1>6 DEF FetchArrives, FetchFails, Focus, Arrived, Lost, Fetched, Asked, Entries
  <2> QED
    BY <1>2, <1>3, <1>4, <2>1 DEF ListsAreKnown
<1>7. ASSUME NEW k \in Slot, cases' = Invalidated(cases, k) PROVE ListsAreKnown'
  <2>1. /\ cases'.data = cases.data /\ cases'.flight # "idle"
        /\ \/ cases'.flight = "asked"
           \/ cases'.flight = cases.flight /\ cases'.answer = cases.answer
    BY <1>1, <1>7 DEF Invalidated, Asked, Entries
  <2> QED
    BY <1>2, <1>3, <2>1 DEF ListsAreKnown
<1> QED
  BY <1>4, <1>5, <1>6, <1>7, ListSteps DEF Fetching

(* Writes that the panel has not heard of stay so until their answers. *)
LEMMA RowsNext ==
  ASSUME CasePanelTypeOK, Waiters, ListsAreKnown, CallsAreHonest, RowsAreCurrent,
         [CaseNext]_caseVars
  PROVE  RowsAreCurrent'
<1>1. cases \in Entries(Lists, Slot)
  BY DEF CasePanelTypeOK
<1>2. ASSUME cases' = cases \/ FetchArrives, table' = table,
             \A c : UnheardOf(c) => UnheardOf(c)'
      PROVE  RowsAreCurrent'
  <2>1. CASE cases' = cases
    BY <1>2, <2>1 DEF RowsAreCurrent, AsInTable
  <2>2. CASE FetchArrives
    <3>1. /\ cases.flight = "answered" /\ cases'.data = cases.answer
          /\ cases'.flight = "idle" /\ cases'.reused = cases.reused
      BY <1>1, <2>2 DEF FetchArrives, Arrived, Entries
    <3> QED
      BY <1>2, <3>1 DEF RowsAreCurrent, AsInTable
  <2> QED
    BY <1>2, <2>1, <2>2
<1>3. ASSUME NEW k \in Slot, Finish(k) PROVE RowsAreCurrent'
  <2>1. calls[k].phase # "answered"
    BY <1>3 DEF Finish, Over
  <2>2. \A c : UnheardOf(c) => UnheardOf(c)'
    BY <1>3, <2>1, FinishCalls DEF UnheardOf, SameCall
  <2> QED
    BY <1>2, <1>3, <2>2, FinishCalls
<1>4. CASE FetchServed
  BY <1>1, <1>4 DEF FetchServed, Served, Entries, RowsAreCurrent, AsInTable
<1>5. CASE FetchFails \/ Focus
  BY <1>1, <1>5 DEF FetchFails, Focus, Lost, Fetched, Asked, Entries, RowsAreCurrent
<1>6. CASE FetchArrives
  <2>1. table' = table /\ \A l \in Slot : SameCall(calls'[l], calls[l])
    BY <1>6, FetchCalls DEF Fetching
  <2>2. \A c : UnheardOf(c) => UnheardOf(c)'
    BY <2>1 DEF UnheardOf, SameCall
  <2> QED
    BY <1>2, <1>6, <2>1, <2>2
<1>7. CASE \/ Close \/ OpenCreator \/ CloseCreator \/ UNCHANGED caseVars
           \/ \E c \in Case : Open(c)
           \/ \E c \in Body \union {Garbage} : Type(c)
  <2>1. table' = table /\ cases' = cases /\ \A l \in Slot : SameCall(calls'[l], calls[l])
    BY <1>7, LookCalls
  <2>2. \A c : UnheardOf(c) => UnheardOf(c)'
    BY <2>1 DEF UnheardOf, SameCall
  <2> QED
    BY <1>2, <2>1, <2>2
<1>8. ASSUME table' = table, cases' = cases, NEW k \in Slot, calls[k].phase # "answered",
             \A l \in Slot : l # k => calls'[l] = calls[l]
      PROVE  RowsAreCurrent'
  <2>1. \A c : UnheardOf(c) => UnheardOf(c)'
    BY <1>8 DEF UnheardOf
  <2> QED
    BY <1>2, <1>8, <2>1
<1>9. ASSUME NEW kind, NEW id, NEW c, Send(kind, id, c) PROVE RowsAreCurrent'
  BY <1>8, <1>9, SendCalls
<1>10. CASE DoRun
  BY <1>8, <1>10, RunCalls
<1>11. ASSUME NEW k \in Slot, ServeRun(k) \/ Refuse(k) PROVE RowsAreCurrent'
  BY <1>8, <1>11, EndedCalls
<1>12. ASSUME NEW k \in Slot, NEW d \in Case, cases' = cases,
              \A c \in Case : c # d => table'[c] = table[c],
              \A c \in Case : UnheardOf(c) => UnheardOf(c)',
              UnheardOf(d)' \/ table[d] = NoBody
       PROVE  RowsAreCurrent'
  <2>1. ASSUME NEW list \in Lists, AsInTable(list), Known(list) PROVE AsInTable(list)'
    BY <1>12, <2>1, ListRows DEF AsInTable, Known
  <2>2. cases.data # NoData => cases.data \in Lists
    BY <1>1 DEF Entries
  <2> QED
    BY <1>12, <2>1, <2>2 DEF RowsAreCurrent, ListsAreKnown
<1>13. ASSUME NEW k \in Slot, ServeNew(k) PROVE RowsAreCurrent'
  <2> DEFINE d == calls'[k].made
  <2>1. /\ cases' = cases /\ d \in Case /\ table[d] = NoBody
        /\ table' = [table EXCEPT ![d] = calls[k].body]
        /\ calls[k].phase = "sent" /\ \A l \in Slot : l # k => calls'[l] = calls[l]
    BY <1>13, MakeCalls
  <2> HIDE DEF d
  <2>2. \A c \in Case : c # d => table'[c] = table[c]
    BY <2>1 DEF CasePanelTypeOK
  <2>3. \A c : UnheardOf(c) => UnheardOf(c)'
    BY <2>1 DEF UnheardOf
  <2> QED
    BY <1>12, <2>1, <2>2, <2>3
<1>14. ASSUME NEW k \in Slot, ServeWrite(k) PROVE RowsAreCurrent'
  <2>0. PICK d \in Case : d = calls[k].id
    BY <1>14, WriteCalls
  <2>1. /\ cases' = cases /\ d \in Case /\ calls[k].phase = "sent"
        /\ \A c \in Case : c # d => table'[c] = table[c]
    BY <1>14, <2>0, WriteCalls DEF CasePanelTypeOK
  <2>2. UnheardOf(d)'
    <3>1. calls'[k].phase = "answered" /\ calls'[k].id = d
          /\ calls'[k].kind \in {"overwrite", "delete"}
      BY <1>14, <2>0, WriteCalls
    <3> QED
      BY <3>1 DEF UnheardOf
  <2>3. \A l \in Slot : l # k => /\ calls'[l].phase = calls[l].phase
                                 /\ calls'[l].kind = calls[l].kind
                                 /\ calls'[l].id = calls[l].id
    BY <1>14, WriteCalls
  <2>4. \A c : UnheardOf(c) => UnheardOf(c)'
    BY <2>1, <2>3 DEF UnheardOf
  <2> QED
    BY <1>12, <2>1, <2>2, <2>4
<1>15. ASSUME NEW k \in Slot, Answer(k) PROVE RowsAreCurrent'
  <2>1. CASE calls[k].kind = "run"
    <3>1. \A c : UnheardOf(c) => UnheardOf(c)'
      <4>1. \A l \in Slot : l # k => calls'[l] = calls[l]
        BY <1>15, <2>1 DEF Answer, CasePanelTypeOK
      <4> QED
        BY <2>1, <4>1 DEF UnheardOf
    <3> QED
      BY <1>2, <1>15, <2>1, <3>1, AnswerCalls
  <2>2. CASE calls[k].kind # "run"
    <3>1. cases' = Invalidated(cases, k)
      BY <1>15, <2>2, AnswerCalls
    <3>2. cases'.flight = "asked" \/ (cases'.reused /\ cases'.flight = "answered")
      BY <1>1, <3>1 DEF Invalidated, Asked, Entries
    <3> QED
      BY <3>2 DEF RowsAreCurrent
  <2> QED
    BY <2>1, <2>2
<1> QED
  BY <1>3, <1>4, <1>5, <1>6, <1>7, <1>9, <1>10, <1>11, <1>13, <1>14, <1>15
     DEF CaseNext, Fetching, Asking, Serving, SaveNew, SaveOverwrite, SaveSnapshot,
         RemoveCase

(* What the editor shows of a settled list is what the server would run,   *)
(* but for a write that is under way.                                      *)
LEMMA RunStarts ==
  ASSUME CasePanelTypeOK, ListsAreKnown, RowsAreCurrent, Selected # NoCase
  PROVE  /\ Selected \in Case /\ table[Selected] # NoBody
         /\ Settled /\ ~Writing(Selected) =>
              Editor = IF (IF Edited THEN Editor ELSE NoBody) = NoBody THEN table[Selected]
                       ELSE IF Edited THEN Editor ELSE NoBody
<1>1. Selected = selectedId /\ selectedId \in DOMAIN ListOf(cases) /\ Selected \in Case
  BY EditorTyped DEF Selected, InList
<1>2. cases.data # NoData /\ ListOf(cases) = cases.data
  BY <1>1 DEF ListOf
<1>3. table[Selected] # NoBody
  BY <1>1, <1>2 DEF ListsAreKnown, Known
<1>4. Settled /\ ~Writing(Selected) => Pretty = table[Selected]
  <2>1. UnheardOf(Selected) => Writing(Selected)
    BY DEF UnheardOf, Writing
  <2> QED
    BY <1>1, <1>2, <2>1 DEF Settled, RowsAreCurrent, AsInTable, Pretty
<1>5. Edited => Editor # NoBody
  BY DEF Edited, Editor
<1>6. ~Edited => Editor = Pretty
  BY DEF Edited, Editor
<1> QED
  BY <1>1, <1>3, <1>4, <1>5, <1>6

(* A call that is not touched stays honest unless its case is written.     *)
LEMMA HonestStays ==
  ASSUME CallsAreHonest, NEW l \in Slot, SameCall(calls'[l], calls[l]),
         \A c \in Case : table[c] # NoBody => table'[c] # NoBody,
         calls[l].kind = "run" /\ calls[l].phase = "sent" /\ ~calls[l].overlap =>
           table'[calls[l].id] = table[calls[l].id]
  PROVE  /\ calls'[l].kind = "run" /\ calls'[l].phase = "sent" /\ ~calls'[l].overlap =>
              RunIsHonest(l)'
         /\ calls'[l].kind \in {"overwrite", "delete"} =>
              calls'[l].id \in Case /\ table'[calls'[l].id] # NoBody
         /\ calls'[l].kind \in {"create", "snapshot", "overwrite"}
            /\ calls'[l].phase = "sent" => calls'[l].body \in Body
<1>1. calls'[l].kind \in {"overwrite", "delete"} =>
        calls'[l].id \in Case /\ table'[calls'[l].id] # NoBody
  BY DEF CallsAreHonest, SameCall
<1>2. /\ calls'[l].kind = "run" /\ calls'[l].phase = "sent" /\ ~calls'[l].overlap =>
           RunIsHonest(l)'
      /\ calls'[l].kind \in {"create", "snapshot", "overwrite"}
         /\ calls'[l].phase = "sent" => calls'[l].body \in Body
  BY DEF CallsAreHonest, RunIsHonest, SameCall
<1> QED
  BY <1>1, <1>2

(* Every step keeps what is under way honest. *)
LEMMA HonestNext ==
  ASSUME CasePanelTypeOK, Waiters, ListsAreKnown, RowsAreCurrent, CallsAreHonest,
         [CaseNext]_caseVars
  PROVE  CallsAreHonest'
<1> DEFINE Honest(l) ==
      /\ calls'[l].kind = "run" /\ calls'[l].phase = "sent" /\ ~calls'[l].overlap =>
           RunIsHonest(l)'
      /\ calls'[l].kind \in {"overwrite", "delete"} =>
           calls'[l].id \in Case /\ table'[calls'[l].id] # NoBody
      /\ calls'[l].kind \in {"create", "snapshot", "overwrite"} /\ calls'[l].phase = "sent" =>
           calls'[l].body \in Body
<1>1. SUFFICES ASSUME NEW l \in Slot PROVE Honest(l)
  BY DEF CallsAreHonest
<1>2. ASSUME table' = table, SameCall(calls'[l], calls[l]) PROVE Honest(l)
  BY <1>2, HonestStays
<1>3. ASSUME table' = table, calls'[l] = calls[l] PROVE Honest(l)
  BY <1>2, <1>3 DEF SameCall
<1>4. ASSUME NEW k \in Slot, Finish(k) PROVE Honest(l)
  <2>1. CASE l = k
    BY <1>4, <2>1, FinishCalls
  <2>2. CASE l # k
    BY <1>2, <1>4, <2>2, FinishCalls
  <2> QED
    BY <2>1, <2>2
<1>5. CASE Fetching
  BY <1>2, <1>5, FetchCalls
<1>6. CASE \/ Close \/ OpenCreator \/ CloseCreator \/ UNCHANGED caseVars
           \/ \E c \in Case : Open(c)
           \/ \E c \in Body \union {Garbage} : Type(c)
  BY <1>2, <1>6, LookCalls
<1>7. ASSUME NEW kind \in {"create", "snapshot", "overwrite", "delete"}, NEW id, NEW c,
             Send(kind, id, c),
             kind # "delete" => c \in Body,
             kind \in {"overwrite", "delete"} => id \in Case /\ table[id] # NoBody
      PROVE  Honest(l)
  <2>1. PICK k \in Slot :
          /\ calls'[k].kind = kind /\ calls'[k].id = id /\ calls'[k].body = c
          /\ calls'[k].phase = "sent"
          /\ \A h \in Slot : h # k => calls'[h] = calls[h]
    BY <1>7, SendCalls
  <2>2. table' = table
    BY <1>7, SendCalls
  <2>3. CASE l = k
    BY <1>7, <2>1, <2>2, <2>3
  <2>4. CASE l # k
    BY <1>3, <2>1, <2>2, <2>4
  <2> QED
    BY <2>3, <2>4
<1>8. CASE \/ SaveOverwrite \/ SaveSnapshot
           \/ (\E c \in Body : SaveNew(c)) \/ \E c \in Case : RemoveCase(c)
  <2>1. CASE \E c \in Body : SaveNew(c)
    BY <1>7, <2>1 DEF SaveNew
  <2>2. CASE SaveOverwrite
    <3>1. Selected \in Case /\ table[Selected] # NoBody /\ Editor \in Body
      BY <2>2, RunStarts, EditorTyped DEF SaveOverwrite, ValidJSON
    <3>2. Send("overwrite", Selected, Editor)
      BY <2>2 DEF SaveOverwrite
    <3> QED
      BY <1>7, <3>1, <3>2
  <2>3. CASE SaveSnapshot
    <3>1. Editor \in Body
      BY <2>3, EditorTyped DEF SaveSnapshot, ValidJSON
    <3>2. Send("snapshot", Selected, Editor)
      BY <2>3 DEF SaveSnapshot
    <3> QED
      BY <1>7, <3>1, <3>2
  <2>4. ASSUME NEW c \in Case, RemoveCase(c) PROVE Honest(l)
    <3>1. c \in DOMAIN ListOf(cases) /\ Send("delete", c, NoBody)
      BY <2>4 DEF RemoveCase
    <3>2. table[c] # NoBody
      BY <3>1 DEF ListOf, ListsAreKnown, Known
    <3> QED
      BY <1>7, <3>1, <3>2
  <2> QED
    BY <1>8, <2>1, <2>2, <2>3, <2>4
<1>9. CASE DoRun
  <2>1. Selected # NoCase
    BY <1>9 DEF DoRun
  <2>2. PICK k \in Slot :
          /\ calls'[k].kind = "run" /\ calls'[k].id = Selected
          /\ calls'[k].body = IF Edited THEN Editor ELSE NoBody
          /\ calls'[k].shown = Editor
          /\ calls'[k].overlap = (~Settled \/ Writing(Selected))
          /\ calls'[k].phase = "sent"
          /\ \A h \in Slot : h # k => calls'[h] = calls[h]
    BY <1>9, RunCalls
  <2>3. table' = table
    BY <1>9, RunCalls
  <2>4. CASE l = k
    BY <2>1, <2>2, <2>3, <2>4, RunStarts DEF RunIsHonest
  <2>5. CASE l # k
    BY <1>3, <2>2, <2>3, <2>5
  <2> QED
    BY <2>4, <2>5
<1>10. ASSUME NEW k \in Slot, ServeNew(k) PROVE Honest(l)
  <2>1. PICK d \in Case : /\ table[d] = NoBody
                          /\ table' = [table EXCEPT ![d] = calls[k].body]
    BY <1>10, MakeCalls
  <2>2. CASE l = k
    BY <1>10, <2>2, MakeCalls
  <2>3. CASE l # k
    <3>1. calls'[l] = calls[l]
      BY <1>10, <2>3, MakeCalls
    <3>2. calls[l].kind = "run" /\ calls[l].phase = "sent" /\ ~calls[l].overlap =>
            table'[calls[l].id] = table[calls[l].id]
      BY <2>1 DEF CallsAreHonest, RunIsHonest, CasePanelTypeOK
    <3>3. SameCall(calls'[l], calls[l])
      BY <3>1 DEF SameCall
    <3> QED
      BY <3>2, <3>3, TableGrows, HonestStays
  <2> QED
    BY <2>2, <2>3
<1>11. ASSUME NEW k \in Slot, ServeWrite(k) PROVE Honest(l)
  <2>1. /\ calls[k].id \in Case
        /\ \A c \in Case : c # calls[k].id => table'[c] = table[c]
    BY <1>11, WriteCalls DEF CasePanelTypeOK
  <2>2. CASE l = k
    BY <1>11, <2>1, <2>2, TableGrows, WriteCalls DEF CallsAreHonest
  <2>3. CASE l # k
    <3>1. /\ calls'[l].kind = calls[l].kind /\ calls'[l].id = calls[l].id
          /\ calls'[l].body = calls[l].body /\ calls'[l].phase = calls[l].phase
          /\ calls'[l].shown = calls[l].shown
          /\ ~calls'[l].overlap => ~calls[l].overlap
          /\ ~calls'[l].overlap /\ calls[l].kind = "run" => calls[l].id # calls[k].id
      BY <1>11, <2>3, WriteCalls
    <3>2. calls'[l].kind = "run" /\ calls'[l].phase = "sent" /\ ~calls'[l].overlap =>
            RunIsHonest(l)'
      <4> HAVE calls'[l].kind = "run" /\ calls'[l].phase = "sent" /\ ~calls'[l].overlap
      <4>1. RunIsHonest(l) /\ calls[l].id # calls[k].id
        BY <3>1 DEF CallsAreHonest
      <4>2. table'[calls[l].id] = table[calls[l].id]
        BY <2>1, <4>1 DEF RunIsHonest
      <4> QED
        BY <3>1, <4>1, <4>2 DEF RunIsHonest
    <3>3. calls'[l].kind \in {"overwrite", "delete"} =>
            calls'[l].id \in Case /\ table'[calls'[l].id] # NoBody
      BY <3>1, TableGrows DEF CallsAreHonest
    <3>4. calls'[l].kind \in {"create", "snapshot", "overwrite"}
          /\ calls'[l].phase = "sent" => calls'[l].body \in Body
      BY <3>1 DEF CallsAreHonest
    <3> QED
      BY <3>2, <3>3, <3>4
  <2> QED
    BY <2>2, <2>3
<1>12. ASSUME NEW k \in Slot, ServeRun(k) \/ Refuse(k) PROVE Honest(l)
  <2>1. CASE l = k
    BY <1>12, <2>1, EndedCalls
  <2>2. CASE l # k
    BY <1>3, <1>12, <2>2, EndedCalls
  <2> QED
    BY <2>1, <2>2
<1>13. ASSUME NEW k \in Slot, Answer(k) PROVE Honest(l)
  <2>1. table' = table
    BY <1>13, AnswerCalls
  <2>2. CASE l = k
    BY <1>13, <2>1, <2>2, AnswerCalls DEF CallsAreHonest
  <2>3. CASE l # k /\ calls'[l] = calls[l]
    BY <1>3, <2>1, <2>3
  <2>4. CASE l # k /\ calls'[l] # calls[l]
    BY <1>13, <2>1, <2>4, AnswerCalls DEF CallsAreHonest
  <2> QED
    BY <2>2, <2>3, <2>4
<1> HIDE DEF Honest
<1> QED
  BY <1>4, <1>5, <1>6, <1>8, <1>9, <1>10, <1>11, <1>12, <1>13
     DEF CaseNext, Asking, Serving

(* Who made a case has the user's eye: nothing is deleted meanwhile.       *)
LEMMA MakerIsInReach ==
  ASSUME Home, NEW k \in Slot, Made(k), \A l \in Slot : ~Over(l)
  PROVE  ~GalleryInReach
<1>1. CASE calls[k].kind = "create"
  BY <1>1 DEF Made, Home, CreatorHere, GalleryInReach
<1>2. CASE calls[k].kind = "snapshot"
  BY <1>2 DEF Made, Home, RunnerHere, GalleryInReach
<1> QED
  BY <1>1, <1>2 DEF Made

(* A step that makes no call and no list, and writes no case that was made *)
(* away.                                                                   *)
LEMMA MadeStays ==
  ASSUME MadeIsListed, cases' = cases, NEW k \in Slot, Made(k)',
         Made(k), calls'[k].made = calls[k].made, calls'[k].phase = calls[k].phase,
         calls[k].made \in Rows => calls[k].made \in Rows',
         \A l \in Slot : calls'[l].kind = "delete" =>
            calls[l].kind = "delete" /\ calls'[l].id = calls[l].id
  PROVE  /\ calls'[k].made \in Rows'
         /\ \A l \in Slot : calls'[l].kind = "delete" => calls'[l].id # calls'[k].made
         /\ calls'[k].phase = "refetching" /\ cases'.flight = "answered" /\ k \in cases'.waiting =>
              cases'.reused \/ calls'[k].made \in DOMAIN cases'.answer
         /\ calls'[k].phase = "refetching" /\ k \notin cases'.waiting =>
              cases'.failed \/ cases'.reused \/ calls'[k].made \in DOMAIN ListOf(cases')
<1>1. calls'[k].made \in Rows'
  BY DEF MadeIsListed
<1>2. \A l \in Slot : calls'[l].kind = "delete" => calls'[l].id # calls'[k].made
  BY DEF MadeIsListed
<1>3. /\ calls'[k].phase = "refetching" /\ cases'.flight = "answered" /\ k \in cases'.waiting =>
           cases'.reused \/ calls'[k].made \in DOMAIN cases'.answer
      /\ calls'[k].phase = "refetching" /\ k \notin cases'.waiting =>
           cases'.failed \/ cases'.reused \/ calls'[k].made \in DOMAIN ListOf(cases')
  BY DEF MadeIsListed
<1> QED
  BY <1>1, <1>2, <1>3

(* The fetch that a call waits for brings the case that it made.           *)
LEMMA FetchBrings ==
  ASSUME CasePanelTypeOK, ListsAreKnown, MadeIsListed, Fetching,
         \A l \in Slot : ~Over(l), NEW k \in Slot, Made(k), calls[k].phase = "refetching"
  PROVE  /\ k \in cases'.waiting /\ cases'.flight = "answered" =>
              cases'.reused \/ calls[k].made \in DOMAIN cases'.answer
         /\ k \notin cases'.waiting =>
              cases'.failed \/ cases'.reused \/ calls[k].made \in DOMAIN ListOf(cases')
<1>1. cases \in Entries(Lists, Slot) /\ k \in cases.waiting /\ calls[k].made \in Rows
  BY DEF CasePanelTypeOK, Over, MadeIsListed
<1>2. cases.flight # "idle"
  BY <1>1 DEF ListsAreKnown
<1>3. CASE FetchServed
  <2>1. cases'.flight = "answered" /\ cases'.answer = Now /\ cases'.waiting = cases.waiting
    BY <1>1, <1>3 DEF FetchServed, Served, Entries, Now
  <2>2. DOMAIN Now = Rows
    BY DEF Now
  <2> QED
    BY <1>1, <2>1, <2>2
<1>4. CASE FetchArrives
  <2>1. /\ cases.flight = "answered" /\ cases'.data = cases.answer /\ cases'.waiting = {}
        /\ cases'.reused = cases.reused
    BY <1>1, <1>4 DEF FetchArrives, Arrived, Entries
  <2>2. ListOf(cases') = cases.answer
    BY <2>1, CasePanelAssumption DEF ListOf, ListsAreKnown
  <2>3. cases.reused \/ calls[k].made \in DOMAIN cases.answer
    BY <1>1, <2>1 DEF MadeIsListed
  <2> QED
    BY <2>1, <2>2, <2>3
<1>5. CASE FetchFails
  BY <1>1, <1>5 DEF FetchFails, Lost, Entries
<1>6. CASE Focus
  BY <1>2, <1>6 DEF Focus
<1> QED
  BY <1>3, <1>4, <1>5, <1>6 DEF Fetching

(* Every step keeps what was made. *)
LEMMA MadeNext ==
  ASSUME CasePanelTypeOK, Waiters, Home, ListsAreKnown, CallsAreHonest, MadeIsListed,
         [CaseNext]_caseVars
  PROVE  MadeIsListed'
<1> DEFINE StaysMade(k) ==
      /\ calls'[k].made \in Rows'
      /\ \A l \in Slot : calls'[l].kind = "delete" => calls'[l].id # calls'[k].made
      /\ calls'[k].phase = "refetching" /\ cases'.flight = "answered" /\ k \in cases'.waiting =>
           cases'.reused \/ calls'[k].made \in DOMAIN cases'.answer
      /\ calls'[k].phase = "refetching" /\ k \notin cases'.waiting =>
           cases'.failed \/ cases'.reused \/ calls'[k].made \in DOMAIN ListOf(cases')
<1>1. SUFFICES ASSUME NEW k \in Slot, Made(k)' PROVE StaysMade(k)
  BY DEF MadeIsListed
<1>2. ASSUME table' = table, cases' = cases,
             \A l \in Slot : SameCall(calls'[l], calls[l])
                             \/ (calls'[l].kind = "free" /\ ~calls'[l].here)
      PROVE  StaysMade(k)
  <2>1. SameCall(calls'[k], calls[k])
    BY <1>1, <1>2 DEF Made
  <2>2. /\ Made(k) /\ calls'[k].made = calls[k].made /\ calls'[k].phase = calls[k].phase
    BY <1>1, <2>1 DEF Made, SameCall
  <2>3. \A l \in Slot : calls'[l].kind = "delete" =>
          calls[l].kind = "delete" /\ calls'[l].id = calls[l].id
    BY <1>2 DEF SameCall
  <2>4. Rows' = Rows
    BY <1>2 DEF Rows
  <2> QED
    BY <1>1, <1>2, <2>2, <2>3, <2>4, MadeStays
<1>3. \A l \in Slot : SameCall(calls[l], calls[l])
  BY DEF SameCall
<1>4. ASSUME NEW l \in Slot, Finish(l) PROVE StaysMade(k)
  BY <1>2, <1>4, FinishCalls
<1>5. CASE (\A l \in Slot : ~Over(l)) /\ Fetching
  <2>1. table' = table /\ \A l \in Slot : SameCall(calls'[l], calls[l])
    BY <1>5, FetchCalls
  <2>2. Made(k) /\ calls'[k].made = calls[k].made /\ calls'[k].phase = calls[k].phase
    BY <1>1, <2>1 DEF Made, SameCall
  <2>3. calls'[k].made \in Rows'
    BY <2>1, <2>2 DEF MadeIsListed, Rows
  <2>4. \A l \in Slot : calls'[l].kind = "delete" => calls'[l].id # calls'[k].made
    BY <2>1, <2>2 DEF MadeIsListed, SameCall
  <2> QED
    BY <1>5, <2>2, <2>3, <2>4, FetchBrings
<1>6. CASE \/ Close \/ OpenCreator \/ CloseCreator \/ UNCHANGED caseVars
           \/ \E c \in Case : Open(c)
           \/ \E c \in Body \union {Garbage} : Type(c)
  BY <1>2, <1>6, LookCalls
<1>7. ASSUME NEW h \in Slot, table' = table, cases' = cases, calls'[h].phase = "sent",
             \A l \in Slot : l # h => calls'[l] = calls[l],
             calls'[h].kind # "delete" \/ ~Made(k)
      PROVE  StaysMade(k)
  <2>1. k # h /\ calls'[k] = calls[k]
    BY <1>1, <1>7 DEF Made
  <2>2. Made(k)
    BY <1>1, <2>1 DEF Made
  <2>3. \A l \in Slot : calls'[l].kind = "delete" =>
          calls[l].kind = "delete" /\ calls'[l].id = calls[l].id
    BY <1>7, <2>2
  <2>4. Rows' = Rows
    BY <1>7 DEF Rows
  <2> QED
    BY <1>1, <1>7, <2>1, <2>2, <2>3, <2>4, MadeStays
<1>8. ASSUME NEW kind, NEW id, NEW c, Send(kind, id, c),
             kind # "delete" \/ (GalleryInReach /\ \A l \in Slot : ~Over(l))
      PROVE  StaysMade(k)
  BY <1>7, <1>8, SendCalls, MakerIsInReach
<1>9. CASE DoRun
  <2>1. PICK h \in Slot : /\ calls'[h].kind = "run" /\ calls'[h].phase = "sent"
                          /\ \A l \in Slot : l # h => calls'[l] = calls[l]
    BY <1>9, RunCalls
  <2> QED
    BY <1>7, <1>9, <2>1, RunCalls
<1>10. ASSUME NEW h \in Slot, ServeNew(h) PROVE StaysMade(k)
  <2>1. PICK d \in Case :
          /\ d = calls'[h].made /\ table[d] = NoBody /\ cases' = cases
          /\ table' = [table EXCEPT ![d] = calls[h].body]
          /\ calls[h].kind \in {"create", "snapshot"} /\ calls[h].phase = "sent"
          /\ calls'[h].kind = calls[h].kind /\ calls'[h].phase = "answered"
          /\ \A l \in Slot : l # h => calls'[l] = calls[l]
    BY <1>10, MakeCalls
  <2>2. calls[h].body \in Body /\ d \in Rows' /\ \A c \in Rows : c \in Rows'
    <3>1. calls[h].body \in Body
      BY <2>1 DEF CallsAreHonest
    <3> QED
      BY <2>1, <3>1 DEF Rows, CasePanelTypeOK
  <2>3. \A l \in Slot : calls'[l].kind = "delete" =>
          calls[l].kind = "delete" /\ calls'[l].id = calls[l].id
    BY <2>1
  <2>4. CASE k = h
    <3>1. \A l \in Slot : calls'[l].kind = "delete" => calls'[l].id # d
      BY <2>1, <2>3 DEF CallsAreHonest
    <3> QED
      BY <2>1, <2>2, <2>4, <3>1
  <2>5. CASE k # h
    <3>1. calls'[k] = calls[k] /\ Made(k)
      BY <1>1, <2>1, <2>5 DEF Made
    <3> QED
      BY <1>1, <2>1, <2>2, <2>3, <3>1, MadeStays
  <2> QED
    BY <2>4, <2>5
<1>11. ASSUME NEW h \in Slot, ServeWrite(h) PROVE StaysMade(k)
  <2>1. /\ cases' = cases /\ calls[h].id \in Case /\ calls[h].kind \in {"overwrite", "delete"}
        /\ table' = [table EXCEPT ![calls[h].id] =
                       IF calls[h].kind = "delete" THEN Gone ELSE calls[h].body]
        /\ calls[h].phase = "sent"
        /\ calls'[h].kind = calls[h].kind /\ calls'[h].id = calls[h].id
        /\ \A l \in Slot : l # h =>
             /\ calls'[l].kind = calls[l].kind /\ calls'[l].id = calls[l].id
             /\ calls'[l].made = calls[l].made /\ calls'[l].phase = calls[l].phase
             /\ calls'[l].here = calls[l].here
    BY <1>11, WriteCalls
  <2>2. k # h
    BY <1>1, <2>1 DEF Made
  <2>3. Made(k) /\ calls'[k].made = calls[k].made /\ calls'[k].phase = calls[k].phase
    BY <1>1, <2>1, <2>2 DEF Made
  <2>4. calls[k].made \in Rows /\ (calls[h].kind = "delete" => calls[h].id # calls[k].made)
    BY <2>3 DEF MadeIsListed
  <2>5. calls[h].kind = "overwrite" => calls[h].body \in Body
    BY <2>1 DEF CallsAreHonest
  <2>6. calls[k].made \in Rows'
    BY <2>1, <2>4, <2>5 DEF Rows, CasePanelTypeOK
  <2>7. \A l \in Slot : calls'[l].kind = "delete" =>
          calls[l].kind = "delete" /\ calls'[l].id = calls[l].id
    BY <2>1
  <2> QED
    BY <1>1, <2>1, <2>3, <2>6, <2>7, MadeStays
<1>12. ASSUME NEW h \in Slot, ServeRun(h) \/ Refuse(h) PROVE StaysMade(k)
  <2>1. /\ table' = table /\ cases' = cases /\ calls[h].phase = "sent"
        /\ calls'[h].kind \in {"run", "free"}
        /\ \A l \in Slot : l # h => calls'[l] = calls[l]
    BY <1>12, EndedCalls
  <2>2. calls'[k] = calls[k]
    BY <1>1, <2>1 DEF Made
  <2>3. Made(k) /\ Rows' = Rows
    BY <1>1, <2>1, <2>2 DEF Made, Rows
  <2>4. \A l \in Slot : calls'[l].kind = "delete" =>
          calls[l].kind = "delete" /\ calls'[l].id = calls[l].id
    BY <2>1
  <2> QED
    BY <1>1, <2>1, <2>2, <2>3, <2>4, MadeStays
<1>13. ASSUME NEW h \in Slot, Answer(h), \A l \in Slot : ~Over(l) PROVE StaysMade(k)
  <2>1. /\ table' = table /\ calls[h].phase = "answered" /\ calls'[h].phase # "sent"
        /\ calls[h].kind = "run" => cases' = cases /\ calls'[h].kind = "free"
        /\ calls[h].kind # "run" =>
             /\ cases' = Invalidated(cases, h)
             /\ calls'[h].kind = calls[h].kind /\ calls'[h].id = calls[h].id
             /\ calls'[h].made = calls[h].made /\ calls'[h].here = calls[h].here
        /\ \A l \in Slot : l # h =>
             \/ calls'[l] = calls[l] /\ (l \in cases.waiting => l \in cases'.waiting)
             \/ /\ calls'[l].phase = "cut" /\ l \in cases.waiting
                /\ calls'[l].kind = calls[l].kind /\ calls'[l].id = calls[l].id
    BY <1>13, AnswerCalls
  <2>2. \A l \in Slot : calls'[l].kind = "delete" =>
          calls[l].kind = "delete" /\ calls'[l].id = calls[l].id
    BY <2>1
  <2>3. /\ Made(k) /\ calls'[k].made = calls[k].made
        /\ k # h => calls'[k] = calls[k] /\ (k \in cases.waiting => k \in cases'.waiting)
    BY <1>1, <2>1 DEF Made
  <2>4. Rows' = Rows
    BY <2>1 DEF Rows
  <2>5. CASE calls[h].kind = "run"
    BY <1>1, <2>1, <2>2, <2>3, <2>4, <2>5, MadeStays DEF Made
  <2>6. CASE calls[h].kind # "run"
    <3>1. calls'[k].made \in Rows'
      BY <2>3, <2>4 DEF MadeIsListed
    <3>2. \A l \in Slot : calls'[l].kind = "delete" => calls'[l].id # calls'[k].made
      BY <2>2, <2>3 DEF MadeIsListed
    <3>3. /\ h \in cases'.waiting
          /\ cases'.flight = "answered" => cases'.reused
      <4>1. cases \in Entries(Lists, Slot) /\ cases' = Invalidated(cases, h)
        BY <2>1, <2>6 DEF CasePanelTypeOK
      <4> QED
        BY <4>1 DEF Invalidated, Asked, Entries
    <3>4. calls'[k].phase = "refetching" => k \in cases'.waiting
      BY <1>13, <2>3, <3>3 DEF Over
    <3> QED
      BY <3>1, <3>2, <3>3, <3>4
  <2> QED
    BY <2>5, <2>6
<1> HIDE DEF StaysMade
<1> QED
  BY <1>4, <1>5, <1>6, <1>8, <1>9, <1>10, <1>11, <1>12, <1>13
     DEF CaseNext, Asking, Serving, SaveNew, SaveOverwrite, SaveSnapshot, RemoveCase

(* The end of a call shows what it made, which is in the list by then.     *)
LEMMA MadeStep ==
  ASSUME CasePanelTypeOK, Waiters, MadeIsListed, [CaseNext]_caseVars, NEW k \in Slot,
         Over(k), calls[k].phase # "cut", calls'[k] = Free, calls[k].here,
         calls[k].kind \in {"create", "snapshot"}, ~cases.failed, ~cases.reused
  PROVE  Selected' = calls[k].made
<1>1. calls'[k].kind = "free" /\ calls[k].kind # "free"
  BY DEF Free
<1>2. PICK l \in Slot : Finish(l)
  BY <1>1 DEF CaseNext, caseVars
<1>3. l = k
  BY <1>1, <1>2, FinishCalls DEF SameCall
<1>4. selectedId' = calls[k].made /\ cases' = cases
  BY <1>2, <1>3 DEF Finish, Render
<1>5. calls[k].made \in DOMAIN ListOf(cases)
  BY DEF MadeIsListed, Made, Over
<1> QED
  BY <1>4, <1>5 DEF Selected, InList
------------------------------------------------------------------------------
(* The page keeps its types, however many requests overlap. *)
THEOREM PanelIsTyped == CaseSpec => []CasePanelTypeOK
<1>1. CasePanelTypeOK /\ Waiters /\ [CaseNext]_caseVars => (CasePanelTypeOK /\ Waiters)'
  BY TypeNext, WaitersNext
<1> QED
  BY <1>1, Start, PTL DEF CaseSpec

(* When nothing is under way, the last fetch succeeded and no invalidation *)
(* was absorbed by the first fetch, the list is the server's table.        *)
THEOREM ListIsCurrent == CaseSpec => []QuietListIsCurrent
<1>1. CasePanelTypeOK /\ Waiters /\ Current /\ [CaseNext]_caseVars
        => (CasePanelTypeOK /\ Waiters /\ Current)'
  BY TypeNext, WaitersNext, CurrentNext
<1>2. Current => QuietListIsCurrent
  BY CurrentIsQuiet
<1> QED
  BY <1>1, <1>2, Start, PTL DEF CaseSpec

(* A late answer moves the user only out of the dialog that asked.         *)
THEOREM LateAnswersStayHome == CaseSpec => AnswersStayHome
<1>1. CasePanelTypeOK /\ Waiters /\ Home /\ [CaseNext]_caseVars
        => (CasePanelTypeOK /\ Waiters /\ Home)'
  BY TypeNext, WaitersNext, HomeNext
<1>2. CasePanelTypeOK /\ Home /\ [CaseNext]_caseVars => AnswerStaysHome
  BY HomeStep
<1> QED
  BY <1>1, <1>2, Start, PTL DEF CaseSpec, AnswersStayHome

(* What is under way, and what was made. *)
Ledger ==
    /\ CasePanelTypeOK /\ Waiters /\ Home
    /\ ListsAreKnown /\ RowsAreCurrent /\ CallsAreHonest /\ MadeIsListed

(* At the start nothing is under way. *)
LEMMA LedgerInit == CaseInit => Ledger
<1> SUFFICES ASSUME CaseInit PROVE Ledger
  OBVIOUS
<1>1. CasePanelTypeOK /\ Waiters /\ Home
  BY Start
<1>2. /\ cases = Asked(NewEntry) /\ cases.flight = "asked" /\ cases.waiting = {}
      /\ cases.data = NoData
  BY DEF CaseInit, Fetched, NewEntry, Asked
<1>3. \A k \in Slot : calls[k].kind = "free" /\ ~calls[k].here
  BY DEF CaseInit, Free
<1>4. ListsAreKnown /\ RowsAreCurrent
  BY <1>2 DEF ListsAreKnown, RowsAreCurrent
<1>5. CallsAreHonest /\ MadeIsListed
  BY <1>3 DEF CallsAreHonest, MadeIsListed, Made
<1> QED
  BY <1>1, <1>4, <1>5 DEF Ledger

(* The invariant of both theorems is inductive. *)
LEMMA LedgerNext == Ledger /\ [CaseNext]_caseVars => Ledger'
  BY TypeNext, WaitersNext, HomeNext, KnownNext, RowsNext, HonestNext, MadeNext DEF Ledger

(* The server runs what the editor showed when the run was confirmed,      *)
(* unless a write of the case was under way or the list was not settled.   *)
THEOREM RunsAreHonest == CaseSpec => RunsWhatWasShown
<1>1. Ledger /\ [CaseNext]_caseVars =>
        \A k \in Slot :
         (/\ calls[k].kind = "run" /\ calls[k].phase = "sent"
          /\ calls'[k].phase = "answered" /\ ~calls[k].overlap)
         => calls[k].shown = IF calls[k].body = NoBody THEN table[calls[k].id]
                             ELSE calls[k].body
  BY DEF Ledger, CallsAreHonest, RunIsHonest
<1> QED
  BY <1>1, LedgerInit, LedgerNext, PTL DEF CaseSpec, RunsWhatWasShown

(* A case made from an open dialog is then shown, unless its refetch       *)
(* failed, was cut by another one or was the first fetch of the page.      *)
THEOREM MadeCasesAreShown == CaseSpec => MadeCaseIsShown
<1>1. Ledger /\ [CaseNext]_caseVars =>
        \A k \in Slot :
         (/\ Over(k) /\ calls[k].phase # "cut" /\ calls'[k] = Free
          /\ calls[k].here /\ calls[k].kind \in {"create", "snapshot"}
          /\ ~cases.failed /\ ~cases.reused)
         => Selected' = calls[k].made
  BY MadeStep DEF Ledger
<1> QED
  BY <1>1, LedgerInit, LedgerNext, PTL DEF CaseSpec, MadeCaseIsShown
------------------------------------------------------------------------------
(* The Codex Desktop panel. *)

(* A step of the viewer is one of the page that is shown, or none of it.   *)
LEMMA DesktopStep ==
  ASSUME Shows("desktop"), [Next]_vars
  PROVE  page' = page /\ (Desktop!DesktopNext \/ UNCHANGED Desktop!desktopVars)
  BY DEF Shows, Next, vars, shared, Desktop!desktopVars

(* A request that was served and not answered yet. *)
DesktopUnheard == \E k \in Slot : sent[k].phase = "answered"

DesktopCurrent ==
    /\ query.flight = "answered" =>
         query.answer = kept \/ query.reused \/ DesktopUnheard
    /\ query.flight = "idle" /\ query.data # NoData =>
         \/ query.data = kept \/ query.failed \/ query.reused \/ own1
         \/ DesktopUnheard

(* While the user stays, every request belongs to the panel, they differ   *)
(* in kind, and one that is served still has to be done.                   *)
DesktopOne ==
    noted \/ /\ \A k \in Slot : sent[k].phase # "idle" => sent[k].here
             /\ \A k, l \in Slot :
                  /\ sent[k].phase # "idle" /\ sent[l].phase # "idle"
                  /\ sent[k].kind = sent[l].kind
                  => k = l
             /\ \A k \in Slot : sent[k].phase = "serving" =>
                   (kept <=> sent[k].kind = "restore")

DesktopWaiters == \A k \in query.waiting : sent[k].phase = "refetching"

DesktopSound ==
    /\ Desktop!DesktopPanelTypeOK
    /\ DesktopCurrent /\ DesktopOne /\ DesktopWaiters

(* The operations on the status keep its type. *)
LEMMA DesktopQuery ==
  ASSUME NEW D, NEW W, NEW q \in Desktop!Entries(D, W)
  PROVE  /\ Desktop!Fetched(q) \in Desktop!Entries(D, W)
         /\ Desktop!Arrived(q) \in Desktop!Entries(D, W)
         /\ Desktop!Lost(q) \in Desktop!Entries(D, W)
         /\ \A v \in D : Desktop!Served(q, v) \in Desktop!Entries(D, W)
         /\ \A k \in W : Desktop!Invalidated(q, k) \in Desktop!Entries(D, W)
  BY DEF Desktop!Entries, Desktop!Asked, Desktop!Fetched, Desktop!Arrived,
     Desktop!Lost, Desktop!Served, Desktop!Invalidated

(* At the start nothing is under way. *)
LEMMA DesktopSoundInit == Desktop!DesktopInit => DesktopSound
<1> SUFFICES ASSUME Desktop!DesktopInit PROVE DesktopSound
  OBVIOUS
<1>1. /\ query.flight = "idle" /\ query.data = NoData /\ query.waiting = {}
      /\ query \in Desktop!Entries(BOOLEAN, Slot)
  BY DEF Desktop!DesktopInit, Desktop!NewEntry, Desktop!Entries
<1>2. \A k \in Slot : sent[k] = Desktop!Free /\ sent[k].phase = "idle"
  BY DEF Desktop!DesktopInit, Desktop!Free
<1>3. Desktop!DesktopPanelTypeOK
  BY <1>1 DEF Desktop!DesktopInit, Desktop!DesktopPanelTypeOK
<1> QED
  BY <1>1, <1>2, <1>3 DEF DesktopSound, DesktopCurrent, DesktopOne, DesktopWaiters

(* The type invariant. *)
LEMMA DesktopTypeNext ==
  ASSUME DesktopSound, Desktop!DesktopNext PROVE Desktop!DesktopPanelTypeOK'
<1> USE DEF DesktopSound, Desktop!DesktopPanelTypeOK
<1>1. CASE Desktop!Mount
  BY <1>1, DesktopQuery DEF Desktop!Mount
<1>2. CASE Desktop!Unmount
  <2>1. ASSUME NEW k \in Slot PROVE sent'[k] \in Desktop!Works \union {Desktop!Free}
    <3>1. sent'[k] = [sent[k] EXCEPT !.here = FALSE]
      BY <1>2 DEF Desktop!Unmount
    <3>2. CASE sent[k] \in Desktop!Works
      BY <3>1, <3>2 DEF Desktop!Works
    <3>3. CASE sent[k] = Desktop!Free
      <4>1. sent'[k] = [Desktop!Free EXCEPT !.here = FALSE]
        BY <3>1, <3>3
      <4>2. sent'[k] = Desktop!Free
        BY <4>1 DEF Desktop!Free
      <4> QED
        BY <4>2
    <3> QED
      BY <3>2, <3>3
  <2> QED
    BY <1>2, <2>1 DEF Desktop!Unmount
<1>3. CASE Desktop!Focus
  BY <1>3, DesktopQuery DEF Desktop!Focus
<1>4. CASE Desktop!StatusServed
  BY <1>4, DesktopQuery DEF Desktop!StatusServed
<1>5. CASE Desktop!StatusArrives
  BY <1>5, DesktopQuery DEF Desktop!StatusArrives, Desktop!Ended
<1>6. CASE Desktop!StatusFails
  BY <1>6, DesktopQuery DEF Desktop!StatusFails, Desktop!Ended
<1>7. ASSUME NEW kind \in {"install", "restore"}, Desktop!Click(kind)
      PROVE  Desktop!DesktopPanelTypeOK'
  BY <1>7 DEF Desktop!Click, Desktop!Works
<1>8. ASSUME NEW k \in Slot, Desktop!Begin(k) PROVE Desktop!DesktopPanelTypeOK'
  BY <1>8 DEF Desktop!Begin, Desktop!Works, Desktop!Free
<1>9. ASSUME NEW k \in Slot, Desktop!End(k) PROVE Desktop!DesktopPanelTypeOK'
  <2>1. sent[k] \in Desktop!Works
    BY <1>9 DEF Desktop!End, Desktop!Free
  <2>2. [sent[k] EXCEPT !.phase = "answered"] \in Desktop!Works
    BY <2>1 DEF Desktop!Works
  <2>3. sent' \in [Slot -> Desktop!Works \union {Desktop!Free}]
    BY <1>9, <2>2 DEF Desktop!End
  <2>4. kept' \in BOOLEAN
    BY <1>9 DEF Desktop!End
  <2> QED
    BY <1>9, <2>3, <2>4 DEF Desktop!End
<1>10. ASSUME NEW k \in Slot, Desktop!Answer(k) PROVE Desktop!DesktopPanelTypeOK'
  <2>1. CASE chosen
    <3>1. [sent[k] EXCEPT !.phase = "refetching"] \in Desktop!Works
      BY <1>10 DEF Desktop!Answer, Desktop!Works, Desktop!Free
    <3>2. sent' \in [Slot -> Desktop!Works \union {Desktop!Free}]
      BY <1>10, <2>1, <3>1 DEF Desktop!Answer
    <3>3. query' = Desktop!Invalidated(query, k)
      BY <1>10, <2>1 DEF Desktop!Answer
    <3>4. query' \in Desktop!Entries(BOOLEAN, Slot)
      BY <3>3, DesktopQuery
    <3> QED
      BY <1>10, <2>1, <3>2, <3>4 DEF Desktop!Answer
  <2>2. CASE ~chosen
    <3>1. /\ sent' = [sent EXCEPT ![k] = Desktop!Free] /\ own1' = TRUE
          /\ query' = [query EXCEPT !.reused = query.reused \/ query.flight = "answered"]
      BY <1>10, <2>2 DEF Desktop!Answer
    <3>2. query' \in Desktop!Entries(BOOLEAN, Slot)
      BY <3>1 DEF Desktop!Entries
    <3> QED
      BY <1>10, <3>1, <3>2 DEF Desktop!Answer
  <2> QED
    BY <2>1, <2>2
<1> QED
  BY <1>1, <1>2, <1>3, <1>4, <1>5, <1>6, <1>7, <1>8, <1>9, <1>10
     DEF Desktop!DesktopNext

(* A refetch that ends frees who waited for it, and no one else. *)
LEMMA DesktopEnded ==
  ASSUME DesktopSound
  PROVE  \A k \in Slot :
           /\ Desktop!Ended[k].phase = "idle" \/ Desktop!Ended[k] = sent[k]
           /\ sent[k].phase # "refetching" => Desktop!Ended[k] = sent[k]
  BY DEF Desktop!Ended, Desktop!Free

(* At rest the panel shows what the server last did, but for what it has   *)
(* not heard of or was content with.                                       *)
LEMMA DesktopCurrentNext ==
  ASSUME DesktopSound, Desktop!DesktopNext PROVE DesktopCurrent' /\ DesktopWaiters'
<1>0. query \in Desktop!Entries(BOOLEAN, Slot) /\ kept \in BOOLEAN
  BY DEF DesktopSound, Desktop!DesktopPanelTypeOK
<1> USE DEF DesktopSound, DesktopCurrent, DesktopUnheard, DesktopWaiters
<1>1. CASE Desktop!Mount
  BY <1>0, <1>1 DEF Desktop!Mount, Desktop!Fetched, Desktop!Asked, Desktop!Entries
<1>2. CASE Desktop!Unmount
  <2>1. \A k \in Slot : sent'[k].phase = sent[k].phase
    BY <1>2 DEF Desktop!Unmount, Desktop!DesktopPanelTypeOK, Desktop!Works, Desktop!Free
  <2> QED
    BY <1>0, <1>2, <2>1 DEF Desktop!Unmount, Desktop!Entries
<1>3. CASE Desktop!Focus
  BY <1>0, <1>3 DEF Desktop!Focus, Desktop!Fetched, Desktop!Asked, Desktop!Entries
<1>4. CASE Desktop!StatusServed
  BY <1>0, <1>4 DEF Desktop!StatusServed, Desktop!Served, Desktop!Entries
<1>5. CASE Desktop!StatusArrives
  BY <1>0, <1>5, DesktopEnded DEF Desktop!StatusArrives, Desktop!Arrived, Desktop!Entries
<1>6. CASE Desktop!StatusFails
  BY <1>0, <1>6, DesktopEnded DEF Desktop!StatusFails, Desktop!Lost, Desktop!Entries
<1>7. ASSUME NEW kind \in {"install", "restore"}, Desktop!Click(kind)
      PROVE  DesktopCurrent' /\ DesktopWaiters'
  <2>1. PICK k \in Slot : sent[k] = Desktop!Free /\
          sent' = [sent EXCEPT ![k] = [kind |-> kind, phase |-> "sent", here |-> TRUE]]
    BY <1>7 DEF Desktop!Click
  <2>2. \A l \in Slot : l # k => sent'[l] = sent[l]
    BY <2>1 DEF Desktop!DesktopPanelTypeOK
  <2>3. sent[k].phase = "idle"
    BY <2>1 DEF Desktop!Free
  <2> QED
    BY <1>0, <1>7, <2>2, <2>3 DEF Desktop!Click, Desktop!Entries
<1>8. ASSUME NEW k \in Slot, Desktop!Begin(k) PROVE DesktopCurrent' /\ DesktopWaiters'
  <2>1. \A l \in Slot : l # k => sent'[l] = sent[l]
    BY <1>8 DEF Desktop!Begin, Desktop!DesktopPanelTypeOK
  <2>2. sent[k].phase = "sent"
    BY <1>8 DEF Desktop!Begin
  <2> QED
    BY <1>0, <1>8, <2>1, <2>2 DEF Desktop!Begin, Desktop!Entries
<1>9. ASSUME NEW k \in Slot, Desktop!End(k) PROVE DesktopCurrent' /\ DesktopWaiters'
  <2>1. \A l \in Slot : l # k => sent'[l] = sent[l]
    BY <1>9 DEF Desktop!End, Desktop!DesktopPanelTypeOK
  <2>2. sent[k].phase = "serving" /\ (kept' = kept \/ sent'[k].phase = "answered")
    BY <1>9 DEF Desktop!End, Desktop!DesktopPanelTypeOK, Desktop!Works, Desktop!Free
  <2> QED
    BY <1>0, <1>9, <2>1, <2>2 DEF Desktop!End, Desktop!Entries
<1>10. ASSUME NEW k \in Slot, Desktop!Answer(k) PROVE DesktopCurrent' /\ DesktopWaiters'
  <2>0. sent[k].phase = "answered" /\ kept' = kept
    BY <1>10 DEF Desktop!Answer
  <2>1. CASE chosen
    <3>1. query' = Desktop!Invalidated(query, k)
      BY <1>10, <2>1 DEF Desktop!Answer
    <3>2. sent'[k].phase = "refetching"
      BY <1>10, <2>0, <2>1 DEF Desktop!Answer, Desktop!DesktopPanelTypeOK, Desktop!Works, Desktop!Free
    <3>3. \A l \in Slot : l # k /\ l \notin query.waiting => sent'[l] = sent[l]
      BY <1>10, <2>1 DEF Desktop!Answer
    <3>4. \A l \in Slot : l # k /\ l \in query.waiting' => sent'[l] = sent[l]
      BY <1>10, <2>1 DEF Desktop!Answer
    <3>5. CASE query.flight # "idle" /\ query.data = NoData
      BY <1>0, <2>0, <3>1, <3>2, <3>3, <3>4, <3>5 DEF Desktop!Invalidated, Desktop!Entries
    <3>6. CASE ~(query.flight # "idle" /\ query.data = NoData)
      BY <1>0, <2>0, <3>1, <3>2, <3>6 DEF Desktop!Invalidated, Desktop!Asked, Desktop!Entries
    <3> QED
      BY <3>5, <3>6
  <2>2. CASE ~chosen
    <3>1. \A l \in Slot : l # k => sent'[l] = sent[l]
      BY <1>10, <2>2 DEF Desktop!Answer, Desktop!DesktopPanelTypeOK
    <3>2. own1' = TRUE /\ query' = [query EXCEPT !.reused = @ \/ query.flight = "answered"]
      BY <1>10, <2>2 DEF Desktop!Answer
    <3> QED
      BY <1>0, <2>0, <3>1, <3>2 DEF Desktop!Entries
  <2> QED
    BY <2>1, <2>2
<1> QED
  BY <1>1, <1>2, <1>3, <1>4, <1>5, <1>6, <1>7, <1>8, <1>9, <1>10
     DEF Desktop!DesktopNext

(* A request is refused, or waits for its turn, until the one before it is *)
(* done: the kinds differ, and the state file is there or not.             *)
LEMMA DesktopOneNext == ASSUME DesktopSound, Desktop!DesktopNext PROVE DesktopOne'
<1>0. /\ query \in Desktop!Entries(BOOLEAN, Slot) /\ kept \in BOOLEAN /\ noted \in BOOLEAN
      /\ sent \in [Slot -> Desktop!Works \union {Desktop!Free}]
  BY DEF DesktopSound, Desktop!DesktopPanelTypeOK
<1> USE DEF DesktopOne
<1>1. CASE UNCHANGED <<kept, sent, noted>>
  BY <1>1 DEF DesktopSound
<1>2. CASE Desktop!Unmount
  <2>1. CASE noted
    BY <1>2, <2>1 DEF Desktop!Unmount
  <2>2. CASE ~noted
    <3>1. noted' \/ \A k \in Slot : ~sent[k].here
      BY <1>2 DEF Desktop!Unmount
    <3>2. noted' \/ \A k \in Slot : sent[k].phase = "idle"
      BY <2>2, <3>1 DEF DesktopSound
    <3>3. \A k \in Slot : sent'[k].phase = sent[k].phase
      BY <1>0, <1>2 DEF Desktop!Unmount, Desktop!Works, Desktop!Free
    <3> QED
      BY <3>2, <3>3
  <2> QED
    BY <2>1, <2>2
<1>3. CASE Desktop!StatusArrives \/ Desktop!StatusFails
  <2>1. sent' = Desktop!Ended /\ kept' = kept /\ noted' = noted
    BY <1>3 DEF Desktop!StatusArrives, Desktop!StatusFails
  <2> QED
    BY <2>1, DesktopEnded DEF DesktopSound
<1>4. ASSUME NEW kind \in {"install", "restore"}, Desktop!Click(kind) PROVE DesktopOne'
  <2>1. PICK k \in Slot : sent[k] = Desktop!Free /\
          sent' = [sent EXCEPT ![k] = [kind |-> kind, phase |-> "sent", here |-> TRUE]]
    BY <1>4 DEF Desktop!Click
  <2>2. \A l \in Slot : sent[l].kind = kind => ~sent[l].here
    BY <1>4 DEF Desktop!Click, Desktop!Pending
  <2>3. noted' = noted /\ kept' = kept
    BY <1>4 DEF Desktop!Click
  <2>4. /\ sent'[k].kind = kind /\ sent'[k].phase = "sent" /\ sent'[k].here
        /\ \A l \in Slot : l # k => sent'[l] = sent[l]
    BY <1>0, <2>1
  <2> QED
    BY <2>2, <2>3, <2>4 DEF DesktopSound
<1>5. ASSUME NEW k \in Slot, Desktop!Begin(k) PROVE DesktopOne'
  <2>0. sent[k].phase = "sent" /\ sent[k] \in Desktop!Works
    BY <1>0, <1>5 DEF Desktop!Begin, Desktop!Free
  <2>1. /\ noted' = noted /\ kept' = kept
        /\ \A l \in Slot : l # k => sent'[l] = sent[l]
    BY <1>0, <1>5 DEF Desktop!Begin
  <2>2. CASE kept <=> sent[k].kind = "restore"
    <3>1. sent'[k].kind = sent[k].kind /\ sent'[k].here = sent[k].here
      BY <1>0, <1>5, <2>2, <2>0 DEF Desktop!Begin, Desktop!Works
    <3> QED
      BY <2>0, <2>1, <2>2, <3>1 DEF DesktopSound
  <2>3. CASE ~(kept <=> sent[k].kind = "restore")
    <3>1. sent'[k].phase = "idle"
      BY <1>0, <1>5, <2>3 DEF Desktop!Begin, Desktop!Free
    <3> QED
      BY <2>1, <3>1 DEF DesktopSound
  <2> QED
    BY <2>2, <2>3
<1>6. ASSUME NEW k \in Slot, Desktop!End(k) PROVE DesktopOne'
  <2>1. noted' = noted /\ \A l \in Slot : l # k => sent'[l] = sent[l]
    BY <1>0, <1>6 DEF Desktop!End
  <2>2. CASE noted
    BY <2>1, <2>2
  <2>3. CASE ~noted
    <3>1. sent[k].phase = "serving" /\ sent[k].here
      BY <1>6, <2>3 DEF DesktopSound, Desktop!End
    <3>2. \A l \in Slot : l # k => sent[l].phase # "serving"
      <4> SUFFICES ASSUME NEW l \in Slot, l # k, sent[l].phase = "serving" PROVE FALSE
        OBVIOUS
      <4>1. sent[l].kind = sent[k].kind
        BY <1>0, <2>3, <3>1 DEF DesktopSound, Desktop!Works, Desktop!Free
      <4> QED
        BY <2>3, <3>1, <4>1 DEF DesktopSound
    <3>3. /\ sent'[k].phase \in {"answered", "idle"}
          /\ sent'[k].phase = "answered" =>
               sent'[k].here = sent[k].here /\ sent'[k].kind = sent[k].kind
      <4>1. \/ sent' = [sent EXCEPT ![k] = Desktop!Free]
            \/ sent' = [sent EXCEPT ![k] = [sent[k] EXCEPT !.phase = "answered"]]
        BY <1>6 DEF Desktop!End
      <4>2. sent[k] \in Desktop!Works
        BY <1>0, <3>1 DEF Desktop!Free
      <4> QED
        BY <1>0, <4>1, <4>2 DEF Desktop!Works, Desktop!Free
    <3>4. \A l \in Slot :
            /\ sent'[l].phase # "serving"
            /\ sent'[l].phase # "idle" =>
                 /\ sent[l].phase # "idle" /\ sent'[l].here = sent[l].here
                 /\ sent'[l].kind = sent[l].kind
      BY <2>1, <3>1, <3>2, <3>3
    <3> QED
      BY <3>4, <2>3 DEF DesktopSound
  <2> QED
    BY <1>0, <2>2, <2>3
<1>7. ASSUME NEW k \in Slot, Desktop!Answer(k) PROVE DesktopOne'
  <2>1. noted' = noted /\ kept' = kept /\ sent[k].phase = "answered"
    BY <1>7 DEF Desktop!Answer
  <2>2. \A l \in Slot :
          \/ sent'[l].phase = "idle"
          \/ /\ sent[l].phase # "idle" /\ sent'[l].kind = sent[l].kind
             /\ sent'[l].here = sent[l].here
             /\ sent'[l].phase = sent[l].phase \/ sent'[l].phase = "refetching"
          \/ sent'[l] = sent[l]
    BY <1>0, <1>7 DEF Desktop!Answer, Desktop!Works, Desktop!Free
  <2> QED
    BY <2>1, <2>2 DEF DesktopSound
<1>8. Desktop!Mount \/ Desktop!Focus \/ Desktop!StatusServed => UNCHANGED <<kept, sent, noted>>
  BY DEF Desktop!Mount, Desktop!Focus, Desktop!StatusServed
<1> QED
  BY <1>1, <1>2, <1>3, <1>4, <1>5, <1>6, <1>7, <1>8 DEF Desktop!DesktopNext
------------------------------------------------------------------------------
(* What the viewer keeps while it shows the panel. *)
LEMMA DesktopKept == Spec => [](Shows("desktop") => DesktopSound)
<1>1. Init => (Shows("desktop") => DesktopSound)
  BY DesktopSoundInit DEF Init, Shows
<1>2. (Shows("desktop") => DesktopSound) /\ [Next]_vars => (Shows("desktop") => DesktopSound)'
  <2> SUFFICES ASSUME Shows("desktop") => DesktopSound, [Next]_vars, Shows("desktop")'
               PROVE  DesktopSound'
    OBVIOUS
  <2>1. Shows("desktop")
    BY DEF Next, vars, Shows
  <2>2. CASE Desktop!DesktopNext
    BY <2>1, <2>2, DesktopTypeNext, DesktopCurrentNext, DesktopOneNext DEF DesktopSound
  <2>3. CASE UNCHANGED Desktop!desktopVars
    BY <2>1, <2>3 DEF Desktop!desktopVars, DesktopSound, Desktop!DesktopPanelTypeOK,
       DesktopCurrent, DesktopOne, DesktopWaiters, DesktopUnheard
  <2> QED
    BY <2>1, <2>2, <2>3, DesktopStep
<1> QED
  BY <1>1, <1>2, PTL DEF Spec

(* Two requests work on the config at once only if the user left.          *)
THEOREM RequestsOverlapAfterLeaving == Spec => []OverlapOnlyAfterLeaving
<1>1. (Shows("desktop") => DesktopSound) => OverlapOnlyAfterLeaving
  <2> SUFFICES ASSUME DesktopSound PROVE Desktop!OverlapOnlyAfterLeaving
    BY DEF OverlapOnlyAfterLeaving
  <2>1. \A k \in Slot : sent[k].phase = "serving" => sent[k].kind \in {"install", "restore"}
    BY DEF DesktopSound, Desktop!DesktopPanelTypeOK, Desktop!Works, Desktop!Free
  <2> QED
    BY <2>1 DEF DesktopSound, DesktopOne, Desktop!OverlapOnlyAfterLeaving
<1> QED
  BY <1>1, DesktopKept, PTL

(* When nothing is under way the panel offers what the config needs.       *)
LEMMA QuietStatus == Spec => [](Shows("desktop") => Desktop!QuietStatusIsCurrent)
<1>1. (Shows("desktop") => DesktopSound) => (Shows("desktop") => Desktop!QuietStatusIsCurrent)
  BY DEF DesktopSound, DesktopCurrent, DesktopUnheard, Desktop!QuietStatusIsCurrent
<1> QED
  BY <1>1, DesktopKept, PTL
------------------------------------------------------------------------------
(* The sidebar. *)

ListNow == [s \in {t \in Item : kept[t] # List!Gone} |-> kept[s]]
ListUnheard == \E k \in Slot : sent[k].phase = "answered"

(* The list, and the answer under way, are what the server has, but for    *)
(* what the sidebar has not heard of or was content with.                  *)
ListCurrent ==
    /\ query.flight = "answered" => query.answer = ListNow \/ query.reused \/ ListUnheard
    /\ query.flight = "idle" =>
         query.data = ListNow \/ query.failed \/ query.reused \/ ListUnheard

ListWaiters == \A k \in query.waiting : sent[k].phase = "refetching"

(* A delete that was served did it; one of the open session, unless that   *)
(* is excused, will lead away from it; and who stays on a session that is  *)
(* gone waits for such a one.                                              *)
Done(k) == sent[k].kind = "delete" /\ sent[k].phase # "sent"
Deletes ==
    /\ \A k \in Slot :
         /\ sent[k].phase = "sent" \/ sent[k].kind = "delete" => sent[k].id \in Item
         /\ Done(k) => kept[sent[k].id] = List!Gone
         /\ sent[k].kind = "delete" /\ sent[k].id = chosen /\ chosen \notin noted
              => sent[k].here /\ sent[k].selected
    /\ chosen \in Item /\ kept[chosen] = List!Gone /\ chosen \notin noted =>
         \E k \in Slot : Done(k) /\ sent[k].id = chosen

ListSound == List!SessionListTypeOK /\ ListCurrent /\ ListWaiters /\ Deletes

(* A step of the viewer is one of the sidebar, or none of it. *)
LEMMA ListStep ==
  ASSUME Shows("list"), [Next]_vars
  PROVE  page' = page /\ (List!ListNext \/ UNCHANGED List!listVars)
  BY DEF Shows, Next, vars, shared, List!listVars

(* The operations on the query keep its type. *)
LEMMA ListQuery ==
  ASSUME NEW D, NEW W, NEW q \in List!Entries(D, W)
  PROVE  /\ List!Fetched(q) \in List!Entries(D, W)
         /\ List!Arrived(q) \in List!Entries(D, W)
         /\ List!Lost(q) \in List!Entries(D, W)
         /\ \A v \in D : List!Served(q, v) \in List!Entries(D, W)
         /\ \A k \in W : List!Invalidated(q, k) \in List!Entries(D, W)
  BY DEF List!Entries, List!Asked, List!Fetched, List!Arrived,
     List!Lost, List!Served, List!Invalidated

(* What the server answers is a list. *)
LEMMA ListNowTyped == List!SessionListTypeOK => ListNow \in List!Lists
<1> SUFFICES ASSUME List!SessionListTypeOK PROVE ListNow \in List!Lists
  OBVIOUS
<1>1. {t \in Item : kept[t] # List!Gone} \in SUBSET Item
  OBVIOUS
<1>2. ListNow \in [{t \in Item : kept[t] # List!Gone} -> List!Titles]
  BY DEF List!SessionListTypeOK, ListNow
<1> QED
  BY <1>1, <1>2 DEF List!Lists

(* At the start the list is asked for and nothing else. *)
LEMMA ListSoundInit == List!ListInit => ListSound
<1> SUFFICES ASSUME List!ListInit PROVE ListSound
  OBVIOUS
<1>1. /\ query.flight = "asked" /\ query.waiting = {}
      /\ query \in List!Entries(List!Lists, Slot)
  BY DEF List!ListInit, List!NewEntry, List!Fetched, List!Asked, List!Entries
<1>2. \A k \in Slot : /\ sent[k] = List!Free /\ sent[k].phase = "idle"
                      /\ sent[k].kind = "free"
  BY DEF List!ListInit, List!Free
<1>3. List!SessionListTypeOK
  <2>1. kept \in [Item -> List!Titles \union {List!Gone}]
    BY DEF List!ListInit, List!Titles
  <2> QED
    BY <1>1, <2>1 DEF List!ListInit, List!SessionListTypeOK
<1>4. ListCurrent /\ ListWaiters
  BY <1>1 DEF ListCurrent, ListWaiters
<1>5. Deletes
  <2>1. \A s \in Item : kept[s] # List!Gone
    BY ViewerAssumption DEF List!ListInit
  <2> QED
    BY <1>2, <2>1 DEF Deletes, Done
<1> QED
  BY <1>3, <1>4, <1>5 DEF ListSound

(* What a render does to a call: it may lose its callback. *)
LEMMA Rendered ==
  ASSUME ListSound, NEW q, NEW h, List!Render(q, h)
  PROVE  /\ \A k \in Slot :
              /\ sent'[k] \in List!Calls \union {List!Free}
              /\ sent'[k].kind = sent[k].kind /\ sent'[k].id = sent[k].id
              /\ sent'[k].phase = sent[k].phase
              /\ sent'[k].selected = sent[k].selected
              /\ sent'[k].here => sent[k].here
              /\ sent[k].kind = "delete" /\ sent[k].here /\ ~sent'[k].here
                   => sent[k].id \in noted'
         /\ sent' \in [Slot -> List!Calls \union {List!Free}]
         /\ own2' \subseteq own2 /\ noted \subseteq noted'
         /\ noted' \subseteq Item
<1>1. ASSUME NEW k \in Slot
      PROVE  /\ sent'[k] \in List!Calls \union {List!Free}
             /\ sent'[k].kind = sent[k].kind /\ sent'[k].id = sent[k].id
             /\ sent'[k].phase = sent[k].phase
             /\ sent'[k].selected = sent[k].selected
             /\ sent'[k].here => sent[k].here
  <2> DEFINE stays == \/ sent[k].id \in List!Rows(q, h)
                      \/ k \in query.waiting \ q.waiting
  <2>1. sent'[k] = [sent[k] EXCEPT !.here = sent[k].here /\ stays]
    BY DEF List!Render
  <2> HIDE DEF stays
  <2>2. CASE sent[k] \in List!Calls
    BY <2>1, <2>2 DEF List!Calls
  <2>3. CASE sent[k] = List!Free
    <3>1. (sent[k].here /\ stays) = FALSE
      BY <2>3 DEF List!Free
    <3>2. sent'[k] = [List!Free EXCEPT !.here = FALSE]
      BY <2>1, <2>3, <3>1
    <3>3. sent'[k] = List!Free
      BY <3>2 DEF List!Free
    <3> QED
      BY <2>3, <3>3 DEF List!Free
  <2> QED
    BY <2>2, <2>3 DEF ListSound, List!SessionListTypeOK
<1>2. sent' \in [Slot -> List!Calls \union {List!Free}]
  BY <1>1 DEF List!Render
<1>3. \A k \in Slot : sent[k].kind = "delete" /\ sent[k].here /\ ~sent'[k].here
                        => sent[k].id \in noted'
  BY DEF List!Render, ListSound, Deletes
<1>4. own2' \subseteq own2 /\ noted \subseteq noted' /\ noted' \subseteq Item
  BY DEF List!Render, ListSound, List!SessionListTypeOK
<1> QED
  BY <1>1, <1>2, <1>3, <1>4

(* A render leaves the deletes what they are. *)
LEMMA RenderedDeletes ==
  ASSUME ListSound, NEW q, NEW h, List!Render(q, h), UNCHANGED <<kept, chosen>>
  PROVE  Deletes'
  BY Rendered DEF ListSound, Deletes, Done

(* The type invariant. *)
LEMMA ListTypeNext == ASSUME ListSound, List!ListNext PROVE List!SessionListTypeOK'
<1>0. /\ query \in List!Entries(List!Lists, Slot)
      /\ sent \in [Slot -> List!Calls \union {List!Free}]
  BY DEF ListSound, List!SessionListTypeOK
<1> USE DEF List!SessionListTypeOK
<1>1. ASSUME NEW k \in Slot, List!Finish(k) PROVE List!SessionListTypeOK'
  BY <1>0, <1>1 DEF List!Finish, ListSound
<1>2. CASE List!Poll
  BY <1>2, ListQuery DEF List!Poll, ListSound
<1>3. CASE List!ListServed
  <2>1. query' = List!Served(query, ListNow)
    BY <1>3 DEF List!ListServed, ListNow
  <2>2. query' \in List!Entries(List!Lists, Slot)
    BY <2>1, ListQuery, ListNowTyped DEF ListSound
  <2> QED
    BY <1>3, <2>2 DEF List!ListServed, ListSound
<1>4. ASSUME NEW q \in List!Entries(List!Lists, Slot), NEW h \in SUBSET Item,
             List!Render(q, h), UNCHANGED <<kept, chosen>>
      PROVE  List!SessionListTypeOK'
  <2>1. query' = q /\ own1' = h
    BY <1>4 DEF List!Render
  <2> QED
    BY <1>4, <2>1, Rendered DEF ListSound
<1>5. CASE List!ListArrives
  BY <1>0, <1>4, <1>5, ListQuery DEF List!ListArrives, ListSound
<1>6. CASE List!ListFails
  BY <1>0, <1>4, <1>6, ListQuery DEF List!ListFails, ListSound
<1>7. ASSUME NEW h \in {{}, Item}, List!Filter(h) PROVE List!SessionListTypeOK'
  BY <1>0, <1>4, <1>7 DEF List!Filter
<1>8. ASSUME NEW s \in Item, List!Open(s) PROVE List!SessionListTypeOK'
  BY <1>8 DEF List!Open, ListSound
<1>9. ASSUME NEW s \in Item, List!StartEdit(s) \/ List!CancelEdit(s)
      PROVE  List!SessionListTypeOK'
  BY <1>9 DEF List!StartEdit, List!CancelEdit, ListSound
<1>10. ASSUME NEW kind \in {"rename", "delete"}, NEW s \in Item, NEW t \in List!Titles,
              List!Send(kind, s, t), own2' \subseteq own2,
              UNCHANGED <<kept, query, own1, chosen, noted>>
       PROVE  List!SessionListTypeOK'
  <2>1. [kind |-> kind, id |-> s, title |-> t, phase |-> "sent",
         here |-> kind = "delete", selected |-> kind = "delete" /\ s = chosen]
           \in List!Calls
    BY DEF List!Calls, List!Titles
  <2> QED
    BY <1>10, <2>1 DEF List!Send, ListSound
<1>11. ASSUME NEW s \in Item, List!Remove(s) PROVE List!SessionListTypeOK'
  BY <1>10, <1>11 DEF List!Remove, List!Titles
<1>12. ASSUME NEW s \in Item, NEW t \in List!Titles, List!Save(s, t)
       PROVE  List!SessionListTypeOK'
  BY <1>10, <1>12 DEF List!Save
<1>13. ASSUME NEW k \in Slot, List!Serve(k) PROVE List!SessionListTypeOK'
  <2>1. sent[k] \in List!Calls
    BY <1>0, <1>13 DEF List!Serve, List!Free
  <2>2. /\ [sent[k] EXCEPT !.phase = "answered"] \in List!Calls
        /\ [List!Free EXCEPT !.kind = "rename", !.phase = "answered"] \in List!Calls
    BY <2>1 DEF List!Calls, List!Free
  <2>3. sent' \in [Slot -> List!Calls \union {List!Free}]
    BY <1>0, <1>13, <2>2 DEF List!Serve
  <2>4. kept' \in [Item -> List!Titles \union {List!Gone}]
    BY <1>13, <2>1 DEF List!Serve, List!Calls, ListSound, List!Titles
  <2> QED
    BY <1>13, <2>3, <2>4 DEF List!Serve, ListSound
<1>14. ASSUME NEW k \in Slot, List!Answer(k) PROVE List!SessionListTypeOK'
  <2>1. query' = List!Invalidated(query, k)
    BY <1>14 DEF List!Answer
  <2>2. query' \in List!Entries(List!Lists, Slot)
    BY <1>0, <2>1, ListQuery
  <2>3. ASSUME NEW l \in Slot PROVE sent'[l] \in List!Calls \union {List!Free}
    <3>1. l \in query.waiting \/ l = k => sent[l] \in List!Calls
      BY <1>0, <1>14 DEF List!Answer, List!Free, ListSound, ListWaiters
    <3>2. \/ l = k /\ sent'[l] = [sent[l] EXCEPT !.phase = "refetching"]
          \/ l \in query.waiting /\ sent'[l] = [sent[l] EXCEPT !.phase = "cut"]
          \/ sent'[l] = sent[l]
      BY <1>14 DEF List!Answer
    <3> QED
      BY <1>0, <3>1, <3>2 DEF List!Calls
  <2>4. sent' \in [Slot -> List!Calls \union {List!Free}]
    BY <1>14, <2>3 DEF List!Answer
  <2> QED
    BY <1>14, <2>2, <2>4 DEF List!Answer, ListSound
<1> QED
  BY <1>1, <1>2, <1>3, <1>5, <1>6, <1>7, <1>8, <1>9, <1>11, <1>12, <1>13, <1>14
     DEF List!ListNext

(* What changes neither the server, nor the list, nor a call that it waits *)
(* for leaves the list as current as it was.                               *)
LEMMA ListStays ==
  ASSUME ListSound, kept' = kept, query' = query,
         \A k \in Slot : \/ sent'[k].phase = sent[k].phase
                         \/ sent[k].phase \in {"idle", "cut"}
                         \/ sent[k].phase = "refetching" /\ k \notin query.waiting
  PROVE  ListCurrent' /\ ListWaiters'
<1>1. query \in List!Entries(List!Lists, Slot)
  BY DEF ListSound, List!SessionListTypeOK
<1> QED
  BY <1>1 DEF ListSound, ListCurrent, ListUnheard, ListWaiters, ListNow, List!Entries

(* At rest the sidebar shows the sessions there are, but for what it has   *)
(* not heard of or was content with.                                       *)
LEMMA ListCurrentNext ==
  ASSUME ListSound, List!ListNext PROVE ListCurrent' /\ ListWaiters'
<1>0. /\ query \in List!Entries(List!Lists, Slot)
      /\ sent \in [Slot -> List!Calls \union {List!Free}]
  BY DEF ListSound, List!SessionListTypeOK
<1>2. ASSUME NEW k \in Slot, List!Finish(k) PROVE ListCurrent' /\ ListWaiters'
  <2>1. \A l \in Slot : l # k => sent'[l] = sent[l]
    BY <1>0, <1>2 DEF List!Finish
  <2>2. /\ sent[k].phase = "cut" \/ (sent[k].phase = "refetching" /\ k \notin query.waiting)
        /\ kept' = kept /\ query' = query
    BY <1>2 DEF List!Finish, List!Over
  <2> QED
    BY <2>1, <2>2, ListStays
<1>3. CASE List!Poll
  BY <1>0, <1>3 DEF List!Poll, List!Fetched, List!Asked, List!Entries,
     ListSound, ListCurrent, ListUnheard, ListWaiters
<1>4. CASE List!ListServed
  BY <1>0, <1>4 DEF List!ListServed, List!Served, ListNow, List!Entries,
     ListSound, ListCurrent, ListUnheard, ListWaiters
<1>5. CASE List!ListArrives
  <2>1. /\ query' = List!Arrived(query) /\ kept' = kept /\ query.flight = "answered"
        /\ \A k \in Slot : sent'[k].phase = sent[k].phase
    BY <1>5, Rendered DEF List!ListArrives, List!Render
  <2> QED
    BY <1>0, <2>1 DEF List!Arrived, ListNow, List!Entries,
     ListSound, ListCurrent, ListUnheard, ListWaiters
<1>6. CASE List!ListFails
  <2>1. /\ query' = List!Lost(query) /\ kept' = kept
        /\ \A k \in Slot : sent'[k].phase = sent[k].phase
    BY <1>6, Rendered DEF List!ListFails, List!Render
  <2> QED
    BY <1>0, <2>1 DEF List!Lost, ListNow, List!Entries,
     ListSound, ListCurrent, ListUnheard, ListWaiters
<1>7. ASSUME NEW h \in {{}, Item}, List!Filter(h) PROVE ListCurrent' /\ ListWaiters'
  <2>1. /\ query' = query /\ kept' = kept
        /\ \A k \in Slot : sent'[k].phase = sent[k].phase
    BY <1>7, Rendered DEF List!Filter, List!Render
  <2> QED
    BY <2>1, ListStays
<1>8. ASSUME NEW s \in Item, List!Open(s) \/ List!StartEdit(s) \/ List!CancelEdit(s)
      PROVE  ListCurrent' /\ ListWaiters'
  BY <1>8, ListStays DEF List!Open, List!StartEdit, List!CancelEdit
<1>9. ASSUME NEW kind, NEW s, NEW t, List!Send(kind, s, t), UNCHANGED <<kept, query>>
      PROVE  ListCurrent' /\ ListWaiters'
  <2>1. \A k \in Slot : sent'[k] = sent[k] \/ sent[k].phase = "idle"
    BY <1>0, <1>9 DEF List!Send, List!Free
  <2> QED
    BY <1>9, <2>1, ListStays
<1>10. ASSUME NEW s \in Item,
              List!Remove(s) \/ \E t \in List!Titles : List!Save(s, t)
       PROVE  ListCurrent' /\ ListWaiters'
  BY <1>9, <1>10 DEF List!Remove, List!Save
<1>11. ASSUME NEW k \in Slot, List!Serve(k) PROVE ListCurrent' /\ ListWaiters'
  <2>1. query' = query /\ sent[k].phase = "sent"
        /\ \A l \in Slot : l # k => sent'[l] = sent[l]
    BY <1>0, <1>11 DEF List!Serve
  <2>2. kept' = kept \/ sent'[k].phase = "answered"
    <3>1. CASE kept[sent[k].id] = List!Gone
      BY <1>11, <3>1 DEF List!Serve
    <3>2. CASE kept[sent[k].id] # List!Gone
      <4>1. sent[k] \in List!Calls
        BY <1>0, <2>1 DEF List!Free
      <4>2. sent' = [sent EXCEPT ![k] =
              IF @.kind = "delete" THEN [@ EXCEPT !.phase = "answered"]
              ELSE [List!Free EXCEPT !.kind = "rename", !.phase = "answered"]]
        BY <1>11, <3>2 DEF List!Serve
      <4>3. /\ [sent[k] EXCEPT !.phase = "answered"].phase = "answered"
            /\ [List!Free EXCEPT !.kind = "rename", !.phase = "answered"].phase = "answered"
        BY <4>1 DEF List!Calls, List!Free
      <4> QED
        BY <1>0, <4>2, <4>3
    <3> QED
      BY <3>1, <3>2
  <2>3. CASE kept' = kept
    <3>1. ListNow' = ListNow
      BY <2>3 DEF ListNow
    <3> QED
      BY <1>0, <2>1, <3>1 DEF List!Entries,
     ListSound, ListCurrent, ListUnheard, ListWaiters
  <2>4. CASE sent'[k].phase = "answered"
    BY <1>0, <2>1, <2>4 DEF List!Entries,
     ListSound, ListCurrent, ListUnheard, ListWaiters
  <2> QED
    BY <2>2, <2>3, <2>4
<1>12. ASSUME NEW k \in Slot, List!Answer(k) PROVE ListCurrent' /\ ListWaiters'
  <2>1. /\ query' = List!Invalidated(query, k) /\ kept' = kept
        /\ sent[k].phase = "answered"
    BY <1>12 DEF List!Answer
  <2>2. sent'[k].phase = "refetching"
    BY <1>12, <2>1, <1>0 DEF List!Answer, List!Calls, List!Free
  <2>3. \A l \in Slot : l # k /\ l \notin query.waiting => sent'[l] = sent[l]
    BY <1>12 DEF List!Answer
  <2>4. \A l \in Slot : l # k /\ l \in query.waiting' => sent'[l] = sent[l]
    BY <1>12 DEF List!Answer
  <2>5. CASE query.flight # "idle" /\ query.data = NoData
    BY <1>0, <2>1, <2>2, <2>3, <2>4, <2>5 DEF List!Invalidated, List!Entries,
     ListSound, ListCurrent, ListUnheard, ListWaiters
  <2>6. CASE ~(query.flight # "idle" /\ query.data = NoData)
    BY <1>0, <2>1, <2>2, <2>6 DEF List!Invalidated, List!Asked, List!Entries,
     ListSound, ListCurrent, ListUnheard, ListWaiters
  <2> QED
    BY <2>5, <2>6
<1> QED
  BY <1>2, <1>3, <1>4, <1>5, <1>6, <1>7, <1>8, <1>10, <1>11, <1>12 DEF List!ListNext

(* What neither opens a session nor serves, sends or ends a delete leaves  *)
(* the deletes what they are.                                              *)
LEMMA DeletesStay ==
  ASSUME ListSound, kept' = kept, chosen' = chosen, noted' = noted,
         \A k \in Slot : /\ sent'[k].kind = sent[k].kind
                         /\ sent'[k].id = sent[k].id
                         /\ sent'[k].here = sent[k].here
                         /\ sent'[k].selected = sent[k].selected
                         /\ sent'[k].phase = "sent" <=> sent[k].phase = "sent"
  PROVE  Deletes'
  BY DEF ListSound, Deletes, Done

(* The deletes stay what they are: no one stays on the session that they   *)
(* deleted.                                                                *)
LEMMA DeletesNext == ASSUME ListSound, List!ListNext PROVE Deletes'
<1>0. sent \in [Slot -> List!Calls \union {List!Free}]
  BY DEF ListSound, List!SessionListTypeOK
<1>1. ASSUME NEW k \in Slot, List!Finish(k) PROVE Deletes'
  <2>1. /\ sent'[k].kind = "free" /\ sent'[k].phase = "idle"
        /\ \A l \in Slot : l # k => sent'[l] = sent[l]
        /\ kept' = kept /\ noted' = noted
    BY <1>0, <1>1 DEF List!Finish, List!Free
  <2>2. CASE sent[k].kind = "delete" /\ sent[k].here /\ sent[k].selected
    <3>1. chosen' = NoSession
      BY <1>1, <2>2 DEF List!Finish
    <3> QED
      BY <2>1, <3>1, ViewerAssumption DEF ListSound, Deletes, Done
  <2>3. CASE ~(sent[k].kind = "delete" /\ sent[k].here /\ sent[k].selected)
    <3>1. chosen' = chosen
      BY <1>1, <2>3 DEF List!Finish
    <3> QED
      BY <2>1, <2>3, <3>1 DEF ListSound, Deletes, Done
  <2> QED
    BY <2>2, <2>3
<1>2. CASE List!Poll \/ List!ListServed
  BY <1>2, DeletesStay DEF List!Poll, List!ListServed
<1>3. CASE List!ListArrives \/ List!ListFails \/ \E h \in {{}, Item} : List!Filter(h)
  BY <1>3, RenderedDeletes DEF List!ListArrives, List!ListFails, List!Filter
<1>4. ASSUME NEW s \in Item, List!Open(s) PROVE Deletes'
  BY <1>4 DEF List!Open, List!Deleting, ListSound, Deletes, Done
<1>5. ASSUME NEW s \in Item, List!StartEdit(s) \/ List!CancelEdit(s) PROVE Deletes'
  BY <1>5, DeletesStay DEF List!StartEdit, List!CancelEdit
<1>6. ASSUME NEW kind, NEW s \in Item, NEW t, List!Send(kind, s, t),
             UNCHANGED <<kept, chosen, noted>>
      PROVE  Deletes'
  <2>1. PICK k \in Slot :
          /\ sent[k] = List!Free
          /\ sent' = [sent EXCEPT ![k] =
                [kind |-> kind, id |-> s, title |-> t, phase |-> "sent",
                 here |-> kind = "delete", selected |-> kind = "delete" /\ s = chosen]]
    BY <1>6 DEF List!Send
  <2>2. /\ sent'[k].kind = kind /\ sent'[k].id = s /\ sent'[k].phase = "sent"
        /\ sent'[k].here = (kind = "delete")
        /\ sent'[k].selected = (kind = "delete" /\ s = chosen)
        /\ \A l \in Slot : l # k => sent'[l] = sent[l]
    BY <1>0, <2>1
  <2>3. sent[k].kind = "free"
    BY <2>1 DEF List!Free
  <2> QED
    BY <1>6, <2>2, <2>3 DEF ListSound, Deletes, Done
<1>7. ASSUME NEW s \in Item,
             List!Remove(s) \/ \E t \in List!Titles : List!Save(s, t)
      PROVE  Deletes'
  BY <1>6, <1>7 DEF List!Remove, List!Save
<1>8. ASSUME NEW k \in Slot, List!Serve(k) PROVE Deletes'
  <2>1. /\ sent[k].phase = "sent" /\ chosen' = chosen /\ noted' = noted
        /\ \A l \in Slot : l # k => sent'[l] = sent[l]
    BY <1>0, <1>8 DEF List!Serve
  <2>2. sent[k] \in List!Calls /\ sent[k].id \in Item
    BY <1>0, <2>1 DEF List!Free, ListSound, Deletes
  <2>3. CASE kept[sent[k].id] = List!Gone
    <3>1. kept' = kept /\ sent'[k].kind = "free" /\ sent'[k].phase = "idle"
      BY <1>0, <1>8, <2>3 DEF List!Serve, List!Free
    <3> QED
      BY <2>1, <3>1 DEF ListSound, Deletes, Done
  <2>4. CASE kept[sent[k].id] # List!Gone /\ sent[k].kind = "delete"
    <3>1. /\ sent'[k] = [sent[k] EXCEPT !.phase = "answered"]
          /\ kept' = [kept EXCEPT ![sent[k].id] = List!Gone]
      BY <1>0, <1>8, <2>4 DEF List!Serve
    <3>2. /\ sent'[k].kind = "delete" /\ sent'[k].id = sent[k].id
          /\ sent'[k].here = sent[k].here /\ sent'[k].selected = sent[k].selected
          /\ sent'[k].phase = "answered"
      BY <2>2, <2>4, <3>1 DEF List!Calls
    <3>3. \A s \in Item : kept'[s] = IF s = sent[k].id THEN List!Gone ELSE kept[s]
      BY <2>2, <3>1 DEF ListSound, List!SessionListTypeOK
    <3>4. ASSUME NEW l \in Slot
          PROVE  /\ sent'[l].phase = "sent" \/ sent'[l].kind = "delete" => sent'[l].id \in Item
                 /\ Done(l)' => kept'[sent'[l].id] = List!Gone
                 /\ sent'[l].kind = "delete" /\ sent'[l].id = chosen' /\ chosen' \notin noted'
                      => sent'[l].here /\ sent'[l].selected
                 /\ Done(l) => Done(l)' /\ sent'[l].id = sent[l].id
      BY <2>1, <2>2, <2>4, <3>2, <3>3 DEF ListSound, Deletes, Done
    <3>5. Done(k)'
      BY <3>2 DEF Done
    <3>6. ASSUME chosen' \in Item, kept'[chosen'] = List!Gone, chosen' \notin noted'
          PROVE  \E l \in Slot : Done(l)' /\ sent'[l].id = chosen'
      <4>1. CASE chosen = sent[k].id
        BY <2>1, <3>2, <3>5, <4>1
      <4>2. CASE chosen # sent[k].id
        BY <2>1, <3>3, <3>4, <3>6, <4>2 DEF ListSound, Deletes
      <4> QED
        BY <4>1, <4>2
    <3> QED
      BY <3>4, <3>6 DEF Deletes
  <2>5. CASE kept[sent[k].id] # List!Gone /\ sent[k].kind # "delete"
    <3>0. /\ sent'[k] = [List!Free EXCEPT !.kind = "rename", !.phase = "answered"]
          /\ kept' = [kept EXCEPT ![sent[k].id] = sent[k].title]
      BY <1>0, <1>8, <2>5 DEF List!Serve
    <3>1. sent'[k].kind = "rename" /\ sent'[k].phase = "answered"
      BY <3>0 DEF List!Free
    <3>2. sent[k].title # List!Gone
      BY <2>2, ViewerAssumption DEF List!Calls
    <3>3. \A s \in Item : kept'[s] = IF s = sent[k].id THEN sent[k].title ELSE kept[s]
      BY <2>2, <3>0 DEF ListSound, List!SessionListTypeOK
    <3>4. \A s \in Item : kept'[s] = List!Gone <=> kept[s] = List!Gone
      BY <2>5, <3>2, <3>3
    <3> QED
      BY <2>1, <2>5, <3>1, <3>4 DEF ListSound, Deletes, Done
  <2> QED
    BY <2>3, <2>4, <2>5
<1>9. ASSUME NEW k \in Slot, List!Answer(k) PROVE Deletes'
  <2>1. /\ kept' = kept /\ chosen' = chosen /\ noted' = noted
        /\ sent[k].phase = "answered"
    BY <1>9 DEF List!Answer
  <2>2. ASSUME NEW l \in Slot
        PROVE  /\ sent'[l].kind = sent[l].kind
               /\ sent'[l].id = sent[l].id
               /\ sent'[l].here = sent[l].here
               /\ sent'[l].selected = sent[l].selected
               /\ sent'[l].phase = "sent" <=> sent[l].phase = "sent"
    <3>1. \/ l = k /\ sent'[l] = [sent[l] EXCEPT !.phase = "refetching"]
          \/ l \in query.waiting /\ sent'[l] = [sent[l] EXCEPT !.phase = "cut"]
          \/ sent'[l] = sent[l]
      BY <1>9 DEF List!Answer
    <3>2. l \in query.waiting => sent[l].phase = "refetching"
      BY DEF ListSound, ListWaiters
    <3>3. sent[l] \in List!Calls \/ sent[l] = List!Free
      BY <1>0
    <3> QED
      BY <2>1, <3>1, <3>2, <3>3 DEF List!Calls, List!Free
  <2> QED
    BY <2>1, <2>2, DeletesStay
<1> QED
  BY <1>1, <1>2, <1>3, <1>4, <1>5, <1>7, <1>8, <1>9 DEF List!ListNext

(* What the viewer keeps while it shows the sidebar. *)
LEMMA ListKept == Spec => [](Shows("list") => ListSound)
<1>1. Init => (Shows("list") => ListSound)
  BY ListSoundInit DEF Init, Shows
<1>2. (Shows("list") => ListSound) /\ [Next]_vars => (Shows("list") => ListSound)'
  <2> SUFFICES ASSUME Shows("list") => ListSound, [Next]_vars, Shows("list")'
               PROVE  ListSound'
    OBVIOUS
  <2>1. Shows("list")
    BY DEF Next, vars, Shows
  <2>2. CASE List!ListNext
    BY <2>1, <2>2, ListTypeNext, ListCurrentNext, DeletesNext DEF ListSound
  <2>3. CASE UNCHANGED List!listVars
    BY <2>1, <2>3 DEF List!listVars, ListSound, List!SessionListTypeOK,
       ListCurrent, ListNow, ListUnheard, ListWaiters, Deletes, Done
  <2> QED
    BY <2>1, <2>2, <2>3, ListStep
<1> QED
  BY <1>1, <1>2, PTL DEF Spec

(* No one stays on the page of a session that they deleted: the delete     *)
(* that did it is still on its way back.                                   *)
THEOREM NoGhostStaysOpen == Spec => []NoGhostIsOpen
<1>1. (Shows("list") => ListSound) => NoGhostIsOpen
  BY DEF ListSound, List!SessionListTypeOK, Deletes, Done, NoGhostIsOpen,
     List!NoGhostIsOpen, List!Deleting
<1> QED
  BY <1>1, ListKept, PTL

(* And no one is sent away from a session but by such a delete.            *)
THEOREM DeletersAreSentAway == Spec => OnlyDeletersAreSentAway
<1>1. (Shows("list") => ListSound) /\ [Next]_vars =>
        [Shows("list") => List!OnlyDeletersAreSentAway]_vars
  <2> SUFFICES ASSUME ListSound, Shows("list"), [Next]_vars,
                      chosen' = NoSession, chosen # NoSession
               PROVE  \E k \in Slot : /\ List!Over(k) /\ sent[k].kind = "delete"
                                      /\ sent[k].selected /\ kept[sent[k].id] = List!Gone
    BY DEF List!OnlyDeletersAreSentAway
  <2>1. List!ListNext
    BY ListStep DEF List!listVars
  <2>2. PICK k \in Slot : List!Finish(k)
    BY <2>1, ViewerAssumption DEF List!ListNext, List!Poll, List!ListServed, List!ListArrives,
       List!ListFails, List!Filter, List!Open, List!StartEdit, List!CancelEdit,
       List!Remove, List!Save, List!Serve, List!Answer
  <2>3. List!Over(k) /\ sent[k].kind = "delete" /\ sent[k].selected
    BY <2>2 DEF List!Finish
  <2> QED
    BY <2>3 DEF ListSound, Deletes, Done, List!Over
<1> QED
  BY <1>1, ListKept, PTL DEF Spec, OnlyDeletersAreSentAway

(* When nothing is under way the list is what the server has.              *)
LEMMA QuietSidebar == Spec => [](Shows("list") => List!QuietSidebarIsCurrent)
<1>1. (Shows("list") => ListSound) => (Shows("list") => List!QuietSidebarIsCurrent)
  BY DEF ListSound, ListCurrent, ListUnheard, ListNow, List!QuietSidebarIsCurrent
<1> QED
  BY <1>1, ListKept, PTL
------------------------------------------------------------------------------
(* The hook capture page. *)

Hooks == [Item -> Capture!HookRow]
HookCalls == [Slot -> Capture!Calls \union {Capture!Free}]

(* The requests that change a row and ask for the list anew, and the rows  *)
(* that a list shows as they are, but for the added events.                *)
Changing(k) == sent[k].kind \in {"toggle", "remove"}
Seen(list) == \A h \in Item \ noted : list[h] = kept[h]

(* The card shows what the server has but for the added events, unless a   *)
(* fetch has failed or a change still has to come back.                    *)
HookCurrent ==
    /\ query.flight = "answered" =>
         /\ query.answer \in Hooks
         /\ Seen(query.answer) \/ \E k \in Slot : Changing(k) /\ sent[k].phase = "answered"
    /\ query.data # NoData /\ ~query.failed =>
         \/ Seen(query.data)
         \/ \E k \in Slot : Changing(k) /\ sent[k].phase \in {"answered", "refetching"}

HookWaiters ==
    /\ \A k \in Slot : sent[k].phase = "refetching" <=> k \in query.waiting
    /\ query.waiting # {} => query.flight # "idle"

(* At most one switch is under way, and one that was sure still has        *)
(* something to turn round, or the event is gone.                          *)
Switches ==
    /\ \A k \in Slot :
         /\ Changing(k) => query.data # NoData
         /\ sent[k].kind = "toggle" => sent[k].last
         /\ sent[k].phase = "sent" => sent[k].hook \in Item
         /\ sent[k].kind = "toggle" /\ sent[k].phase = "sent" /\ sent[k].sure =>
              \/ kept[sent[k].hook].enabled # sent[k].on
              \/ kept[sent[k].hook].source = "none"
    /\ \A k, l \in Slot : sent[k].kind = "toggle" /\ sent[l].kind = "toggle" => k = l

HookSound == Capture!HookPanelTypeOK /\ HookCurrent /\ HookWaiters /\ Switches

(* A step of the viewer is one of the hook card, or none of it. *)
LEMMA HookStep ==
  ASSUME Shows("hooks"), [Next]_vars
  PROVE  page' = page /\ (Capture!HookPanelNext \/ UNCHANGED Capture!hookPanelVars)
  BY DEF Shows, Next, vars, shared, Capture!hookPanelVars

(* The operations on the query keep its type. *)
LEMMA HookQuery ==
  ASSUME NEW D, NEW W, NEW q \in Capture!Entries(D, W)
  PROVE  /\ Capture!Fetched(q) \in Capture!Entries(D, W)
         /\ Capture!Arrived(q) \in Capture!Entries(D, W)
         /\ Capture!Lost(q) \in Capture!Entries(D, W)
         /\ \A v \in D : Capture!Served(q, v) \in Capture!Entries(D, W)
         /\ \A k \in W : Capture!Invalidated(q, k) \in Capture!Entries(D, W)
  BY DEF Capture!Entries, Capture!Asked, Capture!Fetched, Capture!Arrived,
     Capture!Lost, Capture!Served, Capture!Invalidated

(* The types of what the page keeps, by name. *)
LEMMA HookTypes ==
  Capture!HookPanelTypeOK <=>
    /\ kept \in Hooks /\ query \in Capture!Entries(Hooks, Slot) /\ sent \in HookCalls
    /\ chosen \in {"none", "refused", "taken"} /\ noted \subseteq Item
  BY DEF Capture!HookPanelTypeOK, Capture!HooksTypeOK, Hooks, HookCalls

(* At the start the list is asked for and nothing else. *)
LEMMA HookSoundInit == Capture!HookPanelInit => HookSound
<1> SUFFICES ASSUME Capture!HookPanelInit PROVE HookSound
  OBVIOUS
<1>1. /\ query.flight = "asked" /\ query.waiting = {} /\ query.data = NoData
      /\ query \in Capture!Entries(Hooks, Slot)
  BY DEF Capture!HookPanelInit, Capture!NewEntry, Capture!Fetched, Capture!Asked,
     Capture!Entries
<1>2. \A k \in Slot : /\ sent[k] = Capture!Free /\ sent[k].phase = "idle"
                      /\ sent[k].kind = "free"
  BY DEF Capture!HookPanelInit, Capture!Free
<1>3. kept \in Hooks
  <2>1. {Capture!NoHook, [source |-> "seed", enabled |-> TRUE],
         [source |-> "user", enabled |-> TRUE]} \subseteq Capture!HookRow
    BY DEF Capture!HookRow, Capture!NoHook
  <2> QED
    BY <2>1 DEF Capture!HookPanelInit, Hooks
<1>4. Capture!HookPanelTypeOK
  BY <1>1, <1>3, HookTypes DEF Capture!HookPanelInit, HookCalls
<1> QED
  BY <1>1, <1>2, <1>4 DEF HookSound, HookCurrent, HookWaiters, Switches, Changing

(* A request sent in slot k, with the others kept but that they are no     *)
(* longer the last of their kind.                                          *)
Sends(k, kind, h, on) ==
    /\ sent[k] = Capture!Free
    /\ sent'[k].kind = kind /\ sent'[k].hook = h /\ sent'[k].on = on
    /\ sent'[k].phase = "sent" /\ sent'[k].last = TRUE
    /\ sent'[k].sure =>
         /\ ~query.failed /\ h \notin noted
         /\ \A l \in Slot : sent[l].kind # "remove"
    /\ \A l \in Slot \ {k} :
         /\ sent'[l].kind = sent[l].kind /\ sent'[l].hook = sent[l].hook
         /\ sent'[l].on = sent[l].on /\ sent'[l].phase = sent[l].phase
         /\ sent'[l].sure = sent[l].sure
         /\ sent'[l].last = (sent[l].last /\ sent[l].kind # kind)

(* A request that is sent, and what it does to the others. *)
LEMMA Mutated ==
  ASSUME sent \in HookCalls, NEW kind \in {"toggle", "remove", "add"}, NEW h \in Item,
         NEW on \in BOOLEAN, Capture!Mutate(kind, h, on)
  PROVE  /\ sent' \in HookCalls
         /\ \E k \in Slot : Sends(k, kind, h, on)
<1>1. PICK k \in Slot :
        /\ sent[k] = Capture!Free
        /\ sent' = [l \in Slot |->
             IF l = k THEN [kind |-> kind, hook |-> h, on |-> on,
                            phase |-> "sent", last |-> TRUE,
                            sure |-> /\ kind = "toggle" /\ ~query.failed /\ h \notin noted
                                      /\ \A i_1 \in Slot : sent[i_1].kind # "remove"]
             ELSE [sent[l] EXCEPT !.last = sent[l].last /\ sent[l].kind # kind]]
  BY DEF Capture!Mutate
<1>2. sent'[k] \in Capture!Calls
  BY <1>1 DEF Capture!Calls
<1>3. ASSUME NEW l \in Slot \ {k}
      PROVE  /\ sent'[l] \in Capture!Calls \union {Capture!Free}
             /\ sent'[l].kind = sent[l].kind /\ sent'[l].hook = sent[l].hook
             /\ sent'[l].on = sent[l].on /\ sent'[l].phase = sent[l].phase
             /\ sent'[l].sure = sent[l].sure
             /\ sent'[l].last = (sent[l].last /\ sent[l].kind # kind)
  <2>1. sent'[l] = [sent[l] EXCEPT !.last = sent[l].last /\ sent[l].kind # kind]
    BY <1>1
  <2>2. CASE sent[l] \in Capture!Calls
    BY <2>1, <2>2 DEF Capture!Calls
  <2>3. CASE sent[l] = Capture!Free
    <3>1. (sent[l].last /\ sent[l].kind # kind) = FALSE
      BY <2>3 DEF Capture!Free
    <3>2. sent'[l] = [Capture!Free EXCEPT !.last = FALSE]
      BY <2>1, <2>3, <3>1
    <3>3. sent'[l] = Capture!Free
      BY <3>2 DEF Capture!Free
    <3>4. sent'[l].last = FALSE
      BY <3>3 DEF Capture!Free
    <3> QED
      BY <2>3, <3>1, <3>3, <3>4
  <2> QED
    BY <2>2, <2>3 DEF HookCalls
<1>4. sent' \in HookCalls
  BY <1>1, <1>2, <1>3 DEF HookCalls
<1>5. Sends(k, kind, h, on)
  BY <1>1, <1>3 DEF Sends
<1> QED
  BY <1>4, <1>5

(* What a served request leaves, of itself and of the others. *)
LEMMA ServedCalls ==
  ASSUME HookSound, NEW k \in Slot, Capture!Serve(k)
  PROVE  /\ sent' \in HookCalls
         /\ sent'[k].kind = sent[k].kind /\ sent'[k].phase = "answered"
         /\ sent'[k].last = sent[k].last
         /\ \A l \in Slot \ {k} :
              /\ sent'[l].kind = sent[l].kind /\ sent'[l].hook = sent[l].hook
              /\ sent'[l].on = sent[l].on /\ sent'[l].phase = sent[l].phase
              /\ sent'[l].last = sent[l].last
              /\ sent'[l].sure => sent[l].sure /\ sent[l].hook \notin noted'
<1>0. sent \in HookCalls /\ sent[k] \in Capture!Calls
  BY HookTypes DEF HookSound, HookCalls, Capture!Serve, Capture!Free
<1>1. sent' = [l \in Slot |->
         IF l = k THEN [Capture!Free EXCEPT !.kind = sent[k].kind, !.last = sent[k].last,
                                            !.phase = "answered"]
         ELSE [sent[l] EXCEPT !.sure = sent[l].sure /\ sent[l].hook \notin noted']]
  BY DEF Capture!Serve
<1>2. /\ sent'[k] \in Capture!Calls
      /\ sent'[k].kind = sent[k].kind /\ sent'[k].phase = "answered"
      /\ sent'[k].last = sent[k].last
  BY <1>0, <1>1 DEF Capture!Calls, Capture!Free
<1>3. ASSUME NEW l \in Slot \ {k}
      PROVE  /\ sent'[l] \in Capture!Calls \union {Capture!Free}
             /\ sent'[l].kind = sent[l].kind /\ sent'[l].hook = sent[l].hook
             /\ sent'[l].on = sent[l].on /\ sent'[l].phase = sent[l].phase
             /\ sent'[l].last = sent[l].last
             /\ sent'[l].sure => sent[l].sure /\ sent[l].hook \notin noted'
  <2>1. sent'[l] = [sent[l] EXCEPT !.sure = sent[l].sure /\ sent[l].hook \notin noted']
    BY <1>1
  <2>2. CASE sent[l] \in Capture!Calls
    BY <2>1, <2>2 DEF Capture!Calls
  <2>3. CASE sent[l] = Capture!Free
    <3>1. (sent[l].sure /\ sent[l].hook \notin noted') = FALSE
      BY <2>3 DEF Capture!Free
    <3>2. sent'[l] = [Capture!Free EXCEPT !.sure = FALSE]
      BY <2>1, <2>3, <3>1
    <3>3. sent'[l] = Capture!Free
      BY <3>2 DEF Capture!Free
    <3> QED
      BY <2>3, <3>1, <3>3 DEF Capture!Free
  <2> QED
    BY <1>0, <2>2, <2>3 DEF HookCalls
<1>4. sent' \in HookCalls
  BY <1>1, <1>2, <1>3 DEF HookCalls
<1> QED
  BY <1>2, <1>3, <1>4

(* What it does to the rows: nothing to those of other hooks. *)
LEMMA ServedRows ==
  ASSUME HookSound, NEW k \in Slot, Capture!Serve(k)
  PROVE  /\ sent[k].phase = "sent" /\ sent[k].hook \in Item
         /\ query' = query /\ chosen' = chosen
         /\ kept' \in Hooks /\ noted' \subseteq Item
         /\ \A h \in Item \ {sent[k].hook} :
              kept'[h] = kept[h] /\ (h \in noted <=> h \in noted')
         /\ \/ /\ sent[k].kind = "toggle" /\ noted' = noted
               /\ kept[sent[k].hook].source # "none"
               /\ kept'[sent[k].hook].enabled = sent[k].on
            \/ sent[k].kind = "remove" /\ kept'[sent[k].hook].source = "none"
            \/ sent[k].kind = "add" /\ sent[k].hook \in noted'
<1>1. /\ sent[k].phase = "sent" /\ query' = query /\ chosen' = chosen
      /\ ~Capture!Refused(k)
  BY DEF Capture!Serve
<1>2. sent[k].hook \in Item /\ kept \in Hooks /\ noted \subseteq Item
  BY <1>1, HookTypes DEF HookSound, Switches
<1>3. sent[k].on \in BOOLEAN
  BY <1>1, HookTypes DEF HookSound, HookCalls, Capture!Calls, Capture!Free
<1>4. CASE sent[k].kind = "toggle"
  <2>1. kept' = [kept EXCEPT ![sent[k].hook].enabled = sent[k].on] /\ noted' = noted
    BY <1>4 DEF Capture!Serve, Capture!SetHookEventEnabled
  <2>2. kept[sent[k].hook].source # "none"
    BY <1>1, <1>4 DEF Capture!Refused, Capture!Listed
  <2>3. /\ kept' \in Hooks /\ kept'[sent[k].hook].enabled = sent[k].on
        /\ \A h \in Item \ {sent[k].hook} : kept'[h] = kept[h]
    BY <1>2, <1>3, <2>1 DEF Hooks, Capture!HookRow
  <2> QED
    BY <1>1, <1>2, <1>4, <2>1, <2>2, <2>3
<1>5. CASE sent[k].kind = "remove"
  <2>1. /\ kept' = [kept EXCEPT ![sent[k].hook] = Capture!NoHook]
        /\ noted' = noted \ {sent[k].hook}
    BY <1>5 DEF Capture!Serve, Capture!DeleteHookEvent
  <2>2. Capture!NoHook \in Capture!HookRow /\ Capture!NoHook.source = "none"
    BY DEF Capture!NoHook, Capture!HookRow
  <2>3. /\ kept' \in Hooks /\ kept'[sent[k].hook].source = "none"
        /\ \A h \in Item \ {sent[k].hook} : kept'[h] = kept[h]
    BY <1>2, <2>1, <2>2 DEF Hooks
  <2> QED
    BY <1>1, <1>2, <1>5, <2>1, <2>3
<1>6. CASE sent[k].kind = "add"
  <2>1. /\ kept' = [kept EXCEPT ![sent[k].hook] =
                      IF Capture!Listed(sent[k].hook)
                      THEN [kept[sent[k].hook] EXCEPT !.enabled = TRUE]
                      ELSE [source |-> "user", enabled |-> TRUE]]
        /\ noted' = noted \union {sent[k].hook}
    BY <1>6 DEF Capture!Serve, Capture!AddHookEvent
  <2>2. /\ kept' \in Hooks
        /\ \A h \in Item \ {sent[k].hook} : kept'[h] = kept[h]
    BY <1>2, <2>1 DEF Hooks, Capture!HookRow
  <2> QED
    BY <1>1, <1>2, <1>6, <2>1, <2>2
<1> QED
  BY <1>4, <1>5, <1>6 DEF Capture!Serve

(* A fetch that ends frees who waited for it, and no one else. *)
LEMMA HookEnded ==
  ASSUME HookSound
  PROVE  /\ Capture!Ended \in HookCalls
         /\ \A k \in Slot :
              /\ sent[k].phase = "refetching" => Capture!Ended[k] = Capture!Free
              /\ sent[k].phase # "refetching" => Capture!Ended[k] = sent[k]
  BY HookTypes DEF HookSound, HookWaiters, HookCalls, Capture!Ended

(* What an answer that asks for the list leaves of the requests. *)
LEMMA AnsweredCalls ==
  ASSUME HookSound, NEW k \in Slot, Capture!Answer(k), sent[k].kind # "add"
  PROVE  /\ Changing(k) /\ sent[k].phase = "answered"
         /\ query' = Capture!Invalidated(query, k)
         /\ query'.waiting = {k} /\ query'.flight = "asked" /\ query'.data = query.data
         /\ query.data # NoData
         /\ sent' \in HookCalls
         /\ sent'[k].kind = sent[k].kind /\ sent'[k].phase = "refetching"
         /\ sent'[k].last = sent[k].last
         /\ \A l \in Slot \ {k} :
              IF l \in query.waiting THEN sent'[l] = Capture!Free ELSE sent'[l] = sent[l]
<1>0. /\ query \in Capture!Entries(Hooks, Slot) /\ sent \in HookCalls
      /\ sent[k] \in Capture!Calls
  BY HookTypes DEF HookSound, HookCalls, Capture!Answer, Capture!Free
<1>1. /\ sent[k].phase = "answered" /\ query' = Capture!Invalidated(query, k)
      /\ sent' = [l \in Slot |->
                 IF l = k THEN [sent[k] EXCEPT !.phase = "refetching"]
                 ELSE IF l \in query.waiting \ query'.waiting THEN Capture!Free
                 ELSE sent[l]]
  BY DEF Capture!Answer
<1>2. Changing(k)
  BY <1>0 DEF Changing, Capture!Calls
<1>3. query.data # NoData
  BY <1>2 DEF HookSound, Switches
<1>4. query'.waiting = {k} /\ query'.flight = "asked" /\ query'.data = query.data
  BY <1>0, <1>1, <1>3 DEF Capture!Invalidated, Capture!Asked, Capture!Entries
<1>5. sent'[k] = [sent[k] EXCEPT !.phase = "refetching"]
  BY <1>1
<1>6. /\ sent'[k] \in Capture!Calls
      /\ sent'[k].kind = sent[k].kind /\ sent'[k].phase = "refetching"
      /\ sent'[k].last = sent[k].last
  BY <1>0, <1>5 DEF Capture!Calls
<1>7. \A l \in Slot \ {k} :
        IF l \in query.waiting THEN sent'[l] = Capture!Free ELSE sent'[l] = sent[l]
  BY <1>1, <1>4
<1>8. sent' \in HookCalls
  BY <1>0, <1>1, <1>6, <1>7 DEF HookCalls
<1> QED
  BY <1>1, <1>2, <1>3, <1>4, <1>6, <1>7, <1>8

(* The end of a fetch keeps the page sound. *)
LEMMA HookFetchEnds ==
  ASSUME HookSound, Capture!DefsArrive \/ Capture!DefsFail PROVE HookSound'
<1>0. /\ query \in Capture!Entries(Hooks, Slot) /\ kept \in Hooks /\ noted \subseteq Item
      /\ chosen \in {"none", "refused", "taken"}
  BY HookTypes DEF HookSound
<1>1. sent' = Capture!Ended /\ kept' = kept /\ chosen' = chosen
  BY DEF Capture!DefsArrive, Capture!DefsFail
<1>2. /\ query' \in Capture!Entries(Hooks, Slot)
      /\ query'.flight = "idle" /\ query'.waiting = {}
      /\ query.data # NoData => query'.data # NoData
      /\ \/ query'.failed
         \/ /\ query'.data = query.answer /\ query.flight = "answered"
            /\ noted' = {h \in noted : query.answer[h] # kept[h]}
  <2>1. CASE Capture!DefsFail
    BY <1>0, <2>1, HookQuery DEF Capture!DefsFail, Capture!Lost, Capture!Entries
  <2>2. CASE Capture!DefsArrive
    <3>1. query.answer \in Hooks /\ query.answer # NoData
      BY <2>2, ViewerAssumption DEF Capture!DefsArrive, HookSound, HookCurrent, Hooks
    <3> QED
      BY <1>0, <2>2, <3>1, HookQuery DEF Capture!DefsArrive, Capture!Arrived, Capture!Entries
  <2> QED
    BY <2>1, <2>2
<1>3. noted' \subseteq noted
  BY DEF Capture!DefsArrive, Capture!DefsFail
<1>4. Capture!HookPanelTypeOK'
  BY <1>0, <1>1, <1>2, <1>3, HookEnded DEF Capture!HookPanelTypeOK, Capture!HooksTypeOK,
     Hooks, HookCalls
<1>5. \A k \in Slot : /\ sent'[k].phase # "refetching"
                      /\ sent'[k] = sent[k] \/ (sent'[k].kind = "free" /\ sent'[k].phase = "idle")
  BY <1>1, HookEnded DEF Capture!Free
<1>6. HookWaiters'
  BY <1>2, <1>5 DEF HookWaiters
<1>7. Switches'
  BY <1>1, <1>2, <1>5 DEF HookSound, Switches, Changing
<1>8. HookCurrent'
  <2>1. CASE query'.failed
    BY <1>2, <2>1 DEF HookCurrent
  <2>2. CASE ~query'.failed
    <3>1. \/ Seen(query.answer)
          \/ \E k \in Slot : Changing(k) /\ sent[k].phase = "answered"
      BY <1>2, <2>2 DEF HookSound, HookCurrent
    <3>2. CASE Seen(query.answer)
      <4>1. \A h \in Item \ noted' : query'.data[h] = kept'[h]
        BY <1>1, <1>2, <2>2, <3>2 DEF Seen
      <4> QED
        BY <1>2, <4>1 DEF HookCurrent, Seen
    <3>3. ASSUME NEW k \in Slot, Changing(k), sent[k].phase = "answered" PROVE HookCurrent'
      <4>1. sent'[k] = sent[k]
        BY <1>1, <3>3, HookEnded
      <4> QED
        BY <1>2, <3>3, <4>1 DEF HookCurrent, Changing
    <3> QED
      BY <3>1, <3>2, <3>3
  <2> QED
    BY <2>1, <2>2
<1> QED
  BY <1>4, <1>6, <1>7, <1>8 DEF HookSound

(* A fetch that is asked for or served keeps it sound, and so does a       *)
(* request that fails.                                                     *)
LEMMA HookFetchSound ==
  ASSUME HookSound, Capture!DefsServed \/ Capture!Focus PROVE HookSound'
<1>0. /\ query \in Capture!Entries(Hooks, Slot) /\ kept \in Hooks /\ noted \subseteq Item
      /\ chosen \in {"none", "refused", "taken"} /\ sent \in HookCalls
  BY HookTypes DEF HookSound
<1>1. UNCHANGED <<kept, sent, chosen, noted>>
  BY DEF Capture!DefsServed, Capture!Focus
<1>2. /\ query' \in Capture!Entries(Hooks, Slot)
      /\ query'.waiting = query.waiting /\ query'.flight # "idle"
      /\ query'.data = query.data /\ query'.failed = query.failed
      /\ query'.flight = "answered" => query'.answer = kept
  <2>1. CASE Capture!DefsServed
    BY <1>0, <2>1, HookQuery DEF Capture!DefsServed, Capture!Served, Capture!Entries
  <2>2. CASE Capture!Focus
    <3>1. query.waiting = {}
      BY <2>2 DEF Capture!Focus, HookSound, HookWaiters
    <3> QED
      BY <1>0, <2>2, <3>1, HookQuery DEF Capture!Focus, Capture!Fetched, Capture!Asked,
         Capture!Entries
  <2> QED
    BY <2>1, <2>2
<1>3. Capture!HookPanelTypeOK'
  BY <1>0, <1>1, <1>2 DEF Capture!HookPanelTypeOK, Capture!HooksTypeOK, Hooks, HookCalls
<1>4. HookWaiters' /\ Switches'
  BY <1>1, <1>2 DEF HookSound, HookWaiters, Switches, Changing
<1>5. HookCurrent'
  BY <1>0, <1>1, <1>2 DEF HookSound, HookCurrent, Seen, Changing
<1> QED
  BY <1>3, <1>4, <1>5 DEF HookSound

(* So does a click, and a switch that is sure then has something to turn.  *)
LEMMA HookClickSound ==
  ASSUME HookSound, NEW h \in Item,
         Capture!Toggle(h) \/ Capture!Remove(h) \/ Capture!SubmitAdd(h)
  PROVE  HookSound'
<1>0. /\ query \in Capture!Entries(Hooks, Slot) /\ kept \in Hooks /\ noted \subseteq Item
      /\ chosen \in {"none", "refused", "taken"} /\ sent \in HookCalls
  BY HookTypes DEF HookSound
<1>1. UNCHANGED <<kept, query, noted>> /\ chosen' \in {"none", "refused", "taken"}
  BY <1>0 DEF Capture!Toggle, Capture!Remove, Capture!SubmitAdd
<1>2. \E kind \in {"toggle", "remove", "add"}, on \in BOOLEAN :
        /\ Capture!Mutate(kind, h, on)
        /\ kind \in {"toggle", "remove"} => query.data # NoData
        /\ kind = "toggle" => on = ~query.data[h].enabled /\ ~Capture!Busy
  <2>1. CASE Capture!Toggle(h)
    <3>1. query.data \in Hooks
      BY <1>0, <2>1 DEF Capture!Toggle, Capture!Shown, Capture!Entries
    <3>2. query.data[h].enabled \in BOOLEAN
      BY <3>1 DEF Hooks, Capture!HookRow
    <3>3. (~query.data[h].enabled) \in BOOLEAN
      BY <3>2
    <3>4. /\ Capture!Mutate("toggle", h, ~query.data[h].enabled)
          /\ query.data # NoData /\ ~Capture!Busy
      BY <2>1 DEF Capture!Toggle, Capture!Shown
    <3> QED
      BY <3>3, <3>4
  <2>2. CASE Capture!Remove(h)
    BY <2>2 DEF Capture!Remove, Capture!Shown
  <2>3. CASE Capture!SubmitAdd(h)
    BY <2>3 DEF Capture!SubmitAdd
  <2> QED
    BY <2>1, <2>2, <2>3
<1>3. PICK kind \in {"toggle", "remove", "add"}, on \in BOOLEAN :
        /\ Capture!Mutate(kind, h, on)
        /\ kind \in {"toggle", "remove"} => query.data # NoData
        /\ kind = "toggle" => on = ~query.data[h].enabled /\ ~Capture!Busy
  BY <1>2
<1>4. PICK k \in Slot : Sends(k, kind, h, on)
  BY <1>0, <1>3, Mutated, Zenon
<1>5. sent' \in HookCalls
  <2>1. Capture!Mutate(kind, h, on)
    BY <1>3
  <2> QED
    BY <1>0, <2>1, Mutated
<1>6. sent[k].kind = "free" /\ sent[k].phase = "idle"
  BY <1>4 DEF Sends, Capture!Free
<1>7. kind = "toggle" => \A l \in Slot : sent[l].kind # "toggle"
  BY <1>3 DEF Capture!Busy, Capture!Pending, HookSound, Switches
<1>8. Capture!HookPanelTypeOK'
  BY <1>0, <1>1, <1>5 DEF Capture!HookPanelTypeOK, Capture!HooksTypeOK, Hooks, HookCalls
<1>9. HookWaiters'
  BY <1>1, <1>4, <1>6 DEF Sends, HookSound, HookWaiters
<1>10. HookCurrent'
  BY <1>1, <1>4, <1>6 DEF Sends, HookSound, HookCurrent, Seen, Changing
<1>11. ASSUME kind = "toggle", sent'[k].sure PROVE kept[h].enabled # on
  <2>1. \A l \in Slot : ~Changing(l)
    BY <1>4, <1>7, <1>11 DEF Sends, Changing
  <2>2. query.data[h] = kept[h]
    BY <1>3, <1>4, <1>11, <2>1 DEF Sends, HookSound, HookCurrent, Seen
  <2>3. kept[h].enabled \in BOOLEAN
    BY <1>0 DEF Hooks, Capture!HookRow
  <2> QED
    BY <1>3, <1>11, <2>2, <2>3
<1>12. Switches'
  <2>1. ASSUME NEW l \in Slot
        PROVE  /\ Changing(l)' => query'.data # NoData
               /\ sent'[l].kind = "toggle" => sent'[l].last
               /\ sent'[l].phase = "sent" => sent'[l].hook \in Item
               /\ sent'[l].kind = "toggle" /\ sent'[l].phase = "sent" /\ sent'[l].sure =>
                    \/ kept'[sent'[l].hook].enabled # sent'[l].on
                    \/ kept'[sent'[l].hook].source = "none"
    <3>1. CASE l = k
      BY <1>1, <1>3, <1>4, <1>11, <3>1 DEF Sends, Changing
    <3>2. CASE l # k
      <4>1. /\ sent'[l].kind = sent[l].kind /\ sent'[l].hook = sent[l].hook
            /\ sent'[l].on = sent[l].on /\ sent'[l].phase = sent[l].phase
            /\ sent'[l].sure = sent[l].sure
            /\ sent'[l].last = (sent[l].last /\ sent[l].kind # kind)
        BY <1>4, <3>2 DEF Sends
      <4>2. sent[l].kind = "toggle" => sent[l].last /\ kind # "toggle"
        BY <1>7 DEF HookSound, Switches
      <4>3. sent[l].kind = "toggle" => sent'[l].last
        BY <4>1, <4>2
      <4> QED
        BY <1>1, <4>1, <4>3 DEF HookSound, Switches, Changing
    <3> QED
      BY <3>1, <3>2
  <2>2. \A l, q \in Slot : sent'[l].kind = "toggle" /\ sent'[q].kind = "toggle" => l = q
    BY <1>4, <1>7 DEF Sends, HookSound, Switches
  <2> QED
    BY <2>1, <2>2 DEF Switches
<1> QED
  BY <1>8, <1>9, <1>10, <1>12 DEF HookSound

(* So does the server. *)
LEMMA HookServeSound == ASSUME HookSound, NEW k \in Slot, Capture!Serve(k) PROVE HookSound'
<1>0. query \in Capture!Entries(Hooks, Slot) /\ chosen \in {"none", "refused", "taken"}
  BY HookTypes DEF HookSound
<1>1. /\ sent' \in HookCalls
      /\ sent'[k].kind = sent[k].kind /\ sent'[k].phase = "answered"
      /\ sent'[k].last = sent[k].last
      /\ \A l \in Slot \ {k} :
           /\ sent'[l].kind = sent[l].kind /\ sent'[l].hook = sent[l].hook
           /\ sent'[l].on = sent[l].on /\ sent'[l].phase = sent[l].phase
           /\ sent'[l].last = sent[l].last
           /\ sent'[l].sure => sent[l].sure /\ sent[l].hook \notin noted'
  BY ServedCalls
<1>2. /\ sent[k].phase = "sent" /\ sent[k].hook \in Item
      /\ query' = query /\ chosen' = chosen
      /\ kept' \in Hooks /\ noted' \subseteq Item
      /\ \A h \in Item \ {sent[k].hook} :
           kept'[h] = kept[h] /\ (h \in noted <=> h \in noted')
      /\ \/ /\ sent[k].kind = "toggle" /\ noted' = noted
            /\ kept[sent[k].hook].source # "none"
            /\ kept'[sent[k].hook].enabled = sent[k].on
         \/ sent[k].kind = "remove" /\ kept'[sent[k].hook].source = "none"
         \/ sent[k].kind = "add" /\ sent[k].hook \in noted'
  BY ServedRows
<1>3. Capture!HookPanelTypeOK'
  BY <1>0, <1>1, <1>2 DEF Capture!HookPanelTypeOK, Capture!HooksTypeOK, Hooks, HookCalls
<1>4. HookWaiters'
  BY <1>1, <1>2 DEF HookSound, HookWaiters
<1>5. HookCurrent'
  <2>1. CASE Changing(k)
    <3>1. Changing(k)' /\ sent'[k].phase = "answered"
      BY <1>1, <2>1 DEF Changing
    <3> QED
      BY <1>2, <3>1 DEF HookSound, HookCurrent
  <2>2. CASE ~Changing(k)
    <3>1. sent[k].hook \in noted'
      BY <1>2, <2>2 DEF Changing
    <3>2. \A list : Seen(list) => \A h \in Item \ noted' : list[h] = kept'[h]
      BY <1>2, <3>1 DEF Seen
    <3>3. \A l \in Slot : Changing(l) /\ sent[l].phase \in {"answered", "refetching"}
                            => Changing(l)' /\ sent'[l].phase = sent[l].phase
      BY <1>1, <1>2, <2>2 DEF Changing
    <3>4. query'.flight = "answered" =>
            /\ query'.answer \in Hooks
            /\ \/ \A h \in Item \ noted' : query'.answer[h] = kept'[h]
               \/ \E l \in Slot : Changing(l)' /\ sent'[l].phase = "answered"
      BY <1>2, <3>2, <3>3 DEF HookSound, HookCurrent
    <3>5. query'.data # NoData /\ ~query'.failed =>
            \/ \A h \in Item \ noted' : query'.data[h] = kept'[h]
            \/ \E l \in Slot : Changing(l)' /\ sent'[l].phase \in {"answered", "refetching"}
      BY <1>2, <3>2, <3>3 DEF HookSound, HookCurrent
    <3> QED
      BY <3>4, <3>5 DEF HookCurrent, Seen
  <2> QED
    BY <2>1, <2>2
<1>6. Switches'
  <2>1. ASSUME NEW l \in Slot
        PROVE  /\ Changing(l)' => query'.data # NoData
               /\ sent'[l].kind = "toggle" => sent'[l].last
               /\ sent'[l].phase = "sent" => sent'[l].hook \in Item
    <3>1. CASE l = k
      BY <1>1, <1>2, <3>1 DEF HookSound, Switches, Changing
    <3>2. CASE l # k
      BY <1>1, <1>2, <3>2 DEF HookSound, Switches, Changing
    <3> QED
      BY <3>1, <3>2
  <2>2. ASSUME NEW l \in Slot, sent'[l].kind = "toggle", sent'[l].phase = "sent", sent'[l].sure
        PROVE  \/ kept'[sent'[l].hook].enabled # sent'[l].on
               \/ kept'[sent'[l].hook].source = "none"
    <3>1. /\ l # k /\ sent[l].kind = "toggle" /\ sent[l].phase = "sent" /\ sent[l].sure
          /\ sent'[l].hook = sent[l].hook /\ sent'[l].on = sent[l].on
          /\ sent[l].hook \notin noted' /\ sent[l].hook \in Item
      BY <1>1, <2>2 DEF HookSound, Switches
    <3>2. sent[k].kind # "toggle"
      BY <3>1 DEF HookSound, Switches
    <3>3. CASE sent[l].hook = sent[k].hook
      BY <1>2, <3>1, <3>2, <3>3
    <3>4. CASE sent[l].hook # sent[k].hook
      BY <1>2, <3>1, <3>4 DEF HookSound, Switches
    <3> QED
      BY <3>3, <3>4
  <2>3. \A l, q \in Slot : sent'[l].kind = "toggle" /\ sent'[q].kind = "toggle" => l = q
    BY <1>1 DEF HookSound, Switches
  <2> QED
    BY <2>1, <2>2, <2>3 DEF Switches
<1> QED
  BY <1>3, <1>4, <1>5, <1>6 DEF HookSound

(* And so do the answers. *)
LEMMA HookAnswerSound ==
  ASSUME HookSound, NEW k \in Slot, Capture!Refuse(k) \/ Capture!Answer(k) PROVE HookSound'
<1>0. /\ query \in Capture!Entries(Hooks, Slot) /\ kept \in Hooks /\ noted \subseteq Item
      /\ chosen \in {"none", "refused", "taken"} /\ sent \in HookCalls
  BY HookTypes DEF HookSound
<1>1. CASE Capture!Refuse(k) \/ sent[k].kind = "add"
  <2>1. /\ sent' = [sent EXCEPT ![k] = Capture!Free] /\ UNCHANGED <<kept, query, noted>>
        /\ chosen' \in {"none", "refused", "taken"}
        /\ sent[k].phase \in {"sent", "answered"}
        /\ sent[k].phase = "sent" \/ ~Changing(k)
    BY <1>0, <1>1 DEF Capture!Refuse, Capture!Answer, Changing
  <2>2. /\ sent' \in HookCalls /\ sent'[k].kind = "free" /\ sent'[k].phase = "idle"
        /\ \A l \in Slot \ {k} : sent'[l] = sent[l]
    BY <1>0, <2>1 DEF HookCalls, Capture!Free
  <2>3. Capture!HookPanelTypeOK'
    BY <1>0, <2>1, <2>2 DEF Capture!HookPanelTypeOK, Capture!HooksTypeOK, Hooks, HookCalls
  <2>4. HookWaiters' /\ Switches'
    BY <2>1, <2>2 DEF HookSound, HookWaiters, Switches, Changing
  <2>5. \A l \in Slot : Changing(l) /\ sent[l].phase \in {"answered", "refetching"}
                          => Changing(l)' /\ sent'[l].phase = sent[l].phase
    BY <2>1, <2>2 DEF Changing
  <2>6. HookCurrent'
    BY <2>1, <2>5 DEF HookSound, HookCurrent, Seen
  <2> QED
    BY <2>3, <2>4, <2>6 DEF HookSound
<1>2. CASE Capture!Answer(k) /\ sent[k].kind # "add"
  <2>1. /\ Changing(k) /\ sent[k].phase = "answered"
        /\ query' = Capture!Invalidated(query, k)
        /\ query'.waiting = {k} /\ query'.flight = "asked" /\ query'.data = query.data
        /\ query.data # NoData /\ sent' \in HookCalls
        /\ sent'[k].kind = sent[k].kind /\ sent'[k].phase = "refetching"
        /\ sent'[k].last = sent[k].last
        /\ \A l \in Slot \ {k} :
             IF l \in query.waiting THEN sent'[l] = Capture!Free ELSE sent'[l] = sent[l]
    BY <1>2, AnsweredCalls
  <2>2. UNCHANGED <<kept, noted, chosen>>
    BY <1>2 DEF Capture!Answer
  <2>3. query' \in Capture!Entries(Hooks, Slot)
    BY <1>0, <2>1, HookQuery
  <2>4. Capture!HookPanelTypeOK'
    BY <1>0, <2>1, <2>2, <2>3 DEF Capture!HookPanelTypeOK, Capture!HooksTypeOK, Hooks, HookCalls
  <2>5. \A l \in Slot \ {k} :
          \/ /\ sent[l].phase = "refetching"
             /\ sent'[l].kind = "free" /\ sent'[l].phase = "idle"
          \/ sent[l].phase # "refetching" /\ sent'[l] = sent[l]
    BY <2>1 DEF HookSound, HookWaiters, Capture!Free
  <2>6. HookWaiters'
    BY <2>1, <2>5 DEF HookWaiters
  <2>7. Switches'
    BY <2>1, <2>2, <2>5 DEF HookSound, Switches, Changing
  <2>8. Changing(k)'
    BY <2>1 DEF Changing
  <2>9. HookCurrent'
    BY <2>1, <2>8 DEF HookCurrent
  <2> QED
    BY <2>4, <2>6, <2>7, <2>9 DEF HookSound
<1> QED
  BY <1>1, <1>2

(* What the viewer keeps while it shows the hook capture page. *)
LEMMA HookKept == Spec => [](Shows("hooks") => HookSound)
<1>1. Init => (Shows("hooks") => HookSound)
  BY HookSoundInit DEF Init, Shows
<1>2. (Shows("hooks") => HookSound) /\ [Next]_vars => (Shows("hooks") => HookSound)'
  <2> SUFFICES ASSUME Shows("hooks") => HookSound, [Next]_vars, Shows("hooks")'
               PROVE  HookSound'
    OBVIOUS
  <2>1. Shows("hooks")
    BY DEF Next, vars, Shows
  <2>2. CASE Capture!HookPanelNext
    BY <2>1, <2>2, HookFetchEnds, HookFetchSound, HookClickSound, HookServeSound,
       HookAnswerSound DEF Capture!HookPanelNext
  <2>3. CASE UNCHANGED Capture!hookPanelVars
    BY <2>1, <2>3 DEF Capture!hookPanelVars, HookSound, Capture!HookPanelTypeOK,
       Capture!HooksTypeOK, HookCurrent, Seen, Changing, HookWaiters, Switches
  <2> QED
    BY <2>1, <2>2, <2>3, HookStep
<1> QED
  BY <1>1, <1>2, PTL DEF Spec

(* A click on a switch turns the event round, however fast it follows      *)
(* others.                                                                 *)
THEOREM SwitchesFlip == Spec => SwitchFlips
<1>1. (Shows("hooks") => HookSound) /\ [Next]_vars =>
        [Shows("hooks") => Capture!SwitchFlips]_vars
  <2> SUFFICES ASSUME HookSound, Shows("hooks"), [Next]_vars, NEW k \in Slot,
                      sent[k].kind = "toggle", sent[k].phase = "sent",
                      sent'[k].phase = "answered", sent[k].sure
               PROVE  kept'[sent[k].hook] # kept[sent[k].hook]
    BY DEF Capture!SwitchFlips
  <2>1. Capture!HookPanelNext
    BY HookStep DEF Capture!hookPanelVars
  <2>2. Capture!Serve(k)
    <3>1. CASE Capture!DefsArrive \/ Capture!DefsFail
      BY <3>1, HookEnded DEF Capture!DefsArrive, Capture!DefsFail
    <3>2. CASE Capture!DefsServed \/ Capture!Focus
      BY <3>2 DEF Capture!DefsServed, Capture!Focus
    <3>3. ASSUME NEW h \in Item, Capture!Toggle(h) \/ Capture!Remove(h) \/ Capture!SubmitAdd(h)
          PROVE  FALSE
      <4>1. PICK kind \in {"toggle", "remove", "add"}, on \in BOOLEAN : Capture!Mutate(kind, h, on)
        BY <3>3 DEF Capture!Toggle, Capture!Remove, Capture!SubmitAdd
      <4>2. sent \in HookCalls
        BY HookTypes DEF HookSound
      <4>3. PICK l \in Slot : Sends(l, kind, h, on)
        BY <4>1, <4>2, Mutated, Zenon
      <4> QED
        BY <4>3 DEF Sends
    <3>4. ASSUME NEW l \in Slot, Capture!Refuse(l) \/ Capture!Answer(l) PROVE FALSE
      BY <3>4, AnsweredCalls, HookTypes
         DEF Capture!Refuse, Capture!Answer, HookSound, HookCalls, Capture!Free
    <3>5. ASSUME NEW l \in Slot, Capture!Serve(l) PROVE l = k
      BY <3>5, ServedCalls
    <3> QED
      BY <2>1, <3>1, <3>2, <3>3, <3>4, <3>5 DEF Capture!HookPanelNext
  <2>3. /\ kept[sent[k].hook].source # "none"
        /\ kept'[sent[k].hook].enabled = sent[k].on
    BY <2>2, ServedRows
  <2> QED
    BY <2>3 DEF HookSound, Switches
<1> QED
  BY <1>1, HookKept, PTL DEF Spec, SwitchFlips

(* When nothing is under way the card shows what a launch will wire, but   *)
(* for what was added.                                                     *)
LEMMA QuietCard == Spec => [](Shows("hooks") => Capture!OnlyAddsAreUnseen)
<1>1. (Shows("hooks") => HookSound) => (Shows("hooks") => Capture!OnlyAddsAreUnseen)
  BY DEF HookSound, HookCurrent, HookWaiters, Seen, Capture!OnlyAddsAreUnseen
<1> QED
  BY <1>1, HookKept, PTL
------------------------------------------------------------------------------
(* The curl sheet. *)

(* What the sheet shows, for the session that the runner has. *)
ShownCurl == [session |-> session, mode |-> curlMode, reveal |-> reveal, text |-> text]

(* While the sheet is open for a session, the latest request is about what *)
(* it shows; credentials are unveiled in direct mode only, and by the user.*)
CurlSound ==
    /\ CurlSheetTypeOK
    /\ open /\ session # NoSession => asked # Blank /\ asked.for = ShownCurl
    /\ reveal = unveiled
    /\ reveal => curlMode = "direct"
------------------------------------------------------------------------------
(* The effect asks for what the sheet shows after the change. *)
LEMMA EffectAsks ==
  ASSUME Effect, open', session' # NoSession
  PROVE  asked' # Blank /\ asked'.for = ShownCurl' /\ asked'.phase = "pending"
  BY DEF Effect, ShownCurl, Blank

(* It leaves a request, or none, where there was one. *)
LEMMA EffectIsTyped ==
  ASSUME CurlSheetTypeOK, Effect, session' \in Session \union {NoSession},
         curlMode' \in CurlModes, reveal' \in BOOLEAN, text' \in Text
  PROVE  asked' \in CurlRequests \union {Blank}
<1>1. CASE open' /\ session' # NoSession
  BY <1>1 DEF Effect, CurlRequests, Settings
<1>2. CASE ~(open' /\ session' # NoSession)
  BY <1>2 DEF Effect, CurlSheetTypeOK
<1> QED
  BY <1>1, <1>2

(* At the start the sheet is closed. *)
LEMMA CurlSoundInit == CurlInit => CurlSound
  BY DEF CurlInit, CurlSound, CurlSheetTypeOK, CurlModes

(* Every step keeps the invariant; one step per action. *)
LEMMA CurlSoundNext == CurlSound /\ [CurlNext]_curlVars => CurlSound'
<1> SUFFICES ASSUME CurlSound, [CurlNext]_curlVars PROVE CurlSound'
  OBVIOUS
<1>1. ASSUME NEW mm \in CurlModes, SwitchMode(mm) PROVE CurlSound'
  <2>1. CurlSheetTypeOK'
    BY <1>1, EffectIsTyped DEF CurlSound, CurlSheetTypeOK, SwitchMode
  <2>2. reveal' = unveiled' /\ (reveal' => curlMode' = "direct")
    BY <1>1 DEF CurlSound, CurlSheetTypeOK, SwitchMode, CurlModes
  <2> QED
    BY <1>1, <2>1, <2>2, EffectAsks DEF CurlSound, SwitchMode
<1>2. CASE ToggleReveal
  <2>1. CurlSheetTypeOK'
    BY <1>2, EffectIsTyped DEF CurlSound, CurlSheetTypeOK, ToggleReveal
  <2> QED
    BY <1>2, <2>1, EffectAsks DEF CurlSound, ToggleReveal
<1>3. CASE OpenSheet
  <2>1. CurlSheetTypeOK'
    BY <1>3, EffectIsTyped DEF CurlSound, CurlSheetTypeOK, OpenSheet
  <2> QED
    BY <1>3, <2>1, EffectAsks DEF CurlSound, OpenSheet
<1>4. CASE CloseSheet
  BY <1>4 DEF CurlSound, CurlSheetTypeOK, CloseSheet
<1>5. ASSUME NEW t \in Text, EditBody(t) PROVE CurlSound'
  BY <1>5 DEF CurlSound, CurlSheetTypeOK, EditBody
<1>6. ASSUME NEW s \in Session \union {NoSession}, SessionMoves(s) PROVE CurlSound'
  <2>1. CurlSheetTypeOK'
    BY <1>6, EffectIsTyped DEF CurlSound, CurlSheetTypeOK, SessionMoves
  <2> QED
    BY <1>6, <2>1, EffectAsks DEF CurlSound, SessionMoves
<1>7. CASE CurlArrives
  <2>1. asked \in CurlRequests /\ asked # Blank
    BY <1>7 DEF CurlSound, CurlSheetTypeOK, CurlArrives, Blank
  <2>2. asked' \in CurlRequests /\ asked' # Blank /\ asked'.for = asked.for
    BY <1>7, <2>1 DEF CurlArrives, CurlRequests, Blank
  <2> QED
    BY <1>7, <2>2 DEF CurlSound, CurlSheetTypeOK, CurlArrives, ShownCurl
<1>8. CASE Copy
  <2>1. asked \in CurlRequests
    BY <1>8 DEF CurlSound, CurlSheetTypeOK, Copy, CurlReady, Blank
  <2>2. clip' \in Settings
    BY <1>8, <2>1 DEF Copy, CurlRequests
  <2> QED
    BY <1>8, <2>2 DEF CurlSound, CurlSheetTypeOK, Copy, ShownCurl
<1>9. CASE UNCHANGED curlVars
  BY <1>9 DEF curlVars, CurlSound, CurlSheetTypeOK, ShownCurl
<1> QED
  BY <1>1, <1>2, <1>3, <1>4, <1>5, <1>6, <1>7, <1>8, <1>9 DEF CurlNext

(* A copy takes the answer to the latest request, which is about what is   *)
(* shown.                                                                  *)
LEMMA CopyStep == ASSUME CurlSound, [CurlNext]_curlVars PROVE CopyIsShown
<1> SUFFICES ASSUME clip' # clip, session # NoSession
             PROVE  /\ clip'.session = session /\ clip'.mode = curlMode
                    /\ Revealed(clip') = reveal /\ clip'.text = text
  BY DEF CopyIsShown
<1>1. Copy
  BY DEF CurlNext, curlVars, SwitchMode, ToggleReveal, OpenSheet, CloseSheet, EditBody,
     SessionMoves, CurlArrives
<1>2. clip' = ShownCurl
  BY <1>1 DEF Copy, CurlSound
<1> QED
  BY <1>2 DEF ShownCurl, Revealed, CurlSound, CurlSheetTypeOK

(* Only the effect asks, and it asks for what is shown then. *)
LEMMA AskStep == ASSUME CurlSound, CurlSound', [CurlNext]_curlVars PROVE RevealIsAskedFor
<1> SUFFICES ASSUME asked' # asked, asked'.phase = "pending", Revealed(asked'.for)
             PROVE  unveiled'
  BY DEF RevealIsAskedFor
<1>1. ~CurlArrives
  BY DEF CurlArrives, CurlSound, CurlSheetTypeOK, CurlRequests, Blank
<1>2. Effect
  BY <1>1 DEF CurlNext, curlVars, SwitchMode, ToggleReveal, OpenSheet, CloseSheet,
     EditBody, SessionMoves, Copy
<1>3. asked'.for = ShownCurl'
  BY <1>2 DEF Effect, ShownCurl
<1> QED
  BY <1>3 DEF Revealed, ShownCurl, CurlSound

(* What is copied was built for the session, the mode, the masking and the *)
(* text that the sheet shows, however often these changed under the        *)
(* requests for it.                                                        *)
THEOREM CopiesAreCurrent == CurlSpec => CopiesWhatIsShown
<1>1. CurlSound /\ [CurlNext]_curlVars => CopyIsShown
  BY CopyStep
<1> QED
  BY <1>1, CurlSoundInit, CurlSoundNext, PTL DEF CurlSpec, CopiesWhatIsShown

(* Real credentials are asked for only after the user asked to reveal them *)
(* in this stay in direct mode.                                            *)
THEOREM RevealIsDemanded == CurlSpec => RevealsOnlyOnDemand
<1>1. CurlSound /\ [CurlNext]_curlVars => RevealIsAskedFor
  BY AskStep, CurlSoundNext
<1> QED
  BY <1>1, CurlSoundInit, CurlSoundNext, PTL DEF CurlSpec, RevealsOnlyOnDemand
------------------------------------------------------------------------------
(* The launch page. *)

(* The preview at hand is about the present form; a command that is being  *)
(* generated, or was, is about the present configuration unless the user   *)
(* has gone on since it was asked for.                                     *)
LaunchSound ==
    /\ preview \in {None, Request}
    /\ generating \in {None, Config} \/ moved
    /\ OnlyLateCommandsAreStale

(* At the start nothing is shown and nothing under way. *)
LEMMA LaunchSoundInit == LaunchInit => LaunchSound
  BY DEF LaunchInit, LaunchSound, OnlyLateCommandsAreStale

(* Without a change of the form its configuration is the same. *)
LEMMA FormStays ==
  UNCHANGED <<target, mode, args, workdir>> => Config' = Config /\ Request' = Request
  BY DEF Config, Request

(* A change of the configuration drops what was for the old one, or notes  *)
(* that it is late.                                                        *)
LEMMA ReconfigureSound ==
  ASSUME LaunchSound, NEW t, NEW md, NEW a, Reconfigure(t, md, a) PROVE LaunchSound'
<1>1. CASE <<KindOf(t), md, a>> = <<KindOf(target), mode, args>>
  <2>1. Config' = Config /\ Request' = Request
    BY <1>1 DEF Reconfigure, Config, Request
  <2>2. UNCHANGED <<preview, generating, envCmd, moved, late>>
    BY <1>1 DEF Reconfigure
  <2> QED
    BY <2>1, <2>2 DEF LaunchSound, OnlyLateCommandsAreStale
<1>2. CASE <<KindOf(t), md, a>> # <<KindOf(target), mode, args>>
  <2>1. /\ preview' \in {None, Request'} /\ envCmd' = None
        /\ moved' = (moved \/ generating # None) /\ generating' = generating
    BY <1>2 DEF Reconfigure
  <2> QED
    BY <2>1 DEF LaunchSound, OnlyLateCommandsAreStale, None
<1> QED
  BY <1>1, <1>2

(* Every step keeps the invariant. *)
LEMMA LaunchSoundNext == LaunchSound /\ [LaunchNext]_launchVars => LaunchSound'
<1> SUFFICES ASSUME LaunchSound, [LaunchNext]_launchVars PROVE LaunchSound'
  OBVIOUS
<1>1. CASE Configure
  BY <1>1, ReconfigureSound DEF Configure
<1>2. ASSUME NEW dir \in Dir \union {NoDir}, TypeDir(dir) PROVE LaunchSound'
  <2>1. Config' = Config
    BY <1>2 DEF TypeDir, Config
  <2> QED
    BY <1>2, <2>1 DEF TypeDir, LaunchSound, OnlyLateCommandsAreStale, None
<1>9. ASSUME NEW dir \in Dir, PickRecent(dir) PROVE LaunchSound'
  <2>1. Config' = Config /\ (dir = workdir => Request' = Request)
    BY <1>9 DEF PickRecent, Config, Request
  <2> QED
    BY <1>9, <2>1 DEF PickRecent, LaunchSound, OnlyLateCommandsAreStale, None
<1>3. CASE CopyEnv
  BY <1>3, FormStays DEF CopyEnv, LaunchSound, OnlyLateCommandsAreStale, None
<1>4. CASE Generated
  BY <1>4, FormStays DEF Generated, LaunchSound, OnlyLateCommandsAreStale, None
<1>5. CASE GenerateFails
  BY <1>5, FormStays DEF GenerateFails, LaunchSound, OnlyLateCommandsAreStale, None
<1>6. CASE PreviewArrives
  BY <1>6, FormStays DEF PreviewArrives, LaunchSound, OnlyLateCommandsAreStale, None
<1>7. CASE UNCHANGED <<target, mode, args, workdir, preview, generating, envCmd,
                       moved, late>>
  BY <1>7, FormStays DEF LaunchSound, OnlyLateCommandsAreStale, None
<1>8. BlurDir \/ TemplateArrives \/ CopyFull \/ Launch \/ Launched
      \/ (\E k \in BOOLEAN : TypeKey(k)) \/ UNCHANGED launchVars
      => UNCHANGED <<target, mode, args, workdir, preview, generating, envCmd,
                     moved, late>>
  BY DEF BlurDir, TemplateArrives, CopyFull, Launch, Launched, TypeKey, launchVars
<1> QED
  BY <1>1, <1>2, <1>3, <1>4, <1>5, <1>6, <1>7, <1>8, <1>9 DEF LaunchNext

(* Only a click on Launch starts one, and the preview was there then. *)
LEMMA LaunchStep == ASSUME LaunchSound, [LaunchNext]_launchVars PROVE LaunchIsPreviewed
<1> SUFFICES ASSUME launching = None, launching' # None PROVE launching' = preview
  BY DEF LaunchIsPreviewed
<1>1. Launch
  BY DEF LaunchNext, launchVars, Configure, Reconfigure, TypeDir, PickRecent, BlurDir, TypeKey,
     PreviewArrives, TemplateArrives, CopyEnv, Generated, GenerateFails, CopyFull,
     Launched
<1> QED
  BY <1>1 DEF Launch, ServerLaunchEnabled, LaunchSound

(* A command that is shown for another configuration came after the user   *)
(* had gone on to the one shown.                                           *)
THEOREM StaleCommandsAreLate == LaunchSpec => []OnlyLateCommandsAreStale
<1>1. LaunchSound => OnlyLateCommandsAreStale
  BY DEF LaunchSound
<1> QED
  BY <1>1, LaunchSoundInit, LaunchSoundNext, PTL DEF LaunchSpec

(* What is launched is what the previewed command line says.               *)
THEOREM LaunchesArePreviewed == LaunchSpec => LaunchesWhatIsPreviewed
<1>1. LaunchSound /\ [LaunchNext]_launchVars => LaunchIsPreviewed
  BY LaunchStep
<1> QED
  BY <1>1, LaunchSoundInit, LaunchSoundNext, PTL DEF LaunchSpec, LaunchesWhatIsPreviewed

(* The directories saved: at most Cap, none of them twice. *)
RecentOK ==
    /\ recent \in Seq(Dir) /\ Len(recent) <= Cap
    /\ \A k, l \in DOMAIN recent : recent[k] = recent[l] => k = l

(* What is in the form can be asked for. *)
LEMMA FormTyped ==
  LaunchPanelTypeOK => Config \in Configs /\ Request \in Launches
  BY DEF LaunchPanelTypeOK, Config, Configs, Request, Launches, KindOf, Targets

(* A directory is put in front of the others, and is not in the list twice.*)
LEMMA InFrontTyped ==
  ASSUME LaunchPanelTypeOK, NEW dir \in Dir
  PROVE  /\ InFront(dir) \in Seq(Dir)
         /\ \A k, l \in DOMAIN InFront(dir) : InFront(dir)[k] = InFront(dir)[l] => k = l
<1>0. recent \in Seq(Dir) /\ \A k, l \in DOMAIN recent : recent[k] = recent[l] => k = l
  BY DEF LaunchPanelTypeOK
<1>1. CASE dir \in ToSet(recent)
  <2> DEFINE at == CHOOSE k \in DOMAIN recent : recent[k] = dir
  <2>1. at \in 1..Len(recent) /\ recent[at] = dir
    BY <1>0, <1>1 DEF ToSet
  <2> DEFINE rest == RemoveAt(recent, at)
  <2>2. InFront(dir) = <<dir>> \o rest
    BY <1>1 DEF InFront
  <2> HIDE DEF at
  <2>3. /\ rest \in Seq(Dir) /\ Len(rest) = Len(recent) - 1
        /\ \A k \in 1..Len(rest) : rest[k] = IF k < at THEN recent[k] ELSE recent[k + 1]
    <3> DEFINE before == SubSeq(recent, 1, at - 1)
               after == SubSeq(recent, at + 1, Len(recent))
    <3>1. /\ before \in Seq(Dir) /\ Len(before) = at - 1
          /\ \A k \in 1..(at - 1) : before[k] = recent[k]
      BY <1>0, <2>1
    <3>2. /\ after \in Seq(Dir) /\ Len(after) = Len(recent) - at
          /\ \A k \in 1..(Len(recent) - at) : after[k] = recent[at + k]
      BY <1>0, <2>1
    <3>3. rest = before \o after
      BY DEF RemoveAt
    <3> HIDE DEF before, after, rest
    <3>4. rest \in Seq(Dir) /\ Len(rest) = Len(recent) - 1
      <4>1. \A f, g \in Seq(Dir) : f \o g \in Seq(Dir) /\ Len(f \o g) = Len(f) + Len(g)
        OBVIOUS
      <4>2. Len(recent) \in Nat
        BY <1>0
      <4>3. before \in Seq(Dir) /\ after \in Seq(Dir)
        BY <3>1, <3>2
      <4>4. rest \in Seq(Dir) /\ Len(rest) = Len(before) + Len(after)
        BY <3>3, <4>1, <4>3
      <4>5. Len(before) = at - 1 /\ Len(after) = Len(recent) - at
        BY <3>1, <3>2
      <4> QED
        BY <2>1, <4>2, <4>4, <4>5
    <3>5. ASSUME NEW k \in 1..Len(rest)
          PROVE  rest[k] = IF k < at THEN recent[k] ELSE recent[k + 1]
      <4>1. CASE k < at
        BY <1>0, <2>1, <3>1, <3>2, <3>3, <3>4, <4>1
      <4>2. CASE ~(k < at)
        <5>1. \A f, g \in Seq(Dir) : \A l \in 1..Len(g) : (f \o g)[Len(f) + l] = g[l]
          OBVIOUS
        <5>2. k - (at - 1) \in 1..(Len(recent) - at) /\ at + (k - (at - 1)) = k + 1
          BY <1>0, <2>1, <3>4, <4>2
        <5>3. rest[(at - 1) + (k - (at - 1))] = after[k - (at - 1)]
          BY <3>1, <3>2, <3>3, <5>1, <5>2
        <5>4. (at - 1) + (k - (at - 1)) = k
          BY <2>1
        <5> QED
          BY <3>2, <4>2, <5>2, <5>3, <5>4
      <4> QED
        BY <4>1, <4>2
    <3> QED
      BY <3>4, <3>5
  <2> HIDE DEF rest
  <2>4. ASSUME NEW k \in 1..Len(rest) PROVE rest[k] # dir
    <3>1. Len(recent) \in Nat /\ DOMAIN recent = 1..Len(recent)
      BY <1>0
    <3>2. k \in DOMAIN recent /\ k + 1 \in DOMAIN recent /\ at \in DOMAIN recent
      BY <2>1, <2>3, <3>1
    <3>3. \A l \in DOMAIN recent : recent[l] = dir => l = at
      BY <1>0, <2>1, <3>2
    <3>4. CASE k < at
      <4>1. rest[k] = recent[k]
        BY <2>3, <3>4
      <4>2. k # at
        BY <2>1, <3>4
      <4> QED
        BY <3>2, <3>3, <4>1, <4>2
    <3>5. CASE ~(k < at)
      <4>1. rest[k] = recent[k + 1]
        BY <2>3, <3>5
      <4>2. k + 1 # at
        BY <2>1, <3>1, <3>5
      <4> QED
        BY <3>2, <3>3, <4>1, <4>2
    <3> QED
      BY <3>4, <3>5
  <2>5. ASSUME NEW k \in 1..Len(rest), NEW l \in 1..Len(rest), rest[k] = rest[l]
        PROVE  k = l
    <3>1. Len(recent) \in Nat /\ DOMAIN recent = 1..Len(recent)
      BY <1>0
    <3>2. k \in DOMAIN recent /\ k + 1 \in DOMAIN recent
          /\ l \in DOMAIN recent /\ l + 1 \in DOMAIN recent
      BY <2>3, <3>1
    <3>3. CASE k < at /\ l < at
      BY <1>0, <2>3, <2>5, <3>2, <3>3
    <3>4. CASE ~(k < at) /\ ~(l < at)
      <4>1. recent[k + 1] = recent[l + 1]
        BY <2>3, <2>5, <3>4
      <4>2. k + 1 = l + 1
        BY <1>0, <3>2, <4>1
      <4> QED
        BY <2>3, <3>1, <4>2
    <3>5. CASE k < at /\ ~(l < at)
      <4>1. recent[k] = recent[l + 1]
        BY <2>3, <2>5, <3>5
      <4>2. k = l + 1
        BY <1>0, <3>2, <4>1
      <4> QED
        BY <2>1, <2>3, <3>1, <3>5, <4>2
    <3>6. CASE ~(k < at) /\ l < at
      <4>1. recent[k + 1] = recent[l]
        BY <2>3, <2>5, <3>6
      <4>2. k + 1 = l
        BY <1>0, <3>2, <4>1
      <4> QED
        BY <2>1, <2>3, <3>1, <3>6, <4>2
    <3> QED
      BY <3>3, <3>4, <3>5, <3>6
  <2> QED
    BY <2>2, <2>3, <2>4, <2>5
<1>2. CASE dir \notin ToSet(recent)
  <2>1. InFront(dir) = <<dir>> \o recent
    BY <1>2 DEF InFront
  <2>2. \A k \in 1..Len(recent) : recent[k] # dir
    BY <1>0, <1>2 DEF ToSet
  <2> QED
    BY <1>0, <2>1, <2>2
<1> QED
  BY <1>1, <1>2

(* Saving a directory keeps the list short and without doubles.            *)
LEMMA RememberTyped ==
  ASSUME LaunchPanelTypeOK, NEW dir \in Dir \union {NoDir}
  PROVE  /\ Remember(dir) \in Seq(Dir) /\ Len(Remember(dir)) <= Cap
         /\ \A k, l \in DOMAIN Remember(dir) : Remember(dir)[k] = Remember(dir)[l] => k = l
<1>1. CASE dir = NoDir
  BY <1>1 DEF Remember, LaunchPanelTypeOK
<1>2. CASE dir # NoDir
  <2> DEFINE next == InFront(dir)
             size == IF Len(next) > Cap THEN Cap ELSE Len(next)
  <2>1. /\ next \in Seq(Dir)
        /\ \A k, l \in DOMAIN next : next[k] = next[l] => k = l
    BY <1>2, InFrontTyped
  <2>2. Remember(dir) = SubSeq(next, 1, size)
    BY <1>2 DEF Remember
  <2> HIDE DEF next
  <2>3. size \in 0..Len(next) /\ size <= Cap
    BY <2>1, LaunchAssumption
  <2> HIDE DEF size
  <2> QED
    BY <2>1, <2>2, <2>3
<1> QED
  BY <1>1, <1>2

(* So what is saved is such a list again. *)
LEMMA RememberedTyped ==
  ASSUME LaunchPanelTypeOK, NEW dir \in Dir \union {NoDir}, recent' = Remember(dir)
  PROVE  RecentOK'
  BY RememberTyped DEF RecentOK

(* At the start no directory is saved. *)
LEMMA LaunchTypedInit == LaunchInit => LaunchPanelTypeOK
<1>1. <<>> \in Seq(Dir) /\ Len(<<>>) <= Cap /\ DOMAIN <<>> = {}
  BY LaunchAssumption
<1> QED
  BY <1>1 DEF LaunchInit, LaunchPanelTypeOK, Targets, Modes

(* Every step keeps the types. *)
LEMMA LaunchTypedNext == LaunchPanelTypeOK /\ [LaunchNext]_launchVars => LaunchPanelTypeOK'
<1> SUFFICES ASSUME LaunchPanelTypeOK, [LaunchNext]_launchVars PROVE LaunchPanelTypeOK'
  OBVIOUS
<1> DEFINE Rest ==
             /\ target \in Targets /\ mode \in Modes /\ args \in Args
             /\ workdir \in Dir \union {NoDir} /\ hasKey \in BOOLEAN
             /\ preview \in Launches \union {None} /\ template \in BOOLEAN
             /\ generating \in Configs \union {None}
             /\ envCmd \in Configs \union {None}
             /\ launching \in Launches \union {None}
             /\ moved \in BOOLEAN /\ late \in BOOLEAN
<1>0. Rest /\ RecentOK /\ Config \in Configs /\ Request \in Launches
  BY FormTyped DEF LaunchPanelTypeOK, RecentOK
<1>1. ASSUME target' \in Targets, mode' \in Modes, args' \in Args,
             workdir' \in Dir \union {NoDir}
      PROVE  Request' \in Launches
  BY <1>1 DEF Config, Configs, Request, Launches, KindOf, Targets
<1>2. Rest'
  <2>1. ASSUME NEW t \in Targets, NEW md \in Modes, NEW a \in Args, Reconfigure(t, md, a) PROVE Rest'
    <3>1. Request' \in Launches
      BY <1>1, <1>0, <2>1 DEF Reconfigure
    <3> QED
      BY <1>0, <2>1, <3>1 DEF Reconfigure
  <2>2. CASE Configure
    BY <1>0, <2>1, <2>2 DEF Configure
  <2>3. ASSUME NEW dir \in Dir \union {NoDir},
               TypeDir(dir) \/ (dir \in Dir /\ PickRecent(dir))
        PROVE  Rest'
    <3>1. Request' \in Launches
      BY <1>1, <1>0, <2>3 DEF TypeDir, PickRecent
    <3> QED
      BY <1>0, <2>3, <3>1 DEF TypeDir, PickRecent
  <2>4. CASE CopyEnv \/ Generated \/ GenerateFails
    BY <1>0, <2>4 DEF CopyEnv, Generated, GenerateFails
  <2>5. CASE PreviewArrives \/ TemplateArrives \/ Launch \/ Launched
    BY <1>0, <2>5 DEF PreviewArrives, TemplateArrives, Launch, Launched
  <2>6. CASE BlurDir \/ CopyFull \/ (\E k \in BOOLEAN : TypeKey(k)) \/ UNCHANGED launchVars
    BY <1>0, <2>6 DEF BlurDir, CopyFull, TypeKey, launchVars
  <2> QED
    BY <2>2, <2>3, <2>4, <2>5, <2>6 DEF LaunchNext
<1>3. RecentOK'
  <2>1. \/ \E dir \in Dir \union {NoDir} : recent' = Remember(dir)
        \/ recent' = recent
    BY <1>0 DEF LaunchNext, Configure, Reconfigure, TypeDir, BlurDir, PickRecent, TypeKey,
       PreviewArrives, TemplateArrives, CopyEnv, Generated, GenerateFails, CopyFull, Launch,
       Launched, launchVars
  <2> QED
    BY <1>0, <2>1, RememberedTyped DEF RecentOK
<1> QED
  BY <1>2, <1>3 DEF RecentOK, LaunchPanelTypeOK

(* The launch page keeps its types: the history of directories is never    *)
(* longer than its limit and never names one twice.                        *)
THEOREM LaunchIsTyped == LaunchSpec => []LaunchPanelTypeOK
  BY LaunchTypedInit, LaunchTypedNext, PTL DEF LaunchSpec
==============================================================================
