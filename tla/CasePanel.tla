------------------------------ MODULE CasePanel ------------------------------
(***************************************************************************)
(* The replay library's page: the gallery, the runner's dialog with its    *)
(* editor, the creator's dialog, and the requests they send.  Answers come *)
(* back late and in any order, also after the dialog that asked is gone.   *)
(* The user sees the list of the last fetch, never the server's table.     *)
(***************************************************************************)
EXTENDS FiniteSets, Query

CONSTANTS
    Case,      \* case ids, those not drawn yet included
    Builtin,   \* the cases that are there at the start and cannot be deleted
    Body,      \* request bodies, valid JSON all
    Garbage,   \* what the editor holds while it is not valid JSON
    NoBody,
    NoCase,
    Slot,      \* requests under way at a time
    FetchesFail

VARIABLES
    table,       \* the server's rows: case -> body; NoBody before, Gone after
    cases,       \* query ["cases"]: the list the panel shows
    selectedId,  \* state of CasesPanel
    creating,
    draft,       \* state of the mounted CaseRunner
    calls        \* slot -> request under way

caseVars == <<table, cases, selectedId, creating, draft, calls>>

Gone == Garbage
Free == [kind |-> "free", id |-> NoCase, body |-> NoBody, made |-> NoCase,
         phase |-> "idle", here |-> FALSE, shown |-> NoBody, overlap |-> FALSE]
Kinds == {"create", "overwrite", "snapshot", "delete", "run"}

(* here: the component that sent it is still mounted, so the callbacks     *)
(* given to mutate will run.  shown and overlap are history of a run: what *)
(* the editor showed when it was confirmed, and whether the list was not   *)
(* settled then or a write of the case was served before the run.  Once it *)
(* is served, what a call carried is dropped.  It is "cut" when a later    *)
(* invalidation cancelled the refetch it waits for.                        *)
Calls == [kind : Kinds, id : Case \union {NoCase},
          body : Body \union {Garbage, NoBody}, made : Case \union {NoCase},
          phase : {"sent", "answered", "refetching", "cut"}, here : BOOLEAN,
          shown : Body \union {Garbage, NoBody}, overlap : BOOLEAN]

Rows == {c \in Case : table[c] \in Body}
Lists == UNION {[S -> Body] : S \in SUBSET Case}

(* What stands for nothing is nothing else. *)
ASSUME CasePanelAssumption ==
    /\ NoCase \notin Case /\ NoBody \notin Body \union {Garbage}
    /\ NoData \notin Lists

CasePanelTypeOK ==
    /\ table \in [Case -> Body \union {NoBody, Gone}]
    /\ cases \in Entries(Lists, Slot)
    /\ selectedId \in Case \union {NoCase}
    /\ creating \in BOOLEAN
    /\ draft \in Body \union {Garbage, NoBody}
    /\ calls \in [Slot -> Calls \union {Free}]

CaseInit ==
    /\ \E b \in Body :
         table = [c \in Case |-> IF c \in Builtin THEN b ELSE NoBody]
    /\ cases = Fetched(NewEntry)
    /\ selectedId = NoCase /\ creating = FALSE /\ draft = NoBody
    /\ calls = [k \in Slot |-> Free]
------------------------------------------------------------------------------
(* What is rendered. *)

ListOf(q) == IF q.data = NoData THEN [c \in {} |-> NoBody] ELSE q.data
InList(id, q) == IF id \in DOMAIN ListOf(q) THEN id ELSE NoCase
Selected == InList(selectedId, cases)

Pretty == ListOf(cases)[Selected]
Editor == IF draft = NoBody THEN Pretty ELSE draft
Edited == draft # NoBody /\ draft # Pretty
ValidJSON == Editor # Garbage

Pending(kind) == \E k \in Slot : calls[k].kind = kind /\ calls[k].here

(* Mutant: callbacks run although what gave them is gone. *)
UnmountedKeepsCallbacks(cs, kinds) == cs

(* The runner is keyed by its case: another selection, or none, unmounts   *)
(* it, which drops its draft and the callbacks of what it sent.            *)
Unmounted(cs, kinds) ==
    [k \in Slot |-> [cs[k] EXCEPT !.here = @ /\ cs[k].kind \notin kinds]]

Render(id, q, cs) ==
    LET same == InList(id, q) = Selected IN
    /\ selectedId' = id
    /\ cases' = q
    /\ draft' = IF same THEN draft ELSE NoBody
    /\ calls' = IF same THEN cs
                ELSE Unmounted(cs, {"overwrite", "snapshot", "run"})

(* Those who waited for a fetch are called back before React renders it.   *)
Spared(cs) == [k \in Slot |-> IF k \in cases.waiting THEN calls[k] ELSE cs[k]]
------------------------------------------------------------------------------
(* The query of the list. *)

FetchServed ==
    /\ cases.flight = "asked"
    /\ cases' = Served(cases, [c \in Rows |-> table[c]])
    /\ UNCHANGED <<table, selectedId, creating, draft, calls>>

FetchArrives ==
    /\ cases.flight = "answered"
    /\ cases' = Arrived(cases)
    /\ IF InList(selectedId, cases') = Selected
       THEN UNCHANGED <<draft, calls>>
       ELSE /\ draft' = NoBody
            /\ calls' = Spared(Unmounted(calls, {"overwrite", "snapshot", "run"}))
    /\ UNCHANGED <<table, selectedId, creating>>

FetchFails ==
    /\ FetchesFail /\ cases.flight # "idle"
    /\ cases' = Lost(cases)
    /\ UNCHANGED <<table, selectedId, creating, draft, calls>>

Focus ==
    /\ cases.flight = "idle"
    /\ cases' = Fetched(cases)
    /\ UNCHANGED <<table, selectedId, creating, draft, calls>>
------------------------------------------------------------------------------
(* The user.  A dialog is modal; the runner's lies over the creator's.     *)

GalleryInReach == Selected = NoCase /\ ~creating
CreatorInReach == Selected = NoCase /\ creating

Open(c) ==
    /\ GalleryInReach /\ c \in DOMAIN ListOf(cases)
    /\ Render(c, cases, calls)
    /\ UNCHANGED <<table, creating>>

Close ==
    /\ Selected # NoCase
    /\ Render(NoCase, cases, calls)
    /\ UNCHANGED <<table, creating>>

Type(b) ==
    /\ Selected # NoCase
    /\ draft' = b
    /\ UNCHANGED <<table, cases, selectedId, creating, calls>>

OpenCreator ==
    /\ GalleryInReach
    /\ creating' = TRUE
    /\ UNCHANGED <<table, cases, selectedId, draft, calls>>

CloseCreator ==
    /\ CreatorInReach
    /\ creating' = FALSE
    /\ calls' = Unmounted(calls, {"create"})
    /\ UNCHANGED <<table, cases, selectedId, draft>>

Send(kind, id, b) ==
    \E k \in Slot :
      /\ calls[k] = Free
      /\ calls' = [calls EXCEPT ![k] =
            [Free EXCEPT !.kind = kind, !.id = id, !.body = b, !.here = TRUE,
                         !.phase = "sent"]]
      /\ UNCHANGED <<table, cases, selectedId, creating, draft>>

SaveNew(b) == CreatorInReach /\ ~Pending("create") /\ Send("create", NoCase, b)

SaveOverwrite ==
    /\ Selected # NoCase /\ Edited /\ ValidJSON /\ ~Pending("overwrite")
    /\ Send("overwrite", Selected, Editor)

SaveSnapshot ==
    /\ Selected # NoCase /\ Edited /\ ValidJSON /\ ~Pending("snapshot")
    /\ Send("snapshot", Selected, Editor)

RemoveCase(c) ==
    /\ GalleryInReach /\ c \in DOMAIN ListOf(cases) \ Builtin
    /\ Send("delete", c, NoBody)

(* A write of case c of which the panel has not seen the outcome. *)
Writing(c) ==
    \E k \in Slot : calls[k].kind \in {"overwrite", "delete"} /\ calls[k].id = c

Settled == cases.flight = "idle" /\ ~cases.failed /\ ~cases.reused

(* Mutant: an edited body is not sent along. *)
DoRunUnedited ==
    /\ Selected # NoCase /\ ~Pending("run")
    /\ \E k \in Slot :
         /\ calls[k] = Free
         /\ calls' = [calls EXCEPT ![k] =
               [Free EXCEPT !.kind = "run", !.id = Selected, !.here = TRUE,
                            !.phase = "sent", !.shown = Editor,
                            !.overlap = ~Settled \/ Writing(Selected)]]
    /\ UNCHANGED <<table, cases, selectedId, creating, draft>>

(* A run is billed and so confirmed first; it sends the body only if it was *)
(* edited, and it may send one that is not JSON.                            *)
DoRun ==
    /\ Selected # NoCase /\ ~Pending("run")
    /\ \E k \in Slot :
         /\ calls[k] = Free
         /\ calls' = [calls EXCEPT ![k] =
               [Free EXCEPT !.kind = "run", !.id = Selected,
                            !.body = IF Edited THEN Editor ELSE NoBody,
                            !.here = TRUE, !.phase = "sent", !.shown = Editor,
                            !.overlap = ~Settled \/ Writing(Selected)]]
    /\ UNCHANGED <<table, cases, selectedId, creating, draft>>
------------------------------------------------------------------------------
(* The server and the answers. *)

Fresh == {c \in Case : table[c] = NoBody /\ \A k \in Slot : calls[k].made # c}

Delivered(call) ==
    [call EXCEPT !.phase = "answered", !.body = NoBody, !.shown = NoBody,
                 !.overlap = FALSE]

ServeNew(k) ==
    /\ calls[k].phase = "sent"
    /\ \/ calls[k].kind = "create"
       \/ calls[k].kind = "snapshot" /\ table[calls[k].id] \in Body
    /\ \E c \in Fresh :
         /\ table' = [table EXCEPT ![c] = calls[k].body]
         /\ calls' = [calls EXCEPT ![k] = [Delivered(@) EXCEPT !.made = c]]
    /\ UNCHANGED <<cases, selectedId, creating, draft>>

ServeWrite(k) ==
    LET c == calls[k].id IN
    /\ calls[k].phase = "sent" /\ calls[k].kind \in {"overwrite", "delete"}
    /\ table[c] \in Body
    /\ table' = [table EXCEPT ![c] = IF calls[k].kind = "delete" THEN Gone
                                     ELSE calls[k].body]
    /\ calls' = [j \in Slot |->
          IF j = k THEN Delivered(calls[k])
          ELSE [calls[j] EXCEPT !.overlap =
                   @ \/ (calls[j].kind = "run" /\ calls[j].id = c)]]
    /\ UNCHANGED <<cases, selectedId, creating, draft>>

ServeRun(k) ==
    /\ calls[k].phase = "sent" /\ calls[k].kind = "run"
    /\ table[calls[k].id] \in Body
    /\ calls' = [calls EXCEPT ![k] = Delivered(@)]
    /\ UNCHANGED <<table, cases, selectedId, creating, draft>>

(* 404 for a case that is gone, or an error of the server's. *)
Refuse(k) ==
    /\ calls[k].phase = "sent"
    /\ FetchesFail \/ (calls[k].kind # "create" /\ table[calls[k].id] = Gone)
    /\ calls' = [calls EXCEPT ![k] = Free]
    /\ UNCHANGED <<table, cases, selectedId, creating, draft>>

(* Mutant: onSuccess without invalidateQueries. *)
AnswerWithoutRefetch(k) ==
    /\ calls[k].phase = "answered"
    /\ calls' = [calls EXCEPT ![k] =
          IF calls[k].kind = "run" THEN Free ELSE [@ EXCEPT !.phase = "cut"]]
    /\ UNCHANGED <<table, cases, selectedId, creating, draft>>

(* onSuccess of the hooks: runs whether or not the component is mounted.   *)
Answer(k) ==
    /\ calls[k].phase = "answered"
    /\ IF calls[k].kind = "run"
       THEN calls' = [calls EXCEPT ![k] = Free] /\ UNCHANGED cases
       ELSE /\ cases' = Invalidated(cases, k)
            /\ calls' = [j \in Slot |->
                  IF j = k THEN [calls[k] EXCEPT !.phase = "refetching"]
                  ELSE IF j \in cases.waiting \ cases'.waiting
                  THEN [calls[j] EXCEPT !.phase = "cut"] ELSE calls[j]]
    /\ UNCHANGED <<table, selectedId, creating, draft>>

(* Mutant: mutate is over without waiting for the refetch. *)
OverAtOnce(k) == calls[k].phase \in {"cut", "refetching"}

(* onSuccess given to mutate: only if what called it is still mounted.     *)
Over(k) == \/ calls[k].phase = "cut"
           \/ calls[k].phase = "refetching" /\ k \notin cases.waiting

Finish(k) ==
    LET rest == [calls EXCEPT ![k] = Free] IN
    /\ Over(k)
    /\ CASE calls[k].here /\ calls[k].kind \in {"create", "snapshot"} ->
              /\ Render(calls[k].made, cases, rest)
              /\ creating' = (creating /\ calls[k].kind # "create")
         [] calls[k].here /\ calls[k].kind = "overwrite" ->
              /\ draft' = NoBody /\ calls' = rest
              /\ UNCHANGED <<cases, selectedId, creating>>
         [] OTHER ->
              /\ calls' = rest
              /\ UNCHANGED <<cases, selectedId, creating, draft>>
    /\ UNCHANGED table

(* Those callbacks run in the task that ended the fetch, before any other. *)
Fetching == FetchServed \/ FetchArrives \/ FetchFails \/ Focus
Asking ==
    \/ Close \/ OpenCreator \/ CloseCreator
    \/ SaveOverwrite \/ SaveSnapshot \/ DoRun
    \/ \E c \in Case : Open(c) \/ RemoveCase(c)
    \/ \E b \in Body \union {Garbage} : Type(b)
    \/ \E b \in Body : SaveNew(b)
Serving(k) == ServeNew(k) \/ ServeWrite(k) \/ ServeRun(k) \/ Refuse(k)

CaseNext ==
    \/ \E k \in Slot : Finish(k)
    \/ /\ \A k \in Slot : ~Over(k)
       /\ Fetching \/ Asking \/ \E k \in Slot : Serving(k) \/ Answer(k)

CaseSpec == CaseInit /\ [][CaseNext]_caseVars
------------------------------------------------------------------------------
(* When nothing is under way, the last fetch succeeded and no invalidation *)
(* was absorbed by the first fetch, the list is the server's table: each   *)
(* write is followed by a fetch that the server answers after it.          *)
QuietListIsCurrent ==
    Settled /\ (\A k \in Slot : calls[k].phase # "answered")
        => ListOf(cases) = [c \in Rows |-> table[c]]

(* A late answer moves the user to the case it made only out of the dialog *)
(* that asked for it, or would have been shown for it but that the case is *)
(* gone from the list that just came.                                      *)
AnswerStaysHome ==
    \A k \in Slot :
      Over(k) /\ calls'[k] = Free /\ selectedId' # selectedId =>
         \/ calls[k].kind = "create" /\ creating
         \/ calls[k].kind = "snapshot" /\ selectedId = calls[k].id

AnswersStayHome == [][AnswerStaysHome]_caseVars

(* A case made from an open dialog is then shown, unless its refetch       *)
(* failed, was cut by another one or was the first fetch of the page.      *)
MadeCaseIsShown ==
    [][\A k \in Slot :
         (/\ Over(k) /\ calls[k].phase # "cut" /\ calls'[k] = Free
          /\ calls[k].here /\ calls[k].kind \in {"create", "snapshot"}
          /\ ~cases.failed /\ ~cases.reused)
         => Selected' = calls[k].made]_caseVars

(* The server runs the body the editor showed when the run was confirmed,  *)
(* unless a write of the case was under way or the list was not settled.   *)
RunsWhatWasShown ==
    [][\A k \in Slot :
         (/\ calls[k].kind = "run" /\ calls[k].phase = "sent"
          /\ calls'[k].phase = "answered" /\ ~calls[k].overlap)
         => calls[k].shown = IF calls[k].body = NoBody THEN table[calls[k].id]
                             ELSE calls[k].body]_caseVars
==============================================================================
