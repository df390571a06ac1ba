----------------------------- MODULE EventPanel -----------------------------
(***************************************************************************)
(* A session's page: the list of captured events, which is polled, the     *)
(* detail of the one selected (by default the latest completion), and the  *)
(* views of its Diff and Replay tabs with the state they keep.  No view is *)
(* keyed by its event: it lives on when another event whose detail is in   *)
(* the cache takes the place, and dies when the place shows anything else. *)
(***************************************************************************)
EXTENDS FiniteSetsExt, Integers

CONSTANTS
    LastEvent, \* events are 1..LastEvent, as the texts of their starts sort
    Mixes,     \* what the events of a session are, by number
    Edit,      \* what the user may turn a request body into
    Slot,      \* replays under way at a time
    FetchesFail

VARIABLES
    listed,      \* query ["events"]: those recorded and fetched so far
    kind,        \* what the events of this session are
    erased,      \* those that went with their session, which was deleted
    listFailed,  \* its last fetch failed
    tab, reqId,  \* the URL
    detail,      \* query ["event", id]: data, or none, also after an error
    raw,         \* query ["raw", id, "request_body"]
    detailTab,   \* in the store
    view,        \* state of the mounted ReplayView or DiffView
    calls        \* slot -> replay under way

eventVars == <<listed, kind, erased, listFailed, tab, reqId, detail, raw, detailTab, view, calls>>

Event == 1..LastEvent
NoEvent == 0
Kinds == {"completion", "probe", "hook"}
Fetch == {"none", "data", "error"}

(* A body is named after the event it was captured with; Blank is the text *)
(* of an editor whose body could not be fetched.                           *)
Blank == 0
NoDraft == -1
Payload == Event \union Edit \union {Blank}

(* The last four fields are history: the event that the draft was typed    *)
(* for, the one a send was armed for, whether the view went from one event *)
(* to another, and whether it was mounted with a replay still under way.   *)
NewView == [draft |-> NoDraft, armed |-> FALSE, result |-> NoEvent,
            leftId |-> NoEvent, typedFor |-> NoEvent, armedFor |-> NoEvent,
            crossed |-> FALSE]
NoCall == [of |-> NoEvent, body |-> NoDraft, here |-> FALSE]

Views == [draft : Payload \union {NoDraft}, armed : BOOLEAN,
          result : Event \union {NoEvent}, leftId : Event \union {NoEvent},
          typedFor : Event \union {NoEvent}, armedFor : Event \union {NoEvent},
          crossed : BOOLEAN]
Calls == [of : Event, body : Payload \union {NoDraft}, here : BOOLEAN]
           \union {NoCall}

EventPanelTypeOK ==
    /\ listed \subseteq Event /\ erased \subseteq Event \ listed
    /\ kind \in [Event -> Kinds] /\ listFailed \in BOOLEAN
    /\ tab \in {"requests", "flow"} /\ reqId \in Event \union {NoEvent}
    /\ detail \in [Event -> Fetch] /\ raw \in [Event -> Fetch]
    /\ detailTab \in {"other", "diff", "replay"}
    /\ view \in Views /\ calls \in [Slot -> Calls]

EventInit ==
    /\ kind \in Mixes
    /\ listed = {} /\ erased = {} /\ listFailed = FALSE /\ tab = "requests" /\ reqId = NoEvent
    /\ detail = [e \in Event |-> "none"] /\ raw = [e \in Event |-> "none"]
    /\ detailTab = "other" /\ view = NewView
    /\ calls = [k \in Slot |-> NoCall]
------------------------------------------------------------------------------
(* What is rendered. *)

Hook == {e \in Event : kind[e] = "hook"}
Completions == {e \in listed : kind[e] = "completion"}
Newest(S) == IF S = {} THEN NoEvent ELSE Max(S)
DefaultEvent == IF Completions # {} THEN Newest(Completions) ELSE Newest(listed)

ShowFlow == tab = "flow" /\ \E e \in listed : kind[e] = "hook"
Shown == IF ShowFlow \/ reqId # NoEvent THEN reqId ELSE DefaultEvent
PanelUp == ~listFailed /\ listed # {} /\ Shown # NoEvent

(* A hook has a panel of its own, without these views, but only the list   *)
(* tells that it is one.                                                   *)
DetailUp ==
    LET e == Shown
    IN  /\ ~listFailed /\ listed # {} /\ e # NoEvent /\ detail[e] = "data"
        /\ ~(e \in listed /\ kind[e] = "hook")

(* The side sheet and the inline panel are two places. *)
ViewAt == IF detailTab # "other" /\ DetailUp THEN <<ShowFlow, detailTab>> ELSE <<>>
Up(t) == detailTab = t /\ DetailUp

Older == IF Shown \in Completions THEN {e \in Completions : e < Shown} ELSE {}
EffectiveLeft == IF view.leftId # NoEvent THEN view.leftId ELSE Newest(Older)

PrettyOriginal == IF raw[Shown] = "data" THEN Shown ELSE Blank
EditorText == IF view.draft = NoDraft THEN PrettyOriginal ELSE view.draft
Edited == view.draft # NoDraft /\ view.draft # PrettyOriginal
Pending == \E k \in Slot : calls[k].here

(* After a step on the rest: what is not rendered in its place any more    *)
(* loses its state, and the outcome of what it sent.                       *)
Rerender ==
    IF ViewAt # <<>> /\ ViewAt' = ViewAt
    THEN /\ view' = [view EXCEPT !.crossed = @ \/ Shown' # Shown]
         /\ UNCHANGED calls
    ELSE /\ view' = NewView
         /\ calls' = [k \in Slot |-> [calls[k] EXCEPT !.here = FALSE]]
------------------------------------------------------------------------------
(* The queries. *)

(* An event is recorded at its end and listed by its start, so an older    *)
(* one may come after a newer one.  When the session was deleted, nothing  *)
(* of it is left but what agents have recorded since.  It is deleted once, *)
(* which is a bound.                                                       *)
ListArrives ==
    /\ erased' = erased \/ (erased = {} /\ erased' = listed)
    /\ listed' \in SUBSET (Event \ erased') /\ listed \subseteq listed' \union erased'
    /\ listFailed' = FALSE
    /\ UNCHANGED <<kind, tab, reqId, detail, raw, detailTab>>
    /\ Rerender

ListFails ==
    /\ FetchesFail /\ listFailed' = TRUE
    /\ UNCHANGED <<listed, kind, erased, tab, reqId, detail, raw, detailTab>>
    /\ Rerender

(* The semantic diff fetches the other event as well.  A fetch that ends   *)
(* after the user has gone on counts as one that ended before.             *)
Wanted == (IF PanelUp THEN {Shown} ELSE {})
              \union (IF Up("diff") /\ Older # {} THEN {EffectiveLeft} ELSE {})

DetailFetched(e, outcome) ==
    /\ e \in Wanted /\ (outcome = "none" => FetchesFail \/ e \in erased)
    /\ detail' = [detail EXCEPT ![e] = outcome]
    /\ UNCHANGED <<listed, kind, erased, listFailed, tab, reqId, raw, detailTab>>
    /\ Rerender

RawFetched(outcome) ==
    /\ Up("replay") /\ raw[Shown] # "data"
    /\ IF outcome = "error" THEN FetchesFail \/ Shown \in erased ELSE Shown \notin Hook
    /\ raw' = [raw EXCEPT ![Shown] = outcome]
    /\ UNCHANGED <<listed, kind, erased, listFailed, tab, reqId, detail, detailTab, view, calls>>
------------------------------------------------------------------------------
(* Navigation. *)

Navigate(t, id, dt) ==
    /\ ~listFailed /\ listed # {}
    /\ tab' = t /\ reqId' = id /\ detailTab' = dt
    /\ UNCHANGED <<listed, kind, erased, listFailed, detail, raw>>
    /\ Rerender

(* From the list; from a hook to its request or back, the only ways there  *)
(* are when an open sheet covers the flow.                                 *)
SelectRequest(e) ==
    /\ e \in listed
    /\ (ShowFlow /\ reqId # NoEvent) =>
         \/ reqId \in Hook \intersect listed /\ e \in Completions
         \/ reqId \notin Hook /\ e \in Hook
    /\ Navigate(tab, e, detailTab)

OpenDiff(e) ==
    /\ ShowFlow /\ reqId = NoEvent /\ e \in Completions
    /\ Navigate(tab, e, "diff")

SetTab(t) ==
    /\ listed \intersect Hook # {} /\ (ShowFlow => reqId = NoEvent)
    /\ Navigate(t, reqId, detailTab)

CloseSheet == ShowFlow /\ reqId # NoEvent /\ Navigate(tab, NoEvent, detailTab)

SetDetailTab(t) == DetailUp /\ Navigate(tab, reqId, t)
------------------------------------------------------------------------------
(* The two views. *)

In(t, v) ==
    /\ Up(t) /\ view' = v
    /\ UNCHANGED <<listed, kind, erased, listFailed, tab, reqId, detail, raw, detailTab>>

PickLeft(e) ==
    e \in Older /\ In("diff", [view EXCEPT !.leftId = e]) /\ UNCHANGED calls

RawReady == Up("replay") /\ raw[Shown] # "none"

Type(b) ==
    /\ RawReady
    /\ In("replay", [view EXCEPT !.draft = b, !.typedFor = Shown])
    /\ UNCHANGED calls

Reset ==
    /\ In("replay", [view EXCEPT !.draft = NoDraft, !.typedFor = NoEvent])
    /\ UNCHANGED calls

Arm ==
    /\ RawReady /\ ~Pending /\ ~view.armed
    /\ In("replay", [view EXCEPT !.armed = TRUE, !.armedFor = Shown])
    /\ UNCHANGED calls

Disarm ==
    /\ view.armed /\ ~Pending
    /\ In("replay", [view EXCEPT !.armed = FALSE, !.armedFor = NoEvent])
    /\ UNCHANGED calls

(* Mutant: the body never goes along. *)
SendOriginal ==
    /\ RawReady /\ ~Pending /\ view.armed
    /\ In("replay", [view EXCEPT !.armed = FALSE, !.armedFor = NoEvent,
                                 !.result = NoEvent])
    /\ \E k \in Slot :
         /\ calls[k] = NoCall
         /\ calls' = [calls EXCEPT ![k] =
               [of |-> Shown, here |-> TRUE, body |-> NoDraft]]

(* A second click: it is billed.  The body goes along only if it differs   *)
(* from the original, and the result of the last replay is dropped.        *)
Send ==
    /\ RawReady /\ ~Pending /\ view.armed
    /\ In("replay", [view EXCEPT !.armed = FALSE, !.armedFor = NoEvent,
                                 !.result = NoEvent])
    /\ \E k \in Slot :
         /\ calls[k] = NoCall
         /\ calls' = [calls EXCEPT ![k] =
               [of |-> Shown, here |-> TRUE,
                body |-> IF Edited THEN EditorText ELSE NoDraft]]

(* Mutant: whichever view is mounted takes the result. *)
AnswerAnyView(k, ok) ==
    /\ calls[k] # NoCall
    /\ calls' = [calls EXCEPT ![k] = NoCall]
    /\ view' = IF ok THEN [view EXCEPT !.result = calls[k].of] ELSE view
    /\ UNCHANGED <<listed, kind, erased, listFailed, tab, reqId, detail, raw, detailTab>>

(* The server replays completions only. *)
Answer(k, ok) ==
    /\ calls[k] # NoCall /\ (ok => kind[calls[k].of] = "completion")
    /\ calls' = [calls EXCEPT ![k] = NoCall]
    /\ view' = IF calls[k].here /\ ok THEN [view EXCEPT !.result = calls[k].of]
               ELSE view
    /\ UNCHANGED <<listed, kind, erased, listFailed, tab, reqId, detail, raw, detailTab>>

EventNext ==
    \/ ListArrives \/ ListFails \/ CloseSheet
    \/ Reset \/ Arm \/ Disarm \/ Send
    \/ \E e \in Event : \/ SelectRequest(e) \/ OpenDiff(e) \/ PickLeft(e)
                        \/ DetailFetched(e, "data") \/ DetailFetched(e, "none")
    \/ RawFetched("data") \/ RawFetched("error")
    \/ \E t \in {"requests", "flow"} : SetTab(t)
    \/ \E t \in {"other", "diff", "replay"} : SetDetailTab(t)
    \/ \E b \in Edit : Type(b)
    \/ Type(PrettyOriginal)
    \/ \E k \in Slot, ok \in BOOLEAN : Answer(k, ok)

EventSpec == EventInit /\ [][EventNext]_eventVars
------------------------------------------------------------------------------
(* Draft, confirmation, result and choice of the other side are about the  *)
(* event shown, unless the view went on to another event under them: late  *)
(* answers and remounts mix nothing up.                                    *)
OnlyCrossingMixes ==
    ~view.crossed =>
        /\ {view.typedFor, view.armedFor, view.result} \subseteq {Shown, NoEvent}
        /\ view.leftId < Shown \/ view.leftId = NoEvent

(* The comment on ReplayView: it compares "the fresh result against the    *)
(* original", the captured response of the event shown.                    *)
ResultIsOfShownEvent == Up("replay") => view.result \in {Shown, NoEvent}

(* What is billed is what the editor shows, and the request it is shown    *)
(* for, if the captured body could be fetched at all.                      *)
SendsWhatIsShown ==
    Send /\ raw[Shown] = "data" =>
      \E k \in Slot :
        /\ calls[k] = NoCall /\ calls'[k].of = Shown
        /\ EditorText = IF calls'[k].body = NoDraft THEN Shown
                        ELSE calls'[k].body
==============================================================================
