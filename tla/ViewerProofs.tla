----------------------------- MODULE ViewerProofs -----------------------------
(***************************************************************************)
(* Theorems about the detail of an event, the runner of a case, the flow   *)
(* graph, the line diff and the rounds of a thread, for any events,        *)
(* sessions, agents and messages, and about the pages of the viewer        *)
(* together.                                                               *)
(***************************************************************************)
EXTENDS PageProofs, TimestampsProofs, SequenceTheorems, FiniteSetTheorems

(* The newest of some events is one of them. *)
LEMMA NewestIsOne ==
  ASSUME NEW S, S \subseteq EventPage!Event
  PROVE  /\ S # {} => EventPage!Newest(S) \in S
         /\ EventPage!Newest(S) \in EventPage!Event \union {EventPage!NoEvent}
<1>1. ASSUME S # {} PROVE EventPage!Newest(S) \in S
  <2> DEFINE T == {LastEvent - x : x \in S}
  <2>0. LastEvent \in Nat /\ \A x \in S : x \in 1..LastEvent
    BY ViewerAssumption DEF EventPage!Event
  <2>1. T \subseteq Nat /\ T # {}
    BY <1>1, <2>0
  <2>2. PICK y \in T : \A z \in T : y <= z
    <3> HIDE DEF T
    <3> QED
      BY <2>1, LeastOf
  <2>3. PICK x \in S : y = LastEvent - x
    BY <2>2
  <2>4. ASSUME NEW z \in S PROVE x >= z
    <3>1. y <= LastEvent - z
      BY <2>2
    <3> QED
      BY <2>0, <2>3, <3>1
  <2>5. EventPage!Max(S) \in S
    BY <2>4 DEF EventPage!Max
  <2> QED
    BY <1>1, <2>5 DEF EventPage!Newest
<1> QED
  BY <1>1 DEF EventPage!Newest
------------------------------------------------------------------------------
(* The page of a session, with its events. *)

EventSound ==
    /\ EventPage!EventPanelTypeOK
    /\ EventPage!OnlyCrossingMixes
    /\ ~noted.crossed => \A k \in ReplaySlot : sent[k].here => sent[k].of = EventPage!Shown

(* What the panel shows is an event, if anything. *)
LEMMA ShownIsEvent ==
  ASSUME EventPage!EventPanelTypeOK
  PROVE  /\ EventPage!Shown \in EventPage!Event \union {EventPage!NoEvent}
         /\ \A t : EventPage!Up(t) => EventPage!Shown \in EventPage!Event
<1>1. kept \subseteq EventPage!Event /\ chosen \in EventPage!Event \union {EventPage!NoEvent}
  BY DEF EventPage!EventPanelTypeOK
<1>2. EventPage!DefaultEvent \in EventPage!Event \union {EventPage!NoEvent}
  BY <1>1, NewestIsOne DEF EventPage!DefaultEvent, EventPage!Completions
<1>3. EventPage!Shown \in EventPage!Event \union {EventPage!NoEvent}
  BY <1>1, <1>2 DEF EventPage!Shown
<1> QED
  BY <1>3 DEF EventPage!Up, EventPage!DetailUp, EventPage!PanelUp

(* A view that has just been mounted knows of no event. *)
LEMMA NewViewKnowsNothing ==
  /\ EventPage!NewView \in EventPage!Views
  /\ EventPage!NewView.typedFor = EventPage!NoEvent
  /\ EventPage!NewView.armedFor = EventPage!NoEvent
  /\ EventPage!NewView.result = EventPage!NoEvent
  /\ EventPage!NewView.leftId = EventPage!NoEvent
  BY DEF EventPage!NewView, EventPage!Views, EventPage!NoEvent, EventPage!NoDraft

(* At the start nothing is shown but the list. *)
LEMMA EventSoundInit == EventPage!EventInit => EventSound
<1> SUFFICES ASSUME EventPage!EventInit PROVE EventSound
  OBVIOUS
<1>1. \A k \in ReplaySlot : sent[k] = EventPage!NoCall /\ ~sent[k].here
  BY DEF EventPage!EventInit, EventPage!NoCall
<1>2. EventPage!EventPanelTypeOK
  BY <1>1, NewViewKnowsNothing, ViewerAssumption
     DEF EventPage!EventInit, EventPage!EventPanelTypeOK, EventPage!Calls, EventPage!Fetch
<1> QED
  BY <1>1, <1>2, NewViewKnowsNothing DEF EventSound, EventPage!EventInit,
     EventPage!OnlyCrossingMixes

(* Whatever else changed, the view is the same one, or a new one that      *)
(* knows of nothing.                                                       *)
LEMMA RerenderSound ==
  ASSUME EventSound, EventPage!Rerender
  PROVE  /\ noted' \in EventPage!Views /\ sent' \in [ReplaySlot -> EventPage!Calls]
         /\ EventPage!OnlyCrossingMixes'
         /\ ~noted'.crossed =>
              \A k \in ReplaySlot : sent'[k].here => sent'[k].of = EventPage!Shown'
<1>0. noted \in EventPage!Views /\ sent \in [ReplaySlot -> EventPage!Calls]
  BY DEF EventSound, EventPage!EventPanelTypeOK
<1>1. CASE /\ noted' = [noted EXCEPT !.crossed = noted.crossed \/ EventPage!Shown' # EventPage!Shown]
           /\ UNCHANGED sent
  <2>1. /\ noted' \in EventPage!Views
        /\ noted'.crossed = (noted.crossed \/ EventPage!Shown' # EventPage!Shown)
        /\ noted'.typedFor = noted.typedFor /\ noted'.armedFor = noted.armedFor
        /\ noted'.result = noted.result /\ noted'.leftId = noted.leftId
    BY <1>0, <1>1 DEF EventPage!Views
  <2>2. ASSUME ~noted'.crossed
        PROVE  ~noted.crossed /\ EventPage!Shown' = EventPage!Shown
    BY <2>1, <2>2
  <2>3. EventPage!OnlyCrossingMixes'
    BY <2>1, <2>2 DEF EventSound, EventPage!OnlyCrossingMixes
  <2> QED
    BY <1>0, <1>1, <2>1, <2>2, <2>3 DEF EventSound
<1>2. CASE /\ noted' = EventPage!NewView
           /\ sent' = [k \in ReplaySlot |-> [sent[k] EXCEPT !.here = FALSE]]
  <2>1. ASSUME NEW k \in ReplaySlot
        PROVE  sent'[k] \in EventPage!Calls /\ sent'[k].here = FALSE
    <3>1. sent'[k] = [sent[k] EXCEPT !.here = FALSE]
      BY <1>2
    <3>2. CASE sent[k] = EventPage!NoCall
      <4>1. sent'[k] = [EventPage!NoCall EXCEPT !.here = FALSE]
        BY <3>1, <3>2
      <4>2. sent'[k] = EventPage!NoCall
        BY <4>1 DEF EventPage!NoCall
      <4> QED
        BY <4>2 DEF EventPage!NoCall, EventPage!Calls
    <3>3. CASE sent[k] # EventPage!NoCall
      BY <1>0, <3>1, <3>3 DEF EventPage!Calls
    <3> QED
      BY <3>2, <3>3
  <2>2. sent' \in [ReplaySlot -> EventPage!Calls]
    BY <1>2, <2>1
  <2>3. noted' \in EventPage!Views /\ EventPage!OnlyCrossingMixes'
    BY <1>2, NewViewKnowsNothing DEF EventPage!OnlyCrossingMixes
  <2> QED
    BY <2>1, <2>2, <2>3
<1> QED
  BY <1>1, <1>2 DEF EventPage!Rerender

(* A step on the rest. *)
LEMMA RerenderKeeps ==
  ASSUME EventSound, EventPage!Rerender,
         kept' \subseteq EventPage!Event, own5' \subseteq EventPage!Event \ kept',
         own6' \in [EventPage!Event -> EventPage!Kinds], own1' \in BOOLEAN,
         own2' \in {"requests", "flow"}, chosen' \in EventPage!Event \union {EventPage!NoEvent},
         query' \in [EventPage!Event -> EventPage!Fetch],
         own3' \in [EventPage!Event -> EventPage!Fetch],
         own4' \in {"other", "diff", "replay"}
  PROVE  EventSound'
  BY RerenderSound DEF EventSound, EventPage!EventPanelTypeOK

(* The types of what the page keeps, by name. *)
LEMMA EventTypes ==
  ASSUME EventSound
  PROVE  /\ kept \subseteq EventPage!Event /\ own5 \subseteq EventPage!Event \ kept
         /\ own6 \in [EventPage!Event -> EventPage!Kinds] /\ own1 \in BOOLEAN
         /\ own2 \in {"requests", "flow"}
         /\ chosen \in EventPage!Event \union {EventPage!NoEvent}
         /\ query \in [EventPage!Event -> EventPage!Fetch]
         /\ own3 \in [EventPage!Event -> EventPage!Fetch]
         /\ own4 \in {"other", "diff", "replay"}
         /\ noted \in EventPage!Views /\ sent \in [ReplaySlot -> EventPage!Calls]
  BY DEF EventSound, EventPage!EventPanelTypeOK

(* The queries, and the navigation. *)
LEMMA EventRestSound ==
  ASSUME EventSound,
         \/ EventPage!ListArrives \/ EventPage!ListFails \/ EventPage!CloseSheet
         \/ \E e \in EventPage!Event :
              \/ EventPage!SelectRequest(e) \/ EventPage!OpenDiff(e)
              \/ EventPage!DetailFetched(e, "data") \/ EventPage!DetailFetched(e, "none")
         \/ \E t \in {"requests", "flow"} : EventPage!SetTab(t)
         \/ \E t \in {"other", "diff", "replay"} : EventPage!SetDetailTab(t)
  PROVE  EventSound'
<1>1. CASE EventPage!ListArrives \/ EventPage!ListFails
  <2>1. /\ EventPage!Rerender /\ kept' \subseteq EventPage!Event
        /\ own5' \subseteq EventPage!Event \ kept' /\ own1' \in BOOLEAN
    BY <1>1, EventTypes DEF EventPage!ListArrives, EventPage!ListFails
  <2> QED
    BY <1>1, <2>1, EventTypes, RerenderKeeps DEF EventPage!ListArrives, EventPage!ListFails
<1>2. ASSUME NEW e \in EventPage!Event,
             EventPage!DetailFetched(e, "data") \/ EventPage!DetailFetched(e, "none")
      PROVE  EventSound'
  <2>1. EventPage!Rerender /\ query' \in [EventPage!Event -> EventPage!Fetch]
    BY <1>2, EventTypes DEF EventPage!DetailFetched, EventPage!Fetch
  <2> QED
    BY <1>2, <2>1, EventTypes, RerenderKeeps DEF EventPage!DetailFetched
<1>3. ASSUME NEW t \in {"requests", "flow"}, NEW e \in EventPage!Event \union {EventPage!NoEvent},
             NEW d \in {"other", "diff", "replay"}, EventPage!Navigate(t, e, d)
      PROVE  EventSound'
  BY <1>3, EventTypes, RerenderKeeps DEF EventPage!Navigate
<1>4. CASE EventPage!CloseSheet
  BY <1>3, <1>4, EventTypes DEF EventPage!CloseSheet
<1>5. ASSUME NEW e \in EventPage!Event, EventPage!SelectRequest(e) \/ EventPage!OpenDiff(e)
      PROVE  EventSound'
  BY <1>3, <1>5, EventTypes DEF EventPage!SelectRequest, EventPage!OpenDiff
<1>6. ASSUME NEW t \in {"requests", "flow"}, EventPage!SetTab(t) PROVE EventSound'
  BY <1>3, <1>6, EventTypes DEF EventPage!SetTab
<1>7. ASSUME NEW t \in {"other", "diff", "replay"}, EventPage!SetDetailTab(t) PROVE EventSound'
  BY <1>3, <1>7, EventTypes DEF EventPage!SetDetailTab
<1> QED
  BY <1>1, <1>2, <1>4, <1>5, <1>6, <1>7

(* A step of a view, which shows the same event after it. *)
LEMMA ViewKeeps ==
  ASSUME EventSound, UNCHANGED <<kept, own1, own2, own5, own6, chosen, query, own4>>,
         own3' \in [EventPage!Event -> EventPage!Fetch],
         noted' \in EventPage!Views, sent' \in [ReplaySlot -> EventPage!Calls],
         noted'.crossed = noted.crossed,
         ~noted.crossed =>
           /\ {noted'.typedFor, noted'.armedFor, noted'.result}
                \subseteq {EventPage!Shown, EventPage!NoEvent}
           /\ noted'.leftId < EventPage!Shown \/ noted'.leftId = EventPage!NoEvent
           /\ \A k \in ReplaySlot : sent'[k].here => sent'[k].of = EventPage!Shown
  PROVE  EventSound'
<1>1. EventPage!Shown' = EventPage!Shown
  BY DEF EventPage!Shown, EventPage!ShowFlow, EventPage!DefaultEvent,
     EventPage!Completions, EventPage!Hook
<1>2. EventPage!EventPanelTypeOK'
  BY EventTypes DEF EventPage!EventPanelTypeOK
<1>3. EventPage!OnlyCrossingMixes'
  BY <1>1 DEF EventPage!OnlyCrossingMixes
<1> QED
  BY <1>1, <1>2, <1>3 DEF EventSound

(* The views: their draft, confirmation and choice are for the event shown. *)
LEMMA EventViewSound ==
  ASSUME EventSound,
         \/ EventPage!RawFetched("data") \/ EventPage!RawFetched("error")
         \/ EventPage!Reset \/ EventPage!Arm \/ EventPage!Disarm
         \/ \E e \in EventPage!Event : EventPage!PickLeft(e)
         \/ \E b \in Edit \union {EventPage!PrettyOriginal} : EventPage!Type(b)
  PROVE  EventSound'
<1>1. CASE EventPage!RawFetched("data") \/ EventPage!RawFetched("error")
  <2>1. own3' \in [EventPage!Event -> EventPage!Fetch]
    BY <1>1, EventTypes DEF EventPage!RawFetched, EventPage!Fetch
  <2>2. UNCHANGED <<kept, own1, own2, own5, own6, chosen, query, own4, noted, sent>>
    BY <1>1 DEF EventPage!RawFetched
  <2> QED
    BY <2>1, <2>2, EventTypes, ViewKeeps DEF EventSound, EventPage!OnlyCrossingMixes
<1>2. ASSUME NEW t, NEW v \in EventPage!Views, EventPage!In(t, v), UNCHANGED sent,
             v.crossed = noted.crossed, v.result = noted.result,
             v.typedFor \in {noted.typedFor, EventPage!Shown, EventPage!NoEvent},
             v.armedFor \in {noted.armedFor, EventPage!Shown, EventPage!NoEvent},
             v.leftId = noted.leftId \/ v.leftId < EventPage!Shown
      PROVE  EventSound'
  <2>1. noted' = v /\ UNCHANGED <<kept, own1, own2, own5, own6, chosen, query, own3, own4>>
    BY <1>2 DEF EventPage!In
  <2>2. ~noted.crossed =>
           /\ {v.typedFor, v.armedFor, v.result} \subseteq {EventPage!Shown, EventPage!NoEvent}
           /\ v.leftId < EventPage!Shown \/ v.leftId = EventPage!NoEvent
    BY <1>2 DEF EventSound, EventPage!OnlyCrossingMixes
  <2> QED
    BY <1>2, <2>1, <2>2, EventTypes, ViewKeeps DEF EventSound
<1>3. CASE EventPage!Reset
  <2> DEFINE v == [noted EXCEPT !.draft = EventPage!NoDraft, !.typedFor = EventPage!NoEvent]
  <2>1. /\ v \in EventPage!Views /\ v.crossed = noted.crossed /\ v.result = noted.result
        /\ v.typedFor = EventPage!NoEvent /\ v.armedFor = noted.armedFor
        /\ v.leftId = noted.leftId
    BY EventTypes DEF EventPage!Views
  <2>2. EventPage!In("replay", v) /\ UNCHANGED sent
    BY <1>3 DEF EventPage!Reset
  <2> HIDE DEF v
  <2> QED
    BY <1>2, <2>1, <2>2
<1>4. CASE EventPage!Arm
  <2> DEFINE v == [noted EXCEPT !.armed = TRUE, !.armedFor = EventPage!Shown]
  <2>0. EventPage!In("replay", v) /\ UNCHANGED sent
    BY <1>4 DEF EventPage!Arm
  <2>1. EventPage!Shown \in EventPage!Event
    BY <2>0, ShownIsEvent DEF EventPage!In, EventSound
  <2>2. /\ v \in EventPage!Views /\ v.crossed = noted.crossed /\ v.result = noted.result
        /\ v.typedFor = noted.typedFor /\ v.armedFor = EventPage!Shown
        /\ v.leftId = noted.leftId
    BY <2>1, EventTypes DEF EventPage!Views
  <2> HIDE DEF v
  <2> QED
    BY <1>2, <2>0, <2>2
<1>5. CASE EventPage!Disarm
  <2> DEFINE v == [noted EXCEPT !.armed = FALSE, !.armedFor = EventPage!NoEvent]
  <2>1. /\ v \in EventPage!Views /\ v.crossed = noted.crossed /\ v.result = noted.result
        /\ v.typedFor = noted.typedFor /\ v.armedFor = EventPage!NoEvent
        /\ v.leftId = noted.leftId
    BY EventTypes DEF EventPage!Views
  <2>2. EventPage!In("replay", v) /\ UNCHANGED sent
    BY <1>5 DEF EventPage!Disarm
  <2> HIDE DEF v
  <2> QED
    BY <1>2, <2>1, <2>2
<1>6. ASSUME NEW e \in EventPage!Event, EventPage!PickLeft(e) PROVE EventSound'
  <2> DEFINE v == [noted EXCEPT !.leftId = e]
  <2>1. /\ v \in EventPage!Views /\ v.crossed = noted.crossed /\ v.result = noted.result
        /\ v.typedFor = noted.typedFor /\ v.armedFor = noted.armedFor /\ v.leftId = e
    BY EventTypes DEF EventPage!Views
  <2>2. EventPage!In("diff", v) /\ UNCHANGED sent /\ e < EventPage!Shown
    BY <1>6 DEF EventPage!PickLeft, EventPage!Older
  <2> HIDE DEF v
  <2> QED
    BY <1>2, <2>1, <2>2
<1>7. ASSUME NEW b \in Edit \union {EventPage!PrettyOriginal}, EventPage!Type(b)
      PROVE  EventSound'
  <2> DEFINE v == [noted EXCEPT !.draft = b, !.typedFor = EventPage!Shown]
  <2>0. EventPage!In("replay", v) /\ UNCHANGED sent
    BY <1>7 DEF EventPage!Type
  <2>1. EventPage!Shown \in EventPage!Event
    BY <2>0, ShownIsEvent DEF EventPage!In, EventSound
  <2>2. b \in EventPage!Payload
    BY <2>1 DEF EventPage!PrettyOriginal, EventPage!Payload
  <2>3. /\ v \in EventPage!Views /\ v.crossed = noted.crossed /\ v.result = noted.result
        /\ v.typedFor = EventPage!Shown /\ v.armedFor = noted.armedFor
        /\ v.leftId = noted.leftId
    BY <2>1, <2>2, EventTypes DEF EventPage!Views
  <2> HIDE DEF v
  <2> QED
    BY <1>2, <2>0, <2>3
<1> QED
  BY <1>1, <1>3, <1>4, <1>5, <1>6, <1>7

(* A replay is sent for the event shown. *)
LEMMA EventSendSound == ASSUME EventSound, EventPage!Send PROVE EventSound'
<1> DEFINE v == [noted EXCEPT !.armed = FALSE, !.armedFor = EventPage!NoEvent,
                              !.result = EventPage!NoEvent]
<1>1. EventPage!In("replay", v)
  BY DEF EventPage!Send
<1>2. noted' = v /\ UNCHANGED <<kept, own1, own2, own5, own6, chosen, query, own3, own4>>
  BY <1>1 DEF EventPage!In
<1>3. EventPage!Shown \in EventPage!Event
  BY <1>1, ShownIsEvent DEF EventPage!In, EventSound
<1>4. /\ v \in EventPage!Views /\ v.crossed = noted.crossed
      /\ v.result = EventPage!NoEvent /\ v.armedFor = EventPage!NoEvent
      /\ v.typedFor = noted.typedFor /\ v.leftId = noted.leftId
  BY EventTypes DEF EventPage!Views
<1>5. PICK k \in ReplaySlot :
        sent' = [sent EXCEPT ![k] =
                   [of |-> EventPage!Shown, here |-> TRUE,
                    body |-> IF EventPage!Edited THEN EventPage!EditorText
                             ELSE EventPage!NoDraft]]
  BY DEF EventPage!Send
<1>6. EventPage!Edited => EventPage!EditorText \in EventPage!Payload \union {EventPage!NoDraft}
  BY EventTypes DEF EventPage!Edited, EventPage!EditorText, EventPage!Views
<1>7. /\ sent'[k] \in EventPage!Calls /\ sent'[k].of = EventPage!Shown
      /\ \A l \in ReplaySlot \ {k} : sent'[l] = sent[l]
  BY <1>3, <1>5, <1>6, EventTypes DEF EventPage!Calls
<1>8. sent' \in [ReplaySlot -> EventPage!Calls]
  BY <1>5, <1>7, EventTypes
<1>9. ~noted.crossed =>
        /\ {v.typedFor, v.armedFor, v.result} \subseteq {EventPage!Shown, EventPage!NoEvent}
        /\ v.leftId < EventPage!Shown \/ v.leftId = EventPage!NoEvent
        /\ \A l \in ReplaySlot : sent'[l].here => sent'[l].of = EventPage!Shown
  BY <1>4, <1>7 DEF EventSound, EventPage!OnlyCrossingMixes
<1> HIDE DEF v
<1> QED
  BY <1>2, <1>4, <1>8, <1>9, EventTypes, ViewKeeps

(* Its answer reaches the view that sent it, and no other. *)
LEMMA EventAnswerSound ==
  ASSUME EventSound, NEW k \in ReplaySlot, NEW ok \in BOOLEAN, EventPage!Answer(k, ok)
  PROVE  EventSound'
<1>1. /\ sent[k] # EventPage!NoCall /\ sent' = [sent EXCEPT ![k] = EventPage!NoCall]
      /\ noted' = IF sent[k].here /\ ok THEN [noted EXCEPT !.result = sent[k].of] ELSE noted
      /\ UNCHANGED <<kept, own1, own2, own5, own6, chosen, query, own3, own4>>
  BY DEF EventPage!Answer
<1>2. sent[k].of \in EventPage!Event
  BY <1>1, EventTypes DEF EventPage!Calls
<1>3. /\ sent' \in [ReplaySlot -> EventPage!Calls] /\ ~sent'[k].here
      /\ \A l \in ReplaySlot \ {k} : sent'[l] = sent[l]
  BY <1>1, EventTypes DEF EventPage!Calls, EventPage!NoCall
<1>4. /\ noted' \in EventPage!Views /\ noted'.crossed = noted.crossed
      /\ noted'.typedFor = noted.typedFor /\ noted'.armedFor = noted.armedFor
      /\ noted'.leftId = noted.leftId
      /\ noted'.result = noted.result \/ (sent[k].here /\ noted'.result = sent[k].of)
  <2>1. CASE sent[k].here /\ ok
    BY <1>1, <1>2, <2>1, EventTypes DEF EventPage!Views
  <2>2. CASE ~(sent[k].here /\ ok)
    BY <1>1, <2>2, EventTypes
  <2> QED
    BY <2>1, <2>2
<1>5. ~noted.crossed =>
        /\ {noted'.typedFor, noted'.armedFor, noted'.result}
             \subseteq {EventPage!Shown, EventPage!NoEvent}
        /\ noted'.leftId < EventPage!Shown \/ noted'.leftId = EventPage!NoEvent
        /\ \A l \in ReplaySlot : sent'[l].here => sent'[l].of = EventPage!Shown
  BY <1>3, <1>4 DEF EventSound, EventPage!OnlyCrossingMixes
<1> QED
  BY <1>1, <1>3, <1>4, <1>5, EventTypes, ViewKeeps

(* A step of the viewer is one of the event page, or none of it. *)
LEMMA EventStep ==
  ASSUME Shows("event"), [Next]_vars
  PROVE  page' = page /\ (EventPage!EventNext \/ UNCHANGED EventPage!eventVars)
  BY DEF Shows, Next, vars, shared, EventPage!eventVars

(* What the viewer keeps while it shows a session's page. *)
LEMMA EventKept == Spec => [](Shows("event") => EventSound)
<1>1. Init => (Shows("event") => EventSound)
  BY EventSoundInit DEF Init, Shows
<1>2. (Shows("event") => EventSound) /\ [Next]_vars => (Shows("event") => EventSound)'
  <2> SUFFICES ASSUME Shows("event") => EventSound, [Next]_vars, Shows("event")'
               PROVE  EventSound'
    OBVIOUS
  <2>1. Shows("event") /\ EventSound
    BY DEF Next, vars, Shows
  <2>2. CASE EventPage!EventNext
    BY <2>1, <2>2, EventRestSound, EventViewSound, EventSendSound, EventAnswerSound
       DEF EventPage!EventNext
  <2>3. CASE UNCHANGED EventPage!eventVars
    BY <2>1, <2>3, ViewKeeps, EventTypes
       DEF EventPage!eventVars, EventSound, EventPage!OnlyCrossingMixes
  <2> QED
    BY <2>1, <2>2, <2>3, EventStep
<1> QED
  BY <1>1, <1>2, PTL DEF Spec

(* Draft, confirmation, result and other side are about the event shown,   *)
(* unless the view went on under them: no late answer mixes them up.       *)
THEOREM OnlyCrossingMixesViews == Spec => []OnlyCrossingMixes
<1>1. (Shows("event") => EventSound) => OnlyCrossingMixes
  BY DEF EventSound, OnlyCrossingMixes
<1> QED
  BY <1>1, EventKept, PTL

(* What is replayed is what the editor shows, for the event shown. *)
THEOREM ReplaysWhatIsShown == Spec => SendsWhatIsShown
<1>1. (Shows("event") => EventSound) /\ [Next]_vars =>
        [Shows("event") => EventPage!SendsWhatIsShown]_vars
  <2> SUFFICES ASSUME EventSound, EventPage!Send, own3[EventPage!Shown] = "data"
               PROVE  \E k \in ReplaySlot :
                        /\ sent[k] = EventPage!NoCall /\ sent'[k].of = EventPage!Shown
                        /\ EventPage!EditorText =
                             IF sent'[k].body = EventPage!NoDraft THEN EventPage!Shown
                             ELSE sent'[k].body
    BY DEF EventPage!SendsWhatIsShown
  <2>1. PICK k \in ReplaySlot :
          /\ sent[k] = EventPage!NoCall
          /\ sent' = [sent EXCEPT ![k] =
                       [of |-> EventPage!Shown, here |-> TRUE,
                        body |-> IF EventPage!Edited THEN EventPage!EditorText
                                 ELSE EventPage!NoDraft]]
    BY DEF EventPage!Send
  <2>2. /\ sent'[k].of = EventPage!Shown
        /\ sent'[k].body = IF EventPage!Edited THEN EventPage!EditorText
                           ELSE EventPage!NoDraft
    BY <2>1, EventTypes
  <2>3. EventPage!EditorText = IF sent'[k].body = EventPage!NoDraft THEN EventPage!Shown
                               ELSE sent'[k].body
    BY <2>2 DEF EventPage!EditorText, EventPage!Edited, EventPage!PrettyOriginal
  <2> QED
    BY <2>1, <2>2, <2>3
<1> QED
  BY <1>1, EventKept, PTL DEF Spec, SendsWhatIsShown
------------------------------------------------------------------------------
(* The case runner, which uses the login of a session. *)

RunnerLists == UNION {Runner!Orders(S) : S \in SUBSET Runner!Listed}
RunnerEntries == Runner!Entries(RunnerLists \union SUBSET Runner!Listed, RunnerSession)

(* The ids in what the panel shows and in what the server just said. *)
InData(s) == Runner!Holds(query, DOMAIN Runner!Active(query), s)
InAnswer(s) == query.flight = "answered" /\ \E x \in query.answer : x.id = s

(* A session that ended: it was started, which happens once, and no list   *)
(* that is still to come has it.                                           *)
Ended(s) == s \in own2 /\ s \notin kept /\ ~InAnswer(s)

RunnerQuery ==
    /\ query \in RunnerEntries
    /\ query.data # NoData => query.data \in RunnerLists
    /\ query.flight = "answered" => query.answer \in SUBSET Runner!Listed

(* Who is listed was started, and is in the next list unless they ended.   *)
ListsAreOfStarted ==
    \A s \in RunnerSession :
      /\ InData(s) \/ InAnswer(s) => s \in own2
      /\ InData(s) /\ query.flight = "answered" => InAnswer(s) \/ s \notin kept

(* The pick fits the case, and was listed and is, or has ended; what the   *)
(* panel keeps is the pick, or the pick has ended and is not listed.       *)
PickIsKept ==
    noted # NoSession =>
      /\ noted \notin Foreign
      /\ InData(noted) \/ Ended(noted)
      /\ chosen = noted \/ ~InData(noted)

(* A close that was sent was of a listed session; one that was served      *)
(* ended the session, and it has left the list when the close is done.     *)
ClosesEnd ==
    \A s \in RunnerSession :
      /\ sent[s] # "no" => query.data # NoData
      /\ sent[s] = "answered" => s \in own2 /\ s \notin kept
      /\ sent[s] \in {"refetching", "done"} => Ended(s)
      /\ sent[s] = "done" => ~InData(s)

RunnerSound ==
    /\ Runner!RunnerAuthTypeOK /\ RunnerQuery
    /\ ListsAreOfStarted /\ PickIsKept /\ ClosesEnd

(* A step of the viewer is one of the runner, or none of it. *)
LEMMA RunnerStep ==
  ASSUME Shows("runner"), [Next]_vars
  PROVE  page' = page /\ (Runner!AuthNext \/ UNCHANGED Runner!authVars)
  BY DEF Shows, Next, vars, shared, Runner!authVars

(* The operations on the query keep its type. *)
LEMMA RunnerEntry ==
  ASSUME NEW D, NEW W, NEW q \in Runner!Entries(D, W)
  PROVE  /\ Runner!Fetched(q) \in Runner!Entries(D, W)
         /\ Runner!Lost(q) \in Runner!Entries(D, W)
         /\ \A v \in D : /\ Runner!Served(q, v) \in Runner!Entries(D, W)
                         /\ [Runner!Arrived(q) EXCEPT !.data = v] \in Runner!Entries(D, W)
         /\ \A k \in W : Runner!Invalidated(q, k) \in Runner!Entries(D, W)
  BY DEF Runner!Entries, Runner!Asked, Runner!Fetched, Runner!Arrived,
     Runner!Lost, Runner!Served, Runner!Invalidated

(* What is shown does not change with the rest of the entry. *)
LEMMA SameData ==
  ASSUME query'.data = query.data
  PROVE  \A s : InData(s)' = InData(s)
  BY DEF InData, Runner!Holds, Runner!Active, Runner!Id

(* A list shows sessions, and at least one row if it shows any. *)
LEMMA ListedRows ==
  ASSUME RunnerQuery
  PROVE  /\ \A k \in DOMAIN Runner!Active(query) : Runner!Active(query)[k] \in Runner!Listed
         /\ \A s : InData(s) => s \in RunnerSession /\ query.data # NoData
         /\ \A s : InAnswer(s) => s \in RunnerSession
<1>1. ASSUME query.data # NoData
      PROVE  \A k \in DOMAIN query.data : query.data[k] \in Runner!Listed
  <2>1. PICK S \in SUBSET Runner!Listed : query.data \in Runner!Orders(S)
    BY <1>1 DEF RunnerQuery, RunnerLists
  <2>2. query.data \in [1..Runner!Cardinality(S) -> S]
    BY <2>1 DEF Runner!Orders
  <2> QED
    BY <2>2
<1>2. \A k \in DOMAIN Runner!Active(query) : Runner!Active(query)[k] \in Runner!Listed
  BY <1>1 DEF Runner!Active
<1>3. query.data = NoData => \A k \in DOMAIN Runner!Active(query) : FALSE
  BY DEF Runner!Active
<1>4. \A s : InData(s) => s \in RunnerSession /\ query.data # NoData
  BY <1>2, <1>3 DEF InData, Runner!Holds, Runner!Id, Runner!Listed
<1>5. \A s : InAnswer(s) => s \in RunnerSession
  BY DEF InAnswer, RunnerQuery, Runner!Listed
<1> QED
  BY <1>2, <1>4, <1>5

(* The session used is one of the list, if the banner is shown for it, and *)
(* so is a session that is offered, which fits the case.                   *)
LEMMA OfferedRows ==
  ASSUME RunnerQuery
  PROVE  /\ Runner!Banner(query) => InData(Runner!Effective(query))
         /\ \A s : Runner!Offers(query, s) => Runner!Fits(query, s)
         /\ \A s : Runner!Fits(query, s) => InData(s) /\ s \notin Foreign
  BY DEF Runner!Banner, Runner!Offers, Runner!Fits, Runner!Targets, Runner!Compatible,
     InData, Runner!Holds

(* At the start nothing is started, listed or picked. *)
LEMMA RunnerSoundInit == Runner!AuthInit => RunnerSound
<1> SUFFICES ASSUME Runner!AuthInit PROVE RunnerSound
  OBVIOUS
<1>1. query \in RunnerEntries /\ query.data = NoData /\ query.flight = "asked"
  BY DEF Runner!AuthInit, Runner!NewEntry, Runner!Fetched, Runner!Asked, RunnerEntries,
     Runner!Entries
<1>2. RunnerQuery
  BY <1>1 DEF RunnerQuery
<1>3. \A s : ~InData(s) /\ ~InAnswer(s)
  BY <1>1, <1>2, ListedRows DEF InAnswer
<1>4. Runner!RunnerAuthTypeOK
  BY <1>1 DEF Runner!AuthInit, Runner!RunnerAuthTypeOK
<1> QED
  BY <1>1, <1>2, <1>3, <1>4 DEF RunnerSound, ListsAreOfStarted, PickIsKept, ClosesEnd,
     Runner!AuthInit
------------------------------------------------------------------------------
(* A step that leaves the list and the answer alone, starts no session and *)
(* changes neither the pick nor the closes.                                *)
LEMMA QuietlySound ==
  ASSUME RunnerSound, Runner!RunnerAuthTypeOK', RunnerQuery',
         query'.data = query.data,
         query'.flight = "answered" => query.flight = "answered" /\ query'.answer = query.answer,
         UNCHANGED <<kept, own2, sent, noted, chosen>>
  PROVE  RunnerSound'
<1>1. \A s : /\ InData(s)' = InData(s) /\ (InAnswer(s)' => InAnswer(s))
             /\ Ended(s) => Ended(s)'
             /\ query'.flight = "answered" => (InAnswer(s) => InAnswer(s)')
  BY SameData DEF InAnswer, Ended
<1>2. ListsAreOfStarted'
  BY <1>1 DEF RunnerSound, ListsAreOfStarted
<1>3. PickIsKept'
  BY <1>1 DEF RunnerSound, PickIsKept
<1>4. ClosesEnd'
  BY <1>1 DEF RunnerSound, ClosesEnd
<1> QED
  BY <1>2, <1>3, <1>4 DEF RunnerSound

(* A poll starts, is answered, arrives or fails. *)
LEMMA RunnerPollSound ==
  ASSUME RunnerSound, Runner!Poll \/ Runner!PollServed \/ Runner!PollArrives \/ Runner!PollFails
  PROVE  RunnerSound'
<1>0. query \in RunnerEntries /\ Runner!RunnerAuthTypeOK /\ RunnerQuery
  BY DEF RunnerSound, RunnerQuery
<1>1. CASE Runner!Poll
  <2>1. query'.flight = "asked" /\ query'.data = query.data /\ query' \in RunnerEntries
    BY <1>0, <1>1, RunnerEntry DEF Runner!Poll, Runner!Fetched, Runner!Asked, RunnerEntries,
       Runner!Entries
  <2>2. UNCHANGED <<kept, own1, own2, own3, own4, own5, own6, sent, noted, chosen>>
    BY <1>1 DEF Runner!Poll, Runner!server, Runner!requests
  <2>3. Runner!RunnerAuthTypeOK' /\ RunnerQuery'
    BY <1>0, <2>1, <2>2 DEF Runner!RunnerAuthTypeOK, RunnerQuery
  <2> QED
    BY <2>1, <2>2, <2>3, QuietlySound
<1>2. CASE Runner!PollServed
  <2>0. Runner!ListedNow \in SUBSET Runner!Listed
    <3>1. ASSUME NEW s \in kept
          PROVE  [id |-> s, needsKey |-> s \in own1] \in Runner!Listed
      <4>1. s \in RunnerSession /\ (s \in own1) \in BOOLEAN
        BY <1>0 DEF Runner!RunnerAuthTypeOK
      <4> QED
        BY <4>1 DEF Runner!Listed
    <3> QED
      BY <3>1 DEF Runner!ListedNow
  <2>1. /\ query'.flight = "answered" /\ query'.data = query.data
        /\ query'.answer = Runner!ListedNow
        /\ query' \in RunnerEntries
    BY <1>0, <1>2, <2>0, RunnerEntry DEF Runner!PollServed, Runner!Served, RunnerEntries,
       Runner!Entries
  <2>2. UNCHANGED <<kept, own1, own2, own3, own4, own5, own6, sent, noted, chosen>>
    BY <1>2 DEF Runner!PollServed, Runner!server, Runner!requests
  <2>3. Runner!RunnerAuthTypeOK' /\ RunnerQuery'
    BY <1>0, <2>0, <2>1, <2>2 DEF Runner!RunnerAuthTypeOK, RunnerQuery
  <2>4. \A s : InData(s)' = InData(s) /\ (InAnswer(s)' <=> s \in kept)
    <3> TAKE s
    <3>1. (\E x \in Runner!ListedNow : x.id = s) <=> s \in kept
      <4>1. \A x \in Runner!ListedNow : x.id \in kept
        BY DEF Runner!ListedNow
      <4>2. \A t \in kept : [id |-> t, needsKey |-> t \in own1] \in Runner!ListedNow
        BY DEF Runner!ListedNow
      <4>3. \A t : [id |-> t, needsKey |-> t \in own1].id = t
        OBVIOUS
      <4> QED
        BY <4>1, <4>2, <4>3
    <3>2. InAnswer(s)' <=> s \in kept
      BY <2>1, <3>1 DEF InAnswer
    <3> QED
      BY <2>1, <3>2, SameData
  <2>5. \A s : Ended(s) => Ended(s)'
    BY <2>2, <2>4 DEF Ended
  <2>6. kept \subseteq own2
    BY <1>0 DEF Runner!RunnerAuthTypeOK
  <2>7. ListsAreOfStarted'
    BY <2>2, <2>4, <2>6 DEF RunnerSound, ListsAreOfStarted
  <2>8. PickIsKept' /\ ClosesEnd'
    BY <2>1, <2>2, <2>4, <2>5 DEF RunnerSound, PickIsKept, ClosesEnd
  <2> QED
    BY <2>3, <2>7, <2>8 DEF RunnerSound
<1>3. CASE Runner!PollArrives
  <2>1. PICK list \in Runner!Orders(query.answer) :
          Runner!Show([Runner!Arrived(query) EXCEPT !.data = list])
    BY <1>3 DEF Runner!PollArrives
  <2>2. query.flight = "answered" /\ query.answer \in SUBSET Runner!Listed
    BY <1>0, <1>3 DEF Runner!PollArrives, RunnerQuery
  <2>3. list \in RunnerLists /\ list # NoData
    BY <2>1, <2>2, ViewerAssumption DEF RunnerLists
  <2>4. query' = [Runner!Arrived(query) EXCEPT !.data = list]
    BY <2>1 DEF Runner!Show
  <2>5. query' \in RunnerEntries
    BY <1>0, <2>3, <2>4, RunnerEntry DEF RunnerEntries
  <2>6. query'.data = list /\ query'.flight = "idle"
    BY <1>0, <2>4 DEF RunnerEntries, Runner!Entries, Runner!Arrived
  <2>7. /\ UNCHANGED <<kept, own1, own2, own3, own4, own6, noted, chosen>>
        /\ sent' = [s \in RunnerSession |-> IF sent[s] = "refetching" THEN "done"
                                            ELSE sent[s]]
        /\ own5' \in BOOLEAN
    BY <1>0, <1>3, <2>1 DEF Runner!PollArrives, Runner!Show, Runner!server,
       Runner!RunnerAuthTypeOK
  <2>8. RunnerQuery'
    BY <2>3, <2>5, <2>6 DEF RunnerQuery
  <2>9. Runner!RunnerAuthTypeOK'
    BY <1>0, <2>6, <2>7 DEF Runner!RunnerAuthTypeOK
  <2>10. ASSUME NEW s PROVE InData(s)' <=> InAnswer(s)
    <3>1. {list[k] : k \in DOMAIN list} = query.answer
      BY <2>1 DEF Runner!Orders, Runner!ToSet
    <3>2. InData(s)' <=> \E k \in DOMAIN list : list[k].id = s
      BY <2>3, <2>6 DEF InData, Runner!Holds, Runner!Active, Runner!Id
    <3> QED
      BY <2>2, <3>1, <3>2 DEF InAnswer
  <2>11. \A s : ~InAnswer(s)' /\ (Ended(s)' <=> s \in own2 /\ s \notin kept)
    BY <2>6, <2>7 DEF InAnswer, Ended
  <2>12. ListsAreOfStarted'
    BY <2>6, <2>7, <2>10, <2>11 DEF RunnerSound, ListsAreOfStarted
  <2>13. PickIsKept'
    <3> SUFFICES ASSUME noted # NoSession
                 PROVE  /\ noted \notin Foreign
                        /\ InData(noted)' \/ Ended(noted)'
                        /\ chosen = noted \/ ~InData(noted)'
      BY <2>7 DEF PickIsKept
    <3>1. /\ noted \in RunnerSession /\ noted \notin Foreign
          /\ InData(noted) \/ Ended(noted)
          /\ chosen = noted \/ ~InData(noted)
      BY <1>0 DEF RunnerSound, PickIsKept, Runner!RunnerAuthTypeOK
    <3>2. CASE InData(noted)
      BY <2>2, <2>7, <2>10, <2>11, <3>1, <3>2 DEF RunnerSound, ListsAreOfStarted, PickIsKept
    <3>3. CASE Ended(noted)
      BY <2>7, <2>10, <2>11, <3>1, <3>3 DEF Ended
    <3> QED
      BY <3>1, <3>2, <3>3 DEF RunnerSound, PickIsKept
  <2>14. ClosesEnd'
    BY <1>0, <2>3, <2>6, <2>7, <2>10, <2>11
       DEF RunnerSound, ClosesEnd, Ended, Runner!RunnerAuthTypeOK
  <2> QED
    BY <2>8, <2>9, <2>12, <2>13, <2>14 DEF RunnerSound
<1>4. CASE Runner!PollFails
  <2>1. query'.flight = "idle" /\ query'.data = query.data /\ query' \in RunnerEntries
    BY <1>0, <1>4, RunnerEntry DEF Runner!PollFails, Runner!Lost, RunnerEntries, Runner!Entries
  <2>2. /\ UNCHANGED <<kept, own1, own2, own3, own4, own5, own6, noted, chosen>>
        /\ sent' = [s \in RunnerSession |-> IF sent[s] = "refetching" THEN "no" ELSE sent[s]]
    BY <1>4 DEF Runner!PollFails, Runner!server
  <2>3. Runner!RunnerAuthTypeOK' /\ RunnerQuery'
    BY <1>0, <2>1, <2>2 DEF Runner!RunnerAuthTypeOK, RunnerQuery
  <2>4. \A s : InData(s)' = InData(s) /\ ~InAnswer(s)' /\ (Ended(s) => Ended(s)')
    BY <2>1, <2>2, SameData DEF InAnswer, Ended
  <2>5. ListsAreOfStarted' /\ PickIsKept'
    BY <2>1, <2>2, <2>4 DEF RunnerSound, ListsAreOfStarted, PickIsKept
  <2>6. ClosesEnd'
    BY <1>0, <2>1, <2>2, <2>4 DEF RunnerSound, ClosesEnd, Runner!RunnerAuthTypeOK
  <2> QED
    BY <2>3, <2>5, <2>6 DEF RunnerSound
<1> QED
  BY <1>1, <1>2, <1>3, <1>4

(* The user: another session only if they pick it or close theirs. *)
LEMMA RunnerUserSound ==
  ASSUME RunnerSound,
         \/ Runner!AskRun \/ Runner!Cancel \/ Runner!DoRun \/ Runner!TypeKey
         \/ Runner!SubmitKey \/ Runner!RunAnswered
         \/ \E s \in RunnerSession : Runner!Pick(s) \/ Runner!DoClose(s)
  PROVE  RunnerSound'
<1>0. query \in RunnerEntries /\ Runner!RunnerAuthTypeOK /\ RunnerQuery
  BY DEF RunnerSound, RunnerQuery
<1>1. ASSUME UNCHANGED <<kept, own2, sent, noted, chosen, query>>, Runner!RunnerAuthTypeOK'
      PROVE  RunnerSound'
  BY <1>0, <1>1, QuietlySound DEF RunnerQuery
<1>2. CASE Runner!AskRun \/ Runner!Cancel \/ Runner!DoRun \/ Runner!TypeKey \/ Runner!RunAnswered
  <2>1. UNCHANGED <<kept, own1, own2, own6, sent, noted, chosen, query>>
    BY <1>2 DEF Runner!AskRun, Runner!Cancel, Runner!DoRun, Runner!TypeKey,
       Runner!RunAnswered, Runner!server, Runner!requests
  <2>2. own3' \in BOOLEAN /\ own4' \in BOOLEAN /\ own5' \in BOOLEAN
    BY <1>0, <1>2 DEF Runner!AskRun, Runner!Cancel, Runner!DoRun, Runner!TypeKey,
       Runner!RunAnswered, Runner!RunnerAuthTypeOK, Runner!requests
  <2>3. Runner!RunnerAuthTypeOK'
    BY <1>0, <2>1, <2>2 DEF Runner!RunnerAuthTypeOK
  <2> QED
    BY <1>1, <2>1, <2>3
<1>3. CASE Runner!SubmitKey
  <2>1. UNCHANGED <<kept, own1, own2, own3, own4, own5, sent, noted, chosen, query>>
    BY <1>3 DEF Runner!SubmitKey, Runner!server
  <2>2. Runner!Effective(query) \in RunnerSession
    BY <1>0, <1>3, ListedRows, OfferedRows DEF Runner!SubmitKey
  <2>3. Runner!RunnerAuthTypeOK'
    BY <1>0, <1>3, <2>1, <2>2 DEF Runner!RunnerAuthTypeOK, Runner!SubmitKey
  <2> QED
    BY <1>1, <2>1, <2>3
<1>4. ASSUME NEW s \in RunnerSession, Runner!Pick(s) PROVE RunnerSound'
  <2>1. /\ UNCHANGED <<kept, own1, own2, own3, own4, own6, sent, query>>
        /\ noted' = s /\ chosen' = s /\ own5' \in BOOLEAN
    BY <1>0, <1>4 DEF Runner!Pick, Runner!server, Runner!requests, Runner!RunnerAuthTypeOK
  <2>2. InData(s) /\ s \notin Foreign
    BY <1>0, <1>4, OfferedRows DEF Runner!Pick
  <2>3. Runner!RunnerAuthTypeOK' /\ RunnerQuery'
    BY <1>0, <2>1 DEF Runner!RunnerAuthTypeOK, RunnerQuery
  <2>4. \A t : InData(t)' = InData(t) /\ InAnswer(t)' = InAnswer(t) /\ Ended(t)' = Ended(t)
    BY <2>1, SameData DEF InAnswer, Ended
  <2>5. PickIsKept'
    BY <2>1, <2>2, <2>4 DEF PickIsKept
  <2>6. ListsAreOfStarted' /\ ClosesEnd'
    BY <2>1, <2>4 DEF RunnerSound, ListsAreOfStarted, ClosesEnd
  <2> QED
    BY <2>3, <2>5, <2>6 DEF RunnerSound
<1>5. ASSUME NEW s \in RunnerSession, Runner!DoClose(s) PROVE RunnerSound'
  <2>1. /\ UNCHANGED <<kept, own1, own2, own3, own4, own5, own6, query>>
        /\ noted' = IF s = noted THEN NoSession ELSE noted
        /\ chosen' = IF s = Runner!Effective(query) THEN NoSession ELSE chosen
        /\ sent' = [sent EXCEPT ![s] = "sent"]
    BY <1>5 DEF Runner!DoClose, Runner!server
  <2>2. query.data # NoData
    BY <1>0, <1>5, ListedRows, OfferedRows DEF Runner!DoClose
  <2>3. Runner!RunnerAuthTypeOK' /\ RunnerQuery'
    BY <1>0, <2>1 DEF Runner!RunnerAuthTypeOK, RunnerQuery
  <2>4. \A t : InData(t)' = InData(t) /\ InAnswer(t)' = InAnswer(t) /\ Ended(t)' = Ended(t)
    BY <2>1, SameData DEF InAnswer, Ended
  <2>5. ASSUME noted' # NoSession, chosen' # noted', InData(noted)' PROVE FALSE
    <3>1. noted' = noted /\ s # noted /\ noted # NoSession /\ InData(noted)
      BY <2>1, <2>4, <2>5
    <3>2. chosen = noted /\ noted \notin Foreign
      BY <3>1 DEF RunnerSound, PickIsKept
    <3>3. Runner!Fits(query, chosen)
      BY <3>1, <3>2 DEF InData, Runner!Fits, Runner!Compatible, Runner!Holds
    <3>4. Runner!Effective(query) = noted
      BY <3>2, <3>3 DEF Runner!Effective
    <3> QED
      BY <2>1, <2>5, <3>1, <3>2, <3>4
  <2>6. PickIsKept'
    BY <2>1, <2>4, <2>5 DEF RunnerSound, PickIsKept
  <2>7. ListsAreOfStarted'
    BY <2>1, <2>4 DEF RunnerSound, ListsAreOfStarted
  <2>8. ClosesEnd'
    BY <1>0, <2>1, <2>2, <2>4 DEF RunnerSound, ClosesEnd, Runner!RunnerAuthTypeOK
  <2> QED
    BY <2>3, <2>6, <2>7, <2>8 DEF RunnerSound
<1> QED
  BY <1>2, <1>3, <1>4, <1>5

(* Terminals, the server, the answers. *)
LEMMA RunnerServerSound ==
  ASSUME RunnerSound,
         \/ Runner!KeyServed \/ Runner!KeyAnswered
         \/ \E s \in RunnerSession :
              Runner!Start(s) \/ Runner!CloseServed(s) \/ Runner!CloseAnswered(s)
  PROVE  RunnerSound'
<1>0. query \in RunnerEntries /\ Runner!RunnerAuthTypeOK /\ RunnerQuery
  BY DEF RunnerSound, RunnerQuery
<1>1. CASE Runner!KeyServed
  <2>1. /\ UNCHANGED <<kept, own2, own3, own4, own5, sent, noted, chosen, query>>
        /\ own1' \subseteq own1
    BY <1>1 DEF Runner!KeyServed
  <2>2. own6' \in [id : RunnerSession, phase : {"sent", "answered"}] \union {Runner!NotKeying}
    BY <1>0, <1>1 DEF Runner!KeyServed, Runner!RunnerAuthTypeOK, Runner!NotKeying
  <2>3. Runner!RunnerAuthTypeOK' /\ RunnerQuery'
    BY <1>0, <2>1, <2>2 DEF Runner!RunnerAuthTypeOK, RunnerQuery
  <2> QED
    BY <2>1, <2>3, QuietlySound
<1>2. ASSUME NEW s \in RunnerSession, query' = Runner!Invalidated(query, s)
      PROVE  /\ query' \in RunnerEntries /\ query'.data = query.data
             /\ query'.flight = "answered" =>
                  query.flight = "answered" /\ query'.answer = query.answer
             /\ query.data # NoData => query'.flight = "asked"
             /\ query'.flight \in {"asked", "answered"}
             /\ RunnerQuery'
  <2>1. query' \in RunnerEntries
    BY <1>0, <1>2, RunnerEntry DEF RunnerEntries
  <2>2. /\ query'.data = query.data
        /\ query'.flight = "answered" =>
             query.flight = "answered" /\ query'.answer = query.answer
        /\ query.data # NoData => query'.flight = "asked"
        /\ query'.flight \in {"asked", "answered"}
    BY <1>0, <1>2 DEF Runner!Invalidated, Runner!Asked, RunnerEntries, Runner!Entries
  <2> QED
    BY <1>0, <2>1, <2>2 DEF RunnerQuery
<1>3. CASE Runner!KeyAnswered
  <2>1. own6.id \in RunnerSession
    BY <1>0, <1>3 DEF Runner!KeyAnswered, Runner!RunnerAuthTypeOK, Runner!NotKeying
  <2>2. /\ UNCHANGED <<kept, own1, own2, own3, own4, sent, noted, chosen>>
        /\ own5' = FALSE /\ own6' = Runner!NotKeying
        /\ query' = Runner!Invalidated(query, own6.id)
    BY <1>3 DEF Runner!KeyAnswered, Runner!server
  <2>3. Runner!RunnerAuthTypeOK'
    BY <1>0, <1>2, <2>1, <2>2 DEF Runner!RunnerAuthTypeOK
  <2> QED
    BY <1>2, <2>1, <2>2, <2>3, QuietlySound
<1>4. ASSUME NEW s \in RunnerSession, Runner!Start(s) PROVE RunnerSound'
  <2>1. /\ UNCHANGED <<own1, own3, own4, own5, own6, sent, noted, chosen, query>>
        /\ s \notin own2 /\ kept' = kept \union {s} /\ own2' = own2 \union {s}
    BY <1>4 DEF Runner!Start, Runner!requests
  <2>2. Runner!RunnerAuthTypeOK' /\ RunnerQuery'
    BY <1>0, <2>1 DEF Runner!RunnerAuthTypeOK, RunnerQuery
  <2>3. \A t : /\ InData(t)' = InData(t) /\ InAnswer(t)' = InAnswer(t)
               /\ Ended(t) => Ended(t)'
    BY <2>1, SameData DEF InAnswer, Ended
  <2>4. ListsAreOfStarted'
    BY <2>1, <2>3 DEF RunnerSound, ListsAreOfStarted
  <2>5. PickIsKept' /\ ClosesEnd'
    BY <2>1, <2>3 DEF RunnerSound, PickIsKept, ClosesEnd
  <2> QED
    BY <2>2, <2>4, <2>5 DEF RunnerSound
<1>5. ASSUME NEW s \in RunnerSession, Runner!CloseServed(s) PROVE RunnerSound'
  <2>1. /\ UNCHANGED <<own2, own3, own4, own5, own6, noted, chosen, query>>
        /\ kept' = kept \ {s} /\ own1' = own1 \ {s}
        /\ sent' = [sent EXCEPT ![s] = IF s \in kept THEN "answered" ELSE "no"]
    BY <1>5 DEF Runner!CloseServed
  <2>2. Runner!RunnerAuthTypeOK' /\ RunnerQuery'
    BY <1>0, <2>1 DEF Runner!RunnerAuthTypeOK, RunnerQuery
  <2>3. \A t : /\ InData(t)' = InData(t) /\ InAnswer(t)' = InAnswer(t)
               /\ Ended(t) => Ended(t)'
    BY <2>1, SameData DEF InAnswer, Ended
  <2>4. ListsAreOfStarted' /\ PickIsKept'
    BY <2>1, <2>3 DEF RunnerSound, ListsAreOfStarted, PickIsKept
  <2>5. ASSUME NEW t \in RunnerSession
        PROVE  /\ sent'[t] # "no" => query'.data # NoData
               /\ sent'[t] = "answered" => t \in own2' /\ t \notin kept'
               /\ sent'[t] \in {"refetching", "done"} => Ended(t)'
               /\ sent'[t] = "done" => ~InData(t)'
    <3>1. CASE t = s
      <4>1. sent[s] = "sent" /\ sent'[s] \in {"answered", "no"}
        BY <1>0, <1>5, <2>1 DEF Runner!CloseServed, Runner!RunnerAuthTypeOK
      <4>2. sent'[s] = "answered" => s \in own2
        BY <1>0, <2>1 DEF Runner!RunnerAuthTypeOK
      <4> QED
        BY <2>1, <3>1, <4>1, <4>2 DEF RunnerSound, ClosesEnd
    <3>2. CASE t # s
      BY <1>0, <2>1, <2>3, <3>2 DEF RunnerSound, ClosesEnd, Runner!RunnerAuthTypeOK
    <3> QED
      BY <3>1, <3>2
  <2> QED
    BY <2>2, <2>4, <2>5 DEF RunnerSound, ClosesEnd
<1>6. ASSUME NEW s \in RunnerSession, Runner!CloseAnswered(s) PROVE RunnerSound'
  <2>1. /\ UNCHANGED <<kept, own1, own2, own3, own4, own5, own6, noted, chosen>>
        /\ query' = Runner!Invalidated(query, s) /\ sent[s] = "answered"
        /\ sent' = [sent EXCEPT ![s] = "refetching"]
    BY <1>6 DEF Runner!CloseAnswered, Runner!server
  <2>2. query'.flight = "asked"
    BY <1>0, <1>2, <2>1 DEF RunnerSound, ClosesEnd
  <2>3. Runner!RunnerAuthTypeOK'
    BY <1>0, <2>1, <2>2 DEF Runner!RunnerAuthTypeOK
  <2>4. \A t : /\ InData(t)' = InData(t) /\ ~InAnswer(t)'
               /\ Ended(t)' <=> t \in own2 /\ t \notin kept
    BY <1>2, <2>1, <2>2, SameData DEF InAnswer, Ended
  <2>5. ListsAreOfStarted' /\ PickIsKept'
    BY <2>1, <2>2, <2>4 DEF RunnerSound, ListsAreOfStarted, PickIsKept, Ended
  <2>6. ClosesEnd'
    BY <1>0, <1>2, <2>1, <2>4 DEF RunnerSound, ClosesEnd, Ended, Runner!RunnerAuthTypeOK
  <2> QED
    BY <1>2, <2>1, <2>3, <2>5, <2>6 DEF RunnerSound
<1> QED
  BY <1>1, <1>3, <1>4, <1>5, <1>6

(* What the viewer keeps while it shows the case runner. *)
LEMMA RunnerKept == Spec => [](Shows("runner") => RunnerSound)
<1>1. Init => (Shows("runner") => RunnerSound)
  BY RunnerSoundInit DEF Init, Shows
<1>2. (Shows("runner") => RunnerSound) /\ [Next]_vars => (Shows("runner") => RunnerSound)'
  <2> SUFFICES ASSUME Shows("runner") => RunnerSound, [Next]_vars, Shows("runner")'
               PROVE  RunnerSound'
    OBVIOUS
  <2>1. Shows("runner") /\ RunnerSound
    BY DEF Next, vars, Shows
  <2>2. CASE Runner!AuthNext
    BY <2>1, <2>2, RunnerPollSound, RunnerUserSound, RunnerServerSound DEF Runner!AuthNext
  <2>3. CASE UNCHANGED Runner!authVars
    <3>1. Runner!RunnerAuthTypeOK' /\ RunnerQuery'
      BY <2>1, <2>3 DEF Runner!authVars, RunnerSound, Runner!RunnerAuthTypeOK, RunnerQuery
    <3> QED
      BY <2>1, <2>3, <3>1, QuietlySound DEF Runner!authVars
  <2> QED
    BY <2>1, <2>2, <2>3, RunnerStep
<1> QED
  BY <1>1, <1>2, PTL DEF Spec

(* Runs and keys go to the session that the user picked for as long as the *)
(* list has it, wherever a new order puts it and whoever else is closed.   *)
THEOREM PickIsUsed == Spec => PickedSessionIsUsed
<1>1. (Shows("runner") => RunnerSound) => (Shows("runner") => Runner!PickedSessionIsUsed)
  <2> SUFFICES ASSUME RunnerSound, Runner!Fits(query, noted)
               PROVE  Runner!Effective(query) = noted
    BY DEF Runner!PickedSessionIsUsed
  <2>1. InData(noted) /\ noted \in RunnerSession
    BY OfferedRows, ListedRows DEF RunnerSound
  <2>2. noted # NoSession
    BY <2>1, ViewerAssumption
  <2>3. chosen = noted
    BY <2>1, <2>2 DEF RunnerSound, PickIsKept
  <2> QED
    BY <2>3 DEF Runner!Effective
<1> QED
  BY <1>1, RunnerKept, PTL DEF PickedSessionIsUsed

(* Once a close has settled the session is not offered again.              *)
LEMMA ClosedLeave == Spec => [](Shows("runner") => Runner!ClosedSessionsLeaveTheList)
<1>1. (Shows("runner") => RunnerSound) => (Shows("runner") => Runner!ClosedSessionsLeaveTheList)
  BY DEF RunnerSound, ClosesEnd, InData, Runner!ClosedSessionsLeaveTheList
<1> QED
  BY <1>1, RunnerKept, PTL
------------------------------------------------------------------------------
(* The turns and the flow graph of a session. *)

(* The page's instants and orders are those of Timestamps. *)
LEMMA FlowInstants == Flow!Instant = Instant
  BY DEF Flow!Instant, Instant, Flow!Places, Places

LEMMA FlowOrders ==
  /\ Flow!TimeOrder = TimeOrder
  /\ Flow!TextOrder = TextOrder
  /\ \A a, b : Flow!Cut(a, b) <=> Cut(a, b)
<1>1. Flow!Places = Places
  BY DEF Flow!Places, Places
<1>2. \A f, g : Flow!Precedes(f, g) <=> Precedes(f, g)
  BY <1>1 DEF Flow!Precedes, Precedes
<1>3. \A a : \A p \in Places : Flow!Written(a, p) <=> Written(a, p)
  BY DEF Flow!Written, Written
<1>4. \A a : Flow!Characters(a) = Characters(a)
  BY <1>1, <1>3 DEF Flow!Characters, Characters
<1>5. Flow!TimeOrder = TimeOrder
  BY <1>2, FlowInstants DEF Flow!TimeOrder, TimeOrder
<1>6. Flow!TextOrder = TextOrder
  BY <1>2, <1>4, FlowInstants DEF Flow!TextOrder, TextOrder
<1>7. \A a, b : Flow!Cut(a, b) <=> Cut(a, b)
  BY <1>1, <1>3 DEF Flow!Cut, Cut
<1> QED
  BY <1>5, <1>6, <1>7

(* A later time sorts behind, unless the fraction of the earlier is cut.   *)
LEMMA LaterSortsBehind ==
  ASSUME NEW u \in Instant, NEW v \in Instant, <<u, v>> \in Flow!TimeOrder
  PROVE  /\ u # v
         /\ ~Flow!Cut(u, v) => Flow!NotAfter(u, v) /\ ~Flow!NotAfter(v, u)
<1>1. u # v /\ <<v, u>> \notin TimeOrder
  BY FlowOrders, TimeIsOrder DEF Orders
<1>2. ~Cut(v, u)
  BY <1>1, CutMisorders
<1> QED
  BY <1>1, <1>2, FlowOrders, TextsSortUnlessCut DEF Flow!NotAfter

(* The order of the texts, as the page uses it. *)
LEMMA NotAfterIsOrder ==
  ASSUME NEW u \in Instant, NEW v \in Instant, NEW w \in Instant
  PROVE  /\ Flow!NotAfter(u, v) \/ Flow!NotAfter(v, u)
         /\ Flow!NotAfter(u, v) /\ Flow!NotAfter(v, u) => u = v
         /\ Flow!NotAfter(u, v) /\ Flow!NotAfter(v, w) => Flow!NotAfter(u, w)
  BY FlowOrders, TextIsOrder DEF Orders, Flow!NotAfter

(* The instants between two, in time and as texts, are the same, but for   *)
(* cut fractions.                                                          *)
LEMMA NothingBetween ==
  ASSUME NEW lo \in Instant, NEW hi \in Instant, <<lo, hi>> \in Flow!TimeOrder,
         ~Flow!Between(lo, hi), ~Flow!Swapped(lo, hi),
         NEW t \in Instant, t \in Flow!Prompts \union Flow!Requests, t # lo, t # hi
  PROVE  \/ Flow!NotAfter(t, lo) /\ ~Flow!NotAfter(lo, t) /\ Flow!NotAfter(t, hi)
         \/ Flow!NotAfter(hi, t) /\ ~Flow!NotAfter(t, hi) /\ ~Flow!NotAfter(t, lo)
<1>0. Flow!NotAfter(lo, hi) /\ ~Flow!NotAfter(hi, lo)
  BY LaterSortsBehind DEF Flow!Swapped
<1>1. CASE <<t, lo>> \in Flow!TimeOrder
  <2>1. ~Flow!Cut(t, lo)
    BY DEF Flow!Swapped
  <2>2. Flow!NotAfter(t, lo) /\ ~Flow!NotAfter(lo, t)
    BY <1>1, <2>1, LaterSortsBehind
  <2> QED
    BY <1>0, <2>2, NotAfterIsOrder
<1>2. CASE <<hi, t>> \in Flow!TimeOrder
  <2>1. ~Flow!Cut(hi, t)
    BY DEF Flow!Swapped
  <2>2. Flow!NotAfter(hi, t) /\ ~Flow!NotAfter(t, hi)
    BY <1>2, <2>1, LaterSortsBehind
  <2>3. ~Flow!NotAfter(t, lo)
    BY <1>0, <2>2, NotAfterIsOrder
  <2> QED
    BY <2>2, <2>3
<1>3. <<t, lo>> \in Flow!TimeOrder \/ <<hi, t>> \in Flow!TimeOrder
  <2>1. ~(<<lo, t>> \in Flow!TimeOrder /\ <<t, hi>> \in Flow!TimeOrder)
    BY DEF Flow!Between
  <2>2. <<t, lo>> \in Flow!TimeOrder \/ <<lo, t>> \in Flow!TimeOrder
    BY FlowOrders, TimeIsOrder DEF Orders
  <2>3. <<t, hi>> \in Flow!TimeOrder \/ <<hi, t>> \in Flow!TimeOrder
    BY FlowOrders, TimeIsOrder DEF Orders
  <2> QED
    BY <2>1, <2>2, <2>3
<1> QED
  BY <1>1, <1>2, <1>3
------------------------------------------------------------------------------
(* Times are given out once: to what is recorded at once, and to           *)
(* completions that are open and will be recorded.                         *)
TimesAreUnique ==
    /\ IsFiniteSet(kept)
    /\ \A a \in Agent : own1[a].state = "open" =>
         own1[a].at # {} /\ \A e \in kept : e.at \notin own1[a].at
    /\ \A a, b \in Agent :
         /\ own1[a].state = "open" /\ own1[b].state = "open"
         /\ own1[a].at \intersect own1[b].at # {}
         => a = b

(* A tool comes after the completion that called for it, and a prompt      *)
(* before the one that it triggered.                                       *)
CausesAreOrdered ==
    /\ \A e \in kept : \A c \in e.cause :
         \/ e.kind = "tool" /\ <<c, e.at>> \in Flow!TimeOrder
         \/ e.kind = "prompt" /\ <<e.at, c>> \in Flow!TimeOrder
    /\ \A t \in own2 : \E e \in kept : e.at = t /\ e.kind = "prompt"

FlowSound == Flow!TurnFlowTypeOK /\ TimesAreUnique /\ CausesAreOrdered

Doing == [state : {"idle", "ready", "open", "tools"}, at : Flow!Maybe]

(* A time that there may not be. *)
LEMMA MaybeOne ==
  ASSUME NEW S \in Flow!Maybe
  PROVE  /\ S \subseteq Instant /\ IsFiniteSet(S)
         /\ \A u, v \in S : u = v
<1>1. CASE S = {}
  BY <1>1, FS_EmptySet
<1>2. CASE S # {}
  <2>1. PICK t \in Instant : S = {t}
    BY <1>2, FlowInstants DEF Flow!Maybe
  <2> QED
    BY <2>1, FS_Singleton
<1> QED
  BY <1>1, <1>2

(* The values of a function on a finite set are finitely many. *)
LEMMA ImageIsFinite ==
  ASSUME NEW S, IsFiniteSet(S), NEW h, h = [u \in S |-> h[u]]
  PROVE  IsFiniteSet({h[u] : u \in S})
<1> DEFINE T == {h[u] : u \in S}
<1>1. h \in Surjection(S, T)
  BY DEF Surjection
<1> QED
  BY <1>1, FS_Surjection

(* What the invariant says of each variable. *)
LEMMA FlowTypes ==
  ASSUME FlowSound
  PROVE  /\ Main \in Agent
         /\ kept \in SUBSET Flow!Events /\ own1 \in [Agent -> Doing] /\ own2 \in Flow!Maybe
         /\ \A e \in kept : e.at \in Instant /\ e.kind \in Flow!Kinds /\ e.cause \in Flow!Maybe
         /\ \A a \in Agent : own1[a].at \in Flow!Maybe
         /\ \A e, f \in kept : e.at = f.at => e = f
<1>1. Main \in Agent
  BY ViewerAssumption
<1>2. kept \in SUBSET Flow!Events /\ own1 \in [Agent -> Doing] /\ own2 \in Flow!Maybe
  BY DEF FlowSound, Flow!TurnFlowTypeOK, Doing
<1>3. \A e \in kept : e.at \in Instant /\ e.kind \in Flow!Kinds /\ e.cause \in Flow!Maybe
  BY <1>2, FlowInstants DEF Flow!Events
<1>4. \A a \in Agent : own1[a].at \in Flow!Maybe
  BY <1>2 DEF Doing
<1>5. \A e, f \in kept : e.at = f.at => e = f
  BY DEF FlowSound, Flow!TurnFlowTypeOK
<1> QED
  BY <1>1, <1>2, <1>3, <1>4, <1>5

(* At the start nothing is recorded. *)
LEMMA FlowSoundInit == Flow!FlowInit => FlowSound
<1> SUFFICES ASSUME Flow!FlowInit PROVE FlowSound
  OBVIOUS
<1>1. kept = {} /\ own2 = {} /\ own1 = [a \in Agent |-> [state |-> "idle", at |-> {}]]
  BY DEF Flow!FlowInit
<1>2. Flow!TurnFlowTypeOK
  BY <1>1 DEF Flow!TurnFlowTypeOK, Flow!Maybe
<1>3. TimesAreUnique
  BY <1>1, FS_EmptySet DEF TimesAreUnique
<1>4. CausesAreOrdered
  BY <1>1 DEF CausesAreOrdered
<1> QED
  BY <1>2, <1>3, <1>4 DEF FlowSound

(* A record that is new. *)
LEMMA RecordTyped ==
  ASSUME NEW at \in Instant, NEW kind \in Flow!Kinds, NEW cause \in Flow!Maybe
  PROVE  /\ Flow!Record(at, kind, cause) \in Flow!Events
         /\ Flow!Record(at, kind, cause).at = at
         /\ Flow!Record(at, kind, cause).kind = kind
         /\ Flow!Record(at, kind, cause).cause = cause
  BY FlowInstants DEF Flow!Record, Flow!Events

(* A time that is given out is later than all the others. *)
LEMMA TickIsLatest ==
  ASSUME FlowSound, NEW t \in Instant, Flow!Tick(t)
  PROVE  /\ \A e \in kept : <<e.at, t>> \in Flow!TimeOrder /\ e.at # t
         /\ \A a \in Agent : \A u \in own1[a].at : <<u, t>> \in Flow!TimeOrder /\ u # t
<1>1. \A u \in Flow!Stamped : <<u, t>> \in Flow!TimeOrder
  BY DEF Flow!Tick
<1>2. \A u \in Instant : <<u, t>> \in Flow!TimeOrder => u # t
  BY LaterSortsBehind
<1>3. \A e \in kept : e.at \in Flow!Stamped /\ e.at \in Instant
  BY FlowTypes DEF Flow!Stamped
<1>4. ASSUME NEW a \in Agent, NEW u \in own1[a].at PROVE u \in Flow!Stamped /\ u \in Instant
  <2>1. own1[a].at \subseteq Instant
    BY FlowTypes, MaybeOne
  <2> QED
    BY <2>1 DEF Flow!Stamped
<1> QED
  BY <1>1, <1>2, <1>3, <1>4

(* A step that records something at the next time. *)
LEMMA FlowTicks ==
  ASSUME FlowSound, NEW t \in Instant, Flow!Tick(t),
         NEW kind \in Flow!Kinds \ {"completion"}, NEW cause \in Flow!Maybe,
         kept' = kept \union {Flow!Record(t, kind, cause)},
         cause # {} => kind = "tool" /\ \A c \in cause : <<c, t>> \in Flow!TimeOrder,
         own2' = own2 \/ (own2' = {t} /\ kind = "prompt"),
         own1' \in [Agent -> Doing],
         \A a \in Agent : own1'[a].at = own1[a].at
                          /\ (own1'[a].state = "open" => own1[a].state = "open")
  PROVE  FlowSound'
<1> DEFINE r == Flow!Record(t, kind, cause)
<1>1. r \in Flow!Events /\ r.at = t /\ r.kind = kind /\ r.cause = cause
  BY RecordTyped
<1> HIDE DEF r
<1>2. kept' = kept \union {r}
  BY DEF r
<1>3. \A e \in kept : e.at # t
  BY TickIsLatest
<1>4. {t} \in Flow!Maybe
  BY FlowInstants DEF Flow!Maybe
<1>5. Flow!TurnFlowTypeOK'
  <2>1. \A e, f \in kept' : e.at = f.at => e = f
    BY <1>1, <1>2, <1>3, FlowTypes
  <2> QED
    BY <1>1, <1>2, <1>4, <2>1, FlowTypes DEF Flow!TurnFlowTypeOK, Doing
<1>6. TimesAreUnique'
  <2>1. IsFiniteSet(kept')
    BY <1>2, FS_AddElement DEF FlowSound, TimesAreUnique
  <2>2. \A a \in Agent : t \notin own1[a].at
    BY TickIsLatest
  <2> QED
    BY <1>1, <1>2, <2>1, <2>2 DEF FlowSound, TimesAreUnique
<1>7. CausesAreOrdered'
  <2>1. ASSUME NEW f \in kept', NEW c \in f.cause
        PROVE  \/ f.kind = "tool" /\ <<c, f.at>> \in Flow!TimeOrder
               \/ f.kind = "prompt" /\ <<f.at, c>> \in Flow!TimeOrder
    <3>1. CASE f \in kept
      BY <2>1, <3>1 DEF FlowSound, CausesAreOrdered
    <3>2. CASE f = r
      BY <1>1, <2>1, <3>2
    <3> QED
      BY <1>2, <3>1, <3>2
  <2>2. \A u \in own2' : \E e \in kept' : e.at = u /\ e.kind = "prompt"
    BY <1>1, <1>2 DEF FlowSound, CausesAreOrdered
  <2> QED
    BY <2>1, <2>2 DEF CausesAreOrdered
<1> QED
  BY <1>5, <1>6, <1>7 DEF FlowSound

(* What the client sends at once: prompts, tool hooks, and the rest. *)
LEMMA FlowRecordSound ==
  ASSUME FlowSound, NEW t \in Instant,
         \/ Flow!Prompt(t) \/ Flow!Aside("other", t) \/ Flow!Aside("probe", t)
         \/ \E a \in Agent : Flow!ToolHook(a, "tools", t) \/ Flow!ToolHook(a, "ready", t)
  PROVE  FlowSound'
<1>0. {} \in Flow!Maybe
  BY DEF Flow!Maybe
<1>1. CASE Flow!Prompt(t)
  <2>1. /\ own1' \in [Agent -> Doing]
        /\ \A a \in Agent : own1'[a].at = own1[a].at
                            /\ (own1'[a].state = "open" => own1[a].state = "open")
    BY <1>1, FlowTypes DEF Flow!Prompt, Doing
  <2>2. /\ Flow!Tick(t) /\ own2' = {t}
        /\ kept' = kept \union {Flow!Record(t, "prompt", {})}
    BY <1>1 DEF Flow!Prompt
  <2>3. "prompt" \in Flow!Kinds \ {"completion"}
    BY DEF Flow!Kinds
  <2> QED
    BY <1>0, <2>1, <2>2, <2>3, FlowTicks
<1>2. ASSUME NEW kind \in {"other", "probe"}, Flow!Aside(kind, t) PROVE FlowSound'
  <2>1. /\ Flow!Tick(t) /\ own1' = own1 /\ own2' = own2
        /\ kept' = kept \union {Flow!Record(t, kind, {})}
    BY <1>2 DEF Flow!Aside
  <2>2. kind \in Flow!Kinds \ {"completion"}
    BY DEF Flow!Kinds
  <2> QED
    BY <1>0, <2>1, <2>2, FlowTypes, FlowTicks
<1>3. ASSUME NEW a \in Agent, NEW next \in {"tools", "ready"}, Flow!ToolHook(a, next, t)
      PROVE  FlowSound'
  <2>1. /\ Flow!Tick(t) /\ own2' = own2
        /\ kept' = kept \union {Flow!Record(t, "tool", own1[a].at)}
    BY <1>3 DEF Flow!ToolHook
  <2>2. /\ own1' \in [Agent -> Doing]
        /\ \A b \in Agent : own1'[b].at = own1[b].at
                            /\ (own1'[b].state = "open" => own1[b].state = "open")
    BY <1>3, FlowTypes DEF Flow!ToolHook, Doing
  <2>3. own1[a].at \in Flow!Maybe /\ \A c \in own1[a].at : <<c, t>> \in Flow!TimeOrder
    BY <2>1, FlowTypes, TickIsLatest
  <2>4. "tool" \in Flow!Kinds \ {"completion"}
    BY DEF Flow!Kinds
  <2> QED
    BY <2>1, <2>2, <2>3, <2>4, FlowTicks
<1> QED
  BY <1>1, <1>2, <1>3

(* A completion that starts, and what its prompt then knows. *)
Told(e, t) == IF e.at \in own2 THEN [e EXCEPT !.cause = {t}] ELSE e

LEMMA ToldTyped ==
  ASSUME FlowSound, NEW t \in Instant, NEW e \in kept
  PROVE  /\ Told(e, t) \in Flow!Events
         /\ Told(e, t).at = e.at /\ Told(e, t).kind = e.kind
         /\ Told(e, t).cause = IF e.at \in own2 THEN {t} ELSE e.cause
<1>1. e \in Flow!Events /\ {t} \in Flow!Maybe
  BY FlowTypes, FlowInstants DEF Flow!Maybe
<1> QED
  BY <1>1 DEF Told, Flow!Events

LEMMA BeginKeeps ==
  ASSUME FlowSound, NEW t \in Instant, NEW a \in Agent, Flow!Begin(a, t)
  PROVE  /\ Flow!Tick(t)
         /\ own1' \in [Agent -> Doing]
         /\ own1'[a].state = "open" /\ own1'[a].at = {t}
         /\ \A b \in Agent \ {a} : own1'[b] = own1[b]
         /\ \/ kept' = kept /\ own2' = own2
            \/ kept' = {Told(e, t) : e \in kept} /\ own2' = {}
<1>1. {t} \in Flow!Maybe
  BY FlowInstants DEF Flow!Maybe
<1>2. /\ own1' \in [Agent -> Doing]
      /\ own1'[a].state = "open" /\ own1'[a].at = {t}
      /\ \A b \in Agent \ {a} : own1'[b] = own1[b]
  BY <1>1, FlowTypes DEF Flow!Begin, Doing
<1> QED
  BY <1>2 DEF Flow!Begin, Told

LEMMA FlowBeginSound ==
  ASSUME FlowSound, NEW t \in Instant, NEW a \in Agent, Flow!Begin(a, t)
  PROVE  FlowSound'
<1>1. /\ \A e \in kept : e.at # t /\ <<e.at, t>> \in Flow!TimeOrder
      /\ \A b \in Agent : t \notin own1[b].at
  BY BeginKeeps, TickIsLatest
<1>2. ASSUME NEW b \in Agent, NEW c \in Agent,
             own1'[b].state = "open", own1'[c].state = "open",
             own1'[b].at \intersect own1'[c].at # {}
      PROVE  b = c
  <2>1. CASE b # a /\ c # a
    BY <1>2, <2>1, BeginKeeps DEF FlowSound, TimesAreUnique
  <2>2. CASE b = a \/ c = a
    BY <1>1, <1>2, <2>2, BeginKeeps
  <2> QED
    BY <2>1, <2>2
<1>3. CASE kept' = kept /\ own2' = own2
  <2>1. Flow!TurnFlowTypeOK'
    BY <1>3, BeginKeeps, FlowTypes DEF Flow!TurnFlowTypeOK, Doing
  <2>2. ASSUME NEW b \in Agent, own1'[b].state = "open"
        PROVE  own1'[b].at # {} /\ \A e \in kept' : e.at \notin own1'[b].at
    <3>1. CASE b = a
      <4>1. own1'[b].at = {t}
        BY <3>1, BeginKeeps
      <4> QED
        BY <1>1, <1>3, <4>1
    <3>2. CASE b # a
      <4>1. own1'[b] = own1[b]
        BY <3>2, BeginKeeps
      <4> QED
        BY <1>3, <2>2, <4>1 DEF FlowSound, TimesAreUnique
    <3> QED
      BY <3>1, <3>2
  <2>3. TimesAreUnique'
    BY <1>2, <1>3, <2>2 DEF FlowSound, TimesAreUnique
  <2>4. CausesAreOrdered'
    BY <1>3 DEF FlowSound, CausesAreOrdered
  <2> QED
    BY <2>1, <2>3, <2>4 DEF FlowSound
<1>4. CASE kept' = {Told(e, t) : e \in kept} /\ own2' = {}
  <2>1. \A f \in kept' : \E e \in kept : f = Told(e, t) /\ f.at = e.at
    BY <1>4, ToldTyped
  <2>2. Flow!TurnFlowTypeOK'
    <3>1. kept' \in SUBSET Flow!Events
      BY <1>4, ToldTyped
    <3>2. \A e, f \in kept' : e.at = f.at => e = f
      BY <2>1, FlowTypes
    <3>3. own2' \in Flow!Maybe
      BY <1>4 DEF Flow!Maybe
    <3> QED
      BY <3>1, <3>2, <3>3, BeginKeeps DEF Flow!TurnFlowTypeOK, Doing
  <2>3. ASSUME NEW b \in Agent, own1'[b].state = "open"
        PROVE  own1'[b].at # {} /\ \A e \in kept' : e.at \notin own1'[b].at
    <3>1. CASE b = a
      <4>1. own1'[b].at = {t}
        BY <3>1, BeginKeeps
      <4> QED
        BY <1>1, <2>1, <4>1
    <3>2. CASE b # a
      <4>1. own1'[b] = own1[b]
        BY <3>2, BeginKeeps
      <4>2. own1'[b].at # {} /\ \A e \in kept : e.at \notin own1'[b].at
        BY <2>3, <4>1 DEF FlowSound, TimesAreUnique
      <4> QED
        BY <2>1, <4>2
    <3> QED
      BY <3>1, <3>2
  <2>4. IsFiniteSet(kept')
    <3> DEFINE h == [e \in kept |-> Told(e, t)]
    <3>1. IsFiniteSet({h[e] : e \in kept})
      BY ImageIsFinite DEF FlowSound, TimesAreUnique
    <3> QED
      BY <1>4, <3>1
  <2>5. TimesAreUnique'
    BY <1>2, <2>3, <2>4 DEF TimesAreUnique
  <2>6. ASSUME NEW f \in kept', NEW c \in f.cause
        PROVE  \/ f.kind = "tool" /\ <<c, f.at>> \in Flow!TimeOrder
               \/ f.kind = "prompt" /\ <<f.at, c>> \in Flow!TimeOrder
    <3>1. PICK e \in kept : f = Told(e, t)
      BY <2>1
    <3>2. CASE e.at \in own2
      <4>1. e.kind = "prompt"
        BY <3>2, FlowTypes DEF FlowSound, CausesAreOrdered
      <4>2. f.at = e.at /\ f.kind = e.kind /\ f.cause = {t}
        BY <3>1, <3>2, ToldTyped
      <4>3. c = t /\ <<e.at, t>> \in Flow!TimeOrder
        BY <1>1, <2>6, <4>2
      <4> QED
        BY <4>1, <4>2, <4>3
    <3>3. CASE e.at \notin own2
      <4>1. f = e
        BY <3>1, <3>3 DEF Told
      <4> QED
        BY <2>6, <4>1 DEF FlowSound, CausesAreOrdered
    <3> QED
      BY <3>2, <3>3
  <2>7. CausesAreOrdered'
    BY <1>4, <2>6 DEF CausesAreOrdered
  <2> QED
    BY <2>2, <2>5, <2>7 DEF FlowSound
<1> QED
  BY <1>3, <1>4, BeginKeeps

(* A completion is recorded at its end, with the time of its start. *)
LEMMA FinishRecords ==
  ASSUME FlowSound, NEW a \in Agent, NEW next, Flow!Finish(a, next)
  PROVE  \E t \in Instant :
           own1[a].at = {t} /\ kept' = kept \union {Flow!Record(t, "completion", {})}
<1>1. /\ own1[a].state = "open"
      /\ kept' = kept \union {Flow!Record(t, "completion", {}) : t \in own1[a].at}
  BY DEF Flow!Finish
<1>2. own1[a].at \in Flow!Maybe /\ own1[a].at # {}
  BY <1>1, FlowTypes DEF FlowSound, TimesAreUnique
<1>3. PICK t \in Instant : own1[a].at = {t}
  BY <1>2, FlowInstants DEF Flow!Maybe
<1> QED
  BY <1>1, <1>3

LEMMA FlowFinishSound ==
  ASSUME FlowSound, NEW a \in Agent, NEW next \in {"tools", "idle"}, Flow!Finish(a, next)
  PROVE  FlowSound'
<1>1. PICK t \in Instant :
        own1[a].at = {t} /\ kept' = kept \union {Flow!Record(t, "completion", {})}
  BY FinishRecords
<1> DEFINE r == Flow!Record(t, "completion", {})
<1>2. own1[a].state = "open" /\ own1' = [own1 EXCEPT ![a].state = next] /\ own2' = own2
  BY DEF Flow!Finish
<1>3. r \in Flow!Events /\ r.at = t /\ r.kind = "completion" /\ r.cause = {}
  <2>1. {} \in Flow!Maybe /\ "completion" \in Flow!Kinds
    BY DEF Flow!Maybe, Flow!Kinds
  <2> QED
    BY <2>1, RecordTyped
<1>4. kept' = kept \union {r}
  BY <1>1
<1> HIDE DEF r
<1>5. \A e \in kept : e.at # t
  BY <1>1, <1>2 DEF FlowSound, TimesAreUnique
<1>6. /\ own1' \in [Agent -> Doing] /\ own1'[a].state # "open"
      /\ \A b \in Agent \ {a} : own1'[b] = own1[b]
  BY <1>2, FlowTypes DEF Doing
<1>7. Flow!TurnFlowTypeOK'
  <2>1. \A e, f \in kept' : e.at = f.at => e = f
    BY <1>3, <1>4, <1>5, FlowTypes
  <2> QED
    BY <1>2, <1>3, <1>4, <1>6, <2>1, FlowTypes DEF Flow!TurnFlowTypeOK, Doing
<1>8. TimesAreUnique'
  <2>1. IsFiniteSet(kept')
    BY <1>4, FS_AddElement DEF FlowSound, TimesAreUnique
  <2>2. ASSUME NEW b \in Agent, own1'[b].state = "open"
        PROVE  own1'[b].at # {} /\ \A e \in kept' : e.at \notin own1'[b].at
    <3>1. b # a /\ own1'[b] = own1[b]
      BY <1>6, <2>2
    <3>2. t \notin own1[b].at
      BY <1>1, <1>2, <2>2, <3>1 DEF FlowSound, TimesAreUnique
    <3> QED
      BY <1>3, <1>4, <2>2, <3>1, <3>2 DEF FlowSound, TimesAreUnique
  <2>3. ASSUME NEW b \in Agent, NEW c \in Agent,
               own1'[b].state = "open", own1'[c].state = "open",
               own1'[b].at \intersect own1'[c].at # {}
        PROVE  b = c
    BY <1>6, <2>3 DEF FlowSound, TimesAreUnique
  <2> QED
    BY <2>1, <2>2, <2>3 DEF TimesAreUnique
<1>9. CausesAreOrdered'
  BY <1>2, <1>3, <1>4 DEF FlowSound, CausesAreOrdered
<1> QED
  BY <1>7, <1>8, <1>9 DEF FlowSound

(* A step of the viewer is one of the session page, or none of it. *)
LEMMA FlowStep ==
  ASSUME Shows("flow"), [Next]_vars
  PROVE  page' = page /\ (Flow!FlowNext \/ UNCHANGED Flow!flowVars)
  BY DEF Shows, Next, vars, shared, Flow!flowVars

(* Every step of the client keeps the invariant. *)
LEMMA FlowNextSound ==
  ASSUME FlowSound, Flow!FlowNext \/ UNCHANGED Flow!flowVars
  PROVE  FlowSound'
<1>1. CASE UNCHANGED Flow!flowVars
  BY <1>1 DEF Flow!flowVars, FlowSound, Flow!TurnFlowTypeOK, TimesAreUnique, CausesAreOrdered
<1>2. CASE Flow!FlowNext
  BY <1>2, FlowInstants, FlowRecordSound, FlowBeginSound, FlowFinishSound DEF Flow!FlowNext
<1> QED
  BY <1>1, <1>2

(* What the viewer keeps while it shows the flow of a session. *)
LEMMA FlowKept == Spec => [](Shows("flow") => FlowSound)
<1>1. Init => (Shows("flow") => FlowSound)
  BY FlowSoundInit DEF Init, Shows
<1>2. (Shows("flow") => FlowSound) /\ [Next]_vars => (Shows("flow") => FlowSound)'
  <2> SUFFICES ASSUME Shows("flow") => FlowSound, [Next]_vars, Shows("flow")'
               PROVE  FlowSound'
    OBVIOUS
  <2>1. Shows("flow") /\ FlowSound
    BY DEF Next, vars, Shows
  <2> QED
    BY <2>1, FlowStep, FlowNextSound
<1> QED
  BY <1>1, <1>2, PTL DEF Spec
------------------------------------------------------------------------------
(* The requests of a turn have times. *)
LEMMA RequestTimes ==
  ASSUME FlowSound, NEW S \in SUBSET kept
  PROVE  /\ Flow!Times(Flow!Is("completion", S)) \subseteq Flow!Requests
         /\ Flow!Requests \subseteq Instant /\ Flow!Prompts \subseteq Instant
  BY FlowTypes DEF Flow!Times, Flow!Is, Flow!Requests, Flow!Prompts

(* A turn is a part of the log. *)
LEMMA TurnsAreOfTheLog == \A e : Flow!TurnOf(e) \in SUBSET kept
  BY DEF Flow!TurnOf

(* Two events with no prompt between them are in one turn. *)
LEMMA SameTurn ==
  ASSUME NEW e, NEW f \in kept,
         \A t \in Flow!Prompts : Flow!NotAfter(t, e.at) <=> Flow!NotAfter(t, f.at)
  PROVE  f \in Flow!TurnOf(e)
<1>1. {t \in Flow!Prompts : Flow!NotAfter(t, e.at)}
        = {t \in Flow!Prompts : Flow!NotAfter(t, f.at)}
  OBVIOUS
<1> QED
  BY <1>1 DEF Flow!TurnOf, Flow!TurnIndex

(* The time of an event is that of no event of another kind. *)
LEMMA KindsApart ==
  ASSUME FlowSound, NEW e \in kept
  PROVE  /\ e.at \in Flow!Prompts => e.kind = "prompt"
         /\ e.at \in Flow!Requests => e.kind = "completion"
  BY FlowTypes DEF Flow!Prompts, Flow!Requests, Flow!Times, Flow!Is

(* The request that called for a tool is the last one before the hook, in  *)
(* its turn and in the log.                                                *)
LEMMA ToolIsExact ==
  ASSUME FlowSound, NEW e \in kept, e.kind = "tool", NEW c \in e.cause, c \in Flow!Requests,
         ~Flow!Between(c, e.at), ~Flow!Swapped(c, e.at)
  PROVE  Flow!HttpRef(e) = e.cause /\ Flow!RequestBeforeHook(e) = e.cause
<1>1. PICK d \in kept : d.kind = "completion" /\ d.at = c
  BY DEF Flow!Requests, Flow!Times, Flow!Is
<1>2. /\ c \in Instant /\ e.at \in Instant /\ <<c, e.at>> \in Flow!TimeOrder
      /\ Flow!Requests \subseteq Instant /\ Flow!Prompts \subseteq Instant
  BY <1>1, FlowTypes, RequestTimes DEF FlowSound, CausesAreOrdered
<1>3. e.cause = {c}
  BY FlowTypes, MaybeOne
<1>4. ASSUME NEW t \in Flow!Requests, Flow!NotAfter(t, e.at) PROVE Flow!NotAfter(t, c)
  <2>1. t # e.at
    BY <1>4, KindsApart
  <2>2. CASE t = c
    BY <2>2 DEF Flow!NotAfter
  <2>3. CASE t # c
    BY <1>2, <1>4, <2>1, <2>3, NothingBetween
  <2> QED
    BY <2>2, <2>3
<1>5. ASSUME NEW t \in Flow!Prompts PROVE Flow!NotAfter(t, e.at) <=> Flow!NotAfter(t, c)
  <2>1. t # e.at /\ t # c
    BY <1>1, KindsApart
  <2> QED
    BY <1>2, <2>1, NothingBetween
<1>6. Flow!NotAfter(c, e.at)
  BY <1>2, LaterSortsBehind DEF Flow!Swapped
<1>7. ASSUME NEW S \in SUBSET kept, d \in S PROVE Flow!Last(Flow!UpTo(e.at, S)) = {c}
  <2> DEFINE U == Flow!UpTo(e.at, S)
  <2>1. c \in U
    BY <1>1, <1>6, <1>7 DEF Flow!UpTo, Flow!Times, Flow!Is
  <2>2. \A t \in U : t \in Flow!Requests /\ Flow!NotAfter(t, c)
    BY <1>4, <1>7, RequestTimes DEF Flow!UpTo
  <2> HIDE DEF U
  <2>3. \A t \in U : Flow!NotAfter(c, t) => t = c
    BY <1>2, <2>2, NotAfterIsOrder
  <2>4. Flow!Last(U) = {c}
    BY <2>1, <2>2, <2>3 DEF Flow!Last
  <2> QED
    BY <2>4 DEF U
<1>8. d \in Flow!TurnOf(e)
  BY <1>1, <1>5, SameTurn
<1> QED
  BY <1>3, <1>7, <1>8, TurnsAreOfTheLog DEF Flow!HttpRef, Flow!RequestBeforeHook

(* The request that a prompt triggered is the first one after it. *)
LEMMA PromptIsExact ==
  ASSUME FlowSound, NEW e \in kept, e.kind = "prompt", NEW c \in e.cause, c \in Flow!Requests,
         ~Flow!Between(e.at, c), ~Flow!Swapped(e.at, c)
  PROVE  Flow!HttpRef(e) = e.cause
<1>1. PICK d \in kept : d.kind = "completion" /\ d.at = c
  BY DEF Flow!Requests, Flow!Times, Flow!Is
<1>2. /\ c \in Instant /\ e.at \in Instant /\ <<e.at, c>> \in Flow!TimeOrder
      /\ Flow!Requests \subseteq Instant /\ Flow!Prompts \subseteq Instant
  BY <1>1, FlowTypes, RequestTimes DEF FlowSound, CausesAreOrdered
<1>3. e.cause = {c}
  BY FlowTypes, MaybeOne
<1>4. ASSUME NEW t \in Flow!Requests, Flow!NotAfter(e.at, t) PROVE Flow!NotAfter(c, t)
  <2>1. t # e.at
    BY <1>4, KindsApart
  <2>2. CASE t = c
    BY <2>2 DEF Flow!NotAfter
  <2>3. CASE t # c
    BY <1>2, <1>4, <2>1, <2>3, NothingBetween
  <2> QED
    BY <2>2, <2>3
<1>5. Flow!NotAfter(e.at, c)
  BY <1>2, LaterSortsBehind DEF Flow!Swapped
<1>6. ASSUME NEW t \in Flow!Prompts PROVE Flow!NotAfter(t, e.at) <=> Flow!NotAfter(t, c)
  <2>1. t # c
    BY <1>1, KindsApart
  <2>2. CASE t = e.at
    BY <1>5, <2>2 DEF Flow!NotAfter
  <2>3. CASE t # e.at
    BY <1>2, <2>1, <2>3, NothingBetween
  <2> QED
    BY <2>2, <2>3
<1>7. d \in Flow!TurnOf(e) /\ Flow!TurnOf(e) \in SUBSET kept
  BY <1>1, <1>6, SameTurn, TurnsAreOfTheLog
<1> DEFINE U == Flow!From(e.at, Flow!TurnOf(e))
<1>8. c \in U
  BY <1>1, <1>5, <1>7 DEF Flow!From, Flow!Times, Flow!Is
<1>9. \A t \in U : t \in Flow!Requests /\ Flow!NotAfter(c, t)
  BY <1>4, <1>7, RequestTimes DEF Flow!From
<1> HIDE DEF U
<1>10. \A t \in U : Flow!NotAfter(t, c) => t = c
  BY <1>2, <1>9, NotAfterIsOrder
<1>11. Flow!First(U) = {c}
  BY <1>8, <1>9, <1>10 DEF Flow!First
<1> QED
  BY <1>3, <1>11 DEF U, Flow!HttpRef

(* The flow graph shows a hook under the wrong request only if the agent   *)
(* did two things at once, or a fraction of a second is cut.               *)
THEOREM ExactUnlessOverlapOrCut == Spec => []OnlyOverlapOrCutMisleads
<1>1. (Shows("flow") => FlowSound) => OnlyOverlapOrCutMisleads
  <2> SUFFICES ASSUME FlowSound, NEW e \in kept, Flow!Known(e), Flow!Misled(e), NEW c \in e.cause
               PROVE  IF e.kind = "tool"
                      THEN Flow!Between(c, e.at) \/ Flow!Swapped(c, e.at)
                      ELSE Flow!Between(e.at, c) \/ Flow!Swapped(e.at, c)
    BY DEF OnlyOverlapOrCutMisleads, Flow!OnlyOverlapOrCutMisleads
  <2>1. c \in Flow!Requests
    BY DEF Flow!Known
  <2>2. CASE e.kind = "tool"
    BY <2>1, <2>2, ToolIsExact DEF Flow!Misled
  <2>3. CASE e.kind # "tool"
    <3>1. e.kind = "prompt"
      BY <2>3 DEF FlowSound, CausesAreOrdered
    <3> QED
      BY <2>1, <3>1, PromptIsExact DEF Flow!Misled
  <2> QED
    BY <2>2, <2>3
<1> QED
  BY <1>1, FlowKept, PTL
------------------------------------------------------------------------------
(* What is recorded stays, at its time; a prompt that is new is the latest *)
(* event.                                                                  *)
LEMMA LogGrows ==
  ASSUME FlowSound, Flow!FlowNext
  PROVE  /\ \A e \in kept : \E f \in kept' : f.at = e.at /\ f.kind = e.kind
         /\ Flow!Prompts \subseteq Flow!Prompts'
         /\ \A t \in Flow!Prompts' \ Flow!Prompts : t \in Instant /\ Flow!Tick(t)
<1> DEFINE Grows ==
             /\ \A e \in kept : \E f \in kept' : f.at = e.at /\ f.kind = e.kind
             /\ Flow!Prompts \subseteq Flow!Prompts'
             /\ \A t \in Flow!Prompts' \ Flow!Prompts : t \in Instant /\ Flow!Tick(t)
<1>1. ASSUME NEW t \in Instant, NEW kind \in Flow!Kinds, NEW cause \in Flow!Maybe,
             kept' = kept \union {Flow!Record(t, kind, cause)}, kind = "prompt" => Flow!Tick(t)
      PROVE  Grows
  <2>1. Flow!Record(t, kind, cause).at = t /\ Flow!Record(t, kind, cause).kind = kind
    BY RecordTyped
  <2> QED
    BY <1>1, <2>1 DEF Flow!Prompts, Flow!Times, Flow!Is
<1>2. ASSUME NEW t \in Instant,
             \/ Flow!Prompt(t) \/ Flow!Aside("other", t) \/ Flow!Aside("probe", t)
             \/ \E a \in Agent : Flow!ToolHook(a, "tools", t) \/ Flow!ToolHook(a, "ready", t)
      PROVE  Grows
  <2>1. \A a \in Agent : own1[a].at \in Flow!Maybe
    BY FlowTypes
  <2>2. {} \in Flow!Maybe
    BY DEF Flow!Maybe
  <2>3. Flow!Tick(t)
    BY <1>2 DEF Flow!Prompt, Flow!Aside, Flow!ToolHook
  <2>4. \E kind \in Flow!Kinds, cause \in Flow!Maybe :
          kept' = kept \union {Flow!Record(t, kind, cause)}
    BY <1>2, <2>1, <2>2 DEF Flow!Prompt, Flow!Aside, Flow!ToolHook, Flow!Kinds
  <2> HIDE DEF Grows
  <2> QED
    BY <1>1, <2>3, <2>4
<1>3. ASSUME NEW a \in Agent, Flow!Finish(a, "tools") \/ Flow!Finish(a, "idle")
      PROVE  Grows
  <2>1. \E t \in Instant : kept' = kept \union {Flow!Record(t, "completion", {})}
    BY <1>3, FinishRecords
  <2>2. "completion" \in Flow!Kinds /\ {} \in Flow!Maybe
    BY DEF Flow!Kinds, Flow!Maybe
  <2> HIDE DEF Grows
  <2> QED
    BY <1>1, <2>1, <2>2
<1>4. ASSUME NEW t \in Instant, NEW a \in Agent, Flow!Begin(a, t)
      PROVE  Grows
  <2>1. CASE kept' = kept
    BY <2>1 DEF Flow!Prompts, Flow!Times, Flow!Is
  <2>2. CASE kept' = {Told(e, t) : e \in kept}
    <3>1. \A e \in kept : Told(e, t).at = e.at /\ Told(e, t).kind = e.kind
      BY ToldTyped
    <3>2. Flow!Prompts' = Flow!Prompts
      BY <2>2, <3>1 DEF Flow!Prompts, Flow!Times, Flow!Is
    <3> QED
      BY <2>2, <3>1, <3>2
  <2> QED
    BY <1>4, <2>1, <2>2, BeginKeeps
<1>5. Grows
  <2> HIDE DEF Grows
  <2> QED
    BY <1>2, <1>3, <1>4, FlowInstants DEF Flow!FlowNext
<1> QED
  BY <1>5

(* A prompt that is new opens a turn behind what is recorded, unless a     *)
(* fraction is cut.                                                        *)
LEMMA TurnsKeep ==
  ASSUME FlowSound, Flow!FlowNext, NEW e \in kept, NEW f \in kept', f.at = e.at,
         \A p \in Flow!Prompts' : ~Flow!Cut(e.at, p)
  PROVE  Flow!TurnIndex(f)' = Flow!TurnIndex(e)
<1>1. ASSUME NEW t \in Flow!Prompts' \ Flow!Prompts PROVE ~Flow!NotAfter(t, e.at)
  <2>1. t \in Instant /\ Flow!Tick(t)
    BY LogGrows
  <2>2. <<e.at, t>> \in Flow!TimeOrder /\ e.at \in Instant
    BY <2>1, TickIsLatest, FlowTypes
  <2> QED
    BY <2>1, <2>2, LaterSortsBehind
<1>2. {t \in Flow!Prompts' : Flow!NotAfter(t, e.at)}
        = {t \in Flow!Prompts : Flow!NotAfter(t, e.at)}
  BY <1>1, LogGrows
<1> QED
  BY <1>2 DEF Flow!TurnIndex, Flow!NotAfter

(* So a turn keeps its requests. *)
LEMMA RequestsKeep ==
  ASSUME FlowSound, Flow!FlowNext, NEW e \in kept, NEW f \in kept', f.at = e.at,
         NEW t \in Flow!Times(Flow!Is("completion", Flow!TurnOf(e))),
         \A p \in Flow!Prompts' : ~Flow!Cut(e.at, p) /\ ~Flow!Cut(t, p)
  PROVE  t \in Flow!Times(Flow!Is("completion", Flow!TurnOf(f)))'
<1>1. PICK d \in kept : d.at = t /\ d.kind = "completion" /\ Flow!TurnIndex(d) = Flow!TurnIndex(e)
  BY DEF Flow!Times, Flow!Is, Flow!TurnOf
<1>2. PICK g \in kept' : g.at = d.at /\ g.kind = d.kind
  BY LogGrows
<1>3. Flow!TurnIndex(g)' = Flow!TurnIndex(f)'
  BY <1>1, <1>2, TurnsKeep
<1> QED
  BY <1>1, <1>2, <1>3 DEF Flow!Times, Flow!Is, Flow!TurnOf

(* Of some requests one is the last, and one the first. *)
LEMMA LastAndFirst ==
  ASSUME NEW U, U \subseteq Instant, IsFiniteSet(U), U # {}
  PROVE  /\ \E u \in Flow!Last(U) : \A v \in U : Flow!NotAfter(v, u)
         /\ \E u \in Flow!First(U) : \A v \in U : Flow!NotAfter(u, v)
<1>1. \E u \in U : \A v \in U : Flow!NotAfter(v, u)
  BY TextEnds, FlowOrders DEF Flow!NotAfter
<1>2. \E u \in U : \A v \in U : Flow!NotAfter(u, v)
  BY TextEnds, FlowOrders DEF Flow!NotAfter
<1> QED
  BY <1>1, <1>2 DEF Flow!Last, Flow!First

(* As requests end late, references move one way only. *)
THEOREM ReferencesConverge == Spec => RefsOnlyConverge
<1>1. /\ Shows("flow") => FlowSound
      /\ (Shows("flow") => FlowSound)'
      /\ [Next]_vars
      => [Shows("flow") => Flow!RefsOnlyConverge]_vars
  <2> SUFFICES ASSUME Shows("flow"), FlowSound, FlowSound', Next
               PROVE  Flow!RefsOnlyConverge
    BY FlowStep DEF Shows, vars
  <2> SUFFICES ASSUME NEW e \in kept, NEW t \in Flow!HttpRef(e),
                      \A p \in Flow!Prompts' : ~Flow!Cut(e.at, p) /\ ~Flow!Cut(t, p)
               PROVE  \E u \in Flow!RefAt(e.at)' :
                        IF e.kind = "tool" THEN Flow!NotAfter(t, u) ELSE Flow!NotAfter(u, t)
    BY DEF Flow!RefsOnlyConverge
  <2>0. Flow!FlowNext
    BY DEF Next, Shows
  <2>1. PICK f \in kept' : f.at = e.at /\ f.kind = e.kind
    BY <2>0, LogGrows
  <2>2. Flow!RefAt(e.at)' = Flow!HttpRef(f)'
    <3>1. (CHOOSE g \in kept' : g.at = e.at) = f
      BY <2>1, FlowTypes
    <3> QED
      BY <3>1 DEF Flow!RefAt
  <2> DEFINE C == Flow!Times(Flow!Is("completion", Flow!TurnOf(f)))'
             W == Flow!UpTo(f.at, Flow!TurnOf(f))'
             X == Flow!From(f.at, Flow!TurnOf(f))'
  <2>3. W = {u \in C : Flow!NotAfter(u, e.at)} /\ X = {u \in C : Flow!NotAfter(e.at, u)}
    BY <2>1 DEF Flow!UpTo, Flow!From, Flow!NotAfter
  <2>4. \A U : U \subseteq C /\ U # {} =>
          /\ \E u \in Flow!Last(U) : \A v \in U : Flow!NotAfter(v, u)
          /\ \E u \in Flow!First(U) : \A v \in U : Flow!NotAfter(u, v)
    <3>1. C = {g.at : g \in {h \in Flow!TurnOf(f)' : h.kind = "completion"}}
      BY DEF Flow!Times, Flow!Is
    <3>2. Flow!TurnOf(f)' \in SUBSET kept'
      BY DEF Flow!TurnOf
    <3>3. C \subseteq Instant /\ IsFiniteSet(C)
      <4>1. \A g \in kept' : g.at \in Instant
        BY FlowInstants DEF FlowSound, Flow!TurnFlowTypeOK, Flow!Events
      <4>2. IsFiniteSet({g.at : g \in kept'})
        <5>1. IsFiniteSet(kept')
          BY DEF FlowSound, TimesAreUnique
        <5> DEFINE h == [g \in kept' |-> g.at]
        <5>2. IsFiniteSet({h[g] : g \in kept'})
          BY <5>1, ImageIsFinite
        <5> QED
          BY <5>2
      <4>3. C \subseteq {g.at : g \in kept'}
        BY <3>1, <3>2
      <4> QED
        BY <4>1, <4>2, <4>3, FS_Subset
    <3> HIDE DEF C
    <3> TAKE U
    <3>4. U \subseteq C /\ U # {} => U \subseteq Instant /\ IsFiniteSet(U)
      BY <3>3, FS_Subset
    <3> QED
      BY <3>4, LastAndFirst
  <2>5. t \in Flow!Times(Flow!Is("completion", Flow!TurnOf(e))) => t \in C
    BY <2>0, <2>1, RequestsKeep
  <2>6. CASE e.kind = "tool"
    <3>1. t \in Flow!Last(Flow!UpTo(e.at, Flow!TurnOf(e))) /\ Flow!HttpRef(f)' = Flow!Last(W)
      BY <2>1, <2>6 DEF Flow!HttpRef, Flow!Last, Flow!UpTo, Flow!NotAfter
    <3>2. t \in W
      BY <2>3, <2>5, <3>1 DEF Flow!Last, Flow!UpTo
    <3>3. W \subseteq C
      BY <2>3
    <3> HIDE DEF C, W
    <3> QED
      BY <2>2, <2>4, <2>6, <3>1, <3>2, <3>3
  <2>7. CASE e.kind # "tool"
    <3>1. e.kind = "prompt"
      BY <2>7 DEF Flow!HttpRef
    <3>2. t \in Flow!First(Flow!From(e.at, Flow!TurnOf(e))) /\ Flow!HttpRef(f)' = Flow!First(X)
      BY <2>1, <3>1 DEF Flow!HttpRef, Flow!First, Flow!From, Flow!NotAfter
    <3>3. t \in X
      BY <2>3, <2>5, <3>2 DEF Flow!First, Flow!From
    <3>4. X \subseteq C
      BY <2>3
    <3> HIDE DEF C, X
    <3> QED
      BY <2>2, <2>4, <2>7, <3>2, <3>3, <3>4
  <2> QED
    BY <2>6, <2>7
<1> QED
  BY <1>1, FlowKept, PTL DEF Spec, RefsOnlyConverge
------------------------------------------------------------------------------
(* The request tab: its rounds.  The fold that groups messages, the filter *)
(* and the library's FlattenSeq are recursive functions; each is shown to  *)
(* exist, and to go on from a message to the next, by the least-number     *)
(* principle.                                                              *)

(* The least of a set of numbers is found from above as well as from       *)
(* below.                                                                  *)
LEMMA MaxIsOne ==
  ASSUME NEW w \in Nat, NEW S, S \subseteq 1..w, S # {}
  PROVE  Fold!Max(S) \in S /\ \A y \in S : Fold!Max(S) >= y
<1> DEFINE T == {w - x : x \in S}
<1>1. T \subseteq Nat /\ T # {}
  <2>1. ASSUME NEW x \in S PROVE w - x \in Nat
    <3>1. x \in 1..w
      OBVIOUS
    <3> QED
      BY <3>1
  <2> QED
    BY <2>1
<1>2. PICK y \in T : \A z \in T : y <= z
  <2> HIDE DEF T
  <2> QED
    BY <1>1, LeastOf
<1>3. PICK x \in S : y = w - x
  BY <1>2
<1>4. ASSUME NEW z \in S PROVE x >= z
  <2>1. y <= w - z
    BY <1>2
  <2> QED
    BY <1>3, <2>1
<1> QED
  BY <1>4 DEF Fold!Max

(* What is left without the greatest is below it. *)
LEMMA RestIsBelow ==
  ASSUME NEW k \in Nat, NEW s \in SUBSET (1..k), s # {}
  PROVE  s \ {Fold!Max(s)} \in SUBSET (1..(k-1))
<1> DEFINE x == Fold!Max(s)
<1>1. x \in s /\ \A y \in s : x >= y
  BY MaxIsOne
<1> HIDE DEF x
<1>2. ASSUME NEW y \in s, y # x PROVE y \in 1..(k-1)
  <2>1. x \in 1..k /\ y \in 1..k /\ x >= y
    BY <1>1
  <2> QED
    BY <1>2, <2>1
<1>3. s \ {x} \in SUBSET (1..(k-1))
  BY <1>2
<1> QED
  BY <1>3 DEF x

LEMMA MaxOfInterval ==
  ASSUME NEW w \in Nat, w # 0
  PROVE  Fold!Max(1..w) = w
<1>1. Fold!Max(1..w) \in 1..w /\ \A y \in 1..w : Fold!Max(1..w) >= y
  BY MaxIsOne, 1 \in 1..w
<1> QED
  BY <1>1

(* What a fold computes for a set of positions, it computes from the set   *)
(* without the last of them.                                               *)
RoundsBelow(ms, w, g) ==
    g = [s \in SUBSET (1..w) |->
           IF s = {} THEN <<>>
           ELSE Fold!AddToRounds(g[s \ {Fold!Max(s)}], ms[Fold!Max(s)])]

(* Such a fold exists for sequences of any length.                         *)
LEMMA RoundsBelowExist ==
  ASSUME NEW ms, NEW w \in Nat
  PROVE  \E g : RoundsBelow(ms, w, g)
<1> DEFINE Bad == {k \in Nat : ~ \E g : RoundsBelow(ms, k, g)}
<1> SUFFICES ASSUME Bad # {} PROVE FALSE
  OBVIOUS
<1>1. PICK k \in Bad : \A v \in Bad : k <= v
  <2>1. Bad \subseteq Nat
    OBVIOUS
  <2> HIDE DEF Bad
  <2> QED
    BY <2>1, LeastOf
<1>2. CASE k = 0
  <2> DEFINE g == [s \in SUBSET (1..0) |-> <<>>]
  <2>1. \A s \in SUBSET (1..0) : s = {}
    OBVIOUS
  <2>2. RoundsBelow(ms, 0, g)
    BY <2>1, Zenon DEF RoundsBelow
  <2> QED
    BY <1>2, <2>2
<1>3. CASE k # 0
  <2>1. k - 1 \in Nat /\ k - 1 \notin Bad
    BY <1>1, <1>3
  <2>2. PICK g : RoundsBelow(ms, k - 1, g)
    BY <2>1
  <2> DEFINE h == [s \in SUBSET (1..k) |->
                     IF s = {} THEN <<>>
                     ELSE Fold!AddToRounds(g[s \ {Fold!Max(s)}], ms[Fold!Max(s)])]
  <2>3. ASSUME NEW s \in SUBSET (1..k), s # {}
        PROVE  s \ {Fold!Max(s)} \in SUBSET (1..(k-1))
    BY <2>3, RestIsBelow, k \in Nat
  <2>4. \A t \in SUBSET (1..(k-1)) : t \in SUBSET (1..k)
    BY k \in Nat
  <2>5. \A t \in SUBSET (1..(k-1)) : h[t] = g[t]
    <3> TAKE t \in SUBSET (1..(k-1))
    <3>1. g[t] = IF t = {} THEN <<>>
                 ELSE Fold!AddToRounds(g[t \ {Fold!Max(t)}], ms[Fold!Max(t)])
      BY <2>2, Zenon DEF RoundsBelow
    <3> QED
      BY <2>4, <3>1, Zenon
  <2>6. \A s \in SUBSET (1..k) :
          s # {} => h[s \ {Fold!Max(s)}] = g[s \ {Fold!Max(s)}]
    BY <2>3, <2>5
  <2>7. RoundsBelow(ms, k, h)
    <3> HIDE DEF h
    <3>1. h = [s \in SUBSET (1..k) |->
                     IF s = {} THEN <<>>
                     ELSE Fold!AddToRounds(g[s \ {Fold!Max(s)}], ms[Fold!Max(s)])]
      BY DEF h
    <3>2. \A s \in SUBSET (1..k) :
            (IF s = {} THEN <<>>
               ELSE Fold!AddToRounds(g[s \ {Fold!Max(s)}], ms[Fold!Max(s)]))
            = (IF s = {} THEN <<>>
               ELSE Fold!AddToRounds(h[s \ {Fold!Max(s)}], ms[Fold!Max(s)]))
      BY <2>6, Zenon
    <3> QED
      BY <3>1, <3>2, Zenon DEF RoundsBelow
  <2> QED
    BY <1>1, <2>7
<1> QED
  BY <1>2, <1>3

(* The grouping into rounds is one. *)
LEMMA RoundsAreFold ==
  ASSUME NEW ms, NEW w \in Nat, DOMAIN ms = 1..w
  PROVE  \E g : RoundsBelow(ms, w, g) /\ Fold!GroupIntoRounds(ms) = g[1..w]
<1> DEFINE it == CHOOSE g : RoundsBelow(ms, w, g)
<1>1. RoundsBelow(ms, w, it)
  BY RoundsBelowExist
<1>2. Fold!GroupIntoRounds(ms) = it[1..w]
  BY Zenon DEF Fold!GroupIntoRounds, Fold!FoldLeft, Fold!MapThenFoldSet, RoundsBelow
<1> QED
  BY <1>1, <1>2

(* The same of the filter. *)
KeptBelow(ms, kinds, w, g) ==
    g = [s \in SUBSET (1..w) |->
           IF s = {} THEN <<>>
           ELSE Fold!KeepVisible(kinds, g[s \ {Fold!Max(s)}], ms[Fold!Max(s)])]

(* Its fold exists too, for sequences of any length.                       *)
LEMMA KeptBelowExist ==
  ASSUME NEW ms, NEW kinds, NEW w \in Nat
  PROVE  \E g : KeptBelow(ms, kinds, w, g)
<1> DEFINE Bad == {k \in Nat : ~ \E g : KeptBelow(ms, kinds, k, g)}
<1> SUFFICES ASSUME Bad # {} PROVE FALSE
  OBVIOUS
<1>1. PICK k \in Bad : \A v \in Bad : k <= v
  <2>1. Bad \subseteq Nat
    OBVIOUS
  <2> HIDE DEF Bad
  <2> QED
    BY <2>1, LeastOf
<1>2. CASE k = 0
  <2> DEFINE g == [s \in SUBSET (1..0) |-> <<>>]
  <2>1. \A s \in SUBSET (1..0) : s = {}
    OBVIOUS
  <2>2. KeptBelow(ms, kinds, 0, g)
    BY <2>1, Zenon DEF KeptBelow
  <2> QED
    BY <1>2, <2>2
<1>3. CASE k # 0
  <2>1. k - 1 \in Nat /\ k - 1 \notin Bad
    BY <1>1, <1>3
  <2>2. PICK g : KeptBelow(ms, kinds, k - 1, g)
    BY <2>1
  <2> DEFINE h == [s \in SUBSET (1..k) |->
                     IF s = {} THEN <<>>
                     ELSE Fold!KeepVisible(kinds, g[s \ {Fold!Max(s)}], ms[Fold!Max(s)])]
  <2>3. ASSUME NEW s \in SUBSET (1..k), s # {}
        PROVE  s \ {Fold!Max(s)} \in SUBSET (1..(k-1))
    BY <2>3, RestIsBelow, k \in Nat
  <2>4. \A t \in SUBSET (1..(k-1)) : t \in SUBSET (1..k)
    BY k \in Nat
  <2>5. \A t \in SUBSET (1..(k-1)) : h[t] = g[t]
    <3> TAKE t \in SUBSET (1..(k-1))
    <3>1. g[t] = IF t = {} THEN <<>>
                 ELSE Fold!KeepVisible(kinds, g[t \ {Fold!Max(t)}], ms[Fold!Max(t)])
      BY <2>2, Zenon DEF KeptBelow
    <3> QED
      BY <2>4, <3>1, Zenon
  <2>6. \A s \in SUBSET (1..k) :
          s # {} => h[s \ {Fold!Max(s)}] = g[s \ {Fold!Max(s)}]
    BY <2>3, <2>5
  <2>7. KeptBelow(ms, kinds, k, h)
    <3> HIDE DEF h
    <3>1. h = [s \in SUBSET (1..k) |->
                     IF s = {} THEN <<>>
                     ELSE Fold!KeepVisible(kinds, g[s \ {Fold!Max(s)}], ms[Fold!Max(s)])]
      BY DEF h
    <3>2. \A s \in SUBSET (1..k) :
            (IF s = {} THEN <<>>
               ELSE Fold!KeepVisible(kinds, g[s \ {Fold!Max(s)}], ms[Fold!Max(s)]))
            = (IF s = {} THEN <<>>
               ELSE Fold!KeepVisible(kinds, h[s \ {Fold!Max(s)}], ms[Fold!Max(s)]))
      BY <2>6, Zenon
    <3> QED
      BY <3>1, <3>2, Zenon DEF KeptBelow
  <2> QED
    BY <1>1, <2>7
<1> QED
  BY <1>2, <1>3

(* The filter is one. *)
LEMMA FilterIsFold ==
  ASSUME NEW ms, NEW kinds, NEW w \in Nat, DOMAIN ms = 1..w
  PROVE  \E g : KeptBelow(ms, kinds, w, g) /\ Fold!FilterMessages(ms, kinds) = g[1..w]
<1> DEFINE it == CHOOSE g : KeptBelow(ms, kinds, w, g)
<1>1. KeptBelow(ms, kinds, w, it)
  BY KeptBelowExist
<1>2. Fold!FilterMessages(ms, kinds) = it[1..w]
  BY Zenon DEF Fold!FilterMessages, Fold!FoldLeft, Fold!MapThenFoldSet, KeptBelow
<1> QED
  BY <1>1, <1>2

(* A fold over a longer sequence goes through those over its prefixes.     *)
LEMMA RoundsAgree ==
  ASSUME NEW ms, NEW ns, NEW w \in Nat, NEW p \in Nat, w <= p, NEW g, NEW h,
         RoundsBelow(ms, w, g), RoundsBelow(ns, p, h), \A u \in 1..w : ms[u] = ns[u]
  PROVE  g[1..w] = h[1..w]
<1> DEFINE Bad == {k \in Nat : k <= w /\ \E t \in SUBSET (1..k) : g[t] # h[t]}
<1> SUFFICES ASSUME Bad # {} PROVE FALSE
  <2>1. w \notin Bad
    OBVIOUS
  <2> QED
    BY <2>1
<1>1. PICK k \in Bad : \A v \in Bad : k <= v
  <2>1. Bad \subseteq Nat
    OBVIOUS
  <2> HIDE DEF Bad
  <2> QED
    BY <2>1, LeastOf
<1>2. PICK t \in SUBSET (1..k) : g[t] # h[t]
  BY <1>1
<1>3. k \in Nat /\ t \in SUBSET (1..w) /\ t \in SUBSET (1..p)
  BY <1>1, <1>2
<1>4. /\ g[t] = IF t = {} THEN <<>>
                ELSE Fold!AddToRounds(g[t \ {Fold!Max(t)}], ms[Fold!Max(t)])
      /\ h[t] = IF t = {} THEN <<>>
                ELSE Fold!AddToRounds(h[t \ {Fold!Max(t)}], ns[Fold!Max(t)])
  BY <1>3, Zenon DEF RoundsBelow
<1>5. t # {}
  BY <1>2, <1>4
<1>6. Fold!Max(t) \in t /\ \A y \in t : Fold!Max(t) >= y
  BY <1>3, <1>5, MaxIsOne
<1>7. ms[Fold!Max(t)] = ns[Fold!Max(t)]
  BY <1>3, <1>6
<1>8. t \ {Fold!Max(t)} \in SUBSET (1..(k-1)) /\ k - 1 \in Nat /\ k - 1 <= w
  <2>1. k \in Nat /\ k # 0 /\ k <= w
    BY <1>1, <1>3, <1>6
  <2> QED
    BY <1>3, <1>5, <2>1, RestIsBelow
<1>9. k - 1 \notin Bad
  BY <1>1, <1>8
<1>10. g[t \ {Fold!Max(t)}] = h[t \ {Fold!Max(t)}]
  BY <1>8, <1>9
<1> QED
  BY <1>2, <1>4, <1>5, <1>7, <1>10, Zenon

(* So a message is added to the rounds of those before it. *)
LEMMA RoundsGrow ==
  ASSUME NEW M, NEW ms \in Seq(M), NEW x \in M
  PROVE  Fold!GroupIntoRounds(Append(ms, x)) = Fold!AddToRounds(Fold!GroupIntoRounds(ms), x)
<1> DEFINE w == Len(ms)
           ns == Append(ms, x)
<1>1. w \in Nat /\ DOMAIN ms = 1..w /\ DOMAIN ns = 1..(w+1) /\ ns[w+1] = x
      /\ \A u \in 1..w : ms[u] = ns[u]
  OBVIOUS
<1> HIDE DEF w, ns
<1>2. PICK g : RoundsBelow(ms, w, g) /\ Fold!GroupIntoRounds(ms) = g[1..w]
  BY <1>1, RoundsAreFold
<1>3. PICK h : RoundsBelow(ns, w+1, h) /\ Fold!GroupIntoRounds(ns) = h[1..(w+1)]
  BY <1>1, RoundsAreFold, w + 1 \in Nat
<1>4. g[1..w] = h[1..w]
  BY <1>1, <1>2, <1>3, RoundsAgree, w + 1 \in Nat, w <= w + 1
<1>5. Fold!Max(1..(w+1)) = w + 1 /\ (1..(w+1)) \ {w+1} = 1..w /\ 1..(w+1) # {}
  BY <1>1, MaxOfInterval
<1>6. h[1..(w+1)] = IF 1..(w+1) = {} THEN <<>>
        ELSE Fold!AddToRounds(h[(1..(w+1)) \ {Fold!Max(1..(w+1))}], ns[Fold!Max(1..(w+1))])
  BY <1>3, Zenon DEF RoundsBelow
<1>7. Fold!GroupIntoRounds(ns) = Fold!AddToRounds(Fold!GroupIntoRounds(ms), x)
  BY <1>1, <1>2, <1>3, <1>4, <1>5, <1>6, Zenon
<1> QED
  BY <1>7 DEF ns

(* No messages make no rounds. *)
LEMMA NoRounds == Fold!GroupIntoRounds(<<>>) = <<>>
<1>1. DOMAIN <<>> = 1..0
  OBVIOUS
<1>2. PICK g : RoundsBelow(<<>>, 0, g) /\ Fold!GroupIntoRounds(<<>>) = g[1..0]
  BY <1>1, RoundsAreFold
<1>3. 1..0 = {}
  OBVIOUS
<1>4. g[{}] = <<>>
  BY <1>2, Zenon DEF RoundsBelow
<1> QED
  BY <1>2, <1>3, <1>4

(* The filter of a longer sequence goes through those of its prefixes.     *)
LEMMA FiltersAgree ==
  ASSUME NEW ms, NEW ns, NEW kinds, NEW w \in Nat, NEW p \in Nat, w <= p, NEW g, NEW h,
         KeptBelow(ms, kinds, w, g), KeptBelow(ns, kinds, p, h), \A u \in 1..w : ms[u] = ns[u]
  PROVE  g[1..w] = h[1..w]
<1> DEFINE Bad == {k \in Nat : k <= w /\ \E t \in SUBSET (1..k) : g[t] # h[t]}
<1> SUFFICES ASSUME Bad # {} PROVE FALSE
  <2>1. w \notin Bad
    OBVIOUS
  <2> QED
    BY <2>1
<1>1. PICK k \in Bad : \A v \in Bad : k <= v
  <2>1. Bad \subseteq Nat
    OBVIOUS
  <2> HIDE DEF Bad
  <2> QED
    BY <2>1, LeastOf
<1>2. PICK t \in SUBSET (1..k) : g[t] # h[t]
  BY <1>1
<1>3. k \in Nat /\ t \in SUBSET (1..w) /\ t \in SUBSET (1..p)
  BY <1>1, <1>2
<1>4. /\ g[t] = IF t = {} THEN <<>>
                ELSE Fold!KeepVisible(kinds, g[t \ {Fold!Max(t)}], ms[Fold!Max(t)])
      /\ h[t] = IF t = {} THEN <<>>
                ELSE Fold!KeepVisible(kinds, h[t \ {Fold!Max(t)}], ns[Fold!Max(t)])
  BY <1>3, Zenon DEF KeptBelow
<1>5. t # {}
  BY <1>2, <1>4
<1>6. Fold!Max(t) \in t /\ \A y \in t : Fold!Max(t) >= y
  BY <1>3, <1>5, MaxIsOne
<1>7. ms[Fold!Max(t)] = ns[Fold!Max(t)]
  BY <1>3, <1>6
<1>8. t \ {Fold!Max(t)} \in SUBSET (1..(k-1)) /\ k - 1 \in Nat /\ k - 1 <= w
  <2>1. k \in Nat /\ k # 0 /\ k <= w
    BY <1>1, <1>3, <1>6
  <2> QED
    BY <1>3, <1>5, <2>1, RestIsBelow
<1>9. k - 1 \notin Bad
  BY <1>1, <1>8
<1>10. g[t \ {Fold!Max(t)}] = h[t \ {Fold!Max(t)}]
  BY <1>8, <1>9
<1> QED
  BY <1>2, <1>4, <1>5, <1>7, <1>10, Zenon

(* So a message is added to what the filter left of those before it. *)
LEMMA FilterGrows ==
  ASSUME NEW kinds, NEW M, NEW ms \in Seq(M), NEW x \in M
  PROVE  Fold!FilterMessages(Append(ms, x), kinds) = Fold!KeepVisible(kinds, Fold!FilterMessages(ms, kinds), x)
<1> DEFINE w == Len(ms)
           ns == Append(ms, x)
<1>1. w \in Nat /\ DOMAIN ms = 1..w /\ DOMAIN ns = 1..(w+1) /\ ns[w+1] = x
      /\ \A u \in 1..w : ms[u] = ns[u]
  OBVIOUS
<1> HIDE DEF w, ns
<1>2. PICK g : KeptBelow(ms, kinds, w, g) /\ Fold!FilterMessages(ms, kinds) = g[1..w]
  BY <1>1, FilterIsFold
<1>3. PICK h : KeptBelow(ns, kinds, w+1, h) /\ Fold!FilterMessages(ns, kinds) = h[1..(w+1)]
  BY <1>1, FilterIsFold, w + 1 \in Nat
<1>4. g[1..w] = h[1..w]
  BY <1>1, <1>2, <1>3, FiltersAgree, w + 1 \in Nat, w <= w + 1
<1>5. Fold!Max(1..(w+1)) = w + 1 /\ (1..(w+1)) \ {w+1} = 1..w /\ 1..(w+1) # {}
  BY <1>1, MaxOfInterval
<1>6. h[1..(w+1)] = IF 1..(w+1) = {} THEN <<>>
        ELSE Fold!KeepVisible(kinds, h[(1..(w+1)) \ {Fold!Max(1..(w+1))}], ns[Fold!Max(1..(w+1))])
  BY <1>3, Zenon DEF KeptBelow
<1>7. Fold!FilterMessages(ns, kinds) = Fold!KeepVisible(kinds, Fold!FilterMessages(ms, kinds), x)
  BY <1>1, <1>2, <1>3, <1>4, <1>5, <1>6, Zenon
<1> QED
  BY <1>7 DEF ns

(* Of no messages none are left. *)
LEMMA NoneKept ==
  ASSUME NEW kinds
  PROVE  Fold!FilterMessages(<<>>, kinds) = <<>>
<1>1. DOMAIN <<>> = 1..0
  OBVIOUS
<1>2. PICK g : KeptBelow(<<>>, kinds, 0, g) /\ Fold!FilterMessages(<<>>, kinds) = g[1..0]
  BY <1>1, FilterIsFold
<1>3. 1..0 = {}
  OBVIOUS
<1>4. g[{}] = <<>>
  BY <1>2, Zenon DEF KeptBelow
<1> QED
  BY <1>2, <1>3, <1>4

(* What several sequences make in a row, one by one. *)
FlatBelow(ss, w, f) ==
    f = [u \in 1..w |-> IF u = 1 THEN ss[u] ELSE f[u-1] \o ss[u]]

(* They make one, however many they are. *)
LEMMA FlatBelowExist ==
  ASSUME NEW ss, NEW w \in Nat
  PROVE  \E f : FlatBelow(ss, w, f)
<1> DEFINE Bad == {k \in Nat : ~ \E f : FlatBelow(ss, k, f)}
<1> SUFFICES ASSUME Bad # {} PROVE FALSE
  OBVIOUS
<1>1. PICK k \in Bad : \A v \in Bad : k <= v
  <2>1. Bad \subseteq Nat
    OBVIOUS
  <2> HIDE DEF Bad
  <2> QED
    BY <2>1, LeastOf
<1>2. CASE k = 0
  <2> DEFINE f == [u \in 1..0 |-> ss[u]]
  <2>1. \A u \in 1..0 : FALSE
    OBVIOUS
  <2>2. FlatBelow(ss, 0, f)
    BY <2>1, Zenon DEF FlatBelow
  <2> QED
    BY <1>2, <2>2
<1>3. CASE k # 0
  <2>1. k \in Nat /\ k - 1 \in Nat /\ k - 1 \notin Bad
    BY <1>1, <1>3
  <2>2. PICK g : FlatBelow(ss, k - 1, g)
    BY <2>1
  <2> DEFINE h == [u \in 1..k |-> IF u = 1 THEN ss[u] ELSE g[u-1] \o ss[u]]
  <2>3. \A u \in 1..(k-1) : u \in 1..k /\ g[u] = IF u = 1 THEN ss[u] ELSE g[u-1] \o ss[u]
    <3> TAKE u \in 1..(k-1)
    <3>1. u \in 1..k
      BY <2>1
    <3>2. g[u] = IF u = 1 THEN ss[u] ELSE g[u-1] \o ss[u]
      BY <2>2, Zenon DEF FlatBelow
    <3> QED
      BY <3>1, <3>2
  <2>4. \A u \in 1..(k-1) : h[u] = g[u]
    BY <2>3, Zenon
  <2>5. \A u \in 1..k : u # 1 => u - 1 \in 1..(k-1)
    BY <2>1
  <2>6. \A u \in 1..k : (IF u = 1 THEN ss[u] ELSE g[u-1] \o ss[u])
                        = (IF u = 1 THEN ss[u] ELSE h[u-1] \o ss[u])
    <3> HIDE DEF h
    <3> QED
      BY <2>4, <2>5, Zenon
  <2>7. h = [u \in 1..k |-> IF u = 1 THEN ss[u] ELSE g[u-1] \o ss[u]]
    OBVIOUS
  <2>8. FlatBelow(ss, k, h)
    <3> HIDE DEF h
    <3> QED
      BY <2>6, <2>7, Zenon DEF FlatBelow
  <2> QED
    BY <1>1, <2>8
<1> QED
  BY <1>2, <1>3

AlikeUpTo(w, a, b) == \A u \in 1..w : a[u] = b[u]

(* Rows that begin alike make the same at first. *)
LEMMA FlatAgree ==
  ASSUME NEW ss, NEW ts, NEW w \in Nat, NEW p \in Nat, w <= p, NEW f, NEW g,
         FlatBelow(ss, w, f), FlatBelow(ts, p, g), NEW l \in Nat, l <= w,
         AlikeUpTo(l, ss, ts)
  PROVE  AlikeUpTo(l, f, g)
<1> DEFINE Bad == {u \in 1..l : f[u] # g[u]}
<1> SUFFICES ASSUME Bad # {} PROVE FALSE
  BY DEF AlikeUpTo
<1>1. PICK k \in Bad : \A v \in Bad : k <= v
  <2>1. Bad \subseteq Nat
    OBVIOUS
  <2> HIDE DEF Bad
  <2> QED
    BY <2>1, LeastOf
<1>2. k \in 1..l /\ k \in 1..w /\ k \in 1..p /\ f[k] # g[k] /\ ss[k] = ts[k]
  BY <1>1 DEF AlikeUpTo
<1>3. /\ f[k] = IF k = 1 THEN ss[k] ELSE f[k-1] \o ss[k]
      /\ g[k] = IF k = 1 THEN ts[k] ELSE g[k-1] \o ts[k]
  BY <1>2, Zenon DEF FlatBelow
<1>4. k # 1
  BY <1>2, <1>3
<1>5. k - 1 \in 1..l /\ k - 1 \notin Bad
  BY <1>1, <1>2, <1>4
<1>6. f[k-1] = g[k-1]
  BY <1>5
<1> QED
  BY <1>2, <1>3, <1>4, <1>6, Zenon

(* Sequences of some type make sequences of that type. *)
LEMMA FlatTyped ==
  ASSUME NEW M, NEW w \in Nat, NEW ss, \A u \in 1..w : ss[u] \in Seq(M),
         NEW f, FlatBelow(ss, w, f)
  PROVE  \A u \in 1..w : f[u] \in Seq(M)
<1> DEFINE Bad == {u \in 1..w : f[u] \notin Seq(M)}
<1> SUFFICES ASSUME Bad # {} PROVE FALSE
  OBVIOUS
<1>1. PICK k \in Bad : \A v \in Bad : k <= v
  <2>1. Bad \subseteq Nat
    OBVIOUS
  <2> HIDE DEF Bad
  <2> QED
    BY <2>1, LeastOf
<1>2. k \in 1..w /\ f[k] \notin Seq(M) /\ ss[k] \in Seq(M)
  BY <1>1
<1>3. f[k] = IF k = 1 THEN ss[k] ELSE f[k-1] \o ss[k]
  BY <1>2, Zenon DEF FlatBelow
<1>4. k # 1
  BY <1>2, <1>3
<1>5. k - 1 \in 1..w /\ k - 1 \notin Bad
  BY <1>1, <1>2, <1>4
<1>6. f[k-1] \in Seq(M)
  BY <1>5
<1>7. f[k-1] \o ss[k] \in Seq(M)
  BY <1>2, <1>6
<1> QED
  BY <1>2, <1>3, <1>4, <1>7, Zenon

(* The operator of the library says the same of them. *)
LEMMA FlatIsBelow ==
  ASSUME NEW ss, NEW w \in Nat, w # 0, Len(ss) = w
  PROVE  \E f : FlatBelow(ss, w, f) /\ Fold!FlattenSeq(ss) = f[w]
<1> DEFINE it == CHOOSE f : FlatBelow(ss, w, f)
<1>1. FlatBelow(ss, w, it)
  BY FlatBelowExist
<1>2. Fold!FlattenSeq(ss) = it[w]
  BY Zenon DEF Fold!FlattenSeq, FlatBelow
<1> QED
  BY <1>1, <1>2

(* What is before the last is put in front of it. *)
LEMMA FlatLast ==
  ASSUME NEW M, NEW ss \in Seq(Seq(M)), NEW w \in Nat, w # 0, Len(ss) = w,
         NEW f, FlatBelow(ss, w, f)
  PROVE  /\ f[w] = IF w = 1 THEN ss[w] ELSE f[w-1] \o ss[w]
         /\ w # 1 => f[w-1] \in Seq(M)
<1>1. \A u \in 1..w : f[u] \in Seq(M)
  <2>1. \A u \in 1..w : ss[u] \in Seq(M)
    OBVIOUS
  <2> QED
    BY <2>1, FlatTyped
<1>2. w \in 1..w /\ (w # 1 => w - 1 \in 1..w)
  OBVIOUS
<1>3. f[w] = IF w = 1 THEN ss[w] ELSE f[w-1] \o ss[w]
  BY <1>2, Zenon DEF FlatBelow
<1> QED
  BY <1>1, <1>2, <1>3

(* One more in the row is appended to what they make. *)
LEMMA FlatAppend ==
  ASSUME NEW M, NEW ss \in Seq(Seq(M)), NEW x \in Seq(M)
  PROVE  /\ ss = <<>> => Fold!FlattenSeq(Append(ss, x)) = x
         /\ ss # <<>> => Fold!FlattenSeq(Append(ss, x)) = Fold!FlattenSeq(ss) \o x
<1> DEFINE w == Len(ss)
           p == Len(ss) + 1
           ts == Append(ss, x)
<1>1. /\ w \in Nat /\ p \in Nat /\ p # 0 /\ w <= p /\ w <= w /\ p - 1 = w
      /\ (p = 1 <=> w = 0)
      /\ Len(ts) = p /\ ts[p] = x /\ ts \in Seq(Seq(M))
      /\ AlikeUpTo(w, ss, ts)
  BY DEF AlikeUpTo
<1>2. ss # <<>> <=> w # 0
  OBVIOUS
<1> HIDE DEF w, p, ts
<1>4. PICK g : FlatBelow(ts, p, g) /\ Fold!FlattenSeq(ts) = g[p]
  BY <1>1, FlatIsBelow
<1>5. p \in 1..p
  BY <1>1
<1>6. g[p] = IF p = 1 THEN ts[p] ELSE g[p-1] \o ts[p]
  BY <1>4, <1>5, Zenon DEF FlatBelow
<1>7. CASE w = 0
  BY <1>1, <1>2, <1>4, <1>6, <1>7 DEF ts
<1>8. CASE w # 0
  <2>1. PICK f : FlatBelow(ss, w, f) /\ Fold!FlattenSeq(ss) = f[w]
    BY <1>1, <1>8, FlatIsBelow DEF w
  <2>2. AlikeUpTo(w, f, g)
    BY <1>1, <1>4, <2>1, FlatAgree
  <2>3. f[w] = g[w]
    BY <1>1, <1>8, <2>2 DEF AlikeUpTo
  <2> QED
    BY <1>1, <1>2, <1>4, <1>6, <1>8, <2>1, <2>3, Zenon DEF ts
<1> QED
  BY <1>7, <1>8

(* One more in the last of them is one more in what they make. *)
LEMMA FlatExtend ==
  ASSUME NEW M, NEW w \in Nat, w # 0,
         NEW ss \in Seq(Seq(M)), NEW ts \in Seq(Seq(M)), Len(ss) = w, Len(ts) = w,
         NEW x \in M,
         \A u \in 1..(w-1) : ss[u] = ts[u], ts[w] = Append(ss[w], x)
  PROVE  Fold!FlattenSeq(ts) = Append(Fold!FlattenSeq(ss), x)
<1> DEFINE l == w - 1
<1>0. l \in Nat /\ l <= w /\ w <= w /\ w \in 1..w /\ ss[w] \in Seq(M) /\ (w # 1 => l \in 1..l)
      /\ AlikeUpTo(l, ss, ts)
  BY DEF AlikeUpTo
<1> HIDE DEF l
<1>1. PICK f : FlatBelow(ss, w, f) /\ Fold!FlattenSeq(ss) = f[w]
  BY FlatIsBelow
<1>2. PICK g : FlatBelow(ts, w, g) /\ Fold!FlattenSeq(ts) = g[w]
  BY FlatIsBelow
<1>3. AlikeUpTo(l, f, g)
  BY <1>0, <1>1, <1>2, FlatAgree
<1>4. /\ f[w] = IF w = 1 THEN ss[w] ELSE f[l] \o ss[w]
      /\ w # 1 => f[l] \in Seq(M)
  BY <1>1, FlatLast DEF l
<1>5. /\ g[w] = IF w = 1 THEN ts[w] ELSE g[l] \o ts[w]
      /\ w # 1 => g[l] \in Seq(M)
  BY <1>2, FlatLast DEF l
<1>7. CASE w = 1
  BY <1>1, <1>2, <1>4, <1>5, <1>7, Zenon
<1>8. CASE w # 1
  <2>1. f[l] = g[l] /\ f[l] \in Seq(M) /\ ss[w] \in Seq(M)
    BY <1>0, <1>3, <1>4, <1>8 DEF AlikeUpTo
  <2>2. \A s, t \in Seq(M) : s \o Append(t, x) = Append(s \o t, x)
    OBVIOUS
  <2>3. f[l] \o Append(ss[w], x) = Append(f[l] \o ss[w], x)
    BY <2>1, <2>2
  <2> QED
    BY <1>1, <1>2, <1>4, <1>5, <1>8, <2>1, <2>3, Zenon
<1> QED
  BY <1>7, <1>8

(* Messages, and the rounds that are made of them. *)
Msg == [role : STRING, kinds : SUBSET Kind]
RoundOf == [index : Nat, messages : Seq(Msg)]
Texts(rs) == [r \in DOMAIN rs |-> rs[r].messages]

(* The rounds of some messages: they are cut at the questions, and only    *)
(* there, and are numbered in a row.                                       *)
GoodRounds(rs, ms) ==
    /\ rs \in Seq(RoundOf)
    /\ rs = <<>> <=> ms = <<>>
    /\ Fold!FlattenSeq(Texts(rs)) = ms
    /\ \A r \in 1..Len(rs) : rs[r].messages # <<>>
    /\ \A r \in 1..Len(rs) : \A u \in 1..Len(rs[r].messages) :
         rs[r].messages[u].role = "user" <=> (u = 1 /\ rs[r].index > 0)
    /\ \A r \in 1..Len(rs) : rs[r].index = rs[1].index + r - 1

(* What is known of a round. *)
LEMMA RoundFields ==
  ASSUME NEW r \in RoundOf
  PROVE  /\ r.index \in Nat /\ r.messages \in Seq(Msg)
         /\ \A x \in Msg :
              LET q == [r EXCEPT !.messages = Append(@, x)] IN
              q \in RoundOf /\ q.index = r.index /\ q.messages = Append(r.messages, x)
<1>1. r \in [index : Nat, messages : Seq(Msg)]
  BY DEF RoundOf
<1>2. r.index \in Nat /\ r.messages \in Seq(Msg)
  BY <1>1
<1>3. ASSUME NEW x \in Msg, NEW q, q = [r EXCEPT !.messages = Append(r.messages, x)]
      PROVE  q \in RoundOf /\ q.index = r.index /\ q.messages = Append(r.messages, x)
  <2>1. Append(r.messages, x) \in Seq(Msg)
    BY <1>2
  <2> QED
    BY <1>1, <1>3, <2>1 DEF RoundOf
<1> QED
  BY <1>2, <1>3

(* What is known of several. *)
LEMMA RoundsFields ==
  ASSUME NEW rs \in Seq(RoundOf)
  PROVE  /\ \A r \in 1..Len(rs) :
              rs[r] \in RoundOf /\ rs[r].index \in Nat /\ rs[r].messages \in Seq(Msg)
         /\ Texts(rs) \in Seq(Seq(Msg)) /\ Len(Texts(rs)) = Len(rs)
         /\ \A r \in 1..Len(rs) : Texts(rs)[r] = rs[r].messages
<1>1. \A r \in 1..Len(rs) : rs[r] \in RoundOf
  OBVIOUS
<1>2. \A r \in 1..Len(rs) : rs[r].index \in Nat /\ rs[r].messages \in Seq(Msg)
  BY <1>1, RoundFields
<1>3. Texts(rs) \in [1..Len(rs) -> Seq(Msg)]
  BY <1>2 DEF Texts
<1>4. \A r \in 1..Len(rs) : Texts(rs)[r] = rs[r].messages
  BY DEF Texts
<1>5. Texts(rs) \in Seq(Seq(Msg)) /\ Len(Texts(rs)) = Len(rs)
  BY <1>3, Len(rs) \in Nat
<1> QED
  BY <1>1, <1>2, <1>4, <1>5

(* No messages have none. *)
LEMMA GoodRoundsOfNone == GoodRounds(<<>>, <<>>)
<1>1. Len(Texts(<<>>)) = 0 /\ Texts(<<>>) = <<>>
  BY DEF Texts
<1>2. Fold!FlattenSeq(Texts(<<>>)) = <<>>
  BY <1>1, Zenon DEF Fold!FlattenSeq
<1> QED
  BY <1>2 DEF GoodRounds, RoundOf

(* A message that begins a round. *)
LEMMA GoodRoundsBegin ==
  ASSUME NEW rs, NEW ms \in Seq(Msg), GoodRounds(rs, ms), NEW x \in Msg, NEW w \in Nat,
         x.role = "user" <=> w > 0,
         rs # <<>> => w = rs[Len(rs)].index + 1
  PROVE  GoodRounds(Append(rs, Fold!NewRound(w, x)), Append(ms, x))
<1> DEFINE nr == Fold!NewRound(w, x)
           qs == Append(rs, nr)
<1>1. rs \in Seq(RoundOf)
  BY DEF GoodRounds
<1>2. nr \in RoundOf /\ nr.messages = <<x>> /\ nr.index = w
  BY DEF Fold!NewRound, RoundOf
<1> HIDE DEF nr
<1>3a. Len(rs) \in Nat /\ (rs # <<>> => Len(rs) # 0)
  BY <1>1
<1>3. /\ qs \in Seq(RoundOf) /\ Len(qs) = Len(rs) + 1 /\ qs[Len(qs)] = nr /\ qs # <<>>
      /\ \A r \in 1..Len(rs) : qs[r] = rs[r]
  BY <1>1, <1>2, <1>3a, AppendProperties
<1>4. Texts(rs) \in Seq(Seq(Msg)) /\ Texts(qs) = Append(Texts(rs), <<x>>)
  <2>1. /\ Texts(rs) \in Seq(Seq(Msg)) /\ Len(Texts(rs)) = Len(rs)
        /\ \A r \in 1..Len(rs) : Texts(rs)[r] = rs[r].messages
    BY <1>1, RoundsFields
  <2>2. /\ Texts(qs) \in Seq(Seq(Msg)) /\ Len(Texts(qs)) = Len(qs)
        /\ \A r \in 1..Len(qs) : Texts(qs)[r] = qs[r].messages
    BY <1>3, RoundsFields
  <2> HIDE DEF qs
  <2>3. <<x>> \in Seq(Msg) /\ Len(rs) \in Nat
    BY <1>1
  <2> DEFINE ts == Append(Texts(rs), <<x>>)
  <2>4. /\ ts \in Seq(Seq(Msg)) /\ Len(ts) = Len(qs) /\ ts[Len(rs) + 1] = <<x>>
        /\ \A r \in 1..Len(rs) : ts[r] = Texts(rs)[r]
    BY <1>3, <2>1, <2>3, AppendProperties
  <2> HIDE DEF ts
  <2>5. \A r \in 1..Len(qs) : Texts(qs)[r] = ts[r]
    <3> TAKE r \in 1..Len(qs)
    <3>1. CASE r \in 1..Len(rs)
      BY <1>3, <2>1, <2>2, <2>4, <3>1
    <3>2. CASE r = Len(rs) + 1
      BY <1>2, <1>3, <2>2, <2>4, <3>2
    <3> QED
      BY <1>3, <2>3, <3>1, <3>2
  <2> QED
    BY <2>1, <2>2, <2>4, <2>5, SeqEqual DEF ts
<1>5. Fold!FlattenSeq(Texts(qs)) = Append(ms, x)
  <2>1. <<x>> \in Seq(Msg) /\ (Texts(rs) = <<>> <=> rs = <<>>)
    BY <1>1, <1>4, RoundsFields
  <2>2. CASE rs = <<>>
    <3>1. ms = <<>>
      BY <2>2 DEF GoodRounds
    <3>2. Fold!FlattenSeq(Texts(qs)) = <<x>>
      BY <1>4, <2>1, <2>2, FlatAppend
    <3> QED
      BY <3>1, <3>2
  <2>3. CASE rs # <<>>
    <3>1. Fold!FlattenSeq(Texts(qs)) = Fold!FlattenSeq(Texts(rs)) \o <<x>>
      BY <1>4, <2>1, <2>3, FlatAppend
    <3>2. Fold!FlattenSeq(Texts(rs)) = ms
      BY DEF GoodRounds
    <3> QED
      BY <3>1, <3>2
  <2> QED
    BY <2>2, <2>3
<1>6. \A r \in 1..Len(qs) :
        /\ qs[r].messages # <<>>
        /\ \A u \in 1..Len(qs[r].messages) :
             qs[r].messages[u].role = "user" <=> (u = 1 /\ qs[r].index > 0)
  <2> TAKE r \in 1..Len(qs)
  <2>1. CASE r \in 1..Len(rs)
    <3> HIDE DEF qs
    <3> QED
      BY <1>3, <2>1 DEF GoodRounds
  <2>2. CASE r = Len(qs)
    <3>1. \A u \in 1..Len(<<x>>) : u = 1 /\ <<x>>[u] = x
      OBVIOUS
    <3>2. qs[r].messages = <<x>> /\ qs[r].index = w
      BY <1>2, <1>3, <2>2
    <3> HIDE DEF qs
    <3> QED
      BY <3>1, <3>2
  <2> QED
    BY <1>1, <1>3, <2>1, <2>2
<1>7. \A r \in 1..Len(qs) : qs[r].index = qs[1].index + r - 1
  <2> TAKE r \in 1..Len(qs)
  <2>1. CASE r \in 1..Len(rs)
    <3>1. 1 \in 1..Len(rs)
      BY <2>1
    <3> QED
      BY <1>3, <2>1, <3>1 DEF GoodRounds
  <2>2. CASE r = Len(qs) /\ rs # <<>>
    <3>0. 1 \in 1..Len(rs) /\ Len(rs) \in 1..Len(rs)
      BY <1>3a, <2>2
    <3>1. 1 \in 1..Len(rs) /\ Len(rs) \in 1..Len(rs) /\ rs[1].index \in Nat
      BY <1>1, <3>0, RoundsFields
    <3>2. rs[Len(rs)].index = rs[1].index + Len(rs) - 1
      BY <3>1 DEF GoodRounds
    <3>3. qs[1] = rs[1] /\ qs[r].index = w /\ r = Len(rs) + 1
      BY <1>2, <1>3, <2>2, <3>0
    <3>4. w = rs[Len(rs)].index + 1
      BY <2>2
    <3> HIDE DEF qs
    <3>5. w = rs[1].index + Len(rs)
      BY <1>3a, <3>1, <3>2, <3>4
    <3> QED
      BY <1>3a, <3>1, <3>3, <3>5
  <2>3. CASE rs = <<>>
    BY <1>2, <1>3, <2>3
  <2> QED
    BY <1>1, <1>3, <2>1, <2>2, <2>3
<1>8. Append(ms, x) # <<>>
  BY AppendProperties
<1> QED
  BY <1>3, <1>5, <1>6, <1>7, <1>8 DEF GoodRounds, nr

(* A message that goes on with the last round. *)
LEMMA GoodRoundsGoOn ==
  ASSUME NEW rs, NEW ms \in Seq(Msg), GoodRounds(rs, ms), NEW x \in Msg,
         x.role # "user", rs # <<>>
  PROVE  GoodRounds(Fold!AddToRounds(rs, x), Append(ms, x))
<1> DEFINE w == Len(rs)
           qs == [rs EXCEPT ![w].messages = Append(@, x)]
<1>1. rs \in Seq(RoundOf) /\ w \in Nat /\ w # 0 /\ w \in 1..w /\ DOMAIN rs = 1..w
  BY DEF GoodRounds
<1>2. rs[w] \in RoundOf /\ rs[w].messages \in Seq(Msg) /\ rs[w].messages # <<>>
  BY <1>1, RoundsFields DEF GoodRounds
<1>3. /\ qs[w] = [rs[w] EXCEPT !.messages = Append(@, x)]
      /\ \A r \in 1..w : r # w => qs[r] = rs[r]
      /\ DOMAIN qs = 1..w
  BY <1>1
<1>4. qs[w].messages = Append(rs[w].messages, x) /\ qs[w].index = rs[w].index /\ qs[w] \in RoundOf
  BY <1>2, <1>3, RoundFields
<1>5. qs \in Seq(RoundOf) /\ Len(qs) = w /\ qs # <<>>
  <2>1. \A r \in 1..w : qs[r] \in RoundOf
    BY <1>1, <1>3, <1>4
  <2>2. qs \in [1..w -> RoundOf]
    BY <1>1, <1>3, <2>1
  <2> HIDE DEF qs, w
  <2> QED
    BY <1>1, <2>2
<1> HIDE DEF w, qs
<1>6. Fold!FlattenSeq(Texts(qs)) = Append(ms, x)
  <2>1. Texts(rs) \in Seq(Seq(Msg)) /\ Len(Texts(rs)) = w
    BY <1>1, RoundsFields DEF w
  <2>2. Texts(qs) \in Seq(Seq(Msg)) /\ Len(Texts(qs)) = w
    BY <1>5, RoundsFields
  <2>3. \A r \in 1..(w-1) : Texts(rs)[r] = Texts(qs)[r]
    BY <1>1, <1>3 DEF Texts
  <2>4. Texts(qs)[w] = Append(Texts(rs)[w], x)
    BY <1>1, <1>3, <1>4 DEF Texts
  <2>5. Fold!FlattenSeq(Texts(qs)) = Append(Fold!FlattenSeq(Texts(rs)), x)
    BY <1>1, <2>1, <2>2, <2>3, <2>4, FlatExtend
  <2> QED
    BY <2>5 DEF GoodRounds
<1>7. \A r \in 1..w :
        /\ qs[r].messages # <<>>
        /\ \A u \in 1..Len(qs[r].messages) :
             qs[r].messages[u].role = "user" <=> (u = 1 /\ qs[r].index > 0)
  <2> TAKE r \in 1..w
  <2>1. CASE r # w
    BY <1>3, <2>1 DEF GoodRounds, w
  <2>2. CASE r = w
    <3>1. \A u \in 1..Len(rs[w].messages) :
            rs[w].messages[u].role = "user" <=> (u = 1 /\ rs[w].index > 0)
      BY <1>1 DEF GoodRounds, w
    <3>2. Len(rs[w].messages) # 0 /\ Len(rs[w].messages) \in Nat
      BY <1>2
    <3> DEFINE old == rs[w].messages
               now == qs[w].messages
    <3>3. now = Append(old, x) /\ old \in Seq(Msg) /\ Len(old) # 0
      BY <1>2, <1>4, <3>2
    <3> HIDE DEF old, now
    <3>4. /\ Len(now) = Len(old) + 1 /\ now[Len(old) + 1] = x /\ now # <<>> /\ Len(old) \in Nat
          /\ \A u \in 1..Len(old) : now[u] = old[u]
      BY <3>3
    <3>5. \A u \in 1..Len(old) : old[u].role = "user" <=> (u = 1 /\ qs[w].index > 0)
      BY <1>4, <3>1 DEF old
    <3>6. \A u \in 1..Len(now) : now[u].role = "user" <=> (u = 1 /\ qs[w].index > 0)
      <4> TAKE u \in 1..Len(now)
      <4>1. CASE u \in 1..Len(old)
        BY <3>4, <3>5, <4>1
      <4>2. CASE u = Len(old) + 1
        BY <3>3, <3>4, <4>2
      <4> QED
        BY <3>4, <4>1, <4>2
    <3> QED
      BY <2>2, <3>4, <3>6 DEF now
  <2> QED
    BY <2>1, <2>2
<1>8. \A r \in 1..w : qs[r].index = rs[r].index
  BY <1>3, <1>4
<1>9. \A r \in 1..w : qs[r].index = qs[1].index + r - 1
  BY <1>1, <1>8 DEF GoodRounds, w
<1>10. Append(ms, x) # <<>>
  BY AppendProperties
<1>11. GoodRounds(qs, Append(ms, x))
  BY <1>1, <1>5, <1>6, <1>7, <1>9, <1>10 DEF GoodRounds
<1> QED
  BY <1>11 DEF qs, w, Fold!AddToRounds

(* A message more. *)
LEMMA GoodRoundsNext ==
  ASSUME NEW rs, NEW ms \in Seq(Msg), GoodRounds(rs, ms), NEW x \in Msg
  PROVE  GoodRounds(Fold!AddToRounds(rs, x), Append(ms, x))
<1>1. CASE rs = <<>>
  <2>1. Fold!AddToRounds(rs, x) = Append(rs, Fold!NewRound(IF x.role = "user" THEN 1 ELSE 0, x))
    BY <1>1 DEF Fold!AddToRounds
  <2>2. CASE x.role = "user"
    BY <1>1, <2>1, <2>2, GoodRoundsBegin, 1 \in Nat, 1 > 0
  <2>3. CASE x.role # "user"
    BY <1>1, <2>1, <2>3, GoodRoundsBegin, 0 \in Nat, ~(0 > 0)
  <2> QED
    BY <2>2, <2>3
<1>2. CASE rs # <<>> /\ x.role = "user"
  <2>1. Fold!AddToRounds(rs, x) = Append(rs, Fold!NewRound(rs[Len(rs)].index + 1, x))
    BY <1>2 DEF Fold!AddToRounds
  <2>2. rs[Len(rs)].index \in Nat
    <3>1. rs \in Seq(RoundOf)
      BY DEF GoodRounds
    <3>2. Len(rs) \in 1..Len(rs)
      BY <1>2, <3>1
    <3> QED
      BY <3>1, <3>2, RoundsFields
  <2>3. rs[Len(rs)].index + 1 \in Nat /\ rs[Len(rs)].index + 1 > 0
    BY <2>2
  <2> QED
    BY <1>2, <2>1, <2>3, GoodRoundsBegin
<1>3. CASE rs # <<>> /\ x.role # "user"
  BY <1>3, GoodRoundsGoOn
<1> QED
  BY <1>1, <1>2, <1>3

(* So the rounds of any messages are theirs. *)
LEMMA RoundsAreGood ==
  ASSUME NEW ms \in Seq(Msg)
  PROVE  GoodRounds(Fold!GroupIntoRounds(ms), ms)
<1> DEFINE Bad == {w \in Nat : \E s \in Seq(Msg) :
                     Len(s) = w /\ ~GoodRounds(Fold!GroupIntoRounds(s), s)}
<1> SUFFICES ASSUME Bad # {} PROVE FALSE
  BY Len(ms) \in Nat
<1>1. PICK w \in Bad : \A v \in Bad : w <= v
  <2>1. Bad \subseteq Nat
    OBVIOUS
  <2> HIDE DEF Bad
  <2> QED
    BY <2>1, LeastOf
<1>1a. w \in Nat /\ \A v \in Nat : v < w => v \notin Bad
  <2>1. w \in Nat
    OBVIOUS
  <2> HIDE DEF Bad
  <2> QED
    BY <1>1, <2>1
<1>2. PICK s \in Seq(Msg) : Len(s) = w /\ ~GoodRounds(Fold!GroupIntoRounds(s), s)
  BY <1>1
<1>3. s # <<>>
  BY <1>2, NoRounds, GoodRoundsOfNone
<1>4. PICK t \in Seq(Msg), x \in Msg : s = Append(t, x)
  BY <1>3, SequenceEmptyOrAppend
<1>5. Len(t) \in Nat /\ Len(t) < w
  BY <1>2, <1>4
<1>6. GoodRounds(Fold!GroupIntoRounds(t), t)
  <2>1. Len(t) \notin Bad
    BY <1>1a, <1>5
  <2> QED
    BY <1>5, <2>1
<1>7. Fold!GroupIntoRounds(s) = Fold!AddToRounds(Fold!GroupIntoRounds(t), x)
  BY <1>4, RoundsGrow
<1> QED
  BY <1>2, <1>4, <1>6, <1>7, GoodRoundsNext

(* What is left of a message is one, of the same role. *)
LEMMA KeptIsMessage ==
  ASSUME NEW kinds, NEW x \in Msg
  PROVE  LET y == [x EXCEPT !.kinds = @ \intersect kinds] IN y \in Msg /\ y.role = x.role
  BY DEF Msg

(* What the filter leaves are messages. *)
LEMMA FilterTyped ==
  ASSUME NEW kinds, NEW ms \in Seq(Msg)
  PROVE  Fold!FilterMessages(ms, kinds) \in Seq(Msg)
<1> DEFINE Bad == {w \in Nat : \E s \in Seq(Msg) :
                     Len(s) = w /\ Fold!FilterMessages(s, kinds) \notin Seq(Msg)}
<1> SUFFICES ASSUME Bad # {} PROVE FALSE
  BY Len(ms) \in Nat
<1>1. PICK w \in Bad : \A v \in Bad : w <= v
  <2>1. Bad \subseteq Nat
    OBVIOUS
  <2> HIDE DEF Bad
  <2> QED
    BY <2>1, LeastOf
<1>2. w \in Nat /\ \A v \in Nat : v < w => v \notin Bad
  <2>1. w \in Nat
    OBVIOUS
  <2> HIDE DEF Bad
  <2> QED
    BY <1>1, <2>1
<1>3. PICK s \in Seq(Msg) : Len(s) = w /\ Fold!FilterMessages(s, kinds) \notin Seq(Msg)
  BY <1>1
<1>4. s # <<>>
  BY <1>3, NoneKept
<1>5. PICK t \in Seq(Msg), x \in Msg : s = Append(t, x)
  BY <1>4, SequenceEmptyOrAppend
<1>6. Len(t) \in Nat /\ Len(t) < w
  BY <1>3, <1>5
<1>7. Len(t) \notin Bad
  BY <1>2, <1>6
<1>8. Fold!FilterMessages(t, kinds) \in Seq(Msg)
  BY <1>6, <1>7
<1>9. Fold!FilterMessages(s, kinds) = Fold!KeepVisible(kinds, Fold!FilterMessages(t, kinds), x)
  BY <1>5, FilterGrows
<1> DEFINE y == [x EXCEPT !.kinds = @ \intersect kinds]
<1>10. y \in Msg
  BY KeptIsMessage
<1>11. Fold!KeepVisible(kinds, Fold!FilterMessages(t, kinds), x)
         \in {Fold!FilterMessages(t, kinds), Append(Fold!FilterMessages(t, kinds), y)}
  BY DEF Fold!KeepVisible
<1> HIDE DEF y
<1>12. Append(Fold!FilterMessages(t, kinds), y) \in Seq(Msg)
  BY <1>8, <1>10, AppendProperties
<1> QED
  BY <1>3, <1>8, <1>9, <1>11, <1>12

(* A filter that hides no question leaves as many rounds as there were,    *)
(* but for the answers that came before the first one.                     *)
HidesQuestion(ms, kinds) ==
    \E u \in 1..Len(ms) : ms[u].role = "user" /\ ms[u].kinds \intersect kinds = {}

MergesNone(ms, f) ==
    /\ f = <<>> => Len(Fold!GroupIntoRounds(ms)) <= 1
    /\ f # <<>> => \/ f[1].role = "user"
                   \/ Len(Fold!GroupIntoRounds(f)) >= Len(Fold!GroupIntoRounds(ms))

(* How many rounds a message makes. *)
LEMMA RoundsCount ==
  ASSUME NEW ms \in Seq(Msg), NEW x \in Msg
  PROVE  /\ Len(Fold!GroupIntoRounds(ms)) \in Nat
         /\ Len(Fold!GroupIntoRounds(ms)) = 0 <=> ms = <<>>
         /\ Len(Fold!GroupIntoRounds(Append(ms, x))) =
              IF ms = <<>> \/ x.role = "user" THEN Len(Fold!GroupIntoRounds(ms)) + 1
              ELSE Len(Fold!GroupIntoRounds(ms))
<1> DEFINE rs == Fold!GroupIntoRounds(ms)
<1>1. GoodRounds(rs, ms)
  BY RoundsAreGood
<1>2. Fold!GroupIntoRounds(Append(ms, x)) = Fold!AddToRounds(rs, x)
  BY RoundsGrow
<1> HIDE DEF rs
<1>3. rs \in Seq(RoundOf) /\ (rs = <<>> <=> ms = <<>>)
  BY <1>1 DEF GoodRounds
<1>4. Len(rs) \in Nat /\ (Len(rs) = 0 <=> rs = <<>>)
  BY <1>3
<1>5. CASE rs = <<>> \/ x.role = "user"
  <2>1. \E w : Fold!AddToRounds(rs, x) = Append(rs, w)
    BY <1>5 DEF Fold!AddToRounds
  <2>2. Len(Fold!AddToRounds(rs, x)) = Len(rs) + 1
    BY <1>3, <2>1
  <2> QED
    BY <1>2, <1>3, <1>4, <1>5, <2>2 DEF rs
<1>6. CASE rs # <<>> /\ x.role # "user"
  <2>1. \E q : Fold!AddToRounds(rs, x) = [rs EXCEPT ![Len(rs)] = q]
    BY <1>6 DEF Fold!AddToRounds
  <2>2. Len(Fold!AddToRounds(rs, x)) = Len(rs)
    BY <1>3, <1>4, <2>1
  <2> QED
    BY <1>2, <1>3, <1>4, <1>6, <2>2 DEF rs
<1> QED
  BY <1>5, <1>6

(* One message more. *)
LEMMA MergesNoneNext ==
  ASSUME NEW kinds, NEW ms \in Seq(Msg), NEW x \in Msg,
         MergesNone(ms, Fold!FilterMessages(ms, kinds)),
         ~(x.role = "user" /\ x.kinds \intersect kinds = {})
  PROVE  MergesNone(Append(ms, x), Fold!FilterMessages(Append(ms, x), kinds))
<1> DEFINE f == Fold!FilterMessages(ms, kinds)
           y == [x EXCEPT !.kinds = @ \intersect kinds]
<1>1. f \in Seq(Msg) /\ y \in Msg /\ y.role = x.role
  BY FilterTyped, KeptIsMessage
<1>2. Fold!FilterMessages(Append(ms, x), kinds) = Fold!KeepVisible(kinds, f, x)
  BY FilterGrows
<1>3. MergesNone(ms, f)
  OBVIOUS
<1>4. x.kinds \intersect kinds = {} => Fold!KeepVisible(kinds, f, x) = f
  BY DEF Fold!KeepVisible
<1>5. x.kinds \intersect kinds # {} => Fold!KeepVisible(kinds, f, x) = Append(f, y)
  BY DEF Fold!KeepVisible
<1> HIDE DEF f, y
<1>6. CASE x.kinds \intersect kinds = {}
  <2>1. x.role # "user"
    BY <1>6
  <2>2. MergesNone(Append(ms, x), f)
    <3> DEFINE a == Len(Fold!GroupIntoRounds(ms))
               b == Len(Fold!GroupIntoRounds(Append(ms, x)))
               c == Len(Fold!GroupIntoRounds(f))
    <3>1. /\ a \in Nat /\ (a = 0 <=> ms = <<>>)
          /\ b = IF ms = <<>> THEN a + 1 ELSE a
      BY <2>1, RoundsCount
    <3>2. ms = <<>> => f = <<>>
      BY NoneKept DEF f
    <3>3. /\ f = <<>> => a <= 1
          /\ f # <<>> => f[1].role = "user" \/ c >= a
      BY <1>3 DEF MergesNone
    <3> HIDE DEF a, b, c
    <3>4. /\ f = <<>> => b <= 1
          /\ f # <<>> => f[1].role = "user" \/ c >= b
      BY <3>1, <3>2, <3>3
    <3> QED
      BY <3>4 DEF MergesNone, a, b, c
  <2> QED
    BY <1>2, <1>4, <1>6, <2>2
<1>7. CASE x.kinds \intersect kinds # {}
  <2> DEFINE g == Append(f, y)
             a == Len(Fold!GroupIntoRounds(ms))
             b == Len(Fold!GroupIntoRounds(Append(ms, x)))
             c == Len(Fold!GroupIntoRounds(f))
             d == Len(Fold!GroupIntoRounds(g))
  <2>1. g # <<>> /\ (f = <<>> => g[1] = y) /\ (f # <<>> => g[1] = f[1])
    <3>1. Len(f) \in Nat /\ (f = <<>> <=> Len(f) = 0)
      BY <1>1
    <3>2. g # <<>> /\ g[Len(f) + 1] = y /\ \A u \in 1..Len(f) : g[u] = f[u]
      BY <1>1, AppendProperties
    <3>3. f # <<>> => 1 \in 1..Len(f)
      BY <3>1
    <3>4. f = <<>> => Len(f) + 1 = 1
      BY <3>1
    <3> HIDE DEF g
    <3> QED
      BY <3>2, <3>3, <3>4
  <2>2. /\ a \in Nat /\ (a = 0 <=> ms = <<>>)
        /\ b = IF ms = <<>> \/ x.role = "user" THEN a + 1 ELSE a
    BY RoundsCount
  <2>3. /\ c \in Nat /\ (c = 0 <=> f = <<>>)
        /\ d = IF f = <<>> \/ y.role = "user" THEN c + 1 ELSE c
    BY <1>1, RoundsCount
  <2>4. /\ f = <<>> => a <= 1
        /\ f # <<>> => f[1].role = "user" \/ c >= a
    BY <1>3 DEF MergesNone
  <2>5. ms = <<>> => f = <<>>
    BY NoneKept DEF f
  <2> HIDE DEF a, b, c, d, g
  <2>6. g[1].role = "user" \/ d >= b
    <3>1. CASE f = <<>>
      BY <1>1, <2>1, <2>2, <2>3, <2>4, <3>1
    <3>2. CASE f # <<>>
      BY <1>1, <2>1, <2>2, <2>3, <2>4, <2>5, <3>2
    <3> QED
      BY <3>1, <3>2
  <2>7. MergesNone(Append(ms, x), g)
    BY <2>1, <2>6 DEF MergesNone, b, d
  <2> QED
    BY <1>2, <1>5, <1>7, <2>7 DEF g
<1> QED
  BY <1>6, <1>7

(* Any number of them. *)
LEMMA FilterMergesNone ==
  ASSUME NEW kinds, NEW ms \in Seq(Msg), ~HidesQuestion(ms, kinds)
  PROVE  MergesNone(ms, Fold!FilterMessages(ms, kinds))
<1> DEFINE Wrong(s) == /\ ~HidesQuestion(s, kinds)
                       /\ ~MergesNone(s, Fold!FilterMessages(s, kinds))
           Bad == {w \in Nat : \E s \in Seq(Msg) : Len(s) = w /\ Wrong(s)}
<1> SUFFICES ASSUME Bad # {} PROVE FALSE
  BY Len(ms) \in Nat
<1>1. PICK w \in Bad : \A v \in Bad : w <= v
  <2>1. Bad \subseteq Nat
    OBVIOUS
  <2> HIDE DEF Bad
  <2> QED
    BY <2>1, LeastOf
<1>2. w \in Nat /\ \A v \in Nat : v < w => v \notin Bad
  <2>1. w \in Nat
    OBVIOUS
  <2> HIDE DEF Bad
  <2> QED
    BY <1>1, <2>1
<1>3. PICK s \in Seq(Msg) : Len(s) = w /\ Wrong(s)
  BY <1>1
<1>4. s # <<>>
  <2>1. Len(Fold!GroupIntoRounds(<<>>)) = 0
    BY NoRounds
  <2>2. MergesNone(<<>>, Fold!FilterMessages(<<>>, kinds))
    BY <2>1, NoneKept DEF MergesNone
  <2> QED
    BY <1>3, <2>2
<1>5. PICK t \in Seq(Msg), x \in Msg : s = Append(t, x)
  BY <1>4, SequenceEmptyOrAppend
<1>6. /\ Len(t) \in Nat /\ Len(t) < w /\ Len(s) = Len(t) + 1
      /\ \A u \in 1..Len(t) : s[u] = t[u] 
      /\ s[Len(t) + 1] = x
  BY <1>3, <1>5
<1>7. ~HidesQuestion(t, kinds) /\ ~(x.role = "user" /\ x.kinds \intersect kinds = {})
  <2>1. \A u \in 1..Len(s) : ~(s[u].role = "user" /\ s[u].kinds \intersect kinds = {})
    BY <1>3 DEF HidesQuestion
  <2>2. \A u \in 1..Len(t) : u \in 1..Len(s)
    BY <1>6
  <2>3. \A u \in 1..Len(t) : ~(t[u].role = "user" /\ t[u].kinds \intersect kinds = {})
    BY <1>6, <2>1, <2>2
  <2>4. Len(t) + 1 \in 1..Len(s)
    BY <1>6
  <2> QED
    BY <1>6, <2>1, <2>3, <2>4 DEF HidesQuestion
<1>8. Len(t) \notin Bad
  BY <1>2, <1>6
<1>9. MergesNone(t, Fold!FilterMessages(t, kinds))
  BY <1>6, <1>7, <1>8
<1>10. MergesNone(s, Fold!FilterMessages(s, kinds))
  BY <1>5, <1>7, <1>9, MergesNoneNext
<1> QED
  BY <1>3, <1>10

(* Hence the rounds of any messages, under any filter. *)
LEMMA RoundsOfThread ==
  ASSUME kept \in Seq(Msg)
  PROVE  Fold!RoundsFollowQuestions
<1> DEFINE f == Fold!Messages
           rs == Fold!GroupIntoRounds(f)
<1>1. f \in Seq(Msg)
  BY FilterTyped DEF Fold!Messages
<1>2. GoodRounds(rs, f)
  BY <1>1, RoundsAreGood
<1>3. Fold!RoundsCutTheThread
  <2> HIDE DEF rs, f
  <2>1. rs \in Seq(RoundOf) /\ DOMAIN rs = 1..Len(rs)
    BY <1>2 DEF GoodRounds
  <2>2. \A r \in 1..Len(rs) : /\ DOMAIN rs[r].messages = 1..Len(rs[r].messages)
                              /\ rs[r].index \in Nat
    BY <2>1, RoundsFields
  <2>3. Fold!FlattenSeq([r \in DOMAIN rs |-> rs[r].messages]) = f
    BY <1>2 DEF GoodRounds, Texts
  <2>4. \A r \in DOMAIN rs : \A u \in DOMAIN rs[r].messages :
          rs[r].messages[u].role = "user" <=> (u = 1 /\ rs[r].index > 0)
    BY <1>2, <2>1, <2>2 DEF GoodRounds
  <2>5. \A r, s \in DOMAIN rs : r # s => rs[r].index # rs[s].index
    <3> TAKE r, s \in DOMAIN rs
    <3>1. r \in Nat /\ s \in Nat /\ 1 \in 1..Len(rs)
      BY <2>1
    <3>2. rs[r].index = rs[1].index + r - 1 /\ rs[s].index = rs[1].index + s - 1
      BY <1>2, <2>1 DEF GoodRounds
    <3>3. rs[1].index \in Nat
      BY <2>2, <3>1
    <3> QED
      BY <3>1, <3>2, <3>3
  <2> QED
    BY <2>3, <2>4, <2>5, Zenon DEF Fold!RoundsCutTheThread, rs, f
<1>4. Fold!OnlyHiddenTurnsMerge
  <2>1. CASE HidesQuestion(kept, own2)
    <3>1. DOMAIN kept = 1..Len(kept)
      OBVIOUS
    <3> QED
      BY <2>1, <3>1 DEF Fold!OnlyHiddenTurnsMerge, HidesQuestion
  <2>2. CASE ~HidesQuestion(kept, own2)
    <3>1. MergesNone(kept, f)
      BY <2>2, FilterMergesNone DEF Fold!Messages
    <3> HIDE DEF f
    <3>2. Len(Fold!GroupIntoRounds(f)) \in Nat /\ Len(Fold!GroupIntoRounds(kept)) \in Nat
      BY <1>1, RoundsAreGood DEF GoodRounds
    <3> QED
      BY <3>1, <3>2 DEF MergesNone, Fold!OnlyHiddenTurnsMerge, f
  <2> QED
    BY <2>1, <2>2
<1> QED
  BY <1>3, <1>4 DEF Fold!RoundsFollowQuestions

------------------------------------------------------------------------------
(* The diff. *)

(* The cells the fill has been at, and what it leaves in a cell. *)
Reached(k, l) == phase # "fill" \/ k > i \/ (k = i /\ l > j)
Best(k, l) ==
    IF Same(k, l) THEN dp[<<k + 1, l + 1>>] + 1
    ELSE Longer(dp[<<k + 1, l>>], dp[<<k, l + 1>>])

(* The border stays empty, and every cell that was reached holds the best  *)
(* of the cells beyond it.                                                 *)
TableOK ==
    /\ \A k \in 1..(n + 1) : dp[<<k, m + 1>>] = 0
    /\ \A l \in 1..(m + 1) : dp[<<n + 1, l>>] = 0
    /\ \A k \in 1..n, l \in 1..m : Reached(k, l) => dp[<<k, l>>] = Best(k, l)

(* Where the two loops and the walk are. *)
PlaceOK ==
    /\ phase = "fill" => /\ i \in 0..n /\ j \in 0..m
                         /\ i = 0 => j = m
                         /\ ops = <<>> /\ added = 0 /\ removed = 0
    /\ phase # "fill" => i \in 1..(n + 1) /\ j \in 1..(m + 1)

DiffSound == DiffTypeOK /\ PlaceOK /\ TableOK /\ WalkStaysOptimal
------------------------------------------------------------------------------
(* The lengths of the two requests are numbers. *)
LEMMA Lengths == DiffTypeOK => n \in Nat /\ m \in Nat
  BY DEF DiffTypeOK, n, m

(* What requestSequence returns is a sequence of messages. *)
LEMMA RequestsAreSequences ==
  ASSUME NEW max \in Nat, NEW s \in Requests(max) PROVE s \in Seq(Message)
  BY DEF Requests

(* At the start only the border of the table is done. *)
LEMMA DiffSoundInit == DiffInit => DiffSound
<1> SUFFICES ASSUME DiffInit PROVE DiffSound
  OBVIOUS
<1>1. left \in Seq(Message) /\ right \in Seq(Message)
  BY RequestsAreSequences, DiffAssumption DEF DiffInit
<1>2. n \in Nat /\ m \in Nat
  BY <1>1 DEF n, m
<1>3. DiffTypeOK
  BY <1>1, <1>2 DEF DiffInit, DiffTypeOK, Cells
<1>4. PlaceOK
  BY <1>2 DEF DiffInit, PlaceOK
<1>5. TableOK
  BY <1>2 DEF DiffInit, TableOK, Cells, Reached
<1>6. WalkStaysOptimal
  BY DEF DiffInit, WalkStaysOptimal
<1> QED
  BY <1>3, <1>4, <1>5, <1>6 DEF DiffSound

(* An emitted operation is one. *)
LEMMA Emitted ==
  ASSUME DiffTypeOK, NEW kind \in {"unchanged", "added", "removed"},
         NEW s \in Message
  PROVE  /\ Append(ops, Op(kind, s)) \in Seq(Ops)
         /\ Len(Append(ops, Op(kind, s))) = Len(ops) + 1
         /\ Len(ops) \in Nat
  BY DEF DiffTypeOK, Ops, Op

(* The fill leaves in a cell the best of those beyond it, all of which it  *)
(* has been at, and disturbs no other.                                     *)
LEMMA FillSound == ASSUME DiffSound, Fill PROVE DiffSound'
<1>1. n \in Nat /\ m \in Nat /\ n' = n /\ m' = m /\ i \in 1..n /\ j \in 1..m
  BY Lengths DEF DiffSound, Fill, PlaceOK, n, m
<1>2. Cells' = Cells /\ <<i, j>> \in Cells /\ <<i + 1, j + 1>> \in Cells
      /\ <<i + 1, j>> \in Cells /\ <<i, j + 1>> \in Cells
  BY <1>1 DEF Cells
<1>3. dp \in [Cells -> Nat] /\ Best(i, j) \in Nat
  <2>1. dp \in [Cells -> Nat]
    BY DEF DiffSound, DiffTypeOK
  <2>2. /\ dp[<<i + 1, j + 1>>] \in Nat
        /\ dp[<<i + 1, j>>] \in Nat /\ dp[<<i, j + 1>>] \in Nat
    BY <1>2, <2>1
  <2>3. Best(i, j) \in Nat
    BY <2>2 DEF Best, Longer
  <2> QED
    BY <2>1, <2>3
<1>4. dp' = [dp EXCEPT ![<<i, j>>] = Best(i, j)]
  BY DEF Fill, Best
<1>5. DiffTypeOK'
  <2>1. dp' \in [Cells -> Nat]
    BY <1>3, <1>4
  <2>2. i' = i /\ j' = j - 1 /\ phase' = "fill" /\ UNCHANGED <<left, right, ops, added, removed>>
    BY DEF Fill
  <2>3. i' \in 0..(n + 1) /\ j' \in 0..(m + 1)
    BY <1>1, <2>2
  <2>4. /\ left \in Seq(Message) /\ right \in Seq(Message) /\ ops \in Seq(Ops)
        /\ added \in Nat /\ removed \in Nat
    BY DEF DiffSound, DiffTypeOK
  <2> QED
    BY <1>1, <1>2, <2>1, <2>2, <2>3, <2>4 DEF DiffTypeOK
<1>6. PlaceOK'
  BY <1>1 DEF DiffSound, PlaceOK, Fill
<1>7. \A k \in 1..(n + 1), l \in 1..(m + 1) :
        dp'[<<k, l>>] = IF k = i /\ l = j THEN Best(i, j) ELSE dp[<<k, l>>]
  BY <1>1, <1>3, <1>4 DEF Cells
<1>8. TableOK'
  <2>1. \A k \in 1..(n + 1) : dp'[<<k, m + 1>>] = 0
    BY <1>1, <1>7 DEF DiffSound, TableOK
  <2>2. \A l \in 1..(m + 1) : dp'[<<n + 1, l>>] = 0
    BY <1>1, <1>7 DEF DiffSound, TableOK
  <2>3. ASSUME NEW k \in 1..n, NEW l \in 1..m, Reached(k, l)'
        PROVE  dp'[<<k, l>>] = Best(k, l)'
    <3>1. (k = i /\ l = j) \/ (Reached(k, l) /\ ~(k = i /\ l = j))
      BY <1>1, <2>3 DEF Fill, Reached
    <3>2. k > i \/ (k = i /\ l >= j)
      BY <1>1, <2>3 DEF Fill, Reached
    <3>3. /\ dp'[<<k + 1, l + 1>>] = dp[<<k + 1, l + 1>>]
          /\ dp'[<<k + 1, l>>] = dp[<<k + 1, l>>]
          /\ dp'[<<k, l + 1>>] = dp[<<k, l + 1>>]
      BY <1>1, <1>7, <3>2
    <3>4. Best(k, l)' = Best(k, l)
      BY <3>3 DEF Fill, Best, Same, Longer
    <3>5. dp'[<<k, l>>] = Best(k, l)
      BY <1>1, <1>7, <3>1 DEF DiffSound, TableOK
    <3> QED
      BY <3>4, <3>5
  <2> QED
    BY <1>1, <2>1, <2>2, <2>3 DEF TableOK
<1>9. WalkStaysOptimal'
  BY DEF Fill, WalkStaysOptimal
<1> QED
  BY <1>5, <1>6, <1>8, <1>9 DEF DiffSound

(* Between two rows of the table nothing is written. *)
LEMMA NextRowSound == ASSUME DiffSound, NextRow PROVE DiffSound'
<1>1. n \in Nat /\ m \in Nat /\ n' = n /\ m' = m /\ i \in 1..n /\ j = 0
  BY Lengths DEF DiffSound, NextRow, PlaceOK, n, m
<1>2. DiffTypeOK'
  BY <1>1 DEF DiffSound, DiffTypeOK, NextRow, Cells
<1>3. PlaceOK'
  BY <1>1 DEF DiffSound, PlaceOK, NextRow
<1>4. \A k \in 1..n, l \in 1..m : Reached(k, l)' => Reached(k, l)
  BY <1>1 DEF NextRow, Reached
<1>5. \A k \in 1..n, l \in 1..m : Best(k, l)' = Best(k, l)
  BY DEF NextRow, Best, Same, Longer
<1>6. TableOK'
  BY <1>1, <1>4, <1>5 DEF DiffSound, TableOK, NextRow
<1>7. WalkStaysOptimal'
  BY DEF NextRow, WalkStaysOptimal
<1> QED
  BY <1>2, <1>3, <1>6, <1>7 DEF DiffSound

(* When row 0 is due, the whole table is done. *)
LEMMA FilledSound == ASSUME DiffSound, Filled PROVE DiffSound'
<1>1. n \in Nat /\ m \in Nat /\ n' = n /\ m' = m /\ i = 0 /\ j = m
  BY Lengths DEF DiffSound, Filled, PlaceOK, n, m
<1>2. DiffTypeOK'
  BY <1>1 DEF DiffSound, DiffTypeOK, Filled, Cells
<1>3. PlaceOK'
  BY <1>1 DEF PlaceOK, Filled
<1>4. \A k \in 1..n, l \in 1..m : Reached(k, l)
  BY <1>1 DEF Reached
<1>5. \A k \in 1..n, l \in 1..m : Best(k, l)' = Best(k, l)
  BY DEF Filled, Best, Same, Longer
<1>6. TableOK'
  BY <1>1, <1>4, <1>5 DEF DiffSound, TableOK, Filled
<1>7. Kept' = 0 /\ removed' = 0 /\ added' = 0
  BY <1>1 DEF DiffSound, PlaceOK, Filled, Kept
<1>8. WalkStaysOptimal'
  BY <1>1, <1>2, <1>7 DEF WalkStaysOptimal, DiffTypeOK, Cells, Filled
<1> QED
  BY <1>2, <1>3, <1>6, <1>8 DEF DiffSound

(* The walk leaves the table alone. *)
LEMMA TableStays ==
  ASSUME DiffSound, phase = "walk", phase' # "fill", UNCHANGED <<left, right, dp>>
  PROVE  TableOK'
<1>1. n' = n /\ m' = m
  BY DEF n, m
<1>2. \A k \in 1..n, l \in 1..m : Best(k, l)' = Best(k, l)
  BY DEF Best, Same, Longer
<1>3. \A k \in 1..n, l \in 1..m : Reached(k, l)
  BY DEF Reached
<1> QED
  BY <1>1, <1>2, <1>3 DEF DiffSound, TableOK

(* Where the walk is. *)
LEMMA WalkPlace ==
  ASSUME DiffSound, phase = "walk"
  PROVE  /\ n \in Nat /\ m \in Nat /\ i \in 1..(n + 1) /\ j \in 1..(m + 1)
         /\ Len(ops) \in Nat /\ added \in Nat /\ removed \in Nat
<1>1. n \in Nat /\ m \in Nat /\ i \in 1..(n + 1) /\ j \in 1..(m + 1)
  BY Lengths DEF DiffSound, PlaceOK
<1>2. Len(ops) \in Nat /\ added \in Nat /\ removed \in Nat
  BY DEF DiffSound, DiffTypeOK
<1> QED
  BY <1>1, <1>2

(* What it has kept so far, and what the table promises. *)
LEMMA WalkBalance ==
  ASSUME DiffSound, phase = "walk"
  PROVE  /\ Kept \in Int /\ Kept + removed = i - 1 /\ Kept + added = j - 1
         /\ Kept + dp[<<i, j>>] = dp[<<1, 1>>]
<1>1. Kept \in Int
  BY WalkPlace DEF Kept
<1> QED
  BY <1>1 DEF DiffSound, WalkStaysOptimal

(* The cells of the table are numbers. *)
LEMMA CellsAreNumbers ==
  ASSUME DiffSound
  PROVE  \A k \in 1..(n + 1), l \in 1..(m + 1) : dp[<<k, l>>] \in Nat
  BY Lengths DEF DiffSound, DiffTypeOK, Cells

(* A kept message is one that the table counts. *)
LEMMA KeepSound == ASSUME DiffSound, KeepBoth PROVE DiffSound'
<1>1. phase = "walk" /\ n' = n /\ m' = m
  BY DEF KeepBoth, Both, n, m
<1>1a. /\ n \in Nat /\ m \in Nat /\ i \in 1..(n + 1) /\ j \in 1..(m + 1)
       /\ Len(ops) \in Nat /\ added \in Nat /\ removed \in Nat
  BY <1>1, WalkPlace
<1>1b. /\ i' = i + 1 /\ j' = j + 1 /\ phase' = phase /\ dp' = dp
       /\ added' = added /\ removed' = removed
  BY DEF KeepBoth
<1>2. i \in 1..n /\ j \in 1..m /\ right[j] \in Message
  BY <1>1, WalkPlace DEF KeepBoth, Both, DiffSound, DiffTypeOK, m
<1>3. ops' \in Seq(Ops) /\ Len(ops') = Len(ops) + 1
  BY <1>2, Emitted DEF KeepBoth, DiffSound
<1>4. DiffTypeOK'
  BY <1>1, <1>2, <1>3, WalkPlace DEF DiffSound, DiffTypeOK, KeepBoth, Cells
<1>5. PlaceOK'
  BY <1>1, <1>1a, <1>1b, <1>2 DEF PlaceOK
<1>6. TableOK'
  BY <1>1, TableStays DEF KeepBoth
<1>7. dp[<<i, j>>] = dp[<<i + 1, j + 1>>] + 1
  BY <1>1, <1>2 DEF DiffSound, TableOK, Reached, Best, KeepBoth
<1>8. Kept' = Kept + 1
  BY <1>1a, <1>1b, <1>3 DEF Kept
<1>9. WalkStaysOptimal'
  <2>1. /\ dp[<<i, j>>] \in Nat /\ dp'[<<i', j'>>] \in Nat
        /\ dp'[<<1, 1>>] = dp[<<1, 1>>] /\ dp[<<1, 1>>] \in Nat
    <3>1. /\ i \in 1..(n + 1) /\ j \in 1..(m + 1) /\ i' \in 1..(n + 1)
          /\ j' \in 1..(m + 1) /\ 1 \in 1..(n + 1) /\ 1 \in 1..(m + 1)
      BY <1>1a, <1>1b, <1>2
    <3>2. dp' = dp
      BY DEF KeepBoth
    <3> QED
      BY <3>1, <3>2, CellsAreNumbers
  <2>2. /\ Kept \in Int /\ Kept + removed = i - 1 /\ Kept + added = j - 1
        /\ Kept + dp[<<i, j>>] = dp[<<1, 1>>]
    BY <1>1, WalkBalance
  <2>3. i \in Int /\ j \in Int /\ added \in Int /\ removed \in Int
    BY <1>1, WalkPlace
  <2>4. Kept' + removed' = i' - 1 /\ Kept' + added' = j' - 1
    BY <1>1b, <1>8, <2>2, <2>3
  <2>5. Kept' + dp'[<<i', j'>>] = dp'[<<1, 1>>]
    <3>1. dp' = dp /\ i' = i + 1 /\ j' = j + 1
      BY DEF KeepBoth
    <3>2. dp'[<<i', j'>>] = dp[<<i, j>>] - 1
      BY <1>7, <2>1, <3>1
    <3> QED
      BY <1>8, <2>1, <2>2, <3>2
  <2> QED
    BY <2>4, <2>5 DEF WalkStaysOptimal
<1> QED
  BY <1>4, <1>5, <1>6, <1>9 DEF DiffSound

(* What is removed costs nothing of what the table promises. *)
LEMMA RemoveSound == ASSUME DiffSound, RemoveLeft PROVE DiffSound'
<1>1. phase = "walk" /\ n' = n /\ m' = m
  BY DEF RemoveLeft, n, m
<1>1a. /\ n \in Nat /\ m \in Nat /\ i \in 1..(n + 1) /\ j \in 1..(m + 1)
       /\ Len(ops) \in Nat /\ added \in Nat /\ removed \in Nat
  BY <1>1, WalkPlace
<1>1b. /\ i' = i + 1 /\ j' = j /\ phase' = phase /\ dp' = dp
       /\ added' = added /\ removed' = removed + 1
  BY DEF RemoveLeft
<1>2. i \in 1..n /\ j \in 1..(m + 1) /\ left[i] \in Message
  BY <1>1, WalkPlace DEF RemoveLeft, DiffSound, DiffTypeOK, n
<1>3. ops' \in Seq(Ops) /\ Len(ops') = Len(ops) + 1
  BY <1>2, Emitted DEF RemoveLeft, DiffSound
<1>4. DiffTypeOK'
  BY <1>1, <1>2, <1>3, WalkPlace DEF DiffSound, DiffTypeOK, RemoveLeft, Cells
<1>5. PlaceOK'
  BY <1>1, <1>1a, <1>1b, <1>2 DEF PlaceOK
<1>6. TableOK'
  BY <1>1, TableStays DEF RemoveLeft
<1>7. dp[<<i, j>>] = dp[<<i + 1, j>>]
  <2>1. CASE j > m
    <3>1. j = m + 1
      BY <1>2, <2>1, <1>1, WalkPlace
    <3>2. i \in 1..(n + 1) /\ i + 1 \in 1..(n + 1)
      BY <1>1, <1>2, WalkPlace
    <3> QED
      BY <3>1, <3>2 DEF DiffSound, TableOK
  <2>2. CASE j <= m
    <3>0. j \in 1..m /\ ~(j > m)
      BY <1>1a, <2>2
    <3>1. j \in 1..m /\ ~Same(i, j) /\ dp[<<i + 1, j>>] >= dp[<<i, j + 1>>]
      BY <3>0 DEF RemoveLeft
    <3>2. dp[<<i, j>>] = Best(i, j)
      BY <1>1, <1>2, <3>1 DEF DiffSound, TableOK, Reached
    <3> QED
      BY <3>1, <3>2 DEF Best, Longer
  <2> QED
    BY <1>1a, <2>1, <2>2
<1>8. Kept' = Kept
  BY <1>1a, <1>1b, <1>3 DEF Kept
<1>9. WalkStaysOptimal'
  <2>1. /\ dp[<<i, j>>] \in Nat /\ dp'[<<i', j'>>] \in Nat
        /\ dp'[<<1, 1>>] = dp[<<1, 1>>] /\ dp[<<1, 1>>] \in Nat
    <3>1. /\ i \in 1..(n + 1) /\ j \in 1..(m + 1) /\ i' \in 1..(n + 1)
          /\ j' \in 1..(m + 1) /\ 1 \in 1..(n + 1) /\ 1 \in 1..(m + 1)
      BY <1>1a, <1>1b, <1>2
    <3>2. dp' = dp
      BY DEF RemoveLeft
    <3> QED
      BY <3>1, <3>2, CellsAreNumbers
  <2>2. /\ Kept \in Int /\ Kept + removed = i - 1 /\ Kept + added = j - 1
        /\ Kept + dp[<<i, j>>] = dp[<<1, 1>>]
    BY <1>1, WalkBalance
  <2>3. i \in Int /\ j \in Int /\ added \in Int /\ removed \in Int
    BY <1>1, WalkPlace
  <2>4. Kept' + removed' = i' - 1 /\ Kept' + added' = j' - 1
    BY <1>1b, <1>8, <2>2, <2>3
  <2>5. Kept' + dp'[<<i', j'>>] = dp'[<<1, 1>>]
    BY <1>1b, <1>7, <1>8, <2>2
  <2> QED
    BY <2>4, <2>5 DEF WalkStaysOptimal
<1> QED
  BY <1>4, <1>5, <1>6, <1>9 DEF DiffSound

(* What is added costs nothing of it either. *)
LEMMA AddSound == ASSUME DiffSound, AddRight PROVE DiffSound'
<1>1. phase = "walk" /\ n' = n /\ m' = m
  BY DEF AddRight, n, m
<1>1a. /\ n \in Nat /\ m \in Nat /\ i \in 1..(n + 1) /\ j \in 1..(m + 1)
       /\ Len(ops) \in Nat /\ added \in Nat /\ removed \in Nat
  BY <1>1, WalkPlace
<1>1b. /\ i' = i /\ j' = j + 1 /\ phase' = phase /\ dp' = dp
       /\ added' = added + 1 /\ removed' = removed
  BY DEF AddRight
<1>2. i \in 1..(n + 1) /\ j \in 1..m /\ right[j] \in Message
  BY <1>1, WalkPlace DEF AddRight, DiffSound, DiffTypeOK, m
<1>3. ops' \in Seq(Ops) /\ Len(ops') = Len(ops) + 1
  BY <1>2, Emitted DEF AddRight, DiffSound
<1>4. DiffTypeOK'
  BY <1>1, <1>2, <1>3, WalkPlace DEF DiffSound, DiffTypeOK, AddRight, Cells
<1>5. PlaceOK'
  BY <1>1, <1>1a, <1>1b, <1>2 DEF PlaceOK
<1>6. TableOK'
  BY <1>1, TableStays DEF AddRight
<1>7. dp[<<i, j>>] = dp[<<i, j + 1>>]
  <2>1. CASE i > n
    <3>1. i = n + 1
      BY <1>2, <2>1, <1>1, WalkPlace
    <3>2. j \in 1..(m + 1) /\ j + 1 \in 1..(m + 1)
      BY <1>1, <1>2, WalkPlace
    <3> QED
      BY <3>1, <3>2 DEF DiffSound, TableOK
  <2>2. CASE i <= n
    <3>0. i \in 1..n /\ ~(i > n)
      BY <1>1a, <2>2
    <3>1. i \in 1..n /\ ~Same(i, j) /\ dp[<<i + 1, j>>] < dp[<<i, j + 1>>]
      BY <3>0 DEF AddRight
    <3>2. dp[<<i, j>>] = Best(i, j)
      BY <1>1, <1>2, <3>1 DEF DiffSound, TableOK, Reached
    <3>3. dp[<<i + 1, j>>] \in Nat /\ dp[<<i, j + 1>>] \in Nat
      <4>1. /\ i \in 1..(n + 1) /\ j \in 1..(m + 1)
            /\ i + 1 \in 1..(n + 1) /\ j + 1 \in 1..(m + 1)
        BY <1>1, <1>2, <3>1, WalkPlace
      <4> QED
        BY <4>1, CellsAreNumbers
    <3> QED
      BY <3>1, <3>2, <3>3 DEF Best, Longer
  <2> QED
    BY <1>1a, <2>1, <2>2
<1>8. Kept' = Kept
  BY <1>1a, <1>1b, <1>3 DEF Kept
<1>9. WalkStaysOptimal'
  <2>1. /\ dp[<<i, j>>] \in Nat /\ dp'[<<i', j'>>] \in Nat
        /\ dp'[<<1, 1>>] = dp[<<1, 1>>] /\ dp[<<1, 1>>] \in Nat
    <3>1. /\ i \in 1..(n + 1) /\ j \in 1..(m + 1) /\ i' \in 1..(n + 1)
          /\ j' \in 1..(m + 1) /\ 1 \in 1..(n + 1) /\ 1 \in 1..(m + 1)
      BY <1>1a, <1>1b, <1>2
    <3>2. dp' = dp
      BY DEF AddRight
    <3> QED
      BY <3>1, <3>2, CellsAreNumbers
  <2>2. /\ Kept \in Int /\ Kept + removed = i - 1 /\ Kept + added = j - 1
        /\ Kept + dp[<<i, j>>] = dp[<<1, 1>>]
    BY <1>1, WalkBalance
  <2>3. i \in Int /\ j \in Int /\ added \in Int /\ removed \in Int
    BY <1>1, WalkPlace
  <2>4. Kept' + removed' = i' - 1 /\ Kept' + added' = j' - 1
    BY <1>1b, <1>8, <2>2, <2>3
  <2>5. Kept' + dp'[<<i', j'>>] = dp'[<<1, 1>>]
    BY <1>1b, <1>7, <1>8, <2>2
  <2> QED
    BY <2>4, <2>5 DEF WalkStaysOptimal
<1> QED
  BY <1>4, <1>5, <1>6, <1>9 DEF DiffSound

(* The end of the walk changes nothing. *)
LEMMA WalkedSound == ASSUME DiffSound, Walked PROVE DiffSound'
<1>1. phase = "walk" /\ n' = n /\ m' = m
  BY DEF Walked, n, m
<1>2. DiffTypeOK' /\ PlaceOK'
  BY <1>1, WalkPlace DEF DiffSound, DiffTypeOK, PlaceOK, Walked, Cells
<1>3. TableOK'
  BY <1>1, TableStays DEF Walked
<1>4. WalkStaysOptimal'
  BY <1>1 DEF DiffSound, WalkStaysOptimal, Walked, Kept
<1> QED
  BY <1>2, <1>3, <1>4 DEF DiffSound

(* Every step keeps the invariant. *)
LEMMA DiffSoundNext == DiffSound /\ [DiffNext]_diffVars => DiffSound'
<1> SUFFICES ASSUME DiffSound, [DiffNext]_diffVars PROVE DiffSound'
  OBVIOUS
<1>1. CASE UNCHANGED diffVars
  <2>1. UNCHANGED <<left, right, dp, i, j, phase, ops, added, removed>>
    BY <1>1 DEF diffVars
  <2>2. DiffTypeOK' /\ PlaceOK'
    BY <2>1 DEF DiffSound, DiffTypeOK, PlaceOK, Cells, n, m
  <2>3. TableOK'
    BY <2>1 DEF DiffSound, TableOK, Reached, Best, Same, n, m
  <2>4. WalkStaysOptimal'
    BY <2>1 DEF DiffSound, WalkStaysOptimal, Kept
  <2> QED
    BY <2>2, <2>3, <2>4 DEF DiffSound
<1> QED
  BY <1>1, FillSound, NextRowSound, FilledSound, KeepSound, RemoveSound, AddSound,
     WalkedSound DEF DiffNext

(* The table is total over its cells, no index leaves it, and the          *)
(* operations are operations.                                              *)
THEOREM DiffIsTyped == DiffSpec => []DiffTypeOK
<1>1. DiffSound => DiffTypeOK
  BY DEF DiffSound
<1> QED
  BY <1>1, DiffSoundInit, DiffSoundNext, PTL DEF DiffSpec

(* The walk never leaves an optimal path of the table: what it has kept    *)
(* and what the table promises from where it is make up what the table     *)
(* promised at the start, and it loses no message of either request.       *)
THEOREM WalkIsOptimal == DiffSpec => []WalkStaysOptimal
<1>1. DiffSound => WalkStaysOptimal
  BY DEF DiffSound
<1> QED
  BY <1>1, DiffSoundInit, DiffSoundNext, PTL DEF DiffSpec
------------------------------------------------------------------------------
(* Common subsequences of what is left of the two requests from a cell on, *)
(* as their positions in the left one and the partner of each.             *)
Matches(S, f) ==
    /\ \A g \in S : Same(g, f[g])
    /\ \A g, h \in S : g < h => f[g] < f[h]
Bounds(k, l) ==
    \A S \in SUBSET (k..n) : \A f \in [S -> l..m] :
      Matches(S, f) => Cardinality(S) <= dp[<<k, l>>]

(* What a cell holds is an upper bound, and fits in what is left.          *)
CellDone(k, l) == k = n + 1 \/ l = m + 1 \/ Reached(k, l)
TableIsBest ==
    \A k \in 1..(n + 1), l \in 1..(m + 1) :
      dp[<<k, l>>] <= m + 1 - l /\ (CellDone(k, l) => Bounds(k, l))

(* Positions of a request are finitely many. *)
LEMMA Positions ==
  ASSUME NEW k \in Int, NEW h \in Int, NEW S \in SUBSET (k..h)
  PROVE  IsFiniteSet(S) /\ Cardinality(S) \in Nat
<1>1. IsFiniteSet(S)
  BY FS_Interval, FS_Subset
<1> QED
  BY <1>1, FS_CardinalityType

(* Part of a common subsequence is one. *)
LEMMA PartMatches ==
  ASSUME NEW S, NEW f, Matches(S, f), NEW T \in SUBSET S, NEW B, \A g \in T : f[g] \in B
  PROVE  \E h \in [T -> B] : Matches(T, h)
<1> DEFINE h == [g \in T |-> f[g]]
<1>1. h \in [T -> B] /\ Matches(T, h)
  BY DEF Matches
<1> QED
  BY <1>1

(* Beyond the end of either request nothing is in common. *)
LEMMA BorderBounds ==
  ASSUME NEW k, NEW l, n \in Nat, m \in Nat, k = n + 1 \/ l = m + 1, dp[<<k, l>>] = 0
  PROVE  Bounds(k, l)
<1>1. k..n = {} \/ l..m = {}
  OBVIOUS
<1>2. ASSUME NEW S \in SUBSET (k..n), NEW f \in [S -> l..m] PROVE S = {}
  BY <1>1
<1>3. Cardinality({}) = 0
  BY FS_EmptySet
<1>4. ASSUME NEW S \in SUBSET (k..n), NEW f \in [S -> l..m]
      PROVE  Cardinality(S) <= dp[<<k, l>>]
  <2>1. Cardinality(S) = 0
    BY <1>2, <1>3
  <2> QED
    BY <2>1
<1> QED
  BY <1>4 DEF Bounds

(* Where the keys agree, a common subsequence has at most one position in  *)
(* the row or the column of the cell.                                      *)
LEMMA BestBoundsSame ==
  ASSUME NEW k \in Nat, NEW l \in Nat, n \in Nat, m \in Nat, Bounds(k + 1, l + 1),
         dp[<<k + 1, l + 1>>] \in Nat,
         NEW S \in SUBSET (k..n), NEW f \in [S -> l..m], Matches(S, f)
  PROVE  Cardinality(S) <= dp[<<k + 1, l + 1>>] + 1
<1> DEFINE R == {g \in S : g = k \/ f[g] = l}
           T == S \ R
<1>1. \A g \in S : g \in Int /\ k <= g /\ g <= n /\ f[g] \in Int /\ l <= f[g] /\ f[g] <= m
  OBVIOUS
<1>2. ASSUME NEW g \in R, NEW h \in R PROVE g = h
  <2>1. ASSUME NEW x \in R, NEW y \in R, x < y PROVE FALSE
    <3>1. x \in S /\ y \in S /\ f[x] < f[y]
      BY <2>1 DEF Matches
    <3>2. y # k /\ f[y] # l
      BY <1>1, <2>1, <3>1
    <3> QED
      BY <3>2
  <2> QED
    BY <1>1, <2>1
<1>3. \A g \in T : g \in (k + 1)..n /\ f[g] \in (l + 1)..m
  BY <1>1
<1>4. Cardinality(T) <= dp[<<k + 1, l + 1>>]
  <2>1. PICK h \in [T -> (l + 1)..m] : Matches(T, h)
    BY <1>3, PartMatches
  <2>2. T \in SUBSET ((k + 1)..n)
    BY <1>3
  <2> QED
    BY <2>1, <2>2 DEF Bounds
<1>5. IsFiniteSet(S) /\ Cardinality(S) \in Nat /\ IsFiniteSet(T) /\ Cardinality(T) \in Nat
  <2>0. k \in Int /\ n \in Int
    OBVIOUS
  <2>1. T \in SUBSET (k..n)
    <3>1. T \subseteq S
      OBVIOUS
    <3> QED
      BY <3>1
  <2> HIDE DEF T
  <2>2. IsFiniteSet(S) /\ Cardinality(S) \in Nat
    BY <2>0, Positions
  <2>3. IsFiniteSet(T) /\ Cardinality(T) \in Nat
    BY <2>0, <2>1, Positions
  <2> QED
    BY <2>2, <2>3
<1>6. Cardinality(S) <= Cardinality(T) + 1
  <2>1. CASE R = {}
    <3>1. S = T
      BY <2>1
    <3> QED
      BY <1>5, <3>1
  <2>2. ASSUME NEW g \in R PROVE Cardinality(S) <= Cardinality(T) + 1
    <3>1. S = T \union {g}
      BY <1>2, <2>2
    <3> QED
      BY <1>5, <3>1, FS_AddElement
  <2> QED
    BY <2>1, <2>2
<1> HIDE DEF T
<1> QED
  BY <1>4, <1>5, <1>6

(* Where they do not, it leaves the row or the column out. *)
LEMMA BestBoundsOther ==
  ASSUME NEW k \in Nat, NEW l \in Nat, n \in Nat, m \in Nat, ~Same(k, l),
         Bounds(k + 1, l), Bounds(k, l + 1),
         NEW S \in SUBSET (k..n), NEW f \in [S -> l..m], Matches(S, f)
  PROVE  Cardinality(S) <= dp[<<k + 1, l>>] \/ Cardinality(S) <= dp[<<k, l + 1>>]
<1>1. \A g \in S : g \in Int /\ k <= g /\ g <= n /\ f[g] \in Int /\ l <= f[g] /\ f[g] <= m
  OBVIOUS
<1>2. CASE k \in S
  <2>1. f[k] # l
    BY <1>2 DEF Matches
  <2>2. \A g \in S : f[g] \in (l + 1)..m
    BY <1>1, <1>2, <2>1 DEF Matches
  <2>3. PICK h \in [S -> (l + 1)..m] : Matches(S, h)
    BY <2>2, PartMatches
  <2> QED
    BY <2>3 DEF Bounds
<1>3. CASE k \notin S
  <2>1. S \in SUBSET ((k + 1)..n)
    BY <1>1, <1>3
  <2> QED
    BY <2>1 DEF Bounds
<1> QED
  BY <1>2, <1>3

(* The bounds of a cell change only with it and the requests. *)
LEMMA BoundsStay ==
  ASSUME UNCHANGED <<left, right>>, NEW k, NEW l, dp'[<<k, l>>] = dp[<<k, l>>]
  PROVE  Bounds(k, l)' <=> Bounds(k, l)
  BY DEF Bounds, Matches, Same, n, m

(* In the beginning only the border is done. *)
LEMMA TableIsBestInit == ASSUME DiffInit PROVE TableIsBest
<1>1. n \in Nat /\ m \in Nat
  BY DiffSoundInit, Lengths DEF DiffSound
<1>2. \A k \in 1..(n + 1), l \in 1..(m + 1) : dp[<<k, l>>] = 0
  BY DEF DiffInit, Cells
<1>3. ASSUME NEW k \in 1..(n + 1), NEW l \in 1..(m + 1), CellDone(k, l) PROVE Bounds(k, l)
  <2>1. k = n + 1 \/ l = m + 1
    BY <1>1, <1>3 DEF CellDone, Reached, DiffInit
  <2> QED
    BY <1>1, <1>2, <2>1, BorderBounds
<1>4. ASSUME NEW k \in 1..(n + 1), NEW l \in 1..(m + 1) PROVE dp[<<k, l>>] <= m + 1 - l
  <2>1. dp[<<k, l>>] = 0
    BY <1>2
  <2>2. 0 <= m + 1 - l
    BY <1>1
  <2> QED
    BY <2>1, <2>2
<1> QED
  BY <1>3, <1>4 DEF TableIsBest

(* The fill makes a cell the best of three that are. *)
LEMMA TableIsBestFill == ASSUME DiffSound, TableIsBest, Fill PROVE TableIsBest'
<1>1. n \in Nat /\ m \in Nat /\ n' = n /\ m' = m /\ i \in 1..n /\ j \in 1..m
  BY Lengths DEF DiffSound, Fill, PlaceOK, n, m
<1>2. /\ dp[<<i + 1, j + 1>>] \in Nat /\ dp[<<i + 1, j>>] \in Nat
      /\ dp[<<i, j + 1>>] \in Nat
  BY <1>1, CellsAreNumbers
<1>3. \A k \in 1..(n + 1), l \in 1..(m + 1) :
        dp'[<<k, l>>] = IF k = i /\ l = j THEN Best(i, j) ELSE dp[<<k, l>>]
  <2>1. dp' = [dp EXCEPT ![<<i, j>>] = Best(i, j)]
    BY DEF Fill, Best
  <2> QED
    BY <1>1, <2>1 DEF DiffSound, DiffTypeOK, Cells
<1>4. /\ dp[<<i + 1, j + 1>>] <= m + 1 - (j + 1) /\ dp[<<i + 1, j>>] <= m + 1 - j
      /\ dp[<<i, j + 1>>] <= m + 1 - (j + 1)
  BY <1>1 DEF TableIsBest
<1>5. Bounds(i + 1, j + 1) /\ Bounds(i + 1, j) /\ Bounds(i, j + 1)
  <2>1. CellDone(i + 1, j + 1) /\ CellDone(i + 1, j) /\ CellDone(i, j + 1)
    BY <1>1 DEF CellDone, Reached
  <2>2. /\ i \in 1..(n + 1) /\ j \in 1..(m + 1)
        /\ i + 1 \in 1..(n + 1) /\ j + 1 \in 1..(m + 1)
    BY <1>1
  <2> QED
    BY <2>1, <2>2, Zenon DEF TableIsBest
<1>6. Best(i, j) \in Nat /\ Best(i, j) <= m + 1 - j
  BY <1>1, <1>2, <1>4 DEF Best, Longer
<1>7. ASSUME NEW S \in SUBSET (i..n), NEW f \in [S -> j..m], Matches(S, f)
      PROVE  Cardinality(S) <= Best(i, j)
  <2>1. CASE Same(i, j)
    <3>1. Cardinality(S) <= dp[<<i + 1, j + 1>>] + 1
      BY <1>1, <1>2, <1>5, <1>7, BestBoundsSame
    <3> QED
      BY <2>1, <3>1 DEF Best
  <2>2. CASE ~Same(i, j)
    <3>1. Cardinality(S) <= dp[<<i + 1, j>>] \/ Cardinality(S) <= dp[<<i, j + 1>>]
      BY <1>1, <1>5, <1>7, <2>2, BestBoundsOther
    <3>2. Cardinality(S) \in Nat
      <4>1. i \in Int /\ n \in Int
        BY <1>1
      <4> QED
        BY <4>1, Positions
    <3> QED
      BY <1>2, <2>2, <3>1, <3>2 DEF Best, Longer
  <2> QED
    BY <2>1, <2>2
<1>8. \A k, l : k = i /\ l = j => Bounds(k, l)'
  <2>1. dp'[<<i, j>>] = Best(i, j)
    BY <1>1, <1>3
  <2>2. SUFFICES ASSUME NEW k, NEW l, k = i /\ l = j PROVE Bounds(k, l)'
    OBVIOUS
  <2>3. \A S, f : Matches(S, f)' <=> Matches(S, f)
    BY DEF Matches, Same, Fill
  <2>4. ASSUME NEW S \in SUBSET (k..n'), NEW f \in [S -> l..m'], Matches(S, f)'
        PROVE  Cardinality(S) <= dp'[<<k, l>>]
    <3>1. S \in SUBSET (i..n) /\ f \in [S -> j..m] /\ Matches(S, f)
      BY <1>1, <2>2, <2>3, <2>4
    <3> QED
      BY <1>7, <2>1, <2>2, <3>1
  <2> QED
    BY <2>2, <2>4 DEF Bounds
<1>9. ASSUME NEW k \in 1..(n + 1), NEW l \in 1..(m + 1)
      PROVE  dp'[<<k, l>>] <= m + 1 - l /\ (CellDone(k, l)' => Bounds(k, l)')
  <2>1. CASE k = i /\ l = j
    BY <1>1, <1>3, <1>6, <1>8, <2>1
  <2>2. CASE ~(k = i /\ l = j)
    <3>1. dp'[<<k, l>>] = dp[<<k, l>>]
      BY <1>3, <2>2
    <3>2. CellDone(k, l)' => CellDone(k, l)
      BY <1>1, <2>2 DEF CellDone, Reached, Fill
    <3>3. Bounds(k, l)' <=> Bounds(k, l)
      BY <3>1, BoundsStay DEF Fill
    <3> QED
      BY <3>1, <3>2, <3>3 DEF TableIsBest
  <2> QED
    BY <2>1, <2>2
<1> QED
  BY <1>1, <1>9 DEF TableIsBest

(* Nothing else writes to the table. *)
LEMMA TableIsBestStays ==
  ASSUME DiffSound, TableIsBest, UNCHANGED <<left, right, dp>>,
         \A k \in 1..n, l \in 1..m : Reached(k, l)' => Reached(k, l)
  PROVE  TableIsBest'
<1>1. n \in Nat /\ m \in Nat /\ n' = n /\ m' = m
  BY Lengths DEF DiffSound, n, m
<1>2. ASSUME NEW k \in 1..(n + 1), NEW l \in 1..(m + 1)
      PROVE  dp'[<<k, l>>] <= m + 1 - l /\ (CellDone(k, l)' => Bounds(k, l)')
  <2>1. CellDone(k, l)' => CellDone(k, l)
    BY <1>1 DEF CellDone
  <2>2. Bounds(k, l)' <=> Bounds(k, l)
    BY BoundsStay
  <2> QED
    BY <2>1, <2>2 DEF TableIsBest
<1> QED
  BY <1>1, <1>2 DEF TableIsBest

(* So every step keeps the table the best there is. *)
LEMMA TableIsBestNext ==
  ASSUME DiffSound, TableIsBest, [DiffNext]_diffVars PROVE TableIsBest'
<1>1. CASE Fill
  BY <1>1, TableIsBestFill
<1>2. CASE NextRow
  <2>1. \A k \in 1..n, l \in 1..m : Reached(k, l)' => Reached(k, l)
    BY <1>2, Lengths DEF NextRow, Reached, DiffSound, DiffTypeOK
  <2> QED
    BY <1>2, <2>1, TableIsBestStays DEF NextRow
<1>3. CASE Filled
  <2>1. \A k \in 1..n, l \in 1..m : Reached(k, l)' => Reached(k, l)
    BY <1>3, Lengths DEF Filled, Reached, DiffSound, DiffTypeOK
  <2> QED
    BY <1>3, <2>1, TableIsBestStays DEF Filled
<1>4. CASE KeepBoth \/ RemoveLeft \/ AddRight \/ Walked \/ UNCHANGED diffVars
  <2>1. UNCHANGED <<left, right, dp>>
    BY <1>4 DEF KeepBoth, RemoveLeft, AddRight, Walked, diffVars
  <2>2. \A k \in 1..n, l \in 1..m : Reached(k, l)' => Reached(k, l)
    BY <1>4 DEF KeepBoth, Both, RemoveLeft, AddRight, Walked, diffVars, Reached
  <2> QED
    BY <2>1, <2>2, TableIsBestStays
<1> QED
  BY <1>1, <1>2, <1>3, <1>4 DEF DiffNext
------------------------------------------------------------------------------
(* What the walk has kept is a common subsequence of what it has passed,   *)
(* and it ends at the far corner.                                          *)
KeepsOK ==
    /\ phase # "fill" => \E S \in SUBSET (1..(i - 1)) : \E f \in [S -> 1..(j - 1)] :
                           Matches(S, f) /\ Cardinality(S) = Kept
    /\ phase = "done" => i = n + 1 /\ j = m + 1

(* An appended operation is the last one. *)
LEMMA Appended ==
  ASSUME DiffTypeOK, NEW kind \in {"unchanged", "added", "removed"}, NEW s \in Message,
         ops' = Append(ops, Op(kind, s))
  PROVE  /\ Len(ops) \in Nat /\ Len(ops') = Len(ops) + 1
         /\ \A l \in 1..Len(ops) : ops'[l] = ops[l]
         /\ ops'[Len(ops) + 1].kind = kind /\ ops'[Len(ops) + 1].message = s
  BY DEF DiffTypeOK, Ops, Op

(* Two messages whose keys agree extend a common subsequence before them. *)
LEMMA MatchesGrow ==
  ASSUME NEW k \in Nat, NEW l \in Nat, k >= 1, l >= 1, Same(k, l),
         NEW S \in SUBSET (1..(k - 1)), NEW f \in [S -> 1..(l - 1)], Matches(S, f)
  PROVE  \E T \in SUBSET (1..k) : \E h \in [T -> 1..l] :
           Matches(T, h) /\ Cardinality(T) = Cardinality(S) + 1
<1> DEFINE T == S \union {k}
           h == [g \in T |-> IF g = k THEN l ELSE f[g]]
<1>1. \A g \in S : g \in Int /\ 1 <= g /\ g < k /\ f[g] \in Int /\ 1 <= f[g] /\ f[g] < l
  OBVIOUS
<1>2. T \in SUBSET (1..k) /\ h \in [T -> 1..l]
  BY <1>1
<1>3. Matches(T, h)
  <2>1. \A g \in T : Same(g, h[g])
    BY DEF Matches
  <2>2. ASSUME NEW g \in T, NEW q \in T, g < q PROVE h[g] < h[q]
    <3>1. g \in S
      BY <1>1, <2>2
    <3>2. CASE q \in S
      BY <1>1, <2>2, <3>1, <3>2 DEF Matches
    <3>3. CASE q = k
      BY <1>1, <3>1, <3>3
    <3> QED
      BY <3>2, <3>3
  <2> QED
    BY <2>1, <2>2 DEF Matches
<1>4. Cardinality(T) = Cardinality(S) + 1
  <2>1. 1 \in Int /\ k - 1 \in Int /\ k \notin S
    BY <1>1
  <2>2. IsFiniteSet(S)
    BY <2>1, Positions
  <2> QED
    BY <2>1, <2>2, FS_AddElement
<1> QED
  BY <1>2, <1>3, <1>4

(* An interval grows with its end. *)
LEMMA Widens ==
  ASSUME NEW k \in Int, NEW l \in Int, k <= l PROVE 1..(k - 1) \subseteq 1..(l - 1)
  OBVIOUS

(* Before the walk nothing has been kept. *)
LEMMA KeepsInit == DiffInit => KeepsOK
  BY DEF DiffInit, KeepsOK

(* Keeping a message extends the subsequence; no other step changes it. *)
LEMMA KeepsNext == ASSUME DiffSound, KeepsOK, [DiffNext]_diffVars PROVE KeepsOK'
<1>0. n \in Nat /\ m \in Nat
  BY Lengths DEF DiffSound
<1>1. CASE Fill \/ NextRow
  BY <1>1 DEF Fill, NextRow, KeepsOK
<1>2. CASE Filled
  <2>1. Matches({}, << >>) /\ Cardinality({}) = 0
    BY FS_EmptySet DEF Matches
  <2>2. Kept' = 0
    BY <1>2 DEF Filled, DiffSound, PlaceOK, Kept
  <2>3. Matches({}, << >>)'
    BY DEF Matches
  <2>4. {} \in SUBSET (1..(i' - 1)) /\ << >> \in [{} -> 1..(j' - 1)]
    OBVIOUS
  <2>5. phase' = "walk"
    BY <1>2 DEF Filled
  <2> QED
    BY <2>1, <2>2, <2>3, <2>4, <2>5 DEF KeepsOK
<1>3. CASE KeepBoth
  <2>1. /\ phase = "walk" /\ i \in 1..n /\ j \in 1..m /\ Same(i, j) /\ right[j] \in Message
        /\ phase' = "walk" /\ i' = i + 1 /\ j' = j + 1
    BY <1>3, WalkPlace DEF KeepBoth, Both, DiffSound, DiffTypeOK, m
  <2>2. PICK S \in SUBSET (1..(i - 1)) : \E f \in [S -> 1..(j - 1)] :
          Matches(S, f) /\ Cardinality(S) = Kept
    BY <2>1 DEF KeepsOK
  <2>3. Kept' = Kept + 1
    BY <1>3, <2>1, Appended, WalkPlace DEF KeepBoth, Kept, DiffSound
  <2>4. PICK T \in SUBSET (1..i) : \E h \in [T -> 1..j] :
          Matches(T, h) /\ Cardinality(T) = Kept + 1
    BY <1>0, <2>1, <2>2, MatchesGrow
  <2>5. i' - 1 = i /\ j' - 1 = j
    BY <2>1
  <2>6. \A h : Matches(T, h)' <=> Matches(T, h)
    BY <1>3 DEF KeepBoth, Matches, Same
  <2> QED
    BY <2>1, <2>3, <2>4, <2>5, <2>6 DEF KeepsOK
<1>4. CASE RemoveLeft \/ AddRight
  <2>1. /\ phase = "walk" /\ phase' = "walk" /\ UNCHANGED <<left, right>>
        /\ i \in 1..(n + 1) /\ j \in 1..(m + 1)
        /\ i' \in Int /\ i' >= i /\ j' \in Int /\ j' >= j
    <3>1. phase = "walk"
      BY <1>4 DEF RemoveLeft, AddRight
    <3>2. i \in 1..(n + 1) /\ j \in 1..(m + 1)
      BY <3>1, WalkPlace
    <3>3. i \in Int /\ j \in Int
      BY <1>0, <3>2
    <3>4. CASE RemoveLeft
      <4>1. phase' = phase /\ left' = left /\ right' = right /\ i' = i + 1 /\ j' = j
        BY <3>4 DEF RemoveLeft
      <4> QED
        BY <3>1, <3>2, <3>3, <4>1
    <3>5. CASE AddRight
      <4>1. phase' = phase /\ left' = left /\ right' = right /\ i' = i /\ j' = j + 1
        BY <3>5 DEF AddRight
      <4> QED
        BY <3>1, <3>2, <3>3, <4>1
    <3> QED
      BY <1>4, <3>4, <3>5
  <2>2. PICK S \in SUBSET (1..(i - 1)) : \E f \in [S -> 1..(j - 1)] :
          Matches(S, f) /\ Cardinality(S) = Kept
    BY <2>1 DEF KeepsOK
  <2>3. PICK f \in [S -> 1..(j - 1)] : Matches(S, f) /\ Cardinality(S) = Kept
    BY <2>2
  <2>4. Kept' = Kept
    <3>1. CASE RemoveLeft
      <4>1. left[i] \in Message /\ Len(ops') = Len(ops) + 1
        BY <1>0, <2>1, <3>1, Appended DEF RemoveLeft, DiffSound, DiffTypeOK, n
      <4> QED
        BY <2>1, <3>1, <4>1, WalkPlace DEF RemoveLeft, Kept
    <3>2. CASE AddRight
      <4>1. right[j] \in Message /\ Len(ops') = Len(ops) + 1
        BY <1>0, <2>1, <3>2, Appended DEF AddRight, DiffSound, DiffTypeOK, m
      <4> QED
        BY <2>1, <3>2, <4>1, WalkPlace DEF AddRight, Kept
    <3> QED
      BY <1>4, <3>1, <3>2
  <2>5. 1..(i - 1) \subseteq 1..(i' - 1) /\ 1..(j - 1) \subseteq 1..(j' - 1)
    <3>1. i \in Int /\ i' \in Int /\ i <= i' /\ j \in Int /\ j' \in Int /\ j <= j'
      BY <1>0, <2>1
    <3> QED
      BY <3>1, Widens, Zenon
  <2>6. S \in SUBSET (1..(i' - 1)) /\ f \in [S -> 1..(j' - 1)]
    BY <2>5
  <2>7. Matches(S, f)'
    BY <2>1, <2>3 DEF Matches, Same
  <2> QED
    BY <2>1, <2>3, <2>4, <2>6, <2>7 DEF KeepsOK
<1>5. CASE Walked \/ UNCHANGED diffVars
  <2>1. UNCHANGED <<left, right, dp, i, j, ops, added, removed>>
    BY <1>5 DEF Walked, diffVars
  <2>2. phase' # "fill" => phase # "fill"
    BY <1>5 DEF Walked, diffVars
  <2>3. phase' = "done" => i = n + 1 /\ j = m + 1
    BY <1>0, <1>5, WalkPlace DEF Walked, diffVars, KeepsOK
  <2>4. \A S, f : Matches(S, f)' <=> Matches(S, f)
    BY <2>1 DEF Matches, Same
  <2>5. Kept' = Kept /\ n' = n /\ m' = m
    BY <2>1 DEF Kept, n, m
  <2> QED
    BY <2>1, <2>2, <2>3, <2>4, <2>5 DEF KeepsOK
<1> QED
  BY <1>1, <1>2, <1>3, <1>4, <1>5 DEF DiffNext

(* So what it kept at the end is a longest common subsequence. *)
LEMMA DoneIsShortest == ASSUME DiffSound, TableIsBest, KeepsOK PROVE DiffIsShortest
<1> SUFFICES ASSUME phase = "done" PROVE Kept = Max(Common(left, right))
  BY DEF DiffIsShortest
<1>0. n \in Nat /\ m \in Nat /\ DOMAIN left = 1..n /\ DOMAIN right = 1..m
  BY Lengths DEF DiffSound, DiffTypeOK, n, m
<1>1. i = n + 1 /\ j = m + 1
  BY DEF KeepsOK
<1>2. Kept = dp[<<1, 1>>] /\ Kept \in Int
  <2>1. dp[<<n + 1, m + 1>>] = 0
    BY <1>0 DEF DiffSound, TableOK
  <2>2. Kept \in Int
    BY DEF DiffSound, DiffTypeOK, Kept
  <2>3. Kept + dp[<<i, j>>] = dp[<<1, 1>>]
    BY DEF DiffSound, WalkStaysOptimal
  <2> QED
    BY <1>1, <2>1, <2>2, <2>3
<1>3. Kept \in Common(left, right)
  <2>1. i - 1 = n /\ j - 1 = m
    BY <1>0, <1>1
  <2>2. PICK S \in SUBSET (1..n) : \E f \in [S -> 1..m] :
          Matches(S, f) /\ Cardinality(S) = Kept
    BY <2>1 DEF KeepsOK
  <2>3. PICK f \in [S -> 1..m] : Matches(S, f) /\ Cardinality(S) = Kept
    BY <2>2
  <2> QED
    BY <1>0, <2>3 DEF Common, Matches, Same
<1>4. ASSUME NEW y \in Common(left, right) PROVE y \in Int /\ Kept >= y
  <2>1. PICK S \in SUBSET (1..n) : y = Cardinality(S)
                                  /\ \E f \in [S -> 1..m] : Matches(S, f)
    BY <1>0 DEF Common, Matches, Same
  <2>2. Cardinality(S) \in Nat
    <3>1. 1 \in Int /\ n \in Int
      BY <1>0
    <3> QED
      BY <3>1, Positions
  <2>3. 1 \in 1..(n + 1) /\ 1 \in 1..(m + 1) /\ CellDone(1, 1)
    BY <1>0, <1>1 DEF CellDone, Reached
  <2>4. Bounds(1, 1)
    BY <2>3 DEF TableIsBest
  <2>5. Cardinality(S) <= dp[<<1, 1>>]
    BY <2>1, <2>4 DEF Bounds
  <2> QED
    BY <1>2, <2>1, <2>2, <2>5
<1>5. \A x \in Common(left, right) :
        (\A y \in Common(left, right) : x >= y) => x = Kept
  BY <1>2, <1>3, <1>4
<1> QED
  BY <1>2, <1>3, <1>4, <1>5 DEF Max
------------------------------------------------------------------------------
(* How many of the first k operations are not of a kind. *)
Others(s, kind, k) == Cardinality({l \in 1..k : s[l].kind # kind})

(* ... of one sequence, that of another, and that of one operation more. *)
OneMore(s, t, kind, k) ==
    /\ Others(t, kind, k) = Others(s, kind, k)
    /\ Others(t, kind, k + 1) =
         IF t[k + 1].kind # kind THEN Others(s, kind, k) + 1 ELSE Others(s, kind, k)

(* An operation that follows counts itself or does not. *)
LEMMA OthersGrow ==
  ASSUME NEW s, NEW t, NEW kind, NEW k \in Nat, \A l \in 1..k : t[l] = s[l]
  PROVE  OneMore(s, t, kind, k)
<1> DEFINE P == {l \in 1..k : s[l].kind # kind}
           Q == {l \in 1..(k + 1) : t[l].kind # kind}
<1>1. {l \in 1..k : t[l].kind # kind} = P
  OBVIOUS
<1>2. \A l : l \in 1..(k + 1) <=> l \in 1..k \/ l = k + 1
  OBVIOUS
<1>3. k + 1 \notin 1..k
  OBVIOUS
<1>4. CASE t[k + 1].kind # kind
  <2>1. Q = P \union {k + 1} /\ k + 1 \notin P
    BY <1>2, <1>3, <1>4
  <2>2. IsFiniteSet(P)
    <3>1. 1 \in Int /\ k \in Int
      OBVIOUS
    <3> QED
      BY <3>1, Positions, Zenon
  <2>3. Cardinality(Q) = Cardinality(P) + 1
    BY <2>1, <2>2, FS_AddElement
  <2> QED
    BY <1>1, <1>4, <2>3 DEF Others, OneMore
<1>5. CASE t[k + 1].kind = kind
  <2>1. Q = P
    BY <1>2, <1>3, <1>5
  <2> QED
    BY <1>1, <1>5, <2>1 DEF Others, OneMore
<1> QED
  BY <1>4, <1>5

(* Where an operation is on both sides. *)
PlacesOf(k, x, y) == LeftPlace(k) = x /\ RightPlace(k) = y

(* The places of the operations before a new one do not change, and its    *)
(* own is the next one on its side.                                        *)
LEMMA PlacesGrow ==
  ASSUME DiffTypeOK, NEW kind \in {"unchanged", "added", "removed"}, NEW s \in Message,
         ops' = Append(ops, Op(kind, s)), NEW len, len = Len(ops),
         NEW x, NEW y, PlacesOf(len, x, y)
  PROVE  /\ \A k \in 1..len : \A u, v : PlacesOf(k, u, v)' <=> PlacesOf(k, u, v)
         /\ kind = "unchanged" => PlacesOf(len + 1, x + 1, y + 1)'
         /\ kind = "removed" => PlacesOf(len + 1, x + 1, y)'
         /\ kind = "added" => PlacesOf(len + 1, x, y + 1)'
<1>1. /\ len \in Nat /\ \A l \in 1..len : ops'[l] = ops[l]
      /\ ops'[len + 1].kind = kind
  BY Appended
<1>2. /\ \A k : LeftPlace(k) = Others(ops, "added", k)
      /\ \A k : RightPlace(k) = Others(ops, "removed", k)
      /\ \A k : LeftPlace(k)' = Others(ops', "added", k)
      /\ \A k : RightPlace(k)' = Others(ops', "removed", k)
  BY DEF LeftPlace, RightPlace, Others
<1>3. ASSUME NEW k \in 1..len, NEW u, NEW v PROVE PlacesOf(k, u, v)' <=> PlacesOf(k, u, v)
  <2>1. k \in Nat /\ \A l \in 1..k : ops'[l] = ops[l]
    BY <1>1
  <2>2. OneMore(ops, ops', "added", k) /\ OneMore(ops, ops', "removed", k)
    BY <2>1, OthersGrow, Zenon
  <2>3. LeftPlace(k)' = LeftPlace(k) /\ RightPlace(k)' = RightPlace(k)
    BY <1>2, <2>2, Zenon DEF OneMore
  <2> QED
    BY <2>3 DEF PlacesOf
<1>4. OneMore(ops, ops', "added", len) /\ OneMore(ops, ops', "removed", len)
  BY <1>1, OthersGrow, Zenon
<1>5. /\ LeftPlace(len + 1)' = IF kind # "added" THEN x + 1 ELSE x
      /\ RightPlace(len + 1)' = IF kind # "removed" THEN y + 1 ELSE y
  <2>1. Others(ops, "added", len) = x /\ Others(ops, "removed", len) = y
    BY <1>2, Zenon DEF PlacesOf
  <2>2. /\ Others(ops', "added", len + 1) = IF kind # "added" THEN x + 1 ELSE x
        /\ Others(ops', "removed", len + 1) = IF kind # "removed" THEN y + 1 ELSE y
    BY <1>1, <1>4, <2>1, Zenon DEF OneMore
  <2> QED
    BY <1>2, <2>2, Zenon
<1>6. /\ kind = "unchanged" => PlacesOf(len + 1, x + 1, y + 1)'
      /\ kind = "removed" => PlacesOf(len + 1, x + 1, y)'
      /\ kind = "added" => PlacesOf(len + 1, x, y + 1)'
  BY <1>5 DEF PlacesOf
<1> QED
  BY <1>3, <1>6

(* What the operations up to a number say, at their places. *)
LeadAt(k) ==
    \E u, v :
      /\ PlacesOf(k, u, v)
      /\ ops[k].kind = "removed" => ops[k].message = left[u]
      /\ ops[k].kind # "removed" => ops[k].message = right[v]
      /\ ops[k].kind = "unchanged" => Same(u, v)
Leads ==
    phase # "fill" => PlacesOf(Len(ops), i - 1, j - 1) /\ \A k \in 1..Len(ops) : LeadAt(k)

(* That is what the property says of them. *)
LEMMA LeadsIs == DiffTypeOK => (OpsLeadAcross <=> Leads)
<1> SUFFICES ASSUME DiffTypeOK PROVE OpsLeadAcross <=> Leads
  OBVIOUS
<1>1. DOMAIN ops = 1..Len(ops)
  BY DEF DiffTypeOK
<1> QED
  BY <1>1 DEF OpsLeadAcross, Leads, LeadAt, PlacesOf

(* Before the walk there are none. *)
LEMMA LeadsInit == DiffInit => Leads
  BY DEF DiffInit, Leads

(* Each operation that is emitted stands at its place. *)
LEMMA LeadsNext == ASSUME DiffSound, Leads, [DiffNext]_diffVars PROVE Leads'
<1>0. n \in Nat /\ m \in Nat
  BY Lengths DEF DiffSound
<1>1. CASE Fill \/ NextRow
  BY <1>1 DEF Fill, NextRow, Leads
<1>2. CASE Filled
  <2>1. ops' = << >> /\ i' = 1 /\ j' = 1
    BY <1>2 DEF Filled, DiffSound, PlaceOK
  <2>2. PlacesOf(0, 0, 0)'
    <3>1. 1..0 = {} /\ Cardinality({}) = 0
      BY FS_EmptySet
    <3> QED
      BY <3>1 DEF PlacesOf, LeftPlace, RightPlace
  <2>3. Len(ops') = 0 /\ i' - 1 = 0 /\ j' - 1 = 0
    BY <2>1
  <2>4. PlacesOf(Len(ops), i - 1, j - 1)'
    BY <2>2, <2>3 DEF PlacesOf, LeftPlace, RightPlace
  <2> QED
    BY <2>3, <2>4 DEF Leads
<1>3. ASSUME phase = "walk", UNCHANGED <<left, right>>,
             NEW kind \in {"unchanged", "added", "removed"}, NEW s \in Message,
             ops' = Append(ops, Op(kind, s)),
             i' = IF kind = "added" THEN i ELSE i + 1,
             j' = IF kind = "removed" THEN j ELSE j + 1,
             kind = "removed" => s = left[i], kind # "removed" => s = right[j],
             kind = "unchanged" => Same(i, j)
      PROVE  Leads'
  <2>1. PICK k, l, len : k = i /\ l = j /\ len = Len(ops)
    OBVIOUS
  <2>2. k \in Int /\ l \in Int /\ (k - 1) + 1 = k /\ (l - 1) + 1 = l
    BY <1>0, <1>3, <2>1, WalkPlace
  <2>3. /\ len \in Nat /\ Len(ops') = len + 1
        /\ \A g \in 1..len : ops'[g] = ops[g]
        /\ ops'[len + 1].kind = kind /\ ops'[len + 1].message = s
    BY <1>3, <2>1, Appended DEF DiffSound
  <2>4. PlacesOf(len, k - 1, l - 1) /\ \A g \in 1..len : LeadAt(g)
    BY <1>3, <2>1 DEF Leads
  <2>5. DiffTypeOK
    BY DEF DiffSound
  <2>6. /\ \A g \in 1..len : \A u, v : PlacesOf(g, u, v)' <=> PlacesOf(g, u, v)
        /\ kind = "unchanged" => PlacesOf(len + 1, (k - 1) + 1, (l - 1) + 1)'
        /\ kind = "removed" => PlacesOf(len + 1, (k - 1) + 1, l - 1)'
        /\ kind = "added" => PlacesOf(len + 1, k - 1, (l - 1) + 1)'
    BY <1>3, <2>1, <2>4, <2>5, PlacesGrow, Zenon
  <2>7. /\ kind = "unchanged" => PlacesOf(len + 1, k, l)'
        /\ kind = "removed" => PlacesOf(len + 1, k, l - 1)'
        /\ kind = "added" => PlacesOf(len + 1, k - 1, l)'
    BY <2>2, <2>6, Zenon
  <2>8. PlacesOf(Len(ops), i - 1, j - 1)'
    <3>1. /\ kind = "unchanged" => i' - 1 = k /\ j' - 1 = l
          /\ kind = "removed" => i' - 1 = k /\ j' - 1 = l - 1
          /\ kind = "added" => i' - 1 = k - 1 /\ j' - 1 = l
      BY <1>3, <2>1, <2>2
    <3>2. \A g, u, v : PlacesOf(g, u, v)' /\ g = Len(ops') /\ u = i' - 1 /\ v = j' - 1
                      => PlacesOf(Len(ops), i - 1, j - 1)'
      BY DEF PlacesOf, LeftPlace, RightPlace
    <3>3. CASE kind = "unchanged"
      BY <2>3, <2>7, <3>1, <3>2, <3>3
    <3>4. CASE kind = "removed"
      BY <2>3, <2>7, <3>1, <3>2, <3>4
    <3>5. CASE kind = "added"
      BY <2>3, <2>7, <3>1, <3>2, <3>5
    <3> QED
      BY <3>3, <3>4, <3>5
  <2>9. ASSUME NEW g \in 1..len PROVE LeadAt(g)'
    <3>1. PICK u, v : /\ PlacesOf(g, u, v)
                      /\ ops[g].kind = "removed" => ops[g].message = left[u]
                      /\ ops[g].kind # "removed" => ops[g].message = right[v]
                      /\ ops[g].kind = "unchanged" => Same(u, v)
      BY <2>4 DEF LeadAt
    <3>2. PlacesOf(g, u, v)' /\ ops'[g] = ops[g]
      BY <2>3, <2>6, <3>1
    <3>3. Same(u, v)' <=> Same(u, v)
      BY <1>3 DEF Same
    <3> QED
      BY <1>3, <3>1, <3>2, <3>3 DEF LeadAt
  <2>10. ASSUME NEW g, g = len + 1 PROVE LeadAt(g)'
    <3>1. PICK u, v : /\ PlacesOf(g, u, v)'
                      /\ kind # "added" => u = k
                      /\ kind # "removed" => v = l
      BY <2>7, <2>10
    <3>2. ops'[g].kind = kind /\ ops'[g].message = s
      BY <2>3, <2>10
    <3>3. kind = "unchanged" => Same(u, v)'
      BY <1>3, <2>1, <3>1 DEF Same
    <3> QED
      BY <1>3, <2>1, <3>1, <3>2, <3>3 DEF LeadAt
  <2>11. \A g \in 1..(len + 1) : LeadAt(g)'
    <3>1. \A g \in 1..(len + 1) : g \in 1..len \/ g = len + 1
      BY <2>3
    <3> QED
      BY <2>9, <2>10, <3>1, Zenon
  <2> QED
    BY <2>3, <2>8, <2>11 DEF Leads
<1>4. CASE KeepBoth
  <2>1. phase = "walk" /\ j \in 1..m /\ right[j] \in Message
    BY <1>0, <1>4, WalkPlace DEF KeepBoth, Both, DiffSound, DiffTypeOK, m
  <2> QED
    BY <1>3, <1>4, <2>1 DEF KeepBoth
<1>5. CASE RemoveLeft
  <2>1. phase = "walk" /\ i \in 1..n /\ left[i] \in Message
    BY <1>0, <1>5, WalkPlace DEF RemoveLeft, DiffSound, DiffTypeOK, n
  <2> QED
    BY <1>3, <1>5, <2>1 DEF RemoveLeft
<1>6. CASE AddRight
  <2>1. phase = "walk" /\ j \in 1..m /\ right[j] \in Message
    BY <1>0, <1>6, WalkPlace DEF AddRight, DiffSound, DiffTypeOK, m
  <2> QED
    BY <1>3, <1>6, <2>1 DEF AddRight
<1>7. CASE Walked \/ UNCHANGED diffVars
  <2>1. UNCHANGED <<left, right, dp, i, j, ops, added, removed>>
    BY <1>7 DEF Walked, diffVars
  <2>2. \A g, u, v : (PlacesOf(g, u, v)' <=> PlacesOf(g, u, v)) /\ (Same(u, v)' <=> Same(u, v))
    BY <2>1 DEF PlacesOf, LeftPlace, RightPlace, Same
  <2>3. \A g : LeadAt(g) => LeadAt(g)'
    BY <2>1, <2>2 DEF LeadAt
  <2>4. phase' # "fill" => phase # "fill"
    BY <1>7 DEF Walked, diffVars
  <2>5. PlacesOf(Len(ops), i - 1, j - 1) => PlacesOf(Len(ops), i - 1, j - 1)'
    BY <2>1 DEF PlacesOf, LeftPlace, RightPlace
  <2> QED
    BY <2>1, <2>3, <2>4, <2>5 DEF Leads
<1> QED
  BY <1>1, <1>2, <1>4, <1>5, <1>6, <1>7 DEF DiffNext
------------------------------------------------------------------------------
(* What the summary is read from: whether the system prompt changed, so    *)
(* far; a run of removals where messages give way to a new one.            *)
Changed(s) == \E k \in 1..Len(s) : s[k].kind # "unchanged" /\ s[k].message \in System
Leading(s) == Len(s) >= 1 /\ s[1] \in System
SameSystem == Leading(left) /\ Leading(right) /\ Same(1, 1)
SystemSeen ==
    /\ Changed(ops) <=>
         ~SameSystem /\ ((Leading(left) /\ i > 1) \/ (Leading(right) /\ j > 1))
    /\ SameSystem => (i = 1 <=> j = 1)

GivesWay(p, q) ==
    /\ p + q + 3 <= n /\ m = p + q + 1
    /\ SubSeq(right, 1, p) = SubSeq(left, 1, p)
    /\ SubSeq(right, p + 2, m) = SubSeq(left, n - q + 1, n)
    /\ \A k \in 1..n : ~Same(k, p + 1)
RunSeen(p) ==
    \/ i = j /\ i <= p + 1 /\ Len(ops) = i - 1
    \/ /\ j = p + 1 /\ p + 1 <= i /\ i <= p + 3 /\ Len(ops) = i - 1
       /\ \A k \in (p + 1)..(i - 1) : ops[k].kind = "removed"
    \/ RemovedRun(ops, p + 1, 3)

SummaryOK ==
    /\ RequestSequence(left) /\ RequestSequence(right)
    /\ removed = 0 => \A k \in 1..Len(ops) : ops[k].kind # "removed"
    /\ phase # "fill" => SystemSeen /\ \A p, q \in 0..n : GivesWay(p, q) => RunSeen(p)

(* Only the first message of a request is its system prompt. *)
LEMMA LeadingIs ==
  ASSUME NEW s \in Seq(Message), RequestSequence(s), NEW k \in 1..Len(s), s[k] \in System
  PROVE  k = 1 /\ Leading(s)
  BY DEF RequestSequence, Leading

(* An operation that follows changes the system prompt or does not. *)
LEMMA ChangedGrows ==
  ASSUME DiffTypeOK, NEW kind \in {"unchanged", "added", "removed"}, NEW s \in Message,
         ops' = Append(ops, Op(kind, s))
  PROVE  Changed(ops') <=> Changed(ops) \/ (kind # "unchanged" /\ s \in System)
<1>1. PICK len : len = Len(ops)
  OBVIOUS
<1>2. /\ len \in Nat /\ Len(ops') = len + 1 /\ \A l \in 1..len : ops'[l] = ops[l]
      /\ ops'[len + 1].kind = kind /\ ops'[len + 1].message = s
  BY <1>1, Appended
<1>3. \A k : k \in 1..(len + 1) <=> k \in 1..len \/ k = len + 1
  BY <1>2
<1> QED
  BY <1>1, <1>2, <1>3, Zenon DEF Changed

(* A kept system prompt is the same one on both sides. *)
LEMMA SystemSeenKeep ==
  ASSUME DiffSound, SummaryOK, SystemSeen, KeepBoth PROVE SystemSeen'
<1>1. /\ n \in Nat /\ m \in Nat /\ i \in 1..n /\ j \in 1..m /\ Same(i, j)
      /\ left[i] \in Message /\ right[j] \in Message /\ UNCHANGED <<left, right>>
      /\ i' = i + 1 /\ j' = j + 1 /\ ops' = Append(ops, Op("unchanged", right[j]))
  BY Lengths, WalkPlace DEF KeepBoth, Both, DiffSound, DiffTypeOK, n, m
<1>2. Changed(ops') <=> Changed(ops)
  BY <1>1, ChangedGrows DEF DiffSound
<1>3. left[i] \in System <=> right[j] \in System
  BY <1>1, DiffAssumption DEF Same
<1>4. /\ Leading(left) => left[1] \in System
      /\ Leading(right) => right[1] \in System
      /\ left[i] \in System => i = 1 /\ Leading(left)
      /\ right[j] \in System => j = 1 /\ Leading(right)
  BY <1>1 DEF SummaryOK, RequestSequence, Leading, DiffSound, DiffTypeOK, n, m
<1>5. (i = 1 /\ Leading(left)) \/ (j = 1 /\ Leading(right)) => SameSystem
  BY <1>1, <1>3, <1>4 DEF SameSystem
<1>6. SameSystem' <=> SameSystem
  BY <1>1 DEF SameSystem, Same
<1>7. i' > 1 /\ j' > 1 /\ i' # 1 /\ j' # 1 /\ (i > 1 \/ i = 1) /\ (j > 1 \/ j = 1)
  BY <1>1
<1> QED
  BY <1>1, <1>2, <1>5, <1>6, <1>7 DEF SystemSeen

(* A removed one has changed: the same one would have been kept. *)
LEMMA SystemSeenRemove ==
  ASSUME DiffSound, SummaryOK, SystemSeen, RemoveLeft PROVE SystemSeen'
<1>1. /\ n \in Nat /\ m \in Nat /\ i \in 1..n /\ j \in 1..(m + 1)
      /\ left[i] \in Message /\ UNCHANGED <<left, right, j>>
      /\ i' = i + 1 /\ ops' = Append(ops, Op("removed", left[i]))
  BY Lengths, WalkPlace DEF RemoveLeft, DiffSound, DiffTypeOK, n, m
<1>2. Changed(ops') <=> Changed(ops) \/ left[i] \in System
  BY <1>1, ChangedGrows DEF DiffSound
<1>3. left[i] \in System <=> i = 1 /\ Leading(left)
  BY <1>1 DEF SummaryOK, RequestSequence, Leading, DiffSound, DiffTypeOK, n
<1>4. SameSystem => i # 1 /\ j # 1
  <2>1. SUFFICES ASSUME SameSystem, i = 1 /\ j = 1 PROVE FALSE
    BY DEF SystemSeen
  <2>2. m >= 1 /\ Same(i, j)
    BY <2>1 DEF SameSystem, Leading, m
  <2> QED
    BY <1>1, <2>1, <2>2 DEF RemoveLeft
<1>5. SameSystem' <=> SameSystem
  BY <1>1 DEF SameSystem, Same
<1>6. i' > 1 /\ i' # 1 /\ (i > 1 <=> i # 1)
  BY <1>1
<1> QED
  BY <1>1, <1>2, <1>3, <1>4, <1>5, <1>6 DEF SystemSeen

(* And so has an added one. *)
LEMMA SystemSeenAdd ==
  ASSUME DiffSound, SummaryOK, SystemSeen, AddRight PROVE SystemSeen'
<1>1. /\ n \in Nat /\ m \in Nat /\ i \in 1..(n + 1) /\ j \in 1..m
      /\ right[j] \in Message /\ UNCHANGED <<left, right, i>>
      /\ j' = j + 1 /\ ops' = Append(ops, Op("added", right[j]))
  BY Lengths, WalkPlace DEF AddRight, DiffSound, DiffTypeOK, n, m
<1>2. Changed(ops') <=> Changed(ops) \/ right[j] \in System
  BY <1>1, ChangedGrows DEF DiffSound
<1>3. right[j] \in System <=> j = 1 /\ Leading(right)
  BY <1>1 DEF SummaryOK, RequestSequence, Leading, DiffSound, DiffTypeOK, m
<1>4. SameSystem => i # 1 /\ j # 1
  <2>1. SUFFICES ASSUME SameSystem, i = 1 /\ j = 1 PROVE FALSE
    BY DEF SystemSeen
  <2>2. n >= 1 /\ Same(i, j)
    BY <2>1 DEF SameSystem, Leading, n
  <2> QED
    BY <1>1, <2>1, <2>2 DEF AddRight
<1>5. SameSystem' <=> SameSystem
  BY <1>1 DEF SameSystem, Same
<1>6. j' > 1 /\ j' # 1 /\ (j > 1 <=> j # 1)
  BY <1>1
<1> QED
  BY <1>1, <1>2, <1>3, <1>4, <1>5, <1>6 DEF SystemSeen
------------------------------------------------------------------------------
(* Where messages give way to a new one, what is before them and after     *)
(* them has its like on the other side.                                    *)
LEMMA GivesWayIs ==
  ASSUME DiffTypeOK, NEW p \in 0..n, NEW q \in 0..n, GivesWay(p, q)
  PROVE  /\ \A k \in 1..p : Same(k, k)
         /\ \A k \in (n - q + 1)..n : k - (n - m) \in (p + 2)..m /\ Same(k, k - (n - m))
         /\ \A k \in 1..n : ~Same(k, p + 1)
<1>1. n \in Nat /\ m \in Nat /\ p \in Nat /\ q \in Nat /\ p + q + 3 <= n /\ m = p + q + 1
  BY Lengths DEF GivesWay
<1>2. ASSUME NEW k \in 1..p PROVE Same(k, k)
  <2>1. \A s \in Seq(Message) : p <= Len(s) => SubSeq(s, 1, p)[k] = s[k]
    BY <1>1
  <2>2. right[k] = left[k]
    BY <1>1, <2>1 DEF GivesWay, DiffTypeOK, n, m
  <2> QED
    BY <2>2 DEF Same
<1>3. ASSUME NEW k \in (n - q + 1)..n
      PROVE  k - (n - m) \in (p + 2)..m /\ Same(k, k - (n - m))
  <2>1. PICK c : c = k - (n - m)
    OBVIOUS
  <2>2. c \in (p + 2)..m /\ k \in Int /\ k - (n - q + 1) = c - (p + 2)
    BY <1>1, <2>1
  <2>3. \A s \in Seq(Message), a, b, g \in Int :
          1 <= a /\ a <= g /\ g <= b /\ b <= Len(s) => SubSeq(s, a, b)[g - a + 1] = s[g]
    OBVIOUS
  <2>4. SubSeq(right, p + 2, m)[c - (p + 2) + 1] = right[c]
    BY <1>1, <2>2, <2>3 DEF DiffTypeOK, m
  <2>5. SubSeq(left, n - q + 1, n)[k - (n - q + 1) + 1] = left[k]
    BY <1>1, <2>2, <2>3 DEF DiffTypeOK, n
  <2>6. right[c] = left[k]
    BY <2>2, <2>4, <2>5 DEF GivesWay
  <2> QED
    BY <2>1, <2>2, <2>6 DEF Same
<1> QED
  BY <1>2, <1>3 DEF GivesWay

(* There the walk removes: the messages after them all find their likes    *)
(* without the new one, and no more could without the old.                 *)
LEMMA MustRemove ==
  ASSUME DiffSound, TableIsBest, phase = "walk", NEW p \in 0..n, NEW q \in 0..n,
         GivesWay(p, q), j = p + 1, i >= p + 1, i <= p + 3
  PROVE  i <= n /\ j <= m /\ ~Same(i, j) /\ dp[<<i + 1, j>>] >= dp[<<i, j + 1>>]
<1>1. n \in Nat /\ m \in Nat /\ p \in Nat /\ q \in Nat /\ p + q + 3 <= n /\ m = p + q + 1
      /\ i \in Nat
  BY WalkPlace DEF GivesWay
<1>2. /\ i \in 1..n /\ i + 1 \in 1..(n + 1) /\ i \in 1..(n + 1)
      /\ j \in 1..m /\ j + 1 \in 1..(m + 1) /\ j \in 1..(m + 1)
  BY <1>1
<1>3. ~Same(i, j)
  BY <1>2, GivesWayIs DEF DiffSound
<1>4. dp[<<i, j + 1>>] <= q
  <2>1. dp[<<i, j + 1>>] <= m + 1 - (j + 1)
    BY <1>2 DEF TableIsBest
  <2> QED
    BY <1>1, <1>2, <2>1, CellsAreNumbers
<1>5. q <= dp[<<i + 1, j>>]
  <2> DEFINE S == (n - q + 1)..n
             f == [k \in S |-> k - (n - m)]
  <2>1. \A k \in S : k - (n - m) \in (p + 2)..m /\ Same(k, k - (n - m))
    BY GivesWayIs DEF DiffSound
  <2>2. Matches(S, f)
    <3>1. \A g \in S : Same(g, f[g])
      BY <2>1
    <3>2. \A g, h \in S : g < h => f[g] < f[h]
      BY <1>1
    <3> QED
      BY <3>1, <3>2 DEF Matches
  <2>3. S \in SUBSET ((i + 1)..n) /\ f \in [S -> j..m]
    <3>1. \A k \in S : k \in (i + 1)..n
      BY <1>1
    <3>2. \A k \in (p + 2)..m : k \in j..m
      BY <1>1
    <3> QED
      BY <2>1, <3>1, <3>2
  <2>4. Cardinality(S) = q
    <3>1. /\ n - q + 1 \in Int /\ n \in Int
          /\ (IF n - q + 1 > n THEN 0 ELSE n - (n - q + 1) + 1) = q
      BY <1>1
    <3> QED
      BY <3>1, FS_Interval
  <2>5. Bounds(i + 1, j)
    <3>1. CellDone(i + 1, j)
      BY DEF CellDone, Reached
    <3> QED
      BY <1>2, <3>1, Zenon DEF TableIsBest
  <2> HIDE DEF S, f
  <2>6. Cardinality(S) <= dp[<<i + 1, j>>]
    BY <2>2, <2>3, <2>5 DEF Bounds
  <2> QED
    BY <2>4, <2>6
<1> QED
  <2>1. dp[<<i, j + 1>>] \in Nat /\ dp[<<i + 1, j>>] \in Nat
    BY <1>2, CellsAreNumbers
  <2>2. i <= n /\ j <= m
    BY <1>1, <1>2
  <2> QED
    BY <1>1, <1>3, <1>4, <1>5, <2>1, <2>2

(* A run once seen stays. *)
LEMMA RunStays ==
  ASSUME DiffTypeOK, NEW kind \in {"unchanged", "added", "removed"}, NEW s \in Message,
         ops' = Append(ops, Op(kind, s)), NEW k \in Nat, k >= 1, RemovedRun(ops, k, 3)
  PROVE  RemovedRun(ops', k, 3)
<1>1. /\ Len(ops) \in Nat /\ Len(ops') = Len(ops) + 1
      /\ \A l \in 1..Len(ops) : ops'[l] = ops[l]
  BY Appended
<1>2. k + 3 - 1 <= Len(ops) /\ \A l \in k..(k + 3 - 1) : ops[l].kind = "removed"
  BY DEF RemovedRun
<1>3. k + 3 - 1 <= Len(ops')
  BY <1>1, <1>2
<1>4. \A l \in k..(k + 3 - 1) : l \in 1..Len(ops)
  BY <1>1, <1>2
<1> QED
  BY <1>1, <1>2, <1>3, <1>4 DEF RemovedRun

(* Up to the first message that gives way everything is kept; then the     *)
(* walk removes until the run is long enough.                              *)
LEMMA RunSeenKeep ==
  ASSUME DiffSound, TableIsBest, KeepBoth, NEW p \in 0..n, NEW q \in 0..n, GivesWay(p, q),
         RunSeen(p)
  PROVE  RunSeen(p)'
<1>1. /\ phase = "walk" /\ n \in Nat /\ m \in Nat /\ i \in 1..n /\ j \in 1..m /\ Same(i, j)
      /\ right[j] \in Message /\ i' = i + 1 /\ j' = j + 1
      /\ ops' = Append(ops, Op("unchanged", right[j])) /\ DiffTypeOK
  <2>1. /\ phase = "walk" /\ i <= n /\ j <= m /\ Same(i, j) /\ i' = i + 1 /\ j' = j + 1
        /\ ops' = Append(ops, Op("unchanged", right[j]))
    BY DEF KeepBoth, Both
  <2>2. n \in Nat /\ m \in Nat /\ i \in 1..(n + 1) /\ j \in 1..(m + 1)
    BY <2>1, WalkPlace
  <2>3. DiffTypeOK /\ right \in Seq(Message)
    BY DEF DiffSound, DiffTypeOK
  <2>4. i \in 1..n /\ j \in 1..m
    BY <2>1, <2>2
  <2>5. right[j] \in Message
    BY <2>3, <2>4 DEF m
  <2> QED
    BY <2>1, <2>2, <2>3, <2>4, <2>5
<1>2. p \in Nat /\ Len(ops) \in Nat /\ Len(ops') = Len(ops) + 1
  BY <1>1, Appended
<1>3. CASE i = j /\ i <= p + 1 /\ Len(ops) = i - 1
  <2>1. i # p + 1
    BY <1>1, <1>3, GivesWayIs
  <2>2. i' = j' /\ i' <= p + 1 /\ Len(ops') = i' - 1
    BY <1>1, <1>2, <1>3, <2>1
  <2> QED
    BY <2>2 DEF RunSeen
<1>4. CASE j = p + 1 /\ p + 1 <= i /\ i <= p + 3
  BY <1>1, <1>4, MustRemove
<1>5. CASE RemovedRun(ops, p + 1, 3)
  <2>1. p + 1 \in Nat /\ p + 1 >= 1
    BY <1>2
  <2>2. RemovedRun(ops', p + 1, 3)
    BY <1>1, <1>5, <2>1, RunStays
  <2> QED
    BY <2>2 DEF RunSeen, RemovedRun
<1> QED
  BY <1>3, <1>4, <1>5 DEF RunSeen

(* Nothing is added before the run is there. *)
LEMMA RunSeenAdd ==
  ASSUME DiffSound, TableIsBest, AddRight, NEW p \in 0..n, NEW q \in 0..n, GivesWay(p, q),
         RunSeen(p)
  PROVE  RunSeen(p)'
<1>1. /\ phase = "walk" /\ n \in Nat /\ m \in Nat /\ i \in 1..(n + 1) /\ j \in 1..m
      /\ right[j] \in Message /\ DiffTypeOK
      /\ i > n \/ (i <= n /\ ~Same(i, j) /\ dp[<<i + 1, j>>] < dp[<<i, j + 1>>])
      /\ ops' = Append(ops, Op("added", right[j]))
  <2>1. /\ phase = "walk" /\ j <= m
        /\ i > n \/ (i <= n /\ ~Same(i, j) /\ dp[<<i + 1, j>>] < dp[<<i, j + 1>>])
        /\ ops' = Append(ops, Op("added", right[j]))
    BY DEF AddRight, Both
  <2>2. n \in Nat /\ m \in Nat /\ i \in 1..(n + 1) /\ j \in 1..(m + 1)
    BY <2>1, WalkPlace
  <2>3. DiffTypeOK /\ right \in Seq(Message)
    BY DEF DiffSound, DiffTypeOK
  <2>4. j \in 1..m
    BY <2>1, <2>2
  <2>5. right[j] \in Message
    BY <2>3, <2>4 DEF m
  <2> QED
    BY <2>1, <2>2, <2>3, <2>4, <2>5
<1>2. p \in Nat /\ p + 3 <= n
  BY <1>1 DEF GivesWay
<1>3. ASSUME j = p + 1 /\ p + 1 <= i /\ i <= p + 3 PROVE FALSE
  <2>1. i <= n /\ j <= m /\ ~Same(i, j) /\ dp[<<i + 1, j>>] >= dp[<<i, j + 1>>]
    BY <1>1, <1>3, MustRemove
  <2>2. /\ i \in 1..(n + 1) /\ i + 1 \in 1..(n + 1)
        /\ j \in 1..(m + 1) /\ j + 1 \in 1..(m + 1)
    BY <1>1, <2>1
  <2>3. dp[<<i + 1, j>>] \in Nat /\ dp[<<i, j + 1>>] \in Nat
    BY <2>2, CellsAreNumbers
  <2> QED
    BY <1>1, <2>1, <2>3
<1>4. CASE i = j /\ i <= p + 1 /\ Len(ops) = i - 1
  <2>1. CASE i = p + 1
    BY <1>2, <1>3, <1>4, <2>1
  <2>2. CASE i \in 1..p
    <3>1. Same(i, j)
      BY <1>1, <1>4, <2>2, GivesWayIs
    <3> QED
      BY <1>1, <1>2, <2>2, <3>1
  <2> QED
    BY <1>1, <1>2, <1>4, <2>1, <2>2
<1>5. CASE RemovedRun(ops, p + 1, 3)
  <2>1. p + 1 \in Nat /\ p + 1 >= 1
    BY <1>2
  <2>2. RemovedRun(ops', p + 1, 3)
    BY <1>1, <1>5, <2>1, RunStays
  <2> QED
    BY <2>2 DEF RunSeen, RemovedRun
<1> QED
  BY <1>3, <1>4, <1>5 DEF RunSeen

(* What is removed belongs to the run. *)
LEMMA RunSeenRemove ==
  ASSUME DiffSound, TableIsBest, RemoveLeft, NEW p \in 0..n, NEW q \in 0..n, GivesWay(p, q),
         RunSeen(p)
  PROVE  RunSeen(p)'
<1>1. /\ phase = "walk" /\ n \in Nat /\ m \in Nat /\ i \in 1..n /\ j \in 1..(m + 1)
      /\ left[i] \in Message /\ DiffTypeOK /\ i' = i + 1 /\ j' = j
      /\ j > m \/ ~Same(i, j)
      /\ ops' = Append(ops, Op("removed", left[i]))
  <2>1. /\ phase = "walk" /\ i <= n /\ i' = i + 1 /\ j' = j
        /\ j > m \/ (j <= m /\ ~Same(i, j))
        /\ ops' = Append(ops, Op("removed", left[i]))
    BY DEF RemoveLeft, Both
  <2>2. n \in Nat /\ m \in Nat /\ i \in 1..(n + 1) /\ j \in 1..(m + 1)
    BY <2>1, WalkPlace
  <2>3. DiffTypeOK /\ left \in Seq(Message)
    BY DEF DiffSound, DiffTypeOK
  <2>4. i \in 1..n
    BY <2>1, <2>2
  <2>5. left[i] \in Message
    BY <2>3, <2>4 DEF n
  <2> QED
    BY <2>1, <2>2, <2>3, <2>4, <2>5
<1>2. p \in Nat /\ p + 1 <= m
  BY <1>1 DEF GivesWay
<1>3. /\ Len(ops) \in Nat /\ Len(ops') = Len(ops) + 1
      /\ \A l \in 1..Len(ops) : ops'[l] = ops[l]
      /\ ops'[Len(ops) + 1].kind = "removed"
  BY <1>1, Appended
<1>4. ASSUME /\ j = p + 1 /\ p + 1 <= i /\ i <= p + 3 /\ Len(ops) = i - 1
             /\ \A k \in (p + 1)..(i - 1) : ops[k].kind = "removed"
      PROVE  RunSeen(p)'
  <2>1. /\ p + 1 <= i' /\ i' - 1 = i /\ Len(ops') = i /\ Len(ops) + 1 = i
        /\ \A k \in (p + 1)..i : k \in (p + 1)..(i - 1) \/ k = i
        /\ \A k \in (p + 1)..(i - 1) : k \in 1..Len(ops)
    BY <1>1, <1>2, <1>3, <1>4
  <2>2. \A k \in (p + 1)..i : ops'[k].kind = "removed"
    BY <1>3, <1>4, <2>1
  <2>3. CASE i <= p + 2
    <3>1. i' <= p + 3
      BY <1>1, <1>2, <2>3
    <3> QED
      BY <1>1, <1>4, <2>1, <2>2, <3>1 DEF RunSeen
  <2>4. CASE i = p + 3
    <3>1. p + 1 + 3 - 1 = i
      BY <1>2, <2>4
    <3>2. p + 1 + 3 - 1 <= Len(ops')
      BY <1>1, <2>1, <3>1
    <3>3. RemovedRun(ops', p + 1, 3)
      BY <2>2, <3>1, <3>2 DEF RemovedRun
    <3> QED
      BY <3>3 DEF RunSeen, RemovedRun
  <2> QED
    BY <1>1, <1>2, <1>4, <2>3, <2>4
<1>5. CASE i = j /\ i <= p + 1 /\ Len(ops) = i - 1
  <2>1. CASE i = p + 1
    <3>1. \A k \in (p + 1)..(i - 1) : ops[k].kind = "removed"
      BY <1>2, <2>1
    <3> QED
      BY <1>2, <1>4, <1>5, <2>1, <3>1
  <2>2. CASE i \in 1..p
    <3>1. Same(i, j) /\ j <= m
      BY <1>1, <1>2, <1>5, <2>2, GivesWayIs
    <3> QED
      BY <1>1, <1>2, <2>2, <3>1
  <2> QED
    BY <1>1, <1>2, <1>5, <2>1, <2>2
<1>6. CASE RemovedRun(ops, p + 1, 3)
  <2>1. p + 1 \in Nat /\ p + 1 >= 1
    BY <1>2
  <2>2. RemovedRun(ops', p + 1, 3)
    BY <1>1, <1>6, <2>1, RunStays
  <2> QED
    BY <2>2 DEF RunSeen, RemovedRun
<1> QED
  BY <1>4, <1>5, <1>6 DEF RunSeen
------------------------------------------------------------------------------
(* Before the walk there is nothing to sum up. *)
LEMMA SummaryInit == DiffInit => SummaryOK
<1> SUFFICES ASSUME DiffInit PROVE SummaryOK
  OBVIOUS
<1>1. RequestSequence(left) /\ RequestSequence(right)
  BY DEF DiffInit, Requests
<1>2. Len(ops) = 0 /\ 1..0 = {}
  BY DEF DiffInit
<1> QED
  BY <1>1, <1>2 DEF DiffInit, SummaryOK

(* What the requests are, and what gives way in them, does not change. *)
LEMMA RequestsStay ==
  ASSUME UNCHANGED <<left, right>>, DiffTypeOK
  PROVE  /\ n' = n /\ m' = m /\ n \in Nat
         /\ RequestSequence(left)' <=> RequestSequence(left)
         /\ RequestSequence(right)' <=> RequestSequence(right)
         /\ \A p, q : GivesWay(p, q)' <=> GivesWay(p, q)
<1>1. \A k, l : Same(k, l)' <=> Same(k, l)
  BY DEF Same
<1> QED
  BY <1>1, Lengths DEF n, m, RequestSequence, GivesWay

(* Every step keeps what the summary is read from true. *)
LEMMA SummaryNext ==
  ASSUME DiffSound, TableIsBest, SummaryOK, [DiffNext]_diffVars PROVE SummaryOK'
<1>0. UNCHANGED <<left, right>> /\ DiffTypeOK
  BY DEF DiffNext, Fill, NextRow, Filled, KeepBoth, RemoveLeft, AddRight, Walked, diffVars,
     DiffSound
<1>1. RequestSequence(left)' /\ RequestSequence(right)'
  BY <1>0, RequestsStay DEF SummaryOK
<1>2. removed' = 0 => \A k \in 1..Len(ops') : ops'[k].kind # "removed"
  <2>1. ASSUME NEW kind \in {"unchanged", "added"}, NEW s \in Message,
               ops' = Append(ops, Op(kind, s)), removed' = removed
        PROVE  removed' = 0 => \A k \in 1..Len(ops') : ops'[k].kind # "removed"
    <3>1. /\ Len(ops) \in Nat /\ Len(ops') = Len(ops) + 1
          /\ \A l \in 1..Len(ops) : ops'[l] = ops[l]
          /\ ops'[Len(ops) + 1].kind = kind
      BY <1>0, <2>1, Appended
    <3>2. \A k \in 1..Len(ops') : k \in 1..Len(ops) \/ k = Len(ops) + 1
      BY <3>1
    <3> QED
      BY <2>1, <3>1, <3>2 DEF SummaryOK
  <2>2. CASE KeepBoth
    <3>1. right[j] \in Message
      BY <1>0, <2>2, WalkPlace DEF KeepBoth, Both, DiffTypeOK, m
    <3> QED
      BY <2>1, <2>2, <3>1 DEF KeepBoth
  <2>3. CASE AddRight
    <3>1. right[j] \in Message
      BY <1>0, <2>3, WalkPlace DEF AddRight, DiffTypeOK, m
    <3> QED
      BY <2>1, <2>3, <3>1 DEF AddRight
  <2>4. CASE RemoveLeft
    BY <1>0, <2>4 DEF RemoveLeft, DiffTypeOK
  <2>5. CASE Fill \/ NextRow \/ Filled \/ Walked \/ UNCHANGED diffVars
    BY <2>5 DEF Fill, NextRow, Filled, Walked, diffVars, SummaryOK
  <2> QED
    BY <2>2, <2>3, <2>4, <2>5 DEF DiffNext
<1>3. ASSUME phase' # "fill"
      PROVE  SystemSeen' /\ \A p, q \in 0..n' : GivesWay(p, q)' => RunSeen(p)'
  <2>1. n' = n /\ n \in Nat /\ m \in Nat /\ \A p, q : GivesWay(p, q)' <=> GivesWay(p, q)
    BY <1>0, RequestsStay, Lengths
  <2>2. CASE Filled
    <3>1. ops' = << >> /\ i' = 1 /\ j' = 1
      BY <2>2 DEF Filled, DiffSound, PlaceOK
    <3>2. SystemSeen'
      <4>1. Len(ops') = 0 /\ 1..0 = {}
        BY <3>1
      <4>2. ~Changed(ops')
        BY <4>1 DEF Changed
      <4> QED
        BY <3>1, <4>2 DEF SystemSeen
    <3>3. ASSUME NEW p \in 0..n PROVE RunSeen(p)'
      <4>1. Len(ops') = i' - 1 /\ i' = j' /\ i' <= p + 1
        BY <2>1, <3>1
      <4> QED
        BY <4>1 DEF RunSeen
    <3> QED
      BY <2>1, <3>2, <3>3
  <2>3. CASE KeepBoth \/ RemoveLeft \/ AddRight
    <3>1. SystemSeen /\ \A p, q \in 0..n : GivesWay(p, q) => RunSeen(p)
      BY <2>3 DEF SummaryOK, KeepBoth, Both, RemoveLeft, AddRight
    <3>2. SystemSeen'
      BY <2>3, <3>1, SystemSeenKeep, SystemSeenRemove, SystemSeenAdd
    <3>3. ASSUME NEW p \in 0..n, NEW q \in 0..n, GivesWay(p, q) PROVE RunSeen(p)'
      <4>1. RunSeen(p)
        BY <3>1, <3>3
      <4> QED
        BY <2>3, <3>3, <4>1, RunSeenKeep, RunSeenRemove, RunSeenAdd
    <3> QED
      BY <2>1, <3>2, <3>3
  <2>4. CASE Walked \/ UNCHANGED diffVars
    <3>1. UNCHANGED <<left, right, dp, i, j, ops, added, removed>> /\ phase # "fill"
      BY <1>3, <2>4 DEF Walked, diffVars
    <3>2. SystemSeen' <=> SystemSeen
      BY <3>1 DEF SystemSeen, Changed, SameSystem, Leading, Same
    <3>3. \A p : RunSeen(p)' <=> RunSeen(p)
      BY <3>1 DEF RunSeen, RemovedRun
    <3> QED
      BY <2>1, <3>1, <3>2, <3>3 DEF SummaryOK
  <2>5. CASE Fill \/ NextRow
    BY <1>3, <2>5 DEF Fill, NextRow
  <2> QED
    BY <2>2, <2>3, <2>4, <2>5 DEF DiffNext
<1> QED
  BY <1>1, <1>2, <1>3 DEF SummaryOK

(* At the end, then, the summary is true of the two requests. *)
LEMMA DoneIsTrue ==
  ASSUME DiffSound, TableIsBest, KeepsOK, SummaryOK, phase = "done" PROVE SummaryIsTrue
<1>0. /\ n \in Nat /\ m \in Nat /\ DOMAIN left = 1..n /\ DOMAIN right = 1..m
      /\ DOMAIN ops = 1..Len(ops) /\ i = n + 1 /\ j = m + 1 /\ DiffTypeOK
  BY Lengths DEF DiffSound, DiffTypeOK, n, m, KeepsOK
<1>1. ASSUME IsPrefix(Keys(left), Keys(right))
      PROVE  removed = 0 /\ ~Summary(ops).compactionSuspected
  <2>1. /\ Keys(left) \in Seq(Nat) /\ Len(Keys(left)) = n
        /\ Keys(right) \in Seq(Nat) /\ Len(Keys(right)) = m
    <3>1. ASSUME NEW s \in Seq(Message)
          PROVE  Keys(s) \in Seq(Nat) /\ Len(Keys(s)) = Len(s)
      <4>1. DOMAIN s = 1..Len(s) /\ Len(s) \in Nat /\ \A k \in 1..Len(s) : KeyOf[s[k]] \in Nat
        BY DiffAssumption
      <4> QED
        BY <4>1 DEF Keys
    <3> QED
      BY <1>0, <3>1 DEF DiffTypeOK, n, m
  <2>2. n <= m /\ SubSeq(Keys(left), 1, n) = SubSeq(Keys(right), 1, n)
    BY <1>1, <2>1 DEF IsPrefix
  <2>3. ASSUME NEW k \in 1..n PROVE Same(k, k)
    <3>1. \A s \in Seq(Nat) : n <= Len(s) => SubSeq(s, 1, n)[k] = s[k]
      BY <1>0
    <3>2. Keys(left)[k] = Keys(right)[k]
      BY <1>0, <2>1, <2>2, <3>1
    <3>3. k \in 1..m
      BY <1>0, <2>2
    <3> QED
      BY <1>0, <3>2, <3>3 DEF Keys, Same
  <2>4. n <= dp[<<1, 1>>]
    <3> DEFINE S == 1..n
               f == [k \in S |-> k]
    <3>1. Matches(S, f) /\ S \in SUBSET (1..n)
      BY <1>0, <2>3 DEF Matches
    <3>2. f \in [S -> 1..m]
      BY <1>0, <2>2
    <3>3. Cardinality(S) = n
      <4>1. 1 \in Int /\ n \in Int /\ (IF 1 > n THEN 0 ELSE n - 1 + 1) = n
        BY <1>0
      <4> QED
        BY <4>1, FS_Interval
    <3>4. Bounds(1, 1)
      <4>1. 1 \in 1..(n + 1) /\ 1 \in 1..(m + 1) /\ CellDone(1, 1)
        BY <1>0 DEF CellDone, Reached
      <4> QED
        BY <4>1 DEF TableIsBest
    <3> HIDE DEF S, f
    <3>5. Cardinality(S) <= dp[<<1, 1>>]
      BY <3>1, <3>2, <3>4 DEF Bounds
    <3> QED
      BY <3>3, <3>5
  <2>5. removed = 0
    <3>1. dp[<<n + 1, m + 1>>] = 0
      BY <1>0 DEF DiffSound, TableOK
    <3>2. Kept \in Int /\ removed \in Nat
      BY DEF DiffSound, DiffTypeOK, Kept
    <3>3. Kept + dp[<<i, j>>] = dp[<<1, 1>>] /\ Kept + removed = i - 1
      BY DEF DiffSound, WalkStaysOptimal
    <3>4. Kept = dp[<<1, 1>>] /\ Kept + removed = n
      BY <1>0, <3>1, <3>2, <3>3
    <3> QED
      BY <1>0, <2>4, <3>2, <3>4
  <2>6. \A k \in DOMAIN ops : ~RemovedRun(ops, k, 3)
    <3>1. \A k \in 1..Len(ops) : ops[k].kind # "removed" /\ k \in k..(k + 3 - 1)
      BY <2>5 DEF SummaryOK
    <3> QED
      BY <1>0, <3>1 DEF RemovedRun
  <2> QED
    BY <2>5, <2>6 DEF Summary
<1>2. Summary(ops).systemChanged <=> SystemKeys(left) # SystemKeys(right)
  <2>1. Summary(ops).systemChanged <=> Changed(ops)
    BY <1>0 DEF Summary, Changed
  <2>2. /\ Leading(left) => i > 1 /\ left[1] \in System
        /\ Leading(right) => j > 1 /\ right[1] \in System
    BY <1>0 DEF Leading, n, m
  <2>3. Changed(ops) <=> ~SameSystem /\ (Leading(left) \/ Leading(right))
    BY <2>2 DEF SummaryOK, SystemSeen
  <2>4. SystemKeys(left) = IF Leading(left) THEN {KeyOf[left[1]]} ELSE {}
    BY <1>0 DEF SystemKeys, Leading, SummaryOK, RequestSequence, n
  <2>5. SystemKeys(right) = IF Leading(right) THEN {KeyOf[right[1]]} ELSE {}
    BY <1>0 DEF SystemKeys, Leading, SummaryOK, RequestSequence, m
  <2>6. SystemKeys(left) = SystemKeys(right) <=>
          (~Leading(left) /\ ~Leading(right)) \/ SameSystem
    BY <2>4, <2>5 DEF SameSystem, Same
  <2> QED
    BY <2>1, <2>3, <2>6 DEF SameSystem
<1>3. ASSUME Compacted PROVE Summary(ops).compactionSuspected
  <2>1. PICK p \in 0..n, q \in 0..n : GivesWay(p, q)
    BY <1>0, <1>3 DEF Compacted, GivesWay
  <2>2. RunSeen(p)
    BY <2>1 DEF SummaryOK
  <2>3. p \in Nat /\ p + q + 3 <= n /\ m = p + q + 1 /\ q \in Nat
    BY <1>0, <2>1 DEF GivesWay
  <2>4. RemovedRun(ops, p + 1, 3)
    <3>1. i # j /\ j # p + 1
      BY <1>0, <2>3
    <3> QED
      BY <2>2, <3>1 DEF RunSeen
  <2>5. p + 1 \in 1..Len(ops)
    <3>1. Len(ops) \in Nat /\ p + 1 + 3 - 1 <= Len(ops)
      BY <1>0, <2>4 DEF RemovedRun, DiffTypeOK
    <3> QED
      BY <2>3, <3>1
  <2> QED
    BY <1>0, <2>4, <2>5 DEF Summary
<1> QED
  BY <1>1, <1>2, <1>3 DEF SummaryIsTrue

(* For any two requests the operations lead from one to the other, keep a  *)
(* longest common subsequence of their keys, and the summary is true of    *)
(* the two.                                                                *)
THEOREM DiffIsRight == DiffSpec => []DiffIsTrue
<1>1. DiffInit => DiffSound /\ TableIsBest /\ KeepsOK /\ Leads /\ SummaryOK
  BY DiffSoundInit, TableIsBestInit, KeepsInit, LeadsInit, SummaryInit
<1>2. DiffSound /\ TableIsBest /\ KeepsOK /\ Leads /\ SummaryOK /\ [DiffNext]_diffVars
        => (DiffSound /\ TableIsBest /\ KeepsOK /\ Leads /\ SummaryOK)'
  BY DiffSoundNext, TableIsBestNext, KeepsNext, LeadsNext, SummaryNext
<1>3. DiffSound /\ TableIsBest /\ KeepsOK /\ Leads /\ SummaryOK => DiffIsTrue
  <2> SUFFICES ASSUME DiffSound, TableIsBest, KeepsOK, Leads, SummaryOK PROVE DiffIsTrue
    OBVIOUS
  <2>1. OpsLeadAcross
    BY LeadsIs DEF DiffSound
  <2>2. DiffIsShortest
    BY DoneIsShortest
  <2>3. SummaryIsTrue
    BY DoneIsTrue DEF SummaryIsTrue
  <2> QED
    BY <2>1, <2>2, <2>3 DEF DiffIsTrue
<1> QED
  BY <1>1, <1>2, <1>3, PTL DEF DiffSpec
------------------------------------------------------------------------------
(* The request tab, and the viewer as a whole. *)

(* Its sections start with their types. *)
LEMMA SectionsTypedInit == Fold!SectionsInit => Fold!SectionsTypeOK
<1> SUFFICES ASSUME Fold!SectionsInit PROVE Fold!SectionsTypeOK
  OBVIOUS
<1>1. PICK c \in Captured : kept = c[1] /\ own5 = c[2]
  BY DEF Fold!SectionsInit
<1>2. kept \in Thread /\ own5 \in SUBSET Fold!Named
  BY <1>1, ViewerAssumption
<1> QED
  BY <1>2 DEF Fold!SectionsInit, Fold!SectionsTypeOK

(* What the user folds and filters keeps its types. *)
LEMMA SectionsTypedNext ==
  ASSUME Fold!SectionsTypeOK, Fold!SectionsNext \/ UNCHANGED Fold!sectionVars
  PROVE  Fold!SectionsTypeOK'
<1>1. ASSUME NEW c \in Captured, Fold!ShowEvent(c[1], c[2]) PROVE Fold!SectionsTypeOK'
  <2>1. c[1] \in Thread /\ c[2] \in SUBSET Fold!Named
    BY ViewerAssumption
  <2> QED
    BY <1>1, <2>1 DEF Fold!ShowEvent, Fold!SectionsTypeOK, Fold!NoClick
<1>2. ASSUME NEW p \in Fold!Part, Fold!TogglePart(p) PROVE Fold!SectionsTypeOK'
  BY <1>2 DEF Fold!TogglePart, Fold!SectionsTypeOK, Fold!SymDiff, Fold!NoClick
<1>3. ASSUME NEW b \in Kind, Fold!ToggleBlock(b) PROVE Fold!SectionsTypeOK'
  BY <1>3 DEF Fold!ToggleBlock, Fold!SectionsTypeOK, Fold!SymDiff, Fold!NoClick
<1>4. CASE Fold!ToggleGroupRounds
  BY <1>4 DEF Fold!ToggleGroupRounds, Fold!SectionsTypeOK, Fold!NoClick
<1>5. ASSUME NEW k \in Fold!Key, Fold!ToggleCollapsed(k) PROVE Fold!SectionsTypeOK'
  <2>1. Fold!Folded(k) \in BOOLEAN
    BY DEF Fold!Folded, Fold!DefaultCollapsed
  <2> HIDE DEF Fold!Key
  <2>2. own4' \in [Fold!Key -> {"unset", "folded", "open"}]
    BY <1>5 DEF Fold!ToggleCollapsed, Fold!SectionsTypeOK
  <2>3. noted' \in [key : Fold!Key, folded : BOOLEAN]
    BY <1>5, <2>1 DEF Fold!ToggleCollapsed
  <2> QED
    BY <1>5, <2>2, <2>3 DEF Fold!ToggleCollapsed, Fold!SectionsTypeOK
<1>6. CASE UNCHANGED Fold!sectionVars
  BY <1>6 DEF Fold!sectionVars, Fold!SectionsTypeOK, Fold!NoClick
<1> QED
  BY <1>1, <1>2, <1>3, <1>4, <1>5, <1>6 DEF Fold!SectionsNext

(* A step of the viewer on this page. *)
LEMMA SectionsStep ==
  ASSUME Shows("sections"), [Next]_vars
  PROVE  page' = page /\ (Fold!SectionsNext \/ UNCHANGED Fold!sectionVars)
  BY DEF Shows, Next, vars, shared, Fold!sectionVars

(* The types of this page hold in every state. *)
LEMMA SectionsKept == Spec => [](Shows("sections") => Fold!SectionsTypeOK)
<1>1. Init => (Shows("sections") => Fold!SectionsTypeOK)
  BY SectionsTypedInit DEF Init, Shows
<1>2. (Shows("sections") => Fold!SectionsTypeOK) /\ [Next]_vars
      => (Shows("sections") => Fold!SectionsTypeOK)'
  <2> SUFFICES ASSUME (Shows("sections"))', Shows("sections") => Fold!SectionsTypeOK, [Next]_vars
               PROVE  Fold!SectionsTypeOK'
    OBVIOUS
  <2>1. Shows("sections")
    BY DEF Shows, Next, vars
  <2> QED
    BY <2>1, SectionsStep, SectionsTypedNext
<1> QED
  BY <1>1, <1>2, PTL DEF Spec

(* The rounds on the page are the messages that are shown, in their order, *)
(* cut at each question and nowhere else, and a filter merges two of them  *)
(* only if it hides a question: for threads of any length and any filter.  *)
THEOREM RoundsFollow == Spec => []RoundsFollowQuestions
<1>1. (Shows("sections") => Fold!SectionsTypeOK) => RoundsFollowQuestions
  <2> SUFFICES ASSUME Fold!SectionsTypeOK PROVE Fold!RoundsFollowQuestions
    BY DEF RoundsFollowQuestions
  <2>1. kept \in Seq(Msg)
    BY ViewerAssumption DEF Fold!SectionsTypeOK, Msg
  <2> QED
    BY <2>1, RoundsOfThread
<1> QED
  BY <1>1, SectionsKept, PTL

(* The panels that have their own variables keep to their specifications   *)
(* within the viewer: it starts them, and takes no step of theirs that     *)
(* they do not take.                                                       *)
THEOREM PanelsKeepToTheirSpecs == Spec => CaseSpec /\ CurlSpec /\ LaunchSpec /\ DiffSpec
<1>1. Init => CaseInit /\ CurlInit /\ LaunchInit /\ DiffInit
  BY DEF Init
<1>2. [Next]_vars => [CaseNext]_caseVars
  BY DEF Next, vars, own
<1>3. [Next]_vars => [CurlNext]_curlVars
  BY DEF Next, vars, own
<1>4. [Next]_vars => [LaunchNext]_launchVars
  BY DEF Next, vars, own
<1>5. [Next]_vars => [DiffNext]_diffVars
  BY DEF Next, vars, own
<1> QED
  BY <1>1, <1>2, <1>3, <1>4, <1>5, PTL DEF Spec, CaseSpec, CurlSpec, LaunchSpec, DiffSpec

(* Every page keeps its types: no call is kept for a slot that is free, no *)
(* draft for a row that is gone, no answer for a fetch that is over.       *)
THEOREM ViewerIsTyped == Spec => []ViewerTypeOK
<1>1. CurlSpec => []CurlSheetTypeOK
  <2>1. CurlSound => CurlSheetTypeOK
    BY DEF CurlSound
  <2> QED
    BY <2>1, CurlSoundInit, CurlSoundNext, PTL DEF CurlSpec
<1>2. /\ CasePanelTypeOK /\ CurlSheetTypeOK /\ LaunchPanelTypeOK /\ DiffTypeOK
      /\ Shows("runner") => RunnerSound
      /\ Shows("desktop") => DesktopSound
      /\ Shows("event") => EventSound
      /\ Shows("list") => ListSound
      /\ Shows("hooks") => HookSound
      /\ Shows("sections") => Fold!SectionsTypeOK
      /\ Shows("flow") => FlowSound
      => ViewerTypeOK
  BY DEF ViewerTypeOK, RunnerSound, DesktopSound, EventSound, ListSound, HookSound, FlowSound
<1> QED
  BY <1>1, <1>2, PanelsKeepToTheirSpecs, PanelIsTyped, LaunchIsTyped, DiffIsTyped, RunnerKept,
     DesktopKept, EventKept, ListKept, HookKept, SectionsKept, FlowKept, PTL

(* At rest the pages show what the server has: the runner offers no        *)
(* session whose close has settled, the Codex Desktop panel what the       *)
(* config needs, the sidebar the sessions there are, and the hook card     *)
(* what a launch wires, but for what was added.                            *)
THEOREM PagesShowTheServer == Spec => []PagesAreCurrent
<1>1. /\ Shows("runner") => Runner!ClosedSessionsLeaveTheList
      /\ Shows("desktop") => Desktop!QuietStatusIsCurrent
      /\ Shows("list") => List!QuietSidebarIsCurrent
      /\ Shows("hooks") => Capture!OnlyAddsAreUnseen
      => PagesAreCurrent
  BY DEF PagesAreCurrent
<1> QED
  BY <1>1, ClosedLeave, QuietStatus, QuietSidebar, QuietCard, PTL
==============================================================================
