------------------------------ MODULE HookPanel ------------------------------
(***************************************************************************)
(* The hook capture page, on the card of one client: its events, switched, *)
(* removed and added.  The switches of a card wait for its requests; its   *)
(* trash buttons and its input do not wait for each other.                 *)
(***************************************************************************)
EXTENDS HookEvents, Query

CONSTANTS Slot, NoHookName, FetchesFail

VARIABLES
    defs,    \* query ["hook-events"]
    calls,   \* slot -> request under way
    alarm,   \* the error shown for the add, by what became of the add
    unseen   \* history: the added events that the shown list misses

hookPanelVars == <<hooks, defs, calls, alarm, unseen>>

Free == [kind |-> "free", hook |-> NoHookName, on |-> FALSE, phase |-> "idle",
         last |-> FALSE, sure |-> FALSE]
(* A request that was served is remembered by its kind only. *)
Calls == [kind : {"toggle", "remove", "add"}, hook : Hook \union {NoHookName},
          on : BOOLEAN,
          phase : {"sent", "answered", "refetching"}, last : BOOLEAN,
          sure : BOOLEAN]

HookPanelTypeOK ==
    /\ HooksTypeOK /\ defs \in Entries([Hook -> HookRow], Slot)
    /\ calls \in [Slot -> Calls \union {Free}]
    /\ alarm \in {"none", "refused", "taken"}
    /\ unseen \subseteq Hook

HookPanelInit ==
    /\ hooks \in [Hook -> {NoHook, [source |-> "seed", enabled |-> TRUE],
                           [source |-> "user", enabled |-> TRUE]}]
    /\ defs = Fetched(NewEntry)
    /\ calls = [k \in Slot |-> Free] /\ alarm = "none" /\ unseen = {}

DefsServed ==
    /\ defs.flight = "asked" /\ defs' = Served(defs, hooks)
    /\ UNCHANGED <<hooks, calls, alarm, unseen>>

Ended == [k \in Slot |-> IF calls[k].phase = "refetching" /\ k \in defs.waiting
                         THEN Free ELSE calls[k]]

DefsArrive ==
    /\ defs.flight = "answered" /\ defs' = Arrived(defs) /\ calls' = Ended
    /\ unseen' = {h \in unseen : defs.answer[h] # hooks[h]}
    /\ UNCHANGED <<hooks, alarm>>

DefsFail ==
    /\ FetchesFail /\ defs.flight # "idle" /\ defs' = Lost(defs)
    /\ calls' = Ended /\ UNCHANGED <<hooks, alarm, unseen>>

Focus ==
    /\ defs.flight = "idle" /\ defs' = Fetched(defs)
    /\ UNCHANGED <<hooks, calls, alarm, unseen>>
------------------------------------------------------------------------------
Shown(h) == defs.data # NoData /\ defs.data[h].source # "none"

(* A card only follows the last of its requests of one kind.  sure, for    *)
(* the property below: the list it was made from was not known to be old.  *)
Pending(kind) == \E k \in Slot : calls[k].kind = kind /\ calls[k].last
(* Mutant: the switches do not wait. *)
NeverBusy == FALSE

Busy == Pending("toggle") \/ Pending("remove")

Mutate(kind, h, on) ==
    \E k \in Slot :
      /\ calls[k] = Free
      /\ calls' = [j \in Slot |->
           IF j = k THEN [kind |-> kind, hook |-> h, on |-> on,
                          phase |-> "sent", last |-> TRUE,
                          sure |-> /\ kind = "toggle" /\ ~defs.failed /\ h \notin unseen
                                    /\ \A i \in Slot : calls[i].kind # "remove"]
           ELSE [calls[j] EXCEPT !.last = @ /\ calls[j].kind # kind]]

Toggle(h) ==
    /\ Shown(h) /\ ~Busy /\ Mutate("toggle", h, ~defs.data[h].enabled)
    /\ UNCHANGED <<hooks, defs, alarm, unseen>>

Remove(h) ==
    /\ Shown(h) /\ defs.data[h].source # "seed" /\ Mutate("remove", h, FALSE)
    /\ UNCHANGED <<hooks, defs, alarm, unseen>>

(* Whatever is typed; Enter sends it even while the button is disabled.    *)
SubmitAdd(h) ==
    /\ ~Loading(defs) /\ Mutate("add", h, TRUE) /\ alarm' = "none"
    /\ UNCHANGED <<hooks, defs, unseen>>
------------------------------------------------------------------------------
Refused(k) ==
    \/ calls[k].kind = "toggle" /\ ~Listed(calls[k].hook)
    \/ calls[k].kind = "remove" /\ hooks[calls[k].hook].source # "user"

Serve(k) ==
    /\ calls[k].phase = "sent" /\ ~Refused(k)
    /\ \/ /\ calls[k].kind = "toggle" /\ unseen' = unseen
          /\ SetHookEventEnabled(calls[k].hook, calls[k].on)
       \/ /\ calls[k].kind = "remove" /\ unseen' = unseen \ {calls[k].hook}
          /\ DeleteHookEvent(calls[k].hook)
       \/ /\ calls[k].kind = "add" /\ unseen' = unseen \union {calls[k].hook}
          /\ AddHookEvent(calls[k].hook)
    /\ calls' = [j \in Slot |->
         IF j = k THEN [Free EXCEPT !.kind = calls[k].kind, !.last = calls[k].last,
                                    !.phase = "answered"]
         ELSE [calls[j] EXCEPT !.sure = @ /\ calls[j].hook \notin unseen']]
    /\ UNCHANGED <<defs, alarm>>

(* The server says no, or cannot be reached. *)
Refuse(k) ==
    /\ calls[k].phase = "sent" /\ (Refused(k) \/ FetchesFail)
    /\ calls' = [calls EXCEPT ![k] = Free]
    /\ alarm' = IF calls[k].kind = "add" /\ calls[k].last THEN "refused" ELSE alarm
    /\ UNCHANGED <<hooks, defs, unseen>>

(* The answer to an add is 204, without the JSON that postJSON then reads: *)
(* to the panel it has failed.  The other two ask the list anew.           *)
Answer(k) ==
    /\ calls[k].phase = "answered"
    /\ IF calls[k].kind = "add"
       THEN /\ alarm' = IF calls[k].last THEN "taken" ELSE alarm
            /\ calls' = [calls EXCEPT ![k] = Free] /\ UNCHANGED defs
       ELSE /\ defs' = Invalidated(defs, k)
            /\ calls' = [j \in Slot |->
                 IF j = k THEN [calls[k] EXCEPT !.phase = "refetching"]
                 ELSE IF j \in defs.waiting \ defs'.waiting THEN Free
                 ELSE calls[j]]
            /\ UNCHANGED alarm
    /\ UNCHANGED <<hooks, unseen>>

HookPanelNext ==
    \/ DefsServed \/ DefsArrive \/ DefsFail \/ Focus
    \/ \E h \in Hook : Toggle(h) \/ Remove(h) \/ SubmitAdd(h)
    \/ \E k \in Slot : Serve(k) \/ Refuse(k) \/ Answer(k)

HookPanelSpec == HookPanelInit /\ [][HookPanelNext]_hookPanelVars
------------------------------------------------------------------------------
(* When nothing is under way the card shows what a launch will wire, but   *)
(* for the events that were added to it.                                   *)
OnlyAddsAreUnseen ==
    (/\ defs.data # NoData /\ defs.flight = "idle" /\ ~defs.failed
     /\ \A k \in Slot : calls[k].phase # "answered")
    => \A h \in Hook \ unseen : defs.data[h] = hooks[h]

(* A click on a switch turns the event round, however fast it follows      *)
(* others, unless the card was behind by an add or by a failed fetch, or a *)
(* removal was under way, whose answer ends the wait of another request.   *)
SwitchFlips ==
    \A k \in Slot :
      (/\ calls[k].kind = "toggle" /\ calls[k].phase = "sent"
       /\ calls'[k].phase = "answered" /\ calls[k].sure)
      => hooks'[calls[k].hook] # hooks[calls[k].hook]

(* The test TestHookEventsAPI: a new event is added with 204, no error; so *)
(* the panel raises no alarm over an event the server took.                *)
TakenAddIsNoError == alarm # "taken"
==============================================================================
