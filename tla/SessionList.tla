----------------------------- MODULE SessionList -----------------------------
(***************************************************************************)
(* The sidebar: the polled list of sessions, renamed and deleted in their  *)
(* rows, next to the one that is open.  A row goes away with its session,  *)
(* with the filter or a folded group, and with every row when a poll fails.*)
(***************************************************************************)
EXTENDS FiniteSets, Query

CONSTANTS Session, Title, NoTitle, NoSession, Slot, FetchesFail

VARIABLES
    titles,    \* the server's sessions: session -> title, or Gone
    sessions,  \* query ["sessions"]
    hidden,    \* sessions filtered out or in a folded group
    opened,    \* the session in the URL
    editing,   \* state of the rows: those whose title is being edited
    calls,     \* slot -> request under way
    excused    \* history: sessions whose row went away while they were being
               \* deleted, or which were opened then or later

listVars == <<titles, sessions, hidden, opened, editing, calls, excused>>

Gone == "gone"
Free == [kind |-> "free", id |-> NoSession, title |-> NoTitle,
         phase |-> "idle", here |-> FALSE, selected |-> FALSE]
(* What no one asks of a request any more is dropped from it: here and     *)
(* selected are kept for deletes only, the arguments until it is served.   *)
Calls == [kind : {"rename", "delete"}, id : Session \union {NoSession},
          title : Title \union {NoTitle},
          phase : {"sent", "answered", "refetching", "cut"},
          here : BOOLEAN, selected : BOOLEAN]
Titles == Title \union {NoTitle}
Lists == UNION {[S -> Titles] : S \in SUBSET Session}

SessionListTypeOK ==
    /\ titles \in [Session -> Titles \union {Gone}]
    /\ sessions \in Entries(Lists, Slot)
    /\ {hidden, editing, excused} \subseteq SUBSET Session
    /\ opened \in Session \union {NoSession}
    /\ calls \in [Slot -> Calls \union {Free}]

ListInit ==
    /\ titles \in [Session -> {NoTitle}] /\ sessions = Fetched(NewEntry)
    /\ hidden = {} /\ opened \in Session \union {NoSession}
    /\ editing = {}
    /\ calls = [k \in Slot |-> Free] /\ excused = {}
------------------------------------------------------------------------------
Rows(q, h) ==
    IF q.data = NoData \/ q.failed THEN {} ELSE DOMAIN q.data \ h
Row(s) == s \in Rows(sessions, hidden)
Deleting(s) ==
    \E k \in Slot : calls[k].kind = "delete" /\ calls[k].id = s

(* A row that is not rendered any more loses what is typed in it and the   *)
(* callback of what it sent, but who waited for the fetch is called first. *)
Render(q, h) ==
    /\ sessions' = q /\ hidden' = h
    /\ editing' = editing \intersect Rows(q, h)
    /\ calls' = [k \in Slot |->
          [calls[k] EXCEPT !.here = @ /\ \/ calls[k].id \in Rows(q, h)
                                         \/ k \in sessions.waiting \ q.waiting]]
    /\ excused' = excused \union {s \in Session : \E k \in Slot :
          /\ calls[k].kind = "delete" /\ calls[k].id = s
          /\ calls[k].here /\ ~calls'[k].here}

ListServed ==
    /\ sessions.flight = "asked"
    /\ sessions' = Served(sessions, [s \in {t \in Session : titles[t] # Gone} |->
                                       titles[s]])
    /\ UNCHANGED <<titles, hidden, opened, editing, calls, excused>>

Poll ==
    /\ sessions.flight = "idle" /\ sessions' = Fetched(sessions)
    /\ UNCHANGED <<titles, hidden, opened, editing, calls, excused>>

ListArrives ==
    /\ sessions.flight = "answered" /\ Render(Arrived(sessions), hidden)
    /\ UNCHANGED <<titles, opened>>

ListFails ==
    /\ FetchesFail /\ sessions.flight # "idle" /\ Render(Lost(sessions), hidden)
    /\ UNCHANGED <<titles, opened>>

Filter(h) == Render(sessions, h) /\ UNCHANGED <<titles, opened>>
------------------------------------------------------------------------------
(* The user. *)

Open(s) ==
    /\ Row(s) /\ s \notin editing
    /\ opened' = s
    /\ excused' = IF Deleting(s) \/ titles[s] = Gone THEN excused \union {s}
                  ELSE excused
    /\ UNCHANGED <<titles, sessions, hidden, editing, calls>>

StartEdit(s) ==
    /\ Row(s) /\ s \notin editing /\ editing' = editing \union {s}
    /\ UNCHANGED <<titles, sessions, hidden, opened, calls, excused>>

CancelEdit(s) ==
    /\ s \in editing /\ editing' = editing \ {s}
    /\ UNCHANGED <<titles, sessions, hidden, opened, calls, excused>>

Send(kind, s, t) ==
    \E k \in Slot :
      /\ calls[k] = Free
      /\ calls' = [calls EXCEPT ![k] =
            [kind |-> kind, id |-> s, title |-> t, phase |-> "sent",
             here |-> kind = "delete", selected |-> kind = "delete" /\ s = opened]]

(* Whatever was typed; an empty title takes the old one away. *)
Save(s, t) ==
    /\ s \in editing /\ editing' = editing \ {s} /\ Send("rename", s, t)
    /\ UNCHANGED <<titles, sessions, hidden, opened, excused>>

Remove(s) ==
    /\ Row(s) /\ s \notin editing /\ Send("delete", s, NoTitle)
    /\ UNCHANGED <<titles, sessions, hidden, opened, editing, excused>>
------------------------------------------------------------------------------
(* The server, and the answers. *)

Serve(k) ==
    /\ calls[k].phase = "sent"
    /\ IF titles[calls[k].id] = Gone
       THEN calls' = [calls EXCEPT ![k] = Free] /\ UNCHANGED titles
       ELSE /\ calls' = [calls EXCEPT ![k] =
                  IF @.kind = "delete" THEN [@ EXCEPT !.phase = "answered"]
                  ELSE [Free EXCEPT !.kind = "rename", !.phase = "answered"]]
            /\ titles' = [titles EXCEPT ![calls[k].id] =
                            IF calls[k].kind = "delete" THEN Gone ELSE calls[k].title]
    /\ UNCHANGED <<sessions, hidden, opened, editing, excused>>

Answer(k) ==
    /\ calls[k].phase = "answered" /\ sessions' = Invalidated(sessions, k)
    /\ calls' = [j \in Slot |->
          IF j = k THEN [calls[k] EXCEPT !.phase = "refetching"]
          ELSE IF j \in sessions.waiting \ sessions'.waiting
          THEN [calls[j] EXCEPT !.phase = "cut"] ELSE calls[j]]
    /\ UNCHANGED <<titles, hidden, opened, editing, excused>>

Over(k) == \/ calls[k].phase = "cut"
           \/ calls[k].phase = "refetching" /\ k \notin sessions.waiting

(* Mutant: the row stays on the session it deleted. *)
FinishStays(k) ==
    /\ Over(k)
    /\ calls' = [calls EXCEPT ![k] = Free]
    /\ UNCHANGED <<titles, sessions, hidden, opened, editing, excused>>

(* Mutant: it leaves whatever is open. *)
FinishLeaves(k) ==
    /\ Over(k)
    /\ opened' = IF calls[k].kind = "delete" /\ calls[k].here THEN NoSession
                 ELSE opened
    /\ calls' = [calls EXCEPT ![k] = Free]
    /\ UNCHANGED <<titles, sessions, hidden, editing, excused>>

(* The row that asked for the delete leaves its session, if that was the   *)
(* open one when it asked.                                                 *)
Finish(k) ==
    /\ Over(k)
    /\ opened' = IF calls[k].kind = "delete" /\ calls[k].here /\ calls[k].selected
                 THEN NoSession ELSE opened
    /\ calls' = [calls EXCEPT ![k] = Free]
    /\ UNCHANGED <<titles, sessions, hidden, editing, excused>>

ListNext ==
    \/ \E k \in Slot : Finish(k)
    \/ /\ \A k \in Slot : ~Over(k)
       /\ \/ Poll \/ ListServed \/ ListArrives \/ ListFails
          \/ \E h \in {{}, Session} : Filter(h)
          \/ \E s \in Session :
               \/ Open(s) \/ StartEdit(s) \/ CancelEdit(s) \/ Remove(s)
               \/ \E t \in Titles : Save(s, t)
          \/ \E k \in Slot : Serve(k) \/ Answer(k)

ListSpec == ListInit /\ [][ListNext]_listVars
------------------------------------------------------------------------------
(* The comment on remove: "If the open session was the one deleted, fall   *)
(* back to the bare list"; so no one stays on the page of a session that   *)
(* is gone, but one whose row went away before the answer to the delete,   *)
(* or who opened the session, from an old list, after asking for it.       *)
NoGhostIsOpen ==
    opened # NoSession /\ titles[opened] = Gone /\ opened \notin excused
        => Deleting(opened)

(* And no one is sent away from a session, but one that went there from    *)
(* the session that was being deleted.                                     *)
OnlyDeletersAreSentAway ==
    opened' = NoSession /\ opened # NoSession =>
      \E k \in Slot : /\ Over(k) /\ calls[k].kind = "delete"
                      /\ calls[k].selected /\ titles[calls[k].id] = Gone

(* When nothing is under way the list is what the server has.              *)
QuietSidebarIsCurrent ==
    (/\ sessions.flight = "idle" /\ ~sessions.failed /\ ~sessions.reused
     /\ \A k \in Slot : calls[k].phase # "answered")
    => sessions.data = [s \in {t \in Session : titles[t] # Gone} |-> titles[s]]
==============================================================================
