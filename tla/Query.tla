-------------------------------- MODULE Query --------------------------------
(***************************************************************************)
(* One entry of the viewer's query cache, as its library (TanStack Query)  *)
(* keeps it.  A fetch is asked, the server answers with what it holds at   *)
(* that moment, and the answer arrives later or the fetch fails; a failed  *)
(* refetch leaves the data alone.  A mutation that invalidates the entry   *)
(* waits until the fetch it asked for has ended one way or another.        *)
(***************************************************************************)
CONSTANT NoData

(* data: what the panels see.  answer: what the server said, under way.    *)
(* waiting: the mutations whose invalidation waits for this fetch.         *)
(* failed: the last fetch failed.  reused: an invalidation was content with *)
(* an answer that the server had given before it.                          *)
NewEntry == [data |-> NoData, flight |-> "idle", answer |-> NoData,
             waiting |-> {}, failed |-> FALSE, reused |-> FALSE]

Entries(Data, Waiter) ==
    [data : Data \union {NoData}, flight : {"idle", "asked", "answered"},
     answer : Data \union {NoData}, waiting : SUBSET Waiter,
     failed : BOOLEAN, reused : BOOLEAN]

Asked(q) ==
    [q EXCEPT !.flight = "asked", !.answer = NoData, !.waiting = {},
              !.reused = FALSE]

(* A mount, a focus of the window or the polling interval. *)
Fetched(q) == IF q.flight = "idle" THEN Asked(q) ELSE q

Served(q, v) == [q EXCEPT !.flight = "answered", !.answer = v]

Arrived(q) ==
    [q EXCEPT !.data = q.answer, !.flight = "idle", !.answer = NoData,
              !.waiting = {}, !.failed = FALSE]

Lost(q) ==
    [q EXCEPT !.flight = "idle", !.answer = NoData, !.waiting = {},
              !.failed = TRUE]

(* invalidateQueries: a refetch under way is cancelled and asked anew, but *)
(* the first fetch of an entry, which has no data yet, is shared instead.  *)
Invalidated(q, k) ==
    IF q.flight # "idle" /\ q.data = NoData
    THEN [q EXCEPT !.waiting = @ \union {k}, !.reused = @ \/ q.flight = "answered"]
    ELSE [Asked(q) EXCEPT !.waiting = {k}]

Loading(q) == q.data = NoData /\ q.flight # "idle"
==============================================================================
