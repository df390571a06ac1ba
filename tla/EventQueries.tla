----------------------------- MODULE EventQueries -----------------------------
(***************************************************************************)
(* Reading an event back from the trace store while it is written and      *)
(* deleted.  GetEvent reads the event, its tags and its raw files in three *)
(* statements, each of which sees what is committed by then; readers take  *)
(* neither Store.mu nor a transaction.  A new case and a replay go on from *)
(* there to the path of the request's body and to the file; the viewer's   *)
(* raw view starts with the path.                                          *)
(***************************************************************************)
EXTENDS TraceStore

CONSTANT Reader     \* goroutines that serve a request of the viewer

VARIABLE reading    \* reader -> its request, and what it has read

queryVars == <<vars, reading>>

(* What an event has besides its own row: tags, and files by their role.   *)
Part == {"tags"} \union Role
Parts(e) == {t \in {"tags"} : e \in details[t]} \union {a \in Role : <<e, a>> \in pointers}

Busy == {"tags", "rawFiles", "path", "open"}
Results == {"answered", "noPath", "served", "missing"}

NoRead == [at |-> "idle", purpose |-> "view", ev |-> NoEvent, role |-> "request_body",
           got |-> {}, had |-> {}]

(* "had" is history: what the event had when it was found. *)
Reads == [at : Busy \union Results, purpose : {"view", "body", "raw"}, ev : Event,
          role : Role, got : SUBSET Part, had : SUBSET Part]

QueryTypeOK == TypeOK /\ reading \in [Reader -> Reads \union {NoRead}]

QueryInit == Init /\ reading = [q \in Reader |-> NoRead]

Doing(q, step) == reading[q].at = step
MovesTo(q, step) == reading' = [reading EXCEPT ![q].at = step]
------------------------------------------------------------------------------
(* GetEvent, for the detail view or for the body of the request. *)

FindEvent(q, e, purpose) ==
    /\ reading[q].at \notin Busy
    /\ e \in events
    /\ reading' = [reading EXCEPT ![q] =
                    [at |-> "tags", purpose |-> purpose, ev |-> e, role |-> "request_body",
                     got |-> {}, had |-> Parts(e)]]

LoadTags(q) ==
    /\ Doing(q, "tags")
    /\ reading' = [reading EXCEPT ![q].at = "rawFiles",
                                  ![q].got = Parts(reading[q].ev) \intersect {"tags"}]

LoadRawFiles(q) ==
    /\ Doing(q, "rawFiles")
    /\ reading' = [reading EXCEPT
                    ![q].at = IF reading[q].purpose = "view" THEN "answered" ELSE "path",
                    ![q].got = @ \union (Parts(reading[q].ev) \intersect Role)]

(* RawFilePath and the file, for a new case or a replay ... *)
FindPath(q) ==
    /\ Doing(q, "path")
    /\ MovesTo(q, IF "request_body" \in Parts(reading[q].ev) THEN "open" ELSE "noPath")

(* ... and for the raw view. *)
FindRaw(q, e, role) ==
    /\ reading[q].at \notin Busy
    /\ role \in Parts(e)
    /\ reading' = [reading EXCEPT ![q] =
                    [at |-> "open", purpose |-> "raw", ev |-> e, role |-> role,
                     got |-> {}, had |-> Parts(e)]]

OpenFile(q) ==
    /\ Doing(q, "open")
    /\ MovesTo(q, IF <<reading[q].ev, reading[q].role>> \in files
                    THEN "served" ELSE "missing")

(* A statement fails, or the request is refused: a hook event, no key. *)
GiveUp(q) ==
    /\ reading[q].at \in Busy
    /\ DiskMayFail \/ Doing(q, "path")
    /\ reading' = [reading EXCEPT ![q] = NoRead]

ReadStep(q) ==
    \/ \E e \in Event, purpose \in {"view", "body"} : FindEvent(q, e, purpose)
    \/ \E e \in Event, role \in Role : FindRaw(q, e, role)
    \/ LoadTags(q) \/ LoadRawFiles(q) \/ FindPath(q) \/ OpenFile(q) \/ GiveUp(q)

QueryNext ==
    \/ Work /\ UNCHANGED reading
    \/ Crash /\ reading' = [q \in Reader |-> NoRead]
    \/ \E q \in Reader : ReadStep(q) /\ UNCHANGED vars

QuerySpec == QueryInit /\ [][QueryNext]_queryVars
------------------------------------------------------------------------------
(* GetEvent "assembles the full detail for one event": what is answered is *)
(* all the event had, or the event has been deleted in the meantime.  Then *)
(* the files are missing, and the tags may be, but never the tags alone.   *)
AnswersAreWhole ==
    \A q \in Reader : LET r == reading[q] IN
        r.at = "answered" =>
            \/ r.got = r.had
            \/ r.ev \notin events /\ r.got \subseteq r.had \intersect {"tags"}

(* Who was told that a raw file exists can open it, long after the         *)
(* statement that said so, unless the event has been deleted.              *)
ToldFilesOpen ==
    \A q \in Reader : LET r == reading[q] IN
        \/ r.at = "missing"
        \/ r.at = "noPath" /\ "request_body" \in r.had
        => r.ev \notin events

(* The two together: no reader ends up with a part of an event that is     *)
(* still recorded, or on a file of one that is not there.                  *)
ReadersAreNotMisled == AnswersAreWhole /\ ToldFilesOpen
==============================================================================
