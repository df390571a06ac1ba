---------------------------- MODULE TraceArchive ----------------------------
(***************************************************************************)
(* What the trace store promises its callers: an archive of captured       *)
(* events, grouped by session.  An event is recorded whole or not at all,  *)
(* stays until its session is deleted, and sessions keep the names users   *)
(* give them for as long as they have events.                              *)
(***************************************************************************)
CONSTANTS Event, Sid, SessionOf, Label, NoLabel

VARIABLES recorded, names
archiveVars == <<recorded, names>>

ArchiveInit ==
    /\ recorded = {}
    /\ names = [s \in Sid |-> NoLabel]

Record(e) ==
    /\ e \notin recorded
    /\ recorded' = recorded \union {e}
    /\ UNCHANGED names

(* All of a session's events at once; the name goes with them. *)
Delete(s) ==
    /\ recorded' = {e \in recorded : SessionOf[e] # s}
    /\ names' = [names EXCEPT ![s] = NoLabel]

Rename(s, l) ==
    /\ \E e \in recorded : SessionOf[e] = s
    /\ names' = [names EXCEPT ![s] = l]
    /\ UNCHANGED recorded

ArchiveNext ==
    \/ \E e \in Event : Record(e)
    \/ \E s \in Sid : Delete(s)
    \/ \E s \in Sid, l \in Label \union {NoLabel} : Rename(s, l)

ArchiveSpec == ArchiveInit /\ [][ArchiveNext]_archiveVars
==============================================================================
