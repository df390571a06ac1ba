-------------------------------- MODULE Cases --------------------------------
(***************************************************************************)
(* The replay case library: the table replay_cases, the digest of the      *)
(* built-in cases in schema_meta, and the SQL statements that change them. *)
(***************************************************************************)
CONSTANTS
    SeedId,     \* ids of built-in cases, "seed:..."
    CaseId,     \* random ids of the user's own cases, each drawn once
    Version,    \* versions of the program, told apart by their seed sets
    NoVersion,  \* "of no version": the user's own, or nothing
    SeedsOf     \* version -> the built-in cases it embeds

ASSUME IdsDiffer == SeedId \intersect CaseId = {}
ASSUME NoVersionFresh == NoVersion \notin Version
ASSUME SeedsOfType == SeedsOf \in [Version -> SUBSET SeedId]

VARIABLES
    cases,   \* id -> its row of replay_cases
    digest   \* cases_seed_digest: the version whose seeds were installed last

casesVars == <<cases, digest>>

(* A row: where it comes from (captured, snapshot and manual cases are the *)
(* user's alike), whose name, tags, target and endpoint it carries, and    *)
(* whose body.                                                             *)
Row == [source : {"none", "seed", "user"},
        meta : Version \union {NoVersion}, body : Version \union {NoVersion}]

NoRow    == [source |-> "none", meta |-> NoVersion, body |-> NoVersion]
SeedRow(v) == [source |-> "seed", meta |-> v, body |-> v]
UserRow  == [source |-> "user", meta |-> NoVersion, body |-> NoVersion]

CasesTypeOK ==
    /\ cases \in [SeedId \union CaseId -> Row]
    /\ digest \in Version \union {NoVersion}

CasesInit ==
    /\ cases = [c \in SeedId \union CaseId |-> NoRow]
    /\ digest = NoVersion

Exists(c) == cases[c].source # "none"

(* AddCase, INSERT OR REPLACE: whatever the row was, it is this one now. *)
AddCase(c, row) == cases' = [cases EXCEPT ![c] = row]

(* Overwriting puts a body into a row as it was read before. *)
Edited(row) == [row EXCEPT !.body = NoVersion]

(* Mutant: the row is emptied, not deleted. *)
RemoveKeepsRow(c) == cases' = [cases EXCEPT ![c].body = NoVersion]

RemoveCase(c) == cases' = [cases EXCEPT ![c] = NoRow]

InstallSeed(v, c) == AddCase(c, SeedRow(v))
SaveDigest(v) == digest' = v
==============================================================================
