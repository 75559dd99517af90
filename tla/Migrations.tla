------------------------------ MODULE Migrations ------------------------------
(***************************************************************************)
(* The schema's migrations (internal/store/migrate.go), run by store.Open  *)
(* at every start.  A release of the program embeds a set of numbered      *)
(* migrations; migrate applies those above the database's user_version in  *)
(* ascending order, each with its number in a transaction of its own.  The *)
(* process may die between any two statements, and the next start may be   *)
(* another release.                                                        *)
(***************************************************************************)
EXTENDS Naturals, Sequences

CONSTANTS Releases   \* release: the set of versions it embeds

VARIABLES release,  \* the release that runs, or ran last
          version,  \* PRAGMA user_version
          schema,   \* migrations committed, in order, each with its release
          reached,  \* how far migrate's loop has come
          stage     \* where migrate is

vars == <<release, version, schema, reached, stage>>

TypeOK ==
  /\ release \in Releases
  /\ version \in Nat
  /\ schema \in Seq([v : Nat, by : Releases])
  /\ reached \in Nat
  /\ stage \in {"none", "open", "loop", "sql", "version", "ready"}

Init ==
  /\ release \in Releases
  /\ version = 0
  /\ schema = <<>>
  /\ reached = 0
  /\ stage = "open"

------------------------------------------------------------------------------
\* SchemaVersion, once, before the loop.
ReadVersion ==
  /\ stage = "open"
  /\ reached' = version
  /\ stage' = "loop"
  /\ UNCHANGED <<release, version, schema>>

Pending == {m \in release : m > reached}

\* The next of the sorted migrations (mutant: they are not sorted).
AnyOf(m) == m \in Pending

First(m) == m \in Pending /\ \A k \in Pending : m <= k

\* The transaction begins and runs the file.
Exec(m) ==
  /\ stage = "loop" /\ First(m)
  /\ stage' = "sql"
  /\ UNCHANGED <<release, version, schema, reached>>

SetVersion ==
  /\ stage = "sql"
  /\ stage' = "version"
  /\ UNCHANGED <<release, version, schema, reached>>

\* Both become so at once (mutant: the version is left out).
CommitBare(m) ==
  /\ stage = "version" /\ First(m)
  /\ schema' = Append(schema, [v |-> m, by |-> release])
  /\ reached' = m
  /\ stage' = "loop"
  /\ UNCHANGED <<release, version>>

Commit(m) ==
  /\ stage = "version" /\ First(m)
  /\ schema' = Append(schema, [v |-> m, by |-> release])
  /\ version' = m
  /\ reached' = m
  /\ stage' = "loop"
  /\ UNCHANGED release

Done ==
  /\ stage = "loop"
  /\ Pending = {}
  /\ stage' = "ready"
  /\ UNCHANGED <<release, version, schema, reached>>

\* The process ends, and with it a transaction that is under way.
Abort ==
  /\ stage' = "none"
  /\ reached' = 0
  /\ UNCHANGED <<release, version, schema>>

\* A start, of the same release or of another.
Open(r) ==
  /\ stage = "none"
  /\ release' = r
  /\ stage' = "open"
  /\ UNCHANGED <<version, schema, reached>>

Migrate == ReadVersion \/ SetVersion \/ Done \/ \E m \in release : Exec(m) \/ Commit(m)

------------------------------------------------------------------------------
Applied(m) == \E k \in DOMAIN schema : schema[k].v = m

\* m was merged late: a release without it had gone past it.
Late(m) == \E k \in DOMAIN schema : schema[k].v > m /\ m \notin schema[k].by

(* Each migration is applied once, in ascending order, and the version is  *)
(* the last one's, over crashes and changes of the release (migrate.go:20- *)
(* 23): the files say CREATE TABLE and ADD COLUMN, a second time fails.    *)
AppliedOnce ==
  /\ \A j, k \in DOMAIN schema : j < k => schema[j].v < schema[k].v
  /\ schema = <<>> => version = 0
  /\ schema # <<>> => version = schema[Len(schema)].v

(* A release that is ready has its whole schema, except for a migration    *)
(* whose number a release without it had already gone past: that one is    *)
(* skipped for ever without a word (migrate.go:36).                        *)
SchemaComplete == stage = "ready" => \A m \in release : Applied(m) \/ Late(m)

------------------------------------------------------------------------------
\* What was to be applied before a migration was, or came late.
History ==
  \A k \in DOMAIN schema : \A m \in schema[k].by :
    m <= schema[k].v => Applied(m) \/ Late(m)

\* The loop is where the database is.
Reached ==
  stage \in {"loop", "sql", "version", "ready"} =>
    /\ reached = version
    /\ \A m \in release : m <= reached => Applied(m) \/ Late(m)

IInv == TypeOK /\ AppliedOnce /\ SchemaComplete /\ History /\ Reached
==============================================================================
