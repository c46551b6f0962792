------------------------------ MODULE Migrate ------------------------------
(***************************************************************************)
(* The SQL script migrator of migrate/migrate.go: processes that run       *)
(* Migrate on one script, one progress record and one database, none of    *)
(* them locked, while the script grows from release to release.            *)
(*                                                                         *)
(* A step is one access to the progress record, the script or the          *)
(* database.  A call of Migrate may end between any two of them: the       *)
(* process dies, the context ends or a command fails.  That, and a segment *)
(* that fails half way, costs one of MaxFaults.                            *)
(*                                                                         *)
(* Abstractions.  A line of the script is a piece of SQL, the marker, or   *)
(* one that parseSQLStatements drops (empty, or a comment); the empty      *)
(* string Split leaves after a final newline is a line of the third kind.  *)
(* The code parses all segments at once and executes them in turn; here    *)
(* the next segment is looked up in the lines that were read.  Both stores *)
(* append and answer with the last record, so the record is one number.    *)
(***************************************************************************)
EXTENDS Integers, Sequences

CONSTANTS
  Migrators,    \* processes that may run Migrate
  Sql,          \* the lines with SQL; each is in one place of the script
  Marker,       \* MigrationMarker
  Dropped,      \* an empty line or a comment
  Releases,     \* the contents of the script, release by release
  MaxFaults     \* bound: calls that end early

\* A later release appends text to an earlier one: it keeps its lines, but the
\* last, which no newline ends yet, so that what is appended may go on in it.
Extends(new, old) ==
  /\ Len(new) >= Len(old)
  /\ \A i \in 1..Len(old) - 1 : new[i] = old[i]

ASSUME MigrateAssumption ==
  /\ Marker \notin Sql /\ Dropped \notin Sql /\ Marker # Dropped
  /\ Releases \in Seq(Seq(Sql \cup {Marker, Dropped})) /\ Releases # <<>>
  /\ \A v, w \in 1..Len(Releases) : v < w => Extends(Releases[w], Releases[v])
  /\ \A v, w \in 1..Len(Releases) :
       \A i \in 1..Len(Releases[v]), j \in 1..Len(Releases[w]) :
         Releases[v][i] = Releases[w][j] /\ Releases[v][i] \in Sql => i = j
  /\ MaxFaults \in Nat

VARIABLES
  release,   \* the release whose script is installed
  progress,  \* the last record of the progress store, 0 without one
  pc,        \* where each migrator is in Migrate
  script,    \* the lines it has read
  at,        \* the line up to which it has come
  runs,      \* how often each line of SQL was executed
  faults,    \* bound: calls that ended early
  overlap    \* history: two calls have run at the same time

vars == <<release, progress, pc, script, at, runs, faults, overlap>>

Init ==
  /\ release = 1
  /\ progress = 0
  /\ pc = [m \in Migrators |-> "idle"]
  /\ script = [m \in Migrators |-> <<>>]
  /\ at = [m \in Migrators |-> 0]
  /\ runs = [s \in Sql |-> 0]
  /\ faults = 0
  /\ overlap = FALSE

Goes(m, from, to) ==
  /\ pc[m] = from
  /\ pc' = [pc EXCEPT ![m] = to]

-----------------------------------------------------------------------------
(* Segments.                                                               *)

SqlIn(lines, from, to) ==
  {lines[i] : i \in {i \in from + 1..to : lines[i] \in Sql}}

BugLastIsDropped(lines, from, n) ==
  /\ n \in from + 1..Len(lines)
  /\ SqlIn(lines, from, n) # {}
  /\ lines[n] = Marker
  /\ \A k \in from + 1..n - 1 : lines[k] = Marker => SqlIn(lines, from, k) = {}

\* The segment that starts after line `from` ends with line n: at the first
\* marker behind some SQL, or with the script.
EndsAt(lines, from, n) ==
  /\ n \in from + 1..Len(lines)
  /\ SqlIn(lines, from, n) # {}
  /\ lines[n] = Marker \/ n = Len(lines)
  /\ \A k \in from + 1..n - 1 : lines[k] = Marker => SqlIn(lines, from, k) = {}

\* Migrate returns when there is no segment left.
After(lines, from) ==
  IF SqlIn(lines, from, Len(lines)) = {} THEN "returned" ELSE "exec"

Ran(sql) == runs' = [s \in Sql |-> IF s \in sql THEN runs[s] + 1 ELSE runs[s]]

\* Both stores append a record; the last one counts.
Record(n) == progress' = n

-----------------------------------------------------------------------------
(* Migrate.                                                                *)

\* The script is replaced while nobody or somebody runs it.
Release ==
  /\ release < Len(Releases)
  /\ release' = release + 1
  /\ UNCHANGED <<progress, pc, script, at, runs, faults, overlap>>

Begin(m) ==
  /\ \E from \in {"idle", "returned"} : Goes(m, from, "load")
  /\ overlap' = (overlap \/ \E o \in Migrators \ {m} : pc[o] \notin {"idle", "returned"})
  /\ UNCHANGED <<release, progress, script, at, runs, faults>>

BugLoadsNothing(m) ==
  /\ Goes(m, "load", "read")
  /\ at' = [at EXCEPT ![m] = 0]
  /\ UNCHANGED <<release, progress, script, runs, faults, overlap>>

Load(m) ==
  /\ Goes(m, "load", "read")
  /\ at' = [at EXCEPT ![m] = progress]
  /\ UNCHANGED <<release, progress, script, runs, faults, overlap>>

Read(m) ==
  LET lines == Releases[release] IN
  /\ Goes(m, "read", After(lines, at[m]))
  /\ script' = [script EXCEPT ![m] = lines]
  /\ UNCHANGED <<release, progress, at, runs, faults, overlap>>

Exec(m) ==
  /\ Goes(m, "exec", "save")
  /\ \E n \in 1..Len(script[m]) :
       /\ EndsAt(script[m], at[m], n)
       /\ Ran(SqlIn(script[m], at[m], n))
  /\ UNCHANGED <<release, progress, script, at, faults, overlap>>

BugSavesEnd(m) ==
  \E n \in 1..Len(script[m]) :
    /\ EndsAt(script[m], at[m], n)
    /\ Record(Len(script[m]))
    /\ at' = [at EXCEPT ![m] = n]
    /\ Goes(m, "save", After(script[m], n))
    /\ UNCHANGED <<release, script, runs, faults, overlap>>

BugOneMore(m) ==
  \E n \in 1..Len(script[m]) :
    /\ EndsAt(script[m], at[m], n)
    /\ Record(n)
    /\ at' = [at EXCEPT ![m] = n]
    /\ Goes(m, "save", "exec")
    /\ UNCHANGED <<release, script, runs, faults, overlap>>

Save(m) ==
  \E n \in 1..Len(script[m]) :
    /\ EndsAt(script[m], at[m], n)
    /\ Record(n)
    /\ at' = [at EXCEPT ![m] = n]
    /\ Goes(m, "save", After(script[m], n))
    /\ UNCHANGED <<release, script, runs, faults, overlap>>

\* The call ends early ...
Abort(m) ==
  /\ faults < MaxFaults
  /\ faults' = faults + 1
  /\ \E from \in {"load", "read", "exec", "save"} : Goes(m, from, "idle")
  /\ UNCHANGED <<release, progress, script, at, runs, overlap>>

\* ... or one of the commands of a segment fails, after those before it.
ExecFails(m) ==
  /\ faults < MaxFaults
  /\ faults' = faults + 1
  /\ Goes(m, "exec", "idle")
  /\ \E n \in 1..Len(script[m]) :
       /\ EndsAt(script[m], at[m], n)
       /\ \E k \in at[m]..n - 1 : Ran(SqlIn(script[m], at[m], k))
  /\ UNCHANGED <<release, progress, script, at, overlap>>

Step(m) == Load(m) \/ Read(m) \/ Exec(m) \/ Save(m)

Next ==
  \/ Release
  \/ \E m \in Migrators : Begin(m) \/ Step(m) \/ Abort(m) \/ ExecFails(m)

Spec == Init /\ [][Next]_vars

\* A call that began goes on, and Migrate is called again, as a service does
\* each time it starts.
FairSpec ==
  /\ Spec
  /\ \A m \in Migrators : WF_vars(Begin(m)) /\ WF_vars(Step(m))
=============================================================================
