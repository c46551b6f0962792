------------------------- MODULE MigrateProperties -------------------------
(* What must be true of the migrator.                                      *)
EXTENDS Migrate

(* The values of the variables, and a call that executes or records a     *)
(* segment has one: the loop of Migrate ends with the last.               *)
TypeOK ==
  /\ release \in 1..Len(Releases)
  /\ progress \in Nat
  /\ pc \in [Migrators -> {"idle", "load", "read", "exec", "save", "returned"}]
  /\ script \in [Migrators -> {Releases[v] : v \in 1..Len(Releases)} \cup {<<>>}]
  /\ at \in [Migrators -> Nat]
  /\ runs \in [Sql -> Nat]
  /\ faults \in 0..MaxFaults
  /\ overlap \in BOOLEAN
  /\ \A m \in Migrators : pc[m] \in {"exec", "save"} =>
       \E n \in 1..Len(script[m]) : EndsAt(script[m], at[m], n)

\* What the code skips for ever, and returns nil: a last line that ends a
\* segment without a marker is recorded with it, so SQL that a later release
\* writes there, instead of the empty line behind a final newline, stands at a
\* recorded line and was never executed.  So may SQL that a release replaces.
Continued ==
  {s \in Sql : \E v, w \in 1..Len(Releases) : \E n \in {Len(Releases[v])} \ {0} :
     /\ v < w /\ Releases[v][n] # Releases[w][n]
     /\ \/ s = Releases[v][n]
        \/ /\ s = Releases[w][n]
           /\ \E from \in 0..n - 1 : EndsAt(Releases[v], from, n)}

(* The progress record never runs ahead of the database: every line of SQL *)
(* up to it has been executed, in the installed script too, though the     *)
(* record may have been written by a slower process that read an older     *)
(* one, and after any failure.  The exception are the lines of Continued,  *)
(* which the code records unexecuted.                                      *)
ProgressIsDone ==
  LET lines == Releases[release] IN
    \A i \in 1..Len(lines) :
      i <= progress /\ lines[i] \in Sql \ Continued => runs[lines[i]] > 0

(* No line is ever executed before all the lines above it have been, but   *)
(* the SQL in a last line that was recorded without it.                    *)
InOrder ==
  LET lines == Releases[release] IN
    \A j \in 1..Len(lines) : \A i \in 1..j - 1 :
      /\ lines[j] \in Sql /\ lines[i] \in Sql \ Continued
      /\ runs[lines[j]] > 0
      => runs[lines[i]] > 0

(* A call of Migrate that returns without an error has left no line of the *)
(* script it read unexecuted, but the SQL in a last line that was recorded *)
(* without it.                                                             *)
SuccessMeansDone ==
  \A m \in Migrators : pc[m] = "returned" =>
    \A i \in 1..Len(script[m]) :
      script[m][i] \in Sql \ Continued => runs[script[m][i]] > 0

(* As long as no two calls run at the same time, a line is executed again  *)
(* only because a call ended early: at most once more for each of those,   *)
(* and exactly once if there was none.                                     *)
RepeatsAreBounded == ~overlap => \A s \in Sql : runs[s] <= 1 + faults

(* Whatever failed, the lines of an installed script are executed in the   *)
(* end, if Migrate is called again: but the SQL in a last line that was    *)
(* recorded without it.                                                    *)
EverythingRuns ==
  \A s \in Sql \ Continued :
    s \in SqlIn(Releases[release], 0, Len(Releases[release])) ~> runs[s] > 0

=============================================================================
