---------------------------- MODULE MigrateProof ---------------------------
(* Proofs about the migrator, for any processes, releases of the script    *)
(* and number of calls that end early.                                     *)
EXTENDS MigrateProperties, TLAPS, SequenceTheorems, WellFoundedInduction

Versions == 1..Len(Releases)
Scripts == {Releases[v] : v \in Versions}
Lines == Seq(Sql \cup {Marker, Dropped})

\* After the executions r, every line of SQL up to line n has been executed,
\* in every release, what was written into a recorded last line excepted.
DoneTo(r, n) ==
  \A v \in Versions : \A i \in 1..Len(Releases[v]) :
    i <= n /\ Releases[v][i] \in Sql \ Continued => r[Releases[v][i]] > 0

\* A process works on some release, and has one when it needs one.
HasScript ==
  \A m \in Migrators : pc[m] \in {"exec", "save", "returned"} => script[m] \in Scripts

\* Where the record is, and where each process is, all is executed.
Behind ==
  /\ DoneTo(runs, progress)
  /\ \A m \in Migrators : pc[m] \in {"read", "exec", "save"} => DoneTo(runs, at[m])

\* What a process is about to record has been executed.
Executed ==
  \A m \in Migrators : pc[m] = "save" =>
    \A n \in 1..Len(script[m]) : EndsAt(script[m], at[m], n) =>
      \A s \in SqlIn(script[m], at[m], n) : runs[s] > 0

\* InOrder for every release, the installed one or not.
Ordered(r) ==
  \A v \in Versions : \A j \in 1..Len(Releases[v]) : \A i \in 1..j - 1 :
    /\ Releases[v][j] \in Sql /\ Releases[v][i] \in Sql \ Continued
    /\ r[Releases[v][j]] > 0
    => r[Releases[v][i]] > 0

(* The inductive invariant: ProgressIsDone says nothing of the place where *)
(* a process is, from which the next record is computed, nor of releases   *)
(* that are not installed yet.                                             *)
IInv == TypeOK /\ HasScript /\ Behind /\ Executed /\ Ordered(runs) /\ SuccessMeansDone

-----------------------------------------------------------------------------
(* The releases.                                                           *)

(* Every release is a sequence of lines.                                   *)
LEMMA ReleaseLines ==
  /\ Len(Releases) \in Nat \ {0}
  /\ \A v \in Versions : Releases[v] \in Lines /\ Len(Releases[v]) \in Nat
  /\ \A v \in Versions : \A i \in 1..Len(Releases[v]) :
       Releases[v][i] \in Sql \cup {Marker, Dropped}
<1>1. Releases \in Seq(Lines) /\ Releases # <<>>
  BY MigrateAssumption DEF Lines
<1>2. Len(Releases) \in Nat \ {0}
  BY <1>1, LenProperties, EmptySeq
<1>3. \A v \in Versions : Releases[v] \in Lines
  BY <1>1, ElementOfSeq DEF Versions
<1>4. ASSUME NEW v \in Versions
      PROVE  /\ Len(Releases[v]) \in Nat
             /\ \A i \in 1..Len(Releases[v]) : Releases[v][i] \in Sql \cup {Marker, Dropped}
  BY <1>3, LenProperties, ElementOfSeq DEF Lines
<1> QED
  BY <1>2, <1>3, <1>4

(* A line of SQL found in two releases has the same lines above it.        *)
LEMMA SameAbove ==
  ASSUME NEW v \in Versions, NEW w \in Versions,
         NEW i \in 1..Len(Releases[v]), NEW j \in 1..Len(Releases[w]),
         Releases[v][i] = Releases[w][j], Releases[v][i] \in Sql
  PROVE  i = j /\ \A k \in 1..j : Releases[v][k] = Releases[w][k]
<1>1. i = j
  BY MigrateAssumption DEF Versions
<1>2. v < w => Extends(Releases[w], Releases[v])
  BY MigrateAssumption DEF Versions
<1>3. w < v => Extends(Releases[v], Releases[w])
  BY MigrateAssumption DEF Versions
<1>4. v = w \/ v < w \/ w < v
  BY ReleaseLines DEF Versions
<1>5. ASSUME NEW k \in 1..j PROVE Releases[v][k] = Releases[w][k]
  <2>1. CASE k = j
    BY <1>1, <2>1
  <2>2. CASE k # j
    <3>1. k \in 1..Len(Releases[v]) - 1 /\ k \in 1..Len(Releases[w]) - 1
      BY <1>1, <2>2, ReleaseLines
    <3> QED
      BY <1>2, <1>3, <1>4, <3>1 DEF Extends
  <2> QED
    BY <2>1, <2>2
<1> QED
  BY <1>1, <1>5

-----------------------------------------------------------------------------
(* Segments.                                                               *)

(* A script with SQL behind a line has a segment there.                    *)
LEMMA SegmentExists ==
  ASSUME NEW lines \in Lines, NEW from \in Nat, SqlIn(lines, from, Len(lines)) # {}
  PROVE  \E n \in 1..Len(lines) : EndsAt(lines, from, n)
<1> DEFINE Ends == {n \in from + 1..Len(lines) :
                      (lines[n] = Marker \/ n = Len(lines)) /\ SqlIn(lines, from, n) # {}}
<1>1. Len(lines) \in Nat
  BY LenProperties DEF Lines
<1>2. PICK i \in from + 1..Len(lines) : lines[i] \in Sql
  BY DEF SqlIn
<1>3. Len(lines) \in Ends
  BY <1>1, <1>2
<1>4. Ends \subseteq Nat
  BY <1>1
<1>5. PICK n \in Ends : \A k \in Ends : n <= k
  <2> HIDE DEF Ends
  <2>1. PICK n \in Ends : \A k \in Ends : ~ (<<k, n>> \in OpToRel(<, Nat))
    BY <1>3, <1>4, NatLessThanWellFounded, WFMin, Zenon
  <2>2. \A k \in Ends : ~ (k < n)
    BY <1>4, <2>1, Zenon DEF OpToRel
  <2> QED
    BY <1>4, <2>2
<1>6. ASSUME NEW k \in from + 1..n - 1, lines[k] = Marker PROVE SqlIn(lines, from, k) = {}
  BY <1>1, <1>5, <1>6
<1> QED
  BY <1>1, <1>5, <1>6 DEF EndsAt

(* The lines of SQL up to the end of a segment are those of every release, *)
(* but what takes the place of a last line.                                *)
LEMMA SegmentCovers ==
  ASSUME NEW v \in Versions, NEW w \in Versions, NEW from \in Nat,
         NEW n \in 1..Len(Releases[v]), EndsAt(Releases[v], from, n),
         NEW i \in 1..Len(Releases[w]), i <= n, Releases[w][i] \in Sql \ Continued
  PROVE  Releases[v][i] = Releases[w][i]
<1>1. Len(Releases[v]) \in Nat /\ Len(Releases[w]) \in Nat
  BY ReleaseLines
<1>2. CASE w < v
  <2>1. Extends(Releases[v], Releases[w])
    BY <1>2, MigrateAssumption DEF Versions
  <2>2. CASE i < Len(Releases[w])
    BY <1>1, <2>1, <2>2 DEF Extends
  <2>3. CASE i = Len(Releases[w])
    BY <1>1, <1>2, <2>3 DEF Continued, Versions
  <2> QED
    BY <1>1, <2>2, <2>3
<1>3. CASE v < w
  <2>1. Extends(Releases[w], Releases[v])
    BY <1>3, MigrateAssumption DEF Versions
  <2>2. CASE i < Len(Releases[v])
    BY <1>1, <2>1, <2>2 DEF Extends
  <2>3. CASE i = Len(Releases[v])
    <3>1. n = i
      BY <1>1, <2>3
    <3>2. from \in 0..n - 1
      BY <1>1 DEF EndsAt
    <3>3. SUFFICES ASSUME Releases[v][n] # Releases[w][n] PROVE FALSE
      BY <3>1
    <3>4. n \in {Len(Releases[v])} \ {0} /\ Releases[w][n] \in Sql \ Continued
      BY <2>3, <3>1
    <3>5. \E k \in 0..n - 1 : EndsAt(Releases[v], k, n)
      BY <3>2
    <3>6. Releases[w][n] \in Continued
      BY <1>3, <3>3, <3>4, <3>5, Zenon DEF Continued, Versions
    <3> QED
      BY <3>4, <3>6
  <2> QED
    BY <1>1, <2>2, <2>3
<1> QED
  BY <1>2, <1>3, ReleaseLines DEF Versions

(* A segment that starts behind a line ends at one place.                  *)
LEMMA OneEnd ==
  ASSUME NEW lines \in Lines, NEW from \in Nat,
         NEW n \in 1..Len(lines), EndsAt(lines, from, n),
         NEW k \in 1..Len(lines), EndsAt(lines, from, k)
  PROVE  n = k
<1>1. Len(lines) \in Nat
  BY LenProperties DEF Lines
<1>2. ~ (n < k)
  BY <1>1 DEF EndsAt
<1>3. ~ (k < n)
  BY <1>1 DEF EndsAt
<1> QED
  BY <1>1, <1>2, <1>3

-----------------------------------------------------------------------------
(* What was executed.                                                      *)

(* Executing more undoes nothing.                                          *)
LEMMA MoreDone ==
  ASSUME NEW r \in [Sql -> Nat], NEW q \in [Sql -> Nat], \A s \in Sql : q[s] >= r[s],
         NEW n, DoneTo(r, n)
  PROVE  DoneTo(q, n)
BY DEF DoneTo

(* With the segment behind a line everything up to its end is executed.    *)
LEMMA SegmentDone ==
  ASSUME NEW r \in [Sql -> Nat], NEW v \in Versions, NEW from \in Nat, DoneTo(r, from),
         NEW n \in 1..Len(Releases[v]), EndsAt(Releases[v], from, n),
         \A s \in SqlIn(Releases[v], from, n) : r[s] > 0
  PROVE  DoneTo(r, n)
<1> SUFFICES ASSUME NEW w \in Versions, NEW i \in 1..Len(Releases[w]),
                    i <= n, Releases[w][i] \in Sql \ Continued
             PROVE  r[Releases[w][i]] > 0
  BY DEF DoneTo
<1>1. Len(Releases[v]) \in Nat /\ Len(Releases[w]) \in Nat
  BY ReleaseLines
<1>2. Releases[v][i] = Releases[w][i]
  BY SegmentCovers
<1>3. CASE i <= from
  BY <1>3 DEF DoneTo
<1>4. CASE i > from
  <2>1. Releases[v][i] \in SqlIn(Releases[v], from, n)
    BY <1>1, <1>2, <1>4 DEF SqlIn
  <2> QED
    BY <1>2, <2>1
<1> QED
  BY <1>1, <1>3, <1>4

(* When no SQL is left behind a line up to which all is done, all is done. *)
LEMMA NothingLeft ==
  ASSUME NEW r \in [Sql -> Nat], NEW v \in Versions, NEW n \in Nat, DoneTo(r, n),
         SqlIn(Releases[v], n, Len(Releases[v])) = {}
  PROVE  \A i \in 1..Len(Releases[v]) :
           Releases[v][i] \in Sql \ Continued => r[Releases[v][i]] > 0
<1> SUFFICES ASSUME NEW i \in 1..Len(Releases[v]), Releases[v][i] \in Sql \ Continued
             PROVE  r[Releases[v][i]] > 0
  OBVIOUS
<1>1. Len(Releases[v]) \in Nat
  BY ReleaseLines
<1>2. i <= n
  <2> SUFFICES ASSUME i > n PROVE FALSE
    BY <1>1
  <2>1. i \in n + 1..Len(Releases[v])
    BY <1>1
  <2>2. Releases[v][i] \in SqlIn(Releases[v], n, Len(Releases[v]))
    BY <2>1 DEF SqlIn
  <2> QED
    BY <2>2
<1> QED
  BY <1>2 DEF DoneTo

(* Executing the lines next in turn, or the first of them, keeps the order.*)
LEMMA InTurn ==
  ASSUME NEW r \in [Sql -> Nat], Ordered(r), NEW v \in Versions, NEW from \in Nat,
         DoneTo(r, from), NEW k \in 0..Len(Releases[v]),
         NEW q \in [Sql -> Nat],
         \A s \in Sql : q[s] = IF s \in SqlIn(Releases[v], from, k) THEN r[s] + 1 ELSE r[s]
  PROVE  Ordered(q)
<1>1. \A s \in Sql : q[s] >= r[s]
  OBVIOUS
<1>2. ASSUME NEW w \in Versions, NEW j \in 1..Len(Releases[w]), NEW i \in 1..j - 1,
             Releases[w][j] \in Sql, Releases[w][i] \in Sql \ Continued,
             q[Releases[w][j]] > 0
      PROVE  q[Releases[w][i]] > 0
  <2>1. Len(Releases[v]) \in Nat /\ Len(Releases[w]) \in Nat
    BY ReleaseLines
  <2>2. CASE r[Releases[w][j]] > 0
    <3>1. r[Releases[w][i]] > 0
      BY <1>2, <2>2 DEF Ordered
    <3> QED
      BY <1>1, <1>2, <3>1
  <2>3. CASE ~ (r[Releases[w][j]] > 0)
    <3>1. Releases[w][j] \in SqlIn(Releases[v], from, k)
      BY <1>2, <2>3
    <3>2. PICK l \in from + 1..k : Releases[v][l] = Releases[w][j]
      BY <3>1 DEF SqlIn
    <3>3. l \in 1..Len(Releases[v])
      BY <2>1
    <3>4. l = j /\ \A h \in 1..j : Releases[v][h] = Releases[w][h]
      <4>1. Releases[v][l] \in Sql
        BY <1>2, <3>2
      <4> QED
        BY <3>2, <3>3, <4>1, SameAbove
    <3>5. Releases[v][i] = Releases[w][i] /\ i \in 1..Len(Releases[v]) /\ i <= k
      BY <2>1, <3>3, <3>4
    <3>6. CASE i <= from
      <4>1. r[Releases[w][i]] > 0
        BY <1>2, <3>6 DEF DoneTo
      <4> QED
        BY <1>1, <1>2, <4>1
    <3>7. CASE i > from
      <4>1. i \in from + 1..k /\ Releases[v][i] \in Sql
        BY <1>2, <2>1, <3>5, <3>7
      <4>2. Releases[w][i] \in SqlIn(Releases[v], from, k)
        BY <3>5, <4>1 DEF SqlIn
      <4> QED
        BY <1>2, <4>2
    <3> QED
      BY <2>1, <3>6, <3>7
  <2> QED
    BY <2>2, <2>3
<1> QED
  BY <1>1, <1>2 DEF Ordered
-----------------------------------------------------------------------------
(* Every step keeps the inductive invariant.                               *)

(* The scripts of processes that need one are releases, so sequences.      *)
LEMMA ScriptOf ==
  ASSUME IInv, NEW m \in Migrators, pc[m] \in {"exec", "save", "returned"}
  PROVE  /\ script[m] \in Lines /\ at[m] \in Nat
         /\ \E v \in Versions : script[m] = Releases[v]
BY ReleaseLines DEF IInv, TypeOK, HasScript, Scripts

(* In the beginning nothing is recorded and nothing was executed.          *)
LEMMA InitInv == Init => IInv
<1> SUFFICES ASSUME Init PROVE IInv
  OBVIOUS
<1>1. TypeOK
  <2>1. release \in 1..Len(Releases) /\ faults \in 0..MaxFaults
    BY ReleaseLines, MigrateAssumption DEF Init
  <2>2. script \in [Migrators -> {Releases[v] : v \in 1..Len(Releases)} \cup {<<>>}]
    BY DEF Init
  <2>3. \A m \in Migrators : pc[m] = "idle"
    BY DEF Init
  <2> QED
    BY <2>1, <2>2, <2>3 DEF Init, TypeOK
<1>2. Behind
  BY ReleaseLines DEF Init, Behind, DoneTo
<1>3. Ordered(runs)
  BY DEF Init, Ordered
<1>4. HasScript /\ Executed /\ SuccessMeansDone
  BY DEF Init, HasScript, Executed, SuccessMeansDone
<1> QED
  BY <1>1, <1>2, <1>3, <1>4 DEF IInv

(* A new release.                                                          *)
LEMMA ReleaseKeeps == IInv /\ Release => IInv'
<1> SUFFICES ASSUME IInv, Release PROVE IInv'
  OBVIOUS
<1>1. TypeOK'
  BY ReleaseLines DEF IInv, TypeOK, Release
<1>2. (HasScript /\ Behind /\ Executed /\ Ordered(runs) /\ SuccessMeansDone)'
  BY DEF IInv, Release, HasScript, Behind, Executed, Ordered, SuccessMeansDone
<1> QED
  BY <1>1, <1>2 DEF IInv

(* A call that begins, or ends early, holds nothing.                       *)
LEMMA RestKeeps ==
  ASSUME IInv, NEW m \in Migrators, Begin(m) \/ Abort(m)
  PROVE  IInv'
<1>1. /\ pc' \in [Migrators -> {"idle", "load", "read", "exec", "save", "returned"}]
      /\ pc'[m] \in {"idle", "load"} /\ \A o \in Migrators \ {m} : pc'[o] = pc[o]
      /\ UNCHANGED <<release, progress, script, at, runs>>
      /\ faults' \in 0..MaxFaults /\ overlap' \in BOOLEAN
  <2>1. PICK to \in {"idle", "load"} : pc' = [pc EXCEPT ![m] = to]
    BY DEF Begin, Abort, Goes
  <2>2. UNCHANGED <<release, progress, script, at, runs>>
    BY DEF Begin, Abort
  <2>3. faults' \in 0..MaxFaults
    BY MigrateAssumption DEF IInv, TypeOK, Begin, Abort
  <2>4. overlap' \in BOOLEAN
    BY Zenon DEF IInv, TypeOK, Begin, Abort
  <2> QED
    BY <2>1, <2>2, <2>3, <2>4 DEF IInv, TypeOK
<1>2. TypeOK'
  BY <1>1 DEF IInv, TypeOK
<1>3. HasScript' /\ SuccessMeansDone'
  BY <1>1 DEF IInv, HasScript, SuccessMeansDone
<1>4. Behind' /\ Ordered(runs)'
  BY <1>1 DEF IInv, Behind, Ordered
<1>5. Executed'
  BY <1>1 DEF IInv, Executed
<1> QED
  BY <1>2, <1>3, <1>4, <1>5 DEF IInv

(* Reading the record: what it says is done.                               *)
LEMMA LoadKeeps ==
  ASSUME IInv, NEW m \in Migrators, Load(m)
  PROVE  IInv'
<1>1. /\ pc' = [pc EXCEPT ![m] = "read"] /\ at' = [at EXCEPT ![m] = progress]
      /\ UNCHANGED <<release, progress, script, runs, faults, overlap>>
  BY DEF Load, Goes
<1>2. /\ pc'[m] = "read" /\ at'[m] = progress
      /\ \A o \in Migrators \ {m} : pc'[o] = pc[o] /\ at'[o] = at[o]
  BY <1>1 DEF IInv, TypeOK
<1>3. TypeOK'
  BY <1>1, <1>2 DEF IInv, TypeOK
<1>4. HasScript' /\ SuccessMeansDone'
  BY <1>1, <1>2 DEF IInv, HasScript, SuccessMeansDone
<1>5. Behind' /\ Ordered(runs)'
  BY <1>1, <1>2 DEF IInv, Behind, Ordered
<1>6. Executed'
  BY <1>1, <1>2 DEF IInv, Executed
<1> QED
  BY <1>3, <1>4, <1>5, <1>6 DEF IInv

(* Reading the script: a segment is left, or all of it is done.            *)
LEMMA ReadKeeps ==
  ASSUME IInv, NEW m \in Migrators, Read(m)
  PROVE  IInv'
<1> DEFINE lines == Releases[release]
<1>1. /\ pc[m] = "read" /\ pc' = [pc EXCEPT ![m] = After(lines, at[m])]
      /\ script' = [script EXCEPT ![m] = lines]
      /\ UNCHANGED <<release, progress, at, runs, faults, overlap>>
  BY DEF Read, Goes
<1>2. /\ pc'[m] = After(lines, at[m]) /\ script'[m] = lines
      /\ \A o \in Migrators \ {m} : pc'[o] = pc[o] /\ script'[o] = script[o]
  BY <1>1 DEF IInv, TypeOK
<1>3. release \in Versions /\ lines \in Lines /\ at[m] \in Nat /\ runs \in [Sql -> Nat]
  BY ReleaseLines DEF IInv, TypeOK, Versions
<1>4. After(lines, at[m]) \in {"returned", "exec"}
  BY DEF After
<1>5. DoneTo(runs, at[m])
  BY <1>1 DEF IInv, Behind
<1>6. TypeOK'
  <2>1. pc'[m] = "exec" => \E n \in 1..Len(lines) : EndsAt(lines, at[m], n)
    BY <1>2, <1>3, SegmentExists DEF After
  <2>2. \A o \in Migrators : pc'[o] \in {"exec", "save"} =>
          \E n \in 1..Len(script'[o]) : EndsAt(script'[o], at'[o], n)
    BY <1>1, <1>2, <1>4, <2>1 DEF IInv, TypeOK
  <2> QED
    BY <1>1, <1>3, <1>4, <2>2 DEF IInv, TypeOK, Versions
<1>7. HasScript'
  BY <1>2, <1>3 DEF IInv, HasScript, Scripts
<1>8. Behind' /\ Ordered(runs)'
  BY <1>1, <1>2, <1>5 DEF IInv, Behind, Ordered
<1>9. Executed'
  BY <1>1, <1>2, <1>4 DEF IInv, Executed
<1>10. SuccessMeansDone'
  <2>1. pc'[m] = "returned" =>
          \A i \in 1..Len(lines) : lines[i] \in Sql \ Continued => runs[lines[i]] > 0
    BY <1>2, <1>3, <1>5, NothingLeft DEF After
  <2> QED
    BY <1>1, <1>2, <2>1 DEF IInv, SuccessMeansDone
<1> QED
  BY <1>6, <1>7, <1>8, <1>9, <1>10 DEF IInv

(* What executing a segment, or the first lines of it, leaves true.        *)
LEMMA RunsKeep ==
  ASSUME IInv, NEW m \in Migrators, pc[m] = "exec",
         NEW k \in 0..Len(script[m]), Ran(SqlIn(script[m], at[m], k)),
         NEW to \in {"save", "idle"}, pc' = [pc EXCEPT ![m] = to],
         UNCHANGED <<release, progress, script, at, overlap>>, faults' \in 0..MaxFaults
  PROVE  /\ TypeOK' /\ HasScript' /\ Behind' /\ Ordered(runs)' /\ SuccessMeansDone'
         /\ \A s \in Sql : runs'[s] >= runs[s]
         /\ pc'[m] = to /\ \A o \in Migrators \ {m} : pc'[o] = pc[o]
<1>1. pc'[m] = to /\ \A o \in Migrators \ {m} : pc'[o] = pc[o]
  BY DEF IInv, TypeOK
<1>2. PICK v \in Versions : script[m] = Releases[v]
  BY ScriptOf
<1>3. DoneTo(runs, at[m]) /\ Ordered(runs) /\ at[m] \in Nat /\ runs \in [Sql -> Nat]
  BY DEF IInv, Behind, TypeOK
<1>4. runs' = [s \in Sql |-> IF s \in SqlIn(Releases[v], at[m], k) THEN runs[s] + 1 ELSE runs[s]]
  BY <1>2 DEF Ran
<1>5. runs' \in [Sql -> Nat] /\ (\A s \in Sql : runs'[s] >= runs[s]) /\ Ordered(runs')
  <2>1. k \in 0..Len(Releases[v])
    BY <1>2
  <2>2. /\ runs' \in [Sql -> Nat]
        /\ \A s \in Sql :
             runs'[s] = IF s \in SqlIn(Releases[v], at[m], k) THEN runs[s] + 1 ELSE runs[s]
    BY <1>3, <1>4
  <2>3. \A s \in Sql : runs'[s] >= runs[s]
    BY <1>3, <2>2
  <2>4. Ordered(runs')
    BY <1>3, <2>1, <2>2, InTurn
  <2> QED
    BY <2>2, <2>3, <2>4
<1>6. TypeOK'
  BY <1>1, <1>5 DEF IInv, TypeOK
<1>7. HasScript'
  BY <1>1 DEF IInv, HasScript
<1>8. Behind'
  <2>1. DoneTo(runs', progress)
    BY <1>3, <1>5, MoreDone DEF IInv, Behind
  <2>2. ASSUME NEW o \in Migrators, pc'[o] \in {"read", "exec", "save"}
        PROVE  DoneTo(runs', at[o])
    <3>1. DoneTo(runs, at[o])
      BY <1>1, <2>2 DEF IInv, Behind
    <3> QED
      BY <1>3, <1>5, <3>1, MoreDone
  <2> QED
    BY <2>1, <2>2 DEF Behind
<1>9. SuccessMeansDone'
  <2> SUFFICES ASSUME NEW o \in Migrators, pc'[o] = "returned",
                      NEW i \in 1..Len(script[o]), script[o][i] \in Sql \ Continued
               PROVE  runs'[script[o][i]] > 0
    BY DEF SuccessMeansDone
  <2>1. runs[script[o][i]] > 0
    BY <1>1 DEF IInv, SuccessMeansDone
  <2> QED
    BY <1>3, <1>5, <2>1
<1> QED
  BY <1>1, <1>5, <1>6, <1>7, <1>8, <1>9

(* What the others are about to record stays executed.                     *)
LEMMA OthersExecuted ==
  ASSUME IInv, NEW m \in Migrators, NEW o \in Migrators \ {m}, pc'[o] = pc[o], pc[o] = "save",
         UNCHANGED <<script, at>>, runs' \in [Sql -> Nat], \A s \in Sql : runs'[s] >= runs[s],
         NEW n \in 1..Len(script[o]), EndsAt(script[o], at[o], n),
         NEW s \in SqlIn(script[o], at[o], n)
  PROVE  runs'[s] > 0
<1>1. runs[s] > 0
  BY DEF IInv, Executed
<1>2. s \in Sql
  BY DEF SqlIn
<1> QED
  BY <1>1, <1>2 DEF IInv, TypeOK

(* A segment is executed.                                                  *)
LEMMA ExecKeeps ==
  ASSUME IInv, NEW m \in Migrators, Exec(m)
  PROVE  IInv'
<1>1. /\ pc[m] = "exec" /\ pc' = [pc EXCEPT ![m] = "save"]
      /\ UNCHANGED <<release, progress, script, at, faults, overlap>>
  BY DEF Exec, Goes
<1>2. PICK n \in 1..Len(script[m]) :
        EndsAt(script[m], at[m], n) /\ Ran(SqlIn(script[m], at[m], n))
  BY DEF Exec
<1>3. script[m] \in Lines /\ at[m] \in Nat
  BY <1>1, ScriptOf
<1>4. n \in 0..Len(script[m]) /\ faults' \in 0..MaxFaults
  BY <1>1, <1>3, LenProperties DEF Lines, IInv, TypeOK
<1>5. /\ TypeOK' /\ HasScript' /\ Behind' /\ Ordered(runs)' /\ SuccessMeansDone'
      /\ \A s \in Sql : runs'[s] >= runs[s]
      /\ pc'[m] = "save" /\ \A o \in Migrators \ {m} : pc'[o] = pc[o]
  BY <1>1, <1>2, <1>4, RunsKeep
<1>6. Executed'
  <2> SUFFICES ASSUME NEW o \in Migrators, pc'[o] = "save",
                      NEW k \in 1..Len(script[o]), EndsAt(script[o], at[o], k),
                      NEW s \in SqlIn(script[o], at[o], k)
               PROVE  runs'[s] > 0
    BY <1>1 DEF Executed
  <2>1. CASE o = m
    <3>1. k = n
      BY <1>2, <1>3, <2>1, OneEnd
    <3>2. s \in Sql /\ s \in SqlIn(script[m], at[m], n)
      BY <2>1, <3>1 DEF SqlIn
    <3> QED
      BY <1>2, <3>2 DEF Ran, IInv, TypeOK
  <2>2. CASE o # m
    BY <1>1, <1>5, <2>2, OthersExecuted DEF TypeOK
  <2> QED
    BY <2>1, <2>2
<1> QED
  BY <1>5, <1>6 DEF IInv

(* A segment fails half way.                                               *)
LEMMA ExecFailsKeeps ==
  ASSUME IInv, NEW m \in Migrators, ExecFails(m)
  PROVE  IInv'
<1>1. /\ pc[m] = "exec" /\ pc' = [pc EXCEPT ![m] = "idle"]
      /\ faults < MaxFaults /\ faults' = faults + 1
      /\ UNCHANGED <<release, progress, script, at, overlap>>
  BY DEF ExecFails, Goes
<1>2. script[m] \in Lines /\ at[m] \in Nat /\ Len(script[m]) \in Nat
  BY <1>1, ScriptOf, LenProperties DEF Lines
<1>3. PICK k \in 0..Len(script[m]) : Ran(SqlIn(script[m], at[m], k))
  BY <1>2 DEF ExecFails
<1>4. faults' \in 0..MaxFaults
  BY <1>1, MigrateAssumption DEF IInv, TypeOK
<1>5. /\ TypeOK' /\ HasScript' /\ Behind' /\ Ordered(runs)' /\ SuccessMeansDone'
      /\ \A s \in Sql : runs'[s] >= runs[s]
      /\ pc'[m] = "idle" /\ \A o \in Migrators \ {m} : pc'[o] = pc[o]
  BY <1>1, <1>3, <1>4, RunsKeep
<1>6. Executed'
  <2> SUFFICES ASSUME NEW o \in Migrators, pc'[o] = "save",
                      NEW n \in 1..Len(script[o]), EndsAt(script[o], at[o], n),
                      NEW s \in SqlIn(script[o], at[o], n)
               PROVE  runs'[s] > 0
    BY <1>1 DEF Executed
  <2>1. o # m
    BY <1>5
  <2> QED
    BY <1>1, <1>5, <2>1, OthersExecuted DEF TypeOK
<1> QED
  BY <1>5, <1>6 DEF IInv

(* A segment is recorded: it was executed, and so was all above it.        *)
LEMMA SaveKeeps ==
  ASSUME IInv, NEW m \in Migrators, Save(m)
  PROVE  IInv'
<1>1. PICK n \in 1..Len(script[m]) :
        /\ EndsAt(script[m], at[m], n)
        /\ pc[m] = "save" /\ pc' = [pc EXCEPT ![m] = After(script[m], n)]
        /\ progress' = n /\ at' = [at EXCEPT ![m] = n]
        /\ UNCHANGED <<release, script, runs, faults, overlap>>
  BY DEF Save, Goes, Record
<1>2. PICK v \in Versions : script[m] = Releases[v]
  BY <1>1, ScriptOf
<1>3. script[m] \in Lines /\ n \in Nat /\ runs \in [Sql -> Nat] /\ at[m] \in Nat
  BY <1>1, ScriptOf, LenProperties DEF Lines, IInv, TypeOK
<1>4. DoneTo(runs, n)
  <2>1. DoneTo(runs, at[m])
    BY <1>1 DEF IInv, Behind
  <2>2. \A s \in SqlIn(script[m], at[m], n) : runs[s] > 0
    BY <1>1 DEF IInv, Executed
  <2> QED
    BY <1>1, <1>2, <1>3, <2>1, <2>2, SegmentDone
<1>5. /\ pc'[m] = After(script[m], n) /\ at'[m] = n
      /\ \A o \in Migrators \ {m} : pc'[o] = pc[o] /\ at'[o] = at[o]
  BY <1>1 DEF IInv, TypeOK
<1>6. After(script[m], n) \in {"returned", "exec"}
  BY DEF After
<1>7. TypeOK'
  <2>1. pc'[m] = "exec" => \E k \in 1..Len(script[m]) : EndsAt(script[m], n, k)
    BY <1>3, <1>5, SegmentExists DEF After
  <2>2. \A o \in Migrators : pc'[o] \in {"exec", "save"} =>
          \E k \in 1..Len(script'[o]) : EndsAt(script'[o], at'[o], k)
    BY <1>1, <1>5, <1>6, <2>1 DEF IInv, TypeOK
  <2> QED
    BY <1>1, <1>3, <1>6, <2>2 DEF IInv, TypeOK
<1>8. HasScript'
  BY <1>1, <1>5 DEF IInv, HasScript
<1>9. Behind' /\ Ordered(runs)'
  BY <1>1, <1>4, <1>5 DEF IInv, Behind, Ordered
<1>10. Executed'
  BY <1>1, <1>5, <1>6 DEF IInv, Executed
<1>11. SuccessMeansDone'
  <2>1. pc'[m] = "returned" =>
          \A i \in 1..Len(script[m]) : script[m][i] \in Sql \ Continued => runs[script[m][i]] > 0
    BY <1>2, <1>3, <1>4, <1>5, NothingLeft DEF After
  <2> QED
    BY <1>1, <1>5, <2>1 DEF IInv, SuccessMeansDone
<1> QED
  BY <1>7, <1>8, <1>9, <1>10, <1>11 DEF IInv

-----------------------------------------------------------------------------
(* The theorems.                                                           *)

(* The inductive invariant holds in every behaviour of the migrator.       *)
THEOREM InductiveInvariant == Spec => []IInv
<1>1. Init => IInv
  BY InitInv
<1>2. IInv /\ [Next]_vars => IInv'
  <2> SUFFICES ASSUME IInv, [Next]_vars PROVE IInv'
    OBVIOUS
  <2>1. CASE Release
    BY <2>1, ReleaseKeeps
  <2>2. ASSUME NEW m \in Migrators, Begin(m) \/ Abort(m) PROVE IInv'
    BY <2>2, RestKeeps
  <2>3. ASSUME NEW m \in Migrators, Load(m) PROVE IInv'
    BY <2>3, LoadKeeps
  <2>4. ASSUME NEW m \in Migrators, Read(m) PROVE IInv'
    BY <2>4, ReadKeeps
  <2>5. ASSUME NEW m \in Migrators, Exec(m) PROVE IInv'
    BY <2>5, ExecKeeps
  <2>6. ASSUME NEW m \in Migrators, Save(m) PROVE IInv'
    BY <2>6, SaveKeeps
  <2>7. ASSUME NEW m \in Migrators, ExecFails(m) PROVE IInv'
    BY <2>7, ExecFailsKeeps
  <2>8. CASE UNCHANGED vars
    BY <2>8 DEF vars, IInv, TypeOK, HasScript, Behind, Executed, Ordered, SuccessMeansDone
  <2> QED
    BY <2>1, <2>2, <2>3, <2>4, <2>5, <2>6, <2>7, <2>8 DEF Next, Step
<1> QED
  BY <1>1, <1>2, PTL DEF Spec

(* Types, and the loop of Migrate has a segment whenever it handles one.   *)
THEOREM TypeCorrect == Spec => []TypeOK
<1>1. IInv => TypeOK
  BY DEF IInv
<1> QED
  BY <1>1, InductiveInvariant, PTL

(* The progress record never runs ahead of the database, whatever fails    *)
(* and however many processes migrate at once.                             *)
THEOREM ProgressAlwaysDone == Spec => []ProgressIsDone
<1>1. IInv => ProgressIsDone
  BY DEF IInv, TypeOK, Behind, DoneTo, ProgressIsDone, Versions
<1> QED
  BY <1>1, InductiveInvariant, PTL

(* The lines of the script are executed in their order.                    *)
THEOREM InOrderAlways == Spec => []InOrder
<1>1. IInv => InOrder
  BY DEF IInv, TypeOK, Ordered, InOrder, Versions
<1> QED
  BY <1>1, InductiveInvariant, PTL

(* A call of Migrate that succeeds has left nothing of its script out.     *)
THEOREM SuccessAlwaysDone == Spec => []SuccessMeansDone
<1>1. IInv => SuccessMeansDone
  BY DEF IInv
<1> QED
  BY <1>1, InductiveInvariant, PTL

-----------------------------------------------------------------------------
(* How often a line is executed while no two calls run at the same time.   *)

Active(m) == pc[m] \notin {"idle", "returned"}

\* The line of SQL stands below line n in whatever release has it.
Below(s, n) ==
  \A v \in Versions : \A i \in 1..Len(Releases[v]) : Releases[v][i] = s => i > n

\* Lines below n were executed at most k times.
BelowAtMost(n, k) == \A s \in Sql : Below(s, n) => runs[s] <= k

(* RepeatsAreBounded says nothing of the lines that are executed next: one *)
(* below the record has only the executions that faults wasted, as long as *)
(* nobody is about to record; one below the segment in hand neither, and   *)
(* the place of the only active process is where the record is.            *)
Undisturbed ==
  ~overlap =>
    /\ \A m, o \in Migrators : Active(m) /\ Active(o) => m = o
    /\ \A s \in Sql : runs[s] <= 1 + faults
    /\ (\A m \in Migrators : pc[m] # "save") => BelowAtMost(progress, faults)
    /\ \A m \in Migrators : pc[m] \in {"read", "exec", "save"} => at[m] = progress
    /\ \A m \in Migrators : pc[m] = "save" =>
         \A n \in 1..Len(script[m]) :
           EndsAt(script[m], at[m], n) => BelowAtMost(n, faults)

(* Executing the lines next in turn, or the first of them, repeats none of *)
(* the lines below the last of them.                                       *)
LEMMA RunsBelow ==
  ASSUME NEW v \in Versions, NEW from \in Nat, NEW k \in Nat, k <= Len(Releases[v]),
         NEW s \in SqlIn(Releases[v], from, k)
  PROVE  Below(s, from) /\ ~Below(s, k)
<1>1. Len(Releases[v]) \in Nat
  BY ReleaseLines
<1>2. PICK i \in from + 1..k : Releases[v][i] = s /\ s \in Sql
  BY DEF SqlIn
<1>3. i \in 1..Len(Releases[v])
  BY <1>1
<1>4. ASSUME NEW w \in Versions, NEW j \in 1..Len(Releases[w]), Releases[w][j] = s
      PROVE  j > from
  <2>1. i = j
    BY <1>2, <1>3, <1>4, SameAbove
  <2> QED
    BY <1>2, <2>1
<1>5. ~Below(s, k)
  BY <1>1, <1>2, <1>3 DEF Below
<1> QED
  BY <1>4, <1>5 DEF Below

(* In the beginning nothing was executed.                                  *)
LEMMA InitUndisturbed == Init => Undisturbed
<1> SUFFICES ASSUME Init PROVE Undisturbed
  OBVIOUS
<1>1. (\A m \in Migrators : pc[m] = "idle") /\ (\A s \in Sql : runs[s] = 0) /\ faults = 0
  BY DEF Init
<1> QED
  BY <1>1 DEF Undisturbed, Active, BelowAtMost

(* A call that begins alone finds the record as the last one left it.      *)
LEMMA BeginUndisturbed ==
  ASSUME IInv, Undisturbed, NEW m \in Migrators, Begin(m)
  PROVE  Undisturbed'
<1> SUFFICES ASSUME ~overlap' PROVE Undisturbed'
  BY DEF Undisturbed
<1>1. /\ ~overlap /\ pc' = [pc EXCEPT ![m] = "load"] /\ pc[m] \in {"idle", "returned"}
      /\ \A o \in Migrators \ {m} : pc[o] \in {"idle", "returned"}
      /\ UNCHANGED <<release, progress, script, at, runs, faults>>
  BY DEF Begin, Goes
<1>2. pc'[m] = "load" /\ \A o \in Migrators \ {m} : pc'[o] \in {"idle", "returned"}
  BY <1>1 DEF IInv, TypeOK
<1>3. \A o \in Migrators : pc'[o] \notin {"read", "exec", "save"}
  BY <1>2
<1>4. (\A s \in Sql : runs[s] <= 1 + faults) /\ BelowAtMost(progress, faults)
  BY <1>1 DEF Undisturbed
<1>5. \A n, o \in Migrators : Active(n)' /\ Active(o)' => n = o
  BY <1>2 DEF Active
<1>6. (\A s \in Sql : runs'[s] <= 1 + faults') /\ BelowAtMost(progress, faults)'
  BY <1>1, <1>4 DEF BelowAtMost
<1> QED
  BY <1>3, <1>5, <1>6 DEF Undisturbed

(* A call that ends early wastes at most one execution of each line.       *)
LEMMA AbortUndisturbed ==
  ASSUME IInv, Undisturbed, NEW m \in Migrators, Abort(m)
  PROVE  Undisturbed'
<1> SUFFICES ASSUME ~overlap' PROVE Undisturbed'
  BY DEF Undisturbed
<1>1. /\ ~overlap /\ pc' = [pc EXCEPT ![m] = "idle"] /\ Active(m)
      /\ faults' = faults + 1
      /\ UNCHANGED <<release, progress, script, at, runs>>
  BY DEF Abort, Goes, Active
<1>2. pc'[m] = "idle" /\ \A o \in Migrators \ {m} : pc'[o] = pc[o]
  BY <1>1 DEF IInv, TypeOK
<1>3. \A o \in Migrators : ~Active(o)'
  BY <1>1, <1>2 DEF Undisturbed, Active
<1>4. (\A s \in Sql : runs[s] <= 1 + faults) /\ faults \in Nat /\ runs \in [Sql -> Nat]
  BY <1>1, MigrateAssumption DEF Undisturbed, IInv, TypeOK
<1>5. \A s \in Sql : runs'[s] <= 1 + faults' /\ runs'[s] <= faults'
  BY <1>1, <1>4
<1> QED
  BY <1>3, <1>5 DEF Undisturbed, Active, BelowAtMost

(* What the only active process knows of the others, when it goes on.      *)
LEMMA AloneGoes ==
  ASSUME IInv, Undisturbed, ~overlap, NEW m \in Migrators, Active(m),
         NEW to, pc' = [pc EXCEPT ![m] = to]
  PROVE  /\ pc'[m] = to
         /\ \A o \in Migrators \ {m} : ~Active(o) /\ ~Active(o)'
         /\ \A n, o \in Migrators : Active(n)' /\ Active(o)' => n = o
<1>1. pc'[m] = to /\ \A o \in Migrators \ {m} : pc'[o] = pc[o]
  BY DEF IInv, TypeOK
<1>2. \A o \in Migrators \ {m} : ~Active(o)
  BY DEF Undisturbed
<1> QED
  BY <1>1, <1>2 DEF Active

(* Reading the record or the script executes nothing.                      *)
LEMMA LookUndisturbed ==
  ASSUME IInv, Undisturbed, NEW m \in Migrators, Load(m) \/ Read(m)
  PROVE  Undisturbed'
<1> SUFFICES ASSUME ~overlap' PROVE Undisturbed'
  BY DEF Undisturbed
<1>1. /\ ~overlap /\ Active(m) /\ pc[m] # "save"
      /\ UNCHANGED <<release, progress, runs, faults>>
  BY DEF Load, Read, Goes, Active
<1>2. PICK to \in {"read", "exec", "returned"} : pc' = [pc EXCEPT ![m] = to]
  BY DEF Load, Read, Goes, After
<1>3. /\ pc'[m] = to
      /\ \A o \in Migrators \ {m} : ~Active(o) /\ ~Active(o)'
      /\ \A n, o \in Migrators : Active(n)' /\ Active(o)' => n = o
  BY <1>1, <1>2, AloneGoes
<1>4. at'[m] = progress
  BY <1>1 DEF Load, Read, Goes, Undisturbed, IInv, TypeOK
<1>5. (\A s \in Sql : runs[s] <= 1 + faults) /\ BelowAtMost(progress, faults)
  BY <1>1, <1>3 DEF Undisturbed, Active
<1>6. (\A s \in Sql : runs'[s] <= 1 + faults') /\ BelowAtMost(progress, faults)'
  BY <1>1, <1>5 DEF BelowAtMost
<1>7. \A o \in Migrators : pc'[o] \in {"read", "exec", "save"} => o = m
  BY <1>3 DEF Active
<1>8. \A o \in Migrators : pc'[o] # "save"
  BY <1>3, <1>7
<1> QED
  BY <1>1, <1>3, <1>4, <1>6, <1>7, <1>8 DEF Undisturbed

(* A segment that is executed had been executed only in vain, and what is  *)
(* below it is left alone.                                                 *)
LEMMA ExecCounts ==
  ASSUME IInv, Undisturbed, ~overlap, NEW m \in Migrators, pc[m] = "exec",
         NEW k \in Nat, k <= Len(script[m]), Ran(SqlIn(script[m], at[m], k))
  PROVE  /\ \A s \in Sql : runs'[s] <= 1 + faults
         /\ \A s \in Sql : Below(s, progress) /\ Below(s, k) => runs'[s] <= faults
         /\ at[m] = progress
<1>1. PICK v \in Versions : script[m] = Releases[v]
  BY ScriptOf
<1>2. at[m] = progress /\ at[m] \in Nat /\ runs \in [Sql -> Nat] /\ faults \in Nat
      /\ \A s \in Sql : runs[s] <= 1 + faults
  BY MigrateAssumption DEF Undisturbed, IInv, TypeOK
<1>3. BelowAtMost(progress, faults)
  <2>1. \A o \in Migrators : pc[o] # "save"
    BY DEF Undisturbed, Active
  <2> QED
    BY <2>1 DEF Undisturbed
<1>4. ASSUME NEW s \in Sql
      PROVE  /\ runs'[s] <= 1 + faults
             /\ Below(s, progress) /\ Below(s, k) => runs'[s] <= faults
  <2>1. CASE s \in SqlIn(script[m], at[m], k)
    <3>1. Below(s, progress) /\ ~Below(s, k)
      BY <1>1, <1>2, <2>1, RunsBelow
    <3>2. runs[s] <= faults
      BY <1>3, <3>1 DEF BelowAtMost
    <3>3. runs'[s] = runs[s] + 1
      BY <2>1 DEF Ran
    <3> QED
      BY <1>2, <3>1, <3>2, <3>3
  <2>2. CASE s \notin SqlIn(script[m], at[m], k)
    <3>1. runs'[s] = runs[s]
      BY <2>2 DEF Ran
    <3> QED
      BY <1>2, <1>3, <3>1 DEF BelowAtMost
  <2> QED
    BY <2>1, <2>2
<1> QED
  BY <1>2, <1>4

(* A segment is executed, and not yet recorded.                            *)
LEMMA ExecUndisturbed ==
  ASSUME IInv, Undisturbed, NEW m \in Migrators, Exec(m)
  PROVE  Undisturbed'
<1> SUFFICES ASSUME ~overlap' PROVE Undisturbed'
  BY DEF Undisturbed
<1>1. /\ ~overlap /\ Active(m) /\ pc[m] = "exec" /\ pc' = [pc EXCEPT ![m] = "save"]
      /\ UNCHANGED <<release, progress, script, at, faults>>
  BY DEF Exec, Goes, Active
<1>2. PICK n \in 1..Len(script[m]) :
        EndsAt(script[m], at[m], n) /\ Ran(SqlIn(script[m], at[m], n))
  BY DEF Exec
<1>3. script[m] \in Lines /\ at[m] \in Nat /\ Len(script[m]) \in Nat
  BY <1>1, ScriptOf, LenProperties DEF Lines
<1>4. /\ pc'[m] = "save"
      /\ \A o \in Migrators \ {m} : ~Active(o) /\ ~Active(o)'
      /\ \A q, o \in Migrators : Active(q)' /\ Active(o)' => q = o
  BY <1>1, AloneGoes
<1>5. /\ \A s \in Sql : runs'[s] <= 1 + faults
      /\ \A s \in Sql : Below(s, progress) /\ Below(s, n) => runs'[s] <= faults
      /\ at[m] = progress
  BY <1>1, <1>2, <1>3, ExecCounts
<1>6. \A s \in Sql : Below(s, n) => Below(s, progress)
  <2>1. n > progress
    BY <1>2, <1>3, <1>5 DEF EndsAt
  <2> QED
    BY <1>3, <1>5, <2>1, ReleaseLines DEF Below
<1>7. ASSUME NEW k \in 1..Len(script[m]), EndsAt(script[m], at[m], k)
      PROVE  BelowAtMost(k, faults)'
  <2>1. k = n
    BY <1>2, <1>3, <1>7, OneEnd
  <2>2. \A s \in Sql : Below(s, k)' => runs'[s] <= faults'
    BY <1>1, <1>5, <1>6, <2>1 DEF Below
  <2> QED
    BY <2>2 DEF BelowAtMost
<1>8. \A o \in Migrators : pc'[o] \in {"read", "exec", "save"} => o = m
  BY <1>4 DEF Active
<1>9. \A s \in Sql : runs'[s] <= 1 + faults'
  BY <1>1, <1>5
<1> QED
  BY <1>1, <1>4, <1>5, <1>7, <1>8, <1>9 DEF Undisturbed

(* The first lines of a segment are executed in vain.                      *)
LEMMA ExecFailsUndisturbed ==
  ASSUME IInv, Undisturbed, NEW m \in Migrators, ExecFails(m)
  PROVE  Undisturbed'
<1> SUFFICES ASSUME ~overlap' PROVE Undisturbed'
  BY DEF Undisturbed
<1>1. /\ ~overlap /\ Active(m) /\ pc[m] = "exec" /\ pc' = [pc EXCEPT ![m] = "idle"]
      /\ faults' = faults + 1
      /\ UNCHANGED <<release, progress, script, at>>
  BY DEF ExecFails, Goes, Active
<1>2. script[m] \in Lines /\ at[m] \in Nat /\ Len(script[m]) \in Nat
  BY <1>1, ScriptOf, LenProperties DEF Lines
<1>3. PICK k \in Nat : k <= Len(script[m]) /\ Ran(SqlIn(script[m], at[m], k))
  BY <1>2 DEF ExecFails
<1>4. pc'[m] = "idle" /\ \A o \in Migrators : ~Active(o)'
  <2>1. pc'[m] = "idle" /\ \A o \in Migrators \ {m} : ~Active(o)'
    BY <1>1, AloneGoes
  <2> QED
    BY <2>1 DEF Active
<1>5. \A s \in Sql : runs'[s] <= 1 + faults
  BY <1>1, <1>3, ExecCounts
<1>6. faults \in Nat /\ runs' \in [Sql -> Nat]
  BY <1>3, MigrateAssumption DEF Ran, IInv, TypeOK
<1>7. \A s \in Sql : runs'[s] <= faults' /\ runs'[s] <= 1 + faults'
  BY <1>1, <1>5, <1>6
<1> QED
  BY <1>4, <1>7 DEF Undisturbed, Active, BelowAtMost

(* The record moves to the end of the segment, below which nothing new was *)
(* executed.                                                               *)
LEMMA SaveUndisturbed ==
  ASSUME IInv, Undisturbed, NEW m \in Migrators, Save(m)
  PROVE  Undisturbed'
<1> SUFFICES ASSUME ~overlap' PROVE Undisturbed'
  BY DEF Undisturbed
<1>1. PICK n \in 1..Len(script[m]) :
        /\ EndsAt(script[m], at[m], n)
        /\ pc[m] = "save" /\ pc' = [pc EXCEPT ![m] = After(script[m], n)]
        /\ progress' = n /\ at' = [at EXCEPT ![m] = n]
        /\ UNCHANGED <<release, script, runs, faults, overlap>>
  BY DEF Save, Goes, Record
<1>2. ~overlap /\ Active(m)
  BY <1>1 DEF Active
<1>3. /\ pc'[m] = After(script[m], n)
      /\ \A o \in Migrators \ {m} : ~Active(o) /\ ~Active(o)'
      /\ \A q, o \in Migrators : Active(q)' /\ Active(o)' => q = o
  BY <1>1, <1>2, AloneGoes
<1>4. BelowAtMost(n, faults) /\ \A s \in Sql : runs[s] <= 1 + faults
  BY <1>1, <1>2 DEF Undisturbed
<1>5. BelowAtMost(progress, faults)' /\ \A s \in Sql : runs'[s] <= 1 + faults'
  BY <1>1, <1>4 DEF BelowAtMost, Below
<1>6. at'[m] = progress' /\ pc'[m] # "save"
  BY <1>1, <1>3 DEF After, IInv, TypeOK
<1>7. \A o \in Migrators : pc'[o] \in {"read", "exec", "save"} => o = m
  BY <1>3 DEF Active
<1> QED
  BY <1>3, <1>5, <1>6, <1>7 DEF Undisturbed

(* As long as no two calls run at the same time, Undisturbed holds.        *)
LEMMA UndisturbedAlways == Spec => []Undisturbed
<1>1. IInv /\ Undisturbed /\ [Next]_vars => Undisturbed'
  <2> SUFFICES ASSUME IInv, Undisturbed, [Next]_vars PROVE Undisturbed'
    OBVIOUS
  <2>1. CASE Release \/ UNCHANGED vars
    <3>1. UNCHANGED <<progress, pc, script, at, runs, faults, overlap>>
      BY <2>1 DEF Release, vars
    <3> QED
      BY <3>1 DEF Undisturbed, Active, BelowAtMost, Below
  <2>2. ASSUME NEW m \in Migrators, Begin(m) PROVE Undisturbed'
    BY <2>2, BeginUndisturbed
  <2>3. ASSUME NEW m \in Migrators, Abort(m) PROVE Undisturbed'
    BY <2>3, AbortUndisturbed
  <2>4. ASSUME NEW m \in Migrators, Load(m) \/ Read(m) PROVE Undisturbed'
    BY <2>4, LookUndisturbed
  <2>5. ASSUME NEW m \in Migrators, Exec(m) PROVE Undisturbed'
    BY <2>5, ExecUndisturbed
  <2>6. ASSUME NEW m \in Migrators, Save(m) PROVE Undisturbed'
    BY <2>6, SaveUndisturbed
  <2>7. ASSUME NEW m \in Migrators, ExecFails(m) PROVE Undisturbed'
    BY <2>7, ExecFailsUndisturbed
  <2> QED
    BY <2>1, <2>2, <2>3, <2>4, <2>5, <2>6, <2>7 DEF Next, Step
<1> QED
  BY <1>1, InitUndisturbed, InductiveInvariant, PTL DEF Spec

(* Calls that do not overlap execute a line once, and once more for each   *)
(* call that ended early.                                                  *)
THEOREM RepeatsAlwaysBounded == Spec => []RepeatsAreBounded
<1>1. Undisturbed => RepeatsAreBounded
  BY DEF Undisturbed, RepeatsAreBounded
<1> QED
  BY <1>1, UndisturbedAlways, PTL
=============================================================================
