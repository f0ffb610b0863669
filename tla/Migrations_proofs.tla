--------------------------- MODULE Migrations_proofs ---------------------------
(***************************************************************************)
(* Theorems of Migrations, for any number of runs and any releases, which  *)
(* may share files, disagree about them, or have different lengths.        *)
(***************************************************************************)
EXTENDS Migrations, SequenceTheorems, TLAPS

LEMMA ReleaseFacts ==
  ASSUME NEW rel \in Releases
  PROVE  /\ rel \in Seq([name : Nat, content : Contents]) /\ Len(rel) \in Nat
         /\ DOMAIN rel = 1 .. Len(rel)
         /\ \A i \in 1 .. Len(rel) :
              /\ rel[i].name \in Names /\ rel[i].content \in Contents /\ rel[i].content # None
              /\ rel[i] = [name |-> rel[i].name, content |-> rel[i].content]
<1>1. rel \in Seq([name : Nat, content : Contents])
  BY MigrationsAssumption
<1>2. DOMAIN rel = 1 .. Len(rel) /\ Len(rel) \in Nat
  BY <1>1
<1>3. ASSUME NEW i \in 1 .. Len(rel)
      PROVE  /\ rel[i].name \in Names /\ rel[i].content \in Contents
             /\ rel[i] = [name |-> rel[i].name, content |-> rel[i].content]
  <2>1. rel[i] \in [name : Nat, content : Contents]
    <3> DEFINE F == [name : Nat, content : Contents]
    <3>1. rel \in Seq(F)
      BY <1>1
    <3> HIDE DEF F
    <3>2. rel[i] \in F
      BY <3>1, <1>2
    <3> QED BY <3>2 DEF F
  <2>2. rel[i].name \in {rel[k].name : k \in DOMAIN rel}
    BY <1>2
  <2>3. rel[i].name \in Names
    BY <2>2 DEF Names
  <2> QED BY <2>1, <2>3
<1> QED BY <1>1, <1>2, <1>3, MigrationsAssumption

(* What a runner that is not idle is doing.                                *)
LEMMA RunShape ==
  ASSUME MigrationsTypeOK, NEW r \in Runners, ~At(r, "idle")
  PROVE  /\ run[r] \in Runs
         /\ run[r].release \in Releases
         /\ run[r].next \in 1 .. Len(run[r].release) + 1
         /\ run[r].seen \in [Names -> Contents \cup {None}]
         /\ run[r].at \in {"snapshot", "file", "record", "commit"}
         /\ run[r].at \in {"record", "commit"} => run[r].next <= Len(run[r].release)
BY DEF MigrationsTypeOK, At, Idle, Runs

LEMMA FileFacts ==
  ASSUME MigrationsTypeOK, NEW r \in Runners, ~At(r, "idle"), Pending(r)
  PROVE  /\ run[r].next \in 1 .. Len(run[r].release)
         /\ Version(r) \in Names /\ Content(r) \in Contents /\ Content(r) # None
         /\ File(r) = [name |-> Version(r), content |-> Content(r)]
<1>1. run[r].release \in Releases /\ run[r].next \in 1 .. Len(run[r].release) + 1
  BY RunShape
<1>2. Len(run[r].release) \in Nat
  BY <1>1, ReleaseFacts
<1>3. run[r].next \in 1 .. Len(run[r].release)
  BY <1>1, <1>2 DEF Pending
<1> QED BY <1>1, <1>3, ReleaseFacts DEF Version, Content, File
-------------------------------------------------------------------------------
(* Steps that change only what one runner is doing.                        *)
Moves(r, to) ==
  /\ run' = [run EXCEPT ![r] = to]
  /\ UNCHANGED <<applied, schema>>

(* A run that saw what is recorded, and has walked past what is recorded   *)
(* like its release, may go on: the invariant is kept.                     *)
LEMMA MoveKeepsInvariant ==
  ASSUME MigrationsInv, NEW r \in Runners, NEW to \in Runs \cup {Idle}, Moves(r, to),
         to # Idle =>
           /\ \A v \in Names : to.seen[v] # None => applied[v] = to.seen[v]
           /\ \A i \in 1 .. to.next - 1 : applied[to.release[i].name] = to.release[i].content
           /\ to.at = "commit" =>
                /\ applied[to.release[to.next].name] = None
                /\ \A o \in Runners : Inserted(o) => Version(o) # to.release[to.next].name
  PROVE  MigrationsInv'
<1>1. /\ run'[r] = to /\ applied' = applied /\ schema' = schema
      /\ \A o \in Runners \ {r} : run'[o] = run[o]
      /\ run' \in [Runners -> Runs \cup {Idle}]
  BY DEF Moves, MigrationsInv, MigrationsTypeOK
<1>2. MigrationsTypeOK'
  BY <1>1 DEF MigrationsInv, MigrationsTypeOK
<1>3. RecordedAsRun' /\ EarlierFilesFirst'
  BY <1>1 DEF MigrationsInv, RecordedAsRun, EarlierFilesFirst, Before
<1>4. to.at = "commit" \/ to.at = "idle" \/ to # Idle
  BY DEF Idle
<1>5. to = Idle <=> to.at = "idle"
  BY DEF Idle, Runs
<1>6. InsertsNew'
  BY <1>1, <1>5 DEF MigrationsInv, InsertsNew, Inserted, At, Version, File
<1>7. InsertsApart'
  <2> SUFFICES ASSUME NEW o \in Runners, NEW p \in Runners, Inserted(o)', Inserted(p)',
                      Version(o)' = Version(p)', o # p
               PROVE  FALSE
    BY DEF InsertsApart
  <2>1. CASE o = r
    BY <2>1, <1>1, <1>5 DEF Inserted, At, Version, File
  <2>2. CASE p = r
    BY <2>2, <1>1, <1>5 DEF Inserted, At, Version, File
  <2>3. CASE o # r /\ p # r
    BY <2>3, <1>1 DEF MigrationsInv, InsertsApart, Inserted, At, Version, File
  <2> QED BY <2>1, <2>2, <2>3
<1>8. SnapshotHolds' /\ WalkedFiles'
  BY <1>1, <1>5 DEF MigrationsInv, SnapshotHolds, WalkedFiles, At
<1> QED BY <1>2, <1>3, <1>6, <1>7, <1>8 DEF MigrationsInv

LEMMA ExitKeepsInvariant ==
  ASSUME MigrationsInv, NEW r \in Runners, Exit(r), UNCHANGED <<applied, schema>>
  PROVE  MigrationsInv'
<1>1. Moves(r, Idle)
  BY DEF Exit, Moves
<1> QED BY <1>1, MoveKeepsInvariant
-------------------------------------------------------------------------------
(* The COMMIT of a migration: its version is new, so it is the one row the  *)
(* schema gets, and what its run walked past comes before it.              *)
LEMMA CommitKeepsInvariant ==
  ASSUME MigrationsInv, NEW r \in Runners, CommitMigration(r)
  PROVE  MigrationsInv'
<1> DEFINE v == Version(r)  c == Content(r)  rel == run[r].release  n == run[r].next
           row == [name |-> v, content |-> c]
<1>1. ~At(r, "idle") /\ At(r, "commit") /\ MigrationsTypeOK
  BY DEF At, MigrationsInv, CommitMigration
<1>2. Pending(r) /\ rel \in Releases /\ run[r] \in Runs
  BY <1>1, RunShape DEF At, Pending
<1>3. /\ n \in 1 .. Len(rel) /\ v \in Names /\ c \in Contents /\ c # None
      /\ File(r) = row /\ rel[n] = row
  BY <1>1, <1>2, FileFacts DEF File
<1>4. /\ rel[n].name = v /\ rel[n].content = c
  BY <1>3
<1>5. /\ applied' = [applied EXCEPT ![v] = c] /\ schema' = Append(schema, row)
      /\ run' = [run EXCEPT ![r].at = "file", ![r].next = @ + 1]
  BY <1>3 DEF CommitMigration, NextFile
<1>6. PICK len \in Nat :
        /\ len = Len(schema) /\ DOMAIN schema = 1 .. len
        /\ schema \in Seq([name : Names, content : Contents])
  BY <1>1 DEF MigrationsTypeOK
<1>7. /\ schema' \in Seq([name : Names, content : Contents])
      /\ DOMAIN schema' = 1 .. len + 1 /\ schema'[len + 1] = row
      /\ \A i \in 1 .. len : schema'[i] = schema[i]
  <2>1. row \in [name : Names, content : Contents]
    BY <1>3
  <2> HIDE DEF row
  <2> QED BY <1>5, <1>6, <2>1
<1>8. /\ applied'[v] = c /\ \A w \in Names \ {v} : applied'[w] = applied[w]
      /\ applied' \in [Names -> Contents \cup {None}]
  BY <1>1, <1>3, <1>5 DEF MigrationsTypeOK
<1>9. /\ run'[r] = [run[r] EXCEPT !.at = "file", !.next = @ + 1]
      /\ \A o \in Runners \ {r} : run'[o] = run[o]
  BY <1>1, <1>5 DEF MigrationsTypeOK
<1>10. /\ run'[r].at = "file" /\ run'[r].next = n + 1
       /\ run'[r].release = rel /\ run'[r].seen = run[r].seen
  BY <1>2, <1>9 DEF Runs
<1>11. run'[r] \in Runs
  <2>1. run'[r] = [at |-> "file", release |-> rel, next |-> n + 1, seen |-> run[r].seen]
    BY <1>2, <1>9 DEF Runs
  <2>2. n + 1 \in 1 .. Len(rel) + 1 /\ n + 1 \in Nat
    BY <1>2, <1>3, ReleaseFacts
  <2>3. run[r].seen \in [Names -> Contents \cup {None}]
    BY <1>2 DEF Runs
  <2> QED BY <2>1, <2>2, <2>3, <1>2 DEF Runs
<1>12. applied[v] = None
  BY <1>1 DEF MigrationsInv, InsertsNew, Inserted
<1>13. MigrationsTypeOK'
  <2>1. run' \in [Runners -> Runs \cup {Idle}]
    BY <1>1, <1>5, <1>9, <1>11 DEF MigrationsTypeOK
  <2> QED BY <2>1, <1>7, <1>8 DEF MigrationsTypeOK
<1>14. \A i \in 1 .. len :
         /\ schema[i].name \in Names /\ schema[i].name # v
         /\ applied[schema[i].name] = schema[i].content
         /\ applied'[schema[i].name] = schema[i].content
  <2> SUFFICES ASSUME NEW i \in 1 .. len
               PROVE  /\ schema[i].name \in Names /\ schema[i].name # v
                      /\ applied[schema[i].name] = schema[i].content
                      /\ applied'[schema[i].name] = schema[i].content
    OBVIOUS
  <2>1. schema[i] \in [name : Names, content : Contents]
    <3> DEFINE F == [name : Names, content : Contents]
    <3>1. schema \in Seq(F)
      BY <1>6
    <3> HIDE DEF F
    <3>2. schema[i] \in F
      BY <3>1, <1>6
    <3> QED BY <3>2 DEF F
  <2>2. applied[schema[i].name] = schema[i].content
    BY <1>6 DEF MigrationsInv, RecordedAsRun
  <2>3. schema[i].content # None
    BY <2>1, MigrationsAssumption
  <2> QED BY <2>1, <2>2, <2>3, <1>8, <1>12
<1>15. RecordedAsRun'
  <2>1. ASSUME NEW w \in Names, applied'[w] # None
        PROVE  \E i \in DOMAIN schema' : schema'[i] = [name |-> w, content |-> applied'[w]]
    <3>1. CASE w = v
      <4>1. schema'[len + 1] = [name |-> w, content |-> applied'[w]]
        BY <3>1, <1>7, <1>8
      <4> QED BY <4>1, <1>6, <1>7
    <3>2. CASE w # v
      <4>1. PICK i \in 1 .. len : schema[i] = [name |-> w, content |-> applied[w]]
        BY <2>1, <3>2, <1>6, <1>8 DEF MigrationsInv, RecordedAsRun
      <4> QED BY <4>1, <3>2, <1>6, <1>7, <1>8
    <3> QED BY <3>1, <3>2
  <2>2. \A i \in DOMAIN schema' : applied'[schema'[i].name] = schema'[i].content
    <3> SUFFICES ASSUME NEW i \in 1 .. len + 1
                 PROVE  applied'[schema'[i].name] = schema'[i].content
      BY <1>7
    <3>1. CASE i = len + 1
      BY <3>1, <1>7, <1>8
    <3>2. CASE i # len + 1
      <4>1. i \in 1 .. len
        BY <3>2, <1>6
      <4> QED BY <4>1, <1>7, <1>14
    <3> QED BY <3>1, <3>2
  <2>3. ASSUME NEW i \in DOMAIN schema', NEW j \in DOMAIN schema',
               schema'[i].name = schema'[j].name
        PROVE  i = j
    <3>1. /\ i \in 1 .. len => schema'[i].name # v
          /\ j \in 1 .. len => schema'[j].name # v
          /\ schema'[len + 1].name = v
      BY <1>7, <1>14
    <3>2. CASE i \in 1 .. len /\ j \in 1 .. len
      BY <2>3, <3>2, <1>6, <1>7 DEF MigrationsInv, RecordedAsRun
    <3>3. CASE ~(i \in 1 .. len /\ j \in 1 .. len)
      BY <2>3, <3>1, <3>3, <1>6, <1>7
    <3> QED BY <3>2, <3>3
  <2> QED BY <2>1, <2>2, <2>3 DEF RecordedAsRun
<1>16. EarlierFilesFirst'
  <2> SUFFICES ASSUME NEW j \in 1 .. len + 1
               PROVE  \E q \in Releases : \E k \in DOMAIN q :
                        /\ q[k] = schema'[j]
                        /\ \A i \in 1 .. k - 1 : \E l \in 1 .. j - 1 : schema'[l] = q[i]
    BY <1>7 DEF EarlierFilesFirst, Before
  <2>1. CASE j = len + 1
    <3>1. ASSUME NEW i \in 1 .. n - 1
          PROVE  \E l \in 1 .. j - 1 : schema'[l] = rel[i]
      <4>1. /\ i \in 1 .. Len(rel) /\ applied[rel[i].name] = rel[i].content
        BY <1>1, <1>2, <1>3, <3>1, ReleaseFacts DEF MigrationsInv, WalkedFiles
      <4>2. /\ rel[i].name \in Names /\ rel[i].content # None
            /\ rel[i] = [name |-> rel[i].name, content |-> rel[i].content]
        BY <4>1, <1>2, ReleaseFacts
      <4>3. PICK l \in 1 .. len : schema[l] = [name |-> rel[i].name, content |-> applied[rel[i].name]]
        BY <4>1, <4>2, <1>6 DEF MigrationsInv, RecordedAsRun
      <4>4. schema'[l] = rel[i]
        BY <4>1, <4>2, <4>3, <1>7
      <4>5. l \in 1 .. j - 1
        BY <2>1, <1>6
      <4> QED BY <4>4, <4>5
    <3>2. n \in DOMAIN rel
      BY <1>2, <1>3, ReleaseFacts
    <3>3. rel[n] = schema'[j]
      BY <2>1, <1>3, <1>7
    <3> QED BY <3>1, <3>2, <3>3, <1>2
  <2>2. CASE j # len + 1
    <3>1. j \in 1 .. len
      BY <2>2, <1>6
    <3>2. PICK q \in Releases : Before(schema[j], j, q)
      BY <3>1, <1>6 DEF MigrationsInv, EarlierFilesFirst
    <3>3. PICK k \in DOMAIN q :
            q[k] = schema[j] /\ \A i \in 1 .. k - 1 : \E l \in 1 .. j - 1 : schema[l] = q[i]
      BY <3>2 DEF Before
    <3>4. \A l \in 1 .. j - 1 : schema'[l] = schema[l]
      BY <3>1, <1>6, <1>7
    <3>5. schema'[j] = schema[j]
      BY <3>1, <1>7
    <3> QED BY <3>3, <3>4, <3>5
  <2> QED BY <2>1, <2>2
<1>17. /\ \A o \in Runners \ {r} : Inserted(o) => Version(o) # v
       /\ ~Inserted(r)' /\ \A o \in Runners \ {r} :
            (Inserted(o)' <=> Inserted(o)) /\ Version(o)' = Version(o)
  BY <1>1, <1>9, <1>10 DEF MigrationsInv, InsertsApart, Inserted, At, Version, File
<1>18. InsertsApart'
  BY <1>17 DEF MigrationsInv, InsertsApart
<1>19. InsertsNew'
  <2> SUFFICES ASSUME NEW o \in Runners, Inserted(o)' PROVE applied'[Version(o)'] = None
    BY DEF InsertsNew
  <2>1. o # r /\ Inserted(o) /\ Version(o)' = Version(o) /\ Version(o) # v
    BY <1>17
  <2>2. applied[Version(o)] = None
    BY <2>1 DEF MigrationsInv, InsertsNew
  <2>3. Version(o) \in Names
    BY <2>1, <1>1, RunShape, FileFacts DEF Inserted, At, Pending
  <2> QED BY <2>1, <2>2, <2>3, <1>8
<1>20. SnapshotHolds'
  <2> SUFFICES ASSUME NEW o \in Runners, ~At(o, "idle")', NEW w \in Names, run'[o].seen[w] # None
               PROVE  applied'[w] = run'[o].seen[w]
    BY DEF SnapshotHolds
  <2>1. ~At(o, "idle") /\ run'[o].seen = run[o].seen
    BY <1>1, <1>9, <1>10 DEF At
  <2>2. applied[w] = run[o].seen[w]
    BY <2>1 DEF MigrationsInv, SnapshotHolds
  <2> QED BY <2>1, <2>2, <1>8, <1>12
<1>21. WalkedFiles'
  <2> SUFFICES ASSUME NEW o \in Runners, ~At(o, "idle")', NEW i \in 1 .. run'[o].next - 1
               PROVE  applied'[run'[o].release[i].name] = run'[o].release[i].content
    BY DEF WalkedFiles
  <2>1. ASSUME NEW q \in Releases, NEW k \in 1 .. Len(q), applied[q[k].name] = q[k].content
        PROVE  applied'[q[k].name] = q[k].content
    BY <2>1, <1>8, <1>12, ReleaseFacts
  <2>2. CASE o = r
    <3>1. i \in 1 .. n /\ i \in 1 .. Len(rel)
      BY <2>2, <1>2, <1>3, <1>10, ReleaseFacts
    <3>2. CASE i = n
      BY <2>2, <3>2, <1>4, <1>8, <1>10
    <3>3. CASE i # n
      <4>1. i \in 1 .. n - 1
        BY <3>1, <3>3, <1>2, <1>3, ReleaseFacts
      <4>2. applied[rel[i].name] = rel[i].content
        BY <4>1, <1>1 DEF MigrationsInv, WalkedFiles
      <4> QED BY <2>1, <2>2, <3>1, <4>2, <1>2, <1>10
    <3> QED BY <3>2, <3>3
  <2>3. CASE o # r
    <3>1. run'[o] = run[o] /\ ~At(o, "idle")
      BY <2>3, <1>9 DEF At
    <3>2. run[o].release \in Releases /\ run[o].next \in 1 .. Len(run[o].release) + 1
      BY <3>1, <1>1, RunShape
    <3>3. Len(run[o].release) \in Nat /\ i \in 1 .. Len(run[o].release)
      BY <3>1, <3>2, ReleaseFacts
    <3>4. applied[run[o].release[i].name] = run[o].release[i].content
      BY <3>1 DEF MigrationsInv, WalkedFiles
    <3> QED BY <2>1, <3>1, <3>2, <3>3, <3>4
  <2> QED BY <2>2, <2>3
<1> QED BY <1>13, <1>15, <1>16, <1>18, <1>19, <1>20, <1>21 DEF MigrationsInv
-------------------------------------------------------------------------------
LEMMA StepKeepsInvariant ==
  ASSUME MigrationsInv, NEW r \in Runners, RunnerStep(r)
  PROVE  MigrationsInv'
<1> USE DEF MigrationsInv
<1>1. ASSUME NEW rel \in Releases, Start(r, rel) PROVE MigrationsInv'
  <2> DEFINE to == [at |-> "snapshot", release |-> rel, next |-> 1, seen |-> [v \in Names |-> None]]
  <2>1. Moves(r, to)
    BY <1>1 DEF Start, Moves
  <2>2. Len(rel) \in Nat
    BY ReleaseFacts
  <2>3. to \in Runs
    BY <2>2 DEF Runs
  <2>4. /\ \A v \in Names : to.seen[v] # None => applied[v] = to.seen[v]
        /\ \A i \in 1 .. to.next - 1 : applied[to.release[i].name] = to.release[i].content
        /\ to.at # "commit"
    OBVIOUS
  <2> HIDE DEF to, MigrationsInv
  <2> QED BY <2>1, <2>3, <2>4, MoveKeepsInvariant
<1>2. ASSUME ~At(r, "idle")
      PROVE  /\ run[r] \in Runs /\ run[r].release \in Releases /\ Len(run[r].release) \in Nat
             /\ run[r].next \in 1 .. Len(run[r].release) + 1
             /\ run[r].seen \in [Names -> Contents \cup {None}]
             /\ \A v \in Names : run[r].seen[v] # None => applied[v] = run[r].seen[v]
             /\ \A i \in 1 .. run[r].next - 1 :
                  applied[run[r].release[i].name] = run[r].release[i].content
  BY <1>2, RunShape, ReleaseFacts DEF SnapshotHolds, WalkedFiles
<1>3. CASE ReadApplied(r)
  <2> DEFINE to == [run[r] EXCEPT !.at = "file", !.seen = applied]
  <2>1. Moves(r, to) /\ ~At(r, "idle")
    BY <1>3 DEF ReadApplied, Moves, At
  <2>2. to \in Runs /\ to.seen = applied /\ to.next = run[r].next /\ to.release = run[r].release
        /\ to.at # "commit"
    BY <1>2, <2>1 DEF Runs, MigrationsTypeOK
  <2> HIDE DEF to, MigrationsInv
  <2> QED BY <1>2, <2>1, <2>2, MoveKeepsInvariant
<1>4. CASE Compare(r)
  <2>1. CASE Exit(r)
    BY <1>4, <2>1, ExitKeepsInvariant DEF Compare
  <2>2. CASE run[r].seen[Version(r)] = Content(r) /\ NextFile(r)
    <3> DEFINE to == run'[r]
    <3>0. /\ to = [run[r] EXCEPT !.at = "file", !.next = @ + 1]
          /\ run' = [run EXCEPT ![r] = to]
      BY <2>2 DEF NextFile, MigrationsTypeOK
    <3>1. Moves(r, to) /\ ~At(r, "idle") /\ Pending(r)
      BY <1>4, <3>0 DEF Compare, Moves, At
    <3>2. Version(r) \in Names /\ run[r].next \in 1 .. Len(run[r].release) /\ Content(r) # None
      BY <3>1, FileFacts
    <3>3. /\ to = [at |-> "file", release |-> run[r].release, next |-> run[r].next + 1,
                   seen |-> run[r].seen]
          /\ to.at = "file" /\ to.release = run[r].release /\ to.next = run[r].next + 1
          /\ to.seen = run[r].seen
      BY <1>2, <3>0, <3>1 DEF Runs
    <3>4. run[r].next + 1 \in 1 .. Len(run[r].release) + 1 /\ run[r].next + 1 \in Nat
      BY <1>2, <3>1, <3>2
    <3>5. to \in Runs
      BY <1>2, <3>1, <3>3, <3>4 DEF Runs
    <3>6. applied[Version(r)] = Content(r)
      BY <1>2, <2>2, <3>1, <3>2
    <3>7. \A i \in 1 .. to.next - 1 : applied[to.release[i].name] = to.release[i].content
      <4> SUFFICES ASSUME NEW i \in 1 .. run[r].next
                   PROVE  applied[run[r].release[i].name] = run[r].release[i].content
        BY <1>2, <3>2, <3>3
      <4>1. CASE i = run[r].next
        BY <4>1, <3>6 DEF Version, Content, File
      <4>2. CASE i # run[r].next
        <5>1. i \in 1 .. run[r].next - 1
          BY <4>2, <1>2, <3>1
        <5> QED BY <5>1, <1>2, <3>1
      <4> QED BY <4>1, <4>2
    <3>8. /\ \A v \in Names : to.seen[v] # None => applied[v] = to.seen[v]
          /\ to.at # "commit"
      BY <1>2, <3>1, <3>3
    <3> HIDE DEF to, MigrationsInv
    <3> QED BY <3>1, <3>5, <3>7, <3>8, MoveKeepsInvariant
  <2> QED BY <1>4, <2>1, <2>2 DEF Compare
<1>5. ASSUME ~At(r, "idle"), Pending(r), NEW step \in {"record", "commit"}, Go(r, step),
             UNCHANGED <<applied, schema>>,
             step = "commit" => /\ applied[Version(r)] = None
                                /\ \A o \in Runners : Inserted(o) => Version(o) # Version(r)
      PROVE  MigrationsInv'
  <2> DEFINE to == [run[r] EXCEPT !.at = step]
  <2>1. Moves(r, to)
    BY <1>5 DEF Go, Moves
  <2>2. /\ to \in Runs /\ to.seen = run[r].seen /\ to.next = run[r].next
        /\ to.release = run[r].release /\ to.at = step
    BY <1>2, <1>5 DEF Runs, Pending
  <2>3. to.release[to.next].name = Version(r)
    BY <2>2 DEF Version, File
  <2> HIDE DEF to, MigrationsInv
  <2> QED BY <1>2, <1>5, <2>1, <2>2, <2>3, MoveKeepsInvariant
<1>6. CASE RunSql(r)
  <2>1. CASE Exit(r)
    BY <1>6, <2>1, ExitKeepsInvariant DEF RunSql
  <2>2. CASE Go(r, "record")
    BY <1>5, <1>6, <2>2 DEF RunSql, At
  <2> QED BY <1>6, <2>1, <2>2 DEF RunSql
<1>7. CASE InsertVersion(r)
  <2>1. CASE Exit(r)
    BY <1>7, <2>1, ExitKeepsInvariant DEF InsertVersion
  <2>2. CASE applied[Version(r)] = None /\ Go(r, "commit")
    <3>1. ~At(r, "idle") /\ Pending(r)
      BY <1>7, RunShape DEF InsertVersion, At, Pending
    <3> QED BY <1>5, <1>7, <2>2, <3>1 DEF InsertVersion
  <2> QED BY <1>7, <2>1, <2>2 DEF InsertVersion
<1>8. CASE CommitMigration(r)
  BY <1>8, CommitKeepsInvariant
<1>9. CASE Complete(r) \/ Fail(r)
  BY <1>9, ExitKeepsInvariant DEF Complete, Fail
<1> QED BY <1>1, <1>3, <1>4, <1>6, <1>7, <1>8, <1>9 DEF RunnerStep

LEMMA InitEstablishesInvariant == MigrationsInit => MigrationsInv
<1> SUFFICES ASSUME MigrationsInit PROVE MigrationsInv
  OBVIOUS
<1>1. /\ applied = [v \in Names |-> None] /\ schema = <<>> /\ run = [r \in Runners |-> Idle]
      /\ DOMAIN schema = {} /\ schema \in Seq([name : Names, content : Contents])
  BY DEF MigrationsInit
<1>2. MigrationsTypeOK
  BY <1>1 DEF MigrationsTypeOK
<1>3. \A r \in Runners : At(r, "idle") /\ ~Inserted(r)
  BY <1>1 DEF At, Inserted, Idle
<1>4. RecordedAsRun /\ EarlierFilesFirst
  BY <1>1 DEF RecordedAsRun, EarlierFilesFirst
<1>5. InsertsApart /\ InsertsNew /\ SnapshotHolds /\ WalkedFiles
  BY <1>3 DEF InsertsApart, InsertsNew, SnapshotHolds, WalkedFiles
<1> QED BY <1>2, <1>4, <1>5 DEF MigrationsInv

(* MigrationsInv is inductive: whatever runs overlap, and wherever they    *)
(* crash, what a run saw recorded, or has walked past, is in the schema,   *)
(* and nothing else is recorded than what was run.                         *)
THEOREM MigrationsInvariant == MigrationsSpec => []MigrationsInv
<1>1. MigrationsInv /\ [MigrationsNext]_migrationVars => MigrationsInv'
  <2> SUFFICES ASSUME MigrationsInv, [MigrationsNext]_migrationVars PROVE MigrationsInv'
    OBVIOUS
  <2>1. CASE MigrationsNext
    BY <2>1, StepKeepsInvariant DEF MigrationsNext
  <2>2. CASE UNCHANGED migrationVars
    BY <2>2 DEF migrationVars, MigrationsInv, MigrationsTypeOK, RecordedAsRun, InsertsApart,
               InsertsNew, SnapshotHolds, WalkedFiles, EarlierFilesFirst, Before, Inserted, At,
               Version, File
  <2> QED BY <2>1, <2>2
<1> QED BY InitEstablishesInvariant, <1>1, PTL DEF MigrationsSpec

(* The table, the schema and the runs keep their types.                    *)
THEOREM MigrationsTypeCorrect == MigrationsSpec => []MigrationsTypeOK
<1>1. MigrationsInv => MigrationsTypeOK
  BY DEF MigrationsInv
<1> QED BY <1>1, MigrationsInvariant, PTL

(* A version, a file name, is recorded if and only if its file was run,    *)
(* once, with the content recorded, for any number of runs that overlap    *)
(* and crash.                                                              *)
THEOREM VersionsRecordedAsRun == MigrationsSpec => []RecordedAsRun
<1>1. MigrationsInv => RecordedAsRun
  BY DEF MigrationsInv
<1> QED BY <1>1, MigrationsInvariant, PTL

(* Whichever releases are run against a database, files of the same name   *)
(* or others in the same place, and at the same time: what a file is       *)
(* applied on top of includes all that some release puts before it.        *)
THEOREM FilesInReleaseOrder == MigrationsSpec => []EarlierFilesFirst
<1>1. MigrationsInv => EarlierFilesFirst
  BY DEF MigrationsInv
<1> QED BY <1>1, MigrationsInvariant, PTL

(* A run that completes leaves its whole release applied.                  *)
THEOREM CompleteRunsAreWhole == MigrationsSpec => []CompleteIsWhole
<1>1. ASSUME MigrationsInv, NEW r \in Runners, At(r, "file"), ~Pending(r),
             NEW i \in DOMAIN run[r].release
      PROVE  \E l \in DOMAIN schema : schema[l] = run[r].release[i]
  <2>1. /\ ~At(r, "idle") /\ run[r].release \in Releases
        /\ run[r].next \in 1 .. Len(run[r].release) + 1
    BY <1>1, RunShape DEF MigrationsInv, At
  <2>2. /\ Len(run[r].release) \in Nat /\ i \in 1 .. Len(run[r].release)
        /\ run[r].release[i].name \in Names /\ run[r].release[i].content # None
        /\ run[r].release[i] = [name |-> run[r].release[i].name,
                                content |-> run[r].release[i].content]
    BY <1>1, <2>1, ReleaseFacts
  <2>3. i \in 1 .. run[r].next - 1
    BY <1>1, <2>1, <2>2 DEF Pending
  <2>4. applied[run[r].release[i].name] = run[r].release[i].content
    BY <1>1, <2>1, <2>3 DEF MigrationsInv, WalkedFiles
  <2> QED BY <1>1, <2>2, <2>4 DEF MigrationsInv, RecordedAsRun
<1>2. MigrationsInv => CompleteIsWhole
  BY <1>1 DEF CompleteIsWhole
<1> QED BY <1>2, MigrationsInvariant, PTL
===============================================================================
