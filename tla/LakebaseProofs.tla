--------------------------- MODULE LakebaseProofs --------------------------
(***************************************************************************)
(* Proofs about three parts of the Lakebase side, which share no state:    *)
(* the migrations (two releases may even give one version different        *)
(* checksums), the pools of connections, and the notable updates with the  *)
(* last visit; for any processes, releases, threads, limits, items,        *)
(* callers and failures.                                                   *)
(***************************************************************************)
EXTENDS Migrations, ConnectionPool, NotableUpdates, TLAPS, FiniteSetTheorems,
        SequenceTheorems, NaturalsInduction, WellFoundedInduction

----------------------------------------------------------------------------
(* Migrations.                                                                 *)
ProcessType == [pc : States, seen : [Versions -> Checksums \cup {NoChecksum}],
                passed : SUBSET Versions, made : BOOLEAN, wrote : SUBSET Versions]

(* What an open transaction knows: what it found in the ledger is still there, *)
(* what it wrote is not, and each file it is done with is one of the two.      *)
Consistent(p) ==
    /\ process[p].pc \in {"create", "wait for table", "select"} => process[p].passed = {}
    /\ process[p].wrote \subseteq process[p].passed
    /\ \A v \in process[p].wrote : applied[v] = NoChecksum
    /\ \A v \in Versions :
          process[p].seen[v] # NoChecksum => applied[v] = process[p].seen[v]
    /\ \A v \in process[p].passed :
          v \in process[p].wrote \/ process[p].seen[v] = Files[p][v]

Served(p) == process[p].pc = "serving" => \A v \in DOMAIN Files[p] : applied[v] = Files[p][v]

Disjoint == \A p, q \in Processes : p # q => process[p].wrote \cap process[q].wrote = {}

Applied == {v \in Versions : applied[v] # NoChecksum}
WholeReleases == \E done \in SUBSET Processes : Applied = UNION {DOMAIN Files[p] : p \in done}

MigrationsInv ==
    /\ MigrationsTypeOK
    /\ \A p \in Processes : Consistent(p) /\ Served(p)
    /\ Disjoint
    /\ WholeReleases

----------------------------------------------------------------------------
LEMMA FilesAreVersions ==
  ASSUME NEW p \in Processes
  PROVE  /\ DOMAIN Files[p] \subseteq Versions
         /\ \A v \in DOMAIN Files[p] : Files[p][v] \in Checksums
BY DEF Versions, Checksums

LEMMA DownOK ==
  /\ Down \in ProcessType /\ Down.pc = "down" /\ Down.seen = Nothing
  /\ Down.passed = {} /\ Down.wrote = {} /\ Down.made = FALSE
  /\ \A v \in Versions : Nothing[v] = NoChecksum
BY DEF Down, ProcessType, States, Nothing

(* The files are taken in the order of their numbers: there is a first one.    *)
LEMMA NextFileOK ==
  ASSUME NEW p \in Processes, Left(p) # {}
  PROVE  NextFile(p) \in Left(p)
<1>1. Left(p) \subseteq Nat
  BY MigrationsAssumption DEF Left
<1>2. PICK v \in Left(p) : \A w \in Left(p) : ~ (<<w, v>> \in OpToRel(<, Nat))
  BY <1>1, WFMin, NatLessThanWellFounded
<1>3. ASSUME NEW w \in Left(p) PROVE v <= w
  <2>1. w \in Nat /\ v \in Nat
    BY <1>1
  <2>2. ~ (w < v)
    BY <1>2, <2>1, Zenon DEF OpToRel
  <2>3. QED
    BY <2>1, <2>2
<1>4. QED
  BY <1>3 DEF NextFile

LEMMA TypeParts ==
  ASSUME MigrationsTypeOK
  PROVE  /\ process \in [Processes -> ProcessType]
         /\ applied \in [Versions -> Checksums \cup {NoChecksum}]
         /\ ledger \in BOOLEAN
         /\ \A p \in Processes : process[p].passed \subseteq DOMAIN Files[p]
BY DEF MigrationsTypeOK, ProcessType

(* What the files that a process is done with, those it wrote and what it found *)
(* are to the ledger and to the other processes.                               *)
Knows(p, passed, wrote, found) ==
    /\ passed \subseteq DOMAIN Files[p] /\ wrote \subseteq passed
    /\ \A v \in wrote : /\ applied[v] = NoChecksum
                        /\ \A q \in Processes : q # p => v \notin process[q].wrote
    /\ \A v \in Versions : found[v] # NoChecksum => applied[v] = found[v]
    /\ \A v \in passed : v \in wrote \/ found[v] = Files[p][v]

LEMMA KnowsOf ==
  ASSUME MigrationsInv, NEW p \in Processes
  PROVE  Knows(p, process[p].passed, process[p].wrote, process[p].seen)
BY TypeParts DEF MigrationsInv, Consistent, Disjoint, Knows

(* A step of one process p, to the state r, that leaves the ledger alone.      *)
LEMMA ProcessSteps ==
  ASSUME MigrationsInv, UNCHANGED applied, ledger' \in BOOLEAN,
         NEW p \in Processes, NEW r \in ProcessType,
         process' = [process EXCEPT ![p] = r],
         r.pc # "serving",
         r.pc \in {"create", "wait for table", "select"} => r.passed = {},
         Knows(p, r.passed, r.wrote, r.seen)
  PROVE  MigrationsInv'
<1>1. /\ process \in [Processes -> ProcessType]
      /\ process' \in [Processes -> ProcessType] /\ process'[p] = r
      /\ \A q \in Processes : q # p => process'[q] = process[q]
  BY TypeParts DEF MigrationsInv
<1>2. MigrationsTypeOK'
  BY <1>1, TypeParts DEF MigrationsTypeOK, MigrationsInv, ProcessType, Knows
<1>3. ASSUME NEW q \in Processes PROVE Consistent(q)' /\ Served(q)'
  <2>1. Consistent(q) /\ Served(q)
    BY DEF MigrationsInv
  <2>2. CASE q = p
    <3>1. Consistent(p)'
      BY <1>1 DEF Consistent, Knows
    <3>2. Served(p)'
      BY <1>1, <2>1, <2>2 DEF Served
    <3>3. QED
      BY <2>2, <3>1, <3>2
  <2>3. CASE q # p
    BY <1>1, <2>1, <2>3 DEF Consistent, Served
  <2>4. QED
    BY <2>2, <2>3
<1>4. Disjoint'
  BY <1>1 DEF MigrationsInv, Disjoint, Knows
<1>5. WholeReleases'
  BY DEF MigrationsInv, WholeReleases, Applied
<1>6. QED
  BY <1>2, <1>3, <1>4, <1>5 DEF MigrationsInv

LEMMA InitWhole == MigrationsInit => MigrationsInv
<1> SUFFICES ASSUME MigrationsInit PROVE MigrationsInv
  OBVIOUS
<1>1. /\ process \in [Processes -> ProcessType] /\ \A p \in Processes : process[p] = Down
      /\ applied = Nothing /\ Nothing \in [Versions -> Checksums \cup {NoChecksum}]
  BY DownOK DEF MigrationsInit, Nothing
<1>2. MigrationsTypeOK
  BY <1>1, DownOK DEF MigrationsTypeOK, MigrationsInit, ProcessType
<1>3. \A p \in Processes : Consistent(p) /\ Served(p)
  BY <1>1, DownOK DEF Consistent, Served
<1>4. Disjoint
  BY <1>1, DownOK DEF Disjoint
<1>5. WholeReleases
  <2>1. Applied = UNION {DOMAIN Files[p] : p \in {}}
    BY <1>1, DownOK DEF Applied
  <2>2. QED
    BY <2>1 DEF WholeReleases
<1>6. QED
  BY <1>2, <1>3, <1>4, <1>5 DEF MigrationsInv

----------------------------------------------------------------------------
(* The steps of one process inside its transaction. *)

LEMMA BootKeeps ==
  ASSUME MigrationsInv, NEW p \in Processes, Boot(p)
  PROVE  MigrationsInv'
<1> DEFINE r == [Down EXCEPT !.pc = "create"]
<1>1. /\ r \in ProcessType /\ r.pc = "create" /\ r.seen = Nothing
      /\ r.passed = {} /\ r.wrote = {}
  BY DownOK DEF ProcessType, States
<1>2. process' = [process EXCEPT ![p] = r] /\ UNCHANGED <<applied, ledger>>
  BY DEF Boot
<1>3. ledger \in BOOLEAN
  BY TypeParts DEF MigrationsInv
<1> HIDE DEF r
<1>4. Knows(p, r.passed, r.wrote, r.seen)
  BY <1>1, DownOK DEF Knows
<1>5. QED
  BY <1>1, <1>2, <1>3, <1>4, ProcessSteps

(* A step that changes the label of p, and what it made, and nothing else. *)
LEMMA LabelSteps ==
  ASSUME MigrationsInv, UNCHANGED <<applied, ledger>>, NEW p \in Processes,
         NEW pc \in States, NEW made \in BOOLEAN,
         process' = [process EXCEPT ![p] = [process[p] EXCEPT !.pc = pc, !.made = made]],
         pc # "serving",
         pc \in {"create", "wait for table", "select"} => process[p].passed = {}
  PROVE  MigrationsInv'
<1> DEFINE r == [process[p] EXCEPT !.pc = pc, !.made = made]
<1>1. process[p] \in ProcessType /\ ledger \in BOOLEAN
      /\ process[p].passed \subseteq DOMAIN Files[p]
  BY TypeParts DEF MigrationsInv
<1>2. /\ r \in ProcessType /\ r.pc = pc /\ r.seen = process[p].seen
      /\ r.passed = process[p].passed /\ r.wrote = process[p].wrote
  BY <1>1 DEF ProcessType
<1>3. process' = [process EXCEPT ![p] = r]
  OBVIOUS
<1> HIDE DEF r
<1>4. Knows(p, r.passed, r.wrote, r.seen)
  BY <1>2, KnowsOf
<1>5. r.pc \in {"create", "wait for table", "select"} => r.passed = {}
  BY <1>2
<1>6. QED
  BY <1>1, <1>2, <1>3, <1>4, <1>5, ProcessSteps

LEMMA CreateLedgerKeeps ==
  ASSUME MigrationsInv, NEW p \in Processes, CreateLedger(p)
  PROVE  MigrationsInv'
<1>1. process[p] \in ProcessType /\ ledger \in BOOLEAN /\ process[p].made \in BOOLEAN
  BY TypeParts DEF MigrationsInv, ProcessType
<1>2. process[p].passed = {}
  BY DEF CreateLedger, MigrationsInv, Consistent
<1>3. CASE \E q \in Processes : process[q].made
  <2>1. process' = [process EXCEPT ![p] = [process[p] EXCEPT !.pc = "wait for table",
                                                             !.made = process[p].made]]
    BY <1>1, <1>3 DEF CreateLedger, ProcessType
  <2>2. QED
    BY <1>1, <1>2, <2>1, LabelSteps DEF CreateLedger, States
<1>4. CASE ~ \E q \in Processes : process[q].made
  <2>1. process' = [process EXCEPT ![p] = [process[p] EXCEPT !.pc = "select", !.made = ~ledger]]
    BY <1>4 DEF CreateLedger
  <2>2. QED
    BY <1>1, <1>2, <2>1, LabelSteps DEF CreateLedger, States
<1>5. QED
  BY <1>3, <1>4

LEMMA SelectKeeps ==
  ASSUME MigrationsInv, NEW p \in Processes, Select(p)
  PROVE  MigrationsInv'
<1> DEFINE r == [process[p] EXCEPT !.pc = "apply", !.seen = applied]
<1>1. /\ process[p] \in ProcessType /\ ledger \in BOOLEAN
      /\ applied \in [Versions -> Checksums \cup {NoChecksum}]
  BY TypeParts DEF MigrationsInv
<1>2. process[p].passed = {} /\ process[p].wrote = {}
  BY DEF Select, MigrationsInv, Consistent
<1>3. /\ r \in ProcessType /\ r.pc = "apply" /\ r.seen = applied
      /\ r.passed = {} /\ r.wrote = {}
  BY <1>1, <1>2 DEF ProcessType, States
<1>4. process' = [process EXCEPT ![p] = r] /\ UNCHANGED <<applied, ledger>>
  BY DEF Select
<1> HIDE DEF r
<1>5. Knows(p, r.passed, r.wrote, r.seen)
  BY <1>3 DEF Knows
<1>6. QED
  BY <1>1, <1>3, <1>4, <1>5, ProcessSteps

(* A process that ends by itself. *)
LEMMA GoesDown ==
  ASSUME MigrationsInv, NEW p \in Processes, UNCHANGED <<applied, ledger>>,
         process' = [process EXCEPT ![p] = Down]
  PROVE  MigrationsInv'
<1>1. ledger \in BOOLEAN
  BY TypeParts DEF MigrationsInv
<1>2. Knows(p, Down.passed, Down.wrote, Down.seen)
  BY DownOK DEF Knows
<1>3. QED
  BY <1>1, <1>2, DownOK, ProcessSteps

LEMMA SkipFileKeeps ==
  ASSUME MigrationsInv, NEW p \in Processes, SkipFile(p)
  PROVE  MigrationsInv'
<1> DEFINE v == NextFile(p)
           r == PassFile(p)
<1>1. /\ process[p] \in ProcessType /\ ledger \in BOOLEAN
      /\ process[p].passed \subseteq DOMAIN Files[p]
  BY TypeParts DEF MigrationsInv
<1>2. v \in DOMAIN Files[p] /\ v \in Versions
  BY NextFileOK, FilesAreVersions DEF SkipFile, Left
<1>3. UNCHANGED <<applied, ledger>>
  BY DEF SkipFile
<1>4. CASE process[p].seen[v] = Files[p][v]
  <2>1. process' = [process EXCEPT ![p] = r] /\ process[p].pc = "apply"
    BY <1>4 DEF SkipFile
  <2>2. /\ r \in ProcessType /\ r.pc = "apply" /\ r.seen = process[p].seen
        /\ r.passed = process[p].passed \cup {v} /\ r.wrote = process[p].wrote
    BY <1>1, <1>2, <2>1 DEF ProcessType, PassFile
  <2> HIDE DEF r, v
  <2>3. Knows(p, r.passed, r.wrote, r.seen)
    BY <1>4, <1>2, <2>2, KnowsOf DEF Knows
  <2>4. QED
    BY <1>1, <1>2, <1>3, <2>1, <2>2, <2>3, ProcessSteps
<1>5. CASE process[p].seen[v] # Files[p][v]
  BY <1>3, <1>5, GoesDown DEF SkipFile
<1>6. QED
  BY <1>4, <1>5

LEMMA ApplyFileKeeps ==
  ASSUME MigrationsInv, NEW p \in Processes, ApplyFile(p)
  PROVE  MigrationsInv'
<1> DEFINE v == NextFile(p)
           r == WriteFile(p)
<1>1. /\ process[p] \in ProcessType /\ ledger \in BOOLEAN /\ process[p].made \in BOOLEAN
      /\ process[p].passed \subseteq DOMAIN Files[p]
  BY TypeParts DEF MigrationsInv, ProcessType
<1>2. v \in DOMAIN Files[p] /\ v \in Versions
  BY NextFileOK, FilesAreVersions DEF ApplyFile, Left
<1>3. UNCHANGED <<applied, ledger>> /\ process[p].pc = "apply"
  BY DEF ApplyFile
<1>4. CASE applied[v] # NoChecksum
  BY <1>3, <1>4, GoesDown DEF ApplyFile
<1>5. CASE applied[v] = NoChecksum /\ \E q \in Processes : v \in process[q].wrote
  <2>1. process' = [process EXCEPT ![p] = [process[p] EXCEPT !.pc = "wait for row",
                                                             !.made = process[p].made]]
    BY <1>1, <1>5 DEF ApplyFile, ProcessType
  <2>2. QED
    BY <1>1, <1>3, <2>1, LabelSteps DEF States
<1>6. CASE applied[v] = NoChecksum /\ \A q \in Processes : v \notin process[q].wrote
  <2>1. process' = [process EXCEPT ![p] = r]
    BY <1>6 DEF ApplyFile
  <2>2. /\ r \in ProcessType /\ r.pc = "apply" /\ r.seen = process[p].seen
        /\ r.passed = process[p].passed \cup {v} /\ r.wrote = process[p].wrote \cup {v}
    BY <1>1, <1>2, <1>3 DEF ProcessType, PassFile, WriteFile
  <2> HIDE DEF r, v
  <2>3. Knows(p, r.passed, r.wrote, r.seen)
    BY <1>6, <1>2, <2>2, KnowsOf DEF Knows
  <2>4. QED
    BY <1>1, <1>2, <1>3, <2>1, <2>2, <2>3, ProcessSteps
<1>7. QED
  BY <1>4, <1>5, <1>6

----------------------------------------------------------------------------
(* The steps that end a transaction: the others that wait for it go on or end. *)

LEMMA CommitKeeps ==
  ASSUME MigrationsInv, NEW p \in Processes, Commit(p)
  PROVE  MigrationsInv'
<1> DEFINE P == process[p].passed
           W == process[p].wrote
           done1 == [Down EXCEPT !.pc = "serving"]
<1>1. /\ process \in [Processes -> ProcessType] /\ process[p] \in ProcessType
      /\ applied \in [Versions -> Checksums \cup {NoChecksum}]
      /\ \A q \in Processes : process[q].passed \subseteq DOMAIN Files[q]
      /\ P \in SUBSET Versions /\ W \in SUBSET Versions
  BY TypeParts DEF MigrationsInv, ProcessType
<1>2. P = DOMAIN Files[p] /\ W \subseteq P
  BY <1>1 DEF Commit, Left, MigrationsInv, Consistent
<1>3. /\ done1 \in ProcessType /\ done1.pc = "serving" /\ done1.seen = Nothing
      /\ done1.passed = {} /\ done1.wrote = {}
  BY DownOK DEF ProcessType, States
<1>4. /\ process'[p] = done1 /\ ledger' = TRUE
      /\ DOMAIN process' = Processes /\ process' = [q \in Processes |-> process'[q]]
      /\ \A q \in Processes : q # p => process'[q] = Down \/ process'[q] = process[q]
  BY DEF Commit
<1>5. \A v \in Versions : applied'[v] = IF v \in W THEN Files[p][v] ELSE applied[v]
  BY DEF Commit, Recorded
<1>6. applied' = [v \in Versions |-> applied'[v]]
  BY DEF Commit, Recorded
<1>7. \A v \in W : Files[p][v] \in Checksums /\ Files[p][v] # NoChecksum
  BY <1>2, FilesAreVersions, MigrationsAssumption
<1>8. applied' \in [Versions -> Checksums \cup {NoChecksum}]
  BY <1>1, <1>5, <1>6, <1>7
<1>9. \A v \in W : applied[v] = NoChecksum
  BY DEF MigrationsInv, Consistent
<1>10. process' \in [Processes -> ProcessType]
  BY <1>1, <1>3, <1>4, DownOK
<1> HIDE DEF done1, P, W
<1>11. MigrationsTypeOK'
  BY <1>1, <1>3, <1>4, <1>8, <1>10, DownOK DEF MigrationsTypeOK, ProcessType
<1>12. ASSUME NEW q \in Processes PROVE Consistent(q)'
  <2>1. CASE process'[q] = done1 \/ process'[q] = Down
    BY <1>3, <2>1, DownOK DEF Consistent
  <2>2. CASE q # p /\ process'[q] = process[q]
    <3>1. Consistent(q) /\ process[q].wrote \cap W = {} /\ process[q].wrote \subseteq Versions
      BY <1>1, <2>2 DEF MigrationsInv, Disjoint, W, ProcessType
    <3>2. ASSUME NEW v \in process[q].wrote PROVE applied'[v] = NoChecksum
      <4>1. v \in Versions /\ v \notin W /\ applied[v] = NoChecksum
        BY <3>1 DEF Consistent
      <4>2. QED
        BY <1>5, <4>1
    <3>3. \A v \in Versions : process[q].seen[v] # NoChecksum => applied'[v] = process[q].seen[v]
      BY <1>5, <1>9, <3>1 DEF Consistent
    <3>4. QED
      BY <2>2, <3>1, <3>2, <3>3 DEF Consistent
  <2>3. QED
    BY <1>4, <2>1, <2>2
<1>13. ASSUME NEW q \in Processes PROVE Served(q)'
  <2>1. CASE q = p
    <3>1. ASSUME NEW v \in DOMAIN Files[p] PROVE applied'[v] = Files[p][v]
      <4>1. v \in P /\ v \in Versions /\ Files[p][v] # NoChecksum
        BY <1>2, FilesAreVersions, MigrationsAssumption
      <4>2. v \in W \/ process[p].seen[v] = Files[p][v]
        BY <4>1 DEF MigrationsInv, Consistent, P, W
      <4>3. process[p].seen[v] # NoChecksum => applied[v] = process[p].seen[v]
        BY <4>1 DEF MigrationsInv, Consistent
      <4>4. QED
        BY <1>5, <4>1, <4>2, <4>3
    <3>2. QED
      BY <2>1, <3>1 DEF Served
  <2>2. CASE q # p /\ process'[q] = process[q]
    <3>1. ASSUME process[q].pc = "serving", NEW v \in DOMAIN Files[q]
          PROVE  applied'[v] = Files[q][v]
      <4>1. v \in Versions /\ Files[q][v] # NoChecksum
        BY FilesAreVersions, MigrationsAssumption
      <4>2. applied[v] = Files[q][v]
        BY <3>1 DEF MigrationsInv, Served
      <4>3. QED
        BY <1>5, <1>9, <4>1, <4>2
    <3>2. QED
      BY <2>2, <3>1 DEF Served
  <2>3. CASE q # p /\ process'[q] = Down
    BY <2>3, DownOK DEF Served
  <2>4. QED
    BY <1>4, <2>1, <2>2, <2>3
<1>14. Disjoint'
  BY <1>3, <1>4, DownOK DEF MigrationsInv, Disjoint
<1>15. WholeReleases'
  <2>1. PICK done \in SUBSET Processes : Applied = UNION {DOMAIN Files[q] : q \in done}
    BY DEF MigrationsInv, WholeReleases
  <2>2. ASSUME NEW v \in Versions
        PROVE  applied'[v] # NoChecksum <=> applied[v] # NoChecksum \/ v \in DOMAIN Files[p]
    <3>1. v \in W => v \in DOMAIN Files[p] /\ applied'[v] # NoChecksum
      BY <1>2, <1>5, <1>7
    <3>2. v \notin W /\ v \in DOMAIN Files[p] => applied[v] # NoChecksum
      <4>1. ASSUME v \notin W, v \in DOMAIN Files[p] PROVE applied[v] # NoChecksum
        <5>1. process[p].seen[v] = Files[p][v]
          BY <1>2, <4>1 DEF MigrationsInv, Consistent, P, W
        <5>2. Files[p][v] # NoChecksum
          BY <4>1, FilesAreVersions, MigrationsAssumption
        <5>3. QED
          BY <5>1, <5>2 DEF MigrationsInv, Consistent
      <4>2. QED
        BY <4>1
    <3>3. QED
      BY <1>5, <3>1, <3>2
  <2>3. Applied' = Applied \cup DOMAIN Files[p]
    BY <2>2, FilesAreVersions DEF Applied
  <2>4. Applied' = UNION {DOMAIN Files[q] : q \in done \cup {p}}
    BY <2>1, <2>3
  <2>5. QED
    BY <2>4 DEF WholeReleases
<1>16. QED
  BY <1>11, <1>12, <1>13, <1>14, <1>15 DEF MigrationsInv

LEMMA CrashKeeps ==
  ASSUME MigrationsInv, NEW p \in Processes, Crash(p)
  PROVE  MigrationsInv'
<1>1. /\ process \in [Processes -> ProcessType]
      /\ applied \in [Versions -> Checksums \cup {NoChecksum}]
      /\ \A q \in Processes : process[q].passed \subseteq DOMAIN Files[q]
  BY TypeParts DEF MigrationsInv
<1>2. UNCHANGED <<applied, ledger>> /\ process' = [q \in Processes |-> process'[q]]
  BY DEF Crash
<1>3. ASSUME NEW q \in Processes
      PROVE  /\ process'[q] \in ProcessType
             /\ process'[q].passed \subseteq DOMAIN Files[q]
             /\ process'[q].wrote \subseteq process[q].wrote
             /\ Consistent(q)' /\ Served(q)'
  <2>1. Consistent(q) /\ Served(q) /\ process[q] \in ProcessType
    BY <1>1 DEF MigrationsInv
  <2>2. CASE process'[q] = Down
    BY <2>2, DownOK DEF Consistent, Served
  <2>3. CASE process'[q] = process[q]
    BY <1>1, <1>2, <2>1, <2>3 DEF Consistent, Served
  <2>4. CASE Awaits(q, p) /\ process'[q] = Resumed(q)
    <3>1. process[q].pc \in {"wait for table", "wait for row"}
      BY <2>4 DEF Awaits
    <3>2. /\ Resumed(q) \in ProcessType
          /\ Resumed(q).pc = IF process[q].pc = "wait for table" THEN "create" ELSE "apply"
          /\ Resumed(q).seen = process[q].seen /\ Resumed(q).passed = process[q].passed
          /\ Resumed(q).wrote = process[q].wrote
      BY <2>1 DEF Resumed, ProcessType, States
    <3>3. QED
      BY <1>1, <1>2, <2>1, <2>4, <3>1, <3>2 DEF Consistent, Served
  <2>5. QED
    BY <2>2, <2>3, <2>4 DEF Crash
<1>4. process' \in [Processes -> ProcessType]
  BY <1>2, <1>3
<1>5. MigrationsTypeOK'
  BY <1>2, <1>3, <1>4, TypeParts DEF MigrationsTypeOK, ProcessType, MigrationsInv
<1>6. Disjoint'
  BY <1>3 DEF MigrationsInv, Disjoint
<1>7. WholeReleases'
  BY <1>2 DEF MigrationsInv, WholeReleases, Applied
<1>8. QED
  BY <1>3, <1>5, <1>6, <1>7 DEF MigrationsInv

----------------------------------------------------------------------------
(* The invariant is inductive. *)
LEMMA MigrationsInvariant == MigrationsSpec => []MigrationsInv
<1>1. MigrationsInit => MigrationsInv
  BY InitWhole
<1>2. MigrationsInv /\ [MigrationsNext]_migrationVars => MigrationsInv'
  <2> SUFFICES ASSUME MigrationsInv, [MigrationsNext]_migrationVars PROVE MigrationsInv'
    OBVIOUS
  <2>1. CASE UNCHANGED migrationVars
    BY <2>1 DEF migrationVars, MigrationsInv, MigrationsTypeOK, Consistent, Served, Disjoint,
                WholeReleases, Applied
  <2>2. CASE MigrationsNext
    <3>1. PICK p \in Processes : Migrate(p) \/ Crash(p)
      BY <2>2 DEF MigrationsNext
    <3>2. CASE Boot(p)
      BY <3>2, BootKeeps
    <3>3. CASE CreateLedger(p)
      BY <3>3, CreateLedgerKeeps
    <3>4. CASE Select(p)
      BY <3>4, SelectKeeps
    <3>5. CASE SkipFile(p)
      BY <3>5, SkipFileKeeps
    <3>6. CASE ApplyFile(p)
      BY <3>6, ApplyFileKeeps
    <3>7. CASE Commit(p)
      BY <3>7, CommitKeeps
    <3>8. CASE Crash(p)
      BY <3>8, CrashKeeps
    <3>9. QED
      BY <3>1, <3>2, <3>3, <3>4, <3>5, <3>6, <3>7, <3>8 DEF Migrate
  <2>3. QED
    BY <2>1, <2>2
<1>3. QED
  BY <1>1, <1>2, PTL DEF MigrationsSpec

(* A release is applied as a whole or not at all, and a process serves only    *)
(* with each of its files applied under its own checksum, for any number of    *)
(* processes and any releases: the one transaction of migrate() and the        *)
(* primary key of schema_migrations are enough, without a lock.                *)
THEOREM ReleasesAreWhole == MigrationsSpec => []MigrationsAreWhole
<1>1. MigrationsInv => MigrationsAreWhole
  BY DEF MigrationsInv, MigrationsAreWhole, Served, WholeReleases, Applied
<1>2. QED
  BY <1>1, MigrationsInvariant, PTL

----------------------------------------------------------------------------
(* ConnectionPool.                                                             *)
Labels == {"idle", "checkout", "ping", "replace", "read", "answered", "failed"}
Holding == {"ping", "read", "answered", "failed"}

(* A connection that the database has ended and the client has not found out   *)
(* about, in a thread's hands or in the pool's: each may spoil one call.       *)
Dead(c) == c # NoConn /\ ~c.alive /\ ~c.closed
Doomed == {t \in Threads : Dead(conn[t])}
Stale == {i \in DOMAIN idle : ~idle[i].alive}

Held(c) == IF c = NoConn THEN 0 ELSE 1
Spoils(c) == IF Dead(c) THEN 1 ELSE 0
Ended(c) == IF c.alive THEN 0 ELSE 1

(* The room of the pool is shared by the threads, the lost slots and the idle  *)
(* connections; the ended connections pay for every spoiled call.              *)
PoolInv ==
    /\ IdleIsClean
    /\ leaked \in Nat /\ spoiled \in Nat /\ killed \in Nat
    /\ \A t \in Threads : conn[t] # NoConn /\ conn[t].closed =>
          thread[t] = "failed" /\ ~conn[t].alive
    /\ \A i \in DOMAIN idle : ~idle[i].closed
    /\ Cardinality(Busy) + leaked + Len(idle) <= MaxConn
    /\ leaked <= spoiled
    /\ Cardinality(Doomed) + Cardinality(Stale) + spoiled <= killed

----------------------------------------------------------------------------
LEMMA LimitsOK ==
  /\ MinConn \in Nat /\ MaxConn \in Nat /\ 1 <= MinConn /\ MinConn <= MaxConn
  /\ IsFiniteSet(Threads) /\ NoConn \notin Connection
  /\ New \in Connection /\ New # NoConn
  /\ New.alive = TRUE /\ New.open = FALSE /\ New.closed = FALSE
<1>1. New \in Connection /\ New.alive = TRUE /\ New.open = FALSE /\ New.closed = FALSE
  BY DEF New, Connection
<1>2. QED
  BY <1>1, PoolAssumption

LEMMA Parts ==
  ASSUME PoolInv
  PROVE  /\ thread \in [Threads -> Labels] /\ conn \in [Threads -> Connection \cup {NoConn}]
         /\ \A t \in Threads : conn[t] # NoConn <=> thread[t] \in Holding
         /\ idle \in Seq(Connection) /\ Len(idle) \in Nat /\ Len(idle) <= MinConn
         /\ DOMAIN idle = 1 .. Len(idle)
         /\ \A i \in DOMAIN idle : idle[i] \in Connection /\ ~idle[i].open /\ ~idle[i].closed
         /\ leaked \in Nat /\ spoiled \in Nat /\ killed \in Nat
BY DEF PoolInv, IdleIsClean, Labels, Holding

LEMMA SetsOK ==
  ASSUME PoolInv
  PROVE  /\ IsFiniteSet(Busy) /\ IsFiniteSet(Doomed) /\ IsFiniteSet(Stale)
         /\ Cardinality(Busy) \in Nat /\ Cardinality(Doomed) \in Nat
         /\ Cardinality(Stale) \in Nat
<1>1. IsFiniteSet(Busy) /\ IsFiniteSet(Doomed)
  BY LimitsOK, FS_Subset DEF Busy, Doomed
<1>2. IsFiniteSet(Stale)
  <2>1. DOMAIN idle = 1 .. Len(idle) /\ Len(idle) \in Int
    BY Parts
  <2>2. IsFiniteSet(DOMAIN idle)
    BY <2>1, FS_Interval
  <2>3. QED
    BY <2>2, FS_Subset DEF Stale
<1>3. QED
  BY <1>1, <1>2, FS_CardinalityType

(* How the sets of threads change when thread t comes to hold k. *)
LEMMA ThreadSets ==
  ASSUME PoolInv, NEW t \in Threads, NEW k \in Connection \cup {NoConn},
         conn' = [conn EXCEPT ![t] = k]
  PROVE  /\ Cardinality(Busy') = Cardinality(Busy) + Held(k) - Held(conn[t])
         /\ Cardinality(Doomed') = Cardinality(Doomed) + Spoils(k) - Spoils(conn[t])
<1>1. conn \in [Threads -> Connection \cup {NoConn}]
  BY Parts
<1>2. conn'[t] = k /\ \A u \in Threads : u # t => conn'[u] = conn[u]
  BY <1>1
<1>3. IsFiniteSet(Busy) /\ IsFiniteSet(Doomed)
      /\ Cardinality(Busy) \in Nat /\ Cardinality(Doomed) \in Nat
  BY SetsOK
<1>4. Cardinality(Busy') = Cardinality(Busy) + Held(k) - Held(conn[t])
  <2>1. Busy' = IF k # NoConn THEN Busy \cup {t} ELSE Busy \ {t}
    BY <1>2 DEF Busy
  <2>2. t \in Busy <=> conn[t] # NoConn
    BY DEF Busy
  <2>3. CASE k # NoConn
    <3>1. Cardinality(Busy \cup {t}) = IF t \in Busy THEN Cardinality(Busy) ELSE Cardinality(Busy) + 1
      BY <1>3, FS_AddElement
    <3>2. QED
      BY <1>3, <2>1, <2>2, <2>3, <3>1 DEF Held, Spoils, Ended
  <2>4. CASE k = NoConn
    <3>1. Cardinality(Busy \ {t}) = IF t \in Busy THEN Cardinality(Busy) - 1 ELSE Cardinality(Busy)
      BY <1>3, FS_RemoveElement
    <3>2. QED
      BY <1>3, <2>1, <2>2, <2>4, <3>1 DEF Held, Spoils, Ended
  <2>5. QED
    BY <2>3, <2>4
<1>5. Cardinality(Doomed') = Cardinality(Doomed) + Spoils(k) - Spoils(conn[t])
  <2>1. Doomed' = IF Dead(k) THEN Doomed \cup {t} ELSE Doomed \ {t}
    BY <1>2 DEF Doomed, Dead
  <2>2. t \in Doomed <=> Dead(conn[t])
    BY DEF Doomed
  <2>3. CASE Dead(k)
    <3>1. Cardinality(Doomed \cup {t}) = IF t \in Doomed THEN Cardinality(Doomed) ELSE Cardinality(Doomed) + 1
      BY <1>3, FS_AddElement
    <3>2. QED
      BY <1>3, <2>1, <2>2, <2>3, <3>1 DEF Held, Spoils, Ended
  <2>4. CASE ~Dead(k)
    <3>1. Cardinality(Doomed \ {t}) = IF t \in Doomed THEN Cardinality(Doomed) - 1 ELSE Cardinality(Doomed)
      BY <1>3, FS_RemoveElement
    <3>2. QED
      BY <1>3, <2>1, <2>2, <2>4, <3>1 DEF Held, Spoils, Ended
  <2>5. QED
    BY <2>3, <2>4
<1>6. QED
  BY <1>4, <1>5

(* The pool takes its last connection out, or keeps one more. *)
LEMMA PopOK ==
  ASSUME PoolInv, idle # <<>>, idle' = SubSeq(idle, 1, Len(idle) - 1)
  PROVE  /\ idle' \in Seq(Connection) /\ Len(idle') = Len(idle) - 1 /\ Len(idle) >= 1
         /\ \A i \in DOMAIN idle' : ~idle'[i].open /\ ~idle'[i].closed
         /\ idle[Len(idle)] \in Connection
         /\ ~idle[Len(idle)].open /\ ~idle[Len(idle)].closed
         /\ Cardinality(Stale') = Cardinality(Stale) - Ended(idle[Len(idle)])
<1> DEFINE n == Len(idle)
<1>1. /\ idle \in Seq(Connection) /\ n \in Nat /\ DOMAIN idle = 1 .. n
      /\ \A i \in DOMAIN idle : idle[i] \in Connection /\ ~idle[i].open /\ ~idle[i].closed
  BY Parts
<1>2. n >= 1 /\ n \in DOMAIN idle
  <2>1. n # 0
    BY <1>1, EmptySeq
  <2>2. QED
    BY <1>1, <2>1
<1>3. /\ idle' \in Seq(Connection) /\ Len(idle') = n - 1
      /\ DOMAIN idle' = 1 .. n - 1 /\ \A i \in 1 .. n - 1 : idle'[i] = idle[i]
  BY <1>1, <1>2
<1>4. \A i \in DOMAIN idle' : i \in DOMAIN idle /\ idle'[i] = idle[i] /\ i # n
  BY <1>1, <1>2, <1>3
<1>5. Stale' = Stale \ {n}
  BY <1>1, <1>2, <1>3, <1>4 DEF Stale
<1>6. n \in Stale <=> ~idle[n].alive
  BY <1>2 DEF Stale
<1>7. Cardinality(Stale \ {n}) = IF n \in Stale THEN Cardinality(Stale) - 1 ELSE Cardinality(Stale)
  BY SetsOK, FS_RemoveElement
<1>8. Cardinality(Stale') = Cardinality(Stale) - Ended(idle[n])
  BY <1>5, <1>6, <1>7, SetsOK DEF Held, Spoils, Ended
<1>9. \A i \in DOMAIN idle' : ~idle'[i].open /\ ~idle'[i].closed
  BY <1>1, <1>4
<1>10. QED
  BY <1>1, <1>2, <1>3, <1>8, <1>9

LEMMA PushOK ==
  ASSUME PoolInv, NEW c \in Connection, ~c.open, ~c.closed, c.alive,
         idle' = Append(idle, c)
  PROVE  /\ idle' \in Seq(Connection) /\ Len(idle') = Len(idle) + 1
         /\ \A i \in DOMAIN idle' : ~idle'[i].open /\ ~idle'[i].closed
         /\ Cardinality(Stale') = Cardinality(Stale)
<1> DEFINE n == Len(idle)
<1>1. /\ idle \in Seq(Connection) /\ n \in Nat /\ DOMAIN idle = 1 .. n
      /\ \A i \in DOMAIN idle : idle[i] \in Connection /\ ~idle[i].open /\ ~idle[i].closed
  BY Parts
<1>2. /\ idle' \in Seq(Connection) /\ Len(idle') = n + 1 /\ DOMAIN idle' = 1 .. n + 1
      /\ \A i \in 1 .. n : idle'[i] = idle[i]
      /\ idle'[n + 1] = c
  BY <1>1, AppendProperties
<1>3. \A i \in DOMAIN idle' : (i \in DOMAIN idle /\ idle'[i] = idle[i]) \/ (i = n + 1 /\ idle'[i] = c)
  BY <1>1, <1>2
<1>4. Stale' = Stale
  BY <1>1, <1>2, <1>3 DEF Stale
<1>5. \A i \in DOMAIN idle' : ~idle'[i].open /\ ~idle'[i].closed
  BY <1>1, <1>3
<1>6. QED
  BY <1>2, <1>4, <1>5

----------------------------------------------------------------------------
LEMMA RoomOK ==
  ASSUME PoolInv
  PROVE  /\ Cardinality(Busy) + leaked + Len(idle) <= MaxConn
         /\ Cardinality(Busy) \in Nat /\ leaked \in Nat /\ Len(idle) \in Nat /\ MaxConn \in Nat
BY SetsOK, Parts, LimitsOK DEF PoolInv

(* A step of thread t, which then is at the label l and holds k: what it does  *)
(* to the counters has to add up.                                              *)
LEMMA ThreadSteps ==
  ASSUME PoolInv, UNCHANGED <<style, killed>>,
         NEW t \in Threads, NEW l \in Labels, NEW k \in Connection \cup {NoConn},
         thread' = [thread EXCEPT ![t] = l], conn' = [conn EXCEPT ![t] = k],
         k # NoConn <=> l \in Holding,
         k # NoConn /\ k.closed => l = "failed" /\ ~k.alive,
         idle' \in Seq(Connection), Len(idle') <= MinConn,
         \A i \in DOMAIN idle' : ~idle'[i].open /\ ~idle'[i].closed,
         leaked' \in Nat, spoiled' \in Nat, leaked' <= spoiled',
         Cardinality(Busy) + Held(k) - Held(conn[t]) + leaked' + Len(idle')
            <= MaxConn,
         Spoils(k) + Cardinality(Stale') + spoiled'
            <= Spoils(conn[t]) + Cardinality(Stale) + spoiled,
         Cardinality(Stale') \in Int
  PROVE  PoolInv'
<1>1. /\ thread \in [Threads -> Labels] /\ conn \in [Threads -> Connection \cup {NoConn}]
      /\ \A u \in Threads : conn[u] # NoConn <=> thread[u] \in Holding
      /\ Len(idle) \in Nat /\ leaked \in Nat /\ spoiled \in Nat /\ killed \in Nat
  BY Parts
<1>2. /\ thread' \in [Threads -> Labels] /\ conn' \in [Threads -> Connection \cup {NoConn}]
      /\ \A u \in Threads : conn'[u] # NoConn <=> thread'[u] \in Holding
  BY <1>1
<1>3. \A u \in Threads : conn'[u] # NoConn /\ conn'[u].closed =>
         thread'[u] = "failed" /\ ~conn'[u].alive
  BY <1>1 DEF PoolInv
<1>4. /\ Cardinality(Busy') = Cardinality(Busy) + Held(k) - Held(conn[t])
      /\ Cardinality(Doomed') = Cardinality(Doomed) + Spoils(k) - Spoils(conn[t])
  BY ThreadSets
<1>5. /\ Cardinality(Busy) \in Nat /\ Cardinality(Doomed) \in Nat /\ Cardinality(Stale) \in Nat
      /\ Len(idle') \in Nat /\ MaxConn \in Nat
  BY SetsOK, LimitsOK, LenProperties DEF Held, Spoils, Ended
<1>6. /\ Held(k) \in Int /\ Held(conn[t]) \in Int
      /\ Spoils(k) \in Int /\ Spoils(conn[t]) \in Int
  BY DEF Held, Spoils, Ended
<1>7. Cardinality(Busy') \in Int /\ Cardinality(Doomed') \in Int
  <2>1. Cardinality(Busy) + Held(k) - Held(conn[t]) \in Int
    BY <1>5, <1>6
  <2>2. Cardinality(Doomed) + Spoils(k) - Spoils(conn[t]) \in Int
    BY <1>5, <1>6
  <2>3. QED
    BY <1>4, <2>1, <2>2
<1>8. Cardinality(Busy') + leaked' + Len(idle') <= MaxConn /\ Cardinality(Busy') + leaked' <= MaxConn
  <2>1. Cardinality(Busy') + leaked' + Len(idle') <= MaxConn
    BY <1>4
  <2>2. QED
    BY <1>5, <1>7, <2>1
<1>9. Cardinality(Doomed') + Cardinality(Stale') + spoiled' <= killed'
  <2>1. /\ Cardinality(Doomed) + Cardinality(Stale) + spoiled <= killed
        /\ killed' = killed /\ killed \in Int /\ spoiled \in Int /\ spoiled' \in Int
    BY <1>1 DEF PoolInv
  <2>2. Cardinality(Doomed') = Cardinality(Doomed) + Spoils(k) - Spoils(conn[t])
    BY <1>4
  <2>3. Spoils(k) + Cardinality(Stale') + spoiled' <= Spoils(conn[t]) + Cardinality(Stale) + spoiled
    OBVIOUS
  <2> DEFINE d == Cardinality(Doomed)
             st == Cardinality(Stale)
             stNow == Cardinality(Stale')
             x == Spoils(k)
             y == Spoils(conn[t])
             sp == spoiled
             spNow == spoiled'
  <2>4. /\ d \in Int /\ st \in Int /\ stNow \in Int /\ x \in Int /\ y \in Int
        /\ sp \in Int /\ spNow \in Int
        /\ d + st + sp <= killed /\ x + stNow + spNow <= y + st + sp
    BY <1>5, <1>6, <2>1, <2>3
  <2> HIDE DEF d, st, stNow, x, y, sp, spNow
  <2>5. d + x - y + stNow + spNow <= killed
    BY <2>1, <2>4
  <2>6. QED
    BY <2>1, <2>2, <2>5 DEF d, stNow, x, y, spNow
<1>10. IdleIsClean'
  BY <1>2, <1>8 DEF IdleIsClean, Labels, Holding, PoolInv
<1>11. QED
  BY <1>1, <1>3, <1>8, <1>9, <1>10 DEF PoolInv

(* A step that leaves the idle connections and the counters alone. *)
LEMMA QuietSteps ==
  ASSUME PoolInv, UNCHANGED <<style, idle, leaked, spoiled, killed>>,
         NEW t \in Threads, NEW l \in Labels, NEW k \in Connection \cup {NoConn},
         thread' = [thread EXCEPT ![t] = l], conn' = [conn EXCEPT ![t] = k],
         k # NoConn <=> l \in Holding,
         k # NoConn /\ k.closed => l = "failed" /\ ~k.alive,
         k # NoConn => conn[t] # NoConn,
         Dead(k) => Dead(conn[t])
  PROVE  PoolInv'
<1>1. /\ idle' \in Seq(Connection) /\ Len(idle') <= MinConn /\ Len(idle') = Len(idle)
      /\ Len(idle) \in Nat
      /\ \A i \in DOMAIN idle' : ~idle'[i].open /\ ~idle'[i].closed
      /\ leaked' = leaked /\ spoiled' = spoiled /\ leaked \in Nat /\ spoiled \in Nat
      /\ leaked <= spoiled
  BY Parts DEF PoolInv
<1>2. Stale' = Stale /\ Cardinality(Stale) \in Nat
  BY SetsOK DEF Stale
<1>3. /\ Held(k) <= Held(conn[t]) /\ Spoils(k) <= Spoils(conn[t])
      /\ Held(k) \in Int /\ Held(conn[t]) \in Int
      /\ Spoils(k) \in Int /\ Spoils(conn[t]) \in Int
  BY DEF Held, Spoils, Ended
<1>4. /\ Cardinality(Busy) + Held(k) - Held(conn[t]) + leaked' + Len(idle')
           <= MaxConn
      /\ Spoils(k) + Cardinality(Stale') + spoiled'
           <= Spoils(conn[t]) + Cardinality(Stale) + spoiled
  <2> DEFINE b == Cardinality(Busy)
             n == Len(idle)
             x == Held(k)
             y == Held(conn[t])
             p == Spoils(k)
             q == Spoils(conn[t])
             st == Cardinality(Stale)
  <2>1. /\ b \in Int /\ n \in Int /\ x \in Int /\ y \in Int /\ p \in Int /\ q \in Int
        /\ st \in Int /\ leaked \in Int /\ spoiled \in Int /\ MaxConn \in Int
        /\ b + leaked + n <= MaxConn /\ x <= y /\ p <= q
    BY <1>1, <1>2, <1>3, RoomOK
  <2>2. Len(idle') = n /\ Cardinality(Stale') = st /\ leaked' = leaked /\ spoiled' = spoiled
    BY <1>1, <1>2
  <2> HIDE DEF b, n, x, y, p, q, st
  <2>3. b + x - y + leaked + n <= MaxConn
    BY <2>1
  <2>4. p + st + spoiled <= q + st + spoiled
    BY <2>1
  <2>5. QED
    BY <2>2, <2>3, <2>4 DEF b, n, x, y, p, q, st
<1>5. Cardinality(Stale') \in Int
  BY <1>2
<1>6. QED
  BY <1>1, <1>4, <1>5, ThreadSteps

LEMMA HoldsOK ==
  ASSUME PoolInv, NEW t \in Threads, thread[t] \in Holding
  PROVE  /\ conn[t] \in Connection /\ conn[t] # NoConn
         /\ thread[t] # "failed" => ~conn[t].closed
         /\ conn[t].alive => ~conn[t].closed
         /\ Dead(conn[t]) <=> ~conn[t].alive /\ ~conn[t].closed
BY Parts DEF PoolInv, Dead, Connection

(* A thread without a connection that goes on without one. *)
LEMMA FreeSteps ==
  ASSUME PoolInv, UNCHANGED <<style, idle, conn, leaked, spoiled, killed>>,
         NEW t \in Threads, NEW l \in Labels \ Holding, thread[t] \in Labels \ Holding,
         thread' = [thread EXCEPT ![t] = l]
  PROVE  PoolInv'
<1>1. conn[t] = NoConn /\ conn \in [Threads -> Connection \cup {NoConn}]
  BY Parts
<1>2. conn' = [conn EXCEPT ![t] = NoConn]
  BY <1>1
<1>3. QED
  BY <1>1, <1>2, QuietSteps

(* getconn, for a thread that then goes on to the label l. *)
LEMMA GetConnKeeps ==
  ASSUME PoolInv, UNCHANGED <<style, leaked, spoiled, killed>>,
         NEW t \in Threads, thread[t] \in {"checkout", "replace"},
         NEW l \in {"ping", "read"}, GetConn(t, l)
  PROVE  PoolInv'
<1>1. /\ conn[t] = NoConn /\ ~Dead(conn[t]) /\ l \in Labels /\ l \in Holding
      /\ Len(idle) \in Nat /\ Len(idle) <= MinConn /\ MinConn \in Nat
      /\ leaked \in Nat /\ spoiled \in Nat /\ leaked <= spoiled
      /\ Cardinality(Stale) \in Nat /\ Cardinality(Busy) \in Nat
      /\ idle \in Seq(Connection)
      /\ \A i \in DOMAIN idle : ~idle[i].open /\ ~idle[i].closed
  BY Parts, SetsOK, LimitsOK DEF Dead, Labels, Holding, PoolInv
<1>2. CASE idle # <<>>
  <2> DEFINE k == idle[Len(idle)]
  <2>1. /\ conn' = [conn EXCEPT ![t] = k] /\ thread' = [thread EXCEPT ![t] = l]
        /\ idle' = SubSeq(idle, 1, Len(idle) - 1)
    BY <1>2 DEF GetConn, To
  <2>2. /\ idle' \in Seq(Connection) /\ Len(idle') = Len(idle) - 1
        /\ \A i \in DOMAIN idle' : ~idle'[i].open /\ ~idle'[i].closed
        /\ k \in Connection /\ ~k.open /\ ~k.closed
        /\ Cardinality(Stale') = Cardinality(Stale) - Ended(k)
    BY <1>2, <2>1, PopOK
  <2>3. k # NoConn /\ (Dead(k) <=> ~k.alive)
    BY <2>2, LimitsOK DEF Dead
  <2>4. /\ Held(k) = 1 /\ Held(conn[t]) = 0
        /\ Spoils(k) = Ended(k) /\ Spoils(conn[t]) = 0
        /\ Ended(k) \in Int
    BY <1>1, <2>3 DEF Held, Spoils, Ended
  <2> HIDE DEF k
  <2>5. /\ Cardinality(Busy) + Held(k) - Held(conn[t]) + leaked' + Len(idle')
             <= MaxConn
        /\ Spoils(k) + Cardinality(Stale') + spoiled'
             <= Spoils(conn[t]) + Cardinality(Stale) + spoiled
        /\ Cardinality(Stale') \in Int /\ Len(idle') <= MinConn
    <3> DEFINE b == Cardinality(Busy)
               n == Len(idle)
               e == Ended(k)
               st == Cardinality(Stale)
    <3>1. /\ b \in Int /\ n \in Int /\ e \in Int /\ st \in Int
          /\ leaked \in Int /\ spoiled \in Int /\ MaxConn \in Int /\ MinConn \in Int
          /\ b + leaked + n <= MaxConn /\ n <= MinConn
      BY <1>1, <2>4, RoomOK
    <3>2. Len(idle') = n - 1 /\ Cardinality(Stale') = st - e
      BY <2>2
    <3>3. leaked' = leaked /\ spoiled' = spoiled
      OBVIOUS
    <3>4. Held(k) = 1 /\ Held(conn[t]) = 0 /\ Spoils(k) = e /\ Spoils(conn[t]) = 0
      BY <2>4
    <3> HIDE DEF b, n, e, st
    <3>5. /\ b + 1 - 0 + leaked + (n - 1) <= MaxConn
          /\ e + (st - e) + spoiled <= 0 + st + spoiled
          /\ st - e \in Int /\ n - 1 <= MinConn
      BY <3>1
    <3>6. QED
      BY <3>2, <3>3, <3>4, <3>5 DEF b, st
  <2>6. QED
    BY <1>1, <2>1, <2>2, <2>3, <2>5, ThreadSteps
<1>3. CASE idle = <<>> /\ ~Full
  <2>1. conn' = [conn EXCEPT ![t] = New] /\ thread' = [thread EXCEPT ![t] = l] /\ UNCHANGED idle
    BY <1>3 DEF GetConn, To
  <2>2. Len(idle) = 0 /\ Cardinality(Busy) + leaked < MaxConn /\ MaxConn \in Nat
    BY <1>1, <1>3, LimitsOK DEF Full
  <2>3. Stale' = Stale /\ idle' = idle
    BY <2>1 DEF Stale
  <2>4. New \in Connection /\ New # NoConn /\ ~Dead(New) /\ ~New.closed
    BY LimitsOK DEF Dead
  <2>5. /\ Held(New) = 1 /\ Held(conn[t]) = 0
        /\ Spoils(New) = 0 /\ Spoils(conn[t]) = 0
    BY <1>1, <2>4 DEF Held, Spoils, Ended
  <2>6. /\ Cardinality(Busy) + Held(New) - Held(conn[t]) + leaked' + Len(idle')
             <= MaxConn
        /\ Spoils(New) + Cardinality(Stale') + spoiled'
             <= Spoils(conn[t]) + Cardinality(Stale) + spoiled
        /\ Cardinality(Stale') \in Int /\ Len(idle') <= MinConn
    BY <1>1, <2>2, <2>3, <2>5
  <2>7. QED
    BY <1>1, <2>1, <2>3, <2>4, <2>6, ThreadSteps
<1>4. CASE idle = <<>> /\ Full
  <2>1. UNCHANGED <<idle, conn>> /\ thread' = [thread EXCEPT ![t] = "idle"]
    BY <1>4 DEF GetConn, To
  <2>2. QED
    BY <2>1, FreeSteps DEF Labels, Holding
<1>5. QED
  BY <1>2, <1>3, <1>4

LEMMA PingKeeps ==
  ASSUME PoolInv, NEW t \in Threads, Ping(t)
  PROVE  PoolInv'
<1>1. /\ thread[t] = "ping" /\ thread[t] \in Holding
      /\ UNCHANGED <<style, idle, leaked, spoiled, killed>>
  BY DEF Ping, Holding
<1>2. /\ conn[t] \in Connection /\ conn[t] # NoConn /\ ~conn[t].closed
      /\ (Dead(conn[t]) <=> ~conn[t].alive)
  BY <1>1, HoldsOK
<1>3. CASE conn[t].alive
  <2> DEFINE k == [conn[t] EXCEPT !.open = TRUE]
  <2>1. conn' = [conn EXCEPT ![t] = k] /\ thread' = [thread EXCEPT ![t] = "read"]
    BY <1>3 DEF Ping, To
  <2>2. /\ k \in Connection /\ k # NoConn /\ k.closed = conn[t].closed
        /\ k.alive = conn[t].alive
    BY <1>2, LimitsOK DEF Connection
  <2> HIDE DEF k
  <2>3. QED
    BY <1>1, <1>2, <1>3, <2>1, <2>2, QuietSteps DEF Dead, Labels, Holding
<1>4. CASE ~conn[t].alive
  <2>1. conn' = [conn EXCEPT ![t] = NoConn] /\ thread' = [thread EXCEPT ![t] = "replace"]
    BY <1>4 DEF Ping, To
  <2>2. QED
    BY <1>1, <2>1, QuietSteps DEF Dead, Labels, Holding
<1>5. QED
  BY <1>3, <1>4

(* The statement of a call: the connection is used, with success or not. *)
LEMMA UsedKeeps ==
  ASSUME PoolInv, NEW t \in Threads, thread[t] = "read", conn[t].alive,
         NEW l \in {"answered", "failed"},
         conn' = [conn EXCEPT ![t] = [conn[t] EXCEPT !.open = TRUE]],
         thread' = [thread EXCEPT ![t] = l],
         UNCHANGED <<style, idle, leaked, spoiled, killed>>
  PROVE  PoolInv'
<1> DEFINE k == [conn[t] EXCEPT !.open = TRUE]
<1>1. /\ conn[t] \in Connection /\ conn[t] # NoConn /\ ~conn[t].closed
  BY HoldsOK DEF Holding
<1>2. /\ k \in Connection /\ k # NoConn /\ ~k.closed /\ k.alive
  BY <1>1, LimitsOK DEF Connection
<1>3. conn' = [conn EXCEPT ![t] = k]
  OBVIOUS
<1> HIDE DEF k
<1>4. QED
  BY <1>1, <1>2, <1>3, QuietSteps DEF Dead, Labels, Holding

LEMMA ReadKeeps ==
  ASSUME PoolInv, NEW t \in Threads, Read(t)
  PROVE  PoolInv'
<1>1. /\ thread[t] = "read" /\ thread[t] \in Holding
      /\ UNCHANGED <<style, idle, leaked, killed>>
  BY DEF Read, Holding
<1>2. CASE conn[t].alive
  <2>1. /\ conn' = [conn EXCEPT ![t] = [conn[t] EXCEPT !.open = TRUE]]
        /\ thread' = [thread EXCEPT ![t] = "answered"] /\ UNCHANGED spoiled
    BY <1>2 DEF Read, To
  <2>2. QED
    BY <1>1, <1>2, <2>1, UsedKeeps
<1>3. CASE ~conn[t].alive
  <2> DEFINE k == [conn[t] EXCEPT !.closed = TRUE]
  <2>1. /\ conn' = [conn EXCEPT ![t] = k] /\ thread' = [thread EXCEPT ![t] = "failed"]
        /\ spoiled' = spoiled + 1
    BY <1>3 DEF Read, To
  <2>2. conn[t] \in Connection /\ conn[t] # NoConn /\ Dead(conn[t])
    BY <1>1, <1>3, HoldsOK
  <2>3. k \in Connection /\ k # NoConn /\ ~Dead(k) /\ ~k.alive
    BY <1>3, <2>2, LimitsOK DEF Connection, Dead
  <2> HIDE DEF k
  <2>4. /\ Held(k) = 1 /\ Held(conn[t]) = 1
        /\ Spoils(k) = 0 /\ Spoils(conn[t]) = 1
    BY <2>2, <2>3 DEF Held, Spoils, Ended
  <2>5. /\ idle' \in Seq(Connection) /\ Len(idle') <= MinConn /\ Len(idle') = Len(idle)
        /\ \A i \in DOMAIN idle' : ~idle'[i].open /\ ~idle'[i].closed
        /\ leaked' = leaked /\ leaked \in Nat /\ spoiled \in Nat /\ leaked <= spoiled
    BY <1>1, Parts DEF PoolInv
  <2>6. Stale' = Stale /\ Cardinality(Stale) \in Nat
    BY <1>1, SetsOK DEF Stale
  <2>7. /\ Cardinality(Busy) + Held(k) - Held(conn[t]) + leaked' + Len(idle')
             <= MaxConn
        /\ Spoils(k) + Cardinality(Stale') + spoiled'
             <= Spoils(conn[t]) + Cardinality(Stale) + spoiled
        /\ Cardinality(Stale') \in Int /\ spoiled' \in Nat /\ leaked' <= spoiled'
    BY <2>1, <2>4, <2>5, <2>6, RoomOK
  <2>8. QED
    BY <1>1, <2>1, <2>3, <2>5, <2>7, ThreadSteps DEF Labels, Holding
<1>4. QED
  BY <1>2, <1>3

(* The connection is given back: a slot is lost with a connection that the     *)
(* rollback finds dead, and only one that works is kept.                       *)
LEMMA ReturnKeeps ==
  ASSUME PoolInv, NEW t \in Threads, Return(t)
  PROVE  PoolInv'
<1>1. /\ thread[t] \in {"answered", "failed"} /\ thread[t] \in Holding
      /\ conn' = [conn EXCEPT ![t] = NoConn] /\ thread' = [thread EXCEPT ![t] = "idle"]
      /\ UNCHANGED <<style, killed>>
  BY DEF Return, Holding, To
<1>2. /\ conn[t] \in Connection /\ conn[t] # NoConn
      /\ (conn[t].alive => ~conn[t].closed)
      /\ (Dead(conn[t]) <=> ~conn[t].alive /\ ~conn[t].closed)
  BY <1>1, HoldsOK
<1>3. /\ idle \in Seq(Connection) /\ Len(idle) \in Nat /\ Len(idle) <= MinConn
      /\ \A i \in DOMAIN idle : ~idle[i].open /\ ~idle[i].closed
      /\ leaked \in Nat /\ spoiled \in Nat /\ leaked <= spoiled
      /\ Cardinality(Stale) \in Nat /\ MinConn \in Nat
  BY Parts, SetsOK, LimitsOK DEF PoolInv
<1>4. /\ Held(NoConn) = 0 /\ Held(conn[t]) = 1 /\ Spoils(NoConn) = 0
      /\ Spoils(conn[t]) \in {0, 1}
  BY <1>2 DEF Held, Spoils, Ended, Dead
<1>5. CASE RollbackRaises(t)
  <2>1. leaked' = leaked + 1 /\ spoiled' = spoiled + 1 /\ UNCHANGED idle
    BY <1>5 DEF Return
  <2>2. Spoils(conn[t]) = 1
    BY <1>2, <1>5 DEF RollbackRaises, Held, Spoils, Ended
  <2>3. Stale' = Stale
    BY <2>1 DEF Stale
  <2>4. /\ Cardinality(Busy) + Held(NoConn) - Held(conn[t]) + leaked' + Len(idle')
             <= MaxConn
        /\ Spoils(NoConn) + Cardinality(Stale') + spoiled'
             <= Spoils(conn[t]) + Cardinality(Stale) + spoiled
        /\ Cardinality(Stale') \in Int /\ leaked' \in Nat /\ spoiled' \in Nat
        /\ leaked' <= spoiled' /\ Len(idle') <= MinConn
        /\ idle' \in Seq(Connection)
        /\ \A i \in DOMAIN idle' : ~idle'[i].open /\ ~idle'[i].closed
    BY <1>3, <1>4, <2>1, <2>2, <2>3, RoomOK
  <2>5. QED
    BY <1>1, <2>4, ThreadSteps DEF Labels, Holding
<1>6. CASE ~RollbackRaises(t)
  <2> DEFINE c == IF conn[t].alive THEN conn[t] ELSE [conn[t] EXCEPT !.closed = TRUE]
             d == [c EXCEPT !.open = FALSE]
  <2>1. PutBack(c) /\ UNCHANGED <<leaked, spoiled>>
    BY <1>6 DEF Return
  <2>2. c \in Connection /\ (~c.closed => c.alive)
    BY <1>2 DEF Connection
  <2>3. d \in Connection /\ ~d.open /\ d.closed = c.closed /\ d.alive = c.alive
    BY <2>2 DEF Connection
  <2>4. /\ idle' \in Seq(Connection) /\ Len(idle') <= MinConn
        /\ Len(idle') \in Nat /\ Len(idle') <= Len(idle) + 1
        /\ \A i \in DOMAIN idle' : ~idle'[i].open /\ ~idle'[i].closed
        /\ Cardinality(Stale') = Cardinality(Stale)
    <3>1. CASE Len(idle) < MinConn /\ ~c.closed
      <4>1. idle' = Append(idle, d)
        BY <2>1, <3>1 DEF PutBack
      <4> HIDE DEF c, d
      <4>2. QED
        BY <1>3, <2>2, <2>3, <3>1, <4>1, PushOK
    <3>2. CASE ~ (Len(idle) < MinConn /\ ~c.closed)
      <4>1. idle' = idle
        BY <2>1, <3>2 DEF PutBack
      <4>2. Stale' = Stale
        BY <4>1 DEF Stale
      <4>3. QED
        BY <1>3, <4>1, <4>2
    <3>3. QED
      BY <3>1, <3>2
  <2>5. /\ Cardinality(Busy) + Held(NoConn) - Held(conn[t]) + leaked' + Len(idle')
             <= MaxConn
        /\ Spoils(NoConn) + Cardinality(Stale') + spoiled'
             <= Spoils(conn[t]) + Cardinality(Stale) + spoiled
        /\ Cardinality(Stale') \in Int /\ leaked' \in Nat /\ spoiled' \in Nat
        /\ leaked' <= spoiled'
    BY <1>3, <1>4, <2>1, <2>4, RoomOK
  <2>6. QED
    BY <1>1, <2>4, <2>5, ThreadSteps DEF Labels, Holding
<1>7. QED
  BY <1>5, <1>6

----------------------------------------------------------------------------
LEMMA DisjointUnion ==
  ASSUME NEW S, NEW T, IsFiniteSet(S), IsFiniteSet(T), S \cap T = {}
  PROVE  Cardinality(S \cup T) = Cardinality(S) + Cardinality(T)
<1>1. Cardinality(S \cup T) = Cardinality(S) + Cardinality(T) - Cardinality(S \cap T)
  BY FS_Union
<1>2. Cardinality(S) \in Nat /\ Cardinality(T) \in Nat /\ Cardinality(S \cap T) = 0
  BY FS_CardinalityType, FS_EmptySet
<1>3. QED
  BY <1>1, <1>2

(* The database ends its connections: each that was alive pays for one call.   *)
LEMMA DieKeeps ==
  ASSUME PoolInv, Die
  PROVE  PoolInv'
<1> DEFINE A == {t \in Busy : conn[t].alive}
           B == {i \in DOMAIN idle : idle[i].alive}
<1>1. /\ thread \in [Threads -> Labels] /\ conn \in [Threads -> Connection \cup {NoConn}]
      /\ \A t \in Threads : conn[t] # NoConn <=> thread[t] \in Holding
      /\ idle \in Seq(Connection) /\ Len(idle) \in Nat /\ Len(idle) <= MinConn
      /\ DOMAIN idle = 1 .. Len(idle)
      /\ \A i \in DOMAIN idle : idle[i] \in Connection /\ ~idle[i].open /\ ~idle[i].closed
      /\ leaked \in Nat /\ spoiled \in Nat /\ killed \in Nat
  BY Parts
<1>2. /\ killed' = killed + Cardinality(A) + Cardinality(B)
      /\ UNCHANGED <<style, thread, leaked, spoiled>>
  BY DEF Die
<1>3. /\ DOMAIN idle' = DOMAIN idle
      /\ \A i \in DOMAIN idle : idle'[i] = [idle[i] EXCEPT !.alive = FALSE]
      /\ idle' = [i \in DOMAIN idle |-> idle'[i]]
  BY DEF Die
<1>4. \A i \in DOMAIN idle : /\ idle'[i] \in Connection /\ ~idle'[i].alive
                             /\ ~idle'[i].open /\ ~idle'[i].closed
  BY <1>1, <1>3 DEF Connection
<1>5. idle' \in Seq(Connection) /\ Len(idle') = Len(idle)
  <2>1. idle' \in [1 .. Len(idle) -> Connection]
    BY <1>1, <1>3, <1>4
  <2>2. QED
    BY <1>1, <2>1
<1>6. conn' = [t \in Threads |-> conn'[t]]
      /\ \A t \in Threads : conn'[t] = IF conn[t] = NoConn THEN NoConn
                                       ELSE [conn[t] EXCEPT !.alive = FALSE]
  BY DEF Die
<1>7. ASSUME NEW t \in Threads
      PROVE  /\ conn'[t] \in Connection \cup {NoConn} /\ (conn'[t] # NoConn <=> conn[t] # NoConn)
             /\ conn[t] # NoConn => ~conn'[t].alive /\ conn'[t].closed = conn[t].closed
  <2>1. CASE conn[t] = NoConn
    BY <1>6, <2>1
  <2>2. CASE conn[t] # NoConn
    <3>1. conn[t] \in Connection /\ conn'[t] = [conn[t] EXCEPT !.alive = FALSE]
      BY <1>1, <1>6, <2>2
    <3>2. conn'[t] \in Connection
      BY <3>1 DEF Connection
    <3>3. ~conn'[t].alive /\ conn'[t].closed = conn[t].closed
      BY <3>1 DEF Connection
    <3>4. QED
      BY <2>2, <3>2, <3>3, LimitsOK
  <2>3. QED
    BY <2>1, <2>2
<1>8. conn' \in [Threads -> Connection \cup {NoConn}]
  BY <1>6, <1>7
<1>9. Busy' = Busy
  BY <1>7 DEF Busy
<1>10. /\ IsFiniteSet(Busy) /\ IsFiniteSet(Doomed) /\ IsFiniteSet(Stale)
       /\ Cardinality(Busy) \in Nat /\ Cardinality(Doomed) \in Nat /\ Cardinality(Stale) \in Nat
  BY SetsOK
<1>11. IsFiniteSet(A) /\ Cardinality(A) \in Nat
  BY <1>10, FS_Subset, FS_CardinalityType
<1>12. IsFiniteSet(B) /\ Cardinality(B) \in Nat
  <2>1. IsFiniteSet(DOMAIN idle)
    BY <1>1, FS_Interval
  <2>2. QED
    BY <2>1, FS_Subset, FS_CardinalityType
<1>13. Doomed' = Doomed \cup A /\ Doomed \cap A = {}
  <2>1. \A t \in Busy : conn[t].alive => ~conn[t].closed
    BY DEF PoolInv, Busy
  <2>2. ASSUME NEW t \in Threads PROVE Dead(conn'[t]) <=> t \in Doomed \cup A
    BY <1>7, <2>1 DEF Dead, Doomed, Busy
  <2>3. Doomed' = {t \in Threads : Dead(conn'[t])}
    BY DEF Doomed
  <2>4. Doomed \cup A \subseteq Threads
    BY DEF Doomed, Busy
  <2>5. Doomed \cap A = {}
    BY DEF Doomed, Dead
  <2>6. QED
    BY <2>2, <2>3, <2>4, <2>5
<1>14. Stale' = Stale \cup B /\ Stale \cap B = {}
  BY <1>3, <1>4 DEF Stale
<1>15. /\ Cardinality(Doomed') = Cardinality(Doomed) + Cardinality(A)
       /\ Cardinality(Stale') = Cardinality(Stale) + Cardinality(B)
  BY <1>10, <1>11, <1>12, <1>13, <1>14, DisjointUnion
<1> HIDE DEF A, B
<1>16. Cardinality(Doomed') + Cardinality(Stale') + spoiled' <= killed'
  <2> DEFINE d == Cardinality(Doomed)
             st == Cardinality(Stale)
             a == Cardinality(A)
             b == Cardinality(B)
  <2>1. d \in Int /\ st \in Int /\ a \in Int /\ b \in Int /\ spoiled \in Int /\ killed \in Int
    BY <1>1, <1>10, <1>11, <1>12
  <2>2. d + st + spoiled <= killed
    BY DEF PoolInv
  <2>3. /\ Cardinality(Doomed') = d + a /\ Cardinality(Stale') = st + b
        /\ spoiled' = spoiled /\ killed' = killed + a + b
    BY <1>2, <1>15
  <2> HIDE DEF d, st, a, b
  <2>4. (d + a) + (st + b) + spoiled <= killed + a + b
    BY <2>1, <2>2
  <2>5. QED
    BY <2>3, <2>4
<1>17. \A t \in Threads : conn'[t] # NoConn /\ conn'[t].closed =>
          thread'[t] = "failed" /\ ~conn'[t].alive
  BY <1>2, <1>7 DEF PoolInv
<1>18. IdleIsClean'
  BY <1>1, <1>2, <1>3, <1>4, <1>5, <1>7, <1>8, <1>9 DEF IdleIsClean, PoolInv, Labels, Holding
<1>19. killed' \in Nat
  BY <1>1, <1>2, <1>11, <1>12
<1>20. QED
  BY <1>1, <1>2, <1>3, <1>4, <1>5, <1>9, <1>16, <1>17, <1>18, <1>19 DEF PoolInv

LEMMA InitPool == PoolInit => PoolInv
<1> SUFFICES ASSUME PoolInit PROVE PoolInv
  OBVIOUS
<1>1. /\ idle \in Seq(Connection) /\ Len(idle) = MinConn /\ DOMAIN idle = 1 .. MinConn
      /\ \A i \in DOMAIN idle : idle[i] = New
  <2>1. idle = [i \in 1 .. MinConn |-> New] /\ MinConn \in Nat /\ New \in Connection
    BY LimitsOK DEF PoolInit
  <2>2. QED
    BY <2>1
<1>2. /\ Busy = {} /\ Doomed = {} /\ Stale = {}
      /\ Cardinality({}) = 0
  BY <1>1, LimitsOK, FS_EmptySet DEF PoolInit, Busy, Doomed, Dead, Stale
<1>3. IdleIsClean
  BY <1>1, <1>2, LimitsOK DEF IdleIsClean, PoolInit
<1>4. QED
  BY <1>1, <1>2, <1>3, LimitsOK DEF PoolInv, PoolInit

LEMMA NextKeepsPool == PoolInv /\ [PoolNext]_poolVars => PoolInv'
<1> SUFFICES ASSUME PoolInv, [PoolNext]_poolVars PROVE PoolInv'
  OBVIOUS
<1>1. CASE UNCHANGED poolVars
  BY <1>1 DEF poolVars, PoolInv, IdleIsClean, Busy, Doomed, Stale
<1>2. CASE Die
  BY <1>2, DieKeeps
<1>3. ASSUME NEW t \in Threads, Call(t) PROVE PoolInv'
  BY <1>3, FreeSteps DEF Call, To, Labels, Holding
<1>4. ASSUME NEW t \in Threads, Checkout(t) \/ Replace(t) PROVE PoolInv'
  BY <1>4, GetConnKeeps DEF Checkout, Replace
<1>5. ASSUME NEW t \in Threads, StatementFails(t) PROVE PoolInv'
  BY <1>5, UsedKeeps DEF StatementFails, To
<1>6. ASSUME NEW t \in Threads, Ping(t) \/ Read(t) \/ Return(t) PROVE PoolInv'
  BY <1>6, PingKeeps, ReadKeeps, ReturnKeeps
<1>7. QED
  BY <1>1, <1>2, <1>3, <1>4, <1>5, <1>6 DEF PoolNext

LEMMA PoolInvariant == PoolSpec => []PoolInv
BY InitPool, NextKeepsPool, PTL DEF PoolSpec

(* Neither pool ever hands out more connections than its maximum, lost slots   *)
(* included, or keeps one with the transaction of the call before, for any     *)
(* threads and whatever the database ends or refuses.                          *)
THEOREM PoolsAreBounded == PoolSpec => []IdleIsClean
<1>1. PoolInv => IdleIsClean
  BY DEF PoolInv
<1>2. QED
  BY <1>1, PoolInvariant, PTL

(* Each connection that the database ends spoils one call at most and costs    *)
(* one slot at most: the connections ended pay for the calls spoiled.          *)
THEOREM EndsArePaidOnce == PoolSpec => []DeadConnectionsSpoilOnce
<1>1. PoolInv => DeadConnectionsSpoilOnce
  BY SetsOK DEF PoolInv, DeadConnectionsSpoilOnce
<1>2. QED
  BY <1>1, PoolInvariant, PTL

----------------------------------------------------------------------------
(* NotableUpdates.                                                             *)
CallType == [pc : {"idle", "moves", "news", "mark", "update"}, since : Int,
             shown : SUBSET Items, at : Int, before : SUBSET Items]

(* What a call shows is later than the visit it began with, no later than the  *)
(* moment it marks; what had been seen when it began is not.                   *)
Dated(c) ==
    /\ \A i \in call[c].shown : i.at > call[c].since /\ i.at <= now
    /\ call[c].pc = "update" => \A i \in call[c].shown : i.at <= call[c].at
    /\ \A i \in call[c].before : i.at <= call[c].since

UpdatesInv ==
    /\ now \in Int /\ visit \in Int \cup {Never}
    /\ stored \subseteq Items /\ seen \subseteq Items
    /\ call \in [Callers -> CallType]
    /\ \A i \in stored : i.at <= now
    /\ \A i \in seen : visit # Never /\ i.at <= visit
    /\ \A c \in Callers : Dated(c)

LEMMA ItemsOK == \A i \in Items : i.at \in Int
BY UpdatesAssumption

LEMMA NoCallOK ==
  /\ NoCall \in CallType /\ NoCall.pc = "idle" /\ NoCall.shown = {} /\ NoCall.before = {}
BY DEF NoCall, CallType

LEMMA InitDated == UpdatesInit => UpdatesInv
<1> SUFFICES ASSUME UpdatesInit PROVE UpdatesInv
  OBVIOUS
<1>1. /\ call \in [Callers -> CallType]
      /\ \A c \in Callers : call[c].shown = {} /\ call[c].before = {}
  BY NoCallOK DEF UpdatesInit
<1>2. \A c \in Callers : Dated(c)
  BY <1>1 DEF Dated
<1>3. QED
  BY <1>1, <1>2 DEF UpdatesInit, UpdatesInv

----------------------------------------------------------------------------
(* What other calls store is dated; time only goes on. *)
LEMMA WorldSteps ==
  ASSUME UpdatesInv, UNCHANGED <<visit, call, seen>>,
         now' \in Int, now <= now', stored' \subseteq Items,
         \A i \in stored' : i.at <= now'
  PROVE  UpdatesInv'
<1>1. ASSUME NEW c \in Callers PROVE Dated(c)'
  <2>1. Dated(c) /\ call[c] \in CallType /\ now \in Int
    BY DEF UpdatesInv
  <2>2. \A i \in call[c].shown : i.at \in Int
    BY <2>1, ItemsOK DEF CallType
  <2>3. QED
    BY <2>1, <2>2 DEF Dated
<1>2. QED
  BY <1>1 DEF UpdatesInv

(* A step of one call, to the state k, that does not mark its visit. *)
LEMMA CallSteps ==
  ASSUME UpdatesInv, UNCHANGED <<now, stored, visit, seen>>,
         NEW c \in Callers, NEW k \in CallType, call' = [call EXCEPT ![c] = k],
         \A i \in k.shown : i.at > k.since /\ i.at <= now,
         k.pc = "update" => \A i \in k.shown : i.at <= k.at,
         \A i \in k.before : i.at <= k.since
  PROVE  UpdatesInv'
<1>1. call' \in [Callers -> CallType] /\ call'[c] = k
      /\ \A d \in Callers : d # c => call'[d] = call[d]
  BY DEF UpdatesInv
<1>2. ASSUME NEW d \in Callers PROVE Dated(d)'
  BY <1>1 DEF UpdatesInv, Dated
<1>3. QED
  BY <1>1, <1>2 DEF UpdatesInv

LEMMA StoreKeeps ==
  ASSUME UpdatesInv, NEW t \in Followable, NEW first \in 0 .. MaxNow, NEW last \in 0 .. MaxNow,
         SaveBars(t, first, last)
  PROVE  UpdatesInv'
<1>1. now \in Int /\ last \in Int /\ last <= now
  BY UpdatesAssumption DEF UpdatesInv, SaveBars
<1>2. stored' \subseteq Items /\ \A i \in stored' : i.at <= now
  <2>1. /\ stored' = (stored \ {i \in Moves : i.ticker = t /\ i.at = first})
                       \cup {i \in Moves : i.ticker = t /\ first < i.at /\ i.at <= last}
        /\ stored \subseteq Items /\ Moves \subseteq Items
        /\ \A i \in stored : i.at <= now
    BY DEF SaveBars, UpdatesInv, Items
  <2>2. \A i \in Items : i.at <= last => i.at <= now
    BY <1>1, ItemsOK
  <2>3. QED
    BY <2>1, <2>2
<1>3. QED
  BY <1>1, <1>2, WorldSteps DEF SaveBars

LEMMA BeginKeeps ==
  ASSUME UpdatesInv, NEW c \in Callers, Begin(c)
  PROVE  UpdatesInv'
<1> DEFINE since == IF visit = Never THEN now - Week ELSE visit
           k == [NoCall EXCEPT !.pc = "moves", !.since = since, !.before = seen]
<1>1. since \in Int /\ \A i \in seen : i.at <= since
  BY UpdatesAssumption DEF UpdatesInv
<1>2. call' = [call EXCEPT ![c] = k] /\ UNCHANGED <<now, stored, visit, seen>>
  BY DEF Begin
<1> HIDE DEF since
<1>3. k \in CallType /\ k.pc = "moves" /\ k.shown = {} /\ k.before = seen /\ k.since = since
  BY <1>1, NoCallOK DEF CallType, UpdatesInv
<1> HIDE DEF k
<1>4. QED
  BY <1>1, <1>2, <1>3, CallSteps

LEMMA NewOK ==
  ASSUME UpdatesInv, NEW c \in Callers, NEW kind \in {Moves, Articles}
  PROVE  /\ NewTo(c, kind) \subseteq Items
         /\ \A i \in NewTo(c, kind) : i.at > call[c].since /\ i.at <= now
BY DEF UpdatesInv, NewTo

LEMMA QueriesKeep ==
  ASSUME UpdatesInv, NEW c \in Callers, QueryMoves(c) \/ QueryNews(c)
  PROVE  UpdatesInv'
<1>1. call[c] \in CallType /\ Dated(c)
  BY DEF UpdatesInv
<1>2. CASE QueryMoves(c)
  <2> DEFINE shown == {i \in NewTo(c, Moves) :
                         \A j \in NewTo(c, Moves) : j.ticker = i.ticker => j.at <= i.at}
             k == [call[c] EXCEPT !.pc = "news", !.shown = shown]
  <2>1. shown \subseteq Items /\ \A i \in shown : i.at > call[c].since /\ i.at <= now
    BY NewOK
  <2>2. call' = [call EXCEPT ![c] = k] /\ UNCHANGED <<now, stored, visit, seen>>
    BY <1>2 DEF QueryMoves
  <2> HIDE DEF shown
  <2>3. /\ k \in CallType /\ k.pc = "news" /\ k.shown = shown
        /\ k.before = call[c].before /\ k.since = call[c].since
    BY <1>1, <2>1 DEF CallType
  <2> HIDE DEF k
  <2>4. QED
    BY <1>1, <2>1, <2>2, <2>3, CallSteps DEF Dated
<1>3. CASE QueryNews(c)
  <2>1. PICK news \in SUBSET NewTo(c, Articles) :
           call' = [call EXCEPT ![c].pc = "mark", ![c].shown = @ \cup news]
    BY <1>3 DEF QueryNews
  <2> DEFINE k == [call[c] EXCEPT !.pc = "mark", !.shown = call[c].shown \cup news]
  <2>2. news \subseteq Items /\ \A i \in news : i.at > call[c].since /\ i.at <= now
    BY NewOK
  <2>3. call' = [call EXCEPT ![c] = k] /\ UNCHANGED <<now, stored, visit, seen>>
    BY <1>1, <1>3, <2>1 DEF QueryNews, UpdatesInv, CallType
  <2>4. /\ k \in CallType /\ k.pc = "mark" /\ k.shown = call[c].shown \cup news
        /\ k.before = call[c].before /\ k.since = call[c].since
    BY <1>1, <2>2 DEF CallType
  <2> HIDE DEF k
  <2>5. QED
    BY <1>1, <2>2, <2>3, <2>4, CallSteps DEF Dated
<1>4. QED
  BY <1>2, <1>3

LEMMA BeginMarkKeeps ==
  ASSUME UpdatesInv, NEW c \in Callers, BeginMark(c)
  PROVE  UpdatesInv'
<1> DEFINE k == [call[c] EXCEPT !.pc = "update", !.at = now]
<1>1. call[c] \in CallType /\ Dated(c) /\ now \in Int
  BY DEF UpdatesInv
<1>2. call' = [call EXCEPT ![c] = k] /\ UNCHANGED <<now, stored, visit, seen>>
  BY <1>1 DEF BeginMark, UpdatesInv, CallType
<1>3. /\ k \in CallType /\ k.shown = call[c].shown /\ k.at = now
      /\ k.before = call[c].before /\ k.since = call[c].since
  BY <1>1 DEF CallType
<1> HIDE DEF k
<1>4. QED
  BY <1>1, <1>2, <1>3, CallSteps DEF Dated

LEMMA FailKeeps ==
  ASSUME UpdatesInv, NEW c \in Callers, Fail(c) \/ Unmarked(c)
  PROVE  UpdatesInv'
BY NoCallOK, CallSteps DEF Fail, Unmarked

LEMMA MarkKeeps ==
  ASSUME UpdatesInv, NEW c \in Callers, Mark(c)
  PROVE  UpdatesInv'
<1>1. /\ call[c] \in CallType /\ Dated(c) /\ call[c].pc = "update" /\ call[c].at \in Int
      /\ call[c].shown \subseteq Items
      /\ visit' = call[c].at /\ call' = [call EXCEPT ![c] = NoCall] /\ UNCHANGED <<now, stored>>
  BY DEF UpdatesInv, Mark, CallType
<1>2. Never \notin Int
  BY UpdatesAssumption
<1>3. \A i \in call[c].shown : i.at <= call[c].at
  BY <1>1 DEF Dated
<1>4. seen' \subseteq Items /\ \A i \in seen' : visit' # Never /\ i.at <= visit'
  <2>1. CASE visit # Never /\ visit > call[c].at
    BY <1>1, <1>2, <1>3, <2>1 DEF Mark
  <2>2. CASE ~ (visit # Never /\ visit > call[c].at)
    <3>1. \A i \in seen : i \in Items /\ i.at \in Int /\ i.at <= call[c].at
      BY <1>1, <2>2, ItemsOK DEF UpdatesInv
    <3>2. seen' = call[c].shown \cup seen
      BY <2>2 DEF Mark
    <3>3. QED
      BY <1>1, <1>2, <1>3, <3>1, <3>2
  <2>3. QED
    BY <2>1, <2>2
<1>5. /\ call' \in [Callers -> CallType] /\ call'[c] = NoCall
      /\ \A d \in Callers : d # c => call'[d] = call[d]
  BY <1>1, NoCallOK DEF UpdatesInv
<1>6. ASSUME NEW d \in Callers PROVE Dated(d)'
  BY <1>1, <1>5, NoCallOK DEF UpdatesInv, Dated
<1>7. QED
  BY <1>1, <1>4, <1>5, <1>6 DEF UpdatesInv

----------------------------------------------------------------------------
LEMMA UpdatesInvariant == UpdatesSpec => []UpdatesInv
<1>1. UpdatesInv /\ [UpdatesNext]_updateVars => UpdatesInv'
  <2> SUFFICES ASSUME UpdatesInv, [UpdatesNext]_updateVars PROVE UpdatesInv'
    OBVIOUS
  <2>1. now \in Int /\ now <= now /\ stored \subseteq Items /\ \A i \in stored : i.at <= now
    BY DEF UpdatesInv
  <2>2. CASE UNCHANGED updateVars
    BY <2>1, <2>2, WorldSteps DEF updateVars
  <2>3. CASE Tick
    <3>1. now' = now + 1 /\ UNCHANGED <<stored, visit, call, seen>>
      BY <2>3 DEF Tick
    <3>2. \A i \in stored : i.at \in Int
      BY <2>1, ItemsOK
    <3>3. QED
      BY <2>1, <3>1, <3>2, WorldSteps
  <2>4. ASSUME NEW t \in Followable, Follow(t) PROVE UpdatesInv'
    BY <2>1, <2>4, WorldSteps DEF Follow
  <2>5. ASSUME NEW t \in Followable, NEW first \in 0 .. MaxNow, NEW last \in 0 .. MaxNow,
               SaveBars(t, first, last)
        PROVE  UpdatesInv'
    BY <2>5, StoreKeeps
  <2>6. ASSUME NEW i \in Articles, SaveNews(i) PROVE UpdatesInv'
    <3> DEFINE there == {j \in stored \cap Articles : j.id = i.id}
               moved == {[j EXCEPT !.at = i.at] : j \in there}
    <3>1. PICK links \in SUBSET {i} : stored' = (stored \ there) \cup moved \cup links
      BY <2>6 DEF SaveNews
    <3>2. i.at <= now /\ UNCHANGED <<now, followed, visit, call, seen, follows>>
      BY <2>6 DEF SaveNews
    <3>3. ASSUME NEW k \in there
          PROVE  [k EXCEPT !.at = i.at] \in Articles /\ [k EXCEPT !.at = i.at].at = i.at
      <4>1. k \in Articles /\ k.id = i.id
        OBVIOUS
      <4>2. k \in [ticker : Followable, at : Int, id : Nat]
        BY <4>1, UpdatesAssumption
      <4>3. [k EXCEPT !.at = i.at] \in Articles
        BY <4>1, UpdatesAssumption
      <4>4. [k EXCEPT !.at = i.at].at = i.at
        BY <4>2
      <4>5. QED
        BY <4>3, <4>4
    <3>4. stored' \subseteq Items /\ \A j \in stored' : j.at <= now
      BY <2>1, <3>1, <3>2, <3>3 DEF Items
    <3>5. QED
      BY <2>1, <3>2, <3>4, WorldSteps
  <2>7. ASSUME NEW c \in Callers, \/ Begin(c) \/ QueryMoves(c) \/ QueryNews(c)
                                  \/ Unmarked(c) \/ BeginMark(c) \/ Mark(c) \/ Fail(c)
        PROVE  UpdatesInv'
    BY <2>7, BeginKeeps, QueriesKeep, BeginMarkKeeps, MarkKeeps, FailKeeps
  <2>8. QED
    BY <2>2, <2>3, <2>4, <2>5, <2>6, <2>7 DEF UpdatesNext
<1>2. QED
  BY <1>1, InitDated, PTL DEF UpdatesSpec

(* What a call showed that marked its visit is not shown to one that begins    *)
(* after the mark, for any calls of a user at the same time: the visit is      *)
(* marked with a moment that no item shown is later than, and an overtaken     *)
(* mark is the only way back.                                                  *)
THEOREM NothingTwice == UpdatesSpec => []NothingShownTwice
<1>1. UpdatesInv => NothingShownTwice
  <2> SUFFICES ASSUME UpdatesInv PROVE NothingShownTwice
    OBVIOUS
  <2>1. ASSUME NEW c \in Callers PROVE call[c].shown \cap call[c].before = {}
    <3>1. Dated(c) /\ call[c] \in CallType
      BY DEF UpdatesInv
    <3>2. call[c].since \in Int /\ \A i \in call[c].shown : i.at \in Int
      BY <3>1, ItemsOK DEF CallType
    <3>3. QED
      BY <3>1, <3>2 DEF Dated
  <2>2. QED
    BY <2>1 DEF NothingShownTwice, UpdatesInv
<1>2. QED
  BY <1>1, UpdatesInvariant, PTL
============================================================================
