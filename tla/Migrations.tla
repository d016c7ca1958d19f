----------------------------- MODULE Migrations -----------------------------
(***************************************************************************)
(* migrate() of mcp_server/lakebase.py, which each process of the MCP      *)
(* server runs before it serves: one transaction creates schema_migrations *)
(* if need be, reads it, applies every file of the release that is not in  *)
(* it and records the file with its checksum.  Processes of two releases   *)
(* start at the same time; PostgreSQL lets a statement that creates what   *)
(* another transaction is creating wait, and fail if that one commits.     *)
(* The host starts a process again that ended.                             *)
(***************************************************************************)
EXTENDS Integers

CONSTANTS
    Processes,
    Files,         \* Files[p]: version to checksum of the migrations p has
    NoChecksum,    \* of a version that is not applied
    MaxCrashes     \* bound: failed statements and ended processes

Versions == UNION {DOMAIN Files[p] : p \in Processes}
Checksums == UNION {{Files[p][v] : v \in DOMAIN Files[p]} : p \in Processes}

ASSUME MigrationsAssumption ==
    /\ \A p \in Processes : DOMAIN Files[p] \subseteq Nat
    /\ NoChecksum \notin Checksums
    /\ MaxCrashes \in Nat

VARIABLES
    applied,    \* schema_migrations as committed
    ledger,     \* does the table schema_migrations exist
    process,    \* what each process is doing
    crashes

migrationVars == <<applied, ledger, process, crashes>>

Nothing == [v \in Versions |-> NoChecksum]

(* seen: what SELECT found; passed: the files done with; made, wrote: what the *)
(* open transaction has created and recorded.                                  *)
Down == [pc |-> "down", seen |-> Nothing, passed |-> {}, made |-> FALSE, wrote |-> {}]

MigrationsInit ==
    /\ applied = Nothing
    /\ ledger = FALSE
    /\ process = [p \in Processes |-> Down]
    /\ crashes = 0

Left(p) == DOMAIN Files[p] \ process[p].passed
NextFile(p) == CHOOSE v \in Left(p) : \A w \in Left(p) : v <= w

Boot(p) ==
    /\ process[p].pc = "down"
    /\ process' = [process EXCEPT ![p] = [Down EXCEPT !.pc = "create"]]
    /\ UNCHANGED <<applied, ledger, crashes>>

(* CREATE TABLE IF NOT EXISTS.                                                 *)
CreateLedger(p) ==
    /\ process[p].pc = "create"
    /\ process' = [process EXCEPT
         ![p] = IF \E q \in Processes : process[q].made
                THEN [@ EXCEPT !.pc = "wait for table"]
                ELSE [@ EXCEPT !.pc = "select", !.made = ~ledger]]
    /\ UNCHANGED <<applied, ledger, crashes>>

(* A variant: what the ledger holds is not read.                               *)
SelectNothing(p) ==
    /\ process[p].pc = "select"
    /\ process' = [process EXCEPT ![p].pc = "apply", ![p].seen = Nothing]
    /\ UNCHANGED <<applied, ledger, crashes>>

Select(p) ==
    /\ process[p].pc = "select"
    /\ process' = [process EXCEPT ![p].pc = "apply", ![p].seen = applied]
    /\ UNCHANGED <<applied, ledger, crashes>>

PassFile(p) == [process[p] EXCEPT !.passed = @ \cup {NextFile(p)}]
WriteFile(p) == [PassFile(p) EXCEPT !.wrote = @ \cup {NextFile(p)}]

(* The file was applied before: its checksum must be the same.                 *)
SkipFile(p) ==
    /\ process[p].pc = "apply" /\ Left(p) # {}
    /\ process[p].seen[NextFile(p)] # NoChecksum
    /\ process' = [process EXCEPT
         ![p] = IF process[p].seen[NextFile(p)] = Files[p][NextFile(p)]
                THEN PassFile(p) ELSE Down]
    /\ UNCHANGED <<applied, ledger, crashes>>

(* The file's statements and its row.  A row that is there since the SELECT    *)
(* violates the primary key; one that another transaction is writing makes     *)
(* this one wait.                                                              *)
ApplyFile(p) ==
    /\ process[p].pc = "apply" /\ Left(p) # {}
    /\ process[p].seen[NextFile(p)] = NoChecksum
    /\ LET v == NextFile(p)
       IN  process' = [process EXCEPT
             ![p] = IF applied[v] # NoChecksum THEN Down
                    ELSE IF \E q \in Processes : v \in process[q].wrote
                    THEN [@ EXCEPT !.pc = "wait for row"]
                    ELSE WriteFile(p)]
    /\ UNCHANGED <<applied, ledger, crashes>>

(* Who waits for p: its statement fails when p commits, and goes on when p     *)
(* rolls back.                                                                 *)
Awaits(q, p) == \/ process[q].pc = "wait for table" /\ process[p].made
                \/ process[q].pc = "wait for row" /\ NextFile(q) \in process[p].wrote
Resumed(q) == [process[q] EXCEPT !.pc = IF @ = "wait for table" THEN "create" ELSE "apply"]

Recorded(p) == [v \in Versions |-> IF v \in process[p].wrote THEN Files[p][v] ELSE applied[v]]

(* A variant: each file is committed by itself.                                *)
CommitEachFile(p) ==
    /\ process[p].pc = "apply"
    /\ Left(p) = {} \/ process[p].wrote # {}
    /\ applied' = Recorded(p)
    /\ ledger' = TRUE
    /\ process' = [q \in Processes |->
         IF q = p THEN [process[p] EXCEPT !.pc = IF Left(p) = {} THEN "serving" ELSE @,
                                          !.wrote = {}, !.made = FALSE]
         ELSE IF Awaits(q, p) THEN Down ELSE process[q]]
    /\ UNCHANGED crashes

Commit(p) ==
    /\ process[p].pc = "apply" /\ Left(p) = {}
    /\ applied' = Recorded(p)
    /\ ledger' = TRUE
    /\ process' = [q \in Processes |->
         IF q = p THEN [Down EXCEPT !.pc = "serving"]
         ELSE IF Awaits(q, p) THEN Down ELSE process[q]]
    /\ UNCHANGED crashes

(* A statement fails or the process ends: nothing of the transaction is left.  *)
Crash(p) ==
    /\ process[p].pc # "down" /\ crashes < MaxCrashes
    /\ process' = [q \in Processes |->
         IF q = p THEN Down ELSE IF Awaits(q, p) THEN Resumed(q) ELSE process[q]]
    /\ crashes' = crashes + 1
    /\ UNCHANGED <<applied, ledger>>

Migrate(p) == \/ Boot(p) \/ CreateLedger(p) \/ Select(p)
              \/ SkipFile(p) \/ ApplyFile(p) \/ Commit(p)

MigrationsNext == \E p \in Processes : Migrate(p) \/ Crash(p)

MigrationsSpec == MigrationsInit /\ [][MigrationsNext]_migrationVars

----------------------------------------------------------------------------
States == {"down", "create", "wait for table", "select", "apply", "wait for row",
           "serving"}

MigrationsTypeOK ==
    /\ applied \in [Versions -> Checksums \cup {NoChecksum}]
    /\ ledger \in BOOLEAN
    /\ process \in [Processes -> [pc : States, seen : [Versions -> Checksums \cup {NoChecksum}],
                                  passed : SUBSET Versions, made : BOOLEAN,
                                  wrote : SUBSET Versions]]
    /\ \A p \in Processes : process[p].passed \subseteq DOMAIN Files[p]

(* A release is applied as a whole or not at all, whoever else starts or fails *)
(* at the same time, and a process serves only when the database has each of   *)
(* its files with its own checksum (migrate(): one transaction, one row for    *)
(* each version).                                                              *)
MigrationsAreWhole ==
    /\ MigrationsTypeOK
    /\ \E done \in SUBSET Processes :
          {v \in Versions : applied[v] # NoChecksum} = UNION {DOMAIN Files[p] : p \in done}
    /\ \A p \in Processes : process[p].pc = "serving" =>
          \A v \in DOMAIN Files[p] : applied[v] = Files[p][v]

(* Once nothing fails any more every process comes to serve, also the one that *)
(* lost a race: nobody waits for a transaction that has ended.                 *)
ServersStart == \A p \in Processes : <>[](process[p].pc = "serving")
=============================================================================
