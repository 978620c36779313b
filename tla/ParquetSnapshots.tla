-------------------------- MODULE ParquetSnapshots --------------------------
(***************************************************************************)
(* Materialized snapshots: the operator's refresh command                  *)
(* (services/snapshot_materializer.py) and the API processes that answer   *)
(* from its files (connectors/parquet_snapshot.py).                        *)
(*                                                                         *)
(* A mapping has one data file and one manifest, each replaced under its   *)
(* final name.  Both are abstracted to the version of the source they were *)
(* extracted from: two files have the same hash when they have the same    *)
(* version.  Refresh commands and API processes share nothing but the      *)
(* directory, so every access to a file is an action: a process that       *)
(* starts opens the data file twice, to hash it and to count its rows.     *)
(***************************************************************************)
EXTENDS Integers, FiniteSets

CONSTANTS
    Refreshers,        \* refresh commands that may overlap
    Servers,           \* API processes
    MaximumAge,        \* settings.maximum_age_seconds
    MaxVersion,        \* bound on the versions of the source
    RowCount           \* how many rows each version has

Nothing  == 0          \* no file, or nothing loaded
Versions == 1..MaxVersion
Ages     == 0..(MaximumAge + 1)     \* the last one stands for every greater one

ASSUME SnapshotAssumption ==
    /\ MaximumAge \in Nat /\ MaxVersion \in Nat \ {0}
    /\ RowCount \in [Versions -> Nat \ {0}]

VARIABLES
    source,     \* the version the BigQuery view shows
    file,       \* the version of the data file
    manifest,   \* the version the manifest describes
    age,        \* how long ago the manifest on disk was materialized
    refresh,    \* where each refresh command is
    extract,    \* the version each refresh extracted
    server,     \* where each API process is
    approved,   \* the manifest each API process read, then serves
    held,       \* how long ago that manifest was materialized
    receipts    \* what answers claimed and what they were computed from

disk    == <<file, manifest, age>>
serving == <<server, approved, held, receipts>>
vars    == <<source, disk, refresh, extract, serving>>

TypeOK ==
    /\ source \in Versions
    /\ file \in Versions \cup {Nothing}
    /\ manifest \in Versions \cup {Nothing}
    /\ manifest # Nothing => file \in Versions
    /\ age \in Ages
    /\ refresh \in [Refreshers -> {"idle", "extracted", "replaced"}]
    /\ extract \in [Refreshers -> Versions \cup {Nothing}]
    /\ server \in [Servers -> {"down", "starting", "hashed", "counted", "up"}]
    /\ approved \in [Servers -> Versions \cup {Nothing}]
    /\ held \in [Servers -> Ages]
    /\ receipts \subseteq [claimed : Versions, read : Versions]

Init ==
    /\ source = 1
    /\ file = Nothing /\ manifest = Nothing /\ age = 0
    /\ refresh = [r \in Refreshers |-> "idle"]
    /\ extract = [r \in Refreshers |-> Nothing]
    /\ server = [s \in Servers |-> "down"]
    /\ approved = [s \in Servers |-> Nothing]
    /\ held = [s \in Servers |-> 0]
    /\ receipts = {}
-----------------------------------------------------------------------------
(* A refresh command                                                       *)

(* The view is extracted, written beside the data file and hashed.  A      *)
(* validation that fails before leaves the command where it was.           *)
Extract(r) ==
    /\ refresh[r] = "idle"
    /\ refresh' = [refresh EXCEPT ![r] = "extracted"]
    /\ extract' = [extract EXCEPT ![r] = source]
    /\ UNCHANGED <<source, disk, serving>>

ReplaceFile(r) ==
    /\ refresh[r] = "extracted"
    /\ file' = extract[r]
    /\ refresh' = [refresh EXCEPT ![r] = "replaced"]
    /\ UNCHANGED <<source, manifest, age, extract, serving>>

(* Mutant: the manifest describes the view as it is now.                   *)
DescribesView(r) == source

Described(r) == extract[r]

(* The age is counted from here; the manifest is dated when it is written  *)
(* down, a moment earlier.                                                 *)
ReplaceManifest(r) ==
    /\ refresh[r] = "replaced"
    /\ manifest' = Described(r)
    /\ age' = 0
    /\ refresh' = [refresh EXCEPT ![r] = "idle"]
    /\ UNCHANGED <<source, file, extract, serving>>

(* Mutant: the clean-up removes the data file instead of the temporary.    *)
CleansDataFile == file' = Nothing

CleansTemporary == file' = file

(* An error or the death of the command; temporary names are not reused.   *)
Fail(r) ==
    /\ refresh[r] # "idle"
    /\ refresh' = [refresh EXCEPT ![r] = "idle"]
    /\ CleansTemporary
    /\ UNCHANGED <<source, manifest, age, extract, serving>>
-----------------------------------------------------------------------------
(* An API process                                                          *)

(* initialize: read the manifest, then hash the data file it names.        *)
ReadManifest(s) ==
    /\ server[s] = "down"
    /\ manifest # Nothing
    /\ server' = [server EXCEPT ![s] = "starting"]
    /\ approved' = [approved EXCEPT ![s] = manifest]
    /\ held' = [held EXCEPT ![s] = age]
    /\ UNCHANGED <<source, disk, refresh, extract, receipts>>

(* Mutant: the hash of the data file is not verified.                      *)
AnyFile(s) == file # Nothing

Verified(s) == file = approved[s]

(* What a process that starts finds is as it must be, or it does not start.*)
Check(s, from, holds, to) ==
    /\ server[s] = from
    /\ server' = [server EXCEPT ![s] = IF holds THEN to ELSE "down"]
    /\ UNCHANGED <<source, disk, refresh, extract, approved, held, receipts>>

HashFile(s) == Check(s, "starting", Verified(s) /\ held[s] <= MaximumAge, "hashed")

(* The file is opened by its name again; its rows are counted.             *)
SameCount(s) == file # Nothing /\ RowCount[file] = RowCount[approved[s]]

CountRows(s) == Check(s, "hashed", SameCount(s), "counted")

(* The manifest is taken into use, and the process serves.                 *)
TakeUp(s) == Check(s, "counted", TRUE, "up")

(* execute_read_only: DuckDB opens the data file, the receipt cites the    *)
(* manifest that was loaded.                                               *)
Answer(s) ==
    /\ server[s] = "up"
    /\ file # Nothing
    /\ receipts' = receipts \cup {[claimed |-> approved[s], read |-> file]}
    /\ UNCHANGED <<source, disk, refresh, extract, server, approved, held>>

Stop(s) ==
    /\ server[s] # "down"
    /\ server' = [server EXCEPT ![s] = "down"]
    /\ UNCHANGED <<source, disk, refresh, extract, approved, held, receipts>>
-----------------------------------------------------------------------------
(* New facts arrive in the warehouse; time passes.                         *)
SourceChanges ==
    /\ source < MaxVersion
    /\ source' = source + 1
    /\ UNCHANGED <<disk, refresh, extract, serving>>

Older(a) == IF a <= MaximumAge THEN a + 1 ELSE a

Tick ==
    /\ manifest # Nothing
    /\ age' = Older(age)
    /\ held' = [s \in Servers |-> Older(held[s])]
    /\ UNCHANGED <<source, file, manifest, refresh, extract, server, approved, receipts>>

Next ==
    \/ \E r \in Refreshers :
          Extract(r) \/ ReplaceFile(r) \/ ReplaceManifest(r) \/ Fail(r)
    \/ \E s \in Servers : ReadManifest(s) \/ HashFile(s) \/ CountRows(s) \/ TakeUp(s) \/ Answer(s) \/ Stop(s)
    \/ SourceChanges \/ Tick

Spec == Init /\ [][Next]_vars
-----------------------------------------------------------------------------
(* Properties                                                              *)

(* A refresh that completes leaves a data file and a manifest that belong  *)
(* together, also when an earlier one died between its two replacements:   *)
(* a process that starts then finds a snapshot it may serve.               *)
RefreshRepairs ==
    [][\A r \in Refreshers : refresh[r] = "replaced" /\ manifest' # manifest =>
          file' = manifest']_vars

(* From the hash on a process relies on what it found.                     *)
Relies(s) == server[s] \in {"hashed", "counted", "up"}

Diverged(s) == Relies(s) /\ file # approved[s]

(* A process that serves data its manifest does not describe was overtaken *)
(* by a refresh since it hashed the file, while it started or later: that  *)
(* the hash is taken once and the file opened by its name again and again  *)
(* is the only reason, and a snapshot that is wrong already is refused.    *)
OnlyRefreshesDiverge ==
    [][\A s \in Servers : Diverged(s)' /\ ~Diverged(s) => file' # file]_vars

(* BIGQUERY_PARQUET_RUNTIME.md: every receipt "includes the file           *)
(* fingerprint": the data an answer was computed from is the data its      *)
(* receipt names.                                                          *)
ReceiptNamesItsData == \A q \in receipts : q.read = q.claimed
=============================================================================
