----------------------- MODULE ParquetSnapshotsProofs -----------------------
(***************************************************************************)
(* What ParquetSnapshots promises for any number of refresh commands, API  *)
(* processes and versions of the source; and what it promises only while   *)
(* the refresh commands do not overlap.                                    *)
(***************************************************************************)
EXTENDS ParquetSnapshots, TLAPS

(* What a refresh command relies on at each of its steps: it holds the     *)
(* version it extracted, and the file it replaced has not vanished.        *)
RefreshOK(r) ==
    /\ refresh[r] # "idle" => extract[r] \in Versions
    /\ refresh[r] = "replaced" => file \in Versions

(* A process that is not down has read a manifest: its receipts name one.  *)
ServerOK(s) == server[s] # "down" => approved[s] \in Versions

IInv ==
    /\ TypeOK
    /\ \A r \in Refreshers : RefreshOK(r)
    /\ \A s \in Servers : ServerOK(s)

(* No two refresh commands are at work at once: the operator's part of the *)
(* protocol, for the command takes no lock.                                *)
Alone == \A q, r \in Refreshers : refresh[q] # "idle" /\ refresh[r] # "idle" => q = r

(* While that is so, the data file between the two replacements is the one *)
(* the command itself wrote.                                               *)
FileIsOwn == \A r \in Refreshers : refresh[r] = "replaced" => file = extract[r]
-----------------------------------------------------------------------------
(* The steps of a process between its manifest and its first answer.       *)
Starts(s) == HashFile(s) \/ CountRows(s) \/ TakeUp(s)

LEMMA Sorts ==
    /\ 1 \in Versions /\ Nothing \notin Versions
    /\ 0 \in Ages
    /\ \A a \in Ages : Older(a) \in Ages
    /\ \A v \in Versions : v < MaxVersion => v + 1 \in Versions
BY SnapshotAssumption DEF Versions, Nothing, Ages, Older

LEMMA InitInv == Init => IInv
BY Sorts DEF Init, IInv, TypeOK, RefreshOK, ServerOK

LEMMA RefreshInv ==
    ASSUME IInv, NEW r \in Refreshers,
           Extract(r) \/ ReplaceFile(r) \/ ReplaceManifest(r) \/ Fail(r)
    PROVE  IInv'
<1> USE Sorts
<1>1. CASE Extract(r)
  BY <1>1 DEF IInv, TypeOK, RefreshOK, ServerOK, Extract, disk, serving
<1>2. CASE ReplaceFile(r)
  <2>1. extract[r] \in Versions
    BY <1>2 DEF IInv, RefreshOK, ReplaceFile
  <2> QED BY <1>2, <2>1 DEF IInv, TypeOK, RefreshOK, ServerOK, ReplaceFile, serving
<1>3. CASE ReplaceManifest(r)
  <2>1. extract[r] \in Versions /\ file \in Versions
    BY <1>3 DEF IInv, RefreshOK, ReplaceManifest
  <2> QED BY <1>3, <2>1 DEF IInv, TypeOK, RefreshOK, ServerOK, ReplaceManifest, Described, serving
<1>4. CASE Fail(r)
  BY <1>4 DEF IInv, TypeOK, RefreshOK, ServerOK, Fail, CleansTemporary, serving
<1> QED BY <1>1, <1>2, <1>3, <1>4

LEMMA ServerInv ==
    ASSUME IInv, NEW s \in Servers,
           ReadManifest(s) \/ Starts(s) \/ Answer(s) \/ Stop(s)
    PROVE  IInv'
<1>1. UNCHANGED <<source, disk, refresh, extract>>
  BY DEF ReadManifest, Starts, HashFile, CountRows, TakeUp, Check, Answer, Stop
<1>2. /\ server' \in [Servers -> {"down", "starting", "hashed", "counted", "up"}]
      /\ approved' \in [Servers -> Versions \cup {Nothing}]
      /\ held' \in [Servers -> Ages]
  BY DEF IInv, TypeOK, ReadManifest, Starts, HashFile, CountRows, TakeUp, Check, Answer, Stop
<1>3. \A q \in Servers : ServerOK(q)'
  BY DEF IInv, TypeOK, ServerOK, ReadManifest, Starts, HashFile, CountRows, TakeUp, Check,
         Answer, Stop
<1>4. receipts' \subseteq [claimed : Versions, read : Versions]
  <2>1. CASE Answer(s)
    <3>1. approved[s] \in Versions /\ file \in Versions
      BY <2>1 DEF IInv, TypeOK, ServerOK, Answer
    <3> QED BY <2>1, <3>1 DEF IInv, TypeOK, Answer
  <2>2. CASE ReadManifest(s) \/ Starts(s) \/ Stop(s)
    BY <2>2 DEF IInv, TypeOK, ReadManifest, Starts, HashFile, CountRows, TakeUp, Check, Stop
  <2> QED BY <2>1, <2>2
<1> QED BY <1>1, <1>2, <1>3, <1>4 DEF IInv, TypeOK, RefreshOK, disk

LEMMA WorldInv ==
    ASSUME IInv, SourceChanges \/ Tick
    PROVE  IInv'
<1>1. CASE SourceChanges
  <2>1. source' \in Versions
    BY <1>1, Sorts DEF IInv, TypeOK, SourceChanges
  <2> QED BY <1>1, <2>1
          DEF IInv, TypeOK, RefreshOK, ServerOK, SourceChanges, disk, serving
<1>2. CASE Tick
  <2>1. age' \in Ages /\ held' \in [Servers -> Ages]
    BY <1>2, Sorts DEF IInv, TypeOK, Tick
  <2> QED BY <1>2, <2>1 DEF IInv, TypeOK, RefreshOK, ServerOK, Tick
<1> QED BY <1>1, <1>2

LEMMA NextInv == IInv /\ [Next]_vars => IInv'
<1> SUFFICES ASSUME IInv, [Next]_vars PROVE IInv'
  OBVIOUS
<1>1. CASE UNCHANGED vars
  BY <1>1 DEF IInv, TypeOK, RefreshOK, ServerOK, vars, disk, serving
<1>2. CASE Next
  BY <1>2, RefreshInv, ServerInv, WorldInv DEF Next, Starts
<1> QED BY <1>1, <1>2

LEMMA Invariance == Spec => []IInv
BY InitInv, NextInv, PTL DEF Spec

(* The state of the directory, the refresh commands and the API processes  *)
(* has its type: every receipt names a version that was extracted.         *)
THEOREM TypeCorrect == Spec => []TypeOK
<1>1. IInv => TypeOK
  BY DEF IInv
<1> QED BY <1>1, Invariance, PTL
-----------------------------------------------------------------------------
(* A process that does not rely on its hash takes it by HashFile, which    *)
(* compares the file it hashed with the manifest it had read; nothing      *)
(* changes what a process that relies on it has approved.                  *)
LEMMA DivergedStep ==
    ASSUME IInv, [Next]_vars, NEW s \in Servers, Diverged(s)', ~Diverged(s)
    PROVE  file' # file
<1> SUFFICES ASSUME file' = file PROVE FALSE
  OBVIOUS
<1>1. server'[s] \in {"hashed", "counted", "up"} /\ file # approved'[s]
  BY DEF Diverged, Relies
<1>2. server[s] \in {"hashed", "counted", "up"} => file = approved[s]
  BY DEF Diverged, Relies
<1>3. CASE UNCHANGED <<server, approved>>
  BY <1>1, <1>2, <1>3
<1>4. CASE \E q \in Servers : ReadManifest(q)
  <2>1. PICK q \in Servers : ReadManifest(q)
    BY <1>4
  <2>2. s # q
    BY <1>1, <2>1 DEF IInv, TypeOK, ReadManifest
  <2> QED BY <1>1, <1>2, <2>1, <2>2 DEF IInv, TypeOK, ReadManifest
<1>5. CASE \E q \in Servers : HashFile(q)
  <2>1. PICK q \in Servers : HashFile(q)
    BY <1>5
  <2>2. CASE s = q
    BY <1>1, <2>1, <2>2 DEF IInv, TypeOK, HashFile, Check, Verified
  <2>3. CASE s # q
    BY <1>1, <1>2, <2>1, <2>3 DEF IInv, TypeOK, HashFile, Check
  <2> QED BY <2>2, <2>3
<1>6. CASE \E q \in Servers : CountRows(q) \/ TakeUp(q) \/ Stop(q)
  BY <1>1, <1>2, <1>6 DEF IInv, TypeOK, CountRows, TakeUp, Check, Stop
<1>7. \/ UNCHANGED <<server, approved>>
      \/ \E q \in Servers : \/ ReadManifest(q) \/ HashFile(q) \/ CountRows(q)
                             \/ TakeUp(q) \/ Stop(q)
  BY DEF Next, Extract, ReplaceFile, ReplaceManifest, Fail, Answer, SourceChanges,
         Tick, vars, serving
<1> QED BY <1>3, <1>4, <1>5, <1>6, <1>7

(* OnlyRefreshesDiverge, however many commands and processes share the     *)
(* directory: a process comes to rely on data its manifest does not        *)
(* describe only when a refresh replaces the file after it was hashed,     *)
(* between two reads of the startup or under a process that serves.        *)
THEOREM OnlyRefreshesDivergeAlways == Spec => OnlyRefreshesDiverge
<1> DEFINE Kept == \A s \in Servers : Diverged(s)' /\ ~Diverged(s) => file' # file
<1>1. IInv /\ [Next]_vars => [Kept]_vars
  BY DivergedStep
<1> QED BY <1>1, Invariance, PTL DEF Spec, OnlyRefreshesDiverge
-----------------------------------------------------------------------------
(* The file between the two replacements is the command's own: only a      *)
(* second command could have put another in its place.                     *)
LEMMA FileInv ==
    ASSUME Alone, IInv, FileIsOwn, [Next]_vars
    PROVE  FileIsOwn'
<1> SUFFICES ASSUME NEW q \in Refreshers, refresh'[q] = "replaced"
             PROVE  file' = extract'[q]
  BY DEF FileIsOwn
<1>1. CASE \E r \in Refreshers :
             Extract(r) \/ ReplaceFile(r) \/ ReplaceManifest(r) \/ Fail(r)
  <2>1. PICK r \in Refreshers :
          Extract(r) \/ ReplaceFile(r) \/ ReplaceManifest(r) \/ Fail(r)
    BY <1>1
  <2>2. CASE q = r
    BY <2>1, <2>2 DEF IInv, TypeOK, Extract, ReplaceFile, ReplaceManifest, Fail
  <2>3. CASE q # r
    <3>1. refresh[q] = "replaced" /\ extract'[q] = extract[q] /\ file = extract[q]
      BY <2>1, <2>3
         DEF IInv, TypeOK, FileIsOwn, Extract, ReplaceFile, ReplaceManifest, Fail
    <3>2. ~ReplaceFile(r)
      BY <2>3, <3>1 DEF Alone, ReplaceFile
    <3> QED BY <2>1, <3>1, <3>2 DEF Extract, ReplaceManifest, Fail, CleansTemporary, disk
  <2> QED BY <2>2, <2>3
<1>2. CASE UNCHANGED <<file, refresh, extract>>
  BY <1>2 DEF FileIsOwn
<1>3. \/ \E r \in Refreshers :
            Extract(r) \/ ReplaceFile(r) \/ ReplaceManifest(r) \/ Fail(r)
      \/ UNCHANGED <<file, refresh, extract>>
  BY DEF Next, ReadManifest, HashFile, CountRows, TakeUp, Check, Answer, Stop, SourceChanges,
         Tick, vars, disk
<1> QED BY <1>1, <1>2, <1>3

LEMMA RepairStep ==
    ASSUME FileIsOwn, [Next]_vars,
           NEW r \in Refreshers, refresh[r] = "replaced", manifest' # manifest
    PROVE  file' = manifest'
<1>1. PICK q \in Refreshers : ReplaceManifest(q)
  BY DEF Next, Extract, ReplaceFile, Fail, ReadManifest, HashFile, CountRows, TakeUp, Check,
         Answer, Stop, SourceChanges, Tick, vars, disk
<1> QED BY <1>1 DEF FileIsOwn, ReplaceManifest, Described

(* RefreshRepairs, while no two refresh commands overlap: the manifest a   *)
(* command writes describes the data file that is then on disk, whatever   *)
(* earlier commands left behind when they failed.  The hypothesis cannot   *)
(* be dropped: a second command that replaces the file in between leaves a *)
(* pair that does not belong together.                                     *)
THEOREM RefreshRepairsAlone == Spec /\ []Alone => RefreshRepairs
<1> DEFINE Repairs == \A r \in Refreshers :
             refresh[r] = "replaced" /\ manifest' # manifest => file' = manifest'
<1>1. Init => FileIsOwn
  BY DEF Init, FileIsOwn
<1>2. IInv /\ Alone /\ FileIsOwn /\ [Next]_vars => FileIsOwn'
  BY FileInv
<1>3. FileIsOwn /\ [Next]_vars => [Repairs]_vars
  BY RepairStep
<1> QED BY <1>1, <1>2, <1>3, Invariance, PTL DEF Spec, RefreshRepairs
-----------------------------------------------------------------------------
(* No refresh puts another version in place while some process relies on   *)
(* its hash, as when every one is made while no process serves or starts.  *)
Undisturbed == file' # file => \A s \in Servers : ~Relies(s)

LEMMA ReceiptStep ==
    ASSUME IInv, ReceiptNamesItsData, \A s \in Servers : ~Diverged(s), [Next]_vars, [Undisturbed]_vars
    PROVE  ReceiptNamesItsData' /\ \A s \in Servers : ~Diverged(s)'
<1>1. ASSUME NEW s \in Servers, Diverged(s)' PROVE FALSE
  <2>1. file' # file
    BY <1>1, DivergedStep
  <2>2. ~Relies(s)
    BY <2>1 DEF Undisturbed, vars, disk
  <2>3. server' = server
    BY <2>1 DEF Next, Extract, ReplaceFile, ReplaceManifest, Fail, CleansTemporary, ReadManifest,
                HashFile, CountRows, TakeUp, Check, Answer, Stop, SourceChanges, Tick, vars, disk,
                serving
  <2> QED BY <1>1, <2>2, <2>3 DEF Diverged, Relies
<1>2. ReceiptNamesItsData'
  <2>1. CASE \E s \in Servers : Answer(s)
    BY <2>1 DEF ReceiptNamesItsData, Answer, Diverged, Relies
  <2>2. CASE UNCHANGED receipts
    BY <2>2 DEF ReceiptNamesItsData
  <2> QED BY <2>1, <2>2 DEF Next, Extract, ReplaceFile, ReplaceManifest, Fail, ReadManifest, HashFile,
                            CountRows, TakeUp, Check, Stop, SourceChanges, Tick, vars, serving
<1> QED BY <1>1, <1>2

(* BIGQUERY_PARQUET_RUNTIME.md is right about receipts as long as the data *)
(* file is replaced only while no process serves or is about to, having    *)
(* hashed it: the data an answer was computed from is then the data its    *)
(* receipt names, for any number of refreshes, also of ones that fail half *)
(* way or overlap.                                                         *)
THEOREM ReceiptsTellUndisturbed == Spec /\ [][Undisturbed]_vars => []ReceiptNamesItsData
<1> DEFINE Served == ReceiptNamesItsData /\ \A s \in Servers : ~Diverged(s)
<1>1. Init => Served
  BY DEF Init, ReceiptNamesItsData, Diverged, Relies
<1>2. IInv /\ Served /\ [Next]_vars /\ [Undisturbed]_vars => Served'
  BY ReceiptStep
<1>3. Served => ReceiptNamesItsData
  OBVIOUS
<1> QED BY <1>1, <1>2, <1>3, Invariance, PTL DEF Spec
=============================================================================
