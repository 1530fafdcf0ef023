------------------------------ MODULE JobProofs ------------------------------
(***************************************************************************)
(* Proofs about the two jobs that run to their end before the servers      *)
(* start, and may be broken off after any of their steps: the migration of *)
(* the database and the creation of the certificate bundle.                *)
(***************************************************************************)
EXTENDS Migration, CertificateBundle, FiniteSetTheorems, TLAPS

-----------------------------------------------------------------------------
(***************************************************************************)
(* The migration, for any number of jobs and contents of the file.  What a *)
(* job has behind it stays true whatever the others do, because no step    *)
(* drops a table, a row or a record: the next statement of a job says what *)
(* is there already.                                                       *)
(***************************************************************************)
MigrationTypeOK ==
  /\ recorded \in Digests \cup {None}
  /\ tables \subseteq Tables
  /\ row \in Nat \cup {None}
  /\ step \in [Jobs -> Statements \cup {"ready", "done", "refused", "broken"}]
  /\ registry \in {"down", "serving"}

Migrated == tables = Tables /\ row # None

BehindIt(j) ==
  /\ step[j] \in {"insert_row", "create_catalog", "record"} => "state" \in tables
  /\ step[j] \in {"create_catalog", "record"} => row # None
  /\ step[j] = "record" => "catalog" \in tables
  /\ step[j] = "done" => recorded # None

MigrationInv ==
  /\ MigrationTypeOK
  /\ \A j \in Jobs : BehindIt(j)
  /\ RecordedIsComplete
  /\ ServingIsMigrated

\* Nothing a step leaves is less than what it found.
LEMMA MigrationGrows ==
  ASSUME MigrationInv, [MigrationNext]_migrationVars
  PROVE  /\ tables \subseteq tables'
         /\ row # None => row' \in {row, row + 1} /\ row' # None
         /\ recorded # None => recorded' = recorded
<1> USE MigrationAssumption DEF MigrationInv, MigrationTypeOK
<1>1. ASSUME NEW j \in Jobs, JobStep(j)
      PROVE  /\ tables \subseteq tables'
             /\ row # None => row' \in {row, row + 1} /\ row' # None
             /\ recorded # None => recorded' = recorded
  BY <1>1 DEF JobStep, Begin, Check, CreateState, InsertRow, CreateCatalog, Create, Record, Break
<1>2. ASSUME NEW j \in Jobs, ComposeUp(j)
      PROVE  UNCHANGED <<tables, row, recorded>>
  BY <1>2 DEF ComposeUp, Open
<1>3. CASE Write
  BY <1>3 DEF Write
<1>4. CASE Stop
  BY <1>4 DEF Stop
<1>5. QED
  BY <1>1, <1>2, <1>3, <1>4 DEF MigrationNext, migrationVars

LEMMA MigrationInitInv == MigrationInit => MigrationInv
BY MigrationAssumption
   DEF MigrationInit, MigrationInv, MigrationTypeOK, BehindIt, Statements, RecordedIsComplete,
       ServingIsMigrated

\* A job that does not take the step keeps what it has behind it.
LEMMA MigrationOthers ==
  ASSUME MigrationInv, [MigrationNext]_migrationVars,
         NEW j \in Jobs, step'[j] = step[j]
  PROVE  BehindIt(j)'
BY MigrationGrows DEF MigrationInv, BehindIt

LEMMA JobStepInv ==
  ASSUME MigrationInv, NEW j \in Jobs, JobStep(j)
  PROVE  MigrationInv'
<1> USE MigrationAssumption DEF MigrationInv, MigrationTypeOK
<1>1. [MigrationNext]_migrationVars
  BY DEF MigrationNext
<1>2. MigrationTypeOK'
  BY DEF JobStep, Begin, Check, CreateState, InsertRow, CreateCatalog, Create, Record, Break,
         Proceed, Statements, Tables
<1>3. \A k \in Jobs : k # j => step'[k] = step[k]
  BY DEF JobStep, Begin, Check, CreateState, InsertRow, CreateCatalog, Create, Record, Break, Proceed
<1>4. BehindIt(j)'
  BY DEF JobStep, Begin, Check, CreateState, InsertRow, CreateCatalog, Create, Record, Break,
         Proceed, Statements, BehindIt
<1>5. \A k \in Jobs : BehindIt(k)'
  BY <1>1, <1>3, <1>4, MigrationOthers
<1>6. registry' = registry
  BY DEF JobStep, Begin, Check, CreateState, InsertRow, CreateCatalog, Record, Break
<1>7. RecordedIsComplete'
  <2>1. CASE recorded # None
    BY <1>1, <1>2, <2>1, MigrationGrows DEF RecordedIsComplete
  <2>2. CASE recorded = None /\ Record(j)
    BY <2>2 DEF Record, BehindIt, RecordedIsComplete, Tables
  <2>3. CASE recorded = None /\ ~Record(j)
    BY <2>3 DEF JobStep, Begin, Check, CreateState, InsertRow, CreateCatalog, Break,
                RecordedIsComplete
  <2>4. QED
    BY <2>1, <2>2, <2>3
<1>8. ServingIsMigrated'
  BY <1>1, <1>2, <1>6, MigrationGrows DEF ServingIsMigrated
<1>9. QED
  BY <1>2, <1>5, <1>7, <1>8

LEMMA MigrationStepInv == MigrationInv /\ [MigrationNext]_migrationVars => MigrationInv'
<1> SUFFICES ASSUME MigrationInv, [MigrationNext]_migrationVars PROVE MigrationInv'
  OBVIOUS
<1>1. ASSUME NEW j \in Jobs, ComposeUp(j) PROVE MigrationInv'
  <2>1. UNCHANGED <<recorded, tables, row, step>> /\ registry' = "serving" /\ recorded # None
    BY <1>1 DEF ComposeUp, Open, MigrationInv, BehindIt
  <2>2. QED
    BY <2>1 DEF MigrationInv, MigrationTypeOK, BehindIt, RecordedIsComplete, ServingIsMigrated
<1>2. CASE Write
  BY <1>2, MigrationAssumption
     DEF Write, MigrationInv, MigrationTypeOK, BehindIt, RecordedIsComplete, ServingIsMigrated
<1>3. CASE Stop
  BY <1>3 DEF Stop, MigrationInv, MigrationTypeOK, BehindIt, RecordedIsComplete, ServingIsMigrated
<1>4. CASE UNCHANGED migrationVars
  BY <1>4 DEF migrationVars, MigrationInv, MigrationTypeOK, BehindIt, RecordedIsComplete,
              ServingIsMigrated
<1>5. QED
  BY <1>1, <1>2, <1>3, <1>4, JobStepInv DEF MigrationNext

LEMMA MigrationInvariant == MigrationSpec => []MigrationInv
BY MigrationInitInv, MigrationStepInv, PTL DEF MigrationSpec

\* Wherever jobs are broken off and however many run at a time, the file is on
\* record only when all of it is in the database (migrate.sh:15-20).
THEOREM RecordTheorem == MigrationSpec => []RecordedIsComplete
<1>1. MigrationInv => RecordedIsComplete
  BY DEF MigrationInv
<1>2. QED
  BY <1>1, MigrationInvariant, PTL

\* The registry never serves on a part of the schema, although it only looks
\* for the row (mysql/release.go:26-36).
THEOREM MigratedTheorem == MigrationSpec => []ServingIsMigrated
<1>1. MigrationInv => ServingIsMigrated
  BY DEF MigrationInv
<1>2. QED
  BY <1>1, MigrationInvariant, PTL

\* No job, run again or in parallel, sets the registry's row back.
THEOREM RowTheorem == MigrationSpec => RowKept
<1>1. MigrationInv /\ [MigrationNext]_migrationVars
        => [row # None => row' \in {row, row + 1}]_migrationVars
  BY MigrationGrows
<1>2. QED
  BY <1>1, MigrationInvariant, PTL DEF MigrationSpec, RowKept

\* The record of the file is written once, and a job succeeds only on a record of
\* its own content: with an edited file, neither a job that runs beside the first
\* one nor any later one is taken for successful, and compose does not start the
\* registry on its account (migrate.sh:11-20).
SuccessIsOnRecord == \A j \in Jobs : step[j] = "done" => recorded = DigestOf[j]
RecordStays == [][recorded # None => recorded' = recorded]_migrationVars

\* For any number of jobs, files and broken-off runs (migrate.sh:11-20).
THEOREM ChecksumTheorem == MigrationSpec => []SuccessIsOnRecord /\ RecordStays
<1>1. MigrationInit => SuccessIsOnRecord
  BY DEF MigrationInit, SuccessIsOnRecord
<1>2. ASSUME MigrationInv, SuccessIsOnRecord, [MigrationNext]_migrationVars PROVE SuccessIsOnRecord'
  <2> USE MigrationAssumption DEF MigrationInv, MigrationTypeOK, SuccessIsOnRecord
  <2>1. recorded # None => recorded' = recorded
    BY <1>2, MigrationGrows
  <2>2. \A j \in Jobs : DigestOf[j] # None
    OBVIOUS
  <2>3. ASSUME NEW j \in Jobs, JobStep(j) PROVE SuccessIsOnRecord'
    <3>1. \A k \in Jobs : k # j => step'[k] = step[k]
      BY <1>2, <2>3
         DEF JobStep, Begin, Check, CreateState, InsertRow, CreateCatalog, Create, Record, Break, Proceed
    <3>2. step'[j] = "done" => recorded' = DigestOf[j]
      BY <1>2, <2>3
         DEF JobStep, Begin, Check, CreateState, InsertRow, CreateCatalog, Create, Record, Break, Proceed
    <3>3. QED
      BY <1>2, <2>1, <2>2, <3>1, <3>2
  <2>4. (\A j \in Jobs : ~JobStep(j)) => step' = step
    BY <1>2 DEF MigrationNext, ComposeUp, Open, Write, Stop, migrationVars
  <2>5. QED
    BY <1>2, <2>1, <2>2, <2>3, <2>4
<1>3. MigrationInv /\ SuccessIsOnRecord /\ [MigrationNext]_migrationVars => SuccessIsOnRecord'
  BY <1>2
<1>4. MigrationInv /\ [MigrationNext]_migrationVars =>
        [recorded # None => recorded' = recorded]_migrationVars
  BY MigrationGrows
<1>5. QED
  BY <1>1, <1>3, <1>4, MigrationInvariant, PTL DEF MigrationSpec, RecordStays

-----------------------------------------------------------------------------
(***************************************************************************)
(* The certificate bundle, for any files and any number of runs that end   *)
(* early.                                                                  *)
(***************************************************************************)

\* A nonempty set of numbers has a least one: of two initial segments of the
\* numbers one is part of the other, and finite sets do not shrink for ever.
LEMMA LeastNumber ==
  ASSUME NEW S \in SUBSET Nat, S # {}
  PROVE  \E n \in S : \A k \in S : n <= k
<1> DEFINE Below == {1..n : n \in S}
           R == StrictSubsetOrdering(Nat)
           F == FiniteSubsetsOf(Nat)
<1>1. \A n \in S : 1..n \in SUBSET Nat /\ IsFiniteSet(1..n)
  BY FS_Interval
<1>2. Below \subseteq F
  BY <1>1 DEF FiniteSubsetsOf
<1>3. IsWellFoundedOn(R, F)
  BY FS_StrictSubsetOrderingWellFounded
<1>4. Below # {}
  OBVIOUS
<1>5. \E x \in Below : \A y \in Below : ~(<<y, x>> \in R)
  <2> HIDE DEF R, F, Below
  <2>1. QED
    BY <1>2, <1>3, <1>4, WFMin
<1>6. PICK n \in S : \A k \in S : ~(<<1..k, 1..n>> \in R)
  BY <1>5
<1>7. ASSUME NEW k \in S, k < n PROVE FALSE
  <2>1. 1..k \in SUBSET Nat /\ 1..n \in SUBSET Nat
    OBVIOUS
  <2>2. 1..k \subseteq 1..n /\ n \in 1..n /\ n \notin 1..k
    BY <1>7
  <2>3. <<1..k, 1..n>> \in R
    BY <2>1, <2>2 DEF StrictSubsetOrdering
  <2>4. QED
    BY <1>6, <2>3
<1>8. QED
  BY <1>7

\* What comes first among some files is one of them.
LEMMA EarliestIsOne ==
  ASSUME NEW files, files \subseteq Files, files # {}
  PROVE  Earliest(files) \in files
<1> DEFINE places == {n \in DOMAIN FileOrder : FileOrder[n] \in files}
<1>1. places \in SUBSET Nat /\ places # {}
  BY BundleAssumption DEF Files
<1>2. \E n \in places : \A k \in places : n <= k
  <2> HIDE DEF places
  <2>1. QED
    BY <1>1, LeastNumber
<1>3. QED
  BY <1>2 DEF Earliest

(***************************************************************************)
(* The inductive invariant.  Every file on the volume is of one CA,        *)
(* wherever runs have ended, because a run writes only when it has removed *)
(* all that was there.  The rest says how far each phase is: what changed  *)
(* hands, what was found, what is left to remove and what is written.      *)
(***************************************************************************)
FileStates == [gen : Generations, whole : BOOLEAN, owner : {Job, Owner}]

BundleTypeOK ==
  /\ dir \in {Job, Owner}
  /\ file \in [Files -> {Absent} \cup FileStates]
  /\ pc \in {"idle", "claim", "restore", "reclaim", "clear", "write", "hand_over"}
  /\ force \in BOOLEAN

OneAuthority == \A f, h \in Present : file[f].gen = file[h].gen

ChangingOwners ==
  /\ pc \in {"claim", "restore", "hand_over"} => todo \subseteq {Directory} \cup Present
  /\ pc \in {"claim", "restore"} => Present # {}
  /\ pc \in {"restore", "hand_over"} =>
       /\ Directory \notin todo => dir = Owner
       /\ \A f \in Present \ todo : file[f].owner = Owner

Inspected ==
  pc = "restore" =>
    /\ verdict = "usable" => \A f \in Files : f \in Present /\ file[f].whole
    /\ verdict = "missing" => Present # Files

Clearing ==
  /\ pc \in {"reclaim", "clear"} => force \/ Present # Files \/ Files = {}
  /\ pc = "clear" => dir = Job /\ todo \subseteq Files /\ Present \subseteq todo

Writing ==
  pc = "write" =>
    /\ dir = Job /\ gen \in Generations /\ todo \subseteq Files
    /\ \A f \in Present : file[f].gen = gen /\ file[f].owner = Job
    /\ \A f \in Files \ todo : f \in Present /\ file[f].whole

HandingOver ==
  pc = "hand_over" =>
    gen \in Generations /\ \A f \in Files : f \in Present /\ file[f].whole /\ file[f].gen = gen

BundleInv ==
  /\ BundleTypeOK /\ OneAuthority
  /\ ChangingOwners /\ Inspected /\ Clearing /\ Writing /\ HandingOver
  /\ NeverDenied /\ SuccessIsServable

LEMMA BundleInitInv == Init => BundleInv
BY DEF Init, BundleInv, BundleTypeOK, OneAuthority, ChangingOwners, Inspected, Clearing, Writing,
       HandingOver, NeverDenied, SuccessIsServable, Present

\* A run that ends where it may leaves nothing but the volume and its outcome.
LEMMA EndInv ==
  ASSUME BundleInv, UNCHANGED <<dir, file>>, pc' = "idle", outcome' # "denied", force' = FALSE,
         outcome' \in {"reused", "written"} => SuccessIsServable'
  PROVE  BundleInv'
BY DEF BundleInv, BundleTypeOK, OneAuthority, ChangingOwners, Inspected, Clearing, Writing,
       HandingOver, NeverDenied, SuccessIsServable, Present

LEMMA StartInv ==
  ASSUME BundleInv, NEW f \in BOOLEAN, Start(f)
  PROVE  BundleInv'
BY DEF Start, disk, BundleInv, BundleTypeOK, OneAuthority, ChangingOwners, Inspected, Clearing,
       Writing, HandingOver, NeverDenied, SuccessIsServable, Present

\* An owner changes; what the files hold does not.
LEMMA ChangeOwnerInv ==
  ASSUME BundleInv, NEW path \in Files \cup {Directory}, ChangeOwner(path)
  PROVE  BundleInv'
<1> USE BundleAssumption DEF BundleInv, BundleTypeOK
<1>1. pc' = pc /\ UNCHANGED <<verdict, gen, force, outcome>> /\ todo' = todo \ {path}
      /\ pc \in {"claim", "restore", "hand_over"} /\ path \in todo
  BY DEF ChangeOwner, GoTo
<1>2. path # Directory => path \in Present /\ path \in Files
  BY <1>1 DEF ChangingOwners
<1>3. PICK uid \in {Job, Owner} :
        /\ pc \in {"restore", "hand_over"} => uid = Owner
        /\ IF path = Directory THEN dir' = uid /\ file' = file
           ELSE dir' = dir /\ file' = [file EXCEPT ![path].owner = uid]
  BY DEF ChangeOwner
<1>4. /\ file' \in [Files -> {Absent} \cup FileStates]
      /\ \A f \in Files : file[f] = Absent => file'[f] = Absent
      /\ \A f \in Present :
           /\ file'[f] \in FileStates
           /\ file'[f].gen = file[f].gen /\ file'[f].whole = file[f].whole
           /\ file'[f].owner = IF f = path THEN uid ELSE file[f].owner
  <2>1. \A f \in Present : file[f] \in FileStates /\ f \in Files
    BY DEF Present
  <2>2. CASE path = Directory
    BY <1>3, <2>1, <2>2 DEF Present
  <2>3. CASE path # Directory
    <3>1. file' = [file EXCEPT ![path].owner = uid] /\ path \in Present
      BY <1>2, <1>3, <2>3
    <3>2. [file[path] EXCEPT !.owner = uid] \in FileStates
      BY <2>1, <3>1 DEF FileStates
    <3>3. file'[path] = [file[path] EXCEPT !.owner = uid] /\ \A f \in Files : f # path => file'[f] = file[f]
      BY <2>1, <3>1
    <3>4. /\ file'[path].gen = file[path].gen /\ file'[path].whole = file[path].whole
          /\ file'[path].owner = uid
      BY <2>1, <3>1, <3>3 DEF FileStates
    <3>5. QED
      BY <2>1, <3>1, <3>2, <3>3, <3>4 DEF Present
  <2>4. QED
    BY <2>2, <2>3
<1>5. Present' = Present
  BY <1>4 DEF Present, FileStates
<1>6. BundleTypeOK'
  BY <1>1, <1>3, <1>4
<1>7. OneAuthority' /\ Inspected' /\ HandingOver'
  BY <1>1, <1>4, <1>5 DEF OneAuthority, Inspected, HandingOver, Present
<1>8. ChangingOwners'
  BY <1>1, <1>2, <1>3, <1>4, <1>5 DEF ChangingOwners, Present
<1>9. Clearing' /\ Writing' /\ NeverDenied' /\ SuccessIsServable'
  BY <1>1 DEF Clearing, Writing, NeverDenied, SuccessIsServable
<1>10. QED
  BY <1>6, <1>7, <1>8, <1>9

\* What the verdict says of the files.
LEMMA VerdictFinds ==
  ASSUME NEW bad, bad \subseteq Files
  PROVE  /\ Verdict(bad) = "usable" => bad = {}
         /\ Verdict(bad) = "missing" => \E f \in Files : file[f] = Absent
BY EarliestIsOne DEF Verdict

LEMMA InspectInv == BundleInv /\ Inspect => BundleInv'
<1> SUFFICES ASSUME BundleInv, Inspect PROVE BundleInv'
  OBVIOUS
<1> USE DEF BundleInv, BundleTypeOK
<1>1. /\ pc = "claim" /\ pc' = "restore" /\ todo' = {Directory} \cup Present
      /\ UNCHANGED <<dir, file, gen, force, outcome>>
      /\ verdict' = Verdict({f \in Files : ~Usable(f)})
  BY DEF Inspect, ChangeOwners, GoTo, disk
<1>2. Present' = Present
  BY <1>1 DEF Present
<1>3. Inspected'
  BY <1>1, <1>2, VerdictFinds DEF Inspected, Present, Usable, Readable
<1>4. ChangingOwners'
  BY <1>1, <1>2 DEF ChangingOwners
<1>5. BundleTypeOK' /\ OneAuthority' /\ Clearing' /\ Writing' /\ HandingOver'
      /\ NeverDenied' /\ SuccessIsServable'
  BY <1>1, <1>2 DEF OneAuthority, Clearing, Writing, HandingOver, NeverDenied, SuccessIsServable
<1>6. QED
  BY <1>3, <1>4, <1>5

\* A bundle that is reused is complete, and of one CA because all files are.
LEMMA ConcludeInv == BundleInv /\ Conclude => BundleInv'
<1> SUFFICES ASSUME BundleInv, Conclude PROVE BundleInv'
  OBVIOUS
<1>1. pc = "restore" /\ todo = {} /\ UNCHANGED <<dir, file>>
  BY DEF Conclude, disk
<1>2. CASE verdict = "usable" /\ End("reused")
  <2>1. \A f \in Files : f \in Present /\ file[f].whole /\ file[f].owner = Owner
    BY <1>1, <1>2 DEF BundleInv, Inspected, ChangingOwners
  <2>2. dir = Owner /\ Present # {}
    BY <1>1 DEF BundleInv, ChangingOwners
  <2>3. PICK h \in Files : h \in Present
    BY <2>2 DEF Present
  <2>4. file[h].gen \in Generations
    BY <2>3 DEF Present, BundleInv, BundleTypeOK, FileStates
  <2>5. Complete(file[h].gen)
    BY <2>1, <2>3 DEF Complete, Present, BundleInv, OneAuthority
  <2>6. SuccessIsServable'
    BY <1>1, <2>1, <2>2, <2>4, <2>5 DEF SuccessIsServable, Complete
  <2>7. QED
    BY <1>1, <1>2, <2>6, EndInv DEF End
<1>3. CASE verdict = "unusable" /\ End("failed")
  BY <1>1, <1>3, EndInv DEF End
<1>4. CASE verdict = "missing" /\ GoTo("reclaim", {})
  <2>1. pc' = "reclaim" /\ UNCHANGED <<dir, file, force, outcome>> /\ Present # Files
    BY <1>1, <1>4 DEF GoTo, BundleInv, Inspected
  <2>2. QED
    BY <2>1 DEF BundleInv, BundleTypeOK, OneAuthority, ChangingOwners, Inspected, Clearing,
                Writing, HandingOver, NeverDenied, SuccessIsServable, Present
<1>5. QED
  BY <1>2, <1>3, <1>4 DEF Conclude

LEMMA ReclaimInv == BundleInv /\ Reclaim => BundleInv'
<1> SUFFICES ASSUME BundleInv, Reclaim PROVE BundleInv'
  OBVIOUS
<1>1. /\ pc = "reclaim" /\ pc' = "clear" /\ dir' = Job /\ todo' = Present
      /\ UNCHANGED <<file, force, outcome>> /\ Present' = Present
  BY DEF Reclaim, GoTo, Present
<1>2. QED
  BY <1>1 DEF BundleInv, BundleTypeOK, OneAuthority, ChangingOwners, Inspected, Clearing, Writing,
     HandingOver, NeverDenied, SuccessIsServable, Present

\* Nothing but the directory's owner could forbid a removal, and that is Job.
LEMMA RemoveFileInv ==
  ASSUME BundleInv, NEW f \in Files, RemoveFile(f)
  PROVE  BundleInv'
<1>1. pc = "clear" /\ f \in todo /\ dir = Job
  BY DEF RemoveFile, BundleInv, Clearing
<1>2. /\ file' = [file EXCEPT ![f] = Absent] /\ pc' = "clear" /\ todo' = todo \ {f}
      /\ UNCHANGED <<dir, force, outcome>>
  BY <1>1 DEF RemoveFile, GoTo
<1>3. /\ file' \in [Files -> {Absent} \cup FileStates] /\ file'[f] = Absent
      /\ \A h \in Files \ {f} : file'[h] = file[h]
  BY <1>2 DEF BundleInv, BundleTypeOK
<1>4. Present' = Present \ {f}
  BY <1>3 DEF Present
<1>5. OneAuthority'
  BY <1>3, <1>4 DEF BundleInv, OneAuthority, Present
<1>6. Clearing'
  BY <1>1, <1>2, <1>4 DEF BundleInv, Clearing
<1>7. QED
  BY <1>1, <1>2, <1>3, <1>5, <1>6
     DEF BundleInv, BundleTypeOK, ChangingOwners, Inspected, Writing, HandingOver, NeverDenied,
         SuccessIsServable

\* A run that writes starts from nothing.
LEMMA MintAuthorityInv == BundleInv /\ MintAuthority => BundleInv'
<1> SUFFICES ASSUME BundleInv, MintAuthority PROVE BundleInv'
  OBVIOUS
<1>1. /\ pc = "clear" /\ todo = {} /\ pc' = "write" /\ todo' = Files /\ gen' \in Generations
      /\ UNCHANGED <<dir, file, force, outcome>> /\ Present' = Present
  BY DEF MintAuthority, GoTo, Present
<1>2. dir = Job /\ Present = {}
  BY <1>1 DEF BundleInv, Clearing
<1>3. Writing'
  BY <1>1, <1>2 DEF Writing
<1>4. QED
  BY <1>1, <1>3
     DEF BundleInv, BundleTypeOK, OneAuthority, ChangingOwners, Inspected, Clearing, HandingOver,
         NeverDenied, SuccessIsServable

\* The next file, and what may be found in its place.
LEMMA NextFileIs ==
  ASSUME BundleInv, pc = "write", todo # {}
  PROVE  /\ NextFile \in todo /\ NextFile \in Files
         /\ ~Opened(NextFile) => file[NextFile] = Absent
BY EarliestIsOne DEF NextFile, BundleInv, Writing, Opened, Present

LEMMA OpenFileInv == BundleInv /\ OpenFile => BundleInv'
<1> SUFFICES ASSUME BundleInv, OpenFile PROVE BundleInv'
  OBVIOUS
<1> DEFINE fresh == [gen |-> gen, whole |-> FALSE, owner |-> Job]
<1>1. pc = "write" /\ todo # {} /\ dir = Job /\ gen \in Generations
  BY DEF OpenFile, BundleInv, Writing
<1>2. NextFile \in todo /\ NextFile \in Files /\ file[NextFile] = Absent
  BY <1>1, NextFileIs DEF OpenFile
<1>3. /\ file' = [file EXCEPT ![NextFile] = fresh] /\ pc' = "write" /\ todo' = todo
      /\ UNCHANGED <<dir, force, outcome, gen>>
  BY <1>1, <1>2 DEF OpenFile, GoTo
<1>4. fresh \in FileStates /\ fresh # Absent /\ fresh.gen = gen /\ fresh.owner = Job
  <2>1. fresh \in FileStates /\ fresh.gen = gen /\ fresh.owner = Job
    BY <1>1 DEF FileStates
  <2>2. Absent \notin FileStates
    BY BundleAssumption DEF FileStates
  <2>3. QED
    BY <2>1, <2>2
<1> HIDE DEF fresh
<1>5. /\ file' \in [Files -> {Absent} \cup FileStates] /\ file'[NextFile] = fresh
      /\ \A h \in Files : h # NextFile => file'[h] = file[h]
  BY <1>2, <1>3, <1>4 DEF BundleInv, BundleTypeOK
<1>6. Present' = Present \cup {NextFile}
  BY <1>2, <1>4, <1>5 DEF Present
<1>7. Writing'
  BY <1>1, <1>2, <1>3, <1>4, <1>5, <1>6 DEF BundleInv, Writing, Present
<1>8. OneAuthority'
  BY <1>3, <1>7 DEF Writing, OneAuthority
<1>9. QED
  BY <1>1, <1>3, <1>5, <1>7, <1>8
     DEF BundleInv, BundleTypeOK, ChangingOwners, Inspected, Clearing, HandingOver, NeverDenied,
         SuccessIsServable

LEMMA FillFileInv == BundleInv /\ FillFile => BundleInv'
<1> SUFFICES ASSUME BundleInv, FillFile PROVE BundleInv'
  OBVIOUS
<1>1. pc = "write" /\ todo # {} /\ NextFile \in todo /\ NextFile \in Files /\ NextFile \in Present
  BY NextFileIs DEF FillFile, Opened, Present
<1>2. /\ file' = [file EXCEPT ![NextFile].whole = TRUE] /\ pc' = "write"
      /\ todo' = todo \ {NextFile} /\ UNCHANGED <<dir, force, outcome, gen>>
  BY DEF FillFile, GoTo
<1>3. file[NextFile] \in FileStates
  BY <1>1 DEF BundleInv, BundleTypeOK, Present
<1>4. /\ file'[NextFile] \in FileStates /\ file'[NextFile] # Absent
      /\ file'[NextFile].gen = file[NextFile].gen /\ file'[NextFile].owner = file[NextFile].owner
      /\ file'[NextFile].whole = TRUE
  BY <1>1, <1>2, <1>3, BundleAssumption DEF BundleInv, BundleTypeOK, FileStates
<1>5. /\ \A h \in Files : h # NextFile => file'[h] = file[h]
      /\ file' \in [Files -> {Absent} \cup FileStates]
  BY <1>1, <1>2, <1>4 DEF BundleInv, BundleTypeOK
<1>6. Present' = Present
  BY <1>1, <1>4, <1>5 DEF Present
<1>7. Writing'
  BY <1>1, <1>2, <1>4, <1>5, <1>6 DEF BundleInv, Writing, Present
<1>8. OneAuthority'
  BY <1>2, <1>7 DEF Writing, OneAuthority
<1>9. QED
  BY <1>1, <1>2, <1>5, <1>7, <1>8
     DEF BundleInv, BundleTypeOK, ChangingOwners, Inspected, Clearing, HandingOver, NeverDenied,
         SuccessIsServable

LEMMA HandOverInv == BundleInv /\ HandOver => BundleInv'
<1> SUFFICES ASSUME BundleInv, HandOver PROVE BundleInv'
  OBVIOUS
<1>1. /\ pc = "write" /\ todo = {} /\ pc' = "hand_over" /\ todo' = {Directory} \cup Present
      /\ UNCHANGED <<dir, file, force, outcome, gen>> /\ Present' = Present
  BY DEF HandOver, ChangeOwners, GoTo, disk, Present
<1>2. HandingOver'
  BY <1>1 DEF BundleInv, Writing, HandingOver
<1>3. QED
  BY <1>1, <1>2
     DEF BundleInv, BundleTypeOK, OneAuthority, ChangingOwners, Inspected, Clearing, Writing,
         NeverDenied, SuccessIsServable

LEMMA FinishInv == BundleInv /\ Finish => BundleInv'
<1> SUFFICES ASSUME BundleInv, Finish PROVE BundleInv'
  OBVIOUS
<1>1. pc = "hand_over" /\ todo = {} /\ UNCHANGED <<dir, file>> /\ End("written")
  BY DEF Finish, disk
<1>2. gen \in Generations /\ Complete(gen) /\ dir = Owner /\ \A f \in Files : file[f].owner = Owner
  BY <1>1 DEF BundleInv, HandingOver, ChangingOwners, Complete, Present
<1>3. SuccessIsServable'
  BY <1>1, <1>2 DEF SuccessIsServable, Complete
<1>4. QED
  BY <1>1, <1>3, EndInv DEF End

LEMMA BundleStepInv == BundleInv /\ [Next]_vars => BundleInv'
<1> SUFFICES ASSUME BundleInv, [Next]_vars PROVE BundleInv'
  OBVIOUS
<1>1. CASE Work
  BY <1>1, ChangeOwnerInv, InspectInv, ConcludeInv, ReclaimInv, RemoveFileInv, MintAuthorityInv,
     OpenFileInv, FillFileInv, HandOverInv, FinishInv DEF Work
<1>2. CASE Crash
  BY <1>2, EndInv DEF Crash, disk
<1>3. ASSUME NEW g \in Generations, Expire(g) PROVE BundleInv'
  BY <1>3 DEF Expire, BundleInv, BundleTypeOK, OneAuthority, ChangingOwners, Inspected, Clearing,
     Writing, HandingOver, NeverDenied, SuccessIsServable, Present, Complete
<1>4. CASE UNCHANGED vars
  BY <1>4 DEF vars, BundleInv, BundleTypeOK, OneAuthority, ChangingOwners, Inspected, Clearing,
     Writing, HandingOver, NeverDenied, SuccessIsServable, Present, Complete
<1>5. QED
  BY <1>1, <1>2, <1>3, <1>4, StartInv DEF Next

LEMMA BundleInvariant == Spec => []BundleInv
BY BundleInitInv, BundleStepInv, PTL DEF Spec

\* Whatever earlier runs left behind, success means a bundle the servers can use
\* (main.go:178, 208).
THEOREM ServableTheorem == Spec => []SuccessIsServable
<1>1. BundleInv => SuccessIsServable
  BY DEF BundleInv
<1>2. QED
  BY <1>1, BundleInvariant, PTL

\* No run is shut out of what an earlier one gave to the servers.
THEOREM AccessTheorem == Spec => []NeverDenied
<1>1. BundleInv => NeverDenied
  BY DEF BundleInv
<1>2. QED
  BY <1>1, BundleInvariant, PTL

\* Only -force replaces a CA of which all files are there: a run without it
\* removes files only after it has missed one.
THEOREM AuthorityTheorem == Spec => ValidAuthorityKept
<1>1. ASSUME BundleInv, [Next]_vars, NEW g \in Generations, Complete(g), ~force'
      PROVE  Complete(g)'
  <2>1. Present = Files /\ \A f \in Files : file[f] \in FileStates
    BY <1>1 DEF Complete, Present, BundleInv, BundleTypeOK
  <2>2. CASE UNCHANGED file
    BY <1>1, <2>2 DEF Complete
  <2>3. ASSUME NEW path \in Files \cup {Directory}, ChangeOwner(path), file' # file
        PROVE  Complete(g)'
    <3>1. PICK uid \in {Job, Owner} : file' = [file EXCEPT ![path].owner = uid]
      BY <2>3 DEF ChangeOwner
    <3>2. path \in Files
      BY <2>3 DEF ChangeOwner
    <3>3. \A f \in Files :
            /\ file'[f] \in FileStates /\ file'[f].gen = file[f].gen /\ file'[f].whole = file[f].whole
      BY <1>1, <2>1, <3>1, <3>2 DEF FileStates, BundleInv, BundleTypeOK
    <3>4. QED
      BY <1>1, <3>3, BundleAssumption DEF Complete, FileStates
  <2>4. ASSUME NEW f \in Files, RemoveFile(f), file' # file PROVE FALSE
    BY <1>1, <2>1, <2>4 DEF RemoveFile, GoTo, BundleInv, Clearing, End, disk
  <2>5. ASSUME OpenFile, file' # file PROVE FALSE
    <3>1. pc = "write" /\ todo # {} /\ ~Opened(NextFile)
      BY <2>5 DEF OpenFile
    <3>2. QED
      BY <1>1, <2>1, <3>1, NextFileIs DEF Present
  <2>6. ASSUME FillFile PROVE Complete(g)'
    <3>1. file' = [file EXCEPT ![NextFile].whole = TRUE] /\ NextFile \in Files
      BY <1>1, <2>6, NextFileIs DEF FillFile
    <3>2. \A f \in Files : file'[f] \in FileStates /\ file'[f].gen = file[f].gen /\ file'[f].whole
      BY <1>1, <2>1, <3>1 DEF FileStates, BundleInv, BundleTypeOK, Complete
    <3>3. QED
      BY <1>1, <3>2, BundleAssumption DEF Complete, FileStates
  <2>7. QED
    BY <1>1, <2>2, <2>3, <2>4, <2>5, <2>6
       DEF Next, Work, Start, Inspect, Conclude, Reclaim, MintAuthority, HandOver, Finish, Crash,
           Expire, disk, vars
<1>2. BundleInv /\ [Next]_vars
        => [\A g \in Generations \ expired : (Complete(g) /\ ~force') => Complete(g)']_vars
  BY <1>1
<1>3. QED
  BY <1>2, BundleInvariant, PTL DEF Spec, ValidAuthorityKept

-----------------------------------------------------------------------------
(***************************************************************************)
(* Why a run comes to an end.  Each of its steps takes it to a later phase *)
(* or shortens what the phase has left to do, and there is always a next   *)
(* step.                                                                   *)
(***************************************************************************)
RunInv ==
  /\ todo \subseteq Files \cup {Directory}
  /\ pc = "restore" => verdict \in {"usable", "missing", "unusable"}
  /\ force => pc \in {"reclaim", "clear", "write", "hand_over"}
  /\ crashes \in Nat

LEMMA RunStepInv == BundleInv /\ RunInv /\ [Next]_vars => RunInv'
<1> SUFFICES ASSUME BundleInv, RunInv, [Next]_vars PROVE RunInv'
  OBVIOUS
<1>0. Present \subseteq Files
  BY DEF Present
<1>1. ASSUME NEW f \in BOOLEAN, Start(f) PROVE RunInv'
  BY <1>0, <1>1 DEF Start, RunInv
<1>2. CASE Inspect
  BY <1>0, <1>2 DEF Inspect, Verdict, ChangeOwners, GoTo, RunInv
<1>3. CASE Conclude
  BY <1>3 DEF Conclude, GoTo, End, RunInv
<1>4. CASE Reclaim \/ MintAuthority \/ HandOver \/ Finish
  BY <1>0, <1>4 DEF Reclaim, MintAuthority, HandOver, Finish, ChangeOwners, GoTo, End, RunInv
<1>5. ASSUME NEW path \in Files \cup {Directory}, ChangeOwner(path) PROVE RunInv'
  BY <1>5 DEF ChangeOwner, GoTo, RunInv
<1>6. ASSUME NEW f \in Files, RemoveFile(f) PROVE RunInv'
  BY <1>6 DEF RemoveFile, GoTo, End, RunInv
<1>7. CASE OpenFile \/ FillFile
  <2>1. /\ pc = "write" /\ crashes' = crashes
        /\ \/ pc' = "write" /\ todo' \subseteq todo /\ UNCHANGED <<force, verdict>>
           \/ pc' = "idle" /\ todo' = {} /\ force' = FALSE
    BY <1>7 DEF OpenFile, FillFile, GoTo, End
  <2>2. QED
    BY <2>1 DEF RunInv
<1>8. CASE Crash
  BY <1>8 DEF Crash, RunInv
<1>9. ASSUME NEW g \in Generations, Expire(g) PROVE RunInv'
  BY <1>9 DEF Expire, RunInv
<1>10. CASE UNCHANGED vars
  BY <1>10 DEF vars, RunInv
<1>11. QED
  BY <1>1, <1>2, <1>3, <1>4, <1>5, <1>6, <1>7, <1>8, <1>9, <1>10 DEF Next, Work

LEMMA RunInvariant == Spec => [](BundleInv /\ RunInv)
<1>1. Init => RunInv
  BY DEF Init, RunInv
<1>2. QED
  BY <1>1, BundleInitInv, BundleStepInv, RunStepInv, PTL DEF Spec

\* A run with -force that is not broken off replaces the bundle, whatever it
\* finds: no owner, leftover or expired CA makes it give up, which is what the
\* advice to rotate with -force relies on (main.go:58).
ForcedRunWrites ==
  [][(force /\ pc # "idle" /\ pc' = "idle" /\ crashes' = crashes) => outcome' = "written"]_vars

\* For bundles of any size, since a forced run neither inspects nor is shut out.
THEOREM RotationTheorem == Spec => ForcedRunWrites
<1>1. ASSUME BundleInv, BundleInv', RunInv, [Next]_vars,
             force, pc # "idle", pc' = "idle", crashes' = crashes
      PROVE  outcome' = "written"
  <2>1. pc \in {"reclaim", "clear", "write", "hand_over"} /\ outcome' # "denied"
    BY <1>1 DEF RunInv, BundleInv, NeverDenied
  <2>2. CASE Work
    <3>1. ASSUME NEW path \in Files \cup {Directory}, ChangeOwner(path) PROVE FALSE
      BY <1>1, <3>1 DEF ChangeOwner, GoTo
    <3>2. ASSUME NEW f \in Files, RemoveFile(f) PROVE FALSE
      BY <1>1, <2>1, <3>2 DEF RemoveFile, GoTo, End
    <3>3. ASSUME OpenFile \/ FillFile PROVE FALSE
      BY <1>1, <2>1, <3>3 DEF OpenFile, FillFile, GoTo, End
    <3>4. ~Inspect /\ ~Conclude /\ ~Reclaim /\ ~MintAuthority /\ ~HandOver
      BY <1>1, <2>1 DEF Inspect, Conclude, Reclaim, MintAuthority, HandOver, ChangeOwners, GoTo
    <3>5. QED
      BY <2>2, <3>1, <3>2, <3>3, <3>4 DEF Work, Finish, End
  <2>3. ~Crash
    BY <1>1 DEF Crash, RunInv
  <2>4. QED
    BY <1>1, <2>2, <2>3 DEF Next, Start, Expire, vars
<1>2. QED
  BY <1>1, RunInvariant, PTL DEF Spec, ForcedRunWrites

\* How far a run is; within a phase, what is left, and to write: which files of
\* its CA are not there yet.
Phase ==
  [claim |-> 1, restore |-> 2, reclaim |-> 3, clear |-> 4, write |-> 5, hand_over |-> 6, idle |-> 7]
Unopened == {f \in Files : ~Opened(f)}

\* No step of a run takes it back: neither an inspection that finds the bundle
\* incomplete nor a file that has to be opened before it is filled.
RunsGetOn ==
  [][Work =>
       \/ Phase[pc] < Phase[pc']
       \/ pc' = pc /\ todo' \subseteq todo /\ todo' # todo
       \/ pc' = pc /\ todo' = todo /\ Unopened' \subseteq Unopened /\ Unopened' # Unopened]_vars

\* What the next step of a run needs, phase by phase.
HasNextStep ==
  /\ (pc \in {"claim", "restore", "hand_over"} /\ todo # {}) =>
       \E path \in todo : path \in Present \cup {Directory} /\ (Directory \in todo => path = Directory)
  /\ (pc = "restore" /\ todo = {}) => verdict \in {"usable", "missing", "unusable"}
  /\ pc = "clear" => dir = Job /\ todo \subseteq Files /\ (todo = {} => Generations \ OnDisk # {})
  /\ (pc = "write" /\ todo # {}) =>
       NextFile \in Files /\ (~Opened(NextFile) => file[NextFile] = Absent /\ dir = Job)

LEMMA FilesFinite == IsFiniteSet(Files \cup {Directory})
<1> DEFINE n == Len(FileOrder)
<1>1. FileOrder \in [1..n -> Files] /\ n \in Nat /\ DOMAIN FileOrder = 1..n
  BY BundleAssumption
<1>2. FileOrder \in Surjection(1..n, Files)
  <2>1. \A f \in Files : \E k \in 1..n : FileOrder[k] = f
    BY <1>1 DEF Files
  <2>2. QED
    BY <1>1, <2>1 DEF Surjection
<1>3. IsFiniteSet(Files)
  BY <1>1, <1>2, FS_NatSurjection DEF ExistsSurjection
<1>4. QED
  BY <1>3, FS_AddElement

LEMMA RunHasNextStep ==
  ASSUME BundleInv, RunInv
  PROVE  HasNextStep /\ IsFiniteSet(todo) /\ IsFiniteSet(Unopened)
<1>1. ASSUME pc \in {"claim", "restore", "hand_over"}, todo # {}
      PROVE  \E path \in todo :
               path \in Present \cup {Directory} /\ (Directory \in todo => path = Directory)
  BY <1>1 DEF BundleInv, ChangingOwners
<1>2. (pc = "restore" /\ todo = {}) => verdict \in {"usable", "missing", "unusable"}
  BY DEF RunInv
<1>3. ASSUME pc = "clear"
      PROVE  dir = Job /\ todo \subseteq Files /\ (todo = {} => Generations \ OnDisk # {})
  <2>1. dir = Job /\ todo \subseteq Files /\ (todo = {} => OnDisk = {})
    BY <1>3 DEF BundleInv, Clearing, OnDisk
  <2>2. Generations # {}
    <3>1. Len(FileOrder) \in Nat /\ Cardinality(Generations) > Len(FileOrder)
      BY BundleAssumption
    <3>2. Cardinality({}) = 0
      BY FS_EmptySet
    <3>3. QED
      BY <3>1, <3>2
  <2>3. QED
    BY <2>1, <2>2
<1>4. ASSUME pc = "write", todo # {}
      PROVE  NextFile \in Files /\ (~Opened(NextFile) => file[NextFile] = Absent /\ dir = Job)
  <2>1. dir = Job
    BY <1>4 DEF BundleInv, Writing
  <2>2. QED
    BY <1>4, <2>1, NextFileIs
<1>5. HasNextStep
  BY <1>1, <1>2, <1>3, <1>4 DEF HasNextStep
<1>6. todo \subseteq Files \cup {Directory} /\ Unopened \subseteq Files \cup {Directory}
  BY DEF RunInv, Unopened
<1>7. QED
  BY <1>5, <1>6, FilesFinite, FS_Subset

\* For bundles of any size: a run always has a next step, whose file, owner or
\* fresh CA is there, and gets on with each step it takes.  What is left is
\* finite and the phases are few, so that a run that goes on ends.
THEOREM RunEndsTheorem ==
  Spec => /\ [](HasNextStep /\ IsFiniteSet(todo) /\ IsFiniteSet(Unopened))
          /\ RunsGetOn
<1>1. ASSUME BundleInv, BundleInv', Work
      PROVE  \/ Phase[pc] < Phase[pc']
             \/ pc' = pc /\ todo' \subseteq todo /\ todo' # todo
             \/ pc' = pc /\ todo' = todo /\ Unopened' \subseteq Unopened /\ Unopened' # Unopened
  <2> DEFINE Goal == \/ Phase[pc] < Phase[pc']
                     \/ pc' = pc /\ todo' \subseteq todo /\ todo' # todo
                     \/ /\ pc' = pc /\ todo' = todo
                        /\ Unopened' \subseteq Unopened /\ Unopened' # Unopened
  <2>1. ASSUME NEW path \in Files \cup {Directory}, ChangeOwner(path) PROVE Goal
    BY <2>1 DEF ChangeOwner, GoTo
  <2>2. ASSUME NEW f \in Files, RemoveFile(f) PROVE Goal
    BY <2>2 DEF RemoveFile, GoTo, End, Phase
  <2>3. CASE Inspect \/ Conclude \/ Reclaim
    BY <2>3 DEF Inspect, Conclude, Reclaim, ChangeOwners, GoTo, End, Phase
  <2>4. CASE MintAuthority \/ HandOver \/ Finish
    BY <2>4 DEF MintAuthority, HandOver, Finish, ChangeOwners, GoTo, End, Phase
  <2>5. CASE FillFile
    BY <1>1, <2>5, NextFileIs DEF FillFile, GoTo
  <2>6. CASE OpenFile
    <3>1. pc = "write" /\ NextFile \in todo /\ NextFile \in Files /\ ~Opened(NextFile)
      BY <1>1, <2>6, NextFileIs DEF OpenFile
    <3>2. dir = Job /\ file[NextFile] = Absent
      BY <1>1, <2>6, <3>1, NextFileIs DEF BundleInv, Writing
    <3>3. /\ file' = [file EXCEPT ![NextFile] = [gen |-> gen, whole |-> FALSE, owner |-> Job]]
          /\ pc' = "write" /\ todo' = todo /\ gen' = gen
      BY <2>6, <3>2 DEF OpenFile, GoTo
    <3>4. file'[NextFile] # Absent /\ file'[NextFile].gen = gen
      <4>1. gen \in Generations /\ file'[NextFile] = [gen |-> gen, whole |-> FALSE, owner |-> Job]
        BY <1>1, <3>1, <3>3 DEF BundleInv, BundleTypeOK, Writing
      <4>2. file'[NextFile] \in FileStates
        BY <4>1 DEF FileStates
      <4>3. Absent \notin FileStates
        BY BundleAssumption DEF FileStates
      <4>4. file'[NextFile] # Absent
        BY <4>2, <4>3
      <4>5. QED
        BY <4>1, <4>4
    <3>5. \A h \in Files : h # NextFile => file'[h] = file[h]
      BY <1>1, <3>1, <3>3 DEF BundleInv, BundleTypeOK
    <3>6. Unopened' = Unopened \ {NextFile}
      BY <3>1, <3>3, <3>4, <3>5 DEF Unopened, Opened
    <3>7. QED
      BY <3>1, <3>3, <3>6 DEF Unopened
  <2>7. QED
    BY <1>1, <2>1, <2>2, <2>3, <2>4, <2>5, <2>6 DEF Work
<1>2. BundleInv /\ BundleInv' /\ [Next]_vars =>
        [Work =>
           \/ Phase[pc] < Phase[pc']
           \/ pc' = pc /\ todo' \subseteq todo /\ todo' # todo
           \/ pc' = pc /\ todo' = todo /\ Unopened' \subseteq Unopened /\ Unopened' # Unopened]_vars
  BY <1>1
<1>3. BundleInv /\ RunInv => HasNextStep /\ IsFiniteSet(todo) /\ IsFiniteSet(Unopened)
  BY RunHasNextStep
<1>4. QED
  BY <1>2, <1>3, RunInvariant, PTL DEF Spec, RunsGetOn
=============================================================================
