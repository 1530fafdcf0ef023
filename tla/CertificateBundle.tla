------------------------- MODULE CertificateBundle --------------------------
(***************************************************************************)
(* The job that creates the local mTLS bundle (cmd/grpccerts) on a volume  *)
(* that outlives it.  The job runs as Job without CAP_DAC_OVERRIDE: it may *)
(* change owners, but it reads, writes and removes only what its own uid   *)
(* may.  The directory is the root of a volume, which everybody may list   *)
(* and only its owner may change; files have mode 0600.                    *)
(*                                                                         *)
(* A run changes the volume one system call at a time and may end after    *)
(* any of them.  The next run finds what is left.  After a failed run      *)
(* up-local.ps1, or a person, runs the job with -force; a deployment       *)
(* never does.                                                             *)
(***************************************************************************)
EXTENDS Naturals, Sequences, FiniteSets

CONSTANTS FileOrder,     \* the files, in the order they are written and inspected
          Keys,          \* the private keys among them
          Generations,   \* names for certificate authorities
          Job, Owner,    \* uids: of the job, and of -owner
          Directory, Absent, NoGeneration,
          MaxCrashes     \* bound on runs that end early

Files == {FileOrder[n] : n \in DOMAIN FileOrder}

\* The one of these files that comes first in the order.
Earliest(files) ==
  LET places == {n \in DOMAIN FileOrder : FileOrder[n] \in files}
  IN  FileOrder[CHOOSE n \in places : \A k \in places : n <= k]

ASSUME BundleAssumption ==
  /\ FileOrder \in Seq(Files)
  /\ \A m, n \in DOMAIN FileOrder : FileOrder[m] = FileOrder[n] => m = n
  /\ Keys \subseteq Files
  /\ Directory \notin Files
  /\ Job # Owner
  /\ Cardinality(Generations) > Len(FileOrder)   \* one is always fresh
  /\ NoGeneration \notin Generations
  /\ Absent \notin [gen : Generations, whole : BOOLEAN, owner : {Job, Owner}]
  /\ MaxCrashes \in Nat

VARIABLES
  dir,       \* owner of the directory
  file,      \* per file: its CA, whether it is written out, and its owner
  expired,   \* generations older than a year
  pc, force, \* the run: its phase, and its -force flag
  todo,      \* what its phase has left to do
  verdict,   \* of the inspection
  gen,       \* the CA it creates
  outcome,   \* of the last run
  crashes

vars == <<dir, file, expired, pc, force, todo, verdict, gen, outcome, crashes>>
disk == <<dir, file, expired>>

Present == {f \in Files : file[f] # Absent}
OnDisk == {file[f].gen : f \in Present}

Init ==
  /\ dir = Job
  /\ file = [f \in Files |-> Absent]
  /\ expired = {}
  /\ pc = "idle" /\ force = FALSE /\ todo = {} /\ verdict = "none" /\ gen = NoGeneration
  /\ outcome = "none"
  /\ crashes = 0

-----------------------------------------------------------------------------
\* How a step leaves the run.

GoTo(phase, work) == pc' = phase /\ todo' = work /\ UNCHANGED <<force, outcome, crashes>>

End(result) ==
  /\ pc' = "idle" /\ force' = FALSE /\ todo' = {} /\ verdict' = "none" /\ gen' = NoGeneration
  /\ outcome' = result
  /\ UNCHANGED crashes

ChangeOwners(phase) == GoTo(phase, {Directory} \cup Present)

-----------------------------------------------------------------------------
\* Mutant: -force has no effect on a bundle that exists.
StartUnforced(f) ==
  /\ pc = "idle"
  /\ f => outcome \in {"failed", "denied"}
  /\ force' = f
  /\ IF Present # {}
     THEN pc' = "claim" /\ todo' = {Directory} \cup Present
     ELSE pc' = "reclaim" /\ todo' = {}
  /\ UNCHANGED <<disk, verdict, gen, outcome, crashes>>

\* A run inspects what it finds unless -force tells it to replace it.
Start(f) ==
  /\ pc = "idle"
  /\ f => outcome \in {"failed", "denied"}
  /\ force' = f
  /\ IF Present # {} /\ ~f
     THEN pc' = "claim" /\ todo' = {Directory} \cup Present
     ELSE pc' = "reclaim" /\ todo' = {}
  /\ UNCHANGED <<disk, verdict, gen, outcome, crashes>>

\* setBundleOwner: the directory, then the files it lists.
ChangeOwner(path) ==
  LET uid == IF pc = "claim" THEN Job ELSE Owner
  IN  /\ pc \in {"claim", "restore", "hand_over"}
      /\ path \in todo
      /\ IF path = Directory
         THEN dir' = uid /\ UNCHANGED file
         ELSE /\ Directory \notin todo
              /\ file' = [file EXCEPT ![path].owner = uid]
              /\ UNCHANGED dir
      /\ GoTo(pc, todo \ {path})
      /\ UNCHANGED <<expired, verdict, gen>>

\* The first file the inspection cannot use decides.
Verdict(bad) ==
  IF bad = {} THEN "usable" ELSE IF file[Earliest(bad)] = Absent THEN "missing" ELSE "unusable"

Readable(f) == file[f] # Absent /\ file[f].owner = Job

\* Mutant: the contents of private keys are not looked at.
UsableWithoutKeys(f) ==
  Readable(f) /\ (f \notin Keys => file[f].whole /\ file[f].gen \notin expired)

\* A file is PEM; a certificate is also valid for a while.
Usable(f) ==
  Readable(f) /\ file[f].whole /\ (f \notin Keys => file[f].gen \notin expired)

Inspect ==
  /\ pc = "claim"
  /\ todo = {}
  /\ verdict' = Verdict({f \in Files : ~Usable(f)})
  /\ ChangeOwners("restore")
  /\ UNCHANGED <<disk, gen>>

\* Mutant: a usable bundle is replaced as well.
ConcludeReplacing ==
  /\ pc = "restore"
  /\ todo = {}
  /\ \/ verdict = "unusable" /\ End("failed")
     \/ verdict # "unusable" /\ GoTo("reclaim", {}) /\ UNCHANGED <<verdict, gen>>
  /\ UNCHANGED disk

\* A usable bundle is reused, an incomplete one replaced; for any other a
\* person has to decide.
Conclude ==
  /\ pc = "restore"
  /\ todo = {}
  /\ \/ verdict = "usable" /\ End("reused")
     \/ verdict = "unusable" /\ End("failed")
     \/ verdict = "missing" /\ GoTo("reclaim", {}) /\ UNCHANGED <<verdict, gen>>
  /\ UNCHANGED disk

-----------------------------------------------------------------------------
\* Mutant: the files are left to be overwritten.
ReclaimKeeping ==
  /\ pc = "reclaim"
  /\ dir' = Job
  /\ GoTo("clear", {})
  /\ UNCHANGED <<file, expired, verdict, gen>>

Reclaim ==
  /\ pc = "reclaim"
  /\ dir' = Job
  /\ GoTo("clear", Present)
  /\ UNCHANGED <<file, expired, verdict, gen>>

RemoveFile(f) ==
  /\ pc = "clear"
  /\ f \in todo
  /\ IF dir = Job
     THEN /\ file' = [file EXCEPT ![f] = Absent]
          /\ GoTo("clear", todo \ {f})
          /\ UNCHANGED <<dir, expired, verdict, gen>>
     ELSE End("denied") /\ UNCHANGED disk

\* A CA nobody has seen, valid from now on.
MintAuthority ==
  /\ pc = "clear"
  /\ todo = {}
  /\ \E g \in Generations \ OnDisk : gen' = g /\ expired' = expired \ {g}
  /\ GoTo("write", Files)
  /\ UNCHANGED <<dir, file, verdict>>

NextFile == Earliest(todo)
Opened(f) == file[f] # Absent /\ file[f].gen = gen

\* WriteFile creates the file, or truncates one the job owns,
OpenFile ==
  /\ pc = "write"
  /\ todo # {}
  /\ ~Opened(NextFile)
  /\ IF IF file[NextFile] = Absent THEN dir = Job ELSE file[NextFile].owner = Job
     THEN /\ file' = [file EXCEPT ![NextFile] = [gen |-> gen, whole |-> FALSE, owner |-> Job]]
          /\ GoTo("write", todo)
          /\ UNCHANGED <<dir, expired, verdict, gen>>
     ELSE End("denied") /\ UNCHANGED disk

\* and then writes it.
FillFile ==
  /\ pc = "write"
  /\ todo # {}
  /\ Opened(NextFile)
  /\ file' = [file EXCEPT ![NextFile].whole = TRUE]
  /\ GoTo("write", todo \ {NextFile})
  /\ UNCHANGED <<dir, expired, verdict, gen>>

HandOver ==
  /\ pc = "write"
  /\ todo = {}
  /\ ChangeOwners("hand_over")
  /\ UNCHANGED <<disk, verdict, gen>>

Finish ==
  /\ pc = "hand_over"
  /\ todo = {}
  /\ End("written")
  /\ UNCHANGED disk

-----------------------------------------------------------------------------
\* A run is killed, or a system call fails for a reason of its own.
Crash ==
  /\ pc # "idle"
  /\ crashes < MaxCrashes
  /\ crashes' = crashes + 1
  /\ outcome' = "failed"
  /\ pc' = "idle" /\ force' = FALSE /\ todo' = {} /\ verdict' = "none" /\ gen' = NoGeneration
  /\ UNCHANGED disk

\* A year passes.
Expire(g) ==
  /\ pc = "idle"
  /\ g \in OnDisk \ expired
  /\ expired' = expired \cup {g}
  /\ UNCHANGED <<dir, file, pc, force, todo, verdict, gen, outcome, crashes>>

Work ==
  \/ \E path \in Files \cup {Directory} : ChangeOwner(path)
  \/ Inspect \/ Conclude
  \/ Reclaim \/ \E f \in Files : RemoveFile(f)
  \/ MintAuthority \/ OpenFile \/ FillFile
  \/ HandOver \/ Finish

Next ==
  \/ \E f \in BOOLEAN : Start(f)
  \/ Work
  \/ Crash
  \/ \E g \in Generations : Expire(g)

Spec == Init /\ [][Next]_vars

\* A run goes on; who is told to rotate with -force (main.go:58) does so in the
\* end, even if deployments keep starting runs of their own.
FairSpec == Spec /\ WF_vars(Work) /\ SF_vars(Start(TRUE))

-----------------------------------------------------------------------------
Complete(g) == \A f \in Files : file[f] # Absent /\ file[f].whole /\ file[f].gen = g

\* Whatever earlier runs left behind, a run that reports success leaves every
\* file written out, of one CA, and owned by the uid the servers run as.
SuccessIsServable ==
  (pc = "idle" /\ outcome \in {"reused", "written"}) =>
    /\ \E g \in Generations : Complete(g)
    /\ dir = Owner
    /\ \A f \in Files : file[f].owner = Owner

\* The job is never shut out of what an earlier run gave away (main.go:208).
NeverDenied == outcome # "denied"

\* Without -force a run keeps a complete CA that is still valid: Identity may be
\* serving with it (main.go:178).
ValidAuthorityKept ==
  [][\A g \in Generations \ expired : (Complete(g) /\ ~force') => Complete(g)']_vars

\* A failed run is not the end: some later run succeeds.
FailureIsRepaired == outcome = "failed" ~> outcome \in {"reused", "written"}
=============================================================================
