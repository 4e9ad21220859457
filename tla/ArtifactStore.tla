---------------------------- MODULE ArtifactStore ---------------------------
(* The artifact directory of the report service and the operations on it,    *)
(* one step for every change of the file system another process can see.     *)
(* Operations on one report exclude each other with a flock, which the       *)
(* kernel gives back when its process ends; reading takes no lock.           *)
EXTENDS SealedInput

CONSTANTS Reports, Threads

VARIABLES
  dir,   \* report id -> its directory and the contents of its two files
  lock   \* report id -> the thread that holds the flock of .<id>.lock, or NULL

storeVars == << dir, lock >>

Absent == [exists |-> FALSE, evidence |-> NULL, report |-> NULL]

StoreInit(published) ==
  /\ dir = [r \in Reports |-> [exists |-> published[r] # NULL, evidence |-> published[r],
                               report |-> published[r]]]
  /\ lock = [r \in Reports |-> NULL]

Complete(r) == dir[r].exists /\ dir[r].evidence # NULL /\ dir[r].report # NULL

(* A directory that an interrupted delete left behind.                       *)
Remnant(r) == dir[r].exists /\ ~Complete(r)

-----------------------------------------------------------------------------
_open_report_lock(t, r) == lock[r] = NULL /\ lock' = [lock EXCEPT ![r] = t]

Unlock(t) == lock' = [r \in Reports |-> IF lock[r] = t THEN NULL ELSE lock[r]]

(* publish_artifact: the bundle is staged and verified outside the tree, and *)
(* one rename makes it visible.                                              *)
RenameStaging(r, b) ==
  /\ ~dir[r].exists
  /\ dir' = [dir EXCEPT ![r] = [exists |-> TRUE, evidence |-> b, report |-> b]]

(* delete_published: evidence.zip, report.json and the directory, in this    *)
(* order; a subset an earlier delete left is accepted.                       *)
Mut_Deletable(r) == Complete(r)

Deletable(r) == dir[r].exists

UnlinkEvidence(r) == dir' = [dir EXCEPT ![r].evidence = NULL]
UnlinkReport(r) == dir' = [dir EXCEPT ![r].report = NULL]
RemoveDirectory(r) == dir' = [dir EXCEPT ![r] = Absent]

(* read_published compares report.json with the report of the bundle it has  *)
(* verified before.                                                          *)
Mut_SameReport(r, built, bytes) == built.report_id = r

SameReport(r, built, bytes) == built.report_id = r /\ bytes = built
=============================================================================
