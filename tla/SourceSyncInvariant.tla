------------------------ MODULE SourceSyncInvariant ------------------------
(***************************************************************************)
(* The inductive invariant of SourceSync: what the pool knows while it runs,   *)
(* that a commit runs in states StorageTxn's own invariant describes, and how    *)
(* the versions on the servers, on the disk and in state.json are related.       *)
(***************************************************************************)
EXTENDS SourceSync, StorageTxnInvariant

Stages == {"queued"} \cup Working \cup Ended

Jobs == [at : Stages, attempt : 1..Attempts, sum : 0..MaxVersion, got : 0..MaxVersion]

SyncTypeOK ==
  /\ had \subseteq Source
  /\ server \in [Source -> 1..MaxVersion]
  /\ etag \in [Source -> 0..MaxVersion]
  /\ copy \in [Source -> 0..MaxVersion]
  /\ wanted \subseteq Source
  /\ job \in [Source -> Jobs]
  /\ archives \subseteq Source
  /\ cancelled \in BOOLEAN
  /\ doubtful \subseteq Source
  /\ syncs \in Nat

(* Before the commit its variables are as a commit finds them, but for the plan.       *)
RefreshInv ==
  Refreshing =>
    /\ data = [i \in Source |-> Before(i)]
    /\ promotes = {} /\ removes = {} /\ spare = {} /\ todo = {} /\ logged = {} /\ broken = {}
    /\ state = "old" /\ verdict = "open" /\ current = NoSource

(* Which files each stage of a job has under .update.                               *)
FilesInv ==
  /\ Refreshing =>
       /\ temps = {i \in Source \ MaxMind : job[i].at = "body"} \cup In("check") \cup In("changed")
       /\ archives = {i \in MaxMind : job[i].at \in {"body", "unpack"}}
  /\ step \notin {"refresh", "crashed", "refused"} => archives = {}

(* A job without a result was cut short by the end of the program.                      *)
JobsInv ==
  \A i \in Source :
    /\ job[i].at = "unwanted" <=> i \notin wanted
    /\ job[i].at \in {"skipped", "cut"} => cancelled
    /\ job[i].at = "sleep" => job[i].attempt < Attempts
    /\ job[i].at = "unmodified" => i \in had /\ job[i].got = etag[i]
    /\ job[i].at \in {"body", "unpack", "check", "changed", "unmodified"} => job[i].got # 0

(* The commit works on the results.                                             *)
ResultsInv ==
  step \in Steps \ {"crashed", "ended"} \/ verdict = "done" =>
    /\ promotes = In("changed")
    /\ removes \subseteq In("failed")
    /\ AllEnded

PromotesInv == promotes \subseteq In("changed")

(* Versions only grow; a copy is at least as new as the ETag, and was there when the      *)
(* source was asked, unless a failed commit put it back under a newer state.json.        *)
VersionInv ==
  \A i \in Source :
    /\ etag[i] <= server[i] /\ copy[i] <= server[i] /\ job[i].got <= server[i]
    /\ i \in had <=> copy[i] # 0
    /\ i \in had \ doubtful => etag[i] <= copy[i]
    /\ job[i].got # 0 => etag[i] <= job[i].got /\ copy[i] <= job[i].got

(* What is in the data directory came from an earlier sync or from this one's results.     *)
DataInv ==
  \A i \in Source :
    /\ data[i] = "old" => i \in had
    /\ data[i] = "new" => i \in promotes

(* Under a new state.json a result is not in place only when it was rolled back late.      *)
StaleInv ==
  state = "new" =>
    /\ \A i \in promotes : data[i] = "new" \/ i \in doubtful
    /\ step \in Backward => promotes \subseteq doubtful

CommitInv == ~Refreshing /\ step # "refused" => TypeOK /\ IInv

SyncInv ==
  /\ SyncTypeOK
  /\ RefreshInv
  /\ FilesInv
  /\ JobsInv
  /\ ResultsInv
  /\ PromotesInv
  /\ VersionInv
  /\ DataInv
  /\ StaleInv
  /\ CommitInv
  /\ OldCopyKept
=============================================================================
