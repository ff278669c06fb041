---------------------------- MODULE RefreshPool ----------------------------
(***************************************************************************)
(* The workers that refresh the sources of one sync (src/internal/update:      *)
(* refresh.go, http.go, temp.go, archive.go, maxmind.go, content.go), up to     *)
(* the commit, which is StorageTxn's.                                        *)
(*                                                                         *)
(* A producer hands the jobs to a few workers.  A job asks its server, writes   *)
(* what it answers under .update, checks it, and tries again a few times.  The   *)
(* servers publish newer versions all the while; the program may be told to     *)
(* stop at any time.                                                         *)
(*                                                                         *)
(* What a body holds is a version, and with it any of the Archives.  Whether     *)
(* its contents are refused, and how a request fails, is a choice.  A file whose *)
(* removal fails has no name left in the program, and the model forgets it.    *)
(***************************************************************************)
EXTENDS StorageTxn, Archive, FiniteSets

CONSTANTS
  MaxMind,       \* the sources that are archives with a checksum to fetch first
  Directories,   \* those that are archives, extracted as they come
  Required,      \* the sources the dataset cannot load without
  WorkerLimit,   \* 4 in the code
  Attempts,      \* 3 in the code: the first and two short retries
  MaxVersion     \* bound: the versions of a source

ASSUME PoolAssumption ==
  /\ MaxMind \subseteq Source /\ Directories \subseteq Source \ MaxMind
  /\ Required \subseteq Source
  /\ WorkerLimit \in Nat \ {0} /\ Attempts \in Nat \ {0} /\ MaxVersion \in Nat \ {0}

VARIABLES
  server,      \* the version each server has
  etag,        \* the version whose ETag state.json holds, 0 before the first download
  copy,        \* the version of the artifact that is there, or was, when the sync starts
  wanted,      \* the sources to refresh
  job,         \* how far the job of each source is
  archives,    \* the sources whose MaxMind archive is under .update
  cancelled    \* the context is done

inputs == <<server, etag, copy, wanted>>
pool   == <<job, archives, cancelled>>
commit == <<plan, data, spare, state, step, current, todo, logged, broken, verdict>>

Working  == {"checksum", "request", "body", "unpack", "check", "sleep"}
Answered == {"changed", "unmodified", "failed"}
Ended    == Answered \cup {"unwanted", "skipped", "cut", "fatal"}

(* attempt counts from 1; sum is the version of the checksum fetched, got that of   *)
(* the last answer.                                                            *)
Job(at) == [at |-> at, attempt |-> 1, sum |-> 0, got |-> 0]

NewJobs(ids) == [i \in Source |-> IF i \in ids THEN Job("queued") ELSE Job("unwanted")]

In(stage) == {i \in Source : job[i].at = stage}

Refreshing == step = "refresh"

-----------------------------------------------------------------------------
(* The jobs *)

FirstStage(i) == IF i \in MaxMind THEN "checksum" ELSE "request"

(* A worker takes a job; both may also happen when the context is done.            *)
Deliver(i) ==
  /\ Refreshing
  /\ job[i].at = "queued"
  /\ Cardinality({w \in Source : job[w].at \in Working}) < WorkerLimit
  /\ job' = [job EXCEPT ![i].at = FirstStage(i)]
  /\ UNCHANGED <<commit, inputs, temps, archives, cancelled>>

(* The producer sees that the context is done: the jobs left have no result.         *)
StopProducer ==
  /\ Refreshing /\ cancelled
  /\ In("queued") # {}
  /\ job' = [i \in Source |-> IF job[i].at = "queued" THEN Job("skipped") ELSE job[i]]
  /\ UNCHANGED <<commit, inputs, temps, archives, cancelled>>

(* A faulty variant: a job that can be tried again is, as often as it takes.         *)
FailsForEver(i, how) ==
  IF how = "fatal" THEN Job("fatal")
  ELSE IF how = "soon" THEN [job[i] EXCEPT !.at = "sleep", !.attempt = 1]
  ELSE [job[i] EXCEPT !.at = "failed"]

(* An attempt fails: with an error that ends the program, with one worth a short     *)
(* retry, or with one that is left to the next sync.  A request that was cut short     *)
(* because the context is done looks like a failure of the network.                 *)
Fails(i, how) ==
  IF how = "fatal" THEN Job("fatal")
  ELSE IF how = "soon" /\ job[i].attempt < Attempts THEN [job[i] EXCEPT !.at = "sleep"]
  ELSE IF how = "soon" /\ cancelled THEN Job("cut")
  ELSE [job[i] EXCEPT !.at = "failed"]

(* sleepOrCancel: the timer or the context, whichever select takes.                 *)
Retry(i) ==
  /\ Refreshing
  /\ job[i].at = "sleep"
  /\ \/ job' = [job EXCEPT ![i] = [Job(FirstStage(i)) EXCEPT !.attempt = job[i].attempt + 1]]
     \/ cancelled /\ job' = [job EXCEPT ![i] = Job("fatal")]
  /\ UNCHANGED <<commit, inputs, temps, archives, cancelled>>

FetchChecksum(i) ==
  /\ Refreshing
  /\ job[i].at = "checksum"
  /\ job' = [job EXCEPT ![i].at = "request", ![i].sum = server[i]]
  /\ UNCHANGED <<commit, inputs, temps, archives, cancelled>>

(* No credentials, an invalid checksum, a status, or the network.                   *)
RequestFails(i) ==
  /\ Refreshing
  /\ job[i].at \in {"checksum", "request"}
  /\ \E how \in {"soon", "later"} : job' = [job EXCEPT ![i] = Fails(i, how)]
  /\ UNCHANGED <<commit, inputs, temps, archives, cancelled>>

(* 304: the preconditions are sent only for a source with an artifact.               *)
NotModified(i) ==
  /\ Refreshing
  /\ job[i].at = "request"
  /\ i \in had /\ etag[i] = server[i]
  /\ job' = [job EXCEPT ![i] = [Job("unmodified") EXCEPT !.got = server[i]]]
  /\ UNCHANGED <<commit, inputs, temps, archives, cancelled>>

(* 200: a file is created for the body.  Not every server heeds the preconditions.     *)
OK(i) ==
  /\ Refreshing
  /\ job[i].at = "request"
  /\ job' = [job EXCEPT ![i].at = "body", ![i].got = server[i]]
  /\ IF i \in MaxMind
     THEN archives' = archives \cup {i} /\ UNCHANGED temps
     ELSE temps' = temps \cup {i} /\ UNCHANGED archives
  /\ UNCHANGED <<commit, inputs, cancelled>>

(* What can come of an archive, and of what is written as it comes: the limit on its     *)
(* bytes, the network.  The local disk may fail in each case.                      *)
DirOutcomes    == {Outcome(ExtractTarGzDir(entries)) : entries \in Archives}
FileOutcomes   == {Outcome(ExtractTarGzFile(entries)) : entries \in Archives}
BodyOutcomes(i) == IF i \in Directories THEN DirOutcomes ELSE {"ok", "soon", "later"}
Failures(outcomes) == {"soon", "later", "fatal"} \cap (outcomes \cup {"fatal"})

(* The body is written; the hash of a MaxMind archive is the one of its checksum.        *)
BodyRead(i) ==
  /\ Refreshing
  /\ job[i].at = "body"
  /\ "ok" \in BodyOutcomes(i)
  /\ i \in MaxMind => job[i].sum = job[i].got
  /\ job' = [job EXCEPT ![i].at = IF i \in MaxMind THEN "unpack" ELSE "check"]
  /\ UNCHANGED <<commit, inputs, temps, archives, cancelled>>

(* Network, size, archive or local disk; or the hash differs.                         *)
BodyFails(i) ==
  /\ Refreshing
  /\ job[i].at = "body"
  /\ \E how \in Failures(BodyOutcomes(i)) : job' = [job EXCEPT ![i] = Fails(i, how)]
  /\ temps' = temps \ {i}
  /\ archives' = archives \ {i}
  /\ UNCHANGED <<commit, inputs, cancelled>>

(* The one database of an archive is extracted, and the archive removed either way.    *)
Unpack(i) ==
  /\ Refreshing
  /\ job[i].at = "unpack"
  /\ archives' = archives \ {i}
  /\ \/ /\ "ok" \in FileOutcomes
        /\ job' = [job EXCEPT ![i].at = "check"]
        /\ temps' = temps \cup {i}
     \/ /\ \E how \in Failures(FileOutcomes) : job' = [job EXCEPT ![i] = Fails(i, how)]
        /\ UNCHANGED temps
  /\ UNCHANGED <<commit, inputs, cancelled>>

(* validateHTTPArtifact and the freshness headers let it pass.                       *)
Accept(i) ==
  /\ Refreshing
  /\ job[i].at = "check"
  /\ job' = [job EXCEPT ![i].at = "changed"]
  /\ UNCHANGED <<commit, inputs, temps, archives, cancelled>>

(* A faulty variant: a file that is refused stays where it is.                        *)
RejectOnly(i) ==
  /\ Refreshing
  /\ job[i].at = "check"
  /\ job' = [job EXCEPT ![i] = Fails(i, "later")]
  /\ UNCHANGED <<commit, inputs, temps, archives, cancelled>>

(* They do not: the file is removed.                                               *)
Reject(i) ==
  /\ Refreshing
  /\ job[i].at = "check"
  /\ job' = [job EXCEPT ![i] = Fails(i, "later")]
  /\ temps' = temps \ {i}
  /\ UNCHANGED <<commit, inputs, archives, cancelled>>

-----------------------------------------------------------------------------
(* The results *)

(* A faulty variant: the context is not looked at again.                              *)
NoErrors == In("fatal") = {}

(* refreshSources looks at the errors, then at the context.                         *)
AllHaveResults == ~cancelled /\ In("fatal") = {}

AllEnded == \A i \in Source : job[i].at \in Ended

(* All workers have returned: the results go to the commit.  A failed source that is    *)
(* optional, and has failed for long enough, is given up.                            *)
HandOver ==
  /\ Refreshing /\ AllEnded /\ AllHaveResults
  /\ promotes' = In("changed")
  /\ removes' \in SUBSET ((In("failed") \cap had) \ Required)
  /\ todo' = promotes' \cup removes'
  /\ step' = "next"
  /\ UNCHANGED <<inputs, pool, store, had, current, logged, broken, verdict>>

(* One of them ended with an error, or the context is done: refreshSources removes     *)
(* the downloads and returns an error.                                            *)
GiveUp ==
  /\ Refreshing /\ AllEnded /\ ~AllHaveResults
  /\ temps' = temps \ In("changed")
  /\ step' = "ended"
  /\ verdict' = "failed"
  /\ UNCHANGED <<inputs, pool, plan, data, spare, state, current, todo, logged, broken>>

Cancel ==
  /\ Refreshing
  /\ cancelled' = TRUE
  /\ UNCHANGED <<commit, inputs, temps, job, archives>>

Publish(i) ==
  /\ Refreshing
  /\ server[i] < MaxVersion
  /\ server' = [server EXCEPT ![i] = @ + 1]
  /\ UNCHANGED <<commit, etag, copy, wanted, temps, pool>>

PoolStep ==
  \/ \E i \in Source :
       \/ Deliver(i) \/ Retry(i) \/ FetchChecksum(i) \/ RequestFails(i)
       \/ NotModified(i) \/ OK(i) \/ BodyRead(i) \/ BodyFails(i)
       \/ Unpack(i) \/ Accept(i) \/ Reject(i)
  \/ StopProducer \/ HandOver \/ GiveUp
=============================================================================
