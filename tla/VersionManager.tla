--------------------------- MODULE VersionManager ---------------------------
(***************************************************************************)
(* The agent's VersionManager (src/pkg/agent/vm/vm.go) for one config     *)
(* file.  CmdNSFileHandler queues a download task per released version    *)
(* (merged while the same version is still queued); a worker goroutine    *)
(* pops and downloads tasks; a failed task goes to the failure queue; the *)
(* retry loop, every CheckInterval, takes the failure queue, downloads    *)
(* each distinct version once more and puts back what failed again, until *)
(* a task has failed more than MaxFailedThreshold times.  A download      *)
(* stores the body at the local "latest" path before it compares the      *)
(* digest.  The provider serves version v's content, so a version stands  *)
(* for its content; a download may fail (request, status) or deliver a    *)
(* body whose digest does not match.                                      *)
(***************************************************************************)
EXTENDS Naturals, Sequences, SequencesExt

CONSTANTS
    MaxVersion,          \* versions released to the agent: 1..MaxVersion
    MaxAdds,             \* bound on download commands received
    MaxFailedThreshold   \* MaxFailedThreshold (10)

VARIABLES
    released,   \* highest version the manager has released to this agent
    adds,       \* download commands received so far
    queue,      \* downloadQueue: versions
    inMap,      \* downloadMap: keys (versions) queued and not yet popped
    wtask,      \* the task the worker downloads ([ver, failed]), or NoTask
    failureQ,   \* failureQueue: tasks
    rstate,     \* retry loop: "sleep" or "retry"
    batch,      \* tasks taken from the failure queue, not yet retried
    doneKeys,   \* doneFailureMap of this round
    keep,       \* failuredTasks of this round
    local,      \* the local latest file: [ver, intact] (ver 0: none)
    done,       \* versions downloaded successfully at least once
    dropped     \* versions given up after too many failures

vars == <<released, adds, queue, inMap, wtask, failureQ, rstate, batch,
          doneKeys, keep, local, done, dropped>>

Versions == 1..MaxVersion
Task == [ver : Versions, failed : 0..MaxFailedThreshold]
NoTask == [ver |-> 0, failed |-> 0]

TypeOK ==
    /\ released \in 0..MaxVersion
    /\ adds \in 0..MaxAdds
    /\ queue \in Seq(Versions)
    /\ inMap \subseteq Versions
    /\ wtask \in Task \cup {NoTask}
    /\ failureQ \in Seq(Task)
    /\ rstate \in {"sleep", "retry"}
    /\ batch \in Seq(Task) /\ keep \in Seq(Task)
    /\ doneKeys \subseteq Versions
    /\ local \in [ver : 0..MaxVersion, intact : BOOLEAN]
    /\ done \subseteq Versions /\ dropped \subseteq Versions

Init ==
    /\ released = 0 /\ adds = 0
    /\ queue = <<>> /\ inMap = {} /\ wtask = NoTask
    /\ failureQ = <<>> /\ rstate = "sleep"
    /\ batch = <<>> /\ doneKeys = {} /\ keep = <<>>
    /\ local = [ver |-> 0, intact |-> TRUE]
    /\ done = {} /\ dropped = {}

-----------------------------------------------------------------------------
(* CmdNSFileHandler -> AddDownloadFileTask(ns, file, version): the next   *)
(* release, or the latest release once more (ReleaseConfig repeated after *)
(* the manager rolled back on a timeout); merged while still queued.     *)
AddDownloadFileTask(v) ==
    /\ adds < MaxAdds
    /\ v \in {released, released + 1} \ {0}
    /\ released' = IF v > released THEN v ELSE released
    /\ adds' = adds + 1
    /\ IF v \in inMap
         THEN UNCHANGED <<queue, inMap>>
         ELSE /\ queue' = Append(queue, v)
              /\ inMap' = inMap \cup {v}
    /\ UNCHANGED <<wtask, failureQ, rstate, batch, doneKeys, keep, local, done, dropped>>

(* The worker sees a non-empty queue and popDownloadTask: the head, its    *)
(* key deleted from downloadMap.                                           *)
PopDownloadTask ==
    /\ wtask = NoTask
    /\ queue # <<>>
    /\ wtask' = [ver |-> Head(queue), failed |-> 0]
    /\ queue' = Tail(queue)
    /\ inMap' = inMap \ {Head(queue)}
    /\ UNCHANGED <<released, adds, failureQ, rstate, batch, doneKeys, keep, local, done, dropped>>

(* doDownload(t) as the result it has: "ok" stores the body at latest and *)
(* notifies the updater, "fail" stores nothing, "mismatch" stores the body *)
(* and then reports ErrDigestNotMatch.                                     *)
Outcomes == {"ok", "fail", "mismatch"}

Stored(t, o) ==
    CASE o = "ok"       -> [ver |-> t.ver, intact |-> TRUE]
      [] o = "mismatch" -> [ver |-> t.ver, intact |-> FALSE]
      [] OTHER          -> local

Succeeded(t, o) == IF o = "ok" THEN done \cup {t.ver} ELSE done

Failed(t) == [t EXCEPT !.failed = @ + 1]

(* The worker's doDownload; a failed task, Failed + 1, is appended to the  *)
(* failure queue under failureLock.                                       *)
WorkerDownload ==
    /\ wtask # NoTask
    /\ \E o \in Outcomes :
          /\ local' = Stored(wtask, o)
          /\ done' = Succeeded(wtask, o)
          /\ failureQ' = IF o = "ok" THEN failureQ ELSE Append(failureQ, Failed(wtask))
    /\ wtask' = NoTask
    /\ UNCHANGED <<released, adds, queue, inMap, rstate, batch, doneKeys, keep, dropped>>

(* After CheckInterval, a non-empty failure queue is taken and emptied.    *)
RetryTake ==
    /\ rstate = "sleep"
    /\ failureQ # <<>>
    /\ batch' = failureQ
    /\ failureQ' = <<>>
    /\ doneKeys' = {}
    /\ keep' = <<>>
    /\ rstate' = "retry"
    /\ UNCHANGED <<released, adds, queue, inMap, wtask, local, done, dropped>>

(* Mutant: the drop test is off by one (Failed > MaxFailedThreshold + 1).  *)
RetryOneLateDrop ==
    /\ rstate = "retry"
    /\ batch # <<>>
    /\ LET t == Head(batch) IN
         \/ /\ t.ver \in doneKeys
            /\ UNCHANGED <<local, done, keep, dropped, doneKeys>>
         \/ /\ t.ver \notin doneKeys
            /\ doneKeys' = doneKeys \cup {t.ver}
            /\ \E o \in Outcomes :
                  /\ local' = Stored(t, o)
                  /\ done' = Succeeded(t, o)
                  /\ IF o = "ok" \/ Failed(t).failed > MaxFailedThreshold + 1
                       THEN UNCHANGED keep
                       ELSE keep' = Append(keep, Failed(t))
                  /\ dropped' = IF o # "ok" /\ Failed(t).failed > MaxFailedThreshold + 1
                                  THEN dropped \cup {t.ver} ELSE dropped
    /\ batch' = Tail(batch)
    /\ UNCHANGED <<released, adds, queue, inMap, wtask, failureQ, rstate>>

(* Mutant: a failed retry is put back without t.Failed++.                 *)
RetryOneNoCount ==
    /\ rstate = "retry"
    /\ batch # <<>>
    /\ LET t == Head(batch) IN
         \/ /\ t.ver \in doneKeys
            /\ UNCHANGED <<local, done, keep, dropped, doneKeys>>
         \/ /\ t.ver \notin doneKeys
            /\ doneKeys' = doneKeys \cup {t.ver}
            /\ \E o \in Outcomes :
                  /\ local' = Stored(t, o)
                  /\ done' = Succeeded(t, o)
                  /\ IF o = "ok" \/ Failed(t).failed > MaxFailedThreshold
                       THEN UNCHANGED keep
                       ELSE keep' = Append(keep, t)
                  /\ dropped' = IF o # "ok" /\ Failed(t).failed > MaxFailedThreshold
                                  THEN dropped \cup {t.ver} ELSE dropped
    /\ batch' = Tail(batch)
    /\ UNCHANGED <<released, adds, queue, inMap, wtask, failureQ, rstate>>

(* One task of the round: a version retried already this round is merged *)
(* (dropped from the queue); otherwise doDownload again, and a failure    *)
(* past MaxFailedThreshold gives the task up.                             *)
RetryOne ==
    /\ rstate = "retry"
    /\ batch # <<>>
    /\ LET t == Head(batch) IN
         \/ /\ t.ver \in doneKeys
            /\ UNCHANGED <<local, done, keep, dropped, doneKeys>>
         \/ /\ t.ver \notin doneKeys
            /\ doneKeys' = doneKeys \cup {t.ver}
            /\ \E o \in Outcomes :
                  /\ local' = Stored(t, o)
                  /\ done' = Succeeded(t, o)
                  /\ IF o = "ok" \/ Failed(t).failed > MaxFailedThreshold
                       THEN UNCHANGED keep
                       ELSE keep' = Append(keep, Failed(t))
                  /\ dropped' = IF o # "ok" /\ Failed(t).failed > MaxFailedThreshold
                                  THEN dropped \cup {t.ver} ELSE dropped
    /\ batch' = Tail(batch)
    /\ UNCHANGED <<released, adds, queue, inMap, wtask, failureQ, rstate>>

(* Mutant: the round assigns the failure queue instead of appending to it. *)
RetryPutOverwrite ==
    /\ rstate = "retry"
    /\ batch = <<>>
    /\ failureQ' = keep
    /\ keep' = <<>>
    /\ rstate' = "sleep"
    /\ UNCHANGED <<released, adds, queue, inMap, wtask, batch, doneKeys, local, done, dropped>>

(* The round ends: the tasks that failed again are appended to the        *)
(* failure queue (the worker may have appended meanwhile).                *)
RetryPut ==
    /\ rstate = "retry"
    /\ batch = <<>>
    /\ failureQ' = failureQ \o keep
    /\ keep' = <<>>
    /\ rstate' = "sleep"
    /\ UNCHANGED <<released, adds, queue, inMap, wtask, batch, doneKeys, local, done, dropped>>

-----------------------------------------------------------------------------
Next ==
    \/ \E v \in Versions : AddDownloadFileTask(v)
    \/ PopDownloadTask \/ WorkerDownload
    \/ RetryTake \/ RetryOne \/ RetryPut

(* Both goroutines loop forever (sleeping between polls); the commands    *)
(* come when the manager sends them.                                      *)
Spec ==
    /\ Init /\ [][Next]_vars
    /\ WF_vars(PopDownloadTask) /\ WF_vars(WorkerDownload)
    /\ WF_vars(RetryTake) /\ WF_vars(RetryOne) /\ WF_vars(RetryPut)

-----------------------------------------------------------------------------
(* Properties.                                                             *)

TaskVersions(s) == {s[i].ver : i \in DOMAIN s}

(* Versions with a task still queued, downloading or waiting for a retry. *)
Pending ==
    ToSet(queue) \cup TaskVersions(failureQ) \cup TaskVersions(batch)
        \cup TaskVersions(keep) \cup ({wtask.ver} \ {0})

(* No released version is forgotten while the worker and the retry loop   *)
(* hand tasks between the download queue and the failure queue: each is  *)
(* pending, was downloaded, or was given up after MaxFailedThreshold.     *)
TaskNeverLost ==
    \A v \in 1..released : v \in Pending \cup done \cup dropped

(* Retrying ends: once the commands stop, every task eventually succeeds  *)
(* or is given up, and nothing is left to download.                      *)
FailuresDrain == <>[](Pending = {})

(* The local latest file never goes back to an older version than it     *)
(* held: versions are released in increasing order.                      *)
NeverRegress == [][local'.ver >= local.ver]_local

(* The local latest file always holds a body whose digest was verified.  *)
LatestIntact == local.intact
=============================================================================
