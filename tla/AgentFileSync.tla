--------------------------- MODULE AgentFileSync ---------------------------
(***************************************************************************)
(* How an agent's local file db catches up with the manager's releases,   *)
(* for the config files of one namespace of one site.                     *)
(*                                                                         *)
(*  - ReleaseConfig (src/pkg/manager/configserver/configserver.go) sends  *)
(*    CmdNSFileHandler to the agent inside its transaction and commits     *)
(*    only on an answer within 3 s; the agent's handler                    *)
(*    (src/pkg/agent/cmdhandler.go) queues a download task.                *)
(*  - The version manager's worker (src/pkg/agent/vm/vm.go) pops tasks in  *)
(*    order and stores version v's body at the local "latest" path, then  *)
(*    hands the digest to the UpdateHub, whose file workers write it into *)
(*    the FileMapper (src/pkg/agent/updater/updater.go).  FileMapper.Run   *)
(*    dumps the mapper to disk; NewFileMapper loads the dump at start.    *)
(*  - Each time the tunnel to the manager becomes ready, fireOnReady runs *)
(*    syncLocalData (src/pkg/agent/agent.go) in a goroutine of its own: a *)
(*    full refresh (fileSyncHandler on the manager) with the mapper's     *)
(*    digests, then a local scan of the disk and a partial refresh        *)
(*    (fileRefreshHandler) of the files whose disk digest differs.        *)
(*  - refreshAgentFDBFromRemote queues a download for every file in the   *)
(*    answer and stores a {"_status": "404"} marker for every requested   *)
(*    file the answer leaves out.                                          *)
(*  - An SDK's content request for a file with no local copy, and an      *)
(*    SDK's file report naming a file the mapper lacks, refresh that file. *)
(*  - ReleaseNamespace releases every config of the namespace with an     *)
(*    unreleased version in one transaction, tars those versions into a   *)
(*    package, stores it and sends CmdNSPackageHandler with its digest;   *)
(*    the agent queues a package download, stores the package at the      *)
(*    namespace's package path, and a package worker untars the package   *)
(*    found there into the latest files and the FileMapper.               *)
(* Version v of a file stands for its content and digest: the file db's   *)
(* encryption has a fixed IV, so equal content has equal digests on the    *)
(* manager and on the agent.  Downloads succeed here; their failures and   *)
(* retries are the VersionManager module's.                                *)
(***************************************************************************)
EXTENDS Integers, Sequences, SequencesExt

CONSTANTS
    Files,         \* config files of the namespace
    MaxVer,        \* versions released per file: 1..MaxVer
    MaxConnects,   \* tunnel connections (each fires one syncLocalData)
    MaxRestarts,   \* agent process restarts
    MaxNsReleases, \* ReleaseNamespace calls
    SdkInit        \* digests an SDK may hold when it first asks (NoFile: none)

Versions == 1..MaxVer

(* Local file states and the digests they report.  NoFile: nothing at the *)
(* latest path (ExistsFile and VisitConfig fail; the digest is "").        *)
(* NotFound: the 404 marker, an empty body whose digest no release has.    *)
NoFile == 0
NotFound == -1
Digests == {NotFound, NoFile} \cup Versions

(* A file left out of a request map. *)
Absent == -2

(* A namespace package: the version of each file it holds (0: not in it). *)
(* Its digest stands for it: the tar holds each version's blob with the   *)
(* header of that version's metadata file, so tarring the same versions   *)
(* gives the same bytes (for one file; Go's map order may reorder more).  *)
Packages == [Files -> 0..MaxVer]
NoPkg == [f \in Files |-> 0]

VARIABLES
    released,   \* ConfigCurrent.LatestReleaseID's version per file (0: none)
    mtx,        \* ReleaseConfig's open transaction: version being released (0: none)
    inbox,      \* CmdNSFileHandler commands in flight to the agent: <<f, v>>
    replies,    \* their answers in flight back to the waiting ReleaseConfig
    conn,       \* the agent's tunnel: "up" or "down"
    connects,   \* tunnel connections so far
    restarts,   \* agent restarts so far
    fdb,        \* the agent's local latest file per file: a Digests value
    fm,         \* FileMapper content[ns][file] (NoFile: no entry)
    fmDump,     \* the FileMapper dump on disk
    dq,         \* the version manager's downloadQueue of <<f, v>>
    hub,        \* UpdateHub file queue: <<f, v>> not yet written to the mapper
    sy,         \* syncLocalData goroutines, one per connection
    cw,         \* CmdContentHandler waiting on its refresh, per file
    sdk,        \* the digest the SDK holds per file
    ntx,        \* ReleaseNamespace's open transaction: its package (NoPkg: none)
    pinbox,     \* CmdNSPackageHandler commands in flight: packages
    preplies,   \* their answers in flight back to ReleaseNamespace
    pmap,       \* the packages whose key namespace/digest is in downloadMap
    pkgFile,    \* the agent's package file at the namespace's package path
    pq,         \* UpdateHub package notifications not yet handled
    nsReleases  \* ReleaseNamespace calls so far

vars == <<released, mtx, inbox, replies, conn, connects, restarts, fdb, fm,
          fmDump, dq, hub, sy, cw, sdk, ntx, pinbox, preplies, pmap, pkgFile, pq,
          nsReleases>>

(* The variables of the namespace package path. *)
pvars == <<ntx, pinbox, preplies, pmap, pkgFile, pq, nsReleases>>

Task == Files \X Versions

(* A package download task: its Args hold the namespace alone.            *)
PkgTask(p) == <<p>>
ReqMap == [Files -> Digests \cup {Absent}]
Answer == [Files -> {0} \cup Versions]
NoAnswer == [f \in Files |-> 0]
NoReq == [f \in Files |-> Absent]
SyncIdle == [pc |-> "none", ans |-> NoAnswer, req |-> NoReq]
CwIdle == [pc |-> "idle", ans |-> 0]

TypeOK ==
    /\ released \in [Files -> 0..MaxVer] /\ mtx \in [Files -> 0..MaxVer]
    /\ inbox \subseteq Task /\ replies \subseteq Task
    /\ conn \in {"up", "down"}
    /\ connects \in 0..MaxConnects /\ restarts \in 0..MaxRestarts
    /\ fdb \in [Files -> Digests]
    /\ fm \in [Files -> {NoFile} \cup Versions]
    /\ fmDump \in [Files -> {NoFile} \cup Versions]
    /\ dq \in Seq(Task \cup {PkgTask(p) : p \in Packages}) /\ hub \subseteq Task
    /\ sy \in [1..MaxConnects -> [pc : {"none", "full", "apply", "local", "done"},
                                  ans : Answer, req : ReqMap]]
    /\ cw \in [Files -> [pc : {"idle", "apply"}, ans : {0} \cup Versions]]
    /\ sdk \in [Files -> {NoFile} \cup Versions]
    /\ ntx \in Packages /\ pinbox \subseteq Packages /\ preplies \subseteq Packages
    /\ pmap \subseteq Packages /\ pkgFile \in Packages /\ pq \in Nat
    /\ nsReleases \in 0..MaxNsReleases

(* A fresh agent: no local files, no mapper dump; nothing released yet.   *)
Init ==
    /\ released = [f \in Files |-> 0] /\ mtx = [f \in Files |-> 0]
    /\ inbox = {} /\ replies = {}
    /\ conn = "down" /\ connects = 0 /\ restarts = 0
    /\ fdb = [f \in Files |-> NoFile]
    /\ fm = [f \in Files |-> NoFile] /\ fmDump = [f \in Files |-> NoFile]
    /\ dq = <<>> /\ hub = {}
    /\ sy = [i \in 1..MaxConnects |-> SyncIdle]
    /\ cw = [f \in Files |-> CwIdle]
    /\ sdk \in [Files -> SdkInit]
    /\ ntx = NoPkg /\ pinbox = {} /\ preplies = {} /\ pmap = {}
    /\ pkgFile = NoPkg /\ pq = 0 /\ nsReleases = 0

-----------------------------------------------------------------------------
(* The manager.                                                            *)

(* Mutant: fileSyncHandler answers only for the files the agent sent.     *)
SyncAnswerRequestedOnly(req) ==
    [f \in Files |-> IF req[f] # NoFile /\ released[f] # 0 /\ released[f] # req[f]
                       THEN released[f] ELSE 0]

(* fileSyncHandler: every released (not deleted) config of the site, with *)
(* its version, minus those whose release digest equals the digest the    *)
(* agent sent.                                                             *)
SyncAnswer(req) ==
    [f \in Files |-> IF released[f] # 0 /\ released[f] # req[f]
                       THEN released[f] ELSE 0]

(* fileRefreshHandler: of the requested files, those with a release whose *)
(* digest differs from the one sent (a file without config info or       *)
(* release is skipped).                                                    *)
RefreshAnswer(req) ==
    [f \in Files |-> IF req[f] # Absent /\ released[f] # 0 /\ released[f] # req[f]
                       THEN released[f] ELSE 0]

(* ReleaseConfig 4: the executor is the agent's conn key (an error if it  *)
(* has none), and CmdNSFileHandler for the next version is sent while the *)
(* transaction is open.                                                    *)
ReleaseStart(f) ==
    /\ conn = "up" /\ mtx[f] = 0 /\ ntx[f] = 0 /\ released[f] < MaxVer
    /\ mtx' = [mtx EXCEPT ![f] = released[f] + 1]
    /\ inbox' = inbox \cup {<<f, released[f] + 1>>}
    /\ UNCHANGED <<pvars, released, replies, conn, connects, restarts, fdb, fm,
                   fmDump, dq, hub, sy, cw, sdk>>

(* The answer arrived: tx.Commit() makes the release the latest.           *)
ReleaseCommit(f) ==
    /\ mtx[f] # 0 /\ <<f, mtx[f]>> \in replies
    /\ released' = [released EXCEPT ![f] = mtx[f]]
    /\ mtx' = [mtx EXCEPT ![f] = 0]
    /\ replies' = replies \ {<<f, mtx[f]>>}
    /\ UNCHANGED <<pvars, inbox, conn, connects, restarts, fdb, fm, fmDump, dq, hub,
                   sy, cw, sdk>>

(* SendSync fails after 3 s (or at once, the tunnel gone): tx.Rollback(). *)
(* A late answer finds no waiter; the command may still be delivered.    *)
ReleaseTimeout(f) ==
    /\ mtx[f] # 0
    /\ mtx' = [mtx EXCEPT ![f] = 0]
    /\ replies' = replies \ {<<f, mtx[f]>>}
    /\ UNCHANGED <<pvars, released, inbox, conn, connects, restarts, fdb, fm, fmDump,
                   dq, hub, sy, cw, sdk>>

(* The package of ReleaseNamespace: each config of the namespace in status *)
(* created or updated, at the version its releaseConfig releases.          *)
NsPackage == [f \in Files |-> IF released[f] < MaxVer THEN released[f] + 1 ELSE 0]

(* ReleaseNamespace 1-4, with packConfigs: in one transaction a release of *)
(* each such config, the tar of their versions stored as the namespace's  *)
(* package, and CmdNSPackageHandler with its digest sent to the agent's   *)
(* conn key.  A config whose rows a ReleaseConfig holds is waited for.    *)
(* With no such config an empty package would be sent; it changes no file *)
(* and is left out.                                                        *)
ReleaseNamespace ==
    /\ conn = "up" /\ ntx = NoPkg /\ NsPackage # NoPkg
    /\ nsReleases < MaxNsReleases
    /\ \A f \in Files : NsPackage[f] # 0 => mtx[f] = 0
    /\ ntx' = NsPackage
    /\ pinbox' = pinbox \cup {NsPackage}
    /\ nsReleases' = nsReleases + 1
    /\ UNCHANGED <<released, mtx, inbox, replies, conn, connects, restarts, fdb,
                   fm, fmDump, dq, hub, sy, cw, sdk, preplies, pmap, pkgFile, pq>>

(* The agent answered success: tx.Commit() releases every packed config.   *)
NsReleaseCommit ==
    /\ ntx # NoPkg /\ ntx \in preplies
    /\ released' = [f \in Files |-> IF ntx[f] # 0 THEN ntx[f] ELSE released[f]]
    /\ ntx' = NoPkg
    /\ preplies' = preplies \ {ntx}
    /\ UNCHANGED <<mtx, inbox, replies, conn, connects, restarts, fdb, fm, fmDump,
                   dq, hub, sy, cw, sdk, pinbox, pmap, pkgFile, pq, nsReleases>>

(* SendSync fails: tx.Rollback().  The stored package stays, and the      *)
(* command may still be delivered.                                         *)
NsReleaseTimeout ==
    /\ ntx # NoPkg
    /\ ntx' = NoPkg
    /\ preplies' = preplies \ {ntx}
    /\ UNCHANGED <<released, mtx, inbox, replies, conn, connects, restarts, fdb,
                   fm, fmDump, dq, hub, sy, cw, sdk, pinbox, pmap, pkgFile, pq, nsReleases>>

-----------------------------------------------------------------------------
(* The agent's version manager and updater.                               *)

(* AddDownloadFileTask: merged while the same <<file, version>> is queued. *)
AddDownloadFileTask(q, t) == IF t \in ToSet(q) THEN q ELSE Append(q, t)

(* refreshAgentFDBFromRemote's first loop: a task per file of the answer, *)
(* in Go's map order.                                                      *)
AnswerTasks(ans) == {<<f, ans[f]>> : f \in {g \in Files : ans[g] # 0}}

QueueAll(ans) ==
    \E s \in SetToSeqs(AnswerTasks(ans)) :
        dq' = FoldLeft(AddDownloadFileTask, dq, s)

(* Its second loop: a 404 marker for every requested file the answer      *)
(* leaves out.                                                             *)
MarkMissing(req, ans) ==
    [f \in Files |-> IF req[f] # Absent /\ ans[f] = 0 THEN NotFound ELSE fdb[f]]

(* CmdNSFileHandler: queue the download and answer success.               *)
CmdNSFileHandler(t) ==
    /\ conn = "up" /\ t \in inbox
    /\ inbox' = inbox \ {t}
    /\ dq' = AddDownloadFileTask(dq, t)
    /\ replies' = IF mtx[t[1]] = t[2] THEN replies \cup {t} ELSE replies
    /\ UNCHANGED <<pvars, released, mtx, conn, connects, restarts, fdb, fm, fmDump,
                   hub, sy, cw, sdk>>

(* The download worker: popDownloadTask, doDownload stores version v at   *)
(* the latest path and NotifyFileUpdate queues it for the UpdateHub.      *)
DownloadFile ==
    /\ dq # <<>> /\ Head(dq) \in Task
    /\ LET t == Head(dq) IN
         /\ fdb' = [fdb EXCEPT ![t[1]] = t[2]]
         /\ hub' = hub \cup {t}
    /\ dq' = Tail(dq)
    /\ UNCHANGED <<pvars, released, mtx, inbox, replies, conn, connects, restarts,
                   fm, fmDump, sy, cw, sdk>>

(* AddDownloadPackageTask: merged while the key namespace/digest is in     *)
(* downloadMap, else queued and the key added.                            *)
AddDownloadPackageTask(p) ==
    IF p \in pmap THEN UNCHANGED <<dq, pmap>>
    ELSE /\ dq' = Append(dq, PkgTask(p))
         /\ pmap' = pmap \cup {p}

(* CmdPackageHandler: the download is queued (or merged) and the handler   *)
(* answers success either way.                                              *)
CmdPackageHandler(p) ==
    /\ conn = "up" /\ p \in pinbox
    /\ pinbox' = pinbox \ {p}
    /\ AddDownloadPackageTask(p)
    /\ preplies' = IF ntx = p THEN preplies \cup {p} ELSE preplies
    /\ UNCHANGED <<released, mtx, inbox, replies, conn, connects, restarts, fdb,
                   fm, fmDump, hub, sy, cw, sdk, ntx, pkgFile, pq, nsReleases>>

(* The download worker pops a package task: popDownloadTask deletes the   *)
(* key its Args give, the namespace alone, and the namespace/digest key   *)
(* stays.  ServePackage serves the blob of the digest (the manager's      *)
(* packages are never deleted), StorePackage writes it to the package     *)
(* path, its digest matches, and NotifyNSUpdate queues the namespace for  *)
(* the package workers.                                                   *)
DownloadPackage ==
    /\ dq # <<>> /\ Head(dq) \notin Task
    /\ pkgFile' = Head(dq)[1]
    /\ pq' = pq + 1
    /\ dq' = Tail(dq)
    /\ UNCHANGED <<released, mtx, inbox, replies, conn, connects, restarts, fdb,
                   fm, fmDump, hub, sy, cw, sdk, ntx, pinbox, preplies, pmap, nsReleases>>

(* untar: each regular file of the package is handed to the write        *)
(* function, which stores it at the latest path (and, in FM.Update, the   *)
(* mapper takes its digest).                                               *)
Untar(p, files) == [f \in Files |-> IF p[f] # 0 THEN p[f] ELSE files[f]]

(* A package worker's runPackageUpdated: VisitPackage opens the package   *)
(* now at the path (not the digest notified), untar stores each file at   *)
(* the latest path, and FM.Update takes the digests that differ.          *)
RunPackageUpdated ==
    /\ pq > 0
    /\ pq' = pq - 1
    /\ fdb' = Untar(pkgFile, fdb)
    /\ fm' = Untar(pkgFile, fm)
    /\ UNCHANGED <<released, mtx, inbox, replies, conn, connects, restarts,
                   fmDump, dq, hub, sy, cw, sdk, ntx, pinbox, preplies, pmap, pkgFile, nsReleases>>

(* A file worker's runFileUpdated: its FileMapper check reads namespace   *)
(* data.digest, never matches, and the mapper takes the digest.  The      *)
(* workers run concurrently, so queued updates apply in any order.        *)
RunFileUpdated(t) ==
    /\ t \in hub
    /\ fm' = [fm EXCEPT ![t[1]] = t[2]]
    /\ hub' = hub \ {t}
    /\ UNCHANGED <<pvars, released, mtx, inbox, replies, conn, connects, restarts,
                   fdb, fmDump, dq, sy, cw, sdk>>

(* FileMapper.Run: a periodic dump of the mapper.                          *)
DumpFileMapper ==
    /\ fmDump # fm
    /\ fmDump' = fm
    /\ UNCHANGED <<pvars, released, mtx, inbox, replies, conn, connects, restarts,
                   fdb, fm, dq, hub, sy, cw, sdk>>

-----------------------------------------------------------------------------
(* The tunnel and the agent process.                                       *)

(* The client's stream registers: fireOnReady starts syncLocalData.       *)
Connect ==
    /\ conn = "down" /\ connects < MaxConnects
    /\ conn' = "up"
    /\ connects' = connects + 1
    /\ sy' = [sy EXCEPT ![connects + 1] = [SyncIdle EXCEPT !.pc = "full"]]
    /\ UNCHANGED <<pvars, released, mtx, inbox, replies, restarts, fdb, fm, fmDump,
                   dq, hub, cw, sdk>>

(* The stream breaks: commands and answers in flight are lost.  Earlier   *)
(* syncLocalData goroutines keep retrying their refresh.                  *)
Disconnect ==
    /\ conn = "up" /\ connects < MaxConnects
    /\ conn' = "down"
    /\ inbox' = {} /\ replies' = {}
    /\ pinbox' = {} /\ preplies' = {}
    /\ UNCHANGED <<released, mtx, connects, restarts, fdb, fm, fmDump, dq,
                   hub, sy, cw, sdk, ntx, pmap, pkgFile, pq, nsReleases>>

(* The agent process restarts: the queues and goroutines are gone, the    *)
(* local files stay, and NewFileMapper loads the last dump.               *)
Restart ==
    /\ restarts < MaxRestarts /\ connects < MaxConnects
    /\ restarts' = restarts + 1
    /\ conn' = "down"
    /\ inbox' = {} /\ replies' = {}
    /\ fm' = fmDump
    /\ dq' = <<>> /\ hub' = {}
    /\ sy' = [i \in 1..MaxConnects |-> SyncIdle]
    /\ cw' = [f \in Files |-> CwIdle]
    /\ pinbox' = {} /\ preplies' = {} /\ pmap' = {} /\ pq' = 0
    /\ UNCHANGED <<released, mtx, connects, fdb, fmDump, sdk, ntx, pkgFile, nsReleases>>

-----------------------------------------------------------------------------
(* syncLocalData.                                                          *)

(* refreshAgentFDBFromRemote(fm.GetAll(), true): the mapper's digests are  *)
(* marshalled and fileSyncHandler answers; a send error is retried after  *)
(* a second, so the step waits for the tunnel.                            *)
SyncFull(i) ==
    /\ sy[i].pc = "full" /\ conn = "up"
    /\ sy' = [sy EXCEPT ![i].pc = "apply", ![i].ans = SyncAnswer(fm)]
    /\ UNCHANGED <<pvars, released, mtx, inbox, replies, conn, connects, restarts,
                   fdb, fm, fmDump, dq, hub, cw, sdk>>

(* The mapper's files as a request map.  GetAll returns the live map, so   *)
(* the answer is applied to the files the mapper holds now.               *)
MapperReq == [f \in Files |-> IF fm[f] # NoFile THEN fm[f] ELSE Absent]

(* refreshFilemapperFromLocal: the mapper's files whose disk digest        *)
(* (ExistsFile; "" when there is no file) differs, with that digest.      *)
LocalScan(disk) ==
    [f \in Files |-> IF fm[f] # NoFile /\ disk[f] # fm[f] THEN disk[f] ELSE Absent]

(* The full answer applied, then the local scan of the disk it left.      *)
ApplyFull(i) ==
    /\ sy[i].pc = "apply"
    /\ QueueAll(sy[i].ans)
    /\ LET disk == MarkMissing(MapperReq, sy[i].ans)
           local == LocalScan(disk)
       IN /\ fdb' = disk
          /\ sy' = [sy EXCEPT ![i] = IF local = NoReq
                                       THEN [SyncIdle EXCEPT !.pc = "done"]
                                       ELSE [SyncIdle EXCEPT !.pc = "local",
                                                             !.req = local]]
    /\ UNCHANGED <<pvars, released, mtx, inbox, replies, conn, connects, restarts,
                   fm, fmDump, hub, cw, sdk>>

(* refreshAgentFDBFromRemote(local, false), retried until it succeeds.    *)
SyncLocal(i) ==
    /\ sy[i].pc = "local" /\ conn = "up"
    /\ LET ans == RefreshAnswer(sy[i].req) IN
         /\ QueueAll(ans)
         /\ fdb' = MarkMissing(sy[i].req, ans)
    /\ sy' = [sy EXCEPT ![i] = [SyncIdle EXCEPT !.pc = "done"]]
    /\ UNCHANGED <<pvars, released, mtx, inbox, replies, conn, connects, restarts,
                   fm, fmDump, hub, cw, sdk>>

(* A step of the i-th syncLocalData goroutine.                            *)
SyncStep(i) == SyncFull(i) \/ ApplyFull(i) \/ SyncLocal(i)

-----------------------------------------------------------------------------
(* The SDK's requests to the agent.                                        *)

OneFile(f, d) == [g \in Files |-> IF g = f THEN d ELSE Absent]

(* CmdContentHandler.  No local file: refresh {f: the SDK's digest} and    *)
(* answer 204 once the manager has answered.  A 404 marker answers 404 and *)
(* an equal digest 304, changing nothing; otherwise the SDK gets the      *)
(* content.                                                                *)
ContentRequest(f) ==
    /\ cw[f].pc = "idle"
    /\ \/ /\ fdb[f] = NoFile /\ conn = "up"
          /\ cw' = [cw EXCEPT ![f] = [pc |-> "apply",
                                      ans |-> RefreshAnswer(OneFile(f, sdk[f]))[f]]]
          /\ UNCHANGED sdk
       \/ /\ fdb[f] \in Versions /\ fdb[f] # sdk[f]
          /\ sdk' = [sdk EXCEPT ![f] = fdb[f]]
          /\ UNCHANGED cw
    /\ UNCHANGED <<pvars, released, mtx, inbox, replies, conn, connects, restarts,
                   fdb, fm, fmDump, dq, hub, sy>>

(* Mutant: the answer is queued without the "not found" check.           *)
ContentApplyQueueAny(f) ==
    /\ cw[f].pc = "apply"
    /\ dq' = AddDownloadFileTask(dq, <<f, cw[f].ans>>)
    /\ cw' = [cw EXCEPT ![f] = CwIdle]
    /\ UNCHANGED <<pvars, released, mtx, inbox, replies, conn, connects, restarts,
                   fdb, fm, fmDump, hub, sy, sdk>>

(* The content handler applies the manager's answer for its one file.     *)
ContentApply(f) ==
    /\ cw[f].pc = "apply"
    /\ IF cw[f].ans # 0
         THEN /\ dq' = AddDownloadFileTask(dq, <<f, cw[f].ans>>)
              /\ UNCHANGED fdb
         ELSE /\ fdb' = [fdb EXCEPT ![f] = NotFound]
              /\ UNCHANGED dq
    /\ cw' = [cw EXCEPT ![f] = CwIdle]
    /\ UNCHANGED <<pvars, released, mtx, inbox, replies, conn, connects, restarts,
                   fm, fmDump, hub, sy, sdk>>

(* CmdFileRefreshHandler: a file the SDK reports and the mapper lacks is   *)
(* refreshed with digest "" (the report and differing digests change no   *)
(* state of this model).                                                   *)
SdkReport(f) ==
    /\ conn = "up" /\ fm[f] = NoFile
    /\ LET req == OneFile(f, NoFile)
           ans == RefreshAnswer(req)
       IN /\ QueueAll(ans)
          /\ fdb' = MarkMissing(req, ans)
    /\ UNCHANGED <<pvars, released, mtx, inbox, replies, conn, connects, restarts,
                   fm, fmDump, hub, sy, cw, sdk>>

-----------------------------------------------------------------------------
Next ==
    \/ \E f \in Files :
          \/ ReleaseStart(f) \/ ReleaseCommit(f) \/ ReleaseTimeout(f)
          \/ ContentRequest(f) \/ ContentApply(f) \/ SdkReport(f)
    \/ \E t \in Task : CmdNSFileHandler(t) \/ RunFileUpdated(t)
    \/ DownloadFile \/ DumpFileMapper
    \/ ReleaseNamespace \/ NsReleaseCommit \/ NsReleaseTimeout
    \/ DownloadPackage \/ RunPackageUpdated
    \/ \E p \in Packages : CmdPackageHandler(p)
    \/ Connect \/ Disconnect \/ Restart
    \/ \E i \in 1..MaxConnects : SyncStep(i)

(* The goroutines that loop until they finish: the download worker       *)
(* (polling every second), each syncLocalData (retrying every second),    *)
(* and StartListen, which redials forever.  The file and package workers, *)
(* the command handlers, the content handler, the dump loop and SendSync  *)
(* also finish, but the properties below hold without assuming so.  The  *)
(* manager's releases, the SDK's requests, disconnects and restarts are   *)
(* not bound to happen.                                                    *)
Spec ==
    /\ Init /\ [][Next]_vars
    /\ WF_vars(Connect) /\ WF_vars(DownloadFile \/ DownloadPackage)
    /\ \A i \in 1..MaxConnects : WF_vars(SyncStep(i))

-----------------------------------------------------------------------------
(* Properties.                                                             *)

(* Every committed release reaches the agent's disk: the version (or a    *)
(* newer one) is stored at the latest path at some later time, though the *)
(* command that queued it, the queue itself or the tunnel may be lost to a *)
(* disconnect or a restart; syncLocalData on the next connection must     *)
(* fetch whatever the mapper does not show.                               *)
DeliveredEventually ==
    \A f \in Files, v \in Versions : released[f] = v ~> fdb[f] >= v

(* A reconnect repairs the local copy of every released file: when the     *)
(* tunnel is down and a released file has no local content (no file, or   *)
(* a 404 marker), the agent later holds some version of it.  The next     *)
(* connection's syncLocalData fetches a file the mapper lacks, and its     *)
(* local scan sends the marker's digest for one whose full refresh it     *)
(* marked missing.                                                         *)
ReconnectRepairs ==
    \A f \in Files :
        conn = "down" /\ released[f] # 0 /\ fdb[f] \notin Versions
            ~> fdb[f] \in Versions

(* The agent never replaces the released version it holds with a 404     *)
(* marker: refreshAgentFDBFromRemote reads an omitted file as missing,    *)
(* while fileSyncHandler and fileRefreshHandler omit the files that are   *)
(* up to date.                                                             *)
KeepsReleasedCopy ==
    [][\A f \in Files : fdb[f] = released[f] /\ released[f] # 0
                          => fdb'[f] # NotFound]_vars

(* The agent never replaces a released version it holds with an older     *)
(* one: a refresh answer computed before a release may be applied after   *)
(* the release's own download task was queued.                            *)
NoStaleOverwrite ==
    [][\A f \in Files : fdb[f] \in Versions /\ fdb'[f] \in Versions
                          /\ fdb[f] <= released[f] => fdb'[f] >= fdb[f]]_vars

(* CmdPackageHandler answers success only for a package the agent will    *)
(* install: when an answer for a package goes back, the package is queued *)
(* for download, downloaded and waiting for a package worker, or its      *)
(* versions are already in the latest files.  ReleaseNamespace commits on *)
(* that answer.                                                            *)
PackageAckQueued ==
    [][\A p \in Packages :
         p \notin preplies /\ p \in preplies'
           => \/ PkgTask(p) \in ToSet(dq')
              \/ pkgFile' = p /\ pq' > 0
              \/ \A f \in Files : p[f] # 0 => fdb'[f] = p[f]]_vars
=============================================================================
