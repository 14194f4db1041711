----------------------------- MODULE AgentSync ------------------------------
(***************************************************************************)
(* How the agent tells the SDKs of its pods that a config file changed,   *)
(* for one file of one namespace and one application whose SDK instances  *)
(* connect to the agent's cmdServer.                                      *)
(*                                                                         *)
(*  - The version manager stores each new version on disk and calls      *)
(*    UpdateHub.FileUpdated (src/pkg/agent/updater/updater.go); a         *)
(*    dispatcher goroutine moves the queue into a buffered channel read   *)
(*    by several file workers, each running runFileUpdated: FileMapper    *)
(*    check and update, then Syncer.NotifyUpdate.                          *)
(*  - Syncer (src/pkg/agent/syncer/sync.go) sends "fileupdated" to every  *)
(*    connection of every app registered for the file; a failed send     *)
(*    becomes a scheduled task retried by the notify workers, with a      *)
(*    growing delay, until it has failed more than MaxFailedCount times.  *)
(*  - An SDK connection registers with the agent's ConnManager, whose      *)
(*    Ready / NotReady callbacks run in goroutines of their own           *)
(*    (src/pkg/agent/agent.go): RegisterApp and CancelApp.                *)
(*  - An SDK's "content" request (CmdContentHandler,                      *)
(*    src/pkg/agent/cmdhandler.go) registers the file to its app.        *)
(* A version of the file stands for its content and digest.               *)
(***************************************************************************)
EXTENDS Naturals, Sequences, SequencesExt

CONSTANTS
    Conns,           \* SDK connections (conn keys) of the application
    Workers,         \* file workers (DefaultWorkerNum, 8)
    NotifyWorkers,   \* notify workers (DefaultNotifyWorkerNum, 8)
    Ns,              \* the file's namespace
    MaxDigest,       \* versions of the file stored: 1..MaxDigest
    ChanCap,         \* capacity of fileChan (WorkersNum)
    MaxFailedCount   \* MAXFailedCount (64)

Digests == 1..MaxDigest

VARIABLES
    disk,         \* version of the file in the agent's file db (0: none)
    fileQueue,    \* UpdateHub.fileQueue: versions
    fileChan,     \* fileChan
    fw,           \* file workers: [pc, d, targets]
    fm,           \* FileMapper content[Ns][file] (0: none)
    fmNs,         \* FileMapper namespaces other than Ns created by EnsureNamespace
    cstate,       \* SDK connection: "new", "saved" (registered), "ended"
    declares,     \* the connection's Info["files"] names the file
    readyCb,      \* connections whose Ready goroutine has not run yet
    notReadyCb,   \* connections whose NotReady goroutine has not run yet
    appConns,     \* conn2App / apps[app]: connections registered to the app
    regFile,      \* regFileToApp[file] holds the app
    notifyQueue,  \* Syncer.notifyQueue: scheduled notify tasks
    nw,           \* notify workers: the task popped, or NoTask
    owed,         \* connections told of an update and not yet notified
    panicked      \* the agent process died on a nil pointer

vars == <<disk, fileQueue, fileChan, fw, fm, fmNs, cstate, declares, readyCb,
          notReadyCb, appConns, regFile, notifyQueue, nw, owed, panicked>>

Task == [conn : Conns, failed : 1..MaxFailedCount + 1, due : BOOLEAN]
NoTask == [conn |-> Ns, failed |-> 0, due |-> FALSE]
Idle == [pc |-> "idle", d |-> 0, targets |-> {}]

TypeOK ==
    /\ disk \in 0..MaxDigest /\ fm \in 0..MaxDigest
    /\ fileQueue \in Seq(Digests) /\ fileChan \in Seq(Digests)
    /\ Len(fileChan) <= ChanCap
    /\ fw \in [Workers -> [pc : {"idle", "run", "notify"}, d : 0..MaxDigest,
                           targets : SUBSET Conns]]
    /\ fmNs \subseteq Digests
    /\ cstate \in [Conns -> {"new", "saved", "ended"}]
    /\ declares \in [Conns -> BOOLEAN]
    /\ readyCb \subseteq Conns /\ notReadyCb \subseteq Conns
    /\ appConns \subseteq Conns /\ regFile \in BOOLEAN
    /\ notifyQueue \in Seq(Task)
    /\ nw \in [NotifyWorkers -> Task \cup {NoTask}]
    /\ owed \subseteq Conns /\ panicked \in BOOLEAN

(* NewUpdateHub, NewFileMapper with no dump to load, NewSyncer; which SDK  *)
(* instances declare the file in their register info is chosen up front.  *)
Init ==
    /\ disk = 0 /\ fileQueue = <<>> /\ fileChan = <<>>
    /\ fw = [w \in Workers |-> Idle]
    /\ fm = 0 /\ fmNs = {}
    /\ cstate = [c \in Conns |-> "new"]
    /\ declares \in [Conns -> BOOLEAN]
    /\ readyCb = {} /\ notReadyCb = {}
    /\ appConns = {} /\ regFile = FALSE
    /\ notifyQueue = <<>> /\ nw = [n \in NotifyWorkers |-> NoTask]
    /\ owed = {} /\ panicked = FALSE

-----------------------------------------------------------------------------
(* FileMapper.                                                              *)

(* Get(namespace, key): EnsureNamespace(namespace) creates an empty map for *)
(* an unknown namespace; only Ns ever holds the file.                       *)
FmGet(namespace) == IF namespace = Ns THEN fm ELSE 0

EnsureNamespace(namespace) ==
    fmNs' = IF namespace = Ns THEN fmNs ELSE fmNs \cup {namespace}

(* Syncer.                                                                  *)

GetAppByConn(c) == c \in appConns

(* NotifyUpdate: the connections of every app registered for the file,    *)
(* s.apps[app], read after fileLock is released.                           *)
NotifyTargets == IF regFile THEN appConns ELSE {}

(* doNotify: SendSync of "fileupdated" to the connection; a connection no  *)
(* longer registered fails at once, a live one may also time out.         *)
DoNotify(c) == IF cstate[c] = "saved" THEN {"ok", "fail"} ELSE {"fail"}

AddNotifyTask(t) == notifyQueue' = Append(notifyQueue, t)

(* RegisterApp: the connection joins its app; the files of its register  *)
(* info are registered to the app.                                          *)
RegisterApp(c) ==
    /\ appConns' = appConns \cup {c}
    /\ regFile' = (regFile \/ declares[c])

(* RegisterFileToApp: app.AppID of GetAppByConn(conn), a nil pointer when  *)
(* the connection has no app; no goroutine recovers, so the agent dies.    *)
RegisterFileToApp(c) ==
    IF GetAppByConn(c)
      THEN regFile' = TRUE /\ UNCHANGED panicked
      ELSE panicked' = TRUE /\ UNCHANGED regFile

(* CancelApp: the first queued task of the connection is removed.          *)
CancelApp(c) ==
    /\ appConns' = appConns \ {c}
    /\ notifyQueue' = RemoveAt(notifyQueue,
                               SelectInSeq(notifyQueue, LAMBDA t : t.conn = c))

-----------------------------------------------------------------------------
(* Actions.  A panic ends the process, so every action requires           *)
(* ~panicked.                                                               *)

(* The version manager stored version d and calls FileUpdated.             *)
FileUpdated(d) ==
    /\ ~panicked
    /\ d = disk + 1
    /\ disk' = d
    /\ fileQueue' = Append(fileQueue, d)
    /\ UNCHANGED <<fileChan, fw, fm, fmNs, cstate, declares, readyCb, notReadyCb,
                   appConns, regFile, notifyQueue, nw, owed, panicked>>

(* The dispatcher goroutine pops the head of fileQueue into fileChan.      *)
DispatchFile ==
    /\ ~panicked
    /\ fileQueue # <<>>
    /\ Len(fileChan) < ChanCap
    /\ fileChan' = Append(fileChan, Head(fileQueue))
    /\ fileQueue' = Tail(fileQueue)
    /\ UNCHANGED <<disk, fw, fm, fmNs, cstate, declares, readyCb, notReadyCb,
                   appConns, regFile, notifyQueue, nw, owed, panicked>>

(* runFileWorkers: an idle worker receives from fileChan.                  *)
TakeFile(w) ==
    /\ ~panicked
    /\ fw[w].pc = "idle"
    /\ fileChan # <<>>
    /\ fw' = [fw EXCEPT ![w] = [pc |-> "run", d |-> Head(fileChan), targets |-> {}]]
    /\ fileChan' = Tail(fileChan)
    /\ UNCHANGED <<disk, fileQueue, fm, fmNs, cstate, declares, readyCb, notReadyCb,
                   appConns, regFile, notifyQueue, nw, owed, panicked>>

(* runFileUpdated: FM.Get(data.digest, data.name) looks the file up under   *)
(* a namespace named by the digest; unless that finds the digest and the   *)
(* file exists, FM.Update records the digest and NotifyUpdate reads the    *)
(* connections to notify.                                                  *)
RunFileUpdated(w) ==
    LET d == fw[w].d
        fmdigest == FmGet(d)
    IN
    /\ ~panicked
    /\ fw[w].pc = "run"
    /\ EnsureNamespace(d)
    /\ IF fmdigest = d /\ disk # 0
         THEN /\ fw' = [fw EXCEPT ![w] = Idle]
              /\ UNCHANGED <<fm, owed>>
         ELSE /\ fm' = d
              /\ fw' = [fw EXCEPT ![w] = [pc |-> "notify", d |-> d, targets |-> NotifyTargets]]
              /\ owed' = owed \cup NotifyTargets
    /\ UNCHANGED <<disk, fileQueue, fileChan, cstate, declares, readyCb, notReadyCb,
                   appConns, regFile, notifyQueue, nw, panicked>>

(* Mutant: a failed first notification is not scheduled for retry.         *)
NotifyOneNoRetry(w, c) ==
    /\ ~panicked
    /\ fw[w].pc = "notify"
    /\ c \in fw[w].targets
    /\ fw' = [fw EXCEPT ![w].targets = @ \ {c}]
    /\ \E o \in DoNotify(c) :
          /\ owed' = IF o = "ok" THEN owed \ {c} ELSE owed
          /\ UNCHANGED notifyQueue
    /\ UNCHANGED <<disk, fileQueue, fileChan, fm, fmNs, cstate, declares, readyCb,
                   notReadyCb, appConns, regFile, nw, panicked>>

(* NotifyUpdate, for one connection: doNotify; a failure is scheduled at   *)
(* once (nextScheduleTime 0) with failedCount 1.                           *)
NotifyOne(w, c) ==
    /\ ~panicked
    /\ fw[w].pc = "notify"
    /\ c \in fw[w].targets
    /\ fw' = [fw EXCEPT ![w].targets = @ \ {c}]
    /\ \E o \in DoNotify(c) :
          IF o = "ok"
            THEN owed' = owed \ {c} /\ UNCHANGED notifyQueue
            ELSE AddNotifyTask([conn |-> c, failed |-> 1, due |-> TRUE]) /\ UNCHANGED owed
    /\ UNCHANGED <<disk, fileQueue, fileChan, fm, fmNs, cstate, declares, readyCb,
                   notReadyCb, appConns, regFile, nw, panicked>>

(* NotifyUpdate returns and the worker waits on fileChan again.            *)
FinishNotify(w) ==
    /\ ~panicked
    /\ fw[w].pc = "notify"
    /\ fw[w].targets = {}
    /\ fw' = [fw EXCEPT ![w] = Idle]
    /\ UNCHANGED <<disk, fileQueue, fileChan, fm, fmNs, cstate, declares, readyCb,
                   notReadyCb, appConns, regFile, notifyQueue, nw, owed, panicked>>

(* An SDK instance's "register" command reaches the agent's cmdServer:     *)
(* SaveConn stores the connection and starts the Ready callbacks.          *)
SdkRegister(c) ==
    /\ ~panicked
    /\ cstate[c] = "new"
    /\ cstate' = [cstate EXCEPT ![c] = "saved"]
    /\ readyCb' = readyCb \cup {c}
    /\ UNCHANGED <<disk, fileQueue, fileChan, fw, fm, fmNs, declares, notReadyCb,
                   appConns, regFile, notifyQueue, nw, owed, panicked>>

(* The SDK's gRPC connection ends: the entry is deleted and the NotReady   *)
(* callbacks start.                                                         *)
SdkEnd(c) ==
    /\ ~panicked
    /\ cstate[c] = "saved"
    /\ cstate' = [cstate EXCEPT ![c] = "ended"]
    /\ notReadyCb' = notReadyCb \cup {c}
    /\ UNCHANGED <<disk, fileQueue, fileChan, fw, fm, fmNs, declares, readyCb,
                   appConns, regFile, notifyQueue, nw, owed, panicked>>

(* The Ready goroutine: RegisterApp with the files of the register info.   *)
RunReady(c) ==
    /\ ~panicked
    /\ c \in readyCb
    /\ readyCb' = readyCb \ {c}
    /\ RegisterApp(c)
    /\ UNCHANGED <<disk, fileQueue, fileChan, fw, fm, fmNs, cstate, declares,
                   notReadyCb, notifyQueue, nw, owed, panicked>>

(* The NotReady goroutine: nothing when no app is known for the            *)
(* connection, otherwise CancelApp (and "appcancel" to the manager).       *)
RunNotReady(c) ==
    /\ ~panicked
    /\ c \in notReadyCb
    /\ notReadyCb' = notReadyCb \ {c}
    /\ IF GetAppByConn(c)
         THEN CancelApp(c) /\ owed' = owed \ {c}
         ELSE UNCHANGED <<appConns, notifyQueue, owed>>
    /\ UNCHANGED <<disk, fileQueue, fileChan, fw, fm, fmNs, cstate, declares, readyCb,
                   regFile, nw, panicked>>

(* CmdContentHandler on a request of a registered SDK connection: the     *)
(* Ready goroutine may not have registered it yet (or may have cancelled   *)
(* it).  The content reply changes no state here.                          *)
ContentRequest(c) ==
    /\ ~panicked
    /\ cstate[c] = "saved"
    /\ RegisterFileToApp(c)
    /\ UNCHANGED <<disk, fileQueue, fileChan, fw, fm, fmNs, cstate, declares, readyCb,
                   notReadyCb, appConns, notifyQueue, nw, owed>>

(* A notify worker pops the head of notifyQueue.                           *)
PopNotify(n) ==
    /\ ~panicked
    /\ nw[n] = NoTask
    /\ notifyQueue # <<>>
    /\ nw' = [nw EXCEPT ![n] = Head(notifyQueue)]
    /\ notifyQueue' = Tail(notifyQueue)
    /\ UNCHANGED <<disk, fileQueue, fileChan, fw, fm, fmNs, cstate, declares, readyCb,
                   notReadyCb, appConns, regFile, owed, panicked>>

(* Mutant: the give-up test is off by one (failedCount > MaxFailedCount+1).*)
RunNotifyLateDrop(n) ==
    LET t == nw[n] IN
    /\ ~panicked
    /\ t # NoTask
    /\ nw' = [nw EXCEPT ![n] = NoTask]
    /\ \/ /\ ~t.due
          /\ AddNotifyTask(t) /\ UNCHANGED owed
       \/ /\ t.due
          /\ \E o \in DoNotify(t.conn) :
                CASE o = "ok" -> owed' = owed \ {t.conn} /\ UNCHANGED notifyQueue
                  [] t.failed > MaxFailedCount + 1 ->
                        owed' = owed \ {t.conn} /\ UNCHANGED notifyQueue
                  [] OTHER -> AddNotifyTask([conn |-> t.conn, failed |-> t.failed + 1,
                                             due |-> FALSE]) /\ UNCHANGED owed
    /\ UNCHANGED <<disk, fileQueue, fileChan, fw, fm, fmNs, cstate, declares, readyCb,
                   notReadyCb, appConns, regFile, panicked>>

(* The notify worker's step on the popped task: not yet due, it is queued *)
(* again; otherwise doNotify, and on failure the task is given up once it *)
(* has failed more than MaxFailedCount times, else queued again with a    *)
(* later schedule time and failedCount + 1.                               *)
RunNotify(n) ==
    LET t == nw[n] IN
    /\ ~panicked
    /\ t # NoTask
    /\ nw' = [nw EXCEPT ![n] = NoTask]
    /\ \/ /\ ~t.due
          /\ AddNotifyTask(t) /\ UNCHANGED owed
       \/ /\ t.due
          /\ \E o \in DoNotify(t.conn) :
                CASE o = "ok" -> owed' = owed \ {t.conn} /\ UNCHANGED notifyQueue
                  [] t.failed > MaxFailedCount ->
                        owed' = owed \ {t.conn} /\ UNCHANGED notifyQueue
                  [] OTHER -> AddNotifyTask([conn |-> t.conn, failed |-> t.failed + 1,
                                             due |-> FALSE]) /\ UNCHANGED owed
    /\ UNCHANGED <<disk, fileQueue, fileChan, fw, fm, fmNs, cstate, declares, readyCb,
                   notReadyCb, appConns, regFile, panicked>>

(* Time passes: every scheduled task's nextScheduleTime is reached, those  *)
(* a notify worker holds included.                                          *)
Due(t) == [t EXCEPT !.due = TRUE]

Tick ==
    /\ ~panicked
    /\ \/ \E i \in DOMAIN notifyQueue : ~notifyQueue[i].due
       \/ \E n \in NotifyWorkers : nw[n] # NoTask /\ ~nw[n].due
    /\ notifyQueue' = [i \in DOMAIN notifyQueue |-> Due(notifyQueue[i])]
    /\ nw' = [n \in NotifyWorkers |-> IF nw[n] = NoTask THEN NoTask ELSE Due(nw[n])]
    /\ UNCHANGED <<disk, fileQueue, fileChan, fw, fm, fmNs, cstate, declares, readyCb,
                   notReadyCb, appConns, regFile, owed, panicked>>

-----------------------------------------------------------------------------
Next ==
    \/ \E d \in Digests : FileUpdated(d)
    \/ DispatchFile
    \/ \E w \in Workers : TakeFile(w) \/ RunFileUpdated(w) \/ FinishNotify(w)
    \/ \E w \in Workers, c \in Conns : NotifyOne(w, c)
    \/ \E c \in Conns : SdkRegister(c) \/ SdkEnd(c) \/ RunReady(c)
                        \/ RunNotReady(c) \/ ContentRequest(c)
    \/ \E n \in NotifyWorkers : PopNotify(n) \/ RunNotify(n)
    \/ Tick

(* The worker, dispatcher, callback and notify goroutines all loop or run  *)
(* to completion, and time passes; versions, SDK connections and requests  *)
(* come when they come.                                                     *)
Spec ==
    /\ Init /\ [][Next]_vars
    /\ WF_vars(DispatchFile) /\ WF_vars(Tick)
    /\ \A w \in Workers : WF_vars(TakeFile(w)) /\ WF_vars(RunFileUpdated(w))
                          /\ WF_vars(FinishNotify(w))
                          /\ \A c \in Conns : WF_vars(NotifyOne(w, c))
    /\ \A c \in Conns : WF_vars(RunReady(c)) /\ WF_vars(RunNotReady(c))
    /\ \A n \in NotifyWorkers : WF_vars(PopNotify(n)) /\ WF_vars(RunNotify(n))

-----------------------------------------------------------------------------
(* Properties.                                                             *)

(* Every SDK connection that NotifyUpdate set out to tell of a new version *)
(* is eventually told (a "fileupdated" command succeeds), or its app is    *)
(* cancelled, or the retries give up after MaxFailedCount failures: no     *)
(* failed notification is forgotten between NotifyUpdate, the notify       *)
(* queue and the notify workers.                                           *)
NotifyResolved == \A c \in Conns : c \in owed ~> (c \notin owed \/ panicked)

(* A content request never finds its connection without an app: the       *)
(* agent does not dereference a nil AppDescribe in RegisterFileToApp.      *)
NoNilAppDeref == ~panicked

(* Once the updater is idle, the FileMapper holds the version stored on    *)
(* disk: the digests the agent reports to the manager and compares with    *)
(* the SDKs' are the ones it serves.                                        *)
FileMapperTracksDisk ==
    (fileQueue = <<>> /\ fileChan = <<>> /\ \A w \in Workers : fw[w].pc = "idle")
        => fm = disk
=============================================================================
