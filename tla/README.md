# TLA+ models of pro-km

These modules model the RPC framework of pro-km (`src/pkg/component/cmd` and
`src/pkg/component/conns`), the manager's config server
(`src/pkg/manager/configserver`), and the agent's download, update and
SDK-notification path (`src/pkg/agent/vm`, `updater`, `syncer`), and how the agent's file db catches up with the manager's releases (`src/pkg/agent/agent.go` and `cmdhandler.go`, the manager's `configserver/cmdhandler.go`), and the file db's storage drivers (`src/pkg/component/storage`). Through it, the manager and its agents send each
other commands over one bidirectional gRPC stream. Calls are correlated by
UUID, and a reply can be a single data package or a stream of flushed chunks.
The models are checked with TLC. `PROJECT.json` is the machine-readable index:
components, runs, mutants, the source lines each definition translates,
findings and hazards.

## The system and its parts

| Part | Source | State | Operations that change it |
|---|---|---|---|
| Command Manager (requester side) | `cmd/cmdmanager.go` | `respBuffers` (a channel per UUID, capacity `MaxBufferSize`=200) and `bufferLocks` (a mutex per UUID) | `SendSync` → `sendCmd` → `waitForResp` (a reader goroutine, then a select over notify and timeout); `onReceive` spawns a goroutine per RESPONSE → `processResp` → `safeWriteBuffer`; `safeCloseBuffer`; the closer goroutine on `resp.close` → `closeCmdStream` |
| Command Manager (responder side) | `cmd/cmdmanager.go`, `cmd/executor.go` | `executor.streams` | `onReceive` spawns a goroutine per REQUEST → `processReq`: a data reply, or a stream relayed by a producer goroutine, a bounded line channel, and a batching loop with an idle timer; `closeSteamHandler` |
| Resp / streamer | `cmd/types.go` | an `io.Pipe` and the unbuffered `close` channel | `Write`, `Read`, `Close` |
| Server tunnel | `cmd/cmdserver.go` | none beyond the registry | `Execute` receive loop, `handleRegisterIfNeed`, `reqCmd` (route by executor), `respCmd` (3 retries) |
| Client tunnel | `cmd/cmdclient.go` | `stopCh`, hooks | `StartListen` reconnect loop, `register`, `respCmdSure`, `fireOnReady`/`fireOnNotReady` |
| Connection registry | `conns/connmanager.go` | `conns: tag → Conn{Key, Value}` | `HandleConn` (ConnBegin, ConnEnd), `SaveConn`, `GetConnValue`; Ready/NotReady callbacks run in goroutines of their own |
| Global client connection | `conns/connclient.go` | the gRPC ClientConn, `readyCh` | `PollConn`, `CloseConn`, `ConnOnStates` |
| Registry subscriber | `manager/cluster/cluster.go` | cluster status per agent key | `onReady`, `onNotReady` |
| Config server | `manager/configserver/configserver.go` | MySQL rows ConfigInfo, ConfigVersion, Release, ConfigCurrent; version files in the file db | `AddConfig`, `UpdateConfig`, `ReleaseConfig` (sends `CmdNSFileHandler` to the agent and waits 3 s), `RollbackConfig`, `ImportConfig`; rows Template and TemplateVersion and template files: `AddTemplate`, `UpdateTemplate` |
| Agent version manager | `agent/vm/vm.go` | `downloadQueue`/`downloadMap`, `failureQueue`, the local latest file | `AddDownloadFileTask`, the download worker, the retry loop |
| Agent updater and file mapper | `agent/updater/updater.go` | the file queue, `fileChan`, the FileMapper (namespace → name → digest) | `FileUpdated`, the dispatcher, the file workers' `runFileUpdated` |
| Agent syncer | `agent/syncer/sync.go`, `agent/agent.go`, `agent/cmdhandler.go` | `apps`, `appFiles`, the notify queue | `RegisterApp`/`CancelApp` (the agent ConnManager's Ready/NotReady callbacks), `RegisterFileToApp` (SDK content request), `NotifyUpdate`, the notify workers |
| File db drivers | `component/storage/cas/cas.go` (the manager's, content-addressed), `component/storage/filedb/storage.go` (the agent's, `CasDisable`), `filedb/db.go` | per path a metadata file (digest, extend); cas: blobs named by digest; FSStorage: a data file at the path | `Put` (temporary file, rename, metadata `WriteFile`), `Get`, `Exists`/`ExistPath` |
| Agent file sync | `agent/agent.go`, `agent/cmdhandler.go`, `manager/configserver/cmdhandler.go` | the local latest file per config (a version or a 404 marker), the FileMapper and its dump | `syncLocalData` on every connection (full refresh, local scan, partial refresh), `refreshAgentFDBFromRemote`, the manager's `fileSyncHandler` and `fileRefreshHandler`, `CmdContentHandler` and `CmdFileRefreshHandler` for files with no local copy |
| Agent configuration | `cmd/agent/app/options.go`, `agent/config/config.go`, `util/ref/reflect.go` | the `AgentConfiguration` the agent runs with | `NewOptions` and `AddFlags` (flags over a default config), `loadConfigFromFile`, `completeConfig` with `ref.Diff` and `ref.Union` |

How they interact:

1. A requester (a manager REST handler or the agent) calls `SendSync`.
2. The request travels over the gRPC stream. The server routes it with `GetConnValue`.
3. The responder's `processReq` runs the handler and sends RESPONSE packages back.
4. The requester's `onReceive` hands each package to the waiting call through its buffer.
5. When the user closes a stream, the requester sends the reserved CloseStream command. The responder's executor then closes the handler's stream.
6. A config release on the manager sends `CmdNSFileHandler` to the agent, whose version manager downloads the version, stores it, and hands it to the updater. The updater's file workers update the FileMapper and the syncer tells each SDK connection of the app (`fileupdated`), retrying failures.
7. Each time the agent's stream registers, `syncLocalData` sends the FileMapper's digests to the manager (`fileSyncHandler`), queues a download for every file in the answer and stores a 404 marker for every file it sent that the answer leaves out; it then scans the disk and refreshes the files whose digest differs from the mapper's. SDK requests for a file with no local copy refresh that file the same way.

Behaviours that are hard to test, and that a model checker reaches:
- goroutine interleavings: one goroutine per package, plus the reader, closer and producer goroutines;
- a per-id mutex held across a blocking channel send;
- a timeout racing a reply;
- Go timer `Reset` semantics;
- callbacks run asynchronously and in no order;
- database transactions that read outside themselves and take InnoDB locks;
- retry queues fed by two goroutines.

PROJECT.json lists each hazard at its source line.

## Modules

| Module | Models | Composition |
|---|---|---|
| `CmdManager` | The requester's correlation engine and the responder's `processReq` and executor for one call per id. The requester side has the caller, reader goroutine, closer goroutine, one writer goroutine per RESPONSE package, and the buffer, its state and its lock. The responder side has the receive loop, `processReq` and `executor.streams`. Packages travel on two ordered channels (`net`, `reqNet`), which stand for the gRPC stream in each direction. | Both ends of the tunnel in one module. Routing is the identity for now. |
| `StreamFlush` | The stream path of `processReq` in full detail: the producer goroutine, the line channel, the batch `lines`, `send`, and the timer with `C`. | Refines `BatchedStream` |
| `BatchedStream` | The abstract promise of the stream path: lines are shipped in source order, each exactly once, in batches of 1..MaxBatch, and never before they are read. | Abstract spec |
| `ConnRegistry` | `HandleConn`, `SaveConn` and `GetConnValue`, the callback goroutines (a bag of pending callbacks), and the cluster manager's status per key. | Registry plus subscriber |
| `ConfigServer` | The five config handlers, `ReloadTemplate`, and the two template handlers (`AddTemplate`, `UpdateTemplate`) of `configManager`, one action per statement that touches shared state, run by concurrent handler goroutines; InnoDB locks (unique-index keys, rows) held until Commit/Rollback, with deadlock victims; the file db; the agent's download of a released version. | Config handlers refine `ConfigHistory` (one handler at a time); template handlers refine a second instance of it, without releases, under concurrency |
| `ConfigHistory` | The abstract promise of the config server: an append-only history of contents and of releases. | Abstract spec |
| `VersionManager` | `vm.go`: the download queue with key merging, the worker, the failure queue and the retry loop's round (take, retry each distinct version once, put back). | |
| `AgentSync` | UpdateHub's queue, dispatcher and file workers; FileMapper `Get`/`Update`/`EnsureNamespace`; the Syncer's NotifyUpdate, notify queue and notify workers with retries; the agent ConnManager's SaveConn/ConnEnd and its Ready/NotReady goroutines; `CmdContentHandler`. | Updater + syncer + connection callbacks |
| `ClientTunnel` | The agent's end of the tunnel: `StartListen`'s main loop and its stream goroutines (`Execute`, `sendRegisterCmd`, the receive loop), `PollConn` / `CloseConn` / `readyCh` of the global client connection, `respCmdSure`; on the manager, `handleRegisterIfNeed` and `reqCmd`; gRPC transports that fail and redial. | Composes `ConnRegistry` with `INSTANCE ... WITH` (one agent key, tags = transports) |
| `AgentFileSync` | `ReleaseNamespace`'s push of `CmdNSPackageHandler` with commit or rollback, the agent's `CmdPackageHandler`, the package download and `runPackageUpdated`'s untar; `ReleaseConfig`'s push of `CmdNSFileHandler` with commit on the answer or rollback on the timeout; the agent's `CmdNSFileHandler`, the download worker's store, `runFileUpdated`, FileMapper `dump`/`load`/`GetAll`; the tunnel's connects, disconnects and an agent restart; per connection a `syncLocalData` goroutine; `fileSyncHandler`, `fileRefreshHandler`; `CmdContentHandler` and `CmdFileRefreshHandler` refreshing a file with no local copy. | Manager and agent in one module |
| `FileStore` | Both drivers for one path: `Put` as its three steps that touch shared files (the rename of the temporary file, WriteFile's truncating open, its write), `Get` as its two (the metadata read, the open of the content), `Exists`; concurrent writer and reader goroutines; a process restart mid-Put. `Cas` selects the driver. | Refines `AtomicFileStore` |
| `AtomicFileStore` | The abstract promise of a driver for one path: whole contents stored and read, with their own digest; a path may be unreadable while a store is in progress or after one was interrupted. | Abstract spec |
| `ConfigInstances` | The manager's ConfigInstance table: the agent's `fileupdated` reports (from `CmdContentHandler`'s completion, `CmdFileRefreshHandler` and the cmdClient OnReady hook) and `appcancel`; the manager's per-request goroutines running `SaveConfigInstance` (read, then create or update) and `DeleteConfigInstance`; the cluster manager's `DeleteConfigInstanceByConnKey` on NotReady. | Extends `ConnRegistry` (one agent key; tags = the agent's tunnel connections) |
| `Auth` | `AuthFilter` with `Authorized` and `Authenticated`, deciding each REST request with the resources the auth service grants the user; `UploadAuthRolesAndResources`, started with the server, with the auth service's `AddRole`, `AddResource` and `AddRoleResourceRelations`, each of which may succeed, fail, or take effect and still fail; manager restarts; an administrator's restricted resources for the custom role. | Manager and auth service in one module |
| `AgentConfig` | `completeConfig` over a part of `AgentConfiguration` with a nested struct: the flags, the file, the defaults, and `Diff`, `Union` and `isBlank` as recursive operators. | Pure operators; the state is the start-up input |
| `MCAgentFileSync` | The model values and sets for `AgentFileSync`'s configurations; `MCSdkNone` holds `NoFile`, a definition of the module, which a .cfg cannot name. The other modules need only sets of model values and numbers, which their .cfg files give directly, so they are checked without an MC module. | |

How `CmdManager` corresponds to the code:

- **Call setup and return.**
  - `SendCmd` is `SendSync` up to the send: the send succeeds, or it fails and the call returns the error.
  - `Register` is the start of `waitForResp`: it stores the buffer and lock and starts the reader goroutine.
  - `TakeResult` is the select's notify branch. `Timeout` and `ReturnTimeout` are the deadline branch.
  - `ReturnData` is the data branch's `safeCloseBuffer`.
- **Reader goroutine.** `ReaderRecv`, `ReaderExit` and `WriteFails` are its loop. After the first package only packages with `cb.Stream` set (`StreamPkg`) are written into the pipe; the CloseStream command's "ok", which shares the stream's UUID, is not a stream package and is skipped (`cmdmanager.go:124`).
- **User of the Resp.**
  - `ConsumerRead` is the user's `Resp.Read`.
  - `ConsumerClose` is `Resp.Close` / `streamer.close`, which closes the pipe and blocks on `resp.close`.
- **Closer goroutine.**
  - `CloseHandoff`: the closer receives on `resp.close`.
  - `CloserCloseBuffer`: the closer calls `safeCloseBuffer`.
  - `SendCloseCmd`: `closeCmdStream`, whose retries are abstracted into one eventually-successful step.
- **Writer goroutines.**
  - `RecvResp` is the receive loop spawning a writer goroutine.
  - `WriterLoadLock`, `WriterLock` and `WriterUnblock` are `safeWriteBuffer`:
    - `WriterLoadLock` loads the lock; a missing lock means "buffer deleted" and the package is skipped.
    - `WriterLock` locks, re-checks, and then sends or blocks on a full channel while holding the lock.
    - `WriterUnblock` completes the blocked send.
  - `lost` records replies skipped while their call was still waiting.
- **Responder.**
  - `RecvReq` is the responder's receive loop. A CloseStream request runs `closeSteamHandler` and replies "ok" under the stream's UUID.
  - `ReplyData` and `ReplyFails` are the data reply and a `respCmd` failure.
  - `OpenStream` is `executor.exec` saving the stream.
  - `EmitChunk` and `StreamEnds` are the stream loop's flushes, at chunk granularity. `StreamFlush` refines this.

`StreamFlush` follows the code statement by statement:

- `ReadLine`, `ReadEnds` and `PutLine` are the producer.
- `TimerCase`, `LineCase` and `ClosedCase` are the three outcomes of the select.
- `Send` is the `send` closure. A respCmd error ends the loop.
- `TimerFire` is the Go runtime firing the timer.
- `LineCase` includes the `timer.Reset` when a line starts a new batch. The Reset does not drain a pending expiry, as in Go < 1.23.

The refinement mapping is `read <- src` and `out <- FlattenSeq(sent)`.

How `ConfigServer` corresponds to the code. Each handler goroutine has a
`pc`; its locals (`snap`, the ConfigCurrent struct read through `db.Get()`
outside the transaction; `arg`, `prev`, `num`) and its transaction's pending
writes (`tx`) and locks (`held`) are per handler.

- `UpdateRead`, `UpdateStore`, `InsertVersion`, `LockInfo`, `UpdateCurrent`
  are `UpdateConfig`: read current and the latest version outside the tx,
  `storeConfigData` at version old+1, insert the version (unique key lock),
  update ConfigInfo, then `UpdateConfigCurrent` with the whole struct read
  earlier (`Updates`) and Commit.
- `ReleaseRead`, `CreateRelease`, `ReleaseCurrent`, `ReleaseNotify` are
  `releaseConfig` and `ReleaseConfig`: the release row, ConfigCurrent, then
  `SendSync` to the agent; an answer commits, a timeout rolls back. The agent
  may have queued the version either way (`agentQ`).
- `RollbackRead`, `RollbackStore`, `RollbackCurrent`, `RollbackInfo` are
  `RollbackConfig`; `ImportRead`, `ImportStore`, `ImportVersion` are
  `ImportConfig` (unchanged content returns without ending the tx).
- `DeadlockVictim` is InnoDB's deadlock detector failing one statement of a
  lock cycle; the handler rolls back. `AgentDownload` is the agent fetching a
  queued version through `ServeFile`.
- The file db is reached through the code's own helpers: `StoreConfig`,
  `VisitConfig`, `StoreTemplate`, `VisitTemplate` (`filedb/db.go`, a path
  being a version number) and `storeConfigData`, `visitConfigData`,
  `getConfigTemplate` of `configManager`. The handlers that call
  `cm.storage.StoreConfig` directly (rollback, import) use `StoreConfig`.
- The refinement mapping to `ConfigHistory` reads the committed version rows
  and release rows in number order.
- Template requests are served by the goroutines `THandlers` with variables of
  their own (`t...`); they touch rows and paths no config request touches, so
  `Next` interleaves the two halves. `AddTemplate` (CreateTemplate: waits on
  the (Name, Namespace) key, no step if the template exists),
  `AddTemplateStore`, `AddTemplateVersion`, `AddTemplateCommit` are
  `AddTemplate`. `UpdateTemplateRead` (GetTemplateByID and the latest
  version through `db.Get()`), `UpdateTemplateStore` (`storeTemplateData` at
  old+1, then `isTemplateNeedNewVersion`), `UpdateTemplateVersion` (the insert,
  waiting on the version key, failing on a committed duplicate) and
  `UpdateTemplateCommit` (`Updates` of the row read, whose LatestVersionID is
  never 0) are `UpdateTemplate`. The template namespace
  (`FindOrCreateTemplateNamespace`) is abstracted: with one template, a
  namespace conflict ends the same way as the template key conflict.
- With `Templated`, the config is a properties file rendered from the
  template: a version's content is a record of template data and
  replacement data (what `mergeTemplateAndReplace` merges and
  `storeConfigData` stores as two files), and `vtmpl` holds each committed
  version row's TemplateVersionID (`atv` the one a handler writes).
  `AddConfig` takes the template's latest version (`getConfigTemplate`);
  an edit sends the template data of the latest version's template version
  (`NewData`) with new replacement data; `ReloadRead` is `ReloadTemplate`:
  the latest version's replacement data, the template's latest version and
  its file, then `UpdateConfig`, whose `isConfigNeedNewVersion` also
  compares the TemplateVersionID. A rollback copies the earlier version's
  TemplateVersionID (a plain version stores an empty replacement file:
  `StoreRawFile` replaces the nil reader). The import is run on plain
  configs only. `DeleteConfig` and `DeleteTemplate` return nil and change
  nothing, and `checkIsTemplateChange` is never called, so they have no
  action.
- A config's description is modelled as a small number (`Descs`, 0 the
  empty one): `vdesc` is each version row's Desc, `idesc` the ConfigInfo
  row's, `adesc` the Desc of the ConfigInfo struct a handler writes back.
  An edit and an add carry a request Desc; a reload, a release and a
  rollback carry the ConfigInfo Desc they read. `isConfigNeedNewVersion`
  compares it with the latest version's Desc, beside the data and the
  TemplateVersionID; a rollback's version row copies the earlier version's
  Desc. gorm's `Updates` of a struct skips zero fields, so an empty Desc
  leaves `idesc` unchanged. Name and Namespace are the config's own: a
  rename moves the file path and is not modelled.

How `VersionManager` corresponds to `vm.go`: `AddDownloadFileTask` (merged by
key while queued), `PopDownloadTask` and `WorkerDownload` (the worker's loop
and `doDownload`, with the outcomes ok, request failure and digest mismatch,
the body being stored before the digest check), `RetryTake`, `RetryOne` and
`RetryPut` (one round of the retry loop: swap out the failure queue, retry
each distinct version once, give up after more than `MaxFailedThreshold`
failures, append what failed again).

How `AgentSync` corresponds to the code:

- `FileUpdated` is the version manager's call into `UpdateHub.FileUpdated`
  with the next digest on disk. `DispatchFile` is the dispatcher goroutine
  moving the queue into the buffered `fileChan` (capacity `ChanCap`).
  `TakeFile` and `RunFileUpdated` are a file worker: `FM.Get` is called with
  the digest as namespace (as the code does at `updater.go:201`), so the
  unchanged-shortcut never fires; `FM.Update`, then `NotifyUpdate` reads the
  targets. `NotifyOne` and `FinishNotify` are its loop over the targets:
  a failed `doNotify` adds a notify task.
- `SdkRegister`/`SdkEnd` are the agent ConnManager's `SaveConn` and
  `ConnEnd`; each starts a callback goroutine. `RunReady` is
  `RegisterApp`; `RunNotReady` is `CancelApp`, which removes only the first
  queued task of the connection.
- `ContentRequest` is `CmdContentHandler` calling `RegisterFileToApp`, which
  dereferences the app found by connection; with no app the process panics
  (`panicked`, after which nothing moves).
- `PopNotify` and `RunNotify` are a notify worker: a task not yet due is put
  back; a due task is sent; a failure is put back with `failed+1` until it has
  failed more than `MaxFailedCount` times. `Tick` is time passing: every queued
  or held task becomes due.
- `owed` is the set of connections a notification is owed to, from
  `NotifyUpdate` until it succeeds, is given up or is cancelled.

How `ClientTunnel` corresponds to the code:

- `mpc` is the program counter of `StartListen`'s loop together with `PollConn`: `PollCheck` is `IsActive`; `CloseConn` makes a new `readyCh` (generation `rgen`) and closes the ClientConn; `DialOk` is a successful `dialGRPCConn` with `SetConn` and `close(readyCh)` (`rclosed`); `DialFail` a failed dial; `Spawn` starts a stream goroutine with a fresh ctx; `WaitCtx` and `WaitStates` are the two branches of the select.
- `gpc[g]` is a stream goroutine: `StreamExecute` (fails unless the ClientConn is Ready), `SendRegister` (a Send on a transport that just died may still return nil), `RecvFails` (the goroutine returns, which cancels its ctx).
- The gRPC runtime: `TransportFail` puts the ClientConn in TransientFailure, `AutoReconnect` redials on a new transport, `ServerConnEnd` is the server's stats handler noticing a dead transport. ConnBegin is part of creating a transport.
- `HandleRegister` is `Execute` handing a received register command to `handleRegisterIfNeed`, i.e. `SaveConn` on the stream's transport, with no check that the connection is still open. `ManagerCall` is `reqCmd`: `GetConnValue` may return any entry with the agent's key. `RespSend` / `RespWake` are `respCmdSure`'s loop.

How `AgentFileSync` corresponds to the code:

- A version v stands for its content and digest. `fdb[f]` is the file at the local "latest" path: a version, `NoFile` (VisitConfig and ExistsFile fail, the digest is ""), or `NotFound`, the `{"_status": "404"}` marker, whose digest no release has. Request maps use the same digests, with `Absent` for a file not sent.
- `ReleaseStart` is ReleaseConfig step 4 sending `CmdNSFileHandler` inside the open transaction (`mtx`); `ReleaseCommit` is the answer arriving and `tx.Commit()`; `ReleaseTimeout` is SendSync failing and `tx.Rollback()`, after which a late command may still be handled. `CmdNSFileHandler` queues the download and answers.
- `DownloadFile` is the worker popping the head of `downloadQueue` and `doDownload` storing version v; `RunFileUpdated` is a file worker writing the digest into the mapper (queued updates in any order, as the workers are concurrent; AgentSync has the queue in detail). `DumpFileMapper` is `FileMapper.Run`; `Restart` loses the queues and goroutines and loads the dump.
- `Connect` is the stream registering, which starts `syncLocalData` in a goroutine of its own (`sy[i]`, one per connection; earlier ones keep retrying). `SyncFull` sends `fm.GetAll()` and receives `fileSyncHandler`'s answer (`SyncAnswer`); `ApplyFull` queues the answer's downloads, marks the files of the live mapper that the answer omits, and runs `refreshFilemapperFromLocal` (`LocalScan`); `SyncLocal` is the partial refresh (`RefreshAnswer`) and its application. A send while the tunnel is down fails and is retried a second later: the step waits for `conn = "up"`.
- `ReleaseNamespace` packs the next version of every file into one package (`packConfigs` runs `releaseConfig` for each in the transaction `ntx`), stores it and sends `CmdNSPackageHandler`; `NsReleaseCommit` and `NsReleaseTimeout` are its commit and rollback. A package `p` maps each file to the version it carries (0: not in it); the same versions give the same tar, so a package stands for its digest. `CmdPackageHandler` calls `AddDownloadPackageTask`, which merges on the key namespace/digest (`pmap`); the task's Args are the namespace alone (`PkgTask`). `DownloadPackage` pops it, deletes the key of its Args (never the namespace/digest key) and stores the package; `RunPackageUpdated` untars the package at the namespace path into the file db and the mapper (`Untar`).
- `ContentRequest` is `CmdContentHandler`: with no local file, it refreshes `{f: the SDK's digest}` (the answer is read when the step runs, `ContentApply` applies it later); a version the SDK does not hold is served. `SdkReport` is `CmdFileRefreshHandler` refreshing, with digest "", a file the mapper lacks.

How `ConfigInstances` corresponds to the code:

- One agent process, so one agent key: `connectID` (`agent.go:66`) is the site and the start time, the same across reconnects and new after a restart. An SDK connection stands for its app and hostname, so each has at most one row.
- `Send` is `reportUpdatedInfoToRemote`'s `SendSync`: with no registered connection it fails and nothing sends it again; otherwise the request travels on one live connection. `Lose` drops a request whose connection ended before the manager read it.
- The agent's senders: `ServeContent` is `CmdContentHandler` serving the FileMapper's content and its completion callback's report; `SdkRefresh` is `CmdFileRefreshHandler`'s goroutine reporting the digest the SDK sent; `ReadyReport` is the cmdClient OnReady hook reporting every registered app with the mapper's digest, run once per registered connection (`Register` marks it due); `SdkCancel` is the SDK's OnNotReady sending `appcancel`; `FileUpdated` is the updater storing a new version in the FileMapper.
- The manager runs each request in its own goroutine (`cmdmanager.go:234`), so requests are handled in any order. `SaveRead` is `SaveConfigInstance`'s `Get`; `SaveWrite` its `Create` (which the unique index refuses if a row appeared meanwhile) or its `Updates` by the ID it read. `AppCancel` is `appCancelHandler`'s delete.
- `Callback` is `ConnRegistry`'s callback goroutine; for NotReady it also runs `DeleteConfigInstanceByConnKey`, removing every row of the key.

How `Auth` corresponds to the code (`pkg/manager/auth`):

- The auth service is state of the model: `roles`, `res` (a resource is a route name and its data) and `rel`. A route is `"METHOD:path"`; `RouteRes` is `buildResources`' resource with data `"*"`, `RoleRoutes` is `addResource` (POST, PUT, DELETE to editor, GET to reader). `Star` is the data `"*"`; a restricted resource's data maps each key to the values it allows.
- A call to the service (`doRequest`) has three outcomes, `Outcomes`: it succeeds; it fails before taking effect; or it takes effect and the caller still sees an error (a timeout on the answer). Failures are bounded by `MaxFails`.
- The upload, one action per call: `UploadFetch` is `buildRoleResources` with `GetAllRole` and `GetAllResources` (a failure gives up); `UploadRole` is one name of `roleNames` with `containsRole` and `AddRole`; `UploadResources` is one role of the `roleResources` map (any order) with `containsResource` (`Missing`) and `AddResource`; `UploadRelations` is `AddRoleResourceRelations` of the new IDs together with the existing unrelated ones (`containsRoleResRel`, `Unrelated`). Every error returns, so the upload stops (`GiveUp`) until the next start: `Restart` is a new `NewServer`, which starts the upload again.
- `AuthFilter` is one request to its answer. `TokenUser` is `Authorized` (the JWT's claims or `LoginBySecret` of a Maya-Token); `UserResources` is `GetUserResources` (the resources related to a role of the user), which may fail; the service returns them in an order the model chooses (`SetToSeqs`). `Authenticated` is the loop over them, with `ReqValues` for `parseReqResource`. The answer is recorded in `last`, with what it was checked against.
- `AdminCustom` is an administrator relating restricted resources to the custom role; `Init` also allows a service an earlier manager set up.

How `AgentConfig` corresponds to the code:

- A struct is a function from field names to values; `LeaderElection` holds a nested struct (`StructFields`, what `typeIsStruct` decides). A scalar is 0 (Go's zero value, what `isBlank` tests), 1 (its default) or 2 (another value).
- The variables are the start-up input: the flags given (`given`, `argv`) and the fields the file sets (`present`, `filev`). `Input` is `opt.config`, a `NewDefaultConfig` whose flag fields pflag overwrote; `FileConfig` is the file unmarshalled into an empty struct, so a field the file omits is zero.
- `Diff`, `Union` and `IsBlank` are `ref.Diff`, `ref.Union` (with `Copy`) and `isBlank`, recursive like the code. The agent's configuration has no slices or pointer fields and passes no keys, so their slice and key branches never run. `completeConfig` is the method's four calls.
- `Intended` is the order the method's comment states, "input args > load from file > default args", field by field; `Next` leaves the state alone (the configuration is built once).

How `FileStore` corresponds to the code:

- A content stands for its digest (`DigestWriter` hashes the encrypted stream, and the encryption with the fixed secret always gives the same bytes).
- `PutData` is the Put up to the metadata: `CasStoreBlob` is the `Exist` check and the rename to the blob (or the removal of the temporary file), `FsStorageData` is `storageData`'s rename over the path's data file. A failed copy removes the temporary file and changes nothing shared, so it is not a step.
- `MetaTruncate` and `MetaWrite` are `ioutil.WriteFile`: the open with `O_TRUNC`, then the write at offset 0. `meta` holds the digest the JSON names and the file's length; `Overlay` is a write over a longer file, whose tail remains and whose JSON no longer parses. `MetaLen` gives each content's metadata length: equal for versions of one path, shorter for the agent's 404 marker.
- `GetMeta` is `getMetaInfo` / `getMetainfo` (for cas, with the stat of the blob); `GetOpen` is `getDatareader` / the open of the data file. The open handle keeps the bytes it opened, so the content is fixed at `GetOpen`. `Exists` is `ExistPath` / `Exists`.
- The refinement maps the stored content to the digest the metadata names, and a read's result to the digest read and its blob from the moment `GetMeta` runs.

## Runs

The twelve runs of PROJECT.json:

| Run | Config | Expect | What it shows |
|---|---|---|---|
| cmd_lock_protocol | `MCCmdManager.cfg`: a data call and a stream call, both timed; 3 chunks; buffer capacity 1 | pass | `NoWriteAfterClose`: a closed buffer never grows, so no send on a closed channel. It holds because `safeWriteBuffer` loads the buffer again under the per-id lock, which `safeCloseBuffer` takes before closing. |
| stream_flush | `MCStreamFlush.cfg`: 5 lines, batch 2, channel 2, followed source, respCmd may fail | pass | `ImplementsBatchedStream` (refinement) and `EveryLineFlushed`: a line read from a quiet followed log is still shipped, by the idle timer, unless a send fails. |
| config_instances | `MCConfigInstances.cfg`: one agent key, 2 connections, one register each, one SDK that may leave, one new version, 2 reports | pass | `InstTypeOK`: the reachable states of the composition (rows, requests in each handler stage, callbacks) are well formed; the run fires every instance-table action. What the table should promise, `InstancesTrackSdks`, fails in the code: see the three `MCConfigInstances_*` further checks. The NotReady callback keyed by the ended entry's Key is not a property of its own: it holds by the shape of `ConnEnd`, and its failure case, a register handled after ConnEnd, is `MCClientTunnel_zombie.cfg`. |
| client_tunnel | `MCClientTunnel.cfg`: one agent, one transport or dial failure, 3 transports, 3 stream goroutines, one manager request | pass | `AgentReachable`: once failures stop, the ClientConn is Ready and the registry maps that transport to the agent, through gRPC's redial racing PollConn's close, stale stream goroutines, a missed TransientFailure and a late ConnEnd. `ResponseSent`: a received request is answered; respCmdSure never waits on a readyCh nobody closes. |
| config_sequential | `MCConfigServer_seq.cfg`: a templated config, one config and one template handler; template adds and updates, edits with one replacement value and two descriptions, template reloads, releases (the agent answers or not) and rollbacks; 4 versions, 2 template versions, 3 releases | pass | `VersionDataIntact`, `RenderedFromTemplate` and `ImplementsConfigHistory`: served one at a time, the handlers keep each version's file equal to its row, render every version from the template version its row names (the page's data and ID, the reload's, and a rollback's copied ID), and implement the abstract history, a version's content being its data with its TemplateVersionID and Desc. |
| config_progress | `MCConfigServer_progress.cfg`: two handlers; edits, releases, imports | pass | `HandlersReturn`: every started request returns. Lock waits end, and the opposite lock orders of UpdateConfig and releaseConfig form cycles that InnoDB breaks. |
| template_updates | `MCConfigServer_template.cfg`: two template handlers adding and updating one template; 3 versions | pass | `ImplementsTemplateHistory`: the committed template versions stay a history of changed contents however the two handlers interleave (the unique version key makes the second of two equal-numbered inserts fail). |
| vm_queues | `MCVersionManager.cfg`: 3 versions, 4 commands (one repeated), threshold 2 | pass | `TaskNeverLost`: every released version is pending, downloaded or given up, while the worker and the retry round share the failure queue. `FailuresDrain`: retrying ends. |
| auth | `MCAuth.cfg`: one user with the reader and custom roles, two read routes (one excluded) and a write route, one path parameter with two values, a restricted custom resource, 2 failing calls, 1 restart | pass | `FilterSound`: every request `AuthFilter` lets through is excluded, skipped, or allowed by the user's resources, whatever the token and the order of the resources. `UploadRelates`: an upload that finishes, after uploads that failed part way (before or after a call took effect) and a restart, leaves every role and every route's resource in place and related to its role. |
| agent_sync | `MCAgentSync.cfg`: 2 SDK connections, 1 file worker, 1 notify worker, 2 versions, give up after 2 failures | pass | `NotifyResolved`: every connection owed a `fileupdated` notification is told, cancelled or given up on, through NotifyUpdate, the notify queue and retries. |
| file_sync | `MCAgentFileSync.cfg`: one file, one version (released by ReleaseConfig or one ReleaseNamespace, or rolled back and retried), 2 connections, 1 restart, an SDK without the file | pass | `TypeOK`, `ReconnectRepairs`: a released file with no local content while the tunnel is down gets a version again, through file and package releases, lost commands, a restart that loses the download queue, 404 markers from refreshes answered before the release committed, and the full refresh marking up-to-date files. |
| file_store | `MCFileStore.cfg`: the manager's cas driver; two writers storing two contents into one path, two readers, 3 Puts, one restart | pass | `ImplementsAtomicStore` (refinement of `AtomicFileStore`): a read returns a whole stored content with its own digest, whatever Puts overlap it or are interrupted. `AtRestConsistent`: with no Put in flight, a readable metadata names a blob that exists. |

Every property of a passing run has a mutant in PROJECT.json that breaks it. Each mutant is a plausible bug in the mapped code:

- dropping the re-check under the lock;
- `<=` instead of `<` for the channel capacity;
- a timer that is never armed;
- `>` instead of `>=` at the batch boundary;
- forgetting `timer.Reset`;
- a producer that ignores the channel capacity;
- ConnEnd reading the key after the delete;
- storing an edit at the old version's path;
- `ReloadTemplate` keeping the config's TemplateVersionID while rendering the latest template data;
- releasing without the "nothing new to release" check;
- a release whose agent answer neither commits nor rolls back;
- an off-by-one in a give-up threshold (retry loop, notify worker);
- the retry round overwriting the failure queue instead of appending;
- a failed retry put back without counting the failure;
- a failed SDK notification not queued for a retry;
- a receive error handled like io.EOF (`continue`), so a stream goroutine on a dead transport never ends;
- `SetConn` without `close(readyCh)`;
- a ConnEnd handled for a connection already ended (the nil `conns[tag]`);
- `isTemplateNeedNewVersion` returning true without comparing the digest;
- `fileSyncHandler` answering only for the files the agent sent (iterating the request instead of the site's configs);
- `CmdContentHandler` queuing a download for a "not found" answer;
- cas `Put` with its `Exist` check inverted (renaming only over an existing blob);
- the upload fetching every role name rather than the roles with routes (`roleResources`);
- relating only the resources the upload just created, not the existing unrelated ones;
- `Authenticated` not comparing the resource's name with the request's route;
- cas `Get` opening the blob the metadata names at open time rather than the digest it read.

### Further checks

These configurations state a property that the code violates, and TLC finds
the violation. They are kept beside the runs above and can be run the same way
(`tlc -config <cfg> <MC module>`):

| Config | Module | Property | What TLC finds |
|---|---|---|---|
| `MCConfigServer_race.cfg` | MCConfigServer | `VersionDataIntact` | Two handlers editing: both edits write the file of version 2; the committed row names one content and the file holds the other. |
| `MCFileStore_fsread.cfg` | FileStore | `ImplementsAtomicStore` | With the agent's FSStorage, a read takes v1's metadata, a Put renames v2's data in, and the read opens v2: the content of v2 goes out with the digest of v1. |
| `MCFileStore_fstear.cfg` | FileStore | `AtRestConsistent` | With FSStorage, two Puts of one path rename their data in one order and write their metadata in the other: at rest the metadata names v1 and the data file holds v2. |
| `MCCmdManager_order.cfg` | MCCmdManager | `StreamInOrder` | Writer goroutines of chunks 1 and 2 of one stream take the lock in the wrong order. |
| `MCCmdManager_close.cfg` | MCCmdManager | `CloseReachesResponder` | A writer blocks holding the lock on a full buffer; the user closes, the reader exits, and `safeCloseBuffer` waits forever, so CloseStream is never sent. |
| `MCCmdManager_close2.cfg` | MCCmdManager | `CloseReturns` | A second `Resp.Close`, or Close of a data Resp, blocks forever on the unreceived `close` channel. |
| `MCCmdManager_leak.cfg` | MCCmdManager | `StreamReleased` | After the close reaches the responder, `executor.streams` still holds the entry. |
| `MCCmdManager_mapwrite.cfg` | MCCmdManager | `ExecMapExclusive` | Two `processReq` goroutines write `executor.streams` at once (a fatal "concurrent map writes"). |
| `MCStreamFlush_leak.cfg` | StreamFlush | `ProducerExits` | After respCmd fails, the producer stays blocked on the full line channel. |
| `MCConnRegistry_status.cfg` | ConnRegistry | `StatusTracksRegistry` | Once every callback ran, the cluster status can disagree with the registry. |
| `MCClientTunnel_zombie.cfg` | ClientTunnel | `RoutesOnlyLive` | A register command received just before the transport died is handled after the server's ConnEnd; `SaveConn` stores an entry for the ended connection that is never deleted, and `GetConnValue` keeps returning its dead stream. |
| `MCCmdManager_lost.cfg` | MCCmdManager | `NoReplyLost` | One untimed data call: the reply is handled between `sendCmd` and the registration in `waitForResp`, and is skipped. |
| `MCConfigServer_tdata.cfg` | MCConfigServer | `RenderedFromTemplate` | Two template handlers, one with unchanged content, and a templated config. The unchanged UpdateTemplate stores at old+1 after the other update stored there and before it commits version old+1, so the committed template version's file holds the other content; then `AddConfig` (or `ReloadTemplate`) renders a config version from that file under TemplateVersionID 2, whose row names the other content. |
| `MCConfigServer_tlatest.cfg` | MCConfigServer | `TemplateLatestIsNewest` | An UpdateTemplate without a new version commits after one that created version 2 and writes LatestVersionID 1 back. |
| `MCConfigServer_pointer.cfg` | MCConfigServer | `CurrentIsNewest` | An edit and a release each write back the ConfigCurrent they read before the other committed, and one pointer is lost. |
| `MCConfigServer_import.cfg` | MCConfigServer | `VersionDataIntact` | A re-import stores at version 1 and then fails on the duplicate insert; the file of version 1 is overwritten. |
| `MCConfigServer_agent.cfg` | MCConfigServer | `AgentRunsReleased` | A release whose SendSync times out is rolled back after the agent queued, and then downloads, the version. |
| `MCVersionManager_regress.cfg` | VersionManager | `NeverRegress` | A failed older download retried after a newer one succeeded puts the older version back. |
| `MCVersionManager_intact.cfg` | VersionManager | `LatestIntact` | A body whose digest does not match is left stored as the local latest file. |
| `MCAgentSync_fm.cfg` | AgentSync | `FileMapperTracksDisk` | Two file workers apply `FM.Update` out of order; the FileMapper stays on the older digest. |
| `MCAgentSync_nilapp.cfg` | AgentSync | `NoNilAppDeref` | An SDK content request runs before the Ready goroutine registered its app; `RegisterFileToApp` dereferences nil. |
| `MCAgentFileSync_pkgkey.cfg` | MCAgentFileSync | `PackageAckQueued` | Two ReleaseNamespace calls of one package: the first times out after the agent queued the package; the package is downloaded and installed, a refresh answered earlier stores the 404 marker, and the second command is merged on the key the download never removed. The agent answers success, the release commits, and nothing fetches the package. |
| `MCAgentFileSync_keep.cfg` | MCAgentFileSync | `KeepsReleasedCopy` | A content request for a file with no local copy is answered by the manager before the release commits (file omitted); the release commits, its download stores v1, and the handler then stores the 404 marker over v1. |
| `MCAgentFileSync_delivered.cfg` | MCAgentFileSync | `DeliveredEventually` | The agent downloads v1 while ReleaseConfig still waits to commit; an SDK report refreshes the file (the mapper has no entry yet), the manager still shows no release, and the marker replaces v1. After the commit nothing fetches v1 again until the next connection. |
| `MCConfigInstances_cancel.cfg` | MCConfigInstances | `InstancesTrackSdks` | The OnReady report of the SDK and its `appcancel` are handled out of order; the create after the delete leaves a row for an SDK that is gone. |
| `MCConfigInstances_order.cfg` | MCConfigInstances | `InstancesTrackSdks` | Two reports of one SDK (d2, then d1 from an older refresh) both read the row; the older one writes last, and the row says d1 while the SDK holds d2. |
| `MCConfigInstances_lost.cfg` | MCConfigInstances | `InstancesTrackSdks` | The agent registers a second connection while the first is live; the content report goes out on the first, which ends, so the report is lost and nothing sends it again. |
| `MCAuth_access.cfg` | Auth | `FilterAsIntended` | The user's only resource for a read route is the custom role's restricted one, and a request with an allowed value is refused: `Authenticated` goes on past a restricted resource that allows it and denies at the end. |
| `MCAgentConfig.cfg` | AgentConfig | `InputOverFileOverDefault` | A config file that sets `workDir: ""` yields the default work dir. The same check, restricted, finds the other two ways the order breaks: a flag given its default value (`--work-dir /etc/galaxy`) loses to the file's value, and a flag given an empty value (`--id ""`) loses to the file's. Restricted to values neither empty nor the default, the order holds for every input. |
| `MCAgentFileSync_stale.cfg` | MCAgentFileSync | `NoStaleOverwrite` | With v2's task queued, an SDK report's refresh queues the released v1 again behind it; v2 commits and is stored, then v1 overwrites it. |

### Findings

1. **Send before register** (`cmdmanager.go:59`; checked by the further check `MCCmdManager_lost.cfg`). The spec says the pending queue is registered before sending. `SendSync` sends first, and a fast reply is dropped as "buffer deleted". A `SendSync(req, 0)` call, such as the container-log follow, then hangs forever.
2. **Concurrent edits corrupt a version** (`configserver.go:236`; further check `MCConfigServer_race.cfg`). `storeConfigData` writes the path of version old+1 before the transaction learns whether that version is new. The version row that commits can name content the file no longer holds, and agents download the wrong content with a digest mismatch.
3. **Stale ConfigCurrent written back** (`configserver.go:223`; checked by the further check `MCConfigServer_pointer.cfg`). Handlers read ConfigCurrent outside their transaction and `Updates` the whole struct. An edit and a release lose each other's pointer, and a later release or edit reuses a number.
4. **Nil app dereference** (`sync.go:208`; further check `MCAgentSync_nilapp.cfg`). The Ready callback runs in a goroutine; an SDK content request handled before it (or after CancelApp) dereferences a nil app, and the agent process dies.
5. **Template pointer moved back** (`configserver.go:1084`; further check `MCConfigServer_tlatest.cfg`). `UpdateTemplate` reads the template outside its transaction and `Updates` it with the LatestVersionID it read. An update with unchanged content that commits after one that created a version moves the pointer back. Every later update with new content then inserts the existing version number and fails on the unique key, so the template cannot be changed any more. The same stale read plus the store at old+1 lets the unchanged update overwrite the new version's file (`configserver.go:1057`); configs created or reloaded from that template version are then rendered from the wrong template data (`MCConfigServer_tdata.cfg`). `ReloadTemplate` also drops the error of `getConfigTemplate` (`configserver.go:919`): for a config whose template is gone it dereferences a nil version and the request panics (before any write).
6. **404 markers for released files** (`agent/cmdhandler.go:245`; further checks `MCAgentFileSync_keep.cfg`, `_delivered.cfg`, `_stale.cfg`). `fileSyncHandler` and `fileRefreshHandler` answer with the files whose release digest differs from the agent's, and `refreshAgentFDBFromRemote` reads every file left out as nonexistent and stores a 404 marker. So each connection's full refresh marks every up-to-date file of the mapper 404 until its local scan refetches them, and SDKs asking meanwhile get 404. A refresh answered before a release commits and applied after the release's download replaces the new version with a marker that nothing repairs before the next connection. A refresh of the released version queued behind a newer release's download puts the older version back (`agent/cmdhandler.go:226`).
7. **The agent's file store is not atomic** (`filedb/storage.go:124` and `:109`; further checks `MCFileStore_fsread.cfg`, `MCFileStore_fstear.cfg`). The agent builds its file db with `CasDisable: true` (`agent.go:71`), so each path's content is a data file beside its metadata, replaced by a rename and then described by a separate metadata write. `CmdContentHandler` reads the metadata and then opens the data: while the download worker stores the next version, it sends the SDK the new content under the old digest, and its completion callback reports that digest to the manager. The download worker and the retry loop both call `doDownload`, and refreshes store 404 markers from their own goroutines; two Puts of one path can leave one's metadata over the other's data, which `ExistsFile` then reports as current, so the local scan does not repair it. The manager's cas driver keeps the digest in the blob's name and passes both checks (run file_store).
8. **A package's download key is never removed** (`vm.go:248`; further check `MCAgentFileSync_pkgkey.cfg`). `AddDownloadPackageTask` records the key namespace/digest but gives the task Args `[namespace]`, and `popDownloadTask` deletes `strings.Join(task.Args, "/")`, the namespace. Every later `CmdNSPackageHandler` for that package, until the agent restarts, is merged away and answered with success, so a retried ReleaseNamespace commits while the agent never downloads it again.
9. **The instance table drifts from the SDKs** (`cmdmanager.go:234`, `configinstance.go:131`, `agent/cmdhandler.go:276`; further checks `MCConfigInstances_cancel.cfg`, `_order.cfg`, `_lost.cfg`). The manager handles each request in a goroutine of its own, so an SDK's `fileupdated` and its `appcancel` are applied in either order, and a create after the delete leaves the instance listed after it left. `SaveConfigInstance` reads the row and then updates it outside a transaction, so of two reports the older may be written last. A report sent on a connection that then ends is lost: `reportUpdatedInfoToRemote` leaves it at "TODO: report again", and only the next OnReady hook reports again. Quiet, with every request handled, the table can still name a digest the SDK does not hold, or an SDK that is gone.

10. **A restricted resource never grants access** (`auth_manager.go:77-96`; further check `MCAuth_access.cfg`). For a resource with restricted data, `Authenticated` returns false on a key that does not allow the request, but when every key allows it the loop continues, and the loop's end returns false. So a restricted resource can only deny: a user whose roles give only restricted resources for a route is refused every request, and a restricted resource listed before the reader's `"*"` resource of the same route denies a request the `"*"` one allows, depending on the order `GetUserResources` returns. The comment says the function checks whether the user can access the resource. `FilterSound` (run auth) shows the filter never lets through more than the resources allow. Also, an upload that fails part way is not retried until the manager restarts (`auth_manager.go:219`): `UploadRelates` shows the next upload repairs what the earlier one left.
11. **The agent's configuration order holds only for non-zero, non-default values** (`options.go:186-208`, `reflect.go:69` and `:274`; further check `MCAgentConfig.cfg`). `completeConfig` promises "input args > load from file > default args". But `Diff` zeroes a field equal to the default, and `Union` skips a blank field. So a flag given the default value is ignored whenever the file sets that field, and a flag given a zero value (`--ttl 0`, `--id ""`) is always ignored: the file's value or the default applies. A file value equal to zero (`burst: 0`, `workDir: ""`) is also ignored, and the default applies.

The further checks above are findings of the same kind: stream chunks reordered, the close deadlock, a second Close blocking, the executor's stream map leaking and written concurrently, a producer leak, the cluster status after reconnects, the import overwriting version 1, a registry entry left behind for an ended connection (`cmdserver.go:48` with `connmanager.go:99`: manager commands to the agent fail intermittently until the manager restarts), a timed-out release still downloaded, an older version installed after a newer one, an unverified body kept, and the FileMapper left behind.

### Bounds

- **Channel capacities.** Buffer capacity 1 (for `MaxBufferSize`=200) and a line channel of 2 make "full" reachable within 2–3 packages. Every blocking path of the code depends only on whether a channel is full or empty, not on its size. The same holds for `fileChan` (capacity 1 for 100).
- **Chunks.** Three chunks give the full-buffer case one extra package in flight. Two chunks suffice for reordering.
- **Batching.** Five lines with a batch of 2 give full batches, a partial batch, and a trailing line that only the timer can flush.
- **Registry.** Two connections and two keys cover reconnection (two tags, one key) and independent agents.
- **Client tunnel.** One failure is enough for every path of the reconnect: gRPC's redial or PollConn's close-and-dial, the redial racing `CloseConn` (which costs a second transport, hence 3), a register lost with its transport, and the register handled after ConnEnd. Three goroutine slots hold the stale goroutine, the current one and one more; two failures were explored for safety only (7.7 million states) and are beyond the liveness budget.
- **Config server.** Two handlers are enough for every pairwise interleaving of two requests, every lock cycle, and a deadlock victim. Two contents let an edit change or keep the content. Four versions and three releases give a rollback to the release before the last. The sequential run is templated: two template versions, two template data and two descriptions give an edit that changes only the description, a reload onto a new template version, and a rollback onto a version of the older template version. Templates: two handlers and three versions give two updates racing from the same version, an unchanged update beside a changing one, and an update after the pointer moved back.
- **Version manager.** Three versions and four commands give a repeated command (merged or queued again), a worker failure appended during a retry round, and a give-up after threshold 2.
- **Agent file sync.** One file is enough: answers, markers and tasks are per file. One version, released or rolled back (and retried), gives every race between a release's transaction, its download and a refresh; the stale-overwrite check needs two (`MCAgentFileSync_stale.cfg`). Two connections give a reconnect after a connection that marked files, and one restart loses the queue and reloads the dump, so a restart and a reconnect both follow a marking refresh. Three connections (a reconnect after a reconnect) with the package path take 4.5 minutes alone and were checked once (723,333 states, passing); the run keeps two. Two versions with three connections take over 5 minutes with liveness. One ReleaseNamespace (`MaxNsReleases`) adds the package path to the run; the package-key check needs two, a release and its retry. The keep, delivered and stale checks run without it (`MaxNsReleases` 0), so their traces are the file-release ones described.
- **File db drivers.** Two writers give every order of two Puts' renames, truncations and writes; three Puts let one writer store again while the other is mid-Put; two readers let a `Get` and an `Exists` overlap the same Put; one restart interrupts a Put at each of its steps. Two contents are enough for a read to mix two versions.
- **Config instances.** One SDK is enough: rows are per SDK and never interact. Two connections of one key give a reconnect (the late NotReady delete and a report lost with its connection); one new version gives two digests to report out of order; two reports give a report beside an `appcancel` or a second report. Four reports take 12 minutes.
- **Auth.** One user is enough: requests are answered one at a time against the service's state. The reader and custom roles with one restricted resource give a route both a `"*"` and a restricted resource, in either order. Two read routes (one excluded) and a write route give both built-in roles resources and an excluded route. One key with two values gives a request the restricted resource allows and one it does not. Two failures let one upload fail part way in two places, or two uploads fail; one restart gives the upload after a failed one. The run takes under two minutes.
- **Agent configuration.** Three values per scalar (zero, default, other) are every case `Diff` and `Union` tell apart. Five fields, one of them nested, give a flag with an empty default (ID), one with a non-empty default (WorkDir), a file-only field, and a nested struct with a bool. All 16,384 inputs are checked.
- **Agent sync.** Two connections give a failing and a succeeding notification in one NotifyUpdate, and a cancel of one connection while the other is notified. `MaxFailedCount` 1 gives both a retry and a give-up. Two file workers are needed to reorder updates (the further check); the passing run uses one to stay within minutes.

### Fairness

Go schedules every runnable goroutine eventually. So each goroutine the code starts gets weak fairness:

- the reader, writer, closer and producer goroutines;
- the receive loops;
- the responder;
- callback goroutines;
- the version manager's worker and retry loop;
- the updater's dispatcher and file workers, and the syncer's notify workers;
- the FileMapper's dump loop, the agent's command handlers, the content handler, and `syncLocalData`, which retries a failed refresh every second.

`SendSync` returns within its 3 s timeout, so ReleaseConfig ends in a commit or a rollback (weak fairness on either). `StartListen` redials forever, so the agent reconnects (`Connect`, weakly fair); disconnects and restarts are bounded.

Steps that wait for a lock get strong fairness, because other goroutines take and release the lock repeatedly, so it is enabled only intermittently:

- per-id `sync.Mutex`: Go mutexes also switch to starvation mode, which hands the lock to a waiter that has waited more than 1 ms;
- InnoDB row and key locks: InnoDB grants waiters in order, and its deadlock detector fails one statement of every cycle.

gRPC keeps redialling a ClientConn in TransientFailure (`AutoReconnect`, weak fairness), and the server's transport notices a dead TCP connection, so `ServerConnEnd` is weakly fair: keepalive is commented out on both ends, but Go's net package enables TCP keepalive (15 s) by default. `WaitStates` gets none: `ConnOnStates` can miss a short TransientFailure.

Time passes: `Tick` in AgentSync (scheduled notify tasks become due) is weakly fair. It is enabled whenever a task is not yet due.

`closeCmdStream` retries forever with capped backoff. Its fairness assumes the network eventually delivers.

Some steps get no fairness, because the program does not force them:

- the user of a stream Resp (reading and closing);
- transport and dial failures;
- making a call, a REST request, a release command or an SDK connection;
- `CloseSource` in StreamFlush: whether the requester ever closes is up to its user.

`AgentFileSync` assumes weak fairness only for what `ReconnectRepairs` needs: `Connect`, the download worker (`DownloadFile` or `DownloadPackage`, one goroutine) and each connection's `syncLocalData`. Command handlers, file and package workers, the dump loop and the releases' commit or timeout also finish in the code, but the property holds without assuming it, which makes it stronger.

`ConfigInstances` assumes weak fairness only for the callback goroutines, as `ConnRegistry` does; its run checks safety only, so the fairness does not change what it shows.

`Auth` states safety only and assumes no fairness: requests keep coming, so it never stops.

`FileStore` states safety only and assumes no fairness: its readers read again forever, so it never deadlocks.

Runs use `CHECK_DEADLOCK FALSE` because each model's workload is bounded. Once the bounded calls, requests and versions are used up and handled, the system really does stop.

## Plan

Built so far: `CmdManager`, `StreamFlush` with `BatchedStream`, `ConnRegistry`, `ConfigServer` with `ConfigHistory`, `VersionManager`, `AgentSync`, `ClientTunnel`, `AgentFileSync`, `FileStore` with `AtomicFileStore`, `ConfigInstances`, `Auth`, `AgentConfig`.

`TimedCallReturns` (two timed data calls always return, with the reply or the timeout, even when the reply is lost or skipped) holds for `CmdManager` with `Ids = TimedIds = {d1, d2}`, `StreamIds = {}`, `MaxChunks = 1`, `BufCap = 1`; with a stream call it fails on the close deadlock of `MCCmdManager_close.cfg`. The run list has room for twelve, and the auth run took the place of that configuration.

Planned next, in order:

1. **`ServerTunnel`.** It composes `ConnRegistry` with `CmdManager`'s routing: `Execute`, `handleRegisterIfNeed`, `reqCmd` through `GetConnValue`, and `respCmd` retries. `ClientTunnel` already has `handleRegisterIfNeed` and `reqCmd`; this adds the server's `Execute` loop over several agents and the nil-`Value` panic of an unregistered connection.
2. **`CmdManager` extensions**: `SendAsync`, and the reader goroutine leaked when a timeout wins the race against the notify.
3. An abstract **`RpcCall`** spec: a call returns its own reply or an error, and stream chunks arrive in order.

## Not modelled

- **Payloads and encodings.** Command names, args, protobuf encodings, `strings.Join` of lines, JSON of the FileMapper dump, and log output. The properties never tell payloads apart, so a package is a UUID and a chunk number, and a config content is its digest.
- **TLS and PKCS12 loading, and the gRPC transport internals.** These are pure I/O. The transport is assumed to deliver in order on each stream.
- **The rest of ReleaseNamespace.** Its error paths before the send (query, pack, store, no connection) roll back with nothing sent; a release of a namespace with no created or updated config (an empty package) is left out; its rows are ConfigServer's. The package's SDK notifications are AgentSync's. `FileMapper.Diff` is abstracted to its one effect in `SdkReport` (a file the mapper lacks).
- **The file db's `Package`, `GetByDigest` and `DeleteByDigest`.** Packaging is the namespace release path, not yet modelled; nothing calls `DeleteByDigest` (`CleanPackageDirtyData` is commented out at its one call site), and the cas version calls itself forever. FSStorage's deleted-flag branch has no caller.
- **The manager's REST layer (`rest/configserver.go`, `rest/app.go`), the model CRUD wrappers (`model/...`) and the file db's raw file I/O (`filedb/db.go` beyond the config and template path helpers ConfigServer uses), MySQL, the storage URL helpers, JWT signing, metrics and the CLI bootstrap.** They are request decoding, plumbing and I/O. Their effect on the modelled components is the rows and files ConfigServer models, and the calls the models take as inputs.
- **The auth SDK's HTTP details** (`sdk.go`: request building, JSON, `LoginBySecret`, group and user queries). `Outcomes` stands for what a call can do to the caller. If the auth service has no root role, `UploadAuthRolesAndResources` dereferences a nil `rootRole`; the model assumes a service with one.
- **Renaming a config.** `UpdateConfig` may change a config's Name and Namespace, which moves its file path; the model keeps both fixed and compares only the Desc, the data and the TemplateVersionID in `isConfigNeedNewVersion`.
- **The git and docker import backends (`git.go`), and the reflect utilities (`reflect.go`) beyond the `Diff`, `Union` and `isBlank` that `AgentConfig` models.** Pure I/O and data conversion, with no concurrency of their own.

The map covers about a fifth of the implementation's lines. Most of the rest is of the kinds above: REST handlers that decode a request and call a modelled handler, CRUD wrappers over the database, protocol and type definitions, and I/O backends. Modelling them would add actions that are the identity on every property's state, so the project's runs concentrate on the concurrent and failure-prone parts listed under Hazards.
