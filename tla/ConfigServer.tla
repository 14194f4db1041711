----------------------------- MODULE ConfigServer -----------------------------
(***************************************************************************)
(* The config lifecycle of configManager                                   *)
(* (src/pkg/manager/configserver/configserver.go) for one config file,    *)
(* served by concurrent REST handler goroutines.  Each handler opens a    *)
(* gorm transaction but reads ConfigCurrent and ConfigVersion through     *)
(* db.Get(), outside it (committed data, no lock); the content goes to    *)
(* the file db path site/ns/name/<version> at once, outside any           *)
(* transaction; inserts and updates inside the transaction take InnoDB    *)
(* locks (unique-index keys, rows) held until Commit or Rollback, and     *)
(* UpdateConfigCurrent writes every non-zero field of the struct the      *)
(* handler read.  A release commits only after the agent answered the     *)
(* CmdNSFileHandler command (SendSync, 3 s).                               *)
(* Data is abstracted to a content (the CAS digest of the data); row ids  *)
(* of versions and releases to their version numbers, unique per config. *)
(***************************************************************************)
EXTENDS Naturals, FiniteSets

CONSTANTS
    Handlers,   \* REST handler goroutines serving config requests
    THandlers,  \* REST handler goroutines serving template requests
    Contents,   \* contents a user may submit (equal content = equal digest)
    None,       \* no row / no file / no content
    MaxVer,     \* bound on version numbers
    MaxRel,     \* bound on release numbers
    MaxTVer,    \* bound on template version numbers
    Ops,        \* operations the users call: "update", "release", "rollback",
                \* "import", "reload", and on the template "tadd", "tupdate"
    Templated,  \* the config is a properties file rendered from the template
    Replaces,   \* replacement data a user may give a templated config
    Descs       \* descriptions a request may carry (0 is the empty one)

ASSUME Ops \subseteq {"update", "release", "rollback", "import", "reload", "tadd", "tupdate"}
ASSUME Templated \in BOOLEAN
ASSUME Descs \subseteq Nat

(* The data of a config version.  A templated config's data is            *)
(* mergeTemplateAndReplace of the template data and its replacement data *)
(* (stored beside it at the same version path), so it stands for the pair;*)
(* a plain config's data is a content.                                    *)
CContents == IF Templated THEN [t : Contents, r : Replaces] ELSE Contents

VARIABLES
    exists,     \* AddConfig has committed the config
    versions,   \* committed ConfigVersion rows: version -> digest
    vtmpl,      \* committed ConfigVersion rows: version -> TemplateVersionID
    vdesc,      \* committed ConfigVersion rows: version -> Desc
    idesc,      \* the committed ConfigInfo row's Desc
    releases,   \* committed Release rows: release -> [ver, digest]
    current,    \* the committed ConfigCurrent row (0 = no id)
    files,      \* file db: version path -> content
    held,       \* InnoDB locks held by each handler's transaction
    pc,         \* where each handler is
    snap,       \* the ConfigCurrent struct the handler read
    arg,        \* content the handler writes (update, import, rollback data)
    atv,        \* the TemplateVersionID the handler writes with it
    adesc,      \* the Desc of the ConfigInfo struct the handler writes
    prev,       \* old digest (update, import, rollback row) or old release
    num,        \* the version or release number the handler creates
    tx,         \* the handler's uncommitted writes
    agentQ,     \* versions the agent was told to download
    agent,      \* the content the agent last downloaded
    texists,    \* AddTemplate has committed the template row
    tversions,  \* committed TemplateVersion rows: version -> digest
    tlatest,    \* the committed template's LatestVersionID (0 = none)
    tfiles,     \* file db: template version path -> content
    theld,      \* InnoDB locks held by each template handler's transaction
    tpc,        \* where each template handler is
    tsnap,      \* LatestVersionID of the template row the handler read
    targ,       \* the Data the handler stores
    tprev,      \* digest of the version the handler read
    ttx         \* the handler's uncommitted TemplateVersion insert

cvars == <<exists, versions, vtmpl, vdesc, idesc, releases, current, files, held,
           pc, snap, arg, atv, adesc, prev, num, tx, agentQ, agent>>
tvars == <<texists, tversions, tlatest, tfiles, theld, tpc, tsnap, targ, tprev, ttx>>
vars == <<cvars, tvars>>
local == <<snap, arg, atv, adesc, prev, num>>

Cur == [latest : 0..MaxVer, rel : 0..MaxRel, pre : 0..MaxRel]
NoCur == [latest |-> 0, rel |-> 0, pre |-> 0]
Rel == [ver : 0..MaxVer, digest : CContents \cup {None}]
NoRel == [ver |-> 0, digest |-> None]
Tx == [ver : 0..MaxVer, vdig : CContents \cup {None}, vtv : 0..MaxTVer, vdsc : Descs,
       rel : 0..MaxRel, rrec : Rel, cur : Cur, idsc : Descs]
NoTx == [ver |-> 0, vdig |-> None, vtv |-> 0, vdsc |-> 0, rel |-> 0, rrec |-> NoRel,
         cur |-> NoCur, idsc |-> 0]

TTx == [ver : 0..MaxTVer, vdig : Contents \cup {None}]
NoTTx == [ver |-> 0, vdig |-> None]

InfoLock == <<"info", 0>>
CurLock == <<"cur", 0>>
LockNames == {InfoLock, CurLock} \cup ({"ver"} \X (1..MaxVer))
                                 \cup ({"rel"} \X (1..MaxRel))

(* Template locks: the (Name, Namespace) key of the template row, the     *)
(* (Name, Namespace, Version) keys of its versions, the template row.    *)
TmplKey == <<"tmpl", 0>>
TRowLock == <<"trow", 0>>
TLockNames == {TmplKey, TRowLock} \cup ({"tver"} \X (1..MaxTVer))

TPCs == {"idle", "ta_store", "ta_ver", "ta_upd", "tu_store", "tu_ver", "tu_upd"}

PCs == {"idle", "u_store", "u_ver", "u_info", "u_cur", "r_rel", "r_cur",
        "r_info", "r_send", "b_ver", "b_store", "b_cur", "b_info",
        "i_store", "i_ver"}

TypeOK ==
    /\ exists \in BOOLEAN
    /\ versions \in [1..MaxVer -> CContents \cup {None}]
    /\ vtmpl \in [1..MaxVer -> 0..MaxTVer]
    /\ vdesc \in [1..MaxVer -> Descs]
    /\ idesc \in Descs
    /\ releases \in [1..MaxRel -> Rel]
    /\ current \in Cur
    /\ files \in [1..MaxVer -> CContents \cup {None}]
    /\ held \in [Handlers -> SUBSET LockNames]
    /\ pc \in [Handlers -> PCs]
    /\ snap \in [Handlers -> Cur]
    /\ arg \in [Handlers -> CContents \cup {None}]
    /\ atv \in [Handlers -> 0..MaxTVer]
    /\ adesc \in [Handlers -> Descs]
    /\ prev \in [Handlers -> CContents \cup {None} \cup 0..MaxRel]
    /\ num \in [Handlers -> 0..(MaxVer + MaxRel)]
    /\ tx \in [Handlers -> Tx]
    /\ agentQ \subseteq 1..MaxVer
    /\ agent \in CContents \cup {None}
    /\ texists \in BOOLEAN
    /\ tversions \in [1..MaxTVer -> Contents \cup {None}]
    /\ tlatest \in 0..MaxTVer
    /\ tfiles \in [1..MaxTVer -> Contents \cup {None}]
    /\ theld \in [THandlers -> SUBSET TLockNames]
    /\ tpc \in [THandlers -> TPCs]
    /\ tsnap \in [THandlers -> 0..MaxTVer]
    /\ targ \in [THandlers -> Contents \cup {None}]
    /\ tprev \in [THandlers -> Contents \cup {None}]
    /\ ttx \in [THandlers -> TTx]

Init ==
    /\ exists = FALSE
    /\ versions = [v \in 1..MaxVer |-> None]
    /\ vtmpl = [v \in 1..MaxVer |-> 0]
    /\ vdesc = [v \in 1..MaxVer |-> 0]
    /\ idesc = 0
    /\ releases = [r \in 1..MaxRel |-> NoRel]
    /\ current = NoCur
    /\ files = [v \in 1..MaxVer |-> None]
    /\ held = [h \in Handlers |-> {}]
    /\ pc = [h \in Handlers |-> "idle"]
    /\ snap = [h \in Handlers |-> NoCur]
    /\ arg = [h \in Handlers |-> None]
    /\ atv = [h \in Handlers |-> 0]
    /\ adesc = [h \in Handlers |-> 0]
    /\ prev = [h \in Handlers |-> None]
    /\ num = [h \in Handlers |-> 0]
    /\ tx = [h \in Handlers |-> NoTx]
    /\ agentQ = {}
    /\ agent = None
    /\ texists = FALSE
    /\ tversions = [v \in 1..MaxTVer |-> None]
    /\ tlatest = 0
    /\ tfiles = [v \in 1..MaxTVer |-> None]
    /\ theld = [h \in THandlers |-> {}]
    /\ tpc = [h \in THandlers |-> "idle"]
    /\ tsnap = [h \in THandlers |-> 0]
    /\ targ = [h \in THandlers |-> None]
    /\ tprev = [h \in THandlers |-> None]
    /\ ttx = [h \in THandlers |-> NoTTx]

-----------------------------------------------------------------------------
(* Transactions.                                                           *)

(* The lock the handler's next statement needs.                            *)
Wants(h) ==
    CASE pc[h] \in {"u_ver", "b_ver"} -> <<"ver", num[h]>>
      [] pc[h] = "i_ver"               -> <<"ver", 1>>
      [] pc[h] = "r_rel"               -> <<"rel", num[h]>>
      [] pc[h] \in {"u_cur", "r_cur", "b_cur"}  -> CurLock
      [] pc[h] \in {"u_info", "r_info", "b_info"} -> InfoLock
      [] OTHER -> <<"none", 0>>

(* No other transaction holds lock l: h may take it (or already has it).  *)
Free(h, l) == \A g \in Handlers \ {h} : l \notin held[g]

Take(h, l) == held' = [held EXCEPT ![h] = @ \cup {l}]

(* gorm Updates(struct): only the struct's non-zero fields are written.    *)
Updates(row, s) == [f \in DOMAIN row |-> IF s[f] # 0 THEN s[f] ELSE row[f]]

(* The handler returns: its locals are gone.                               *)
Return(h) ==
    /\ pc' = [pc EXCEPT ![h] = "idle"]
    /\ snap' = [snap EXCEPT ![h] = NoCur]
    /\ arg' = [arg EXCEPT ![h] = None]
    /\ atv' = [atv EXCEPT ![h] = 0]
    /\ adesc' = [adesc EXCEPT ![h] = 0]
    /\ prev' = [prev EXCEPT ![h] = None]
    /\ num' = [num EXCEPT ![h] = 0]

(* tx.Rollback() and return: the writes are dropped and the locks         *)
(* released; the file db is not transactional and keeps what was stored. *)
Abort(h) ==
    /\ Return(h)
    /\ held' = [held EXCEPT ![h] = {}]
    /\ tx' = [tx EXCEPT ![h] = NoTx]

(* tx.Commit() after writing ConfigCurrent with struct cur and ConfigInfo *)
(* with Desc d (Updates: an empty Desc is not written): the writes        *)
(* become visible together and the locks go.                              *)
CommitWith(h, cur, d) ==
    /\ versions' = IF tx[h].ver = 0 THEN versions
                   ELSE [versions EXCEPT ![tx[h].ver] = tx[h].vdig]
    /\ vtmpl' = IF tx[h].ver = 0 THEN vtmpl
                ELSE [vtmpl EXCEPT ![tx[h].ver] = tx[h].vtv]
    /\ vdesc' = IF tx[h].ver = 0 THEN vdesc
                ELSE [vdesc EXCEPT ![tx[h].ver] = tx[h].vdsc]
    /\ idesc' = IF d # 0 THEN d ELSE idesc
    /\ releases' = IF tx[h].rel = 0 THEN releases
                   ELSE [releases EXCEPT ![tx[h].rel] = tx[h].rrec]
    /\ current' = Updates(current, cur)
    /\ Abort(h)

Commit(h) == CommitWith(h, tx[h].cur, tx[h].idsc)

(* The ConfigCurrent struct read at the start, its LatestConfigVersionID   *)
(* set to the version the handler inserted, if any.                       *)
CurStruct(h) == [snap[h] EXCEPT !.latest = IF tx[h].ver # 0 THEN tx[h].ver ELSE @]

-----------------------------------------------------------------------------
(* The file db (filedb.FileDB) at the config's and the template's paths:  *)
(* a path is a version number; for a templated config the data file and  *)
(* the replacement file of a version are one content record.             *)

(* StoreConfig: GetFilePath of the version, then StoreRawFile.           *)
StoreConfig(v, c) == files' = [files EXCEPT ![v] = c]

(* VisitConfig (with VisitReplacement): the file at the version's path.  *)
VisitConfig(v) == files[v]

(* StoreTemplate: GetTemplateFilePath of the version, then StoreRawFile. *)
StoreTemplate(v, c) == tfiles' = [tfiles EXCEPT ![v] = c]

(* VisitTemplate: the template file at the version's path.               *)
VisitTemplate(tv) == tfiles[tv]

(* storeConfigData(config, version): a templated config's replacement    *)
(* data and the data merged with its template, else the data as sent.    *)
storeConfigData(v, c) == StoreConfig(v, c)

(* visitConfigData: ConfigCurrent's latest version, then its files.      *)
visitConfigData == VisitConfig(current.latest)

(* getConfigTemplate: the template's LatestVersionID (the callers' guards *)
(* exclude a missing template).                                           *)
getConfigTemplate == tlatest

-----------------------------------------------------------------------------
(* The data a user sends: for a templated config, the template data the  *)
(* page shows for template version tv (visitTemplateData,                 *)
(* visitConfigVersionData) with replacement data of the user's choice.    *)
NewData(tv) == IF Templated THEN {[t |-> VisitTemplate(tv), r |-> r] : r \in Replaces}
               ELSE Contents

(* AddConfig: the config, its version 1, stored at path 1, and its        *)
(* ConfigCurrent, in one transaction.  A templated config's version names *)
(* the template's latest version (getConfigTemplate, which fails when the *)
(* template does not exist).  Nothing else runs on the config before it   *)
(* exists (every other handler's first read fails).  Version and info    *)
(* rows take the request's Desc d.                                         *)
AddConfig(h, c, d) ==
    /\ ~exists
    /\ pc[h] = "idle"
    /\ exists' = TRUE
    /\ storeConfigData(1, c)
    /\ versions' = [versions EXCEPT ![1] = c]
    /\ vtmpl' = [vtmpl EXCEPT ![1] = IF Templated THEN getConfigTemplate ELSE 0]
    /\ vdesc' = [vdesc EXCEPT ![1] = d]
    /\ idesc' = d
    /\ current' = [NoCur EXCEPT !.latest = 1]
    /\ UNCHANGED <<releases, held, pc, local, tx, agentQ, agent>>

(* UpdateConfig 1: GetConfigCurrentByConfigID and the latest version, both *)
(* through db.Get().  The request carries the TemplateVersionID the page   *)
(* showed, the latest version's, and a Desc d of the user's choice.        *)
UpdateRead(h, c, d) ==
    /\ "update" \in Ops /\ exists /\ pc[h] = "idle"
    /\ current.latest < MaxVer
    /\ snap' = [snap EXCEPT ![h] = current]
    /\ prev' = [prev EXCEPT ![h] = versions[current.latest]]
    /\ num' = [num EXCEPT ![h] = current.latest + 1]
    /\ arg' = [arg EXCEPT ![h] = c]
    /\ atv' = [atv EXCEPT ![h] = vtmpl[current.latest]]
    /\ adesc' = [adesc EXCEPT ![h] = d]
    /\ pc' = [pc EXCEPT ![h] = "u_store"]
    /\ UNCHANGED <<exists, versions, vtmpl, vdesc, idesc, releases, current, files, held, tx, agentQ, agent>>

(* isConfigNeedNewVersion: the Desc, the digest, the replacement digest  *)
(* (both in the data here) or the TemplateVersionID differs from the      *)
(* version read.  Name and Namespace are the config's (a rename is not     *)
(* modelled), so their comparisons hold.                                  *)
isConfigNeedNewVersion(h) ==
    \/ adesc[h] # vdesc[snap[h].latest]
    \/ arg[h] # prev[h]
    \/ atv[h] # vtmpl[snap[h].latest]

(* Mutant: the reload keeps the config's TemplateVersionID (the           *)
(* assignment configInfo.TemplateVersionID = templateVersion.ID dropped). *)
ReloadReadKeepsTemplateId(h) ==
    /\ "reload" \in Ops /\ Templated /\ exists /\ texists /\ pc[h] = "idle"
    /\ current.latest < MaxVer
    /\ snap' = [snap EXCEPT ![h] = current]
    /\ prev' = [prev EXCEPT ![h] = versions[current.latest]]
    /\ num' = [num EXCEPT ![h] = current.latest + 1]
    /\ arg' = [arg EXCEPT ![h] = [t |-> VisitTemplate(getConfigTemplate), r |-> visitConfigData.r]]
    /\ atv' = [atv EXCEPT ![h] = vtmpl[current.latest]]
    /\ adesc' = [adesc EXCEPT ![h] = idesc]
    /\ pc' = [pc EXCEPT ![h] = "u_store"]
    /\ UNCHANGED <<exists, versions, vtmpl, vdesc, idesc, releases, current, files, held, tx, agentQ, agent>>

(* ReloadTemplate of a templated (properties) config: the ConfigInfo row  *)
(* (its Desc too) is read, visitConfigData reads the replacement file of  *)
(* the latest version, getConfigTemplate the template's LatestVersionID   *)
(* and VisitTemplate that version's file; the ConfigInfo struct, with     *)
(* that TemplateVersionID and template data, goes to                      *)
(* UpdateConfig, whose reads (db.Get) follow at once.  A config without a *)
(* template, or a missing template, makes getConfigTemplate fail; its     *)
(* error is dropped and the nil version dereferenced: the request panics  *)
(* before any write (no step).                                            *)
ReloadRead(h) ==
    /\ "reload" \in Ops /\ Templated /\ exists /\ texists /\ pc[h] = "idle"
    /\ current.latest < MaxVer
    /\ snap' = [snap EXCEPT ![h] = current]
    /\ prev' = [prev EXCEPT ![h] = versions[current.latest]]
    /\ num' = [num EXCEPT ![h] = current.latest + 1]
    /\ arg' = [arg EXCEPT ![h] = [t |-> VisitTemplate(getConfigTemplate), r |-> visitConfigData.r]]
    /\ atv' = [atv EXCEPT ![h] = getConfigTemplate]
    /\ adesc' = [adesc EXCEPT ![h] = idesc]
    /\ pc' = [pc EXCEPT ![h] = "u_store"]
    /\ UNCHANGED <<exists, versions, vtmpl, vdesc, idesc, releases, current, files, held, tx, agentQ, agent>>

(* Mutant: the data is stored at the old version's path                  *)
(* (storeConfigData(renderConfig, oldConfigVersion.Version)).             *)
UpdateStoreOldPath(h) ==
    /\ pc[h] = "u_store"
    /\ storeConfigData(snap[h].latest, arg[h])
    /\ pc' = [pc EXCEPT ![h] = IF isConfigNeedNewVersion(h) THEN "u_ver" ELSE "u_info"]
    /\ UNCHANGED <<exists, versions, vtmpl, vdesc, idesc, releases, current, held, local, tx, agentQ, agent>>

(* UpdateConfig 2-3: storeConfigData(old.Version + 1) stores the merged   *)
(* data and the replacement data, then isConfigNeedNewVersion.            *)
UpdateStore(h) ==
    /\ pc[h] = "u_store"
    /\ storeConfigData(num[h], arg[h])
    /\ pc' = [pc EXCEPT ![h] = IF isConfigNeedNewVersion(h) THEN "u_ver" ELSE "u_info"]
    /\ UNCHANGED <<exists, versions, vtmpl, vdesc, idesc, releases, current, held, local, tx, agentQ, agent>>

(* CreateConfigVersion(tx) of version num (UpdateConfig, RollbackConfig):  *)
(* the insert waits for another transaction holding the key, and fails on *)
(* a committed row with the same (Name, Namespace, Version, ConfigInfoID). *)
(* Its Desc is the request's, or on rollback the pre-release version's    *)
(* (read at RollbackConfig 2; committed version rows are never updated).  *)
InsertVersion(h) ==
    /\ pc[h] \in {"u_ver", "b_ver"}
    /\ Free(h, Wants(h))
    /\ \/ /\ versions[num[h]] = None
          /\ Take(h, Wants(h))
          /\ tx' = [tx EXCEPT ![h].ver = num[h], ![h].vtv = atv[h],
                              ![h].vdig = IF pc[h] = "u_ver" THEN arg[h] ELSE prev[h],
                              ![h].vdsc = IF pc[h] = "u_ver" THEN adesc[h]
                                          ELSE vdesc[releases[snap[h].pre].ver]]
          /\ pc' = [pc EXCEPT ![h] = IF pc[h] = "u_ver" THEN "u_info" ELSE "b_store"]
          /\ UNCHANGED local
       \/ /\ versions[num[h]] # None
          /\ Abort(h)
    /\ UNCHANGED <<exists, versions, vtmpl, vdesc, idesc, releases, current, files, agentQ, agent>>

(* UpdateConfigInfo(tx) of the handler's ConfigInfo struct: the row's    *)
(* lock, and its Desc written at commit.                                   *)
LockInfo(h) ==
    /\ pc[h] \in {"u_info", "r_info"}
    /\ Free(h, InfoLock)
    /\ Take(h, InfoLock)
    /\ tx' = [tx EXCEPT ![h].idsc = adesc[h]]
    /\ pc' = [pc EXCEPT ![h] = IF pc[h] = "u_info" THEN "u_cur" ELSE "r_send"]
    /\ UNCHANGED <<exists, versions, vtmpl, vdesc, idesc, releases, current, files, local, agentQ, agent>>

(* UpdateConfig 5: UpdateConfigCurrent(tx) of the stale struct, then      *)
(* tx.Commit().                                                           *)
UpdateCurrent(h) ==
    /\ pc[h] = "u_cur"
    /\ Free(h, CurLock)
    /\ CommitWith(h, CurStruct(h), tx[h].idsc)
    /\ UNCHANGED <<exists, files, agentQ, agent>>

(* Mutant: releaseConfig without the "has not new updates" check.          *)
ReleaseReadNoCheck(h) ==
    /\ "release" \in Ops /\ exists /\ pc[h] = "idle"
    /\ current.rel < MaxRel
    /\ snap' = [snap EXCEPT ![h] = current]
    /\ prev' = [prev EXCEPT ![h] = current.rel]
    /\ num' = [num EXCEPT ![h] = current.rel + 1]
    /\ arg' = [arg EXCEPT ![h] = versions[current.latest]]
    /\ adesc' = [adesc EXCEPT ![h] = idesc]
    /\ pc' = [pc EXCEPT ![h] = "r_rel"]
    /\ UNCHANGED <<exists, versions, vtmpl, vdesc, idesc, releases, current, files, atv, held, tx, agentQ, agent>>

(* ReleaseConfig 1 and releaseConfig 1-2: the config info, ConfigCurrent,  *)
(* the latest version and the latest release, all through db.Get(); "this  *)
(* config has not new updates" when the latest release is of the latest   *)
(* version (an error return that changes nothing is no step).             *)
ReleaseRead(h) ==
    /\ "release" \in Ops /\ exists /\ pc[h] = "idle"
    /\ current.rel # 0 => releases[current.rel].ver # current.latest
    /\ current.rel < MaxRel
    /\ snap' = [snap EXCEPT ![h] = current]
    /\ prev' = [prev EXCEPT ![h] = current.rel]
    /\ num' = [num EXCEPT ![h] = current.rel + 1]
    /\ arg' = [arg EXCEPT ![h] = versions[current.latest]]
    /\ adesc' = [adesc EXCEPT ![h] = idesc]
    /\ pc' = [pc EXCEPT ![h] = "r_rel"]
    /\ UNCHANGED <<exists, versions, vtmpl, vdesc, idesc, releases, current, files, atv, held, tx, agentQ, agent>>

(* releaseConfig 3: CreateRelease(tx) with Version old + 1; the unique     *)
(* index (Version, ConfigInfoID) makes a duplicate fail.                  *)
CreateRelease(h) ==
    /\ pc[h] = "r_rel"
    /\ Free(h, Wants(h))
    /\ \/ /\ releases[num[h]] = NoRel
          /\ Take(h, Wants(h))
          /\ tx' = [tx EXCEPT ![h].rel = num[h],
                              ![h].rrec = [ver |-> snap[h].latest, digest |-> arg[h]]]
          /\ pc' = [pc EXCEPT ![h] = "r_cur"]
          /\ UNCHANGED local
       \/ /\ releases[num[h]] # NoRel
          /\ Abort(h)
    /\ UNCHANGED <<exists, versions, vtmpl, vdesc, idesc, releases, current, files, agentQ, agent>>

(* releaseConfig 4: UpdateConfigCurrent(tx) of the struct read, with       *)
(* LatestReleaseID = new and PreReleaseID = old (0 is not written).       *)
ReleaseCurrent(h) ==
    /\ pc[h] = "r_cur"
    /\ Free(h, CurLock)
    /\ Take(h, CurLock)
    /\ tx' = [tx EXCEPT ![h].cur = [snap[h] EXCEPT !.rel = num[h], !.pre = prev[h]]]
    /\ pc' = [pc EXCEPT ![h] = "r_info"]
    /\ UNCHANGED <<exists, versions, vtmpl, vdesc, idesc, releases, current, files, local, agentQ, agent>>

(* Mutant: the success path returns without tx.Commit() (as the import    *)
(* does on an unchanged digest), leaving the transaction and its locks.  *)
ReleaseNotifyNoCommit(h) ==
    /\ pc[h] = "r_send"
    /\ \/ /\ agentQ' = agentQ \cup {snap[h].latest}
          /\ Return(h) /\ UNCHANGED <<held, tx>>
       \/ /\ agentQ' = agentQ \cup {snap[h].latest}
          /\ Abort(h)
       \/ /\ UNCHANGED agentQ
          /\ Abort(h)
    /\ UNCHANGED <<exists, versions, vtmpl, vdesc, idesc, releases, current, files, agent>>

(* ReleaseConfig 4: SendSync(CmdNSFileHandler, 3 s) while the transaction *)
(* holds its locks.  The agent's handler queues the download and answers  *)
(* success: Commit.  A send error, or no executor for the site, is a      *)
(* Rollback; so is a timeout, though the agent may have queued the         *)
(* download already.                                                       *)
ReleaseNotify(h) ==
    /\ pc[h] = "r_send"
    /\ \/ /\ agentQ' = agentQ \cup {snap[h].latest}
          /\ Commit(h)
       \/ /\ agentQ' = agentQ \cup {snap[h].latest}
          /\ Abort(h) /\ UNCHANGED <<versions, vtmpl, vdesc, idesc, releases, current>>
       \/ /\ UNCHANGED agentQ
          /\ Abort(h) /\ UNCHANGED <<versions, vtmpl, vdesc, idesc, releases, current>>
    /\ UNCHANGED <<exists, files, agent>>

(* RollbackConfig 1-2: config info (its Desc is written back at 5),       *)
(* ConfigCurrent, the pre-release, its                                    *)
(* version row and that version's data read from the file db, and the     *)
(* latest version; "no more rollback versions" when PreReleaseID is 0.    *)
RollbackRead(h) ==
    /\ "rollback" \in Ops /\ exists /\ pc[h] = "idle"
    /\ current.pre # 0
    /\ current.latest < MaxVer
    /\ LET preVer == releases[current.pre].ver
       IN  /\ arg' = [arg EXCEPT ![h] = VisitConfig(preVer)]
           /\ prev' = [prev EXCEPT ![h] = versions[preVer]]
           /\ atv' = [atv EXCEPT ![h] = vtmpl[preVer]]
    /\ adesc' = [adesc EXCEPT ![h] = idesc]
    /\ snap' = [snap EXCEPT ![h] = current]
    /\ num' = [num EXCEPT ![h] = current.latest + 1]
    /\ pc' = [pc EXCEPT ![h] = "b_ver"]
    /\ UNCHANGED <<exists, versions, vtmpl, vdesc, idesc, releases, current, files, held, tx, agentQ, agent>>

(* RollbackConfig 3: StoreConfig of the data read at the new version.     *)
RollbackStore(h) ==
    /\ pc[h] = "b_store"
    /\ StoreConfig(num[h], arg[h])
    /\ pc' = [pc EXCEPT ![h] = "b_cur"]
    /\ UNCHANGED <<exists, versions, vtmpl, vdesc, idesc, releases, current, held, local, tx, agentQ, agent>>

(* RollbackConfig 4: UpdateConfigCurrent(tx) of the struct read.          *)
RollbackCurrent(h) ==
    /\ pc[h] = "b_cur"
    /\ Free(h, CurLock)
    /\ Take(h, CurLock)
    /\ tx' = [tx EXCEPT ![h].cur = CurStruct(h)]
    /\ pc' = [pc EXCEPT ![h] = "b_info"]
    /\ UNCHANGED <<exists, versions, vtmpl, vdesc, idesc, releases, current, files, local, agentQ, agent>>

(* RollbackConfig 5: UpdateConfigInfo(tx) of the info read, then          *)
(* tx.Commit().                                                           *)
RollbackInfo(h) ==
    /\ pc[h] = "b_info"
    /\ Free(h, InfoLock)
    /\ CommitWith(h, tx[h].cur, adesc[h])
    /\ UNCHANGED <<exists, files, agentQ, agent>>

(* createOrUpdateConfig (import) of an existing config: ConfigCurrent and  *)
(* the latest version's digest through db.Get(); oldVersion is never set  *)
(* from the latest version and stays 0.  (The import's Desc reaches no    *)
(* row: the import of an existing config never commits, see ImportVersion.) *)
ImportRead(h, c) ==
    /\ "import" \in Ops /\ ~Templated /\ exists /\ pc[h] = "idle"
    /\ snap' = [snap EXCEPT ![h] = current]
    /\ prev' = [prev EXCEPT ![h] = versions[current.latest]]
    /\ num' = [num EXCEPT ![h] = 1]
    /\ arg' = [arg EXCEPT ![h] = c]
    /\ pc' = [pc EXCEPT ![h] = "i_store"]
    /\ UNCHANGED <<exists, versions, vtmpl, vdesc, idesc, releases, current, files, atv, adesc, held, tx, agentQ, agent>>

(* import 4: StoreConfig at version oldVersion + 1 = 1; the same digest as *)
(* the latest version returns nil without Commit or Rollback (the         *)
(* transaction has written nothing and holds no lock).                    *)
ImportStore(h) ==
    /\ pc[h] = "i_store"
    /\ StoreConfig(1, arg[h])
    /\ \/ arg[h] = prev[h] /\ Return(h)
       \/ arg[h] # prev[h] /\ pc' = [pc EXCEPT ![h] = "i_ver"] /\ UNCHANGED local
    /\ UNCHANGED <<exists, versions, vtmpl, vdesc, idesc, releases, current, held, tx, agentQ, agent>>

(* import 5: CreateConfigVersion(tx) of Version 1, which AddConfig has    *)
(* committed: the duplicate key fails and the import rolls back.          *)
ImportVersion(h) ==
    /\ pc[h] = "i_ver"
    /\ Free(h, Wants(h))
    /\ versions[1] # None
    /\ Abort(h)
    /\ UNCHANGED <<exists, versions, vtmpl, vdesc, idesc, releases, current, files, agentQ, agent>>

(* InnoDB deadlock detection: h waits for a lock held by g, which waits   *)
(* for one h holds; h's statement fails and its handler rolls back.       *)
DeadlockVictim(h) ==
    /\ \E g \in Handlers \ {h} :
          /\ Wants(h) \in held[g]
          /\ Wants(g) \in held[h]
    /\ Abort(h)
    /\ UNCHANGED <<exists, versions, vtmpl, vdesc, idesc, releases, current, files, agentQ, agent>>

(* The agent's version manager downloads a queued version: ServeFile      *)
(* serves whatever the file db holds at that path.                        *)
AgentDownload(v) ==
    /\ v \in agentQ
    /\ VisitConfig(v) # None
    /\ agent' = VisitConfig(v)
    /\ agentQ' = agentQ \ {v}
    /\ UNCHANGED <<exists, versions, vtmpl, vdesc, idesc, releases, current, files, held, pc, local, tx>>

-----------------------------------------------------------------------------
(* Templates: AddTemplate and UpdateTemplate of configManager on one      *)
(* template.  Like the config handlers they store the data in the file db *)
(* path ns/name/<version> outside the transaction and read the template   *)
(* and its latest version through db.Get(), outside it.  Ids of template  *)
(* versions are abstracted to their version numbers.                      *)

TFree(h, l) == \A g \in THandlers \ {h} : l \notin theld[g]

TTake(h, l) == theld' = [theld EXCEPT ![h] = @ \cup {l}]

(* Commit or Rollback and return: the locks go, the locals are gone.     *)
TReturn(h) ==
    /\ tpc' = [tpc EXCEPT ![h] = "idle"]
    /\ theld' = [theld EXCEPT ![h] = {}]
    /\ tsnap' = [tsnap EXCEPT ![h] = 0]
    /\ targ' = [targ EXCEPT ![h] = None]
    /\ tprev' = [tprev EXCEPT ![h] = None]
    /\ ttx' = [ttx EXCEPT ![h] = NoTTx]

(* AddTemplate 1-2: checkTemplateValidity, FindOrCreateTemplateNamespace  *)
(* (the namespace is abstracted) and CreateTemplate(tx): the insert waits *)
(* while another transaction holds the (Name, Namespace) key and fails on *)
(* a committed template (Rollback, nothing changed: no step).             *)
AddTemplate(h, c) ==
    /\ "tadd" \in Ops /\ tpc[h] = "idle"
    /\ TFree(h, TmplKey)
    /\ ~texists
    /\ TTake(h, TmplKey)
    /\ targ' = [targ EXCEPT ![h] = c]
    /\ tpc' = [tpc EXCEPT ![h] = "ta_store"]
    /\ UNCHANGED <<texists, tversions, tlatest, tfiles, tsnap, tprev, ttx>>

(* storeTemplateData(template, version): StoreTemplate at ns/name/version. *)
StoreTemplateData(v, c) == StoreTemplate(v, c)

(* AddTemplate 3: the data is stored at version 1.                        *)
AddTemplateStore(h) ==
    /\ tpc[h] = "ta_store"
    /\ StoreTemplateData(1, targ[h])
    /\ tpc' = [tpc EXCEPT ![h] = "ta_ver"]
    /\ UNCHANGED <<texists, tversions, tlatest, theld, tsnap, targ, tprev, ttx>>

(* AddTemplate 4: CreateTemplateVersion(tx) of version 1.  No committed   *)
(* version 1 exists: the template key held excludes every other Add, and *)
(* no Update runs on an uncommitted template.                             *)
AddTemplateVersion(h) ==
    /\ tpc[h] = "ta_ver"
    /\ TFree(h, <<"tver", 1>>)
    /\ TTake(h, <<"tver", 1>>)
    /\ ttx' = [ttx EXCEPT ![h] = [ver |-> 1, vdig |-> targ[h]]]
    /\ tpc' = [tpc EXCEPT ![h] = "ta_upd"]
    /\ UNCHANGED <<texists, tversions, tlatest, tfiles, tsnap, targ, tprev>>

(* AddTemplate 5: UpdateTemplate(tx) of the new row with LatestVersionID  *)
(* = version 1, then tx.Commit().                                          *)
AddTemplateCommit(h) ==
    /\ tpc[h] = "ta_upd"
    /\ texists' = TRUE
    /\ tversions' = [tversions EXCEPT ![ttx[h].ver] = ttx[h].vdig]
    /\ tlatest' = ttx[h].ver
    /\ TReturn(h)
    /\ UNCHANGED tfiles

(* UpdateTemplate: GetTemplateByID and GetTemplateVersionByID of its      *)
(* LatestVersionID, both through db.Get(); the request's Data replaces    *)
(* the row's.                                                              *)
UpdateTemplateRead(h, c) ==
    /\ "tupdate" \in Ops /\ tpc[h] = "idle"
    /\ texists
    /\ tlatest < MaxTVer
    /\ tsnap' = [tsnap EXCEPT ![h] = tlatest]
    /\ tprev' = [tprev EXCEPT ![h] = tversions[tlatest]]
    /\ targ' = [targ EXCEPT ![h] = c]
    /\ tpc' = [tpc EXCEPT ![h] = "tu_store"]
    /\ UNCHANGED <<texists, tversions, tlatest, tfiles, theld, ttx>>

(* Mutant: a new version for every update (the digest is not compared).  *)
isTemplateNeedNewVersionAlways(h) == TRUE

(* isTemplateNeedNewVersion: name, namespace and description are those   *)
(* of the row read, so only the digest can differ.                        *)
isTemplateNeedNewVersion(h) == targ[h] # tprev[h]

(* UpdateTemplate 2: storeTemplateData(old.Version + 1), before it is     *)
(* known whether a version will be created.                               *)
UpdateTemplateStore(h) ==
    /\ tpc[h] = "tu_store"
    /\ StoreTemplateData(tsnap[h] + 1, targ[h])
    /\ tpc' = [tpc EXCEPT ![h] = IF isTemplateNeedNewVersion(h) THEN "tu_ver" ELSE "tu_upd"]
    /\ UNCHANGED <<texists, tversions, tlatest, theld, tsnap, targ, tprev, ttx>>

(* UpdateTemplate 3: CreateTemplateVersion(tx) of old.Version + 1; the    *)
(* unique (Name, Namespace, Version) key makes it wait for another         *)
(* transaction's insert and fail on a committed row (Rollback).           *)
UpdateTemplateVersion(h) ==
    /\ tpc[h] = "tu_ver"
    /\ TFree(h, <<"tver", tsnap[h] + 1>>)
    /\ \/ /\ tversions[tsnap[h] + 1] = None
          /\ TTake(h, <<"tver", tsnap[h] + 1>>)
          /\ ttx' = [ttx EXCEPT ![h] = [ver |-> tsnap[h] + 1, vdig |-> targ[h]]]
          /\ tpc' = [tpc EXCEPT ![h] = "tu_upd"]
          /\ UNCHANGED <<tsnap, targ, tprev>>
       \/ /\ tversions[tsnap[h] + 1] # None
          /\ TReturn(h)
    /\ UNCHANGED <<texists, tversions, tlatest, tfiles>>

(* UpdateTemplate 4: UpdateTemplate(tx) Updates the row with the struct   *)
(* read: LatestVersionID is the new version's, or the one read (never 0,  *)
(* so always written); then tx.Commit().                                  *)
UpdateTemplateCommit(h) ==
    /\ tpc[h] = "tu_upd"
    /\ TFree(h, TRowLock)
    /\ tversions' = IF ttx[h].ver = 0 THEN tversions
                    ELSE [tversions EXCEPT ![ttx[h].ver] = ttx[h].vdig]
    /\ tlatest' = IF ttx[h].ver # 0 THEN ttx[h].ver ELSE tsnap[h]
    /\ TReturn(h)
    /\ UNCHANGED <<texists, tfiles>>

TemplateRequest(h) == \E c \in Contents : AddTemplate(h, c) \/ UpdateTemplateRead(h, c)

TemplateHandlerStep(h) ==
    \/ AddTemplateStore(h) \/ AddTemplateVersion(h) \/ AddTemplateCommit(h)
    \/ UpdateTemplateStore(h) \/ UpdateTemplateVersion(h) \/ UpdateTemplateCommit(h)

-----------------------------------------------------------------------------
(* A request arrives at an idle handler.                                   *)
Request(h) ==
    \/ ReleaseRead(h) \/ RollbackRead(h) \/ ReloadRead(h)
    \/ (Templated => texists) /\ \E c \in NewData(tlatest), d \in Descs : AddConfig(h, c, d)
    \/ exists /\ \E c \in NewData(vtmpl[current.latest]), d \in Descs : UpdateRead(h, c, d)
    \/ \E c \in Contents : ImportRead(h, c)

(* The handler's next statement.                                           *)
HandlerStep(h) ==
    \/ UpdateStore(h) \/ InsertVersion(h) \/ LockInfo(h) \/ UpdateCurrent(h)
    \/ CreateRelease(h) \/ ReleaseCurrent(h) \/ ReleaseNotify(h)
    \/ RollbackStore(h) \/ RollbackCurrent(h) \/ RollbackInfo(h)
    \/ ImportStore(h) \/ ImportVersion(h) \/ DeadlockVictim(h)

ConfigNext ==
    \/ \E h \in Handlers : Request(h) \/ HandlerStep(h)
    \/ \E v \in 1..MaxVer : AgentDownload(v)

(* Config and template requests touch disjoint rows and paths.            *)
Next ==
    \/ ConfigNext /\ UNCHANGED tvars
    \/ \E h \in THandlers : (TemplateRequest(h) \/ TemplateHandlerStep(h))
                          /\ UNCHANGED cvars

(* A started handler runs on; a statement waiting for a lock gets it once  *)
(* the holder ends its transaction (InnoDB grants waiters in order, so    *)
(* strong fairness), for template handlers too; the agent's worker keeps *)
(* downloading.  Users need not send requests.                            *)
Spec ==
    /\ Init /\ [][Next]_vars
    /\ \A h \in Handlers : SF_vars(HandlerStep(h) /\ UNCHANGED tvars)
    /\ \A h \in THandlers : SF_vars(TemplateHandlerStep(h) /\ UNCHANGED cvars)
    /\ WF_vars((\E v \in 1..MaxVer : AgentDownload(v)) /\ UNCHANGED tvars)

-----------------------------------------------------------------------------
(* Properties.                                                             *)

CommittedVers == {v \in 1..MaxVer : versions[v] # None}
CommittedRels == {r \in 1..MaxRel : releases[r] # NoRel}
TemplateVers == {v \in 1..MaxTVer : tversions[v] # None}

(* Every committed version's file holds the content its row's digest      *)
(* names: what ServeFile hands the agent for version v is version v.      *)
(* At risk from storeConfigData writing the path before the version row  *)
(* is known to be new, and from the import storing at a fixed version 1. *)
VersionDataIntact ==
    \A v \in CommittedVers : files[v] = versions[v]

(* The committed versions and releases, read in number order, are a       *)
(* behaviour of ConfigHistory: edits append changed content, a release    *)
(* needs a version newer than the last one, a rollback appends the        *)
(* content of the release before the last.  A version's content is its   *)
(* data with its TemplateVersionID and its Desc, what                     *)
(* isConfigNeedNewVersion compares.                                      *)
History == INSTANCE ConfigHistory
               WITH Contents <- CContents \X (0..MaxTVer) \X Descs,
                    hist <- [i \in 1..Cardinality(CommittedVers) |->
                                <<versions[i], vtmpl[i], vdesc[i]>>],
                    rels <- [j \in 1..Cardinality(CommittedRels) |-> releases[j].ver]
ImplementsConfigHistory == History!Spec

(* Every committed version of a templated config that names a template    *)
(* version holds that version's template data: what the agent downloads  *)
(* is rendered from the template version the row names.  At risk from    *)
(* ReloadTemplate and the edit page sending template data and the         *)
(* TemplateVersionID read at different moments, from a rollback copying   *)
(* an old version's TemplateVersionID, and from template files rewritten *)
(* after their version committed.                                         *)
RenderedFromTemplate ==
    \A v \in CommittedVers :
        vtmpl[v] # 0 => vtmpl[v] \in TemplateVers /\ versions[v].t = tversions[vtmpl[v]]

(* ConfigCurrent never falls behind a committed row: LatestConfigVersionID *)
(* is the newest version and LatestReleaseID the newest release, however  *)
(* handlers interleave (each writes back the struct it read earlier).    *)
CurrentIsNewest ==
    exists => /\ \A v \in CommittedVers : v <= current.latest
              /\ \A r \in CommittedRels : r <= current.rel

(* The agent only ever runs content that some committed release names:    *)
(* ReleaseConfig rolls back when the agent's answer is missing.           *)
AgentRunsReleased ==
    agent # None => \E r \in CommittedRels : releases[r].digest = agent

(* Every request a handler has started returns: lock waits end, InnoDB   *)
(* breaks lock cycles, and every path ends in Commit or Rollback.        *)
HandlersReturn ==
    /\ \A h \in Handlers : pc[h] # "idle" ~> pc[h] = "idle"
    /\ \A h \in THandlers : tpc[h] # "idle" ~> tpc[h] = "idle"

(* The committed template versions, in number order, are a behaviour of  *)
(* ConfigHistory without releases: AddTemplate creates version 1, and an  *)
(* UpdateTemplate appends a version only for changed content, whatever    *)
(* the interleaving of concurrent updates.                                *)
TemplateHistory == INSTANCE ConfigHistory
                       WITH MaxVer <- MaxTVer, MaxRel <- 0,
                            hist <- [i \in 1..Cardinality(TemplateVers) |-> tversions[i]],
                            rels <- <<>>
ImplementsTemplateHistory == TemplateHistory!Spec

(* The template's LatestVersionID never falls behind a committed version: *)
(* UpdateTemplate writes back the LatestVersionID it read before another  *)
(* update committed.                                                       *)
TemplateLatestIsNewest ==
    texists => \A v \in TemplateVers : v <= tlatest
=============================================================================
