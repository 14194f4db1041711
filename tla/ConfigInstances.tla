--------------------------- MODULE ConfigInstances ---------------------------
(***************************************************************************)
(* The manager's ConfigInstance table: which SDK instance of the agent's  *)
(* site holds which digest of a config.  It composes ConnRegistry (the    *)
(* manager's registry of agent connections and its Ready / NotReady       *)
(* callbacks) with what writes the table:                                  *)
(*   - the agent reports an SDK's digest with a "fileupdated" request     *)
(*     (reportUpdatedInfoToRemote) from three places: CmdContentHandler's *)
(*     completion callback (the digest it served), CmdFileRefreshHandler's *)
(*     goroutine (the digests the SDK sent), and the cmdClient OnReady    *)
(*     hook (every registered app with the FileMapper's digest);          *)
(*   - the agent sends "appcancel" when an SDK connection ends;           *)
(*   - the manager runs each request in a goroutine of its own            *)
(*     (onReceive): fileUpdateHandler's SaveConfigInstance reads the row  *)
(*     and then creates or updates it, appCancelHandler deletes it;       *)
(*   - the cluster manager's onNotReady deletes every row of the          *)
(*     connection's key (DeleteConfigInstanceByConnKey).                  *)
(* One agent process, so one key (its connectID stays the same across     *)
(* reconnects), one config file; an SDK connection stands for its app and *)
(* hostname.  A request travels on the connection it was sent on and is   *)
(* lost if that connection ends before it arrives; SendSync on no         *)
(* connection fails, and nothing sends the report again.                  *)
(***************************************************************************)
EXTENDS ConnRegistry

CONSTANTS
    Sdks,        \* SDK connections to the agent
    Digests,     \* digests of the config file's versions
    MaxUpdates,  \* new versions the agent's FileMapper takes
    MaxReports,  \* requests the agent sends to the manager
    SdkLeaves    \* whether an SDK connection may end

ASSUME Cardinality(Keys) = 1 /\ SdkLeaves \in BOOLEAN

NoDigest == "NoDigest"   \* the SDK holds no content yet
NoRow == [d |-> NoDigest, id |-> 0]

Msgs == [kind : {"update"}, s : Sdks, d : Digests] \cup [kind : {"cancel"}, s : Sdks, d : {NoDigest}]

VARIABLES
    sdk,      \* per SDK connection: "off", "on" (registered in the syncer), "gone"
    held,     \* per SDK connection: the digest of the content it was served
    fm,       \* the agent's FileMapper digest of the file
    req,      \* requests sent and not yet handled: the request, and where its handler is
    rows,     \* per SDK connection: its ConfigInstance row (digest and ID), or NoRow
    nextId,   \* the next auto-increment ID
    ready,    \* connections whose cmdClient OnReady hook has not yet reported
    updates,  \* FileMapper versions taken so far
    reports   \* requests sent so far

ivars == <<sdk, held, fm, req, rows, nextId, ready, updates, reports>>
allVars == <<vars, ivars>>

InstTypeOK ==
    /\ TypeOK
    /\ sdk \in [Sdks -> {"off", "on", "gone"}]
    /\ held \in [Sdks -> Digests \cup {NoDigest}]
    /\ fm \in Digests
    /\ \A m \in req : [kind |-> m.kind, s |-> m.s, d |-> m.d] \in Msgs
                     /\ m.tag \in Tags /\ m.st \in {"sent", "missing", "found"} /\ m.id \in Nat
    /\ rows \in [Sdks -> {NoRow} \cup [d : Digests, id : Nat \ {0}]]
    /\ nextId \in Nat \ {0}
    /\ ready \subseteq Tags
    /\ updates \in 0..MaxUpdates /\ reports \in 0..MaxReports

(* The connections on which the agent's requests reach the manager: begun *)
(* and registered.                                                         *)
Up == {t \in Tags : phase[t] = "live" /\ entry[t] \in Keys}

InstInit ==
    /\ Init
    /\ sdk = [s \in Sdks |-> "off"]
    /\ held = [s \in Sdks |-> NoDigest]
    /\ fm \in Digests
    /\ req = {} /\ rows = [s \in Sdks |-> NoRow] /\ nextId = 1
    /\ ready = {} /\ updates = 0 /\ reports = 0

-----------------------------------------------------------------------------
(* The agent.                                                              *)

(* cmdClient.SendSync of one request: on a registered connection it is    *)
(* sent, on none it fails and the request is dropped.                     *)
Send(msgs) ==
    /\ reports + Cardinality(msgs) <= MaxReports
    /\ reports' = reports + Cardinality(msgs)
    /\ \/ Up = {} /\ UNCHANGED req
       \/ \E t \in Up : req' = req \cup {[kind |-> m.kind, s |-> m.s, d |-> m.d, tag |-> t, st |-> "sent", id |-> 0] : m \in msgs}

Update(s, d) == [kind |-> "update", s |-> s, d |-> d]

(* The agent's ConnManager OnReady: RegisterApp for the SDK connection.   *)
SdkRegister(s) ==
    /\ sdk[s] = "off"
    /\ sdk' = [sdk EXCEPT ![s] = "on"]
    /\ UNCHANGED <<vars, held, fm, req, rows, nextId, ready, updates, reports>>

(* CmdContentHandler serves the local file to an SDK whose digest differs *)
(* (else 304); its completion callback, once the response is sent,       *)
(* reports the served digest for the SDK's app.                           *)
ServeContent(s) ==
    /\ sdk[s] = "on"
    /\ held[s] # fm
    /\ held' = [held EXCEPT ![s] = fm]
    /\ Send({Update(s, fm)})
    /\ UNCHANGED <<vars, sdk, fm, rows, nextId, ready, updates>>

(* CmdFileRefreshHandler: the goroutine it starts reports the digests the *)
(* SDK sent, while the app is registered.                                  *)
SdkRefresh(s) ==
    /\ sdk[s] = "on"
    /\ held[s] # NoDigest
    /\ Send({Update(s, held[s])})
    /\ UNCHANGED <<vars, sdk, held, fm, rows, nextId, ready, updates>>

(* The agent's ConnManager OnNotReady: CancelApp, then "appcancel".       *)
SdkCancel(s) ==
    /\ SdkLeaves
    /\ sdk[s] = "on"
    /\ sdk' = [sdk EXCEPT ![s] = "gone"]
    /\ Send({[kind |-> "cancel", s |-> s, d |-> NoDigest]})
    /\ UNCHANGED <<vars, held, fm, rows, nextId, ready, updates>>

(* A new version reaches the FileMapper (download and runFileUpdated).    *)
FileUpdated ==
    /\ updates < MaxUpdates
    /\ \E d \in Digests \ {fm} : fm' = d
    /\ updates' = updates + 1
    /\ UNCHANGED <<vars, sdk, held, req, rows, nextId, ready, reports>>

(* The register command of this connection is sent; cmdClient fires the   *)
(* OnReady hook in a goroutine, and the manager handles the register.     *)
Register(t) ==
    /\ SaveConn(t)
    /\ ready' = ready \cup {t}
    /\ UNCHANGED <<sdk, held, fm, req, rows, nextId, updates, reports>>

(* The OnReady hook: after syncLocalData, one report per registered app   *)
(* with the FileMapper's digest.                                           *)
ReadyReport(t) ==
    /\ t \in ready
    /\ ready' = ready \ {t}
    /\ Send({Update(s, fm) : s \in {x \in Sdks : sdk[x] = "on"}})
    /\ UNCHANGED <<vars, sdk, held, fm, rows, nextId, updates>>

-----------------------------------------------------------------------------
(* The manager.                                                            *)

(* A request sent on a connection that ended before it arrived is lost.  *)
Lose(m) ==
    /\ m.st = "sent" /\ phase[m.tag] = "ended"
    /\ req' = req \ {m}
    /\ UNCHANGED <<vars, sdk, held, fm, rows, nextId, ready, updates, reports>>

(* fileUpdateHandler: the config exists; SaveConfigInstance first looks   *)
(* the row up (outside any transaction).                                   *)
SaveRead(m) ==
    /\ m \in req /\ m.st = "sent" /\ m.kind = "update"
    /\ req' = (req \ {m}) \cup {IF rows[m.s] = NoRow THEN [m EXCEPT !.st = "missing"]
                                ELSE [m EXCEPT !.st = "found", !.id = rows[m.s].id]}
    /\ UNCHANGED <<vars, sdk, held, fm, rows, nextId, ready, updates, reports>>

(* SaveConfigInstance then creates the row it did not find (the unique    *)
(* index fails the insert if another handler created it meanwhile), or    *)
(* Updates the row with the ID it found (no row matches if it was deleted).*)
SaveWrite(m) ==
    /\ m \in req /\ m.st # "sent"
    /\ req' = req \ {m}
    /\ IF m.st = "missing"
       THEN IF rows[m.s] = NoRow
            THEN rows' = [rows EXCEPT ![m.s] = [d |-> m.d, id |-> nextId]]
                 /\ nextId' = nextId + 1
            ELSE UNCHANGED <<rows, nextId>>
       ELSE /\ rows' = IF rows[m.s].id = m.id
                       THEN [rows EXCEPT ![m.s].d = m.d] ELSE rows
            /\ UNCHANGED nextId
    /\ UNCHANGED <<vars, sdk, held, fm, ready, updates, reports>>

(* DeleteConfigInstance: the row of an app, host and key.                 *)
DeleteConfigInstance(s) == [rows EXCEPT ![s] = NoRow]

(* DeleteConfigInstanceByConnKey: every row of the agent's key.           *)
DeleteConfigInstanceByConnKey == [s \in Sdks |-> NoRow]

(* appCancelHandler: DeleteConfigInstance of the app, host and key.       *)
AppCancel(m) ==
    /\ m \in req /\ m.st = "sent" /\ m.kind = "cancel"
    /\ req' = req \ {m}
    /\ rows' = DeleteConfigInstance(m.s)
    /\ UNCHANGED <<vars, sdk, held, fm, nextId, ready, updates, reports>>

(* A Ready or NotReady callback goroutine of the cluster manager; onNotReady*)
(* also deletes every row of conn.Key (none for the empty key).            *)
Callback(cb) ==
    /\ RunCallback(cb)
    /\ rows' = IF cb.kind = "notReady" /\ cb.key \in Keys
               THEN DeleteConfigInstanceByConnKey ELSE rows
    /\ UNCHANGED <<sdk, held, fm, req, nextId, ready, updates, reports>>

-----------------------------------------------------------------------------
InstNext ==
    \/ \E t \in Tags : Register(t) \/ ReadyReport(t)
                       \/ ((ConnBegin(t) \/ ConnEnd(t)) /\ UNCHANGED ivars)
    \/ \E cb \in BagToSet(pending) : Callback(cb)
    \/ \E s \in Sdks : SdkRegister(s) \/ ServeContent(s) \/ SdkRefresh(s) \/ SdkCancel(s)
    \/ FileUpdated
    \/ \E m \in req : Lose(m) \/ SaveRead(m) \/ SaveWrite(m) \/ AppCancel(m)

(* The callback goroutines finish, as in ConnRegistry.  The OnReady hook  *)
(* and the request handlers finish too, but no property here needs it.    *)
(* Connections, SDKs, versions and losses come as the environment decides. *)
InstSpec == InstInit /\ [][InstNext]_allVars /\ \A cb \in Callbacks : WF_allVars(Callback(cb))

-----------------------------------------------------------------------------
(* Properties.                                                             *)

(* Nothing is in flight: no request sent and unhandled, no callback or     *)
(* OnReady hook still to run; the agent is connected, and every SDK        *)
(* connected to it holds the FileMapper's version.                         *)
Quiet ==
    /\ req = {} /\ pending = EmptyBag /\ ready = {}
    /\ Up # {}
    /\ \A s \in Sdks : sdk[s] = "on" => held[s] = fm

(* Once things settle, the manager's instances are the agent's SDKs: a     *)
(* connected SDK that was served has its row with the digest it holds,     *)
(* and an SDK that left has none.  This is what ReleaseConfigDetail and    *)
(* GetConfigInstances show as the instances of a config and whether each   *)
(* is in sync (IsSync compares the row's digest with the release's).       *)
InstancesTrackSdks ==
    Quiet =>
        \A s \in Sdks :
            /\ sdk[s] = "gone" => rows[s] = NoRow
            /\ sdk[s] = "on" /\ held[s] # NoDigest => rows[s].d = held[s]
=============================================================================
