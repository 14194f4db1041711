------------------------------ MODULE FileStore ------------------------------
(***************************************************************************)
(* The file db's two storage drivers, for one path                        *)
(* (src/pkg/component/storage).  cas.Storage, which the manager uses,     *)
(* keeps each content as a blob named by its digest, and the path's       *)
(* metadata file names the digest.  FSStorage, which the agent uses       *)
(* (agent.go: CasDisable), keeps the content in a data file at the path   *)
(* itself beside the metadata file.  A Put first writes a temporary file   *)
(* and renames it into place, then rewrites the metadata with             *)
(* ioutil.WriteFile, which opens the file truncated and writes it.  Two    *)
(* WriteFiles of one path write at offset 0 through their own handles, so *)
(* a shorter metadata written over a longer one leaves the longer one's    *)
(* tail behind and the JSON no longer parses.                             *)
(*                                                                         *)
(* A content stands for its digest: the digest is taken over the          *)
(* encrypted stream, and encrypting one content always gives the same     *)
(* bytes.  Marker is the agent's 404 marker, whose metadata (extend      *)
(* {"_status": "404"}) is shorter than a version's.                       *)
(* Writers are goroutines storing into the path, readers are goroutines   *)
(* reading it; a restart of the process abandons both.                    *)
(***************************************************************************)
EXTENDS Naturals

CONSTANTS Writers, Readers, Contents, Marker, Cas, MaxPuts, MaxCrashes

ASSUME Cas \in BOOLEAN

(* The length of a content's metadata JSON.                               *)
MetaLen == [c \in Contents |-> IF c = Marker THEN 1 ELSE 2]

None == "None"      \* no data file, or no metadata that parses
NoRes == [op |-> "none", d |-> None, c |-> None]   \* nothing read yet
Err == [op |-> "err", d |-> None, c |-> None]      \* the read failed

VARIABLES
    meta,     \* the metadata file: the digest its JSON names, and its length
    data,     \* FSStorage: the content of the data file at the path
    blobs,    \* cas.Storage: the digests whose blob exists
    wr,       \* per writer: where its Put is, and the content it stores
    rd,       \* per reader: where its read is, the digest read, its result
    puts,     \* Puts started so far
    crashes   \* restarts so far

vars == <<meta, data, blobs, wr, rd, puts, crashes>>

Result == {NoRes, Err} \cup [op : {"get", "exists"}, d : Contents, c : Contents \cup {None}]

TypeOK ==
    /\ meta \in [json : Contents \cup {None}, len : Nat]
    /\ data \in Contents \cup {None}
    /\ blobs \subseteq Contents
    /\ wr \in [Writers -> [pc : {"idle", "trunc", "write"}, c : Contents]]
    /\ rd \in [Readers -> [pc : {"idle", "open"}, d : Contents \cup {None}, res : Result]]
    /\ puts \in 0..MaxPuts /\ crashes \in 0..MaxCrashes

(* NewStorage / NewFSStorage: the directories exist and hold nothing.     *)
Init ==
    /\ meta = [json |-> None, len |-> 0]
    /\ data = None
    /\ blobs = {}
    /\ wr = [w \in Writers |-> [pc |-> "idle", c |-> CHOOSE c \in Contents : TRUE]]
    /\ rd = [r \in Readers |-> [pc |-> "idle", d |-> None, res |-> NoRes]]
    /\ puts = 0 /\ crashes = 0

-----------------------------------------------------------------------------
(* Storing.                                                                *)

(* cas.Storage.Put, up to the metadata: the content goes to a temporary   *)
(* file; unless a blob of its digest exists it is renamed to the blob,    *)
(* else removed.  Two Puts of one content may both rename: the blob's     *)
(* bytes are the same.                                                    *)
(* Mutant: the Exist check inverted, renaming only over an existing blob. *)
CasStoreBlobInverted(c) ==
    /\ blobs' = IF c \in blobs THEN blobs \cup {c} ELSE blobs
    /\ UNCHANGED data

CasStoreBlob(c) == blobs' = blobs \cup {c} /\ UNCHANGED data

(* FSStorage.storageData: the temporary file is renamed over the data     *)
(* file of the path.                                                      *)
FsStorageData(c) == data' = c /\ UNCHANGED blobs

(* A Put: StoreConfig / StoreRawFile hand the content to the driver,      *)
(* which moves it into place.  A failed copy removes the temporary file   *)
(* and changes nothing shared.                                            *)
PutData(w, c) ==
    /\ wr[w].pc = "idle"
    /\ puts < MaxPuts
    /\ IF Cas THEN CasStoreBlob(c) ELSE FsStorageData(c)
    /\ wr' = [wr EXCEPT ![w] = [pc |-> "trunc", c |-> c]]
    /\ puts' = puts + 1
    /\ UNCHANGED <<meta, rd, crashes>>

(* ioutil.WriteFile opens the metadata file truncated.                    *)
MetaTruncate(w) ==
    /\ wr[w].pc = "trunc"
    /\ meta' = [json |-> None, len |-> 0]
    /\ wr' = [wr EXCEPT ![w].pc = "write"]
    /\ UNCHANGED <<data, blobs, rd, puts, crashes>>

(* The write at offset 0: a longer file keeps its tail and stops parsing. *)
Overlay(m, c) ==
    IF m.len <= MetaLen[c] THEN [json |-> c, len |-> MetaLen[c]]
    ELSE [json |-> None, len |-> m.len]

(* ioutil.WriteFile writes the marshalled metadata; the Put returns.      *)
MetaWrite(w) ==
    /\ wr[w].pc = "write"
    /\ meta' = Overlay(meta, wr[w].c)
    /\ wr' = [wr EXCEPT ![w].pc = "idle"]
    /\ UNCHANGED <<data, blobs, rd, puts, crashes>>

-----------------------------------------------------------------------------
(* Reading.                                                                *)

(* getMetaInfo (cas): the metadata parses and the blob it names exists.   *)
CasMetaOk == meta.json # None /\ meta.json \in blobs

(* getMetainfo (FSStorage): the metadata parses.                          *)
FsMetaOk == meta.json # None

(* Mutant: the blob opened is the one the metadata names at open time.   *)
CasBodyReread(d) == IF meta.json \in blobs THEN meta.json ELSE None

(* getDatareader (cas): opens the blob of the digest.                     *)
CasBody(d) == IF d \in blobs THEN d ELSE None

(* Get (FSStorage): opens the data file of the path.                      *)
FsBody == data

(* Get / VisitConfig: the metadata is read first.                         *)
GetMeta(r) ==
    /\ rd[r].pc = "idle"
    /\ rd' = [rd EXCEPT ![r] = IF IF Cas THEN CasMetaOk ELSE FsMetaOk
                               THEN [pc |-> "open", d |-> meta.json, res |-> NoRes]
                               ELSE [pc |-> "idle", d |-> None, res |-> Err]]
    /\ UNCHANGED <<meta, data, blobs, wr, puts, crashes>>

(* Get then opens the content; the open handle keeps what it opened.      *)
GetOpen(r) ==
    /\ rd[r].pc = "open"
    /\ LET body == IF Cas THEN CasBody(rd[r].d) ELSE FsBody
       IN rd' = [rd EXCEPT ![r] =
                   [pc |-> "idle", d |-> None,
                    res |-> IF body = None THEN Err
                            ELSE [op |-> "get", d |-> rd[r].d, c |-> body]]]
    /\ UNCHANGED <<meta, data, blobs, wr, puts, crashes>>

(* Exists (FSStorage): the metadata parses and the data file exists.      *)
FsExistsOk == FsMetaOk /\ data # None

(* ExistPath (cas) / Exists / ExistsFile: the metadata's extend, digest   *)
(* included, once the metadata and the content it stands for exist.       *)
Exists(r) ==
    /\ rd[r].pc = "idle"
    /\ rd' = [rd EXCEPT ![r].res = IF IF Cas THEN CasMetaOk ELSE FsExistsOk
                                   THEN [op |-> "exists", d |-> meta.json, c |-> None]
                                   ELSE Err]
    /\ UNCHANGED <<meta, data, blobs, wr, puts, crashes>>

(* The process restarts: Puts and reads in flight are abandoned; the      *)
(* files stay as they are.                                                *)
Restart ==
    /\ crashes < MaxCrashes
    /\ wr' = [w \in Writers |-> [wr[w] EXCEPT !.pc = "idle"]]
    /\ rd' = [r \in Readers |-> [pc |-> "idle", d |-> None, res |-> NoRes]]
    /\ crashes' = crashes + 1
    /\ UNCHANGED <<meta, data, blobs, puts>>

Next ==
    \/ Restart
    \/ \E w \in Writers : MetaTruncate(w) \/ MetaWrite(w) \/ \E c \in Contents : PutData(w, c)
    \/ \E r \in Readers : GetMeta(r) \/ GetOpen(r) \/ Exists(r)

Spec == Init /\ [][Next]_vars

-----------------------------------------------------------------------------
(* Properties.                                                             *)

(* The driver implements AtomicFileStore: a read returns the content held *)
(* when it read the metadata, with that content's own digest, and fails   *)
(* only while no readable metadata is held.  The stored content is the    *)
(* one the metadata names; a read is taken when it reads the metadata.    *)
(* This is what VisitConfig's callers rely on when they hand the content  *)
(* on together with extend["digest"] (the agent's CmdContentHandler).     *)
Atomic == INSTANCE AtomicFileStore WITH
    stored <- meta.json,
    res <- [r \in Readers |-> IF rd[r].pc = "open"
                              THEN [op |-> "get", d |-> rd[r].d, c |-> rd[r].d]
                              ELSE rd[r].res]

ImplementsAtomicStore == Atomic!Spec

(* When no Put is in flight, the metadata that parses names the digest of *)
(* the content at the path: what ExistsFile reports (the agent's local    *)
(* scan compares it with the FileMapper) is what a read returns.          *)
AtRestConsistent ==
    (\A w \in Writers : wr[w].pc = "idle") /\ meta.json # None
        => IF Cas THEN meta.json \in blobs ELSE data = meta.json
=============================================================================
