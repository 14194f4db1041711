---------------------------- MODULE ConnRegistry ----------------------------
(***************************************************************************)
(* ConnManager (src/pkg/component/conns/connmanager.go): the process-wide  *)
(* map from a gRPC connection tag to the agent registered on it, kept up   *)
(* to date by the stats handler (HandleConn: ConnBegin, ConnEnd) and by    *)
(* SaveConn, which cmdServer calls when an agent's "register" command      *)
(* arrives.  Ready and NotReady callbacks run in goroutines of their own;  *)
(* the subscriber modelled is the cluster manager                          *)
(* (src/pkg/manager/cluster/cluster.go), which records a cluster status    *)
(* per agent key.                                                          *)
(***************************************************************************)
EXTENDS Naturals, FiniteSets, Bags, BagsExt

CONSTANTS
    Tags,     \* gRPC connections (stats.ConnTagInfo), each dialled by one agent
    Keys,     \* agent identities (the connectID an agent registers with)
    MaxRegs,  \* register commands one connection may carry (one per stream)
    NoKey,    \* the Key of the empty Conn{} stored at ConnBegin
    Absent    \* no entry for the tag in conns

ASSUME MaxRegs \in Nat \ {0} /\ NoKey \notin Keys /\ Absent \notin Keys

Callbacks == [kind : {"ready", "notReady"}, key : Keys \cup {NoKey}, tag : Tags]

VARIABLES
    phase,     \* the connection: "new", "live" (begun), "ended"
    owner,     \* the agent that dialled it
    entry,     \* conns[tag].Key, or Absent
    regs,      \* register commands handled on it
    pending,   \* bag of callback goroutines started and not yet run
    status     \* the cluster manager's status of each agent key

vars == <<phase, owner, entry, regs, pending, status>>

TypeOK ==
    /\ phase \in [Tags -> {"new", "live", "ended"}]
    /\ owner \in [Tags -> Keys]
    /\ entry \in [Tags -> Keys \cup {NoKey, Absent}]
    /\ regs \in [Tags -> 0..MaxRegs]
    /\ IsABag(pending) /\ BagToSet(pending) \subseteq Callbacks
    /\ status \in [Keys -> {"unknown", "Ready", "NotReady"}]

(* Which agent dials which connection is chosen up front.                  *)
Init ==
    /\ phase = [t \in Tags |-> "new"]
    /\ owner \in [Tags -> Keys]
    /\ entry = [t \in Tags |-> Absent]
    /\ regs = [t \in Tags |-> 0]
    /\ pending = EmptyBag
    /\ status = [k \in Keys |-> "unknown"]

(* GetConnValue(key): the entries a lookup may return; it ranges over the *)
(* map and returns the first match, in Go's unspecified map order.         *)
Lookup(k) == {t \in Tags : entry[t] = k}

Registered(k) == Lookup(k) # {}

-----------------------------------------------------------------------------
(* HandleConn with stats.ConnBegin: an empty Conn{} is stored.             *)
ConnBegin(t) ==
    /\ phase[t] = "new"
    /\ phase' = [phase EXCEPT ![t] = "live"]
    /\ entry' = [entry EXCEPT ![t] = NoKey]
    /\ UNCHANGED <<owner, regs, pending, status>>

(* SaveConn from handleRegisterIfNeed: the register command of the agent   *)
(* on this connection overwrites the entry and starts the Ready callbacks. *)
(* Nothing checks that the connection is still open: a register command   *)
(* received before ConnEnd may be handled after it (the stream handler and *)
(* the stats handler run in different goroutines).                         *)
SaveConn(t) ==
    /\ phase[t] # "new"
    /\ regs[t] < MaxRegs
    /\ regs' = [regs EXCEPT ![t] = @ + 1]
    /\ entry' = [entry EXCEPT ![t] = owner[t]]
    /\ pending' = BagAdd(pending, [kind |-> "ready", key |-> owner[t], tag |-> t])
    /\ UNCHANGED <<phase, owner, status>>

(* Mutant: the entry is deleted before its Key is read for the callbacks  *)
(* (in Go a nil *Conn dereference; here the key Absent, which no Conn has).*)
ConnEndDeleteFirst(t) ==
    /\ phase[t] = "live"
    /\ phase' = [phase EXCEPT ![t] = "ended"]
    /\ entry' = [entry EXCEPT ![t] = Absent]
    /\ pending' = BagAdd(pending, [kind |-> "notReady", key |-> entry'[t], tag |-> t])
    /\ UNCHANGED <<owner, regs, status>>

(* HandleConn with stats.ConnEnd: start the NotReady callbacks with the    *)
(* entry's Conn and delete the entry.                                      *)
ConnEnd(t) ==
    /\ phase[t] = "live"
    /\ phase' = [phase EXCEPT ![t] = "ended"]
    /\ pending' = BagAdd(pending, [kind |-> "notReady", key |-> entry[t], tag |-> t])
    /\ entry' = [entry EXCEPT ![t] = Absent]
    /\ UNCHANGED <<owner, regs, status>>

(* A callback goroutine runs: cluster onReady / onNotReady update the     *)
(* status of conn.Key (an update for the empty key matches no cluster).    *)
RunCallback(cb) ==
    /\ BagIn(cb, pending)
    /\ pending' = BagRemove(pending, cb)
    /\ status' = IF cb.key = NoKey THEN status
                 ELSE [status EXCEPT ![cb.key] =
                         IF cb.kind = "ready" THEN "Ready" ELSE "NotReady"]
    /\ UNCHANGED <<phase, owner, entry, regs>>

-----------------------------------------------------------------------------
Next ==
    \/ \E t \in Tags : ConnBegin(t) \/ SaveConn(t) \/ ConnEnd(t)
    \/ \E cb \in BagToSet(pending) : RunCallback(cb)

(* Every callback goroutine eventually runs; connections come and go as    *)
(* the network and the agents decide.                                      *)
Spec == Init /\ [][Next]_vars /\ \A cb \in Callbacks : WF_vars(RunCallback(cb))

-----------------------------------------------------------------------------
(* Properties.                                                             *)

(* Once every callback has run, the cluster manager's status of an agent   *)
(* says Ready exactly when the registry holds a connection of that agent.  *)
StatusTracksRegistry ==
    pending = EmptyBag =>
        \A k \in Keys : status[k] # "unknown" => (status[k] = "Ready" <=> Registered(k))
=============================================================================
