---------------------------- MODULE ClientTunnel ----------------------------
(***************************************************************************)
(* The agent's end of the command tunnel and the manager's registry of it. *)
(* The agent side: cmdClient.StartListen (src/pkg/component/cmd/          *)
(* cmdclient.go), whose main loop starts a stream goroutine, waits for it  *)
(* to end or for the connection to fail, and then calls PollConn on the   *)
(* globalClientConn (src/pkg/component/conns/connclient.go); each stream   *)
(* goroutine opens an Execute stream, sends the register command and      *)
(* receives requests; a request is answered by respCmdSure, which retries  *)
(* until a send succeeds and waits on readyCh between attempts.           *)
(* The manager side: cmdServer.Execute / handleRegisterIfNeed             *)
(* (src/pkg/component/cmd/cmdserver.go) calling ConnManager.SaveConn, and *)
(* the stats handler's ConnBegin / ConnEnd, as the module ConnRegistry.   *)
(* The gRPC runtime is the environment: a transport (one TCP connection)  *)
(* may fail; the ClientConn then goes to TransientFailure and redials on  *)
(* its own; the server sees ConnEnd some time after the transport died.   *)
(***************************************************************************)
EXTENDS Naturals, FiniteSets, Bags, BagsExt

CONSTANTS
    Agent,      \* the agent's connectID (cfg.ID + start time, fixed for the process)
    MaxTr,      \* transports (gRPC connections) that may ever be created: 1..MaxTr
    MaxFails,   \* transport and dial failures injected
    Slots,      \* stream goroutines that may be alive at once
    MaxCalls,   \* manager requests sent to the agent
    NoKey, Absent

ASSUME MaxTr \in Nat \ {0} /\ MaxFails \in Nat /\ MaxCalls \in Nat

Tr == 1..MaxTr
NoTr == 0

VARIABLES
    cc,         \* the ClientConn: [tr |-> its transport, st |-> connectivity state]
    ntr,        \* transports created so far
    rgen,       \* readyCh generation: CloseConn makes a new channel
    rclosed,    \* the current readyCh has been closed
    fails,      \* failures injected so far
    mpc,        \* StartListen's main loop: "poll", "close", "dial", "spawn", "wait"
    cur,        \* the stream goroutine whose ctx the main loop waits on
    gpc,        \* stream goroutine: "free", "exec", "reg", "recv"
    gtr,        \* the transport its stream was opened on
    inflight,   \* goroutines whose register command the server has received, not handled
    calls,      \* manager requests sent
    rsp,        \* respCmdSure of the request received: "none", "owed", "wait"
    wgen,       \* the readyCh generation respCmdSure waits on
    \* ConnRegistry's variables, for the manager process
    phase, entry, regs, pending, status

regVars == <<phase, entry, regs, pending, status>>
cliVars == <<cc, ntr, rgen, rclosed, fails, mpc, cur, gpc, gtr, inflight, calls, rsp, wgen>>
vars == <<cliVars, regVars>>

Reg == INSTANCE ConnRegistry WITH
           Tags <- Tr, Keys <- {Agent}, MaxRegs <- Cardinality(Slots) + 1,
           owner <- [t \in Tr |-> Agent]

(* A transport carries streams while it is the ClientConn's and Ready.     *)
Alive(t) == t # NoTr /\ cc.tr = t /\ cc.st = "ready"

TypeOK ==
    /\ cc \in [tr : Tr \cup {NoTr}, st : {"none", "ready", "tf", "shutdown"}]
    /\ ntr \in 0..MaxTr /\ fails \in 0..MaxFails
    /\ rgen \in Nat /\ rclosed \in BOOLEAN
    /\ mpc \in {"poll", "close", "dial", "spawn", "wait"}
    /\ cur \in Slots
    /\ gpc \in [Slots -> {"free", "exec", "reg", "recv"}]
    /\ gtr \in [Slots -> Tr \cup {NoTr}]
    /\ inflight \subseteq Slots
    /\ calls \in 0..MaxCalls
    /\ rsp \in {"none", "owed", "wait"} /\ wgen \in Nat
    /\ Reg!TypeOK

(* Agent.Run is about to call PollConn: no ClientConn, readyCh not made.  *)
Init ==
    /\ cc = [tr |-> NoTr, st |-> "none"]
    /\ ntr = 0 /\ rgen = 0 /\ rclosed = FALSE /\ fails = 0
    /\ mpc = "poll" /\ cur \in Slots
    /\ gpc = [g \in Slots |-> "free"] /\ gtr = [g \in Slots |-> NoTr]
    /\ inflight = {}
    /\ calls = 0 /\ rsp = "none" /\ wgen = 0
    /\ Reg!Init

-----------------------------------------------------------------------------
(* PollConn.  IsActive: a Ready ClientConn ends the poll.                  *)
PollCheck ==
    /\ mpc = "poll"
    /\ mpc' = IF cc.st = "ready" THEN "spawn" ELSE "close"
    /\ UNCHANGED <<cc, ntr, rgen, rclosed, fails, cur, gpc, gtr, inflight,
                   calls, rsp, wgen, regVars>>

(* CloseConn: a new readyCh, and the ClientConn (whatever its state now)  *)
(* is closed, its transport with it.                                      *)
CloseConn ==
    /\ mpc = "close"
    /\ rgen' = rgen + 1 /\ rclosed' = FALSE
    /\ cc' = IF cc.tr = NoTr THEN cc ELSE [cc EXCEPT !.st = "shutdown"]
    /\ mpc' = "dial"
    /\ UNCHANGED <<ntr, fails, cur, gpc, gtr, inflight, calls, rsp, wgen, regVars>>

(* Mutant: SetConn without close(readyCh).                                *)
DialOkNoClose ==
    /\ mpc = "dial"
    /\ ntr < MaxTr
    /\ ntr' = ntr + 1
    /\ cc' = [tr |-> ntr + 1, st |-> "ready"]
    /\ mpc' = "spawn"
    /\ Reg!ConnBegin(ntr + 1)
    /\ UNCHANGED <<rgen, rclosed, fails, cur, gpc, gtr, inflight, calls, rsp, wgen>>

(* The dial loop: dialGRPCConn (WithBlock) to the first address that      *)
(* answers; SetConn and close(readyCh).  The server's stats handler sees  *)
(* ConnBegin for the new transport before any stream on it.               *)
DialOk ==
    /\ mpc = "dial"
    /\ ntr < MaxTr
    /\ ntr' = ntr + 1
    /\ cc' = [tr |-> ntr + 1, st |-> "ready"]
    /\ rclosed' = TRUE
    /\ mpc' = "spawn"
    /\ Reg!ConnBegin(ntr + 1)
    /\ UNCHANGED <<rgen, fails, cur, gpc, gtr, inflight, calls, rsp, wgen>>

DialFail ==
    /\ mpc = "dial"
    /\ fails < MaxFails
    /\ fails' = fails + 1
    /\ UNCHANGED <<cc, ntr, rgen, rclosed, mpc, cur, gpc, gtr, inflight,
                   calls, rsp, wgen, regVars>>

(* The loop starts a stream goroutine with a fresh ctx and selects on it. *)
Spawn ==
    /\ mpc = "spawn"
    /\ \E g \in Slots :
          /\ gpc[g] = "free"
          /\ gpc' = [gpc EXCEPT ![g] = "exec"]
          /\ cur' = g
    /\ mpc' = "wait"
    /\ UNCHANGED <<cc, ntr, rgen, rclosed, fails, gtr, inflight, calls, rsp,
                   wgen, regVars>>

(* select: the goroutine returned (defer cancel()), so ctx.Done fires;    *)
(* fireOnNotReady (the agent registers no NotReady hook), then PollConn.  *)
WaitCtx ==
    /\ mpc = "wait"
    /\ gpc[cur] = "free"
    /\ mpc' = "poll"
    /\ UNCHANGED <<cc, ntr, rgen, rclosed, fails, cur, gpc, gtr, inflight,
                   calls, rsp, wgen, regVars>>

(* select: ConnOnStates(Shutdown, TransientFailure) sees one of them; the *)
(* stream goroutine is left running.                                      *)
WaitStates ==
    /\ mpc = "wait"
    /\ cc.st \in {"tf", "shutdown"}
    /\ mpc' = "poll"
    /\ UNCHANGED <<cc, ntr, rgen, rclosed, fails, cur, gpc, gtr, inflight,
                   calls, rsp, wgen, regVars>>

-----------------------------------------------------------------------------
(* Stream goroutine: client.Execute(ctx) on the current ClientConn; it    *)
(* fails at once unless the ClientConn is Ready, and the goroutine ends.  *)
StreamExecute(g) ==
    /\ gpc[g] = "exec"
    /\ IF cc.st = "ready"
         THEN /\ gpc' = [gpc EXCEPT ![g] = "reg"]
              /\ gtr' = [gtr EXCEPT ![g] = cc.tr]
         ELSE /\ gpc' = [gpc EXCEPT ![g] = "free"]
              /\ UNCHANGED gtr
    /\ UNCHANGED <<cc, ntr, rgen, rclosed, fails, mpc, cur, inflight, calls,
                   rsp, wgen, regVars>>

(* sendRegisterCmd; on success fireOnReady starts the OnReady hooks and   *)
(* afterSendRegisterCmd is handed to syncClusterStatus, always receiving; *)
(* then the receive loop.  A Send on a transport that just died may still *)
(* return nil, and the command is lost with the transport.                *)
SendRegister(g) ==
    /\ gpc[g] = "reg"
    /\ \/ /\ Alive(gtr[g])
          /\ gpc' = [gpc EXCEPT ![g] = "recv"]
          /\ inflight' = inflight \cup {g}
       \/ /\ ~Alive(gtr[g])
          /\ \E ok \in BOOLEAN :
                gpc' = [gpc EXCEPT ![g] = IF ok THEN "recv" ELSE "free"]
          /\ UNCHANGED inflight
    /\ UNCHANGED <<cc, ntr, rgen, rclosed, fails, mpc, cur, gtr, calls, rsp,
                   wgen, regVars>>

(* Mutant: a receive error is treated like io.EOF (continue).            *)
RecvFailsContinue(g) ==
    /\ gpc[g] = "recv"
    /\ ~Alive(gtr[g])
    /\ UNCHANGED vars

(* stream.Recv fails once the transport is gone; the goroutine returns.   *)
RecvFails(g) ==
    /\ gpc[g] = "recv"
    /\ ~Alive(gtr[g])
    /\ gpc' = [gpc EXCEPT ![g] = "free"]
    /\ UNCHANGED <<cc, ntr, rgen, rclosed, fails, mpc, cur, gtr, inflight,
                   calls, rsp, wgen, regVars>>

-----------------------------------------------------------------------------
(* The gRPC runtime.  A Ready transport fails (network, peer restart).    *)
TransportFail ==
    /\ fails < MaxFails
    /\ cc.st = "ready"
    /\ fails' = fails + 1
    /\ cc' = [cc EXCEPT !.st = "tf"]
    /\ UNCHANGED <<ntr, rgen, rclosed, mpc, cur, gpc, gtr, inflight, calls,
                   rsp, wgen, regVars>>

(* The ClientConn, not closed, redials by itself on a new transport.      *)
AutoReconnect ==
    /\ cc.st = "tf"
    /\ ntr < MaxTr
    /\ ntr' = ntr + 1
    /\ cc' = [tr |-> ntr + 1, st |-> "ready"]
    /\ Reg!ConnBegin(ntr + 1)
    /\ UNCHANGED <<rgen, rclosed, fails, mpc, cur, gpc, gtr, inflight, calls,
                   rsp, wgen>>

(* Mutant: ConnEnd handled again for a connection already ended (its     *)
(* entry gone: conns[tag].Key is a nil dereference).                      *)
ServerConnEndUnguarded(t) ==
    /\ ~Alive(t)
    /\ phase[t] # "new"
    /\ phase' = [phase EXCEPT ![t] = "ended"]
    /\ pending' = BagAdd(pending, [kind |-> "notReady", key |-> entry[t], tag |-> t])
    /\ entry' = [entry EXCEPT ![t] = Absent]
    /\ UNCHANGED <<regs, status, cliVars>>

(* The server's stats handler: ConnEnd for a transport that is gone.      *)
ServerConnEnd(t) ==
    /\ ~Alive(t)
    /\ Reg!ConnEnd(t)
    /\ UNCHANGED cliVars

(* Execute on the server: a received register command, handled by         *)
(* handleRegisterIfNeed without a look at ctx: SaveConn, then respCmd.    *)
HandleRegister(g) ==
    /\ g \in inflight
    /\ Reg!SaveConn(gtr[g])
    /\ inflight' = inflight \ {g}
    /\ UNCHANGED <<cc, ntr, rgen, rclosed, fails, mpc, cur, gpc, gtr, calls,
                   rsp, wgen>>

(* A manager request (reqCmd): GetConnValue returns some entry with the   *)
(* agent's key, in map order, and Send on that entry's stream.  On a live *)
(* transport the agent's receive loop gets it and processReq will answer *)
(* through respCmdSure; on a dead one the request is lost.               *)
ManagerCall(t) ==
    /\ calls < MaxCalls
    /\ rsp = "none"
    /\ t \in Reg!Lookup(Agent)
    /\ calls' = calls + 1
    /\ rsp' = IF Alive(t) THEN "owed" ELSE "none"
    /\ UNCHANGED <<cc, ntr, rgen, rclosed, fails, mpc, cur, gpc, gtr, inflight,
                   wgen, regVars>>

(* respCmdSure: sendCmdPackage opens a new stream on the current          *)
(* ClientConn and sends; on failure it waits on ConnOnReady(), the        *)
(* readyCh of that moment.                                                *)
RespSend ==
    /\ rsp = "owed"
    /\ IF cc.st = "ready"
         THEN rsp' = "none" /\ UNCHANGED wgen
         ELSE rsp' = "wait" /\ wgen' = rgen
    /\ UNCHANGED <<cc, ntr, rgen, rclosed, fails, mpc, cur, gpc, gtr, inflight,
                   calls, regVars>>

(* The readyCh it waits on is closed: an older one, or the current one    *)
(* closed by PollConn; then it tries again.                               *)
RespWake ==
    /\ rsp = "wait"
    /\ wgen < rgen \/ rclosed
    /\ rsp' = "owed"
    /\ UNCHANGED <<cc, ntr, rgen, rclosed, fails, mpc, cur, gpc, gtr, inflight,
                   calls, wgen, regVars>>

RunCallback(cb) ==
    /\ Reg!RunCallback(cb)
    /\ UNCHANGED cliVars

-----------------------------------------------------------------------------
Next ==
    \/ PollCheck \/ CloseConn \/ DialOk \/ DialFail \/ Spawn
    \/ WaitCtx \/ WaitStates
    \/ \E g \in Slots : StreamExecute(g) \/ SendRegister(g) \/ RecvFails(g)
                        \/ HandleRegister(g)
    \/ TransportFail \/ AutoReconnect
    \/ \E t \in Tr : ServerConnEnd(t) \/ ManagerCall(t)
    \/ RespSend \/ RespWake
    \/ \E cb \in BagToSet(pending) : RunCallback(cb)

(* Every goroutine that can run eventually does; gRPC keeps redialling a  *)
(* failed ClientConn; the server's transport notices a dead TCP           *)
(* connection (TCP keepalive, 15 s in Go's net package).  Failures and    *)
(* manager requests come when they come.                                  *)
Fairness ==
    /\ WF_vars(PollCheck) /\ WF_vars(CloseConn) /\ WF_vars(DialOk)
    /\ WF_vars(Spawn) /\ WF_vars(WaitCtx)
    /\ \A g \in Slots : WF_vars(StreamExecute(g)) /\ WF_vars(SendRegister(g))
                        /\ WF_vars(RecvFails(g)) /\ WF_vars(HandleRegister(g))
    /\ WF_vars(AutoReconnect)
    /\ \A t \in Tr : WF_vars(ServerConnEnd(t))
    /\ WF_vars(RespSend) /\ WF_vars(RespWake)
    /\ \A cb \in Reg!Callbacks : WF_vars(RunCallback(cb))

Spec == Init /\ [][Next]_vars /\ Fairness
-----------------------------------------------------------------------------
(* Properties.                                                             *)

(* Once failures stop, the agent ends up connected and reachable: its     *)
(* ClientConn is Ready and the manager's registry maps that very          *)
(* transport to the agent, whatever order the reconnect, the stream       *)
(* goroutines and the server's ConnBegin / ConnEnd / register took.        *)
AgentReachable == <>[](cc.st = "ready" /\ entry[cc.tr] = Agent)

(* A request the agent received is answered: respCmdSure's retry loop,    *)
(* waiting on readyCh between attempts, eventually gets the response out  *)
(* (it never waits on a readyCh that PollConn will not close).            *)
ResponseSent == rsp # "none" ~> rsp = "none"

(* The spec: the registry routes calls to a live peer, and on ConnEnd the *)
(* entry is deleted.  Eventually every entry GetConnValue may return for   *)
(* the agent is a live transport.                                          *)
RoutesOnlyLive == <>[](\A t \in Reg!Lookup(Agent) : Alive(t))
=============================================================================
