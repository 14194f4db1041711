----------------------------- MODULE CmdManager -----------------------------
(***************************************************************************)
(* The request/response correlation engine of cmdManager                   *)
(* (src/pkg/component/cmd/cmdmanager.go) between a requester, which calls  *)
(* SendSync, and a responder, whose executor runs the handler and streams  *)
(* the answer back (processReq).                                           *)
(*                                                                         *)
(* Requester side, per call id:                                            *)
(*   caller    the goroutine in SendSync / waitForResp, later the user of  *)
(*             the returned Resp (Read / Close);                           *)
(*   reader    the goroutine ranging over the respBuffer channel;          *)
(*   closer    the goroutine waiting on resp.close for a stream result;    *)
(*   writer[m] the goroutine onReceive spawns for RESPONSE package m       *)
(*             (processResp -> safeWriteBuffer);                           *)
(*   buf, bufState, lock   the respBuffers / bufferLocks entries.          *)
(* Responder side: its receive loop, processReq and the executor.streams   *)
(* map.  The two receive loops read ordered gRPC streams (net, reqNet).    *)
(***************************************************************************)
EXTENDS Naturals, Sequences, FiniteSets

CONSTANTS
    Ids,        \* UUIDs of the calls the requester makes
    StreamIds,  \* calls whose handler answers with RespStream(...)
    TimedIds,   \* calls made as SendSync(cmd, timeoutSecond) with timeoutSecond > 0
    MaxChunks,  \* flushes a streaming handler's processReq makes before its source ends
    BufCap,     \* capacity of a respBuffer channel (MaxBufferSize)
    NoOne       \* "no goroutine holds this per-id lock"

ASSUME /\ StreamIds \subseteq Ids
       /\ TimedIds \subseteq Ids
       /\ MaxChunks \in Nat \ {0}
       /\ BufCap \in Nat \ {0}

(* RESPONSE packages: chunk n of call id; a data reply is chunk 1 and      *)
(* n = 0 is the "ok" the responder sends back for a close command.         *)
Msgs == [id : Ids, n : 0..MaxChunks]
(* REQUEST packages: the call itself, or the reserved CloseStream command. *)
Reqs == [id : Ids, name : {"exec", "close"}]

VARIABLES
    caller, reader, readerIdx, closer, writer,
    buf, bufState, lock, pipe, pipeClosed, got,
    net, reqNet, rstate, rsent, streams, lost

vars == <<caller, reader, readerIdx, closer, writer, buf, bufState, lock,
          pipe, pipeClosed, got, net, reqNet, rstate, rsent, streams, lost>>
reqVars == <<caller, reader, readerIdx, closer, writer, buf, bufState, lock,
             pipe, pipeClosed, got, lost>>
respVars == <<rstate, rsent, streams>>

CallerStates == {"idle", "sent", "failed", "waiting", "dataClose", "returned",
                 "toClose", "timedOut", "stream", "closeSignal", "closed",
                 "closeBlocked"}

TypeOK ==
    /\ caller \in [Ids -> CallerStates]
    /\ reader \in [Ids -> {"none", "loop", "notify", "write", "done"}]
    /\ readerIdx \in [Ids -> 0..1]
    /\ closer \in [Ids -> {"none", "wait", "closeBuf", "sendClose", "done"}]
    /\ writer \in [Msgs -> {"none", "spawned", "locking", "blocked", "done"}]
    /\ buf \in [Ids -> Seq(0..MaxChunks)]
    /\ \A i \in Ids : Len(buf[i]) <= BufCap
    /\ bufState \in [Ids -> {"none", "open", "closed"}]
    /\ lock \in [Ids -> Msgs \cup {NoOne}]
    /\ pipe \in [Ids -> 0..MaxChunks]
    /\ pipeClosed \in [Ids -> BOOLEAN]
    /\ got \in [Ids -> Seq(0..MaxChunks)]
    /\ net \in Seq(Msgs)
    /\ reqNet \in Seq(Reqs)
    /\ rstate \in [Ids -> {"idle", "running", "saving", "open", "closed", "ended"}]
    /\ rsent \in [Ids -> 0..MaxChunks]
    /\ streams \subseteq Ids
    /\ lost \subseteq Ids

Init ==
    /\ caller = [i \in Ids |-> "idle"]
    /\ reader = [i \in Ids |-> "none"]
    /\ readerIdx = [i \in Ids |-> 0]
    /\ closer = [i \in Ids |-> "none"]
    /\ writer = [m \in Msgs |-> "none"]
    /\ buf = [i \in Ids |-> <<>>]
    /\ bufState = [i \in Ids |-> "none"]
    /\ lock = [i \in Ids |-> NoOne]
    /\ pipe = [i \in Ids |-> 0]
    /\ pipeClosed = [i \in Ids |-> FALSE]
    /\ got = [i \in Ids |-> <<>>]
    /\ net = <<>>
    /\ reqNet = <<>>
    /\ rstate = [i \in Ids |-> "idle"]
    /\ rsent = [i \in Ids |-> 0]
    /\ streams = {}
    /\ lost = {}

-----------------------------------------------------------------------------
(* Requester: SendSync and waitForResp.                                    *)

(* SendSync: genReqCmdPackage, then sendCmd, which may fail (no executor   *)
(* registered, broken stream); the buffer is NOT registered yet.           *)
SendCmd(id) ==
    /\ caller[id] = "idle"
    /\ \/ /\ reqNet' = Append(reqNet, [id |-> id, name |-> "exec"])
          /\ caller' = [caller EXCEPT ![id] = "sent"]
       \/ /\ caller' = [caller EXCEPT ![id] = "failed"]
          /\ UNCHANGED reqNet
    /\ UNCHANGED <<reader, readerIdx, closer, writer, buf, bufState, lock, pipe,
                   pipeClosed, got, net, lost, respVars>>

(* waitForResp: store the buffer and its lock, start the reader goroutine. *)
Register(id) ==
    /\ caller[id] = "sent"
    /\ caller' = [caller EXCEPT ![id] = "waiting"]
    /\ bufState' = [bufState EXCEPT ![id] = "open"]
    /\ reader' = [reader EXCEPT ![id] = "loop"]
    /\ UNCHANGED <<readerIdx, closer, writer, buf, lock, pipe, pipeClosed, got,
                   net, reqNet, lost, respVars>>

(* The select receives the first chunk from notifyCh.  A stream result is  *)
(* handed to the user, with a goroutine waiting on resp.close; the reader  *)
(* goes on to write the chunk into the pipe.                               *)
TakeResult(id) ==
    /\ caller[id] = "waiting"
    /\ reader[id] = "notify"
    /\ IF id \in StreamIds
         THEN /\ caller' = [caller EXCEPT ![id] = "stream"]
              /\ closer' = [closer EXCEPT ![id] = "wait"]
              /\ reader' = [reader EXCEPT ![id] = "write"]
         ELSE /\ caller' = [caller EXCEPT ![id] = "dataClose"]
              /\ reader' = [reader EXCEPT ![id] = "loop"]
              /\ UNCHANGED closer
    /\ UNCHANGED <<readerIdx, writer, buf, bufState, lock, pipe, pipeClosed,
                   got, net, reqNet, lost, respVars>>

(* Mutant: the deadline is never armed for a positive timeoutSecond (the  *)
(* waitForResp test on timeout inverted).                                  *)
TimeoutNotArmed(id) ==
    /\ id \notin TimedIds
    /\ caller[id] = "waiting"
    /\ caller' = [caller EXCEPT ![id] = "toClose"]
    /\ UNCHANGED <<reader, readerIdx, closer, writer, buf, bufState, lock, pipe,
                   pipeClosed, got, net, reqNet, lost, respVars>>

(* The select takes ctx.Done(): the deadline of a timed call has passed.   *)
Timeout(id) ==
    /\ id \in TimedIds
    /\ caller[id] = "waiting"
    /\ caller' = [caller EXCEPT ![id] = "toClose"]
    /\ UNCHANGED <<reader, readerIdx, closer, writer, buf, bufState, lock, pipe,
                   pipeClosed, got, net, reqNet, lost, respVars>>

(* safeCloseBuffer: if the lock is still stored, take it, close the       *)
(* channel and delete both entries.  It waits while a writer holds it.    *)
SafeCloseBuffer(id) ==
    /\ bufState[id] = "open" => lock[id] = NoOne
    /\ bufState' = [bufState EXCEPT ![id] = IF @ = "open" THEN "closed" ELSE @]

(* The non-stream result and the timeout both close the buffer before    *)
(* SendSync returns.                                                      *)
ReturnData(id) ==
    /\ caller[id] = "dataClose"
    /\ SafeCloseBuffer(id)
    /\ caller' = [caller EXCEPT ![id] = "returned"]
    /\ UNCHANGED <<reader, readerIdx, closer, writer, buf, lock, pipe,
                   pipeClosed, got, net, reqNet, lost, respVars>>

ReturnTimeout(id) ==
    /\ caller[id] = "toClose"
    /\ SafeCloseBuffer(id)
    /\ caller' = [caller EXCEPT ![id] = "timedOut"]
    /\ UNCHANGED <<reader, readerIdx, closer, writer, buf, lock, pipe,
                   pipeClosed, got, net, reqNet, lost, respVars>>

-----------------------------------------------------------------------------
(* Requester: the reader goroutine of waitForResp (for cb := range ...).   *)

(* RespStream chunks carry Stream = true; a data reply and the "ok" of the *)
(* close command (n = 0) do not.                                           *)
StreamPkg(id, n) == id \in StreamIds /\ n # 0

(* Receive the next package.  At index 0 it builds the Resp and blocks on  *)
(* notifyCh; later packages with cb.Stream set are written into the pipe, *)
(* the others skipped.                                                     *)
ReaderRecv(id) ==
    /\ reader[id] = "loop"
    /\ buf[id] # <<>>
    /\ LET n == Head(buf[id])
           writes == readerIdx[id] # 0 /\ StreamPkg(id, n)
       IN  /\ pipe' = [pipe EXCEPT ![id] = IF readerIdx[id] = 0 \/ writes THEN n ELSE @]
           /\ reader' = [reader EXCEPT ![id] =
                            IF readerIdx[id] = 0 THEN "notify"
                            ELSE IF writes THEN "write" ELSE "loop"]
    /\ buf' = [buf EXCEPT ![id] = Tail(@)]
    /\ readerIdx' = [readerIdx EXCEPT ![id] = 1]
    /\ UNCHANGED <<caller, closer, writer, bufState, lock, pipeClosed, got,
                   net, reqNet, lost, respVars>>

(* The range ends once the channel is closed and drained.                  *)
ReaderExit(id) ==
    /\ reader[id] = "loop"
    /\ buf[id] = <<>>
    /\ bufState[id] = "closed"
    /\ reader' = [reader EXCEPT ![id] = "done"]
    /\ UNCHANGED <<caller, readerIdx, closer, writer, buf, bufState, lock, pipe,
                   pipeClosed, got, net, reqNet, lost, respVars>>

(* resp.Write on a closed pipe fails and the goroutine returns, leaving   *)
(* whatever is still in the channel undrained.                             *)
WriteFails(id) ==
    /\ reader[id] = "write"
    /\ pipeClosed[id]
    /\ reader' = [reader EXCEPT ![id] = "done"]
    /\ UNCHANGED <<caller, readerIdx, closer, writer, buf, bufState, lock, pipe,
                   pipeClosed, got, net, reqNet, lost, respVars>>

-----------------------------------------------------------------------------
(* Requester: the user of a stream Resp, and the goroutine on resp.close.  *)

(* Resp.Read: the pipe hands the written chunk to the user.                *)
ConsumerRead(id) ==
    /\ caller[id] = "stream"
    /\ reader[id] = "write"
    /\ got' = [got EXCEPT ![id] = Append(@, pipe[id])]
    /\ reader' = [reader EXCEPT ![id] = "loop"]
    /\ UNCHANGED <<caller, readerIdx, closer, writer, buf, bufState, lock, pipe,
                   pipeClosed, net, reqNet, lost, respVars>>

(* Resp.Close: stream.close() closes the pipe, then the deferred send on  *)
(* resp.close blocks until the waiting goroutine takes it.                 *)
ConsumerClose(id) ==
    /\ caller[id] = "stream"
    /\ pipeClosed' = [pipeClosed EXCEPT ![id] = TRUE]
    /\ caller' = [caller EXCEPT ![id] = "closeSignal"]
    /\ UNCHANGED <<reader, readerIdx, closer, writer, buf, bufState, lock, pipe,
                   got, net, reqNet, lost, respVars>>

CloseHandoff(id) ==
    /\ caller[id] = "closeSignal"
    /\ closer[id] = "wait"
    /\ caller' = [caller EXCEPT ![id] = "closed"]
    /\ closer' = [closer EXCEPT ![id] = "closeBuf"]
    /\ UNCHANGED <<reader, readerIdx, writer, buf, bufState, lock, pipe,
                   pipeClosed, got, net, reqNet, lost, respVars>>

(* Resp.Close on a Resp whose close channel nobody receives from any more: *)
(* a second Close of a stream (the goroutine on resp.close took the first  *)
(* signal and went on), or Close of a data Resp (close is nil).  The       *)
(* streamer's close is harmless again, but the deferred send blocks.       *)
ConsumerCloseBlocks(id) ==
    /\ caller[id] \in {"closed", "returned"}
    /\ caller' = [caller EXCEPT ![id] = "closeBlocked"]
    /\ UNCHANGED <<reader, readerIdx, closer, writer, buf, bufState, lock, pipe,
                   pipeClosed, got, net, reqNet, lost, respVars>>

(* cm.safeCloseBuffer(c), then cm.closeCmdStream(c).                       *)
CloserCloseBuffer(id) ==
    /\ closer[id] = "closeBuf"
    /\ SafeCloseBuffer(id)
    /\ closer' = [closer EXCEPT ![id] = "sendClose"]
    /\ UNCHANGED <<caller, reader, readerIdx, writer, buf, lock, pipe,
                   pipeClosed, got, net, reqNet, lost, respVars>>

(* closeCmdStream retries sendCmd with a capped backoff until it succeeds; *)
(* a failed attempt changes nothing, so only the success is a step.        *)
SendCloseCmd(id) ==
    /\ closer[id] = "sendClose"
    /\ reqNet' = Append(reqNet, [id |-> id, name |-> "close"])
    /\ closer' = [closer EXCEPT ![id] = "done"]
    /\ UNCHANGED <<caller, reader, readerIdx, writer, buf, bufState, lock, pipe,
                   pipeClosed, got, net, lost, respVars>>

-----------------------------------------------------------------------------
(* Requester: onReceive of a RESPONSE and processResp -> safeWriteBuffer.  *)

(* The receive loop takes the next package and spawns processResp.         *)
RecvResp ==
    /\ net # <<>>
    /\ writer' = [writer EXCEPT ![Head(net)] = "spawned"]
    /\ net' = Tail(net)
    /\ UNCHANGED <<caller, reader, readerIdx, closer, buf, bufState, lock, pipe,
                   pipeClosed, got, reqNet, lost, respVars>>

(* bufferLocks.Load: no lock stored means the package is skipped.  A       *)
(* package skipped while its SendSync is still outstanding is recorded.    *)
WriterLoadLock(m) ==
    /\ writer[m] = "spawned"
    /\ IF bufState[m.id] = "open"
         THEN /\ writer' = [writer EXCEPT ![m] = "locking"]
              /\ UNCHANGED lost
         ELSE /\ writer' = [writer EXCEPT ![m] = "done"]
              /\ lost' = IF caller[m.id] = "sent" THEN lost \cup {m.id} ELSE lost
    /\ UNCHANGED <<caller, reader, readerIdx, closer, buf, bufState, lock, pipe,
                   pipeClosed, got, net, reqNet, respVars>>

(* Mutant: the send into a full channel does not block (capacity off by   *)
(* one).                                                                   *)
WriterLockOverfill(m) ==
    /\ writer[m] = "locking"
    /\ lock[m.id] = NoOne
    /\ IF bufState[m.id] # "open"
         THEN /\ writer' = [writer EXCEPT ![m] = "done"]
              /\ UNCHANGED <<buf, lock>>
       ELSE IF Len(buf[m.id]) <= BufCap
         THEN /\ buf' = [buf EXCEPT ![m.id] = Append(@, m.n)]
              /\ writer' = [writer EXCEPT ![m] = "done"]
              /\ UNCHANGED lock
         ELSE /\ lock' = [lock EXCEPT ![m.id] = m]
              /\ writer' = [writer EXCEPT ![m] = "blocked"]
              /\ UNCHANGED buf
    /\ UNCHANGED <<caller, reader, readerIdx, closer, bufState, pipe,
                   pipeClosed, got, net, reqNet, lost, respVars>>

(* Mutant: safeWriteBuffer sends without loading the buffer again under   *)
(* the lock.                                                               *)
WriterLockNoRecheck(m) ==
    /\ writer[m] = "locking"
    /\ lock[m.id] = NoOne
    /\ IF Len(buf[m.id]) < BufCap
         THEN /\ buf' = [buf EXCEPT ![m.id] = Append(@, m.n)]
              /\ writer' = [writer EXCEPT ![m] = "done"]
              /\ UNCHANGED lock
         ELSE /\ lock' = [lock EXCEPT ![m.id] = m]
              /\ writer' = [writer EXCEPT ![m] = "blocked"]
              /\ UNCHANGED buf
    /\ UNCHANGED <<caller, reader, readerIdx, closer, bufState, pipe,
                   pipeClosed, got, net, reqNet, lost, respVars>>

(* Lock, load the buffer again (it may have been deleted since), and send  *)
(* into the channel, blocking with the lock held while the channel is full.*)
WriterLock(m) ==
    /\ writer[m] = "locking"
    /\ lock[m.id] = NoOne
    /\ IF bufState[m.id] # "open"
         THEN /\ writer' = [writer EXCEPT ![m] = "done"]
              /\ UNCHANGED <<buf, lock>>
       ELSE IF Len(buf[m.id]) < BufCap
         THEN /\ buf' = [buf EXCEPT ![m.id] = Append(@, m.n)]
              /\ writer' = [writer EXCEPT ![m] = "done"]
              /\ UNCHANGED lock
         ELSE /\ lock' = [lock EXCEPT ![m.id] = m]
              /\ writer' = [writer EXCEPT ![m] = "blocked"]
              /\ UNCHANGED buf
    /\ UNCHANGED <<caller, reader, readerIdx, closer, bufState, pipe,
                   pipeClosed, got, net, reqNet, lost, respVars>>

WriterUnblock(m) ==
    /\ writer[m] = "blocked"
    /\ Len(buf[m.id]) < BufCap
    /\ buf' = [buf EXCEPT ![m.id] = Append(@, m.n)]
    /\ lock' = [lock EXCEPT ![m.id] = NoOne]
    /\ writer' = [writer EXCEPT ![m] = "done"]
    /\ UNCHANGED <<caller, reader, readerIdx, closer, bufState, pipe,
                   pipeClosed, got, net, reqNet, lost, respVars>>

-----------------------------------------------------------------------------
(* Responder: onReceive of a REQUEST, processReq and executor.exec.        *)

(* The receive loop takes the next REQUEST and spawns processReq.  For the *)
(* reserved close command the executor's closeSteamHandler closes the      *)
(* stream saved under the UUID (it stays in executor.streams) and the      *)
(* "ok" goes back with the same UUID.                                      *)
RecvReq ==
    /\ reqNet # <<>>
    /\ LET r == Head(reqNet) IN
       IF r.name = "exec"
         THEN /\ rstate' = [rstate EXCEPT ![r.id] = "running"]
              /\ UNCHANGED net
         ELSE /\ rstate' = [rstate EXCEPT ![r.id] =
                              IF r.id \in streams /\ @ = "open" THEN "closed" ELSE @]
              /\ net' = Append(net, [id |-> r.id, n |-> 0])
    /\ reqNet' = Tail(reqNet)
    /\ UNCHANGED <<reqVars, rsent, streams>>

(* The handler returns a data Resp (or the "not supported" Fail Resp,      *)
(* which is the same to this protocol) and respCmd sends it, or fails.     *)
ReplyData(id) ==
    /\ rstate[id] = "running"
    /\ id \notin StreamIds
    /\ net' = Append(net, [id |-> id, n |-> 1])
    /\ rstate' = [rstate EXCEPT ![id] = "ended"]
    /\ UNCHANGED <<reqVars, reqNet, rsent, streams>>

ReplyFails(id) ==
    /\ rstate[id] = "running"
    /\ id \notin StreamIds
    /\ rstate' = [rstate EXCEPT ![id] = "ended"]
    /\ UNCHANGED <<reqVars, net, reqNet, rsent, streams>>

(* The handler returns a stream Resp: exec assigns e.streams[cmd.UUID].    *)
(* processReq goroutines run exec concurrently and the map has no lock, so *)
(* the assignment is a step of its own: it starts (saving) and completes.  *)
OpenStream(id) ==
    /\ rstate[id] = "running"
    /\ id \in StreamIds
    /\ rstate' = [rstate EXCEPT ![id] = "saving"]
    /\ UNCHANGED <<reqVars, net, reqNet, rsent, streams>>

SaveStream(id) ==
    /\ rstate[id] = "saving"
    /\ rstate' = [rstate EXCEPT ![id] = "open"]
    /\ streams' = streams \cup {id}
    /\ UNCHANGED <<reqVars, net, reqNet, rsent>>

(* One flush of processReq's consumer loop (send(&lines)).  Once the       *)
(* stream is closed the producer closes its buffer and the loop makes its *)
(* final flush and returns.                                                *)
EmitChunk(id) ==
    /\ rstate[id] \in {"open", "closed"}
    /\ rsent[id] < MaxChunks
    /\ net' = Append(net, [id |-> id, n |-> rsent[id] + 1])
    /\ rsent' = [rsent EXCEPT ![id] = @ + 1]
    /\ rstate' = [rstate EXCEPT ![id] = IF @ = "closed" THEN "ended" ELSE @]
    /\ UNCHANGED <<reqVars, reqNet, streams>>

(* The loop returns without a flush: the source ended with no line        *)
(* pending, or respCmd failed.                                             *)
StreamEnds(id) ==
    /\ rstate[id] \in {"open", "closed"}
    /\ rstate' = [rstate EXCEPT ![id] = "ended"]
    /\ UNCHANGED <<reqVars, net, reqNet, rsent, streams>>

-----------------------------------------------------------------------------
RequesterStep(id) ==
    \/ SendCmd(id) \/ Register(id) \/ TakeResult(id) \/ Timeout(id)
    \/ ReturnData(id) \/ ReturnTimeout(id)
    \/ ReaderRecv(id) \/ ReaderExit(id) \/ WriteFails(id)
    \/ CloseHandoff(id) \/ CloserCloseBuffer(id) \/ SendCloseCmd(id)

ConsumerStep(id) == ConsumerRead(id) \/ ConsumerClose(id) \/ ConsumerCloseBlocks(id)

WriterStep(m) == WriterLoadLock(m) \/ WriterLock(m) \/ WriterUnblock(m)

ResponderStep(id) ==
    \/ ReplyData(id) \/ ReplyFails(id) \/ OpenStream(id) \/ SaveStream(id)
    \/ EmitChunk(id) \/ StreamEnds(id)

Next ==
    \/ \E id \in Ids : RequesterStep(id) \/ ConsumerStep(id) \/ ResponderStep(id)
    \/ \E m \in Msgs : WriterStep(m)
    \/ RecvResp
    \/ RecvReq

(* Every goroutine the code starts keeps running: weak fairness for each,  *)
(* strong fairness where a step waits for a per-id mutex that other        *)
(* goroutines take and release.  The user of a stream Resp, and the       *)
(* decision to make a call, get no fairness.                               *)
Fairness ==
    /\ \A id \in Ids :
          /\ WF_vars(Register(id) \/ TakeResult(id) \/ Timeout(id))
          /\ SF_vars(ReturnData(id)) /\ SF_vars(ReturnTimeout(id))
          /\ WF_vars(ReaderRecv(id) \/ ReaderExit(id) \/ WriteFails(id))
          /\ WF_vars(CloseHandoff(id)) /\ SF_vars(CloserCloseBuffer(id))
          /\ WF_vars(SendCloseCmd(id))
          /\ WF_vars(ResponderStep(id))
    /\ \A m \in Msgs :
          /\ WF_vars(WriterLoadLock(m))
          /\ SF_vars(WriterLock(m))
          /\ WF_vars(WriterUnblock(m))
    /\ WF_vars(RecvResp)
    /\ WF_vars(RecvReq)

Spec == Init /\ [][Next]_vars /\ Fairness

-----------------------------------------------------------------------------
(* Properties.                                                             *)

(* safeWriteBuffer / safeCloseBuffer: once a call's respBuffer channel has *)
(* been closed, no processResp goroutine ever sends into it (a send on a   *)
(* closed channel panics the process); it can only be drained.             *)
NoWriteAfterClose ==
    [][\A i \in Ids : bufState[i] = "closed" => Len(buf'[i]) <= Len(buf[i])]_vars

(* SendSync with a timeout always returns: with the reply, or with the    *)
(* timeout error once the deadline passes, whatever the responder does.    *)
TimedCallReturns ==
    \A id \in TimedIds : caller[id] = "sent" ~> caller[id] \in {"returned", "timedOut"}

(* A RESPONSE that arrives while its SendSync is still outstanding is      *)
(* handed to that call, never skipped as "buffer deleted" (the spec:       *)
(* register the pending queue before sending, to avoid a race with an      *)
(* immediate reply).                                                       *)
NoReplyLost == lost = {}

(* The flushes of one stream reach the user's Resp in the order the        *)
(* responder's processReq sent them (the spec: per-id in-order delivery of *)
(* successive stream-flush chunks).                                        *)
StreamInOrder ==
    \A id \in StreamIds : \A k \in DOMAIN got[id] : got[id][k] = k

(* After the user calls Close on a stream Resp, the CloseStream command is *)
(* eventually sent to the responder, so that it releases the stream.       *)
CloseReachesResponder ==
    \A id \in StreamIds : caller[id] = "closed" ~> closer[id] = "done"

(* Once the user has closed a stream, the responder's executor eventually *)
(* holds no stream entry for that id (the spec: after close() the         *)
(* Executor no longer holds a stream entry; closeSteamHandler only closes  *)
(* the entry, exec only ever adds one).                                    *)
StreamReleased ==
    \A id \in StreamIds : caller[id] = "closed" ~> id \notin streams

(* A Close of a Resp always returns, the second Close of a stream included *)
(* (the spec: calling close() twice is not an error).                     *)
CloseReturns ==
    \A id \in Ids : caller[id] = "closeBlocked" ~> caller[id] # "closeBlocked"

(* No two processReq goroutines write the unguarded executor.streams map  *)
(* at the same time (the Go runtime aborts the process with "concurrent  *)
(* map writes").                                                           *)
ExecMapExclusive ==
    \A i, j \in Ids : rstate[i] = "saving" /\ rstate[j] = "saving" => i = j

=============================================================================
