----------------------------- MODULE StreamFlush -----------------------------
(***************************************************************************)
(* The stream path of cmdManager.processReq                                *)
(* (src/pkg/component/cmd/cmdmanager.go): a producer goroutine reads the   *)
(* handler's stream line by line into a buffered channel; the consumer     *)
(* loop batches lines and sends one RESPONSE package per flush, when the   *)
(* batch reaches MaxReadLinesNum, when the MaxProcessWaitTime timer fires, *)
(* or when the channel is closed.  Lines are numbered 1..NumLines in the   *)
(* order the source yields them; the timer follows the Go (< 1.23)        *)
(* semantics of time.Timer: Reset does not drain an expired, unread value. *)
(***************************************************************************)
EXTENDS Naturals, Sequences, SequencesExt

CONSTANTS
    NumLines,         \* lines the handler's stream yields before it would block
    MaxReadLinesNum,  \* lines per flush (100)
    MaxBufferSize,    \* capacity of the line channel (200)
    Follow,           \* TRUE: the source blocks after its lines (log follow) instead of EOF
    SendMayFail       \* TRUE: respCmd may return an error (server side, connection lost)

ASSUME /\ NumLines \in Nat /\ MaxReadLinesNum \in Nat \ {0}
       /\ MaxBufferSize \in Nat \ {0}
       /\ Follow \in BOOLEAN /\ SendMayFail \in BOOLEAN

VARIABLES
    src,         \* lines the producer has read from the source
    srcClosed,   \* the executor's closeSteamHandler closed the stream
    pstate,      \* producer: "reading" (in ReadBytes), "putting" (line src), "exited"
    chan,        \* the buffer channel of lines
    chanClosed,
    lines,       \* the consumer's pending batch
    sent,        \* the batches sent by respCmd, in order
    cstate,      \* consumer: "loop", "returned", "failed" (respCmd error)
    timerOn,     \* the timer is running
    timerC       \* an expired value is waiting in timer.C

vars == <<src, srcClosed, pstate, chan, chanClosed, lines, sent, cstate,
          timerOn, timerC>>
prodVars == <<src, pstate, chan, chanClosed>>

TypeOK ==
    /\ src \in 0..NumLines
    /\ srcClosed \in BOOLEAN
    /\ pstate \in {"reading", "putting", "exited"}
    /\ chan \in Seq(1..NumLines) /\ Len(chan) <= MaxBufferSize
    /\ chanClosed \in BOOLEAN
    /\ lines \in Seq(1..NumLines)
    /\ sent \in Seq(Seq(1..NumLines))
    /\ cstate \in {"loop", "returned", "failed"}
    /\ timerOn \in BOOLEAN
    /\ timerC \in BOOLEAN

(* time.NewTimer(MaxProcessWaitTime) starts running before the loop.      *)
Init ==
    /\ src = 0 /\ srcClosed = FALSE /\ pstate = "reading"
    /\ chan = <<>> /\ chanClosed = FALSE
    /\ lines = <<>> /\ sent = <<>> /\ cstate = "loop"
    /\ timerOn = TRUE /\ timerC = FALSE

-----------------------------------------------------------------------------
(* Producer goroutine.                                                     *)

(* reader.ReadBytes('\n') returns the next line.                           *)
ReadLine ==
    /\ pstate = "reading"
    /\ ~srcClosed
    /\ src < NumLines
    /\ src' = src + 1
    /\ pstate' = "putting"
    /\ UNCHANGED <<srcClosed, chan, chanClosed, lines, sent, cstate, timerOn, timerC>>

(* ReadBytes returns an error (EOF of a finite source, or the stream was   *)
(* closed): close(buffer) and return.                                      *)
ReadEnds ==
    /\ pstate = "reading"
    /\ srcClosed \/ (src = NumLines /\ ~Follow)
    /\ chanClosed' = TRUE
    /\ pstate' = "exited"
    /\ UNCHANGED <<src, srcClosed, chan, lines, sent, cstate, timerOn, timerC>>

(* Mutant: the put does not block on a full channel.                      *)
PutLineOverfill ==
    /\ pstate = "putting"
    /\ Len(chan) <= MaxBufferSize
    /\ chan' = Append(chan, src)
    /\ pstate' = "reading"
    /\ UNCHANGED <<src, srcClosed, chanClosed, lines, sent, cstate, timerOn, timerC>>

(* buffer <- line blocks while the channel is full.                        *)
PutLine ==
    /\ pstate = "putting"
    /\ Len(chan) < MaxBufferSize
    /\ chan' = Append(chan, src)
    /\ pstate' = "reading"
    /\ UNCHANGED <<src, srcClosed, chanClosed, lines, sent, cstate, timerOn, timerC>>

(* The requester's CloseStream command reaches closeSteamHandler.          *)
CloseSource ==
    /\ ~srcClosed
    /\ srcClosed' = TRUE
    /\ UNCHANGED <<src, pstate, chan, chanClosed, lines, sent, cstate, timerOn, timerC>>

-----------------------------------------------------------------------------
(* Consumer loop.  send(&lines) sends a non-empty batch and empties it; a  *)
(* respCmd error makes processReq return it.  next is the loop's state    *)
(* after a successful send.                                                *)

Send(batch, next) ==
    \/ /\ batch # <<>>
       /\ sent' = Append(sent, batch)
       /\ lines' = <<>>
       /\ cstate' = next
    \/ /\ batch # <<>>
       /\ SendMayFail
       /\ cstate' = "failed"
       /\ UNCHANGED <<sent, lines>>
    \/ /\ batch = <<>>
       /\ cstate' = next
       /\ UNCHANGED <<sent, lines>>

(* case <-timer.C                                                          *)
TimerCase ==
    /\ cstate = "loop"
    /\ timerC
    /\ timerC' = FALSE
    /\ Send(lines, "loop")
    /\ UNCHANGED <<prodVars, srcClosed, timerOn>>

(* Mutant: the batch is flushed only once it exceeds MaxReadLinesNum.      *)
LineCaseOffByOne ==
    /\ cstate = "loop"
    /\ chan # <<>>
    /\ chan' = Tail(chan)
    /\ LET batch == Append(lines, Head(chan)) IN
         IF Len(batch) > MaxReadLinesNum
           THEN Send(batch, "loop")
           ELSE lines' = batch /\ UNCHANGED <<sent, cstate>>
    /\ timerOn' = (timerOn \/ (cstate' = "loop" /\ Len(lines') = 1))
    /\ UNCHANGED <<src, pstate, chanClosed, srcClosed, timerC>>

(* Mutant: the timer is not reset when a new batch starts.                 *)
LineCaseNoReset ==
    /\ cstate = "loop"
    /\ chan # <<>>
    /\ chan' = Tail(chan)
    /\ LET batch == Append(lines, Head(chan)) IN
         IF Len(batch) >= MaxReadLinesNum
           THEN Send(batch, "loop")
           ELSE lines' = batch /\ UNCHANGED <<sent, cstate>>
    /\ UNCHANGED <<src, pstate, chanClosed, srcClosed, timerOn, timerC>>

(* case line := <-buffer with a line: add it to the batch, flush a full    *)
(* batch, and Reset the timer when the line starts a new batch.            *)
LineCase ==
    /\ cstate = "loop"
    /\ chan # <<>>
    /\ chan' = Tail(chan)
    /\ LET batch == Append(lines, Head(chan)) IN
         IF Len(batch) >= MaxReadLinesNum
           THEN Send(batch, "loop")
           ELSE lines' = batch /\ UNCHANGED <<sent, cstate>>
    /\ timerOn' = (timerOn \/ (cstate' = "loop" /\ Len(lines') = 1))
    /\ UNCHANGED <<src, pstate, chanClosed, srcClosed, timerC>>

(* case line := <-buffer on the closed, drained channel: final flush.      *)
ClosedCase ==
    /\ cstate = "loop"
    /\ chan = <<>>
    /\ chanClosed
    /\ Send(lines, "returned")
    /\ UNCHANGED <<prodVars, srcClosed, timerOn, timerC>>

(* The timer expires while processReq still runs.                          *)
TimerFire ==
    /\ cstate = "loop"
    /\ timerOn
    /\ timerOn' = FALSE
    /\ timerC' = TRUE
    /\ UNCHANGED <<prodVars, srcClosed, lines, sent, cstate>>

-----------------------------------------------------------------------------
Next ==
    \/ ReadLine \/ ReadEnds \/ PutLine \/ CloseSource
    \/ TimerCase \/ LineCase \/ ClosedCase \/ TimerFire

(* Both goroutines and the Go timer make progress; whether and when the    *)
(* requester closes the stream is up to its user.                          *)
Spec ==
    /\ Init /\ [][Next]_vars
    /\ WF_vars(ReadLine) /\ WF_vars(ReadEnds) /\ WF_vars(PutLine)
    /\ WF_vars(TimerCase) /\ WF_vars(LineCase) /\ WF_vars(ClosedCase)
    /\ WF_vars(TimerFire)

-----------------------------------------------------------------------------
(* Properties.                                                             *)

(* The packages processReq sends carry the source's lines in order, each   *)
(* exactly once, never more than MaxReadLinesNum per package and never a   *)
(* line before it was read: the loop implements BatchedStream.             *)
Shipped == INSTANCE BatchedStream
               WITH NumLines <- NumLines, MaxBatch <- MaxReadLinesNum,
                    read <- src, out <- FlattenSeq(sent)
ImplementsBatchedStream == Shipped!Spec

(* Every line read from the handler's stream is eventually sent to the    *)
(* requester, even while the source produces nothing more (a followed log *)
(* that is quiet), unless a respCmd fails: the idle timer flushes it.      *)
EveryLineFlushed ==
    \A k \in 1..NumLines :
        src >= k ~> (Len(FlattenSeq(sent)) >= k \/ cstate = "failed")

(* Once processReq has returned on a respCmd error and the stream has been *)
(* closed, the producer goroutine eventually exits: nothing of the        *)
(* request is left running.  (The producer only stops at a read error; a  *)
(* buffer <- line into a full channel nobody reads any more never ends.)  *)
ProducerExits ==
    (cstate = "failed" /\ srcClosed) ~> pstate = "exited"
=============================================================================
