------------------------------- MODULE PtyInput -------------------------------
(***************************************************************************)
(* The bounded input queue in front of a pane's child process              *)
(* (pane/pty_host/input_writer.rs).                                        *)
(*                                                                         *)
(* Two threads produce: the UI thread through InputWriter and the parser   *)
(* thread through ReplyWriter.  A send takes two separate atomic steps,    *)
(* the reservation of its bytes in the shared counter `outstanding` and    *)
(* the try_send on the channel; a batch gives its bytes back when it is    *)
(* dropped, wherever that happens.  One worker owns the OS writer, and the *)
(* child may stop reading, or go away, at any time.                        *)
(*                                                                         *)
(* accepted, delivered, sent and taken are history variables: what         *)
(* try_send took, what reached the child, and the bytes that ever entered  *)
(* and ever left the channel.                                              *)
(***************************************************************************)
EXTENDS Integers, Sequences

CONSTANTS MaxBytes,     \* MAX_BYTES: the limit on outstanding bytes
          MaxBatches,   \* MAX_BATCHES: the capacity of the channel
          Sizes,        \* the lengths a payload may have
          MaxSends      \* bound: how many batches the channel ever takes

ASSUME PtyAssumption ==
    /\ MaxBytes \in Nat \ {0}
    /\ MaxBatches \in Nat \ {0}
    /\ Sizes \subseteq Nat \ {0}
    /\ MaxSends \in Nat

Producers == {"ui", "reply"}

NoBatch == [from |-> "none", len |-> 0, confirmed |-> FALSE, end |-> 0]

(***************************************************************************)
(* A batch: who sent it, its bytes, whether it is a confirmed file pipe,   *)
(* and (history) the offset in the input stream at which it ends.          *)
(***************************************************************************)
Batch == [from : Producers, len : Nat \ {0}, confirmed : BOOLEAN, end : Nat]

VARIABLES outstanding,  \* the shared byte counter
          pc,           \* where each producer is inside `send`
          pend,         \* the batch each producer holds inside `send`
          alive,        \* the producers whose SyncSender still exists
          queue,        \* the channel's content
          rxOpen,       \* the worker's Receiver has not been dropped
          worker,       \* where the worker is in its loop
          cur,          \* the batch the worker holds
          accepted, delivered, sent, taken

producerVars == <<pc, pend, alive>>
workerVars == <<rxOpen, worker, cur>>
historyVars == <<accepted, delivered, sent, taken>>
vars == <<outstanding, producerVars, queue, workerVars, historyVars>>

Init ==
    /\ outstanding = 0
    /\ pc = [p \in Producers |-> "idle"]
    /\ pend = [p \in Producers |-> NoBatch]
    /\ alive = Producers
    /\ queue = <<>>
    /\ rxOpen = TRUE
    /\ worker = "recv"
    /\ cur = NoBatch
    /\ accepted = <<>> /\ delivered = <<>>
    /\ sent = 0 /\ taken = 0

-----------------------------------------------------------------------------
(* The producers. *)

(* A bug: the sole-batch rule forgotten for a confirmed pipe. *)
AdmitsAnyPipe(used, len, confirmed) == confirmed \/ used + len <= MaxBytes

(***************************************************************************)
(* fetch_update's closure: a confirmed payload over the limit must be the  *)
(* only one outstanding, everything else must fit under the limit.         *)
(***************************************************************************)
Admits(used, len, confirmed) ==
    IF confirmed /\ len > MaxBytes THEN used = 0 ELSE used + len <= MaxBytes

(***************************************************************************)
(* The first half of `send`: the reservation.  Only InputWriter sends      *)
(* confirmed payloads.  A refused one returns queue_full and changes       *)
(* nothing, and neither does an empty one.                                 *)
(***************************************************************************)
Reserve(p, len, confirmed) ==
    /\ p \in alive
    /\ pc[p] = "idle"
    /\ Len(accepted) < MaxSends
    /\ confirmed => p = "ui"
    /\ Admits(outstanding, len, confirmed)
    /\ outstanding' = outstanding + len
    /\ pc' = [pc EXCEPT ![p] = "reserved"]
    /\ pend' = [pend EXCEPT ![p] = [from |-> p, len |-> len,
                                    confirmed |-> confirmed, end |-> 0]]
    /\ UNCHANGED <<alive, queue, workerVars, historyVars>>

(***************************************************************************)
(* try_send takes the batch.                                               *)
(***************************************************************************)
TrySendOk(p) ==
    /\ pc[p] = "reserved"
    /\ rxOpen
    /\ Len(queue) < MaxBatches
    /\ LET b == [pend[p] EXCEPT !.end = sent + pend[p].len]
       IN  /\ queue' = Append(queue, b)
           /\ accepted' = Append(accepted, b)
           /\ sent' = sent + b.len
    /\ pc' = [pc EXCEPT ![p] = "idle"]
    /\ pend' = [pend EXCEPT ![p] = NoBatch]
    /\ UNCHANGED <<outstanding, alive, workerVars, delivered, taken>>

(* A bug: a full channel is waited for. *)
TrySendWaits(p) ==
    /\ pc[p] = "reserved"
    /\ ~rxOpen
    /\ pc' = [pc EXCEPT ![p] = "dropping"]
    /\ UNCHANGED <<outstanding, pend, alive, queue, workerVars, historyVars>>

(***************************************************************************)
(* try_send hands the batch back, Full or Disconnected.                    *)
(***************************************************************************)
TrySendFails(p) ==
    /\ pc[p] = "reserved"
    /\ ~rxOpen \/ Len(queue) >= MaxBatches
    /\ pc' = [pc EXCEPT ![p] = "dropping"]
    /\ UNCHANGED <<outstanding, pend, alive, queue, workerVars, historyVars>>

(***************************************************************************)
(* Batch::drop of a batch that was handed back; `send` returns its error.  *)
(***************************************************************************)
DropRefused(p) ==
    /\ pc[p] = "dropping"
    /\ outstanding' = outstanding - pend[p].len
    /\ pc' = [pc EXCEPT ![p] = "idle"]
    /\ pend' = [pend EXCEPT ![p] = NoBatch]
    /\ UNCHANGED <<alive, queue, workerVars, historyVars>>

(***************************************************************************)
(* The InputWriter (with its PtyHost) or the ReplyWriter is dropped.       *)
(***************************************************************************)
DropProducer(p) ==
    /\ p \in alive
    /\ pc[p] = "idle"
    /\ alive' = alive \ {p}
    /\ UNCHANGED <<outstanding, pc, pend, queue, workerVars, historyVars>>

Send(p) ==
    \/ \E len \in Sizes, confirmed \in BOOLEAN : Reserve(p, len, confirmed)
    \/ TrySendOk(p)
    \/ TrySendFails(p)
    \/ DropRefused(p)

(* A bug: the newest batch is taken first. *)
RecvNewest ==
    /\ worker = "recv"
    /\ queue # <<>>
    /\ cur' = queue[Len(queue)]
    /\ queue' = SubSeq(queue, 1, Len(queue) - 1)
    /\ taken' = taken + cur'.len
    /\ worker' = "writing"
    /\ UNCHANGED <<outstanding, producerVars, rxOpen, accepted, delivered, sent>>

-----------------------------------------------------------------------------
(* The worker. *)

Recv ==
    /\ worker = "recv"
    /\ queue # <<>>
    /\ cur' = Head(queue)
    /\ queue' = Tail(queue)
    /\ taken' = taken + Head(queue).len
    /\ worker' = "writing"
    /\ UNCHANGED <<outstanding, producerVars, rxOpen, accepted, delivered, sent>>

(***************************************************************************)
(* write_all and flush return: the child took the batch.                   *)
(***************************************************************************)
WriteOk ==
    /\ worker = "writing"
    /\ delivered' = Append(delivered, cur)
    /\ worker' = "written"
    /\ UNCHANGED <<outstanding, producerVars, queue, rxOpen, cur, accepted, sent, taken>>

(***************************************************************************)
(* write_all or flush fails: the child's end is gone.  The worker returns. *)
(***************************************************************************)
WriteErr ==
    /\ worker = "writing"
    /\ worker' = "failed"
    /\ UNCHANGED <<outstanding, producerVars, queue, rxOpen, cur, historyVars>>

(***************************************************************************)
(* The loop body ends, or the worker returns: its batch is dropped.        *)
(***************************************************************************)
DropCurrent ==
    /\ worker \in {"written", "failed"}
    /\ outstanding' = outstanding - cur.len
    /\ cur' = NoBatch
    /\ worker' = IF worker = "written" THEN "recv" ELSE "closing"
    /\ UNCHANGED <<producerVars, queue, rxOpen, historyVars>>

(* A bug: what is discarded is not given back. *)
DiscardQueuedKeeps ==
    /\ worker = "closing"
    /\ ~rxOpen
    /\ queue # <<>>
    /\ taken' = taken + Head(queue).len
    /\ queue' = Tail(queue)
    /\ UNCHANGED <<outstanding, producerVars, workerVars, accepted, delivered, sent>>

(***************************************************************************)
(* The returning worker drops its Receiver, which refuses further sends    *)
(* and then drops what is queued, batch by batch.                          *)
(***************************************************************************)
CloseReceiver ==
    /\ worker = "closing"
    /\ rxOpen
    /\ rxOpen' = FALSE
    /\ UNCHANGED <<outstanding, producerVars, queue, worker, cur, historyVars>>

DiscardQueued ==
    /\ worker = "closing"
    /\ ~rxOpen
    /\ queue # <<>>
    /\ outstanding' = outstanding - Head(queue).len
    /\ taken' = taken + Head(queue).len
    /\ queue' = Tail(queue)
    /\ UNCHANGED <<producerVars, workerVars, accepted, delivered, sent>>

(* A bug: the worker ends when its senders are gone, whatever is queued. *)
ExitEarly ==
    /\ worker = "recv" /\ alive = {}
    /\ rxOpen' = FALSE
    /\ worker' = "eof"
    /\ UNCHANGED <<outstanding, producerVars, queue, cur, historyVars>>

(***************************************************************************)
(* The worker ends and drops the OS writer, which the child reads as EOF.  *)
(* Without an error that is when recv fails: every sender gone and the     *)
(* channel drained.                                                        *)
(***************************************************************************)
Exit ==
    /\ queue = <<>>
    /\ \/ worker = "closing" /\ ~rxOpen
       \/ worker = "recv" /\ alive = {}
    /\ rxOpen' = FALSE
    /\ worker' = IF worker = "closing" THEN "broken" ELSE "eof"
    /\ UNCHANGED <<outstanding, producerVars, queue, cur, historyVars>>

WorkerStep == Recv \/ DropCurrent \/ CloseReceiver \/ DiscardQueued \/ Exit

-----------------------------------------------------------------------------
Next ==
    \/ \E p \in Producers : Send(p) \/ DropProducer(p)
    \/ WorkerStep
    \/ WriteOk
    \/ WriteErr

Spec == Init /\ [][Next]_vars

(***************************************************************************)
(* A thread that can step does, but nothing makes the child read: the      *)
(* write may block for ever.                                               *)
(***************************************************************************)
ThreadFairness ==
    /\ \A p \in Producers : WF_vars(TrySendOk(p) \/ TrySendFails(p) \/ DropRefused(p))
    /\ WF_vars(WorkerStep)

FairSpec == Spec /\ ThreadFairness

(***************************************************************************)
(* A child that does read, or goes away.                                   *)
(***************************************************************************)
ChildReads == WF_vars(WriteOk \/ WriteErr)

-----------------------------------------------------------------------------
(* What the threads hold. *)

ProducerStates == {"idle", "reserved", "dropping"}
WorkerStates == {"recv", "writing", "written", "failed", "closing", "broken", "eof"}

TypeOK ==
    /\ outstanding \in Nat
    /\ pc \in [Producers -> ProducerStates]
    /\ pend \in [Producers -> Batch \cup {NoBatch}]
    /\ alive \subseteq Producers
    /\ queue \in Seq(Batch)
    /\ rxOpen \in BOOLEAN
    /\ worker \in WorkerStates
    /\ cur \in Batch \cup {NoBatch}
    /\ accepted \in Seq(Batch) /\ delivered \in Seq(Batch)
    /\ sent \in Nat /\ taken \in Nat

(***************************************************************************)
(* The counter is exactly the bytes of the batches that still exist: the   *)
(* two being sent, the queued ones and the one being written.  A batch     *)
(* dropped twice, or never, would let the queue grow past its limit or     *)
(* refuse input for ever (Batch::drop, input_writer.rs).                   *)
(***************************************************************************)
Accounting ==
    outstanding = pend["ui"].len + pend["reply"].len + cur.len + (sent - taken)

(***************************************************************************)
(* The same with the bytes of the queue added up, batch by batch: the      *)
(* offsets Accounting is stated with are those of the queue itself.        *)
(***************************************************************************)
QueuedBytes ==
    LET upTo[i \in 0..Len(queue)] == IF i = 0 THEN 0 ELSE upTo[i - 1] + queue[i].len
    IN  upTo[Len(queue)]

CountedBytes == /\ sent - taken = QueuedBytes
                /\ Accounting

(***************************************************************************)
(* The outstanding bytes pass MAX_BYTES only when a single confirmed pipe  *)
(* is all there is: "it cannot accumulate behind a stuck child"            *)
(* (the comment in `send`), whichever way the two producers interleave.    *)
(***************************************************************************)
SoleBatch(b) == b.confirmed /\ b.len = outstanding

Bounded ==
    outstanding > MaxBytes =>
        \/ \E p \in Producers : SoleBatch(pend[p])
        \/ SoleBatch(cur)
        \/ Len(queue) = 1 /\ SoleBatch(queue[1])

(***************************************************************************)
(* The child sees EOF only once everything accepted was written: dropping  *)
(* the host closes the channel behind the queued input, never in front     *)
(* of it.                                                                  *)
(***************************************************************************)
EofAfterInput == worker = "eof" => delivered = accepted

(***************************************************************************)
(* "enqueue and drop must not wait for the child" (SPYC-TRAP               *)
(* pty-input-never-waits): every send returns, even if the child never     *)
(* reads again.                                                            *)
(***************************************************************************)
SendReturns == \A p \in Producers : pc[p] # "idle" ~> pc[p] = "idle"

(***************************************************************************)
(* A child that keeps reading gets everything that was accepted, unless    *)
(* its end fails: no batch is stuck in the channel or forgotten by the     *)
(* worker's loop.                                                          *)
(***************************************************************************)
AcceptedArrives ==
  ChildReads =>
    \A n \in 1..MaxSends :
        Len(accepted) >= n ~> (Len(delivered) >= n \/ worker = "broken")

(***************************************************************************)
(* The two producers' batches interleave whole and in order: the writer    *)
(* implements the stream InputStream specifies.                            *)
(***************************************************************************)
StreamEnd == CASE worker = "eof" -> "eof"
               [] worker \in {"failed", "closing", "broken"} -> "broken"
               [] OTHER -> "open"

Stream == INSTANCE InputStream WITH Item <- Batch, end <- StreamEnd

OrderedDelivery == Stream!Spec

=============================================================================
