---------------------------- MODULE PtyInputProofs ----------------------------
(***************************************************************************)
(* Proofs about PtyInput, for every limit, capacity, payload size and      *)
(* number of sends.                                                        *)
(*                                                                         *)
(* IInv strengthens the type invariant with what each thread holds where   *)
(* it is (Holds), with the offsets of the queued batches in the input      *)
(* stream (Chain), and with where they lie in the accepted history         *)
(* (Order).  Accounting needs Chain: the bytes of the queue are            *)
(* sent - taken only because each batch begins where the one before ends.  *)
(***************************************************************************)
EXTENDS PtyInput, WellFoundedInduction, TLAPS

(***************************************************************************)
(* Who holds a batch.                                                      *)
(***************************************************************************)
Holds ==
    /\ \A p \in Producers : IF pc[p] = "idle" THEN pend[p] = NoBatch
                                              ELSE pend[p] \in Batch
    /\ IF worker \in {"writing", "written", "failed"} THEN cur \in Batch
                                                      ELSE cur = NoBatch
    /\ ~rxOpen => worker \in {"closing", "broken", "eof"}
    /\ worker \in {"broken", "eof"} => ~rxOpen /\ queue = <<>>

(***************************************************************************)
(* The queued batches are consecutive pieces of the stream between `taken` *)
(* and `sent`.                                                             *)
(***************************************************************************)
Chain ==
    /\ queue = <<>> => sent = taken
    /\ queue # <<>> => /\ queue[1].end = taken + queue[1].len
                       /\ queue[Len(queue)].end = sent
    /\ \A i \in 1..Len(queue) : queue[i].end <= sent
    /\ \A i \in 1..(Len(queue) - 1) :
          queue[i + 1].end = queue[i].end + queue[i + 1].len

(***************************************************************************)
(* While the stream is open, what was accepted is what was delivered, then *)
(* the batch being written, then the queue.                                *)
(***************************************************************************)
InHand == IF worker = "writing" THEN 1 ELSE 0

Order ==
    /\ StreamEnd = "open" =>
          /\ Len(accepted) = Len(delivered) + InHand + Len(queue)
          /\ \A i \in 1..Len(queue) : queue[i] = accepted[Len(delivered) + InHand + i]
          /\ \A i \in 1..Len(delivered) : delivered[i] = accepted[i]
          /\ worker = "writing" => cur = accepted[Len(delivered) + 1]
    /\ EofAfterInput

IInv == TypeOK /\ Holds /\ Chain /\ Accounting

-----------------------------------------------------------------------------
(***************************************************************************)
(* Splitting a nonempty queue into the batch received and the rest.        *)
(***************************************************************************)
LEMMA HeadTail ==
    ASSUME NEW S, NEW q \in Seq(S), q # <<>>
    PROVE  /\ Head(q) = q[1] /\ Head(q) \in S
           /\ Tail(q) \in Seq(S)
           /\ Len(Tail(q)) = Len(q) - 1
           /\ Len(q) \in Nat \ {0}
           /\ \A i \in 1..(Len(q) - 1) : Tail(q)[i] = q[i + 1]
  OBVIOUS

LEMMA AppendIndex ==
    ASSUME NEW S, NEW q \in Seq(S), NEW b \in S
    PROVE  /\ Append(q, b) \in Seq(S)
           /\ Len(Append(q, b)) = Len(q) + 1
           /\ Len(q) \in Nat
           /\ Append(q, b) # <<>>
           /\ \A i \in 1..Len(q) : Append(q, b)[i] = q[i]
           /\ Append(q, b)[Len(q) + 1] = b
  OBVIOUS

LEMMA InitIInv == Init => IInv
  BY DEF Init, IInv, TypeOK, Holds, Chain, Accounting, Batch, NoBatch,
         Producers, ProducerStates, WorkerStates

(***************************************************************************)
(* The terms Accounting adds up are numbers, and the counter covers each   *)
(* batch that still exists.                                                *)
(***************************************************************************)
LEMMA BatchFields ==
    ASSUME NEW b \in Batch
    PROVE  b.len \in Nat /\ b.len > 0 /\ b.end \in Nat
  BY DEF Batch

LEMMA QueuedFields ==
    ASSUME IInv
    PROVE  \A i \in 1..Len(queue) :
              queue[i].len \in Nat /\ queue[i].len > 0 /\ queue[i].end \in Nat
<1>1. \A i \in 1..Len(queue) : queue[i] \in Batch
  BY DEF IInv, TypeOK
<1> QED  BY <1>1, BatchFields

LEMMA Covered ==
    ASSUME IInv
    PROVE  /\ pend["ui"].len \in Nat /\ pend["reply"].len \in Nat
           /\ cur.len \in Nat /\ sent \in Nat /\ taken \in Nat
           /\ outstanding \in Nat
           /\ sent >= taken
           /\ outstanding >= pend["ui"].len + pend["reply"].len + cur.len
<1>1. /\ pend["ui"].len \in Nat /\ pend["reply"].len \in Nat /\ cur.len \in Nat
      /\ sent \in Nat /\ taken \in Nat /\ outstanding \in Nat
  BY DEF IInv, TypeOK, Batch, NoBatch, Producers
<1>2. sent >= taken
  <2>1. CASE queue = <<>>
    BY <2>1, <1>1 DEF IInv, Chain
  <2>2. CASE queue # <<>>
    <3>1. 1 \in 1..Len(queue)
      BY <2>2 DEF IInv, TypeOK
    <3> QED  BY <3>1, <2>2, <1>1, QueuedFields DEF IInv, Chain
  <2> QED  BY <2>1, <2>2
<1> QED  BY <1>1, <1>2 DEF IInv, Accounting

(* The first queued batch is part of what the channel holds. *)
LEMMA HeadBytes ==
    ASSUME IInv, queue # <<>>
    PROVE  queue[1].len \in Nat /\ queue[1].len > 0 /\ sent - taken >= queue[1].len
<1>1. 1 \in 1..Len(queue)
  BY DEF IInv, TypeOK
<1>2. queue[1].len \in Nat /\ queue[1].end \in Nat /\ queue[1].len > 0
  BY <1>1, QueuedFields
<1>3. queue[1].end = taken + queue[1].len /\ queue[1].end <= sent
  BY <1>1 DEF IInv, Chain
<1>4. sent \in Nat /\ taken \in Nat
  BY Covered
<1> QED  BY <1>2, <1>3, <1>4

(***************************************************************************)
(* One lemma per action: the step keeps IInv.                              *)
(***************************************************************************)
LEMMA ReserveStep ==
    ASSUME IInv, NEW p \in Producers, NEW len \in Sizes, NEW confirmed \in BOOLEAN,
           Reserve(p, len, confirmed)
    PROVE  IInv'
<1> DEFINE b == [from |-> p, len |-> len, confirmed |-> confirmed, end |-> 0]
<1>1. len \in Nat \ {0} /\ b \in Batch
  BY PtyAssumption DEF Batch
<1>2. pend[p] = NoBatch /\ p \in {"ui", "reply"}
  BY DEF IInv, Holds, Reserve, Producers
<1>3. TypeOK'
  BY <1>1 DEF IInv, TypeOK, Reserve, ProducerStates, workerVars, historyVars
<1>4. Holds'
  BY <1>1 DEF IInv, TypeOK, Holds, Reserve, workerVars, historyVars
<1>5. Chain'
  BY DEF IInv, Chain, Reserve, workerVars, historyVars
<1>6. Accounting'
  <2>1. /\ outstanding' = outstanding + len
        /\ pend' = [pend EXCEPT ![p] = b]
        /\ cur' = cur /\ sent' = sent /\ taken' = taken
    BY DEF Reserve, workerVars, historyVars
  <2>2. /\ pend'[p].len = len /\ pend[p].len = 0
        /\ \A q \in Producers : q # p => pend'[q] = pend[q]
    BY <1>2, <2>1 DEF IInv, TypeOK, NoBatch
  <2>3. CASE p = "ui"
    BY <2>1, <2>2, <2>3, <1>1, Covered DEF IInv, Accounting, Producers
  <2>4. CASE p = "reply"
    BY <2>1, <2>2, <2>4, <1>1, Covered DEF IInv, Accounting, Producers
  <2> QED  BY <1>2, <2>3, <2>4
<1> QED  BY <1>3, <1>4, <1>5, <1>6 DEF IInv

LEMMA TrySendOkStep ==
    ASSUME IInv, NEW p \in Producers, TrySendOk(p)
    PROVE  IInv'
<1> DEFINE b == [pend[p] EXCEPT !.end = sent + pend[p].len]
<1>1. pend[p] \in Batch /\ p \in {"ui", "reply"}
  BY DEF IInv, Holds, TrySendOk, Producers
<1>2. b \in Batch /\ b.len = pend[p].len /\ b.end = sent + b.len /\ b.len \in Nat \ {0}
  <2>1. pend[p].len \in Nat /\ pend[p].len > 0 /\ sent + pend[p].len \in Nat
    BY <1>1, BatchFields, Covered
  <2> QED  BY <1>1, <2>1 DEF Batch
<1>3. queue' = Append(queue, b) /\ sent' = sent + b.len /\ accepted' = Append(accepted, b)
  BY DEF TrySendOk
<1>4. queue \in Seq(Batch)
  BY DEF IInv, TypeOK
<1> HIDE DEF b
<1>5. /\ queue' \in Seq(Batch) /\ queue' # <<>>
      /\ Len(queue') = Len(queue) + 1 /\ Len(queue) \in Nat
      /\ \A i \in 1..Len(queue) : queue'[i] = queue[i]
      /\ queue'[Len(queue) + 1] = b
  BY <1>2, <1>3, <1>4, AppendIndex
<1>6. accepted' \in Seq(Batch)
  BY <1>2, <1>3 DEF IInv, TypeOK
<1>7. TypeOK'
  BY <1>2, <1>3, <1>5, <1>6
     DEF IInv, TypeOK, TrySendOk, ProducerStates, workerVars
<1>8. Holds'
  BY DEF IInv, TypeOK, Holds, TrySendOk, workerVars
<1>9. Chain'
  <2>1. \A i \in 1..Len(queue) : queue[i].end \in Nat /\ queue[i].len \in Nat
    BY QueuedFields
  <2>2. taken' = taken /\ sent \in Nat /\ taken \in Nat
    BY DEF TrySendOk, IInv, TypeOK
  <2>3. queue'[Len(queue')].end = sent'
    BY <1>2, <1>3, <1>5
  <2>4. queue'[1].end = taken' + queue'[1].len
    <3>1. CASE queue = <<>>
      BY <3>1, <1>2, <1>5, <2>2 DEF IInv, Chain
    <3>2. CASE queue # <<>>
      BY <3>2, <1>4, <1>5, <2>2 DEF IInv, Chain
    <3> QED  BY <3>1, <3>2
  <2>5. \A i \in 1..Len(queue') : queue'[i].end <= sent'
    BY <1>2, <1>3, <1>5, <2>1, <2>2 DEF IInv, Chain
  <2>6. \A i \in 1..(Len(queue') - 1) :
            queue'[i + 1].end = queue'[i].end + queue'[i + 1].len
    <3> SUFFICES ASSUME NEW i \in 1..Len(queue)
                 PROVE  queue'[i + 1].end = queue'[i].end + queue'[i + 1].len
      BY <1>5
    <3>1. CASE i = Len(queue)
      <4>1. queue # <<>> /\ queue[i].end = sent
        BY <3>1, <1>4 DEF IInv, Chain
      <4> QED  BY <3>1, <4>1, <1>2, <1>5
    <3>2. CASE i < Len(queue)
      BY <3>2, <1>5 DEF IInv, Chain
    <3> QED  BY <3>1, <3>2, <1>5
  <2> QED  BY <1>5, <2>3, <2>4, <2>5, <2>6 DEF Chain
<1>10. Accounting'
  <2>1. /\ outstanding' = outstanding
        /\ pend' = [pend EXCEPT ![p] = NoBatch]
        /\ cur' = cur /\ sent' = sent + pend[p].len /\ taken' = taken
    BY <1>2, <1>3 DEF TrySendOk, workerVars
  <2>2. /\ pend'[p].len = 0
        /\ \A q \in Producers : q # p => pend'[q] = pend[q]
    BY <2>1 DEF IInv, TypeOK, NoBatch
  <2>3. CASE p = "ui"
    BY <2>1, <2>2, <2>3, Covered DEF IInv, Accounting, Producers
  <2>4. CASE p = "reply"
    BY <2>1, <2>2, <2>4, Covered DEF IInv, Accounting, Producers
  <2> QED  BY <1>1, <2>3, <2>4
<1> QED  BY <1>7, <1>8, <1>9, <1>10 DEF IInv

LEMMA TrySendFailsStep ==
    ASSUME IInv, NEW p \in Producers, TrySendFails(p)
    PROVE  IInv'
  BY DEF IInv, TypeOK, Holds, Chain, Accounting, TrySendFails, ProducerStates,
         workerVars, historyVars

LEMMA DropRefusedStep ==
    ASSUME IInv, NEW p \in Producers, DropRefused(p)
    PROVE  IInv'
<1>1. /\ outstanding' = outstanding - pend[p].len
      /\ pend' = [pend EXCEPT ![p] = NoBatch]
      /\ cur' = cur /\ sent' = sent /\ taken' = taken
  BY DEF DropRefused, workerVars, historyVars
<1>2. pend[p].len \in Nat /\ outstanding >= pend[p].len /\ p \in {"ui", "reply"}
  BY Covered DEF Producers
<1>3. outstanding' \in Nat
  BY <1>1, <1>2, Covered
<1>4. TypeOK' /\ Holds' /\ Chain'
  BY <1>3 DEF IInv, TypeOK, Holds, Chain, DropRefused, ProducerStates,
              workerVars, historyVars
<1>5. Accounting'
  <2>1. /\ pend'[p].len = 0
        /\ \A q \in Producers : q # p => pend'[q] = pend[q]
    BY <1>1 DEF IInv, TypeOK, NoBatch
  <2>2. CASE p = "ui"
    BY <1>1, <2>1, <2>2, Covered DEF IInv, Accounting, Producers
  <2>3. CASE p = "reply"
    BY <1>1, <2>1, <2>3, Covered DEF IInv, Accounting, Producers
  <2> QED  BY <1>2, <2>2, <2>3
<1> QED  BY <1>4, <1>5 DEF IInv

LEMMA DropProducerStep ==
    ASSUME IInv, NEW p \in Producers, DropProducer(p)
    PROVE  IInv'
  BY DEF IInv, TypeOK, Holds, Chain, Accounting, DropProducer, workerVars, historyVars

(***************************************************************************)
(* Taking the head of the queue moves `taken` to the head's end: the rest  *)
(* is still a chain.                                                       *)
(***************************************************************************)
LEMMA TakeHead ==
    ASSUME IInv, queue # <<>>, queue' = Tail(queue),
           taken' = taken + Head(queue).len, sent' = sent
    PROVE  /\ Head(queue) \in Batch /\ Head(queue) = queue[1]
           /\ queue' \in Seq(Batch) /\ taken' \in Nat
           /\ Chain'
<1>1. /\ Head(queue) = queue[1] /\ Head(queue) \in Batch
      /\ queue' \in Seq(Batch) /\ Len(queue') = Len(queue) - 1
      /\ Len(queue) \in Nat \ {0}
      /\ \A i \in 1..(Len(queue) - 1) : queue'[i] = queue[i + 1]
  BY HeadTail DEF IInv, TypeOK
<1>2. taken \in Nat /\ taken' \in Nat /\ taken' = queue[1].end
  <2>1. Head(queue).len \in Nat
    BY <1>1, BatchFields
  <2>2. taken \in Nat
    BY Covered
  <2>3. queue[1].end = taken + queue[1].len
    BY DEF IInv, Chain
  <2> QED  BY <1>1, <2>1, <2>2, <2>3
<1>3. queue' = <<>> => sent' = taken'
  <2>1. queue' = <<>> => Len(queue) = 1
    <3>1. Len(<< >>) = 0
      OBVIOUS
    <3>2. queue' = <<>> => Len(queue') = 0
      BY <3>1
    <3> QED  BY <3>2, <1>1
  <2>2. queue[Len(queue)].end = sent
    BY DEF IInv, Chain
  <2> QED  BY <1>2, <2>1, <2>2
<1>4. queue' # <<>> => /\ queue'[1].end = taken' + queue'[1].len
                       /\ queue'[Len(queue')].end = sent'
  BY <1>1, <1>2 DEF IInv, Chain
<1>5. \A i \in 1..Len(queue') : queue'[i].end <= sent'
  BY <1>1 DEF IInv, Chain
<1>6. \A i \in 1..(Len(queue') - 1) :
          queue'[i + 1].end = queue'[i].end + queue'[i + 1].len
  BY <1>1 DEF IInv, Chain
<1> QED  BY <1>1, <1>2, <1>3, <1>4, <1>5, <1>6 DEF Chain

LEMMA RecvStep ==
    ASSUME IInv, Recv
    PROVE  IInv'
<1>1. /\ Head(queue) \in Batch /\ queue' \in Seq(Batch) /\ taken' \in Nat /\ Chain'
  BY TakeHead DEF Recv
<1>2. TypeOK' /\ Holds'
  BY <1>1 DEF IInv, TypeOK, Holds, Recv, producerVars, WorkerStates
<1>3. Accounting'
  <2>1. /\ outstanding' = outstanding /\ pend' = pend /\ sent' = sent
        /\ cur' = Head(queue) /\ taken' = taken + Head(queue).len
    BY DEF Recv, producerVars
  <2>2. cur.len = 0 /\ Head(queue).len \in Nat
    BY <1>1 DEF IInv, Holds, Recv, NoBatch, Batch
  <2> QED  BY <2>1, <2>2, Covered DEF IInv, Accounting
<1> QED  BY <1>1, <1>2, <1>3 DEF IInv

LEMMA WriteOkStep ==
    ASSUME IInv, WriteOk
    PROVE  IInv'
<1>1. delivered' \in Seq(Batch)
  BY DEF IInv, TypeOK, Holds, WriteOk
<1> QED  BY <1>1 DEF IInv, TypeOK, Holds, Chain, Accounting, WriteOk, producerVars,
                     WorkerStates

LEMMA WriteErrStep ==
    ASSUME IInv, WriteErr
    PROVE  IInv'
  BY DEF IInv, TypeOK, Holds, Chain, Accounting, WriteErr, producerVars, historyVars,
         WorkerStates

LEMMA DropCurrentStep ==
    ASSUME IInv, DropCurrent
    PROVE  IInv'
<1>1. outstanding' \in Nat
  BY Covered DEF DropCurrent
<1>2. TypeOK' /\ Holds' /\ Chain'
  BY <1>1 DEF IInv, TypeOK, Holds, Chain, DropCurrent, producerVars, historyVars,
              WorkerStates
<1>3. Accounting'
  <2>1. /\ outstanding' = outstanding - cur.len /\ pend' = pend /\ sent' = sent
        /\ cur'.len = 0 /\ taken' = taken
    BY DEF DropCurrent, producerVars, historyVars, NoBatch
  <2> QED  BY <2>1, Covered DEF IInv, Accounting
<1> QED  BY <1>2, <1>3 DEF IInv

LEMMA CloseReceiverStep ==
    ASSUME IInv, CloseReceiver
    PROVE  IInv'
  BY DEF IInv, TypeOK, Holds, Chain, Accounting, CloseReceiver, producerVars, historyVars

LEMMA DiscardQueuedStep ==
    ASSUME IInv, DiscardQueued
    PROVE  IInv'
<1>1. /\ Head(queue) \in Batch /\ Head(queue) = queue[1]
      /\ queue' \in Seq(Batch) /\ taken' \in Nat /\ Chain'
  BY TakeHead DEF DiscardQueued
<1>2. outstanding >= Head(queue).len /\ Head(queue).len \in Nat
  <2>1. queue[1].len \in Nat /\ sent - taken >= queue[1].len
    BY HeadBytes DEF DiscardQueued
  <2>2. outstanding >= sent - taken
    BY Covered DEF IInv, Accounting
  <2>3. sent \in Nat /\ taken \in Nat /\ outstanding \in Nat
    BY Covered
  <2> QED  BY <1>1, <2>1, <2>2, <2>3
<1>3. TypeOK' /\ Holds'
  <2>1. TypeOK'
    <3>1. outstanding \in Nat /\ outstanding' = outstanding - Head(queue).len
      BY DEF IInv, TypeOK, DiscardQueued
    <3>2. outstanding' \in Nat
      BY <1>2, <3>1
    <3>3. UNCHANGED <<producerVars, workerVars, accepted, delivered, sent>>
      BY DEF DiscardQueued
    <3> QED  BY <1>1, <3>2, <3>3 DEF IInv, TypeOK, producerVars, workerVars
  <2>2. Holds'
    BY DEF IInv, Holds, DiscardQueued, producerVars, workerVars
  <2> QED  BY <2>1, <2>2
<1>4. Accounting'
  <2>0. Head(queue).len \in Nat
    BY <1>2
  <2>1. /\ outstanding' = outstanding - Head(queue).len /\ pend' = pend
        /\ sent' = sent /\ cur' = cur /\ taken' = taken + Head(queue).len
    BY DEF DiscardQueued, producerVars, workerVars
  <2> QED  BY <2>0, <2>1, Covered DEF IInv, Accounting
<1> QED  BY <1>1, <1>3, <1>4 DEF IInv

LEMMA ExitStep ==
    ASSUME IInv, Exit
    PROVE  IInv'
<1>1. Holds'
  BY DEF IInv, TypeOK, Holds, Exit, producerVars, historyVars
<1> QED  BY <1>1 DEF IInv, TypeOK, Chain, Accounting, Exit, producerVars, historyVars,
                     WorkerStates

LEMMA NextIInv ==
    ASSUME IInv, [Next]_vars
    PROVE  IInv'
<1>1. CASE UNCHANGED vars
  BY <1>1 DEF vars, producerVars, workerVars, historyVars, IInv, TypeOK, Holds, Chain,
              Accounting
<1>2. ASSUME NEW p \in Producers, Send(p) PROVE IInv'
  BY <1>2, ReserveStep, TrySendOkStep, TrySendFailsStep, DropRefusedStep DEF Send
<1>3. ASSUME NEW p \in Producers, DropProducer(p) PROVE IInv'
  BY <1>3, DropProducerStep
<1>4. CASE WorkerStep
  BY <1>4, RecvStep, DropCurrentStep, CloseReceiverStep, DiscardQueuedStep, ExitStep
     DEF WorkerStep
<1>5. CASE WriteOk
  BY <1>5, WriteOkStep
<1>6. CASE WriteErr
  BY <1>6, WriteErrStep
<1> QED  BY <1>1, <1>2, <1>3, <1>4, <1>5, <1>6 DEF Next

-----------------------------------------------------------------------------
(***************************************************************************)
(* The state of the two producers, the channel and the worker keeps its    *)
(* type: in particular the counter, which every dropped batch subtracts    *)
(* from, never goes below zero (an AtomicUsize would wrap round).          *)
(***************************************************************************)
THEOREM IInvHolds == Spec => []IInv
<1>1. Init => IInv
  BY InitIInv
<1>2. IInv /\ [Next]_vars => IInv'
  BY NextIInv
<1> QED  BY <1>1, <1>2, PTL DEF Spec

THEOREM TypeCorrect == Spec => []TypeOK
<1>1. IInv => TypeOK
  BY DEF IInv
<1> QED  BY <1>1, IInvHolds, PTL

(***************************************************************************)
(* `outstanding` is at every moment the bytes of the batches that exist,   *)
(* in whatever order the reservations, sends and drops of the two          *)
(* producers and the worker interleave.                                    *)
(***************************************************************************)
THEOREM AccountingHolds == Spec => []Accounting
<1>1. IInv => Accounting
  BY DEF IInv
<1> QED  BY <1>1, IInvHolds, PTL

-----------------------------------------------------------------------------
(***************************************************************************)
(* The sum over the queue.  Induction is by the least number that a set of *)
(* numbers misses: the order of the naturals is well founded.              *)
(***************************************************************************)
LEMMA Least ==
    ASSUME NEW T \in SUBSET Nat, T # {}
    PROVE  \E n \in T : \A m \in T : n <= m
<1> DEFINE R == OpToRel(<, Nat)
<1>1. IsWellFoundedOn(R, Nat)
  BY NatLessThanWellFounded
<1>2. \E n \in T : \A m \in T : <<m, n>> \notin R
  <2> HIDE DEF R
  <2> QED  BY <1>1, WFMin, Zenon
<1>3. PICK n \in T : \A m \in T : <<m, n>> \notin R
  BY <1>2
<1>4. \A m \in T : n <= m
  <2> TAKE m \in T
  <2>1. m \in Nat /\ n \in Nat
    OBVIOUS
  <2>2. m < n => <<m, n>> \in R
    BY <2>1 DEF OpToRel
  <2>3. <<m, n>> \notin R
    BY <1>3
  <2> HIDE DEF R
  <2> QED  BY <2>1, <2>2, <2>3
<1> QED  BY <1>4

LEMMA UpTo ==
    ASSUME NEW n \in Nat, NEW T, 0 \in T,
           \A i \in 0..n : i # n /\ i \in T => i + 1 \in T
    PROVE  \A i \in 0..n : i \in T
<1> SUFFICES ASSUME NEW b \in (0..n) \ T  PROVE FALSE
  OBVIOUS
<1> DEFINE B == (0..n) \ T
<1>1. B \in SUBSET Nat /\ B # {}
  OBVIOUS
<1>2. PICK i \in B : \A j \in B : i <= j
  BY <1>1, Least
<1>3. i # 0 /\ i - 1 \in 0..n /\ i - 1 # n /\ i - 1 \notin B
  BY <1>2
<1>4. (i - 1) + 1 \in T
  BY <1>3
<1> QED  BY <1>2, <1>4

(***************************************************************************)
(* The bytes up to a batch of the queue are those from `taken` to its end: *)
(* each batch begins where the one before ends (Chain).                    *)
(***************************************************************************)
LEMMA QueueAdded == TypeOK /\ Chain => sent - taken = QueuedBytes
<1> SUFFICES ASSUME TypeOK, Chain  PROVE sent - taken = QueuedBytes
  OBVIOUS
<1>1. queue \in Seq(Batch) /\ Len(queue) \in Nat /\ sent \in Nat /\ taken \in Nat
  BY DEF TypeOK
<1>2. \A i \in 1..Len(queue) : queue[i].len \in Nat /\ queue[i].end \in Nat
  <2> TAKE i \in 1..Len(queue)
  <2>1. queue[i] \in Batch
    BY <1>1
  <2> QED  BY <2>1 DEF Batch
<1> DEFINE g == CHOOSE h : h = [i \in 0..Len(queue) |->
                                   IF i = 0 THEN 0 ELSE h[i - 1] + queue[i].len]
<1>3. QueuedBytes = g[Len(queue)]
  BY DEF QueuedBytes
<1> DEFINE f == [i \in 0..Len(queue) |-> IF i = 0 THEN 0 ELSE queue[i].end - taken]
<1>4. \A i \in 1..Len(queue) : f[i] = f[i - 1] + queue[i].len
  <2> TAKE i \in 1..Len(queue)
  <2>1. CASE i = 1
    <3>1. queue # <<>> /\ f[i] = queue[1].end - taken /\ f[i - 1] = 0
      BY <1>1, <2>1
    <3>2. queue[1].end = taken + queue[1].len
      BY <3>1 DEF Chain
    <3> QED  BY <1>1, <1>2, <2>1, <3>1, <3>2
  <2>2. CASE i # 1
    <3>1. i - 1 \in 1..(Len(queue) - 1) /\ i - 1 \in 1..Len(queue) /\ (i - 1) + 1 = i
      BY <1>1, <2>2
    <3>2. queue[i].end = queue[i - 1].end + queue[i].len
      BY <3>1 DEF Chain
    <3>3. f[i] = queue[i].end - taken /\ f[i - 1] = queue[i - 1].end - taken
      BY <1>1, <3>1
    <3>4. PICK a \in Nat, b \in Nat, l \in Nat :
             a = queue[i].end /\ b = queue[i - 1].end /\ l = queue[i].len
      BY <1>2, <3>1
    <3> HIDE DEF f
    <3>5. f[i] = a - taken /\ f[i - 1] = b - taken /\ a = b + l
      BY <3>2, <3>3, <3>4
    <3>6. a - taken = (b - taken) + l
      BY <1>1, <3>5
    <3> QED  BY <3>4, <3>5, <3>6
  <2> QED  BY <2>1, <2>2
<1>5. f = [i \in 0..Len(queue) |-> IF i = 0 THEN 0 ELSE f[i - 1] + queue[i].len]
  <2>1. f[0] = 0 /\ DOMAIN f = 0..Len(queue) /\ f = [i \in DOMAIN f |-> f[i]]
    BY <1>1
  <2> HIDE DEF f
  <2> QED  BY <1>1, <1>4, <2>1
<1>6. g = [i \in 0..Len(queue) |-> IF i = 0 THEN 0 ELSE g[i - 1] + queue[i].len]
  <2> HIDE DEF f
  <2> QED  BY <1>5
<1> DEFINE T == {i \in 0..Len(queue) : f[i] = g[i]}
<1>7. 0 \in T
  <2>1. 0 \in 0..Len(queue) /\ f[0] = 0
    BY <1>1
  <2> HIDE DEF f, g
  <2> QED  BY <1>6, <2>1
<1>8. ASSUME NEW i \in 0..Len(queue), i # Len(queue), i \in T
      PROVE  i + 1 \in T
  <2>1. i + 1 \in 1..Len(queue) /\ i + 1 \in 0..Len(queue) /\ (i + 1) - 1 = i /\ i + 1 # 0
    BY <1>1, <1>8
  <2> HIDE DEF f, g
  <2>2. g[i + 1] = g[i] + queue[i + 1].len
    BY <1>6, <2>1
  <2>3. f[i + 1] = f[i] + queue[i + 1].len
    BY <1>4, <2>1
  <2> QED  BY <1>8, <2>1, <2>2, <2>3
<1>9. f[Len(queue)] = g[Len(queue)]
  <2> HIDE DEF T
  <2>1. \A i \in 0..Len(queue) : i \in T
    BY <1>1, <1>7, <1>8, UpTo
  <2> QED  BY <1>1, <2>1 DEF T
<1>10. f[Len(queue)] = sent - taken
  BY <1>1, <1>2 DEF Chain
<1> HIDE DEF f, g
<1> QED  BY <1>3, <1>9, <1>10

(***************************************************************************)
(* The bytes counted are those of the batches that exist, the queue's      *)
(* added up one by one, whichever way the producers interleave (run        *)
(* pty_input).                                                             *)
(***************************************************************************)
THEOREM CountIsExact == Spec => []CountedBytes
<1>1. IInv => CountedBytes
  BY QueueAdded DEF IInv, CountedBytes
<1> QED  BY <1>1, IInvHolds, PTL

-----------------------------------------------------------------------------
(* A term that is the whole sum leaves nothing for the others. *)
LEMMA SumOfFour ==
    ASSUME NEW a \in Nat, NEW b \in Nat, NEW c \in Nat, NEW d \in Nat,
           NEW x, x = a + b + c + d
    PROVE  /\ a = x => b = 0 /\ c = 0 /\ d = 0
           /\ b = x => a = 0 /\ c = 0 /\ d = 0
           /\ c = x => a = 0 /\ b = 0 /\ d = 0
           /\ d = x => a = 0 /\ b = 0 /\ c = 0
  OBVIOUS

(***************************************************************************)
(* The limit.  Over MAX_BYTES there is one batch only, a confirmed pipe:   *)
(* nothing else fits beside it, so the next change is its being dropped.   *)
(***************************************************************************)
LEMMA SoleHolder ==
    ASSUME IInv, outstanding > MaxBytes, Bounded
    PROVE  /\ outstanding > 0
           /\ \/ /\ SoleBatch(pend["ui"]) /\ cur.len = 0 /\ queue = <<>>
                 /\ pend["reply"].len = 0
              \/ /\ SoleBatch(pend["reply"]) /\ cur.len = 0 /\ queue = <<>>
                 /\ pend["ui"].len = 0
              \/ /\ SoleBatch(cur) /\ queue = <<>>
                 /\ pend["ui"].len = 0 /\ pend["reply"].len = 0
              \/ /\ Len(queue) = 1 /\ SoleBatch(queue[1]) /\ cur.len = 0
                 /\ pend["ui"].len = 0 /\ pend["reply"].len = 0
<1>1. MaxBytes \in Nat
  BY PtyAssumption
<1>2. queue # <<>> => sent - taken >= queue[1].len /\ queue[1].len > 0
                      /\ queue[1].len \in Nat
  BY HeadBytes
<1>3. Len(queue) = 1 => queue # <<>>
  OBVIOUS
<1>4. outstanding = pend["ui"].len + pend["reply"].len + cur.len + (sent - taken)
  BY DEF IInv, Accounting
<1>5. \/ SoleBatch(pend["ui"]) \/ SoleBatch(pend["reply"]) \/ SoleBatch(cur)
      \/ Len(queue) = 1 /\ SoleBatch(queue[1])
  BY DEF Bounded, Producers
<1>6. outstanding > 0
  BY <1>1, Covered
<1>7. sent - taken = 0 => queue = <<>>
  <2>1. sent \in Nat /\ taken \in Nat
    BY Covered
  <2> QED  BY <1>2, <2>1
<1>8. /\ SoleBatch(pend["ui"]) => pend["ui"].len = outstanding
      /\ SoleBatch(pend["reply"]) => pend["reply"].len = outstanding
      /\ SoleBatch(cur) => cur.len = outstanding
      /\ Len(queue) = 1 /\ SoleBatch(queue[1]) => sent - taken = outstanding
  <2>1. Len(queue) = 1 /\ SoleBatch(queue[1]) => sent - taken >= outstanding
    BY <1>2, <1>3 DEF SoleBatch
  <2>2. sent - taken <= outstanding
    BY <1>4, Covered
  <2>3. sent \in Nat /\ taken \in Nat /\ outstanding \in Nat
    BY Covered
  <2> QED  BY <2>1, <2>2, <2>3 DEF SoleBatch
<1>9. /\ pend["ui"].len = outstanding =>
            pend["reply"].len = 0 /\ cur.len = 0 /\ sent - taken = 0
      /\ pend["reply"].len = outstanding =>
            pend["ui"].len = 0 /\ cur.len = 0 /\ sent - taken = 0
      /\ cur.len = outstanding =>
            pend["ui"].len = 0 /\ pend["reply"].len = 0 /\ sent - taken = 0
      /\ sent - taken = outstanding =>
            pend["ui"].len = 0 /\ pend["reply"].len = 0 /\ cur.len = 0
  <2> DEFINE a == pend["ui"].len
             b == pend["reply"].len
             c == cur.len
             d == sent - taken
  <2>1. a \in Nat /\ b \in Nat /\ c \in Nat /\ d \in Nat
    BY Covered
  <2>2. outstanding = a + b + c + d
    BY <1>4, Covered
  <2> HIDE DEF a, b, c, d
  <2>3. /\ a = outstanding => b = 0 /\ c = 0 /\ d = 0
        /\ b = outstanding => a = 0 /\ c = 0 /\ d = 0
        /\ c = outstanding => a = 0 /\ b = 0 /\ d = 0
        /\ d = outstanding => a = 0 /\ b = 0 /\ c = 0
    BY <2>1, <2>2, SumOfFour
  <2> QED  BY <2>3 DEF a, b, c, d
<1>10. CASE SoleBatch(pend["ui"])
  BY <1>6, <1>7, <1>8, <1>9, <1>10
<1>11. CASE SoleBatch(pend["reply"])
  BY <1>6, <1>7, <1>8, <1>9, <1>11
<1>12. CASE SoleBatch(cur)
  BY <1>6, <1>7, <1>8, <1>9, <1>12
<1>13. CASE Len(queue) = 1 /\ SoleBatch(queue[1])
  BY <1>6, <1>7, <1>8, <1>9, <1>13
<1> QED  BY <1>5, <1>10, <1>11, <1>12, <1>13

LEMMA InitBounded == Init => Bounded
  BY PtyAssumption DEF Init, Bounded

(***************************************************************************)
(* A step that does not raise the counter and leaves the batches alone     *)
(* keeps the limit; so does the drop of the batch that passed it.          *)
(***************************************************************************)
LEMMA ReserveBounded ==
    ASSUME IInv, IInv', Bounded, NEW p \in Producers, NEW len \in Sizes,
           NEW confirmed \in BOOLEAN, Reserve(p, len, confirmed)
    PROVE  Bounded'
<1>1. outstanding \in Nat /\ len \in Nat /\ len > 0 /\ MaxBytes \in Nat
  BY PtyAssumption, Covered
<1>2. outstanding' = outstanding + len
  BY DEF Reserve
<1>3. CASE confirmed /\ len > MaxBytes
  <2>1. pend'[p].confirmed /\ pend'[p].len = len
    BY <1>3 DEF Reserve, IInv, TypeOK
  <2>2. outstanding' = len
    BY <1>1, <1>2, <1>3 DEF Reserve, Admits
  <2> QED  BY <2>1, <2>2 DEF Bounded, SoleBatch
<1>4. CASE ~(confirmed /\ len > MaxBytes)
  <2>1. outstanding' <= MaxBytes
    BY <1>2, <1>4 DEF Reserve, Admits
  <2> QED  BY <2>1, <1>1, <1>2 DEF Bounded
<1> QED  BY <1>3, <1>4

LEMMA TrySendOkBounded ==
    ASSUME IInv, IInv', Bounded, NEW p \in Producers, TrySendOk(p)
    PROVE  Bounded'
<1> SUFFICES ASSUME outstanding' > MaxBytes
             PROVE  \/ \E q \in Producers : SoleBatch(pend[q])'
                    \/ SoleBatch(cur)'
                    \/ (Len(queue) = 1 /\ SoleBatch(queue[1]))'
  BY DEF Bounded
<1>1. outstanding' = outstanding /\ outstanding > MaxBytes /\ cur' = cur
  BY DEF TrySendOk, workerVars
<1>2. pend[p] \in Batch /\ p \in {"ui", "reply"}
  BY DEF IInv, Holds, TrySendOk, Producers
<1>3. pend[p].len > 0 /\ pend[p].len \in Nat
  BY <1>2, BatchFields
<1>4. SoleBatch(pend[p]) /\ queue = <<>>
  BY <1>1, <1>2, <1>3, SoleHolder
<1>5. queue' = Append(queue, [pend[p] EXCEPT !.end = sent + pend[p].len])
  BY DEF TrySendOk
<1>6. /\ Len(queue') = 1
      /\ queue'[1] = [pend[p] EXCEPT !.end = sent + pend[p].len]
  BY <1>4, <1>5
<1>7. queue'[1].len = pend[p].len /\ queue'[1].confirmed = pend[p].confirmed
  BY <1>2, <1>6 DEF Batch
<1> QED  BY <1>1, <1>4, <1>6, <1>7 DEF SoleBatch

LEMMA DropRefusedBounded ==
    ASSUME IInv, IInv', Bounded, NEW p \in Producers, DropRefused(p)
    PROVE  Bounded'
<1> SUFFICES ASSUME outstanding' > MaxBytes
             PROVE  FALSE
  BY DEF Bounded
<1>1. pend[p] \in Batch /\ p \in {"ui", "reply"}
  BY DEF IInv, Holds, DropRefused, Producers
<1>2. pend[p].len > 0 /\ pend[p].len \in Nat /\ outstanding \in Nat /\ MaxBytes \in Nat
  BY <1>1, BatchFields, Covered, PtyAssumption
<1>3. outstanding' = outstanding - pend[p].len
  BY DEF DropRefused
<1>4. outstanding > MaxBytes
  BY <1>2, <1>3
<1>5. SoleBatch(pend[p])
  BY <1>1, <1>2, <1>4, SoleHolder
<1> QED  BY <1>2, <1>3, <1>5 DEF SoleBatch

LEMMA RecvBounded ==
    ASSUME IInv, IInv', Bounded, Recv
    PROVE  Bounded'
<1> SUFFICES ASSUME outstanding > MaxBytes
             PROVE  \/ \E q \in Producers : SoleBatch(pend[q])'
                    \/ SoleBatch(cur)'
  BY DEF Bounded, Recv
<1>1. queue # <<>> /\ outstanding' = outstanding /\ cur' = Head(queue)
  BY DEF Recv
<1>2. SoleBatch(queue[1])
  BY <1>1, SoleHolder
<1>3. Head(queue) = queue[1]
  BY <1>1 DEF IInv, TypeOK
<1> QED  BY <1>1, <1>2, <1>3 DEF SoleBatch

LEMMA DropCurrentBounded ==
    ASSUME IInv, IInv', Bounded, DropCurrent
    PROVE  Bounded'
<1> SUFFICES ASSUME outstanding' > MaxBytes
             PROVE  FALSE
  BY DEF Bounded
<1>1. cur \in Batch
  BY DEF IInv, Holds, DropCurrent
<1>2. cur.len > 0 /\ cur.len \in Nat /\ outstanding \in Nat /\ MaxBytes \in Nat
  BY <1>1, BatchFields, Covered, PtyAssumption
<1>3. outstanding' = outstanding - cur.len
  BY DEF DropCurrent
<1>4. outstanding > MaxBytes
  BY <1>2, <1>3
<1>5. SoleBatch(cur)
  BY <1>2, <1>4, SoleHolder
<1> QED  BY <1>2, <1>3, <1>5 DEF SoleBatch

LEMMA DiscardQueuedBounded ==
    ASSUME IInv, IInv', Bounded, DiscardQueued
    PROVE  Bounded'
<1> SUFFICES ASSUME outstanding' > MaxBytes
             PROVE  FALSE
  BY DEF Bounded
<1>1. queue # <<>> /\ Head(queue) = queue[1] /\ Head(queue) \in Batch
  BY HeadTail DEF IInv, TypeOK, DiscardQueued
<1>2. /\ Head(queue).len > 0 /\ Head(queue).len \in Nat
      /\ outstanding \in Nat /\ MaxBytes \in Nat
  BY <1>1, BatchFields, Covered, PtyAssumption
<1>3. outstanding' = outstanding - Head(queue).len
  BY DEF DiscardQueued
<1>4. outstanding > MaxBytes
  BY <1>2, <1>3
<1>5. SoleBatch(queue[1])
  BY <1>1, <1>4, SoleHolder
<1> QED  BY <1>1, <1>2, <1>3, <1>5 DEF SoleBatch

LEMMA OtherBounded ==
    ASSUME Bounded, UNCHANGED <<outstanding, pend, queue, cur>>
    PROVE  Bounded'
  BY DEF Bounded, SoleBatch

LEMMA NextBounded ==
    ASSUME IInv, IInv', Bounded, [Next]_vars
    PROVE  Bounded'
<1>1. CASE UNCHANGED vars
  BY <1>1, OtherBounded DEF vars, producerVars, workerVars
<1>2. ASSUME NEW p \in Producers, Send(p) PROVE Bounded'
  <2>1. ASSUME NEW len \in Sizes, NEW c \in BOOLEAN, Reserve(p, len, c) PROVE Bounded'
    BY <2>1, ReserveBounded
  <2>2. CASE TrySendOk(p)
    BY <2>2, TrySendOkBounded
  <2>3. CASE TrySendFails(p)
    BY <2>3, OtherBounded DEF TrySendFails, workerVars
  <2>4. CASE DropRefused(p)
    BY <2>4, DropRefusedBounded
  <2> QED  BY <1>2, <2>1, <2>2, <2>3, <2>4 DEF Send
<1>3. ASSUME NEW p \in Producers, DropProducer(p) PROVE Bounded'
  BY <1>3, OtherBounded DEF DropProducer, workerVars
<1>4. CASE Recv
  BY <1>4, RecvBounded
<1>5. CASE DropCurrent
  BY <1>5, DropCurrentBounded
<1>6. CASE DiscardQueued
  BY <1>6, DiscardQueuedBounded
<1>7. CASE WriteOk \/ WriteErr \/ CloseReceiver \/ Exit
  BY <1>7, OtherBounded DEF WriteOk, WriteErr, CloseReceiver, Exit, producerVars
<1> QED  BY <1>1, <1>2, <1>3, <1>4, <1>5, <1>6, <1>7 DEF Next, WorkerStep

(***************************************************************************)
(* The limit holds in every behaviour: over MAX_BYTES a confirmed pipe is  *)
(* alone, and nothing accumulates behind it.                               *)
(***************************************************************************)
THEOREM BoundedHolds == Spec => []Bounded
<1>1. Init => Bounded
  BY InitBounded
<1>2. IInv /\ IInv' /\ Bounded /\ [Next]_vars => Bounded'
  BY NextBounded
<1> QED  BY <1>1, <1>2, IInvHolds, PTL DEF Spec
-----------------------------------------------------------------------------
(***************************************************************************)
(* The order.                                                              *)
(***************************************************************************)
LEMMA OpenStates == StreamEnd = "open" <=> worker \notin
                       {"eof", "failed", "closing", "broken"}
  BY DEF StreamEnd

LEMMA InitOrder == Init => Order
  BY DEF Init, Order, EofAfterInput, InHand

LEMMA OtherOrder ==
    ASSUME Order, UNCHANGED <<accepted, delivered, queue, worker, cur>>
    PROVE  Order'
  BY DEF Order, EofAfterInput, InHand, StreamEnd

LEMMA TrySendOkOrder ==
    ASSUME IInv, Order, NEW p \in Producers, TrySendOk(p)
    PROVE  Order'
<1> DEFINE b == [pend[p] EXCEPT !.end = sent + pend[p].len]
<1>1. /\ queue' = Append(queue, b) /\ accepted' = Append(accepted, b)
      /\ delivered' = delivered /\ worker' = worker /\ cur' = cur /\ rxOpen
  BY DEF TrySendOk, workerVars
<1>2. worker # "eof"
  BY <1>1 DEF IInv, Holds
<1> HIDE DEF b
<1>3. /\ queue \in Seq(Batch) /\ accepted \in Seq(Batch) /\ delivered \in Seq(Batch)
  BY DEF IInv, TypeOK
<1>4. SUFFICES ASSUME StreamEnd' = "open"
               PROVE  /\ Len(accepted') = Len(delivered') + InHand' + Len(queue')
                      /\ \A i \in 1..Len(queue') :
                            queue'[i] = accepted'[Len(delivered') + InHand' + i]
                      /\ \A i \in 1..Len(delivered') : delivered'[i] = accepted'[i]
                      /\ worker' = "writing" => cur' = accepted'[Len(delivered') + 1]
  BY <1>1, <1>2 DEF Order, EofAfterInput
<1>5. /\ Len(accepted) = Len(delivered) + InHand + Len(queue)
      /\ \A i \in 1..Len(queue) : queue[i] = accepted[Len(delivered) + InHand + i]
      /\ \A i \in 1..Len(delivered) : delivered[i] = accepted[i]
      /\ worker = "writing" => cur = accepted[Len(delivered) + 1]
      /\ InHand' = InHand /\ InHand \in {0, 1}
      /\ worker = "writing" => InHand = 1
  BY <1>1, <1>4 DEF Order, StreamEnd, InHand
<1>6. /\ Len(queue) \in Nat /\ Len(accepted) \in Nat /\ Len(delivered) \in Nat
      /\ Len(queue') = Len(queue) + 1 /\ Len(accepted') = Len(accepted) + 1
      /\ \A i \in 1..Len(queue) : queue'[i] = queue[i]
      /\ queue'[Len(queue) + 1] = b
      /\ \A i \in 1..Len(accepted) : accepted'[i] = accepted[i]
      /\ accepted'[Len(accepted) + 1] = b
  BY <1>1, <1>3
<1>7. Len(accepted') = Len(delivered') + InHand' + Len(queue')
  BY <1>1, <1>5, <1>6
<1>8. \A i \in 1..Len(queue') : queue'[i] = accepted'[Len(delivered') + InHand' + i]
  <2> SUFFICES ASSUME NEW i \in 1..Len(queue')
               PROVE  queue'[i] = accepted'[Len(delivered') + InHand' + i]
    OBVIOUS
  <2> DEFINE k == Len(delivered) + InHand + i
  <2>0. Len(delivered') + InHand' + i = k
    BY <1>1, <1>5
  <2>1. CASE i = Len(queue) + 1
    <3>1. /\ Len(accepted) = Len(delivered) + InHand + Len(queue)
          /\ InHand \in Nat /\ Len(queue) \in Nat /\ Len(delivered) \in Nat
      BY <1>5, <1>6
    <3>2. k = Len(accepted) + 1
      BY ONLY <2>1, <3>1
    <3> QED  BY <2>0, <2>1, <3>2, <1>6
  <2>2. CASE i # Len(queue) + 1
    <3>1. i \in 1..Len(queue) /\ k \in 1..Len(accepted)
      BY <2>2, <1>5, <1>6
    <3>2. queue[i] = accepted[k]
      BY <3>1, <1>5
    <3>3. queue'[i] = queue[i] /\ accepted'[k] = accepted[k]
      BY <3>1, <1>6
    <3> QED  BY <2>0, <3>2, <3>3
  <2> QED  BY <2>1, <2>2
<1>9. \A i \in 1..Len(delivered') : delivered'[i] = accepted'[i]
  BY <1>1, <1>5, <1>6
<1>10. worker' = "writing" => cur' = accepted'[Len(delivered') + 1]
  BY <1>1, <1>5, <1>6
<1> QED  BY <1>7, <1>8, <1>9, <1>10

LEMMA RecvOrder ==
    ASSUME IInv, Order, Recv
    PROVE  Order'
<1>1. /\ worker = "recv" /\ worker' = "writing" /\ queue # <<>> /\ queue' = Tail(queue)
      /\ cur' = Head(queue) /\ accepted' = accepted /\ delivered' = delivered
  BY DEF Recv
<1>2. /\ Head(queue) = queue[1] /\ Len(queue') = Len(queue) - 1 /\ Len(queue) \in Nat \ {0}
      /\ \A i \in 1..(Len(queue) - 1) : queue'[i] = queue[i + 1]
  BY <1>1, HeadTail DEF IInv, TypeOK
<1>3. Len(delivered) \in Nat /\ Len(accepted) \in Nat
  BY DEF IInv, TypeOK
<1>4. /\ Len(accepted) = Len(delivered) + Len(queue)
      /\ \A i \in 1..Len(queue) : queue[i] = accepted[Len(delivered) + i]
      /\ \A i \in 1..Len(delivered) : delivered[i] = accepted[i]
  BY <1>1, <1>3 DEF Order, StreamEnd, InHand
<1>5. cur' = accepted'[Len(delivered') + 1]
  <2>1. 1 \in 1..Len(queue)
    BY <1>2
  <2> QED  BY <2>1, <1>1, <1>2, <1>4
<1>6. \A i \in 1..Len(queue') : queue'[i] = accepted'[Len(delivered') + 1 + i]
  <2> SUFFICES ASSUME NEW i \in 1..Len(queue')
               PROVE  queue'[i] = accepted'[Len(delivered') + 1 + i]
    OBVIOUS
  <2>1. i \in 1..(Len(queue) - 1) /\ i + 1 \in 1..Len(queue)
    BY <1>2
  <2>2. queue'[i] = queue[i + 1]
    BY <2>1, <1>2
  <2>3. queue[i + 1] = accepted[Len(delivered) + (i + 1)]
    BY <2>1, <1>4
  <2>4. Len(delivered) + (i + 1) = Len(delivered) + 1 + i
    BY <1>3, <2>1
  <2> QED  BY <1>1, <2>2, <2>3, <2>4
<1>7. Len(accepted') = Len(delivered') + 1 + Len(queue')
  BY <1>1, <1>2, <1>3, <1>4
<1> QED  BY <1>1, <1>4, <1>5, <1>6, <1>7 DEF Order, EofAfterInput, InHand

LEMMA WriteOkOrder ==
    ASSUME IInv, Order, WriteOk
    PROVE  Order'
<1>1. /\ worker = "writing" /\ worker' = "written" /\ delivered' = Append(delivered, cur)
      /\ queue' = queue /\ accepted' = accepted
  BY DEF WriteOk
<1>2. /\ delivered \in Seq(Batch) /\ cur \in Batch
      /\ Len(delivered) \in Nat /\ Len(queue) \in Nat /\ Len(accepted) \in Nat
  BY <1>1 DEF IInv, TypeOK, Holds
<1>3. /\ Len(delivered') = Len(delivered) + 1
      /\ \A i \in 1..Len(delivered) : delivered'[i] = delivered[i]
      /\ delivered'[Len(delivered) + 1] = cur
  BY <1>1, <1>2
<1>4. /\ Len(accepted) = Len(delivered) + 1 + Len(queue)
      /\ \A i \in 1..Len(queue) : queue[i] = accepted[Len(delivered) + 1 + i]
      /\ \A i \in 1..Len(delivered) : delivered[i] = accepted[i]
      /\ cur = accepted[Len(delivered) + 1]
  BY <1>1 DEF Order, StreamEnd, InHand
<1>5. \A i \in 1..Len(delivered') : delivered'[i] = accepted'[i]
  BY <1>1, <1>2, <1>3, <1>4
<1>6. \A i \in 1..Len(queue') : queue'[i] = accepted'[Len(delivered') + 0 + i]
  BY <1>1, <1>2, <1>3, <1>4
<1>7. Len(accepted') = Len(delivered') + 0 + Len(queue')
  BY <1>1, <1>2, <1>3, <1>4
<1> QED  BY <1>1, <1>5, <1>6, <1>7 DEF Order, EofAfterInput, InHand

(***************************************************************************)
(* The worker leaves its loop with the channel drained only when all that  *)
(* was accepted has been delivered.                                        *)
(***************************************************************************)
LEMMA ExitOrder ==
    ASSUME IInv, Order, Exit
    PROVE  /\ Order'
           /\ worker = "recv" => delivered = accepted
<1>1. /\ queue = <<>> /\ accepted' = accepted /\ delivered' = delivered
      /\ worker \in {"closing", "recv"}
      /\ worker' = IF worker = "closing" THEN "broken" ELSE "eof"
  BY DEF Exit, historyVars
<1>2. worker = "recv" => delivered = accepted
  <2> SUFFICES ASSUME worker = "recv" PROVE delivered = accepted
    OBVIOUS
  <2>1. /\ delivered \in Seq(Batch) /\ accepted \in Seq(Batch)
        /\ Len(delivered) \in Nat /\ Len(accepted) \in Nat
    BY DEF IInv, TypeOK
  <2>2. Len(queue) = 0
    BY <1>1
  <2>3. /\ Len(accepted) = Len(delivered)
        /\ \A i \in 1..Len(delivered) : delivered[i] = accepted[i]
    BY <2>1, <2>2 DEF Order, StreamEnd, InHand
  <2> QED  BY <2>1, <2>3
<1> QED  BY <1>1, <1>2 DEF Order, EofAfterInput, StreamEnd

LEMMA NextOrder ==
    ASSUME IInv, Order, [Next]_vars
    PROVE  Order'
<1>1. CASE UNCHANGED vars
  BY <1>1, OtherOrder DEF vars, workerVars, historyVars
<1>2. ASSUME NEW p \in Producers, Send(p) PROVE Order'
  <2>1. ASSUME NEW len \in Sizes, NEW c \in BOOLEAN, Reserve(p, len, c) PROVE Order'
    BY <2>1, OtherOrder DEF Reserve, workerVars, historyVars
  <2>2. CASE TrySendOk(p)
    BY <2>2, TrySendOkOrder
  <2>3. CASE TrySendFails(p) \/ DropRefused(p)
    BY <2>3, OtherOrder DEF TrySendFails, DropRefused, workerVars, historyVars
  <2> QED  BY <1>2, <2>1, <2>2, <2>3 DEF Send
<1>3. ASSUME NEW p \in Producers, DropProducer(p) PROVE Order'
  BY <1>3, OtherOrder DEF DropProducer, workerVars, historyVars
<1>4. CASE Recv
  BY <1>4, RecvOrder
<1>5. CASE WriteOk
  BY <1>5, WriteOkOrder
<1>6. CASE WriteErr \/ CloseReceiver \/ DiscardQueued
  BY <1>6 DEF WriteErr, CloseReceiver, DiscardQueued, Order, EofAfterInput, StreamEnd,
              workerVars, historyVars
<1>7. CASE DropCurrent
  BY <1>7 DEF DropCurrent, Order, EofAfterInput, StreamEnd, InHand, historyVars
<1>8. CASE Exit
  BY <1>8, ExitOrder
<1> QED  BY <1>1, <1>2, <1>3, <1>4, <1>5, <1>6, <1>7, <1>8 DEF Next, WorkerStep

(***************************************************************************)
(* EOF comes only after all the accepted input.                            *)
(***************************************************************************)
THEOREM EofHolds == Spec => []EofAfterInput
<1>1. Init => Order
  BY InitOrder
<1>2. IInv /\ Order /\ [Next]_vars => Order'
  BY NextOrder
<1>3. Order => EofAfterInput
  BY DEF Order
<1> QED  BY <1>1, <1>2, <1>3, IInvHolds, PTL DEF Spec

-----------------------------------------------------------------------------
(***************************************************************************)
(* The refinement.  A batch taken, written, failed or at its end is a step *)
(* of the stream; every other step leaves the stream as it is.             *)
(***************************************************************************)
LEMMA InitStream == Init => Stream!Init
  BY DEF Init, Stream!Init, StreamEnd

LEMMA StreamStutters ==
    ASSUME UNCHANGED <<accepted, delivered, worker>>
    PROVE  UNCHANGED Stream!svars
  BY DEF Stream!svars, StreamEnd

LEMMA TrySendOkAccepts ==
    ASSUME IInv, NEW p \in Producers, TrySendOk(p)
    PROVE  Stream!Accept
<1> DEFINE b == [pend[p] EXCEPT !.end = sent + pend[p].len]
<1>1. /\ accepted' = Append(accepted, b) /\ rxOpen
      /\ delivered' = delivered /\ worker' = worker
  BY DEF TrySendOk, workerVars
<1>2. b \in Batch
  <2>1. pend[p] \in Batch
    BY DEF IInv, Holds, TrySendOk
  <2>2. sent + pend[p].len \in Nat
    BY <2>1, BatchFields, Covered
  <2> QED  BY <2>1, <2>2 DEF Batch
<1> HIDE DEF b
<1>3. /\ accepted' \in Seq(Batch) /\ Len(accepted') = Len(accepted) + 1
      /\ accepted'[Len(accepted')] = b
  BY <1>1, <1>2, AppendIndex DEF IInv, TypeOK
<1>4. StreamEnd # "eof" /\ StreamEnd' = StreamEnd
  BY <1>1 DEF IInv, Holds, StreamEnd
<1> QED  BY <1>1, <1>2, <1>3, <1>4 DEF Stream!Accept

LEMMA WriteOkDelivers ==
    ASSUME IInv, Order, WriteOk
    PROVE  Stream!Deliver
<1>1. /\ worker = "writing" /\ worker' = "written" /\ delivered' = Append(delivered, cur)
      /\ accepted' = accepted
  BY DEF WriteOk
<1>2. StreamEnd = "open" /\ StreamEnd' = "open"
  BY <1>1 DEF StreamEnd
<1>3. Len(delivered) \in Nat /\ Len(queue) \in Nat
  BY DEF IInv, TypeOK
<1>4. /\ Len(accepted) = Len(delivered) + 1 + Len(queue)
      /\ cur = accepted[Len(delivered) + 1]
  BY <1>1, <1>2 DEF Order, InHand
<1> QED  BY <1>1, <1>2, <1>3, <1>4 DEF Stream!Deliver

LEMMA WriteErrBreaks ==
    ASSUME WriteErr
    PROVE  Stream!Break
  BY DEF WriteErr, Stream!Break, StreamEnd, historyVars

LEMMA ExitFinishes ==
    ASSUME IInv, Order, Exit
    PROVE  Stream!Finish \/ UNCHANGED Stream!svars
<1>1. CASE worker = "recv"
  BY <1>1, ExitOrder DEF Exit, Stream!Finish, StreamEnd, historyVars
<1>2. CASE worker = "closing"
  BY <1>2 DEF Exit, Stream!svars, StreamEnd, historyVars
<1> QED  BY <1>1, <1>2 DEF Exit

LEMMA NextStream ==
    ASSUME IInv, Order, [Next]_vars
    PROVE  [Stream!Next]_Stream!svars
<1>1. CASE UNCHANGED vars
  BY <1>1, StreamStutters DEF vars, workerVars, historyVars
<1>2. ASSUME NEW p \in Producers, Send(p) PROVE [Stream!Next]_Stream!svars
  <2>1. ASSUME NEW len \in Sizes, NEW c \in BOOLEAN, Reserve(p, len, c)
        PROVE  UNCHANGED Stream!svars
    BY <2>1, StreamStutters DEF Reserve, workerVars, historyVars
  <2>2. CASE TrySendOk(p)
    BY <2>2, TrySendOkAccepts DEF Stream!Next
  <2>3. CASE TrySendFails(p) \/ DropRefused(p)
    BY <2>3, StreamStutters DEF TrySendFails, DropRefused, workerVars, historyVars
  <2> QED  BY <1>2, <2>1, <2>2, <2>3 DEF Send
<1>3. ASSUME NEW p \in Producers, DropProducer(p) PROVE UNCHANGED Stream!svars
  BY <1>3, StreamStutters DEF DropProducer, workerVars, historyVars
<1>4. CASE WriteOk
  BY <1>4, WriteOkDelivers DEF Stream!Next
<1>5. CASE WriteErr
  BY <1>5, WriteErrBreaks DEF Stream!Next
<1>6. CASE Exit
  BY <1>6, ExitFinishes DEF Stream!Next
<1>7. CASE Recv \/ DropCurrent \/ CloseReceiver \/ DiscardQueued
  BY <1>7 DEF Recv, DropCurrent, CloseReceiver, DiscardQueued, Stream!svars, StreamEnd,
              workerVars, historyVars
<1> QED  BY <1>1, <1>2, <1>3, <1>4, <1>5, <1>6, <1>7 DEF Next, WorkerStep

(***************************************************************************)
(* The writer implements the stream: the batches of the two producers      *)
(* reach the child whole and in the order try_send took them, and the      *)
(* stream ends with all of them delivered or broken (input_writer.rs).     *)
(***************************************************************************)
THEOREM WriterIsStream == Spec => OrderedDelivery
<1>1. Init => Stream!Init /\ Order
  BY InitStream, InitOrder
<1>2. IInv /\ Order /\ [Next]_vars => Order' /\ [Stream!Next]_Stream!svars
  BY NextOrder, NextStream
<1> QED  BY <1>1, <1>2, IInvHolds, PTL DEF Spec, OrderedDelivery, Stream!Spec

=============================================================================
