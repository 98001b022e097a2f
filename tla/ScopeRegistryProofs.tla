-------------------------- MODULE ScopeRegistryProofs --------------------------
(***************************************************************************)
(* Proofs about ScopeRegistry, for any owners, projects, overlaps and      *)
(* number of calls.                                                        *)
(*                                                                         *)
(* That documented merges exclude each other rests on one fact: an agent   *)
(* that has been told its claim_id and not yet asked to release it has a   *)
(* claim in the registry (HasClaim).  A claim goes by a release alone, and *)
(* none of the agent's is still on its way then (Fits): its calls are      *)
(* served in the order it made them (InOrder, BatchFirst), and the one     *)
(* that answered it was the last.                                          *)
(***************************************************************************)
EXTENDS ScopeRegistry, WellFoundedInduction, TLAPS

(* From the claim_id's answer to the request to release. *)
Has == {"claimed", "waiting", "merging"}

PhaseOf(kind) == CASE kind = "register" -> "claiming"
                   [] kind = "wait"     -> "waiting"
                   [] kind = "release"  -> "releasing"

(***************************************************************************)
(* What is known of a request on its way, where cl numbers the agents'     *)
(* last calls and p is where they are: it was made, its agent is where it  *)
(* was made if still waiting for it, and an agent that has a claim is not  *)
(* asking for its release.                                                 *)
(***************************************************************************)
Fits(r, cl, p) ==
    /\ r.call <= cl[r.from]
    /\ cl[r.from] = r.call /\ p[r.from] \in Asking => p[r.from] = PhaseOf(r.kind)
    /\ r.kind = "release" => p[r.from] \notin Has

InOrder(s) == \A i, j \in 1..Len(s) :
                 i < j /\ s[i].from = s[j].from => s[i].call < s[j].call

Queue(s, cl, p) == InOrder(s) /\ \A i \in 1..Len(s) : Fits(s[i], cl, p)

BatchFirst == \A i \in 1..Len(batch), j \in 1..Len(inbox) :
                 batch[i].from = inbox[j].from => batch[i].call < inbox[j].call

Queues == Queue(inbox, call, ph) /\ Queue(batch, call, ph) /\ BatchFirst

(* A parked wait is one of its agent's calls, perhaps the last. *)
Waiters == \A w \in waiters : /\ w.call <= call[w.owner]
                              /\ Heard(w.owner, w.call) => ph[w.owner] = "waiting"

IdBound == \E b \in Nat : \A c \in registry : c.id <= b

HasClaim == ~misreleased => \A o \in Owners : ph[o] \in Has => \E c \in registry : c.owner = o

NotEditor == \A o \in Owners : ph[o] \in {"waiting", "merging"} => o \notin Editors

Ids == IdBound /\ UniqueIds

IInv == TypeOK /\ Ids /\ OwnersOpen /\ Queues /\ Waiters /\ HasClaim /\ NotEditor /\ Exclusive

-----------------------------------------------------------------------------
(* Sequences. *)

(* What Append leaves where it was, and what it adds. *)
LEMMA AppendIndex ==
    ASSUME NEW S, NEW q \in Seq(S), NEW b \in S
    PROVE  /\ Append(q, b) \in Seq(S)
           /\ Len(Append(q, b)) = Len(q) + 1
           /\ Len(q) \in Nat
           /\ \A i \in 1..Len(q) : Append(q, b)[i] = q[i]
           /\ Append(q, b)[Len(q) + 1] = b
  OBVIOUS

(* The head and the tail of a nonempty sequence. *)
LEMMA HeadTail ==
    ASSUME NEW S, NEW q \in Seq(S), q # <<>>
    PROVE  /\ Head(q) = q[1] /\ Head(q) \in S
           /\ Tail(q) \in Seq(S)
           /\ Len(Tail(q)) = Len(q) - 1
           /\ Len(q) \in Nat \ {0}
           /\ \A i \in 1..(Len(q) - 1) : Tail(q)[i] = q[i + 1]
  OBVIOUS

(* A sequence split after its n-th element. *)
LEMMA Split ==
    ASSUME NEW S, NEW q \in Seq(S), NEW n \in 0..Len(q)
    PROVE  /\ SubSeq(q, 1, n) \in Seq(S) /\ SubSeq(q, n + 1, Len(q)) \in Seq(S)
           /\ Len(SubSeq(q, 1, n)) = n
           /\ Len(SubSeq(q, n + 1, Len(q))) = Len(q) - n
           /\ \A i \in 1..n : SubSeq(q, 1, n)[i] = q[i]
           /\ \A i \in 1..(Len(q) - n) : SubSeq(q, n + 1, Len(q))[i] = q[n + i]
  OBVIOUS

-----------------------------------------------------------------------------
(* The claim ids. *)

(***************************************************************************)
(* A bounded nonempty set of numbers has the maximum Max chooses: its      *)
(* least upper bound is one of its elements.                               *)
(***************************************************************************)
LEMMA MaxOfBounded ==
    ASSUME NEW S \in SUBSET Nat, S # {}, NEW b \in Nat, \A x \in S : x <= b
    PROVE  Max(S) \in S /\ \A x \in S : x <= Max(S)
<1> DEFINE U == {n \in Nat : \A x \in S : x <= n}
<1> DEFINE R == {ss \in Nat \X Nat : ss[1] < ss[2]}
<1>1. PICK u \in U : \A v \in U : ~(<<v, u>> \in R)
  <2>1. U \subseteq Nat /\ U # {}
    OBVIOUS
  <2>2. OpToRel(<, Nat) = R
    BY DEF OpToRel
  <2>3. IsWellFoundedOn(R, Nat)
    BY <2>2, NatLessThanWellFounded
  <2> HIDE DEF R, U
  <2> QED  BY <2>1, <2>3, WFMin
<1>2. \A v \in U : u <= v
  <2> SUFFICES ASSUME NEW v \in U, ~(u <= v) PROVE FALSE
    OBVIOUS
  <2>1. u \in Nat /\ v \in Nat /\ v < u
    OBVIOUS
  <2>2. <<v, u>> \in R
    BY <2>1
  <2> QED  BY <1>1, <2>2
<1>3. u \in S
  <2>1. SUFFICES ASSUME u \notin S PROVE FALSE
    OBVIOUS
  <2>2. PICK x \in S : TRUE
    OBVIOUS
  <2>3. u \in Nat /\ x <= u /\ x # u /\ x \in Nat
    BY <2>1, <2>2
  <2>4. u - 1 \in Nat /\ \A y \in S : y <= u - 1
    BY <2>1, <2>3
  <2>5. u - 1 \in U
    BY <2>4
  <2> QED  BY <2>5, <2>3, <1>2
<1>4. \A x \in S : u >= x
  BY <1>3
<1> QED  BY <1>3, <1>4 DEF Max

(***************************************************************************)
(* The id RegisterScope gives is above every id there is.                  *)
(***************************************************************************)
LEMMA NewIdFresh ==
    ASSUME TypeOK, IdBound
    PROVE  NewId \in Nat \ {0} /\ \A c \in registry : c.id < NewId
<1>1. CASE registry = {}
  BY <1>1 DEF NewId
<1>2. CASE registry # {}
  <2> DEFINE S == {c.id : c \in registry}
  <2>1. S \in SUBSET Nat /\ S # {}
    BY <1>2 DEF TypeOK
  <2>2. PICK b \in Nat : \A c \in registry : c.id <= b
    BY DEF IdBound
  <2>3. \A x \in S : x <= b
    BY <2>2
  <2> HIDE DEF S
  <2>4. Max(S) \in S /\ \A x \in S : x <= Max(S)
    BY <2>1, <2>3, MaxOfBounded
  <2>5. NewId = Max(S) + 1
    BY <1>2 DEF NewId, S
  <2>6. \A c \in registry : c.id \in S
    BY DEF S
  <2>7. PICK m \in Nat : NewId = m + 1 /\ \A c \in registry : c.id <= m
    BY <2>1, <2>4, <2>5, <2>6
  <2>8. \A c \in registry : c.id \in Nat
    BY <2>1, <2>6
  <2> QED  BY <2>7, <2>8
<1> QED  BY <1>1, <1>2

(* Dropping claims keeps the ids unique and bounded. *)
LEMMA FewerIds ==
    ASSUME Ids, registry' \subseteq registry
    PROVE  Ids'
  BY DEF Ids, IdBound, UniqueIds

-----------------------------------------------------------------------------
(* The requests on their way, as they are made, received and served. *)

(***************************************************************************)
(* An agent stops waiting, and has a claim only if it had one.             *)
(***************************************************************************)
Quiet(p, q) == \A o \in Owners : \/ q[o] = p[o]
                                 \/ q[o] \notin Asking /\ (q[o] \in Has => p[o] \in Has)

LEMMA FitsQuiet ==
    ASSUME NEW r \in Requests, NEW cl, NEW p, NEW q, Fits(r, cl, p), Quiet(p, q)
    PROVE  Fits(r, cl, q)
<1>1. r.from \in Owners
  BY DEF Requests
<1> QED  BY <1>1 DEF Fits, Quiet

LEMMA QueueQuiet ==
    ASSUME NEW s \in Seq(Requests), NEW cl, NEW p, NEW q, Queue(s, cl, p), Quiet(p, q)
    PROVE  Queue(s, cl, q)
<1>1. \A i \in 1..Len(s) : s[i] \in Requests
  OBVIOUS
<1> QED  BY <1>1, FitsQuiet DEF Queue

(* Part of a queue is a queue. *)
LEMMA QueuePart ==
    ASSUME NEW s \in Seq(Requests), NEW t \in Seq(Requests), NEW cl, NEW p, NEW k \in Nat,
           Queue(s, cl, p),
           k + Len(t) <= Len(s),
           \A i \in 1..Len(t) : t[i] = s[k + i]
    PROVE  Queue(t, cl, p)
<1>1. \A i \in 1..Len(t) : k + i \in 1..Len(s)
  OBVIOUS
<1>2. InOrder(t)
  <2> SUFFICES ASSUME NEW i \in 1..Len(t), NEW j \in 1..Len(t), i < j, t[i].from = t[j].from
               PROVE  t[i].call < t[j].call
    BY DEF InOrder
  <2>1. k + i < k + j /\ k + i \in 1..Len(s) /\ k + j \in 1..Len(s)
    BY <1>1
  <2>2. t[i] = s[k + i] /\ t[j] = s[k + j]
    OBVIOUS
  <2> QED  BY <2>1, <2>2 DEF Queue, InOrder
<1>3. \A i \in 1..Len(t) : Fits(t[i], cl, p)
  BY <1>1 DEF Queue
<1> QED  BY <1>2, <1>3 DEF Queue

(***************************************************************************)
(* Receiving: the requests keep their order across the two queues.         *)
(***************************************************************************)
LEMMA BufferStep ==
    ASSUME TypeOK, Queues, NEW n \in 0..Len(inbox), Buffer(n),
           Quiet(ph, ph'), call' = call
    PROVE  Queues' /\ inbox' \in Seq(Requests) /\ batch' \in Seq(Requests)
<1>1. inbox \in Seq(Requests) /\ n \in Nat /\ Len(inbox) \in Nat
  BY DEF TypeOK
<1>2. batch' = SubSeq(inbox, 1, n) /\ inbox' = SubSeq(inbox, n + 1, Len(inbox))
  BY DEF Buffer
<1>3. /\ batch' \in Seq(Requests) /\ inbox' \in Seq(Requests)
      /\ Len(batch') = n /\ Len(inbox') = Len(inbox) - n
      /\ \A i \in 1..n : batch'[i] = inbox[i]
      /\ \A i \in 1..(Len(inbox) - n) : inbox'[i] = inbox[n + i]
  BY <1>1, <1>2, Split
<1>4. Queue(inbox, call, ph')
  BY <1>1, QueueQuiet DEF Queues
<1>5. Queue(batch', call, ph')
  <2>1. \A i \in 1..Len(batch') : batch'[i] = inbox[0 + i]
    BY <1>1, <1>3
  <2>2. 0 \in Nat /\ 0 + Len(batch') <= Len(inbox)
    BY <1>1, <1>3
  <2> QED  BY <1>1, <1>3, <1>4, <2>1, <2>2, QueuePart
<1>6. Queue(inbox', call, ph')
  <2>1. \A i \in 1..Len(inbox') : inbox'[i] = inbox[n + i]
    BY <1>3
  <2>2. n + Len(inbox') <= Len(inbox)
    BY <1>1, <1>3
  <2> QED  BY <1>1, <1>3, <1>4, <2>1, <2>2, QueuePart
<1>7. BatchFirst'
  <2> SUFFICES ASSUME NEW i \in 1..Len(batch'), NEW j \in 1..Len(inbox'),
                      batch'[i].from = inbox'[j].from
               PROVE  batch'[i].call < inbox'[j].call
    BY DEF BatchFirst
  <2>1. /\ i \in 1..Len(inbox) /\ n + j \in 1..Len(inbox) /\ i < n + j
        /\ batch'[i] = inbox[i] /\ inbox'[j] = inbox[n + j]
    BY <1>1, <1>3
  <2> QED  BY <2>1 DEF Queues, Queue, InOrder
<1> QED  BY <1>3, <1>5, <1>6, <1>7 DEF Queues

(***************************************************************************)
(* Serving: the head of the batch is a request that was made, and those    *)
(* behind it, wherever they are, were made after it.                       *)
(***************************************************************************)
LEMMA ServeStep ==
    ASSUME TypeOK, Queues, NEW kind, NextIs(kind), inbox' = inbox, call' = call,
           NEW r, r = Head(batch)
    PROVE  /\ r \in Requests /\ r.kind = kind /\ Fits(r, call, ph)
           /\ batch' \in Seq(Requests) /\ BatchFirst'
           /\ Queue(inbox', call, ph) /\ Queue(batch', call, ph)
           /\ \A i \in 1..Len(inbox') : inbox'[i].from = r.from => r.call < inbox'[i].call
           /\ \A i \in 1..Len(batch') : batch'[i].from = r.from => r.call < batch'[i].call
<1>1. batch \in Seq(Requests) /\ batch # <<>> /\ batch' = Tail(batch) /\ inbox \in Seq(Requests)
  BY DEF TypeOK, NextIs
<1>2. /\ r = batch[1] /\ r \in Requests
      /\ batch' \in Seq(Requests)
      /\ Len(batch') = Len(batch) - 1
      /\ Len(batch) \in Nat \ {0}
      /\ \A i \in 1..(Len(batch) - 1) : batch'[i] = batch[i + 1]
  BY <1>1, HeadTail
<1>3. r.kind = kind /\ Fits(r, call, ph)
  BY <1>2 DEF NextIs, Queues, Queue
<1>4. \A i \in 1..Len(batch') : batch'[i] = batch[1 + i] /\ 1 + i \in 1..Len(batch)
  BY <1>2
<1>5. Queue(batch', call, ph)
  <2>1. 1 + Len(batch') <= Len(batch)
    BY <1>2
  <2> QED  BY <1>1, <1>2, <1>4, <2>1, QueuePart DEF Queues
<1>6. BatchFirst'
  BY <1>4 DEF Queues, BatchFirst
<1>7. \A i \in 1..Len(inbox') : inbox'[i].from = r.from => r.call < inbox'[i].call
  BY <1>2 DEF Queues, BatchFirst
<1>8. \A i \in 1..Len(batch') : batch'[i].from = r.from => r.call < batch'[i].call
  BY <1>2, <1>4 DEF Queues, Queue, InOrder
<1> QED  BY <1>2, <1>3, <1>5, <1>6, <1>7, <1>8 DEF Queues

(* The waits parked stay calls of their agents. *)
LEMMA WaitersQuiet ==
    ASSUME TypeOK, Waiters, waiters' \subseteq waiters, call' = call, Quiet(ph, ph')
    PROVE  Waiters'
<1> SUFFICES ASSUME NEW w \in waiters', w \in waiters
             PROVE  /\ w.call <= call[w.owner]
                    /\ Heard(w.owner, w.call)' => ph'[w.owner] = "waiting"
  BY DEF Waiters
<1>1. w.owner \in Owners
  BY DEF TypeOK
<1> QED  BY <1>1 DEF Waiters, Quiet, Heard

-----------------------------------------------------------------------------
(* One lemma per action. *)

LEMMA InitIInv == Init => IInv
<1> SUFFICES ASSUME Init PROVE IInv
  OBVIOUS
<1>1. TypeOK
  <2>1. armed \in BOOLEAN /\ misreleased \in BOOLEAN
    BY Zenon DEF Init
  <2>2. open \subseteq Owners /\ loop \in {"recv", "drain"} /\ asked \in 0..MaxCalls
    BY ScopeAssumption DEF Init
  <2>3. /\ registry \subseteq [id : Nat \ {0}, owner : Owners]
        /\ waiters \subseteq [owner : Owners, call : Nat \ {0}, late : BOOLEAN]
        /\ inbox \in Seq(Requests) /\ batch \in Seq(Requests)
    BY DEF Init
  <2>4. ph \in [Owners -> Phases] /\ call \in [Owners -> Nat] /\ ids \in [Owners -> Nat]
    BY DEF Init, Phases
  <2> QED  BY <2>1, <2>2, <2>3, <2>4 DEF TypeOK
<1>4. Ids /\ OwnersOpen /\ Waiters
  <2>1. IdBound
    <3>1. \A c \in registry : c.id <= 0
      BY DEF Init
    <3> QED  BY <3>1 DEF IdBound
  <2> QED  BY <2>1 DEF Init, Ids, UniqueIds, OwnersOpen, Waiters
<1>2. Queues
  BY DEF Init, Queues, Queue, InOrder, BatchFirst
<1>3. HasClaim /\ NotEditor /\ Exclusive
  BY DEF Init, HasClaim, Has, NotEditor, Exclusive, Merging
<1> QED  BY <1>1, <1>2, <1>3, <1>4 DEF IInv

(***************************************************************************)
(* A new call: its number is above all its agent's others, so nothing      *)
(* asked before is waited for any more.                                    *)
(***************************************************************************)
LEMMA AskStep ==
    ASSUME IInv, NEW o \in Owners, NEW from, NEW kind \in {"register", "wait", "release"},
           NEW to, to = PhaseOf(kind), Ask(o, from, kind, to),
           to = "waiting" => from \subseteq Has /\ o \notin Editors
    PROVE  IInv'
<1> DEFINE r == Request(o, kind)
<1>1. /\ call' = [call EXCEPT ![o] = @ + 1] /\ ph' = [ph EXCEPT ![o] = to]
      /\ inbox' = Append(inbox, r) /\ ph[o] \in from /\ batch' = batch
      /\ asked' = asked + 1 /\ asked < MaxCalls
      /\ UNCHANGED <<open, registry, waiters, armed, loop, ids, misreleased>>
  BY DEF Ask
<1>2. to \in {"claiming", "waiting", "releasing"} /\ to \in Phases
  BY DEF PhaseOf, Phases, Asking
<1>3. r \in Requests /\ r.from = o /\ r.call = call[o] + 1 /\ r.kind = kind
  BY DEF IInv, TypeOK, Request, Requests
<1>4. /\ call'[o] = call[o] + 1 /\ call[o] \in Nat /\ ph'[o] = to
      /\ \A p \in Owners : p # o => call'[p] = call[p] /\ ph'[p] = ph[p]
  BY <1>1 DEF IInv, TypeOK
<1>5. /\ inbox' \in Seq(Requests) /\ Len(inbox') = Len(inbox) + 1 /\ Len(inbox) \in Nat
      /\ \A i \in 1..Len(inbox) : inbox'[i] = inbox[i] /\ inbox[i] \in Requests
      /\ inbox'[Len(inbox) + 1] = r
  <2>1. inbox \in Seq(Requests)
    BY DEF IInv, TypeOK
  <2> QED  BY <2>1, <1>1, <1>3, AppendIndex
<1>6. TypeOK'
  <2>1. asked' \in 0..MaxCalls
    BY <1>1, ScopeAssumption DEF IInv, TypeOK
  <2>2. call' \in [Owners -> Nat] /\ ph' \in [Owners -> Phases]
    BY <1>1, <1>2 DEF IInv, TypeOK
  <2> QED  BY <1>1, <1>5, <2>1, <2>2 DEF IInv, TypeOK
<1>7. ASSUME NEW q \in Requests, Fits(q, call, ph)
      PROVE  Fits(q, call', ph') /\ (q.from = o => q.call < r.call)
  <2>1. q.from \in Owners /\ q.call \in Nat
    BY DEF Requests
  <2>2. CASE q.from = o
    <3>1. q.call <= call[o] /\ q.call < call'[o]
      BY <1>4, <1>7, <2>1, <2>2 DEF Fits
    <3>2. to \in Has => ph[o] \in Has
      BY <1>1, <1>2 DEF Has
    <3> QED  BY <1>3, <1>4, <1>7, <2>1, <2>2, <3>1, <3>2 DEF Fits
  <2>3. CASE q.from # o
    BY <1>4, <1>7, <2>1, <2>3 DEF Fits
  <2> QED  BY <2>2, <2>3
<1>8. Fits(r, call', ph')
  BY <1>3, <1>4 DEF Fits, PhaseOf, Has
<1>9. Queues'
  <2>1. \A i \in 1..Len(inbox) : Fits(inbox[i], call, ph)
    BY DEF IInv, Queues, Queue
  <2>2. \A i \in 1..Len(batch) : Fits(batch[i], call, ph) /\ batch[i] \in Requests
    BY DEF IInv, TypeOK, Queues, Queue
  <2>3. \A i \in 1..Len(inbox') : Fits(inbox'[i], call', ph')
    <3> SUFFICES ASSUME NEW i \in 1..Len(inbox') PROVE Fits(inbox'[i], call', ph')
      OBVIOUS
    <3>1. CASE i = Len(inbox) + 1
      BY <1>5, <1>8, <3>1
    <3>2. CASE i \in 1..Len(inbox)
      BY <1>5, <1>7, <2>1, <3>2
    <3> QED  BY <1>5, <3>1, <3>2
  <2>4. InOrder(inbox')
    <3> SUFFICES ASSUME NEW i \in 1..Len(inbox'), NEW j \in 1..Len(inbox'), i < j,
                        inbox'[i].from = inbox'[j].from
                 PROVE  inbox'[i].call < inbox'[j].call
      BY DEF InOrder
    <3>1. i \in 1..Len(inbox)
      BY <1>5
    <3>2. CASE j = Len(inbox) + 1
      <4>1. inbox'[j] = r /\ inbox'[i] = inbox[i] /\ inbox[i] \in Requests /\ Fits(inbox[i], call, ph)
        BY <1>5, <2>1, <3>1, <3>2
      <4> QED  BY <1>3, <1>7, <4>1
    <3>3. CASE j \in 1..Len(inbox)
      <4>1. InOrder(inbox)
        BY DEF IInv, Queues, Queue
      <4>2. inbox'[i] = inbox[i] /\ inbox'[j] = inbox[j]
        BY <1>5, <3>1, <3>3
      <4> QED  BY <3>1, <3>3, <4>1, <4>2 DEF InOrder
    <3> QED  BY <1>5, <3>2, <3>3
  <2>5. Queue(batch', call', ph')
    <3>1. InOrder(batch')
      BY <1>1 DEF IInv, Queues, Queue
    <3>2. \A i \in 1..Len(batch') : Fits(batch'[i], call', ph')
      BY <1>1, <1>7, <2>2
    <3> QED  BY <3>1, <3>2 DEF Queue
  <2>6. BatchFirst'
    <3> SUFFICES ASSUME NEW i \in 1..Len(batch), NEW j \in 1..Len(inbox'),
                        batch[i].from = inbox'[j].from
                 PROVE  batch[i].call < inbox'[j].call
      BY <1>1 DEF BatchFirst
    <3>1. CASE j = Len(inbox) + 1
      <4>1. inbox'[j] = r
        BY <1>5, <3>1
      <4> QED  BY <1>3, <1>7, <2>2, <4>1
    <3>2. CASE j \in 1..Len(inbox)
      <4>1. inbox'[j] = inbox[j]
        BY <1>5, <3>2
      <4> QED  BY <3>2, <4>1 DEF IInv, Queues, BatchFirst
    <3> QED  BY <1>5, <3>1, <3>2
  <2> QED  BY <2>3, <2>4, <2>5, <2>6 DEF Queues, Queue
<1>10. Waiters'
  <2> SUFFICES ASSUME NEW w \in waiters
               PROVE  /\ w.call <= call'[w.owner]
                      /\ Heard(w.owner, w.call)' => ph'[w.owner] = "waiting"
    BY <1>1 DEF Waiters
  <2>1. w.owner \in Owners /\ w.call \in Nat /\ w.call <= call[w.owner]
    BY DEF IInv, TypeOK, Waiters
  <2>2. CASE w.owner = o
    BY <1>4, <2>1, <2>2 DEF Heard
  <2>3. CASE w.owner # o
    BY <1>4, <2>1, <2>3 DEF Heard, IInv, Waiters
  <2> QED  BY <2>2, <2>3
<1>11. HasClaim' /\ NotEditor' /\ Exclusive'
  <2>1. to \in Has => ph[o] \in Has /\ o \notin Editors /\ to # "merging"
    BY <1>1, <1>2 DEF Has
  <2>2. HasClaim'
    BY <1>1, <1>4, <2>1 DEF IInv, HasClaim
  <2>3. NotEditor'
    BY <1>1, <1>2, <1>4, <2>1 DEF IInv, NotEditor, Has
  <2>4. Exclusive'
    BY <1>1, <1>2, <1>4 DEF IInv, Exclusive, Merging
  <2> QED  BY <2>2, <2>3, <2>4
<1>12. Ids' /\ OwnersOpen'
  BY <1>1 DEF IInv, Ids, IdBound, UniqueIds, OwnersOpen
<1> QED  BY <1>6, <1>9, <1>10, <1>11, <1>12 DEF IInv

LEMMA GiveUpStep ==
    ASSUME IInv, NEW o \in Owners, GiveUp(o)
    PROVE  IInv'
<1>1. /\ \A p \in Owners : p # o => ph'[p] = ph[p]
      /\ ph[o] = "waiting" => ph'[o] = "claimed"
      /\ ph'[o] \in {"free", "claimed", "merged"}
      /\ ph'[o] = "claimed" => ph[o] = "waiting"
      /\ ph' \in [Owners -> Phases]
      /\ UNCHANGED <<open, registry, waiters, armed, loop, inbox, batch, call, asked, ids, misreleased>>
  BY DEF IInv, TypeOK, GiveUp, Asking, Phases, loopVars
<1>2. Quiet(ph, ph')
  BY <1>1 DEF Quiet, Asking, Has
<1>3. TypeOK' /\ Ids' /\ OwnersOpen'
  BY <1>1 DEF IInv, TypeOK, Ids, IdBound, UniqueIds, OwnersOpen
<1>4. Queues'
  <2>1. inbox \in Seq(Requests) /\ batch \in Seq(Requests)
    BY DEF IInv, TypeOK
  <2> QED  BY <1>1, <1>2, <2>1, QueueQuiet DEF IInv, Queues, BatchFirst
<1>5. Waiters'
  BY <1>1, <1>2, WaitersQuiet DEF IInv
<1>6. HasClaim' /\ NotEditor' /\ Exclusive'
  BY <1>1 DEF IInv, HasClaim, Has, NotEditor, Exclusive, Merging
<1> QED  BY <1>3, <1>4, <1>5, <1>6 DEF IInv

(***************************************************************************)
(* The loop receives, having been woken; tabs may close, whose agents and  *)
(* claims go together.                                                     *)
(***************************************************************************)
LEMMA ReceiveStep ==
    ASSUME IInv, NEW n \in 0..Len(inbox), Buffer(n), NEW tabs,
           open' = open \ tabs,
           registry' = {c \in registry : c.owner \notin tabs},
           waiters' \subseteq waiters,
           ph' \in [Owners -> Phases],
           \A o \in Owners : ph'[o] = IF o \in tabs THEN "gone" ELSE ph[o],
           UNCHANGED <<armed, call, asked, ids, misreleased>>
    PROVE  IInv'
<1>1. Quiet(ph, ph')
  BY DEF Quiet, Asking, Has
<1>2. Queues' /\ inbox' \in Seq(Requests) /\ batch' \in Seq(Requests)
  BY <1>1, BufferStep DEF IInv
<1>3. TypeOK'
  BY <1>2 DEF IInv, TypeOK, Buffer
<1>4. Ids'
  BY FewerIds DEF IInv
<1>5. OwnersOpen' /\ HasClaim' /\ NotEditor' /\ Exclusive'
  BY DEF IInv, OwnersOpen, HasClaim, Has, NotEditor, Exclusive, Merging
<1>6. Waiters'
  BY <1>1, WaitersQuiet DEF IInv
<1> QED  BY <1>2, <1>3, <1>4, <1>5, <1>6 DEF IInv

LEMMA RecvStep ==
    ASSUME IInv, Recv \/ Wake
    PROVE  IInv'
<1>1. PICK n \in 0..Len(inbox) : Buffer(n)
  <2>1. Len(inbox) \in Nat
    BY DEF IInv, TypeOK
  <2> QED  BY <2>1 DEF Recv, Wake
<1>2. UNCHANGED <<open, registry, waiters, armed, ph, call, asked, ids, misreleased>>
  BY DEF Recv, Wake, agentVars
<1>3. open' = open \ {} /\ registry' = {c \in registry : c.owner \notin {}}
  BY <1>2
<1>4. ph' \in [Owners -> Phases] /\ \A o \in Owners : ph'[o] = IF o \in {} THEN "gone" ELSE ph[o]
  BY <1>2 DEF IInv, TypeOK
<1> QED  BY <1>1, <1>2, <1>3, <1>4, ReceiveStep

LEMMA CloseTabStep ==
    ASSUME IInv, NEW o \in Owners, CloseTab(o)
    PROVE  IInv'
<1>1. PICK n \in 0..Len(inbox) : Buffer(n)
  BY DEF CloseTab
<1>2. /\ open' = open \ {o} /\ registry' = {c \in registry : c.owner \notin {o}}
      /\ UNCHANGED <<waiters, armed, call, asked, ids, misreleased>>
  BY DEF CloseTab
<1>3. /\ ph' \in [Owners -> Phases]
      /\ \A p \in Owners : ph'[p] = IF p \in {o} THEN "gone" ELSE ph[p]
  BY DEF IInv, TypeOK, CloseTab, Phases
<1> QED  BY <1>1, <1>2, <1>3, ReceiveStep

LEMMA DropProjectStep ==
    ASSUME IInv, NEW tabs, DropProject(tabs)
    PROVE  IInv'
<1>1. PICK n \in 0..Len(inbox) : Buffer(n)
  BY DEF DropProject
<1>2. /\ open' = open \ tabs /\ registry' = {c \in registry : c.owner \notin tabs}
      /\ waiters' \subseteq waiters
      /\ UNCHANGED <<armed, call, asked, ids, misreleased>>
  BY DEF DropProject
<1>3. /\ ph' \in [Owners -> Phases]
      /\ \A p \in Owners : ph'[p] = IF p \in tabs THEN "gone" ELSE ph[p]
  BY DEF IInv, TypeOK, DropProject, Phases
<1> QED  BY <1>1, <1>2, <1>3, ReceiveStep

LEMMA ElapseStep ==
    ASSUME IInv, Elapse
    PROVE  IInv'
<1>1. PICK w \in waiters : waiters' = (waiters \ {w}) \cup {[w EXCEPT !.late = TRUE]}
  BY DEF Elapse
<1>2. UNCHANGED <<open, registry, armed, loop, inbox, batch, ph, call, asked, ids, misreleased>>
  BY DEF Elapse, loopVars, agentVars
<1>3. /\ [w EXCEPT !.late = TRUE] \in [owner : Owners, call : Nat \ {0}, late : BOOLEAN]
      /\ [w EXCEPT !.late = TRUE].owner = w.owner
      /\ [w EXCEPT !.late = TRUE].call = w.call
  <2>1. w \in [owner : Owners, call : Nat \ {0}, late : BOOLEAN]
    BY DEF IInv, TypeOK
  <2> QED  BY <2>1
<1>4. TypeOK'
  BY <1>1, <1>2, <1>3 DEF IInv, TypeOK
<1>5. Waiters'
  BY <1>1, <1>2, <1>3 DEF IInv, Waiters, Heard
<1>6. Ids' /\ OwnersOpen' /\ HasClaim' /\ NotEditor' /\ Exclusive'
  BY <1>2 DEF IInv, Ids, IdBound, UniqueIds, OwnersOpen, HasClaim, NotEditor, Exclusive, Merging
<1>7. Queues'
  BY <1>2 DEF IInv, Queues, BatchFirst
<1> QED  BY <1>4, <1>5, <1>6, <1>7 DEF IInv

(***************************************************************************)
(* The claim is new, and the agent that hears of it has no other call on   *)
(* its way: none that would release it.                                    *)
(***************************************************************************)
LEMMA ServeRegisterStep ==
    ASSUME IInv, ServeRegister
    PROVE  IInv'
<1> DEFINE r == Head(batch)
<1>1. /\ NextIs("register")
      /\ UNCHANGED <<open, waiters, armed, loop, inbox, call, asked, misreleased>>
  BY DEF ServeRegister
<1>2. /\ r \in Requests /\ r.kind = "register" /\ Fits(r, call, ph)
      /\ batch' \in Seq(Requests) /\ BatchFirst'
      /\ Queue(inbox', call, ph) /\ Queue(batch', call, ph)
      /\ \A i \in 1..Len(inbox') : inbox'[i].from = r.from => r.call < inbox'[i].call
      /\ \A i \in 1..Len(batch') : batch'[i].from = r.from => r.call < batch'[i].call
  BY <1>1, ServeStep DEF IInv
<1>3. CASE r.from \notin open
  <2>1. UNCHANGED <<registry, ids, ph>>
    BY <1>3 DEF ServeRegister
  <2>2. TypeOK' /\ Ids' /\ OwnersOpen' /\ Waiters' /\ HasClaim' /\ NotEditor' /\ Exclusive'
    BY <1>1, <1>2, <2>1 DEF IInv, TypeOK, Ids, IdBound, UniqueIds, OwnersOpen, Waiters, Heard,
                            HasClaim, NotEditor, Exclusive, Merging
  <2> QED  BY <1>1, <1>2, <2>1, <2>2 DEF IInv, Queues
<1>4. CASE r.from \in open
  <2> DEFINE c == [id |-> NewId, owner |-> r.from]
  <2>1. /\ registry' = registry \cup {c}
        /\ ids' = IF Heard(r.from, r.call) THEN [ids EXCEPT ![r.from] = NewId] ELSE ids
        /\ ph' = IF Heard(r.from, r.call) THEN [ph EXCEPT ![r.from] = "claimed"] ELSE ph
    BY <1>4 DEF ServeRegister, Answer
  <2>2. NewId \in Nat \ {0} /\ \A d \in registry : d.id < NewId
    BY NewIdFresh DEF IInv, Ids
  <2>3. r.from \in Owners /\ r.call \in Nat /\ registry \subseteq [id : Nat \ {0}, owner : Owners]
    BY <1>2 DEF IInv, TypeOK, Requests
  <2> HIDE DEF r
  <2>4. ph' \in [Owners -> Phases] /\ ids' \in [Owners -> Nat]
    BY <2>1, <2>2, <2>3 DEF IInv, TypeOK, Phases
  <2>5. \A o \in Owners :
           /\ o # r.from \/ ~Heard(r.from, r.call) => ph'[o] = ph[o]
           /\ Heard(r.from, r.call) => ph'[r.from] = "claimed" /\ call[r.from] = r.call
    BY <2>1, <2>3 DEF IInv, TypeOK, Heard
  <2>6. TypeOK'
    BY <1>1, <1>2, <2>1, <2>2, <2>3, <2>4 DEF IInv, TypeOK
  <2>7. Ids'
    <3>1. UniqueIds'
      BY <2>1, <2>2, <2>3 DEF IInv, Ids, UniqueIds
    <3>2. IdBound'
      <4>1. \A d \in registry' : d.id <= NewId
        BY <2>1, <2>2, <2>3
      <4> QED  BY <2>2, <4>1 DEF IdBound
    <3> QED  BY <3>1, <3>2 DEF Ids
  <2>8. OwnersOpen'
    BY <1>1, <1>4, <2>1 DEF IInv, OwnersOpen
  <2>9. ASSUME NEW q \in Requests, Fits(q, call, ph), q.from = r.from => r.call < q.call
        PROVE  Fits(q, call', ph')
    <3>1. q.from \in Owners /\ q.call \in Nat /\ call[q.from] \in Nat
      BY DEF Requests, IInv, TypeOK
    <3>2. q.from = r.from => ~Heard(r.from, r.call)
      BY <2>3, <2>9, <3>1 DEF Fits, Heard
    <3>3. ph'[q.from] = ph[q.from]
      BY <2>5, <3>1, <3>2
    <3> QED  BY <1>1, <2>9, <3>3 DEF Fits
  <2>10. Queues'
    <3>1. \A i \in 1..Len(inbox') : Fits(inbox'[i], call', ph')
      <4>1. \A i \in 1..Len(inbox') : inbox'[i] \in Requests
        BY <2>6 DEF TypeOK
      <4> QED  BY <1>2, <2>9, <4>1 DEF Queue
    <3>2. \A i \in 1..Len(batch') : Fits(batch'[i], call', ph')
      <4>1. \A i \in 1..Len(batch') : batch'[i] \in Requests
        BY <1>2
      <4> QED  BY <1>2, <2>9, <4>1 DEF Queue
    <3> QED  BY <1>2, <3>1, <3>2 DEF Queues, Queue
  <2>11. Waiters'
    <3> SUFFICES ASSUME NEW w \in waiters
                 PROVE  /\ w.call <= call[w.owner]
                        /\ Heard(w.owner, w.call)' => ph'[w.owner] = "waiting"
      BY <1>1 DEF Waiters
    <3>1. w.owner \in Owners
      BY DEF IInv, TypeOK
    <3> QED  BY <1>1, <2>5, <3>1 DEF IInv, Waiters, Heard, Asking
  <2>12. HasClaim'
    <3> SUFFICES ASSUME ~misreleased, NEW o \in Owners, ph'[o] \in Has
                 PROVE  \E d \in registry' : d.owner = o
      BY <1>1 DEF HasClaim
    <3>1. CASE o = r.from
      <4>1. c \in registry' /\ c.owner = r.from
        BY <2>1
      <4> HIDE DEF c
      <4> QED  BY <3>1, <4>1
    <3>2. CASE o # r.from
      <4>1. ph[o] \in Has
        BY <2>5, <3>2
      <4> QED  BY <2>1, <4>1 DEF IInv, HasClaim
    <3> QED  BY <3>1, <3>2
  <2>13. NotEditor' /\ Exclusive'
    BY <1>1, <2>3, <2>5 DEF IInv, NotEditor, Exclusive, Merging
  <2> QED  BY <2>6, <2>7, <2>8, <2>10, <2>11, <2>12, <2>13 DEF IInv
<1> QED  BY <1>3, <1>4

(***************************************************************************)
(* What a release drops is its caller's, or counted; and its caller has no *)
(* claim left to lose.                                                     *)
(***************************************************************************)
LEMMA ServeReleaseStep ==
    ASSUME IInv, ServeRelease
    PROVE  IInv'
<1> DEFINE r == Head(batch)
           dropped == {c \in registry : c.id = r.id}
<1>1. /\ NextIs("release")
      /\ registry' = registry \ dropped
      /\ misreleased' = (misreleased \/ \E c \in dropped : c.owner # r.from)
      /\ ph' = IF Heard(r.from, r.call) THEN [ph EXCEPT ![r.from] = "free"] ELSE ph
      /\ UNCHANGED <<open, waiters, armed, loop, inbox, call, asked, ids>>
  BY DEF ServeRelease, Answer
<1>2. /\ r \in Requests /\ r.kind = "release" /\ Fits(r, call, ph)
      /\ batch' \in Seq(Requests) /\ BatchFirst'
      /\ Queue(inbox', call, ph) /\ Queue(batch', call, ph)
  BY <1>1, ServeStep DEF IInv
<1>3. r.from \in Owners /\ ph[r.from] \notin Has
  BY <1>2 DEF Requests, Fits
<1> HIDE DEF r
<1>4. /\ ph' \in [Owners -> Phases]
      /\ \A o \in Owners : ph'[o] = ph[o] \/ (o = r.from /\ ph'[o] = "free")
  BY <1>1, <1>3 DEF IInv, TypeOK, Phases
<1>5. Quiet(ph, ph')
  BY <1>4 DEF Quiet, Asking, Has
<1>6. misreleased' \in BOOLEAN
  BY <1>1, Zenon DEF IInv, TypeOK
<1>7. TypeOK'
  BY <1>1, <1>2, <1>4, <1>6 DEF IInv, TypeOK
<1>8. Ids' /\ OwnersOpen'
  BY <1>1, FewerIds DEF IInv, OwnersOpen
<1>9. Queues'
  <2>1. inbox' \in Seq(Requests)
    BY <1>7 DEF TypeOK
  <2> QED  BY <1>1, <1>2, <1>5, <2>1, QueueQuiet DEF Queues
<1>10. Waiters'
  BY <1>1, <1>5, WaitersQuiet DEF IInv
<1>11. HasClaim'
  <2> SUFFICES ASSUME ~misreleased', NEW o \in Owners, ph'[o] \in Has
               PROVE  \E c \in registry' : c.owner = o
    BY DEF HasClaim
  <2>1. ~misreleased /\ \A c \in dropped : c.owner = r.from
    BY <1>1
  <2>2. o # r.from /\ ph[o] \in Has
    BY <1>3, <1>4 DEF Has
  <2>3. PICK c \in registry : c.owner = o
    BY <2>1, <2>2 DEF IInv, HasClaim
  <2> QED  BY <1>1, <2>1, <2>2, <2>3
<1>12. NotEditor' /\ Exclusive'
  BY <1>1, <1>4 DEF IInv, NotEditor, Exclusive, Merging
<1> QED  BY <1>7, <1>8, <1>9, <1>10, <1>11, <1>12 DEF IInv

(***************************************************************************)
(* Whoever would merge beside o has a claim, and it is a conflict of o's.  *)
(***************************************************************************)
LEMMA NoneBeside ==
    ASSUME IInv, ~misreleased, NEW o \in Owners, Conflicts(o) = {},
           NEW p \in Owners, ph[p] \in {"waiting", "merging"}, p # o
    PROVE  {o, p} \notin Overlap /\ {p, o} \notin Overlap
<1>1. PICK c \in registry : c.owner = p
  BY DEF IInv, HasClaim, Has
<1>2. p \notin Editors
  BY DEF IInv, NotEditor
<1>3. ~Blocks(c, o)
  BY DEF Conflicts
<1>4. {o, p} = {p, o}
  OBVIOUS
<1> QED  BY <1>1, <1>2, <1>3, <1>4 DEF Blocks

LEMMA ServeWaitStep ==
    ASSUME IInv, ServeWait
    PROVE  IInv'
<1> DEFINE r == Head(batch)
           w == [owner |-> r.from, call |-> r.call, late |-> FALSE]
           clear == r.from \in open /\ Conflicts(r.from) = {} /\ Heard(r.from, r.call)
<1>1. /\ NextIs("wait")
      /\ UNCHANGED <<open, registry, armed, loop, inbox, call, asked, ids, misreleased>>
      /\ waiters' = waiters \/ waiters' = waiters \cup {w}
      /\ ph' = IF clear THEN [ph EXCEPT ![r.from] = "merging"] ELSE ph
  BY DEF ServeWait, Answer
<1>2. /\ r \in Requests /\ r.kind = "wait" /\ Fits(r, call, ph)
      /\ batch' \in Seq(Requests) /\ BatchFirst'
      /\ Queue(inbox', call, ph) /\ Queue(batch', call, ph)
  BY <1>1, ServeStep DEF IInv
<1>3. /\ r.from \in Owners /\ r.call \in Nat \ {0} /\ r.call <= call[r.from]
      /\ Heard(r.from, r.call) => ph[r.from] = "waiting"
  BY <1>2 DEF Requests, Fits, Heard, PhaseOf
<1> HIDE DEF r
<1>4. /\ ph' \in [Owners -> Phases]
      /\ \A o \in Owners : o # r.from => ph'[o] = ph[o]
      /\ ph'[r.from] # ph[r.from] => clear
      /\ clear => ph'[r.from] = "merging" /\ ph[r.from] = "waiting"
  BY <1>1, <1>3 DEF IInv, TypeOK, Phases
<1> HIDE DEF clear
<1>5. Quiet(ph, ph')
  BY <1>3, <1>4 DEF Quiet, Asking, Has
<1>6. w \in [owner : Owners, call : Nat \ {0}, late : BOOLEAN] /\ w.owner = r.from /\ w.call = r.call
  BY <1>3
<1> HIDE DEF w
<1>7. TypeOK'
  BY <1>1, <1>2, <1>4, <1>6 DEF IInv, TypeOK
<1>8. Ids' /\ OwnersOpen'
  BY <1>1, FewerIds DEF IInv, OwnersOpen
<1>9. Queues'
  <2>1. inbox' \in Seq(Requests)
    BY <1>7 DEF TypeOK
  <2> QED  BY <1>1, <1>2, <1>5, <2>1, QueueQuiet DEF Queues
<1>10. Waiters'
  <2> SUFFICES ASSUME NEW v \in waiters'
               PROVE  /\ v.call <= call[v.owner]
                      /\ Heard(v.owner, v.call)' => ph'[v.owner] = "waiting"
    BY <1>1 DEF Waiters
  <2>1. /\ v.owner \in Owners /\ v.call <= call[v.owner]
        /\ Heard(v.owner, v.call) => ph[v.owner] = "waiting"
    BY <1>1, <1>3, <1>6 DEF IInv, TypeOK, Waiters
  <2> QED  BY <1>1, <1>5, <2>1 DEF Quiet, Heard
<1>11. HasClaim' /\ NotEditor'
  <2>1. \A o \in Owners : /\ ph'[o] \in Has => ph[o] \in Has
                          /\ ph'[o] \in {"waiting", "merging"} => ph[o] \in {"waiting", "merging"}
    BY <1>3, <1>4 DEF Has
  <2>2. HasClaim'
    BY <1>1, <2>1 DEF IInv, HasClaim
  <2>3. NotEditor'
    BY <2>1 DEF IInv, NotEditor
  <2> QED  BY <2>2, <2>3
<1>12. Exclusive'
  <2> SUFFICES ASSUME ~misreleased, NEW o \in Owners, NEW p \in Owners, o # p,
                      {o, p} \in Overlap, ph'[o] = "merging", ph'[p] = "merging"
               PROVE  FALSE
    BY <1>1 DEF Exclusive, Merging
  <2>1. CASE ph[o] = "merging" /\ ph[p] = "merging"
    BY <2>1 DEF IInv, Exclusive, Merging
  <2>2. CASE ph[o] # "merging"
    <3>1. o = r.from /\ clear /\ ph[p] = "merging"
      BY <1>3, <1>4, <2>2
    <3> QED  BY <3>1, NoneBeside DEF clear
  <2>3. CASE ph[p] # "merging"
    <3>1. p = r.from /\ clear /\ ph[o] = "merging"
      BY <1>3, <1>4, <2>3
    <3> QED  BY <3>1, NoneBeside DEF clear
  <2> QED  BY <2>1, <2>2, <2>3
<1> QED  BY <1>7, <1>8, <1>9, <1>10, <1>11, <1>12 DEF IInv

(***************************************************************************)
(* Settling: of those it lets go on, none overlaps one that was merging or *)
(* one that it also lets go on.                                            *)
(***************************************************************************)
LEMMA SettleStep ==
    ASSUME IInv, Settle
    PROVE  IInv'
<1> DEFINE Freed(o) == \E w \in waiters \ Still : w.owner = o /\ Heard(o, w.call)
<1>1. /\ loop' = "recv" /\ waiters' = Still /\ armed' = (Still # {})
      /\ UNCHANGED <<open, registry, inbox, batch, call, asked, ids, misreleased>>
      /\ ph' = [o \in Owners |->
                  IF Freed(o) THEN IF Conflicts(o) = {} THEN "merging" ELSE "claimed"
                              ELSE ph[o]]
  BY DEF Settle, Armed
<1>2. ASSUME NEW o \in Owners
      PROVE  /\ ph'[o] \in Phases
             /\ \/ ph'[o] = ph[o]
                \/ ph[o] = "waiting" /\ ph'[o] = "claimed"
                \/ ph[o] = "waiting" /\ ph'[o] = "merging" /\ Conflicts(o) = {}
  <2>1. Freed(o) => ph[o] = "waiting"
    BY DEF IInv, Waiters
  <2> HIDE DEF Freed
  <2> QED  BY <1>1, <2>1 DEF IInv, TypeOK, Phases, Asking
<1>3. Quiet(ph, ph')
  BY <1>2 DEF Quiet, Asking, Has
<1>4. TypeOK'
  <2>1. ph' \in [Owners -> Phases]
    BY <1>1, <1>2
  <2>2. armed' \in BOOLEAN
    BY <1>1, Zenon
  <2> QED  BY <1>1, <2>1, <2>2 DEF IInv, TypeOK, Still
<1>5. Ids' /\ OwnersOpen'
  BY <1>1 DEF IInv, Ids, IdBound, UniqueIds, OwnersOpen
<1>6. Queues'
  <2>1. inbox \in Seq(Requests) /\ batch \in Seq(Requests)
    BY DEF IInv, TypeOK
  <2> QED  BY <1>1, <1>3, <2>1, QueueQuiet DEF IInv, Queues, BatchFirst
<1>7. Waiters'
  <2>1. waiters' \subseteq waiters
    BY <1>1 DEF Still
  <2> QED  BY <1>1, <1>3, <2>1, WaitersQuiet DEF IInv
<1>8. HasClaim' /\ NotEditor'
  <2>1. \A o \in Owners : /\ ph'[o] \in Has => ph[o] \in Has
                          /\ ph'[o] \in {"waiting", "merging"} => ph[o] \in {"waiting", "merging"}
    BY <1>2 DEF Has
  <2>2. HasClaim'
    BY <1>1, <2>1 DEF IInv, HasClaim
  <2>3. NotEditor'
    BY <2>1 DEF IInv, NotEditor
  <2> QED  BY <2>2, <2>3
<1>9. Exclusive'
  <2> SUFFICES ASSUME ~misreleased, NEW o \in Owners, NEW p \in Owners, o # p,
                      {o, p} \in Overlap, ph'[o] = "merging", ph'[p] = "merging"
               PROVE  FALSE
    BY <1>1 DEF Exclusive, Merging
  <2>1. ph[o] \in {"waiting", "merging"} /\ ph[p] \in {"waiting", "merging"}
    BY <1>2
  <2>2. CASE ph[o] = "merging" /\ ph[p] = "merging"
    BY <2>2 DEF IInv, Exclusive, Merging
  <2>3. CASE ph[o] # "merging"
    BY <1>2, <2>1, <2>3, NoneBeside
  <2>4. CASE ph[p] # "merging"
    BY <1>2, <2>1, <2>4, NoneBeside
  <2> QED  BY <2>2, <2>3, <2>4
<1> QED  BY <1>4, <1>5, <1>6, <1>7, <1>8, <1>9 DEF IInv

LEMMA NextIInv == IInv /\ [Next]_vars => IInv'
<1> SUFFICES ASSUME IInv, [Next]_vars PROVE IInv'
  OBVIOUS
<1>1. ASSUME NEW o \in Owners, Agent(o) PROVE IInv'
  <2>1. CASE Register(o)
    <3>1. "claiming" = PhaseOf("register")
      BY DEF PhaseOf
    <3> QED  BY <2>1, <3>1, AskStep DEF Register
  <2>2. CASE Wait(o)
    <3>1. "waiting" = PhaseOf("wait") /\ {"claimed"} \subseteq Has
      BY DEF PhaseOf, Has
    <3> QED  BY <2>2, <3>1, AskStep DEF Wait
  <2>3. CASE Release(o)
    <3>1. "releasing" = PhaseOf("release")
      BY DEF PhaseOf
    <3> QED  BY <2>3, <3>1, AskStep DEF Release
  <2> QED  BY <1>1, <2>1, <2>2, <2>3 DEF Agent
<1>2. ASSUME NEW o \in Owners, GiveUp(o) PROVE IInv'
  BY <1>2, GiveUpStep
<1>3. ASSUME NEW o \in Owners, CloseTab(o) PROVE IInv'
  BY <1>3, CloseTabStep
<1>4. ASSUME NEW p \in Projects, DropProject(p \cap open) PROVE IInv'
  BY <1>4, DropProjectStep
<1>5. CASE Serve
  BY <1>5, ServeRegisterStep, ServeReleaseStep, ServeWaitStep DEF Serve
<1>6. CASE Recv \/ Wake \/ Settle
  BY <1>6, RecvStep, SettleStep
<1>7. CASE Elapse
  BY <1>7, ElapseStep
<1>8. CASE UNCHANGED vars
  BY <1>8 DEF vars, loopVars, agentVars, IInv, TypeOK, Ids, IdBound, UniqueIds, OwnersOpen,
              Queues, BatchFirst, Waiters, Heard, HasClaim, NotEditor, Exclusive, Merging
<1> QED  BY <1>1, <1>2, <1>3, <1>4, <1>5, <1>6, <1>7, <1>8 DEF Next, Loop

LEMMA Invariance == Spec => []IInv
  BY InitIInv, NextIInv, PTL DEF Spec

-----------------------------------------------------------------------------
(* The theorems. *)

(***************************************************************************)
(* The registry, the parked waits, the queues and the agents' workflow     *)
(* stay what their types say.                                              *)
(***************************************************************************)
THEOREM TypesHold == Spec => []TypeOK
<1>1. IInv => TypeOK
  BY DEF IInv
<1> QED  BY <1>1, Invariance, PTL

(***************************************************************************)
(* No two claims share a claim_id: RegisterScope's is above all there are. *)
(***************************************************************************)
THEOREM IdsUnique == Spec => []UniqueIds
<1>1. IInv => UniqueIds
  BY DEF IInv, Ids
<1> QED  BY <1>1, Invariance, PTL

(***************************************************************************)
(* The registry never holds a claim of a tab that is not open, although    *)
(* requests are served after the tabs that sent them close.                *)
(***************************************************************************)
THEOREM NoStaleOwner == Spec => []OwnersOpen
<1>1. IInv => OwnersOpen
  BY DEF IInv
<1> QED  BY <1>1, Invariance, PTL

(***************************************************************************)
(* While no release has dropped a claim that was not its caller's, agents  *)
(* that register, wait and release never merge overlapping paths at once.  *)
(***************************************************************************)
THEOREM MergesExclude == Spec => []Exclusive
<1>1. IInv => Exclusive
  BY DEF IInv
<1> QED  BY <1>1, Invariance, PTL

(***************************************************************************)
(* Whatever wakes the loop, it blocks again only when every wait that is   *)
(* parked is in conflict and has a deadline armed: the claims change only  *)
(* between a wake and the settling that follows.                           *)
(***************************************************************************)
THEOREM NoLostWakeup == Spec => []ParkedAreBlocked
<1>1. Init => ParkedAreBlocked
  BY DEF Init, ParkedAreBlocked
<1>2. IInv /\ ParkedAreBlocked /\ [Next]_vars => ParkedAreBlocked'
  <2> SUFFICES ASSUME IInv, ParkedAreBlocked, [Next]_vars, loop' = "recv"
               PROVE  (\A w \in waiters' : ~Clear(w)') /\ (waiters' # {} => armed')
    BY DEF ParkedAreBlocked
  <2>1. CASE Settle
    <3>1. waiters' = Still /\ armed' = (Still # {}) /\ registry' = registry
      BY <2>1 DEF Settle, Armed
    <3>2. \A w \in Still : ~Clear(w)
      BY DEF Still
    <3> QED  BY <3>1, <3>2 DEF Clear, Conflicts, Blocks
  <2>2. CASE Elapse
    <3>1. PICK w \in waiters : waiters' = (waiters \ {w}) \cup {[w EXCEPT !.late = TRUE]}
      BY <2>2 DEF Elapse
    <3>2. UNCHANGED <<registry, armed, loop>>
      BY <2>2 DEF Elapse, loopVars
    <3>3. [w EXCEPT !.late = TRUE].owner = w.owner
      <4>1. w \in [owner : Owners, call : Nat \ {0}, late : BOOLEAN]
        BY DEF IInv, TypeOK
      <4> QED  BY <4>1
    <3>4. \A v \in waiters : ~Clear(v)
      BY <3>2 DEF ParkedAreBlocked
    <3>5. waiters # {} => armed
      BY <3>2 DEF ParkedAreBlocked
    <3>6. \A v \in waiters' : \E u \in waiters : u.owner = v.owner
      BY <3>1, <3>3
    <3>7. \A v \in waiters' : ~Clear(v)'
      BY <3>2, <3>4, <3>6 DEF Clear, Conflicts, Blocks
    <3> QED  BY <3>1, <3>2, <3>5, <3>7
  <2>3. CASE UNCHANGED <<registry, waiters, armed, loop>>
    BY <2>3 DEF ParkedAreBlocked, Clear, Conflicts, Blocks
  <2>4. ASSUME NEW o \in Owners, Agent(o) \/ GiveUp(o)
        PROVE  UNCHANGED <<registry, waiters, armed, loop>>
    BY <2>4 DEF Agent, Register, Wait, Release, Ask, GiveUp, loopVars
  <2>5. ASSUME NEW o \in Owners, CloseTab(o) PROVE FALSE
    BY <2>5 DEF CloseTab, Buffer
  <2>6. ASSUME NEW p \in Projects, DropProject(p \cap open) PROVE FALSE
    BY <2>6 DEF DropProject, Buffer
  <2>7. ~Recv /\ ~Wake
    BY DEF Recv, Wake, Buffer
  <2>8. ~Serve
    BY DEF Serve, ServeRegister, ServeRelease, ServeWait, NextIs
  <2>9. CASE UNCHANGED vars
    BY <2>3, <2>9 DEF vars, loopVars
  <2> QED  BY <2>1, <2>2, <2>3, <2>4, <2>5, <2>6, <2>7, <2>8, <2>9 DEF Next, Loop
<1> QED  BY <1>1, <1>2, Invariance, PTL DEF Spec
=============================================================================
