----------------------------- MODULE ArchiveProofs -----------------------------
(***************************************************************************)
(* The table of mounts, for any archives, columns and cap: reads are       *)
(* served, what is written stays mounted, and a staging tree of one mount  *)
(* is neither found nor deleted under a later one.                         *)
(*                                                                         *)
(* IInv adds what these need: an archive being read is not mounted         *)
(* (ReadsUnmounted), edits are of mounted archives (SavedMounted), and     *)
(* a tree is handed over where it is, or is an earlier mount's, only if it *)
(* couldn't be moved or its file went (StuckOrLeft), mounted or not.       *)
(*                                                                         *)
(* And the journal of one mount, for any index, names, depth and number of *)
(* changes: a write plans what the user made (PlanHolds), a row stands for *)
(* what is acted on there (RowsHold), and what can be walked to is what is *)
(* planned (ListingHolds).                                                 *)
(*                                                                         *)
(* JournalInv says what the members there are have to do with the tree the *)
(* user made: it is their image (MadeIsLive), each is in another one's     *)
(* place or at the top (Rooted), and undoing the renames gives each its    *)
(* key back (AllClear).  The operators of the model are functions defined  *)
(* by recursion over the journal; that they exist and are one, and what    *)
(* they give for a journal longer by a change, is proved by the least      *)
(* element of a set of naturals (Least).                                   *)
(***************************************************************************)
EXTENDS ArchiveTable, ArchiveJournal, WellFoundedInduction, SequenceTheorems, TLAPS

TypeInv ==
    /\ live \subseteq Archives /\ older \subseteq Archives \X Archives
    /\ tree \in [Archives -> {"none", "current", "earlier"}]
    /\ copies \subseteq Nested
    /\ reads \subseteq Archives /\ joined \in [Archives -> SUBSET Columns]
    /\ worker \in [Archives -> {"idle", "running", "mounted", "ended"}]

ReadsUnmounted == \A a \in Archives : worker[a] # "idle" => a \notin live

SavedMounted == saved \subseteq live

StuckOrLeft ==
    /\ cleaning \subseteq unmovable
    /\ \A a \in Archives : tree[a] = "earlier" => a \in left \cup unmovable

IInv == TypeInv /\ JoinersServed /\ ReadsUnmounted /\ WrittenStays /\ SavedMounted /\ StuckOrLeft

-----------------------------------------------------------------------------
LEMMA Inits == Init => IInv
<1> SUFFICES ASSUME Init PROVE IInv
  OBVIOUS
<1>1. TypeInv
  BY DEF Init, TypeInv
<1>2. JoinersServed /\ ReadsUnmounted
  BY DEF Init, JoinersServed, ReadsUnmounted
<1>3. WrittenStays /\ SavedMounted /\ StuckOrLeft
  BY DEF Init, WrittenStays, SavedMounted, StuckOrLeft
<1>4. QED
  BY <1>1, <1>2, <1>3 DEF IInv

-----------------------------------------------------------------------------
\* What the helpers leave of each part.

\* Moving trees aside leaves where they are only those that can't be moved.
LEMMA CleanKeeps ==
    ASSUME TypeInv, StuckOrLeft, NEW S \in SUBSET Archives, CleanEffects(S)
    PROVE  /\ StuckOrLeft'
           /\ tree' \in [Archives -> {"none", "current", "earlier"}]
           /\ copies' \subseteq Nested
<1> DEFINE there == {a \in S : tree[a] # "none"}
           moved == there \ unmovable
<1>1. /\ tree' = [a \in Archives |-> CASE a \in moved -> "none"
                                       [] a \in there \ moved -> "earlier"
                                       [] OTHER -> tree[a]]
      /\ copies' = {n \in copies : OuterOf[n] \notin moved}
      /\ cleaning' = cleaning \cup (there \ moved)
      /\ unmovable' = unmovable /\ left' = left
  BY DEF CleanEffects, SetAside
<1>2. tree \in [Archives -> {"none", "current", "earlier"}] /\ copies \subseteq Nested
  BY DEF TypeInv
<1>3. there \ moved \subseteq unmovable
  OBVIOUS
<1>4. \A a \in Archives : tree'[a] = IF a \in moved THEN "none"
                                     ELSE IF a \in there \ moved THEN "earlier" ELSE tree[a]
  <2> HIDE DEF there, moved
  <2>1. QED
    BY <1>1
<1> HIDE DEF there, moved
<1>5. tree' \in [Archives -> {"none", "current", "earlier"}]
  BY <1>1, <1>2
<1>6. StuckOrLeft'
  BY <1>1, <1>3, <1>4 DEF StuckOrLeft
<1>7. QED
  BY <1>1, <1>2, <1>5, <1>6

\* A finished read is over for everyone.
LEMMA FinishKeeps ==
    ASSUME TypeInv, JoinersServed, NEW a \in Archives, FinishRead(a)
    PROVE  /\ JoinersServed'
           /\ reads' \subseteq Archives /\ joined' \in [Archives -> SUBSET Columns]
           /\ worker' \in [Archives -> {"idle", "running", "mounted", "ended"}]
           /\ \A b \in Archives : worker'[b] = IF b = a THEN "idle" ELSE worker[b]
BY DEF TypeInv, JoinersServed, FinishRead

\* A read that starts has a thread.
LEMMA StartKeeps ==
    ASSUME TypeInv, JoinersServed, NEW a \in Archives, NEW c \in Columns, StartWorker(a, c)
    PROVE  /\ JoinersServed'
           /\ reads' \subseteq Archives /\ joined' \in [Archives -> SUBSET Columns]
           /\ worker' \in [Archives -> {"idle", "running", "mounted", "ended"}]
           /\ \A b \in Archives : worker'[b] = IF b = a THEN "running" ELSE worker[b]
BY DEF TypeInv, JoinersServed, StartWorker

\* Touching and dropping keep the order one of archives.
LEMMA OrderTyped ==
    ASSUME NEW order, NEW S \in SUBSET Archives, NEW a \in Archives
    PROVE  /\ Among(order, S) \subseteq Archives \X Archives
           /\ Touched(order, S, a) \subseteq Archives \X Archives
<1>1. \A T \in SUBSET Archives : Among(order, T) \subseteq Archives \X Archives
  BY DEF Among
<1>2. (S \ {a}) \X {a} \subseteq Archives \X Archives
  OBVIOUS
<1>3. S \ {a} \in SUBSET Archives
  OBVIOUS
<1>4. QED
  BY <1>1, <1>2, <1>3 DEF Touched

\* A request leaves the mounted archives as they are, and reads only one
\* that isn't among them.
LEMMA RequestKeeps ==
    ASSUME TypeInv, JoinersServed, ReadsUnmounted,
           NEW a \in Archives, NEW c \in Columns, Request(a, c)
    PROVE  /\ live' = live /\ older' \subseteq Archives \X Archives
           /\ JoinersServed' /\ ReadsUnmounted'
           /\ reads' \subseteq Archives /\ joined' \in [Archives -> SUBSET Columns]
           /\ worker' \in [Archives -> {"idle", "running", "mounted", "ended"}]
<1>1. CASE a \in live
  <2>1. EnterMount(a, c)
    BY <1>1 DEF Request
  <2>2. live \in SUBSET Archives
    BY DEF TypeInv
  <2>3. older' \subseteq Archives \X Archives
    BY <2>1, <2>2, OrderTyped DEF EnterMount
  <2>4. live' = live /\ reads' = reads /\ joined' = joined /\ worker' = worker
    BY <2>1 DEF EnterMount, readVars
  <2>5. QED
    BY <2>3, <2>4 DEF TypeInv, JoinersServed, ReadsUnmounted
<1>2. CASE a \notin live /\ a \in reads
  <2>1. JoinRead(a, c)
    BY <1>2 DEF Request
  <2>2. /\ joined' = [joined EXCEPT ![a] = joined[a] \cup {c}]
        /\ live' = live /\ older' = older /\ reads' = reads /\ worker' = worker
    BY <2>1 DEF JoinRead, tableVars
  <2>3. joined' \in [Archives -> SUBSET Columns]
    BY <2>2 DEF TypeInv
  <2>4. JoinersServed'
    BY <1>2, <2>2 DEF JoinersServed, TypeInv
  <2>5. QED
    BY <2>2, <2>3, <2>4 DEF TypeInv, ReadsUnmounted
<1>3. CASE a \notin live /\ a \notin reads
  <2>1. StartRead(a, c)
    BY <1>3 DEF Request
  <2>2. StartWorker(a, c) /\ live' = live /\ older' = older
    BY <2>1 DEF StartRead, tableVars
  <2>3. ReadsUnmounted'
    BY <1>3, <2>2, StartKeeps DEF ReadsUnmounted
  <2>4. QED
    BY <2>2, <2>3, StartKeeps DEF TypeInv
<1>4. QED
  BY <1>1, <1>2, <1>3

-----------------------------------------------------------------------------
\* Reads: requests, workers, and their outcomes.

LEMMA RequestInv ==
    ASSUME TableAssumption, IInv, NEW c \in Columns
    PROVE  /\ \A a \in TopLevel : RequestMount(a, c) => IInv'
           /\ \A n \in Nested : RequestNested(n, c) => IInv'
<1> USE DEF IInv
<1>1. ASSUME NEW a \in TopLevel, RequestMount(a, c)
      PROVE  IInv'
  <2>1. /\ Request(a, c) /\ UNCHANGED <<dirty, saved, writing, writes>>
        /\ UNCHANGED <<tree, copies, cleaning, unmovable, left>>
    BY <1>1 DEF RequestMount, treeVars
  <2>2. a \in Archives
    BY DEF Archives
  <2>3. /\ live' = live /\ older' \subseteq Archives \X Archives
        /\ JoinersServed' /\ ReadsUnmounted'
        /\ reads' \subseteq Archives /\ joined' \in [Archives -> SUBSET Columns]
        /\ worker' \in [Archives -> {"idle", "running", "mounted", "ended"}]
    BY <2>1, <2>2, RequestKeeps
  <2>4. TypeInv'
    BY <2>1, <2>3 DEF TypeInv
  <2>5. WrittenStays' /\ SavedMounted' /\ StuckOrLeft'
    BY <2>1, <2>3 DEF WrittenStays, SavedMounted, StuckOrLeft
  <2>6. QED
    BY <2>3, <2>4, <2>5
<1>2. ASSUME NEW n \in Nested, RequestNested(n, c)
      PROVE  IInv'
  <2> DEFINE outer == OuterOf[n]
  <2>1. /\ copies' = copies \cup {n}
        /\ tree' = [tree EXCEPT ![outer] = IF tree[outer] = "none" THEN "current" ELSE tree[outer]]
        /\ dirty' = dirty /\ saved' = saved /\ writing' = writing
        /\ cleaning' = cleaning /\ unmovable' = unmovable /\ left' = left
    BY <1>2 DEF RequestNested
  <2>2. UNCHANGED <<tableVars, col, readVars>> \/ Request(n, c)
    BY <1>2 DEF RequestNested
  <2>3. n \in Archives /\ outer \in Archives
    BY DEF Archives, TableAssumption
  <2>4. /\ live' = live /\ older' \subseteq Archives \X Archives
        /\ JoinersServed' /\ ReadsUnmounted'
        /\ reads' \subseteq Archives /\ joined' \in [Archives -> SUBSET Columns]
        /\ worker' \in [Archives -> {"idle", "running", "mounted", "ended"}]
    <3>1. CASE UNCHANGED <<tableVars, col, readVars>>
      BY <3>1 DEF tableVars, readVars, TypeInv, JoinersServed, ReadsUnmounted
    <3>2. CASE Request(n, c)
      BY <3>2, <2>3, RequestKeeps
    <3>3. QED
      BY <2>2, <3>1, <3>2
  <2> HIDE DEF outer
  <2>5. /\ tree' \in [Archives -> {"none", "current", "earlier"}]
        /\ \A a \in Archives : tree'[a] = "earlier" => tree[a] = "earlier"
    BY <2>1, <2>3 DEF TypeInv
  <2>6. TypeInv'
    BY <2>1, <2>4, <2>5 DEF TypeInv
  <2>7. WrittenStays' /\ SavedMounted'
    BY <2>1, <2>4 DEF WrittenStays, SavedMounted
  <2>8. StuckOrLeft'
    BY <2>1, <2>5 DEF StuckOrLeft
  <2>9. QED
    BY <2>4, <2>6, <2>7, <2>8
<1>3. QED
  BY <1>1, <1>2

LEMMA ReadEndsInv ==
    ASSUME IInv, NEW a \in Archives, ReadEnds(a)
    PROVE  IInv'
<1> USE DEF IInv
<1>1. PICK outcome \in {"mounted", "ended"}, fills \in BOOLEAN :
          /\ worker' = [worker EXCEPT ![a] = outcome]
          /\ tree' = [tree EXCEPT ![a] = IF fills THEN "current" ELSE tree[a]]
  BY DEF ReadEnds
<1>2. /\ worker[a] # "idle"
      /\ UNCHANGED <<live, older, dirty, saved, copies, cleaning, unmovable, left>>
      /\ UNCHANGED <<reads, joined, writing>>
  BY DEF ReadEnds, tableVars
<1>3. /\ worker' \in [Archives -> {"idle", "running", "mounted", "ended"}]
      /\ \A b \in Archives : worker'[b] # "idle" <=> worker[b] # "idle"
  BY <1>1, <1>2 DEF TypeInv
<1>4. /\ tree' \in [Archives -> {"none", "current", "earlier"}]
      /\ \A b \in Archives : tree'[b] = "earlier" => tree[b] = "earlier"
  BY <1>1 DEF TypeInv
<1>5. TypeInv'
  BY <1>2, <1>3, <1>4 DEF TypeInv
<1>6. JoinersServed' /\ ReadsUnmounted'
  BY <1>2, <1>3 DEF JoinersServed, ReadsUnmounted
<1>7. WrittenStays' /\ SavedMounted'
  BY <1>2 DEF WrittenStays, SavedMounted
<1>8. StuckOrLeft'
  BY <1>2, <1>4 DEF StuckOrLeft
<1>9. QED
  BY <1>5, <1>6, <1>7, <1>8

\* Whatever a landing evicts is one nobody protects.
LEMMA EvictedSpares ==
    ASSUME NEW S, NEW order, NEW protected
    PROVE  Evicted(S, order, protected) \subseteq S \ (protected \cup dirty)
BY DEF Evicted, Victims

LEMMA LandMountedInv ==
    ASSUME IInv, NEW a \in Archives, LandMounted(a)
    PROVE  IInv'
<1> USE DEF IInv
<1> DEFINE table == live \cup {a}
           order == Touched(older, table, a)
           out == IF a \in live THEN {} ELSE Evicted(table, order, Protected)
<1>1. /\ worker[a] = "mounted" /\ FinishRead(a)
      /\ live' = table \ out /\ older' = Among(order, live')
      /\ dirty' = dirty \ (out \cup {a}) /\ saved' = saved \ (out \cup {a})
      /\ CleanEffects(out)
      /\ writing' = writing
  BY DEF LandMounted
<1>2. a \notin live
  BY <1>1 DEF ReadsUnmounted
<1>3. out \subseteq table \ (Protected \cup dirty)
  BY <1>2, EvictedSpares
<1>4. out \in SUBSET Archives /\ live' \in SUBSET Archives
  BY <1>1, <1>3 DEF TypeInv
<1> HIDE DEF out, order
<1>5. older' \subseteq Archives \X Archives
  BY <1>1, <1>4, OrderTyped
<1>6. StuckOrLeft' /\ tree' \in [Archives -> {"none", "current", "earlier"}] /\ copies' \subseteq Nested
  BY <1>1, <1>4, CleanKeeps
<1>7. /\ JoinersServed'
      /\ reads' \subseteq Archives /\ joined' \in [Archives -> SUBSET Columns]
      /\ worker' \in [Archives -> {"idle", "running", "mounted", "ended"}]
      /\ \A b \in Archives : worker'[b] = IF b = a THEN "idle" ELSE worker[b]
  BY <1>1, FinishKeeps
<1>8. TypeInv'
  BY <1>4, <1>5, <1>6, <1>7 DEF TypeInv
<1>9. ReadsUnmounted'
  BY <1>1, <1>7 DEF ReadsUnmounted
<1>10. WrittenStays' /\ SavedMounted'
  BY <1>1, <1>2, <1>3 DEF WrittenStays, SavedMounted
<1>11. QED
  BY <1>6, <1>7, <1>8, <1>9, <1>10

LEMMA LandEndedInv ==
    ASSUME IInv, NEW a \in Archives, LandEnded(a)
    PROVE  IInv'
<1> USE DEF IInv
<1>1. /\ FinishRead(a)
      /\ UNCHANGED <<live, older, dirty, saved, writing>>
      /\ UNCHANGED <<tree, copies, cleaning, unmovable, left>>
  BY DEF LandEnded, tableVars, treeVars
<1>2. /\ JoinersServed'
      /\ reads' \subseteq Archives /\ joined' \in [Archives -> SUBSET Columns]
      /\ worker' \in [Archives -> {"idle", "running", "mounted", "ended"}]
      /\ \A b \in Archives : worker'[b] = IF b = a THEN "idle" ELSE worker[b]
  BY <1>1, FinishKeeps
<1>3. TypeInv'
  BY <1>1, <1>2 DEF TypeInv
<1>4. ReadsUnmounted'
  BY <1>1, <1>2 DEF ReadsUnmounted
<1>5. WrittenStays' /\ SavedMounted' /\ StuckOrLeft'
  BY <1>1 DEF WrittenStays, SavedMounted, StuckOrLeft
<1>6. QED
  BY <1>2, <1>3, <1>4, <1>5

LEMMA LandWrittenInv ==
    ASSUME TableAssumption, IInv, NEW a \in Archives, LandWritten(a)
    PROVE  IInv'
<1> USE DEF IInv
<1> DEFINE outer == IF a \in Nested THEN {OuterOf[a]} \cap live ELSE {}
<1>1. /\ writing' = writing \ {a} /\ dirty' = dirty \ {a} /\ Drop({a})
      /\ saved' = (saved \ {a}) \cup outer
      /\ tree' = [tree EXCEPT ![a] = "none"] /\ copies' = copies \ InnerOf(a)
      /\ UNCHANGED <<cleaning, unmovable, left>>
  BY DEF LandWritten
<1>2. PICK c \in Columns : StartWorker(a, c)
  BY DEF LandWritten
<1>3. /\ JoinersServed'
      /\ reads' \subseteq Archives /\ joined' \in [Archives -> SUBSET Columns]
      /\ worker' \in [Archives -> {"idle", "running", "mounted", "ended"}]
      /\ \A b \in Archives : worker'[b] = IF b = a THEN "running" ELSE worker[b]
  BY <1>2, StartKeeps
<1>4. live' = live \ {a} /\ older' = Among(older, live')
  BY <1>1 DEF Drop
<1>5. live' \in SUBSET Archives /\ older' \subseteq Archives \X Archives
  BY <1>4, OrderTyped DEF TypeInv
<1>6. outer \subseteq live \ {a}
  BY DEF TableAssumption
<1> HIDE DEF outer
<1>7. /\ tree' \in [Archives -> {"none", "current", "earlier"}]
      /\ \A b \in Archives : tree'[b] = "earlier" => tree[b] = "earlier"
  BY <1>1 DEF TypeInv
<1>8. TypeInv'
  BY <1>1, <1>3, <1>5, <1>7 DEF TypeInv
<1>9. ReadsUnmounted'
  BY <1>3, <1>4 DEF ReadsUnmounted
<1>10. WrittenStays' /\ SavedMounted'
  BY <1>1, <1>4, <1>6 DEF WrittenStays, SavedMounted
<1>11. StuckOrLeft'
  BY <1>1, <1>7 DEF StuckOrLeft
<1>12. QED
  BY <1>3, <1>8, <1>9, <1>10, <1>11

LEMMA LandWriteFailedInv ==
    ASSUME IInv, NEW a \in Archives, LandWriteFailed(a)
    PROVE  IInv'
BY DEF IInv, LandWriteFailed, tableVars, treeVars, readVars, TypeInv, JoinersServed,
       ReadsUnmounted, WrittenStays, SavedMounted, StuckOrLeft

-----------------------------------------------------------------------------
\* What the user and the clean-ups do.

LEMMA TreeInv ==
    ASSUME IInv, NEW a \in Archives, CleanRuns(a) \/ OpenMember(a)
    PROVE  IInv'
<1> USE DEF IInv
<1>1. \/ tree' = [tree EXCEPT ![a] = "none"]
      \/ tree' = [tree EXCEPT ![a] = "current"]
  BY DEF CleanRuns, OpenMember
<1>2. /\ cleaning' \subseteq cleaning /\ copies' \subseteq copies
      /\ UNCHANGED <<live, older, dirty, saved, unmovable, left, reads, joined, worker, writing>>
  BY DEF CleanRuns, OpenMember, tableVars, readVars
<1>3. /\ tree' \in [Archives -> {"none", "current", "earlier"}]
      /\ \A b \in Archives : tree'[b] = "earlier" => tree[b] = "earlier"
  BY <1>1 DEF TypeInv
<1>4. TypeInv'
  BY <1>2, <1>3 DEF TypeInv
<1>5. StuckOrLeft'
  BY <1>2, <1>3 DEF StuckOrLeft
<1>6. JoinersServed' /\ ReadsUnmounted' /\ WrittenStays' /\ SavedMounted'
  BY <1>2 DEF JoinersServed, ReadsUnmounted, WrittenStays, SavedMounted
<1>7. QED
  BY <1>4, <1>5, <1>6

\* Saving, recording, discarding and writing change what is known of the edits.
LEMMA EditInv ==
    ASSUME IInv, NEW a \in Archives,
           SaveCopy(a) \/ RecordChange(a) \/ Discard(a) \/ StartWrite(a)
    PROVE  IInv'
<1> USE DEF IInv
<1>1. /\ UNCHANGED <<live, older, tree, copies, cleaning, unmovable, left>>
      /\ UNCHANGED <<reads, joined, worker>>
  BY DEF SaveCopy, RecordChange, Discard, StartWrite, tableVars, treeVars, readVars
<1>2. TypeInv' /\ JoinersServed' /\ ReadsUnmounted' /\ StuckOrLeft'
  BY <1>1 DEF TypeInv, JoinersServed, ReadsUnmounted, StuckOrLeft
<1>3. WrittenStays' /\ SavedMounted'
  <2>1. CASE SaveCopy(a)
    BY <2>1, <1>1 DEF SaveCopy, WrittenStays, SavedMounted
  <2>2. CASE RecordChange(a)
    BY <2>2, <1>1 DEF RecordChange, WrittenStays, SavedMounted
  <2>3. CASE Discard(a)
    BY <2>3, <1>1 DEF Discard, Scanned, WrittenStays, SavedMounted
  <2>4. CASE StartWrite(a)
    BY <2>4, <1>1 DEF StartWrite, Scanned, HasChanges, WrittenStays, SavedMounted
  <2>5. QED
    BY <2>1, <2>2, <2>3, <2>4
<1>4. QED
  BY <1>2, <1>3

LEMMA UnmountInv ==
    ASSUME IInv, NEW a \in Archives, NEW c \in Columns, Unmount(a, c)
    PROVE  IInv'
<1> USE DEF IInv
<1> DEFINE out == IF a \in Nested THEN OuterOf[a] ELSE Outside
           steps == out = Outside \/ out \in live
           others == {d \in Columns \ {c} : a \in Standing(d)}
           goes == steps /\ others = {} /\ ~MountedInside(a)
           gone == IF goes THEN {a} ELSE {}
<1>1. /\ a \notin writing
      /\ Drop(gone)
      /\ dirty' = (IF goes THEN Scanned \ {a} ELSE Scanned) /\ saved' = {}
      /\ CleanEffects(gone)
      /\ UNCHANGED <<reads, joined, worker, writing>>
  BY DEF Unmount, readVars
<1> HIDE DEF goes
<1>2. dirty' = Scanned \ gone
  BY <1>1
<1>3. gone \in SUBSET Archives /\ gone \subseteq {a}
  OBVIOUS
<1> HIDE DEF gone
<1>4. live' = live \ gone /\ older' = Among(older, live')
  BY <1>1 DEF Drop
<1>5. live' \in SUBSET Archives /\ older' \subseteq Archives \X Archives
  BY <1>4, OrderTyped DEF TypeInv
<1>6. StuckOrLeft' /\ tree' \in [Archives -> {"none", "current", "earlier"}] /\ copies' \subseteq Nested
  BY <1>1, <1>3, CleanKeeps
<1>7. TypeInv'
  BY <1>1, <1>5, <1>6 DEF TypeInv
<1>8. JoinersServed' /\ ReadsUnmounted'
  BY <1>1, <1>4 DEF JoinersServed, ReadsUnmounted
<1>9. WrittenStays' /\ SavedMounted'
  BY <1>1, <1>2, <1>3, <1>4 DEF Scanned, WrittenStays, SavedMounted
<1>10. QED
  BY <1>6, <1>7, <1>8, <1>9

LEMMA UnmountFirstInv ==
    ASSUME IInv, NEW a \in Archives, UnmountFirst(a)
    PROVE  IInv'
<1> USE DEF IInv
<1>1. /\ ~HasChanges(a) /\ Drop({a})
      /\ tree' = [tree EXCEPT ![a] = IF tree[a] = "none" THEN tree[a] ELSE "earlier"]
      /\ left' = IF tree[a] = "none" THEN left ELSE left \cup {a}
      /\ UNCHANGED <<dirty, saved, copies, cleaning, unmovable, reads, joined, worker, writing>>
  BY DEF UnmountFirst, readVars
<1>2. live' = live \ {a} /\ older' = Among(older, live')
  BY <1>1 DEF Drop
<1>3. live' \in SUBSET Archives /\ older' \subseteq Archives \X Archives
  BY <1>2, OrderTyped DEF TypeInv
<1>4. /\ tree' \in [Archives -> {"none", "current", "earlier"}]
      /\ \A b \in Archives : tree'[b] = "earlier" => tree[b] = "earlier" \/ b \in left'
      /\ left \subseteq left'
  BY <1>1 DEF TypeInv
<1>5. TypeInv'
  BY <1>1, <1>3, <1>4 DEF TypeInv
<1>6. StuckOrLeft'
  BY <1>1, <1>4 DEF StuckOrLeft
<1>7. JoinersServed' /\ ReadsUnmounted'
  BY <1>1, <1>2 DEF JoinersServed, ReadsUnmounted
<1>8. WrittenStays' /\ SavedMounted'
  BY <1>1, <1>2 DEF HasChanges, WrittenStays, SavedMounted
<1>9. QED
  BY <1>5, <1>6, <1>7, <1>8

\* Climbing out, or nothing: only a column moves.
LEMMA StillInv ==
    ASSUME IInv, (\E c \in Columns : ClimbOut(c)) \/ UNCHANGED vars
    PROVE  IInv'
<1>1. /\ UNCHANGED <<live, older, dirty, saved, writing>>
      /\ UNCHANGED <<tree, copies, cleaning, unmovable, left>>
      /\ UNCHANGED <<reads, joined, worker>>
  BY DEF ClimbOut, vars, tableVars, treeVars, readVars
<1>2. QED
  BY <1>1 DEF IInv, TypeInv, JoinersServed, ReadsUnmounted, WrittenStays, SavedMounted, StuckOrLeft

LEMMA Invariance == TableAssumption /\ IInv /\ [Next]_vars => IInv'
<1> SUFFICES ASSUME TableAssumption, IInv, [Next]_vars PROVE IInv'
  OBVIOUS
<1>1. CASE \E c \in Columns, a \in TopLevel : RequestMount(a, c)
  BY <1>1, RequestInv
<1>2. CASE \E c \in Columns, n \in Nested : RequestNested(n, c)
  BY <1>2, RequestInv
<1>3. CASE \E c \in Columns, a \in Archives : Unmount(a, c)
  BY <1>3, UnmountInv
<1>4. CASE (\E c \in Columns : ClimbOut(c)) \/ UNCHANGED vars
  BY <1>4, StillInv
<1>5. ASSUME NEW a \in Archives
      PROVE  /\ ReadEnds(a) \/ LandMounted(a) \/ LandEnded(a) => IInv'
             /\ LandWritten(a) \/ LandWriteFailed(a) => IInv'
             /\ CleanRuns(a) \/ OpenMember(a) => IInv'
             /\ SaveCopy(a) \/ RecordChange(a) \/ Discard(a) \/ StartWrite(a) => IInv'
             /\ UnmountFirst(a) => IInv'
  <2>1. ReadEnds(a) \/ LandMounted(a) \/ LandEnded(a) => IInv'
    BY ReadEndsInv, LandMountedInv, LandEndedInv
  <2>2. LandWritten(a) \/ LandWriteFailed(a) => IInv'
    BY LandWrittenInv, LandWriteFailedInv
  <2>3. CleanRuns(a) \/ OpenMember(a) => IInv'
    BY TreeInv
  <2>4. SaveCopy(a) \/ RecordChange(a) \/ Discard(a) \/ StartWrite(a) => IInv'
    BY EditInv
  <2>5. UnmountFirst(a) => IInv'
    BY UnmountFirstInv
  <2>6. QED
    BY <2>1, <2>2, <2>3, <2>4, <2>5
<1>6. QED
  BY <1>1, <1>2, <1>3, <1>4, <1>5 DEF Next

LEMMA Inductive == Spec => []IInv
<1>1. Init => IInv
  BY Inits
<1>2. IInv /\ [Next]_vars => IInv'
  BY Invariance, TableAssumption
<1>3. QED
  BY <1>1, <1>2, PTL DEF Spec

-----------------------------------------------------------------------------
(***************************************************************************)
(* No column waits for a read that is over, and no archive is taken to be  *)
(* read for ever, however reads end, are joined, or start again after a    *)
(* write.                                                                  *)
(***************************************************************************)
THEOREM JoinersHold == Spec => []JoinersServed
<1>1. IInv => JoinersServed
  BY DEF IInv
<1>2. QED
  BY <1>1, Inductive, PTL

(***************************************************************************)
(* An archive being written is mounted, with its changes in the journal,   *)
(* until the write lands: neither an eviction, an unmount nor a discard    *)
(* takes its staged copies from under it.                                  *)
(***************************************************************************)
THEOREM WrittenHolds == Spec => []WrittenStays
<1>1. IInv => WrittenStays
  BY DEF IInv
<1>2. QED
  BY <1>1, Inductive, PTL

(***************************************************************************)
(* A mount finds no copies of an earlier mount at its staging path, unless *)
(* that one's file went from under it or its tree couldn't be moved.       *)
(***************************************************************************)
THEOREM FreshHolds == Spec => []FreshUnlessLeft
<1>1. IInv => FreshUnlessLeft
  BY DEF IInv, TypeInv, StuckOrLeft, FreshUnlessLeft
<1>2. QED
  BY <1>1, Inductive, PTL

(***************************************************************************)
(* A late clean-up deletes the tree of a mounted archive only where the    *)
(* earlier tree couldn't be moved aside.                                   *)
(***************************************************************************)
THEOREM CleanHolds == Spec => CleanSpares
<1>1. IInv /\ [Next]_vars => [\A a \in live : CleanRuns(a) => a \in unmovable]_vars
  <2> SUFFICES ASSUME IInv, NEW a \in live, CleanRuns(a) PROVE a \in unmovable
    OBVIOUS
  <2>1. QED
    BY DEF IInv, StuckOrLeft, CleanRuns
<1>2. QED
  BY <1>1, Inductive, PTL DEF Spec, CleanSpares

(***************************************************************************)
(* Whatever the cap and however many mounts are past it, a landing evicts  *)
(* none a column stands in and none with changes in its journal.           *)
(***************************************************************************)
THEOREM EvictionHolds == Spec => EvictionSpares
<1> DEFINE Spares(a) ==
        LandMounted(a) => \A x \in live \ live' :
                             x \notin dirty /\ \A c \in Columns : x \notin Standing(c)
<1>1. ASSUME NEW a \in Archives PROVE Spares(a)
  <2> SUFFICES ASSUME LandMounted(a), NEW x \in live \ live'
               PROVE  x \notin dirty /\ \A c \in Columns : x \notin Standing(c)
    OBVIOUS
  <2> DEFINE table == live \cup {a}
             out == IF a \in live THEN {}
                    ELSE Evicted(table, Touched(older, table, a), Protected)
  <2>1. live' = table \ out
    BY DEF LandMounted
  <2>2. x \in out
    BY <2>1
  <2>3. x \notin Protected \cup dirty
    BY <2>2, EvictedSpares
  <2>4. QED
    BY <2>3 DEF Protected, Visited
<1>2. [Next]_vars => [\A a \in Archives : Spares(a)]_vars
  BY <1>1
<1>3. QED
  BY <1>2, PTL DEF Spec, EvictionSpares

-----------------------------------------------------------------------------
(* The journal.  First, counting up, and functions defined by recursion. *)

(* A set of naturals that isn't empty has a least element. *)
LEMMA Least ==
    ASSUME NEW T \in SUBSET Nat, T # {}
    PROVE  \E n \in T : \A m \in T : n <= m
<1> DEFINE R == OpToRel(<, Nat)
<1>1. IsWellFoundedOn(R, Nat)
  BY NatLessThanWellFounded
<1>2. \E n \in T : \A m \in T : ~ (<<m, n>> \in R)
  <2> HIDE DEF R
  <2> QED BY <1>1, WFMin, Zenon
<1>3. PICK n \in T : \A m \in T : <<m, n>> \notin R
  BY <1>2
<1>4. \A m \in T : n <= m
  <2> TAKE m \in T
  <2>1. m \in Nat /\ n \in Nat
    OBVIOUS
  <2>2. m < n => <<m, n>> \in R
    BY <2>1 DEF OpToRel
  <2>3. <<m, n>> \notin R
    BY <1>3
  <2> HIDE DEF R
  <2> QED BY <2>1, <2>2, <2>3
<1> QED BY <1>4

(* Counting from 0 to n. *)
LEMMA UpTo ==
    ASSUME NEW n \in Nat, NEW T, 0 \in T,
           \A i \in 0..n : i # n /\ i \in T => i + 1 \in T
    PROVE  \A i \in 0..n : i \in T
<1> SUFFICES ASSUME NEW b \in (0..n) \ T PROVE FALSE
  OBVIOUS
<1> DEFINE B == (0..n) \ T
<1>1. B \in SUBSET Nat /\ B # {}
  OBVIOUS
<1>2. PICK i \in B : \A j \in B : i <= j
  BY <1>1, Least
<1>3. i # 0 /\ i - 1 \in 0..n /\ i - 1 # n /\ i - 1 \notin B
  BY <1>2
<1>4. (i - 1) + 1 \in T
  BY <1>3
<1> QED BY <1>2, <1>4

(***************************************************************************)
(* A function defined by recursion over 0..n exists, and there is one.     *)
(***************************************************************************)
Iterates(g, x, n, F) == g[0] = x /\ \A i \in 1..n : g[i] = F[i][g[i - 1]]

(* There is one: counting up to the length of the function. *)
LEMMA IterationExists ==
    ASSUME NEW S, NEW x \in S, NEW n \in Nat, NEW F \in [1..n -> [S -> S]]
    PROVE  \E g \in [0..n -> S] : Iterates(g, x, n, F)
<1> DEFINE T == {m \in 0..n : \E g \in [0..m -> S] : Iterates(g, x, m, F)}
<1>1. 0 \in T
  <2> DEFINE h == [i \in 0..0 |-> x]
  <2>1. h \in [0..0 -> S] /\ h[0] = x
    OBVIOUS
  <2>2. Iterates(h, x, 0, F)
    BY <2>1 DEF Iterates
  <2> HIDE DEF h
  <2> QED  BY <2>1, <2>2
<1>2. ASSUME NEW m \in 0..n, m # n, m \in T  PROVE m + 1 \in T
  <2>1. PICK g \in [0..m -> S] : Iterates(g, x, m, F)
    BY <1>2
  <2> DEFINE h == [i \in 0..(m + 1) |-> IF i = m + 1 THEN F[m + 1][g[m]] ELSE g[i]]
  <2>2. h \in [0..(m + 1) -> S]
    <3>1. F[m + 1][g[m]] \in S
      BY <1>2
    <3> QED  BY <3>1
  <2>3. \A i \in 1..(m + 1) : h[i] = F[i][h[i - 1]]
    <3> TAKE i \in 1..(m + 1)
    <3>1. CASE i = m + 1
      BY <3>1
    <3>2. CASE i # m + 1
      <4>1. i \in 1..m /\ i - 1 \in 0..(m + 1) /\ i - 1 # m + 1
        BY <3>2
      <4>2. h[i] = g[i] /\ h[i - 1] = g[i - 1]
        BY <4>1
      <4>3. g[i] = F[i][g[i - 1]]
        BY <2>1, <4>1 DEF Iterates
      <4> QED  BY <4>2, <4>3
    <3> QED  BY <3>1, <3>2
  <2>4. h[0] = x
    BY <2>1 DEF Iterates
  <2>5. Iterates(h, x, m + 1, F)
    <3> HIDE DEF h
    <3> QED  BY <2>3, <2>4 DEF Iterates
  <2>6. m + 1 \in 0..n
    BY <1>2
  <2> HIDE DEF h
  <2> QED  BY <2>2, <2>5, <2>6
<1>3. n \in T
  <2> HIDE DEF T
  <2>1. \A m \in 0..n : m \in T
    BY <1>1, <1>2, UpTo
  <2> QED  BY <2>1
<1> QED  BY <1>3

Follows(t, S, x, n, F) ==
    t[0] = x /\ \A i \in 1..n : t[i - 1] \in S => t[i] = F[i][t[i - 1]]

Agree(t, g, n) == \A i \in 0..n : t[i] = g[i]

(* And one only: what satisfies the recursion agrees with it. *)
LEMMA IterationUnique ==
    ASSUME NEW S, NEW x \in S, NEW n \in Nat, NEW F \in [1..n -> [S -> S]],
           NEW g \in [0..n -> S], Iterates(g, x, n, F),
           NEW t, Follows(t, S, x, n, F)
    PROVE  Agree(t, g, n)
<1> DEFINE T == {i \in 0..n : t[i] = g[i]}
<1>1. 0 \in T
  BY DEF Iterates, Follows
<1>2. ASSUME NEW i \in 0..n, i # n, i \in T  PROVE i + 1 \in T
  <2>1. i + 1 \in 1..n /\ i + 1 \in 0..n /\ (i + 1) - 1 = i
    BY <1>2
  <2>2. t[i] = g[i] /\ t[i] \in S
    BY <1>2
  <2>3. t[i + 1] = F[i + 1][t[i]] /\ g[i + 1] = F[i + 1][g[i]]
    BY <2>1, <2>2 DEF Iterates, Follows
  <2> QED  BY <2>1, <2>2, <2>3
<1>3. \A i \in 0..n : i \in T
  <2> HIDE DEF T
  <2> QED  BY <1>1, <1>2, UpTo
<1> QED  BY <1>3 DEF Agree

-----------------------------------------------------------------------------
(* Paths. *)

Path == Seq(Names)

(* IsPrefix name by name. *)
LEMMA PrefixIs ==
    ASSUME NEW p \in Path, NEW q \in Path
    PROVE  IsPrefix(p, q) <=> Len(p) <= Len(q) /\ \A i \in 1..Len(p) : q[i] = p[i]
<1>1. Len(p) \in Nat /\ Len(q) \in Nat
  BY DEF Path
<1>2. /\ SubSeq(p, 1, Len(p)) \in Seq(Names) /\ Len(SubSeq(p, 1, Len(p))) = Len(p)
      /\ \A i \in 1..Len(p) : SubSeq(p, 1, Len(p))[i] = p[i]
  BY DEF Path
<1>3. ASSUME Len(p) <= Len(q)
      PROVE  /\ SubSeq(q, 1, Len(p)) \in Seq(Names) /\ Len(SubSeq(q, 1, Len(p))) = Len(p)
             /\ \A i \in 1..Len(p) : SubSeq(q, 1, Len(p))[i] = q[i]
  <2>1. \A i \in 1..Len(p) : q[i] \in Names
    BY <1>1, <1>3 DEF Path
  <2> QED  BY <1>1, <2>1, SubSeqProperties, Z3
<1>4. ASSUME Len(p) <= Len(q), \A i \in 1..Len(p) : q[i] = p[i]
      PROVE  SubSeq(p, 1, Len(p)) = SubSeq(q, 1, Len(p))
  <2> DEFINE s == SubSeq(p, 1, Len(p))
             t == SubSeq(q, 1, Len(p))
  <2>1. s \in Seq(Names) /\ t \in Seq(Names) /\ Len(s) = Len(p) /\ Len(t) = Len(p)
    BY <1>2, <1>3, <1>4
  <2>2. \A i \in 1..Len(p) : s[i] = t[i]
    BY <1>2, <1>3, <1>4
  <2> HIDE DEF s, t
  <2>3. s = t
    BY <2>1, <2>2, SeqEqual
  <2> QED  BY <2>3 DEF s, t
<1>5. ASSUME IsPrefix(p, q)
      PROVE  Len(p) <= Len(q) /\ \A i \in 1..Len(p) : q[i] = p[i]
  <2>1. Len(p) <= Len(q) /\ SubSeq(p, 1, Len(p)) = SubSeq(q, 1, Len(p))
    BY <1>5 DEF IsPrefix
  <2>2. \A i \in 1..Len(p) : q[i] = p[i]
    BY <1>2, <1>3, <2>1
  <2> QED  BY <2>1, <2>2
<1>6. (Len(p) <= Len(q) /\ \A i \in 1..Len(p) : q[i] = p[i]) => IsPrefix(p, q)
  BY <1>4 DEF IsPrefix
<1> QED  BY <1>5, <1>6

(* IsPrefix is an order, and what is above a path is a chain. *)
LEMMA PrefixOrder ==
    /\ \A p \in Path : IsPrefix(p, p)
    /\ \A p, q, r \in Path : IsPrefix(p, q) /\ IsPrefix(q, r) => IsPrefix(p, r)
    /\ \A p, q \in Path : IsPrefix(p, q) /\ Len(q) <= Len(p) => p = q
    /\ \A p, q, r \in Path : IsPrefix(p, r) /\ IsPrefix(q, r) /\ Len(p) <= Len(q) => IsPrefix(p, q)
<1>0. \A p \in Path : Len(p) \in Nat
  BY DEF Path
<1>1. ASSUME NEW p \in Path  PROVE IsPrefix(p, p)
  BY <1>0, PrefixIs
<1>2. ASSUME NEW p \in Path, NEW q \in Path, NEW r \in Path, IsPrefix(p, q), IsPrefix(q, r)
      PROVE  IsPrefix(p, r)
  <2>1. Len(p) <= Len(q) /\ Len(q) <= Len(r) /\ Len(p) \in Nat /\ Len(q) \in Nat /\ Len(r) \in Nat
    BY <1>0, <1>2, PrefixIs
  <2>2. \A i \in 1..Len(p) : i \in 1..Len(q) /\ q[i] = p[i] /\ r[i] = q[i]
    BY <1>2, <2>1, PrefixIs
  <2> QED  BY <2>1, <2>2, PrefixIs
<1>3. ASSUME NEW p \in Path, NEW q \in Path, IsPrefix(p, q), Len(q) <= Len(p)
      PROVE  p = q
  <2>1. Len(p) = Len(q)
    BY <1>0, <1>3, PrefixIs
  <2>2. \A i \in 1..Len(p) : p[i] = q[i]
    BY <1>3, PrefixIs
  <2> QED  BY <2>1, <2>2, SeqEqual DEF Path
<1>4. ASSUME NEW p \in Path, NEW q \in Path, NEW r \in Path, IsPrefix(p, r), IsPrefix(q, r),
             Len(p) <= Len(q)
      PROVE  IsPrefix(p, q)
  <2>1. \A i \in 1..Len(p) : i \in 1..Len(q) /\ r[i] = p[i] /\ r[i] = q[i]
    BY <1>0, <1>4, PrefixIs
  <2> QED  BY <1>4, <2>1, PrefixIs
<1> QED  BY <1>1, <1>2, <1>3, <1>4

(* The archive itself is above every path. *)
LEMMA EmptyPath ==
    /\ <<>> \in Path /\ Len(<<>>) = 0
    /\ \A p \in Path : (p = <<>> <=> Len(p) = 0) /\ Len(p) \in Nat /\ IsPrefix(<<>>, p)
<1>1. <<>> \in Path /\ Len(<<>>) = 0
  BY DEF Path
<1>2. ASSUME NEW p \in Path  PROVE (p = <<>> <=> Len(p) = 0) /\ Len(p) \in Nat
  BY EmptySeq DEF Path
<1>3. ASSUME NEW p \in Path  PROVE IsPrefix(<<>>, p)
  BY <1>1, <1>2, PrefixIs
<1> QED  BY <1>1, <1>2, <1>3

(* parent_of is the longest path above. *)
LEMMA ParentOf ==
    ASSUME NEW p \in Path, p # <<>>
    PROVE  /\ Parent(p) \in Path /\ Len(Parent(p)) = Len(p) - 1
           /\ IsPrefix(Parent(p), p)
           /\ \A q \in Path : IsPrefix(q, p) /\ q # p => IsPrefix(q, Parent(p))
           /\ \A i \in 1..Len(p) - 1 : Parent(p)[i] = p[i]
<1>1. Len(p) \in Nat \ {0}
  BY EmptyPath
<1>2. \A i \in 1..(Len(p) - 1) : p[i] \in Names
  BY <1>1 DEF Path
<1>3. /\ SubSeq(p, 1, Len(p) - 1) \in Seq(Names)
      /\ Len(SubSeq(p, 1, Len(p) - 1)) = Len(p) - 1
      /\ \A i \in 1..(Len(p) - 1) : SubSeq(p, 1, Len(p) - 1)[i] = p[i]
  <2>1. PICK n \in Nat : n = Len(p) - 1
    BY <1>1
  <2>2. /\ SubSeq(p, 1, n) \in Seq(Names)
        /\ Len(SubSeq(p, 1, n)) = IF 1 <= n THEN n - 1 + 1 ELSE 0
        /\ \A i \in 1..(n - 1 + 1) : SubSeq(p, 1, n)[i] = p[1 + i - 1]
    BY <1>2, <2>1, SubSeqProperties, Z3
  <2>3. n - 1 + 1 = n /\ (\A i \in 1..n : 1 + i - 1 = i) /\ (~(1 <= n) => n = 0)
    OBVIOUS
  <2> QED  BY <2>1, <2>2, <2>3
<1>4. Parent(p) = SubSeq(p, 1, Len(p) - 1)
  BY DEF Parent, Front
<1>5. Parent(p) \in Path /\ Len(Parent(p)) = Len(p) - 1
      /\ \A i \in 1..(Len(p) - 1) : Parent(p)[i] = p[i]
  BY <1>3, <1>4 DEF Path
<1>6. IsPrefix(Parent(p), p)
  BY <1>1, <1>5, PrefixIs
<1>7. ASSUME NEW q \in Path, IsPrefix(q, p), q # p  PROVE IsPrefix(q, Parent(p))
  <2>1. Len(q) \in Nat /\ Len(q) < Len(p)
    BY <1>1, <1>7, PrefixIs, PrefixOrder, EmptyPath
  <2> QED  BY <1>1, <1>5, <1>6, <1>7, <2>1, PrefixOrder
<1> QED  BY <1>5, <1>6, <1>7

(* A name joined to a directory is in it. *)
LEMMA ChildOf ==
    ASSUME NEW dir \in Path, NEW p \in Path, p # <<>>
    PROVE  /\ Child(dir, p) \in Path \ {<<>>}
           /\ Parent(Child(dir, p)) = dir
<1>1. Len(p) \in 1..Len(p) /\ Last(p) \in Names
  BY EmptyPath DEF Last, Path
<1>2. Child(dir, p) = Append(dir, Last(p))
  BY DEF Child, Base
<1>3. PICK x \in Names : x = Last(p)
  BY <1>1
<1>4. Append(dir, x) \in Path /\ Append(dir, x) # <<>> /\ Len(Append(dir, x)) = Len(dir) + 1
      /\ \A i \in 1..Len(dir) : Append(dir, x)[i] = dir[i]
  BY AppendProperties DEF Path
<1>5. Parent(Append(dir, x)) = dir
  <2>1. PICK q \in Path : q = Append(dir, x)
    BY <1>4
  <2>2. Len(dir) \in Nat
    BY EmptyPath
  <2>5. /\ Parent(q) \in Path /\ Len(Parent(q)) = Len(q) - 1
        /\ \A i \in 1..Len(q) - 1 : Parent(q)[i] = q[i]
    BY <1>4, <2>1, ParentOf
  <2>6. Len(q) - 1 = Len(dir) /\ \A i \in 1..Len(dir) : q[i] = dir[i]
    BY <1>4, <2>1, <2>2
  <2>3. Parent(q) \in Path /\ Len(Parent(q)) = Len(dir) /\ \A i \in 1..Len(dir) : Parent(q)[i] = dir[i]
    BY <2>5, <2>6
  <2>4. Parent(q) = dir
    BY <2>2, <2>3, SeqEqual DEF Path
  <2> QED  BY <2>1, <2>4
<1> QED  BY <1>2, <1>3, <1>4, <1>5

(* What moving a directory does to a path in it. *)
IsMoved(m, p, from, to) ==
    /\ m \in Path /\ Len(m) = Len(to) + (Len(p) - Len(from))
    /\ \A i \in 1..Len(to) : m[i] = to[i]
    /\ \A i \in 1..(Len(p) - Len(from)) : m[Len(to) + i] = p[Len(from) + i]

(* What is in the directory goes with it. *)
LEMMA MovedInside ==
    ASSUME NEW from \in Path, NEW to \in Path, NEW p \in Path, IsPrefix(from, p)
    PROVE  Moved(p, from, to) \in Path /\ IsMoved(Moved(p, from, to), p, from, to)
<1>1. /\ Len(p) \in Nat /\ Len(from) \in Nat /\ Len(to) \in Nat
      /\ Len(from) <= Len(p)
  BY EmptyPath, PrefixIs
<1> DEFINE rest == SubSeq(p, Len(from) + 1, Len(p))
<1>2. Moved(p, from, to) = to \o rest
  BY DEF Moved
<1>3. /\ rest \in Seq(Names) /\ Len(rest) = Len(p) - Len(from)
      /\ \A i \in 1..(Len(p) - Len(from)) : rest[i] = p[Len(from) + i]
  <2>1. PICK n \in Nat : n = Len(p)
    BY <1>1
  <2>2. PICK m \in Nat : m = Len(from)
    BY <1>1
  <2>3. \A i \in (m + 1)..n : p[i] \in Names
    BY <2>1, <2>2 DEF Path
  <2>4. m + 1 \in Int /\ n \in Int /\ m <= n
    BY <1>1, <2>1, <2>2
  <2>5. /\ SubSeq(p, m + 1, n) \in Seq(Names)
        /\ Len(SubSeq(p, m + 1, n)) = IF m + 1 <= n THEN n - (m + 1) + 1 ELSE 0
        /\ \A i \in 1..(n - (m + 1) + 1) : SubSeq(p, m + 1, n)[i] = p[(m + 1) + i - 1]
    BY <2>3, <2>4, SubSeqProperties, Z3
  <2>6. n - (m + 1) + 1 = n - m /\ \A i \in 1..(n - m) : (m + 1) + i - 1 = m + i
    BY <2>4
  <2>7. Len(SubSeq(p, m + 1, n)) = n - m
    BY <2>4, <2>5
  <2>8. \A i \in 1..(n - m) : SubSeq(p, m + 1, n)[i] = p[m + i]
    BY <2>5, <2>6
  <2> QED  BY <2>1, <2>2, <2>5, <2>7, <2>8
<1> HIDE DEF rest
<1>4. to \in Seq(Names)
  BY DEF Path
<1>5. /\ to \o rest \in Seq(Names) /\ Len(to \o rest) = Len(to) + Len(rest)
      /\ \A i \in 1..(Len(to) + Len(rest)) :
            (to \o rest)[i] = IF i <= Len(to) THEN to[i] ELSE rest[i - Len(to)]
  BY <1>3, <1>4, ConcatProperties
<1>6. \A i \in 1..Len(to) : (to \o rest)[i] = to[i]
  BY <1>1, <1>3, <1>5
<1>7. \A i \in 1..(Len(p) - Len(from)) : (to \o rest)[Len(to) + i] = p[Len(from) + i]
  <2> TAKE i \in 1..(Len(p) - Len(from))
  <2>1. PICK j \in Nat : j = Len(to) + i
    BY <1>1
  <2>2. j \in 1..(Len(to) + Len(rest)) /\ ~(j <= Len(to)) /\ j - Len(to) = i
    BY <1>1, <1>3, <2>1
  <2>3. (to \o rest)[j] = rest[i]
    BY <1>5, <2>2
  <2> QED  BY <1>3, <2>1, <2>3
<1>8. Len(to \o rest) = Len(to) + (Len(p) - Len(from))
  BY <1>3, <1>5
<1> QED  BY <1>2, <1>5, <1>6, <1>7, <1>8 DEF Path, IsMoved

(* What is not in it stays. *)
LEMMA MovedOutside ==
    ASSUME NEW from, NEW to, NEW p, ~IsPrefix(from, p)
    PROVE  Moved(p, from, to) = p
  BY DEF Moved

(* The move undone. *)
LEMMA MovedBack ==
    ASSUME NEW from \in Path, NEW to \in Path, NEW p \in Path, IsPrefix(from, p)
    PROVE  LET m == Moved(p, from, to)
           IN  /\ IsPrefix(to, m)
               /\ Moved(m, to, from) = p
<1>1. /\ Len(p) \in Nat /\ Len(from) \in Nat /\ Len(to) \in Nat
      /\ Len(from) <= Len(p) /\ \A i \in 1..Len(from) : p[i] = from[i]
  BY EmptyPath, PrefixIs
<1>2. PICK m \in Path : m = Moved(p, from, to) /\ IsMoved(m, p, from, to)
  BY MovedInside
<1>3. /\ Len(m) = Len(to) + (Len(p) - Len(from))
      /\ \A i \in 1..Len(to) : m[i] = to[i]
      /\ \A i \in 1..(Len(p) - Len(from)) : m[Len(to) + i] = p[Len(from) + i]
  BY <1>2 DEF IsMoved
<1>4. IsPrefix(to, m)
  BY <1>1, <1>3, PrefixIs
<1>5. PICK r \in Path : r = Moved(m, to, from) /\ IsMoved(r, m, to, from)
  BY <1>4, MovedInside
<1>6. /\ Len(r) = Len(from) + (Len(m) - Len(to))
      /\ \A i \in 1..Len(from) : r[i] = from[i]
      /\ \A i \in 1..(Len(m) - Len(to)) : r[Len(from) + i] = m[Len(to) + i]
  BY <1>5 DEF IsMoved
<1>7. Len(r) = Len(p) /\ Len(m) - Len(to) = Len(p) - Len(from)
  BY <1>1, <1>3, <1>6
<1>8. \A i \in 1..Len(r) : r[i] = p[i]
  <2> TAKE i \in 1..Len(r)
  <2>1. CASE i <= Len(from)
    BY <1>1, <1>6, <2>1
  <2>2. CASE ~(i <= Len(from))
    <3>1. PICK j \in 1..(Len(p) - Len(from)) : i = Len(from) + j
      <4>1. i - Len(from) \in 1..(Len(p) - Len(from)) /\ i = Len(from) + (i - Len(from))
        BY <1>1, <1>7, <2>2
      <4> QED  BY <4>1
    <3> QED  BY <1>3, <1>6, <1>7, <3>1
  <2> QED  BY <2>1, <2>2
<1>9. r = p
  BY <1>7, <1>8, SeqEqual DEF Path
<1> QED  BY <1>2, <1>4, <1>5, <1>9

(* The directory itself goes to the new name, the rest to its directories. *)
LEMMA MovedParent ==
    ASSUME NEW from \in Path, NEW to \in Path, NEW p \in Path, IsPrefix(from, p), p # <<>>
    PROVE  /\ p = from => Moved(p, from, to) = to
           /\ p # from => /\ IsPrefix(from, Parent(p))
                          /\ Parent(Moved(p, from, to)) = Moved(Parent(p), from, to)
<1>1. /\ Len(p) \in Nat \ {0} /\ Len(from) \in Nat /\ Len(to) \in Nat
      /\ Len(from) <= Len(p)
  BY EmptyPath, PrefixIs
<1>2. PICK m \in Path : m = Moved(p, from, to) /\ IsMoved(m, p, from, to)
  BY MovedInside
<1>3. /\ Len(m) = Len(to) + (Len(p) - Len(from))
      /\ \A i \in 1..Len(to) : m[i] = to[i]
      /\ \A i \in 1..(Len(p) - Len(from)) : m[Len(to) + i] = p[Len(from) + i]
  BY <1>2 DEF IsMoved
<1>4. ASSUME p = from  PROVE m = to
  <2>1. Len(m) = Len(to)
    BY <1>1, <1>3, <1>4
  <2>2. \A i \in 1..Len(m) : m[i] = to[i]
    BY <1>3, <2>1
  <2> QED  BY <2>1, <2>2, SeqEqual DEF Path
<1>5. ASSUME p # from
      PROVE  IsPrefix(from, Parent(p)) /\ Parent(m) = Moved(Parent(p), from, to)
  <2>1. PICK q \in Path : q = Parent(p)
    BY ParentOf
  <2>2. IsPrefix(from, q) /\ Len(q) = Len(p) - 1 /\ \A i \in 1..(Len(p) - 1) : q[i] = p[i]
    BY <1>5, <2>1, ParentOf
  <2>3. Len(from) <= Len(q)
    BY <2>2, PrefixIs
  <2>4. PICK r \in Path : r = Moved(q, from, to) /\ IsMoved(r, q, from, to)
    BY <2>2, MovedInside
  <2>5. /\ Len(r) = Len(to) + (Len(q) - Len(from))
        /\ \A i \in 1..Len(to) : r[i] = to[i]
        /\ \A i \in 1..(Len(q) - Len(from)) : r[Len(to) + i] = q[Len(from) + i]
    BY <2>4 DEF IsMoved
  <2>6. Len(m) # 0
    BY <1>1, <1>3, <2>2, <2>3
  <2>7. m # <<>>
    BY <2>6, EmptyPath
  <2>8. PICK n \in Path : n = Parent(m)
    BY <2>7, ParentOf
  <2>9. Len(n) = Len(m) - 1 /\ \A i \in 1..(Len(m) - 1) : n[i] = m[i]
    BY <2>7, <2>8, ParentOf
  <2>10. Len(n) = Len(r)
    BY <1>1, <1>3, <2>2, <2>5, <2>9
  <2>11. \A i \in 1..Len(n) : n[i] = r[i]
    <3> TAKE i \in 1..Len(n)
    <3>1. n[i] = m[i]
      BY <2>9
    <3>2. CASE i <= Len(to)
      BY <1>1, <1>3, <2>5, <3>1, <3>2
    <3>3. CASE ~(i <= Len(to))
      <4>1. PICK j \in 1..(Len(q) - Len(from)) : i = Len(to) + j
        <5>1. i - Len(to) \in 1..(Len(q) - Len(from)) /\ i = Len(to) + (i - Len(to))
          BY <1>1, <1>3, <2>2, <2>9, <3>3
        <5> QED  BY <5>1
      <4>2. j \in 1..(Len(p) - Len(from)) /\ Len(from) + j \in 1..(Len(p) - 1)
        BY <1>1, <2>2, <2>3
      <4>3. m[i] = p[Len(from) + j] /\ r[i] = q[Len(from) + j] /\ q[Len(from) + j] = p[Len(from) + j]
        BY <1>3, <2>2, <2>5, <4>1, <4>2
      <4> QED  BY <3>1, <4>3
    <3> QED  BY <3>2, <3>3
  <2>12. n = r
    BY <2>10, <2>11, SeqEqual DEF Path
  <2> QED  BY <2>1, <2>2, <2>4, <2>8, <2>12
<1> QED  BY <1>2, <1>4, <1>5

-----------------------------------------------------------------------------
(* Changes, and where they take a path. *)

Changes == [kind : {"added", "deleted", "replaced"}, key : Path]
           \cup [kind : {"renamed"}, from : Path \ {<<>>}, to : Path \ {<<>>}]

(* The fields of each kind of change. *)
LEMMA ChangeTypes ==
    /\ \A c \in Changes : c.kind = "renamed" =>
          c.from \in Path \ {<<>>} /\ c.to \in Path \ {<<>>} /\ c = Renamed(c.from, c.to)
    /\ \A c \in Changes : c.kind # "renamed" => c.key \in Path
    /\ \A p \in Path : /\ Added(p) \in Changes /\ Added(p).kind = "added" /\ Added(p).key = p
                       /\ Deleted(p) \in Changes /\ Deleted(p).kind = "deleted" /\ Deleted(p).key = p
                       /\ Replaced(p) \in Changes /\ Replaced(p).kind = "replaced" /\ Replaced(p).key = p
    /\ \A p, q \in Path \ {<<>>} : /\ Renamed(p, q) \in Changes /\ Renamed(p, q).kind = "renamed"
                                   /\ Renamed(p, q).from = p /\ Renamed(p, q).to = q
  BY DEF Changes, Added, Deleted, Replaced, Renamed

(* A change takes a path to a path, and never a member to the root. *)
LEMMA ForthTyped ==
    ASSUME NEW c \in Changes, NEW p \in Path
    PROVE  /\ Forth(c, p) \in Path /\ Back(c, p) \in Path
           /\ p # <<>> => Forth(c, p) # <<>>
<1>1. CASE c.kind # "renamed"
  BY <1>1 DEF Forth, Back
<1>2. CASE c.kind = "renamed"
  <2>1. c.from \in Path /\ c.to \in Path /\ c.to # <<>>
    BY <1>2, ChangeTypes
  <2>2. Forth(c, p) = Moved(p, c.from, c.to) /\ Back(c, p) = Moved(p, c.to, c.from)
    BY <1>2 DEF Forth, Back
  <2>3. Moved(p, c.from, c.to) \in Path /\ Moved(p, c.to, c.from) \in Path
    BY <2>1, MovedInside, MovedOutside
  <2>4. ASSUME IsPrefix(c.from, p)  PROVE Moved(p, c.from, c.to) # <<>>
    <3>1. PICK m \in Path : m = Moved(p, c.from, c.to) /\ IsMoved(m, p, c.from, c.to)
      BY <2>1, <2>4, MovedInside
    <3>2. Len(c.from) <= Len(p) /\ Len(p) \in Nat /\ Len(c.from) \in Nat /\ Len(c.to) \in Nat \ {0}
      BY <2>1, <2>4, PrefixIs, EmptyPath
    <3>3. Len(m) # 0
      BY <3>1, <3>2 DEF IsMoved
    <3> QED  BY <3>1, <3>3, EmptyPath
  <2> QED  BY <2>2, <2>3, <2>4, MovedOutside
<1> QED  BY <1>1, <1>2

(* The recursion of effective, change by change. *)
LEMMA TrailIs ==
    ASSUME NEW s \in Seq(Changes), NEW k \in Path
    PROVE  /\ Trail(s, k) \in [0..Len(s) -> Path]
           /\ Trail(s, k)[0] = k
           /\ \A i \in 1..Len(s) : Trail(s, k)[i] = Forth(s[i], Trail(s, k)[i - 1])
<1>1. Len(s) \in Nat /\ \A i \in 1..Len(s) : s[i] \in Changes
  OBVIOUS
<1> DEFINE F == [i \in 1..Len(s) |-> [p \in Path |-> Forth(s[i], p)]]
           t == CHOOSE at : at = [i \in 0..Len(s) |-> IF i = 0 THEN k ELSE Forth(s[i], at[i - 1])]
<1>2. F \in [1..Len(s) -> [Path -> Path]]
  BY <1>1, ForthTyped
<1>3. PICK g \in [0..Len(s) -> Path] : Iterates(g, k, Len(s), F)
  <2> HIDE DEF F
  <2> QED  BY <1>1, <1>2, IterationExists
<1>4. g[0] = k /\ \A i \in 1..Len(s) : g[i] = Forth(s[i], g[i - 1])
  <2>1. g[0] = k /\ \A i \in 1..Len(s) : g[i] = F[i][g[i - 1]]
    <3> HIDE DEF F
    <3> QED  BY <1>3 DEF Iterates
  <2>2. \A i \in 1..Len(s) : g[i - 1] \in Path
    BY <1>1
  <2> QED  BY <2>1, <2>2
<1>5. g = [i \in 0..Len(s) |-> IF i = 0 THEN k ELSE Forth(s[i], g[i - 1])]
  <2>1. g = [i \in 0..Len(s) |-> g[i]]
    OBVIOUS
  <2>2. \A i \in 0..Len(s) : g[i] = IF i = 0 THEN k ELSE Forth(s[i], g[i - 1])
    BY <1>1, <1>4
  <2> QED  BY <2>1, <2>2
<1>6. t = [i \in 0..Len(s) |-> IF i = 0 THEN k ELSE Forth(s[i], t[i - 1])]
  BY <1>5
<1>7. Trail(s, k) = t
  BY DEF Trail
<1> HIDE DEF t
<1>8. t[0] = k /\ \A i \in 1..Len(s) : t[i] = Forth(s[i], t[i - 1])
  BY <1>1, <1>6
<1>9. \A i \in 1..Len(s) : t[i - 1] \in Path => t[i] = F[i][t[i - 1]]
  BY <1>8
<1>10. \A i \in 0..Len(s) : t[i] = g[i]
  <2> HIDE DEF F
  <2>1. Follows(t, Path, k, Len(s), F)
    BY <1>8, <1>9 DEF Follows
  <2>2. Agree(t, g, Len(s))
    BY <1>1, <1>2, <1>3, <2>1, IterationUnique
  <2> QED  BY <2>2 DEF Agree
<1>11. t = [i \in 0..Len(s) |-> t[i]]
  BY <1>6
<1>12. t \in [0..Len(s) -> Path]
  BY <1>10, <1>11
<1> HIDE DEF F
<1> QED  BY <1>7, <1>8, <1>12

(* The recursion of original_of, last change first. *)
LEMMA BackTrailIs ==
    ASSUME NEW s \in Seq(Changes), NEW k \in Path
    PROVE  /\ BackTrail(s, k) \in [0..Len(s) -> Path]
           /\ BackTrail(s, k)[0] = k
           /\ \A i \in 1..Len(s) :
                 BackTrail(s, k)[i] = Back(s[Len(s) + 1 - i], BackTrail(s, k)[i - 1])
<1>1. Len(s) \in Nat /\ \A i \in 1..Len(s) : s[Len(s) + 1 - i] \in Changes
  <2>1. Len(s) \in Nat
    OBVIOUS
  <2>2. \A i \in 1..Len(s) : Len(s) + 1 - i \in 1..Len(s)
    BY <2>1
  <2> QED  BY <2>1, <2>2
<1> DEFINE F == [i \in 1..Len(s) |-> [p \in Path |-> Back(s[Len(s) + 1 - i], p)]]
           t == CHOOSE at : at = [i \in 0..Len(s) |->
                   IF i = 0 THEN k ELSE Back(s[Len(s) + 1 - i], at[i - 1])]
<1>2. F \in [1..Len(s) -> [Path -> Path]]
  BY <1>1, ForthTyped
<1>3. PICK g \in [0..Len(s) -> Path] : Iterates(g, k, Len(s), F)
  <2> HIDE DEF F
  <2> QED  BY <1>1, <1>2, IterationExists
<1>4. g[0] = k /\ \A i \in 1..Len(s) : g[i] = Back(s[Len(s) + 1 - i], g[i - 1])
  <2>1. g[0] = k /\ \A i \in 1..Len(s) : g[i] = F[i][g[i - 1]]
    <3> HIDE DEF F
    <3> QED  BY <1>3 DEF Iterates
  <2>2. \A i \in 1..Len(s) : g[i - 1] \in Path
    BY <1>1
  <2> QED  BY <2>1, <2>2
<1>5. g = [i \in 0..Len(s) |-> IF i = 0 THEN k ELSE Back(s[Len(s) + 1 - i], g[i - 1])]
  <2>1. g = [i \in 0..Len(s) |-> g[i]]
    OBVIOUS
  <2>2. \A i \in 0..Len(s) : g[i] = IF i = 0 THEN k ELSE Back(s[Len(s) + 1 - i], g[i - 1])
    BY <1>1, <1>4
  <2> QED  BY <2>1, <2>2
<1>6. t = [i \in 0..Len(s) |-> IF i = 0 THEN k ELSE Back(s[Len(s) + 1 - i], t[i - 1])]
  BY <1>5
<1>7. BackTrail(s, k) = t
  BY DEF BackTrail
<1> HIDE DEF t
<1>8. t[0] = k /\ \A i \in 1..Len(s) : t[i] = Back(s[Len(s) + 1 - i], t[i - 1])
  <2>1. 0 \in 0..Len(s) /\ \A i \in 1..Len(s) : i \in 0..Len(s) /\ i # 0
    BY <1>1
  <2> QED  BY <1>6, <2>1
<1>9. \A i \in 1..Len(s) : t[i - 1] \in Path => t[i] = F[i][t[i - 1]]
  BY <1>8
<1>10. \A i \in 0..Len(s) : t[i] = g[i]
  <2> HIDE DEF F
  <2>1. Follows(t, Path, k, Len(s), F)
    BY <1>8, <1>9 DEF Follows
  <2>2. Agree(t, g, Len(s))
    BY <1>1, <1>2, <1>3, <2>1, IterationUnique
  <2> QED  BY <2>2 DEF Agree
<1>11. t = [i \in 0..Len(s) |-> t[i]]
  BY <1>6
<1>12. t \in [0..Len(s) -> Path]
  BY <1>10, <1>11
<1> HIDE DEF F
<1> QED  BY <1>7, <1>8, <1>12

-----------------------------------------------------------------------------
(***************************************************************************)
(* Where a journal takes a key, and back.  A change is clear of a path if  *)
(* undoing it after it was made gives the path; a key is clear when each   *)
(* change is of the place the ones before it gave the key.                 *)
(***************************************************************************)
Eff(s, k) == Trail(s, k)[Len(s)]
Orig(s, p) == BackTrail(s, p)[Len(s)]

ClearOf(c, p) == c.kind = "renamed" => IsPrefix(c.from, p) \/ ~IsPrefix(c.to, p)
Clear(s, k) == \A i \in 1..Len(s) : ClearOf(s[i], Trail(s, k)[i - 1])

(* Both give paths, and a member is never taken to the root. *)
LEMMA EffTyped ==
    ASSUME NEW s \in Seq(Changes), NEW k \in Path
    PROVE  /\ Eff(s, k) \in Path /\ Orig(s, k) \in Path
           /\ k # <<>> => Eff(s, k) # <<>>
<1>1. Len(s) \in Nat /\ Len(s) \in 0..Len(s)
  OBVIOUS
<1>2. Eff(s, k) \in Path /\ Orig(s, k) \in Path
  BY <1>1, TrailIs, BackTrailIs DEF Eff, Orig
<1>3. ASSUME k # <<>>  PROVE Eff(s, k) # <<>>
  <2> DEFINE T == {i \in 0..Len(s) : Trail(s, k)[i] # <<>>}
  <2>1. 0 \in T
    BY <1>1, <1>3, TrailIs
  <2>2. ASSUME NEW i \in 0..Len(s), i # Len(s), i \in T  PROVE i + 1 \in T
    <3>1. i + 1 \in 1..Len(s) /\ i + 1 \in 0..Len(s) /\ (i + 1) - 1 = i
      BY <1>1, <2>2
    <3> s[i + 1] \in Changes
      <4>1. ASSUME NEW j \in 1..Len(s)  PROVE s[j] \in Changes
        OBVIOUS
      <4> QED  BY <3>1, <4>1
    <3>2. Trail(s, k)[i + 1] = Forth(s[i + 1], Trail(s, k)[i]) /\ Trail(s, k)[i] \in Path
      <4>1. PICK t \in [0..Len(s) -> Path] :
               /\ t = Trail(s, k)
               /\ \A j \in 1..Len(s) : t[j] = Forth(s[j], t[j - 1])
        BY TrailIs
      <4>2. t[i + 1] = Forth(s[i + 1], t[(i + 1) - 1]) /\ t[i] \in Path
        BY <3>1, <4>1
      <4> QED  BY <3>1, <4>1, <4>2
    <3>3. Trail(s, k)[i] # <<>>
      BY <2>2
    <3>4. Trail(s, k)[i + 1] # <<>>
      BY <3>2, <3>3, ForthTyped
    <3> QED  BY <3>1, <3>4
  <2>3. \A i \in 0..Len(s) : i \in T
    <3> HIDE DEF T
    <3> QED  BY <1>1, <2>1, <2>2, UpTo
  <2> QED  BY <1>1, <2>3 DEF Eff
<1> QED  BY <1>2, <1>3

(* Without changes all stay. *)
LEMMA EffEmpty ==
    ASSUME NEW k \in Path
    PROVE  Eff(<<>>, k) = k /\ Orig(<<>>, k) = k /\ Clear(<<>>, k)
<1>1. <<>> \in Seq(Changes) /\ Len(<<>>) = 0
  OBVIOUS
<1>2. Eff(<<>>, k) = k /\ Orig(<<>>, k) = k
  BY <1>1, TrailIs, BackTrailIs DEF Eff, Orig
<1> QED  BY <1>1, <1>2 DEF Clear

(* A journal with a change added. *)
LEMMA AppendIs ==
    ASSUME NEW s \in Seq(Changes), NEW c \in Changes
    PROVE  /\ Append(s, c) \in Seq(Changes) /\ Len(Append(s, c)) = Len(s) + 1
           /\ \A i \in 1..Len(s) : Append(s, c)[i] = s[i]
           /\ Append(s, c)[Len(s) + 1] = c
           /\ Len(s) \in Nat
  BY AppendProperties

(* A later change leaves the places before it. *)
LEMMA TrailAppend ==
    ASSUME NEW s \in Seq(Changes), NEW c \in Changes, NEW k \in Path
    PROVE  /\ \A i \in 0..Len(s) : Trail(Append(s, c), k)[i] = Trail(s, k)[i]
           /\ Trail(Append(s, c), k)[Len(s) + 1] = Forth(c, Trail(s, k)[Len(s)])
<1>1. PICK t \in Seq(Changes) : t = Append(s, c)
  BY AppendIs
<1>2. Len(t) = Len(s) + 1 /\ (\A i \in 1..Len(s) : t[i] = s[i]) /\ t[Len(s) + 1] = c /\ Len(s) \in Nat
  BY <1>1, AppendIs
<1>3. Trail(t, k)[0] = k /\ \A i \in 1..Len(t) : Trail(t, k)[i] = Forth(t[i], Trail(t, k)[i - 1])
  BY TrailIs
<1>4. Trail(s, k)[0] = k /\ \A i \in 1..Len(s) : Trail(s, k)[i] = Forth(s[i], Trail(s, k)[i - 1])
  BY TrailIs
<1> DEFINE T == {i \in 0..Len(s) : Trail(t, k)[i] = Trail(s, k)[i]}
<1>5. 0 \in T
  BY <1>2, <1>3, <1>4
<1>6. ASSUME NEW i \in 0..Len(s), i # Len(s), i \in T  PROVE i + 1 \in T
  <2>1. i + 1 \in 1..Len(s) /\ i + 1 \in 1..Len(t) /\ i + 1 \in 0..Len(s) /\ (i + 1) - 1 = i
    BY <1>2, <1>6
  <2>2. Trail(t, k)[i + 1] = Forth(t[i + 1], Trail(t, k)[i])
    BY <1>3, <2>1
  <2>3. Trail(s, k)[i + 1] = Forth(s[i + 1], Trail(s, k)[i])
    BY <1>4, <2>1
  <2> QED  BY <1>2, <1>6, <2>1, <2>2, <2>3
<1>7. \A i \in 0..Len(s) : i \in T
  <2> HIDE DEF T
  <2> QED  BY <1>2, <1>5, <1>6, UpTo
<1>8. \A i \in 0..Len(s) : Trail(t, k)[i] = Trail(s, k)[i]
  BY <1>7
<1>9. Trail(t, k)[Len(s) + 1] = Forth(c, Trail(s, k)[Len(s)])
  <2>1. Len(s) + 1 \in 1..Len(t) /\ (Len(s) + 1) - 1 = Len(s) /\ Len(s) \in 0..Len(s)
    BY <1>2
  <2> QED  BY <1>2, <1>3, <1>8, <2>1
<1> QED  BY <1>1, <1>8, <1>9

(* The last change moves where the others left the path. *)
LEMMA EffAppend ==
    ASSUME NEW s \in Seq(Changes), NEW c \in Changes, NEW k \in Path
    PROVE  /\ Eff(Append(s, c), k) = Forth(c, Eff(s, k))
           /\ Clear(Append(s, c), k) <=> Clear(s, k) /\ ClearOf(c, Eff(s, k))
<1>1. PICK t \in Seq(Changes) : t = Append(s, c)
  BY AppendIs
<1>2. Len(t) = Len(s) + 1 /\ (\A i \in 1..Len(s) : t[i] = s[i]) /\ t[Len(s) + 1] = c /\ Len(s) \in Nat
  BY <1>1, AppendIs
<1>3. /\ \A i \in 0..Len(s) : Trail(t, k)[i] = Trail(s, k)[i]
      /\ Trail(t, k)[Len(s) + 1] = Forth(c, Trail(s, k)[Len(s)])
  BY <1>1, TrailAppend
<1>4. Eff(t, k) = Forth(c, Eff(s, k))
  BY <1>2, <1>3 DEF Eff
<1>5. \A i \in 1..Len(s) : t[i] = s[i] /\ Trail(t, k)[i - 1] = Trail(s, k)[i - 1]
  BY <1>2, <1>3
<1>6. t[Len(s) + 1] = c /\ Trail(t, k)[(Len(s) + 1) - 1] = Eff(s, k)
  <2>1. (Len(s) + 1) - 1 = Len(s) /\ Len(s) \in 0..Len(s)
    BY <1>2
  <2> QED  BY <1>2, <1>3, <2>1 DEF Eff
<1>7. ASSUME Clear(t, k)  PROVE Clear(s, k) /\ ClearOf(c, Eff(s, k))
  <2>1. ASSUME NEW i \in 1..Len(s)  PROVE ClearOf(s[i], Trail(s, k)[i - 1])
    <3>1. i \in 1..Len(t)
      BY <1>2
    <3>2. ClearOf(t[i], Trail(t, k)[i - 1])
      BY <1>7, <3>1 DEF Clear
    <3> QED  BY <1>5, <3>2
  <2>2. Len(s) + 1 \in 1..Len(t)
    BY <1>2
  <2>3. ClearOf(t[Len(s) + 1], Trail(t, k)[(Len(s) + 1) - 1])
    BY <1>7, <2>2 DEF Clear
  <2> QED  BY <1>6, <2>1, <2>3 DEF Clear
<1>8. ASSUME Clear(s, k), ClearOf(c, Eff(s, k))  PROVE Clear(t, k)
  <2>1. ASSUME NEW i \in 1..Len(t)  PROVE ClearOf(t[i], Trail(t, k)[i - 1])
    <3>1. CASE i \in 1..Len(s)
      BY <1>5, <1>8, <3>1 DEF Clear
    <3>2. CASE i \notin 1..Len(s)
      <4>1. i = Len(s) + 1
        BY <1>2, <3>2
      <4> QED  BY <1>6, <1>8, <4>1
    <3> QED  BY <3>1, <3>2
  <2> QED  BY <2>1 DEF Clear
<1> QED  BY <1>1, <1>4, <1>7, <1>8

(* The last change is undone first. *)
LEMMA OrigAppend ==
    ASSUME NEW s \in Seq(Changes), NEW c \in Changes, NEW p \in Path
    PROVE  Orig(Append(s, c), p) = Orig(s, Back(c, p))
<1>1. PICK t \in Seq(Changes) : t = Append(s, c)
  BY AppendIs
<1>2. Len(t) = Len(s) + 1 /\ (\A i \in 1..Len(s) : t[i] = s[i]) /\ t[Len(s) + 1] = c /\ Len(s) \in Nat
  BY <1>1, AppendIs
<1>3. PICK q \in Path : q = Back(c, p)
  BY ForthTyped
<1>4. /\ BackTrail(t, p)[0] = p
      /\ \A i \in 1..Len(t) : BackTrail(t, p)[i] = Back(t[Len(t) + 1 - i], BackTrail(t, p)[i - 1])
  BY BackTrailIs
<1>5. /\ BackTrail(s, q)[0] = q
      /\ \A i \in 1..Len(s) : BackTrail(s, q)[i] = Back(s[Len(s) + 1 - i], BackTrail(s, q)[i - 1])
  BY BackTrailIs
<1> DEFINE T == {i \in 0..Len(s) : BackTrail(t, p)[i + 1] = BackTrail(s, q)[i]}
<1>6. 0 \in T
  <2>1. 1 \in 1..Len(t) /\ Len(t) + 1 - 1 = Len(s) + 1 /\ 1 - 1 = 0 /\ 0 + 1 = 1 /\ 0 \in 0..Len(s)
    BY <1>2
  <2>2. BackTrail(t, p)[1] = Back(t[Len(t) + 1 - 1], BackTrail(t, p)[1 - 1])
    BY <1>4, <2>1
  <2>3. BackTrail(t, p)[1] = q
    BY <1>2, <1>3, <1>4, <2>1, <2>2
  <2> QED  BY <1>5, <2>1, <2>3
<1>7. ASSUME NEW i \in 0..Len(s), i # Len(s), i \in T  PROVE i + 1 \in T
  <2>1. /\ i + 1 \in 1..Len(s) /\ i + 1 \in 0..Len(s) /\ (i + 1) + 1 \in 1..Len(t)
        /\ (i + 1) - 1 = i /\ ((i + 1) + 1) - 1 = i + 1
        /\ Len(t) + 1 - ((i + 1) + 1) = Len(s) - i /\ Len(s) + 1 - (i + 1) = Len(s) - i
        /\ Len(s) - i \in 1..Len(s)
    BY <1>2, <1>7
  <2>2. BackTrail(t, p)[(i + 1) + 1] = Back(t[Len(s) - i], BackTrail(t, p)[i + 1])
    BY <1>4, <2>1
  <2>3. BackTrail(s, q)[i + 1] = Back(s[Len(s) - i], BackTrail(s, q)[i])
    BY <1>5, <2>1
  <2>4. BackTrail(t, p)[(i + 1) + 1] = BackTrail(s, q)[i + 1]
    BY <1>2, <1>7, <2>1, <2>2, <2>3
  <2> QED  BY <2>1, <2>4
<1>8. \A i \in 0..Len(s) : i \in T
  <2> HIDE DEF T
  <2> QED  BY <1>2, <1>6, <1>7, UpTo
<1>9. BackTrail(t, p)[Len(s) + 1] = BackTrail(s, q)[Len(s)]
  <2>1. Len(s) \in 0..Len(s)
    BY <1>2
  <2> QED  BY <1>8, <2>1
<1> QED  BY <1>1, <1>2, <1>3, <1>9 DEF Orig

(* Induction over the journals: a set of them that has the empty one, and  *)
(* with one each that is longer by a change, has all.                      *)
LEMMA Journals ==
    ASSUME NEW T, <<>> \in T,
           \A s \in Seq(Changes), c \in Changes : s \in T => Append(s, c) \in T
    PROVE  \A s \in Seq(Changes) : s \in T
<1> SUFFICES ASSUME NEW b \in Seq(Changes), b \notin T  PROVE FALSE
  OBVIOUS
<1> DEFINE B == {n \in Nat : \E s \in Seq(Changes) : s \notin T /\ Len(s) = n}
<1>1. B \in SUBSET Nat /\ B # {}
  <2>1. Len(b) \in B
    OBVIOUS
  <2> QED  BY <2>1
<1>2. PICK n \in B : \A m \in B : n <= m
  <2> HIDE DEF B
  <2> QED  BY <1>1, Least
<1>3. PICK s \in Seq(Changes) : s \notin T /\ Len(s) = n
  BY <1>2
<1>4. s # <<>>
  BY <1>3
<1>5. PICK r \in Seq(Changes), c \in Changes : s = Append(r, c)
  BY <1>4, SequenceEmptyOrAppend
<1>6. Len(s) = Len(r) + 1 /\ Len(r) \in Nat
  BY <1>5, AppendIs
<1>7. r \notin T
  BY <1>3, <1>5
<1>8. Len(r) \in B
  BY <1>6, <1>7
<1> QED  BY <1>2, <1>3, <1>6, <1>8

(* original_of undoes effective for a key that is clear. *)
LEMMA OrigUndoes ==
    ASSUME NEW s \in Seq(Changes), NEW k \in Path, Clear(s, k)
    PROVE  Orig(s, Eff(s, k)) = k
<1> DEFINE T == {r \in Seq(Changes) : Clear(r, k) => Orig(r, Eff(r, k)) = k}
<1>1. <<>> \in T
  BY EffEmpty
<1>2. ASSUME NEW r \in Seq(Changes), NEW c \in Changes, r \in T  PROVE Append(r, c) \in T
  <2>1. Append(r, c) \in Seq(Changes)
    BY AppendIs
  <2>2. ASSUME Clear(Append(r, c), k)  PROVE Orig(Append(r, c), Eff(Append(r, c), k)) = k
    <3>1. Clear(r, k) /\ ClearOf(c, Eff(r, k)) /\ Eff(Append(r, c), k) = Forth(c, Eff(r, k))
      BY <2>2, EffAppend
    <3>2. PICK p \in Path : p = Eff(r, k)
      BY EffTyped
    <3>3. Forth(c, p) \in Path
      BY ForthTyped
    <3>4. Orig(Append(r, c), Forth(c, p)) = Orig(r, Back(c, Forth(c, p)))
      BY <3>3, OrigAppend
    <3>5. Back(c, Forth(c, p)) = p
      <4>1. CASE c.kind # "renamed"
        BY <4>1 DEF Forth, Back
      <4>2. CASE c.kind = "renamed" /\ IsPrefix(c.from, p)
        <5>1. c.from \in Path /\ c.to \in Path
          BY <4>2, ChangeTypes
        <5>2. Moved(Moved(p, c.from, c.to), c.to, c.from) = p
          BY <4>2, <5>1, MovedBack
        <5> QED  BY <4>2, <5>2 DEF Forth, Back
      <4>3. CASE c.kind = "renamed" /\ ~IsPrefix(c.from, p)
        <5>1. ~IsPrefix(c.to, p)
          BY <3>1, <3>2, <4>3 DEF ClearOf
        <5> QED  BY <4>3, <5>1, MovedOutside DEF Forth, Back
      <4> QED  BY <4>1, <4>2, <4>3
    <3>6. Orig(r, p) = k
      BY <1>2, <3>1, <3>2
    <3> QED  BY <3>1, <3>2, <3>4, <3>5, <3>6
  <2> QED  BY <2>1, <2>2
<1>3. s \in T
  <2> HIDE DEF T
  <2> QED  BY <1>1, <1>2, Journals
<1> QED  BY <1>3

(* Without renames a key is shown where it is stored. *)
LEMMA NoRenames ==
    ASSUME NEW s \in Seq(Changes), NEW k \in Path, \A i \in 1..Len(s) : s[i].kind # "renamed"
    PROVE  Eff(s, k) = k /\ Orig(s, k) = k
<1> DEFINE Plain(r) == \A i \in 1..Len(r) : r[i].kind # "renamed"
           T == {r \in Seq(Changes) : Plain(r) => Eff(r, k) = k /\ Orig(r, k) = k}
<1>1. <<>> \in T
  BY EffEmpty
<1>2. ASSUME NEW r \in Seq(Changes), NEW c \in Changes, r \in T  PROVE Append(r, c) \in T
  <2>1. PICK t \in Seq(Changes) : t = Append(r, c)
    BY AppendIs
  <2>2. Len(t) = Len(r) + 1 /\ (\A i \in 1..Len(r) : t[i] = r[i]) /\ t[Len(r) + 1] = c /\ Len(r) \in Nat
    BY <2>1, AppendIs
  <2>3. ASSUME Plain(t)  PROVE Eff(t, k) = k /\ Orig(t, k) = k
    <3>1. c.kind # "renamed" /\ Plain(r)
      <4>1. Len(r) + 1 \in 1..Len(t) /\ \A i \in 1..Len(r) : i \in 1..Len(t)
        BY <2>2
      <4> QED  BY <2>2, <2>3, <4>1
    <3>2. Forth(c, k) = k /\ Back(c, k) = k
      BY <3>1 DEF Forth, Back
    <3>3. Eff(r, k) = k /\ Orig(r, k) = k
      BY <1>2, <3>1
    <3> QED  BY <2>1, <3>2, <3>3, EffAppend, OrigAppend
  <2> QED  BY <2>1, <2>3
<1>3. s \in T
  <2> HIDE DEF T
  <2> QED  BY <1>1, <1>2, Journals
<1> QED  BY <1>3

-----------------------------------------------------------------------------
(* What a journal deletes and adds, and the journal without an addition. *)

DeletedIn(s, k) == \E c \in ToSet(s) : c.kind = "deleted" /\ IsPrefix(c.key, k)
AddedIn(s) == {c.key : c \in {d \in ToSet(s) : d.kind = "added"}}

(* The set of a journal's changes. *)
LEMMA ChangesOf ==
    ASSUME NEW s \in Seq(Changes)
    PROVE  ToSet(s) \subseteq Changes /\ \A i \in 1..Len(s) : s[i] \in ToSet(s)
<1>1. DOMAIN s = 1..Len(s) /\ \A i \in 1..Len(s) : s[i] \in Changes
  OBVIOUS
<1> QED  BY <1>1 DEF ToSet

(* What one more change deletes and adds. *)
LEMMA Recorded ==
    ASSUME NEW s \in Seq(Changes), NEW c \in Changes
    PROVE  /\ ToSet(Append(s, c)) = ToSet(s) \cup {c}
           /\ \A k : DeletedIn(Append(s, c), k) <=>
                        DeletedIn(s, k) \/ (c.kind = "deleted" /\ IsPrefix(c.key, k))
           /\ AddedIn(Append(s, c)) = AddedIn(s) \cup (IF c.kind = "added" THEN {c.key} ELSE {})
<1>1. PICK t \in Seq(Changes) : t = Append(s, c)
  BY AppendIs
<1>2. Len(t) = Len(s) + 1 /\ (\A i \in 1..Len(s) : t[i] = s[i]) /\ t[Len(s) + 1] = c /\ Len(s) \in Nat
  BY <1>1, AppendIs
<1>3. DOMAIN s = 1..Len(s) /\ DOMAIN t = 1..(Len(s) + 1)
  BY <1>2
<1>4. ToSet(t) = ToSet(s) \cup {c}
  <2>1. \A i \in 1..(Len(s) + 1) : i \in 1..Len(s) \/ i = Len(s) + 1
    BY <1>2
  <2>2. Len(s) + 1 \in 1..(Len(s) + 1) /\ \A i \in 1..Len(s) : i \in 1..(Len(s) + 1)
    BY <1>2
  <2> QED  BY <1>2, <1>3, <2>1, <2>2 DEF ToSet
<1>5. \A k : DeletedIn(t, k) <=> DeletedIn(s, k) \/ (c.kind = "deleted" /\ IsPrefix(c.key, k))
  BY <1>4 DEF DeletedIn
<1>6. AddedIn(t) = AddedIn(s) \cup (IF c.kind = "added" THEN {c.key} ELSE {})
  BY <1>4 DEF AddedIn
<1> QED  BY <1>1, <1>4, <1>5, <1>6

(* The recursion of forget_addition. *)
LEMMA KeptIs ==
    ASSUME NEW s \in Seq(Changes), NEW key
    PROVE  \E f \in [0..Len(s) -> Seq(Changes)] :
              /\ KeptWithout(s, key) = f[Len(s)]
              /\ f[0] = <<>>
              /\ \A i \in 1..Len(s) : f[i] = IF Forgotten(s[i], key) THEN f[i - 1]
                                             ELSE Append(f[i - 1], s[i])
<1>1. Len(s) \in Nat /\ \A i \in 1..Len(s) : s[i] \in Changes
  OBVIOUS
<1> DEFINE F == [i \in 1..Len(s) |-> [r \in Seq(Changes) |->
                    IF Forgotten(s[i], key) THEN r ELSE Append(r, s[i])]]
           t == CHOOSE kept : kept = [i \in 0..Len(s) |->
                   IF i = 0 THEN <<>>
                   ELSE IF Forgotten(s[i], key) THEN kept[i - 1] ELSE Append(kept[i - 1], s[i])]
<1>2. F \in [1..Len(s) -> [Seq(Changes) -> Seq(Changes)]]
  BY <1>1, AppendIs
<1>0. <<>> \in Seq(Changes)
  OBVIOUS
<1>3. PICK g \in [0..Len(s) -> Seq(Changes)] : Iterates(g, <<>>, Len(s), F)
  <2> HIDE DEF F
  <2> QED  BY <1>0, <1>1, <1>2, IterationExists
<1>4. /\ g[0] = <<>>
      /\ \A i \in 1..Len(s) : g[i] = IF Forgotten(s[i], key) THEN g[i - 1] ELSE Append(g[i - 1], s[i])
  <2>1. g[0] = <<>> /\ \A i \in 1..Len(s) : g[i] = F[i][g[i - 1]]
    <3> HIDE DEF F
    <3> QED  BY <1>3 DEF Iterates
  <2>2. \A i \in 1..Len(s) : g[i - 1] \in Seq(Changes)
    BY <1>1
  <2> QED  BY <2>1, <2>2
<1>5. g = [i \in 0..Len(s) |-> IF i = 0 THEN <<>>
              ELSE IF Forgotten(s[i], key) THEN g[i - 1] ELSE Append(g[i - 1], s[i])]
  <2>1. g = [i \in 0..Len(s) |-> g[i]]
    OBVIOUS
  <2>2. \A i \in 0..Len(s) : g[i] = IF i = 0 THEN <<>>
              ELSE IF Forgotten(s[i], key) THEN g[i - 1] ELSE Append(g[i - 1], s[i])
    <3> TAKE i \in 0..Len(s)
    <3>1. CASE i = 0
      BY <1>4, <3>1
    <3>2. CASE i # 0
      <4>1. i \in 1..Len(s)
        BY <1>1, <3>2
      <4>2. g[i] = IF Forgotten(s[i], key) THEN g[i - 1] ELSE Append(g[i - 1], s[i])
        BY <1>4, <4>1
      <4> QED  BY <3>2, <4>2
    <3> QED  BY <3>1, <3>2
  <2> QED  BY <2>1, <2>2
<1>6. t = [i \in 0..Len(s) |-> IF i = 0 THEN <<>>
              ELSE IF Forgotten(s[i], key) THEN t[i - 1] ELSE Append(t[i - 1], s[i])]
  BY <1>5
<1>7. KeptWithout(s, key) = t[Len(s)]
  BY DEF KeptWithout
<1> HIDE DEF t
<1>8. /\ t[0] = <<>>
      /\ \A i \in 1..Len(s) : t[i] = IF Forgotten(s[i], key) THEN t[i - 1] ELSE Append(t[i - 1], s[i])
  <2>1. 0 \in 0..Len(s) /\ \A i \in 1..Len(s) : i \in 0..Len(s) /\ i # 0
    BY <1>1
  <2> QED  BY <1>6, <2>1
<1>9. \A i \in 1..Len(s) : t[i - 1] \in Seq(Changes) => t[i] = F[i][t[i - 1]]
  BY <1>8
<1>10. \A i \in 0..Len(s) : t[i] = g[i]
  <2> HIDE DEF F
  <2>1. Follows(t, Seq(Changes), <<>>, Len(s), F)
    BY <1>8, <1>9 DEF Follows
  <2>2. Agree(t, g, Len(s))
    BY <1>0, <1>1, <1>2, <1>3, <2>1, IterationUnique
  <2> QED  BY <2>2 DEF Agree
<1>11. KeptWithout(s, key) = g[Len(s)]
  BY <1>1, <1>7, <1>10
<1> HIDE DEF F
<1> QED  BY <1>4, <1>11

(* It keeps or drops each change by itself. *)
LEMMA KeptAppend ==
    ASSUME NEW s \in Seq(Changes), NEW c \in Changes, NEW key
    PROVE  /\ KeptWithout(<<>>, key) = <<>>
           /\ KeptWithout(s, key) \in Seq(Changes)
           /\ KeptWithout(Append(s, c), key) = IF Forgotten(c, key) THEN KeptWithout(s, key)
                                               ELSE Append(KeptWithout(s, key), c)
<1>1. PICK t \in Seq(Changes) : t = Append(s, c)
  BY AppendIs
<1>2. Len(t) = Len(s) + 1 /\ (\A i \in 1..Len(s) : t[i] = s[i]) /\ t[Len(s) + 1] = c /\ Len(s) \in Nat
  BY <1>1, AppendIs
<1>3. PICK f \in [0..Len(s) -> Seq(Changes)] :
         /\ KeptWithout(s, key) = f[Len(s)]
         /\ f[0] = <<>>
         /\ \A i \in 1..Len(s) : f[i] = IF Forgotten(s[i], key) THEN f[i - 1] ELSE Append(f[i - 1], s[i])
  BY KeptIs
<1>4. PICK g \in [0..Len(t) -> Seq(Changes)] :
         /\ KeptWithout(t, key) = g[Len(t)]
         /\ g[0] = <<>>
         /\ \A i \in 1..Len(t) : g[i] = IF Forgotten(t[i], key) THEN g[i - 1] ELSE Append(g[i - 1], t[i])
  BY KeptIs
<1> DEFINE T == {i \in 0..Len(s) : g[i] = f[i]}
<1>5. 0 \in T
  BY <1>2, <1>3, <1>4
<1>6. ASSUME NEW i \in 0..Len(s), i # Len(s), i \in T  PROVE i + 1 \in T
  <2>1. i + 1 \in 1..Len(s) /\ i + 1 \in 1..Len(t) /\ i + 1 \in 0..Len(s) /\ (i + 1) - 1 = i
    BY <1>2, <1>6
  <2>2. t[i + 1] = s[i + 1] /\ g[i] = f[i]
    BY <1>2, <1>6, <2>1
  <2>3. g[i + 1] = IF Forgotten(t[i + 1], key) THEN g[i] ELSE Append(g[i], t[i + 1])
    BY <1>4, <2>1
  <2>4. f[i + 1] = IF Forgotten(s[i + 1], key) THEN f[i] ELSE Append(f[i], s[i + 1])
    BY <1>3, <2>1
  <2> QED  BY <2>1, <2>2, <2>3, <2>4
<1>7. \A i \in 0..Len(s) : i \in T
  <2> HIDE DEF T
  <2> QED  BY <1>2, <1>5, <1>6, UpTo
<1>8. g[Len(s)] = f[Len(s)] /\ f[Len(s)] \in Seq(Changes)
  <2>1. Len(s) \in 0..Len(s)
    BY <1>2
  <2> QED  BY <1>7, <2>1
<1>9. g[Len(t)] = IF Forgotten(c, key) THEN g[Len(s)] ELSE Append(g[Len(s)], c)
  <2>1. Len(t) \in 1..Len(t) /\ Len(t) - 1 = Len(s)
    BY <1>2
  <2>2. g[Len(t)] = IF Forgotten(t[Len(t)], key) THEN g[Len(t) - 1] ELSE Append(g[Len(t) - 1], t[Len(t)])
    BY <1>4, <2>1
  <2> QED  BY <1>2, <2>1, <2>2
<1>10. KeptWithout(<<>>, key) = <<>>
  <2>1. <<>> \in Seq(Changes) /\ Len(<<>>) = 0
    OBVIOUS
  <2> PICK r \in Seq(Changes) : r = <<>> /\ Len(r) = 0
    BY <2>1
  <2>2. PICK h \in [0..Len(r) -> Seq(Changes)] : KeptWithout(r, key) = h[Len(r)] /\ h[0] = <<>>
    BY KeptIs
  <2> QED  BY <2>2
<1> QED  BY <1>1, <1>3, <1>4, <1>8, <1>9, <1>10

(* What it keeps is what is not forgotten. *)
LEMMA KeptHolds ==
    ASSUME NEW s \in Seq(Changes), NEW key
    PROVE  ToSet(KeptWithout(s, key)) = {c \in ToSet(s) : ~Forgotten(c, key)}
<1> DEFINE T == {r \in Seq(Changes) :
                    ToSet(KeptWithout(r, key)) = {c \in ToSet(r) : ~Forgotten(c, key)}}
<1>1. <<>> \in T
  <2>1. <<>> \in Seq(Changes) /\ DOMAIN <<>> = {} /\ ToSet(<<>>) = {}
    BY DEF ToSet
  <2>2. Added(<<>>) \in Changes
    BY EmptyPath, ChangeTypes
  <2>3. KeptWithout(<<>>, key) = <<>>
    BY <2>1, <2>2, KeptAppend
  <2> QED  BY <2>1, <2>3
<1>2. ASSUME NEW r \in Seq(Changes), NEW c \in Changes, r \in T  PROVE Append(r, c) \in T
  <2>1. Append(r, c) \in Seq(Changes) /\ ToSet(Append(r, c)) = ToSet(r) \cup {c}
    BY AppendIs, Recorded
  <2>2. PICK q \in Seq(Changes) : q = KeptWithout(r, key)
    BY KeptAppend
  <2>3. ToSet(Append(q, c)) = ToSet(q) \cup {c}
    BY Recorded
  <2>4. KeptWithout(Append(r, c), key) = IF Forgotten(c, key) THEN q ELSE Append(q, c)
    BY <2>2, KeptAppend
  <2>5. ToSet(q) = {d \in ToSet(r) : ~Forgotten(d, key)}
    BY <1>2, <2>2
  <2>6. ToSet(KeptWithout(Append(r, c), key)) = {d \in ToSet(Append(r, c)) : ~Forgotten(d, key)}
    <3>1. CASE Forgotten(c, key)
      BY <2>1, <2>4, <2>5, <3>1
    <3>2. CASE ~Forgotten(c, key)
      BY <2>1, <2>3, <2>4, <2>5, <3>2
    <3> QED  BY <3>1, <3>2
  <2> QED  BY <2>1, <2>6
<1>3. s \in T
  <2> HIDE DEF T
  <2> QED  BY <1>1, <1>2, Journals
<1> QED  BY <1>3

(* The renames that start at key move nothing that is k. *)
Untouched(s, key, k) ==
    \A i \in 1..Len(s) : s[i].kind = "renamed" /\ s[i].from = key => ~IsPrefix(key, Trail(s, k)[i - 1])

(* A key that the dropped renames do not move is where it was. *)
LEMMA KeptSame ==
    ASSUME NEW s \in Seq(Changes), NEW key \in Path, NEW k \in Path, Untouched(s, key, k)
    PROVE  /\ Eff(KeptWithout(s, key), k) = Eff(s, k)
           /\ Clear(s, k) => Clear(KeptWithout(s, key), k)
<1> DEFINE Same(r) == /\ Eff(KeptWithout(r, key), k) = Eff(r, k)
                      /\ Clear(r, k) => Clear(KeptWithout(r, key), k)
           T == {r \in Seq(Changes) : Untouched(r, key, k) => Same(r)}
<1>1. <<>> \in T
  <2>1. <<>> \in Seq(Changes) /\ Added(<<>>) \in Changes
    BY EmptyPath, ChangeTypes
  <2>2. KeptWithout(<<>>, key) = <<>>
    BY <2>1, KeptAppend
  <2> QED  BY <2>1, <2>2
<1>2. ASSUME NEW r \in Seq(Changes), NEW c \in Changes, r \in T  PROVE Append(r, c) \in T
  <2>1. PICK t \in Seq(Changes) : t = Append(r, c)
    BY AppendIs
  <2>2. Len(t) = Len(r) + 1 /\ (\A i \in 1..Len(r) : t[i] = r[i]) /\ t[Len(r) + 1] = c /\ Len(r) \in Nat
    BY <2>1, AppendIs
  <2>3. /\ \A i \in 0..Len(r) : Trail(t, k)[i] = Trail(r, k)[i]
        /\ Eff(t, k) = Forth(c, Eff(r, k))
        /\ Clear(t, k) <=> Clear(r, k) /\ ClearOf(c, Eff(r, k))
    BY <2>1, TrailAppend, EffAppend
  <2>4. ASSUME Untouched(t, key, k)  PROVE Same(t)
    <3>1. Untouched(r, key, k)
      <4>1. ASSUME NEW i \in 1..Len(r), r[i].kind = "renamed", r[i].from = key
            PROVE  ~IsPrefix(key, Trail(r, k)[i - 1])
        <5>1. i \in 1..Len(t) /\ i - 1 \in 0..Len(r) /\ t[i] = r[i]
          BY <2>2
        <5>2. ~IsPrefix(key, Trail(t, k)[i - 1])
          BY <2>4, <4>1, <5>1 DEF Untouched
        <5> QED  BY <2>3, <5>1, <5>2
      <4> QED  BY <4>1 DEF Untouched
    <3>2. c.kind = "renamed" /\ c.from = key => ~IsPrefix(key, Eff(r, k))
      <4>1. Len(r) + 1 \in 1..Len(t) /\ (Len(r) + 1) - 1 = Len(r) /\ Len(r) \in 0..Len(r)
        BY <2>2
      <4>2. c.kind = "renamed" /\ c.from = key => ~IsPrefix(key, Trail(t, k)[(Len(r) + 1) - 1])
        BY <2>2, <2>4, <4>1 DEF Untouched
      <4> QED  BY <2>3, <4>1, <4>2 DEF Eff
    <3>3. Same(r)
      BY <1>2, <3>1
    <3>4. PICK q \in Seq(Changes) : q = KeptWithout(r, key)
      BY KeptAppend
    <3>5. KeptWithout(t, key) = IF Forgotten(c, key) THEN q ELSE Append(q, c)
      BY <2>1, <3>4, KeptAppend
    <3>6. CASE ~Forgotten(c, key)
      <4>1. Eff(Append(q, c), k) = Forth(c, Eff(q, k)) /\ (Clear(Append(q, c), k) <=> Clear(q, k) /\ ClearOf(c, Eff(q, k)))
        BY EffAppend
      <4>2. Eff(q, k) = Eff(r, k) /\ (Clear(r, k) => Clear(q, k))
        BY <3>3, <3>4
      <4> QED  BY <2>3, <3>5, <3>6, <4>1, <4>2
    <3>7. CASE Forgotten(c, key)
      <4>1. Forth(c, Eff(r, k)) = Eff(r, k)
        <5>1. CASE c.kind = "renamed" /\ c.from = key
          <6>1. ~IsPrefix(c.from, Eff(r, k))
            BY <3>2, <5>1
          <6> QED  BY <5>1, <6>1, MovedOutside DEF Forth
        <5>2. CASE c = Added(key)
          BY <5>2 DEF Forth, Added
        <5> QED  BY <3>7, <5>1, <5>2 DEF Forgotten
      <4>2. Eff(q, k) = Eff(r, k) /\ (Clear(r, k) => Clear(q, k))
        BY <3>3, <3>4
      <4> QED  BY <2>3, <3>5, <3>7, <4>1, <4>2
    <3> QED  BY <3>6, <3>7
  <2> QED  BY <2>1, <2>4
<1>3. s \in T
  <2> HIDE DEF T
  <2> QED  BY <1>1, <1>2, Journals
<1> QED  BY <1>3

-----------------------------------------------------------------------------
(* The invariant. *)

(* Type correctness. *)
JournalTypeInv ==
    /\ index \in Indexes
    /\ journal \in Seq(Changes)
    /\ staging \in [DOMAIN staging -> Nat] /\ DOMAIN staging \subseteq Path
    /\ broughtIn \in Nat
    /\ made \subseteq [at : Path, key : Path, copy : Nat, implied : BOOLEAN]
    /\ odd \subseteq {"nowhere", "taken", "renamed to", "straddled", "unadded"}

(* No addition has the key of a member the archive stores, a member is     *)
(* replaced that it stores, and the copies they need are staged.           *)
KeysApart ==
    /\ Keys \cap Additions = {}
    /\ Additions \subseteq (DOMAIN staging) \ {<<>>}
    /\ \A k : Has(Replaced(k)) => k \in Keys /\ k \in DOMAIN staging

Entries == {e \in index : ~IsDeleted(e.key)}

Clean(reasons) == odd \cap reasons = {}

(* What the user made is the members, each where the journal takes it. *)
AsPlanned(e) == [at |-> Effective(e.key), key |-> e.key, implied |-> e.implied,
                 copy |-> IF Has(Replaced(e.key)) THEN staging[e.key] ELSE 0]

Image == {AsPlanned(e) : e \in Entries} \cup {File(Effective(p), staging[p]) : p \in Additions}

MadeIsLive == Clean({"straddled", "unadded"}) => made = Image

(* A member is at the top or in what another one is shown as. *)
In(k, kinds) ==
    \/ Parent(Effective(k)) = <<>>
    \/ \E e \in Entries : e.kind \in kinds /\ Effective(e.key) = Parent(Effective(k))

Rooted(kinds) ==
    Clean({"nowhere", "straddled", "unadded"}) =>
        \A k \in Live : In(k, kinds) /\ Len(Effective(k)) <= MaxDepth

(* Undoing the renames gives every member its key back. *)
AllClear ==
    Clean({"renamed to", "taken", "unadded"}) => \A k \in Live : Clear(journal, k)

JournalInv(kinds) ==
    JournalTypeInv /\ KeysApart /\ MadeIsLive /\ Rooted(kinds) /\ AllClear

-----------------------------------------------------------------------------
(* What is shown. *)

LiveRows == {Row(e.key, Effective(e.key), e.kind) : e \in Entries}
            \cup {Row(p, Effective(p), "file") : p \in Additions}

(* Keys and places are paths. *)
LEMMA MemberTypes ==
    ASSUME JournalTypeInv
    PROVE  /\ \A e \in index : /\ e.key \in Path \ {<<>>} /\ e.key \in Keys /\ Len(e.key) <= MaxDepth
                               /\ e.kind \in {"dir", "file"} /\ e.implied \in BOOLEAN
           /\ Keys \subseteq Path \ {<<>>}
           /\ Additions \subseteq Path
           /\ \A k \in Path : Effective(k) \in Path /\ (k # <<>> => Effective(k) # <<>>)
           /\ \A k \in Path : OriginalOf(k) \in Path
<1>1. \A e \in index : /\ e.key \in Path \ {<<>>} /\ Len(e.key) <= MaxDepth
                       /\ e.kind \in {"dir", "file"} /\ e.implied \in BOOLEAN
  BY JournalAssumption DEF JournalTypeInv, Path
<1>2. ASSUME NEW p \in Additions  PROVE p \in Path
  <2>1. PICK c \in ToSet(journal) : c.kind = "added" /\ p = c.key
    BY <1>2 DEF Additions
  <2>2. c \in Changes
    BY <2>1, ChangesOf DEF JournalTypeInv
  <2> QED  BY <2>1, <2>2, ChangeTypes
<1>3. \A k \in Path : Effective(k) \in Path /\ (k # <<>> => Effective(k) # <<>>) /\ OriginalOf(k) \in Path
  <2>1. journal \in Seq(Changes)
    BY DEF JournalTypeInv
  <2>2. \A k \in Path : Effective(k) = Eff(journal, k) /\ OriginalOf(k) = Orig(journal, k)
    BY DEF Effective, OriginalOf, Eff, Orig
  <2> QED  BY <2>1, <2>2, EffTyped
<1> QED  BY <1>1, <1>2, <1>3 DEF Keys

(* Rows and members are the same thing. *)
LEMMA LiveIs ==
    ASSUME JournalTypeInv, KeysApart
    PROVE  /\ Live \subseteq Path \ {<<>>}
           /\ \A k : k \in Live <=> (\E e \in Entries : e.key = k) \/ k \in Additions
           /\ \A r \in LiveRows : r.key \in Live /\ r.at = Effective(r.key) /\ r.at \in Path \ {<<>>}
           /\ \A r \in LiveRows : r.kind = "dir" =>
                 \E e \in Entries : e.kind = "dir" /\ Effective(e.key) = r.at
           /\ \A e \in Entries : \E r \in LiveRows :
                 r.key = e.key /\ r.at = Effective(e.key) /\ r.kind = e.kind
           /\ \A k \in Live : \E r \in LiveRows : r.key = k /\ r.at = Effective(k)
<1>1. \A k : k \in Live <=> (\E e \in Entries : e.key = k) \/ k \in Additions
  BY DEF Live, Entries
<1>2. Live \subseteq Path \ {<<>>}
  BY <1>1, MemberTypes DEF Entries, KeysApart
<1>3. \A key, shown, kind : /\ Row(key, shown, kind).at = shown /\ Row(key, shown, kind).key = key
                            /\ Row(key, shown, kind).kind = kind
  BY DEF Row
<1>4. ASSUME NEW r \in LiveRows
      PROVE  /\ r.key \in Live /\ r.at = Effective(r.key)
             /\ r.kind = "dir" => \E e \in Entries : e.kind = "dir" /\ Effective(e.key) = r.at
  <2>1. CASE \E e \in Entries : r = Row(e.key, Effective(e.key), e.kind)
    BY <1>1, <1>3, <2>1
  <2>2. CASE \E p \in Additions : r = Row(p, Effective(p), "file")
    BY <1>1, <1>3, <2>2
  <2> QED  BY <1>4, <2>1, <2>2 DEF LiveRows
<1>5. \A r \in LiveRows : r.at \in Path \ {<<>>}
  BY <1>2, <1>4, MemberTypes
<1>6. ASSUME NEW e \in Entries
      PROVE  \E r \in LiveRows : r.key = e.key /\ r.at = Effective(e.key) /\ r.kind = e.kind
  <2>1. Row(e.key, Effective(e.key), e.kind) \in LiveRows
    BY DEF LiveRows
  <2> QED  BY <1>3, <2>1
<1>7. ASSUME NEW k \in Live  PROVE \E r \in LiveRows : r.key = k /\ r.at = Effective(k)
  <2>1. CASE \E e \in Entries : e.key = k
    BY <1>6, <2>1
  <2>2. CASE k \in Additions
    <3>1. Row(k, Effective(k), "file") \in LiveRows
      BY <2>2 DEF LiveRows
    <3> QED  BY <1>3, <3>1
  <2> QED  BY <1>1, <2>1, <2>2
<1> QED  BY <1>1, <1>2, <1>4, <1>5, <1>6, <1>7

(* listing_for, with renames and without: the members whose place is in    *)
(* the directory.                                                          *)
LEMMA Listing ==
    ASSUME JournalTypeInv, KeysApart, NEW dir \in Path
    PROVE  ListingFor(dir) = {r \in LiveRows : Parent(r.at) = dir}
<1>1. CASE HasRenames
  BY <1>1 DEF ListingFor, LiveRows, Entries
<1>2. CASE ~HasRenames
  <2>1. journal \in Seq(Changes) /\ \A i \in 1..Len(journal) : journal[i].kind # "renamed"
    BY <1>2, ChangesOf DEF HasRenames, JournalTypeInv
  <2>2. \A k \in Path : Effective(k) = k /\ OriginalOf(k) = k
    BY <2>1, NoRenames DEF Effective, OriginalOf, Eff, Orig
  <2>3. \A e \in index : e.key \in Path \ {<<>>}
    BY MemberTypes
  <2>4. ASSUME NEW e \in index
        PROVE  e \in ChildrenOf(dir) <=> Parent(e.key) = dir
    <3>1. PICK p \in Path \ {<<>>} : p = e.key
      BY <2>3
    <3>2. PICK q \in Path : q = Parent(p) /\ Len(q) = Len(p) - 1 /\ IsPrefix(q, p)
      BY ParentOf
    <3>3. Len(p) \in Nat /\ Len(q) \in Nat /\ Len(dir) \in Nat
      BY EmptyPath
    <3>4. ASSUME Len(p) = Len(dir) + 1, IsPrefix(dir, p)  PROVE q = dir
      <4>1. IsPrefix(dir, q)
        BY <3>2, <3>3, <3>4, PrefixOrder
      <4> QED  BY <3>2, <3>3, <3>4, <4>1, PrefixOrder
    <3> QED  BY <3>1, <3>2, <3>3, <3>4 DEF ChildrenOf
  <2>5. ChildrenOf(dir) = {e \in index : Parent(e.key) = dir}
    BY <2>4 DEF ChildrenOf
  <2>6. {r \in {Row(e.key, e.key, e.kind) : e \in {f \in ChildrenOf(dir) : ~IsDeleted(f.key)}} :
            Parent(r.at) = dir}
        = {r \in {Row(e.key, Effective(e.key), e.kind) : e \in Entries} : Parent(r.at) = dir}
    <3>1. \A e \in Entries : Effective(e.key) = e.key
      BY <2>2, <2>3 DEF Entries
    <3>2. \A e : e \in {f \in ChildrenOf(dir) : ~IsDeleted(f.key)} <=> e \in Entries /\ Parent(e.key) = dir
      BY <2>5 DEF Entries
    <3>3. \A e : Row(e.key, e.key, e.kind).at = e.key
      BY DEF Row
    <3> QED  BY <3>1, <3>2, <3>3
  <2>7. ListingFor(dir) =
           {r \in {Row(e.key, e.key, e.kind) : e \in {f \in ChildrenOf(dir) : ~IsDeleted(f.key)}} :
               Parent(r.at) = dir}
           \cup {r \in {Row(p, Effective(p), "file") : p \in Additions} : Parent(r.at) = dir}
    BY <1>2, <2>2 DEF ListingFor
  <2>8. {r \in LiveRows : Parent(r.at) = dir} =
           {r \in {Row(e.key, Effective(e.key), e.kind) : e \in Entries} : Parent(r.at) = dir}
           \cup {r \in {Row(p, Effective(p), "file") : p \in Additions} : Parent(r.at) = dir}
    BY DEF LiveRows
  <2> QED  BY <2>6, <2>7, <2>8
<1> QED  BY <1>1, <1>2

(* A row is shown in its parent. *)
LEMMA Shown ==
    ASSUME JournalTypeInv, KeysApart, NEW p \in Path, p # <<>>
    PROVE  /\ ShownAt(p) = {r \in LiveRows : r.at = p}
           /\ ShownAt(p) = {} <=> \A k \in Live : Effective(k) # p
           /\ ShowsDir(p) <=> \E e \in Entries : e.kind = "dir" /\ Effective(e.key) = p
<1>1. ShownAt(p) = {r \in LiveRows : r.at = p}
  BY ParentOf, Listing DEF ShownAt
<1>2. ShownAt(p) = {} <=> \A k \in Live : Effective(k) # p
  BY <1>1, LiveIs
<1>3. ShowsDir(p) <=> \E r \in LiveRows : r.at = p /\ r.kind = "dir"
  BY <1>1 DEF ShowsDir
<1>4. ASSUME NEW r \in LiveRows, r.at = p, r.kind = "dir"
      PROVE  \E e \in Entries : e.kind = "dir" /\ Effective(e.key) = p
  BY <1>4, LiveIs
<1>5. ASSUME NEW e \in Entries, e.kind = "dir", Effective(e.key) = p
      PROVE  \E r \in LiveRows : r.at = p /\ r.kind = "dir"
  BY <1>5, LiveIs
<1> QED  BY <1>1, <1>2, <1>3, <1>4, <1>5

(* What a user can walk to. *)
LEMMA RowsIs ==
    ASSUME JournalTypeInv, KeysApart
    PROVE  \E f \in [0..MaxDepth -> SUBSET LiveRows] :
              /\ Rows = f[MaxDepth]
              /\ f[0] = ListingFor(<<>>)
              /\ \A i \in 1..MaxDepth : f[i] = Walk(f[i - 1])
<1>1. MaxDepth \in Nat
  BY JournalAssumption
<1>2. ListingFor(<<>>) \in SUBSET LiveRows
  BY EmptyPath, Listing
<1>3. ASSUME NEW R \in SUBSET LiveRows  PROVE Walk(R) \in SUBSET LiveRows
  <2>1. \A r \in R : r.at \in Path
    BY LiveIs
  <2>2. \A r \in R : ListingFor(r.at) \subseteq LiveRows
    BY <2>1, Listing
  <2> QED  BY <2>2 DEF Walk
<1> DEFINE F == [i \in 1..MaxDepth |-> [R \in SUBSET LiveRows |-> Walk(R)]]
           t == CHOOSE walked : walked = [i \in 0..MaxDepth |->
                   IF i = 0 THEN ListingFor(<<>>) ELSE Walk(walked[i - 1])]
<1>4. F \in [1..MaxDepth -> [SUBSET LiveRows -> SUBSET LiveRows]]
  BY <1>3
<1>5. PICK g \in [0..MaxDepth -> SUBSET LiveRows] : Iterates(g, ListingFor(<<>>), MaxDepth, F)
  <2> HIDE DEF F
  <2> QED  BY <1>1, <1>2, <1>4, IterationExists
<1>6. g[0] = ListingFor(<<>>) /\ \A i \in 1..MaxDepth : g[i] = Walk(g[i - 1])
  <2>1. g[0] = ListingFor(<<>>) /\ \A i \in 1..MaxDepth : g[i] = F[i][g[i - 1]]
    <3> HIDE DEF F
    <3> QED  BY <1>5 DEF Iterates
  <2>2. \A i \in 1..MaxDepth : g[i - 1] \in SUBSET LiveRows
    <3>1. \A i \in 1..MaxDepth : i - 1 \in 0..MaxDepth
      BY <1>1
    <3> QED  BY <3>1
  <2> QED  BY <2>1, <2>2
<1>7. g = [i \in 0..MaxDepth |-> IF i = 0 THEN ListingFor(<<>>) ELSE Walk(g[i - 1])]
  <2>1. g = [i \in 0..MaxDepth |-> g[i]]
    OBVIOUS
  <2>2. \A i \in 0..MaxDepth : g[i] = IF i = 0 THEN ListingFor(<<>>) ELSE Walk(g[i - 1])
    <3>1. \A i \in 0..MaxDepth : i # 0 => i \in 1..MaxDepth
      BY <1>1
    <3> QED  BY <1>6, <3>1
  <2> QED  BY <2>1, <2>2
<1>8. t = [i \in 0..MaxDepth |-> IF i = 0 THEN ListingFor(<<>>) ELSE Walk(t[i - 1])]
  BY <1>7
<1>9. Rows = t[MaxDepth]
  BY DEF Rows
<1> HIDE DEF t
<1>10. t[0] = ListingFor(<<>>) /\ \A i \in 1..MaxDepth : t[i] = Walk(t[i - 1])
  <2>1. 0 \in 0..MaxDepth /\ \A i \in 1..MaxDepth : i \in 0..MaxDepth /\ i # 0
    BY <1>1
  <2> QED  BY <1>8, <2>1
<1>11. \A i \in 1..MaxDepth : t[i - 1] \in SUBSET LiveRows => t[i] = F[i][t[i - 1]]
  BY <1>10
<1>12. \A i \in 0..MaxDepth : t[i] = g[i]
  <2> HIDE DEF F
  <2>1. Follows(t, SUBSET LiveRows, ListingFor(<<>>), MaxDepth, F)
    BY <1>10, <1>11 DEF Follows
  <2>2. Agree(t, g, MaxDepth)
    BY <1>1, <1>2, <1>4, <1>5, <2>1, IterationUnique
  <2> QED  BY <2>2 DEF Agree
<1>13. Rows = g[MaxDepth]
  <2>1. MaxDepth \in 0..MaxDepth
    BY <1>1
  <2> QED  BY <1>9, <1>12, <2>1
<1> HIDE DEF F
<1> QED  BY <1>6, <1>13

(* Every row is a member's. *)
LEMMA RowsAreLive ==
    ASSUME JournalTypeInv, KeysApart
    PROVE  Rows \subseteq LiveRows
<1>1. MaxDepth \in 0..MaxDepth
  BY JournalAssumption
<1> QED  BY <1>1, RowsIs

(* With every member at the top or in a directory that is shown, all of    *)
(* them can be walked to: one level more at each step.                     *)
LEMMA RowsAreAll ==
    ASSUME JournalTypeInv, KeysApart,
           \A k \in Live : In(k, {"dir"}) /\ Len(Effective(k)) <= MaxDepth
    PROVE  Rows = LiveRows
<1>1. MaxDepth \in Nat
  BY JournalAssumption
<1>2. PICK f \in [0..MaxDepth -> SUBSET LiveRows] :
         /\ Rows = f[MaxDepth]
         /\ f[0] = ListingFor(<<>>)
         /\ \A i \in 1..MaxDepth : f[i] = Walk(f[i - 1])
  BY RowsIs
<1>3. \A r \in LiveRows : r.at \in Path \ {<<>>} /\ Len(r.at) <= MaxDepth
  BY LiveIs
<1> DEFINE T == {i \in 0..MaxDepth : \A r \in LiveRows : Len(r.at) <= i + 1 => r \in f[i]}
<1>4. ASSUME NEW r \in LiveRows, Len(r.at) <= 1  PROVE r \in f[0]
  <2>1. PICK p \in Path \ {<<>>} : p = r.at
    BY <1>3
  <2>2. Len(p) \in Nat \ {0} /\ Parent(p) \in Path /\ Len(Parent(p)) = Len(p) - 1
    BY EmptyPath, ParentOf
  <2>3. Len(Parent(p)) = 0
    <3>1. PICK n \in Nat \ {0} : n = Len(p)
      BY <2>2
    <3>2. n <= 1 /\ Len(Parent(p)) = n - 1
      BY <1>4, <2>1, <2>2, <3>1
    <3>3. n - 1 = 0
      BY <3>2
    <3> QED  BY <3>2, <3>3
  <2>4. Parent(p) = <<>>
    BY <2>2, <2>3, EmptyPath
  <2> QED  BY <1>2, <2>1, <2>4, EmptyPath, Listing
<1>5. 0 \in T
  <2>1. 0 \in 0..MaxDepth /\ 0 + 1 = 1
    BY <1>1
  <2> QED  BY <1>4, <2>1
<1>6. ASSUME NEW i \in 0..MaxDepth, i # MaxDepth, i \in T  PROVE i + 1 \in T
  <2>1. i + 1 \in 1..MaxDepth /\ i + 1 \in 0..MaxDepth /\ (i + 1) - 1 = i
    BY <1>1, <1>6
  <2>2. f[i + 1] = Walk(f[i]) /\ f[i] \subseteq f[i + 1]
    BY <1>2, <2>1 DEF Walk
  <2>3. ASSUME NEW r \in LiveRows, Len(r.at) <= (i + 1) + 1  PROVE r \in f[i + 1]
    <3>1. PICK p \in Path \ {<<>>} : p = r.at
      BY <1>3
    <3>2. /\ Len(p) \in Nat \ {0} /\ Parent(p) \in Path /\ Len(Parent(p)) = Len(p) - 1
      BY EmptyPath, ParentOf
    <3>3. CASE Parent(p) = <<>>
      <4>1. Len(p) <= 1
        <5>1. PICK n \in Nat \ {0} : n = Len(p)
          BY <3>2
        <5>2. n - 1 = 0
          BY <3>2, <3>3, <5>1, EmptyPath
        <5>3. n <= 1
          BY <5>2
        <5> QED  BY <5>1, <5>3
      <4>2. Len(r.at) <= i + 1
        BY <3>1, <4>1, <2>1
      <4> QED  BY <1>6, <2>2, <4>2
    <3>4. CASE Parent(p) # <<>>
      <4>1. r.key \in Live /\ p = Effective(r.key)
        BY <3>1, LiveIs
      <4>2. PICK e \in Entries : e.kind = "dir" /\ Effective(e.key) = Parent(p)
        BY <3>4, <4>1 DEF In
      <4>3. PICK d \in LiveRows : d.at = Parent(p) /\ d.kind = "dir"
        BY <4>2, LiveIs
      <4>4. Len(d.at) <= i + 1
        BY <2>3, <3>1, <3>2, <4>3, <2>1
      <4>5. d \in f[i]
        BY <1>6, <4>4
      <4>6. r \in ListingFor(d.at)
        BY <3>1, <3>2, <4>3, Listing
      <4> QED  BY <2>2, <4>3, <4>5, <4>6 DEF Walk
    <3> QED  BY <3>3, <3>4
  <2> QED  BY <2>1, <2>3
<1>7. \A i \in 0..MaxDepth : i \in T
  <2> HIDE DEF T
  <2> QED  BY <1>1, <1>5, <1>6, UpTo
<1>8. LiveRows \subseteq f[MaxDepth]
  <2>1. MaxDepth \in T
    BY <1>1, <1>7
  <2>2. \A r \in LiveRows : Len(r.at) <= MaxDepth + 1
    <3> TAKE r \in LiveRows
    <3>1. Len(r.at) \in Nat /\ Len(r.at) <= MaxDepth
      BY <1>3, EmptyPath
    <3> QED  BY <1>1, <3>1
  <2> QED  BY <2>1, <2>2
<1> QED  BY <1>2, <1>8, RowsAreLive

(* With every member in another one's place, what is above a place is one. *)
LEMMA Ancestors ==
    ASSUME JournalTypeInv, KeysApart, NEW kinds,
           \A k \in Live : In(k, kinds),
           NEW k \in Live, NEW p \in Path, p # <<>>, p # Effective(k), IsPrefix(p, Effective(k))
    PROVE  \E e \in Entries : Effective(e.key) = p
<1> DEFINE Above(j, n) == IsPrefix(p, Effective(j)) /\ p # Effective(j) /\ Len(Effective(j)) = n
           B == {n \in Nat : \E j \in Live : Above(j, n)}
<1>1. \A j \in Live : j \in Path /\ Effective(j) \in Path \ {<<>>} /\ Len(Effective(j)) \in Nat
  BY LiveIs, MemberTypes, EmptyPath
<1>2. B \in SUBSET Nat /\ B # {}
  <2>1. Len(Effective(k)) \in B
    BY <1>1
  <2> QED  BY <2>1
<1>3. PICK n \in B : \A m \in B : n <= m
  <2> HIDE DEF B
  <2> QED  BY <1>2, Least
<1>4. PICK j \in Live : Above(j, n)
  OBVIOUS
<1>5. PICK q \in Path \ {<<>>} : q = Effective(j)
  BY <1>1
<1>6. /\ Parent(q) \in Path /\ Len(Parent(q)) = Len(q) - 1 /\ Len(q) \in Nat \ {0}
      /\ IsPrefix(p, Parent(q))
  BY <1>4, <1>5, ParentOf, EmptyPath
<1>7. Parent(q) # <<>>
  <2>1. Len(p) \in Nat \ {0}
    BY EmptyPath
  <2>2. Len(p) <= Len(Parent(q))
    BY <1>6, PrefixIs
  <2>3. Len(Parent(q)) # 0
    BY <2>1, <2>2, <1>6
  <2> QED  BY <2>3, EmptyPath
<1>8. PICK e \in Entries : Effective(e.key) = Parent(q)
  BY <1>5, <1>7 DEF In
<1>9. Effective(e.key) = p
  <2>1. SUFFICES ASSUME Effective(e.key) # p  PROVE FALSE
    OBVIOUS
  <2>2. e.key \in Live
    BY LiveIs
  <2>3. Above(e.key, Len(q) - 1) /\ Len(q) - 1 \in Nat
    BY <1>6, <1>8, <2>1
  <2>4. Len(q) - 1 \in B
    BY <2>2, <2>3
  <2>5. n = Len(q)
    BY <1>4, <1>5
  <2> QED  BY <1>3, <1>6, <2>4, <2>5
<1> QED  BY <1>9

-----------------------------------------------------------------------------
(* What the invariant gives a step: every step is taken where nothing is   *)
(* odd.                                                                    *)

(* One place, one member. *)
LEMMA Sounds ==
    ASSUME NEW kinds, JournalInv(kinds), odd = {}
    PROVE  /\ made = Image
           /\ \A k \in Live : /\ k \in Path /\ Effective(k) \in Path \ {<<>>}
                              /\ In(k, kinds) /\ Len(Effective(k)) <= MaxDepth
                              /\ Clear(journal, k) /\ OriginalOf(Effective(k)) = k
           /\ \A j, k \in Live : Effective(j) = Effective(k) => j = k
           /\ \A r \in Rows : r \in LiveRows /\ r.key \in Live /\ r.at = Effective(r.key)
                              /\ MemberAt(r.at) = r.key
<1>1. JournalTypeInv /\ KeysApart /\ made = Image
      /\ \A k \in Live : In(k, kinds) /\ Len(Effective(k)) <= MaxDepth /\ Clear(journal, k)
  BY DEF JournalInv, MadeIsLive, Rooted, AllClear, Clean
<1>2. \A k \in Live : k \in Path /\ Effective(k) \in Path \ {<<>>}
  BY <1>1, LiveIs, MemberTypes
<1>3. \A k \in Live : OriginalOf(Effective(k)) = k
  <2> TAKE k \in Live
  <2>1. journal \in Seq(Changes) /\ k \in Path /\ Clear(journal, k)
    BY <1>1, <1>2 DEF JournalTypeInv
  <2>2. Orig(journal, Eff(journal, k)) = k
    BY <2>1, OrigUndoes
  <2> QED  BY <2>2 DEF OriginalOf, Effective, Orig, Eff
<1>4. ASSUME NEW r \in Rows
      PROVE  r \in LiveRows /\ r.key \in Live /\ r.at = Effective(r.key) /\ MemberAt(r.at) = r.key
  <2>1. r \in LiveRows /\ r.key \in Live /\ r.at = Effective(r.key)
    BY <1>1, RowsAreLive, LiveIs
  <2>2. r.key \in Keys \cup Additions
    BY <2>1 DEF Live, Keys
  <2> QED  BY <1>3, <2>1, <2>2 DEF MemberAt
<1> QED  BY <1>1, <1>2, <1>3, <1>4

(* What one more change does to the members and their places. *)
LEMMA Recording ==
    ASSUME JournalTypeInv, NEW c \in Changes, journal' = Append(journal, c), index' = index
    PROVE  /\ journal' \in Seq(Changes)
           /\ \A k \in Path : Effective(k)' = Forth(c, Effective(k))
           /\ \A k \in Path : Clear(journal, k)' <=> Clear(journal, k) /\ ClearOf(c, Effective(k))
           /\ \A k : IsDeleted(k)' <=> IsDeleted(k) \/ (c.kind = "deleted" /\ IsPrefix(c.key, k))
           /\ \A k : Has(Replaced(k))' <=> Has(Replaced(k)) \/ c = Replaced(k)
           /\ Additions' = {p \in AddedIn(journal) \cup (IF c.kind = "added" THEN {c.key} ELSE {}) :
                               ~(IsDeleted(p) \/ (c.kind = "deleted" /\ IsPrefix(c.key, p)))}
           /\ Entries' = {e \in Entries : ~(c.kind = "deleted" /\ IsPrefix(c.key, e.key))}
           /\ Keys' = Keys
<1>1. journal \in Seq(Changes) /\ journal' \in Seq(Changes)
  BY AppendIs DEF JournalTypeInv
<1>2. ASSUME NEW k \in Path
      PROVE  /\ Effective(k)' = Forth(c, Effective(k))
             /\ Clear(journal, k)' <=> Clear(journal, k) /\ ClearOf(c, Effective(k))
  <2>1. /\ Eff(Append(journal, c), k) = Forth(c, Eff(journal, k))
        /\ Clear(Append(journal, c), k) <=> Clear(journal, k) /\ ClearOf(c, Eff(journal, k))
    BY <1>1, EffAppend
  <2>2. Effective(k) = Eff(journal, k) /\ Effective(k)' = Eff(journal', k)
    BY DEF Effective, Eff
  <2>3. Clear(journal, k)' <=> Clear(Append(journal, c), k)
    BY DEF Clear
  <2> QED  BY <2>1, <2>2, <2>3
<1>3. /\ ToSet(Append(journal, c)) = ToSet(journal) \cup {c}
      /\ \A k : DeletedIn(Append(journal, c), k) <=>
                   DeletedIn(journal, k) \/ (c.kind = "deleted" /\ IsPrefix(c.key, k))
      /\ AddedIn(Append(journal, c)) = AddedIn(journal) \cup (IF c.kind = "added" THEN {c.key} ELSE {})
  BY <1>1, Recorded
<1>4. \A k : (IsDeleted(k) <=> DeletedIn(journal, k)) /\ (IsDeleted(k)' <=> DeletedIn(journal', k))
  BY DEF IsDeleted, DeletedIn
<1>5. \A k : IsDeleted(k)' <=> IsDeleted(k) \/ (c.kind = "deleted" /\ IsPrefix(c.key, k))
  BY <1>3, <1>4
<1>6. \A k : Has(Replaced(k))' <=> Has(Replaced(k)) \/ c = Replaced(k)
  BY <1>3 DEF Has, Replaced
<1>7. Additions' = {p \in AddedIn(journal') : ~IsDeleted(p)'}
  BY DEF Additions, AddedIn
<1>8. Additions' = {p \in AddedIn(journal) \cup (IF c.kind = "added" THEN {c.key} ELSE {}) :
                       ~(IsDeleted(p) \/ (c.kind = "deleted" /\ IsPrefix(c.key, p)))}
  BY <1>3, <1>5, <1>7
<1>9. Entries' = {e \in Entries : ~(c.kind = "deleted" /\ IsPrefix(c.key, e.key))}
  BY <1>5 DEF Entries
<1>10. Keys' = Keys
  BY DEF Keys
<1> QED  BY <1>1, <1>2, <1>3, <1>5, <1>6, <1>8, <1>9, <1>10

(* A change that deletes and adds nothing leaves the members there are. *)
LEMMA SameMembers ==
    ASSUME JournalTypeInv, NEW c \in Changes, journal' = Append(journal, c), index' = index,
           c.kind \in {"renamed", "replaced"}
    PROVE  Additions' = Additions /\ Entries' = Entries /\ Live' = Live /\ Keys' = Keys
<1> c.kind # "added" /\ c.kind # "deleted"
  OBVIOUS
<1>1. Additions' = {p \in AddedIn(journal) : ~IsDeleted(p)}
  <2>1. Additions' = {p \in AddedIn(journal) \cup (IF c.kind = "added" THEN {c.key} ELSE {}) :
                         ~(IsDeleted(p) \/ (c.kind = "deleted" /\ IsPrefix(c.key, p)))}
    BY Recording
  <2> QED  BY <2>1
<1>2. Additions = {p \in AddedIn(journal) : ~IsDeleted(p)}
  BY DEF Additions, AddedIn
<1>3. Entries' = Entries /\ Keys' = Keys
  BY Recording
<1>4. Live = {e.key : e \in Entries} \cup Additions
  BY DEF Live, Entries
<1>5. Live' = {e.key : e \in Entries'} \cup Additions'
  BY DEF Live, Entries
<1> QED  BY <1>1, <1>2, <1>3, <1>4, <1>5

(* The directory of an entry is stored, as one of these kinds. *)
ParentsAre(kinds) ==
    \A contents \in Indexes : \A e \in contents :
        Len(e.key) > 1 => \E d \in contents : d.key = Front(e.key) /\ d.kind \in kinds

(* An index just read has the invariant. *)
LEMMA Starts ==
    ASSUME NEW kinds, ParentsAre(kinds), JournalInit
    PROVE  JournalInv(kinds)
<1>1. index \in Indexes /\ journal = <<>> /\ journal \in Seq(Changes) /\ broughtIn = 0
      /\ made = AsStored(index) /\ odd = {}
  BY DEF JournalInit
<1>2. \A e \in index : /\ e.key \in Path \ {<<>>} /\ Len(e.key) <= MaxDepth /\ e.implied \in BOOLEAN
  BY <1>1, JournalAssumption DEF Path
<1>3. staging \in [DOMAIN staging -> Nat] /\ DOMAIN staging = {}
  BY DEF JournalInit
<1>4. ToSet(journal) = {}
  BY <1>1 DEF ToSet
<1>5. Additions = {} /\ Entries = index /\ \A k : ~IsDeleted(k) /\ ~Has(Replaced(k))
  BY <1>4 DEF Additions, Entries, IsDeleted, Has
<1>6. Live = {e.key : e \in index} /\ Live \subseteq Path \ {<<>>}
  BY <1>2, <1>5 DEF Live
<1>7. \A k \in Path : Effective(k) = k /\ Clear(journal, k)
  BY <1>1, EffEmpty DEF Effective, Eff
<1>8. JournalTypeInv
  <2>1. made \subseteq [at : Path, key : Path, copy : Nat, implied : BOOLEAN]
    BY <1>1, <1>2 DEF AsStored
  <2> QED  BY <1>1, <1>3, <2>1 DEF JournalTypeInv
<1>9. KeysApart
  BY <1>5 DEF KeysApart
<1>10. made = Image
  <2>1. \A e \in index : AsPlanned(e) = [at |-> e.key, key |-> e.key, copy |-> 0, implied |-> e.implied]
    BY <1>2, <1>5, <1>7 DEF AsPlanned
  <2>2. Image = {AsPlanned(e) : e \in index}
    BY <1>5 DEF Image
  <2> QED  BY <1>1, <2>1, <2>2 DEF AsStored
<1>11. ASSUME NEW k \in Live  PROVE In(k, kinds) /\ Len(Effective(k)) <= MaxDepth
  <2>1. PICK e \in index : e.key = k
    BY <1>6
  <2>2. PICK p \in Path \ {<<>>} : p = k /\ Effective(k) = p /\ Len(p) <= MaxDepth
    BY <1>2, <1>7, <2>1
  <2>3. Len(p) \in Nat \ {0} /\ Parent(p) \in Path /\ Len(Parent(p)) = Len(p) - 1 /\ Parent(p) = Front(p)
    BY EmptyPath, ParentOf DEF Parent
  <2>4. CASE Len(p) > 1
    <3>1. PICK d \in index : d.key = Front(p) /\ d.kind \in kinds
      BY <1>1, <2>1, <2>2, <2>4 DEF ParentsAre
    <3>2. Effective(d.key) = Parent(p)
      BY <1>7, <2>3, <3>1
    <3> QED  BY <1>5, <2>2, <3>1, <3>2 DEF In
  <2>5. CASE ~(Len(p) > 1)
    <3>1. PICK n \in Nat \ {0} : n = Len(p)
      BY <2>3
    <3>2. n - 1 = 0 /\ Len(Parent(p)) = n - 1
      BY <2>3, <2>5, <3>1
    <3>3. Parent(p) = <<>>
      BY <2>3, <3>2, EmptyPath
    <3> QED  BY <2>2, <3>3 DEF In
  <2> QED  BY <2>2, <2>4, <2>5
<1> QED  BY <1>6, <1>7, <1>8, <1>9, <1>10, <1>11 DEF JournalInv, MadeIsLive, Rooted, AllClear

(* Each member has a place in the tree, and each place a member. *)
LEMMA ImageIs ==
    ASSUME JournalTypeInv, KeysApart
    PROVE  /\ \A k \in Live : \E t \in Image : t.at = Effective(k)
           /\ \A t \in Image : \E k \in Live : t.at = Effective(k)
<1>1. \A e : AsPlanned(e).at = Effective(e.key)
  BY DEF AsPlanned
<1>2. \A p, n : File(p, n).at = p
  BY DEF File
<1>3. \A k : k \in Live <=> (\E e \in Entries : e.key = k) \/ k \in Additions
  BY LiveIs
<1>4. \A t : t \in Image <=> \/ \E e \in Entries : t = AsPlanned(e)
                           \/ \E p \in Additions : t = File(Effective(p), staging[p])
  BY DEF Image
<1>5. ASSUME NEW k \in Live  PROVE \E t \in Image : t.at = Effective(k)
  <2>1. CASE \E e \in Entries : e.key = k
    BY <1>1, <1>4, <2>1
  <2>2. CASE k \in Additions
    <3>1. File(Effective(k), staging[k]) \in Image
      BY <1>4, <2>2
    <3> QED  BY <1>2, <3>1
  <2> QED  BY <1>3, <2>1, <2>2
<1>6. ASSUME NEW t \in Image  PROVE \E k \in Live : t.at = Effective(k)
  BY <1>1, <1>2, <1>3, <1>4
<1> QED  BY <1>5, <1>6

-----------------------------------------------------------------------------
(* The invariant is kept by every step. *)

(* The three ways a rename meets a path. *)
LEMMA MovedCases ==
    ASSUME NEW from \in Path \ {<<>>}, NEW to \in Path \ {<<>>}, NEW p \in Path
    PROVE  /\ Moved(p, from, to) \in Path
           /\ ~IsPrefix(from, p) => Moved(p, from, to) = p
           /\ p = from => Moved(p, from, to) = to
           /\ IsPrefix(from, p) /\ p # from =>
                 /\ p # <<>> /\ IsPrefix(from, Parent(p)) /\ Parent(p) # <<>>
                 /\ Parent(Moved(p, from, to)) = Moved(Parent(p), from, to)
<1>1. Moved(p, from, to) \in Path
  BY MovedInside, MovedOutside
<1>2. p = from => Moved(p, from, to) = to
  BY MovedParent, PrefixOrder
<1>3. ASSUME IsPrefix(from, p), p # from
      PROVE  /\ p # <<>> /\ IsPrefix(from, Parent(p)) /\ Parent(p) # <<>>
             /\ Parent(Moved(p, from, to)) = Moved(Parent(p), from, to)
  <2>1. Len(from) \in Nat \ {0} /\ Len(from) <= Len(p) /\ Len(p) \in Nat
    BY <1>3, PrefixIs, EmptyPath
  <2>2. p # <<>>
    BY <2>1, EmptyPath
  <2>3. IsPrefix(from, Parent(p)) /\ Parent(Moved(p, from, to)) = Moved(Parent(p), from, to)
    BY <1>3, <2>2, MovedParent
  <2>4. Parent(p) \in Path /\ Len(from) <= Len(Parent(p))
    BY <2>2, <2>3, ParentOf, PrefixIs
  <2>5. Parent(p) # <<>>
    BY <2>1, <2>4, EmptyPath
  <2> QED  BY <2>2, <2>3, <2>5
<1> QED  BY <1>1, <1>2, <1>3, MovedOutside

(* A rename to a free name in a directory moves what is in it, alone. *)
LEMMA RenameKeeps ==
    ASSUME NEW kinds, "dir" \in kinds, JournalInv(kinds), odd = {},
           NEW r \in Rows, NEW dest \in Paths, Rename(r, dest)
    PROVE  JournalInv(kinds)'
<1>0. JournalTypeInv /\ KeysApart
  BY DEF JournalInv
<1>1. PICK from \in Path \ {<<>>} : from = r.at
  BY <1>0, Sounds, LiveIs
<1>2. PICK to \in Path \ {<<>>} : to = IF IsDir(dest) THEN Child(dest, r.at) ELSE dest
  <2>1. dest \in Path
    BY JournalAssumption DEF Path
  <2>2. Child(dest, from) \in Path \ {<<>>}
    BY <2>1, ChildOf
  <2>3. ~IsDir(dest) => dest # <<>>
    BY DEF IsDir
  <2> QED  BY <1>1, <2>1, <2>2, <2>3
<1> DEFINE c == Renamed(from, to)
<1>3. /\ journal' = Append(journal, c)
      /\ \A t \in Under(from) : Len(Moved(t.at, from, to)) <= MaxDepth
      /\ made' = {[t EXCEPT !.at = Moved(@, from, to)] : t \in made}
      /\ odd' = {why \in {"nowhere", "taken"} :
                    \/ why = "nowhere" /\ (~ShowsDir(Parent(to)) \/ IsPrefix(from, Parent(to)))
                    \/ why = "taken" /\ ShownAt(to) # {}}
      /\ index' = index /\ staging' = staging /\ broughtIn' = broughtIn
  BY <1>1, <1>2 DEF Rename, Record, TreeMove
<1>4. c \in Changes /\ c.kind = "renamed" /\ c.from = from /\ c.to = to
  BY ChangeTypes
<1> HIDE DEF c
<1>5. /\ journal' \in Seq(Changes)
      /\ \A k \in Path : Effective(k)' = Forth(c, Effective(k))
      /\ \A k \in Path : Clear(journal, k)' <=> Clear(journal, k) /\ ClearOf(c, Effective(k))
      /\ \A k : Has(Replaced(k))' <=> Has(Replaced(k)) \/ c = Replaced(k)
      /\ Additions' = Additions /\ Entries' = Entries /\ Live' = Live /\ Keys' = Keys
  BY <1>0, <1>3, <1>4, Recording, SameMembers
<1>6. \A k \in Path : Effective(k)' = Moved(Effective(k), from, to)
  BY <1>4, <1>5 DEF Forth
<1>7. \A k : Has(Replaced(k))' <=> Has(Replaced(k))
  <2>1. \A k : Replaced(k).kind = "replaced"
    BY DEF Replaced
  <2>2. \A k : c # Replaced(k)
    BY <1>4, <2>1
  <2> QED  BY <1>5, <2>2
<1>8. /\ made = Image
      /\ \A k \in Live : /\ k \in Path /\ Effective(k) \in Path \ {<<>>}
                         /\ In(k, kinds) /\ Len(Effective(k)) <= MaxDepth /\ Clear(journal, k)
  BY Sounds
<1>9. JournalTypeInv'
  <2>1. made' \subseteq [at : Path, key : Path, copy : Nat, implied : BOOLEAN]
    <3> SUFFICES ASSUME NEW t \in made
                 PROVE  [t EXCEPT !.at = Moved(@, from, to)]
                        \in [at : Path, key : Path, copy : Nat, implied : BOOLEAN]
      BY <1>3
    <3>1. t \in [at : Path, key : Path, copy : Nat, implied : BOOLEAN]
      BY <1>0 DEF JournalTypeInv
    <3>2. Moved(t.at, from, to) \in Path
      BY <3>1, MovedCases
    <3> QED  BY <3>1, <3>2
  <2>2. odd' \subseteq {"nowhere", "taken", "renamed to", "straddled", "unadded"}
    BY <1>3
  <2> QED  BY <1>0, <1>3, <1>5, <2>1, <2>2 DEF JournalTypeInv
<1>10. KeysApart'
  BY <1>0, <1>3, <1>5, <1>7 DEF KeysApart
<1>11. made' = Image'
  <2>1. ASSUME NEW e \in Entries
        PROVE  AsPlanned(e)' = [AsPlanned(e) EXCEPT !.at = Moved(@, from, to)]
    <3>1. Effective(e.key)' = Moved(Effective(e.key), from, to)
      BY <1>0, <1>6, MemberTypes DEF Entries
    <3>2. AsPlanned(e)' = [at |-> Moved(Effective(e.key), from, to), key |-> e.key, implied |-> e.implied,
                           copy |-> IF Has(Replaced(e.key)) THEN staging[e.key] ELSE 0]
      BY <1>3, <1>7, <3>1 DEF AsPlanned
    <3> QED  BY <3>2 DEF AsPlanned
  <2>2. ASSUME NEW p \in Additions
        PROVE  File(Effective(p), staging[p])' = [File(Effective(p), staging[p]) EXCEPT !.at = Moved(@, from, to)]
    <3>1. Effective(p)' = Moved(Effective(p), from, to)
      BY <1>0, <1>6, MemberTypes
    <3>2. File(Effective(p), staging[p])' =
             [at |-> Moved(Effective(p), from, to), key |-> <<>>, copy |-> staging[p], implied |-> FALSE]
      BY <1>3, <3>1 DEF File
    <3>3. PICK q, n, none, no : q = Effective(p) /\ n = staging[p] /\ none = <<>> /\ no = FALSE
      OBVIOUS
    <3>4. File(Effective(p), staging[p]) = [at |-> q, key |-> none, copy |-> n, implied |-> no]
      BY <3>3 DEF File
    <3>5. [[at |-> q, key |-> none, copy |-> n, implied |-> no] EXCEPT !.at = Moved(@, from, to)] =
             [at |-> Moved(q, from, to), key |-> none, copy |-> n, implied |-> no]
      OBVIOUS
    <3> QED  BY <3>2, <3>3, <3>4, <3>5
  <2>3. Image' = {AsPlanned(e)' : e \in Entries} \cup {File(Effective(p), staging[p])' : p \in Additions}
    BY <1>5 DEF Image
  <2> DEFINE U(t) == [t EXCEPT !.at = Moved(@, from, to)]
  <2>4. made' = {U(t) : t \in Image}
    BY <1>3, <1>8
  <2>5. /\ \A e \in Entries : AsPlanned(e)' = U(AsPlanned(e))
        /\ \A p \in Additions : File(Effective(p), staging[p])' = U(File(Effective(p), staging[p]))
    BY <2>1, <2>2
  <2> HIDE DEF U
  <2>6. {U(t) : t \in Image} = {U(AsPlanned(e)) : e \in Entries}
                              \cup {U(File(Effective(p), staging[p])) : p \in Additions}
    BY DEF Image
  <2> QED  BY <2>3, <2>4, <2>5, <2>6
<1>12. ASSUME NEW k \in Live  PROVE Len(Effective(k)') <= MaxDepth
  <2>1. Effective(k)' = Moved(Effective(k), from, to)
    BY <1>6, <1>8
  <2>2. CASE ~IsPrefix(from, Effective(k))
    BY <1>8, <2>1, <2>2, MovedOutside
  <2>3. CASE IsPrefix(from, Effective(k))
    <3>1. \E t \in made : t.at = Effective(k)
      BY <1>0, <1>8, ImageIs
    <3> QED  BY <1>3, <2>1, <2>3, <3>1 DEF Under
  <2> QED  BY <2>2, <2>3
<1>13. ASSUME "nowhere" \notin odd', NEW k \in Live  PROVE In(k, kinds)'
  <2>1. ShowsDir(Parent(to)) /\ ~IsPrefix(from, Parent(to)) /\ Parent(to) \in Path
    BY <1>3, <1>13, ParentOf
  <2>2. PICK p \in Path \ {<<>>} : p = Effective(k)
    BY <1>8
  <2>3. Effective(k)' = Moved(p, from, to)
    BY <1>6, <1>8, <2>2
  <2>4. \A e \in Entries : e.key \in Live /\ e.key \in Path
    BY <1>0, <1>8, LiveIs
  <2>5. Parent(p) = <<>> \/ \E e \in Entries : e.kind \in kinds /\ Effective(e.key) = Parent(p)
    BY <1>8, <2>2 DEF In
  <2>6. CASE p = from
    <3>1. Effective(k)' = to
      BY <2>3, <2>6, MovedCases
    <3>2. CASE Parent(to) = <<>>
      BY <3>1, <3>2 DEF In
    <3>3. CASE Parent(to) # <<>>
      <4>1. PICK e \in Entries : e.kind = "dir" /\ Effective(e.key) = Parent(to)
        BY <1>0, <2>1, <3>3, Shown
      <4>2. Effective(e.key)' = Parent(to)
        BY <1>6, <2>1, <2>4, <4>1, MovedOutside
      <4> QED  BY <1>5, <3>1, <4>1, <4>2 DEF In
    <3> QED  BY <3>2, <3>3
  <2>7. CASE IsPrefix(from, p) /\ p # from
    <3>1. /\ Parent(p) # <<>> /\ Parent(Moved(p, from, to)) = Moved(Parent(p), from, to)
      BY <2>7, MovedCases
    <3>2. PICK e \in Entries : e.kind \in kinds /\ Effective(e.key) = Parent(p)
      BY <2>5, <3>1
    <3>3. Effective(e.key)' = Moved(Parent(p), from, to)
      BY <1>6, <2>4, <3>2
    <3> QED  BY <1>5, <2>3, <3>1, <3>2, <3>3 DEF In
  <2>8. CASE ~IsPrefix(from, p)
    <3>1. Effective(k)' = p
      BY <2>3, <2>8, MovedOutside
    <3>2. CASE Parent(p) = <<>>
      BY <3>1, <3>2 DEF In
    <3>3. CASE Parent(p) # <<>>
      <4>1. PICK e \in Entries : e.kind \in kinds /\ Effective(e.key) = Parent(p)
        BY <2>5, <3>3
      <4>2. ~IsPrefix(from, Parent(p))
        BY <2>8, ParentOf, PrefixOrder
      <4>3. Effective(e.key)' = Parent(p)
        BY <1>6, <2>4, <4>1, <4>2, MovedOutside
      <4> QED  BY <1>5, <3>1, <4>1, <4>3 DEF In
    <3> QED  BY <3>2, <3>3
  <2> QED  BY <2>6, <2>7, <2>8
<1>14. ASSUME "taken" \notin odd', NEW k \in Live  PROVE Clear(journal, k)'
  <2>1. ShownAt(to) = {}
    BY <1>3, <1>14
  <2>2. \A j \in Live : Effective(j) # to
    BY <1>0, <2>1, Shown
  <2>3. ~IsPrefix(to, Effective(k))
    <3>1. SUFFICES ASSUME IsPrefix(to, Effective(k))  PROVE FALSE
      OBVIOUS
    <3>2. PICK e \in Entries : Effective(e.key) = to
      BY <1>0, <1>8, <2>2, <3>1, Ancestors
    <3> QED  BY <1>0, <2>2, <3>2, LiveIs
  <2>4. ClearOf(c, Effective(k))
    BY <1>4, <2>3 DEF ClearOf
  <2> QED  BY <1>5, <1>8, <2>4
<1> QED  BY <1>5, <1>9, <1>10, <1>11, <1>12, <1>13, <1>14
         DEF JournalInv, MadeIsLive, Rooted, AllClear, Clean

(* A change that is no rename moves nothing. *)
LEMMA PlainChange ==
    ASSUME JournalTypeInv, NEW c \in Changes, journal' = Append(journal, c), index' = index,
           c.kind # "renamed"
    PROVE  \A k \in Path : /\ Effective(k)' = Effective(k)
                           /\ Clear(journal, k)' <=> Clear(journal, k)
<1>1. \A k \in Path : Forth(c, Effective(k)) = Effective(k) /\ ClearOf(c, Effective(k))
  BY DEF Forth, ClearOf
<1> QED  BY <1>1, Recording

(* The members there are: stored ones and additions. *)
LEMMA LiveParts == /\ Live = {e.key : e \in Entries} \cup Additions
                   /\ \A e \in Entries : e \in index /\ e.key \in Live /\ e.key \in Keys
                   /\ Additions \subseteq Live
  BY DEF Live, Entries, Keys

(* BringIn of a new name. *)
Adding(p) ==
    /\ p # <<>> /\ ShowsDir(Parent(p)) /\ ShownAt(p) = {} /\ ~Claimed(p)
    /\ journal' = Append(journal, Added(p))
    /\ Note("renamed to", RenamedTo(p))
    /\ broughtIn' = broughtIn + 1
    /\ staging' = [q \in DOMAIN staging \cup {p} |-> IF q = p THEN broughtIn + 1 ELSE staging[q]]
    /\ TreeCopy(p, broughtIn + 1)
    /\ index' = index

(* Nothing is at or under a name that is free, and no change holds it. *)
LEMMA AddKeeps ==
    ASSUME NEW kinds, "dir" \in kinds, JournalInv(kinds), odd = {},
           NEW p \in Paths, Adding(p)
    PROVE  JournalInv(kinds)'
<1>0. JournalTypeInv /\ KeysApart
  BY DEF JournalInv
<1>1. p \in Path \ {<<>>} /\ Len(p) <= MaxDepth
  BY JournalAssumption DEF Path, Adding
<1>2. /\ ~IsDeleted(p) /\ Effective(p) = p /\ ShowsDir(Parent(p)) /\ ShownAt(p) = {}
      /\ index' = index
  BY DEF Claimed, Adding
<1> DEFINE c == Added(p)
<1>3. c \in Changes /\ c.kind = "added" /\ c.key = p
  BY <1>1, ChangeTypes
<1>4. \A k : Replaced(k) # c
  BY DEF Replaced, Added
<1> HIDE DEF c
<1>5. journal' = Append(journal, c)
  BY DEF c, Adding
<1>6. /\ journal' \in Seq(Changes)
      /\ \A k : IsDeleted(k)' <=> IsDeleted(k) \/ (c.kind = "deleted" /\ IsPrefix(c.key, k))
      /\ \A k : Has(Replaced(k))' <=> Has(Replaced(k)) \/ c = Replaced(k)
      /\ Additions' = {q \in AddedIn(journal) \cup (IF c.kind = "added" THEN {c.key} ELSE {}) :
                          ~(IsDeleted(q) \/ (c.kind = "deleted" /\ IsPrefix(c.key, q)))}
      /\ Entries' = {e \in Entries : ~(c.kind = "deleted" /\ IsPrefix(c.key, e.key))}
      /\ Keys' = Keys
  BY <1>0, <1>2, <1>3, <1>5, Recording
<1>7. \A k \in Path : Effective(k)' = Effective(k) /\ (Clear(journal, k)' <=> Clear(journal, k))
  BY <1>0, <1>2, <1>3, <1>5, PlainChange
<1>8. \A k : Has(Replaced(k))' <=> Has(Replaced(k))
  BY <1>4, <1>6
<1>9. Additions' = Additions \cup {p} /\ Entries' = Entries
  <2>1. Additions = {q \in AddedIn(journal) : ~IsDeleted(q)}
    BY DEF Additions, AddedIn
  <2> QED  BY <1>2, <1>3, <1>6, <2>1
<1>10. Live' = Live \cup {p}
  <2>1. Live' = {e.key : e \in Entries'} \cup Additions'
    BY DEF Live, Entries
  <2> QED  BY <1>9, <2>1, LiveParts
<1>11. /\ made = Image
       /\ \A k \in Live : /\ k \in Path /\ Effective(k) \in Path \ {<<>>}
                          /\ In(k, kinds) /\ Len(Effective(k)) <= MaxDepth /\ Clear(journal, k)
  BY Sounds
<1>12. \A k \in Live : Effective(k) # p
  BY <1>0, <1>1, <1>2, Shown
<1>13. p \notin Live /\ p \notin Keys /\ p \notin Additions
  <2>1. p \notin Live
    BY <1>2, <1>12
  <2>2. ASSUME p \in Keys  PROVE p \in Live
    <3>1. PICK e \in index : e.key = p
      BY <2>2 DEF Keys
    <3>2. e \in Entries
      BY <1>2, <3>1 DEF Entries
    <3> QED  BY <3>1, <3>2, LiveParts
  <2> QED  BY <2>1, <2>2, LiveParts
<1>14. \A q \in DOMAIN staging : q # p => staging'[q] = staging[q]
  BY DEF Adding
<1>15. staging'[p] = broughtIn + 1 /\ DOMAIN staging' = DOMAIN staging \cup {p}
  BY DEF Adding
<1>16. made' = made \cup {File(p, broughtIn + 1)}
  <2>1. ~ \E t \in made : t.at = p
    BY <1>0, <1>11, <1>12, ImageIs
  <2> QED  BY <2>1 DEF TreeCopy, Adding
<1>17. JournalTypeInv'
  <2>1. broughtIn + 1 \in Nat /\ broughtIn' \in Nat
    <3>1. broughtIn \in Nat
      BY <1>0 DEF JournalTypeInv
    <3>2. broughtIn' = broughtIn + 1
      BY DEF Adding
    <3> QED  BY <3>1, <3>2
  <2>2. staging' \in [DOMAIN staging' -> Nat] /\ DOMAIN staging' \subseteq Path
    <3>1. \A q \in DOMAIN staging : staging[q] \in Nat /\ q \in Path
      BY <1>0 DEF JournalTypeInv
    <3>2. staging' = [q \in DOMAIN staging \cup {p} |-> IF q = p THEN broughtIn + 1 ELSE staging[q]]
      BY DEF Adding
    <3> QED  BY <1>1, <1>15, <2>1, <3>1, <3>2
  <2>3. File(p, broughtIn + 1) \in [at : Path, key : Path, copy : Nat, implied : BOOLEAN]
    BY <1>1, <2>1, EmptyPath DEF File
  <2>4. odd' \subseteq {"nowhere", "taken", "renamed to", "straddled", "unadded"}
    BY DEF Note, Adding
  <2> QED  BY <1>0, <1>2, <1>6, <1>16, <2>1, <2>2, <2>3, <2>4 DEF JournalTypeInv
<1>18. KeysApart'
  <2>1. \A k : Has(Replaced(k)) => k \in Keys /\ k \in DOMAIN staging
    BY <1>0 DEF KeysApart
  <2>2. \A k : Has(Replaced(k))' => k \in Keys' /\ k \in DOMAIN staging'
    BY <1>6, <1>8, <1>15, <2>1
  <2>3. Keys' \cap Additions' = {}
    BY <1>0, <1>6, <1>9, <1>13 DEF KeysApart
  <2>4. Additions' \subseteq (DOMAIN staging') \ {<<>>}
    BY <1>0, <1>1, <1>9, <1>15 DEF KeysApart
  <2> QED  BY <2>2, <2>3, <2>4 DEF KeysApart
<1>19. made' = Image'
  <2>1. ASSUME NEW e \in Entries  PROVE AsPlanned(e)' = AsPlanned(e)
    <3>1. e.key \in Path /\ e.key \in Keys /\ e.key # p
      BY <1>11, <1>13, LiveParts
    <3>2. Effective(e.key)' = Effective(e.key) /\ (Has(Replaced(e.key))' <=> Has(Replaced(e.key)))
      BY <1>7, <1>8, <3>1
    <3>3. Has(Replaced(e.key)) => staging'[e.key] = staging[e.key]
      BY <1>0, <1>14, <3>1 DEF KeysApart
    <3> QED  BY <3>2, <3>3 DEF AsPlanned
  <2>2. ASSUME NEW q \in Additions  PROVE File(Effective(q), staging[q])' = File(Effective(q), staging[q])
    <3>1. q \in DOMAIN staging /\ q # p /\ q \in Path
      BY <1>0, <1>11, <1>13, LiveParts DEF KeysApart
    <3>2. Effective(q)' = Effective(q) /\ staging'[q] = staging[q]
      BY <1>7, <1>14, <3>1
    <3> QED  BY <3>2 DEF File
  <2>3. File(Effective(p), staging[p])' = File(p, broughtIn + 1)
    <3>1. Effective(p)' = p
      BY <1>1, <1>2, <1>7
    <3> QED  BY <1>15, <3>1 DEF File
  <2>4. Image' = {AsPlanned(e)' : e \in Entries'} \cup {File(Effective(q), staging[q])' : q \in Additions'}
    BY DEF Image
  <2>5. Image' = {AsPlanned(e) : e \in Entries}
                 \cup {File(Effective(q), staging[q]) : q \in Additions} \cup {File(p, broughtIn + 1)}
    BY <1>9, <2>1, <2>2, <2>3, <2>4
  <2> QED  BY <1>11, <1>16, <2>5 DEF Image
<1>20. ASSUME NEW k \in Live'  PROVE In(k, kinds)' /\ Len(Effective(k)') <= MaxDepth
  <2>0. \A e \in Entries : e.key \in Path
    BY <1>11, LiveParts
  <2>1. CASE k \in Live
    <3>1. Effective(k)' = Effective(k) /\ In(k, kinds) /\ Len(Effective(k)) <= MaxDepth
      BY <1>7, <1>11, <2>1
    <3> QED  BY <1>7, <1>9, <2>0, <3>1 DEF In
  <2>2. CASE k = p
    <3>1. Effective(k)' = p
      BY <1>1, <1>2, <1>7, <2>2
    <3>2. CASE Parent(p) = <<>>
      BY <1>1, <3>1, <3>2 DEF In
    <3>3. CASE Parent(p) # <<>>
      <4>1. PICK e \in Entries : e.kind = "dir" /\ Effective(e.key) = Parent(p)
        BY <1>0, <1>1, <1>2, <3>3, ParentOf, Shown
      <4>2. Effective(e.key)' = Parent(p)
        BY <1>7, <2>0, <4>1
      <4> QED  BY <1>1, <1>9, <3>1, <4>1, <4>2 DEF In
    <3> QED  BY <3>2, <3>3
  <2> QED  BY <1>10, <2>1, <2>2
<1>21. ASSUME "renamed to" \notin odd', NEW k \in Live'  PROVE Clear(journal, k)'
  <2>1. CASE k \in Live
    BY <1>7, <1>11, <2>1
  <2>2. CASE k = p
    <3>1. ~RenamedTo(p)
      BY <1>21 DEF Note, Adding
    <3>2. DOMAIN journal = 1..Len(journal)
      <4>1. journal \in Seq(Changes)
        BY <1>0 DEF JournalTypeInv
      <4> QED  BY <4>1
    <3>3. Clear(journal, p)
      BY <3>1, <3>2 DEF RenamedTo, Clear, ClearOf
    <3> QED  BY <1>1, <1>7, <2>2, <3>3
  <2> QED  BY <1>10, <2>1, <2>2
<1> QED  BY <1>17, <1>18, <1>19, <1>20, <1>21
         DEF JournalInv, MadeIsLive, Rooted, AllClear, Clean

(* A copy over the member p changes the copy of that member alone. *)
LEMMA CopyKeeps ==
    ASSUME NEW kinds, JournalInv(kinds), odd = {},
           NEW p \in Paths, p # <<>>, ShownAt(p) # {}, MemberAt(p) = p,
           IF p \in Additions \/ Has(Replaced(p)) THEN journal' = journal
                                                  ELSE journal' = Append(journal, Replaced(p)),
           odd' = odd, broughtIn' = broughtIn + 1,
           staging' = [q \in DOMAIN staging \cup {p} |-> IF q = p THEN broughtIn + 1 ELSE staging[q]],
           TreeCopy(p, broughtIn + 1), index' = index
    PROVE  JournalInv(kinds)'
<1>0. JournalTypeInv /\ KeysApart
  BY DEF JournalInv
<1>1. p \in Path \ {<<>>}
  BY JournalAssumption DEF Path
<1>2. Replaced(p) \in Changes /\ Replaced(p).kind = "replaced"
  BY <1>1, ChangeTypes
<1>3. \A k : Replaced(k) = Replaced(p) => k = p
  <2>1. \A k : Replaced(k).key = k
    BY DEF Replaced
  <2> QED  BY <2>1
<1>4. /\ journal' \in Seq(Changes)
      /\ Additions' = Additions /\ Entries' = Entries /\ Live' = Live /\ Keys' = Keys
      /\ \A k \in Path : Effective(k)' = Effective(k) /\ (Clear(journal, k)' <=> Clear(journal, k))
      /\ \A k : Has(Replaced(k))' <=> Has(Replaced(k)) \/ (k = p /\ p \notin Additions)
  <2>1. CASE p \in Additions \/ Has(Replaced(p))
    <3>1. journal' = journal
      BY <2>1
    <3>2. IsDeleted(<<>>)' = IsDeleted(<<>>) /\ \A k : IsDeleted(k)' <=> IsDeleted(k)
      BY <3>1 DEF IsDeleted
    <3>3. Additions' = Additions /\ Entries' = Entries /\ Keys' = Keys
      BY <3>1, <3>2 DEF Additions, Entries, Keys
    <3>4. Live' = Live
      <4>1. Live' = {e.key : e \in Entries'} \cup Additions'
        BY DEF Live, Entries
      <4> QED  BY <3>3, <4>1, LiveParts
    <3>5. \A k \in Path : Effective(k)' = Effective(k) /\ (Clear(journal, k)' <=> Clear(journal, k))
      BY <3>1 DEF Effective, Clear
    <3>6. \A k : Has(Replaced(k))' <=> Has(Replaced(k))
      BY <3>1 DEF Has
    <3>7. journal' \in Seq(Changes)
      BY <1>0, <3>1 DEF JournalTypeInv
    <3> QED  BY <2>1, <3>3, <3>4, <3>5, <3>6, <3>7
  <2>2. CASE ~(p \in Additions \/ Has(Replaced(p)))
    <3>1. journal' = Append(journal, Replaced(p))
      BY <2>2
    <3>2. PICK c \in Changes : c = Replaced(p) /\ c.kind = "replaced"
      BY <1>2
    <3>3. /\ journal' \in Seq(Changes)
          /\ \A k : Has(Replaced(k))' <=> Has(Replaced(k)) \/ c = Replaced(k)
          /\ Additions' = Additions /\ Entries' = Entries /\ Live' = Live /\ Keys' = Keys
          /\ \A k \in Path : Effective(k)' = Effective(k) /\ (Clear(journal, k)' <=> Clear(journal, k))
      BY <1>0, <3>1, <3>2, Recording, SameMembers, PlainChange
    <3>4. \A k : Has(Replaced(k))' <=> Has(Replaced(k)) \/ (k = p /\ p \notin Additions)
      BY <1>3, <2>2, <3>2, <3>3
    <3> QED  BY <3>3, <3>4
  <2> QED  BY <2>1, <2>2
<1>5. /\ made = Image
      /\ \A k \in Live : /\ k \in Path /\ Effective(k) \in Path \ {<<>>}
                         /\ In(k, kinds) /\ Len(Effective(k)) <= MaxDepth
                         /\ Clear(journal, k) /\ OriginalOf(Effective(k)) = k
  BY Sounds
<1>6. p \in Live /\ Effective(p) = p
  <2>1. PICK k \in Live : Effective(k) = p
    BY <1>0, <1>1, Shown
  <2>2. OriginalOf(p) = k
    BY <1>5, <2>1
  <2>3. OriginalOf(p) = p
    BY <1>1 DEF MemberAt
  <2> QED  BY <2>1, <2>2, <2>3
<1>7. \A k \in Live : Effective(k) = p => k = p
  BY <1>5, <1>6
<1>8. p \in Additions \/ p \in Keys
  <2>1. p \in Additions \/ \E e \in Entries : e.key = p
    BY <1>0, <1>6, LiveIs
  <2> QED  BY <2>1, LiveParts
<1>9. \A q \in DOMAIN staging : q # p => staging'[q] = staging[q]
  OBVIOUS
<1>10. staging'[p] = broughtIn + 1 /\ DOMAIN staging' = DOMAIN staging \cup {p}
  OBVIOUS
<1> DEFINE U(t) == IF t.at = p THEN [t EXCEPT !.copy = broughtIn + 1] ELSE t
<1>11. made' = {U(t) : t \in made}
  <2>1. \E t \in made : t.at = p
    BY <1>0, <1>5, <1>6, ImageIs
  <2> QED  BY <2>1 DEF TreeCopy
<1>12. JournalTypeInv'
  <2>1. broughtIn + 1 \in Nat /\ broughtIn' \in Nat
    <3>1. broughtIn \in Nat
      BY <1>0 DEF JournalTypeInv
    <3> QED  BY <3>1
  <2>2. staging' \in [DOMAIN staging' -> Nat] /\ DOMAIN staging' \subseteq Path
    <3>1. \A q \in DOMAIN staging : staging[q] \in Nat /\ q \in Path
      BY <1>0 DEF JournalTypeInv
    <3> QED  BY <1>1, <1>10, <2>1, <3>1
  <2>3. made' \subseteq [at : Path, key : Path, copy : Nat, implied : BOOLEAN]
    <3> SUFFICES ASSUME NEW t \in made
                 PROVE  U(t) \in [at : Path, key : Path, copy : Nat, implied : BOOLEAN]
      BY <1>11
    <3>1. t \in [at : Path, key : Path, copy : Nat, implied : BOOLEAN]
      BY <1>0 DEF JournalTypeInv
    <3> QED  BY <2>1, <3>1
  <2>4. odd' \subseteq {"nowhere", "taken", "renamed to", "straddled", "unadded"} /\ index' \in Indexes
    BY <1>0 DEF JournalTypeInv
  <2> QED  BY <1>4, <2>1, <2>2, <2>3, <2>4 DEF JournalTypeInv
<1>13. KeysApart'
  <2>1. \A k : Has(Replaced(k)) => k \in Keys /\ k \in DOMAIN staging
    BY <1>0 DEF KeysApart
  <2>2. \A k : Has(Replaced(k))' => k \in Keys' /\ k \in DOMAIN staging'
    BY <1>4, <1>8, <1>10, <2>1
  <2>3. Keys' \cap Additions' = {} /\ Additions' \subseteq (DOMAIN staging') \ {<<>>}
    BY <1>0, <1>4, <1>10 DEF KeysApart
  <2> QED  BY <2>2, <2>3 DEF KeysApart
<1>14. made' = Image'
  <2>1. ASSUME NEW e \in Entries  PROVE AsPlanned(e)' = U(AsPlanned(e))
    <3>1. e.key \in Path /\ e.key \in Keys /\ e.key \in Live /\ e.key \notin Additions
      BY <1>0, <1>5, LiveParts DEF KeysApart
    <3>2. Effective(e.key)' = Effective(e.key)
      BY <1>4, <3>1
    <3>3. AsPlanned(e).at = Effective(e.key) /\ (Effective(e.key) = p <=> e.key = p)
      BY <1>6, <1>7, <3>1 DEF AsPlanned
    <3>4. CASE e.key = p
      <4>1. Has(Replaced(e.key))' /\ staging'[e.key] = broughtIn + 1
        BY <1>4, <1>10, <3>1, <3>4
      <4>2. AsPlanned(e)' = [at |-> Effective(e.key), key |-> e.key, implied |-> e.implied,
                             copy |-> broughtIn + 1]
        BY <3>2, <4>1 DEF AsPlanned
      <4>3. AsPlanned(e)' = [AsPlanned(e) EXCEPT !.copy = broughtIn + 1]
        BY <4>2 DEF AsPlanned
      <4> QED  BY <3>3, <3>4, <4>3
    <3>5. CASE e.key # p
      <4>1. Has(Replaced(e.key))' <=> Has(Replaced(e.key))
        BY <1>4, <3>5
      <4>2. Has(Replaced(e.key)) => staging'[e.key] = staging[e.key]
        BY <1>0, <1>9, <3>5 DEF KeysApart
      <4>3. AsPlanned(e)' = AsPlanned(e)
        BY <3>2, <4>1, <4>2 DEF AsPlanned
      <4> QED  BY <3>3, <3>5, <4>3
    <3> QED  BY <3>4, <3>5
  <2>2. ASSUME NEW q \in Additions
        PROVE  File(Effective(q), staging[q])' = U(File(Effective(q), staging[q]))
    <3>1. q \in DOMAIN staging /\ q \in Live /\ q \in Path
      BY <1>0, <1>5, LiveParts DEF KeysApart
    <3>2. Effective(q)' = Effective(q)
      BY <1>4, <3>1
    <3>3. File(Effective(q), staging[q]).at = Effective(q) /\ (Effective(q) = p <=> q = p)
      BY <1>6, <1>7, <3>1 DEF File
    <3>4. CASE q = p
      <4>1. staging'[q] = broughtIn + 1
        BY <1>10, <3>4
      <4>2. PICK a, n, m, none, no : /\ a = Effective(q) /\ n = staging[q] /\ m = broughtIn + 1
                                     /\ none = <<>> /\ no = FALSE
        OBVIOUS
      <4>3. File(Effective(q), staging[q])' = [at |-> a, key |-> none, copy |-> m, implied |-> no]
        BY <3>2, <4>1, <4>2 DEF File
      <4>4. File(Effective(q), staging[q]) = [at |-> a, key |-> none, copy |-> n, implied |-> no]
        BY <4>2 DEF File
      <4>5. [[at |-> a, key |-> none, copy |-> n, implied |-> no] EXCEPT !.copy = m]
            = [at |-> a, key |-> none, copy |-> m, implied |-> no]
        OBVIOUS
      <4>6. File(Effective(q), staging[q])' = [File(Effective(q), staging[q]) EXCEPT !.copy = m]
        BY <4>3, <4>4, <4>5
      <4> QED  BY <3>3, <3>4, <4>2, <4>6
    <3>5. CASE q # p
      <4>1. File(Effective(q), staging[q])' = File(Effective(q), staging[q])
        BY <1>9, <3>1, <3>2, <3>5 DEF File
      <4> QED  BY <3>3, <3>5, <4>1
    <3> QED  BY <3>4, <3>5
  <2>3. Image' = {AsPlanned(e)' : e \in Entries} \cup {File(Effective(q), staging[q])' : q \in Additions}
    BY <1>4 DEF Image
  <2>4. made' = {U(t) : t \in Image}
    BY <1>5, <1>11
  <2> HIDE DEF U
  <2>5. {U(t) : t \in Image} = {U(AsPlanned(e)) : e \in Entries}
                              \cup {U(File(Effective(q), staging[q])) : q \in Additions}
    BY DEF Image
  <2>6. {AsPlanned(e)' : e \in Entries} = {U(AsPlanned(e)) : e \in Entries}
    BY <2>1
  <2>7. {File(Effective(q), staging[q])' : q \in Additions}
        = {U(File(Effective(q), staging[q])) : q \in Additions}
    BY <2>2
  <2> QED  BY <2>3, <2>4, <2>5, <2>6, <2>7
<1>15. ASSUME NEW k \in Live'
       PROVE  In(k, kinds)' /\ Len(Effective(k)') <= MaxDepth /\ Clear(journal, k)'
  <2>1. k \in Live /\ k \in Path /\ \A e \in Entries : e.key \in Path
    BY <1>4, <1>5, LiveParts
  <2>2. Effective(k)' = Effective(k) /\ In(k, kinds) /\ Len(Effective(k)) <= MaxDepth /\ Clear(journal, k)'
    BY <1>4, <1>5, <2>1
  <2> QED  BY <1>4, <2>1, <2>2 DEF In
<1> QED  BY <1>12, <1>13, <1>14, <1>15 DEF JournalInv, MadeIsLive, Rooted, AllClear

(* Delete of a member that is recorded, and of an addition taken out. *)
Deleting(r) ==
    /\ r.key \notin Additions
    /\ journal' = Append(journal, Deleted(r.key))
    /\ staging' = staging
    /\ Note("straddled", Straddles(r, r.key))
    /\ TreeRemove(r.at)
    /\ index' = index /\ broughtIn' = broughtIn

TakingOut(r) ==
    /\ r.key \in Additions
    /\ journal' = KeptWithout(journal, r.key)
    /\ staging' = [p \in DOMAIN staging \ {r.key} |-> staging[p]]
    /\ Note("unadded", OthersRename(r.key))
    /\ TreeRemove(r.at)
    /\ index' = index /\ broughtIn' = broughtIn

(* What is no longer there is what is shown under the row. *)
LEMMA DeleteKeeps ==
    ASSUME NEW kinds, JournalInv(kinds), odd = {}, NEW r \in Rows, Deleting(r)
    PROVE  JournalInv(kinds)'
<1>0. JournalTypeInv /\ KeysApart
  BY DEF JournalInv
<1>1. PICK key \in Path \ {<<>>} : key = r.key
  BY <1>0, Sounds, LiveIs
<1>2. PICK at \in Path \ {<<>>} : at = r.at
  BY <1>0, Sounds, LiveIs
<1>3. /\ staging' = staging /\ index' = index /\ broughtIn' = broughtIn
      /\ made' = {t \in made : ~IsPrefix(at, t.at)}
  BY <1>2 DEF Deleting, TreeRemove, Under
<1>4. Deleted(key) \in Changes /\ Deleted(key).kind = "deleted" /\ Deleted(key).key = key
  BY <1>1, ChangeTypes
<1>5. PICK c \in Changes : c = Deleted(key) /\ c.kind = "deleted" /\ c.key = key
  BY <1>4
<1>6. journal' = Append(journal, c)
  BY <1>1, <1>5 DEF Deleting
<1>7. /\ journal' \in Seq(Changes)
      /\ \A k : Has(Replaced(k))' <=> Has(Replaced(k)) \/ c = Replaced(k)
      /\ Additions' = {q \in AddedIn(journal) \cup (IF c.kind = "added" THEN {c.key} ELSE {}) :
                          ~(IsDeleted(q) \/ (c.kind = "deleted" /\ IsPrefix(c.key, q)))}
      /\ Entries' = {e \in Entries : ~(c.kind = "deleted" /\ IsPrefix(c.key, e.key))}
      /\ Keys' = Keys
  BY <1>0, <1>3, <1>6, Recording
<1>8. \A k \in Path : Effective(k)' = Effective(k) /\ (Clear(journal, k)' <=> Clear(journal, k))
  BY <1>0, <1>3, <1>5, <1>6, PlainChange
<1>9. \A k : Has(Replaced(k))' <=> Has(Replaced(k))
  <2>1. \A k : Replaced(k).kind = "replaced"
    BY DEF Replaced
  <2>2. \A k : c # Replaced(k)
    BY <1>5, <2>1
  <2> QED  BY <1>7, <2>2
<1>10. /\ Additions' = {p \in Additions : ~IsPrefix(key, p)}
       /\ Entries' = {e \in Entries : ~IsPrefix(key, e.key)}
  <2>1. Additions = {q \in AddedIn(journal) : ~IsDeleted(q)}
    BY DEF Additions, AddedIn
  <2>2. Entries' = {e \in Entries : ~IsPrefix(key, e.key)}
    BY <1>5, <1>7
  <2>3. Additions' = {q \in AddedIn(journal) : ~(IsDeleted(q) \/ IsPrefix(key, q))}
    BY <1>5, <1>7
  <2> QED  BY <2>1, <2>2, <2>3
<1>11. Live' = {k \in Live : ~IsPrefix(key, k)}
  <2>1. Live' = {e.key : e \in Entries'} \cup Additions'
    BY DEF Live, Entries
  <2> QED  BY <1>10, <2>1, LiveParts
<1>12. /\ made = Image
       /\ \A k \in Live : /\ k \in Path /\ Effective(k) \in Path \ {<<>>}
                          /\ In(k, kinds) /\ Len(Effective(k)) <= MaxDepth /\ Clear(journal, k)
  BY Sounds
<1>13. JournalTypeInv'
  <2>1. odd' \subseteq {"nowhere", "taken", "renamed to", "straddled", "unadded"}
    BY DEF Note, Deleting
  <2> QED  BY <1>0, <1>3, <1>7, <2>1 DEF JournalTypeInv
<1>14. KeysApart'
  BY <1>0, <1>3, <1>7, <1>9, <1>10 DEF KeysApart
<1>15. ASSUME NEW k \in Live'  PROVE Clear(journal, k)'
  BY <1>8, <1>11, <1>12
<1>16. ASSUME "straddled" \notin odd', NEW k \in Live  PROVE IsPrefix(key, k) <=> IsPrefix(at, Effective(k))
  <2>1. ~Straddles(r, r.key)
    BY <1>16 DEF Deleting, Note
  <2> QED  BY <1>1, <1>2, <2>1, Zenon DEF Straddles
<1>17. ASSUME "straddled" \notin odd'  PROVE made' = Image'
  <2>1. ASSUME NEW e \in Entries
        PROVE  /\ AsPlanned(e)' = AsPlanned(e)
               /\ e \in Entries' <=> ~IsPrefix(at, AsPlanned(e).at)
    <3>1. e.key \in Live /\ e.key \in Path
      BY <1>12, LiveParts
    <3>2. Effective(e.key)' = Effective(e.key) /\ (Has(Replaced(e.key))' <=> Has(Replaced(e.key)))
      BY <1>8, <1>9, <3>1
    <3>3. AsPlanned(e).at = Effective(e.key)
      BY DEF AsPlanned
    <3>4. e \in Entries' <=> ~IsPrefix(at, Effective(e.key))
      BY <1>10, <1>16, <1>17, <3>1
    <3>5. AsPlanned(e)' = AsPlanned(e)
      BY <1>3, <3>2 DEF AsPlanned
    <3> QED  BY <3>3, <3>4, <3>5
  <2>2. ASSUME NEW p \in Additions
        PROVE  /\ File(Effective(p), staging[p])' = File(Effective(p), staging[p])
               /\ p \in Additions' <=> ~IsPrefix(at, File(Effective(p), staging[p]).at)
    <3>1. p \in Live /\ p \in Path
      BY <1>12, LiveParts
    <3>2. Effective(p)' = Effective(p)
      BY <1>8, <3>1
    <3>3. File(Effective(p), staging[p]).at = Effective(p)
      BY DEF File
    <3>4. p \in Additions' <=> ~IsPrefix(at, Effective(p))
      BY <1>10, <1>16, <1>17, <3>1
    <3>5. File(Effective(p), staging[p])' = File(Effective(p), staging[p])
      BY <1>3, <3>2 DEF File
    <3> QED  BY <3>3, <3>4, <3>5
  <2>3. Image' = {AsPlanned(e)' : e \in Entries'} \cup {File(Effective(p), staging[p])' : p \in Additions'}
    BY DEF Image
  <2>4. Image = {AsPlanned(e) : e \in Entries} \cup {File(Effective(p), staging[p]) : p \in Additions}
    BY DEF Image
  <2>5. Entries' \subseteq Entries /\ Additions' \subseteq Additions
    BY <1>10
  <2>6. {AsPlanned(e)' : e \in Entries'} = {t \in {AsPlanned(e) : e \in Entries} : ~IsPrefix(at, t.at)}
    BY <2>1, <2>5
  <2>7. {File(Effective(p), staging[p])' : p \in Additions'}
        = {t \in {File(Effective(p), staging[p]) : p \in Additions} : ~IsPrefix(at, t.at)}
    BY <2>2, <2>5
  <2> QED  BY <1>3, <1>12, <2>3, <2>4, <2>6, <2>7
<1>18. ASSUME "straddled" \notin odd', NEW k \in Live'
       PROVE  In(k, kinds)' /\ Len(Effective(k)') <= MaxDepth
  <2>1. k \in Live /\ ~IsPrefix(at, Effective(k))
    BY <1>11, <1>16, <1>18
  <2>2. PICK p \in Path \ {<<>>} : p = Effective(k)
    BY <1>12, <2>1
  <2>3. Effective(k)' = p /\ Len(p) <= MaxDepth
    BY <1>8, <1>12, <2>1, <2>2
  <2>4. Parent(p) = <<>> \/ \E e \in Entries : e.kind \in kinds /\ Effective(e.key) = Parent(p)
    BY <1>12, <2>1, <2>2 DEF In
  <2>5. CASE Parent(p) = <<>>
    BY <2>3, <2>5 DEF In
  <2>6. CASE Parent(p) # <<>>
    <3>1. PICK e \in Entries : e.kind \in kinds /\ Effective(e.key) = Parent(p)
      BY <2>4, <2>6
    <3>2. ~IsPrefix(at, Parent(p))
      BY <2>1, <2>2, ParentOf, PrefixOrder
    <3>3. e.key \in Live /\ e.key \in Path
      BY <1>12, LiveParts
    <3>4. e \in Entries' /\ Effective(e.key)' = Parent(p)
      BY <1>8, <1>10, <1>16, <1>18, <3>1, <3>2, <3>3
    <3> QED  BY <2>3, <3>1, <3>4 DEF In
  <2> QED  BY <2>3, <2>5, <2>6
<1> QED  BY <1>13, <1>14, <1>15, <1>17, <1>18
         DEF JournalInv, MadeIsLive, Rooted, AllClear, Clean

(* Nothing but the addition is at its place, and no rename of others goes. *)
LEMMA TakeOutKeeps ==
    ASSUME NEW kinds, JournalInv(kinds), odd = {}, NEW r \in Rows, TakingOut(r)
    PROVE  JournalInv(kinds)'
<1>0. JournalTypeInv /\ KeysApart
  BY DEF JournalInv
<1>1. PICK key \in Path \ {<<>>} : key = r.key
  BY <1>0, Sounds, LiveIs
<1>2. PICK at \in Path \ {<<>>} : at = r.at
  BY <1>0, Sounds, LiveIs
<1>3. /\ journal' = KeptWithout(journal, key)
      /\ staging' = [p \in DOMAIN staging \ {key} |-> staging[p]]
      /\ index' = index /\ broughtIn' = broughtIn
      /\ made' = {t \in made : ~IsPrefix(at, t.at)}
      /\ key \in Additions
  BY <1>1, <1>2 DEF TakingOut, TreeRemove, Under
<1>4. PICK s \in Seq(Changes) : s = journal
  BY <1>0 DEF JournalTypeInv
<1>5. KeptWithout(s, key) \in Seq(Changes) /\ ToSet(KeptWithout(s, key)) = {c \in ToSet(s) : ~Forgotten(c, key)}
  <2>1. Added(key) \in Changes
    BY ChangeTypes
  <2> QED  BY <2>1, KeptAppend, KeptHolds
<1>6. journal' \in Seq(Changes) /\ ToSet(journal') = {c \in ToSet(journal) : ~Forgotten(c, key)}
  BY <1>3, <1>4, <1>5
<1>7. \A c : c.kind \in {"deleted", "replaced"} => ~Forgotten(c, key)
  BY DEF Forgotten, Added
<1>8. \A k : IsDeleted(k)' <=> IsDeleted(k)
  <2>1. \A k : IsDeleted(k)' <=> \E c \in ToSet(journal') : c.kind = "deleted" /\ IsPrefix(c.key, k)
    BY DEF IsDeleted
  <2> QED  BY <1>6, <1>7, <2>1 DEF IsDeleted
<1>9. \A k : Has(Replaced(k))' <=> Has(Replaced(k))
  <2>1. \A k : Replaced(k).kind = "replaced"
    BY DEF Replaced
  <2>2. \A k : (Has(Replaced(k)) <=> Replaced(k) \in ToSet(journal))
               /\ (Has(Replaced(k))' <=> Replaced(k) \in ToSet(journal'))
    BY DEF Has, Replaced
  <2> QED  BY <1>6, <1>7, <2>1, <2>2
<1>10. Additions' = Additions \ {key} /\ Entries' = Entries /\ Keys' = Keys
  <2>1. Additions' = {p \in AddedIn(journal') : ~IsDeleted(p)'} /\ Additions = {p \in AddedIn(journal) : ~IsDeleted(p)}
    BY DEF Additions, AddedIn
  <2>2. AddedIn(journal') = AddedIn(journal) \ {key}
    <3>1. \A c \in ToSet(journal) : c.kind = "added" => (Forgotten(c, key) <=> c.key = key)
      <4> TAKE c \in ToSet(journal)
      <4>1. c \in Changes
        BY <1>4, ChangesOf
      <4>2. ASSUME c.kind = "added", c.key = key  PROVE c = Added(key)
        BY <4>1, <4>2 DEF Changes, Added
      <4>3. Added(key).key = key /\ Added(key).kind = "added"
        BY DEF Added
      <4> QED  BY <4>2, <4>3 DEF Forgotten
    <3> QED  BY <1>6, <3>1 DEF AddedIn
  <2>3. Entries' = Entries /\ Keys' = Keys
    BY <1>3, <1>8 DEF Entries, Keys
  <2> QED  BY <1>8, <2>1, <2>2, <2>3
<1>11. Live' = Live \ {key} /\ key \notin Keys
  <2>1. Live' = {e.key : e \in Entries'} \cup Additions'
    BY DEF Live, Entries
  <2>2. key \notin Keys
    BY <1>0, <1>3 DEF KeysApart
  <2> QED  BY <1>10, <2>1, <2>2, LiveParts
<1>12. /\ made = Image
       /\ \A k \in Live : /\ k \in Path /\ Effective(k) \in Path \ {<<>>}
                          /\ In(k, kinds) /\ Len(Effective(k)) <= MaxDepth /\ Clear(journal, k)
       /\ \A j, k \in Live : Effective(j) = Effective(k) => j = k
       /\ key \in Live /\ at = Effective(key)
  BY <1>1, <1>2, Sounds
<1>13. \A q \in DOMAIN staging \ {key} : staging'[q] = staging[q]
  BY <1>3
<1>14. JournalTypeInv'
  <2>1. odd' \subseteq {"nowhere", "taken", "renamed to", "straddled", "unadded"}
    BY DEF Note, TakingOut
  <2>2. staging' \in [DOMAIN staging' -> Nat] /\ DOMAIN staging' \subseteq Path
    BY <1>0, <1>3 DEF JournalTypeInv
  <2> QED  BY <1>0, <1>3, <1>6, <2>1, <2>2 DEF JournalTypeInv
<1>15. KeysApart'
  <2>1. DOMAIN staging' = DOMAIN staging \ {key}
    BY <1>3
  <2>2. Keys' \cap Additions' = {} /\ Additions' \subseteq (DOMAIN staging') \ {<<>>}
    BY <1>0, <1>10, <2>1 DEF KeysApart
  <2>3. \A k : Has(Replaced(k)) => k \in Keys /\ k \in DOMAIN staging
    BY <1>0 DEF KeysApart
  <2>4. \A k : Has(Replaced(k))' => k \in Keys' /\ k \in DOMAIN staging'
    BY <1>9, <1>10, <1>11, <2>1, <2>3
  <2> QED  BY <2>2, <2>4 DEF KeysApart
<1>16. ASSUME "unadded" \notin odd', NEW k \in Live, k # key
       PROVE  /\ Effective(k)' = Effective(k) /\ Clear(journal, k)'
              /\ ~IsPrefix(at, Effective(k))
  <2>1. ~OthersRename(key)
    BY <1>1, <1>16 DEF TakingOut, Note
  <2>2. DOMAIN s = 1..Len(s) /\ k \in (Keys \cup Additions) \ {key}
    BY <1>16, LiveParts
  <2>3. Untouched(s, key, k)
    BY <1>4, <2>1, <2>2 DEF OthersRename, Untouched
  <2>4. k \in Path /\ Clear(s, k)
    BY <1>4, <1>12
  <2>5. Eff(KeptWithout(s, key), k) = Eff(s, k) /\ Clear(KeptWithout(s, key), k)
    BY <2>3, <2>4, KeptSame
  <2>6. Effective(k)' = Effective(k)
    BY <1>3, <1>4, <2>5 DEF Effective, Eff
  <2>7. Clear(journal, k)'
    BY <1>3, <1>4, <2>5 DEF Clear
  <2>8. ASSUME IsPrefix(at, Effective(k))  PROVE FALSE
    <3>1. at # Effective(k)
      BY <1>12, <1>16
    <3>2. \A j \in Live : In(j, kinds)
      BY <1>12
    <3>3. PICK e \in Entries : Effective(e.key) = at
      BY <1>0, <2>8, <3>1, <3>2, Ancestors
    <3>4. e.key = key
      BY <1>12, <3>3, LiveParts
    <3> QED  BY <1>11, <3>4, LiveParts
  <2> QED  BY <2>6, <2>7, <2>8
<1>17. ASSUME "unadded" \notin odd'  PROVE made' = Image'
  <2>1. ASSUME NEW e \in Entries
        PROVE  AsPlanned(e)' = AsPlanned(e) /\ ~IsPrefix(at, AsPlanned(e).at)
    <3>1. e.key \in Live /\ e.key \in Keys /\ e.key # key
      BY <1>11, LiveParts
    <3>2. /\ Effective(e.key)' = Effective(e.key) /\ (Has(Replaced(e.key))' <=> Has(Replaced(e.key)))
          /\ ~IsPrefix(at, Effective(e.key))
      BY <1>9, <1>16, <1>17, <3>1
    <3>3. AsPlanned(e).at = Effective(e.key)
      BY DEF AsPlanned
    <3>4. Has(Replaced(e.key)) => staging'[e.key] = staging[e.key]
      BY <1>0, <1>13, <3>1 DEF KeysApart
    <3>5. AsPlanned(e)' = AsPlanned(e)
      BY <3>2, <3>4 DEF AsPlanned
    <3> QED  BY <3>2, <3>3, <3>5
  <2>2. ASSUME NEW p \in Additions, p # key
        PROVE  /\ File(Effective(p), staging[p])' = File(Effective(p), staging[p])
               /\ ~IsPrefix(at, File(Effective(p), staging[p]).at)
    <3>1. p \in Live /\ p \in DOMAIN staging
      BY <1>0, LiveParts DEF KeysApart
    <3>2. Effective(p)' = Effective(p) /\ ~IsPrefix(at, Effective(p))
      BY <1>16, <1>17, <2>2, <3>1
    <3>3. File(Effective(p), staging[p]).at = Effective(p)
      BY DEF File
    <3>4. staging'[p] = staging[p]
      BY <1>13, <2>2, <3>1
    <3>5. File(Effective(p), staging[p])' = File(Effective(p), staging[p])
      BY <3>2, <3>4 DEF File
    <3> QED  BY <3>2, <3>3, <3>5
  <2>3. IsPrefix(at, File(Effective(key), staging[key]).at)
    <3>1. File(Effective(key), staging[key]).at = at
      BY <1>12 DEF File
    <3> QED  BY <3>1, PrefixOrder
  <2>4. Image' = {AsPlanned(e)' : e \in Entries'} \cup {File(Effective(p), staging[p])' : p \in Additions'}
    BY DEF Image
  <2>5. Image = {AsPlanned(e) : e \in Entries} \cup {File(Effective(p), staging[p]) : p \in Additions}
    BY DEF Image
  <2>6. {AsPlanned(e)' : e \in Entries'} = {t \in {AsPlanned(e) : e \in Entries} : ~IsPrefix(at, t.at)}
    BY <1>10, <2>1
  <2>7. {File(Effective(p), staging[p])' : p \in Additions'}
        = {t \in {File(Effective(p), staging[p]) : p \in Additions} : ~IsPrefix(at, t.at)}
    BY <1>10, <2>2, <2>3
  <2> QED  BY <1>3, <1>12, <2>4, <2>5, <2>6, <2>7
<1>18. ASSUME "unadded" \notin odd', NEW k \in Live'
       PROVE  In(k, kinds)' /\ Len(Effective(k)') <= MaxDepth /\ Clear(journal, k)'
  <2>1. k \in Live /\ k # key
    BY <1>11
  <2>2. /\ Effective(k)' = Effective(k) /\ Len(Effective(k)) <= MaxDepth /\ In(k, kinds)
        /\ Clear(journal, k)'
    BY <1>12, <1>16, <1>18, <2>1
  <2>3. \A e \in Entries : Effective(e.key)' = Effective(e.key)
    <3> TAKE e \in Entries
    <3>1. e.key \in Live /\ e.key # key
      BY <1>11, LiveParts
    <3> QED  BY <1>16, <1>18, <3>1
  <2> QED  BY <1>10, <2>2, <2>3 DEF In
<1> QED  BY <1>14, <1>15, <1>17, <1>18
         DEF JournalInv, MadeIsLive, Rooted, AllClear, Clean

(* Nothing changes when the variables don't. *)
LEMMA StutterKeeps ==
    ASSUME NEW kinds, JournalInv(kinds), UNCHANGED journalVars
    PROVE  JournalInv(kinds)'
<1>1. /\ index' = index /\ journal' = journal /\ staging' = staging
      /\ broughtIn' = broughtIn /\ made' = made /\ odd' = odd
  BY DEF journalVars
<1>2. \A k : (IsDeleted(k)' <=> IsDeleted(k)) /\ (Has(Replaced(k))' <=> Has(Replaced(k)))
  BY <1>1 DEF IsDeleted, Has
<1>3. Additions' = Additions /\ Entries' = Entries /\ Keys' = Keys
  BY <1>1, <1>2 DEF Additions, Entries, Keys
<1>4. Live' = Live
  <2>1. Live' = {e.key : e \in Entries'} \cup Additions'
    BY DEF Live, Entries
  <2> QED  BY <1>3, <2>1, LiveParts
<1>5. \A k : Effective(k)' = Effective(k) /\ (Clear(journal, k)' <=> Clear(journal, k))
  BY <1>1 DEF Effective, Clear
<1>6. \A k : In(k, kinds)' <=> In(k, kinds)
  BY <1>3, <1>5 DEF In
<1>7. Image' = Image
  <2>1. \A e : AsPlanned(e)' = AsPlanned(e)
    BY <1>1, <1>2, <1>5 DEF AsPlanned
  <2>2. \A p : File(Effective(p), staging[p])' = File(Effective(p), staging[p])
    BY <1>1, <1>5 DEF File
  <2>3. Image' = {AsPlanned(e)' : e \in Entries'} \cup {File(Effective(p), staging[p])' : p \in Additions'}
    BY DEF Image
  <2> QED  BY <1>3, <2>1, <2>2, <2>3 DEF Image
<1>8. JournalTypeInv' /\ KeysApart'
  <2>1. JournalTypeInv'
    BY <1>1 DEF JournalInv, JournalTypeInv
  <2>2. KeysApart'
    BY <1>1, <1>2, <1>3 DEF JournalInv, KeysApart
  <2> QED  BY <2>1, <2>2
<1>9. MadeIsLive' /\ Rooted(kinds)' /\ AllClear'
  BY <1>1, <1>4, <1>5, <1>6, <1>7 DEF JournalInv, MadeIsLive, Rooted, AllClear, Clean
<1> QED  BY <1>8, <1>9 DEF JournalInv

(* Every operation is one of these. *)
LEMMA NextKeeps ==
    ASSUME NEW kinds, "dir" \in kinds, JournalInv(kinds), [JournalNext]_journalVars
    PROVE  JournalInv(kinds)'
<1>1. CASE UNCHANGED journalVars
  BY <1>1, StutterKeeps
<1>2. CASE JournalNext
  <2>0. odd = {}
    BY <1>2 DEF JournalNext, Sound
  <2>1. ASSUME NEW r \in Rows, Delete(r)  PROVE JournalInv(kinds)'
    <3>1. MemberAt(r.at) = r.key
      BY <2>0, Sounds
    <3>2. CASE r.key \in Additions
      <4>1. TakingOut(r)
        BY <2>1, <3>1, <3>2 DEF Delete, TakingOut
      <4> QED  BY <2>0, <4>1, TakeOutKeeps
    <3>3. CASE r.key \notin Additions
      <4>1. Deleting(r)
        BY <2>1, <3>1, <3>3 DEF Delete, Deleting, Record
      <4> QED  BY <2>0, <4>1, DeleteKeeps
    <3> QED  BY <3>2, <3>3
  <2>2. ASSUME NEW r \in Rows, NEW dest \in Paths, Rename(r, dest)  PROVE JournalInv(kinds)'
    BY <2>0, <2>2, RenameKeeps
  <2>3. ASSUME NEW p \in Paths, BringIn(p)  PROVE JournalInv(kinds)'
    <3>1. CASE ShownAt(p) = {} /\ ~Claimed(p) /\ Record(Added(p)) /\ Note("renamed to", RenamedTo(p))
      <4>1. Adding(p)
        BY <2>3, <3>1 DEF BringIn, Adding, Record
      <4> QED  BY <2>0, <4>1, AddKeeps
    <3>2. CASE /\ \E r \in ShownAt(p) : r.kind = "file"
               /\ MemberAt(p) = p
               /\ IF p \in Additions \/ Has(Replaced(p)) THEN UNCHANGED journal
                                                          ELSE Record(Replaced(p))
               /\ UNCHANGED odd
      <4>1. /\ p # <<>> /\ ShownAt(p) # {} /\ MemberAt(p) = p /\ odd' = odd
            /\ broughtIn' = broughtIn + 1 /\ index' = index
            /\ staging' = [q \in DOMAIN staging \cup {p} |-> IF q = p THEN broughtIn + 1 ELSE staging[q]]
            /\ TreeCopy(p, broughtIn + 1)
        BY <2>3, <3>2 DEF BringIn
      <4>2. IF p \in Additions \/ Has(Replaced(p)) THEN journal' = journal
                                                    ELSE journal' = Append(journal, Replaced(p))
        BY <3>2 DEF Record
      <4> QED  BY <2>0, <4>1, <4>2, CopyKeeps
    <3> QED  BY <2>3, <3>1, <3>2 DEF BringIn
  <2> QED  BY <1>2, <2>1, <2>2, <2>3 DEF JournalNext
<1> QED  BY <1>1, <1>2

(* The parent of every entry is one, a directory or a file. *)
LEMMA StoredParents == ParentsAre({"dir", "file"})
<1>1. \A contents \in Indexes : \A e \in contents :
         /\ e.kind \in {"dir", "file"}
         /\ Len(e.key) > 1 => \E d \in contents : d.key = Front(e.key)
  BY JournalAssumption
<1> QED  BY <1>1 DEF ParentsAre

(* The invariant holds. *)
LEMMA JournalAlways == JournalSpec => []JournalInv({"dir", "file"})
<1>1. JournalInit => JournalInv({"dir", "file"})
  BY StoredParents, Starts
<1>2. JournalInv({"dir", "file"}) /\ [JournalNext]_journalVars => JournalInv({"dir", "file"})'
  BY NextKeeps
<1> QED  BY <1>1, <1>2, PTL DEF JournalSpec

-----------------------------------------------------------------------------
(***************************************************************************)
(* Type correctness: whatever is deleted, renamed, brought in and taken    *)
(* out again, the changes are of the kinds journal.rs has and name paths   *)
(* of the index's names, and a rename is never from or to the root.        *)
(***************************************************************************)
THEOREM JournalTypeHolds == JournalSpec => []JournalTypeInv
<1>1. JournalInv({"dir", "file"}) => JournalTypeInv
  BY DEF JournalInv
<1> QED  BY <1>1, JournalAlways, PTL

(* The plan is the image of the members, without the implied directories. *)
LEMMA PlanFollows ==
    ASSUME NEW kinds, JournalInv(kinds)
    PROVE  PlanIsTree
<1> SUFFICES ASSUME Clean({"straddled", "unadded"})  PROVE Plan = {t \in made : ~t.implied}
  BY DEF PlanIsTree, Clean
<1>1. JournalTypeInv /\ made = Image
  BY DEF JournalInv, MadeIsLive
<1>2. \A e \in index : e.implied \in BOOLEAN
  BY <1>1, MemberTypes
<1> DEFINE P(e) == [at |-> Effective(e.key), key |-> e.key, implied |-> FALSE,
                    copy |-> IF Has(Replaced(e.key)) THEN staging[e.key] ELSE 0]
<1>3. Plan = {P(e) : e \in {f \in index : ~f.implied /\ ~IsDeleted(f.key)}}
             \cup {File(Effective(p), staging[p]) : p \in Additions}
  BY DEF Plan
<1>4. ASSUME NEW e \in Entries
      PROVE  AsPlanned(e).implied = e.implied /\ (~e.implied => P(e) = AsPlanned(e))
  <2>1. AsPlanned(e).implied = e.implied
    BY DEF AsPlanned
  <2>2. ASSUME ~e.implied  PROVE P(e) = AsPlanned(e)
    <3>1. e.implied = FALSE
      BY <1>2, <2>2 DEF Entries
    <3> QED  BY <3>1 DEF AsPlanned
  <2> QED  BY <2>1, <2>2
<1>5. \A p, n : File(p, n).implied = FALSE
  BY DEF File
<1>6. {f \in index : ~f.implied /\ ~IsDeleted(f.key)} = {e \in Entries : ~e.implied}
  BY DEF Entries
<1> HIDE DEF P
<1>7. {P(e) : e \in {f \in index : ~f.implied /\ ~IsDeleted(f.key)}}
      = {t \in {AsPlanned(e) : e \in Entries} : ~t.implied}
  BY <1>4, <1>6
<1>8. {File(Effective(p), staging[p]) : p \in Additions}
      = {t \in {File(Effective(p), staging[p]) : p \in Additions} : ~t.implied}
  BY <1>5
<1> QED  BY <1>1, <1>3, <1>7, <1>8 DEF Image

(***************************************************************************)
(* What plan_repack writes is what the user made of the archive, member    *)
(* for member and copy for copy, for any journal on any index, but where a *)
(* delete straddles a rename or an addition is taken out with the rename   *)
(* of another member.                                                      *)
(***************************************************************************)
THEOREM PlanHolds == JournalSpec => []PlanIsTree
<1>1. JournalInv({"dir", "file"}) => PlanIsTree
  BY PlanFollows
<1> QED  BY <1>1, JournalAlways, PTL

(* original_of of a row's path is its key: the renames are undone. *)
LEMMA RowsFollow ==
    ASSUME NEW kinds, JournalInv(kinds)
    PROVE  RowsResolve
<1> SUFFICES ASSUME Clean({"renamed to", "taken", "unadded"}), NEW r \in Rows
             PROVE  MemberAt(r.at) = r.key
  BY DEF RowsResolve, Clean
<1>1. JournalTypeInv /\ KeysApart /\ \A k \in Live : Clear(journal, k)
  BY DEF JournalInv, AllClear
<1>2. r \in LiveRows /\ r.key \in Live /\ r.at = Effective(r.key)
  BY <1>1, RowsAreLive, LiveIs
<1>3. journal \in Seq(Changes) /\ r.key \in Path /\ Clear(journal, r.key)
  BY <1>1, <1>2, LiveIs DEF JournalTypeInv
<1>4. Orig(journal, Eff(journal, r.key)) = r.key
  BY <1>3, OrigUndoes
<1>5. OriginalOf(r.at) = r.key
  BY <1>2, <1>4 DEF OriginalOf, Effective, Orig, Eff
<1>6. r.key \in Keys \cup Additions
  BY <1>2 DEF Live, Keys
<1> QED  BY <1>5, <1>6 DEF MemberAt

(***************************************************************************)
(* member_at finds the member a row of listing_for shows, through any      *)
(* renames of it and of what it is in, unless a file was brought in where  *)
(* a rename ends, something was moved onto a name that is taken, or an     *)
(* addition was taken out with the rename of another member.               *)
(***************************************************************************)
THEOREM RowsHold == JournalSpec => []RowsResolve
<1>1. JournalInv({"dir", "file"}) => RowsResolve
  BY RowsFollow
<1> QED  BY <1>1, JournalAlways, PTL

(* All rows can be walked to, and they are the members of the image. *)
LEMMA ListingFollows ==
    ASSUME JournalInv({"dir"})
    PROVE  ShownIsPlanned
<1> DEFINE Shows(r) == <<r.at, IF r.key \in Keys THEN r.key ELSE <<>> >>
           Holds(t) == <<t.at, t.key>>
<1> SUFFICES ASSUME Clean({"nowhere", "straddled", "unadded"})
             PROVE  {Shows(r) : r \in Rows} = {Holds(t) : t \in made}
  BY DEF ShownIsPlanned, Clean
<1>1. /\ JournalTypeInv /\ KeysApart /\ made = Image
      /\ \A k \in Live : In(k, {"dir"}) /\ Len(Effective(k)) <= MaxDepth
  BY DEF JournalInv, MadeIsLive, Rooted, Clean
<1>2. Rows = LiveRows
  BY <1>1, RowsAreAll
<1>3. ASSUME NEW e \in Entries
      PROVE  Shows(Row(e.key, Effective(e.key), e.kind)) = Holds(AsPlanned(e))
  <2>1. e.key \in Keys
    BY LiveParts
  <2> QED  BY <2>1 DEF Row, AsPlanned
<1>4. ASSUME NEW p \in Additions
      PROVE  Shows(Row(p, Effective(p), "file")) = Holds(File(Effective(p), staging[p]))
  <2>1. p \notin Keys
    BY <1>1 DEF KeysApart
  <2> QED  BY <2>1 DEF Row, File
<1> HIDE DEF Shows, Holds
<1>5. {Shows(r) : r \in LiveRows} =
         {Shows(Row(e.key, Effective(e.key), e.kind)) : e \in Entries}
         \cup {Shows(Row(p, Effective(p), "file")) : p \in Additions}
  BY DEF LiveRows
<1>6. {Holds(t) : t \in Image} =
         {Holds(AsPlanned(e)) : e \in Entries}
         \cup {Holds(File(Effective(p), staging[p])) : p \in Additions}
  BY DEF Image
<1>7. {Shows(Row(e.key, Effective(e.key), e.kind)) : e \in Entries} = {Holds(AsPlanned(e)) : e \in Entries}
  BY <1>3
<1>8. {Shows(Row(p, Effective(p), "file")) : p \in Additions}
      = {Holds(File(Effective(p), staging[p])) : p \in Additions}
  BY <1>4
<1> QED  BY <1>1, <1>2, <1>5, <1>6, <1>7, <1>8

(***************************************************************************)
(* What listing_for lets the user walk to, by stored paths or with renames *)
(* by effective ones, is what a write plans and the directories implied,   *)
(* if the index has a directory for the parent of each entry.  An archive  *)
(* that stores both a file a and a/b does not: nothing walks to a/b.       *)
(***************************************************************************)
THEOREM ListingHolds ==
    ASSUME ParentsAre({"dir"})
    PROVE  JournalSpec => []ShownIsPlanned
<1>1. JournalInit => JournalInv({"dir"})
  BY Starts
<1>2. JournalInv({"dir"}) /\ [JournalNext]_journalVars => JournalInv({"dir"})'
  BY NextKeeps
<1>3. JournalInv({"dir"}) => ShownIsPlanned
  BY ListingFollows
<1> QED  BY <1>1, <1>2, <1>3, PTL DEF JournalSpec
-----------------------------------------------------------------------------
(* What the exclusions of the three leave: renames alone make a journal odd. *)
OddNeedsRename == ~HasRenames => odd \subseteq {"unadded"}

(* A change is in the journal it was recorded in. *)
LEMMA Pushed ==
    ASSUME JournalTypeInv, NEW c \in Changes, Record(c)
    PROVE  ToSet(journal') = ToSet(journal) \cup {c}
<1>0. journal \in Seq(Changes)
  BY DEF JournalTypeInv
<1>1. PICK s \in Seq(Changes) : s = journal
  BY <1>0
<1>2. journal' = Append(s, c)
  BY <1>1 DEF Record
<1> QED  BY <1>1, <1>2, Recorded

(* Without renames each member is shown at its key. *)
LEMMA PlainPlaces ==
    ASSUME JournalTypeInv, ~HasRenames, NEW k \in Path
    PROVE  Effective(k) = k /\ OriginalOf(k) = k
<1>0. journal \in Seq(Changes)
  BY DEF JournalTypeInv
<1>1. PICK s \in Seq(Changes) : s = journal
  BY <1>0
<1>2. \A i \in 1..Len(s) : s[i].kind # "renamed"
  BY <1>1, ChangesOf DEF HasRenames
<1>3. Eff(s, k) = k /\ Orig(s, k) = k
  BY <1>1, <1>2, NoRenames
<1> QED  BY <1>1, <1>3 DEF Effective, OriginalOf, Eff, Orig

(* A delete straddles nothing where nothing was renamed. *)
LEMMA PlainDelete ==
    ASSUME JournalInv({"dir", "file"}), odd = {}, NEW r \in Rows, Delete(r), ~HasRenames'
    PROVE  odd' \subseteq {"unadded"}
<1>0. JournalTypeInv /\ KeysApart
  BY DEF JournalInv
<1>1. /\ r.key \in Live /\ r.at = Effective(r.key) /\ MemberAt(r.at) = r.key
      /\ \A k \in Live : k \in Path
  BY Sounds
<1>2. CASE r.key \in Additions
  BY <1>1, <1>2 DEF Delete, Note
<1>3. CASE r.key \notin Additions
  <2>1. Record(Deleted(r.key)) /\ Note("straddled", Straddles(r, r.key))
    BY <1>1, <1>3 DEF Delete
  <2>2. r.key \in Path \ {<<>>}
    BY <1>0, <1>1, LiveIs
  <2>3. Deleted(r.key) \in Changes
    BY <2>2, ChangeTypes
  <2>4. ToSet(journal') = ToSet(journal) \cup {Deleted(r.key)}
    BY <1>0, <2>1, <2>3, Pushed
  <2>5. ~HasRenames
    BY <2>4 DEF HasRenames
  <2>6. r.at = r.key /\ \A k \in Live : Effective(k) = k
    BY <1>0, <1>1, <2>2, <2>5, PlainPlaces
  <2>7. ~Straddles(r, r.key)
    BY <2>6 DEF Straddles
  <2> QED  BY <2>1, <2>7 DEF Note
<1> QED  BY <1>2, <1>3

(* A journal gets odd by a rename that is pending, or was dropped. *)
LEMMA OddsAreRenames == JournalSpec => []OddNeedsRename
<1>1. JournalInit => OddNeedsRename
  BY DEF JournalInit, OddNeedsRename
<1>2. JournalInv({"dir", "file"}) /\ OddNeedsRename /\ [JournalNext]_journalVars => OddNeedsRename'
  <2> SUFFICES ASSUME JournalInv({"dir", "file"}), OddNeedsRename, [JournalNext]_journalVars,
                      ~HasRenames'
               PROVE  odd' \subseteq {"unadded"}
    BY DEF OddNeedsRename
  <2>0. JournalTypeInv
    BY DEF JournalInv
  <2>1. CASE UNCHANGED journalVars
    BY <2>1 DEF OddNeedsRename, HasRenames, journalVars
  <2>2. ASSUME odd = {}, NEW r \in Rows, Delete(r)  PROVE odd' \subseteq {"unadded"}
    BY <2>2, PlainDelete
  <2>3. ASSUME odd = {}, NEW r \in Rows, NEW dest \in Paths, Rename(r, dest)  PROVE FALSE
    <3>1. PICK c : c.kind = "renamed" /\ Record(c)
      BY <2>3 DEF Rename, Renamed
    <3>0. journal \in Seq(Changes)
      BY <2>0 DEF JournalTypeInv
    <3>2. PICK s \in Seq(Changes) : s = journal
      BY <3>0
    <3>3. Len(journal') \in 1..Len(journal') /\ journal'[Len(journal')] = c
      BY <3>1, <3>2 DEF Record
    <3>4. c \in ToSet(journal')
      BY <3>1, <3>2, <3>3 DEF ToSet, Record
    <3> QED  BY <3>1, <3>4 DEF HasRenames
  <2>4. ASSUME odd = {}, NEW p \in Paths, BringIn(p)  PROVE odd' \subseteq {"unadded"}
    <3>1. CASE UNCHANGED odd
      BY <2>4, <3>1
    <3>2. CASE Record(Added(p)) /\ Note("renamed to", RenamedTo(p))
      <4>1. p \in Path
        BY JournalAssumption DEF Path
      <4>2. Added(p) \in Changes
        BY <4>1, ChangeTypes
      <4>3. ToSet(journal') = ToSet(journal) \cup {Added(p)}
        BY <2>0, <3>2, <4>2, Pushed
      <4>4. ~HasRenames
        BY <4>3 DEF HasRenames
      <4>5. ~RenamedTo(p)
        BY <4>4 DEF RenamedTo, HasRenames, ToSet
      <4> QED  BY <3>2, <4>5 DEF Note
    <3>3. (Record(Added(p)) /\ Note("renamed to", RenamedTo(p))) \/ UNCHANGED odd
      BY <2>4 DEF BringIn
    <3> QED  BY <3>1, <3>2, <3>3
  <2> QED  BY <2>1, <2>2, <2>3, <2>4 DEF JournalNext, Sound
<1> QED  BY <1>1, <1>2, JournalAlways, PTL DEF JournalSpec

(* No rename is pending, and none was dropped with an addition. *)
PlainIsSound ==
    ~HasRenames /\ "unadded" \notin odd =>
        /\ Plan = {t \in made : ~t.implied}
        /\ \A r \in Rows : MemberAt(r.at) = r.key

(***************************************************************************)
(* In a journal of deletes, copies in and copies over, what is planned is  *)
(* what the user made and each row stands for its member, with nothing     *)
(* left out: the renames are where the code goes wrong, and nothing else.  *)
(***************************************************************************)
THEOREM PlainHolds == JournalSpec => []PlainIsSound
<1>1. JournalInv({"dir", "file"}) /\ OddNeedsRename => PlainIsSound
  <2> SUFFICES ASSUME JournalInv({"dir", "file"}), OddNeedsRename, ~HasRenames, "unadded" \notin odd
               PROVE  /\ Plan = {t \in made : ~t.implied}
                      /\ \A r \in Rows : MemberAt(r.at) = r.key
    BY DEF PlainIsSound
  <2>1. odd = {}
    BY DEF OddNeedsRename
  <2>2. PlanIsTree /\ RowsResolve
    BY PlanFollows, RowsFollow
  <2> QED  BY <2>1, <2>2 DEF PlanIsTree, RowsResolve
<1> QED  BY <1>1, JournalAlways, OddsAreRenames, PTL
=============================================================================
