-------------------------- MODULE PagerStreamsProofs --------------------------
(***************************************************************************)
(* The safety properties of PagerStreams for any number of streams, tabs,  *)
(* keys and buffers: Fed, Whole, OwnScrollback, ParkedOwned and            *)
(* SnapshotIsTheAskers.                                                    *)
(*                                                                         *)
(* A stream is moved by its id, so what carries Fed is that no other       *)
(* place holds a pager with the id of one that waits: a drain, a change of *)
(* tab or a buffer gone back to would else take its stream for the other's *)
(* (OverlayAlone, ScrollAlone).  Ids are used once, which makes a fresh    *)
(* one no other's.  The others build on it: each states its own invariant  *)
(* and what every step does to it.                                         *)
(***************************************************************************)
EXTENDS PagerStreams, SequenceTheorems, TLAPS

Known(v) == v \in View /\ v.id <= opened /\ (v.streaming => v.id # 0)

\* The buffers that may be in the history: none waits, and none has the id
\* of a pager that does.
Kept == {v \in View : /\ v.id <= opened
                      /\ ~Waits(v)
                      /\ v.streaming => v.id # 0
                      /\ Waits(pager) => v.id # pager.id
                      /\ Waits(helpStash) => v.id # helpStash.id}

OverlayAlone ==
    /\ Known(pager) /\ Known(helpStash)
    /\ \A v \in {pager, helpStash} : Waits(v) => overlayStream = v.id
    /\ Waits(pager) \/ Waits(helpStash) => pager.id # helpStash.id
    /\ back \in Seq(Kept) /\ forward \in Seq(Kept)
    /\ pending \in 0..opened

\* What a waiting scrollback shares its id with: nothing.
ScrollAlone ==
    /\ Known(scroll) /\ Known(scrollHelp) /\ ~Waits(scrollHelp)
    /\ shelf \in [TabIds -> View] /\ \A t \in TabIds : Known(shelf[t])
    /\ Waits(scroll) =>
         /\ scrollStream = scroll.id /\ scrollHelp.id # scroll.id
         /\ \A t \in TabIds : shelf[t].id # scroll.id
    /\ \A t \in TabIds : Waits(shelf[t]) =>
         /\ scroll.id # shelf[t].id /\ scrollHelp.id # shelf[t].id
         /\ \A u \in TabIds \ {t} : shelf[u].id # shelf[t].id
    /\ \A t \in OpenTabs : Waits(shelf[t]) => shelf[t].id \in parked

TabsInv ==
    /\ spawned \in 0..MaxTabs
    /\ tabs \in Seq(1..spawned)
    /\ tabs # <<>> => active \in DOMAIN tabs
    /\ \A t \in TabIds : t > spawned => ~Waits(shelf[t])

Counters == opened \in 0..MaxStreams /\ sent \subseteq Ids

IInv == Counters /\ TabsInv /\ OverlayAlone /\ ScrollAlone

-----------------------------------------------------------------------------
(* Views.                                                                  *)

LEMMA Bounds == MaxStreams \in Nat /\ MaxTabs \in Nat
BY PagerAssumption

LEMMA PlainSays ==
    ASSUME NEW kind \in Kinds, NEW t \in 0..MaxTabs
    PROVE  /\ Plain(kind, t) \in View
           /\ Plain(kind, t).id = 0 /\ ~Plain(kind, t).streaming
           /\ Plain(kind, t).kind = kind /\ Plain(kind, t).tab = t
           /\ ~Waits(Plain(kind, t))
BY Bounds DEF Plain, View, Waits

LEMMA LoadingSays ==
    ASSUME NEW kind \in Kinds, NEW i \in Ids, NEW t \in 0..MaxTabs
    PROVE  /\ Loading(kind, i, t) \in View
           /\ Loading(kind, i, t).id = i /\ Loading(kind, i, t).streaming
           /\ Loading(kind, i, t).kind = kind /\ Loading(kind, i, t).tab = t
<1> DEFINE p == Plain(kind, t)
<1>1. p \in View /\ i \in 0..MaxStreams
  BY PlainSays, Bounds DEF Ids
<1>2. Loading(kind, i, t) = [p EXCEPT !.id = i, !.streaming = TRUE]
  BY DEF Loading
<1> HIDE DEF p
<1>3. [p EXCEPT !.id = i, !.streaming = TRUE] \in View
  BY <1>1 DEF View
<1>4. /\ [p EXCEPT !.id = i, !.streaming = TRUE].id = i
      /\ [p EXCEPT !.id = i, !.streaming = TRUE].streaming
  BY <1>1 DEF View
<1>5. /\ [p EXCEPT !.id = i, !.streaming = TRUE].kind = p.kind
      /\ [p EXCEPT !.id = i, !.streaming = TRUE].tab = p.tab
  BY <1>1 DEF View
<1>6. p.kind = kind /\ p.tab = t
  BY DEF p, Plain
<1>7. QED
  BY <1>2, <1>3, <1>4, <1>5, <1>6

LEMMA FilledSays ==
    ASSUME NEW v \in View
    PROVE  /\ Filled(v) \in View /\ Filled(v).id = v.id /\ ~Filled(v).streaming
           /\ Filled(v).kind = v.kind /\ Filled(v).tab = v.tab
BY DEF Filled, View

LEMMA CoveredSays ==
    ASSUME NEW v \in View
    PROVE  /\ Covered(v) \in View /\ Covered(v).id = v.id
           /\ Covered(v).streaming = v.streaming
           /\ Covered(v).kind = v.kind /\ Covered(v).tab = v.tab
           /\ ~Waits(Covered(v))
<1>1. v.covered \in BOOLEAN /\ v.streaming \in BOOLEAN
  BY DEF View
<1>2. PICK c \in BOOLEAN : c = (v.covered \/ v.streaming)
  BY <1>1
<1>3. Covered(v) = [v EXCEPT !.covered = c]
  BY <1>2, Zenon DEF Covered
<1>4. /\ Covered(v) \in View /\ Covered(v).id = v.id
      /\ Covered(v).streaming = v.streaming /\ Covered(v).covered = c
      /\ Covered(v).kind = v.kind /\ Covered(v).tab = v.tab
  BY <1>3 DEF View
<1>5. QED
  BY <1>1, <1>2, <1>4 DEF Waits

LEMMA CutSays ==
    ASSUME NEW v \in View
    PROVE  /\ Cut(v) \in View /\ Cut(v).id \in {0, v.id} /\ ~Cut(v).streaming
           /\ v.streaming => Cut(v).id = 0
           /\ ~v.streaming => Cut(v) = v
<1>1. CASE v.streaming
  <2>1. [v EXCEPT !.streaming = FALSE, !.id = 0] \in View
    <3>1. Filled(v) \in View /\ 0 \in 0..MaxStreams
      BY FilledSays, Bounds
    <3>2. [v EXCEPT !.streaming = FALSE, !.id = 0] = [Filled(v) EXCEPT !.id = 0]
      BY DEF Filled
    <3>3. QED
      BY <3>1, <3>2 DEF View
  <2>2. /\ [v EXCEPT !.streaming = FALSE, !.id = 0].id = 0
        /\ ~[v EXCEPT !.streaming = FALSE, !.id = 0].streaming
    BY DEF View
  <2>3. QED
    BY <1>1, <2>1, <2>2 DEF Cut
<1>2. CASE ~v.streaming
  BY <1>2 DEF Cut
<1>3. QED
  BY <1>1, <1>2

LEMMA NoViewSays == NoView \in View /\ NoView.id = 0 /\ ~NoView.streaming
BY PlainSays, Bounds DEF NoView, Kinds

-----------------------------------------------------------------------------
(* The history.                                                            *)

LEMMA SeqGrows ==
    ASSUME NEW S, NEW T, S \subseteq T, NEW s \in Seq(S)
    PROVE  s \in Seq(T)
OBVIOUS

LEMMA BufferSays ==
    ASSUME NEW S, NEW s \in Seq(S), NEW v \in S
    PROVE  /\ Append(s, v) \in Seq(S)
           /\ s # <<>> => Append(Tail(s), v) \in Seq(S)
OBVIOUS

LEMMA LastSays ==
    ASSUME NEW S, NEW s \in Seq(S), s # <<>>
    PROVE  Last(s) \in S /\ Front(s) \in Seq(S)
BY DEF Last, Front

\* A buffer stays fit for the history as long as a pager that waits has
\* waited before, or is filled by a stream that is new.
LEMMA KeptGrows ==
    ASSUME Counters, opened' \in Nat, opened <= opened',
           \A v \in {pager', helpStash'} :
               Waits(v) => v \in {pager, helpStash} \/ v.id > opened
    PROVE  Kept \subseteq Kept'
<1>1. opened \in Nat
  BY Bounds DEF Counters
<1>2. SUFFICES ASSUME NEW v \in Kept PROVE v \in Kept'
  OBVIOUS
<1>3. /\ v \in View /\ v.id <= opened /\ ~Waits(v) /\ (v.streaming => v.id # 0)
      /\ \A w \in {pager, helpStash} : Waits(w) => v.id # w.id
  BY <1>2 DEF Kept
<1>4. v.id \in Nat
  BY <1>3, Bounds DEF View
<1>5. \A w \in {pager', helpStash'} : Waits(w) => v.id # w.id
  BY <1>1, <1>3, <1>4
<1>6. QED
  BY <1>1, <1>3, <1>4, <1>5 DEF Kept, Waits

LEMMA RemembersSays ==
    ASSUME NEW S, NEW v \in S, back \in Seq(S), forward \in Seq(S), Remembers(v)
    PROVE  back' \in Seq(S) /\ forward' \in Seq(S)
<1>1. CASE v.kind \in NoHistory
  BY <1>1 DEF Remembers
<1>2. CASE v.kind \notin NoHistory
  <2>1. Len(back) = MaxHistory => back # <<>>
    BY PagerAssumption
  <2>2. <<>> \in Seq(S)
    OBVIOUS
  <2>3. QED
    BY <1>2, <2>1, <2>2, BufferSays DEF Remembers
<1>3. QED
  BY <1>1, <1>2

LEMMA OverlayFrame ==
    ASSUME Counters, Counters', opened <= opened', OverlayAlone,
           UNCHANGED <<pager, helpStash, back, forward, overlayStream>>,
           pending' \in 0..opened'
    PROVE  OverlayAlone'
<1>1. opened \in Nat /\ opened' \in Nat
  BY Bounds DEF Counters
<1>2. Kept \subseteq Kept'
  BY <1>1, KeptGrows
<1>3. back' \in Seq(Kept') /\ forward' \in Seq(Kept')
  BY <1>2, SeqGrows DEF OverlayAlone
<1>4. Known(pager)' /\ Known(helpStash)'
  BY <1>1, Bounds DEF OverlayAlone, Known, View
<1>5. QED
  BY <1>3, <1>4 DEF OverlayAlone, Waits

-----------------------------------------------------------------------------
(* The pager over the list.                                                *)

LEMMA GitViewLandsKeeps ==
    ASSUME Counters, OverlayAlone, GitViewLands
    PROVE  OverlayAlone'
<1>1. /\ pager' = Filled(Loading("git", pending, 0)) /\ helpStash' = Covered(helpStash)
      /\ pending \in sent /\ pending' = 0 /\ opened' = opened
      /\ Remembers(Covered(pager))
  BY DEF GitViewLands, workers
<1>2. opened \in Nat /\ pending \in 0..opened
  BY Bounds DEF Counters, OverlayAlone
<1>3. pending \in Ids
  BY <1>1 DEF Counters
<1>4. /\ Known(pager)' /\ pager'.id = pending /\ ~Waits(pager')
  <2>1. Loading("git", pending, 0) \in View /\ Loading("git", pending, 0).id = pending
    BY <1>3, Bounds, LoadingSays DEF Kinds
  <2>2. QED
    BY <1>1, <1>2, <2>1, FilledSays DEF Known, Waits
<1>5. Known(helpStash)' /\ ~Waits(helpStash')
  BY <1>1, CoveredSays DEF OverlayAlone, Known
<1>6. Kept \subseteq Kept'
  BY <1>1, <1>2, <1>4, <1>5, KeptGrows
<1>7. Covered(pager) \in Kept'
  <2>1. /\ Covered(pager) \in View /\ Covered(pager).id = pager.id
        /\ Covered(pager).streaming = pager.streaming /\ ~Waits(Covered(pager))
    BY CoveredSays DEF OverlayAlone, Known
  <2>2. QED
    BY <1>1, <1>4, <1>5, <2>1 DEF Kept, Waits, OverlayAlone, Known
<1>8. back \in Seq(Kept') /\ forward \in Seq(Kept')
  BY <1>6, SeqGrows DEF OverlayAlone
<1>9. back' \in Seq(Kept') /\ forward' \in Seq(Kept')
  BY <1>1, <1>7, <1>8, RemembersSays
<1>10. QED
  BY <1>1, <1>2, <1>4, <1>5, <1>9 DEF OverlayAlone, Waits

LEMMA DrainsOverlayKeeps ==
    ASSUME Counters, OverlayAlone, DrainsOverlay
    PROVE  OverlayAlone'
<1>1. /\ UNCHANGED <<helpStash, back, forward, pending, opened>>
      /\ \/ pager' = pager /\ overlayStream' = overlayStream
         \/ pager' = pager /\ overlayStream' = 0 /\ (overlayStream = 0 \/ ~OverlayHeld)
         \/ /\ pager' = Filled(pager) /\ overlayStream' = 0
            /\ pager.id = overlayStream
  BY DEF DrainsOverlay, workers
<1>2. CASE pager' = pager /\ overlayStream' = overlayStream
  BY <1>1, <1>2, OverlayFrame DEF OverlayAlone, Counters, DrainsOverlay, workers
<1>3. CASE pager' = pager /\ overlayStream' = 0 /\ (overlayStream = 0 \/ ~OverlayHeld)
  <2>1. ~Waits(pager) /\ ~Waits(helpStash)
    BY <1>3 DEF OverlayAlone, OverlayHeld, Waits, Known
  <2>2. Kept = Kept'
    BY <1>1, <1>3 DEF Kept, Waits
  <2>3. QED
    BY <1>1, <1>3, <2>1, <2>2 DEF OverlayAlone, Waits, Known
<1>4. CASE pager' = Filled(pager) /\ overlayStream' = 0 /\ pager.id = overlayStream
  <2>1. Known(pager)' /\ ~Waits(pager')
    BY <1>1, <1>4, FilledSays DEF OverlayAlone, Known, Waits
  <2>2. ~Waits(helpStash)
    BY <1>4 DEF OverlayAlone
  <2>3. Kept \subseteq Kept'
    BY <1>1, <2>1, <2>2, Bounds, KeptGrows DEF Counters
  <2>4. back' \in Seq(Kept') /\ forward' \in Seq(Kept')
    BY <1>1, <2>3, SeqGrows DEF OverlayAlone
  <2>5. QED
    BY <1>1, <2>1, <2>2, <2>4 DEF OverlayAlone, Waits, Known
<1>5. QED
  BY <1>1, <1>2, <1>3, <1>4

LEMMA OpenGrepKeeps ==
    ASSUME Counters, OverlayAlone, OpenGrep
    PROVE  OverlayAlone' /\ Counters'
<1>1. /\ pager' = Loading("grep", NewId, 0) /\ overlayStream' = NewId
      /\ helpStash' = Covered(helpStash) /\ opened' = NewId /\ opened < MaxStreams
      /\ UNCHANGED <<back, forward, pending, sent>>
  BY DEF OpenGrep, Starts
<1>2. /\ opened \in Nat /\ opened' \in Nat /\ NewId = opened + 1 /\ NewId \in Ids
      /\ NewId \in 0..MaxStreams /\ NewId # 0
  BY <1>1, Bounds DEF Counters, NewId, Ids
<1>3. Known(pager)' /\ pager'.id = NewId
  BY <1>1, <1>2, LoadingSays, Bounds DEF Known, Kinds
<1>4. Known(helpStash)' /\ ~Waits(helpStash') /\ helpStash'.id = helpStash.id
      /\ helpStash.id \in Nat /\ helpStash.id <= opened
  BY <1>1, <1>2, CoveredSays, Bounds DEF OverlayAlone, Known, View
<1>5. Kept \subseteq Kept'
  BY <1>1, <1>2, <1>3, <1>4, KeptGrows
<1>6. back' \in Seq(Kept') /\ forward' \in Seq(Kept')
  BY <1>1, <1>5, SeqGrows DEF OverlayAlone
<1>7. pending' \in 0..opened'
  BY <1>1, <1>2 DEF OverlayAlone
<1>8. QED
  BY <1>1, <1>2, <1>3, <1>4, <1>6, <1>7 DEF OverlayAlone, Waits, Counters

LEMMA PagerOpensKeeps ==
    ASSUME Counters, OverlayAlone, PagerOpens \/ ReopenLast
    PROVE  OverlayAlone'
<1>1. UNCHANGED <<forward, helpStash, overlayStream, pending, opened, sent>>
  BY DEF PagerOpens, ReopenLast, workers
<1>2. /\ Known(pager') /\ ~Waits(pager')
      /\ Waits(helpStash) => pager'.id # helpStash.id
      /\ back' \in Seq(Kept)
  <2>1. CASE PagerOpens
    <3>1. pager' = NoView \/ pager' = FileView
      BY <2>1 DEF PagerOpens
    <3>2. FileView \in View /\ FileView.id = 0 /\ ~FileView.streaming
      BY PlainSays, Bounds DEF FileView, Kinds
    <3>3. helpStash.id # 0 \/ ~Waits(helpStash)
      BY DEF OverlayAlone, Known, Waits
    <3>4. back' = back
      BY <2>1 DEF PagerOpens
    <3>5. QED
      BY <3>1, <3>2, <3>3, <3>4, NoViewSays, Bounds DEF Known, Waits, OverlayAlone, Counters
  <2>2. CASE ReopenLast
    <3>1. back # <<>> /\ pager' = Last(back) /\ back' = Front(back)
      BY <2>2 DEF ReopenLast
    <3>2. pager' \in Kept /\ back' \in Seq(Kept)
      BY <3>1, LastSays DEF OverlayAlone
    <3>3. QED
      BY <3>2 DEF Kept, Known
  <2>3. QED
    BY <2>1, <2>2
<1>3. Kept \subseteq Kept'
  BY <1>1, <1>2, Bounds, KeptGrows DEF Counters
<1>4. back' \in Seq(Kept') /\ forward' \in Seq(Kept')
  BY <1>1, <1>2, <1>3, SeqGrows DEF OverlayAlone
<1>5. QED
  BY <1>1, <1>2, <1>4 DEF OverlayAlone, Waits, Known

LEMMA AskGitViewKeeps ==
    ASSUME Counters, OverlayAlone, AskGitView
    PROVE  OverlayAlone' /\ Counters'
<1>1. /\ pending' = NewId /\ opened' = NewId /\ opened < MaxStreams
      /\ UNCHANGED <<pager, helpStash, back, forward, overlayStream, sent>>
  BY DEF AskGitView, Starts
<1>2. Counters' /\ opened <= opened' /\ pending' \in 0..opened'
  BY <1>1, Bounds DEF Counters, NewId
<1>3. QED
  BY <1>1, <1>2, OverlayFrame

\* q: what was under the help comes back, and a finished buffer is kept.
LEMMA ClosePagerKeeps ==
    ASSUME Counters, OverlayAlone, ClosePager
    PROVE  OverlayAlone'
<1>1. UNCHANGED <<overlayStream, pending, opened, sent>>
  BY DEF ClosePager, workers
<1>2. CASE UNCHANGED <<pager, back, forward, helpStash>>
  BY <1>1, <1>2, OverlayFrame DEF OverlayAlone, Counters
<1>3. CASE pager' = helpStash /\ helpStash' = NoView /\ UNCHANGED <<back, forward>>
  <2>1. Known(helpStash') /\ ~Waits(helpStash') /\ Known(pager')
    BY <1>3, NoViewSays, Bounds DEF Known, Waits, OverlayAlone, Counters
  <2>2. Kept \subseteq Kept'
    BY <1>1, <1>3, <2>1, Bounds, KeptGrows DEF Counters
  <2>3. back' \in Seq(Kept') /\ forward' \in Seq(Kept')
    BY <1>3, <2>2, SeqGrows DEF OverlayAlone
  <2>4. Waits(pager') => pager'.id # helpStash'.id /\ overlayStream' = pager'.id
    BY <1>1, <1>3, NoViewSays DEF OverlayAlone, Known, Waits
  <2>5. QED
    BY <1>1, <1>3, <2>1, <2>3, <2>4 DEF OverlayAlone, Waits, Known
<1>4. CASE /\ pager' = NoView /\ helpStash' = helpStash
           /\ IF pager.streaming THEN UNCHANGED <<back, forward>> ELSE Remembers(pager)
  <2>1. Known(pager') /\ ~Waits(pager')
    BY <1>4, NoViewSays, Bounds DEF Known, Waits, Counters
  <2>2. Kept \subseteq Kept'
    BY <1>1, <1>4, <2>1, Bounds, KeptGrows DEF Counters
  <2>3. back \in Seq(Kept') /\ forward \in Seq(Kept')
    BY <2>2, SeqGrows DEF OverlayAlone
  <2>4. back' \in Seq(Kept') /\ forward' \in Seq(Kept')
    <3>1. CASE pager.streaming
      BY <1>4, <2>3, <3>1
    <3>2. CASE ~pager.streaming
      <4>1. pager \in Kept'
        BY <1>1, <1>4, <2>1, <3>2 DEF Kept, Waits, OverlayAlone, Known
      <4>2. QED
        BY <1>4, <2>3, <3>2, <4>1, RemembersSays
    <3>3. QED
      BY <3>1, <3>2
  <2>5. Waits(helpStash) => pager'.id # helpStash.id
    BY <1>4, NoViewSays DEF OverlayAlone, Known, Waits
  <2>6. QED
    BY <1>1, <1>4, <2>1, <2>4, <2>5 DEF OverlayAlone, Waits, Known
<1>5. QED
  BY <1>2, <1>3, <1>4 DEF ClosePager

LEMMA ShowHelpKeeps ==
    ASSUME Counters, OverlayAlone, ShowHelp
    PROVE  OverlayAlone'
<1>1. UNCHANGED <<back, forward, overlayStream, pending, opened, sent>>
  BY DEF ShowHelp, workers
<1>2. CASE UNCHANGED <<pager, helpStash>>
  BY <1>1, <1>2, OverlayFrame DEF OverlayAlone, Counters
<1>3. CASE /\ helpStash' = IF pager.kind = "help" THEN helpStash ELSE pager
           /\ pager' = Help(0)
  <2>1. Help(0) \in View /\ Help(0).id = 0 /\ ~Help(0).streaming
    BY PlainSays, Bounds DEF Help, Kinds
  <2>2. Known(pager') /\ ~Waits(pager') /\ Known(helpStash')
    BY <1>3, <2>1, Bounds DEF Known, Waits, Counters, OverlayAlone
  <2>3. Kept \subseteq Kept'
    BY <1>1, <1>3, <2>2, Bounds, KeptGrows DEF Counters
  <2>4. back' \in Seq(Kept') /\ forward' \in Seq(Kept')
    BY <1>1, <2>3, SeqGrows DEF OverlayAlone
  <2>5. Waits(helpStash') => pager'.id # helpStash'.id /\ overlayStream' = helpStash'.id
    BY <1>1, <1>3, <2>1, <2>2 DEF OverlayAlone, Known, Waits
  <2>6. QED
    BY <1>1, <2>2, <2>4, <2>5 DEF OverlayAlone, Waits, Known
<1>4. QED
  BY <1>2, <1>3 DEF ShowHelp

\* [b and ]b: what comes into view has no stream to wait for, and a pager that
\* is left while it streams is cut.
LEMMA NavigateKeeps ==
    ASSUME Counters, OverlayAlone, Navigate
    PROVE  OverlayAlone'
<1>1. /\ UNCHANGED <<helpStash, pending, opened, sent>>
      /\ overlayStream' = IF pager.streaming /\ pager.id = overlayStream THEN 0
                          ELSE overlayStream
  BY DEF Navigate, workers
<1>2. /\ Cut(pager) \in View /\ Cut(pager).id \in {0, pager.id} /\ ~Cut(pager).streaming
  BY CutSays DEF OverlayAlone, Known
<1>3. Cut(pager) \in Kept \/ Waits(pager)
  BY <1>2, Bounds DEF Kept, Waits, OverlayAlone, Known, Counters, View
<1>4. Waits(helpStash) => /\ overlayStream' = helpStash.id /\ helpStash.id # 0
                          /\ helpStash.id # pager.id
  BY <1>1 DEF OverlayAlone, Known, Waits
<1>5. /\ Known(pager') /\ ~Waits(pager')
      /\ Waits(helpStash) => pager'.id # helpStash.id
  <2>1. CASE pager' = Cut(pager)
    BY <1>2, <1>4, <2>1, Bounds DEF Known, Waits, Counters, OverlayAlone
  <2>2. CASE back # <<>> /\ pager' = Last(back)
    <3>1. pager' \in Kept
      BY <2>2, LastSays DEF OverlayAlone
    <3>2. QED
      BY <3>1 DEF Kept, Known
  <2>3. CASE forward # <<>> /\ pager' = Last(forward)
    <3>1. pager' \in Kept
      BY <2>3, LastSays DEF OverlayAlone
    <3>2. QED
      BY <3>1 DEF Kept, Known
  <2>4. QED
    BY <2>1, <2>2, <2>3 DEF Navigate
<1>6. Kept \subseteq Kept'
  BY <1>1, <1>5, Bounds, KeptGrows DEF Counters
<1>7. Cut(pager) \in Kept'
  BY <1>1, <1>2, <1>4, <1>5, Bounds DEF Kept, Waits, OverlayAlone, Known, Counters, View
<1>8. back \in Seq(Kept') /\ forward \in Seq(Kept')
  BY <1>6, SeqGrows DEF OverlayAlone
<1>9. back' \in Seq(Kept') /\ forward' \in Seq(Kept')
  <2>1. CASE UNCHANGED <<back, forward>>
    BY <1>8, <2>1
  <2>2. CASE back # <<>> /\ back' = Front(back) /\ forward' = Append(forward, Cut(pager))
    BY <1>7, <1>8, <2>2, LastSays, BufferSays
  <2>3. CASE forward # <<>> /\ forward' = Front(forward) /\ back' = Append(back, Cut(pager))
    BY <1>7, <1>8, <2>3, LastSays, BufferSays
  <2>4. QED
    BY <2>1, <2>2, <2>3 DEF Navigate
<1>10. QED
  BY <1>1, <1>4, <1>5, <1>9 DEF OverlayAlone, Waits, Known

-----------------------------------------------------------------------------
(* The scrollback.                                                         *)

LEMMA TabSays ==
    ASSUME TabsInv
    PROVE  /\ Tab \in 0..MaxTabs
           /\ tabs # <<>> => Tab \in TabIds /\ Tab \in OpenTabs /\ Tab <= spawned
           /\ \A i \in DOMAIN tabs : /\ tabs[i] \in TabIds /\ tabs[i] \in OpenTabs
                                    /\ tabs[i] <= spawned
<1>1. \A i \in DOMAIN tabs : tabs[i] \in 1..spawned
  BY DEF TabsInv
<1>2. QED
  BY <1>1, Bounds DEF TabsInv, Tab, TabIds, OpenTabs, Range

LEMMA ScrollFrame ==
    ASSUME Counters, Counters', opened <= opened', ScrollAlone,
           UNCHANGED <<scroll, scrollHelp, scrollStream, parked, shelf>>,
           \A t \in OpenTabs' : t \in OpenTabs \/ ~Waits(shelf[t])
    PROVE  ScrollAlone'
<1>1. opened \in Nat /\ opened' \in Nat
  BY Bounds DEF Counters
<1>2. \A v \in View : Known(v) => (v \in View /\ v.id <= opened' /\ (v.streaming => v.id # 0))
  BY <1>1, Bounds DEF Known, View
<1>3. Known(scroll)' /\ Known(scrollHelp)' /\ \A t \in TabIds : Known(shelf[t])'
  BY <1>2 DEF ScrollAlone, Known
<1>4. QED
  BY <1>3 DEF ScrollAlone, Waits

\* What comes over the pane waits for nothing, or is the scrollback that was
\* there with its lines.
LEMMA ScrollQuiet ==
    ASSUME Counters, TabsInv, ScrollAlone, NEW v, Known(v), ~Waits(v),
           v.id \in {0, scroll.id, scrollHelp.id},
           scroll' = v, scrollHelp' \in {scrollHelp, NoView},
           UNCHANGED <<parked, shelf, tabs, opened>>
    PROVE  ScrollAlone'
<1>1. Known(scroll') /\ Known(scrollHelp') /\ ~Waits(scrollHelp')
  BY NoViewSays, Bounds DEF ScrollAlone, Known, Waits, Counters
<1>2. \A t \in TabIds : Waits(shelf[t]) => shelf[t].id # 0
  BY DEF ScrollAlone, Known, Waits
<1>3. \A t \in TabIds : Waits(shelf[t]) =>
         scroll'.id # shelf[t].id /\ scrollHelp'.id # shelf[t].id
  BY <1>2, NoViewSays DEF ScrollAlone
<1>4. QED
  BY <1>1, <1>3 DEF ScrollAlone, Waits, Known, OpenTabs

LEMMA DrainsScrollKeeps ==
    ASSUME Counters, TabsInv, ScrollAlone, DrainsScroll
    PROVE  ScrollAlone'
<1>1. UNCHANGED <<scrollHelp, parked, shelf, tabs, opened, sent>>
  BY DEF DrainsScroll, workers
<1>2. CASE scroll' = scroll /\ scrollStream' = scrollStream
  BY <1>1, <1>2, ScrollFrame, Bounds DEF Counters, OpenTabs
<1>3. CASE scroll' = scroll /\ scrollStream' = 0 /\ (scrollStream = 0 \/ scroll.id # scrollStream)
  <2>1. ~Waits(scroll)
    BY <1>3 DEF ScrollAlone, Known, Waits
  <2>2. QED
    BY <1>1, <1>3, <2>1, ScrollQuiet DEF ScrollAlone
<1>4. CASE scroll' = Filled(scroll)
  <2>1. Known(Filled(scroll)) /\ ~Waits(Filled(scroll)) /\ Filled(scroll).id = scroll.id
    BY FilledSays DEF ScrollAlone, Known, Waits
  <2>2. QED
    BY <1>1, <1>4, <2>1, ScrollQuiet
<1>5. CASE scroll' = NoView
  <2>1. Known(NoView) /\ ~Waits(NoView) /\ NoView.id = 0
    BY NoViewSays, Bounds DEF Known, Waits, Counters
  <2>2. QED
    BY <1>1, <1>5, <2>1, ScrollQuiet
<1>6. QED
  BY <1>2, <1>3, <1>4, <1>5 DEF DrainsScroll

LEMMA SettlesKeeps ==
    ASSUME Counters, TabsInv, ScrollAlone, Settles
    PROVE  ScrollAlone'
<1>1. UNCHANGED <<scrollHelp, scrollStream, parked, shelf, tabs, opened, sent>>
  BY DEF Settles, workers
<1>2. CASE scroll' = scroll
  BY <1>1, <1>2, ScrollFrame, Bounds DEF Counters, OpenTabs
<1>3. CASE scroll' = Plain("terminal", Tab)
  <2>1. Known(scroll') /\ ~Waits(scroll') /\ scroll'.id = 0
    BY <1>3, TabSays, PlainSays, Bounds DEF Known, Counters, Kinds
  <2>2. QED
    BY <1>1, <2>1, ScrollQuiet
<1>4. QED
  BY <1>2, <1>3 DEF Settles, Installs

LEMMA BackUnderHelp ==
    ASSUME Counters, TabsInv, ScrollAlone, ClosePager \/ CloseScroll
    PROVE  ScrollAlone'
<1>1. UNCHANGED <<scrollStream, parked, shelf, tabs, opened, sent>>
  BY DEF ClosePager, CloseScroll, workers, tabsVars
<1>2. \/ scroll' = scroll /\ scrollHelp' = scrollHelp
      \/ scroll' = scrollHelp /\ scrollHelp' = NoView
      \/ scroll' = NoView /\ scrollHelp' = scrollHelp
  BY DEF ClosePager, CloseScroll
<1>3. CASE scroll' = scroll /\ scrollHelp' = scrollHelp
  BY <1>1, <1>3, ScrollFrame, Bounds DEF Counters, OpenTabs
<1>4. CASE scroll' = scrollHelp /\ scrollHelp' = NoView
  BY <1>1, <1>4, ScrollQuiet DEF ScrollAlone
<1>5. CASE scroll' = NoView /\ scrollHelp' = scrollHelp
  <2>1. Known(NoView) /\ ~Waits(NoView) /\ NoView.id = 0
    BY NoViewSays, Bounds DEF Known, Waits, Counters
  <2>2. QED
    BY <1>1, <1>5, <2>1, ScrollQuiet
<1>6. QED
  BY <1>2, <1>3, <1>4, <1>5

LEMMA HelpOverScroll ==
    ASSUME Counters, TabsInv, ScrollAlone, ShowHelp
    PROVE  ScrollAlone'
<1>1. UNCHANGED <<scrollStream, parked, shelf, tabs, opened, sent>>
  BY DEF ShowHelp, workers, tabsVars
<1>2. CASE UNCHANGED <<scroll, scrollHelp>>
  BY <1>1, <1>2, ScrollFrame, Bounds DEF Counters, OpenTabs
<1>3. CASE scrollHelp' = Covered(scroll) /\ scroll' = Help(Tab)
  <2>1. Known(scroll') /\ ~Waits(scroll') /\ scroll'.id = 0
    BY <1>3, TabSays, PlainSays, Bounds DEF Help, Known, Counters, Kinds
  <2>2. /\ Covered(scroll) \in View /\ Covered(scroll).id = scroll.id
        /\ Covered(scroll).streaming = scroll.streaming /\ ~Waits(Covered(scroll))
    BY CoveredSays DEF ScrollAlone, Known
  <2>3. Known(scrollHelp') /\ ~Waits(scrollHelp') /\ scrollHelp'.id = scroll.id
    BY <1>3, <2>2 DEF ScrollAlone, Known
  <2>4. \A t \in TabIds : Waits(shelf[t]) =>
           scroll'.id # shelf[t].id /\ scrollHelp'.id # shelf[t].id
    BY <2>1, <2>3 DEF ScrollAlone, Known, Waits
  <2>5. QED
    BY <1>1, <2>1, <2>3, <2>4 DEF ScrollAlone, Waits, Known, OpenTabs
<1>4. QED
  BY <1>2, <1>3 DEF ShowHelp

LEMMA OpenTranscriptKeeps ==
    ASSUME Counters, TabsInv, ScrollAlone, OpenTranscript
    PROVE  ScrollAlone' /\ Counters'
<1>1. /\ scroll' = Loading("transcript", NewId, Tab) /\ scrollStream' = NewId
      /\ opened' = NewId /\ opened < MaxStreams
      /\ UNCHANGED <<scrollHelp, parked, shelf, tabs, sent>>
  BY DEF OpenTranscript, Starts, Installs
<1>2. /\ opened \in Nat /\ opened' = opened + 1 /\ NewId = opened + 1 /\ NewId \in Ids
      /\ NewId \in 0..MaxStreams /\ NewId # 0
  BY <1>1, Bounds DEF Counters, NewId, Ids
<1>3. Known(scroll)' /\ scroll'.id = NewId
  <2>1. Loading("transcript", NewId, Tab) \in View
        /\ Loading("transcript", NewId, Tab).id = NewId
    BY <1>2, TabSays, LoadingSays DEF Kinds
  <2>2. QED
    BY <1>1, <1>2, <2>1 DEF Known
<1>4. \A v \in View : v.id <= opened => v.id <= opened' /\ v.id # NewId
  BY <1>2, Bounds DEF View
<1>5. Known(scrollHelp)' /\ scrollHelp.id # NewId
  BY <1>1, <1>4 DEF ScrollAlone, Known
<1>6. \A t \in TabIds : Known(shelf[t])' /\ shelf[t].id # NewId
  BY <1>1, <1>4 DEF ScrollAlone, Known
<1>7. QED
  BY <1>1, <1>2, <1>3, <1>5, <1>6 DEF ScrollAlone, Waits, Counters, OpenTabs

\* The scrollback in view is put on its tab's shelf and the one of the tab come
\* to is taken from its own, each with its stream.
LEMMA GoToTabKeeps ==
    ASSUME Counters, TabsInv, ScrollAlone, NEW i \in 1..MaxTabs, GoToTab(i)
    PROVE  ScrollAlone'
<1> DEFINE here == Tab
           there == tabs[i]
           held == IF Parks THEN parked \cup {scroll.id} ELSE parked
           full == Stash
           view == full[there]
<1>1. /\ i \in DOMAIN tabs /\ scroll' = view /\ shelf' = [full EXCEPT ![there] = NoView]
      /\ parked' = held \ {view.id}
      /\ view.id \in held => scrollStream' = view.id
      /\ UNCHANGED <<scrollHelp, tabs, opened, sent>>
  BY DEF GoToTab, workers
<1>2. here \in TabIds /\ there \in TabIds /\ here \in OpenTabs /\ there \in OpenTabs
  BY <1>1, TabSays
<1>3. /\ full \in [TabIds -> View]
      /\ \A t \in TabIds : full[t] = IF t = here /\ scroll # NoView THEN scroll ELSE shelf[t]
  BY <1>2 DEF Stash, ScrollAlone, Known
<1> HIDE DEF full, here, there
<1>4. \A t \in TabIds : Known(full[t])
  BY <1>3 DEF ScrollAlone
<1>5. Waits(scroll) => Parks /\ scroll # NoView
  BY NoViewSays DEF ScrollAlone, Known, Waits, Parks
<1> HIDE DEF held
<1>6. \A t \in OpenTabs : t \in TabIds /\ (Waits(full[t]) => full[t].id \in held)
  <2>1. \A t \in OpenTabs : t \in TabIds
    BY TabSays DEF OpenTabs, Range
  <2>2. ASSUME NEW t \in OpenTabs, Waits(full[t]) PROVE full[t].id \in held
    BY <1>3, <1>5, <2>1, <2>2 DEF ScrollAlone, held
  <2>3. QED
    BY <2>1, <2>2
<1>7. \A t \in TabIds : Waits(full[t]) =>
         /\ scrollHelp.id # full[t].id
         /\ \A u \in TabIds \ {t} : full[u].id # full[t].id
  BY <1>3, NoViewSays DEF ScrollAlone, Known, Waits
<1>8. \A t \in TabIds : shelf'[t] = IF t = there THEN NoView ELSE full[t]
  BY <1>1, <1>2, <1>3
<1>9. shelf' \in [TabIds -> View]
  BY <1>1, <1>3, NoViewSays
<1>10. \A t \in TabIds : Known(shelf'[t])
  BY <1>4, <1>8, NoViewSays, Bounds DEF Known, Counters
<1>11. Waits(view) => /\ scrollStream' = view.id /\ scrollHelp.id # view.id
                      /\ \A t \in TabIds : shelf'[t].id # view.id
  <2>1. Waits(view) => view.id # 0
    BY <1>2, <1>4 DEF Known, Waits
  <2>2. QED
    BY <1>1, <1>2, <1>6, <1>7, <1>8, <2>1, NoViewSays
<1>12. \A t \in TabIds : Waits(shelf'[t]) =>
         /\ t # there /\ view.id # shelf'[t].id /\ scrollHelp.id # shelf'[t].id
         /\ \A u \in TabIds \ {t} : shelf'[u].id # shelf'[t].id
  <2>1. ASSUME NEW t \in TabIds, Waits(shelf'[t])
        PROVE  /\ t # there /\ shelf'[t] = full[t] /\ shelf'[t].id # 0
    BY <1>8, <1>10, <2>1, NoViewSays DEF Waits, Known
  <2>2. QED
    BY <1>2, <1>7, <1>8, <2>1, NoViewSays
<1>13. \A t \in OpenTabs : Waits(shelf'[t]) => shelf'[t].id \in parked'
  BY <1>1, <1>6, <1>8, <1>12
<1>14. Known(view) /\ Known(scrollHelp) /\ ~Waits(scrollHelp)
  BY <1>2, <1>4 DEF ScrollAlone
<1> HIDE DEF view
<1>15. QED
  BY <1>1, <1>9, <1>10, <1>11, <1>12, <1>13, <1>14 DEF ScrollAlone, Waits, Known, OpenTabs

LEMMA GoToNoneKeeps ==
    ASSUME Counters, TabsInv, ScrollAlone, GoToNone
    PROVE  ScrollAlone'
<1>1. /\ tabs = <<>> /\ scroll' = NoView
      /\ UNCHANGED <<scrollHelp, shelf, tabs, opened, sent>>
  BY DEF GoToNone, workers, tabsVars
<1>2. OpenTabs' = {}
  BY <1>1 DEF OpenTabs, Range
<1>3. /\ Known(NoView) /\ ~Waits(NoView) /\ NoView.id = 0
  BY NoViewSays, Bounds DEF Known, Waits, Counters
<1>4. QED
  BY <1>1, <1>2, <1>3 DEF ScrollAlone, Waits, Known

-----------------------------------------------------------------------------
(* The tabs.                                                               *)

LEMMA OpenTabKeeps ==
    ASSUME Counters, TabsInv, ScrollAlone, OpenTab
    PROVE  ScrollAlone' /\ TabsInv'
<1>1. /\ spawned < MaxTabs /\ spawned' = spawned + 1 /\ tabs' = Append(tabs, spawned + 1)
      /\ active' = Len(tabs')
      /\ UNCHANGED <<scroll, scrollHelp, scrollStream, parked, shelf, opened, sent>>
  BY DEF OpenTab, bottom, workers
<1>2. spawned \in Nat /\ tabs \in Seq(1..spawned) /\ spawned + 1 \in TabIds
  BY <1>1, Bounds DEF TabsInv, TabIds
<1>3. \A t \in OpenTabs' : t \in OpenTabs \/ t = spawned + 1
  BY <1>1, <1>2 DEF OpenTabs, Range
<1>4. ~Waits(shelf[spawned + 1])
  BY <1>2 DEF TabsInv
<1>5. ScrollAlone'
  <2>1. Counters' /\ opened <= opened'
    BY <1>1, Bounds DEF Counters
  <2>2. QED
    BY <1>1, <1>3, <1>4, <2>1, ScrollFrame
<1>6. TabsInv'
  <2>1. spawned' \in 0..MaxTabs
    BY <1>1, <1>2, Bounds
  <2>2. tabs' \in Seq(1..spawned')
    <3>1. tabs \in Seq(1..spawned')
      BY <1>1, <1>2
    <3>2. QED
      BY <1>1, <1>2, <3>1
  <2>3. active' \in DOMAIN tabs'
    BY <1>1, <1>2
  <2>4. \A t \in TabIds : t > spawned' => ~Waits(shelf'[t])
    BY <1>1, <1>2 DEF TabsInv, TabIds
  <2>5. QED
    BY <2>1, <2>2, <2>3, <2>4 DEF TabsInv, Waits
<1>7. QED
  BY <1>5, <1>6

\* A tab goes with its shelf: the streams of the other shelves stay parked.
LEMMA GoneKeeps ==
    ASSUME Counters, TabsInv, ScrollAlone, NEW t \in TabIds, Gone(t),
           UNCHANGED <<scroll, scrollHelp, scrollStream, opened>>,
           \A u \in OpenTabs' : u \in OpenTabs \/ ~Waits(shelf[u]),
           OpenTabs' \subseteq TabIds
    PROVE  ScrollAlone'
<1>1. /\ shelf' = [shelf EXCEPT ![t] = NoView]
      /\ parked' = parked \cap {shelf[u].id : u \in OpenTabs \ {t}}
  BY DEF Gone, Pruned
<1>2. /\ shelf' \in [TabIds -> View]
      /\ \A u \in TabIds : shelf'[u] = IF u = t THEN NoView ELSE shelf[u]
  BY <1>1, NoViewSays DEF ScrollAlone
<1>3. \A u \in TabIds : Known(shelf'[u])
  BY <1>2, NoViewSays, Bounds DEF Known, Counters, ScrollAlone
<1>4. \A u \in TabIds : Waits(shelf'[u]) =>
         /\ u # t /\ shelf'[u] = shelf[u] /\ shelf[u].id # 0
  BY <1>2, <1>3, NoViewSays DEF Waits, Known
<1>5. \A u \in OpenTabs' : Waits(shelf'[u]) => shelf'[u].id \in parked'
  <2>1. ASSUME NEW u \in OpenTabs', Waits(shelf'[u]) PROVE shelf[u].id \in parked'
    <3>1. u # t /\ shelf'[u] = shelf[u] /\ Waits(shelf[u])
      BY <1>4, <2>1
    <3>2. u \in OpenTabs
      BY <2>1, <3>1
    <3>3. QED
      BY <1>1, <3>1, <3>2 DEF ScrollAlone
  <2>2. QED
    BY <1>4, <2>1
<1>6. \A u \in TabIds : Waits(shelf'[u]) =>
         /\ scroll.id # shelf'[u].id /\ scrollHelp.id # shelf'[u].id
         /\ \A w \in TabIds \ {u} : shelf'[w].id # shelf'[u].id
  <2>1. ASSUME NEW u \in TabIds, Waits(shelf'[u])
        PROVE  /\ scroll.id # shelf'[u].id /\ scrollHelp.id # shelf'[u].id
               /\ \A w \in TabIds \ {u} : shelf'[w].id # shelf'[u].id
    BY <1>2, <1>4, <2>1, NoViewSays DEF ScrollAlone
  <2>2. QED
    BY <2>1
<1>7. Waits(scroll) => \A u \in TabIds : shelf'[u].id # scroll.id
  BY <1>2, NoViewSays DEF ScrollAlone, Known, Waits
<1>8. QED
  BY <1>2, <1>3, <1>5, <1>6, <1>7 DEF ScrollAlone, Waits, Known

LEMMA RemoveAtSays ==
    ASSUME NEW S, NEW s \in Seq(S), NEW i \in 1..Len(s)
    PROVE  /\ RemoveAt(s, i) \in Seq(S)
           /\ Len(RemoveAt(s, i)) = Len(s) - 1
           /\ \A j \in 1..(Len(s) - 1) : RemoveAt(s, i)[j] \in Range(s)
<1> DEFINE l == SubSeq(s, 1, i - 1)
           r == SubSeq(s, i + 1, Len(s))
<1>1. Len(s) \in Nat /\ i \in Nat /\ 1 <= i /\ i <= Len(s)
  OBVIOUS
<1>2. l \in Seq(S) /\ Len(l) = i - 1 /\ \A j \in 1..(i - 1) : l[j] = s[j]
  <2>1. \A j \in 1..(i - 1) : j \in DOMAIN s
    BY <1>1
  <2>2. QED
    BY <1>1, <2>1, SubSeqProperties
<1>3. r \in Seq(S) /\ Len(r) = Len(s) - i /\ \A j \in 1..(Len(s) - i) : r[j] = s[i + j]
  <2>1. \A j \in (i + 1)..Len(s) : j \in DOMAIN s
    BY <1>1
  <2>2. QED
    BY <1>1, <2>1, SubSeqProperties
<1> HIDE DEF l, r
<1>4. /\ l \o r \in Seq(S) /\ Len(l \o r) = Len(l) + Len(r)
      /\ \A j \in 1..(Len(l) + Len(r)) : (l \o r)[j] = IF j <= Len(l) THEN l[j] ELSE r[j - Len(l)]
  BY <1>2, <1>3, ConcatProperties
<1>5. \A j \in 1..(Len(s) - 1) : (l \o r)[j] \in Range(s)
  <2>1. \A k \in DOMAIN s : s[k] \in Range(s)
    BY DEF Range
  <2>2. DOMAIN s = 1..Len(s) /\ Len(l) + Len(r) = Len(s) - 1
    BY <1>1, <1>2, <1>3
  <2>3. ASSUME NEW j \in 1..(Len(s) - 1) PROVE (l \o r)[j] \in Range(s)
    <3>1. j \in Int /\ Len(s) \in Int /\ i \in Int /\ j <= Len(s) - 1 /\ 1 <= j
      BY <1>1
    <3>2. CASE j <= i - 1
      <4>1. (l \o r)[j] = s[j] /\ j \in DOMAIN s
        BY <1>1, <1>2, <1>4, <2>2, <3>1, <3>2
      <4>2. QED
        BY <2>1, <4>1
    <3>3. CASE j > i - 1
      <4>1. j - (i - 1) \in 1..(Len(s) - i) /\ i + (j - (i - 1)) \in DOMAIN s
        BY <1>1, <2>2, <3>1, <3>3
      <4>2. (l \o r)[j] = r[j - (i - 1)]
        BY <1>2, <1>4, <2>2, <3>1, <3>3
      <4>3. (l \o r)[j] = s[i + (j - (i - 1))]
        BY <1>3, <4>1, <4>2
      <4>4. PICK k \in DOMAIN s : k = i + (j - (i - 1))
        BY <4>1, Zenon
      <4>5. (l \o r)[j] = s[k]
        BY <4>3, <4>4, Zenon
      <4>6. QED
        BY <2>1, <4>5, Zenon
    <3>4. j <= i - 1 \/ j > i - 1
      BY <3>1
    <3>5. QED
      BY <3>2, <3>3, <3>4, Zenon
  <2>4. QED
    BY <2>3, Zenon
<1>6. RemoveAt(s, i) = l \o r
  BY DEF RemoveAt, l, r
<1>7. Len(l \o r) = Len(s) - 1
  BY <1>1, <1>2, <1>3, <1>4
<1>8. QED
  BY <1>4, <1>5, <1>6, <1>7, Zenon

LEMMA CloseTabKeeps ==
    ASSUME Counters, TabsInv, ScrollAlone, CloseTab
    PROVE  ScrollAlone' /\ TabsInv'
<1>1. /\ tabs # <<>> /\ Gone(Tab) /\ tabs' = RemoveAt(tabs, active)
      /\ active' = IF active > Len(tabs') THEN Len(tabs') ELSE active
      /\ UNCHANGED <<scroll, scrollHelp, scrollStream, opened, spawned>>
  BY DEF CloseTab, workers
<1>2. /\ tabs \in Seq(1..spawned) /\ spawned \in Nat /\ active \in 1..Len(tabs)
      /\ 1..spawned \subseteq TabIds
  BY <1>1, Bounds DEF TabsInv, TabIds
<1>3. OpenTabs \subseteq TabIds
  BY <1>2 DEF OpenTabs, Range
<1>4. /\ tabs' \in Seq(1..spawned) /\ Len(tabs') = Len(tabs) - 1
      /\ \A j \in 1..Len(tabs') : tabs'[j] \in Range(tabs)
  BY <1>1, <1>2, RemoveAtSays
<1>5. OpenTabs' \subseteq OpenTabs /\ OpenTabs' \subseteq TabIds
  BY <1>3, <1>4 DEF OpenTabs, Range
<1>6. ScrollAlone'
  BY <1>1, <1>5, TabSays, GoneKeeps
<1>7. TabsInv'
  <2>1. tabs' # <<>> => active' \in DOMAIN tabs'
    BY <1>1, <1>2, <1>4
  <2>2. \A u \in TabIds : u > spawned' => ~Waits(shelf'[u])
    BY <1>1, TabSays, NoViewSays DEF TabsInv, Gone, Waits, ScrollAlone
  <2>3. QED
    BY <1>1, <1>2, <1>4, <2>1, <2>2 DEF TabsInv, Waits
<1>8. QED
  BY <1>6, <1>7

LEMMA RestartsKeeps ==
    ASSUME Counters, TabsInv, ScrollAlone, NEW i \in DOMAIN tabs, Restarts(i)
    PROVE  ScrollAlone' /\ TabsInv'
<1>1. /\ spawned < MaxTabs /\ spawned' = spawned + 1 /\ Gone(tabs[i])
      /\ tabs' = [tabs EXCEPT ![i] = spawned + 1] /\ active' = active
      /\ UNCHANGED <<scroll, scrollHelp, scrollStream, opened>>
  BY DEF Restarts, workers
<1>2. /\ spawned \in Nat /\ tabs \in Seq(1..spawned) /\ spawned + 1 \in TabIds
      /\ 1..(spawned + 1) \subseteq TabIds
  BY <1>1, Bounds DEF TabsInv, TabIds
<1>3. /\ tabs' \in Seq(1..(spawned + 1)) /\ DOMAIN tabs' = DOMAIN tabs
      /\ \A j \in DOMAIN tabs : tabs'[j] = IF j = i THEN spawned + 1 ELSE tabs[j]
  BY <1>1, <1>2
<1>4. /\ \A u \in OpenTabs' : u \in OpenTabs \/ u = spawned + 1
      /\ OpenTabs' \subseteq TabIds
  BY <1>2, <1>3 DEF OpenTabs, Range
<1>5. ~Waits(shelf[spawned + 1])
  BY <1>2 DEF TabsInv
<1>6. ScrollAlone'
  BY <1>1, <1>4, <1>5, TabSays, GoneKeeps
<1>7. TabsInv'
  <2>1. \A u \in TabIds : u > spawned' => ~Waits(shelf'[u])
    BY <1>1, <1>2, TabSays, NoViewSays DEF TabsInv, Gone, Waits, ScrollAlone, TabIds
  <2>2. tabs' # <<>> => active' \in DOMAIN tabs'
    BY <1>1, <1>2, <1>3 DEF TabsInv
  <2>3. spawned' \in 0..MaxTabs /\ tabs' \in Seq(1..spawned')
    BY <1>1, <1>2, <1>3, Bounds
  <2>4. QED
    BY <2>1, <2>2, <2>3 DEF TabsInv, Waits
<1>8. QED
  BY <1>6, <1>7

\* The scrollback in view goes to a tab that is open.
LEMMA GoToTabTabs ==
    ASSUME TabsInv, ScrollAlone, NEW i \in 1..MaxTabs, GoToTab(i)
    PROVE  TabsInv'
<1>1. /\ i \in DOMAIN tabs /\ active' = i
      /\ shelf' = [Stash EXCEPT ![tabs[i]] = NoView]
      /\ UNCHANGED <<tabs, spawned>>
  BY DEF GoToTab
<1>2. Tab \in TabIds /\ Tab <= spawned /\ tabs[i] \in TabIds /\ tabs[i] <= spawned
  BY <1>1, TabSays
<1>3. spawned \in Nat
  BY Bounds DEF TabsInv
<1>4. \A t \in TabIds : t > spawned => t # Tab /\ t # tabs[i]
  BY <1>2, <1>3 DEF TabIds
<1>5. \A t \in TabIds : t > spawned => shelf'[t] = shelf[t]
  BY <1>1, <1>2, <1>4 DEF Stash, ScrollAlone
<1>6. QED
  BY <1>1, <1>5 DEF TabsInv, Waits

-----------------------------------------------------------------------------
(* Steps that leave a part as it is.                                       *)

LEMMA CountersStay == ASSUME Counters, UNCHANGED <<opened, sent>> PROVE Counters'
BY DEF Counters

LEMMA TabsStay ==
    ASSUME TabsInv, UNCHANGED <<tabs, active, spawned, shelf>>
    PROVE  TabsInv'
BY DEF TabsInv, Waits

LEMMA OverlayStays ==
    ASSUME Counters, Counters', opened <= opened', OverlayAlone, UNCHANGED overlay
    PROVE  OverlayAlone'
<1>1. pending' \in 0..opened'
  BY Bounds DEF Counters, OverlayAlone, overlay
<1>2. QED
  BY <1>1, OverlayFrame DEF overlay

LEMMA ScrollStays ==
    ASSUME Counters, Counters', opened <= opened', ScrollAlone,
           UNCHANGED <<scroll, scrollHelp, scrollStream, parked, shelf, tabs>>
    PROVE  ScrollAlone'
BY ScrollFrame DEF OpenTabs

\* The half of the state a step leaves alone keeps its part.
LEMMA ListStep ==
    ASSUME IInv, Counters', opened <= opened', OverlayAlone',
           UNCHANGED <<scroll, scrollHelp, scrollStream, parked, tabs, active, shelf, spawned>>
    PROVE  IInv'
BY TabsStay, ScrollStays DEF IInv

LEMMA PaneStep ==
    ASSUME IInv, Counters', opened <= opened', ScrollAlone', TabsInv', UNCHANGED overlay
    PROVE  IInv'
BY OverlayStays DEF IInv

LEMMA AtStart == Init => IInv
<1> SUFFICES ASSUME Init PROVE IInv
  OBVIOUS
<1>1. NoView \in View /\ NoView.id = 0 /\ ~NoView.streaming /\ ~Waits(NoView)
  BY NoViewSays DEF Waits
<1>2. Counters
  BY Bounds DEF Init, Counters
<1>3. \A t \in TabIds : shelf[t] = NoView
  BY DEF Init
<1>4. TabsInv
  BY <1>1, <1>3, Bounds DEF Init, TabsInv
<1>5. Known(NoView)
  BY <1>1, Bounds DEF Init, Known
<1>6. OverlayAlone
  BY <1>1, <1>5, Bounds DEF Init, OverlayAlone
<1>7. ScrollAlone
  BY <1>1, <1>3, <1>5 DEF Init, ScrollAlone, OpenTabs, Range
<1>8. QED
  BY <1>2, <1>4, <1>6, <1>7 DEF IInv

LEMMA StepKeeps == IInv /\ [Next]_vars => IInv'
<1> SUFFICES ASSUME IInv, [Next]_vars PROVE IInv'
  OBVIOUS
<1>1. Counters /\ TabsInv /\ OverlayAlone /\ ScrollAlone
  BY DEF IInv
<1>2. UNCHANGED <<opened, sent>> => Counters' /\ opened <= opened'
  BY <1>1, CountersStay, Bounds DEF Counters
<1>3. CASE GitViewLands
  BY <1>1, <1>2, <1>3, GitViewLandsKeeps, ListStep
     DEF GitViewLands, workers, bottom, tabsVars
<1>4. CASE NoGitViewLands
  <2>1. /\ UNCHANGED <<pager, helpStash, back, forward, overlayStream, opened, sent>>
        /\ pending' \in {0, pending}
    BY <1>4 DEF NoGitViewLands, workers
  <2>2. pending' \in 0..opened'
    BY <1>1, <2>1, Bounds DEF Counters, OverlayAlone
  <2>3. OverlayAlone'
    BY <1>1, <1>2, <2>1, <2>2, OverlayFrame
  <2>4. QED
    BY <1>2, <1>4, <2>1, <2>3, ListStep DEF NoGitViewLands, bottom, tabsVars
<1>5. CASE DrainsOverlay
  BY <1>1, <1>2, <1>5, DrainsOverlayKeeps, ListStep
     DEF DrainsOverlay, workers, bottom, tabsVars
<1>6. CASE DrainsScroll
  BY <1>1, <1>2, <1>6, DrainsScrollKeeps, TabsStay, PaneStep DEF DrainsScroll, workers
<1>7. CASE Settles
  BY <1>1, <1>2, <1>7, SettlesKeeps, TabsStay, PaneStep DEF Settles, workers
<1>8. CASE Woken
  BY <1>1, <1>2, <1>8, OverlayStays, ListStep DEF Woken, workers, bottom, tabsVars
<1>9. ASSUME NEW i \in Ids, WorkerSends(i) PROVE IInv'
  <2>1. Counters' /\ opened <= opened'
    BY <1>1, <1>9, Bounds DEF WorkerSends, Counters
  <2>2. QED
    BY <1>1, <1>9, <2>1, OverlayStays, ListStep DEF WorkerSends, bottom, tabsVars
<1>10. ASSUME NEW i \in Ids, WorkerEnds(i) \/ WorkerPanics(i) PROVE IInv'
  BY <1>1, <1>2, <1>10, OverlayStays, ListStep DEF WorkerEnds, WorkerPanics, bottom, tabsVars
<1>11. CASE OpenGrep
  <2>1. OverlayAlone' /\ Counters'
    BY <1>1, <1>11, OpenGrepKeeps
  <2>2. opened <= opened'
    BY <1>1, <1>11, Bounds DEF OpenGrep, Starts, NewId, Counters
  <2>3. QED
    BY <1>11, <2>1, <2>2, ListStep DEF OpenGrep, bottom, tabsVars
<1>12. CASE AskGitView
  <2>1. OverlayAlone' /\ Counters'
    BY <1>1, <1>12, AskGitViewKeeps
  <2>2. opened <= opened'
    BY <1>1, <1>12, Bounds DEF AskGitView, Starts, NewId, Counters
  <2>3. QED
    BY <1>12, <2>1, <2>2, ListStep DEF AskGitView, bottom, tabsVars
<1>13. CASE PagerOpens
  BY <1>1, <1>2, <1>13, PagerOpensKeeps, ListStep DEF PagerOpens, workers, bottom, tabsVars
<1>14. CASE ReopenLast
  BY <1>1, <1>2, <1>14, PagerOpensKeeps, ListStep DEF ReopenLast, workers, bottom, tabsVars
<1>15. CASE ClosePager
  <2>1. OverlayAlone' /\ ScrollAlone'
    BY <1>1, <1>15, ClosePagerKeeps, BackUnderHelp
  <2>2. TabsInv' /\ Counters'
    BY <1>1, <1>2, <1>15, TabsStay DEF ClosePager, workers, tabsVars
  <2>3. QED
    BY <2>1, <2>2 DEF IInv
<1>16. CASE ShowHelp
  <2>1. OverlayAlone' /\ ScrollAlone'
    BY <1>1, <1>16, ShowHelpKeeps, HelpOverScroll
  <2>2. TabsInv' /\ Counters'
    BY <1>1, <1>2, <1>16, TabsStay DEF ShowHelp, workers, tabsVars
  <2>3. QED
    BY <2>1, <2>2 DEF IInv
<1>17. CASE Navigate
  BY <1>1, <1>2, <1>17, NavigateKeeps, ListStep DEF Navigate, workers, bottom, tabsVars
<1>18. CASE Focus
  BY <1>1, <1>2, <1>18, OverlayStays, ListStep DEF Focus, workers, bottom, tabsVars
<1>19. CASE OpenTranscript
  <2>1. ScrollAlone' /\ Counters'
    BY <1>1, <1>19, OpenTranscriptKeeps
  <2>2. opened <= opened'
    BY <1>1, <1>19, Bounds DEF OpenTranscript, Starts, NewId, Counters
  <2>3. QED
    BY <1>1, <1>19, <2>1, <2>2, TabsStay, PaneStep DEF OpenTranscript
<1>20. CASE AskTerminal
  BY <1>1, <1>2, <1>20, OverlayStays, ListStep DEF AskTerminal, workers, tabsVars
<1>21. CASE CloseScroll
  BY <1>1, <1>2, <1>21, BackUnderHelp, TabsStay, PaneStep DEF CloseScroll, workers
<1>22. ASSUME NEW i \in 1..MaxTabs, GoToTab(i) PROVE IInv'
  <2>1. ScrollAlone' /\ TabsInv'
    BY <1>1, <1>22, GoToTabKeeps, GoToTabTabs
  <2>2. QED
    BY <1>2, <1>22, <2>1, PaneStep DEF GoToTab, workers
<1>23. CASE GoToNone
  <2>1. ScrollAlone' /\ TabsInv'
    BY <1>1, <1>23, GoToNoneKeeps, TabsStay DEF GoToNone, tabsVars
  <2>2. QED
    BY <1>2, <1>23, <2>1, PaneStep DEF GoToNone, workers
<1>24. CASE OpenTab
  BY <1>1, <1>2, <1>24, OpenTabKeeps, PaneStep DEF OpenTab, workers
<1>25. CASE CloseTab
  BY <1>1, <1>2, <1>25, CloseTabKeeps, PaneStep DEF CloseTab, workers
<1>26. ASSUME NEW i \in DOMAIN tabs, Restarts(i) PROVE IInv'
  BY <1>1, <1>2, <1>26, RestartsKeeps, PaneStep DEF Restarts, workers
<1>27. CASE RestartTab
  BY <1>1, <1>26, <1>27 DEF RestartTab, TabsInv
<1>28. ASSUME NEW i \in 1..MaxTabs, AgentRestarts(i) PROVE IInv'
  BY <1>26, <1>28 DEF AgentRestarts
<1>29. CASE UNCHANGED vars
  <2>1. UNCHANGED <<overlay, opened, sent, scroll, scrollHelp, scrollStream, parked,
                    tabs, active, shelf, spawned>>
    BY <1>29 DEF vars, bottom, tabsVars, workers
  <2>2. QED
    BY <1>1, <1>2, <2>1, OverlayStays, ListStep
<1>30. QED
  BY <1>3, <1>4, <1>5, <1>6, <1>7, <1>8, <1>9, <1>10, <1>11, <1>12, <1>13, <1>14, <1>15,
     <1>16, <1>17, <1>18, <1>19, <1>20, <1>21, <1>22, <1>23, <1>24, <1>25, <1>27, <1>28,
     <1>29 DEF Next, LoopPass

\* No other pager has the id of one that waits, in the overlay, over the pane
\* or on a shelf, and what is in the history waits for nothing: the ids pair
\* a stream with one pager (next_pager_stream_id).
THEOREM StreamsPaired == Spec => []IInv
BY AtStart, StepKeeps, PTL DEF Spec

\* A pager that waits for lines has its stream in the slot, or among the
\* parked, that it will be drained from (drain_one_pager_stream, and the
\* stash and restore of pane_scroll.rs).
THEOREM WaitingAreFed == Spec => []Fed
<1>1. IInv => Fed
  BY DEF IInv, OverlayAlone, ScrollAlone, Fed
<1>2. QED
  BY <1>1, StreamsPaired, PTL

-----------------------------------------------------------------------------
(***************************************************************************)
(* Whole: a view carries the id of its stream wherever it goes, and what   *)
(* has come from a stream only grows, so the views fit to be anywhere      *)
(* (Sound) only grow too.  The job of an id is the kind of the pager that  *)
(* has it, and no grep is over the pane: a drain that takes a grep for     *)
(* finished has a grep's pager before it, and one that takes a transcript  *)
(* for finished hasn't.                                                    *)
(***************************************************************************)
Sound == {v \in View :
             /\ v.id <= opened
             /\ v.id # 0 => job[v.id] = v.kind
             /\ v.id # 0 /\ ~v.streaming => v.id \in (IF v.kind = "grep" THEN ended ELSE sent)}
OverPane == {v \in Sound : v.kind # "grep"}

Jobs == job \in [Ids -> Kinds]

ListSound ==
    /\ pager \in Sound /\ helpStash \in Sound
    /\ back \in Seq(Sound) /\ forward \in Seq(Sound)
    /\ pending # 0 => job[pending] = "git"

PaneSound == scroll \in OverPane /\ scrollHelp \in OverPane /\ shelf \in [TabIds -> OverPane]

WholeInv == IInv /\ Jobs /\ ListSound /\ PaneSound

\* What a step does to the streams, whatever it does to the pagers.
Onward ==
    /\ Counters' /\ Jobs' /\ opened <= opened'
    /\ \A i \in 1..opened : job'[i] = job[i]
    /\ sent \subseteq sent' /\ ended \subseteq ended'

LEMMA SoundGrows ==
    ASSUME Counters, Onward
    PROVE  Sound \subseteq Sound' /\ OverPane \subseteq OverPane'
<1>1. opened \in Nat /\ opened' \in Nat /\ opened <= opened'
  BY Bounds DEF Counters, Onward
<1>2. ASSUME NEW v \in Sound PROVE v \in Sound'
  <2>1. v \in View /\ v.id \in Nat /\ v.id <= opened
    BY <1>2, Bounds DEF Sound, View
  <2>2. v.id <= opened' /\ (v.id # 0 => job'[v.id] = job[v.id])
    BY <1>1, <2>1 DEF Onward
  <2>3. QED
    BY <1>2, <2>1, <2>2 DEF Sound, Onward
<1>3. QED
  BY <1>2 DEF OverPane

\* A stream that is opened is the next.
LEMMA StartsOnward ==
    ASSUME Counters, Jobs, NEW kind \in Kinds, Starts(kind)
    PROVE  /\ Onward /\ opened' = NewId /\ job'[NewId] = kind
           /\ NewId \in Ids /\ NewId \in 0..MaxStreams
           /\ \A i \in 0..opened : i # NewId
<1>1. /\ opened < MaxStreams /\ opened' = NewId /\ job' = [job EXCEPT ![NewId] = kind]
      /\ sent' = sent /\ ended' = ended
  BY DEF Starts
<1>2. opened \in Nat /\ NewId = opened + 1 /\ NewId \in Ids /\ NewId \in 0..MaxStreams
  BY <1>1, Bounds DEF Counters, NewId, Ids
<1>3. Counters' /\ opened <= opened'
  BY <1>1, <1>2 DEF Counters
<1>4. Jobs' /\ job'[NewId] = kind
  BY <1>1, <1>2 DEF Jobs
<1>5. \A i \in 1..opened : job'[i] = job[i]
  BY <1>1, <1>2, Bounds DEF Jobs, Ids, Counters
<1>6. \A i \in 0..opened : i # NewId
  BY <1>2
<1>7. QED
  BY <1>1, <1>2, <1>3, <1>4, <1>5, <1>6 DEF Onward

LEMMA WorkersOnward ==
    ASSUME Counters, Jobs,
           UNCHANGED workers \/ \E i \in Ids : WorkerSends(i) \/ WorkerEnds(i) \/ WorkerPanics(i)
    PROVE  Onward
<1>1. /\ opened' = opened /\ job' = job /\ sent \subseteq sent' /\ ended \subseteq ended'
      /\ sent' \subseteq Ids
  BY DEF workers, WorkerSends, WorkerEnds, WorkerPanics, Counters
<1>2. QED
  BY <1>1, Bounds DEF Onward, Counters, Jobs

-----------------------------------------------------------------------------
(* Which views are fit.                                                    *)

LEMMA PlainSound ==
    ASSUME Counters, NEW kind \in Kinds, NEW t \in 0..MaxTabs
    PROVE  Plain(kind, t) \in Sound /\ (kind # "grep" => Plain(kind, t) \in OverPane)
<1>1. 0 <= opened
  BY Bounds DEF Counters
<1>2. Plain(kind, t) \in View /\ Plain(kind, t).id = 0 /\ Plain(kind, t).kind = kind
  BY PlainSays
<1>3. QED
  BY <1>1, <1>2 DEF Sound, OverPane

LEMMA NoViewSound == Counters => NoView \in OverPane /\ NoView \in Sound
BY PlainSound, Bounds DEF NoView, Kinds

LEMMA CoveredSound ==
    ASSUME NEW v \in Sound
    PROVE  Covered(v) \in Sound /\ (v \in OverPane => Covered(v) \in OverPane)
BY CoveredSays DEF Sound, OverPane

LEMMA FilledSound ==
    ASSUME NEW v \in Sound, v.id # 0 => v.id \in (IF v.kind = "grep" THEN ended ELSE sent)
    PROVE  Filled(v) \in Sound /\ (v \in OverPane => Filled(v) \in OverPane)
BY FilledSays DEF Sound, OverPane

LEMMA CutSound ==
    ASSUME Counters, NEW v \in Sound
    PROVE  Cut(v) \in Sound
<1>1. 0 <= opened
  BY Bounds DEF Counters
<1>2. CASE v.streaming
  BY <1>1, <1>2, CutSays DEF Sound
<1>3. CASE ~v.streaming
  BY <1>3, CutSays DEF Sound
<1>4. QED
  BY <1>2, <1>3

\* A pager that is loading is fit as soon as its stream is opened.
LEMMA LoadingSound ==
    ASSUME NEW kind \in Kinds, NEW i \in Ids, NEW t \in 0..MaxTabs, i <= opened, job[i] = kind
    PROVE  /\ Loading(kind, i, t) \in Sound
           /\ kind # "grep" => Loading(kind, i, t) \in OverPane
BY LoadingSays DEF Sound, OverPane

-----------------------------------------------------------------------------
(* The pager over the list.                                                *)

LEMMA ListSoundFrame ==
    ASSUME Counters, OverlayAlone, Sound \subseteq Sound', Onward, ListSound,
           UNCHANGED <<pager, helpStash, back, forward>>, pending' \in {0, pending}
    PROVE  ListSound'
<1>1. back' \in Seq(Sound') /\ forward' \in Seq(Sound')
  BY SeqGrows DEF ListSound
<1>2. pending # 0 => job'[pending] = job[pending]
  BY Bounds DEF OverlayAlone, Counters, Onward
<1>3. QED
  BY <1>1, <1>2 DEF ListSound

\* A step that makes the history of fit views makes it of what is fit then.
LEMMA ListSoundStep ==
    ASSUME Counters, OverlayAlone, Sound \subseteq Sound', Onward, ListSound,
           pager' \in Sound', helpStash' \in Sound',
           back' \in Seq(Sound'), forward' \in Seq(Sound'), pending' \in {0, pending}
    PROVE  ListSound'
<1>1. pending # 0 => job'[pending] = job[pending]
  BY Bounds DEF OverlayAlone, Counters, Onward
<1>2. QED
  BY <1>1 DEF ListSound

LEMMA GitViewLandsSound ==
    ASSUME Counters, Jobs, OverlayAlone, Sound \subseteq Sound', Onward, ListSound, GitViewLands
    PROVE  ListSound'
<1>1. /\ pager' = Filled(Loading("git", pending, 0)) /\ helpStash' = Covered(helpStash)
      /\ pending \in sent /\ pending' = 0 /\ Remembers(Covered(pager))
  BY DEF GitViewLands
<1>2. pending \in Ids /\ pending <= opened /\ pending # 0
  BY <1>1, Bounds DEF Counters, OverlayAlone, Ids
<1>3. Loading("git", pending, 0) \in Sound
  BY <1>2, Bounds, LoadingSound DEF ListSound, Kinds
<1>4. pager' \in Sound
  <2>1. Loading("git", pending, 0).id = pending /\ Loading("git", pending, 0).kind = "git"
    BY <1>2, Bounds, LoadingSays DEF Kinds
  <2>2. QED
    BY <1>1, <1>3, <2>1, FilledSound
<1>5. helpStash' \in Sound /\ Covered(pager) \in Sound
  BY <1>1, CoveredSound DEF ListSound
<1>6. back' \in Seq(Sound) /\ forward' \in Seq(Sound)
  BY <1>1, <1>5, RemembersSays DEF ListSound
<1>7. back' \in Seq(Sound') /\ forward' \in Seq(Sound')
  BY <1>6, SeqGrows
<1>8. QED
  BY <1>1, <1>4, <1>5, <1>7, ListSoundStep

LEMMA DrainsOverlaySound ==
    ASSUME Counters, OverlayAlone, Sound \subseteq Sound', Onward, ListSound, DrainsOverlay
    PROVE  ListSound'
<1>1. UNCHANGED <<helpStash, back, forward, pending>>
  BY DEF DrainsOverlay
<1>2. CASE pager' = pager
  BY <1>1, <1>2, ListSoundFrame
<1>3. CASE /\ pager' = Filled(pager) /\ overlayStream # 0 /\ pager.id = overlayStream
           /\ job[overlayStream] = "grep" /\ GrepEnded
  <2>1. pager \in Sound /\ pager.kind = "grep" /\ pager.id \in ended
    BY <1>3 DEF ListSound, Sound, GrepEnded
  <2>2. pager' \in Sound
    BY <1>3, <2>1, FilledSound
  <2>3. back' \in Seq(Sound') /\ forward' \in Seq(Sound')
    BY <1>1, SeqGrows DEF ListSound
  <2>4. QED
    BY <1>1, <2>2, <2>3, ListSoundStep DEF ListSound
<1>4. QED
  BY <1>2, <1>3 DEF DrainsOverlay

LEMMA OpenGrepSound ==
    ASSUME Counters, Jobs, OverlayAlone, Sound \subseteq Sound', ListSound, OpenGrep
    PROVE  ListSound'
<1>1. /\ pager' = Loading("grep", NewId, 0) /\ helpStash' = Covered(helpStash)
      /\ UNCHANGED <<back, forward, pending>> /\ Starts("grep")
  BY DEF OpenGrep
<1>2. /\ Onward /\ opened' = NewId /\ job'[NewId] = "grep" /\ NewId \in Ids
  BY <1>1, StartsOnward DEF Kinds
<1>3. pager' \in Sound'
  <2>1. /\ pager' \in View /\ pager'.id = NewId /\ pager'.streaming /\ pager'.kind = "grep"
    BY <1>1, <1>2, LoadingSays, Bounds DEF Kinds
  <2>2. NewId <= opened'
    BY <1>2 DEF Ids
  <2>3. QED
    BY <1>2, <2>1, <2>2 DEF Sound
<1>4. helpStash' \in Sound'
  BY <1>1, CoveredSound DEF ListSound
<1>5. back' \in Seq(Sound') /\ forward' \in Seq(Sound')
  BY <1>1, SeqGrows DEF ListSound
<1>6. QED
  BY <1>1, <1>2, <1>3, <1>4, <1>5, ListSoundStep

LEMMA AskGitViewSound ==
    ASSUME Counters, Jobs, OverlayAlone, Sound \subseteq Sound', ListSound, AskGitView
    PROVE  ListSound'
<1>1. pending' = NewId /\ UNCHANGED <<pager, helpStash, back, forward>> /\ Starts("git")
  BY DEF AskGitView
<1>2. job'[NewId] = "git"
  BY <1>1, StartsOnward DEF Kinds
<1>3. back' \in Seq(Sound') /\ forward' \in Seq(Sound')
  BY <1>1, SeqGrows DEF ListSound
<1>4. QED
  BY <1>1, <1>2, <1>3 DEF ListSound

LEMMA PagerOpensSound ==
    ASSUME Counters, OverlayAlone, Sound \subseteq Sound', Onward, ListSound,
           PagerOpens \/ ReopenLast
    PROVE  ListSound'
<1>1. UNCHANGED <<forward, helpStash, pending>>
  BY DEF PagerOpens, ReopenLast
<1>2. pager' \in Sound /\ back' \in Seq(Sound)
  <2>1. CASE PagerOpens
    BY <2>1, PlainSound, Bounds DEF PagerOpens, FileView, Kinds, ListSound
  <2>2. CASE ReopenLast
    BY <2>2, LastSays DEF ReopenLast, ListSound
  <2>3. QED
    BY <2>1, <2>2
<1>3. back' \in Seq(Sound') /\ forward' \in Seq(Sound')
  BY <1>1, <1>2, SeqGrows DEF ListSound
<1>4. QED
  BY <1>1, <1>2, <1>3, ListSoundStep DEF ListSound

LEMMA ClosePagerSound ==
    ASSUME Counters, OverlayAlone, Sound \subseteq Sound', Onward, ListSound, ClosePager
    PROVE  ListSound'
<1>1. pending' = pending /\ NoView \in Sound
  BY NoViewSound DEF ClosePager
<1>2. /\ pager' \in {pager, helpStash, NoView} /\ helpStash' \in {helpStash, NoView}
      /\ UNCHANGED <<back, forward>> \/ Remembers(pager)
  BY DEF ClosePager
<1>3. back' \in Seq(Sound) /\ forward' \in Seq(Sound)
  BY <1>2, RemembersSays DEF ListSound
<1>4. back' \in Seq(Sound') /\ forward' \in Seq(Sound')
  BY <1>3, SeqGrows
<1>5. pager' \in Sound' /\ helpStash' \in Sound'
  BY <1>1, <1>2 DEF ListSound
<1>6. QED
  BY <1>1, <1>4, <1>5, ListSoundStep

LEMMA ShowHelpSound ==
    ASSUME Counters, OverlayAlone, Sound \subseteq Sound', Onward, ListSound, ShowHelp
    PROVE  ListSound'
<1>1. UNCHANGED <<back, forward, pending>>
  BY DEF ShowHelp
<1>2. Help(0) \in Sound
  BY PlainSound, Bounds DEF Help, Kinds
<1>3. pager' \in {pager, Help(0)} /\ helpStash' \in {helpStash, pager}
  BY DEF ShowHelp
<1>4. back' \in Seq(Sound') /\ forward' \in Seq(Sound')
  BY <1>1, SeqGrows DEF ListSound
<1>5. pager' \in Sound' /\ helpStash' \in Sound'
  BY <1>2, <1>3 DEF ListSound
<1>6. QED
  BY <1>1, <1>4, <1>5, ListSoundStep

LEMMA NavigateSound ==
    ASSUME Counters, OverlayAlone, Sound \subseteq Sound', Onward, ListSound, Navigate
    PROVE  ListSound'
<1>1. UNCHANGED <<helpStash, pending>>
  BY DEF Navigate
<1>2. Cut(pager) \in Sound
  BY CutSound DEF ListSound
<1>3. pager' \in Sound /\ back' \in Seq(Sound) /\ forward' \in Seq(Sound)
  <2>1. CASE pager' = Cut(pager) /\ UNCHANGED <<back, forward>>
    BY <1>2, <2>1 DEF ListSound
  <2>2. CASE /\ back # <<>> /\ pager' = Last(back)
             /\ back' = Front(back) /\ forward' = Append(forward, Cut(pager))
    BY <1>2, <2>2, LastSays, BufferSays DEF ListSound
  <2>3. CASE /\ forward # <<>> /\ pager' = Last(forward)
             /\ forward' = Front(forward) /\ back' = Append(back, Cut(pager))
    BY <1>2, <2>3, LastSays, BufferSays DEF ListSound
  <2>4. QED
    BY <2>1, <2>2, <2>3 DEF Navigate
<1>4. back' \in Seq(Sound') /\ forward' \in Seq(Sound')
  BY <1>3, SeqGrows
<1>5. QED
  BY <1>1, <1>3, <1>4, ListSoundStep DEF ListSound

-----------------------------------------------------------------------------
(* The scrollback.                                                         *)

\* Only what is over the pane moves.
LEMMA PaneSoundStep ==
    ASSUME OverPane \subseteq OverPane', PaneSound, scroll' \in OverPane',
           scrollHelp' \in OverPane', UNCHANGED shelf
    PROVE  PaneSound'
BY DEF PaneSound

LEMMA PaneSoundFrame ==
    ASSUME OverPane \subseteq OverPane', PaneSound, UNCHANGED <<scroll, scrollHelp, shelf>>
    PROVE  PaneSound'
BY DEF PaneSound

LEMMA DrainsScrollSound ==
    ASSUME Counters, OverPane \subseteq OverPane', PaneSound, DrainsScroll
    PROVE  PaneSound'
<1>1. scrollHelp' = scrollHelp /\ shelf' = shelf
  BY DEF DrainsScroll
<1>2. \/ scroll' \in {scroll, NoView}
      \/ /\ scroll' = Filled(scroll)
         /\ scroll.id = scrollStream /\ scrollStream \in sent
  BY DEF DrainsScroll
<1>3. CASE scroll' \in {scroll, NoView}
  BY <1>1, <1>3, NoViewSound, PaneSoundStep DEF PaneSound
<1>4. CASE scroll' = Filled(scroll) /\ scroll.id = scrollStream /\ scrollStream \in sent
  <2>1. scroll \in Sound /\ scroll.kind # "grep" /\ scroll.id \in sent
    BY <1>4 DEF PaneSound, OverPane
  <2>2. scroll' \in OverPane
    BY <1>4, <2>1, FilledSound DEF PaneSound
  <2>3. QED
    BY <1>1, <2>2, PaneSoundStep DEF PaneSound
<1>5. QED
  BY <1>2, <1>3, <1>4

LEMMA SettlesSound ==
    ASSUME Counters, TabsInv, OverPane \subseteq OverPane', PaneSound, Settles
    PROVE  PaneSound'
<1>1. UNCHANGED <<scrollHelp, shelf>>
  BY DEF Settles
<1>2. scroll' \in {scroll, Plain("terminal", Tab)}
  BY DEF Settles, Installs
<1>3. Plain("terminal", Tab) \in OverPane
  BY TabSays, PlainSound DEF Kinds
<1>4. QED
  BY <1>1, <1>2, <1>3, PaneSoundStep DEF PaneSound

LEMMA BackUnderHelpSound ==
    ASSUME Counters, OverPane \subseteq OverPane', PaneSound, ClosePager \/ CloseScroll
    PROVE  PaneSound'
<1>1. shelf' = shelf
  BY DEF ClosePager, CloseScroll, tabsVars
<1>2. scroll' \in {scroll, scrollHelp, NoView} /\ scrollHelp' \in {scrollHelp, NoView}
  BY DEF ClosePager, CloseScroll
<1>3. QED
  BY <1>1, <1>2, NoViewSound, PaneSoundStep DEF PaneSound

LEMMA HelpOverScrollSound ==
    ASSUME Counters, TabsInv, OverPane \subseteq OverPane', PaneSound, ShowHelp
    PROVE  PaneSound'
<1>1. shelf' = shelf
  BY DEF ShowHelp, tabsVars
<1>2. scroll' \in {scroll, Help(Tab)} /\ scrollHelp' \in {scrollHelp, Covered(scroll)}
  BY DEF ShowHelp
<1>3. Help(Tab) \in OverPane
  BY TabSays, PlainSound DEF Help, Kinds
<1>4. Covered(scroll) \in OverPane
  BY CoveredSound DEF PaneSound, OverPane
<1>5. QED
  BY <1>1, <1>2, <1>3, <1>4, PaneSoundStep DEF PaneSound

LEMMA OpenTranscriptSound ==
    ASSUME Counters, Jobs, TabsInv, OverPane \subseteq OverPane', PaneSound, OpenTranscript
    PROVE  PaneSound'
<1>1. /\ scroll' = Loading("transcript", NewId, Tab) /\ Starts("transcript")
      /\ UNCHANGED <<scrollHelp, shelf>>
  BY DEF OpenTranscript, Installs
<1>2. /\ opened' = NewId /\ job'[NewId] = "transcript" /\ NewId \in Ids
  BY <1>1, StartsOnward DEF Kinds
<1>3. scroll' \in OverPane'
  <2>1. /\ scroll' \in View /\ scroll'.id = NewId /\ scroll'.streaming
        /\ scroll'.kind = "transcript"
    BY <1>1, <1>2, TabSays, LoadingSays DEF Kinds
  <2>2. NewId <= opened'
    BY <1>2 DEF Ids
  <2>3. QED
    BY <1>2, <2>1, <2>2 DEF Sound, OverPane
<1>4. QED
  BY <1>1, <1>3, PaneSoundStep DEF PaneSound

LEMMA GoToTabSound ==
    ASSUME Counters, TabsInv, OverPane \subseteq OverPane', PaneSound,
           NEW i \in 1..MaxTabs, GoToTab(i)
    PROVE  PaneSound'
<1>1. /\ i \in DOMAIN tabs /\ scroll' = Stash[tabs[i]] /\ scrollHelp' = scrollHelp
      /\ shelf' = [Stash EXCEPT ![tabs[i]] = NoView]
  BY DEF GoToTab
<1>2. Tab \in TabIds /\ tabs[i] \in TabIds
  BY <1>1, TabSays
<1>3. Stash \in [TabIds -> OverPane]
  BY <1>2 DEF Stash, PaneSound
<1> HIDE DEF Stash
<1>4. scroll' \in OverPane /\ shelf' \in [TabIds -> OverPane]
  BY <1>1, <1>2, <1>3, NoViewSound
<1>5. QED
  BY <1>1, <1>4 DEF PaneSound

LEMMA GoneSound ==
    ASSUME Counters, OverPane \subseteq OverPane', PaneSound, NEW t \in TabIds, Gone(t),
           UNCHANGED <<scroll, scrollHelp>>
    PROVE  PaneSound'
<1>1. shelf' = [shelf EXCEPT ![t] = NoView]
  BY DEF Gone
<1>2. shelf' \in [TabIds -> OverPane]
  BY <1>1, NoViewSound DEF PaneSound
<1>3. QED
  BY <1>2 DEF PaneSound

-----------------------------------------------------------------------------
LEMMA SoundAtStart == Init => WholeInv
<1> SUFFICES ASSUME Init PROVE WholeInv
  OBVIOUS
<1>1. IInv /\ Counters
  BY AtStart DEF IInv
<1>2. NoView \in Sound /\ NoView \in OverPane
  BY <1>1, NoViewSound
<1>3. Jobs
  BY DEF Init, Jobs, Kinds
<1>4. ListSound
  BY <1>2 DEF Init, ListSound
<1>5. PaneSound
  BY <1>2 DEF Init, PaneSound
<1>6. QED
  BY <1>1, <1>3, <1>4, <1>5 DEF WholeInv

\* Every step goes onward.
LEMMA NextOnward ==
    ASSUME Counters, Jobs, [Next]_vars
    PROVE  Onward
<1>1. CASE LoopPass
  BY <1>1, WorkersOnward
     DEF LoopPass, GitViewLands, NoGitViewLands, DrainsOverlay, DrainsScroll, Settles
<1>2. CASE Woken \/ PagerOpens \/ ReopenLast \/ ClosePager \/ ShowHelp \/ Navigate \/ Focus
  BY <1>2, WorkersOnward
     DEF Woken, PagerOpens, ReopenLast, ClosePager, ShowHelp, Navigate, Focus
<1>3. CASE AskTerminal \/ CloseScroll \/ GoToNone \/ OpenTab \/ CloseTab \/ RestartTab
  BY <1>3, WorkersOnward
     DEF AskTerminal, CloseScroll, GoToNone, OpenTab, CloseTab, RestartTab, Restarts
<1>4. CASE \E i \in 1..MaxTabs : GoToTab(i) \/ AgentRestarts(i)
  BY <1>4, WorkersOnward DEF GoToTab, AgentRestarts, Restarts
<1>5. CASE \E i \in Ids : WorkerSends(i) \/ WorkerEnds(i) \/ WorkerPanics(i)
  BY <1>5, WorkersOnward
<1>6. CASE OpenGrep \/ AskGitView \/ OpenTranscript
  BY <1>6, StartsOnward DEF OpenGrep, AskGitView, OpenTranscript, Kinds
<1>7. CASE UNCHANGED vars
  BY <1>7, WorkersOnward DEF vars
<1>8. QED
  BY <1>1, <1>2, <1>3, <1>4, <1>5, <1>6, <1>7 DEF Next

LEMMA SoundStep == WholeInv /\ [Next]_vars => WholeInv'
<1> SUFFICES ASSUME WholeInv, [Next]_vars PROVE WholeInv'
  OBVIOUS
<1>1. IInv /\ IInv' /\ Jobs /\ ListSound /\ PaneSound
  BY StepKeeps DEF WholeInv
<1>2. Counters /\ TabsInv /\ OverlayAlone /\ ScrollAlone
  BY <1>1 DEF IInv
<1>3. Onward
  BY <1>1, <1>2, NextOnward
<1>4. Sound \subseteq Sound' /\ OverPane \subseteq OverPane' /\ Jobs'
  BY <1>2, <1>3, SoundGrows DEF Onward
<1>5. ASSUME UNCHANGED overlay PROVE ListSound'
  BY <1>1, <1>2, <1>3, <1>4, <1>5, ListSoundFrame DEF overlay
<1>6. ASSUME UNCHANGED bottom, UNCHANGED tabsVars PROVE PaneSound'
  BY <1>1, <1>4, <1>6, PaneSoundFrame DEF bottom, tabsVars
<1>7. ListSound' /\ PaneSound'
  <2>1. CASE GitViewLands
    BY <2>1, <1>1, <1>2, <1>3, <1>4, <1>6, GitViewLandsSound DEF GitViewLands
  <2>2. CASE NoGitViewLands
    <3>1. UNCHANGED <<pager, helpStash, back, forward>> /\ pending' \in {0, pending}
      BY <2>2 DEF NoGitViewLands
    <3>2. QED
      BY <2>2, <3>1, <1>1, <1>2, <1>3, <1>4, <1>6, ListSoundFrame DEF NoGitViewLands
  <2>3. CASE DrainsOverlay
    BY <2>3, <1>1, <1>2, <1>3, <1>4, <1>6, DrainsOverlaySound DEF DrainsOverlay
  <2>4. CASE DrainsScroll
    BY <2>4, <1>1, <1>2, <1>4, <1>5, DrainsScrollSound DEF DrainsScroll
  <2>5. CASE Settles
    BY <2>5, <1>1, <1>2, <1>4, <1>5, SettlesSound DEF Settles
  <2>6. CASE \/ Woken \/ Focus \/ UNCHANGED vars
            \/ \E i \in Ids : WorkerSends(i) \/ WorkerEnds(i) \/ WorkerPanics(i)
    BY <2>6, <1>5, <1>6 DEF Woken, Focus, vars, WorkerSends, WorkerEnds, WorkerPanics
  <2>7. CASE OpenGrep
    BY <2>7, <1>1, <1>2, <1>4, <1>6, OpenGrepSound DEF OpenGrep
  <2>8. CASE AskGitView
    BY <2>8, <1>1, <1>2, <1>4, <1>6, AskGitViewSound DEF AskGitView
  <2>9. CASE PagerOpens \/ ReopenLast
    BY <2>9, <1>1, <1>2, <1>3, <1>4, <1>6, PagerOpensSound DEF PagerOpens, ReopenLast
  <2>10. CASE ClosePager
    BY <2>10, <1>1, <1>2, <1>3, <1>4, ClosePagerSound, BackUnderHelpSound
  <2>11. CASE ShowHelp
    BY <2>11, <1>1, <1>2, <1>3, <1>4, ShowHelpSound, HelpOverScrollSound
  <2>12. CASE Navigate
    BY <2>12, <1>1, <1>2, <1>3, <1>4, <1>6, NavigateSound DEF Navigate
  <2>13. CASE OpenTranscript
    BY <2>13, <1>1, <1>2, <1>4, <1>5, OpenTranscriptSound DEF OpenTranscript
  <2>14. CASE AskTerminal
    <3>1. UNCHANGED <<scroll, scrollHelp, shelf>>
      BY <2>14 DEF AskTerminal, tabsVars
    <3>2. QED
      BY <2>14, <3>1, <1>1, <1>4, <1>5, PaneSoundFrame DEF AskTerminal
  <2>15. CASE CloseScroll
    BY <2>15, <1>1, <1>2, <1>4, <1>5, BackUnderHelpSound DEF CloseScroll
  <2>16. ASSUME NEW i \in 1..MaxTabs, GoToTab(i) PROVE ListSound' /\ PaneSound'
    BY <2>16, <1>1, <1>2, <1>4, <1>5, GoToTabSound DEF GoToTab
  <2>17. CASE GoToNone
    <3>1. scroll' = NoView /\ UNCHANGED <<scrollHelp, shelf>>
      BY <2>17 DEF GoToNone, tabsVars
    <3>2. QED
      BY <2>17, <3>1, <1>1, <1>2, <1>4, <1>5, NoViewSound, PaneSoundStep DEF GoToNone, PaneSound
  <2>18. CASE OpenTab
    <3>1. UNCHANGED <<scroll, scrollHelp, shelf>>
      BY <2>18 DEF OpenTab, bottom
    <3>2. QED
      BY <2>18, <3>1, <1>1, <1>4, <1>5, PaneSoundFrame DEF OpenTab
  <2>19. CASE CloseTab
    <3>1. Tab \in TabIds /\ Gone(Tab) /\ UNCHANGED <<scroll, scrollHelp>>
      BY <2>19, <1>2, TabSays DEF CloseTab
    <3>2. QED
      BY <2>19, <3>1, <1>1, <1>2, <1>4, <1>5, GoneSound DEF CloseTab
  <2>20. ASSUME NEW i \in DOMAIN tabs, Restarts(i) PROVE ListSound' /\ PaneSound'
    <3>1. tabs[i] \in TabIds /\ Gone(tabs[i]) /\ UNCHANGED <<scroll, scrollHelp>>
      BY <2>20, <1>2, TabSays DEF Restarts
    <3>2. QED
      BY <2>20, <3>1, <1>1, <1>2, <1>4, <1>5, GoneSound DEF Restarts
  <2>21. CASE RestartTab \/ \E i \in 1..MaxTabs : AgentRestarts(i)
    BY <2>20, <2>21, <1>2 DEF RestartTab, AgentRestarts, TabsInv
  <2>22. QED
    BY <2>1, <2>2, <2>3, <2>4, <2>5, <2>6, <2>7, <2>8, <2>9, <2>10, <2>11, <2>12, <2>13,
       <2>14, <2>15, <2>16, <2>17, <2>18, <2>19, <2>21 DEF Next, LoopPass
<1>8. QED
  BY <1>1, <1>4, <1>7 DEF WholeInv

\* A pager that says it is finished has all its stream gave, wherever it was
\* when the last of it came: the help, a shelf, the history and a change of tab
\* never make a finished pager of a stream that is still giving
\* (drain_one_pager_stream, nav_pager_buffer, land_pending_git_view).
THEOREM FinishedAreWhole == Spec => []Whole
<1>1. WholeInv => Whole
  <2> SUFFICES ASSUME WholeInv PROVE Whole
    OBVIOUS
  <2>1. \A S : \A q \in Seq(S) : Range(q) \subseteq S
    BY DEF Range
  <2>2. Range(back) \subseteq Sound /\ Range(forward) \subseteq Sound
    BY <2>1 DEF WholeInv, ListSound
  <2>3. Views \subseteq Sound
    BY <2>2 DEF WholeInv, ListSound, PaneSound, OverPane, Views
  <2>4. QED
    BY <2>3 DEF Whole, Sound
<1>2. Spec => []WholeInv
  BY SoundAtStart, SoundStep, PTL DEF Spec
<1>3. QED
  BY <1>1, <1>2, PTL

-----------------------------------------------------------------------------
(***************************************************************************)
(* OwnScrollback and ParkedOwned: a scrollback in view is the active       *)
(* tab's, and that tab's shelf is empty meanwhile, or the stash would lose *)
(* what a stream is parked for.                                            *)
(***************************************************************************)
OwnView(v) == v # NoView => tabs # <<>> /\ v.tab = Tab /\ shelf[Tab] = NoView

OwnShelf == \A t \in TabIds : shelf[t] # NoView => t \in OpenTabs /\ shelf[t].tab = t

HasShelf == \A i \in parked : \E t \in OpenTabs : shelf[t].id = i

Own ==
    /\ parked \subseteq Ids /\ mixed \in BOOLEAN
    /\ ~mixed => OwnView(scroll) /\ OwnView(scrollHelp) /\ OwnShelf /\ HasShelf

OwnInv == IInv /\ Own

LEMMA OwnFrame ==
    ASSUME Own, UNCHANGED <<mixed, scroll, scrollHelp, shelf, parked, tabs, active>>
    PROVE  Own'
BY DEF Own, OwnView, OwnShelf, HasShelf, Tab, OpenTabs

\* Only what is over the pane changes.
LEMMA OwnViewStep ==
    ASSUME Own, mixed' \in BOOLEAN, mixed => mixed', UNCHANGED <<shelf, parked, tabs, active>>,
           ~mixed' => OwnView(scroll') /\ OwnView(scrollHelp')
    PROVE  Own'
<1>1. Tab' = Tab /\ OpenTabs' = OpenTabs
  BY DEF Tab, OpenTabs
<1>2. QED
  BY <1>1 DEF Own, OwnView, OwnShelf, HasShelf

LEMMA DrainsScrollOwn ==
    ASSUME ScrollAlone, Own, DrainsScroll
    PROVE  Own'
<1>1. UNCHANGED <<scrollHelp, shelf, parked, tabs, active, mixed>>
  BY DEF DrainsScroll
<1>2. \/ scroll' \in {scroll, NoView}
      \/ scroll' = Filled(scroll) /\ scroll # NoView
  BY NoViewSays DEF DrainsScroll
<1>3. Filled(scroll).tab = scroll.tab
  BY FilledSays DEF ScrollAlone, Known
<1>4. ~mixed => OwnView(scroll')
  BY <1>2, <1>3 DEF Own, OwnView
<1>5. QED
  BY <1>1, <1>4, OwnViewStep DEF Own

\* A scrollback comes over the active tab's pane.
LEMMA InstallsOwn ==
    ASSUME Own, NEW v, v.tab = Tab, tabs # <<>>, Installs(v),
           UNCHANGED <<scrollHelp, shelf, parked, tabs, active>>
    PROVE  Own'
<1>1. scroll' = v /\ mixed' = (mixed \/ shelf[Tab] # NoView)
  BY DEF Installs
<1>2. mixed' \in BOOLEAN /\ (mixed => mixed') /\ (~mixed' => ~mixed /\ shelf[Tab] = NoView)
  BY <1>1, Zenon DEF Own
<1>3. ~mixed' => OwnView(scroll') /\ OwnView(scrollHelp')
  BY <1>1, <1>2 DEF Own, OwnView
<1>4. QED
  BY <1>2, <1>3, OwnViewStep

LEMMA SettlesOwn ==
    ASSUME TabsInv, Own, Settles
    PROVE  Own'
<1>1. UNCHANGED <<scrollHelp, shelf, parked, tabs, active>>
  BY DEF Settles
<1>2. CASE UNCHANGED <<scroll, mixed>>
  BY <1>1, <1>2, OwnFrame
<1>3. CASE AskerIsActive /\ Installs(Plain("terminal", Tab))
  <2>1. Plain("terminal", Tab).tab = Tab
    BY TabSays, PlainSays DEF Kinds
  <2>2. QED
    BY <1>1, <1>3, <2>1, InstallsOwn DEF AskerIsActive
<1>4. QED
  BY <1>2, <1>3 DEF Settles

LEMMA OpenTranscriptOwn ==
    ASSUME Counters, TabsInv, Own, OpenTranscript
    PROVE  Own'
<1>1. /\ Installs(Loading("transcript", NewId, Tab)) /\ tabs # <<>> /\ Starts("transcript")
      /\ UNCHANGED <<scrollHelp, shelf, parked, tabs, active>>
  BY DEF OpenTranscript
<1>2. NewId \in Ids
  BY <1>1, Bounds DEF Starts, Counters, NewId, Ids
<1>3. Loading("transcript", NewId, Tab).tab = Tab
  BY <1>2, TabSays, LoadingSays DEF Kinds
<1>4. QED
  BY <1>1, <1>3, InstallsOwn

LEMMA BackUnderHelpOwn ==
    ASSUME Own, ClosePager \/ CloseScroll
    PROVE  Own'
<1>1. UNCHANGED <<shelf, parked, tabs, active>> /\ mixed' \in {mixed, TRUE}
  BY DEF ClosePager, CloseScroll, tabsVars
<1>2. scroll' \in {scroll, scrollHelp, NoView} /\ scrollHelp' \in {scrollHelp, NoView}
  BY DEF ClosePager, CloseScroll
<1>3. mixed' \in BOOLEAN /\ (mixed => mixed') /\ (~mixed' => ~mixed)
  BY <1>1 DEF Own
<1>4. ~mixed' => OwnView(scroll') /\ OwnView(scrollHelp')
  BY <1>2, <1>3 DEF Own, OwnView
<1>5. QED
  BY <1>1, <1>3, <1>4, OwnViewStep

LEMMA HelpOverScrollOwn ==
    ASSUME TabsInv, ScrollAlone, Own, ShowHelp
    PROVE  Own'
<1>1. UNCHANGED <<shelf, parked, tabs, active, mixed>>
  BY DEF ShowHelp, tabsVars
<1>2. CASE UNCHANGED <<scroll, scrollHelp>>
  BY <1>1, <1>2, OwnFrame
<1>3. CASE scroll # NoView /\ scrollHelp' = Covered(scroll) /\ scroll' = Help(Tab)
  <2>1. Help(Tab).tab = Tab
    BY TabSays, PlainSays DEF Help, Kinds
  <2>2. Covered(scroll).tab = scroll.tab
    BY CoveredSays DEF ScrollAlone, Known
  <2>3. ~mixed => OwnView(scroll') /\ OwnView(scrollHelp')
    BY <1>3, <2>1, <2>2 DEF Own, OwnView
  <2>4. QED
    BY <1>1, <2>3, OwnViewStep DEF Own
<1>4. QED
  BY <1>2, <1>3 DEF ShowHelp

LEMMA ParksAnId ==
    ASSUME ScrollAlone, Parks
    PROVE  scroll.id \in Ids
<1>1. scroll.id \in 0..MaxStreams /\ scroll.id # 0
  BY DEF ScrollAlone, Known, View, Parks
<1>2. QED
  BY <1>1, Bounds DEF Ids

\* What the shelf of the tab left had would be lost, were there anything.
LEMMA GoToTabOwn ==
    ASSUME Counters, TabsInv, ScrollAlone, Own, NEW i \in 1..MaxTabs, GoToTab(i)
    PROVE  Own'
<1> DEFINE here == Tab
           there == tabs[i]
           held == IF Parks THEN parked \cup {scroll.id} ELSE parked
           full == Stash
           view == full[there]
<1>1. /\ i \in DOMAIN tabs /\ active' = i /\ scroll' = view
      /\ shelf' = [full EXCEPT ![there] = NoView]
      /\ parked' = held \ {view.id} /\ mixed' = (mixed \/ scrollHelp # NoView)
      /\ UNCHANGED <<scrollHelp, tabs>>
  BY DEF GoToTab
<1>2. /\ here \in TabIds /\ there \in TabIds /\ here \in OpenTabs /\ there \in OpenTabs
      /\ Tab' = there /\ OpenTabs' = OpenTabs /\ tabs # <<>>
  BY <1>1, TabSays DEF Tab, OpenTabs
<1>3. /\ full \in [TabIds -> View]
      /\ \A t \in TabIds : full[t] = IF t = here /\ scroll # NoView THEN scroll ELSE shelf[t]
  BY <1>2 DEF Stash, ScrollAlone, Known
<1>4. held \subseteq Ids
  BY ParksAnId DEF Own
<1>5. mixed' \in BOOLEAN /\ (~mixed' => ~mixed /\ scrollHelp = NoView)
  BY <1>1, Zenon DEF Own
<1>6. ~mixed => here # 0 /\ OwnView(scroll) /\ OwnShelf /\ HasShelf
  BY <1>2, Bounds DEF Own, TabIds
<1>7. ~mixed => \A t \in TabIds : full[t] # NoView => t \in OpenTabs /\ full[t].tab = t
  BY <1>2, <1>3, <1>6 DEF OwnView, OwnShelf
<1>8. ~mixed => \A k \in held : \E t \in OpenTabs : full[t].id = k
  <2>1. SUFFICES ASSUME ~mixed, NEW k \in held PROVE \E t \in OpenTabs : full[t].id = k
    OBVIOUS
  <2>2. CASE Parks /\ k = scroll.id
    <3>1. scroll # NoView
      BY <2>2, NoViewSays DEF Parks
    <3>2. QED
      BY <1>2, <1>3, <2>2, <3>1
  <2>3. CASE k \in parked
    <3>1. PICK t \in OpenTabs : shelf[t].id = k
      BY <1>6, <2>1, <2>3 DEF HasShelf
    <3>2. t \in TabIds /\ k # 0
      <4>1. k \in Ids
        BY <1>4, <2>1
      <4>2. PICK j \in DOMAIN tabs : t = tabs[j]
        BY <3>1 DEF OpenTabs, Range
      <4>3. QED
        BY <4>1, <4>2, TabSays DEF Ids
    <3>3. full[t] = shelf[t]
      BY <1>3, <1>6, <2>1, <3>1, <3>2, NoViewSays DEF OwnView
    <3>4. QED
      BY <3>1, <3>3
  <2>4. QED
    BY <2>2, <2>3 DEF held
<1> HIDE DEF full, here, there, held
<1>9. \A t \in TabIds : shelf'[t] = IF t = there THEN NoView ELSE full[t]
  BY <1>1, <1>2, <1>3
<1>10. ~mixed' => OwnView(scroll)' /\ OwnView(scrollHelp)'
  BY <1>1, <1>2, <1>5, <1>7, <1>9 DEF OwnView
<1>11. ~mixed' => OwnShelf'
  BY <1>2, <1>5, <1>7, <1>9 DEF OwnShelf
<1>12. ~mixed' => HasShelf'
  <2>1. SUFFICES ASSUME ~mixed', NEW k \in parked' PROVE \E t \in OpenTabs' : shelf'[t].id = k
    BY DEF HasShelf
  <2>2. k \in held /\ k # view.id
    BY <1>1, <2>1
  <2>3. PICK t \in OpenTabs : full[t].id = k
    BY <1>5, <1>8, <2>1, <2>2
  <2>4. t # there /\ t \in TabIds
    BY <2>2, <2>3, TabSays DEF OpenTabs, Range
  <2>5. QED
    BY <1>2, <1>9, <2>3, <2>4
<1>13. parked' \subseteq Ids
  BY <1>1, <1>4
<1>14. QED
  BY <1>5, <1>10, <1>11, <1>12, <1>13 DEF Own

LEMMA GoToNoneOwn ==
    ASSUME ScrollAlone, Own, GoToNone
    PROVE  Own'
<1>1. /\ tabs = <<>> /\ scroll # NoView /\ mixed' = mixed
      /\ parked' = IF Parks THEN parked \cup {scroll.id} ELSE parked
  BY DEF GoToNone
<1>2. mixed
  BY <1>1 DEF Own, OwnView
<1>3. parked' \subseteq Ids
  BY <1>1, ParksAnId DEF Own
<1>4. QED
  BY <1>1, <1>2, <1>3 DEF Own

LEMMA OpenTabOwn ==
    ASSUME TabsInv, Own, OpenTab
    PROVE  Own'
<1>1. /\ tabs' = Append(tabs, spawned + 1) /\ mixed' = (mixed \/ Strays)
      /\ UNCHANGED <<scroll, scrollHelp, shelf, parked>>
  BY DEF OpenTab, bottom
<1>2. mixed' \in BOOLEAN
      /\ (~mixed' => ~mixed /\ scroll = NoView /\ scrollHelp = NoView)
  BY <1>1, Zenon DEF Own, Strays
<1>3. OpenTabs \subseteq OpenTabs'
  <2>1. \A k \in DOMAIN tabs : k \in DOMAIN tabs' /\ tabs'[k] = tabs[k]
    BY <1>1 DEF TabsInv
  <2>2. QED
    BY <2>1 DEF OpenTabs, Range
<1>4. QED
  BY <1>1, <1>2, <1>3 DEF Own, OwnView, OwnShelf, HasShelf

\* A tab goes, nothing of it in view.
LEMMA GoneOwn ==
    ASSUME TabsInv, ScrollAlone, Own, NEW t \in TabIds, Gone(t), mixed' \in BOOLEAN,
           ~mixed' => /\ ~mixed
                      /\ scroll # NoView \/ scrollHelp # NoView =>
                             Tab' = Tab /\ tabs' # <<>>,
           OpenTabs \ {t} \subseteq OpenTabs',
           UNCHANGED <<scroll, scrollHelp>>
    PROVE  Own'
<1>1. /\ shelf' = [shelf EXCEPT ![t] = NoView]
      /\ parked' = parked \cap {shelf[u].id : u \in OpenTabs \ {t}}
  BY DEF Gone, Pruned
<1>2. \A u \in TabIds : shelf'[u] = IF u = t THEN NoView ELSE shelf[u]
  BY <1>1 DEF ScrollAlone
<1>3. parked' \subseteq Ids
  BY <1>1 DEF Own
<1>4. ~mixed' => OwnView(scroll)' /\ OwnView(scrollHelp)'
  <2>1. SUFFICES ASSUME ~mixed', NEW v \in {scroll, scrollHelp}, v # NoView
                 PROVE  tabs' # <<>> /\ v.tab = Tab' /\ shelf'[Tab'] = NoView
    BY DEF OwnView
  <2>2. tabs # <<>> /\ v.tab = Tab /\ shelf[Tab] = NoView
    BY <2>1 DEF Own, OwnView
  <2>3. Tab \in TabIds /\ Tab' = Tab /\ tabs' # <<>>
    BY <2>1, <2>2, TabSays
  <2>4. QED
    BY <1>2, <2>2, <2>3
<1>5. ~mixed' => OwnShelf'
  BY <1>2 DEF Own, OwnShelf
<1>6. ~mixed' => HasShelf'
  <2>1. \A u \in OpenTabs : u \in TabIds
    BY TabSays DEF OpenTabs, Range
  <2>2. ASSUME NEW k \in parked' PROVE \E u \in OpenTabs' : shelf'[u].id = k
    <3>1. PICK u \in OpenTabs \ {t} : shelf[u].id = k
      BY <1>1, <2>2
    <3>2. QED
      BY <1>2, <2>1, <3>1
  <2>3. QED
    BY <2>2 DEF HasShelf
<1>7. QED
  BY <1>3, <1>4, <1>5, <1>6 DEF Own

\* Taking one out leaves the others in.
LEMMA RemoveAtLeaves ==
    ASSUME NEW S, NEW s \in Seq(S), NEW i \in 1..Len(s), NEW j \in 1..Len(s), j # i
    PROVE  s[j] \in Range(RemoveAt(s, i))
<1> DEFINE l == SubSeq(s, 1, i - 1)
           r == SubSeq(s, i + 1, Len(s))
<1>1. Len(s) \in Nat /\ i \in Nat /\ j \in Nat /\ 1 <= i /\ i <= Len(s) /\ 1 <= j /\ j <= Len(s)
  OBVIOUS
<1>2. l \in Seq(S) /\ Len(l) = i - 1 /\ \A k \in 1..(i - 1) : l[k] = s[k]
  <2>1. \A k \in 1..(i - 1) : k \in DOMAIN s
    BY <1>1
  <2>2. QED
    BY <1>1, <2>1, SubSeqProperties
<1>3. r \in Seq(S) /\ Len(r) = Len(s) - i /\ \A k \in 1..(Len(s) - i) : r[k] = s[i + k]
  <2>1. \A k \in (i + 1)..Len(s) : k \in DOMAIN s
    BY <1>1
  <2>2. QED
    BY <1>1, <2>1, SubSeqProperties
<1> HIDE DEF l, r
<1>4. /\ l \o r \in Seq(S) /\ Len(l \o r) = Len(l) + Len(r)
      /\ \A k \in 1..(Len(l) + Len(r)) : (l \o r)[k] = IF k <= Len(l) THEN l[k] ELSE r[k - Len(l)]
  BY <1>2, <1>3, ConcatProperties
<1>5. \A k \in 1..(Len(s) - 1) : (l \o r)[k] \in Range(l \o r)
  <2>1. Len(l \o r) = Len(s) - 1
    BY <1>1, <1>2, <1>3, <1>4
  <2>2. DOMAIN (l \o r) = 1..Len(l \o r)
    BY <1>4
  <2>3. QED
    BY <2>1, <2>2 DEF Range
<1>6. \E k \in 1..(Len(s) - 1) : (l \o r)[k] = s[j]
  <2>1. CASE j < i
    <3>1. j \in 1..(Len(s) - 1) /\ j \in 1..(i - 1) /\ j \in 1..(Len(l) + Len(r)) /\ j <= Len(l)
      BY <1>1, <1>2, <1>3, <2>1
    <3>2. (l \o r)[j] = s[j]
      BY <1>2, <1>4, <3>1
    <3>3. QED
      BY <3>1, <3>2
  <2>2. CASE j > i
    <3>1. /\ j - 1 \in 1..(Len(s) - 1) /\ j - 1 \in 1..(Len(l) + Len(r)) /\ ~(j - 1 <= Len(l))
          /\ (j - 1) - Len(l) = j - i /\ j - i \in 1..(Len(s) - i) /\ i + (j - i) = j
      BY <1>1, <1>2, <1>3, <2>2
    <3>2. (l \o r)[j - 1] = r[j - i]
      BY <1>4, <3>1
    <3>3. r[j - i] = s[j]
      BY <1>3, <3>1
    <3>4. QED
      BY <3>1, <3>2, <3>3
  <2>3. j < i \/ j > i
    BY <1>1
  <2>4. QED
    BY <2>1, <2>2, <2>3
<1>7. RemoveAt(s, i) = l \o r
  BY DEF RemoveAt, l, r
<1>8. QED
  BY <1>5, <1>6, <1>7

LEMMA CloseTabOwn ==
    ASSUME TabsInv, ScrollAlone, Own, CloseTab
    PROVE  Own'
<1>1. /\ tabs # <<>> /\ Gone(Tab) /\ tabs' = RemoveAt(tabs, active)
      /\ mixed' = (mixed \/ Strays) /\ UNCHANGED <<scroll, scrollHelp>>
  BY DEF CloseTab
<1>2. Tab \in TabIds /\ tabs \in Seq(1..spawned) /\ active \in 1..Len(tabs) /\ Tab = tabs[active]
  BY <1>1, TabSays DEF TabsInv, Tab
<1>3. /\ mixed' \in BOOLEAN
      /\ ~mixed' => ~mixed /\ scroll = NoView /\ scrollHelp = NoView
  BY <1>1, Zenon DEF Own, Strays
<1>4. OpenTabs \ {Tab} \subseteq OpenTabs'
  <2>1. ASSUME NEW u \in OpenTabs \ {Tab} PROVE u \in OpenTabs'
    <3>1. PICK j \in 1..Len(tabs) : u = tabs[j]
      BY <1>2, <2>1 DEF OpenTabs, Range
    <3>2. j # active
      BY <1>2, <2>1, <3>1
    <3>3. tabs[j] \in Range(RemoveAt(tabs, active))
      BY <1>2, <3>2, RemoveAtLeaves
    <3>4. QED
      BY <1>1, <3>1, <3>3 DEF OpenTabs
  <2>2. QED
    BY <2>1
<1>5. QED
  BY <1>1, <1>2, <1>3, <1>4, GoneOwn

LEMMA RestartsOwn ==
    ASSUME TabsInv, ScrollAlone, Own, NEW i \in DOMAIN tabs, Restarts(i)
    PROVE  Own'
<1>1. /\ Gone(tabs[i]) /\ tabs' = [tabs EXCEPT ![i] = spawned'] /\ active' = active
      /\ mixed' = (mixed \/ (i = active /\ Strays)) /\ UNCHANGED <<scroll, scrollHelp>>
  BY DEF Restarts
<1>2. tabs[i] \in TabIds /\ tabs # <<>> /\ active \in DOMAIN tabs
  BY TabSays DEF TabsInv
<1>3. /\ mixed' \in BOOLEAN
      /\ ~mixed' => ~mixed /\ (scroll # NoView \/ scrollHelp # NoView => i # active)
  BY <1>1, Zenon DEF Own, Strays
<1>4. DOMAIN tabs' = DOMAIN tabs /\ \A j \in DOMAIN tabs : j # i => tabs'[j] = tabs[j]
  BY <1>1 DEF TabsInv
<1>5. OpenTabs \ {tabs[i]} \subseteq OpenTabs'
  BY <1>4 DEF OpenTabs, Range
<1>6. i # active => Tab' = Tab /\ tabs' # <<>>
  BY <1>1, <1>2, <1>4 DEF Tab, TabsInv
<1>7. ~mixed' => /\ ~mixed
                 /\ scroll # NoView \/ scrollHelp # NoView => Tab' = Tab /\ tabs' # <<>>
  BY <1>3, <1>6
<1>8. mixed' \in BOOLEAN /\ UNCHANGED <<scroll, scrollHelp>>
  BY <1>1, <1>3
<1>9. QED
  BY <1>1, <1>2, <1>5, <1>7, <1>8, GoneOwn

LEMMA OwnAtStart == Init => Own
BY NoViewSays, Bounds DEF Init, Own, OwnView, OwnShelf, HasShelf, Ids, NoView

LEMMA OwnStep == OwnInv /\ [Next]_vars => OwnInv'
<1> SUFFICES ASSUME OwnInv, [Next]_vars PROVE OwnInv'
  OBVIOUS
<1>1. IInv' /\ Counters /\ TabsInv /\ ScrollAlone /\ Own
  BY StepKeeps DEF OwnInv, IInv
<1>2. ASSUME UNCHANGED <<mixed, scroll, scrollHelp, shelf, parked, tabs, active>> PROVE Own'
  BY <1>1, <1>2, OwnFrame
<1>3. Own'
  <2>1. CASE GitViewLands \/ NoGitViewLands \/ DrainsOverlay
    BY <2>1, <1>2 DEF GitViewLands, NoGitViewLands, DrainsOverlay, bottom, tabsVars
  <2>2. CASE DrainsScroll
    BY <2>2, <1>1, DrainsScrollOwn
  <2>3. CASE Settles
    BY <2>3, <1>1, SettlesOwn
  <2>4. CASE \/ Woken \/ Focus \/ UNCHANGED vars
            \/ \E i \in Ids : WorkerSends(i) \/ WorkerEnds(i) \/ WorkerPanics(i)
    BY <2>4, <1>2 DEF Woken, Focus, vars, WorkerSends, WorkerEnds, WorkerPanics, bottom, tabsVars
  <2>5. CASE OpenGrep \/ AskGitView \/ PagerOpens \/ ReopenLast \/ Navigate
    BY <2>5, <1>2 DEF OpenGrep, AskGitView, PagerOpens, ReopenLast, Navigate, bottom, tabsVars
  <2>6. CASE ClosePager \/ CloseScroll
    BY <2>6, <1>1, BackUnderHelpOwn
  <2>7. CASE ShowHelp
    BY <2>7, <1>1, HelpOverScrollOwn
  <2>8. CASE OpenTranscript
    BY <2>8, <1>1, OpenTranscriptOwn
  <2>9. CASE AskTerminal
    BY <2>9, <1>2 DEF AskTerminal, tabsVars
  <2>10. ASSUME NEW i \in 1..MaxTabs, GoToTab(i) PROVE Own'
    BY <2>10, <1>1, GoToTabOwn
  <2>11. CASE GoToNone
    BY <2>11, <1>1, GoToNoneOwn
  <2>12. CASE OpenTab
    BY <2>12, <1>1, OpenTabOwn
  <2>13. CASE CloseTab
    BY <2>13, <1>1, CloseTabOwn
  <2>14. CASE RestartTab \/ \E i \in 1..MaxTabs : AgentRestarts(i)
    <3>1. PICK i \in DOMAIN tabs : Restarts(i)
      BY <2>14, <1>1 DEF RestartTab, AgentRestarts, TabsInv
    <3>2. QED
      BY <3>1, <1>1, RestartsOwn
  <2>15. QED
    BY <2>1, <2>2, <2>3, <2>4, <2>5, <2>6, <2>7, <2>8, <2>9, <2>10, <2>11, <2>12, <2>13,
       <2>14 DEF Next, LoopPass
<1>4. QED
  BY <1>1, <1>3 DEF OwnInv

\* What OwnInv adds: the active tab's shelf is empty while a scrollback is in
\* view, so that the stash of a change of tab never drops one
\* (stash_scrollback_pager).
LEMMA OwnAlways == Spec => []OwnInv
<1>1. Init => OwnInv
  BY AtStart, OwnAtStart DEF OwnInv
<1>2. QED
  BY <1>1, OwnStep, PTL DEF Spec

\* A scrollback is over the tab it was opened on, in view or on a shelf, as
\* long as the tabs only change with none in view: the stash puts each on the
\* shelf of the tab that is left and the restore takes each from that of the
\* tab come to (stash_scrollback_pager, restore_scrollback_pager).
THEOREM ScrollbacksStay == Spec => []OwnScrollback
<1>1. OwnInv => OwnScrollback
  BY DEF OwnInv, Own, OwnView, OwnShelf, OwnScrollback
<1>2. QED
  BY <1>1, OwnAlways, PTL

\* A parked stream has its pager on the shelf of an open tab, whatever tabs
\* are closed or restarted out of view (prune_orphaned_pager_streams).
THEOREM ParkedHaveOwners == Spec => []ParkedOwned
<1>1. OwnInv => ParkedOwned
  BY DEF OwnInv, Own, HasShelf, ParkedOwned
<1>2. QED
  BY <1>1, OwnAlways, PTL

-----------------------------------------------------------------------------
(***************************************************************************)
(* SnapshotIsTheAskers: the place a snapshot was asked from is the asker's *)
(* until a tab is closed or replaced, as new tabs only come at the end.    *)
(***************************************************************************)
Due ==
    /\ settle \in [at : Nat, tab : 0..MaxTabs, same : BOOLEAN]
    /\ settle.same => settle.at \in DOMAIN tabs /\ settle.tab = tabs[settle.at]

DueInv == IInv /\ Due

LEMMA DueFrame == Due /\ UNCHANGED <<settle, tabs>> => Due'
BY DEF Due

\* With the asker or its place gone, nothing is said of it.
LEMMA GoneDue ==
    ASSUME Due, NEW t \in TabIds, Gone(t)
    PROVE  Due'
<1>1. settle' = [settle EXCEPT !.same = FALSE]
  BY DEF Gone
<1>2. settle' \in [at : Nat, tab : 0..MaxTabs, same : BOOLEAN] /\ ~settle'.same
  BY <1>1 DEF Due
<1>3. QED
  BY <1>2 DEF Due

LEMMA NoSettleDue == settle' = NoSettle => Due'
BY Bounds DEF Due, NoSettle

LEMMA AskTerminalDue ==
    ASSUME TabsInv, AskTerminal
    PROVE  Due'
<1>1. /\ settle' = [at |-> active, tab |-> Tab, same |-> TRUE]
      /\ tabs' = tabs /\ tabs # <<>>
  BY DEF AskTerminal, tabsVars
<1>2. active \in DOMAIN tabs /\ active \in Nat /\ Tab = tabs[active] /\ Tab \in 0..MaxTabs
  BY <1>1, TabSays DEF TabsInv, Tab
<1>3. QED
  BY <1>1, <1>2 DEF Due

LEMMA OpenTabDue ==
    ASSUME TabsInv, Due, OpenTab
    PROVE  Due'
<1>1. tabs' = Append(tabs, spawned + 1) /\ settle' = settle
  BY DEF OpenTab, bottom
<1>2. \A k \in DOMAIN tabs : k \in DOMAIN tabs' /\ tabs'[k] = tabs[k]
  BY <1>1 DEF TabsInv
<1>3. QED
  BY <1>1, <1>2 DEF Due

LEMMA DueStep == DueInv /\ [Next]_vars => DueInv'
<1> SUFFICES ASSUME DueInv, [Next]_vars PROVE DueInv'
  OBVIOUS
<1>1. IInv' /\ TabsInv /\ Due
  BY StepKeeps DEF DueInv, IInv
<1>2. ASSUME UNCHANGED <<settle, tabs>> PROVE Due'
  BY <1>1, <1>2, DueFrame
<1>3. Due'
  <2>1. CASE GitViewLands \/ NoGitViewLands \/ DrainsOverlay \/ DrainsScroll
    BY <2>1, <1>2 DEF GitViewLands, NoGitViewLands, DrainsOverlay, DrainsScroll, bottom, tabsVars
  <2>2. CASE Settles
    BY <2>2, <1>2, NoSettleDue DEF Settles
  <2>3. CASE \/ Woken \/ Focus \/ UNCHANGED vars
            \/ \E i \in Ids : WorkerSends(i) \/ WorkerEnds(i) \/ WorkerPanics(i)
    BY <2>3, <1>2 DEF Woken, Focus, vars, WorkerSends, WorkerEnds, WorkerPanics, bottom, tabsVars
  <2>4. CASE OpenGrep \/ AskGitView \/ PagerOpens \/ ReopenLast \/ Navigate
    BY <2>4, <1>2 DEF OpenGrep, AskGitView, PagerOpens, ReopenLast, Navigate, bottom, tabsVars
  <2>5. CASE ClosePager \/ CloseScroll \/ ShowHelp \/ OpenTranscript \/ GoToNone
    BY <2>5, <1>2 DEF ClosePager, CloseScroll, ShowHelp, OpenTranscript, GoToNone, tabsVars
  <2>6. CASE AskTerminal
    BY <2>6, <1>1, AskTerminalDue
  <2>7. ASSUME NEW i \in 1..MaxTabs, GoToTab(i) PROVE Due'
    BY <2>7, <1>2 DEF GoToTab
  <2>8. CASE OpenTab
    BY <2>8, <1>1, OpenTabDue
  <2>9. CASE CloseTab
    BY <2>9, <1>1, TabSays, GoneDue DEF CloseTab
  <2>10. CASE RestartTab \/ \E i \in 1..MaxTabs : AgentRestarts(i)
    <3>1. PICK i \in DOMAIN tabs : Restarts(i)
      BY <2>10, <1>1 DEF RestartTab, AgentRestarts, TabsInv
    <3>2. QED
      BY <3>1, <1>1, TabSays, GoneDue DEF Restarts
  <2>11. QED
    BY <2>1, <2>2, <2>3, <2>4, <2>5, <2>6, <2>7, <2>8, <2>9, <2>10 DEF Next, LoopPass
<1>4. QED
  BY <1>1, <1>3 DEF DueInv

\* While a snapshot may be taken, nothing else puts a scrollback in view.
LEMMA ShownBySettles ==
    ASSUME [Next]_vars, turn = "settle", scroll' # scroll
    PROVE  AskerIsActive
<1>1. ~Key
  BY DEF Key
<1>2. Settles
  <2>1. ~(GitViewLands \/ NoGitViewLands \/ DrainsOverlay \/ DrainsScroll \/ Woken)
    BY DEF GitViewLands, NoGitViewLands, DrainsOverlay, DrainsScroll, Woken
  <2>2. ~UNCHANGED vars /\ \A i \in Ids : ~(WorkerSends(i) \/ WorkerEnds(i) \/ WorkerPanics(i))
    BY DEF vars, WorkerSends, WorkerEnds, WorkerPanics, bottom
  <2>3. ~(OpenGrep \/ AskGitView \/ PagerOpens \/ ReopenLast \/ ClosePager \/ ShowHelp
          \/ Navigate \/ Focus \/ OpenTranscript \/ AskTerminal \/ CloseScroll \/ GoToNone
          \/ OpenTab \/ CloseTab \/ RestartTab)
    BY <1>1 DEF OpenGrep, AskGitView, PagerOpens, ReopenLast, ClosePager, ShowHelp, Navigate,
                Focus, OpenTranscript, AskTerminal, CloseScroll, GoToNone, OpenTab, CloseTab,
                RestartTab
  <2>4. \A i \in 1..MaxTabs : ~GoToTab(i) /\ ~AgentRestarts(i)
    BY <1>1 DEF GoToTab, AgentRestarts
  <2>5. QED
    BY <2>1, <2>2, <2>3, <2>4 DEF Next, LoopPass
<1>3. QED
  BY <1>2 DEF Settles

\* A snapshot of a terminal is shown on the tab that asked for it, through any
\* changes of tab and new tabs (decide_scroll_settle).
THEOREM SnapshotsReachAskers == Spec => SnapshotIsTheAskers
<1>1. Init => DueInv
  <2>1. Init => Due
    BY Bounds DEF Init, Due, NoSettle
  <2>2. QED
    BY <2>1, AtStart DEF DueInv
<1>2. Spec => []DueInv
  BY <1>1, DueStep, PTL DEF Spec
<1>3. DueInv /\ [Next]_vars
        => [turn = "settle" /\ settle.same /\ scroll' # scroll => settle.tab = Tab]_vars
  BY ShownBySettles DEF DueInv, Due, AskerIsActive, Tab
<1>4. QED
  BY <1>2, <1>3, PTL DEF Spec, SnapshotIsTheAskers

=============================================================================
