---------------------------- MODULE SessionsProofs ----------------------------
(***************************************************************************)
(* The safety properties of Sessions for any number of spycs, tabs and     *)
(* files: NeverSplit, SavedWhenClean and SavedStay.                        *)
(*                                                                         *)
(* What carries the first two is that the file of a spyc with nothing to   *)
(* save says what that spyc runs (FileIsBase), which needs that no other   *)
(* spyc writes it (OneWriter), and that a fresh conversation is new        *)
(* (Numbered).  SavedStay follows the file a saved tab is safe in (Held).  *)
(***************************************************************************)
EXTENDS Sessions, FiniteSetTheorems, SequenceTheorems, TLAPS

Rows == [name : Procs, as : Manifests]

TypeInv ==
    /\ phase \in [Procs -> {"unborn", "up", "gone"}]
    /\ picker \in [Procs -> {None} \cup Rows]
    /\ sid \in [Procs -> Procs]
    /\ live \in [Procs -> SUBSET Tabs]
    /\ deferred \in [Procs -> SUBSET Tabs]
    /\ base \in [Procs -> {None, Respawned} \cup Prints]
    /\ file \in [Procs -> {None} \cup Manifests]
    /\ begun \in Nat

\* Conversations are numbered as they begin.
Numbered ==
    \A p \in Procs : /\ live[p] \cup deferred[p] \cup Contents(file[p]) \subseteq 1..begun
                     /\ picker[p] # None => Contents(picker[p].as) \subseteq 1..begun

\* A file is named after a spyc that has started.
Born ==
    /\ \A f \in Procs : file[f] # None => phase[f] # "unborn"
    /\ \A p \in Procs : picker[p] # None => phase[picker[p].name] # "unborn"
    /\ \A p \in Procs : sid[p] = p \/ phase[sid[p]] # "unborn"
    /\ \A p \in Procs : phase[p] # "up" => sid[p] = p /\ base[p] = None

\* Two running spycs write one file only after a clash.
OneWriter ==
    \A p \in Procs : \A q \in Procs \ {p} :
        Up(p) /\ Up(q) /\ sid[p] = sid[q] => sid[p] \in clashed

\* Before its restore a spyc keeps no records.
PickFirst ==
    \A p \in Procs : picker[p] # None \/ phase[p] = "unborn"
        => deferred[p] = {} /\ (base[p] \in Prints => base[p].deferred = {})

\* The baseline is what the file says.
Faithful(p) ==
    /\ Up(p) /\ base[p] \in Prints /\ base[p].deferred = deferred[p]
    /\ p \notin failed /\ sid[p] \notin clashed /\ file[sid[p]] # None
FileIsBase ==
    \A p \in Procs : Faithful(p) =>
        file[sid[p]] = [by |-> p, open |-> base[p].live, kept |-> base[p].deferred]

IInv == TypeInv /\ Numbered /\ Born /\ OneWriter /\ PickFirst /\ FileIsBase

-----------------------------------------------------------------------------
(* A save. *)

\* A save that succeeds leaves the manifest in the spyc's own file, and every
\* other file as it was or gone.
LEMMA WriteSays ==
    ASSUME TypeInv, NEW p \in Procs, Write(p)
    PROVE  /\ file' \in [Procs -> {None} \cup Manifests]
           /\ file'[sid[p]] = [by |-> p, open |-> live[p], kept |-> deferred[p]]
           /\ \A g \in Procs \ {sid[p]} : file'[g] = None \/ file'[g] = file[g]
<1> DEFINE order == Latest(sid[p])
           gone == PruneVictims(order, sid[p])
           mf == BuildManifest(p)
<1>1. sid[p] \in Procs /\ mf \in Manifests
  BY DEF TypeInv, BuildManifest, Manifests
<1>2. sid[p] \notin gone
  BY DEF PruneVictims
<1>3. file' = [g \in Procs |-> IF g \in gone THEN None
                               ELSE IF g = sid[p] THEN mf ELSE file[g]]
  BY DEF Write
<1>4. mf = [by |-> p, open |-> live[p], kept |-> deferred[p]]
  BY DEF BuildManifest
<1>5. file \in [Procs -> {None} \cup Manifests]
  BY DEF TypeInv
<1> HIDE DEF order, gone, mf
<1>6. QED
  BY <1>1, <1>2, <1>3, <1>4, <1>5

\* The same, for a save that may have failed.
Saves(p) ==
    /\ file' \in [Procs -> {None} \cup Manifests]
    /\ \A g \in Procs :
           \/ file'[g] = None
           \/ file'[g] = file[g]
           \/ /\ g = sid[p]
              /\ file'[g] = [by |-> p, open |-> live[p], kept |-> deferred[p]]

LEMMA SaveSays ==
    ASSUME TypeInv, NEW p \in Procs, Write(p) \/ UNCHANGED file
    PROVE  Saves(p)
<1>1. CASE Write(p)
  <2>1. \A g \in Procs \ {sid[p]} : file'[g] = None \/ file'[g] = file[g]
    BY <1>1, WriteSays
  <2>2. /\ file' \in [Procs -> {None} \cup Manifests]
        /\ file'[sid[p]] = [by |-> p, open |-> live[p], kept |-> deferred[p]]
    BY <1>1, WriteSays
  <2>3. QED
    BY <2>1, <2>2 DEF Saves
<1>2. CASE UNCHANGED file
  <2>1. file \in [Procs -> {None} \cup Manifests]
    BY DEF TypeInv
  <2>2. QED
    BY <1>2, <2>1 DEF Saves
<1>3. QED
  BY <1>1, <1>2

\* What a file holds is numbered, whoever saved it.
LEMMA SavedNumbered ==
    ASSUME TypeInv, Numbered, NEW p \in Procs, Saves(p), NEW f \in Procs
    PROVE  Contents(file'[f]) \subseteq 1..begun
<1>1. CASE file'[f] = None
  BY <1>1 DEF Contents
<1>2. CASE file'[f] = file[f]
  BY <1>2 DEF Numbered
<1>3. CASE file'[f] = [by |-> p, open |-> live[p], kept |-> deferred[p]]
  <2>1. Contents(file'[f]) \subseteq live[p] \cup deferred[p]
    <3>1. \/ Contents(file'[f]) = {}
          \/ Contents(file'[f]) = file'[f].open \cup file'[f].kept
      BY DEF Contents
    <3>2. file'[f].open = live[p] /\ file'[f].kept = deferred[p]
      BY <1>3
    <3>3. QED
      BY <3>1, <3>2
  <2>2. QED
    BY <2>1 DEF Numbered
<1>4. QED
  BY <1>1, <1>2, <1>3 DEF Saves

-----------------------------------------------------------------------------
(* The invariant is inductive. *)

LEMMA InitInv == Init => IInv
<1> SUFFICES ASSUME Init PROVE IInv
  OBVIOUS
<1>1. TypeInv
  BY DEF Init, TypeInv
<1>2. Numbered
  BY DEF Init, Numbered, Contents
<1>3. Born
  BY DEF Init, Born
<1>4. OneWriter
  BY DEF Init, OneWriter, Up
<1>5. PickFirst
  BY SessionAssumption DEF Init, PickFirst
<1>6. FileIsBase
  BY DEF Init, FileIsBase, Faithful, Up
<1>7. QED
  BY <1>1, <1>2, <1>3, <1>4, <1>5, <1>6 DEF IInv

LEMMA StartInv ==
    ASSUME IInv, NEW p \in Procs, Start(p)
    PROVE  IInv'
<1> USE DEF IInv
<1>1. /\ phase[p] = "unborn" /\ phase' = [phase EXCEPT ![p] = "up"]
      /\ UNCHANGED <<sid, live, deferred, base, file, begun, failed, clashed>>
  BY DEF Start, fileVars
<1>2. /\ \A q \in Procs \ {p} : picker'[q] = picker[q]
      /\ picker'[p] # None /\ picker'[p] # picker[p] =>
            /\ picker'[p].name \in Procs /\ file[picker'[p].name] # None
            /\ picker'[p].as = file[picker'[p].name]
      /\ picker' \in [Procs -> {None} \cup Rows]
  <2>1. CASE UNCHANGED picker
    BY <2>1 DEF TypeInv
  <2>2. ASSUME NEW f \in Procs, Contents(file[f]) # {},
               picker' = [picker EXCEPT ![p] = [name |-> f, as |-> file[f]]]
        PROVE  <1>2!1 /\ <1>2!2 /\ <1>2!3
    <3>1. file[f] # None /\ file[f] \in Manifests
      BY <2>2 DEF Contents, TypeInv
    <3>2. [name |-> f, as |-> file[f]] \in Rows
      BY <3>1 DEF Rows
    <3>3. QED
      BY <2>2, <3>1, <3>2 DEF TypeInv
  <2>3. QED
    BY <2>1, <2>2 DEF Start
<1>3. TypeInv'
  BY <1>1, <1>2 DEF TypeInv
<1>4. Numbered'
  <2>1. ASSUME NEW q \in Procs, picker'[q] # None
        PROVE  Contents(picker'[q].as) \subseteq 1..begun
    BY <2>1, <1>2 DEF Numbered
  <2>2. QED
    BY <2>1, <1>1 DEF Numbered
<1>5. Born'
  <2>1. ASSUME NEW q \in Procs, picker'[q] # None
        PROVE  phase'[picker'[q].name] # "unborn"
    BY <2>1, <1>1, <1>2 DEF Born, TypeInv
  <2>2. \A f \in Procs : file'[f] # None => phase'[f] # "unborn"
    BY <1>1 DEF Born, TypeInv
  <2>3. \A q \in Procs : sid'[q] = q \/ phase'[sid'[q]] # "unborn"
    BY <1>1 DEF Born, TypeInv
  <2>4. \A q \in Procs : phase'[q] # "up" => sid'[q] = q /\ base'[q] = None
    BY <1>1 DEF Born, TypeInv
  <2>5. QED
    BY <2>1, <2>2, <2>3, <2>4 DEF Born
<1>6. OneWriter'
  BY <1>1 DEF OneWriter, Born, TypeInv, Up
<1>7. PickFirst'
  BY <1>1, <1>2 DEF PickFirst, TypeInv
<1>8. FileIsBase'
  <2>1. base[p] = None
    BY <1>1 DEF Born
  <2>2. ASSUME NEW q \in Procs, Faithful(q)'
        PROVE  Faithful(q)
    BY <2>1, <2>2, <1>1, SessionAssumption DEF Faithful, Up, TypeInv
  <2>3. QED
    BY <2>2, <1>1 DEF FileIsBase
<1>9. QED
  BY <1>3, <1>4, <1>5, <1>6, <1>7, <1>8

LEMMA OpenTabInv ==
    ASSUME IInv, NEW p \in Procs, OpenTab(p)
    PROVE  IInv'
<1> USE DEF IInv
<1>1. /\ begun' = begun + 1 /\ begun + 1 \in Tabs
      /\ live' = [live EXCEPT ![p] = @ \cup {begun + 1}]
      /\ UNCHANGED <<phase, picker, sid, deferred, base, file, failed, clashed>>
  BY SessionAssumption DEF OpenTab, fileVars, Tabs, TypeInv
<1>2. TypeInv'
  BY <1>1 DEF TypeInv
<1>3. Numbered'
  <2>1. 1..begun \subseteq 1..begun' /\ begun + 1 \in 1..begun'
    BY <1>1 DEF TypeInv
  <2>2. QED
    BY <2>1, <1>1 DEF Numbered, TypeInv
<1>4. Born' /\ OneWriter' /\ PickFirst' /\ FileIsBase'
  BY <1>1 DEF Born, OneWriter, PickFirst, FileIsBase, Faithful, Up
<1>5. QED
  BY <1>2, <1>3, <1>4

LEMMA CloseTabInv ==
    ASSUME IInv, NEW p \in Procs, CloseTab(p)
    PROVE  IInv'
<1> USE DEF IInv
<1>1. /\ \E t \in live[p] : live' = [live EXCEPT ![p] = @ \ {t}]
      /\ UNCHANGED <<phase, picker, sid, deferred, base, file, begun, failed, clashed>>
  BY DEF CloseTab, fileVars
<1>2. TypeInv'
  BY <1>1 DEF TypeInv
<1>3. Numbered'
  BY <1>1 DEF Numbered, TypeInv
<1>4. Born' /\ OneWriter' /\ PickFirst' /\ FileIsBase'
  BY <1>1 DEF Born, OneWriter, PickFirst, FileIsBase, Faithful, Up
<1>5. QED
  BY <1>2, <1>3, <1>4

LEMMA AutosaveInv ==
    ASSUME IInv, NEW p \in Procs, Autosave(p)
    PROVE  IInv'
<1> USE DEF IInv
<1> DEFINE print == [live |-> live[p], deferred |-> deferred[p]]
<1>1. /\ Up(p) /\ base' = [base EXCEPT ![p] = print]
      /\ UNCHANGED <<phase, picker, sid, live, deferred, begun, clashed>>
  BY DEF Autosave, Fingerprint
<1>2. Saves(p)
  BY SaveSays DEF Autosave, WriteFails, fileVars
<1>3. \/ Write(p) /\ failed' = failed \ {p}
      \/ file' = file /\ failed' = failed \cup {p}
  BY DEF Autosave, WriteFails, fileVars
<1>4. print \in Prints
  BY DEF TypeInv, Prints
<1>5. TypeInv'
  BY <1>1, <1>2, <1>4 DEF TypeInv, Saves
<1>6. Numbered'
  <2>1. \A f \in Procs : Contents(file'[f]) \subseteq 1..begun
    BY <1>2, SavedNumbered
  <2>2. QED
    BY <2>1, <1>1 DEF Numbered
<1>7. Born'
  <2>1. ASSUME NEW f \in Procs, file'[f] # None
        PROVE  phase[f] # "unborn"
    <3>1. file[f] # None \/ f = sid[p]
      BY <1>2, <2>1 DEF Saves
    <3>2. QED
      BY <3>1, <1>1 DEF Born, Up
  <2>2. QED
    BY <2>1, <1>1 DEF Born, TypeInv, Up
<1>8. OneWriter' /\ PickFirst'
  <2>1. picker[p] # None => deferred[p] = {}
    BY DEF PickFirst
  <2>2. print.deferred = deferred[p]
    OBVIOUS
  <2>3. \A q \in Procs : base'[q] = IF q = p THEN print ELSE base[q]
    BY <1>1 DEF TypeInv
  <2>4. phase[p] # "unborn"
    BY <1>1 DEF Up
  <2> HIDE DEF print
  <2>5. PickFirst'
    BY <2>1, <2>2, <2>3, <2>4, <1>1 DEF PickFirst
  <2>6. OneWriter'
    BY <1>1 DEF OneWriter, Up
  <2>7. QED
    BY <2>5, <2>6
<1>9. FileIsBase'
  <2> SUFFICES ASSUME NEW q \in Procs, Faithful(q)'
               PROVE  file'[sid[q]] = [by |-> q, open |-> base'[q].live,
                                       kept |-> base'[q].deferred]
    BY <1>1 DEF FileIsBase
  <2>1. /\ Up(q) /\ base'[q] \in Prints /\ base'[q].deferred = deferred[q]
        /\ q \notin failed' /\ sid[q] \notin clashed /\ file'[sid[q]] # None
    BY <1>1 DEF Faithful, Up
  <2>2. CASE q = p
    <3>1. Write(p)
      BY <2>1, <2>2, <1>3
    <3>2. file'[sid[p]] = [by |-> p, open |-> live[p], kept |-> deferred[p]]
      BY <3>1, WriteSays
    <3>3. base'[p].live = live[p] /\ base'[p].deferred = deferred[p]
      BY <1>1 DEF TypeInv
    <3>4. QED
      BY <2>2, <3>2, <3>3
  <2>3. CASE q # p
    <3>1. sid[q] # sid[p]
      BY <2>1, <2>3, <1>1 DEF OneWriter
    <3>2. file'[sid[q]] = file[sid[q]]
      BY <3>1, <2>1, <1>2 DEF Saves, TypeInv
    <3>3. base'[q] = base[q] /\ q \notin failed
      BY <2>1, <2>3, <1>1, <1>3 DEF TypeInv
    <3>4. Faithful(q)
      BY <2>1, <3>2, <3>3 DEF Faithful
    <3>5. QED
      BY <3>2, <3>3, <3>4 DEF FileIsBase
  <2>4. QED
    BY <2>2, <2>3
<1>10. QED
  BY <1>5, <1>6, <1>7, <1>8, <1>9

LEMMA GoneInv ==
    ASSUME IInv, NEW p \in Procs, Up(p), Gone(p), Write(p) \/ UNCHANGED file
    PROVE  IInv'
<1> USE DEF IInv
<1>1. /\ phase' = [phase EXCEPT ![p] = "gone"] /\ picker' = [picker EXCEPT ![p] = None]
      /\ live' = [live EXCEPT ![p] = {}] /\ deferred' = [deferred EXCEPT ![p] = {}]
      /\ base' = [base EXCEPT ![p] = None] /\ sid' = [sid EXCEPT ![p] = p]
      /\ failed' = failed \ {p} /\ UNCHANGED <<begun, clashed>>
  BY DEF Gone
<1>2. Saves(p)
  BY SaveSays
<1>3. TypeInv'
  BY <1>1, <1>2 DEF TypeInv, Saves
<1>4. Numbered'
  <2>1. \A f \in Procs : Contents(file'[f]) \subseteq 1..begun
    BY <1>2, SavedNumbered
  <2>2. QED
    BY <2>1, <1>1 DEF Numbered, TypeInv
<1>5. Born'
  <2>1. ASSUME NEW f \in Procs, file'[f] # None
        PROVE  phase'[f] # "unborn"
    <3>1. file[f] # None \/ f = sid[p]
      BY <1>2, <2>1 DEF Saves
    <3>2. phase[f] # "unborn"
      BY <3>1 DEF Born, Up
    <3>3. QED
      BY <3>2, <1>1 DEF TypeInv
  <2>2. \A q \in Procs : phase[q] # "unborn" => phase'[q] # "unborn"
    BY <1>1 DEF TypeInv
  <2>3. \A q \in Procs : picker'[q] # None => phase'[picker'[q].name] # "unborn"
    <3>1. ASSUME NEW q \in Procs, picker'[q] # None
          PROVE  phase'[picker'[q].name] # "unborn"
      <4>1. q # p /\ picker'[q] = picker[q]
        BY <3>1, <1>1 DEF TypeInv
      <4>2. picker[q].name \in Procs /\ phase[picker[q].name] # "unborn"
        BY <3>1, <4>1 DEF Born, TypeInv, Rows
      <4>3. QED
        BY <4>1, <4>2, <2>2
    <3>2. QED
      BY <3>1
  <2>4. \A q \in Procs : sid'[q] = q \/ phase'[sid'[q]] # "unborn"
    <3>1. \A q \in Procs : sid[q] \in Procs
      BY DEF TypeInv
    <3>2. \A q \in Procs : sid'[q] = IF q = p THEN p ELSE sid[q]
      BY <1>1 DEF TypeInv
    <3>3. QED
      BY <2>2, <3>1, <3>2 DEF Born
  <2>5. \A q \in Procs : phase'[q] # "up" => sid'[q] = q /\ base'[q] = None
    BY <1>1 DEF Born, TypeInv
  <2>6. QED
    BY <2>1, <2>3, <2>4, <2>5 DEF Born
<1>6. OneWriter'
  BY <1>1 DEF OneWriter, Up, TypeInv
<1>7. PickFirst'
  BY <1>1 DEF PickFirst, TypeInv
<1>8. FileIsBase'
  <2> SUFFICES ASSUME NEW q \in Procs, Faithful(q)'
               PROVE  file'[sid'[q]] = [by |-> q, open |-> base'[q].live,
                                        kept |-> base'[q].deferred]
    BY DEF FileIsBase
  <2>1. phase'[q] = "up"
    BY DEF Faithful, Up
  <2>2. q # p /\ phase[q] = "up"
    BY <2>1, <1>1 DEF TypeInv
  <2>3. sid'[q] = sid[q] /\ base'[q] = base[q] /\ deferred'[q] = deferred[q] /\ clashed' = clashed
    BY <2>2, <1>1 DEF TypeInv
  <2>4. /\ base[q] \in Prints /\ base[q].deferred = deferred[q]
        /\ q \notin failed /\ sid[q] \notin clashed /\ file'[sid[q]] # None
    BY <2>2, <2>3, <1>1 DEF Faithful
  <2>5. sid[q] # sid[p]
    BY <2>2, <2>4 DEF OneWriter, Up
  <2>6. file'[sid[q]] = file[sid[q]]
    BY <2>4, <2>5, <1>2 DEF Saves, TypeInv
  <2>7. Faithful(q)
    BY <2>2, <2>4, <2>6 DEF Faithful, Up
  <2>8. QED
    BY <2>3, <2>6, <2>7 DEF FileIsBase
<1>9. QED
  BY <1>3, <1>4, <1>5, <1>6, <1>7, <1>8

-----------------------------------------------------------------------------
(* A restore. *)

\* What a restore by p of the row it picked comes to: m is the manifest as the
\* picker read it and kept the records it leaves unopened.
Restores(p, kept) ==
    LET m == picker[p].as
        f == picker[p].name
    IN  /\ Up(p) /\ picker[p] \in Rows
        /\ begun' \in Nat /\ begun <= begun'
        /\ live'[p] \subseteq live[p] \cup Contents(m) \cup (begun + 1)..begun'
        /\ (live'[p] \ live[p]) \cap 1..begun \cap HeldByRunning(p) = {}
        /\ live' \in [Procs -> SUBSET Tabs]
        /\ \A q \in Procs \ {p} : live'[q] = live[q]
        /\ kept \subseteq Tabs /\ kept \subseteq Contents(m) \cup (begun + 1)..begun'
        /\ deferred' = [deferred EXCEPT ![p] = kept]
        /\ base' = base \/ base' = [base EXCEPT ![p] = Respawned]
        /\ base' = base => kept # {} \/ base[p] \notin Prints
        /\ \/ sid' = sid /\ clashed' = clashed
           \/ /\ sid' = [sid EXCEPT ![p] = f] /\ clashed \subseteq clashed'
              /\ \A q \in Procs \ {p} : Up(q) /\ sid[q] = f => f \in clashed'
              /\ ~Running(m, p) /\ (file[f] = m \/ f \in clashed')
              /\ Contents(m) \subseteq live'[p] \cup kept \cup HeldByRunning(p)
        /\ excused \subseteq excused' /\ live[p] \subseteq live'[p] \cup excused'
        /\ picker' = [picker EXCEPT ![p] = None]
        /\ UNCHANGED <<phase, fileVars, failed>>

LEMMA RestoreSays ==
    ASSUME IInv, NEW p \in Procs, RestoreSession(p)
    PROVE  \E kept : Restores(p, kept)
<1> DEFINE m == picker[p].as
           f == picker[p].name
<1>1. /\ picker[p] \in Rows /\ m \in Manifests /\ f \in Procs
      /\ Contents(m) \subseteq Tabs /\ Contents(m) \subseteq 1..begun
  BY SessionAssumption DEF RestoreSession, IInv, TypeInv, Numbered, Rows, Contents, Manifests
<1>2. PICK shut \in (SUBSET Contents(m)) \ {Contents(m)} :
           \E refused \in SUBSET (Contents(m) \ shut) :
           \E unspawned \in SUBSET (Contents(m) \ (shut \cup refused)) :
           \E stay \in SUBSET live[p] : Reopen(p, m, shut, refused, unspawned, stay)
  BY DEF RestoreSession
<1>3. PICK refused \in SUBSET (Contents(m) \ shut) :
           \E unspawned \in SUBSET (Contents(m) \ (shut \cup refused)) :
           \E stay \in SUBSET live[p] : Reopen(p, m, shut, refused, unspawned, stay)
  BY <1>2
<1>4. PICK unspawned \in SUBSET (Contents(m) \ (shut \cup refused)), stay \in SUBSET live[p] :
           Reopen(p, m, shut, refused, unspawned, stay)
  BY <1>3
<1> DEFINE sp == Contents(m) \ (shut \cup refused)
           fr == Fresh(m, p, sp)
           n == Cardinality(fr)
           k == Cardinality(fr \cap unspawned)
           mid == begun + k
           kept == refused \cup (unspawned \ fr) \cup (begun + 1)..mid
<1>5. /\ begun' = begun + n /\ begun' <= MaxTabs
      /\ live' = [live EXCEPT ![p] = stay \cup (sp \ (fr \cup unspawned)) \cup (mid + 1)..begun']
      /\ deferred' = [deferred EXCEPT ![p] = kept]
      /\ base' = [base EXCEPT ![p] = IF sp # unspawned /\ @ # None THEN Respawned ELSE @]
      /\ sid' = [sid EXCEPT ![p] = IF Adopts(m, p, shut) THEN f ELSE @]
      /\ clashed' = IF Adopts(m, p, shut)
                       /\ (file[f] # m \/ \E q \in Procs \ {p} : Up(q) /\ sid[q] = f)
                    THEN clashed \cup {f} ELSE clashed
      /\ excused' = excused \cup (live[p] \ stay)
  BY <1>4, Zenon DEF Reopen
<1>6. /\ refused \subseteq Contents(m) /\ unspawned \subseteq sp /\ stay \subseteq live[p]
      /\ sp \subseteq Contents(m) /\ sp \cup refused # {}
      /\ fr \subseteq sp /\ (sp \ fr) \cap HeldByRunning(p) = {}
      /\ ~Running(m, p) => fr \subseteq HeldByRunning(p)
  BY DEF Fresh
<1>7. /\ n \in Nat /\ k \in Nat /\ k <= n /\ begun \in Nat
      /\ fr \cap unspawned # {} => k > 0
  <2>1. IsFiniteSet(1..begun) /\ begun \in Nat
    BY FS_Interval DEF IInv, TypeInv
  <2>2. IsFiniteSet(fr)
    BY <1>1, <1>6, <2>1, FS_Subset
  <2>3. IsFiniteSet(fr \cap unspawned) /\ k <= n
    BY <2>2, FS_Subset
  <2>4. fr \cap unspawned # {} => k # 0
    BY <2>3, FS_EmptySet
  <2>5. n \in Nat /\ k \in Nat
    BY <2>2, <2>3, FS_CardinalityType
  <2> HIDE DEF fr, n, k
  <2>6. \A i \in Nat : i # 0 => i > 0
    OBVIOUS
  <2>7. QED
    BY <2>1, <2>3, <2>4, <2>5, <2>6, Zenon
<1>8. sp = unspawned => kept # {}
  <2>1. CASE unspawned \cap fr # {}
    BY <2>1, <1>7
  <2>2. CASE unspawned \cap fr = {}
    BY <2>2, <1>6
  <2>3. QED
    BY <2>1, <2>2
<1>9. /\ Up(p) /\ picker' = [picker EXCEPT ![p] = None] /\ UNCHANGED <<phase, fileVars, failed>>
  BY DEF RestoreSession
<1>10. Adopts(m, p, shut) =>
         /\ ~Running(m, p)
         /\ Contents(m) \subseteq (sp \ (fr \cup unspawned)) \cup kept \cup HeldByRunning(p)
  BY <1>6 DEF Adopts
<1>11. mid \in Nat /\ begun <= mid /\ mid <= begun + n
  BY <1>7
<1>12. /\ begun' \in Nat /\ begun <= begun' /\ mid <= begun' /\ begun' <= MaxTabs
       /\ (begun + 1)..mid \subseteq (begun + 1)..begun'
       /\ (mid + 1)..begun' \subseteq (begun + 1)..begun'
       /\ (begun + 1)..begun' \subseteq Tabs /\ ((begun + 1)..begun') \cap 1..begun = {}
  <2> HIDE DEF n, mid
  <2>1. begun' \in Nat /\ begun <= begun' /\ mid <= begun' /\ begun' <= MaxTabs
    BY <1>5, <1>7, <1>11
  <2>2. MaxTabs \in Nat
    BY SessionAssumption
  <2>3. QED
    BY <2>1, <2>2, <1>7, <1>11 DEF Tabs
<1>13. kept \subseteq Tabs /\ kept \subseteq Contents(m) \cup (begun + 1)..begun'
  <2>1. refused \cup (unspawned \ fr) \subseteq Contents(m)
    BY <1>6
  <2>2. QED
    BY <2>1, <1>1, <1>12
<1> HIDE DEF m, f, sp, fr, n, k, mid, kept
<1>14. /\ live'[p] = stay \cup (sp \ (fr \cup unspawned)) \cup (mid + 1)..begun'
       /\ \A q \in Procs \ {p} : live'[q] = live[q]
  BY <1>5 DEF IInv, TypeInv
<1>15. /\ live'[p] \subseteq live[p] \cup Contents(m) \cup (begun + 1)..begun'
       /\ live[p] \subseteq live'[p] \cup excused' /\ excused \subseteq excused'
  BY <1>6, <1>5, <1>12, <1>14
<1>16. live' \in [Procs -> SUBSET Tabs]
  <2>1. live \in [Procs -> SUBSET Tabs]
    BY DEF IInv, TypeInv
  <2>2. live'[p] \subseteq Tabs
    BY <2>1, <1>1, <1>12, <1>15
  <2>3. live' = [live EXCEPT ![p] = live'[p]]
    BY <2>1, <1>5, <1>14
  <2>4. QED
    BY <2>1, <2>2, <2>3
<1>17. (live'[p] \ live[p]) \cap 1..begun \cap HeldByRunning(p) = {}
  <2>1. live'[p] \ live[p] \subseteq (sp \ fr) \cup (begun + 1)..begun'
    BY <1>6, <1>12, <1>14
  <2>2. (sp \ fr) \cap HeldByRunning(p) = {}
    BY <1>6
  <2>3. QED
    BY <2>1, <2>2, <1>12
<1>18. /\ base' = base \/ base' = [base EXCEPT ![p] = Respawned]
       /\ base' = base => kept # {} \/ base[p] \notin Prints
  <2>1. base \in [Procs -> {None, Respawned} \cup Prints]
    BY DEF IInv, TypeInv
  <2>2. QED
    BY <2>1, <1>5, <1>8, SessionAssumption
<1>19. \/ sid' = sid /\ clashed' = clashed
       \/ /\ sid' = [sid EXCEPT ![p] = f] /\ clashed \subseteq clashed'
          /\ \A q \in Procs \ {p} : Up(q) /\ sid[q] = f => f \in clashed'
          /\ ~Running(m, p) /\ (file[f] = m \/ f \in clashed')
          /\ Contents(m) \subseteq live'[p] \cup kept \cup HeldByRunning(p)
  <2>1. CASE Adopts(m, p, shut)
    BY <2>1, <1>5, <1>10, <1>14 DEF IInv, TypeInv
  <2>2. CASE ~Adopts(m, p, shut)
    BY <2>2, <1>5 DEF IInv, TypeInv
  <2>3. QED
    BY <2>1, <2>2
<1>20. Restores(p, kept)
  BY <1>1, <1>5, <1>9, <1>12, <1>13, <1>14, <1>15, <1>16, <1>17, <1>18, <1>19 DEF Restores, m, f
<1>21. QED
  BY <1>20

LEMMA RestoreInv ==
    ASSUME IInv, NEW p \in Procs, RestoreSession(p)
    PROVE  IInv'
<1> USE DEF IInv
<1> DEFINE m == picker[p].as
           f == picker[p].name
<1>1. PICK kept : Restores(p, kept)
  BY RestoreSays
<1>2. /\ Up(p) /\ picker[p] \in Rows /\ picker[p] # None /\ f \in Procs
      /\ Contents(m) \subseteq Tabs /\ Contents(m) \subseteq 1..begun
  <2>1. Up(p) /\ picker[p] \in Rows
    BY <1>1 DEF Restores
  <2>2. picker[p] # None
    BY <2>1, SessionAssumption DEF Rows
  <2>3. m \in Manifests /\ f \in Procs
    BY <2>1 DEF Rows
  <2>4. QED
    BY <2>1, <2>2, <2>3 DEF Contents, Manifests, Numbered
<1>3. /\ begun' \in Nat /\ begun <= begun'
      /\ live'[p] \subseteq live[p] \cup Contents(m) \cup (begun + 1)..begun'
      /\ live' \in [Procs -> SUBSET Tabs]
      /\ \A q \in Procs \ {p} : live'[q] = live[q]
      /\ kept \subseteq Tabs /\ kept \subseteq Contents(m) \cup (begun + 1)..begun'
      /\ deferred' = [deferred EXCEPT ![p] = kept]
      /\ base' = base \/ base' = [base EXCEPT ![p] = Respawned]
      /\ base' = base => kept # {} \/ base[p] \notin Prints
      /\ picker' = [picker EXCEPT ![p] = None]
      /\ UNCHANGED <<phase, file, failed>>
  BY <1>1 DEF Restores, fileVars
<1>4. \/ sid' = sid /\ clashed' = clashed
      \/ /\ sid' = [sid EXCEPT ![p] = f] /\ clashed \subseteq clashed'
         /\ \A q \in Procs \ {p} : Up(q) /\ sid[q] = f => f \in clashed'
  BY <1>1 DEF Restores
<1> HIDE DEF m, f
<1>5. TypeInv'
  BY <1>2, <1>3, <1>4 DEF TypeInv
<1>6. Numbered'
  <2>1. 1..begun \subseteq 1..begun' /\ (begun + 1)..begun' \subseteq 1..begun'
    BY <1>3 DEF TypeInv
  <2>2. live'[p] \cup kept \subseteq 1..begun'
    BY <2>1, <1>2, <1>3 DEF Numbered
  <2>3. \A q \in Procs : live'[q] \cup deferred'[q] \subseteq 1..begun'
    BY <2>1, <2>2, <1>3 DEF Numbered, TypeInv
  <2>4. \A q \in Procs : picker'[q] # None => picker'[q] = picker[q] /\ picker[q] # None
    BY <1>3 DEF TypeInv
  <2>5. QED
    BY <2>1, <2>3, <2>4, <1>3 DEF Numbered
<1>7. Born'
  <2>1. phase[f] # "unborn" /\ phase[p] = "up"
    BY <1>2 DEF Born, Up, f
  <2>2. \A q \in Procs : picker'[q] # None => picker'[q] = picker[q] /\ picker[q] # None
    BY <1>3 DEF TypeInv
  <2>3. \A q \in Procs : sid'[q] = q \/ phase[sid'[q]] # "unborn"
    BY <2>1, <1>4 DEF Born, TypeInv
  <2>4. \A q \in Procs : phase[q] # "up" => sid'[q] = q /\ base'[q] = None
    BY <2>1, <1>3, <1>4 DEF Born, TypeInv
  <2>5. QED
    BY <2>2, <2>3, <2>4, <1>3 DEF Born
<1>8. OneWriter'
  <2>1. \A q \in Procs : Up(q)' <=> Up(q)
    BY <1>3 DEF Up
  <2>2. CASE sid' = sid /\ clashed' = clashed
    BY <2>1, <2>2 DEF OneWriter
  <2>3. CASE /\ sid' = [sid EXCEPT ![p] = f] /\ clashed \subseteq clashed'
             /\ \A q \in Procs \ {p} : Up(q) /\ sid[q] = f => f \in clashed'
    <3>1. \A q \in Procs : sid'[q] = IF q = p THEN f ELSE sid[q]
      BY <2>3 DEF TypeInv
    <3>2. QED
      BY <2>1, <2>3, <3>1 DEF OneWriter
  <2>4. QED
    BY <2>2, <2>3, <1>4
<1>9. PickFirst'
  <2>1. \A q \in Procs : picker'[q] # None \/ phase'[q] = "unborn"
                          => q # p /\ picker'[q] = picker[q] /\ phase'[q] = phase[q]
    BY <1>2, <1>3 DEF TypeInv, Up
  <2>2. \A q \in Procs \ {p} : deferred'[q] = deferred[q] /\ base'[q] = base[q]
    BY <1>3 DEF TypeInv
  <2>3. QED
    BY <2>1, <2>2 DEF PickFirst
<1>10. FileIsBase'
  <2> SUFFICES ASSUME NEW q \in Procs, Faithful(q)'
               PROVE  file'[sid'[q]] = [by |-> q, open |-> base'[q].live,
                                        kept |-> base'[q].deferred]
    BY DEF FileIsBase
  <2>1. CASE q = p
    <3>1. base'[p] \in Prints /\ base'[p].deferred = deferred'[p]
      BY <2>1 DEF Faithful
    <3>2. deferred'[p] = kept
      BY <1>3 DEF TypeInv
    <3>3. base' = base
      BY <3>1, <1>3, SessionAssumption DEF TypeInv
    <3>4. base[p].deferred = {}
      BY <3>1, <3>3, <1>2 DEF PickFirst
    <3>5. QED
      BY <3>1, <3>2, <3>3, <3>4, <1>3
  <2>2. CASE q # p
    <3>1. base'[q] = base[q] /\ deferred'[q] = deferred[q]
      BY <2>2, <1>3 DEF TypeInv
    <3>2. sid'[q] = sid[q] /\ clashed \subseteq clashed'
      BY <2>2, <1>4 DEF TypeInv
    <3>3. Faithful(q)
      BY <3>1, <3>2, <1>3 DEF Faithful, Up
    <3>4. QED
      BY <3>1, <3>2, <3>3, <1>3 DEF FileIsBase
  <2>3. QED
    BY <2>1, <2>2
<1>11. QED
  BY <1>5, <1>6, <1>7, <1>8, <1>9, <1>10

\* A restore that is refused only closes the picker.
LEMMA RefusedInv ==
    ASSUME IInv, NEW p \in Procs, RestoreRefused(p)
    PROVE  IInv'
<1> USE DEF IInv
<1>1. /\ Up(p) /\ picker' = [picker EXCEPT ![p] = None]
      /\ UNCHANGED <<phase, sid, live, deferred, base, file, begun, failed, clashed>>
  BY DEF RestoreRefused, fileVars
<1>2. \A q \in Procs : picker'[q] # None => picker'[q] = picker[q] /\ picker[q] # None
  BY <1>1 DEF TypeInv
<1>3. TypeInv'
  BY <1>1 DEF TypeInv
<1>4. Numbered'
  BY <1>1, <1>2 DEF Numbered
<1>5. Born'
  BY <1>1, <1>2 DEF Born
<1>6. PickFirst'
  BY <1>1, <1>2 DEF PickFirst
<1>7. OneWriter' /\ FileIsBase'
  BY <1>1 DEF OneWriter, FileIsBase, Faithful, Up
<1>8. QED
  BY <1>3, <1>4, <1>5, <1>6, <1>7

LEMMA NextInv == IInv /\ [Next]_vars => IInv'
<1> SUFFICES ASSUME IInv, [Next]_vars
             PROVE  IInv'
  OBVIOUS
<1>1. ASSUME NEW p \in Procs, Start(p) \/ OpenTab(p) \/ CloseTab(p)
      PROVE  IInv'
  BY <1>1, StartInv, OpenTabInv, CloseTabInv
<1>2. ASSUME NEW p \in Procs, Autosave(p) \/ RestoreSession(p) \/ RestoreRefused(p)
      PROVE  IInv'
  BY <1>2, AutosaveInv, RestoreInv, RefusedInv
<1>3. ASSUME NEW p \in Procs, Quit(p) \/ Crash(p)
      PROVE  IInv'
  <2>1. Up(p) /\ Gone(p) /\ (Write(p) \/ UNCHANGED file)
    BY <1>3 DEF Quit, Crash, WriteFails, fileVars
  <2>2. QED
    BY <2>1, GoneInv
<1>4. CASE UNCHANGED vars
  BY <1>4 DEF vars, fileVars, IInv, TypeInv, Numbered, Born, OneWriter, PickFirst,
              FileIsBase, Faithful, Up
<1>5. QED
  BY <1>1, <1>2, <1>3, <1>4 DEF Next

\* The invariant holds of every state a session file or a running spyc can
\* reach, for any number of them.
THEOREM Invariant == Spec => []IInv
<1>1. Init => IInv
  BY InitInv
<1>2. IInv /\ [Next]_vars => IInv'
  BY NextInv
<1>3. QED
  BY <1>1, <1>2, PTL DEF Spec

-----------------------------------------------------------------------------
(* What it gives. *)

\* The tabs of a spyc that has nothing to save are in the files another reads
\* when it restores.
LEMMA SettledHeld ==
    ASSUME IInv, NEW p \in Procs, NEW q \in Procs \ {p}, Settled(q)
    PROVE  live[q] \subseteq HeldByRunning(p)
<1>1. /\ Up(q) /\ base[q] = [live |-> live[q], deferred |-> deferred[q]]
      /\ q \notin failed /\ sid[q] \notin clashed /\ file[sid[q]] # None
  BY DEF Settled, Fingerprint
<1>2. base[q] \in Prints /\ base[q].live = live[q] /\ base[q].deferred = deferred[q]
  BY <1>1 DEF IInv, TypeInv, Prints
<1>3. Faithful(q)
  BY <1>1, <1>2 DEF Faithful
<1>4. file[sid[q]] = [by |-> q, open |-> live[q], kept |-> deferred[q]]
  BY <1>2, <1>3 DEF IInv, FileIsBase
<1>5. sid[q] \in Procs /\ file[sid[q]].by = q /\ file[sid[q]].open = live[q]
  BY <1>4 DEF IInv, TypeInv
<1>6. Running(file[sid[q]], p)
  BY <1>1, <1>5 DEF Running
<1>7. QED
  BY <1>1, <1>5, <1>6 DEF HeldByRunning

LEMMA StepNeverSplits ==
    ASSUME IInv, [Next]_vars, NEW p \in Procs, NEW q \in Procs \ {p}, Settled(q)
    PROVE  (live'[p] \ live[p]) \cap live[q] = {}
<1>1. live[q] \subseteq 1..begun /\ live \in [Procs -> SUBSET Tabs] /\ begun \in Nat
  BY DEF IInv, Numbered, TypeInv
<1>2. ASSUME NEW r \in Procs, Start(r) \/ Autosave(r) \/ RestoreRefused(r)
      PROVE  live' = live
  BY <1>2 DEF Start, Autosave, RestoreRefused
<1>3. ASSUME NEW r \in Procs, CloseTab(r) \/ Quit(r) \/ Crash(r)
      PROVE  live'[p] \subseteq live[p]
  BY <1>1, <1>3 DEF CloseTab, Quit, Crash, Gone
<1>4. ASSUME NEW r \in Procs, OpenTab(r)
      PROVE  live'[p] \subseteq live[p] \cup {begun + 1}
  BY <1>1, <1>4 DEF OpenTab
<1>5. ASSUME NEW r \in Procs \ {p}, RestoreSession(r)
      PROVE  live'[p] = live[p]
  BY <1>5, RestoreSays DEF Restores
<1>6. ASSUME RestoreSession(p)
      PROVE  (live'[p] \ live[p]) \cap live[q] = {}
  <2>1. PICK kept : Restores(p, kept)
    BY <1>6, RestoreSays
  <2>2. (live'[p] \ live[p]) \cap 1..begun \cap HeldByRunning(p) = {}
    BY <2>1 DEF Restores
  <2>3. live[q] \subseteq HeldByRunning(p)
    BY SettledHeld
  <2>4. QED
    BY <2>2, <2>3, <1>1
<1>7. begun + 1 \notin live[q]
  BY <1>1
<1>8. CASE UNCHANGED vars
  BY <1>8 DEF vars
<1>9. QED
  BY <1>2, <1>3, <1>4, <1>5, <1>6, <1>7, <1>8 DEF Next

\* No restore takes a running spyc's saved conversation: restore_plans starts
\* the tab fresh, however many spycs run and whatever they have opened,
\* restored, closed, pruned or failed to save.
THEOREM RestoreNeverSplits == Spec => NeverSplit
<1>1. IInv /\ [Next]_vars =>
        [\A p \in Procs : \A q \in Procs \ {p} :
            Settled(q) => (live'[p] \ live[p]) \cap live[q] = {}]_vars
  BY StepNeverSplits
<1>2. Spec => []IInv
  BY Invariant
<1>3. QED
  BY <1>1, <1>2, PTL DEF Spec, NeverSplit

-----------------------------------------------------------------------------
(***************************************************************************)
(* SavedWhenClean: FileIsBase, and that a file is missing only when others *)
(* have filled the cap since it was written (Capped).                      *)
(***************************************************************************)
Listed == recent \in Seq(Procs) /\ Len(recent) <= MaxFiles

\* A spyc that has saved, and lost nothing to a failure or a clash.
HasSaved(p) == Up(p) /\ base[p] \in Prints /\ p \notin failed /\ sid[p] \notin clashed

Capped ==
    \A p \in Procs : HasSaved(p) => file[sid[p]] # None \/ Len(recent) = MaxFiles

CapInv == IInv /\ Listed /\ Capped

LEMMA Cap == MaxFiles \in Nat /\ MaxFiles > 0
BY SessionAssumption

LEMMA LatestSays ==
    ASSUME NEW f \in Procs, recent \in Seq(Procs)
    PROVE  /\ Latest(f) \in Seq(Procs)
           /\ Len(Latest(f)) \in {Len(recent), Len(recent) + 1}
<1>1. ASSUME NEW i \in DOMAIN recent
      PROVE  RemoveAt(recent, i) \in Seq(Procs) /\ Len(RemoveAt(recent, i)) = Len(recent) - 1
  <2>1. i \in 1..Len(recent) /\ Len(recent) \in Nat
    BY <1>1
  <2> DEFINE l == SubSeq(recent, 1, i - 1)
             r == SubSeq(recent, i + 1, Len(recent))
  <2>2. l \in Seq(Procs) /\ Len(l) = i - 1 /\ r \in Seq(Procs) /\ Len(r) = Len(recent) - i
    <3>1. \A k \in 1..(i - 1) : k \in DOMAIN recent
      BY <2>1
    <3>2. \A k \in (i + 1)..Len(recent) : k \in DOMAIN recent
      BY <2>1
    <3>3. l \in Seq(Procs) /\ Len(l) = i - 1
      BY <2>1, <3>1, SubSeqProperties
    <3>4. r \in Seq(Procs) /\ Len(r) = Len(recent) - i
      BY <2>1, <3>2, SubSeqProperties
    <3>5. QED
      BY <3>3, <3>4
  <2> HIDE DEF l, r
  <2>3. l \o r \in Seq(Procs) /\ Len(l \o r) = Len(l) + Len(r)
    BY <2>2, ConcatProperties
  <2>4. RemoveAt(recent, i) = l \o r
    BY DEF RemoveAt, l, r
  <2>5. Len(l \o r) = Len(recent) - 1
    <3>1. PICK x, y : x = Len(l) /\ y = Len(r)
      OBVIOUS
    <3>2. x = i - 1 /\ y = Len(recent) - i /\ Len(l \o r) = x + y
      BY <2>2, <2>3, <3>1
    <3>3. i \in Nat
      BY <2>1
    <3>4. QED
      BY <2>1, <3>2, <3>3
  <2>6. QED
    BY <2>3, <2>4, <2>5
<1>2. ASSUME f \in Range(recent)
      PROVE  (CHOOSE i \in DOMAIN recent : recent[i] = f) \in DOMAIN recent
  BY <1>2 DEF Range
<1> DEFINE rest == IF f \in Range(recent)
                   THEN RemoveAt(recent, CHOOSE i \in DOMAIN recent : recent[i] = f)
                   ELSE recent
<1>3. rest \in Seq(Procs) /\ Len(rest) \in {Len(recent), Len(recent) - 1}
  BY <1>1, <1>2
<1> HIDE DEF rest
<1>4. Append(rest, f) \in Seq(Procs) /\ Len(Append(rest, f)) = Len(rest) + 1
  BY <1>3
<1>5. Latest(f) = Append(rest, f)
  BY DEF Latest, rest
<1>6. Len(recent) \in Nat
  OBVIOUS
<1>7. QED
  BY <1>3, <1>4, <1>5, <1>6

\* A save leaves as many files as there were, or one more, up to the cap, and
\* deletes one only when it leaves that many.
LEMMA WriteLists ==
    ASSUME TypeInv, Listed, NEW p \in Procs, Write(p)
    PROVE  /\ Listed'
           /\ Len(recent) = MaxFiles => Len(recent') = MaxFiles
           /\ \A g \in Procs \ {sid[p]} : file'[g] = file[g] \/ Len(recent') = MaxFiles
<1> DEFINE f == sid[p]
           order == Latest(f)
           gone == PruneVictims(order, f)
           n == Excess(order)
<1>1. /\ recent' = SubSeq(order, n + 1, Len(order))
      /\ file' = [g \in Procs |-> IF g \in gone THEN None
                                  ELSE IF g = f THEN BuildManifest(p) ELSE file[g]]
  BY DEF Write
<1>2. order \in Seq(Procs) /\ Len(order) \in {Len(recent), Len(recent) + 1}
  BY LatestSays DEF TypeInv, Listed
<1>3. Len(recent) \in Nat /\ Len(recent) <= MaxFiles /\ Len(order) \in Nat
  BY <1>2 DEF Listed
<1>4. n \in Nat /\ n <= Len(order)
      /\ Len(order) - n = IF Len(order) > MaxFiles THEN MaxFiles ELSE Len(order)
  BY <1>3, Cap DEF Excess
<1>5. gone # {} => Len(order) > MaxFiles
  BY <1>3, Cap DEF PruneVictims, Excess
<1> HIDE DEF order, gone, n, f
<1>6. recent' \in Seq(Procs) /\ Len(recent') = Len(order) - n
  <2>1. n + 1 \in 1..(Len(order) + 1) /\ Len(order) \in n..Len(order)
    BY <1>3, <1>4
  <2>2. \A k \in (n + 1)..Len(order) : k \in DOMAIN order
    BY <1>2, <1>3, <1>4
  <2>3. QED
    BY <1>1, <1>2, <1>3, <1>4, <2>1, <2>2, SubSeqProperties
<1>7. Len(recent') = IF Len(order) > MaxFiles THEN MaxFiles ELSE Len(order)
  BY <1>4, <1>6
<1>8. Listed'
  BY <1>3, <1>6, <1>7, Cap DEF Listed
<1>9. Len(recent) = MaxFiles => Len(recent') = MaxFiles
  BY <1>2, <1>3, <1>7, Cap
<1>10. ASSUME NEW g \in Procs \ {f}, file'[g] # file[g] PROVE Len(recent') = MaxFiles
  <2>1. g \in gone
    BY <1>1, <1>10
  <2>2. QED
    BY <2>1, <1>5, <1>7
<1>11. QED
  BY <1>8, <1>9, <1>10 DEF f

LEMMA CapFrame ==
    ASSUME Listed, Capped, UNCHANGED fileVars,
           \A p \in Procs : HasSaved(p)' => HasSaved(p) /\ sid'[p] = sid[p]
    PROVE  Listed' /\ Capped'
BY DEF Listed, Capped, fileVars

LEMMA AutosaveCap ==
    ASSUME CapInv, NEW p \in Procs, Autosave(p)
    PROVE  Listed' /\ Capped'
<1> USE DEF CapInv
<1>1. /\ base' = [base EXCEPT ![p] = Fingerprint(p)] /\ UNCHANGED <<phase, sid, clashed>>
      /\ \/ Write(p) /\ failed' = failed \ {p}
         \/ UNCHANGED fileVars /\ failed' = failed \cup {p}
  BY DEF Autosave, WriteFails
<1>2. \A q \in Procs \ {p} : HasSaved(q)' => HasSaved(q) /\ sid'[q] = sid[q]
  BY <1>1 DEF HasSaved, Up, IInv, TypeInv
<1>3. CASE Write(p) /\ failed' = failed \ {p}
  <2>1. /\ Listed' /\ (Len(recent) = MaxFiles => Len(recent') = MaxFiles)
        /\ \A g \in Procs \ {sid[p]} : file'[g] = file[g] \/ Len(recent') = MaxFiles
    BY <1>3, WriteLists DEF IInv
  <2>2. file'[sid[p]] # None
    <3>1. file'[sid[p]] = [by |-> p, open |-> live[p], kept |-> deferred[p]]
      BY <1>3, WriteSays DEF IInv
    <3>2. [by |-> p, open |-> live[p], kept |-> deferred[p]] \in Manifests
      BY DEF Manifests, IInv, TypeInv
    <3>3. QED
      BY <3>1, <3>2, SessionAssumption
  <2>3. Capped'
    BY <1>1, <1>2, <2>1, <2>2 DEF Capped, IInv, TypeInv
  <2>4. QED
    BY <2>1, <2>3
<1>4. CASE UNCHANGED fileVars /\ failed' = failed \cup {p}
  <2>1. ~HasSaved(p)'
    BY <1>4 DEF HasSaved
  <2>2. QED
    BY <1>2, <1>4, <2>1, CapFrame
<1>5. QED
  BY <1>1, <1>3, <1>4

LEMMA GoneCap ==
    ASSUME CapInv, NEW p \in Procs, Gone(p), Write(p) \/ UNCHANGED fileVars
    PROVE  Listed' /\ Capped'
<1> USE DEF CapInv
<1>1. \A q \in Procs : HasSaved(q)' => q # p /\ HasSaved(q) /\ sid'[q] = sid[q]
  BY DEF Gone, HasSaved, Up, IInv, TypeInv
<1>2. CASE UNCHANGED fileVars
  BY <1>1, <1>2, CapFrame
<1>3. CASE Write(p)
  <2>1. /\ Listed' /\ (Len(recent) = MaxFiles => Len(recent') = MaxFiles)
        /\ \A g \in Procs \ {sid[p]} : file'[g] = file[g] \/ Len(recent') = MaxFiles
    BY <1>3, WriteLists DEF IInv
  <2>2. file'[sid[p]] # None
    <3>1. file'[sid[p]] = [by |-> p, open |-> live[p], kept |-> deferred[p]]
      BY <1>3, WriteSays DEF IInv
    <3>2. [by |-> p, open |-> live[p], kept |-> deferred[p]] \in Manifests
      BY DEF Manifests, IInv, TypeInv
    <3>3. QED
      BY <3>1, <3>2, SessionAssumption
  <2>3. QED
    BY <1>1, <2>1, <2>2 DEF Capped, IInv, TypeInv
<1>4. QED
  BY <1>2, <1>3

\* A file is adopted as it was read, so it is there, or its name clashes.
LEMMA RestoreCap ==
    ASSUME CapInv, NEW p \in Procs, RestoreSession(p)
    PROVE  Listed' /\ Capped'
<1> USE DEF CapInv
<1>1. PICK kept : Restores(p, kept)
  BY RestoreSays
<1> DEFINE m == picker[p].as
           f == picker[p].name
<1>2. /\ picker[p] \in Rows /\ UNCHANGED <<phase, fileVars, failed>>
      /\ base' = base \/ base' = [base EXCEPT ![p] = Respawned]
  BY <1>1 DEF Restores
<1>3. \/ sid' = sid /\ clashed' = clashed
      \/ /\ sid' = [sid EXCEPT ![p] = f] /\ clashed \subseteq clashed'
         /\ file[f] = m \/ f \in clashed'
  BY <1>1 DEF Restores
<1>4. f \in Procs /\ m # None
  BY <1>2, SessionAssumption DEF Rows
<1> HIDE DEF m, f
<1>5. \A q \in Procs \ {p} : HasSaved(q)' => HasSaved(q) /\ sid'[q] = sid[q]
  BY <1>2, <1>3 DEF HasSaved, Up, IInv, TypeInv
<1>6. HasSaved(p)' => base' = base
  BY <1>2, SessionAssumption DEF HasSaved, IInv, TypeInv
<1>7. CASE sid' = sid /\ clashed' = clashed
  <2>1. HasSaved(p)' => HasSaved(p)
    BY <1>2, <1>6, <1>7 DEF HasSaved, Up
  <2>2. QED
    BY <1>2, <1>5, <1>7, <2>1, CapFrame
<1>8. CASE sid' = [sid EXCEPT ![p] = f] /\ (file[f] = m \/ f \in clashed')
  <2>1. sid'[p] = f
    BY <1>8 DEF IInv, TypeInv
  <2>2. HasSaved(p)' => file'[sid'[p]] # None
    BY <1>2, <1>4, <1>8, <2>1 DEF HasSaved, fileVars
  <2>3. QED
    BY <1>2, <1>5, <2>2 DEF Listed, Capped, fileVars
<1>9. QED
  BY <1>3, <1>7, <1>8

LEMMA CapStep == CapInv /\ [Next]_vars => CapInv'
<1> SUFFICES ASSUME CapInv, [Next]_vars PROVE CapInv'
  OBVIOUS
<1> USE DEF CapInv
<1>1. IInv'
  BY NextInv
<1>2. ASSUME NEW p \in Procs, Start(p)
      PROVE  Listed' /\ Capped'
  <2>1. phase[p] = "unborn" /\ phase' = [phase EXCEPT ![p] = "up"]
        /\ UNCHANGED <<sid, base, fileVars, failed, clashed>>
    BY <1>2 DEF Start
  <2>2. ~HasSaved(p)'
    BY <2>1, SessionAssumption DEF HasSaved, IInv, Born
  <2>3. \A q \in Procs \ {p} : HasSaved(q)' => HasSaved(q)
    BY <2>1 DEF HasSaved, Up, IInv, TypeInv
  <2>4. QED
    BY <2>1, <2>2, <2>3, CapFrame
<1>3. ASSUME NEW p \in Procs, OpenTab(p) \/ CloseTab(p) \/ RestoreRefused(p)
      PROVE  Listed' /\ Capped'
  BY <1>3, CapFrame DEF OpenTab, CloseTab, RestoreRefused, HasSaved, Up
<1>4. ASSUME NEW p \in Procs, Autosave(p) \/ RestoreSession(p)
      PROVE  Listed' /\ Capped'
  BY <1>4, AutosaveCap, RestoreCap
<1>5. ASSUME NEW p \in Procs, Quit(p) \/ Crash(p)
      PROVE  Listed' /\ Capped'
  <2>1. Gone(p) /\ (Write(p) \/ UNCHANGED fileVars)
    BY <1>5 DEF Quit, Crash, WriteFails
  <2>2. QED
    BY <2>1, GoneCap
<1>6. CASE UNCHANGED vars
  BY <1>1, <1>6, CapFrame DEF vars, HasSaved, Up
<1>7. QED
  BY <1>1, <1>2, <1>3, <1>4, <1>5, <1>6 DEF Next

\* A spyc with nothing to save has what it runs, and the records it carries, in
\* its file, whatever others restored, adopted and saved meanwhile, unless a
\* save failed, two came to write the file, or the cap is full of others'
\* (settle_autosave, prune_victims).
THEOREM CleanIsSaved == Spec => []SavedWhenClean
<1>1. Init => CapInv
  <2>1. Init => Listed /\ Capped
    BY Cap DEF Init, Listed, Capped, HasSaved, Up
  <2>2. QED
    BY <2>1, InitInv DEF CapInv
<1>2. CapInv => SavedWhenClean
  <2> SUFFICES ASSUME CapInv, NEW p \in Procs, Up(p), base[p] = Fingerprint(p),
                      p \notin failed, sid[p] \notin clashed
               PROVE  \/ file[sid[p]] = [by |-> p, open |-> live[p], kept |-> deferred[p]]
                      \/ file[sid[p]] = None /\ Len(recent) = MaxFiles
    BY DEF SavedWhenClean
  <2>1. base[p] \in Prints /\ base[p].live = live[p] /\ base[p].deferred = deferred[p]
    BY DEF CapInv, IInv, TypeInv, Fingerprint, Prints
  <2>2. CASE file[sid[p]] = None
    BY <2>1, <2>2 DEF CapInv, Capped, HasSaved
  <2>3. CASE file[sid[p]] # None
    BY <2>1, <2>3 DEF CapInv, IInv, FileIsBase, Faithful
  <2>4. QED
    BY <2>2, <2>3
<1>3. QED
  BY <1>1, <1>2, CapStep, PTL DEF Spec

-----------------------------------------------------------------------------
(***************************************************************************)
(* SavedStay: a tab in a session file is in one that nobody will take it   *)
(* out of (Keeps).  A restore that adopts a file opens all of it but what  *)
(* a running spyc is in, and that one has it in its file (OwnTabs), which  *)
(* no other writes (Writer).                                               *)
(***************************************************************************)
Keeps(g, t) ==
    /\ t \in Contents(file[g])
    /\ g \in clashed \/ \A q \in Procs : Up(q) /\ sid[q] = g => t \in live[q] \cup deferred[q]

Held == \A t \in Saved \ excused : \E g \in Procs : Keeps(g, t)

\* Who saved a file has started, and while it runs has the file's open tabs.
ByBorn == \A g \in Procs : file[g] # None => phase[file[g].by] # "unborn"
OwnTabs ==
    \A g \in Procs : file[g] # None /\ Up(file[g].by)
        => file[g].open \subseteq live[file[g].by] \cup excused

\* A running spyc's file was saved by it or by one that is gone.
Writer ==
    \A g \in Procs : \A q \in Procs :
        file[g] # None /\ Up(q) /\ sid[q] = g /\ g \notin clashed
            => file[g].by = q \/ ~Up(file[g].by)

KeptInv == IInv /\ ByBorn /\ OwnTabs /\ Writer /\ Held

\* What a save by p may do to the files and to what is excused.
Replaces(p) ==
    /\ excused \subseteq excused'
    /\ \A g \in Procs :
           \/ file'[g] = file[g]
           \/ file'[g] = None /\ Contents(file[g]) \subseteq excused'
           \/ /\ g = sid[p]
              /\ file'[g] = [by |-> p, open |-> live[p], kept |-> deferred[p]]
              /\ g \in clashed => Contents(file[g]) \subseteq excused'

LEMMA WriteReplaces ==
    ASSUME TypeInv, NEW p \in Procs, Write(p) \/ UNCHANGED <<fileVars, excused>>
    PROVE  Replaces(p)
<1>1. CASE UNCHANGED <<fileVars, excused>>
  BY <1>1 DEF Replaces, fileVars
<1>2. CASE Write(p)
  <2> DEFINE f == sid[p]
             gone == PruneVictims(Latest(f), f)
             pruned == UNION {Contents(file[g]) : g \in gone}
             replaced == IF f \in clashed THEN Contents(file[f]) ELSE {}
  <2>1. /\ file' = [g \in Procs |-> IF g \in gone THEN None
                                    ELSE IF g = f THEN BuildManifest(p) ELSE file[g]]
        /\ excused' = (excused \cup pruned) \cup replaced
    BY <1>2 DEF Write
  <2>2. file'[f] = [by |-> p, open |-> live[p], kept |-> deferred[p]]
    BY <1>2, WriteSays
  <2> HIDE DEF gone, f, pruned, replaced
  <2>3. excused \subseteq excused' /\ (f \in clashed => Contents(file[f]) \subseteq excused')
    <3>1. f \in clashed => replaced = Contents(file[f])
      BY DEF replaced
    <3>2. excused \subseteq excused' /\ replaced \subseteq excused'
      BY <2>1
    <3>3. QED
      BY <3>1, <3>2, Zenon
  <2>4. ASSUME NEW g \in Procs, g # f
        PROVE  \/ file'[g] = file[g]
               \/ file'[g] = None /\ Contents(file[g]) \subseteq excused'
    <3>1. CASE g \in gone
      <4>1. Contents(file[g]) \in {Contents(file[h]) : h \in gone}
        BY <3>1
      <4>2. Contents(file[g]) \subseteq pruned
        BY <4>1 DEF pruned
      <4>3. QED
        BY <2>1, <2>4, <3>1, <4>2
    <3>2. CASE g \notin gone
      BY <2>1, <2>4, <3>2
    <3>3. QED
      BY <3>1, <3>2
  <2>5. QED
    BY <2>2, <2>3, <2>4 DEF Replaces, f
<1>3. QED
  BY <1>1, <1>2

\* Through a save, what was in some file and what is now is in one that those
\* who run will not take it out of.
LEMMA ReplacesKeeps ==
    ASSUME IInv, Held, NEW p \in Procs, Up(p), Replaces(p),
           NEW t \in (Saved \cup Saved') \ excused'
    PROVE  \E g \in Procs :
               /\ t \in Contents(file'[g])
               /\ g \in clashed
                    \/ \A q \in Procs : Up(q) /\ sid[q] = g => t \in live[q] \cup deferred[q]
<1> DEFINE f == sid[p]
           mf == [by |-> p, open |-> live[p], kept |-> deferred[p]]
<1>1. f \in Procs /\ t \notin excused /\ t \notin excused'
  BY DEF IInv, TypeInv, Replaces
<1>2. mf \in Manifests /\ mf # None
  BY SessionAssumption DEF IInv, TypeInv, Manifests
<1>3. Contents(mf) = live[p] \cup deferred[p]
  BY <1>2 DEF Contents
<1>4. \A q \in Procs : Up(q) /\ sid[q] = f /\ f \notin clashed => q = p
  BY DEF IInv, OneWriter
<1>5. \A g \in Procs :
         \/ file'[g] = file[g]
         \/ t \notin Contents(file[g]) /\ t \notin Contents(file'[g])
         \/ g = f /\ file'[g] = mf /\ (g \in clashed => t \notin Contents(file[g]))
  BY <1>1 DEF Replaces, Contents
<1> HIDE DEF mf, f
<1>6. CASE t \in Saved
  <2>1. PICK g \in Procs : Keeps(g, t)
    BY <1>1, <1>6 DEF Held
  <2>2. CASE file'[g] = file[g]
    BY <2>1, <2>2 DEF Keeps
  <2>3. CASE file'[g] # file[g]
    <3>1. g = f /\ file'[g] = mf /\ g \notin clashed
      BY <1>5, <2>1, <2>3 DEF Keeps
    <3>2. t \in live[p] \cup deferred[p]
      BY <2>1, <3>1 DEF Keeps, f
    <3>3. QED
      BY <1>3, <1>4, <3>1, <3>2
  <2>4. QED
    BY <2>2, <2>3
<1>7. CASE t \notin Saved
  <2>1. PICK g \in Procs : t \in Contents(file'[g])
    BY <1>7 DEF Saved
  <2>2. t \notin Contents(file[g])
    BY <1>7 DEF Saved
  <2>3. g = f /\ file'[g] = mf
    BY <1>5, <2>1, <2>2
  <2>4. t \in live[p] \cup deferred[p]
    BY <1>3, <2>1, <2>3
  <2>5. QED
    BY <1>4, <2>1, <2>3, <2>4
<1>8. QED
  BY <1>6, <1>7

\* A save, of a spyc that goes on or not.
LEMMA SaveKept ==
    ASSUME KeptInv, NEW p \in Procs, Up(p), Replaces(p), clashed' = clashed,
           Up(p)' => live'[p] = live[p] /\ deferred'[p] = deferred[p] /\ sid'[p] = sid[p],
           \A q \in Procs \ {p} : /\ phase'[q] = phase[q] /\ live'[q] = live[q]
                                  /\ deferred'[q] = deferred[q] /\ sid'[q] = sid[q],
           phase'[p] # "unborn"
    PROVE  ByBorn' /\ OwnTabs' /\ Writer' /\ Held'
<1> USE DEF KeptInv
<1> DEFINE mf == [by |-> p, open |-> live[p], kept |-> deferred[p]]
<1>1. \A q \in Procs : Up(q)' => /\ Up(q) /\ live'[q] = live[q] /\ deferred'[q] = deferred[q]
                                 /\ sid'[q] = sid[q]
  BY DEF Up
<1>2. \A g \in Procs : file'[g] # None =>
          file'[g] = file[g] \/ (g = sid[p] /\ file'[g] = mf)
  BY DEF Replaces
<1>3. mf.by = p /\ mf.open = live[p]
  OBVIOUS
<1>4. \A g \in Procs : file[g] # None => file[g].by \in Procs
  BY DEF IInv, TypeInv, Manifests
<1>5. excused \subseteq excused'
  BY DEF Replaces
<1> HIDE DEF mf
<1>6. ByBorn'
  <2> SUFFICES ASSUME NEW g \in Procs, file'[g] # None
               PROVE  phase'[file'[g].by] # "unborn"
    BY DEF ByBorn
  <2>1. CASE file'[g] = file[g]
    <3>1. PICK q \in Procs : q = file[g].by
      BY <1>4, <2>1
    <3>2. phase[q] # "unborn"
      BY <2>1, <3>1 DEF ByBorn
    <3>3. QED
      BY <2>1, <3>1, <3>2
  <2>2. CASE file'[g] = mf
    BY <1>3, <2>2
  <2>3. QED
    BY <1>2, <2>1, <2>2
<1>7. OwnTabs'
  <2> SUFFICES ASSUME NEW g \in Procs, file'[g] # None, phase'[file'[g].by] = "up"
               PROVE  file'[g].open \subseteq live'[file'[g].by] \cup excused'
    BY DEF OwnTabs, Up
  <2>1. CASE file'[g] = file[g]
    <3>1. PICK q \in Procs : q = file[g].by
      BY <1>4, <2>1
    <3>2. Up(q) /\ live'[q] = live[q]
      BY <1>1, <2>1, <3>1 DEF Up
    <3>3. file[g].open \subseteq live[q] \cup excused
      BY <2>1, <3>1, <3>2 DEF OwnTabs
    <3>4. QED
      BY <1>5, <2>1, <3>1, <3>2, <3>3
  <2>2. CASE file'[g] = mf
    BY <1>1, <1>3, <2>2 DEF Up
  <2>3. QED
    BY <1>2, <2>1, <2>2
<1>8. Writer'
  <2> SUFFICES ASSUME NEW g \in Procs, NEW q \in Procs, file'[g] # None, phase'[q] = "up",
                      sid'[q] = g, g \notin clashed, phase'[file'[g].by] = "up"
               PROVE  file'[g].by = q
    BY DEF Writer, Up
  <2>1. Up(q) /\ sid[q] = g
    BY <1>1 DEF Up
  <2>2. CASE file'[g] = file[g]
    <3>1. PICK r \in Procs : r = file[g].by
      BY <1>4, <2>2
    <3>2. Up(r)
      BY <1>1, <2>2, <3>1 DEF Up
    <3>3. QED
      BY <2>1, <2>2, <3>1, <3>2 DEF Writer
  <2>3. CASE g = sid[p] /\ file'[g] = mf
    <3>1. q = p
      BY <2>1, <2>3 DEF IInv, OneWriter
    <3>2. QED
      BY <1>3, <2>3, <3>1
  <2>4. QED
    BY <1>2, <2>2, <2>3
<1>9. Held'
  <2> SUFFICES ASSUME NEW t \in Saved' \ excused'
               PROVE  \E g \in Procs : Keeps(g, t)'
    BY DEF Held
  <2>1. PICK g \in Procs :
            /\ t \in Contents(file'[g])
            /\ g \in clashed
                 \/ \A q \in Procs : Up(q) /\ sid[q] = g => t \in live[q] \cup deferred[q]
    BY ReplacesKeeps
  <2>2. Keeps(g, t)'
    BY <1>1, <2>1 DEF Keeps, Contents
  <2>3. QED
    BY <2>2
<1>10. QED
  BY <1>6, <1>7, <1>8, <1>9

\* A tab opened or closed, or nothing restored.
LEMMA TabKept ==
    ASSUME KeptInv, NEW p \in Procs, OpenTab(p) \/ CloseTab(p) \/ RestoreRefused(p)
    PROVE  ByBorn' /\ OwnTabs' /\ Writer' /\ Held'
<1> USE DEF KeptInv
<1>1. UNCHANGED <<phase, sid, deferred, file, clashed>> /\ excused \subseteq excused'
  BY DEF OpenTab, CloseTab, RestoreRefused, fileVars
<1>2. \A q \in Procs : live[q] \subseteq live'[q] \cup excused'
  BY DEF OpenTab, CloseTab, RestoreRefused, IInv, TypeInv
<1>3. ByBorn' /\ Writer'
  BY <1>1 DEF ByBorn, Writer, Up
<1>4. OwnTabs'
  <2>1. \A g \in Procs : file[g] # None => file[g].by \in Procs
    BY DEF IInv, TypeInv, Manifests
  <2>2. QED
    BY <1>1, <1>2, <2>1 DEF OwnTabs, Up
<1>5. Held'
  <2> SUFFICES ASSUME NEW t \in Saved \ excused'
               PROVE  \E g \in Procs : Keeps(g, t)'
    BY <1>1 DEF Held, Saved
  <2>1. PICK g \in Procs : Keeps(g, t)
    BY <1>1 DEF Held
  <2>2. Keeps(g, t)'
    BY <1>1, <1>2, <2>1 DEF Keeps, Up, Contents
  <2>3. QED
    BY <2>2
<1>6. QED
  BY <1>3, <1>4, <1>5

\* A spyc that starts has no file: no name is used twice.
LEMMA StartKept ==
    ASSUME KeptInv, NEW p \in Procs, Start(p)
    PROVE  ByBorn' /\ OwnTabs' /\ Writer' /\ Held'
<1> USE DEF KeptInv
<1>1. /\ phase[p] = "unborn" /\ phase' = [phase EXCEPT ![p] = "up"]
      /\ UNCHANGED <<sid, live, deferred, file, clashed, excused>>
  BY DEF Start, fileVars
<1>2. sid[p] = p /\ file[p] = None
  BY <1>1 DEF IInv, Born
<1>3. \A q \in Procs \ {p} : Up(q)' <=> Up(q)
  BY <1>1 DEF Up, IInv, TypeInv
<1>4. \A g \in Procs : file[g] # None => file[g].by \in Procs /\ file[g].by # p
  BY <1>1 DEF IInv, TypeInv, Manifests, ByBorn
<1>5. ByBorn'
  BY <1>1, <1>4 DEF ByBorn, IInv, TypeInv
<1>6. OwnTabs'
  BY <1>1, <1>3, <1>4 DEF OwnTabs
<1>7. Writer'
  BY <1>1, <1>2, <1>3, <1>4 DEF Writer
<1>8. Held'
  <2> SUFFICES ASSUME NEW t \in Saved \ excused
               PROVE  \E g \in Procs : Keeps(g, t)'
    BY <1>1 DEF Held, Saved
  <2>1. PICK g \in Procs : Keeps(g, t)
    BY DEF Held
  <2>2. g # p
    BY <1>2, <2>1 DEF Keeps, Contents
  <2>3. Keeps(g, t)'
    BY <1>1, <1>2, <1>3, <2>1, <2>2 DEF Keeps, Contents
  <2>4. QED
    BY <2>3
<1>9. QED
  BY <1>5, <1>6, <1>7, <1>8

\* A restore takes on what it adopts, but for what a running spyc has.
LEMMA RestoreKept ==
    ASSUME KeptInv, NEW p \in Procs, RestoreSession(p)
    PROVE  ByBorn' /\ OwnTabs' /\ Writer' /\ Held'
<1> USE DEF KeptInv
<1>1. PICK kept : Restores(p, kept)
  BY RestoreSays
<1> DEFINE m == picker[p].as
           f == picker[p].name
<1>2. /\ Up(p) /\ picker[p] \in Rows /\ UNCHANGED <<phase, file>>
      /\ \A q \in Procs \ {p} : live'[q] = live[q]
      /\ deferred' = [deferred EXCEPT ![p] = kept]
      /\ excused \subseteq excused' /\ live[p] \subseteq live'[p] \cup excused'
  BY <1>1 DEF Restores, fileVars
<1>3. \/ sid' = sid /\ clashed' = clashed
      \/ /\ sid' = [sid EXCEPT ![p] = f] /\ clashed \subseteq clashed'
         /\ \A q \in Procs \ {p} : Up(q) /\ sid[q] = f => f \in clashed'
         /\ ~Running(m, p) /\ (file[f] = m \/ f \in clashed')
         /\ Contents(m) \subseteq live'[p] \cup kept \cup HeldByRunning(p)
  BY <1>1 DEF Restores
<1>4. /\ f \in Procs /\ picker[p] # None /\ deferred[p] = {}
      /\ \A q \in Procs : Up(q)' <=> Up(q)
  BY <1>2, SessionAssumption DEF Rows, IInv, PickFirst, Up
<1>5. \A g \in Procs : file[g] # None => file[g].by \in Procs
  BY DEF IInv, TypeInv, Manifests
<1>6. \A q \in Procs : deferred'[q] = IF q = p THEN kept ELSE deferred[q]
  BY <1>2 DEF IInv, TypeInv
<1>7. clashed \subseteq clashed'
  BY <1>3
<1> HIDE DEF m, f
<1>8. ByBorn'
  BY <1>2 DEF ByBorn
<1>9. OwnTabs'
  <2> SUFFICES ASSUME NEW g \in Procs, file[g] # None, Up(file[g].by)
               PROVE  file[g].open \subseteq live'[file[g].by] \cup excused'
    BY <1>2, <1>4, <1>5 DEF OwnTabs
  <2>1. PICK q \in Procs : q = file[g].by
    BY <1>5
  <2>2. file[g].open \subseteq live[q] \cup excused
    BY <2>1 DEF OwnTabs
  <2>3. QED
    BY <1>2, <2>1, <2>2
<1>10. Writer'
  <2> SUFFICES ASSUME NEW g \in Procs, NEW q \in Procs, file[g] # None, Up(q), sid'[q] = g,
                      g \notin clashed', Up(file[g].by)
               PROVE  file[g].by = q
    BY <1>2, <1>4, <1>5 DEF Writer
  <2>1. CASE sid[q] = g
    BY <1>7, <2>1 DEF Writer
  <2>2. CASE sid[q] # g
    <3>1. q = p /\ g = f /\ file[f] = m /\ ~Running(m, p)
      BY <1>3, <2>2 DEF IInv, TypeInv
    <3>2. QED
      BY <3>1 DEF Running
  <2>3. QED
    BY <2>1, <2>2
<1>11. Held'
  <2> SUFFICES ASSUME NEW t \in Saved \ excused'
               PROVE  \E g \in Procs : Keeps(g, t)'
    BY <1>2 DEF Held, Saved
  <2>1. t \notin excused /\ (t \in live[p] => t \in live'[p])
    BY <1>2
  <2>2. PICK g \in Procs : Keeps(g, t)
    BY <2>1 DEF Held
  <2>3. CASE g \in clashed
    BY <1>2, <1>7, <2>2, <2>3 DEF Keeps, Contents
  <2>4. CASE g \notin clashed /\ sid' = sid
    <3>1. sid[p] = g => t \in live'[p]
      BY <1>2, <1>4, <2>1, <2>2, <2>4 DEF Keeps
    <3>2. Keeps(g, t)'
      BY <1>2, <1>4, <1>6, <2>2, <2>4, <3>1 DEF Keeps, Contents
    <3>3. QED
      BY <3>2
  <2>5. CASE g \notin clashed /\ sid' # sid
    <3>1. /\ sid' = [sid EXCEPT ![p] = f] /\ ~Running(m, p) /\ (file[f] = m \/ f \in clashed')
          /\ \A q \in Procs \ {p} : Up(q) /\ sid[q] = f => f \in clashed'
          /\ Contents(m) \subseteq live'[p] \cup kept \cup HeldByRunning(p)
      BY <1>3, <2>5
    <3>2. \A q \in Procs : sid'[q] = IF q = p THEN f ELSE sid[q]
      BY <3>1 DEF IInv, TypeInv
    <3>3. CASE g # f
      <4>1. Keeps(g, t)'
        BY <1>2, <1>4, <1>6, <2>2, <2>5, <3>2, <3>3 DEF Keeps, Contents
      <4>2. QED
        BY <4>1
    <3>4. CASE g = f /\ f \in clashed'
      <4>1. Keeps(g, t)'
        BY <1>2, <2>2, <3>4 DEF Keeps, Contents
      <4>2. QED
        BY <4>1
    <3>5. CASE g = f /\ f \notin clashed'
      <4>1. t \in Contents(m) /\ file[f] = m
        BY <2>2, <3>1, <3>5 DEF Keeps
      <4>2. CASE t \in live'[p] \cup kept
        <5>1. Keeps(g, t)'
          BY <1>2, <1>4, <1>6, <2>2, <3>1, <3>2, <3>5, <4>2 DEF Keeps, Contents
        <5>2. QED
          BY <5>1
      <4>3. CASE t \in HeldByRunning(p)
        <5>1. PICK h \in Procs : file[h] # None /\ Running(file[h], p) /\ t \in file[h].open
          BY <4>3 DEF HeldByRunning
        <5>2. PICK r \in Procs : r = file[h].by /\ r # p /\ Up(r)
          BY <1>5, <5>1 DEF Running
        <5>3. h # f
          BY <3>1, <4>1, <5>1
        <5>4. t \in live[r]
          BY <2>1, <5>1, <5>2 DEF OwnTabs
        <5>5. t \in Contents(file[h])
          BY <5>1 DEF Contents
        <5>6. CASE h \in clashed
          BY <1>2, <1>7, <5>5, <5>6 DEF Keeps, Contents
        <5>7. CASE h \notin clashed
          <6>1. \A q \in Procs : Up(q) /\ sid[q] = h => q = r
            BY <5>1, <5>2, <5>7 DEF Writer
          <6>2. Keeps(h, t)'
            BY <1>2, <1>4, <3>2, <5>2, <5>3, <5>4, <5>5, <6>1 DEF Keeps, Contents
          <6>3. QED
            BY <6>2
        <5>8. QED
          BY <5>6, <5>7
      <4>4. QED
        BY <3>1, <4>1, <4>2, <4>3
    <3>6. QED
      BY <3>3, <3>4, <3>5
  <2>6. QED
    BY <2>3, <2>4, <2>5
<1>12. QED
  BY <1>8, <1>9, <1>10, <1>11

LEMMA KeptStep == KeptInv /\ [Next]_vars => KeptInv'
<1> SUFFICES ASSUME KeptInv, [Next]_vars PROVE KeptInv'
  OBVIOUS
<1> USE DEF KeptInv
<1>1. IInv'
  BY NextInv
<1>2. ASSUME NEW p \in Procs, \/ Start(p) \/ OpenTab(p) \/ CloseTab(p)
                               \/ RestoreSession(p) \/ RestoreRefused(p)
      PROVE  ByBorn' /\ OwnTabs' /\ Writer' /\ Held'
  BY <1>2, StartKept, TabKept, RestoreKept
<1>3. ASSUME NEW p \in Procs, Autosave(p)
      PROVE  ByBorn' /\ OwnTabs' /\ Writer' /\ Held'
  <2>1. Up(p) /\ Replaces(p) /\ UNCHANGED <<phase, sid, live, deferred, clashed>>
    BY <1>3, WriteReplaces DEF Autosave, WriteFails, IInv
  <2>2. phase[p] # "unborn"
    BY <2>1 DEF Up
  <2>3. QED
    BY <2>1, <2>2, SaveKept
<1>4. ASSUME NEW p \in Procs, Quit(p) \/ Crash(p)
      PROVE  ByBorn' /\ OwnTabs' /\ Writer' /\ Held'
  <2>1. Up(p) /\ Replaces(p) /\ Gone(p)
    BY <1>4, WriteReplaces DEF Quit, Crash, WriteFails, IInv
  <2>2. phase'[p] = "gone" /\ clashed' = clashed
        /\ \A q \in Procs \ {p} : /\ phase'[q] = phase[q] /\ live'[q] = live[q]
                                  /\ deferred'[q] = deferred[q] /\ sid'[q] = sid[q]
    BY <2>1 DEF Gone, IInv, TypeInv
  <2>3. ~Up(p)' /\ phase'[p] # "unborn"
    BY <2>2 DEF Up
  <2>4. QED
    BY <2>1, <2>2, <2>3, SaveKept
<1>5. CASE UNCHANGED vars
  <2>1. UNCHANGED <<phase, sid, live, deferred, file, clashed, excused>>
    BY <1>5 DEF vars, fileVars
  <2>2. ByBorn' /\ OwnTabs' /\ Writer' /\ Held'
    BY <2>1 DEF ByBorn, OwnTabs, Writer, Held, Keeps, Saved, Contents, Up
  <2>3. QED
    BY <1>1, <2>2
<1>6. QED
  BY <1>1, <1>2, <1>3, <1>4, <1>5 DEF Next

\* A tab saved once stays saved: no restore, copy, save, failed save, quit or
\* kill, in any order and by any number of spycs, takes it out of every session
\* file, unless the user closed or replaced it, the cap pruned its file, or two
\* spycs came to write one (saved_project, restore_session's adopt).
THEOREM SavedTabsStay == Spec => SavedStay
<1>1. Init => KeptInv
  <2>1. Init => ByBorn /\ OwnTabs /\ Writer /\ Held
    BY DEF Init, ByBorn, OwnTabs, Writer, Held, Saved, Contents
  <2>2. QED
    BY <2>1, InitInv DEF KeptInv
<1>2. KeptInv /\ [Next]_vars => [Saved \ Saved' \subseteq excused']_vars
  <2> SUFFICES ASSUME KeptInv, [Next]_vars, NEW t \in Saved, t \notin Saved', t \notin excused'
               PROVE  FALSE
    OBVIOUS
  <2>1. ASSUME NEW p \in Procs, Autosave(p) \/ Quit(p) \/ Crash(p)
        PROVE  FALSE
    <3>1. Up(p) /\ Replaces(p)
      BY <2>1, WriteReplaces DEF Autosave, Quit, Crash, WriteFails, KeptInv, IInv
    <3>2. \E g \in Procs : t \in Contents(file'[g])
      BY <3>1, ReplacesKeeps DEF KeptInv
    <3>3. QED
      BY <3>2 DEF Saved
  <2>2. ASSUME NEW p \in Procs, \/ Start(p) \/ OpenTab(p) \/ CloseTab(p)
                                 \/ RestoreSession(p) \/ RestoreRefused(p)
        PROVE  FALSE
    BY <2>2 DEF Start, OpenTab, CloseTab, RestoreSession, RestoreRefused, fileVars, Saved
  <2>3. CASE UNCHANGED vars
    BY <2>3 DEF vars, fileVars, Saved
  <2>4. QED
    BY <2>1, <2>2, <2>3 DEF Next
<1>3. QED
  BY <1>1, <1>2, KeptStep, PTL DEF Spec, SavedStay

=============================================================================
