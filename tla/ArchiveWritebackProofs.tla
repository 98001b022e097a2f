------------------------ MODULE ArchiveWritebackProofs ------------------------
(***************************************************************************)
(* The write-back, for any members, names, saves, writes and extractions:  *)
(* no locator goes stale outside a write, no edit spyc knows of is lost,   *)
(* and what the journal said is in the archive when it is cleared.         *)
(*                                                                         *)
(* IInv says which worker's outcome may be in the queue at all (Phases),   *)
(* what the journal may name (JournalFits), which members the write under  *)
(* way will leave in the archive (WriteFits), and of each recorded edit    *)
(* where it is, mounted or not (Safe), and that the write will hold it     *)
(* aside or carries it (Edits).                                            *)
(***************************************************************************)
EXTENDS ArchiveWriteback, FiniteSetTheorems, SequenceTheorems, TLAPS

Optional == File \cup {NoFile}
Journal == [deleted : SUBSET Names, replaced : SUBSET Names, added : SUBSET Names]
Entry == [name : Names, data : Data]
Step == [name : Names, from : {"staging", "archive"}]
Saved == {NoSave} \cup [at : {"reread", "late_addition", "recorded", "unrecorded", "unmoved"},
                          data : Data]
Extraction == {Idle} \cup [at : {"asked"}, name : Names, pos : Nat]
                     \cup [at : {"read"}, name : Names, data : Data]

TypeInv ==
    /\ streamed \in BOOLEAN /\ mounted \in BOOLEAN /\ writing \in BOOLEAN
    /\ disk \in Seq(Entry) /\ index \in Seq(Names)
    /\ journal \in Journal
    /\ recorded \in [Names -> Stat] /\ planned \in [Names -> Stat]
    /\ staging \in [Names -> Optional] /\ held \in [Names -> Optional]
    /\ writer \in {Idle} \cup [at : {"planned"}, steps : Seq(Step)]
                         \cup [at : {"packed"}, entries : Seq(Entry)]
    /\ reader \in [at : {"idle", "reset", "read", "landed"}]
    /\ mats \in [Ops -> Extraction]
    /\ copying \in {Idle} \cup [at : {"copying"}, name : Names, data : Data]
    /\ \E S : landed \in Seq(S)
    /\ last \in [Names -> Saved]
    /\ saves \in 0..MaxSaves

EndsWrite(i) == landed[i].kind \in {"written", "write_failed"}
EndsRead(i) == landed[i].kind \in {"mounted", "read_failed"}
Written == \E i \in DOMAIN landed : landed[i].kind = "written"

\* One write, in its worker or landed; one read, of an archive that isn't
\* mounted; and the archive is replaced only in between.
Phases ==
    /\ writer # Idle => writing /\ \A i \in DOMAIN landed : ~EndsWrite(i)
    /\ \A i \in DOMAIN landed : EndsWrite(i) =>
          writing /\ \A k \in DOMAIN landed : EndsWrite(k) => k = i
    /\ writing => mounted
    /\ reader # Idle => ~mounted
    /\ \A i \in DOMAIN landed : EndsRead(i) =>
          reader.at = "landed" /\ \A k \in DOMAIN landed : EndsRead(k) => k = i
    /\ \A i \in DOMAIN landed : landed[i].kind = "mounted" => landed[i].index = NamesIn(disk)
    /\ mounted /\ ~Written => index = NamesIn(disk)

JournalFits ==
    /\ journal.deleted \cup journal.replaced \subseteq Indexed
    /\ journal.added \cap Indexed = {}
    /\ \A m \in Names : recorded[m] # "none" => m \in Indexed

IsRecorded(m) == last[m].at = "recorded"

\* A recorded edit is in its copy and pending, and nothing is to extract over
\* it; while the archive is read again it is held, and not in the archive.
Safe(m) ==
    /\ ~Extracting(m)
    /\ mounted => /\ Pending(m, last[m].data)
                  /\ recorded[m] # "same" /\ m \notin journal.deleted
    /\ ~mounted => /\ held[m] # NoFile /\ held[m].data = last[m].data
                   /\ ~Settled(m)
                   /\ Staged(m) => Stored(m) /\ staging[m].data = Bytes(m)

\* It will be held when the write lands.
IsLate(m) == m \in Indexed /\ planned[m] # "same" /\ recorded[m] # "same"

\* It is in what the write under way writes.
Carried(m) ==
    /\ writer.at = "planned" =>
         \E i \in DOMAIN writer.steps :
            writer.steps[i].name = m /\ writer.steps[i].from = "staging"
    /\ writer.at = "packed" =>
         \E i \in DOMAIN writer.entries :
            writer.entries[i].name = m /\ writer.entries[i].data = last[m].data
    /\ Written => Settled(m)

Edits == \A m \in Names : IsRecorded(m) => Safe(m) /\ (IsLate(m) \/ Carried(m))

\* What the new archive has: the members that stay and the additions.
Has(members) == members = (Indexed \ journal.deleted) \cup journal.added
WriteFits ==
    /\ writer.at = "planned" =>
         /\ Has({writer.steps[i].name : i \in DOMAIN writer.steps})
         /\ \A i \in DOMAIN writer.steps :
               writer.steps[i].from = "archive" => writer.steps[i].name \in Indexed
    /\ writer.at = "packed" =>
         Has({writer.entries[i].name : i \in DOMAIN writer.entries})
    /\ Written => Has({disk[i].name : i \in DOMAIN disk})

IInv == TypeInv /\ Phases /\ JournalFits /\ WriteFits /\ Edits

-----------------------------------------------------------------------------
(* The queue of outcomes.                                                  *)

LEMMA LandSays ==
    ASSUME \E S : landed \in Seq(S), NEW o, landed' = Append(landed, o)
    PROVE  /\ \E S : landed' \in Seq(S)
           /\ \A i \in DOMAIN landed' :
                 \/ i \in DOMAIN landed /\ landed'[i] = landed[i]
                 \/ i \notin DOMAIN landed /\ i = Len(landed) + 1 /\ landed'[i] = o
           /\ \A i \in DOMAIN landed : i \in DOMAIN landed' /\ landed'[i] = landed[i]
           /\ Len(landed) + 1 \in DOMAIN landed' /\ landed'[Len(landed) + 1] = o
<1>1. PICK S : landed \in Seq(S)
  OBVIOUS
<1>2. landed \in Seq(S \cup {o}) /\ o \in S \cup {o}
  BY <1>1
<1>3. landed' \in Seq(S \cup {o})
  BY <1>2
<1>4. QED
  BY <1>2, <1>3

LEMMA TakeSays ==
    ASSUME \E S : landed \in Seq(S), landed # <<>>, landed' = Tail(landed)
    PROVE  /\ \E S : landed' \in Seq(S)
           /\ 1 \in DOMAIN landed /\ Head(landed) = landed[1]
           /\ \A i \in DOMAIN landed' :
                 /\ i \in Nat \ {0} /\ i + 1 \in DOMAIN landed
                 /\ landed'[i] = landed[i + 1]
           /\ \A i \in DOMAIN landed : i = 1 \/ (i - 1 \in DOMAIN landed' /\ landed'[i - 1] = landed[i])
<1>1. PICK S : landed \in Seq(S)
  OBVIOUS
<1>2. landed' \in Seq(S)
  BY <1>1
<1>3. QED
  BY <1>1, <1>2

\* What the landing of the re-read puts back of what is due, and where.
PutBack(read, due, own, back) ==
    /\ back \in SUBSET due
    /\ read = Head(landed).index
    /\ due = {m \in Names : held[m] # NoFile
                 /\ (staging[m] = NoFile \/ staging[m].data # held[m].data)}
    /\ own = [m \in Names |-> IF m \in ToSet(read) /\ Staged(m) THEN "same" ELSE "none"]
    /\ index' = read
    /\ journal' = [deleted |-> {}, replaced |-> back \cap ToSet(read),
                   added |-> back \ ToSet(read)]
    /\ recorded' = Touch(own, back)
    /\ staging' = [m \in Names |-> IF m \in back THEN held[m] ELSE staging[m]]
    /\ last' = Unmoved(due \ back)

LEMMA MountedSays ==
    ASSUME ApplyMounted
    PROVE  \E read, due, own, back : PutBack(read, due, own, back)
<1>1. PICK read, due, own :
         /\ read = Head(landed).index
         /\ due = {m \in Names : held[m] # NoFile
                      /\ (staging[m] = NoFile \/ staging[m].data # held[m].data)}
         /\ own = [m \in Names |-> IF m \in ToSet(read) /\ Staged(m) THEN "same" ELSE "none"]
  OBVIOUS
<1>2. index' = read
  BY <1>1 DEF ApplyMounted
<1>3. PICK back \in SUBSET due :
         /\ journal' = [deleted |-> {}, replaced |-> back \cap ToSet(read),
                        added |-> back \ ToSet(read)]
         /\ recorded' = Touch(own, back)
         /\ staging' = [m \in Names |-> IF m \in back THEN held[m] ELSE staging[m]]
         /\ last' = Unmoved(due \ back)
  BY <1>1 DEF ApplyMounted
<1>4. PutBack(read, due, own, back)
  BY <1>1, <1>2, <1>3 DEF PutBack
<1>5. QED
  BY <1>4

-----------------------------------------------------------------------------
(* Phases.                                                                 *)

\* An extraction's outcome comes or goes, and nothing else Phases names.
LEMMA PhasesNeutral ==
    ASSUME TypeInv, Phases, UNCHANGED <<writer, writing, mounted, reader, disk, index>>,
           \/ landed' = landed
           \/ \E o : o.kind = "materialized" /\ landed' = Append(landed, o)
           \/ landed # <<>> /\ Head(landed).kind = "materialized" /\ landed' = Tail(landed)
    PROVE  Phases'
<1>1. \E S : landed \in Seq(S)
  BY DEF TypeInv
<1>2. CASE landed' = landed
  BY <1>2 DEF Phases, EndsWrite, EndsRead, Written
<1>3. ASSUME NEW o, o.kind = "materialized", landed' = Append(landed, o) PROVE Phases'
  <2>1. \A i \in DOMAIN landed' :
           \/ i \in DOMAIN landed /\ landed'[i] = landed[i]
           \/ i \notin DOMAIN landed /\ landed'[i].kind = "materialized"
    BY <1>1, <1>3, LandSays
  <2>2. \A i \in DOMAIN landed : i \in DOMAIN landed' /\ landed'[i] = landed[i]
    BY <1>1, <1>3, LandSays
  <2>3. QED
    BY <2>1, <2>2 DEF Phases, EndsWrite, EndsRead, Written
<1>4. CASE landed # <<>> /\ Head(landed).kind = "materialized" /\ landed' = Tail(landed)
  <2>1. /\ \A i \in DOMAIN landed' :
              i \in Nat \ {0} /\ i + 1 \in DOMAIN landed /\ landed'[i] = landed[i + 1]
        /\ \A i \in DOMAIN landed :
              \/ landed[i].kind = "materialized"
              \/ i - 1 \in DOMAIN landed' /\ landed'[i - 1] = landed[i]
    BY <1>1, <1>4, TakeSays
  <2>2. Written <=> Written'
    BY <2>1 DEF Written
  <2>3. \A i \in DOMAIN landed' :
           /\ EndsWrite(i)' = EndsWrite(i + 1) /\ EndsRead(i)' = EndsRead(i + 1)
           /\ i + 1 \in DOMAIN landed /\ i \in Nat
    BY <2>1 DEF EndsWrite, EndsRead
  <2>4. \A i \in DOMAIN landed' : EndsWrite(i)' =>
           writing /\ \A k \in DOMAIN landed' : EndsWrite(k)' => k = i
    <3>1. ASSUME NEW i \in DOMAIN landed', NEW k \in DOMAIN landed',
                 EndsWrite(i)', EndsWrite(k)'
          PROVE  writing /\ k = i
      <4>1. k + 1 = i + 1 /\ writing
        BY <2>3, <3>1 DEF Phases
      <4>2. QED
        BY <2>3, <4>1
    <3>2. QED
      BY <3>1, <2>3 DEF Phases
  <2>5. \A i \in DOMAIN landed' : EndsRead(i)' =>
           reader.at = "landed" /\ \A k \in DOMAIN landed' : EndsRead(k)' => k = i
    <3>1. ASSUME NEW i \in DOMAIN landed', NEW k \in DOMAIN landed',
                 EndsRead(i)', EndsRead(k)'
          PROVE  reader.at = "landed" /\ k = i
      <4>1. k + 1 = i + 1 /\ reader.at = "landed"
        BY <2>3, <3>1 DEF Phases
      <4>2. QED
        BY <2>3, <4>1
    <3>2. QED
      BY <3>1, <2>3 DEF Phases
  <2>6. \A i \in DOMAIN landed' :
           landed'[i].kind = "mounted" => landed'[i].index = NamesIn(disk)'
    BY <2>1 DEF Phases, NamesIn
  <2>7. writer # Idle => \A i \in DOMAIN landed' : ~EndsWrite(i)'
    BY <2>3 DEF Phases
  <2>8. QED
    BY <2>2, <2>4, <2>5, <2>6, <2>7 DEF Phases, NamesIn
<1>5. QED
  BY <1>2, <1>3, <1>4

\* A worker's last outcome lands.
LEMMA WriteLands ==
    ASSUME TypeInv, Phases, Persist \/ WriteFails
    PROVE  Phases'
<1>1. /\ writer # Idle /\ writer' = Idle
      /\ UNCHANGED <<writing, mounted, index, reader>>
  <2>1. writer.at = "packed" => writer # Idle
    BY DEF Idle
  <2>2. QED
    BY <2>1 DEF Persist, WriteFails, mountVars, workVars
<1>2. PICK o : /\ landed' = Append(landed, o)
               /\ \/ o.kind = "written"
                  \/ o.kind = "write_failed" /\ disk' = disk
  BY DEF Persist, WriteFails, Land
<1>3. /\ \A i \in DOMAIN landed' : \/ i \in DOMAIN landed /\ landed'[i] = landed[i]
                                   \/ i = Len(landed) + 1 /\ landed'[i] = o
      /\ \A i \in DOMAIN landed : i \in DOMAIN landed' /\ landed'[i] = landed[i]
      /\ Len(landed) + 1 \in DOMAIN landed' /\ landed'[Len(landed) + 1] = o
  BY <1>2, LandSays DEF TypeInv
<1>4. writing /\ mounted /\ reader = Idle
  BY <1>1 DEF Phases
<1>5. \A i \in DOMAIN landed : ~EndsWrite(i) /\ ~EndsRead(i)
  BY <1>1, <1>4 DEF Phases, Idle
<1>6. \A i \in DOMAIN landed' :
         /\ ~EndsRead(i)'
         /\ EndsWrite(i)' => i = Len(landed) + 1
  BY <1>2, <1>3, <1>5 DEF EndsRead, EndsWrite
<1>7. Written' \/ disk' = disk
  BY <1>2, <1>3 DEF Written
<1>8. mounted' /\ ~Written' => index' = NamesIn(disk)'
  <2>1. ~Written
    BY <1>5 DEF Written, EndsWrite
  <2>2. QED
    BY <1>1, <1>4, <1>7, <2>1 DEF Phases, NamesIn
<1>9. QED
  BY <1>1, <1>4, <1>6, <1>8 DEF Phases, EndsRead, EndsWrite

LEMMA ReadLands ==
    ASSUME TypeInv, Phases, ReadArchive \/ ReadFails
    PROVE  Phases'
<1>1. /\ reader.at = "read" /\ reader'.at = "landed"
      /\ UNCHANGED <<writer, writing, mounted, index, disk>>
  BY DEF ReadArchive, ReadFails, mountVars, writeVars
<1>2. PICK o : /\ landed' = Append(landed, o) /\ o.kind \in {"mounted", "read_failed"}
               /\ o.kind = "mounted" => o.index = NamesIn(disk)
  BY DEF ReadArchive, ReadFails, Land
<1>3. /\ \A i \in DOMAIN landed' : \/ i \in DOMAIN landed /\ landed'[i] = landed[i]
                                   \/ i = Len(landed) + 1 /\ landed'[i] = o
      /\ \A i \in DOMAIN landed : i \in DOMAIN landed' /\ landed'[i] = landed[i]
  BY <1>2, LandSays DEF TypeInv
<1>4. ~mounted /\ ~writing /\ writer = Idle /\ \A i \in DOMAIN landed : ~EndsRead(i) /\ ~EndsWrite(i)
  BY <1>1 DEF Phases, Idle
<1>5. \A i \in DOMAIN landed' :
         /\ ~EndsWrite(i)'
         /\ EndsRead(i)' => i = Len(landed) + 1
         /\ landed'[i].kind = "mounted" => landed'[i].index = NamesIn(disk)
  BY <1>2, <1>3, <1>4 DEF EndsRead, EndsWrite
<1>6. QED
  BY <1>1, <1>4, <1>5 DEF Phases, EndsRead, EndsWrite, NamesIn

\* The loop takes a worker's last outcome.
LEMMA WriteTaken ==
    ASSUME TypeInv, Phases, ApplyWritten \/ ApplyWriteFailed
    PROVE  Phases'
<1>1. /\ landed # <<>> /\ landed' = Tail(landed) /\ writing' = FALSE
      /\ UNCHANGED <<writer, disk>>
      /\ Head(landed).kind \in {"written", "write_failed"}
  BY DEF ApplyWritten, ApplyWriteFailed, Landing
<1>2. /\ 1 \in DOMAIN landed /\ Head(landed) = landed[1]
      /\ \A i \in DOMAIN landed' :
            i \in Nat \ {0} /\ i + 1 \in DOMAIN landed /\ landed'[i] = landed[i + 1]
      /\ \A i \in DOMAIN landed : i = 1 \/ (i - 1 \in DOMAIN landed' /\ landed'[i - 1] = landed[i])
  BY <1>1, TakeSays DEF TypeInv
<1>3. EndsWrite(1)
  BY <1>1, <1>2 DEF EndsWrite
<1>4. /\ writing /\ mounted /\ reader = Idle /\ writer = Idle
      /\ \A i \in DOMAIN landed : EndsWrite(i) => i = 1
      /\ \A i \in DOMAIN landed : ~EndsRead(i)
  BY <1>2, <1>3 DEF Phases, Idle
<1>5. \A i \in DOMAIN landed' : ~EndsWrite(i)' /\ ~EndsRead(i)'
  <2>1. ASSUME NEW i \in DOMAIN landed' PROVE ~EndsWrite(i)' /\ ~EndsRead(i)'
    <3>1. i + 1 # 1 /\ i + 1 \in DOMAIN landed /\ landed'[i] = landed[i + 1]
      BY <1>2
    <3>2. ~EndsWrite(i + 1) /\ ~EndsRead(i + 1)
      BY <1>4, <3>1
    <3>3. QED
      BY <3>1, <3>2 DEF EndsWrite, EndsRead
  <2>2. QED
    BY <2>1
<1>6. ~Written' /\ \A i \in DOMAIN landed' : landed'[i].kind # "mounted"
  BY <1>5 DEF Written, EndsWrite, EndsRead
<1>7. CASE ApplyWritten
  <2>1. mounted' = FALSE /\ reader' = [at |-> "reset"]
    BY <1>7 DEF ApplyWritten, Dismount
  <2>2. QED
    BY <1>1, <1>4, <1>5, <1>6, <2>1 DEF Phases
<1>8. CASE ApplyWriteFailed
  <2>1. UNCHANGED <<mounted, index, reader>>
    BY <1>8 DEF ApplyWriteFailed, mountVars, workVars
  <2>2. ~Written
    <3>1. landed[1].kind = "write_failed"
      BY <1>2, <1>8 DEF ApplyWriteFailed, Landing
    <3>2. QED
      BY <1>4, <3>1 DEF Written, EndsWrite
  <2>3. index' = NamesIn(disk)'
    BY <1>1, <1>4, <2>1, <2>2 DEF Phases, NamesIn
  <2>4. QED
    BY <1>1, <1>4, <1>5, <1>6, <2>1, <2>3 DEF Phases
<1>9. QED
  BY <1>7, <1>8

LEMMA ReadTaken ==
    ASSUME TypeInv, Phases, ApplyMounted \/ ApplyReadFailed
    PROVE  Phases'
<1>1. /\ landed # <<>> /\ landed' = Tail(landed) /\ reader' = Idle
      /\ UNCHANGED <<writer, writing, disk>>
      /\ Head(landed).kind \in {"mounted", "read_failed"}
  BY DEF ApplyMounted, ApplyReadFailed, Landing, writeVars
<1>2. /\ 1 \in DOMAIN landed /\ Head(landed) = landed[1]
      /\ \A i \in DOMAIN landed' :
            i \in Nat \ {0} /\ i + 1 \in DOMAIN landed /\ landed'[i] = landed[i + 1]
      /\ \A i \in DOMAIN landed : i = 1 \/ (i - 1 \in DOMAIN landed' /\ landed'[i - 1] = landed[i])
  BY <1>1, TakeSays DEF TypeInv
<1>3. EndsRead(1)
  BY <1>1, <1>2 DEF EndsRead
<1>4. /\ ~writing /\ ~mounted /\ writer = Idle
      /\ \A i \in DOMAIN landed : EndsRead(i) => i = 1
      /\ \A i \in DOMAIN landed : ~EndsWrite(i)
  BY <1>2, <1>3 DEF Phases, Idle
<1>5. \A i \in DOMAIN landed' : ~EndsWrite(i)' /\ ~EndsRead(i)'
  <2>1. ASSUME NEW i \in DOMAIN landed' PROVE ~EndsWrite(i)' /\ ~EndsRead(i)'
    <3>1. i + 1 # 1 /\ i + 1 \in DOMAIN landed /\ landed'[i] = landed[i + 1]
      BY <1>2
    <3>2. ~EndsWrite(i + 1) /\ ~EndsRead(i + 1)
      BY <1>4, <3>1
    <3>3. QED
      BY <3>1, <3>2 DEF EndsWrite, EndsRead
  <2>2. QED
    BY <2>1
<1>6. ~Written' /\ \A i \in DOMAIN landed' : landed'[i].kind # "mounted"
  BY <1>5 DEF Written, EndsWrite, EndsRead
<1>7. mounted' => index' = NamesIn(disk)'
  <2>1. CASE ApplyMounted
    <3>1. index' = landed[1].index /\ landed[1].kind = "mounted"
      BY <1>2, <2>1 DEF ApplyMounted, Landing
    <3>2. QED
      BY <1>1, <1>2, <3>1 DEF Phases, NamesIn
  <2>2. CASE ApplyReadFailed
    BY <1>4, <2>2 DEF ApplyReadFailed, mountVars
  <2>3. QED
    BY <2>1, <2>2
<1>8. QED
  BY <1>1, <1>4, <1>5, <1>6, <1>7 DEF Phases

\* A worker starts or goes on, with nothing landed.
LEMMA PhasesOn ==
    ASSUME TypeInv, Phases, ResetStaging \/ Mount \/ Unmount \/ Write \/ Pack
    PROVE  Phases'
<1>1. UNCHANGED <<landed, disk>>
  BY DEF ResetStaging, Mount, Unmount, Write, Pack
<1>2. CASE ResetStaging
  <2>1. /\ reader.at = "reset" /\ reader' = [at |-> "read"]
        /\ UNCHANGED <<writer, writing, mounted, index>>
    BY <1>2 DEF ResetStaging, writeVars, mountVars
  <2>2. QED
    BY <1>1, <2>1 DEF Phases, EndsWrite, EndsRead, Written, NamesIn, Idle
<1>3. CASE Mount
  <2>1. /\ ~mounted /\ reader = Idle /\ reader' = [at |-> "read"]
        /\ UNCHANGED <<writer, writing, mounted, index>>
    BY <1>3 DEF Mount, writeVars, mountVars
  <2>2. QED
    BY <1>1, <2>1 DEF Phases, EndsWrite, EndsRead, Written, NamesIn, Idle
<1>4. CASE Unmount
  <2>1. ~writing /\ mounted' = FALSE /\ UNCHANGED <<writer, writing, reader>>
    BY <1>4 DEF Unmount, Changeable, Dismount, writeVars, workVars
  <2>2. QED
    BY <1>1, <2>1 DEF Phases, EndsWrite, EndsRead, Written, NamesIn
<1>5. CASE Write
  <2>1. /\ mounted /\ ~writing /\ writing' /\ UNCHANGED <<mounted, index, reader>>
    BY <1>5 DEF Write, Changeable, workVars
  <2>2. QED
    BY <1>1, <2>1 DEF Phases, EndsWrite, EndsRead, Written, NamesIn
<1>6. CASE Pack
  <2>1. /\ writer.at = "planned" /\ UNCHANGED <<writing, mounted, index, reader>>
    BY <1>6 DEF Pack, mountVars, workVars
  <2>2. writer # Idle
    BY <2>1 DEF Idle
  <2>3. QED
    BY <1>1, <2>1, <2>2 DEF Phases, EndsWrite, EndsRead, Written, NamesIn
<1>7. QED
  BY <1>2, <1>3, <1>4, <1>5, <1>6

LEMMA PhasesStep ==
    ASSUME TypeInv, Phases, [Next]_vars
    PROVE  Phases'
<1>1. ASSUME NEW m \in Names,
             Save(m) \/ CopyIn(m) \/ Delete(m) \/ \E o \in Ops : Open(m, o)
      PROVE  Phases'
  BY <1>1, PhasesNeutral DEF Save, CopyIn, Delete, Open, mountVars, workVars, writeVars
<1>2. ASSUME NEW o \in Ops, Extract(o) PROVE Phases'
  <2>1. UNCHANGED <<writer, writing, mounted, reader, disk, index>>
    BY <1>2 DEF Extract, ExtractRead, ExtractPersist, ExtractFails, mountVars, writeVars
  <2>2. \/ landed' = landed
        \/ landed' = Append(landed, [kind |-> "materialized", name |-> mats[o].name])
    BY <1>2 DEF Extract, ExtractRead, ExtractPersist, ExtractFails, Land
  <2>3. QED
    BY <2>1, <2>2, PhasesNeutral
<1>3. CASE Copy \/ Settle \/ Discard \/ UNCHANGED vars
  BY <1>3, PhasesNeutral
     DEF Copy, CopyLands, CopyFails, Settle, Discard, vars, mountVars, writeVars, workVars
<1>4. CASE ApplyMaterialized
  BY <1>4, PhasesNeutral DEF ApplyMaterialized, Landing, writeVars, workVars
<1>5. CASE Read \/ Repack \/ Mount \/ Unmount \/ Write
  BY <1>5, PhasesOn, WriteLands, ReadLands DEF Read, Repack
<1>6. CASE ApplyWritten \/ ApplyWriteFailed \/ ApplyMounted \/ ApplyReadFailed
  BY <1>6, WriteTaken, ReadTaken
<1>7. QED
  BY <1>1, <1>2, <1>3, <1>4, <1>5, <1>6 DEF Next, Drain, User

\* Outside a write the index is that of the archive on disk.
LEMMA PhasesLocate == Phases => LocatorsValid
<1> SUFFICES ASSUME Phases, mounted, ~writing PROVE index = NamesIn(disk)
  BY DEF LocatorsValid
<1>1. ~Written
  BY DEF Phases, Written, EndsWrite
<1>2. QED
  BY <1>1 DEF Phases

-----------------------------------------------------------------------------
(* Files, stats and steps.                                                 *)

LEMMA NamesFinite == IsFiniteSet(Names) /\ Cardinality(Names) \in Nat /\ MaxSaves \in Nat
<1>1. IsFiniteSet(Members) /\ IsFiniteSet(NewNames) /\ MaxSaves \in Nat
  BY WritebackAssumption
<1>2. IsFiniteSet(Names)
  BY <1>1, FS_Union DEF Names
<1>3. QED
  BY <1>1, <1>2, FS_CardinalityType

LEMMA FileSays ==
    /\ NoFile \notin File
    /\ \A d \in Data : /\ Own(d) \in File /\ Own(d).data = d
                       /\ Users(d) \in File /\ Users(d).data = d
    /\ \A f \in File : f.data \in Data
<1>1. File \subseteq [data : [of : Members \cup NewNames, v : Nat], by : {"spyc", "user"}]
  BY NamesFinite DEF File, Data, Names
<1>2. NoFile \notin File
  BY <1>1, WritebackAssumption
<1>3. QED
  BY <1>2 DEF File, Own, Users

LEMMA TouchSays ==
    ASSUME NEW stats \in [Names -> Stat], NEW S
    PROVE  /\ Touch(stats, S) \in [Names -> Stat]
           /\ \A m \in Names :
                 /\ Touch(stats, S)[m] = "same" => stats[m] = "same" /\ m \notin S
                 /\ Touch(stats, S)[m] = "none" <=> stats[m] = "none"
                 /\ m \notin S => Touch(stats, S)[m] = stats[m]
                 /\ stats[m] = "stale" => Touch(stats, S)[m] = "stale"
                 /\ m \in S /\ stats[m] # "none" => Touch(stats, S)[m] = "stale"
BY DEF Touch, Stat

LEMMA BytesSays ==
    ASSUME TypeInv, NEW m, Stored(m)
    PROVE  /\ Bytes(m) \in Data
           /\ \E i \in DOMAIN disk : disk[i].name = m /\ disk[i].data = Bytes(m)
<1>1. \E i \in DOMAIN disk : disk[i].name = m
  BY DEF Stored
<1>2. \E i \in DOMAIN disk : i = CHOOSE k \in DOMAIN disk : disk[k].name = m
  BY <1>1
<1>3. PICK i \in DOMAIN disk : i = CHOOSE k \in DOMAIN disk : disk[k].name = m
  BY <1>2
<1>4. disk[i].name = m /\ Bytes(m) = disk[i].data
  BY <1>1, <1>3 DEF Bytes
<1>5. disk[i] \in Entry
  BY <1>3 DEF TypeInv
<1>6. disk[i].data \in Data
  BY <1>5 DEF Entry
<1>7. QED
  BY <1>3, <1>4, <1>6

LEMMA NoChangesSays == NoChanges \in Journal
BY DEF NoChanges, Journal

LEMMA ListingSays ==
    ASSUME NEW S, NEW s \in Listings(S)
    PROVE  /\ s \in Seq(S)
           /\ \A x \in S : \E i \in DOMAIN s : s[i] = x
           /\ \A i \in DOMAIN s : s[i] \in S
<1>1. s \in SeqOf(S, Cardinality(Names)) /\ ToSet(s) = S
  BY DEF Listings
<1>2. PICK n \in 0..Cardinality(Names) : s \in [1..n -> S]
  BY <1>1 DEF SeqOf
<1>3. s \in Seq(S)
  BY <1>2, NamesFinite
<1>4. QED
  BY <1>1, <1>3 DEF ToSet

LEMMA IndexedSays ==
    ASSUME NEW S, NEW T, NEW s \in Seq(S), NEW t, t = [i \in DOMAIN s |-> t[i]],
           \A i \in DOMAIN s : t[i] \in T
    PROVE  t \in Seq(T)
<1>1. Len(s) \in Nat /\ DOMAIN s = 1..Len(s)
  OBVIOUS
<1>2. t \in [1..Len(s) -> T]
  BY <1>1
<1>3. QED
  BY <1>1, <1>2

\* A plan: a step for each member that stays and each addition, the bytes of
\* what is replaced or was saved since from its copy.
LEMMA PlanSays ==
    ASSUME TypeInv, JournalFits, NEW j \in Journal, NEW steps \in Plans(j)
    PROVE  /\ steps \in Seq(Step)
           /\ {steps[i].name : i \in DOMAIN steps} = (Indexed \ j.deleted) \cup j.added
           /\ \A i \in DOMAIN steps : steps[i].from = "archive" => steps[i].name \in Indexed
           /\ \A m \in j.added : \E i \in DOMAIN steps :
                 steps[i].name = m /\ steps[i].from = "staging"
           /\ \A m \in Indexed \ j.deleted : FromStaging(j, m) =>
                 \E i \in DOMAIN steps : steps[i].name = m /\ steps[i].from = "staging"
<1>1. PICK stay, keep, additions :
         /\ stay = {i \in DOMAIN index : index[i] \notin j.deleted}
         /\ keep \in Listings(stay) /\ additions \in Listings(j.added)
         /\ steps = Steps(j, keep, additions)
  <2> DEFINE set == {i \in DOMAIN index : index[i] \notin j.deleted}
             Sorted(l) == \A i, k \in DOMAIN l : i < k => l[i] < l[k]
  <2>1. steps \in {Steps(j, l, a) : l \in {l \in Listings(set) : Sorted(l)},
                                     a \in Listings(j.added)}
    BY DEF Plans
  <2> HIDE DEF Sorted
  <2>2. \E l \in Listings(set), a \in Listings(j.added) : steps = Steps(j, l, a)
    BY <2>1
  <2>3. QED
    BY <2>2
<1>2. PICK source :
         source = [m \in Names |-> IF FromStaging(j, m) THEN "staging" ELSE "archive"]
  OBVIOUS
<1>3. /\ index \in Seq(Names) /\ j.added \subseteq Names
      /\ source \in [Names -> {"staging", "archive"}]
  BY <1>2 DEF TypeInv, Journal
<1>4. /\ keep \in Seq(stay)
      /\ \A x \in stay : \E i \in DOMAIN keep : keep[i] = x
      /\ \A i \in DOMAIN keep : keep[i] \in stay
  <2>1. keep \in Listings(stay)
    BY <1>1
  <2>2. QED
    BY <2>1, ListingSays
<1>5. /\ additions \in Seq(j.added)
      /\ \A x \in j.added : \E i \in DOMAIN additions : additions[i] = x
      /\ \A i \in DOMAIN additions : additions[i] \in j.added
  BY <1>1, ListingSays
<1>6. \A i \in DOMAIN keep : index[keep[i]] \in Names
  BY <1>1, <1>3, <1>4
<1>7. PICK stays : stays = [i \in DOMAIN keep |->
                        [name |-> index[keep[i]],
                         from |-> IF FromStaging(j, index[keep[i]]) THEN "staging" ELSE "archive"]]
  OBVIOUS
<1>8. PICK extra : extra = [i \in DOMAIN additions |-> [name |-> additions[i], from |-> "staging"]]
  OBVIOUS
<1>9. /\ stays \in Seq(Step) /\ DOMAIN stays = DOMAIN keep
      /\ \A i \in DOMAIN keep : stays[i].name = index[keep[i]] /\ stays[i].from = source[index[keep[i]]]
  <2>1. \A i \in DOMAIN keep : stays[i] \in Step
    BY <1>6, <1>7 DEF Step
  <2>2. DOMAIN stays = DOMAIN keep /\ stays = [i \in DOMAIN keep |-> stays[i]]
    BY <1>7
  <2>3. stays \in Seq(Step)
    BY <1>4, <2>1, <2>2, IndexedSays
  <2>4. QED
    BY <1>2, <1>6, <1>7, <2>2, <2>3
<1>10. /\ extra \in Seq(Step) /\ DOMAIN extra = DOMAIN additions
       /\ \A i \in DOMAIN additions : extra[i].name = additions[i] /\ extra[i].from = "staging"
  <2>1. \A i \in DOMAIN additions : extra[i] \in Step
    BY <1>3, <1>5, <1>8 DEF Step
  <2>2. DOMAIN extra = DOMAIN additions /\ extra = [i \in DOMAIN additions |-> extra[i]]
    BY <1>8
  <2>3. extra \in Seq(Step)
    BY <1>5, <2>1, <2>2, IndexedSays
  <2>4. QED
    BY <1>8, <2>2, <2>3
<1>11. steps = stays \o extra
  BY <1>1, <1>7, <1>8 DEF Steps
<1>12. /\ steps \in Seq(Step)
       /\ \A i \in DOMAIN steps : \/ \E k \in DOMAIN stays : steps[i] = stays[k]
                                  \/ \E k \in DOMAIN extra : steps[i] = extra[k]
       /\ \A k \in DOMAIN stays : \E i \in DOMAIN steps : steps[i] = stays[k]
       /\ \A k \in DOMAIN extra : \E i \in DOMAIN steps : steps[i] = extra[k]
  <2>1. stays \in Seq(Step) /\ extra \in Seq(Step)
    BY <1>9, <1>10
  <2>2. /\ steps \in Seq(Step) /\ Len(steps) = Len(stays) + Len(extra)
        /\ \A i \in 1..(Len(stays) + Len(extra)) :
              steps[i] = IF i <= Len(stays) THEN stays[i] ELSE extra[i - Len(stays)]
    BY <2>1, <1>11, ConcatProperties
  <2>3. /\ Len(stays) \in Nat /\ DOMAIN stays = 1..Len(stays)
        /\ Len(extra) \in Nat /\ DOMAIN extra = 1..Len(extra)
    BY <2>1
  <2>4. DOMAIN steps = 1..(Len(stays) + Len(extra))
    BY <2>2
  <2>5. /\ \A i \in DOMAIN steps : \/ i \in DOMAIN stays /\ steps[i] = stays[i]
                                   \/ i - Len(stays) \in DOMAIN extra /\ steps[i] = extra[i - Len(stays)]
        /\ \A k \in DOMAIN stays : k \in DOMAIN steps /\ steps[k] = stays[k]
        /\ \A k \in DOMAIN extra : Len(stays) + k \in DOMAIN steps /\ steps[Len(stays) + k] = extra[k]
    <3>1. \A i \in 1..(Len(stays) + Len(extra)) :
             \/ i \in 1..Len(stays) /\ i <= Len(stays)
             \/ i - Len(stays) \in 1..Len(extra) /\ ~(i <= Len(stays))
      BY <2>3
    <3>2. \A k \in 1..Len(stays) : k \in 1..(Len(stays) + Len(extra)) /\ k <= Len(stays)
      BY <2>3
    <3>3. \A k \in 1..Len(extra) : /\ Len(stays) + k \in 1..(Len(stays) + Len(extra))
                                /\ ~(Len(stays) + k <= Len(stays)) /\ (Len(stays) + k) - Len(stays) = k
      BY <2>3
    <3>4. QED
      BY <2>2, <2>3, <2>4, <3>1, <3>2, <3>3
  <2>6. QED
    BY <2>2, <2>5, Zenon
<1>13. \A k \in DOMAIN keep : index[keep[k]] \in Indexed \ j.deleted
  BY <1>1, <1>4 DEF Indexed, ToSet
<1>14. \A i \in DOMAIN steps :
         \/ /\ steps[i].name \in Indexed \ j.deleted
            /\ steps[i].from = source[steps[i].name]
         \/ steps[i].name \in j.added /\ steps[i].from = "staging"
  <2>1. ASSUME NEW i \in DOMAIN steps, NEW k \in DOMAIN stays, steps[i] = stays[k]
        PROVE  steps[i].name \in Indexed \ j.deleted /\ steps[i].from = source[steps[i].name]
    <3>1. steps[i].name = index[keep[k]] /\ steps[i].from = source[index[keep[k]]] /\ k \in DOMAIN keep
      BY <1>9, <2>1
    <3>2. QED
      BY <3>1, <1>13
  <2>2. ASSUME NEW i \in DOMAIN steps, NEW k \in DOMAIN extra, steps[i] = extra[k]
        PROVE  steps[i].name \in j.added /\ steps[i].from = "staging"
    BY <1>5, <1>10, <2>2
  <2>3. QED
    BY <1>12, <2>1, <2>2
<1>15. \A m \in j.added : \E i \in DOMAIN steps :
          steps[i].name = m /\ steps[i].from = "staging"
  <2>1. ASSUME NEW m \in j.added
        PROVE  \E k \in DOMAIN extra : extra[k].name = m /\ extra[k].from = "staging"
    BY <1>5, <1>10, <2>1
  <2>2. QED
    BY <1>12, <2>1
<1>16. \A m \in Indexed \ j.deleted : \E i \in DOMAIN steps :
          steps[i].name = m /\ steps[i].from = source[m]
  <2>1. ASSUME NEW m \in Indexed \ j.deleted
        PROVE  \E k \in DOMAIN stays : stays[k].name = m /\ stays[k].from = source[m]
    <3>1. PICK x \in DOMAIN index : index[x] = m
      BY <2>1 DEF Indexed, ToSet
    <3>2. x \in stay
      BY <1>1, <2>1, <3>1
    <3>3. QED
      BY <1>4, <1>9, <3>1, <3>2
  <2>2. QED
    BY <1>12, <2>1
<1>17. {steps[i].name : i \in DOMAIN steps} = (Indexed \ j.deleted) \cup j.added
  BY <1>14, <1>15, <1>16
<1>18. \A i \in DOMAIN steps : steps[i].from = "archive" => steps[i].name \in Indexed
  BY <1>14
<1>19. Indexed \subseteq Names
  BY <1>3 DEF Indexed, ToSet
<1>20. \A m \in Indexed \ j.deleted : FromStaging(j, m) =>
          \E i \in DOMAIN steps : steps[i].name = m /\ steps[i].from = "staging"
  BY <1>2, <1>16, <1>19
<1>21. QED
  BY <1>12, <1>15, <1>17, <1>18, <1>20

LEMMA IndexedNames == TypeInv => Indexed \subseteq Names
BY DEF TypeInv, Indexed, ToSet

-----------------------------------------------------------------------------
(* Types.                                                                  *)

\* A save spyc knows is of a mounted archive: to a member it has stat'ed or
\* holds a change for, that nothing extracts, and that no write carries as an
\* addition.
LEMMA WhenSays ==
    ASSUME NEW m
    PROVE  /\ When(m) \in {"reread", "late_addition", "recorded", "unrecorded"}
           /\ When(m) = "recorded" =>
                 /\ mounted /\ ~(writing /\ m \in journal.added)
                 /\ m \notin journal.deleted /\ ~Extracting(m)
                 /\ recorded[m] # "none" \/ m \in journal.replaced \cup journal.added
BY DEF When

LEMMA SavedTypes ==
    ASSUME TypeInv, NEW m \in Names, NEW d \in Data, SavedAs(m, d)
    PROVE  /\ staging' \in [Names -> Optional]
           /\ recorded' \in [Names -> Stat] /\ planned' \in [Names -> Stat]
           /\ last' \in [Names -> Saved]
<1>1. Users(d) \in Optional
  BY FileSays DEF Optional
<1>2. [at |-> When(m), data |-> d] \in Saved
  BY WhenSays DEF Saved
<1>3. recorded' \in [Names -> Stat] /\ planned' \in [Names -> Stat]
  BY TouchSays DEF TypeInv, SavedAs
<1>4. QED
  BY <1>1, <1>2, <1>3 DEF TypeInv, SavedAs

LEMMA SaveTypes ==
    ASSUME TypeInv, (\E m \in Names : Save(m)) \/ Copy
    PROVE  TypeInv'
<1>1. ASSUME NEW m \in Names, Save(m) PROVE TypeInv'
  <2>1. [of |-> m, v |-> saves + 1] \in Data /\ saves' \in 0..MaxSaves
    BY <1>1, NamesFinite DEF Save, TypeInv, Data
  <2>2. SavedAs(m, [of |-> m, v |-> saves + 1])
    BY <1>1 DEF Save
  <2>3. QED
    BY <1>1, <2>1, <2>2, SavedTypes DEF Save, TypeInv, workVars
<1>2. CASE CopyLands
  <2>1. copying.name \in Names /\ copying.data \in Data
    BY <1>2 DEF CopyLands, TypeInv
  <2>2. QED
    BY <1>2, <2>1, SavedTypes DEF CopyLands, TypeInv, boundVars
<1>3. CASE CopyFails
  BY <1>3 DEF CopyFails, TypeInv, mountVars, writeVars, boundVars
<1>4. QED
  BY <1>1, <1>2, <1>3 DEF Copy

LEMMA ExtractTypes ==
    ASSUME TypeInv, NEW o \in Ops, Extract(o)
    PROVE  TypeInv'
<1>1. mats[o] \in Extraction /\ Idle \in Extraction
  BY DEF TypeInv, Extraction
<1>2. CASE ExtractRead(o)
  <2>1. mats[o].name \in Names
    BY <1>1, <1>2 DEF ExtractRead, Extraction, Idle
  <2>2. \E S : landed' \in Seq(S)
    BY <1>2, LandSays DEF ExtractRead, Land, TypeInv
  <2>3. mats' \in [Ops -> Extraction]
    <3>1. CASE Staged(mats[o].name)
      BY <1>1, <1>2, <3>1 DEF ExtractRead, TypeInv
    <3>2. CASE ~Staged(mats[o].name)
      <4>1. disk[mats[o].pos] \in Entry
        BY <1>2, <3>2 DEF ExtractRead, TypeInv
      <4>2. [at |-> "read", name |-> mats[o].name, data |-> disk[mats[o].pos].data] \in Extraction
        BY <2>1, <4>1 DEF Extraction, Entry
      <4>3. QED
        BY <1>2, <3>2, <4>2 DEF ExtractRead, TypeInv
    <3>3. QED
      BY <3>1, <3>2
  <2>4. QED
    BY <1>2, <2>2, <2>3 DEF ExtractRead, TypeInv, mountVars, writeVars, boundVars
<1>3. CASE ExtractPersist(o)
  <2>1. mats[o].name \in Names /\ mats[o].data \in Data
    BY <1>1, <1>3 DEF ExtractPersist, Extraction, Idle
  <2>2. Own(mats[o].data) \in Optional
    BY <2>1, FileSays DEF Optional
  <2>3. \E S : landed' \in Seq(S)
    BY <1>3, LandSays DEF ExtractPersist, Land, TypeInv
  <2>4. recorded' \in [Names -> Stat] /\ planned' \in [Names -> Stat]
    <3>1. PICK S : recorded' = Touch(recorded, S) /\ planned' = Touch(planned, S)
      BY <1>3 DEF ExtractPersist
    <3>2. QED
      BY <3>1, TouchSays DEF TypeInv
  <2>5. staging' \in [Names -> Optional] /\ mats' \in [Ops -> Extraction]
    BY <1>1, <1>3, <2>2 DEF ExtractPersist, TypeInv
  <2>6. QED
    BY <1>3, <2>3, <2>4, <2>5 DEF ExtractPersist, TypeInv, boundVars
<1>4. CASE ExtractFails(o)
  BY <1>1, <1>4 DEF ExtractFails, TypeInv, mountVars, writeVars, boundVars
<1>5. QED
  BY <1>2, <1>3, <1>4 DEF Extract

\* The members extracted on the way, or back into the tree, are of the archive.
LEMMA FilledTypes ==
    ASSUME TypeInv, NEW S, \A m \in S : Stored(m)
    PROVE  [m \in Names |-> IF m \in S THEN Own(Bytes(m)) ELSE staging[m]] \in [Names -> Optional]
<1>1. \A m \in S : Own(Bytes(m)) \in Optional
  BY BytesSays, FileSays DEF Optional
<1>2. QED
  BY <1>1 DEF TypeInv

LEMMA ReadTypes ==
    ASSUME TypeInv, Read
    PROVE  TypeInv'
<1>1. CASE ResetStaging
  BY <1>1 DEF ResetStaging, TypeInv, NoFiles, Optional, mountVars, writeVars, boundVars
<1>2. CASE ReadArchive
  <2>1. \E S : landed' \in Seq(S)
    BY <1>2, LandSays DEF ReadArchive, Land, TypeInv
  <2>2. PICK S : S = {m \in Names : streamed /\ Stored(m)}
    OBVIOUS
  <2>3. staging' = [m \in Names |-> IF m \in S THEN Own(Bytes(m)) ELSE staging[m]]
    BY <1>2, <2>2 DEF ReadArchive
  <2>4. staging' \in [Names -> Optional]
    BY <2>2, <2>3, FilledTypes
  <2>5. QED
    BY <1>2, <2>1, <2>4 DEF ReadArchive, TypeInv, mountVars, writeVars, boundVars
<1>3. CASE ReadFails
  <2>1. \E S : landed' \in Seq(S)
    BY <1>3, LandSays DEF ReadFails, Land, TypeInv
  <2>2. PICK done \in SUBSET {m \in Names : streamed /\ Stored(m)} :
           staging' = [m \in Names |-> IF m \in done THEN Own(Bytes(m)) ELSE staging[m]]
    BY <1>3 DEF ReadFails
  <2>3. staging' \in [Names -> Optional]
    BY <2>2, FilledTypes
  <2>4. QED
    BY <1>3, <2>1, <2>3 DEF ReadFails, TypeInv, mountVars, writeVars, boundVars
<1>4. QED
  BY <1>1, <1>2, <1>3 DEF Read

\* While the new archive is made the index is that of the old one.
LEMMA PlannedOver ==
    ASSUME TypeInv, Phases, writer # Idle
    PROVE  /\ writing /\ mounted /\ reader = Idle /\ ~Written
           /\ Indexed = {disk[i].name : i \in DOMAIN disk}
           /\ \A m \in Indexed : Stored(m)
<1>1. writing /\ mounted /\ reader = Idle /\ ~Written
  BY DEF Phases, Written, EndsWrite
<1>2. index = NamesIn(disk)
  BY <1>1 DEF Phases
<1>3. QED
  BY <1>1, <1>2 DEF NamesIn, Indexed, ToSet, Stored

LEMMA PackTypes ==
    ASSUME TypeInv, Phases, WriteFits, Pack
    PROVE  TypeInv'
<1>1. writer.at = "planned" /\ writer # Idle
  BY DEF Pack, Idle
<1>2. PICK steps, S, tree :
         /\ steps = writer.steps
         /\ S = Refilled(steps)
         /\ tree = [m \in Names |-> IF m \in S THEN Own(Bytes(m)) ELSE staging[m]]
  OBVIOUS
<1>3. steps \in Seq(Step)
  BY <1>1, <1>2 DEF TypeInv, Idle
<1>4. /\ staging' = tree
      /\ \A i \in DOMAIN steps :
            (steps[i].from = "archive" /\ ~streamed) \/ tree[steps[i].name] # NoFile
      /\ writer' = [at |-> "packed", entries |-> Repacked(steps, tree)]
  BY <1>2 DEF Pack
<1>5. \A m \in S : Stored(m)
  BY <1>2 DEF Refilled
<1>6. tree \in [Names -> Optional]
  BY <1>2, <1>5, FilledTypes
<1>7. \A i \in DOMAIN steps : steps[i].from = "archive" => Stored(steps[i].name)
  BY <1>1, <1>2, PlannedOver DEF WriteFits
<1>8. PICK packed : packed = Repacked(steps, tree)
  OBVIOUS
<1>9. packed \in Seq(Entry)
  <2>1. packed = [i \in DOMAIN steps |-> packed[i]]
    BY <1>8 DEF Repacked
  <2>2. ASSUME NEW i \in DOMAIN steps PROVE packed[i] \in Entry
    <3>1. steps[i] \in Step
      BY <1>3
    <3>2. steps[i].name \in Names
      BY <3>1 DEF Step
    <3>3. PICK d : d = IF steps[i].from = "archive" /\ ~streamed
                       THEN Bytes(steps[i].name) ELSE tree[steps[i].name].data
      OBVIOUS
    <3>4. d \in Data
      <4>1. CASE steps[i].from = "archive" /\ ~streamed
        BY <1>7, <3>3, <4>1, BytesSays
      <4>2. CASE ~(steps[i].from = "archive" /\ ~streamed)
        <5>1. tree[steps[i].name] \in File
          BY <1>4, <1>6, <3>2, <4>2 DEF Optional
        <5>2. QED
          BY <3>3, <4>2, <5>1, FileSays
      <4>3. QED
        BY <4>1, <4>2
    <3>5. packed[i] = [name |-> steps[i].name, data |-> d]
      BY <1>8, <3>3 DEF Repacked
    <3>6. QED
      BY <3>2, <3>4, <3>5 DEF Entry
  <2>3. QED
    BY <1>3, <2>1, <2>2, IndexedSays
<1>10. QED
  BY <1>4, <1>6, <1>8, <1>9 DEF Pack, TypeInv, mountVars, workVars, boundVars

LEMMA RepackTypes ==
    ASSUME TypeInv, Phases, WriteFits, Repack
    PROVE  TypeInv'
<1>1. CASE Persist
  <2>1. \E S : landed' \in Seq(S)
    BY <1>1, LandSays DEF Persist, Land, TypeInv
  <2>2. disk' \in Seq(Entry) /\ writer' = Idle
    BY <1>1 DEF Persist, TypeInv, Idle
  <2>3. QED
    BY <1>1, <2>1, <2>2 DEF Persist, TypeInv, mountVars, workVars, boundVars
<1>2. CASE WriteFails
  <2>1. \E S : landed' \in Seq(S)
    BY <1>2, LandSays DEF WriteFails, Land, TypeInv
  <2>2. QED
    BY <1>2, <2>1 DEF WriteFails, TypeInv, mountVars, workVars, boundVars
<1>3. QED
  BY <1>1, <1>2, PackTypes DEF Repack

\* A copy that could not be moved is a recorded edit no more; nothing else
\* changes.
LEMMA UnmovedSays ==
    ASSUME last \in [Names -> Saved], NEW S
    PROVE  /\ Unmoved(S) \in [Names -> Saved]
           /\ \A m \in Names : Unmoved(S)[m].at = "recorded" =>
                 Unmoved(S)[m] = last[m] /\ m \notin S
<1>1. ASSUME NEW m \in Names
      PROVE  /\ Unmoved(S)[m] \in Saved
             /\ Unmoved(S)[m].at = "recorded" => Unmoved(S)[m] = last[m] /\ m \notin S
  <2>1. last[m] \in Saved
    OBVIOUS
  <2>2. CASE m \in S /\ last[m].at = "recorded"
    <3>1. Unmoved(S)[m] = [last[m] EXCEPT !.at = "unmoved"]
      BY <2>2 DEF Unmoved
    <3>2. PICK d \in Data : last[m] = [at |-> "recorded", data |-> d]
      BY <2>1, <2>2 DEF Saved, NoSave
    <3>3. Unmoved(S)[m] = [at |-> "unmoved", data |-> d]
      BY <3>1, <3>2
    <3>4. QED
      BY <3>3 DEF Saved
  <2>3. CASE ~(m \in S /\ last[m].at = "recorded")
    BY <2>1, <2>3 DEF Unmoved
  <2>4. QED
    BY <2>2, <2>3
<1>2. QED
  BY <1>1 DEF Unmoved

LEMMA LandedTypes ==
    ASSUME TypeInv, Phases, Drain
    PROVE  TypeInv'
<1>1. \E S : landed' \in Seq(S)
  BY TakeSays
     DEF Drain, ApplyWritten, ApplyWriteFailed, ApplyMounted, ApplyReadFailed,
         ApplyMaterialized, Landing, TypeInv
<1>2. NoStats \in [Names -> Stat] /\ NoFiles \in [Names -> Optional] /\ <<>> \in Seq(Names)
  BY DEF NoStats, NoFiles, Stat, Optional
<1>3. CASE ApplyWritten
  <2>1. PICK failed :
           /\ held' = [m \in Names |-> IF m \in Late \ failed THEN staging[m] ELSE held[m]]
           /\ staging' = [m \in Names |-> IF m \in Late \ failed THEN NoFile ELSE staging[m]]
           /\ last' = [m \in Names |-> IF Settled(m) THEN NoSave ELSE Unmoved(failed)[m]]
    BY <1>3 DEF ApplyWritten
  <2>2. held' \in [Names -> Optional] /\ staging' \in [Names -> Optional]
    BY <2>1 DEF TypeInv, Optional
  <2>3. last' \in [Names -> Saved]
    <3>1. Unmoved(failed) \in [Names -> Saved] /\ NoSave \in Saved
      BY UnmovedSays DEF TypeInv, Saved
    <3>2. QED
      BY <2>1, <3>1
  <2>4. QED
    BY <1>1, <1>2, <1>3, <2>2, <2>3, NoChangesSays DEF ApplyWritten, Dismount, TypeInv, boundVars
<1>4. CASE ApplyWriteFailed
  BY <1>1, <1>2, <1>4 DEF ApplyWriteFailed, TypeInv, mountVars, workVars, boundVars
<1>5. CASE ApplyMounted
  <2>1. PICK read, due, own, back : PutBack(read, due, own, back)
    BY <1>5, MountedSays
  <2>2. /\ read = Head(landed).index
        /\ own = [m \in Names |-> IF m \in ToSet(read) /\ Staged(m) THEN "same" ELSE "none"]
        /\ index' = read
        /\ journal' = [deleted |-> {}, replaced |-> back \cap ToSet(read),
                       added |-> back \ ToSet(read)]
        /\ recorded' = Touch(own, back)
        /\ staging' = [m \in Names |-> IF m \in back THEN held[m] ELSE staging[m]]
        /\ last' = Unmoved(due \ back)
        /\ back \subseteq Names
    BY <2>1 DEF PutBack
  <2>3. /\ mounted' = TRUE /\ held' = NoFiles /\ reader' = Idle
        /\ UNCHANGED <<streamed, disk, writing, planned, writer, mats, copying, saves>>
        /\ last' \in [Names -> Saved]
    BY <1>5, <2>2, UnmovedSays DEF ApplyMounted, writeVars, boundVars, TypeInv
  <2>4. read \in Seq(Names)
    <3>1. 1 \in DOMAIN landed /\ Head(landed) = landed[1] /\ landed[1].kind = "mounted"
      BY <1>5, TakeSays DEF ApplyMounted, Landing, TypeInv
    <3>2. read = NamesIn(disk)
      BY <2>2, <3>1 DEF Phases
    <3>3. disk \in Seq(Entry) /\ \A i \in DOMAIN disk : disk[i] \in Entry
      BY DEF TypeInv
    <3>4. read = [i \in DOMAIN disk |-> read[i]] /\ \A i \in DOMAIN disk : read[i] \in Names
      BY <3>2, <3>3 DEF NamesIn, Entry
    <3>5. QED
      BY <3>3, <3>4, IndexedSays
  <2>5. journal' \in Journal
    BY <2>2 DEF Journal
  <2>6. recorded' \in [Names -> Stat]
    <3>1. own \in [Names -> Stat]
      BY <2>2 DEF Stat
    <3>2. QED
      BY <2>2, <3>1, TouchSays
  <2>7. staging' \in [Names -> Optional]
    BY <2>2 DEF TypeInv
  <2>8. QED
    BY <1>1, <1>2, <2>2, <2>3, <2>4, <2>5, <2>6, <2>7 DEF TypeInv, Idle
<1>6. CASE ApplyReadFailed
  BY <1>1, <1>6 DEF ApplyReadFailed, TypeInv, Idle, mountVars, writeVars, boundVars
<1>7. CASE ApplyMaterialized
  <2>1. recorded' \in [Names -> Stat]
    BY <1>7 DEF ApplyMaterialized, TypeInv, Stat
  <2>2. QED
    BY <1>1, <1>7, <2>1 DEF ApplyMaterialized, TypeInv, writeVars, workVars, boundVars
<1>8. QED
  BY <1>3, <1>4, <1>5, <1>6, <1>7 DEF Drain

\* A scan adds to what is replaced, and only members.
LEMMA NoticedSays ==
    ASSUME TypeInv
    PROVE  /\ Noticed \in Journal
           /\ Noticed.deleted = journal.deleted /\ Noticed.added = journal.added
           /\ journal.replaced \subseteq Noticed.replaced
           /\ Noticed.replaced \subseteq journal.replaced \cup Indexed
           /\ \A m \in Indexed : recorded[m] = "stale" /\ Staged(m) => m \in Noticed.replaced
BY IndexedNames DEF TypeInv, Journal, Noticed

LEMMA UserTypes ==
    ASSUME TypeInv, JournalFits, Settle \/ User
    PROVE  TypeInv'
<1>1. NoStats \in [Names -> Stat] /\ NoFiles \in [Names -> Optional] /\ <<>> \in Seq(Names)
      /\ NoSave \in Saved /\ NoFile \in Optional
  BY DEF NoStats, NoFiles, Stat, Optional, Saved
<1>2. CASE Settle
  BY <1>2, NoticedSays DEF Settle, TypeInv, writeVars, workVars, boundVars
<1>3. CASE Mount
  BY <1>3 DEF Mount, TypeInv, mountVars, writeVars, boundVars
<1>4. CASE Discard
  <2>1. /\ staging' \in [Names -> Optional] /\ recorded' \in [Names -> Stat]
        /\ last' \in [Names -> Saved]
    BY <1>1, <1>4 DEF Discard, TypeInv, Stat
  <2>2. QED
    BY <1>4, <2>1, NoChangesSays DEF Discard, TypeInv, writeVars, workVars, boundVars
<1>5. CASE Unmount
  <2>1. last' \in [Names -> Saved]
    BY <1>1, <1>5 DEF Unmount, TypeInv
  <2>2. QED
    BY <1>1, <1>5, <2>1, NoChangesSays
       DEF Unmount, Dismount, TypeInv, writeVars, workVars, boundVars
<1>6. CASE Write
  <2>1. PICK steps \in Plans(Noticed) : writer' = [at |-> "planned", steps |-> steps]
    BY <1>6 DEF Write
  <2>2. steps \in Seq(Step)
    BY <2>1, NoticedSays, PlanSays
  <2>3. planned' \in [Names -> Stat]
    BY <1>6 DEF Write, Stat
  <2>4. QED
    BY <1>6, <2>1, <2>2, <2>3, NoticedSays DEF Write, TypeInv, workVars
<1>7. ASSUME NEW m \in Names, CopyIn(m) PROVE TypeInv'
  <2>1. [of |-> m, v |-> saves + 1] \in Data /\ saves' \in 0..MaxSaves
    BY <1>7, NamesFinite DEF CopyIn, TypeInv, Data
  <2>2. journal' \in Journal
    BY <1>7 DEF CopyIn, BroughtIn, TypeInv, Journal
  <2>3. copying' \in [at : {"copying"}, name : Names, data : Data]
    BY <1>7, <2>1 DEF CopyIn
  <2>4. QED
    BY <1>7, <2>1, <2>2, <2>3 DEF CopyIn, TypeInv, writeVars
<1>8. ASSUME NEW m \in Names, Delete(m) PROVE TypeInv'
  <2>1. journal' \in Journal
    <3>1. \/ journal' = [journal EXCEPT !.added = @ \ {m}]
          \/ journal' = [journal EXCEPT !.deleted = @ \cup {m}]
      BY <1>8 DEF Delete
    <3>2. journal \in Journal
      BY DEF TypeInv
    <3>3. [journal EXCEPT !.added = @ \ {m}] \in Journal
      BY <3>2 DEF Journal
    <3>4. [journal EXCEPT !.deleted = @ \cup {m}] \in Journal
      BY <3>2 DEF Journal
    <3>5. QED
      BY <3>1, <3>3, <3>4
  <2>2. recorded' \in [Names -> Stat] /\ staging' \in [Names -> Optional]
    <3>1. PICK S : S = {m}
      OBVIOUS
    <3>2. recorded' = Touch(recorded, S) \/ recorded' = recorded
      BY <1>8, <3>1 DEF Delete
    <3>3. recorded' \in [Names -> Stat]
      BY <3>2, TouchSays DEF TypeInv
    <3>4. staging' = [staging EXCEPT ![m] = NoFile] \/ staging' = staging
      BY <1>8 DEF Delete
    <3>5. staging \in [Names -> Optional]
      BY DEF TypeInv
    <3>6. [staging EXCEPT ![m] = NoFile] \in [Names -> Optional]
      BY <1>1, <3>5
    <3>7. QED
      BY <3>3, <3>4, <3>5, <3>6
  <2>3. last' \in [Names -> Saved]
    BY <1>1, <1>8 DEF Delete, TypeInv
  <2>4. QED
    BY <1>8, <2>1, <2>2, <2>3 DEF Delete, TypeInv, writeVars, workVars, boundVars
<1>9. ASSUME NEW m \in Names, NEW o \in Ops, Open(m, o) PROVE TypeInv'
  <2>1. PICK i \in DOMAIN index : i = CHOOSE k \in DOMAIN index : index[k] = m
    BY <1>9 DEF Open, Indexed, ToSet
  <2>2. i \in Nat
    BY <2>1 DEF TypeInv
  <2>3. mats' = [mats EXCEPT ![o] = [at |-> "asked", name |-> m, pos |-> i]]
    BY <1>9, <2>1 DEF Open
  <2>4. [at |-> "asked", name |-> m, pos |-> i] \in Extraction
    BY <2>2 DEF Extraction
  <2>5. mats' \in [Ops -> Extraction]
    BY <2>3, <2>4 DEF TypeInv
  <2>6. UNCHANGED <<streamed, disk, mountVars, staging, writeVars, reader, copying,
                    landed, held, last, saves>>
    BY <1>9 DEF Open
  <2>7. QED
    BY <2>5, <2>6 DEF TypeInv, mountVars, writeVars
<1>10. QED
  BY <1>2, <1>3, <1>4, <1>5, <1>6, <1>7, <1>8, <1>9 DEF User

LEMMA TypeStep ==
    ASSUME IInv, [Next]_vars
    PROVE  TypeInv'
<1>1. TypeInv /\ Phases /\ JournalFits /\ WriteFits
  BY DEF IInv
<1>2. CASE UNCHANGED vars
  BY <1>1, <1>2 DEF TypeInv, vars, mountVars, writeVars, workVars, boundVars
<1>3. CASE Next
  BY <1>1, <1>3, SaveTypes, ExtractTypes, ReadTypes, RepackTypes, LandedTypes, UserTypes
     DEF Next
<1>4. QED
  BY <1>2, <1>3

-----------------------------------------------------------------------------
(* The journal, and what the write under way leaves in the archive.        *)

LEMMA JournalStep ==
    ASSUME TypeInv, JournalFits, [Next]_vars
    PROVE  JournalFits'
<1>1. recorded \in [Names -> Stat]
  BY DEF TypeInv
<1>2. ASSUME UNCHANGED <<journal, index>>,
             \A m \in Names : recorded'[m] # "none" => recorded[m] # "none" \/ m \in Indexed
      PROVE  JournalFits'
  BY <1>2 DEF JournalFits, Indexed
<1>3. ASSUME NEW m \in Names, NEW d, SavedAs(m, d), UNCHANGED <<journal, index>>
      PROVE  JournalFits'
  BY <1>1, <1>2, <1>3, TouchSays DEF SavedAs
<1>4. ASSUME NEW m \in Names, Save(m) \/ CopyIn(m) \/ Delete(m) \/ \E o \in Ops : Open(m, o)
      PROVE  JournalFits'
  <2>1. CASE Save(m)
    BY <1>3, <2>1 DEF Save
  <2>2. CASE CopyIn(m)
    BY <2>2 DEF CopyIn, BroughtIn, TypeInv, Journal, JournalFits, Indexed
  <2>3. CASE Delete(m)
    <3>1. PICK S : S = {m}
      OBVIOUS
    <3>2. recorded' = Touch(recorded, S) \/ recorded' = recorded
      BY <2>3, <3>1 DEF Delete
    <3>3. \A x \in Names : recorded'[x] # "none" => recorded[x] # "none"
      BY <1>1, <3>2, TouchSays
    <3>4. QED
      BY <2>3, <3>3 DEF Delete, TypeInv, Journal, JournalFits, Indexed
  <2>4. ASSUME NEW o \in Ops, Open(m, o) PROVE JournalFits'
    BY <1>2, <2>4 DEF Open, mountVars
  <2>5. QED
    BY <1>4, <2>1, <2>2, <2>3, <2>4
<1>5. CASE Copy
  <2>1. copying # Idle => copying.name \in Names
    BY DEF TypeInv
  <2>2. QED
    BY <1>2, <1>3, <1>5, <2>1 DEF Copy, CopyLands, CopyFails, mountVars
<1>6. ASSUME NEW o \in Ops, Extract(o) PROVE JournalFits'
  <2>1. CASE ExtractPersist(o)
    <3>1. PICK S : recorded' = Touch(recorded, S)
      BY <2>1 DEF ExtractPersist
    <3>2. \A x \in Names : recorded'[x] # "none" => recorded[x] # "none"
      BY <1>1, <3>1, TouchSays
    <3>3. QED
      BY <1>2, <2>1, <3>2 DEF ExtractPersist
  <2>2. CASE ExtractRead(o) \/ ExtractFails(o)
    BY <1>2, <2>2 DEF ExtractRead, ExtractFails, mountVars
  <2>3. QED
    BY <1>6, <2>1, <2>2 DEF Extract
<1>7. CASE Read \/ Repack \/ ApplyWriteFailed \/ ApplyReadFailed \/ Mount \/ UNCHANGED vars
  BY <1>2, <1>7
     DEF Read, ResetStaging, ReadArchive, ReadFails, Repack, Pack, Persist, WriteFails,
         ApplyWriteFailed, ApplyReadFailed, Mount, vars, mountVars
<1>8. CASE ApplyMaterialized
  BY <1>1, <1>2, <1>8 DEF ApplyMaterialized
<1>9. CASE ApplyWritten \/ Unmount
  BY <1>9 DEF ApplyWritten, Unmount, Dismount, NoChanges, NoStats, JournalFits, Indexed, ToSet
<1>10. CASE ApplyMounted
  <2>1. PICK read, due, own, back : PutBack(read, due, own, back)
    BY <1>10, MountedSays
  <2>2. /\ own = [m \in Names |-> IF m \in ToSet(read) /\ Staged(m) THEN "same" ELSE "none"]
        /\ index' = read
        /\ journal' = [deleted |-> {}, replaced |-> back \cap ToSet(read),
                       added |-> back \ ToSet(read)]
        /\ recorded' = Touch(own, back)
    BY <2>1 DEF PutBack
  <2>3. own \in [Names -> Stat]
    BY <2>2 DEF Stat
  <2>4. \A m \in Names : recorded'[m] # "none" => m \in ToSet(read)
    BY <2>2, <2>3, TouchSays
  <2>5. QED
    BY <2>2, <2>4 DEF JournalFits, Indexed
<1>11. CASE Settle \/ Write
  BY <1>11, NoticedSays DEF Settle, Write, JournalFits, Indexed
<1>12. CASE Discard
  BY <1>1, <1>12 DEF Discard, NoChanges, JournalFits, Indexed
<1>13. QED
  BY <1>4, <1>5, <1>6, <1>7, <1>8, <1>9, <1>10, <1>11, <1>12 DEF Next, Drain, User

\* Only Persist lands that the archive is replaced.
LEMMA StillUnwritten ==
    ASSUME TypeInv,
           \/ landed' = landed
           \/ \E out : out.kind # "written" /\ landed' = Append(landed, out)
           \/ landed # <<>> /\ landed' = Tail(landed)
    PROVE  Written' => Written
<1>1. \E S : landed \in Seq(S)
  BY DEF TypeInv
<1>2. CASE landed' = landed
  BY <1>2 DEF Written
<1>3. CASE \E out : out.kind # "written" /\ landed' = Append(landed, out)
  BY <1>1, <1>3, LandSays DEF Written
<1>4. CASE landed # <<>> /\ landed' = Tail(landed)
  BY <1>1, <1>4, TakeSays DEF Written
<1>5. QED
  BY <1>2, <1>3, <1>4

LEMMA UnwrittenStep ==
    ASSUME TypeInv, [Next]_vars, ~Persist
    PROVE  Written' => Written
<1>1. \/ landed' = landed
      \/ \E out : out.kind # "written" /\ landed' = Append(landed, out)
      \/ landed # <<>> /\ landed' = Tail(landed)
  <2>1. ASSUME NEW m \in Names, Save(m) \/ CopyIn(m) \/ Delete(m) \/ \E o \in Ops : Open(m, o)
        PROVE  landed' = landed
    BY <2>1 DEF Save, CopyIn, Delete, Open
  <2>2. ASSUME NEW o \in Ops, Extract(o)
        PROVE  landed' = landed
                  \/ landed' = Append(landed, [kind |-> "materialized", name |-> mats[o].name])
    BY <2>2 DEF Extract, ExtractRead, ExtractPersist, ExtractFails, Land
  <2>3. CASE Copy \/ Settle \/ Discard \/ Mount \/ Unmount \/ Write \/ ResetStaging \/ Pack
             \/ UNCHANGED vars
    BY <2>3
       DEF Copy, CopyLands, CopyFails, Settle, Discard, Mount, Unmount, Write, ResetStaging,
           Pack, vars
  <2>4. CASE ReadArchive
    BY <2>4 DEF ReadArchive, Land
  <2>5. CASE ReadFails \/ WriteFails
    BY <2>5 DEF ReadFails, WriteFails, Land
  <2>6. CASE Drain
    BY <2>6 DEF Drain, ApplyWritten, ApplyWriteFailed, ApplyMounted, ApplyReadFailed,
                ApplyMaterialized, Landing
  <2>7. QED
    BY <2>1, <2>2, <2>3, <2>4, <2>5, <2>6 DEF Next, Read, Repack, User
<1>2. QED
  BY <1>1, StillUnwritten

\* With no write under way there is none to fit, or to carry anything.
LEMMA NoWriteFits ==
    ASSUME Phases, ~writing
    PROVE  WriteFits
BY DEF Phases, WriteFits, Written, EndsWrite, Idle

LEMMA NothingCarried ==
    ASSUME Phases', ~writing', NEW m
    PROVE  Carried(m)'
<1>1. writer' = Idle /\ ~Written'
  BY DEF Phases, Written, EndsWrite
<1>2. QED
  BY <1>1 DEF Carried, Idle

LEMMA FitsStep ==
    ASSUME TypeInv, Phases, Phases', JournalFits, WriteFits, [Next]_vars
    PROVE  WriteFits'
<1>1. CASE ~writing'
  BY <1>1, NoWriteFits, PTL
<1>2. CASE Persist
  <2>1. /\ writer.at = "packed" /\ writer' = Idle /\ disk' = writer.entries
        /\ UNCHANGED <<index, journal>>
    BY <1>2 DEF Persist, mountVars
  <2>2. QED
    BY <2>1 DEF WriteFits, Has, Indexed, Idle
<1>3. CASE Pack
  <2>1. PICK tree : writer' = [at |-> "packed", entries |-> Repacked(writer.steps, tree)]
    BY <1>3 DEF Pack
  <2>2. writer.at = "planned" /\ UNCHANGED <<index, journal, disk, landed>>
    BY <1>3 DEF Pack, mountVars
  <2>3. /\ DOMAIN writer'.entries = DOMAIN writer.steps
        /\ \A i \in DOMAIN writer.steps : writer'.entries[i].name = writer.steps[i].name
    BY <2>1 DEF Repacked
  <2>4. {writer'.entries[i].name : i \in DOMAIN writer'.entries}
           = {writer.steps[i].name : i \in DOMAIN writer.steps}
    BY <2>3
  <2>5. Written' = Written
    BY <2>2 DEF Written
  <2>6. QED
    BY <2>1, <2>2, <2>4, <2>5 DEF WriteFits, Has, Indexed
<1>4. CASE Write
  <2>1. PICK steps \in Plans(Noticed) : writer' = [at |-> "planned", steps |-> steps]
    BY <1>4 DEF Write
  <2>2. /\ {steps[i].name : i \in DOMAIN steps} = (Indexed \ Noticed.deleted) \cup Noticed.added
        /\ \A i \in DOMAIN steps : steps[i].from = "archive" => steps[i].name \in Indexed
    BY <2>1, NoticedSays, PlanSays
  <2>3. ~Written /\ landed' = landed /\ journal' = Noticed /\ index' = index
    BY <1>4 DEF Write, Changeable, Phases, Written, EndsWrite
  <2>4. ~Written'
    BY <2>3 DEF Written
  <2>5. QED
    BY <2>1, <2>2, <2>3, <2>4 DEF WriteFits, Has, Indexed
<1>5. CASE WriteFails
  <2>1. ~Written
    BY <1>5 DEF WriteFails, Phases, Written, EndsWrite
  <2>2. ~Persist
    BY <1>5 DEF WriteFails, Persist, Land
  <2>3. ~Written' /\ writer' = Idle
    BY <1>5, <2>1, <2>2, UnwrittenStep DEF WriteFails
  <2>4. QED
    BY <2>3 DEF WriteFits, Idle
<1>6. CASE writing' /\ ~Persist /\ ~Pack /\ ~Write /\ ~WriteFails
  <2>1. Written' => Written
    BY <1>6, UnwrittenStep
  <2>2. /\ UNCHANGED <<disk, writer, index>>
        /\ journal'.deleted = journal.deleted /\ journal'.added = journal.added
    <3>1. ASSUME NEW m \in Names, Save(m) \/ CopyIn(m) \/ Delete(m) \/ \E o \in Ops : Open(m, o)
          PROVE  UNCHANGED <<disk, writer, index>> /\ journal'.deleted = journal.deleted
                 /\ journal'.added = journal.added
      BY <1>6, <3>1 DEF Save, CopyIn, Delete, Open, Changeable, writeVars, mountVars
    <3>2. ASSUME NEW o \in Ops, Extract(o)
          PROVE  UNCHANGED <<disk, writer, index, journal>>
      BY <3>2 DEF Extract, ExtractRead, ExtractPersist, ExtractFails, writeVars, mountVars
    <3>3. CASE Read \/ Copy \/ Mount \/ UNCHANGED vars \/ ApplyMaterialized \/ ApplyReadFailed
      BY <3>3 DEF Read, ResetStaging, ReadArchive, ReadFails, Copy, CopyLands, CopyFails,
                  Mount, vars, ApplyMaterialized, ApplyReadFailed, mountVars, writeVars
    <3>4. CASE Settle
      BY <3>4, NoticedSays DEF Settle, writeVars
    <3>5. ~Discard /\ ~Unmount
      BY <1>6 DEF Discard, Unmount, Changeable, writeVars
    <3>6. ~ApplyWritten /\ ~ApplyWriteFailed
      BY <1>6 DEF ApplyWritten, ApplyWriteFailed
    <3>7. CASE ApplyMounted
      <4>1. ~writing
        <5>1. 1 \in DOMAIN landed /\ landed[1].kind = "mounted"
          BY <3>7, TakeSays DEF ApplyMounted, Landing, TypeInv
        <5>2. EndsRead(1)
          BY <5>1 DEF EndsRead
        <5>3. QED
          BY <5>1, <5>2 DEF Phases, Idle
      <4>2. QED
        BY <1>6, <3>7, <4>1 DEF ApplyMounted, writeVars
    <3>8. QED
      BY <1>6, <3>1, <3>2, <3>3, <3>4, <3>5, <3>6, <3>7 DEF Next, Repack, Drain, User
  <2>3. QED
    BY <2>1, <2>2 DEF WriteFits, Has, Indexed
<1>7. QED
  BY <1>1, <1>2, <1>3, <1>4, <1>5, <1>6

-----------------------------------------------------------------------------
(* A recorded edit.                                                        *)

Followed(m) == Safe(m) /\ (IsLate(m) \/ Carried(m))

\* Nothing starts to extract a member but opening one that has no copy.
LEMMA StillExtracting ==
    ASSUME TypeInv, NEW x,
           \A o \in Ops : mats'[o] # Idle /\ mats'[o].name = x
                             => mats[o] # Idle /\ mats[o].name = x,
           \/ landed' = landed
           \/ \E out : /\ out.kind = "materialized" /\ out.name = x => Extracting(x)
                       /\ landed' = Append(landed, out)
           \/ landed # <<>> /\ landed' = Tail(landed)
    PROVE  Extracting(x)' => Extracting(x)
<1>1. \E S : landed \in Seq(S)
  BY DEF TypeInv
<1>2. CASE landed' = landed
  BY <1>2 DEF Extracting
<1>3. ASSUME NEW out, out.kind = "materialized" /\ out.name = x => Extracting(x),
             landed' = Append(landed, out)
      PROVE  Extracting(x)' => Extracting(x)
  <2>1. \A i \in DOMAIN landed' : (i \in DOMAIN landed /\ landed'[i] = landed[i]) \/ landed'[i] = out
    BY <1>1, <1>3, LandSays
  <2>2. QED
    BY <1>3, <2>1 DEF Extracting
<1>4. CASE landed # <<>> /\ landed' = Tail(landed)
  <2>1. \A i \in DOMAIN landed' : i + 1 \in DOMAIN landed /\ landed'[i] = landed[i + 1]
    BY <1>1, <1>4, TakeSays
  <2>2. QED
    BY <2>1 DEF Extracting
<1>5. QED
  BY <1>2, <1>3, <1>4

\* What doesn't touch a member leaves its edit where it is.
LEMMA FollowedOn ==
    ASSUME TypeInv, NEW x \in Names, Followed(x), Extracting(x)' => Extracting(x),
           Written' => Written, UNCHANGED <<mounted, index, disk, writer>>,
           last'[x] = last[x], staging'[x] = staging[x], recorded'[x] = recorded[x],
           planned'[x] = planned[x], held'[x] = held[x],
           x \in journal.replaced \cup journal.added
              => x \in journal'.replaced \cup journal'.added,
           x \in journal'.deleted => x \in journal.deleted
    PROVE  Followed(x)'
<1>1. Settled(x)' = Settled(x) /\ Staged(x)' = Staged(x) /\ Stored(x)' = Stored(x)
  BY DEF Settled, Staged, Stored
<1>2. Bytes(x)' = Bytes(x)
  BY DEF Bytes
<1>3. Safe(x)'
  BY <1>1, <1>2 DEF Followed, Safe, Pending
<1>4. IsLate(x)' = IsLate(x)
  BY DEF IsLate, Indexed
<1>5. Carried(x) => Carried(x)'
  BY <1>1 DEF Carried
<1>6. QED
  BY <1>3, <1>4, <1>5 DEF Followed

\* A save: spyc knows the copy, so the write that runs will hold it aside.
LEMMA FollowedSave ==
    ASSUME TypeInv, Phases, JournalFits, NEW m \in Names, NEW d \in Data, SavedAs(m, d),
           UNCHANGED <<streamed, disk, mounted, index, journal, writing, writer, mats,
                       landed, held>>,
           NEW x \in Names, IsRecorded(x)', IsRecorded(x) => Followed(x)
    PROVE  Followed(x)'
<1>1. Extracting(x)' = Extracting(x) /\ Written' = Written
  BY DEF Extracting, Written
<1>2. PICK S : S = {m} /\ recorded' = Touch(recorded, S) /\ planned' = Touch(planned, S)
  BY DEF SavedAs
<1>3. recorded \in [Names -> Stat] /\ planned \in [Names -> Stat]
  BY DEF TypeInv
<1>4. CASE x # m
  <2>1. last'[x] = last[x] /\ staging'[x] = staging[x]
    BY <1>4 DEF SavedAs, TypeInv
  <2>2. recorded'[x] = recorded[x] /\ planned'[x] = planned[x]
    BY <1>2, <1>3, <1>4, TouchSays
  <2>3. IsRecorded(x)
    BY <2>1 DEF IsRecorded
  <2>4. QED
    BY <1>1, <2>1, <2>2, <2>3, FollowedOn
<1>5. CASE x = m
  <2>1. last'[x] = [at |-> When(m), data |-> d] /\ staging'[x] = Users(d)
    BY <1>5 DEF SavedAs, TypeInv
  <2>2. When(m) = "recorded"
    BY <2>1 DEF IsRecorded
  <2>3. /\ mounted /\ ~(writing /\ m \in journal.added)
        /\ m \notin journal.deleted /\ ~Extracting(m)
        /\ recorded[m] # "none" \/ m \in journal.replaced \cup journal.added
    BY <2>2, WhenSays
  <2>4. /\ recorded'[m] # "same" /\ planned'[m] # "same"
        /\ recorded[m] # "none" => recorded'[m] = "stale"
    BY <1>2, <1>3, TouchSays
  <2>5. Users(d) # NoFile /\ Users(d).data = d
    BY FileSays
  <2>6. Safe(x)'
    BY <1>1, <1>5, <2>1, <2>3, <2>4, <2>5 DEF Safe, Pending, Staged
  <2>7. CASE writing
    <3>1. m \in Indexed
      BY <2>3, <2>7 DEF JournalFits
    <3>2. QED
      BY <1>5, <2>4, <2>6, <3>1 DEF Followed, IsLate, Indexed
  <2>8. CASE ~writing
    <3>1. writer = Idle /\ ~Written'
      BY <1>1, <2>8 DEF Phases, Written, EndsWrite
    <3>2. QED
      BY <2>6, <3>1 DEF Followed, Carried, Idle
  <2>9. QED
    BY <2>7, <2>8
<1>6. QED
  BY <1>4, <1>5

LEMMA FollowedSaves ==
    ASSUME TypeInv, Phases, JournalFits, (\E m \in Names : Save(m)) \/ Copy,
           NEW x \in Names, IsRecorded(x)', IsRecorded(x) => Followed(x)
    PROVE  Followed(x)'
<1>1. ASSUME NEW m \in Names, Save(m) PROVE Followed(x)'
  <2>1. [of |-> m, v |-> saves + 1] \in Data
    BY <1>1, NamesFinite DEF Save, TypeInv, Data
  <2>2. SavedAs(m, [of |-> m, v |-> saves + 1])
    BY <1>1 DEF Save
  <2>3. UNCHANGED <<streamed, disk, mounted, index, journal, writing, writer, mats,
                    landed, held>>
    BY <1>1 DEF Save, workVars
  <2>4. QED
    BY <2>1, <2>2, <2>3, FollowedSave
<1>2. CASE CopyLands
  <2>1. copying.name \in Names /\ copying.data \in Data /\ SavedAs(copying.name, copying.data)
    BY <1>2 DEF CopyLands, TypeInv
  <2>2. UNCHANGED <<streamed, disk, mounted, index, journal, writing, writer, mats,
                    landed, held>>
    BY <1>2 DEF CopyLands
  <2>3. QED
    BY <2>1, <2>2, FollowedSave
<1>3. CASE CopyFails
  <2>1. UNCHANGED <<disk, mountVars, staging, writeVars, mats, landed, held, last>>
    BY <1>3 DEF CopyFails
  <2>2. Extracting(x)' = Extracting(x) /\ Written' = Written /\ IsRecorded(x)
    BY <2>1 DEF Extracting, Written, IsRecorded
  <2>3. QED
    BY <2>1, <2>2, FollowedOn DEF mountVars, writeVars
<1>4. QED
  BY <1>1, <1>2, <1>3 DEF Copy

LEMMA FollowedExtract ==
    ASSUME TypeInv, NEW o \in Ops, Extract(o),
           NEW x \in Names, IsRecorded(x)', IsRecorded(x) => Followed(x)
    PROVE  Followed(x)'
<1>1. /\ UNCHANGED <<mounted, index, journal, disk, writer, held, last>>
      /\ mats[o] # Idle
  BY DEF Extract, ExtractRead, ExtractPersist, ExtractFails, mountVars, writeVars, Idle
<1>2. \/ landed' = landed
      \/ landed' = Append(landed, [kind |-> "materialized", name |-> mats[o].name])
  BY DEF Extract, ExtractRead, ExtractPersist, ExtractFails, Land
<1>3. IsRecorded(x) /\ Followed(x)
  BY <1>1 DEF IsRecorded
<1>4. ~Extracting(x)
  BY <1>3 DEF Followed, Safe
<1>5. mats[o].name # x
  BY <1>1, <1>4 DEF Extracting
<1>6. \A p \in Ops : mats'[p] # Idle => mats[p] # Idle /\ mats[p].name = mats'[p].name
  <2>1. mats' \in [Ops -> {mats'[p] : p \in Ops}] /\ \A p \in Ops : p # o => mats'[p] = mats[p]
    BY DEF Extract, ExtractRead, ExtractPersist, ExtractFails, TypeInv
  <2>2. mats'[o] = Idle \/ mats'[o].name = mats[o].name
    BY DEF Extract, ExtractRead, ExtractPersist, ExtractFails, TypeInv
  <2>3. QED
    BY <1>1, <2>1, <2>2
<1>7. Extracting(x)' => Extracting(x)
  BY <1>2, <1>5, <1>6, StillExtracting
<1>8. Written' => Written
  BY <1>2, StillUnwritten
<1>9. staging'[x] = staging[x] /\ recorded'[x] = recorded[x] /\ planned'[x] = planned[x]
  <2>1. CASE ExtractPersist(o)
    <3>1. PICK S : S = {mats[o].name} /\ recorded' = Touch(recorded, S)
                   /\ planned' = Touch(planned, S)
      BY <2>1 DEF ExtractPersist
    <3>2. recorded'[x] = recorded[x] /\ planned'[x] = planned[x]
      <4>1. x \notin S /\ recorded \in [Names -> Stat] /\ planned \in [Names -> Stat]
        BY <1>5, <3>1 DEF TypeInv
      <4>2. recorded' = Touch(recorded, S) /\ planned' = Touch(planned, S)
        BY <3>1
      <4>3. QED
        BY <4>1, <4>2, TouchSays
    <3>3. staging'[x] = staging[x]
      BY <1>5, <2>1 DEF ExtractPersist, TypeInv
    <3>4. QED
      BY <3>2, <3>3
  <2>2. CASE ExtractRead(o) \/ ExtractFails(o)
    BY <2>2 DEF ExtractRead, ExtractFails, mountVars, writeVars
  <2>3. QED
    BY <2>1, <2>2 DEF Extract
<1>10. QED
  BY <1>1, <1>3, <1>7, <1>8, <1>9, FollowedOn

\* A read is of an archive that isn't mounted: what it extracts is what the
\* archive holds, which the edits held aside are not.
LEMMA FollowedRead ==
    ASSUME TypeInv, Phases, Phases', Read,
           NEW x \in Names, IsRecorded(x)', IsRecorded(x) => Followed(x)
    PROVE  Followed(x)'
<1>1. /\ reader # Idle
      /\ UNCHANGED <<disk, mounted, writing, mats, held, last>>
  BY DEF Read, ResetStaging, ReadArchive, ReadFails, mountVars, writeVars, Idle
<1>2. ~mounted /\ ~mounted' /\ ~writing'
  BY <1>1 DEF Phases
<1>3. IsRecorded(x) /\ Followed(x)
  BY <1>1 DEF IsRecorded
<1>4. Carried(x)'
  BY <1>2, NothingCarried
<1>5. \/ landed' = landed
      \/ \E out : out.kind # "materialized" /\ landed' = Append(landed, out)
  <2>1. CASE ResetStaging
    BY <2>1 DEF ResetStaging
  <2>2. CASE ReadArchive
    BY <2>2 DEF ReadArchive, Land
  <2>3. CASE ReadFails
    BY <2>3 DEF ReadFails, Land
  <2>4. QED
    BY <2>1, <2>2, <2>3 DEF Read
<1>6. Extracting(x)' => Extracting(x)
  BY <1>1, <1>5, StillExtracting
<1>7. Settled(x)' = Settled(x) /\ Stored(x)' = Stored(x) /\ Bytes(x)' = Bytes(x)
  BY <1>1 DEF Settled, Stored, Bytes
<1>8. staging'[x] # NoFile => Stored(x) /\ staging'[x].data = Bytes(x)
  <2>1. Staged(x) => Stored(x) /\ staging[x].data = Bytes(x)
    BY <1>2, <1>3 DEF Followed, Safe
  <2>2. CASE ResetStaging
    BY <2>2 DEF ResetStaging, NoFiles
  <2>3. CASE ReadArchive \/ ReadFails
    <3>1. PICK S : /\ \A m \in S : Stored(m)
                   /\ staging' = [m \in Names |-> IF m \in S THEN Own(Bytes(m)) ELSE staging[m]]
      <4>1. CASE ReadArchive
        <5>1. PICK S : S = {m \in Names : streamed /\ Stored(m)}
          OBVIOUS
        <5>2. staging' = [m \in Names |-> IF m \in S THEN Own(Bytes(m)) ELSE staging[m]]
          BY <4>1, <5>1 DEF ReadArchive
        <5>3. QED
          BY <5>1, <5>2
      <4>2. CASE ReadFails
        BY <4>2 DEF ReadFails
      <4>3. QED
        BY <2>3, <4>1, <4>2
    <3>2. Own(Bytes(x)).data = Bytes(x)
      BY DEF Own
    <3>3. QED
      BY <2>1, <3>1, <3>2 DEF Staged
  <2>4. QED
    BY <2>2, <2>3 DEF Read
<1>9. Safe(x)'
  BY <1>1, <1>2, <1>3, <1>6, <1>7, <1>8 DEF Followed, Safe, Staged
<1>10. QED
  BY <1>4, <1>9 DEF Followed

\* The write goes on: what it takes from a copy is what was last saved there.
LEMMA FollowedRepack ==
    ASSUME TypeInv, Phases, Phases', Repack,
           NEW x \in Names, IsRecorded(x)', IsRecorded(x) => Followed(x)
    PROVE  Followed(x)'
<1>1. /\ writer # Idle
      /\ UNCHANGED <<mountVars, planned, mats, held, last>>
  BY DEF Repack, Pack, Persist, WriteFails, Idle, workVars
<1>2. IsRecorded(x) /\ Followed(x)
  BY <1>1 DEF IsRecorded
<1>3. writing /\ mounted /\ ~Written
  BY <1>1, PlannedOver
<1>4. Staged(x) /\ staging[x].data = last[x].data
  BY <1>2, <1>3 DEF Followed, Safe, Pending
<1>5. \/ landed' = landed
      \/ \E out : out.kind # "materialized" /\ landed' = Append(landed, out)
  <2>1. CASE Pack
    BY <2>1 DEF Pack
  <2>2. CASE Persist
    BY <2>2 DEF Persist, Land
  <2>3. CASE WriteFails
    BY <2>3 DEF WriteFails, Land
  <2>4. QED
    BY <2>1, <2>2, <2>3 DEF Repack
<1>6. Extracting(x)' => Extracting(x)
  BY <1>1, <1>5, StillExtracting
<1>7. staging'[x] = staging[x]
  <2>1. CASE Pack
    <3>1. PICK S : /\ S = Refilled(writer.steps)
                   /\ staging' = [m \in Names |-> IF m \in S THEN Own(Bytes(m)) ELSE staging[m]]
      BY <2>1 DEF Pack
    <3>2. x \notin S
      BY <1>4, <3>1 DEF Refilled
    <3>3. QED
      BY <3>1, <3>2
  <2>2. CASE Persist \/ WriteFails
    BY <2>2 DEF Persist, WriteFails
  <2>3. QED
    BY <2>1, <2>2 DEF Repack
<1>8. Safe(x)'
  BY <1>1, <1>2, <1>3, <1>6, <1>7 DEF Followed, Safe, Pending, Staged, mountVars
<1>9. IsLate(x)' = IsLate(x)
  BY <1>1 DEF IsLate, Indexed, mountVars
<1>10. ASSUME Carried(x) PROVE Carried(x)'
  <2>1. CASE Pack
    <3>1. PICK tree :
             /\ tree = staging'
             /\ writer' = [at |-> "packed", entries |-> Repacked(writer.steps, tree)]
      BY <2>1 DEF Pack
    <3>2. writer.at = "planned" /\ landed' = landed
      BY <2>1 DEF Pack
    <3>3. PICK i \in DOMAIN writer.steps :
             writer.steps[i].name = x /\ writer.steps[i].from = "staging"
      BY <1>10, <3>2 DEF Carried
    <3>4. PICK packed : packed = Repacked(writer.steps, tree)
      OBVIOUS
    <3>5. i \in DOMAIN packed /\ packed[i].name = x /\ packed[i].data = tree[x].data
      BY <3>3, <3>4 DEF Repacked
    <3>6. packed[i].data = last'[x].data
      BY <1>1, <1>4, <1>7, <3>1, <3>5
    <3>7. ~Written'
      BY <1>3, <3>2 DEF Written
    <3>8. writer'.at = "packed" /\ writer'.entries = packed
      BY <3>1, <3>4
    <3>9. QED
      BY <3>5, <3>6, <3>7, <3>8 DEF Carried
  <2>2. CASE Persist
    <3>1. writer.at = "packed" /\ disk' = writer.entries /\ writer' = Idle
      BY <2>2 DEF Persist
    <3>2. last'[x] = last[x] /\ last[x] # NoSave
      BY <1>1, <1>2 DEF IsRecorded, NoSave
    <3>3. Settled(x)'
      BY <1>10, <3>1, <3>2 DEF Carried, Settled
    <3>4. QED
      BY <3>1, <3>3 DEF Carried, Idle
  <2>3. CASE WriteFails
    <3>1. writer' = Idle /\ landed' = Append(landed, [kind |-> "write_failed"])
      BY <2>3 DEF WriteFails, Land
    <3>2. ~Written'
      BY <1>3, <3>1, StillUnwritten
    <3>3. QED
      BY <3>1, <3>2 DEF Carried, Idle
  <2>4. QED
    BY <2>1, <2>2, <2>3 DEF Repack
<1>11. QED
  BY <1>2, <1>8, <1>9, <1>10 DEF Followed

\* What the write didn't carry is held when it lands, and put back by the
\* re-read.
LEMMA FollowedWritten ==
    ASSUME TypeInv, Phases, Phases', ApplyWritten,
           NEW x \in Names, IsRecorded(x)', IsRecorded(x) => Followed(x)
    PROVE  Followed(x)'
<1>1. /\ landed # <<>> /\ landed' = Tail(landed) /\ Head(landed).kind = "written"
      /\ mounted' = FALSE /\ writing' = FALSE
      /\ UNCHANGED <<disk, mats>>
  BY DEF ApplyWritten, Landing, Dismount
<1>2. 1 \in DOMAIN landed /\ landed[1].kind = "written"
  BY <1>1, TakeSays DEF TypeInv
<1>3. Written /\ mounted
  BY <1>2 DEF Written, Phases, EndsWrite
<1>4. PICK failed \in SUBSET Late :
         /\ held' = [m \in Names |-> IF m \in Late \ failed THEN staging[m] ELSE held[m]]
         /\ staging' = [m \in Names |-> IF m \in Late \ failed THEN NoFile ELSE staging[m]]
         /\ last' = [m \in Names |-> IF Settled(m) THEN NoSave ELSE Unmoved(failed)[m]]
  BY DEF ApplyWritten
<1>5. ~Settled(x) /\ last'[x] = last[x] /\ IsRecorded(x) /\ x \notin failed
  <2>1. ~Settled(x) /\ last'[x] = Unmoved(failed)[x]
    BY <1>4 DEF IsRecorded, NoSave
  <2>2. QED
    BY <2>1, UnmovedSays DEF IsRecorded, TypeInv
<1>6. Safe(x) /\ IsLate(x)
  BY <1>3, <1>5 DEF Followed, Carried
<1>7. Staged(x) /\ staging[x].data = last[x].data /\ x \in Late
  BY <1>3, <1>6 DEF Safe, Pending, IsLate, Late
<1>8. held'[x] = staging[x] /\ staging'[x] = NoFile
  BY <1>4, <1>5, <1>7
<1>9. ~Settled(x)'
  BY <1>1, <1>5 DEF Settled
<1>10. Extracting(x)' => Extracting(x)
  BY <1>1, StillExtracting
<1>11. Safe(x)'
  BY <1>1, <1>5, <1>6, <1>7, <1>8, <1>9, <1>10 DEF Safe, Staged
<1>12. QED
  BY <1>1, <1>11, NothingCarried DEF Followed

LEMMA FollowedMounted ==
    ASSUME TypeInv, Phases, Phases', ApplyMounted,
           NEW x \in Names, IsRecorded(x)', IsRecorded(x) => Followed(x)
    PROVE  Followed(x)'
<1>0. PICK read, due, own, back : PutBack(read, due, own, back)
  BY MountedSays
<1>1. /\ due = {m \in Names : held[m] # NoFile
                   /\ (staging[m] = NoFile \/ staging[m].data # held[m].data)}
      /\ own = [m \in Names |-> IF m \in ToSet(read) /\ Staged(m) THEN "same" ELSE "none"]
      /\ journal' = [deleted |-> {}, replaced |-> back \cap ToSet(read),
                     added |-> back \ ToSet(read)]
      /\ recorded' = Touch(own, back)
      /\ staging' = [m \in Names |-> IF m \in back THEN held[m] ELSE staging[m]]
      /\ last' = Unmoved(due \ back)
  BY <1>0 DEF PutBack
<1>2. /\ mounted' = TRUE /\ UNCHANGED <<disk, writing, mats>>
      /\ landed # <<>> /\ landed' = Tail(landed) /\ Head(landed).kind = "mounted"
  BY DEF ApplyMounted, Landing, writeVars
<1>3. IsRecorded(x) /\ Followed(x) /\ last'[x] = last[x] /\ x \notin due \ back
  BY <1>1, UnmovedSays DEF IsRecorded, TypeInv
<1>4. ~mounted /\ ~writing
  <2>1. 1 \in DOMAIN landed /\ landed[1].kind = "mounted"
    BY <1>2, TakeSays DEF TypeInv
  <2>2. EndsRead(1)
    BY <2>1 DEF EndsRead
  <2>3. QED
    BY <2>1, <2>2 DEF Phases, Idle
<1>5. /\ held[x] # NoFile /\ held[x].data = last[x].data /\ ~Settled(x)
      /\ Staged(x) => Stored(x) /\ staging[x].data = Bytes(x)
  BY <1>3, <1>4 DEF Followed, Safe
<1>6. x \in back
  <2>1. SUFFICES ASSUME Staged(x), staging[x].data = last[x].data PROVE FALSE
    BY <1>1, <1>3, <1>5 DEF Staged
  <2>2. Stored(x) /\ Bytes(x) = last[x].data
    BY <1>5, <2>1
  <2>3. \E i \in DOMAIN disk : disk[i].name = x /\ disk[i].data = last[x].data
    BY <2>2, BytesSays
  <2>4. last[x] # NoSave
    BY <1>3 DEF IsRecorded, NoSave
  <2>5. QED
    BY <1>5, <2>3, <2>4 DEF Settled
<1>7. staging'[x] = held[x] /\ x \in journal'.replaced \cup journal'.added
      /\ x \notin journal'.deleted
  BY <1>1, <1>6
<1>8. recorded'[x] # "same"
  <2>1. own \in [Names -> Stat]
    BY <1>1 DEF Stat
  <2>2. QED
    BY <1>1, <1>6, <2>1, TouchSays
<1>9. Extracting(x)' => Extracting(x)
  BY <1>2, StillExtracting
<1>10. Safe(x)'
  BY <1>2, <1>3, <1>5, <1>7, <1>8, <1>9 DEF Followed, Safe, Pending, Staged
<1>11. QED
  BY <1>2, <1>4, <1>10, NothingCarried DEF Followed

LEMMA FollowedLanded ==
    ASSUME TypeInv, Phases, Phases', Drain,
           NEW x \in Names, IsRecorded(x)', IsRecorded(x) => Followed(x)
    PROVE  Followed(x)'
<1>1. /\ landed # <<>> /\ landed' = Tail(landed) /\ UNCHANGED mats
  BY DEF Drain, ApplyWritten, ApplyWriteFailed, ApplyMounted, ApplyReadFailed,
         ApplyMaterialized, Landing, workVars
<1>2. Extracting(x)' => Extracting(x)
  BY <1>1, StillExtracting
<1>3. Written' => Written
  BY <1>1, StillUnwritten
<1>4. CASE ApplyWriteFailed
  <2>1. /\ ~writing' /\ UNCHANGED <<disk, mountVars, staging, held, last>>
    BY <1>4 DEF ApplyWriteFailed
  <2>2. IsRecorded(x) /\ Followed(x)
    BY <2>1 DEF IsRecorded
  <2>3. Settled(x)' = Settled(x) /\ Stored(x)' = Stored(x) /\ Bytes(x)' = Bytes(x)
    BY <2>1 DEF Settled, Stored, Bytes
  <2>4. Safe(x)'
    BY <1>2, <2>1, <2>2, <2>3 DEF Followed, Safe, Pending, Staged, mountVars
  <2>5. QED
    BY <2>1, <2>4, NothingCarried DEF Followed
<1>5. CASE ApplyReadFailed
  <2>1. UNCHANGED <<disk, mountVars, staging, writeVars, held, last>>
    BY <1>5 DEF ApplyReadFailed
  <2>2. IsRecorded(x)
    BY <2>1 DEF IsRecorded
  <2>3. QED
    BY <1>2, <1>3, <2>1, <2>2, FollowedOn DEF mountVars, writeVars
<1>6. CASE ApplyMaterialized
  <2>1. UNCHANGED <<disk, mounted, index, journal, staging, writeVars, held, last>>
    BY <1>6 DEF ApplyMaterialized
  <2>2. IsRecorded(x) /\ Followed(x)
    BY <2>1 DEF IsRecorded
  <2>3. 1 \in DOMAIN landed /\ Head(landed) = landed[1] /\ landed[1].kind = "materialized"
    BY <1>1, <1>6, TakeSays DEF ApplyMaterialized, Landing, TypeInv
  <2>4. Head(landed).name # x
    BY <2>2, <2>3 DEF Followed, Safe, Extracting
  <2>5. recorded'[x] = recorded[x]
    BY <1>6, <2>4 DEF ApplyMaterialized, TypeInv
  <2>6. QED
    BY <1>2, <1>3, <2>1, <2>2, <2>5, FollowedOn DEF writeVars
<1>7. QED
  BY <1>4, <1>5, <1>6, FollowedWritten, FollowedMounted DEF Drain

\* A write takes every recorded edit from its copy.
LEMMA FollowedWrite ==
    ASSUME TypeInv, Phases, JournalFits, Write,
           NEW x \in Names, IsRecorded(x)', IsRecorded(x) => Followed(x)
    PROVE  Followed(x)'
<1>1. /\ mounted /\ ~writing
      /\ UNCHANGED <<disk, mounted, index, recorded, staging, mats, landed, held, last>>
      /\ journal' = Noticed
  BY DEF Write, Changeable, workVars
<1>2. IsRecorded(x) /\ Safe(x)
  BY <1>1 DEF IsRecorded, Followed
<1>3. Extracting(x)' = Extracting(x) /\ Written' = Written
  BY <1>1 DEF Extracting, Written
<1>4. /\ Staged(x) /\ staging[x].data = last[x].data /\ x \notin journal.deleted
      /\ recorded[x] = "stale" \/ x \in journal.replaced \cup journal.added
  BY <1>1, <1>2 DEF Safe, Pending
<1>5. Safe(x)'
  BY <1>1, <1>2, <1>3, NoticedSays DEF Safe, Pending, Staged
<1>6. PICK steps \in Plans(Noticed) : writer' = [at |-> "planned", steps |-> steps]
  BY DEF Write
<1>7. \E i \in DOMAIN steps : steps[i].name = x /\ steps[i].from = "staging"
  <2>1. /\ \A m \in Noticed.added : \E i \in DOMAIN steps :
              steps[i].name = m /\ steps[i].from = "staging"
        /\ \A m \in Indexed \ Noticed.deleted : FromStaging(Noticed, m) =>
              \E i \in DOMAIN steps : steps[i].name = m /\ steps[i].from = "staging"
    BY <1>6, NoticedSays, PlanSays
  <2>2. CASE x \in journal.added
    BY <2>1, <2>2, NoticedSays
  <2>3. CASE recorded[x] = "stale" \/ x \in journal.replaced
    <3>1. x \in Indexed \ Noticed.deleted
      BY <1>4, <2>3, NoticedSays DEF JournalFits
    <3>2. FromStaging(Noticed, x)
      BY <1>4, <2>3, NoticedSays DEF FromStaging
    <3>3. QED
      BY <2>1, <3>1, <3>2
  <2>4. QED
    BY <1>4, <2>2, <2>3
<1>8. ~Written'
  BY <1>1, <1>3 DEF Phases, Written, EndsWrite
<1>9. Carried(x)'
  BY <1>6, <1>7, <1>8 DEF Carried
<1>10. QED
  BY <1>5, <1>9 DEF Followed

LEMMA FollowedUser ==
    ASSUME TypeInv, Phases, JournalFits, Settle \/ User,
           NEW x \in Names, IsRecorded(x)', IsRecorded(x) => Followed(x)
    PROVE  Followed(x)'
<1>1. ASSUME UNCHANGED <<mountVars, writeVars, staging, disk, mats, landed, held, last>>
      PROVE  Followed(x)'
  <2>1. IsRecorded(x) /\ Extracting(x)' = Extracting(x) /\ Written' = Written
    BY <1>1 DEF IsRecorded, Extracting, Written
  <2>2. QED
    BY <1>1, <2>1, FollowedOn DEF mountVars, writeVars
<1>2. ASSUME UNCHANGED <<mounted, index, recorded, writeVars, staging, disk, mats, landed,
                         held, last>>,
             journal'.deleted = journal.deleted,
             journal.replaced \cup journal.added \subseteq journal'.replaced \cup journal'.added
      PROVE  Followed(x)'
  <2>1. IsRecorded(x) /\ Extracting(x)' = Extracting(x) /\ Written' = Written
    BY <1>2 DEF IsRecorded, Extracting, Written
  <2>2. QED
    BY <1>2, <2>1, FollowedOn DEF writeVars
<1>3. CASE Mount
  BY <1>1, <1>3 DEF Mount
<1>4. CASE Settle
  BY <1>2, <1>4, NoticedSays DEF Settle, workVars
<1>5. ASSUME NEW m \in Names, CopyIn(m) PROVE Followed(x)'
  <2>1. /\ journal'.deleted = journal.deleted
        /\ journal.replaced \cup journal.added \subseteq journal'.replaced \cup journal'.added
    BY <1>5 DEF CopyIn, BroughtIn, TypeInv, Journal
  <2>2. QED
    BY <1>2, <1>5, <2>1 DEF CopyIn
<1>6. ASSUME NEW m \in Names, NEW o \in Ops, Open(m, o) PROVE Followed(x)'
  <2>1. /\ mounted /\ ~Staged(m)
        /\ UNCHANGED <<disk, mountVars, staging, writeVars, landed, held, last>>
    BY <1>6 DEF Open
  <2>2. IsRecorded(x) /\ Followed(x) /\ Written' = Written
    BY <2>1 DEF IsRecorded, Written
  <2>3. x # m
    BY <2>1, <2>2 DEF Followed, Safe, Pending
  <2>4. \A p \in Ops : mats'[p] # Idle /\ mats'[p].name = x => mats[p] # Idle /\ mats[p].name = x
    BY <1>6, <2>3 DEF Open, TypeInv
  <2>5. Extracting(x)' => Extracting(x)
    BY <2>1, <2>4, StillExtracting
  <2>6. QED
    BY <2>1, <2>2, <2>5, FollowedOn DEF mountVars, writeVars
<1>7. ASSUME NEW m \in Names, Delete(m) PROVE Followed(x)'
  <2>1. /\ last' = [last EXCEPT ![m] = NoSave]
        /\ UNCHANGED <<disk, mounted, index, writeVars, mats, landed, held>>
    BY <1>7 DEF Delete, workVars
  <2>2. x # m
    BY <2>1 DEF IsRecorded, NoSave, TypeInv
  <2>3. last'[x] = last[x] /\ IsRecorded(x)
    BY <2>1, <2>2 DEF IsRecorded, TypeInv
  <2>4. Extracting(x)' = Extracting(x) /\ Written' = Written
    BY <2>1 DEF Extracting, Written
  <2>5. recorded'[x] = recorded[x]
    <3>1. PICK S : S = {m}
      OBVIOUS
    <3>2. recorded' = Touch(recorded, S) \/ recorded' = recorded
      BY <1>7, <3>1 DEF Delete
    <3>3. x \notin S /\ recorded \in [Names -> Stat]
      BY <2>2, <3>1 DEF TypeInv
    <3>4. QED
      BY <3>2, <3>3, TouchSays
  <2>6. staging'[x] = staging[x]
    BY <1>7, <2>2 DEF Delete, TypeInv
  <2>7. /\ x \in journal.replaced \cup journal.added => x \in journal'.replaced \cup journal'.added
        /\ x \in journal'.deleted => x \in journal.deleted
    <3>1. \/ journal' = [journal EXCEPT !.added = @ \ {m}]
          \/ journal' = [journal EXCEPT !.deleted = @ \cup {m}]
      BY <1>7 DEF Delete
    <3>2. journal \in Journal
      BY DEF TypeInv
    <3>3. QED
      BY <2>2, <3>1, <3>2 DEF Journal
  <2>8. QED
    BY <2>1, <2>3, <2>4, <2>5, <2>6, <2>7, FollowedOn DEF writeVars
<1>8. ~Discard
  BY DEF Discard, IsRecorded, NoSave
<1>9. CASE Unmount
  <2>1. mounted /\ ~Dirty(Noticed) /\ IsRecorded(x)
    BY <1>9 DEF Unmount, Changeable, IsRecorded, NoSave
  <2>2. Staged(x) /\ (recorded[x] = "stale" \/ x \in journal.replaced \cup journal.added)
    BY <2>1 DEF Followed, Safe, Pending
  <2>3. x \in Noticed.replaced \cup Noticed.added
    BY <2>2, NoticedSays DEF JournalFits
  <2>4. Noticed = NoChanges
    BY <2>1 DEF Dirty
  <2>5. QED
    BY <2>3, <2>4 DEF NoChanges
<1>10. QED
  BY <1>3, <1>4, <1>5, <1>6, <1>7, <1>8, <1>9, FollowedWrite DEF User

LEMMA EditsStep ==
    ASSUME IInv, Phases', [Next]_vars
    PROVE  Edits'
<1>1. TypeInv /\ Phases /\ JournalFits
  BY DEF IInv
<1>2. SUFFICES ASSUME NEW x \in Names, IsRecorded(x)' PROVE Followed(x)'
  BY DEF Edits, Followed
<1>3. IsRecorded(x) => Followed(x)
  BY DEF IInv, Edits, Followed
<1>4. CASE UNCHANGED vars
  <2>1. IsRecorded(x) /\ Extracting(x)' = Extracting(x) /\ Written' = Written
    BY <1>2, <1>4 DEF IsRecorded, Extracting, Written, vars, workVars
  <2>2. QED
    BY <1>1, <1>3, <1>4, <2>1, FollowedOn DEF vars, mountVars, writeVars
<1>5. CASE Next
  BY <1>1, <1>2, <1>3, <1>5, FollowedSaves, FollowedExtract, FollowedRead, FollowedRepack,
     FollowedLanded, FollowedUser DEF Next
<1>6. QED
  BY <1>4, <1>5

-----------------------------------------------------------------------------
(* The theorems.                                                           *)

LEMMA OrderSays == SetToSeq(Members) \in Seq(Members)
<1>1. IsFiniteSet(Members)
  BY WritebackAssumption
<1>2. Cardinality(Members) \in Nat /\ ExistsBijection(1..Cardinality(Members), Members)
  BY <1>1, FS_CardinalityType
<1>3. \E f \in [1..Cardinality(Members) -> Members] : IsInjective(f)
  BY <1>2 DEF ExistsBijection, Bijection, Injection
<1>4. SetToSeq(Members) \in [1..Cardinality(Members) -> Members]
  BY <1>3 DEF SetToSeq
<1>5. QED
  BY <1>2, <1>4

LEMMA WritebackInit == Init => IInv
<1> SUFFICES ASSUME Init PROVE IInv
  OBVIOUS
<1>1. PICK order : order = SetToSeq(Members)
  OBVIOUS
<1>2. order \in Seq(Members)
  BY <1>1, OrderSays
<1>3. disk = [i \in DOMAIN order |-> [name |-> order[i], data |-> [of |-> order[i], v |-> 0]]]
  BY <1>1 DEF Init
<1>4. \A m \in Members : [name |-> m, data |-> [of |-> m, v |-> 0]] \in Entry
  BY NamesFinite DEF Entry, Data, Names
<1>5. \A i \in DOMAIN order : order[i] \in Members
  BY <1>2
<1>6. disk = [i \in DOMAIN order |-> disk[i]] /\ \A i \in DOMAIN order : disk[i] \in Entry
  BY <1>3, <1>4, <1>5
<1>7. disk \in Seq(Entry)
  BY <1>2, <1>6, IndexedSays
<1>8. landed = <<>> /\ \E S : landed \in Seq(S)
  <2>1. <<>> \in Seq(Nat)
    OBVIOUS
  <2>2. QED
    BY <2>1 DEF Init
<1>9. TypeInv
  <2>1. NoStats \in [Names -> Stat] /\ NoFiles \in [Names -> Optional] /\ <<>> \in Seq(Names)
    BY DEF NoStats, NoFiles, Stat, Optional
  <2>2. last \in [Names -> Saved] /\ mats \in [Ops -> Extraction]
    BY DEF Init, Saved, Extraction
  <2>3. saves \in 0..MaxSaves
    BY NamesFinite DEF Init
  <2>4. QED
    BY <1>7, <1>8, <2>1, <2>2, <2>3, NoChangesSays DEF Init, TypeInv, Idle
<1>10. DOMAIN landed = {}
  BY <1>8
<1>11. Phases /\ WriteFits
  BY <1>10 DEF Init, Phases, WriteFits, Written, Idle
<1>12. JournalFits
  BY DEF Init, JournalFits, NoChanges, NoStats
<1>13. Edits
  BY DEF Init, Edits, IsRecorded, NoSave
<1>14. QED
  BY <1>9, <1>11, <1>12, <1>13 DEF IInv

LEMMA WritebackStep ==
    ASSUME IInv, [Next]_vars
    PROVE  IInv'
<1>1. TypeInv /\ Phases /\ JournalFits /\ WriteFits
  BY DEF IInv
<1>2. TypeInv' /\ Phases' /\ JournalFits'
  BY <1>1, TypeStep, PhasesStep, JournalStep
<1>3. WriteFits' /\ Edits'
  BY <1>1, <1>2, FitsStep, EditsStep
<1>4. QED
  BY <1>2, <1>3 DEF IInv

\* The queue of outcomes, the journal, the write under way and every recorded
\* edit fit together whatever the members, the saves and the workers do.
THEOREM WritebackHolds == Spec => []IInv
<1>1. Init => IInv
  BY WritebackInit
<1>2. IInv /\ [Next]_vars => IInv'
  BY WritebackStep
<1>3. QED
  BY <1>1, <1>2, PTL DEF Spec

\* Outside a write no locator of the mounted index is stale: a write that
\* replaced the archive is over only once the archive is no longer mounted
\* (apply_written), and a read's index is of the archive as it still is.
THEOREM LocatorsHold == Spec => []LocatorsValid
<1>1. IInv => LocatorsValid
  BY PhasesLocate DEF IInv
<1>2. QED
  BY <1>1, WritebackHolds, PTL

\* An edit saved to a copy spyc knows is never lost: not to a write planned
\* before it, nor to the re-read that empties the tree (hold_late_edits,
\* restore_late_edits), as long as its copy can be moved.
THEOREM EditsHold == Spec => []EditsSurvive
<1>1. IInv => EditsSurvive
  BY DEF IInv, Edits, Safe, IsRecorded, EditsSurvive, Kept
<1>2. QED
  BY <1>1, WritebackHolds, PTL

\* The journal is cleared only once the archive has no member it deletes, has
\* every member it adds or replaces, and what the write did not carry of a
\* recorded edit is held, if it could be moved (apply_written).
THEOREM JournalLandsHolds == Spec => JournalLands
<1>1. ASSUME IInv, [Next]_vars, writing, ~mounted'
      PROVE  /\ \A m \in journal.deleted : ~Stored(m)
             /\ \A m \in journal.added : Stored(m)
             /\ \A m \in journal.replaced \ journal.deleted :
                   /\ Stored(m)
                   /\ last'[m].at = "recorded" =>
                         held'[m] # NoFile /\ held'[m].data = last[m].data
  <2>1. mounted
    BY <1>1 DEF IInv, Phases
  <2>2. ApplyWritten
    <3>1. mounted' = mounted \/ mounted' \/ ApplyWritten \/ Unmount
      <4>1. ASSUME NEW m \in Names,
                   Save(m) \/ CopyIn(m) \/ Delete(m) \/ \E o \in Ops : Open(m, o)
            PROVE  mounted' = mounted
        BY <4>1 DEF Save, CopyIn, Delete, Open, mountVars
      <4>2. ASSUME NEW o \in Ops, Extract(o) PROVE mounted' = mounted
        BY <4>2 DEF Extract, ExtractRead, ExtractPersist, ExtractFails, mountVars
      <4>3. CASE Read \/ Repack \/ Copy \/ Settle \/ Mount \/ Discard \/ Write \/ UNCHANGED vars
        BY <4>3 DEF Read, ResetStaging, ReadArchive, ReadFails, Repack, Pack, Persist,
                    WriteFails, Copy, CopyLands, CopyFails, Settle, Mount, Discard, Write,
                    vars, mountVars
      <4>4. CASE ApplyWriteFailed \/ ApplyMounted \/ ApplyReadFailed \/ ApplyMaterialized
        BY <4>4 DEF ApplyWriteFailed, ApplyMounted, ApplyReadFailed, ApplyMaterialized,
                    mountVars
      <4>5. QED
        BY <1>1, <4>1, <4>2, <4>3, <4>4 DEF Next, Drain, User
    <3>2. ~Unmount
      BY <1>1 DEF Unmount, Changeable
    <3>3. QED
      BY <1>1, <2>1, <3>1, <3>2
  <2>3. Written
    <3>1. landed # <<>> /\ landed' = Tail(landed) /\ Head(landed).kind = "written"
      BY <2>2 DEF ApplyWritten, Landing
    <3>2. 1 \in DOMAIN landed /\ landed[1].kind = "written"
      BY <1>1, <3>1, TakeSays DEF IInv, TypeInv
    <3>3. QED
      BY <3>2 DEF Written
  <2>4. {disk[i].name : i \in DOMAIN disk} = (Indexed \ journal.deleted) \cup journal.added
    BY <1>1, <2>3 DEF IInv, WriteFits, Has
  <2>5. \A m : Stored(m) <=> m \in (Indexed \ journal.deleted) \cup journal.added
    BY <2>4 DEF Stored
  <2>6. /\ journal.deleted \cup journal.replaced \subseteq Indexed
        /\ journal.added \cap Indexed = {} /\ Indexed \subseteq Names
    BY <1>1, IndexedNames DEF IInv, JournalFits
  <2>7. ASSUME NEW m \in Names, IsRecorded(m)'
        PROVE  held'[m] # NoFile /\ held'[m].data = last[m].data
    <3>1. PICK failed \in SUBSET Late :
             /\ held' = [n \in Names |-> IF n \in Late \ failed THEN staging[n] ELSE held[n]]
             /\ last' = [n \in Names |-> IF Settled(n) THEN NoSave ELSE Unmoved(failed)[n]]
      BY <2>2 DEF ApplyWritten
    <3>2. ~Settled(m) /\ last'[m] = Unmoved(failed)[m]
      BY <2>7, <3>1 DEF IsRecorded, NoSave
    <3>3. IsRecorded(m) /\ m \notin failed
      BY <1>1, <2>7, <3>2, UnmovedSays DEF IsRecorded, IInv, TypeInv
    <3>4. Safe(m) /\ IsLate(m)
      BY <1>1, <2>3, <3>2, <3>3 DEF IInv, Edits, Carried
    <3>5. Staged(m) /\ staging[m].data = last[m].data /\ m \in Late
      BY <2>1, <3>4 DEF Safe, Pending, IsLate, Late
    <3>6. held'[m] = staging[m]
      BY <3>5, <3>1, <3>3
    <3>7. QED
      BY <3>5, <3>6 DEF Staged
  <2>8. QED
    BY <2>5, <2>6, <2>7 DEF IsRecorded
<1>2. QED
  BY <1>1, WritebackHolds, PTL DEF Spec, JournalLands

=============================================================================
