--------------------------- MODULE GitStatusProofs ---------------------------
(***************************************************************************)
(* For any columns, directories and repositories: a column shows only the  *)
(* status of the repository it is in, no cached status is older than the   *)
(* key it is stamped with, and markers that are behind have something left *)
(* that will bring what is missing.                                        *)
(*                                                                         *)
(* The first is carried by the cache, which is of the column's repository  *)
(* whenever the column is in one; the second by the walk, which reads the  *)
(* index after the key it will be stamped with; the third by what each     *)
(* column's last request, and no earlier one, is still to bring.           *)
(***************************************************************************)
EXTENDS GitStatus, FiniteSetTheorems, TLAPS

Columns == [dir : Dirs, root : Repos \cup {None}, cache : Caches \cup {None},
            poll : Keys \cup {None}, flag : BOOLEAN, gen : Nat, shown : Marks \cup {Blank}]
Answers == [req : Reqs, entries : Entries \cup {None}, stamp : Keys \cup {None}]

TypeInv ==
    /\ key \in [Repos -> Nat] /\ tree \in [Repos -> Nat]
    /\ col \in [Sides -> Columns]
    /\ queue \in Seq(Reqs)
    /\ walk \in Walks \cup {None}
    /\ walk # None /\ walk.at # "done" => walk.entries \in Entries
    /\ results \in Seq(Answers)

\* A cached status is of the repository the column is in, if it is in one.
CacheOwn(c) == c.cache # None /\ c.root # None => c.cache.repo = c.root
OwnShown(c) == c.shown # Blank => c.shown.repo = c.root
NotNewer(c) == c.cache # None => c.cache.entries.key >= c.cache.key
Good(c) == CacheOwn(c) /\ OwnShown(c) /\ NotNewer(c)

\* What a walk has read of the index is no older than the key before it,
\* and that key is no newer than the repository's.
WalkInOrder ==
    walk # None /\ walk.before # None =>
      /\ walk.before <= key[walk.req.repo]
      /\ walk.at = "files" => walk.entries.key >= walk.before
      /\ walk.at = "done" /\ walk.entries # None => walk.entries.key >= walk.before
AnswersInOrder ==
    \A i \in DOMAIN results :
      results[i].stamp # None /\ results[i].entries # None =>
        results[i].entries.key >= results[i].stamp

IInv == /\ TypeInv
        /\ \A s \in Sides : Good(col[s])
        /\ WalkInOrder /\ AnswersInOrder

-----------------------------------------------------------------------------
(* A column's own steps. *)

\* A repository's key is None or a number that isn't 0.
LEMMA KeyType ==
    ASSUME key \in [Repos -> Nat], NEW r \in Repos \cup {None}
    PROVE  PollKey(r) \in Keys \cup {None}
BY DEF PollKey, Keys

\* Looking a status up leaves the column's cache and repository, asks only in
\* a repository, and shows what is of it.
LEMMA FiledSays ==
    ASSUME NEW c \in Columns, NEW force \in BOOLEAN, GitAssumption,
           CacheOwn(c), NotNewer(c)
    PROVE  /\ Filed(c, force) \in Columns
           /\ Good(Filed(c, force))
           /\ Filed(c, force).root = c.root
           /\ Filed(c, force).gen # c.gen => c.root \in Repos
<1> DEFINE asked == IF Asks(c, force) THEN [c EXCEPT !.gen = (@ + 1) % Generations] ELSE c
<1>1. Generations \in Nat /\ Generations > 0
  BY DEF GitAssumption
<1>2. asked \in Columns /\ asked.root = c.root /\ asked.cache = c.cache
      /\ (asked.gen # c.gen => c.root \in Repos)
  <2>1. CASE Asks(c, force)
    <3>1. (c.gen + 1) % Generations \in Nat
      BY <1>1 DEF Columns
    <3>2. c.root \in Repos
      BY <2>1 DEF Asks, Columns
    <3> QED BY <2>1, <3>1, <3>2 DEF Columns
  <2>2. CASE ~Asks(c, force)
    BY <2>2
  <2> QED BY <2>1, <2>2
<1>3. Markers(asked) \in Marks \cup {Blank}
      /\ (Markers(asked) # Blank => Markers(asked).repo = c.root)
  <2>1. asked.cache # None /\ asked.root # None =>
          Listed(asked.cache) \in Marks /\ Listed(asked.cache).repo = c.root
    BY <1>2 DEF Columns, Caches, Entries, Listed, Marks, CacheOwn
  <2> HIDE DEF asked
  <2> QED BY <2>1 DEF Markers
<1>4. Filed(c, force) = [asked EXCEPT !.shown = Markers(asked)]
  BY DEF Filed
<1> HIDE DEF asked
<1>5. /\ Filed(c, force) \in Columns
      /\ Filed(c, force).root = c.root /\ Filed(c, force).cache = c.cache
      /\ Filed(c, force).gen = asked.gen
      /\ Filed(c, force).shown = Markers(asked)
  BY <1>2, <1>3, <1>4 DEF Columns
<1> QED BY <1>2, <1>3, <1>5 DEF Good, CacheOwn, OwnShown, NotNewer

\* A column's moves to a key or a flag leave what it has and shows.
LEMMA SameGood ==
    ASSUME NEW c, NEW d, d.cache = c.cache, d.root = c.root, d.shown = c.shown
    PROVE  Good(c) => Good(d)
BY DEF Good, CacheOwn, OwnShown, NotNewer

\* A poll keeps a column good, and asks only in a repository.
LEMMA PolledSays ==
    ASSUME NEW c \in Columns, GitAssumption, Good(c), key \in [Repos -> Nat]
    PROVE  /\ Polled(c) \in Columns
           /\ Good(Polled(c))
           /\ Polled(c).gen # c.gen => Polled(c).root \in Repos
<1>1. CASE ~Moved(c)
  BY <1>1 DEF Polled
<1>2. CASE Moved(c)
  <2> DEFINE taken == [c EXCEPT !.flag = FALSE]
             filed == Filed(taken, c.flag)
  <2>1. taken \in Columns /\ taken.root = c.root /\ taken.cache = c.cache
        /\ taken.gen = c.gen /\ c.flag \in BOOLEAN
    BY DEF Columns
  <2>2. CacheOwn(taken) /\ NotNewer(taken)
    BY <2>1 DEF Good, CacheOwn, NotNewer
  <2> HIDE DEF taken
  <2>3. /\ filed \in Columns /\ Good(filed) /\ filed.root = c.root
        /\ filed.gen # c.gen => c.root \in Repos
    BY <2>1, <2>2, FiledSays
  <2>4. Polled(c) = [filed EXCEPT !.poll = PollKey(c.root)]
    BY <1>2 DEF Polled, taken
  <2>5. PollKey(c.root) \in Keys \cup {None}
    BY KeyType DEF Columns
  <2> HIDE DEF filed
  <2>6. /\ Polled(c) \in Columns /\ Polled(c).cache = filed.cache
        /\ Polled(c).root = filed.root /\ Polled(c).shown = filed.shown
        /\ Polled(c).gen = filed.gen
    BY <2>3, <2>4, <2>5 DEF Columns
  <2>7. Good(Polled(c))
    BY <2>3, <2>6, SameGood
  <2> QED BY <2>3, <2>6, <2>7
<1> QED BY <1>1, <1>2

-----------------------------------------------------------------------------
(* The steps of the loop. *)

\* A finite set is listed by a sequence of its members.
LEMMA ListedSet ==
    ASSUME NEW T, IsFiniteSet(T)
    PROVE  /\ Cardinality(T) \in Nat
           /\ SetToSeq(T) \in [1 .. Cardinality(T) -> T]
<1>1. Cardinality(T) \in Nat /\ ExistsBijection(1 .. Cardinality(T), T)
  BY FS_CardinalityType
<1>2. PICK f \in [1 .. Cardinality(T) -> T] : IsInjective(f)
  BY <1>1 DEF ExistsBijection, Bijection, Injection, IsInjective
<1> QED BY <1>1, <1>2 DEF SetToSeq

LEMMA FunctionSeq ==
    ASSUME NEW T, NEW n \in Nat, NEW f \in [1 .. n -> T]
    PROVE  f \in Seq(T)
OBVIOUS

\* What a step sends is a sequence of requests for its repositories.
LEMMA SendSays ==
    ASSUME TypeInv, GitAssumption, NEW new \in [Sides -> Columns],
           \A s \in Sides : new[s].gen # col[s].gen => new[s].root \in Repos,
           Send(new)
    PROVE  col' = new /\ queue' \in Seq(Reqs)
<1> DEFINE T == {s \in Sides : new[s].gen # col[s].gen}
           q == SetToSeq(T)
<1>1. IsFiniteSet(T)
  BY FS_Subset DEF GitAssumption
<1>2. Cardinality(T) \in Nat /\ q \in [1 .. Cardinality(T) -> T]
  BY <1>1, ListedSet
<1> HIDE DEF q
<1>3. \A i \in DOMAIN q : [side |-> q[i], gen |-> new[q[i]].gen, repo |-> new[q[i]].root] \in Reqs
  BY <1>2 DEF Columns, Reqs
<1>4. [i \in DOMAIN q |-> [side |-> q[i], gen |-> new[q[i]].gen, repo |-> new[q[i]].root]]
        \in [1 .. Cardinality(T) -> Reqs]
  BY <1>2, <1>3
<1>5. Requests(new) \in Seq(Reqs)
  <2>1. Requests(new) = [i \in DOMAIN q |-> [side |-> q[i], gen |-> new[q[i]].gen,
                                             repo |-> new[q[i]].root]]
    BY DEF Requests, q
  <2> HIDE DEF T
  <2> QED BY <1>2, <1>4, <2>1, FunctionSeq
<1>6. queue \in Seq(Reqs)
  BY DEF TypeInv
<1>7. col' = new /\ queue' = queue \o Requests(new)
  BY DEF Send
<1> QED BY <1>5, <1>6, <1>7

\* A step that only sends, with good columns, keeps the invariant.
LEMMA SendInv ==
    ASSUME IInv, GitAssumption, NEW new \in [Sides -> Columns],
           \A s \in Sides : Good(new[s]),
           \A s \in Sides : new[s].gen # col[s].gen => new[s].root \in Repos,
           Send(new), UNCHANGED <<disk, walk, results>>
    PROVE  IInv'
<1>1. col' = new /\ queue' \in Seq(Reqs)
  BY SendSays DEF IInv
<1>2. TypeInv'
  BY <1>1 DEF IInv, TypeInv, disk
<1>3. \A s \in Sides : Good(col[s])'
  BY <1>1 DEF Good, CacheOwn, OwnShown, NotNewer
<1>4. WalkInOrder' /\ AnswersInOrder'
  BY DEF IInv, WalkInOrder, AnswersInOrder, disk
<1> QED BY <1>2, <1>3, <1>4 DEF IInv

\* A step that leaves the columns, the worker and its answers, and lowers no
\* key, keeps the invariant.
LEMMA DiskInv ==
    ASSUME IInv, UNCHANGED <<col, worker>>, key' \in [Repos -> Nat],
           tree' \in [Repos -> Nat], \A r \in Repos : key'[r] >= key[r]
    PROVE  IInv'
<1>1. TypeInv'
  BY DEF IInv, TypeInv, worker
<1>2. \A s \in Sides : Good(col[s])'
  BY DEF IInv, Good, CacheOwn, OwnShown, NotNewer
<1>3. AnswersInOrder'
  BY DEF IInv, AnswersInOrder, worker
<1>4. WalkInOrder'
  <2>1. walk # None => walk \in Walks /\ walk.req.repo \in Repos
    BY DEF IInv, TypeInv, Walks, Reqs
  <2>2. walk # None /\ walk.before # None => walk.before \in Nat
    BY <2>1 DEF Walks, Keys
  <2>3. \A r \in Repos : key[r] \in Nat /\ key'[r] \in Nat
    BY DEF IInv, TypeInv
  <2> QED BY <2>1, <2>2, <2>3 DEF IInv, WalkInOrder, worker
<1> QED BY <1>1, <1>2, <1>3, <1>4 DEF IInv

LEMMA InitInv == GitAssumption /\ Init => IInv
<1> SUFFICES ASSUME GitAssumption, Init PROVE IInv
  OBVIOUS
<1>1. RepoOf[Home] \in Repos /\ Home \in Dirs
  BY DEF GitAssumption
<1>2. NewColumn \in Columns
  BY <1>1 DEF NewColumn, Columns
<1>3. \A s \in Sides : col[s] = NewColumn
  BY DEF Init
<1>4. Good(NewColumn)
  BY DEF Good, CacheOwn, OwnShown, NotNewer, NewColumn
<1>5. queue \in Seq(Reqs)
  <2> DEFINE q == SetToSeq(Sides)
  <2>1. Cardinality(Sides) \in Nat /\ q \in [1 .. Cardinality(Sides) -> Sides]
    BY ListedSet DEF GitAssumption
  <2> HIDE DEF q
  <2>2. [i \in DOMAIN q |-> [side |-> q[i], gen |-> 1, repo |-> RepoOf[Home]]]
          \in [1 .. Cardinality(Sides) -> Reqs]
    BY <1>1, <2>1 DEF Reqs
  <2>3. queue = [i \in DOMAIN q |-> [side |-> q[i], gen |-> 1, repo |-> RepoOf[Home]]]
    BY DEF Init, q
  <2> QED BY <2>1, <2>2, <2>3, FunctionSeq
<1>6. key \in [Repos -> Nat] /\ tree \in [Repos -> Nat]
  BY DEF Init, GitAssumption
<1>7. TypeInv
  BY <1>2, <1>5, <1>6 DEF Init, TypeInv
<1>8. WalkInOrder /\ AnswersInOrder
  BY DEF Init, WalkInOrder, AnswersInOrder
<1> QED BY <1>3, <1>4, <1>7, <1>8 DEF IInv

\* Disk: keys and versions only grow.
LEMMA DiskSteps == IInv /\ GitAssumption /\ Disk => IInv'
<1>1. ASSUME IInv, GitAssumption, NEW r \in Written, GitOperation(r) PROVE IInv'
  <2>1. r \in Repos /\ key \in [Repos -> Nat] /\ tree \in [Repos -> Nat]
    BY <1>1 DEF IInv, TypeInv, GitAssumption
  <2>2. key' = [key EXCEPT ![r] = @ + 1] /\ UNCHANGED <<tree, col, worker>>
    BY <1>1 DEF GitOperation
  <2>3. key' \in [Repos -> Nat] /\ \A x \in Repos : key'[x] >= key[x]
    BY <2>1, <2>2
  <2> QED BY <1>1, <2>1, <2>2, <2>3, DiskInv
<1>2. ASSUME IInv, GitAssumption, NEW d \in Dirs, NEW missed \in MayMiss, Edit(d, missed)
      PROVE  IInv'
  <2>1. RepoOf[d] \in Repos /\ key \in [Repos -> Nat] /\ tree \in [Repos -> Nat]
    BY <1>2 DEF IInv, TypeInv, GitAssumption, Edit
  <2>2. tree' = [tree EXCEPT ![RepoOf[d]] = @ + 1] /\ UNCHANGED <<key, col, worker>>
    BY <1>2 DEF Edit
  <2>3. tree' \in [Repos -> Nat] /\ \A x \in Repos : key'[x] >= key[x]
    BY <2>1, <2>2
  <2> QED BY <1>2, <2>1, <2>2, <2>3, DiskInv
<1> QED BY <1>1, <1>2 DEF Disk

\* Steps that send: a poll, a refresh, a move, and a project coming back.
LEMMA PollInv == IInv /\ GitAssumption /\ Poll => IInv'
<1> SUFFICES ASSUME IInv, GitAssumption, Poll PROVE IInv'
  OBVIOUS
<1> DEFINE new == [s \in Sides |-> Polled(col[s])]
<1>1. \A s \in Sides : col[s] \in Columns /\ Good(col[s]) /\ key \in [Repos -> Nat]
  BY DEF IInv, TypeInv
<1>2. \A s \in Sides : /\ new[s] \in Columns /\ Good(new[s])
                       /\ new[s].gen # col[s].gen => new[s].root \in Repos
  BY <1>1, PolledSays
<1>3. Send(new) /\ UNCHANGED <<disk, walk, results>>
  BY DEF Poll
<1>4. new \in [Sides -> Columns]
  BY <1>2
<1> HIDE DEF new
<1> QED BY <1>2, <1>3, <1>4, SendInv

LEMMA SwitchBackInv == IInv /\ GitAssumption /\ SwitchBack => IInv'
<1> SUFFICES ASSUME IInv, GitAssumption, SwitchBack PROVE IInv'
  OBVIOUS
<1> DEFINE flagged(s) == [col[s] EXCEPT !.flag = TRUE]
           new == [s \in Sides |-> Polled(flagged(s))]
<1>1. \A s \in Sides : col[s] \in Columns /\ Good(col[s]) /\ key \in [Repos -> Nat]
  BY DEF IInv, TypeInv
<1>2. \A s \in Sides : /\ flagged(s) \in Columns /\ flagged(s).cache = col[s].cache
                       /\ flagged(s).root = col[s].root /\ flagged(s).shown = col[s].shown
                       /\ flagged(s).gen = col[s].gen
  <2> SUFFICES ASSUME NEW s \in Sides, NEW c, c = col[s]
               PROVE  /\ [c EXCEPT !.flag = TRUE] \in Columns
                      /\ [c EXCEPT !.flag = TRUE].cache = c.cache
                      /\ [c EXCEPT !.flag = TRUE].root = c.root
                      /\ [c EXCEPT !.flag = TRUE].shown = c.shown
                      /\ [c EXCEPT !.flag = TRUE].gen = c.gen
    OBVIOUS
  <2>1. c \in Columns
    BY <1>1
  <2>2. [c EXCEPT !.flag = TRUE] \in Columns
    BY <2>1 DEF Columns
  <2> QED BY <2>1, <2>2 DEF Columns
<1>3. Send(new) /\ UNCHANGED <<disk, walk, results>>
  BY DEF SwitchBack
<1> HIDE DEF flagged
<1>4. \A s \in Sides : Good(flagged(s))
  BY <1>1, <1>2, SameGood
<1>5. \A s \in Sides : /\ new[s] \in Columns /\ Good(new[s])
                       /\ new[s].gen # col[s].gen => new[s].root \in Repos
  BY <1>1, <1>2, <1>4, PolledSays
<1>6. new \in [Sides -> Columns]
  BY <1>5
<1> HIDE DEF new
<1> QED BY <1>3, <1>5, <1>6, SendInv

LEMMA ListingInv ==
    ASSUME IInv, GitAssumption, NEW s \in Sides, NEW throttled \in BOOLEAN,
           ListingRefreshed(s, throttled)
    PROVE  IInv'
<1> DEFINE flagged == [col[s] EXCEPT !.flag = throttled]
           filed == Filed(flagged, ~throttled)
           new == [col EXCEPT ![s] = filed]
<1>1. \A x \in Sides : col[x] \in Columns /\ Good(col[x])
  BY DEF IInv, TypeInv
<1>2. flagged \in Columns /\ flagged.cache = col[s].cache /\ flagged.root = col[s].root
      /\ flagged.gen = col[s].gen
  BY <1>1 DEF Columns
<1>3. CacheOwn(flagged) /\ NotNewer(flagged)
  BY <1>1, <1>2 DEF Good, CacheOwn, NotNewer
<1>4. Send(new) /\ UNCHANGED <<disk, walk, results>>
  BY DEF ListingRefreshed
<1> HIDE DEF flagged
<1>5. /\ filed \in Columns /\ Good(filed) /\ filed.root = col[s].root
      /\ filed.gen # col[s].gen => filed.root \in Repos
  BY <1>2, <1>3, FiledSays
<1> HIDE DEF filed
<1>6. col \in [Sides -> Columns]
  BY DEF IInv, TypeInv
<1>7. \A x \in Sides : /\ new[x] \in Columns /\ Good(new[x])
                       /\ new[x].gen # col[x].gen => new[x].root \in Repos
  BY <1>1, <1>5, <1>6
<1>8. new \in [Sides -> Columns]
  BY <1>5, <1>6
<1> HIDE DEF new
<1> QED BY <1>4, <1>7, <1>8, SendInv

\* A move drops a status of another repository before anything is shown.
LEMMA ChdirInv ==
    ASSUME IInv, GitAssumption, NEW s \in Sides, NEW d \in Dirs, Chdir(s, d)
    PROVE  IInv'
<1> DEFINE at == [col[s] EXCEPT !.dir = d]
           rooted == Rooted(at, RepoOf[d])
           here == Filed(rooted, FALSE)
           noted == [here EXCEPT !.poll = PollKey(here.root)]
           new == [col EXCEPT ![s] = noted]
<1>1. \A x \in Sides : col[x] \in Columns /\ Good(col[x])
  BY DEF IInv, TypeInv
<1>2. /\ at \in Columns /\ at.cache = col[s].cache /\ at.gen = col[s].gen
      /\ RepoOf[d] \in Repos \cup {None}
  BY <1>1 DEF Columns, GitAssumption
<1>3. Send(new) /\ UNCHANGED <<disk, walk, results>>
  BY DEF Chdir
<1> HIDE DEF at
<1>4. /\ rooted \in Columns /\ rooted.root = RepoOf[d] /\ rooted.gen = col[s].gen
      /\ rooted.cache = IF RepoOf[d] # None /\ at.cache # None /\ at.cache.repo # RepoOf[d]
                        THEN None ELSE at.cache
  BY <1>2 DEF Rooted, Columns
<1> HIDE DEF rooted
<1>5. CacheOwn(rooted) /\ NotNewer(rooted)
  BY <1>1, <1>2, <1>4 DEF Good, CacheOwn, NotNewer
<1>6. /\ here \in Columns /\ Good(here) /\ here.root = RepoOf[d]
      /\ here.gen # col[s].gen => here.root \in Repos
  BY <1>4, <1>5, FiledSays
<1> HIDE DEF here
<1>7. PollKey(here.root) \in Keys \cup {None}
  BY <1>2, <1>6, KeyType DEF IInv, TypeInv
<1>8. /\ noted \in Columns /\ noted.cache = here.cache /\ noted.root = here.root
      /\ noted.shown = here.shown /\ noted.gen = here.gen
  BY <1>6, <1>7 DEF Columns
<1> HIDE DEF noted
<1>9. Good(noted)
  BY <1>6, <1>8, SameGood
<1>10. col \in [Sides -> Columns]
  BY DEF IInv, TypeInv
<1>11. \A x \in Sides : /\ new[x] \in Columns /\ Good(new[x])
                        /\ new[x].gen # col[x].gen => new[x].root \in Repos
  BY <1>1, <1>6, <1>8, <1>9, <1>10
<1>12. new \in [Sides -> Columns]
  BY <1>8, <1>10
<1> HIDE DEF new
<1> QED BY <1>3, <1>11, <1>12, SendInv

\* A file event only flags.
LEMMA FileEventInv ==
    ASSUME IInv, NEW e \in events, FileEvent(e)
    PROVE  IInv'
<1> DEFINE reached == {s \in Sides : ~away /\ e.dir \in Under[col[s].dir]}
           flagged(s) == [col[s] EXCEPT !.flag = TRUE]
<1>1. \A s \in Sides : col[s] \in Columns /\ Good(col[s])
  BY DEF IInv, TypeInv
<1>2. \A s \in Sides : /\ flagged(s) \in Columns /\ flagged(s).cache = col[s].cache
                       /\ flagged(s).root = col[s].root /\ flagged(s).shown = col[s].shown
  BY <1>1 DEF Columns
<1>3. col' = [s \in Sides |-> IF s \in reached THEN flagged(s) ELSE col[s]]
      /\ UNCHANGED <<disk, worker>>
  BY DEF FileEvent
<1> HIDE DEF flagged, reached
<1>4. \A s \in Sides : Good(flagged(s))
  BY <1>1, <1>2, SameGood
<1>5. col' \in [Sides -> Columns] /\ \A s \in Sides : Good(col'[s])
  BY <1>1, <1>2, <1>3, <1>4
<1>6. \A s \in Sides : Good(col[s])'
  BY <1>5 DEF Good, CacheOwn, OwnShown, NotNewer
<1>7. TypeInv' /\ WalkInOrder' /\ AnswersInOrder'
  BY <1>3, <1>5 DEF IInv, TypeInv, WalkInOrder, AnswersInOrder, disk, worker
<1> QED BY <1>6, <1>7 DEF IInv

\* An answer lands in the column that asked, if it is still in the answer's
\* repository.
LEMMA LandsInv == IInv /\ Lands => IInv'
<1> SUFFICES ASSUME IInv, Lands PROVE IInv'
  OBVIOUS
<1> DEFINE res == Head(results)
           s == res.req.side
           cache == [repo |-> res.req.repo, key |-> res.stamp, entries |-> res.entries]
           landed == [col[s] EXCEPT !.cache = cache, !.poll = res.stamp]
           shown == [landed EXCEPT !.shown = Listed(landed.cache)]
           lands == Current(res) /\ res.entries # None /\ res.stamp # None
<1>1. results \in Seq(Answers) /\ results # <<>>
  BY DEF IInv, TypeInv, Lands
<1>2. res \in Answers /\ s \in Sides /\ res.req \in Reqs
      /\ (res.entries # None /\ res.stamp # None => res.entries.key >= res.stamp)
  <2>1. 1 \in DOMAIN results /\ res = results[1] /\ results[1] \in Answers
    BY <1>1
  <2>2. results[1].stamp # None /\ results[1].entries # None =>
          results[1].entries.key >= results[1].stamp
    BY <2>1 DEF IInv, AnswersInOrder
  <2> HIDE DEF res
  <2> QED BY <2>1, <2>2 DEF Answers, Reqs
<1>3. results' = Tail(results) /\ UNCHANGED <<disk, queue, walk>>
      /\ IF lands THEN col' = [col EXCEPT ![s] = shown] ELSE UNCHANGED col
  BY DEF Lands
<1>4. results' \in Seq(Answers)
      /\ \A i \in DOMAIN results' : i + 1 \in DOMAIN results /\ results'[i] = results[i + 1]
  BY <1>1, <1>3
<1>5. AnswersInOrder'
  BY <1>4 DEF IInv, AnswersInOrder
<1>6. WalkInOrder'
  BY <1>3 DEF IInv, WalkInOrder, disk
<1>7. col \in [Sides -> Columns] /\ \A x \in Sides : col[x] \in Columns /\ Good(col[x])
  BY DEF IInv, TypeInv
<1> HIDE DEF res
<1>8. CASE ~lands
  <2>1. col' = col
    BY <1>3, <1>8
  <2>2. TypeInv'
    BY <2>1, <1>3, <1>4 DEF IInv, TypeInv, disk
  <2>3. \A x \in Sides : Good(col[x])'
    BY <2>1, <1>7 DEF Good, CacheOwn, OwnShown, NotNewer
  <2> QED BY <2>2, <2>3, <1>5, <1>6 DEF IInv
<1>9. CASE lands
  <2>1. cache \in Caches /\ cache.repo = res.req.repo /\ cache.entries.key >= cache.key
        /\ res.req.repo = col[s].root /\ res.stamp \in Keys
    BY <1>2, <1>9 DEF Caches, Answers, Reqs, Current, Keys
  <2> HIDE DEF cache
  <2>2. landed \in Columns /\ landed.cache = cache /\ landed.root = col[s].root
    <3>1. PICK c, stamp : c = col[s] /\ stamp = res.stamp
      OBVIOUS
    <3>2. c \in Columns /\ stamp \in Keys
      BY <2>1, <3>1, <1>2, <1>7
    <3>3. landed = [c EXCEPT !.cache = cache, !.poll = stamp]
      BY <3>1
    <3>4. QED
      BY <2>1, <3>1, <3>2, <3>3 DEF Columns
  <2> HIDE DEF landed
  <2>3. Listed(landed.cache) \in Marks /\ Listed(landed.cache).repo = col[s].root
    BY <2>1, <2>2 DEF Listed, Marks, Caches, Entries
  <2>4. shown \in Columns /\ shown.cache = cache /\ shown.root = col[s].root
        /\ shown.shown = Listed(landed.cache)
    BY <2>2, <2>3 DEF Columns
  <2> HIDE DEF shown
  <2>5. Good(shown)
    BY <2>1, <2>3, <2>4 DEF Good, CacheOwn, OwnShown, NotNewer
  <2>6. col' = [col EXCEPT ![s] = shown]
    BY <1>3, <1>9
  <2>7. col' \in [Sides -> Columns] /\ \A x \in Sides : Good(col'[x])
    BY <2>4, <2>5, <2>6, <1>2, <1>7
  <2>8. \A x \in Sides : Good(col[x])'
    BY <2>7 DEF Good, CacheOwn, OwnShown, NotNewer
  <2>9. TypeInv'
    BY <2>7, <1>3, <1>4 DEF IInv, TypeInv, disk
  <2> QED BY <2>8, <2>9, <1>5, <1>6 DEF IInv
<1> QED BY <1>8, <1>9

-----------------------------------------------------------------------------
(* The worker. *)

\* A walk, when one begins, has read nothing.
LEMMA BegunSays ==
    ASSUME key \in [Repos -> Nat], NEW req \in Reqs, NEW n \in Nat
    PROVE  /\ Begun(req, n) \in Walks /\ Begun(req, n).at = "index"
           /\ Begun(req, n).entries \in Entries /\ Begun(req, n).req = req
           /\ Begun(req, n).before = PollKey(req.repo)
<1>1. PollKey(req.repo) \in Keys \cup {None}
  BY KeyType DEF Reqs
<1> QED BY <1>1 DEF Begun, Walks, Entries

\* A walk's key is the repository's as it begins.
LEMMA BegunInOrder ==
    ASSUME key \in [Repos -> Nat], NEW req \in Reqs, NEW n \in Nat,
           walk' = Begun(req, n), key' = key
    PROVE  WalkInOrder'
<1>1. Begun(req, n).before # None =>
        Begun(req, n).before <= key[Begun(req, n).req.repo]
  BY BegunSays DEF PollKey, Reqs
<1>2. Begun(req, n).at = "index"
  BY BegunSays
<1> QED BY <1>1, <1>2 DEF WalkInOrder

\* A step of the worker leaves the columns.
LEMMA WorkerInv == IInv /\ GitAssumption /\ Worker => IInv'
<1> SUFFICES ASSUME IInv, GitAssumption, Worker PROVE IInv'
  OBVIOUS
<1>1. key \in [Repos -> Nat] /\ queue \in Seq(Reqs) /\ results \in Seq(Answers)
      /\ (walk # None => walk \in Walks)
  BY DEF IInv, TypeInv
<1>2. UNCHANGED <<key, tree, col>>
  BY DEF Worker, WalkBegins, WalkReadsIndex, WalkReadsFiles, WalkEnds, disk
<1>3. \A s \in Sides : Good(col[s])'
  BY <1>2 DEF IInv, Good, CacheOwn, OwnShown, NotNewer
<1>4. CASE WalkBegins
  <2>1. Head(queue) \in Reqs /\ Tail(queue) \in Seq(Reqs)
    BY <1>1, <1>4 DEF WalkBegins
  <2>2. walk' = Begun(Head(queue), 1) /\ queue' = Tail(queue) /\ results' = results
    BY <1>4 DEF WalkBegins
  <2>3. walk' \in Walks /\ walk'.entries \in Entries
    BY <1>1, <2>1, <2>2, BegunSays
  <2>4. TypeInv'
    BY <1>2, <2>1, <2>2, <2>3 DEF IInv, TypeInv
  <2>5. WalkInOrder'
    BY <1>1, <1>2, <2>1, <2>2, BegunInOrder
  <2>6. AnswersInOrder'
    BY <2>2 DEF IInv, AnswersInOrder
  <2> QED BY <1>3, <2>4, <2>5, <2>6 DEF IInv
<1>5. CASE WalkReadsIndex
  <2> DEFINE r == walk.req.repo
  <2>1. walk \in Walks /\ walk.at = "index" /\ walk.entries \in Entries
        /\ queue' = queue /\ results' = results
        /\ walk' = [walk EXCEPT !.at = "files", !.entries.key = key[r]]
    BY <1>1, <1>5 DEF WalkReadsIndex, Idle, IInv, TypeInv
  <2>2. r \in Repos /\ key[r] \in Nat
    BY <1>1, <2>1 DEF Walks, Reqs
  <2>3. [walk.entries EXCEPT !.key = key[r]] \in Entries
        /\ [walk.entries EXCEPT !.key = key[r]].key = key[r]
    BY <2>1, <2>2 DEF Entries
  <2>4. walk' \in Walks /\ walk'.entries \in Entries /\ walk'.entries.key = key[r]
        /\ walk'.req = walk.req /\ walk'.before = walk.before /\ walk'.at = "files"
    BY <2>1, <2>3 DEF Walks
  <2>5. TypeInv'
    BY <1>2, <2>1, <2>4 DEF IInv, TypeInv
  <2>6. walk # None
    BY <1>5 DEF WalkReadsIndex, Idle
  <2>7. WalkInOrder'
    BY <1>2, <2>4, <2>6 DEF IInv, WalkInOrder
  <2>8. AnswersInOrder'
    BY <2>1 DEF IInv, AnswersInOrder
  <2> QED BY <1>3, <2>5, <2>7, <2>8 DEF IInv
<1>6. ASSUME NEW fails \in MayFail, WalkReadsFiles(fails) PROVE IInv'
  <2> DEFINE read == IF fails THEN None ELSE [walk.entries EXCEPT !.tree = tree[walk.req.repo]]
  <2>1. walk # None /\ walk \in Walks /\ walk.at = "files" /\ walk.entries \in Entries
        /\ queue' = queue /\ results' = results
        /\ walk' = [walk EXCEPT !.at = "done", !.entries = read]
    BY <1>1, <1>6 DEF WalkReadsFiles, Idle, IInv, TypeInv
  <2>2. walk.req.repo \in Repos /\ tree[walk.req.repo] \in Nat
    BY <2>1 DEF Walks, Reqs, IInv, TypeInv
  <2>3. read = None \/ (read \in Entries /\ read.key = walk.entries.key)
    BY <2>1, <2>2 DEF Entries
  <2> HIDE DEF read
  <2>4. walk' \in Walks /\ walk'.entries = read /\ walk'.req = walk.req
        /\ walk'.before = walk.before /\ walk'.at = "done"
    BY <2>1, <2>3 DEF Walks
  <2>5. TypeInv'
    BY <1>2, <2>1, <2>4 DEF IInv, TypeInv
  <2>6. WalkInOrder'
    <3>1. walk.before # None => /\ walk.before <= key[walk.req.repo]
                                /\ walk.entries.key >= walk.before
      BY <2>1 DEF IInv, WalkInOrder
    <3> QED BY <1>2, <2>3, <2>4, <3>1 DEF WalkInOrder
  <2>7. AnswersInOrder'
    BY <2>1 DEF IInv, AnswersInOrder
  <2> QED BY <1>3, <2>5, <2>6, <2>7 DEF IInv
<1>7. CASE WalkEnds
  <2>1. walk # None /\ walk \in Walks /\ walk.at = "done" /\ queue' = queue
    BY <1>1, <1>7 DEF WalkEnds, Idle
  <2>2. CASE Stable(walk) \/ walk.tries = Tries
    <3> DEFINE answer == [req |-> walk.req, entries |-> walk.entries, stamp |-> Stamp(walk)]
    <3>1. results' = Append(results, answer) /\ walk' = None
      BY <1>7, <2>2 DEF WalkEnds
    <3>2. answer \in Answers
          /\ (answer.stamp # None /\ answer.entries # None => answer.entries.key >= answer.stamp)
      BY <2>1 DEF Answers, Walks, Stamp, IInv, WalkInOrder
    <3> HIDE DEF answer
    <3>3. results' \in Seq(Answers)
          /\ \A i \in DOMAIN results' :
               results'[i] = answer \/ (i \in DOMAIN results /\ results'[i] = results[i])
      BY <1>1, <3>1, <3>2
    <3>4. TypeInv'
      BY <1>2, <2>1, <3>1, <3>3 DEF IInv, TypeInv
    <3>5. AnswersInOrder'
      BY <3>2, <3>3 DEF IInv, AnswersInOrder
    <3>6. WalkInOrder'
      BY <3>1 DEF WalkInOrder
    <3> QED BY <1>3, <3>4, <3>5, <3>6 DEF IInv
  <2>3. CASE ~(Stable(walk) \/ walk.tries = Tries)
    <3>1. walk' = Begun(walk.req, walk.tries + 1) /\ results' = results
      BY <1>7, <2>3 DEF WalkEnds
    <3>2. walk.req \in Reqs /\ walk.tries + 1 \in Nat
      BY <2>1 DEF Walks
    <3>3. walk' \in Walks /\ walk'.entries \in Entries
      BY <1>1, <3>1, <3>2, BegunSays
    <3>4. TypeInv'
      BY <1>2, <2>1, <3>1, <3>3 DEF IInv, TypeInv
    <3>5. WalkInOrder'
      BY <1>1, <1>2, <3>1, <3>2, BegunInOrder
    <3>6. AnswersInOrder'
      BY <3>1 DEF IInv, AnswersInOrder
    <3> QED BY <1>3, <3>4, <3>5, <3>6 DEF IInv
  <2> QED BY <2>2, <2>3
<1> QED BY <1>4, <1>5, <1>6, <1>7 DEF Worker

-----------------------------------------------------------------------------
(* The theorems. *)

LEMMA NextInv == GitAssumption /\ IInv /\ [Next]_vars => IInv'
<1> SUFFICES ASSUME GitAssumption, IInv, [Next]_vars PROVE IInv'
  OBVIOUS
<1>1. CASE Disk
  BY <1>1, DiskSteps
<1>2. CASE User
  <2>1. ASSUME NEW s \in Sides, NEW d \in Dirs, Chdir(s, d) PROVE IInv'
    BY <2>1, ChdirInv
  <2>2. CASE SwitchAway
    BY <2>2, DiskInv DEF SwitchAway, disk, IInv, TypeInv
  <2>3. CASE SwitchBack
    BY <2>3, SwitchBackInv
  <2> QED BY <1>2, <2>1, <2>2, <2>3 DEF User
<1>3. CASE Loop
  <2>1. ASSUME NEW e \in events, FileEvent(e) PROVE IInv'
    BY <2>1, FileEventInv
  <2>2. CASE Poll
    BY <2>2, PollInv
  <2>3. ASSUME NEW s \in Sides, NEW throttled \in BOOLEAN, ListingRefreshed(s, throttled)
        PROVE  IInv'
    BY <2>3, ListingInv
  <2>4. CASE ListingDropped
    BY <2>4, DiskInv DEF ListingDropped, disk, IInv, TypeInv
  <2>5. CASE Lands
    BY <2>5, LandsInv
  <2> QED BY <1>3, <2>1, <2>2, <2>3, <2>4, <2>5 DEF Loop
<1>4. CASE Worker
  BY <1>4, WorkerInv
<1>5. CASE UNCHANGED vars
  BY <1>5, DiskInv DEF vars, worker, IInv, TypeInv
<1> QED BY <1>1, <1>2, <1>3, <1>4, <1>5 DEF Next

\* For any columns, directories, repositories and bounds: what a column
\* caches and shows is of the repository it is in, and every status on its
\* way is no older than its key (git_file_statuses_cached, update_repo_root,
\* apply_git_worker_result, stable_walk).
THEOREM Invariant == Spec => []IInv
<1>1. Init => IInv
  BY InitInv, GitAssumption
<1>2. IInv /\ [Next]_vars => IInv'
  BY NextInv, GitAssumption
<1> QED BY <1>1, <1>2, PTL DEF Spec

\* A column never shows the markers of a repository it isn't in.
THEOREM NeverAnotherRepository == Spec => []ShownOwn
<1>1. IInv => ShownOwn
  BY DEF IInv, Good, OwnShown, ShownOwn
<1> QED BY <1>1, Invariant, PTL

\* No cached status is older than the key it would be taken for fresh by.
THEOREM NeverStampedNewer == Spec => []NeverNewerKey
<1>1. IInv => NeverNewerKey
  BY DEF IInv, Good, NotNewer, NeverNewerKey
<1> QED BY <1>1, Invariant, PTL

-----------------------------------------------------------------------------
(* Markers that are behind.                                                *)
(*                                                                         *)
(* A column is to be brought up to date while an answer to its last        *)
(* request is on its way; once none is, what it cached is what the poll    *)
(* noted, and holds what it heard of unless it is flagged.  An answer is   *)
(* the column's own if its generation is, so the generations on their way  *)
(* must not have wrapped onto the last one: a request is never older than  *)
(* the requests sent since.                                                *)

\* The column's last request, and the one for what it is in now.
Newest(s, req) == req.side = s /\ req.gen = col[s].gen
Here(s, req) == Newest(s, req) /\ req.repo = col[s].root
Waiting(s) ==
    \/ \E i \in DOMAIN queue : Here(s, queue[i])
    \/ walk # None /\ Here(s, walk.req)
    \/ \E i \in DOMAIN results : Here(s, results[i].req)

Gens == 0 .. Generations - 1
TypeNow ==
    /\ \A s \in Sides : col[s].gen \in Gens
    /\ heard \in [Sides -> Nat] /\ failed \in [Sides -> BOOLEAN]
    /\ \A e \in events : e.tree \in Nat
    /\ \A i \in DOMAIN queue : queue[i].gen \in Gens
    /\ walk # None => walk.req.gen \in Gens
    /\ \A i \in DOMAIN results : results[i].req.gen \in Gens

\* The generation g came at most n before now.
Aged(g, now, n) == \E a \in 0 .. n : g = now - a \/ g = now - a + Generations
Walking == IF walk = None THEN 0 ELSE 1
InTurn ==
    /\ Len(queue) + Len(results) + Walking <= MaxQueue
    /\ \A i \in DOMAIN queue : Aged(queue[i].gen, col[queue[i].side].gen, Len(queue) - i)
    /\ walk # None => Aged(walk.req.gen, col[walk.req.side].gen, Len(queue))
    /\ \A i \in DOMAIN results :
         Aged(results[i].req.gen, col[results[i].req.side].gen,
              Len(results) - i + Walking + Len(queue))

\* A request followed by another of its column is not the column's last.
Outdated(old, new) == old.side = new.side => old.gen # col[old.side].gen
OneNewest ==
    /\ \A i, j \in DOMAIN queue : i < j => Outdated(queue[i], queue[j])
    /\ walk # None => \A j \in DOMAIN queue : Outdated(walk.req, queue[j])
    /\ \A i \in DOMAIN results :
         /\ \A j \in DOMAIN results : i < j => Outdated(results[i].req, results[j].req)
         /\ walk # None => Outdated(results[i].req, walk.req)
         /\ \A j \in DOMAIN queue : Outdated(results[i].req, queue[j])

\* What was read of an index, and a key that was noted, are not newer than it.
WasRead ==
    /\ walk # None /\ walk.entries # None => walk.entries.key <= key[walk.req.repo]
    /\ \A i \in DOMAIN results :
         results[i].entries # None => results[i].entries.key <= key[results[i].req.repo]
    /\ \A s \in Sides :
         /\ col[s].cache # None => col[s].cache.entries.key <= key[col[s].cache.repo]
         /\ col[s].root # None /\ col[s].poll # None => col[s].poll <= key[col[s].root]

\* A walk found no key only where the column has noted and cached none.
NoKeyYet(s, req) ==
    /\ col[s].cache # None => col[s].cache.repo # req.repo
    /\ req.repo = col[s].root => col[s].poll = None
KeyedOnce ==
    \A s \in Sides :
      /\ walk # None /\ Newest(s, walk.req) /\ walk.before = None => NoKeyYet(s, walk.req)
      /\ \A i \in DOMAIN results :
           Newest(s, results[i].req) /\ results[i].stamp = None => NoKeyYet(s, results[i].req)

\* What a column that isn't flagged heard of is in what its last walk read.
HeardOf ==
    \A s \in Sides :
      \/ col[s].flag
      \/ /\ col[s].root # None => heard[s] <= tree[col[s].root]
         /\ walk # None /\ walk.at = "done" /\ walk.entries # None /\ Here(s, walk.req)
              => walk.entries.tree >= heard[s]
         /\ \A i \in DOMAIN results :
              results[i].entries # None /\ Here(s, results[i].req)
                => results[i].entries.tree >= heard[s]

\* With no walk on its way, what is shown is the status of the key noted.
UpToPoll(s) ==
    ~away /\ col[s].root # None /\ ~failed[s] /\ ~Waiting(s) =>
      \/ col[s].poll = None /\ col[s].cache = None
      \/ /\ col[s].cache # None /\ col[s].cache.key = col[s].poll
         /\ col[s].shown = Listed(col[s].cache)
         /\ col[s].flag \/ col[s].cache.entries.tree >= heard[s]

NoticeInv ==
    /\ IInv /\ TypeNow /\ InTurn /\ OneNewest /\ WasRead /\ KeyedOnce /\ HeardOf
    /\ \A s \in Sides : UpToPoll(s)

-----------------------------------------------------------------------------
(* Generations. *)

LEMMA NextGen ==
    ASSUME GitAssumption, NEW g \in Gens, NEW h, h = (g + 1) % Generations
    PROVE  h \in Gens /\ (h = g + 1 \/ (g = Generations - 1 /\ h = 0))
<1>1. Generations \in Nat /\ Generations > 0 /\ g \in 0 .. Generations - 1
  BY DEF GitAssumption, Gens
<1>2. CASE g + 1 = Generations
  <2>1. (g + 1) % Generations = 0
    BY <1>1, <1>2
  <2> QED BY <1>1, <1>2, <2>1 DEF Gens
<1>3. CASE g + 1 < Generations
  <2>1. (g + 1) % Generations = g + 1
    BY <1>1, <1>3
  <2> QED BY <1>1, <1>3, <2>1 DEF Gens
<1> QED BY <1>1, <1>2, <1>3

LEMMA AgedMore ==
    ASSUME GitAssumption, NEW g \in Gens, NEW now \in Gens, NEW n \in Nat, NEW m \in Nat,
           m >= n, Aged(g, now, n)
    PROVE  Aged(g, now, m)
BY DEF Aged, Gens, GitAssumption

\* A new request makes every other that is on its way older, and no longer
\* the last, as long as they are fewer than the generations.
LEMMA AgedNext ==
    ASSUME GitAssumption, NEW g \in Gens, NEW now \in Gens, NEW n \in Nat,
           n + 1 < Generations, Aged(g, now, n), NEW next, next = (now + 1) % Generations
    PROVE  Aged(g, next, n + 1) /\ g # next
<1>1. Generations \in Nat
  BY DEF GitAssumption
<1>2. PICK a \in 0 .. n : g = now - a \/ g = now - a + Generations
  BY DEF Aged
<1>3. next \in Gens /\ (next = now + 1 \/ (now = Generations - 1 /\ next = 0))
  BY NextGen
<1>4. g \in Int /\ now \in Int /\ a \in Int /\ g < Generations /\ g >= 0
      /\ now < Generations /\ now >= 0 /\ a >= 0 /\ a <= n /\ next \in Int
  BY <1>1, <1>3 DEF Gens
<1>5. g = next - (a + 1) \/ g = next - (a + 1) + Generations
  BY <1>1, <1>2, <1>3, <1>4
<1>6. a + 1 \in 0 .. (n + 1)
  BY <1>4
<1> QED BY <1>1, <1>4, <1>5, <1>6 DEF Aged

LEMMA AgedNow ==
    ASSUME NEW g \in Nat, NEW n \in Nat
    PROVE  Aged(g, g, n)
<1>1. 0 \in 0 .. n /\ g = g - 0
  OBVIOUS
<1> QED BY <1>1 DEF Aged

-----------------------------------------------------------------------------
(* What a step sends. *)

\* A set is listed once each, and in full.
LEMMA ListedOnce ==
    ASSUME NEW T, IsFiniteSet(T)
    PROVE  LET q == SetToSeq(T)
           IN  /\ DOMAIN q = 1 .. Cardinality(T) /\ Cardinality(T) \in Nat
               /\ \A i, j \in DOMAIN q : i # j => q[i] # q[j]
               /\ \A i \in DOMAIN q : q[i] \in T
               /\ \A t \in T : \E i \in DOMAIN q : q[i] = t
<1> DEFINE n == Cardinality(T)
           q == SetToSeq(T)
<1>1. n \in Nat /\ ExistsBijection(1 .. n, T)
  BY FS_CardinalityType
<1>2. PICK f \in [1 .. n -> T] : IsInjective(f)
  BY <1>1 DEF ExistsBijection, Bijection, Injection, IsInjective
<1>3. q \in [1 .. n -> T] /\ IsInjective(q)
  BY <1>1, <1>2 DEF SetToSeq
<1> HIDE DEF q
<1>4. q \in Injection(1 .. n, T)
  BY <1>3 DEF Injection, IsInjective
<1>5. IsFiniteSet(1 .. n) /\ Cardinality(1 .. n) = n
  BY <1>1, FS_Interval
<1>6. q \in Surjection(1 .. n, T)
  BY <1>4, <1>5, FS_Injection
<1>7. \A t \in T : \E i \in 1 .. n : q[i] = t
  BY <1>6 DEF Surjection
<1> HIDE DEF n
<1>8. /\ DOMAIN q = 1 .. n /\ n \in Nat
      /\ \A i, j \in DOMAIN q : i # j => q[i] # q[j]
      /\ \A i \in DOMAIN q : q[i] \in T
      /\ \A t \in T : \E i \in DOMAIN q : q[i] = t
  BY <1>1, <1>3, <1>7 DEF IsInjective
<1> QED BY <1>8 DEF n, q

LEMMA Joined ==
    ASSUME NEW T, NEW a \in Seq(T), NEW b \in Seq(T), NEW ab, ab = a \o b
    PROVE  /\ Len(a) \in Nat /\ Len(ab) = Len(a) + Len(b)
           /\ \A i \in 1 .. Len(a) : ab[i] = a[i]
           /\ \A i \in (Len(a) + 1) .. (Len(a) + Len(b)) :
                i - Len(a) \in 1 .. Len(b) /\ ab[i] = b[i - Len(a)]
OBVIOUS

\* The columns that ask have one request each at the end of the queue.
Sent(new, n) ==
    /\ Len(queue') >= n
    /\ \A i \in 1 .. n : queue'[i] = queue[i]
    /\ \A i \in (n + 1) .. Len(queue') :
         \E s \in Sides : /\ new[s].gen # col[s].gen
                          /\ queue'[i] = [side |-> s, gen |-> new[s].gen, repo |-> new[s].root]
    /\ \A i, j \in (n + 1) .. Len(queue') : i < j => queue'[i].side # queue'[j].side
    /\ \A s \in Sides : new[s].gen # col[s].gen =>
         \E i \in (n + 1) .. Len(queue') :
           queue'[i] = [side |-> s, gen |-> new[s].gen, repo |-> new[s].root]

LEMMA SentSays ==
    ASSUME TypeInv, GitAssumption, NEW new \in [Sides -> Columns],
           \A s \in Sides : new[s].gen # col[s].gen => new[s].root \in Repos,
           Send(new)
    PROVE  /\ Sent(new, Len(queue)) /\ Len(queue) \in Nat /\ Len(queue') \in Nat
           /\ Len(queue') + Len(results) + Walking <= MaxQueue
<1> DEFINE T == {s \in Sides : new[s].gen # col[s].gen}
           q == SetToSeq(T)
           ask(s) == [side |-> s, gen |-> new[s].gen, repo |-> new[s].root]
           m == Cardinality(T)
           n == Len(queue)
<1>1. IsFiniteSet(T)
  BY FS_Subset DEF GitAssumption
<1>2. /\ DOMAIN q = 1 .. m /\ m \in Nat
      /\ \A i, j \in DOMAIN q : i # j => q[i] # q[j]
      /\ \A i \in DOMAIN q : q[i] \in T
      /\ \A t \in T : \E i \in DOMAIN q : q[i] = t
  BY <1>1, ListedOnce
<1>3. Requests(new) = [i \in DOMAIN q |-> ask(q[i])]
  BY DEF Requests
<1> HIDE DEF q, m
<1>4. \A s \in T : ask(s) \in Reqs /\ ask(s).side = s
  BY DEF Columns, Reqs
<1> HIDE DEF ask
<1>5. Requests(new) \in [1 .. m -> Reqs]
  BY <1>2, <1>3, <1>4
<1>6. Requests(new) \in Seq(Reqs) /\ Len(Requests(new)) = m
  BY <1>2, <1>5, FunctionSeq
<1>7. queue \in Seq(Reqs) /\ queue' = queue \o Requests(new)
  BY DEF TypeInv, Send
<1>8. /\ n \in Nat /\ Len(queue') = n + m
      /\ \A i \in 1 .. n : queue'[i] = queue[i]
      /\ \A i \in (n + 1) .. (n + m) :
           i - n \in 1 .. m /\ queue'[i] = Requests(new)[i - n]
  <2>1. PICK r, w : r = Requests(new) /\ w = queue'
    OBVIOUS
  <2>2. r \in Seq(Reqs) /\ w = queue \o r /\ queue \in Seq(Reqs)
    BY <1>6, <1>7, <2>1
  <2>3. /\ Len(queue) \in Nat /\ Len(w) = Len(queue) + Len(r)
        /\ \A i \in 1 .. Len(queue) : w[i] = queue[i]
        /\ \A i \in (Len(queue) + 1) .. (Len(queue) + Len(r)) :
             i - Len(queue) \in 1 .. Len(r) /\ w[i] = r[i - Len(queue)]
    BY <2>2, Joined
  <2> QED BY <1>6, <2>1, <2>3
<1> HIDE DEF n
<1>9. \A i \in (n + 1) .. (n + m) : i - n \in 1 .. m /\ queue'[i] = ask(q[i - n])
                                    /\ q[i - n] \in T
  <2> HIDE DEF T
  <2>1. \A k \in 1 .. m : Requests(new)[k] = ask(q[k]) /\ q[k] \in T
    BY <1>2, <1>3
  <2> QED BY <1>8, <2>1
<1>10. \A i \in (n + 1) .. Len(queue') :
         \E s \in Sides : new[s].gen # col[s].gen /\ queue'[i] = ask(s)
  BY <1>8, <1>9
<1>11. \A i, j \in (n + 1) .. Len(queue') : i < j => queue'[i].side # queue'[j].side
  <2> SUFFICES ASSUME NEW i \in (n + 1) .. (n + m), NEW j \in (n + 1) .. (n + m), i < j
               PROVE  queue'[i].side # queue'[j].side
    BY <1>8
  <2>1. i - n # j - n /\ i - n \in DOMAIN q /\ j - n \in DOMAIN q
    BY <1>2, <1>8, <1>9
  <2>2. q[i - n] # q[j - n]
    BY <1>2, <2>1
  <2> QED BY <1>4, <1>9, <2>2
<1>12. \A s \in T : \E i \in (n + 1) .. Len(queue') : queue'[i] = ask(s)
  <2> SUFFICES ASSUME NEW s \in T PROVE \E i \in (n + 1) .. (n + m) : queue'[i] = ask(s)
    BY <1>8
  <2>1. PICK k \in 1 .. m : q[k] = s
    BY <1>2
  <2>2. n + k \in (n + 1) .. (n + m) /\ (n + k) - n = k
    BY <1>2, <1>8
  <2>3. queue'[n + k] = ask(s)
    BY <1>9, <2>1, <2>2
  <2> QED BY <2>2, <2>3
<1>13. Len(queue') >= n
  BY <1>2, <1>8
<1>14. Sent(new, n)
  BY <1>8, <1>10, <1>11, <1>12, <1>13 DEF Sent, ask
<1>15. Len(queue) + Len(results) + Walking + Len(Requests(new)) <= MaxQueue
  BY DEF Send, Outstanding, Walking
<1>16. Len(queue') = Len(queue) + Len(Requests(new)) /\ Len(Requests(new)) \in Nat
       /\ Len(queue) \in Nat
  <2>1. Requests(new) \in Seq(Reqs) /\ queue \in Seq(Reqs)
    BY <1>6, <1>7
  <2>2. PICK w : w = queue'
    OBVIOUS
  <2>3. w = queue \o Requests(new)
    BY <1>7, <2>2
  <2>4. Len(w) = Len(queue) + Len(Requests(new)) /\ Len(Requests(new)) \in Nat
        /\ Len(queue) \in Nat
    BY <2>1, <2>3
  <2> QED BY <2>2, <2>4
<1>17. Len(results) \in Nat /\ Walking \in Nat
  BY DEF TypeInv, Walking
<1>18. Len(queue') \in Nat /\ Len(queue') + Len(results) + Walking <= MaxQueue
  BY <1>15, <1>16, <1>17 DEF GitAssumption
<1> QED BY <1>14, <1>16, <1>18 DEF n

-----------------------------------------------------------------------------
(* What a step that sends does to a column. *)

\* The column goes on with what it has cached, as of the key noted.
Reused(c, d) ==
    /\ d.cache = c.cache /\ d.cache # None
    /\ PollKey(d.root) # None /\ d.cache.key = PollKey(d.root)
    /\ d.shown = Listed(d.cache)
    /\ d.root = c.root /\ c.flag => d.flag
    /\ d.poll = PollKey(d.root) \/ (d.poll = c.poll /\ d.root = c.root)

Looked(c, d) ==
    /\ d.cache = c.cache \/ d.cache = None
    /\ d.poll = PollKey(d.root) \/ (d.poll = c.poll /\ d.root = c.root)
    /\ \/ d.gen = (c.gen + 1) % Generations /\ d.root # None
       \/ d.gen = c.gen /\ (d.root # None => d = c \/ Reused(c, d))

\* A look at the status: asked for, or what is cached is shown again.
LEMMA FiledIs ==
    ASSUME NEW c \in Columns, NEW force \in BOOLEAN, GitAssumption
    PROVE  LET d == Filed(c, force)
           IN  /\ d.cache = c.cache /\ d.root = c.root /\ d.poll = c.poll /\ d.flag = c.flag
               /\ \/ d.gen = (c.gen + 1) % Generations /\ c.root # None
                  \/ /\ d.gen = c.gen
                     /\ c.root # None => ~force /\ Reuses(c) /\ d.shown = Listed(c.cache)
<1> DEFINE asked == IF Asks(c, force) THEN [c EXCEPT !.gen = (@ + 1) % Generations] ELSE c
<1>1. /\ asked.cache = c.cache /\ asked.root = c.root /\ asked.poll = c.poll
      /\ asked.flag = c.flag
      /\ \/ asked.gen = (c.gen + 1) % Generations /\ c.root # None
         \/ asked.gen = c.gen /\ (c.root # None => ~force /\ Reuses(c))
  BY DEF Columns, Asks
<1>2. asked \in [dir : Dirs, root : Repos \cup {None}, cache : Caches \cup {None},
                 poll : Keys \cup {None}, flag : BOOLEAN, gen : Nat, shown : Marks \cup {Blank}]
  <2>1. (c.gen + 1) % Generations \in Nat
    BY DEF Columns, GitAssumption
  <2> QED BY <2>1 DEF Columns
<1>3. Filed(c, force) = [asked EXCEPT !.shown = Markers(asked)]
  BY DEF Filed
<1> HIDE DEF asked
<1> DEFINE d == Filed(c, force)
<1>4. d.cache = asked.cache /\ d.root = asked.root /\ d.poll = asked.poll /\ d.flag = asked.flag
      /\ d.gen = asked.gen /\ d.shown = Markers(asked)
  BY <1>2, <1>3
<1>5. c.root # None /\ Reuses(c) => Markers(asked) = Listed(c.cache)
  BY <1>1 DEF Markers, Reuses
<1> HIDE DEF d
<1>6. /\ d.cache = c.cache /\ d.root = c.root /\ d.poll = c.poll /\ d.flag = c.flag
      /\ \/ d.gen = (c.gen + 1) % Generations /\ c.root # None
         \/ /\ d.gen = c.gen
            /\ c.root # None => ~force /\ Reuses(c) /\ d.shown = Listed(c.cache)
  BY <1>1, <1>4, <1>5
<1> QED BY <1>6 DEF d

LEMMA PolledLooked ==
    ASSUME NEW c \in Columns, GitAssumption, key \in [Repos -> Nat], Good(c)
    PROVE  /\ Looked(c, Polled(c))
           /\ c.flag /\ Polled(c).root # None => Polled(c).gen = (c.gen + 1) % Generations
<1>1. CASE ~Moved(c)
  BY <1>1 DEF Polled, Looked, Moved
<1>2. CASE Moved(c)
  <2> DEFINE taken == [c EXCEPT !.flag = FALSE]
             filed == Filed(taken, c.flag)
  <2>1. /\ taken \in Columns /\ taken.root = c.root /\ taken.cache = c.cache
        /\ taken.gen = c.gen /\ taken.flag = FALSE /\ c.flag \in BOOLEAN
    BY DEF Columns
  <2>2. CacheOwn(taken) /\ NotNewer(taken)
    BY <2>1 DEF Good, CacheOwn, NotNewer
  <2>3. Reuses(taken) => c.cache # None /\ PollKey(c.root) # None /\ c.cache.key = PollKey(c.root)
    BY <2>1 DEF Reuses
  <2> HIDE DEF taken
  <2>4. filed \in Columns
    BY <2>1, <2>2, FiledSays
  <2>5. /\ filed.cache = c.cache /\ filed.root = c.root
        /\ \/ filed.gen = (c.gen + 1) % Generations /\ c.root # None
           \/ /\ filed.gen = c.gen
              /\ c.root # None => ~c.flag /\ Reuses(taken) /\ filed.shown = Listed(c.cache)
    <3>1. /\ filed.cache = taken.cache /\ filed.root = taken.root
          /\ \/ filed.gen = (taken.gen + 1) % Generations /\ taken.root # None
             \/ /\ filed.gen = taken.gen
                /\ taken.root # None =>
                     ~c.flag /\ Reuses(taken) /\ filed.shown = Listed(taken.cache)
      BY <2>1, FiledIs, Zenon
    <3> HIDE DEF filed
    <3> QED BY <2>1, <3>1
  <2>6. Polled(c) = [filed EXCEPT !.poll = PollKey(c.root)]
    BY <1>2 DEF Polled, taken
  <2>7. PollKey(c.root) \in Keys \cup {None}
    BY KeyType DEF Columns
  <2> HIDE DEF filed
  <2> DEFINE d == Polled(c)
  <2>8. d.cache = filed.cache /\ d.root = filed.root /\ d.shown = filed.shown
        /\ d.gen = filed.gen /\ d.poll = PollKey(c.root)
    BY <2>4, <2>6, <2>7 DEF Columns
  <2> HIDE DEF d
  <2>9. Looked(c, d) /\ (c.flag /\ d.root # None => d.gen = (c.gen + 1) % Generations)
    BY <2>3, <2>5, <2>8 DEF Looked, Reused
  <2> QED BY <2>9 DEF d
<1> QED BY <1>1, <1>2

\* A step that only sends: the columns were looked at, and what a column that
\* asked is told is behind every request before it.
LEMMA SendNotice ==
    ASSUME NoticeInv, GitAssumption, NEW new \in [Sides -> Columns],
           \A s \in Sides : Good(new[s]),
           \A s \in Sides : new[s].gen # col[s].gen => new[s].root \in Repos,
           \A s \in Sides : Looked(col[s], new[s]),
           Send(new), UNCHANGED <<disk, walk, results, events>>,
           away' = away \/ \A s \in Sides : new[s].root # None => new[s].gen # col[s].gen
    PROVE  NoticeInv'
<1> DEFINE n == Len(queue)
           L == Len(queue')
           R == Len(results)
           asked(s) == new[s].gen # col[s].gen
<1>1. IInv /\ TypeInv /\ IInv' /\ TypeInv'
  BY SendInv DEF NoticeInv, IInv
<1>2. /\ Sent(new, n) /\ n \in Nat /\ L \in Nat
      /\ L + R + Walking <= MaxQueue
  BY <1>1, SentSays
<1>3. R \in Nat /\ Walking \in Nat /\ Generations \in Nat /\ MaxQueue < Generations
      /\ MaxQueue \in Nat /\ Walking' = Walking
  BY <1>1 DEF TypeInv, Walking, GitAssumption
<1>4. col' = new /\ key' = key /\ tree' = tree /\ walk' = walk /\ results' = results
      /\ events' = events
  BY DEF Send, disk
<1>5. Generations > 1
  <2>1. Cardinality(Sides) # 0 /\ Cardinality(Sides) \in Nat
    BY FS_EmptySet, FS_CardinalityType DEF GitAssumption
  <2> QED BY <1>3, <2>1 DEF GitAssumption
<1>6. \A s \in Sides :
        /\ col[s] \in Columns /\ new[s] \in Columns /\ col[s].gen \in Gens
        /\ new[s].gen \in Gens
        /\ asked(s) => new[s].gen = (col[s].gen + 1) % Generations
        /\ ~asked(s) /\ new[s].root # None => new[s] = col[s] \/ Reused(col[s], new[s])
  <2> SUFFICES ASSUME NEW s \in Sides
               PROVE  /\ col[s] \in Columns /\ new[s] \in Columns /\ col[s].gen \in Gens
                      /\ new[s].gen \in Gens
                      /\ asked(s) => new[s].gen = (col[s].gen + 1) % Generations
                      /\ ~asked(s) /\ new[s].root # None =>
                           new[s] = col[s] \/ Reused(col[s], new[s])
    OBVIOUS
  <2>1. col[s] \in Columns /\ new[s] \in Columns /\ col[s].gen \in Gens
    BY <1>1 DEF NoticeInv, TypeNow, TypeInv
  <2>2. PICK h : h = (col[s].gen + 1) % Generations
    OBVIOUS
  <2>3. h \in Gens /\ (h = col[s].gen + 1 \/ (col[s].gen = Generations - 1 /\ h = 0))
    BY <2>1, <2>2, NextGen
  <2>4. h # col[s].gen
    BY <1>3, <1>5, <2>1, <2>3 DEF Gens
  <2>5. Looked(col[s], new[s])
    OBVIOUS
  <2> QED BY <2>1, <2>2, <2>3, <2>4, <2>5 DEF Looked
<1>7. \A s \in Sides :
        /\ asked(s) => heard'[s] = tree[new[s].root] /\ new[s].root \in Repos
        /\ ~asked(s) /\ new[s].root # col[s].root => heard'[s] = 0
        /\ ~asked(s) /\ new[s].root = col[s].root =>
             heard'[s] = heard[s] /\ (failed[s] => failed'[s])
  BY DEF Send
<1>8. heard' \in [Sides -> Nat]
  <2>1. tree \in [Repos -> Nat] /\ heard \in [Sides -> Nat]
    BY <1>1 DEF NoticeInv, TypeNow, TypeInv
  <2>2. \A s \in Sides : heard'[s] \in Nat
    BY <1>7, <2>1
  <2>3. heard' = [s \in Sides |-> heard'[s]]
    BY DEF Send
  <2> QED BY <2>2, <2>3
<1>28. failed' \in [Sides -> BOOLEAN]
  <2>1. \A s \in Sides : failed'[s] \in BOOLEAN
    BY DEF Send
  <2>2. failed' = [s \in Sides |-> failed'[s]]
    BY DEF Send
  <2> QED BY <2>1, <2>2, Zenon
<1>9. /\ \A i \in 1 .. n : queue'[i] = queue[i]
      /\ \A i \in (n + 1) .. L :
           \E s \in Sides : /\ asked(s)
                            /\ queue'[i] = [side |-> s, gen |-> new[s].gen, repo |-> new[s].root]
      /\ \A i, j \in (n + 1) .. L : i < j => queue'[i].side # queue'[j].side
      /\ \A s \in Sides : asked(s) =>
           \E i \in (n + 1) .. L :
             queue'[i] = [side |-> s, gen |-> new[s].gen, repo |-> new[s].root]
      /\ L >= n
  BY <1>2 DEF Sent
<1>10. /\ DOMAIN queue = 1 .. n /\ DOMAIN queue' = 1 .. L /\ DOMAIN results = 1 .. R
       /\ \A i \in DOMAIN queue : queue[i] \in Reqs
       /\ \A i \in DOMAIN results : results[i].req \in Reqs
       /\ walk # None => walk.req \in Reqs
  <2>1. queue \in Seq(Reqs) /\ results \in Seq(Answers) /\ queue' \in Seq(Reqs)
        /\ (walk # None => walk \in Walks)
    BY <1>1 DEF TypeInv
  <2>2. DOMAIN queue = 1 .. n /\ \A i \in DOMAIN queue : queue[i] \in Reqs
    BY <2>1
  <2>3. DOMAIN queue' = 1 .. L
    BY <2>1
  <2>4. DOMAIN results = 1 .. R /\ \A i \in DOMAIN results : results[i] \in Answers
    BY <2>1
  <2> HIDE DEF n, L, R
  <2> QED BY <2>1, <2>2, <2>3, <2>4 DEF Walks, Answers
<1>11. /\ \A i \in DOMAIN queue : queue[i].gen \in Gens
       /\ \A i \in DOMAIN results : results[i].req.gen \in Gens
       /\ walk # None => walk.req.gen \in Gens
       /\ \A e \in events : e.tree \in Nat
  BY DEF NoticeInv, TypeNow
<1>12. /\ \A i \in DOMAIN queue : Aged(queue[i].gen, col[queue[i].side].gen, n - i)
       /\ walk # None => Aged(walk.req.gen, col[walk.req.side].gen, n)
       /\ \A i \in DOMAIN results :
            Aged(results[i].req.gen, col[results[i].req.side].gen, R - i + Walking + n)
  BY DEF NoticeInv, InTurn
<1> HIDE DEF n, L, R, asked
<1>13. ASSUME NEW req \in Reqs, req.gen \in Gens, NEW k \in Nat,
              Aged(req.gen, col[req.side].gen, k), k + (L - n) < Generations
       PROVE  /\ Aged(req.gen, new[req.side].gen, k + (L - n))
              /\ asked(req.side) => req.gen # new[req.side].gen
  <2> DEFINE s == req.side
  <2>1. s \in Sides
    BY <1>13 DEF Reqs
  <2>2. CASE asked(s)
    <3>1. L >= n + 1
      <4>1. PICK i \in (n + 1) .. L :
              queue'[i] = [side |-> s, gen |-> new[s].gen, repo |-> new[s].root]
        BY <1>9, <2>1, <2>2
      <4> QED BY <1>2
    <3>2. k + 1 < Generations /\ k + 1 \in Nat /\ k + (L - n) \in Nat /\ k + (L - n) >= k + 1
      BY <1>2, <1>3, <1>13, <3>1
    <3>3. Aged(req.gen, new[s].gen, k + 1) /\ req.gen # new[s].gen
      <4>1. PICK g, now, next : g = req.gen /\ now = col[s].gen /\ next = new[s].gen
        OBVIOUS
      <4>2. g \in Gens /\ now \in Gens /\ next = (now + 1) % Generations /\ Aged(g, now, k)
        BY <1>6, <1>13, <2>1, <2>2, <4>1
      <4>3. Aged(g, next, k + 1) /\ g # next
        BY <1>13, <3>2, <4>2, AgedNext
      <4> QED BY <4>1, <4>3
    <3>4. Aged(req.gen, new[s].gen, k + (L - n))
      BY <1>6, <1>13, <2>1, <3>2, <3>3, AgedMore
    <3> QED BY <3>3, <3>4
  <2>3. CASE ~asked(s)
    <3>1. new[s].gen = col[s].gen
      BY <2>3 DEF asked
    <3>2. k + (L - n) \in Nat /\ k + (L - n) >= k
      BY <1>2, <1>9
    <3>3. Aged(req.gen, new[s].gen, k + (L - n))
      BY <1>6, <1>13, <2>1, <3>1, <3>2, AgedMore
    <3> QED BY <2>3, <3>3
  <2> QED BY <2>2, <2>3
<1>14. \A i \in DOMAIN queue : /\ Aged(queue[i].gen, new[queue[i].side].gen, L - i)
                               /\ asked(queue[i].side) => queue[i].gen # new[queue[i].side].gen
  <2> SUFFICES ASSUME NEW i \in 1 .. n
               PROVE  /\ Aged(queue[i].gen, new[queue[i].side].gen, L - i)
                      /\ asked(queue[i].side) => queue[i].gen # new[queue[i].side].gen
    BY <1>10
  <2>1. n - i \in Nat /\ (n - i) + (L - n) < Generations /\ (n - i) + (L - n) = L - i
    BY <1>2, <1>3
  <2> QED BY <1>10, <1>11, <1>12, <1>13, <2>1
<1>15. walk # None => /\ Aged(walk.req.gen, new[walk.req.side].gen, L)
                      /\ asked(walk.req.side) => walk.req.gen # new[walk.req.side].gen
  <2>1. walk # None => Walking = 1
    BY DEF Walking
  <2>2. walk # None => n + (L - n) < Generations /\ n + (L - n) = L
    BY <1>2, <1>3, <2>1
  <2> QED BY <1>2, <1>10, <1>11, <1>12, <1>13, <2>2
<1>16. \A i \in DOMAIN results :
         /\ Aged(results[i].req.gen, new[results[i].req.side].gen, R - i + Walking + L)
         /\ asked(results[i].req.side) => results[i].req.gen # new[results[i].req.side].gen
  <2> SUFFICES ASSUME NEW i \in 1 .. R
               PROVE  /\ Aged(results[i].req.gen, new[results[i].req.side].gen, R - i + Walking + L)
                      /\ asked(results[i].req.side) =>
                           results[i].req.gen # new[results[i].req.side].gen
    BY <1>10
  <2>1. R - i + Walking + n \in Nat
        /\ (R - i + Walking + n) + (L - n) < Generations
        /\ (R - i + Walking + n) + (L - n) = R - i + Walking + L
    BY <1>2, <1>3
  <2>2. Aged(results[i].req.gen, col[results[i].req.side].gen, R - i + Walking + n)
        /\ results[i].req \in Reqs /\ results[i].req.gen \in Gens
    BY <1>10, <1>11, <1>12
  <2>3. /\ Aged(results[i].req.gen, new[results[i].req.side].gen, (R - i + Walking + n) + (L - n))
        /\ asked(results[i].req.side) => results[i].req.gen # new[results[i].req.side].gen
    BY <1>13, <2>1, <2>2
  <2> QED BY <2>1, <2>3
<1>17. \A i \in (n + 1) .. L : queue'[i].gen = new[queue'[i].side].gen
                               /\ queue'[i].side \in Sides /\ asked(queue'[i].side)
  <2> SUFFICES ASSUME NEW i \in (n + 1) .. L
               PROVE  /\ queue'[i].gen = new[queue'[i].side].gen
                      /\ queue'[i].side \in Sides /\ asked(queue'[i].side)
    OBVIOUS
  <2>1. PICK s \in Sides : /\ asked(s)
                           /\ queue'[i] = [side |-> s, gen |-> new[s].gen, repo |-> new[s].root]
    BY <1>9
  <2>2. queue'[i].side = s /\ queue'[i].gen = new[s].gen
    BY <2>1
  <2> QED BY <2>1, <2>2
<1>18. TypeNow'
  <2>1. \A i \in 1 .. L : queue'[i].gen \in Gens
    BY <1>2, <1>6, <1>9, <1>10, <1>11, <1>17
  <2>2. \A s \in Sides : col'[s].gen \in Gens
    BY <1>4, <1>6
  <2>3. \A i \in DOMAIN queue' : queue'[i].gen \in Gens
    BY <1>10, <2>1
  <2>4. /\ walk' # None => walk'.req.gen \in Gens
        /\ \A i \in DOMAIN results' : results'[i].req.gen \in Gens
        /\ \A e \in events' : e.tree \in Nat
    BY <1>4, <1>11
  <2> QED BY <1>8, <1>28, <2>2, <2>3, <2>4 DEF TypeNow
<1>19. InTurn'
  <2>1. \A i \in 1 .. L : Aged(queue'[i].gen, new[queue'[i].side].gen, L - i)
    <3> SUFFICES ASSUME NEW i \in 1 .. L
                 PROVE  Aged(queue'[i].gen, new[queue'[i].side].gen, L - i)
      OBVIOUS
    <3>1. CASE i \in 1 .. n
      BY <1>9, <1>10, <1>14, <3>1
    <3>2. CASE i \in (n + 1) .. L
      <4>1. new[queue'[i].side].gen \in Nat /\ L - i \in Nat
        BY <1>2, <1>6, <1>17, <3>2 DEF Columns
      <4> QED BY <1>17, <3>2, <4>1, AgedNow
    <3> QED BY <1>2, <3>1, <3>2
  <2>2. Len(queue') + Len(results') + Walking' <= MaxQueue
    BY <1>2, <1>3, <1>4 DEF L, R
  <2> QED BY <1>3, <1>4, <1>10, <1>15, <1>16, <2>1, <2>2 DEF InTurn, L, R
<1>20. OneNewest'
  <2>1. ASSUME NEW req \in Reqs, NEW later \in Reqs, Outdated(req, later),
               asked(req.side) => req.gen # new[req.side].gen
        PROVE  req.side = later.side => req.gen # new[req.side].gen
    BY <2>1 DEF Outdated, asked
  <2>2. ASSUME NEW req \in Reqs, asked(req.side) => req.gen # new[req.side].gen,
               NEW j \in (n + 1) .. L
        PROVE  req.side = queue'[j].side => req.gen # new[req.side].gen
    BY <1>17, <2>2
  <2>3. \A i \in 1 .. n : queue'[i] = queue[i] /\ i \in DOMAIN queue
                          /\ queue[i] \in Reqs
    BY <1>9, <1>10
  <2>4. \A i, j \in 1 .. L : i < j =>
          (queue'[i].side = queue'[j].side => queue'[i].gen # new[queue'[i].side].gen)
    <3> SUFFICES ASSUME NEW i \in 1 .. L, NEW j \in 1 .. L, i < j
                 PROVE  queue'[i].side = queue'[j].side =>
                          queue'[i].gen # new[queue'[i].side].gen
      OBVIOUS
    <3>1. CASE j \in 1 .. n
      <4>1. i \in 1 .. n
        BY <1>2, <3>1
      <4>2. Outdated(queue[i], queue[j])
        BY <2>3, <3>1, <4>1 DEF NoticeInv, OneNewest
      <4> QED BY <1>14, <2>1, <2>3, <3>1, <4>1, <4>2
    <3>2. CASE j \in (n + 1) .. L /\ i \in 1 .. n
      BY <1>14, <2>2, <2>3, <3>2
    <3>3. CASE j \in (n + 1) .. L /\ i \in (n + 1) .. L
      BY <1>9, <3>3
    <3> QED BY <1>2, <3>1, <3>2, <3>3
  <2>5. walk # None => \A j \in 1 .. L :
          walk.req.side = queue'[j].side => walk.req.gen # new[walk.req.side].gen
    <3> SUFFICES ASSUME walk # None, NEW j \in 1 .. L
                 PROVE  walk.req.side = queue'[j].side => walk.req.gen # new[walk.req.side].gen
      OBVIOUS
    <3>1. CASE j \in 1 .. n
      <4>1. Outdated(walk.req, queue[j])
        BY <2>3, <3>1 DEF NoticeInv, OneNewest
      <4> QED BY <1>10, <1>15, <2>1, <2>3, <3>1, <4>1
    <3>2. CASE j \in (n + 1) .. L
      BY <1>10, <1>15, <2>2, <3>2
    <3> QED BY <1>2, <3>1, <3>2
  <2>6. \A i \in DOMAIN results : \A j \in 1 .. L :
          results[i].req.side = queue'[j].side =>
            results[i].req.gen # new[results[i].req.side].gen
    <3> SUFFICES ASSUME NEW i \in DOMAIN results, NEW j \in 1 .. L
                 PROVE  results[i].req.side = queue'[j].side =>
                          results[i].req.gen # new[results[i].req.side].gen
      OBVIOUS
    <3>1. CASE j \in 1 .. n
      <4>1. Outdated(results[i].req, queue[j])
        BY <2>3, <3>1 DEF NoticeInv, OneNewest
      <4> QED BY <1>10, <1>16, <2>1, <2>3, <3>1, <4>1
    <3>2. CASE j \in (n + 1) .. L
      BY <1>10, <1>16, <2>2, <3>2
    <3> QED BY <1>2, <3>1, <3>2
  <2>7. \A i, j \in DOMAIN results : i < j =>
          (results[i].req.side = results[j].req.side =>
             results[i].req.gen # new[results[i].req.side].gen)
    <3> SUFFICES ASSUME NEW i \in DOMAIN results, NEW j \in DOMAIN results, i < j
                 PROVE  results[i].req.side = results[j].req.side =>
                          results[i].req.gen # new[results[i].req.side].gen
      OBVIOUS
    <3>1. Outdated(results[i].req, results[j].req)
      BY DEF NoticeInv, OneNewest
    <3> QED BY <1>10, <1>16, <2>1, <3>1
  <2>8. walk # None => \A i \in DOMAIN results :
          (results[i].req.side = walk.req.side =>
             results[i].req.gen # new[results[i].req.side].gen)
    <3> SUFFICES ASSUME NEW i \in DOMAIN results, walk # None
                 PROVE  results[i].req.side = walk.req.side =>
                          results[i].req.gen # new[results[i].req.side].gen
      OBVIOUS
    <3>1. Outdated(results[i].req, walk.req)
      BY DEF NoticeInv, OneNewest
    <3> QED BY <1>10, <1>16, <2>1, <3>1
  <2> QED BY <1>4, <1>10, <2>4, <2>5, <2>6, <2>7, <2>8 DEF OneNewest, Outdated
<1>21. WasRead'
  <2>1. ASSUME NEW s \in Sides
        PROVE  /\ new[s].cache # None => new[s].cache.entries.key <= key[new[s].cache.repo]
               /\ new[s].root # None /\ new[s].poll # None => new[s].poll <= key[new[s].root]
    <3>1. /\ col[s].cache # None => col[s].cache.entries.key <= key[col[s].cache.repo]
          /\ col[s].root # None /\ col[s].poll # None => col[s].poll <= key[col[s].root]
      BY DEF NoticeInv, WasRead
    <3>2. Looked(col[s], new[s])
      OBVIOUS
    <3>3. new[s].root # None => new[s].root \in Repos /\ key[new[s].root] \in Nat
      BY <1>1, <1>6 DEF Columns, TypeInv
    <3> QED BY <3>1, <3>2, <3>3 DEF Looked, PollKey
  <2> QED BY <1>4, <2>1 DEF NoticeInv, WasRead
<1>22. KeyedOnce'
  <2>1. ASSUME NEW s \in Sides, NEW req \in Reqs, req.side = s, req.gen = new[s].gen,
               asked(req.side) => req.gen # new[req.side].gen,
               Newest(s, req) => NoKeyYet(s, req)
        PROVE  /\ new[s].cache # None => new[s].cache.repo # req.repo
               /\ req.repo = new[s].root => new[s].poll = None
    <3>1. ~asked(s) /\ new[s].gen = col[s].gen
      BY <2>1 DEF asked
    <3>2. NoKeyYet(s, req)
      BY <2>1, <3>1 DEF Newest
    <3>3. req.repo # None
      BY <2>1 DEF Reqs, Repos
    <3>4. Looked(col[s], new[s]) /\ CacheOwn(new[s])
      BY DEF Good
    <3>5. new[s].root # None => new[s] = col[s] \/ Reused(col[s], new[s])
      BY <1>6, <3>1
    <3> QED BY <3>2, <3>3, <3>4, <3>5 DEF NoKeyYet, Looked, Reused, CacheOwn
  <2>2. ASSUME NEW s \in Sides, walk # None, Newest(s, walk.req)', walk.before = None
        PROVE  NoKeyYet(s, walk.req)'
    <3>1. walk.req.side = s /\ walk.req.gen = new[s].gen /\ walk.req \in Reqs
      BY <1>4, <1>10, <2>2 DEF Newest
    <3>2. Newest(s, walk.req) => NoKeyYet(s, walk.req)
      BY <2>2 DEF NoticeInv, KeyedOnce
    <3> QED BY <1>4, <1>15, <2>1, <2>2, <3>1, <3>2 DEF NoKeyYet
  <2>3. ASSUME NEW s \in Sides, NEW i \in DOMAIN results, Newest(s, results[i].req)',
               results[i].stamp = None
        PROVE  NoKeyYet(s, results[i].req)'
    <3>1. results[i].req.side = s /\ results[i].req.gen = new[s].gen /\ results[i].req \in Reqs
      BY <1>4, <1>10, <2>3 DEF Newest
    <3>2. Newest(s, results[i].req) => NoKeyYet(s, results[i].req)
      BY <2>3 DEF NoticeInv, KeyedOnce
    <3> QED BY <1>4, <1>16, <2>1, <2>3, <3>1, <3>2 DEF NoKeyYet
  <2> QED BY <1>4, <2>2, <2>3 DEF KeyedOnce
<1>23. HeardOf'
  <2>1. ASSUME NEW s \in Sides, ~new[s].flag, ~asked(s), new[s].root # None,
               new[s].root = col[s].root
        PROVE  ~col[s].flag /\ heard'[s] = heard[s]
    BY <1>6, <1>7, <2>1 DEF Reused, Columns
  <2>2. ASSUME NEW s \in Sides, ~new[s].flag, new[s].root # None
        PROVE  heard'[s] <= tree[new[s].root]
    <3>1. new[s].root \in Repos /\ tree[new[s].root] \in Nat
      BY <1>1, <1>6, <2>2 DEF Columns, TypeInv
    <3>2. ~col[s].flag /\ col[s].root # None => heard[s] <= tree[col[s].root]
      BY DEF NoticeInv, HeardOf
    <3> QED BY <1>7, <2>1, <2>2, <3>1, <3>2
  <2>3. ASSUME NEW s \in Sides, ~new[s].flag, NEW req \in Reqs, req.side = s,
               req.gen = new[s].gen, req.repo = new[s].root, NEW v \in Nat,
               asked(req.side) => req.gen # new[req.side].gen,
               ~col[s].flag /\ Here(s, req) => v >= heard[s]
        PROVE  v >= heard'[s]
    <3>1. ~asked(s) /\ new[s].gen = col[s].gen /\ new[s].root # None
      BY <2>3 DEF asked, Reqs, Repos
    <3>2. CASE new[s].root = col[s].root
      BY <2>1, <2>3, <3>1, <3>2 DEF Here, Newest
    <3>3. CASE new[s].root # col[s].root
      BY <1>7, <2>3, <3>1, <3>3
    <3> QED BY <3>2, <3>3
  <2>4. ASSUME NEW s \in Sides, ~new[s].flag, walk # None, walk.at = "done",
               walk.entries # None, Here(s, walk.req)'
        PROVE  walk.entries.tree >= heard'[s]
    <3>1. walk.req \in Reqs /\ walk.entries.tree \in Nat
      BY <1>1, <1>10, <2>4 DEF TypeInv, Walks, Entries
    <3>2. walk.req.side = s /\ walk.req.gen = new[s].gen /\ walk.req.repo = new[s].root
      BY <1>4, <2>4 DEF Here, Newest
    <3>3. ~col[s].flag /\ Here(s, walk.req) => walk.entries.tree >= heard[s]
      BY <2>4 DEF NoticeInv, HeardOf
    <3> QED BY <1>15, <2>3, <2>4, <3>1, <3>2, <3>3
  <2>5. ASSUME NEW s \in Sides, ~new[s].flag, NEW i \in DOMAIN results,
               results[i].entries # None, Here(s, results[i].req)'
        PROVE  results[i].entries.tree >= heard'[s]
    <3>1. results[i] \in Answers
      BY <1>1 DEF TypeInv
    <3>2. results[i].req \in Reqs /\ results[i].entries.tree \in Nat
      BY <2>5, <3>1 DEF Answers, Entries
    <3>3. results[i].req.side = s /\ results[i].req.gen = new[s].gen
          /\ results[i].req.repo = new[s].root
      BY <1>4, <2>5 DEF Here, Newest
    <3>4. ~col[s].flag /\ Here(s, results[i].req) => results[i].entries.tree >= heard[s]
      BY <2>5 DEF NoticeInv, HeardOf
    <3> QED BY <1>16, <2>3, <2>5, <3>2, <3>3, <3>4
  <2> QED BY <1>4, <2>2, <2>4, <2>5 DEF HeardOf
<1>24. ASSUME NEW s \in Sides PROVE UpToPoll(s)'
  <2> SUFFICES ASSUME ~away', new[s].root # None, ~failed'[s], ~Waiting(s)'
               PROVE  \/ new[s].poll = None /\ new[s].cache = None
                      \/ /\ new[s].cache # None /\ new[s].cache.key = new[s].poll
                         /\ new[s].shown = Listed(new[s].cache)
                         /\ new[s].flag \/ new[s].cache.entries.tree >= heard'[s]
    BY <1>4 DEF UpToPoll, Listed
  <2>1. ~asked(s)
    <3> SUFFICES ASSUME asked(s) PROVE FALSE
      OBVIOUS
    <3>1. PICK i \in (n + 1) .. L :
            queue'[i] = [side |-> s, gen |-> new[s].gen, repo |-> new[s].root]
      BY <1>9
    <3>2. i \in DOMAIN queue' /\ Here(s, queue[i])'
      BY <1>2, <1>4, <1>10, <3>1 DEF Here, Newest
    <3> QED BY <3>2 DEF Waiting
  <2>2. ~away
    BY <2>1 DEF asked
  <2>3. new[s] = col[s] \/ Reused(col[s], new[s])
    BY <1>6, <2>1
  <2>4. CASE new[s].root = col[s].root
    <3>1. heard'[s] = heard[s] /\ ~failed[s] /\ new[s].gen = col[s].gen
      BY <1>7, <2>1, <2>4 DEF asked
    <3>2. ~Waiting(s)
      <4>1. \A i \in DOMAIN queue : queue'[i] = queue[i] /\ i \in DOMAIN queue'
        BY <1>2, <1>9, <1>10
      <4> QED BY <1>4, <2>4, <3>1, <4>1 DEF Waiting, Here, Newest
    <3>3. \/ col[s].poll = None /\ col[s].cache = None
          \/ /\ col[s].cache # None /\ col[s].cache.key = col[s].poll
             /\ col[s].shown = Listed(col[s].cache)
             /\ col[s].flag \/ col[s].cache.entries.tree >= heard[s]
      BY <2>2, <2>4, <3>1, <3>2 DEF NoticeInv, UpToPoll
    <3> QED BY <2>3, <2>4, <3>1, <3>3 DEF Reused
  <2>5. CASE new[s].root # col[s].root
    <3>1. heard'[s] = 0 /\ Reused(col[s], new[s])
      BY <1>7, <2>1, <2>3, <2>5
    <3>2. new[s].cache # None => new[s].cache.entries.tree >= 0
      BY <1>6 DEF Columns, Caches, Entries
    <3> QED BY <2>5, <3>1, <3>2 DEF Reused
  <2> QED BY <2>4, <2>5
<1> QED BY <1>1, <1>18, <1>19, <1>20, <1>21, <1>22, <1>23, <1>24 DEF NoticeInv

LEMMA PollNotice == NoticeInv /\ GitAssumption /\ Poll => NoticeInv'
<1> SUFFICES ASSUME NoticeInv, GitAssumption, Poll PROVE NoticeInv'
  OBVIOUS
<1> DEFINE new == [s \in Sides |-> Polled(col[s])]
<1>1. \A s \in Sides : col[s] \in Columns /\ Good(col[s]) /\ key \in [Repos -> Nat]
  BY DEF NoticeInv, IInv, TypeInv
<1>2. \A s \in Sides : /\ new[s] \in Columns /\ Good(new[s]) /\ Looked(col[s], new[s])
                       /\ new[s].gen # col[s].gen => new[s].root \in Repos
  BY <1>1, PolledSays, PolledLooked
<1>3. Send(new) /\ UNCHANGED <<disk, walk, results, events>> /\ away' = away
  BY DEF Poll
<1>4. new \in [Sides -> Columns]
  BY <1>2
<1> HIDE DEF new
<1> QED BY <1>2, <1>3, <1>4, SendNotice

LEMMA FlaggedIs ==
    ASSUME NEW c \in Columns
    PROVE  LET f == [c EXCEPT !.flag = TRUE]
           IN  /\ f \in Columns /\ f.cache = c.cache /\ f.root = c.root
               /\ f.shown = c.shown /\ f.gen = c.gen /\ f.poll = c.poll /\ f.flag = TRUE
BY DEF Columns

\* A project that comes back asks for every column that is in a repository:
\* an answer that came while it was away was dropped.
LEMMA SwitchBackNotice == NoticeInv /\ GitAssumption /\ SwitchBack => NoticeInv'
<1> SUFFICES ASSUME NoticeInv, GitAssumption, SwitchBack PROVE NoticeInv'
  OBVIOUS
<1> DEFINE flagged(s) == [col[s] EXCEPT !.flag = TRUE]
           new == [s \in Sides |-> Polled(flagged(s))]
<1>1. \A s \in Sides : col[s] \in Columns /\ Good(col[s]) /\ key \in [Repos -> Nat]
                       /\ col[s].gen \in Gens
  BY DEF NoticeInv, IInv, TypeInv, TypeNow
<1>2. \A s \in Sides : /\ flagged(s) \in Columns /\ flagged(s).cache = col[s].cache
                       /\ flagged(s).root = col[s].root /\ flagged(s).shown = col[s].shown
                       /\ flagged(s).gen = col[s].gen /\ flagged(s).poll = col[s].poll
                       /\ flagged(s).flag = TRUE
  BY <1>1, FlaggedIs
<1>3. Send(new) /\ UNCHANGED <<disk, walk, results, events>>
  BY DEF SwitchBack
<1> HIDE DEF flagged
<1>4. \A s \in Sides : Good(flagged(s))
  BY <1>1, <1>2, SameGood
<1>5. \A s \in Sides :
        /\ new[s] \in Columns /\ Good(new[s]) /\ Looked(flagged(s), new[s])
        /\ new[s].gen # col[s].gen => new[s].root \in Repos
        /\ new[s].root # None => new[s].gen = (col[s].gen + 1) % Generations
  <2> SUFFICES ASSUME NEW s \in Sides, NEW c, c = flagged(s), NEW d, d = Polled(c)
               PROVE  /\ d \in Columns /\ Good(d) /\ Looked(c, d)
                      /\ d.gen # col[s].gen => d.root \in Repos
                      /\ d.root # None => d.gen = (col[s].gen + 1) % Generations
    OBVIOUS
  <2>1. c \in Columns /\ Good(c) /\ c.gen = col[s].gen /\ c.flag = TRUE
        /\ key \in [Repos -> Nat]
    BY <1>1, <1>2, <1>4
  <2>2. d \in Columns /\ Good(d) /\ (d.gen # c.gen => d.root \in Repos)
    BY <2>1, PolledSays
  <2>3. Looked(c, d) /\ (c.flag /\ d.root # None => d.gen = (c.gen + 1) % Generations)
    BY <2>1, PolledLooked
  <2> QED BY <2>1, <2>2, <2>3
<1>6. new \in [Sides -> Columns]
  BY <1>5
<1> HIDE DEF new
<1>7. Generations > 1
  <2>1. Cardinality(Sides) # 0 /\ Cardinality(Sides) \in Nat
    BY FS_EmptySet, FS_CardinalityType DEF GitAssumption
  <2> QED BY <2>1 DEF GitAssumption
<1>8. \A s \in Sides : Looked(col[s], new[s])
  BY <1>2, <1>5 DEF Looked
<1>9. \A s \in Sides : new[s].root # None => new[s].gen # col[s].gen
  <2> SUFFICES ASSUME NEW s \in Sides, new[s].root # None PROVE new[s].gen # col[s].gen
    OBVIOUS
  <2>1. PICK h : h = (col[s].gen + 1) % Generations
    OBVIOUS
  <2>2. h \in Gens /\ (h = col[s].gen + 1 \/ (col[s].gen = Generations - 1 /\ h = 0))
    BY <1>1, <2>1, NextGen
  <2>3. Generations \in Nat
    BY DEF GitAssumption
  <2> QED BY <1>1, <1>5, <1>7, <2>1, <2>2, <2>3 DEF Gens
<1> QED BY <1>3, <1>5, <1>6, <1>8, <1>9, SendNotice

LEMMA ListingNotice ==
    ASSUME NoticeInv, GitAssumption, NEW s \in Sides, NEW throttled \in BOOLEAN,
           ListingRefreshed(s, throttled)
    PROVE  NoticeInv'
<1> DEFINE flagged == [col[s] EXCEPT !.flag = throttled]
           filed == Filed(flagged, ~throttled)
           new == [col EXCEPT ![s] = filed]
<1>1. \A x \in Sides : col[x] \in Columns /\ Good(col[x])
  BY DEF NoticeInv, IInv, TypeInv
<1>2. /\ flagged \in Columns /\ flagged.cache = col[s].cache /\ flagged.root = col[s].root
      /\ flagged.gen = col[s].gen /\ flagged.poll = col[s].poll /\ flagged.flag = throttled
  BY <1>1 DEF Columns
<1>3. CacheOwn(flagged) /\ NotNewer(flagged)
  BY <1>1, <1>2 DEF Good, CacheOwn, NotNewer
<1>4. Send(new) /\ UNCHANGED <<disk, walk, results, events>> /\ away' = away
  BY DEF ListingRefreshed
<1> HIDE DEF flagged
<1>5. filed \in Columns /\ Good(filed) /\ (filed.gen # col[s].gen => filed.root \in Repos)
  BY <1>2, <1>3, FiledSays
<1>6. /\ filed.cache = flagged.cache /\ filed.root = flagged.root
      /\ filed.poll = flagged.poll /\ filed.flag = flagged.flag
      /\ \/ filed.gen = (flagged.gen + 1) % Generations /\ flagged.root # None
         \/ /\ filed.gen = flagged.gen
            /\ flagged.root # None =>
                 throttled /\ Reuses(flagged) /\ filed.shown = Listed(flagged.cache)
  <2>1. (~throttled) \in BOOLEAN
    OBVIOUS
  <2> QED BY <1>2, <2>1, FiledIs, Zenon
<1> HIDE DEF filed
<1>7. Looked(col[s], filed)
  BY <1>2, <1>6 DEF Looked, Reused, Reuses
<1>8. col \in [Sides -> Columns] /\ \A x \in Sides : Looked(col[x], col[x])
  BY DEF NoticeInv, IInv, TypeInv, Looked
<1>9. \A x \in Sides : /\ new[x] \in Columns /\ Good(new[x]) /\ Looked(col[x], new[x])
                       /\ new[x].gen # col[x].gen => new[x].root \in Repos
  BY <1>1, <1>5, <1>7, <1>8
<1>10. new \in [Sides -> Columns]
  BY <1>5, <1>8
<1> HIDE DEF new
<1> QED BY <1>4, <1>9, <1>10, SendNotice

LEMMA ChdirNotice ==
    ASSUME NoticeInv, GitAssumption, NEW s \in Sides, NEW d \in Dirs, Chdir(s, d)
    PROVE  NoticeInv'
<1> DEFINE at == [col[s] EXCEPT !.dir = d]
           rooted == Rooted(at, RepoOf[d])
           here == Filed(rooted, FALSE)
           noted == [here EXCEPT !.poll = PollKey(here.root)]
           new == [col EXCEPT ![s] = noted]
<1>1. \A x \in Sides : col[x] \in Columns /\ Good(col[x])
  BY DEF NoticeInv, IInv, TypeInv
<1>2. /\ at \in Columns /\ at.cache = col[s].cache /\ at.gen = col[s].gen
      /\ at.flag = col[s].flag
      /\ RepoOf[d] \in Repos \cup {None}
  BY <1>1 DEF Columns, GitAssumption
<1>3. Send(new) /\ UNCHANGED <<disk, walk, results, events>> /\ away' = away
  BY DEF Chdir
<1> HIDE DEF at
<1>4. /\ rooted \in Columns /\ rooted.root = RepoOf[d] /\ rooted.gen = col[s].gen
      /\ rooted.flag = col[s].flag
      /\ rooted.cache = IF RepoOf[d] # None /\ at.cache # None /\ at.cache.repo # RepoOf[d]
                        THEN None ELSE at.cache
  BY <1>2 DEF Rooted, Columns
<1> HIDE DEF rooted
<1>5. CacheOwn(rooted) /\ NotNewer(rooted)
  BY <1>1, <1>2, <1>4 DEF Good, CacheOwn, NotNewer
<1>6. /\ here \in Columns /\ Good(here) /\ here.root = RepoOf[d]
      /\ here.gen # col[s].gen => here.root \in Repos
  BY <1>4, <1>5, FiledSays
<1>7. /\ here.cache = rooted.cache /\ here.root = rooted.root /\ here.flag = rooted.flag
      /\ \/ here.gen = (rooted.gen + 1) % Generations /\ rooted.root # None
         \/ /\ here.gen = rooted.gen
            /\ rooted.root # None => Reuses(rooted) /\ here.shown = Listed(rooted.cache)
  <2>1. FALSE \in BOOLEAN
    OBVIOUS
  <2> QED BY <1>4, <2>1, FiledIs, Zenon
<1> HIDE DEF here
<1>8. PollKey(here.root) \in Keys \cup {None}
  BY <1>2, <1>6, KeyType DEF NoticeInv, IInv, TypeInv
<1>9. /\ noted \in Columns /\ noted.cache = here.cache /\ noted.root = here.root
      /\ noted.shown = here.shown /\ noted.gen = here.gen /\ noted.flag = here.flag
      /\ noted.poll = PollKey(here.root)
  BY <1>6, <1>8 DEF Columns
<1> HIDE DEF noted
<1>10. Good(noted)
  BY <1>6, <1>9, SameGood
<1>11. Looked(col[s], noted)
  <2>1. rooted.cache = None \/ rooted.cache = col[s].cache
    BY <1>2, <1>4
  <2> QED BY <1>4, <1>7, <1>9, <2>1 DEF Looked, Reused, Reuses
<1>12. col \in [Sides -> Columns] /\ \A x \in Sides : Looked(col[x], col[x])
  BY DEF NoticeInv, IInv, TypeInv, Looked
<1>13. \A x \in Sides : /\ new[x] \in Columns /\ Good(new[x]) /\ Looked(col[x], new[x])
                        /\ new[x].gen # col[x].gen => new[x].root \in Repos
  BY <1>1, <1>6, <1>9, <1>10, <1>11, <1>12
<1>14. new \in [Sides -> Columns]
  BY <1>9, <1>12
<1> HIDE DEF new
<1> QED BY <1>3, <1>13, <1>14, SendNotice

-----------------------------------------------------------------------------
(* The other steps. *)

\* A step that leaves the columns and the worker: keys and versions only grow.
LEMMA DiskNotice ==
    ASSUME NoticeInv, GitAssumption, IInv', UNCHANGED <<col, worker, heard, failed>>,
           \A r \in Repos : key'[r] >= key[r] /\ tree'[r] >= tree[r],
           \A e \in events' : e.tree \in Nat, away => away'
    PROVE  NoticeInv'
<1>1. /\ col' = col /\ queue' = queue /\ walk' = walk /\ results' = results
      /\ heard' = heard /\ failed' = failed
  BY DEF worker
<1>2. TypeNow'
  BY <1>1 DEF NoticeInv, TypeNow, Gens
<1>3. InTurn' /\ OneNewest' /\ KeyedOnce'
  BY <1>1 DEF NoticeInv, InTurn, Walking, OneNewest, Outdated, KeyedOnce, NoKeyYet, Newest
<1>4. /\ \A r \in Repos : /\ key[r] \in Nat /\ key'[r] \in Nat /\ key'[r] >= key[r]
                          /\ tree[r] \in Nat /\ tree'[r] \in Nat /\ tree'[r] >= tree[r]
      /\ \A s \in Sides : col[s] \in Columns
      /\ walk # None => walk \in Walks
      /\ \A i \in DOMAIN results : results[i] \in Answers
  BY DEF NoticeInv, IInv, TypeInv
<1>5. WasRead'
  <2>1. ASSUME NEW s \in Sides
        PROVE  /\ col[s].cache # None => col[s].cache.entries.key <= key'[col[s].cache.repo]
               /\ col[s].root # None /\ col[s].poll # None => col[s].poll <= key'[col[s].root]
    <3>1. /\ col[s].cache # None => col[s].cache.entries.key <= key[col[s].cache.repo]
          /\ col[s].root # None /\ col[s].poll # None => col[s].poll <= key[col[s].root]
      BY DEF NoticeInv, WasRead
    <3>2. /\ col[s].cache # None => col[s].cache.repo \in Repos /\ col[s].cache.entries.key \in Nat
          /\ col[s].root # None => col[s].root \in Repos
          /\ col[s].poll # None => col[s].poll \in Nat
      BY <1>4 DEF Columns, Caches, Entries, Keys
    <3> QED BY <1>4, <3>1, <3>2
  <2>2. walk # None /\ walk.entries # None => walk.entries.key <= key'[walk.req.repo]
    <3>1. walk # None /\ walk.entries # None =>
            walk.entries.key \in Nat /\ walk.req.repo \in Repos
            /\ walk.entries.key <= key[walk.req.repo]
      BY <1>4 DEF NoticeInv, WasRead, Walks, Entries, Reqs
    <3> QED BY <1>4, <3>1
  <2>3. ASSUME NEW i \in DOMAIN results, results[i].entries # None
        PROVE  results[i].entries.key <= key'[results[i].req.repo]
    <3>1. results[i].entries.key <= key[results[i].req.repo]
      BY <2>3 DEF NoticeInv, WasRead
    <3>2. results[i].entries.key \in Nat /\ results[i].req.repo \in Repos
      BY <1>4, <2>3 DEF Answers, Entries, Reqs
    <3> QED BY <1>4, <3>1, <3>2
  <2> QED BY <1>1, <2>1, <2>2, <2>3 DEF WasRead
<1>6. HeardOf'
  <2>1. \A s \in Sides : /\ col[s].root # None => col[s].root \in Repos
                         /\ heard[s] \in Nat
    BY <1>4 DEF Columns, NoticeInv, TypeNow
  <2>2. ASSUME NEW s \in Sides, col[s].root # None, heard[s] <= tree[col[s].root]
        PROVE  heard[s] <= tree'[col[s].root]
    BY <1>4, <2>1, <2>2
  <2> QED BY <1>1, <2>2 DEF NoticeInv, HeardOf, Here, Newest
<1>7. \A s \in Sides : UpToPoll(s)'
  <2> SUFFICES ASSUME NEW s \in Sides PROVE UpToPoll(s)'
    OBVIOUS
  <2>1. UpToPoll(s)
    BY DEF NoticeInv
  <2> QED BY <1>1, <2>1 DEF UpToPoll, Waiting, Here, Newest, Listed
<1> QED BY <1>2, <1>3, <1>5, <1>6, <1>7 DEF NoticeInv

LEMMA FileEventNotice ==
    ASSUME NoticeInv, GitAssumption, NEW e \in events, FileEvent(e)
    PROVE  NoticeInv'
<1> DEFINE reached == {s \in Sides : ~away /\ e.dir \in Under[col[s].dir]}
           flagged(s) == [col[s] EXCEPT !.flag = TRUE]
<1>1. IInv'
  BY FileEventInv DEF NoticeInv
<1>2. \A s \in Sides : col[s] \in Columns /\ heard[s] \in Nat /\ e.tree \in Nat
  BY DEF NoticeInv, TypeNow, IInv, TypeInv
<1>3. \A s \in Sides : /\ flagged(s).cache = col[s].cache /\ flagged(s).root = col[s].root
                       /\ flagged(s).shown = col[s].shown /\ flagged(s).gen = col[s].gen
                       /\ flagged(s).poll = col[s].poll /\ flagged(s).flag = TRUE
  BY <1>2 DEF Columns
<1>4. /\ col' = [s \in Sides |-> IF s \in reached THEN flagged(s) ELSE col[s]]
      /\ heard' = [s \in Sides |-> IF s \in reached THEN Max2(heard[s], e.tree) ELSE heard[s]]
      /\ key' = key /\ tree' = tree /\ queue' = queue /\ walk' = walk /\ results' = results
      /\ away' = away /\ failed' = failed /\ events' = events \ {e}
  BY DEF FileEvent, disk, worker
<1> HIDE DEF flagged, reached
<1>5. \A s \in Sides :
        /\ col'[s].cache = col[s].cache /\ col'[s].root = col[s].root
        /\ col'[s].shown = col[s].shown /\ col'[s].gen = col[s].gen
        /\ col'[s].poll = col[s].poll
        /\ col'[s].flag \/ (col'[s].flag = col[s].flag /\ heard'[s] = heard[s])
  BY <1>3, <1>4
<1>6. heard' \in [Sides -> Nat]
  BY <1>2, <1>4 DEF Max2
<1>7. TypeNow'
  BY <1>4, <1>5, <1>6 DEF NoticeInv, TypeNow, Gens
<1>8. /\ \A i \in DOMAIN queue : queue[i] \in Reqs /\ queue[i].side \in Sides
      /\ walk # None => walk \in Walks /\ walk.req \in Reqs /\ walk.req.side \in Sides
      /\ \A i \in DOMAIN results : results[i].req \in Reqs /\ results[i].req.side \in Sides
  <2>1. /\ \A i \in DOMAIN queue : queue[i] \in Reqs
        /\ walk # None => walk \in Walks
        /\ \A i \in DOMAIN results : results[i] \in Answers
    BY DEF NoticeInv, IInv, TypeInv
  <2>2. \A r \in Reqs : r.side \in Sides
    BY DEF Reqs
  <2>3. /\ \A w \in Walks : w.req \in Reqs
        /\ \A a \in Answers : a.req \in Reqs
    BY DEF Walks, Answers
  <2> QED BY <2>1, <2>2, <2>3
<1>9. InTurn'
  BY <1>4, <1>5, <1>8 DEF NoticeInv, InTurn, Walking
<1>10. OneNewest'
  BY <1>4, <1>5, <1>8 DEF NoticeInv, OneNewest, Outdated
<1>11. WasRead'
  BY <1>4, <1>5 DEF NoticeInv, WasRead
<1>12. KeyedOnce'
  BY <1>4, <1>5 DEF NoticeInv, KeyedOnce, NoKeyYet, Newest
<1>13. HeardOf'
  BY <1>4, <1>5 DEF NoticeInv, HeardOf, Here, Newest
<1>14. \A s \in Sides : UpToPoll(s)'
  <2> SUFFICES ASSUME NEW s \in Sides PROVE UpToPoll(s)'
    OBVIOUS
  <2>1. UpToPoll(s)
    BY DEF NoticeInv
  <2>2. Waiting(s)' <=> Waiting(s)
    BY <1>4, <1>5 DEF Waiting, Here, Newest
  <2> QED BY <1>4, <1>5, <2>1, <2>2 DEF UpToPoll, Listed
<1> QED BY <1>1, <1>7, <1>9, <1>10, <1>11, <1>12, <1>13, <1>14 DEF NoticeInv

\* What is on its way is of the types its places have.
LEMMA OnItsWay ==
    ASSUME IInv, TypeNow
    PROVE  /\ queue \in Seq(Reqs) /\ results \in Seq(Answers)
           /\ \A i \in DOMAIN queue : queue[i] \in Reqs /\ queue[i].gen \in Gens
           /\ walk # None => walk \in Walks /\ walk.req \in Reqs /\ walk.req.gen \in Gens
           /\ \A i \in DOMAIN results : /\ results[i] \in Answers /\ results[i].req \in Reqs
                                        /\ results[i].req.gen \in Gens
           /\ \A s \in Sides : col[s] \in Columns /\ col[s].gen \in Gens /\ heard[s] \in Nat
           /\ \A r \in Repos : key[r] \in Nat /\ tree[r] \in Nat
<1>1. /\ queue \in Seq(Reqs) /\ results \in Seq(Answers)
      /\ \A i \in DOMAIN queue : queue[i] \in Reqs
      /\ walk # None => walk \in Walks
      /\ \A i \in DOMAIN results : results[i] \in Answers
      /\ \A s \in Sides : col[s] \in Columns
      /\ \A r \in Repos : key[r] \in Nat /\ tree[r] \in Nat
  BY DEF IInv, TypeInv
<1>2. /\ \A w \in Walks : w.req \in Reqs
      /\ \A a \in Answers : a.req \in Reqs
  BY DEF Walks, Answers
<1> QED BY <1>1, <1>2 DEF TypeNow

\* Where a repository has no key, nothing of it is cached or noted.
LEMMA NoKey ==
    ASSUME GitAssumption, IInv, WasRead, NEW r \in Repos, PollKey(r) = None, NEW s \in Sides
    PROVE  /\ col[s].cache # None => col[s].cache.repo # r
           /\ r = col[s].root => col[s].poll = None
<1>1. key[r] = 0
  BY DEF PollKey, IInv, TypeInv, GitAssumption, Repos
<1>2. col[s] \in Columns
  BY DEF IInv, TypeInv
<1>3. ASSUME col[s].cache # None PROVE col[s].cache.repo # r
  <2>1. /\ col[s].cache.entries.key >= col[s].cache.key
        /\ col[s].cache.entries.key <= key[col[s].cache.repo]
    BY <1>3 DEF IInv, Good, NotNewer, WasRead
  <2>2. col[s].cache.key \in Nat /\ col[s].cache.key # 0 /\ col[s].cache.entries.key \in Nat
    BY <1>2, <1>3 DEF Columns, Caches, Entries, Keys
  <2> QED BY <1>1, <2>1, <2>2
<1>4. ASSUME r = col[s].root, col[s].poll # None PROVE FALSE
  <2>1. col[s].poll <= key[r] /\ col[s].poll \in Nat /\ col[s].poll # 0
    BY <1>2, <1>4 DEF WasRead, Columns, Keys, Repos
  <2> QED BY <1>1, <2>1
<1> QED BY <1>3, <1>4

\* The worker: a request that is taken up, and walked again, is the same one.
LEMMA WorkerNotice == NoticeInv /\ GitAssumption /\ Worker => NoticeInv'
<1> SUFFICES ASSUME NoticeInv, GitAssumption, Worker PROVE NoticeInv'
  OBVIOUS
<1>1. IInv' /\ IInv
  BY WorkerInv DEF NoticeInv
<1>2. /\ queue \in Seq(Reqs) /\ results \in Seq(Answers)
      /\ \A i \in DOMAIN queue : queue[i] \in Reqs /\ queue[i].gen \in Gens
      /\ walk # None => walk \in Walks /\ walk.req \in Reqs /\ walk.req.gen \in Gens
      /\ \A i \in DOMAIN results : /\ results[i] \in Answers /\ results[i].req \in Reqs
                                   /\ results[i].req.gen \in Gens
      /\ \A s \in Sides : col[s] \in Columns /\ col[s].gen \in Gens /\ heard[s] \in Nat
      /\ \A r \in Repos : key[r] \in Nat /\ tree[r] \in Nat
  BY <1>1, OnItsWay DEF NoticeInv
<1>3. /\ key' = key /\ tree' = tree /\ col' = col /\ events' = events /\ away' = away
      /\ heard' = heard /\ failed' = failed
  BY DEF Worker, WalkBegins, WalkReadsIndex, WalkReadsFiles, WalkEnds, disk
<1>4. None \notin Walks
  BY DEF GitAssumption
<1>5. CASE WalkBegins
  <2> DEFINE n == Len(queue)
             req == Head(queue)
  <2>1. walk = None /\ queue # <<>> /\ walk' = Begun(req, 1) /\ queue' = Tail(queue)
        /\ results' = results
    BY <1>5 DEF WalkBegins, Idle
  <2>2. /\ n \in Nat \ {0} /\ DOMAIN queue = 1 .. n /\ req = queue[1] /\ Len(queue') = n - 1
        /\ DOMAIN queue' = 1 .. n - 1
        /\ \A i \in 1 .. n - 1 : queue'[i] = queue[i + 1] /\ i + 1 \in 1 .. n
    <3>1. PICK w : w = queue'
      OBVIOUS
    <3>2. w = Tail(queue) /\ queue # <<>> /\ queue \in Seq(Reqs)
      BY <1>2, <2>1, <3>1
    <3>3. Len(queue) \in Nat \ {0} /\ DOMAIN queue = 1 .. Len(queue) /\ Head(queue) = queue[1]
      BY <3>2
    <3>4. Len(w) = Len(queue) - 1 /\ DOMAIN w = 1 .. Len(queue) - 1
      BY <3>2, <3>3
    <3>5. \A i \in 1 .. Len(queue) - 1 : w[i] = queue[i + 1] /\ i + 1 \in 1 .. Len(queue)
      BY <3>2, <3>3
    <3> QED BY <3>1, <3>3, <3>4, <3>5
  <2> HIDE DEF n, req
  <2>3. req \in Reqs /\ req.gen \in Gens
    <3>1. 1 \in DOMAIN queue
      BY <2>2
    <3> QED BY <1>2, <2>2, <3>1
  <2>4. /\ walk' \in Walks /\ walk'.req = req /\ walk'.before = PollKey(req.repo)
        /\ walk'.at = "index" /\ walk'.entries.key = 0
    <3>1. key \in [Repos -> Nat]
      BY <1>1 DEF IInv, TypeInv
    <3>2. Begun(req, 1).entries.key = 0
      BY DEF Begun
    <3> QED BY <2>1, <2>3, <3>1, <3>2, BegunSays
  <2>5. walk' # None
    BY <1>4, <2>4
  <2>6. TypeNow'
    BY <1>2, <1>3, <2>1, <2>2, <2>3, <2>4 DEF NoticeInv, TypeNow, Gens
  <2>7. InTurn'
    <3>1. /\ n + Len(results) + 0 <= MaxQueue
          /\ \A i \in 1 .. n : Aged(queue[i].gen, col[queue[i].side].gen, n - i)
          /\ \A i \in DOMAIN results :
               Aged(results[i].req.gen, col[results[i].req.side].gen,
                    Len(results) - i + 0 + n)
      BY <2>1, <2>2 DEF NoticeInv, InTurn, Walking, n
    <3>2. Walking' = 1
      BY <2>5 DEF Walking
    <3>3. \A i \in 1 .. n - 1 : Aged(queue'[i].gen, col[queue'[i].side].gen, (n - 1) - i)
      <4> SUFFICES ASSUME NEW i \in 1 .. n - 1
                   PROVE  Aged(queue'[i].gen, col[queue'[i].side].gen, (n - 1) - i)
        OBVIOUS
      <4>1. n - (i + 1) = (n - 1) - i
        BY <2>2
      <4> QED BY <2>2, <3>1, <4>1
    <3>4. Aged(req.gen, col[req.side].gen, n - 1)
      BY <2>2, <3>1
    <3>5. Len(results) \in Nat
      BY <1>2
    <3>6. \A i \in DOMAIN results : Len(results) - i + 0 + n = Len(results) - i + 1 + (n - 1)
      BY <1>2, <2>2, <3>5
    <3>7. (n - 1) + Len(results) + 1 <= MaxQueue
      BY <2>2, <3>1, <3>5 DEF GitAssumption
    <3> QED BY <1>3, <2>1, <2>2, <2>4, <3>1, <3>2, <3>3, <3>4, <3>6, <3>7 DEF InTurn
  <2>8. OneNewest'
    <3>1. /\ \A i, j \in 1 .. n : i < j => Outdated(queue[i], queue[j])
          /\ \A i \in DOMAIN results :
               /\ \A j \in DOMAIN results : i < j => Outdated(results[i].req, results[j].req)
               /\ \A j \in 1 .. n : Outdated(results[i].req, queue[j])
      BY <2>2 DEF NoticeInv, OneNewest
    <3>2. \A i, j \in 1 .. n - 1 : i < j => Outdated(queue'[i], queue'[j])
      BY <2>2, <3>1
    <3>3. \A j \in 1 .. n - 1 : Outdated(req, queue'[j])
      BY <2>2, <3>1
    <3>4. \A i \in DOMAIN results :
            /\ \A j \in 1 .. n - 1 : Outdated(results[i].req, queue'[j])
            /\ Outdated(results[i].req, req)
      BY <2>2, <3>1
    <3>5. \A i, j \in DOMAIN queue' : i < j => Outdated(queue'[i], queue'[j])
      BY <2>2, <3>2
    <3>6. \A j \in DOMAIN queue' : Outdated(req, queue'[j])
      BY <2>2, <3>3
    <3>7. \A i \in DOMAIN results :
            /\ \A j \in DOMAIN results : i < j => Outdated(results[i].req, results[j].req)
            /\ \A j \in DOMAIN queue' : Outdated(results[i].req, queue'[j])
            /\ Outdated(results[i].req, req)
      BY <2>2, <3>1, <3>4
    <3>8. walk'.req = req /\ results' = results /\ col' = col
      BY <1>3, <2>1, <2>4
    <3> HIDE DEF n
    <3> QED BY <3>5, <3>6, <3>7, <3>8 DEF OneNewest, Outdated
  <2>9. WasRead'
    <3>1. 0 <= key[req.repo]
      BY <1>2, <2>3 DEF Reqs
    <3> QED BY <1>3, <2>1, <2>4, <3>1 DEF NoticeInv, WasRead
  <2>10. KeyedOnce'
    <3>1. ASSUME PollKey(req.repo) = None, NEW s \in Sides PROVE NoKeyYet(s, req)
      BY <1>1, <2>3, <3>1, NoKey DEF NoKeyYet, Reqs, NoticeInv
    <3> QED BY <1>3, <2>1, <2>4, <3>1 DEF NoticeInv, KeyedOnce, NoKeyYet, Newest
  <2>11. HeardOf'
    BY <1>3, <2>1, <2>4 DEF NoticeInv, HeardOf, Here, Newest
  <2>12. \A s \in Sides : UpToPoll(s)'
    <3> SUFFICES ASSUME NEW s \in Sides PROVE UpToPoll(s)'
      OBVIOUS
    <3>1. Waiting(s) => Waiting(s)'
      <4>1. ASSUME NEW i \in DOMAIN queue, Here(s, queue[i]) PROVE Waiting(s)'
        <5>1. CASE i = 1
          BY <1>3, <2>2, <2>4, <2>5, <4>1, <5>1 DEF Waiting, Here, Newest
        <5>2. CASE i # 1
          <6>1. i - 1 \in DOMAIN queue' /\ queue'[i - 1] = queue[i]
            BY <2>2, <4>1, <5>2
          <6> QED BY <1>3, <4>1, <6>1 DEF Waiting, Here, Newest
        <5> QED BY <5>1, <5>2
      <4> QED BY <1>3, <2>1, <4>1 DEF Waiting, Here, Newest
    <3>2. UpToPoll(s)
      BY DEF NoticeInv
    <3> QED BY <1>3, <3>1, <3>2 DEF UpToPoll, Listed
  <2> QED BY <1>1, <2>6, <2>7, <2>8, <2>9, <2>10, <2>11, <2>12 DEF NoticeInv
<1>6. ASSUME walk # None, walk' # None, walk'.req = walk.req, UNCHANGED <<queue, results>>,
             walk'.before = walk.before \/ walk'.before = PollKey(walk.req.repo),
             walk'.entries # None => walk'.entries.key <= key[walk.req.repo],
             walk'.at = "done" /\ walk'.entries # None =>
               walk'.entries.tree = tree[walk.req.repo]
      PROVE  NoticeInv'
  <2>1. walk.req \in Reqs /\ walk.req.repo \in Repos /\ walk.req.repo # None
    BY <1>2, <1>6 DEF Reqs, Repos
  <2>2. TypeNow'
    BY <1>3, <1>6 DEF NoticeInv, TypeNow, Gens
  <2>3. InTurn'
    BY <1>3, <1>6 DEF NoticeInv, InTurn, Walking
  <2>4. OneNewest'
    BY <1>3, <1>6 DEF NoticeInv, OneNewest, Outdated
  <2>5. WasRead'
    BY <1>3, <1>6 DEF NoticeInv, WasRead
  <2>6. KeyedOnce'
    <3>1. ASSUME PollKey(walk.req.repo) = None, NEW s \in Sides PROVE NoKeyYet(s, walk.req)
      BY <1>1, <2>1, <3>1, NoKey DEF NoKeyYet, NoticeInv
    <3> QED BY <1>3, <1>6, <3>1 DEF NoticeInv, KeyedOnce, NoKeyYet, Newest
  <2>7. HeardOf'
    <3>1. ASSUME NEW s \in Sides, ~col[s].flag, walk'.at = "done", walk'.entries # None,
                 Here(s, walk.req)
          PROVE  walk'.entries.tree >= heard[s]
      <4>1. col[s].root = walk.req.repo /\ heard[s] <= tree[col[s].root]
        BY <2>1, <3>1 DEF Here, NoticeInv, HeardOf
      <4> QED BY <1>2, <1>6, <2>1, <3>1, <4>1
    <3> QED BY <1>3, <1>6, <3>1 DEF NoticeInv, HeardOf, Here, Newest
  <2>8. \A s \in Sides : UpToPoll(s)'
    <3> SUFFICES ASSUME NEW s \in Sides PROVE UpToPoll(s)'
      OBVIOUS
    <3>1. UpToPoll(s)
      BY DEF NoticeInv
    <3> QED BY <1>3, <1>6, <3>1 DEF UpToPoll, Waiting, Here, Newest, Listed
  <2> QED BY <1>1, <2>2, <2>3, <2>4, <2>5, <2>6, <2>7, <2>8 DEF NoticeInv
<1>7. CASE WalkReadsIndex
  <2> DEFINE r == walk.req.repo
  <2>1. walk # None /\ walk \in Walks /\ walk.at = "index" /\ walk.entries \in Entries
        /\ queue' = queue /\ results' = results
        /\ walk' = [walk EXCEPT !.at = "files", !.entries.key = key[r]]
    BY <1>1, <1>2, <1>7 DEF WalkReadsIndex, Idle, IInv, TypeInv
  <2>2. r \in Repos /\ key[r] \in Nat
    BY <1>2, <2>1 DEF Reqs
  <2>3. [walk.entries EXCEPT !.key = key[r]] \in Entries
        /\ [walk.entries EXCEPT !.key = key[r]].key = key[r]
    BY <2>1, <2>2 DEF Entries
  <2>4. walk' \in Walks /\ walk'.entries.key = key[r] /\ walk'.at = "files"
        /\ walk'.req = walk.req /\ walk'.before = walk.before
    BY <2>1, <2>3 DEF Walks
  <2> QED BY <1>4, <1>6, <2>1, <2>2, <2>4
<1>8. ASSUME NEW fails \in MayFail, WalkReadsFiles(fails) PROVE NoticeInv'
  <2> DEFINE r == walk.req.repo
             read == IF fails THEN None ELSE [walk.entries EXCEPT !.tree = tree[r]]
  <2>1. walk # None /\ walk \in Walks /\ walk.at = "files" /\ walk.entries \in Entries
        /\ queue' = queue /\ results' = results
        /\ walk' = [walk EXCEPT !.at = "done", !.entries = read]
    BY <1>1, <1>2, <1>8 DEF WalkReadsFiles, Idle, IInv, TypeInv
  <2>2. r \in Repos /\ tree[r] \in Nat /\ walk.entries # None
    BY <1>2, <2>1 DEF Reqs, GitAssumption
  <2>3. read = None \/ (read \in Entries /\ read.key = walk.entries.key /\ read.tree = tree[r])
    BY <2>1, <2>2 DEF Entries
  <2> HIDE DEF read
  <2>4. walk' \in Walks /\ walk'.entries = read /\ walk'.req = walk.req
        /\ walk'.before = walk.before
    BY <2>1, <2>3 DEF Walks
  <2>5. walk.entries.key <= key[r]
    BY <2>1, <2>2 DEF NoticeInv, WasRead
  <2> HIDE DEF r
  <2>6. /\ walk'.entries # None => walk'.entries.key <= key[r]
        /\ walk'.entries # None => walk'.entries.tree = tree[r]
    BY <2>3, <2>4, <2>5
  <2> QED BY <1>4, <1>6, <2>1, <2>4, <2>6 DEF r
<1>9. CASE WalkEnds
  <2>1. walk # None /\ walk \in Walks /\ walk.req \in Reqs /\ walk.at = "done" /\ queue' = queue
    BY <1>2, <1>9 DEF WalkEnds, Idle
  <2>2. CASE ~(Stable(walk) \/ walk.tries = Tries)
    <3>1. walk' = Begun(walk.req, walk.tries + 1) /\ results' = results
      BY <1>9, <2>2 DEF WalkEnds
    <3>2. walk.tries + 1 \in Nat /\ key \in [Repos -> Nat]
      BY <1>1, <2>1 DEF Walks, IInv, TypeInv
    <3>3. /\ walk' \in Walks /\ walk'.at = "index" /\ walk'.req = walk.req
          /\ walk'.before = PollKey(walk.req.repo)
      BY <2>1, <3>1, <3>2, BegunSays
    <3>4. walk'.entries.key = 0 /\ 0 <= key[walk.req.repo]
      BY <1>2, <2>1, <3>1 DEF Begun, Reqs
    <3> QED BY <1>4, <1>6, <2>1, <3>1, <3>3, <3>4
  <2>3. CASE Stable(walk) \/ walk.tries = Tries
    <3> DEFINE answer == [req |-> walk.req, entries |-> walk.entries, stamp |-> Stamp(walk)]
               n == Len(queue)
               R == Len(results)
    <3>1. results' = Append(results, answer) /\ walk' = None
      BY <1>9, <2>3 DEF WalkEnds
    <3>2. answer \in Answers /\ answer.req = walk.req /\ answer.entries = walk.entries
          /\ answer.stamp = walk.before
      BY <2>1 DEF Answers, Walks, Stamp
    <3> HIDE DEF answer
    <3>3. /\ n \in Nat /\ R \in Nat /\ DOMAIN results = 1 .. R /\ DOMAIN queue = 1 .. n
          /\ Len(results') = R + 1 /\ DOMAIN results' = 1 .. R + 1
          /\ \A i \in 1 .. R : results'[i] = results[i]
          /\ results'[R + 1] = answer
      BY <1>2, <3>1, <3>2
    <3>4. Walking = 1 /\ Walking' = 0
      BY <2>1, <3>1 DEF Walking
    <3>5. \A i \in DOMAIN results' :
            \/ i \in DOMAIN results /\ results'[i] = results[i]
            \/ i = R + 1 /\ results'[i] = answer
      BY <3>3
    <3>6. TypeNow'
      BY <1>2, <1>3, <2>1, <3>1, <3>2, <3>5 DEF NoticeInv, TypeNow, Gens
    <3>7. InTurn'
      <4>1. /\ n + R + 1 <= MaxQueue
            /\ Aged(walk.req.gen, col[walk.req.side].gen, n)
            /\ \A i \in 1 .. R :
                 Aged(results[i].req.gen, col[results[i].req.side].gen, R - i + 1 + n)
        BY <2>1, <3>3, <3>4 DEF NoticeInv, InTurn
      <4>2. n + (R + 1) + 0 <= MaxQueue
        BY <3>3, <4>1
      <4>3. \A i \in 1 .. R + 1 :
              Aged(results'[i].req.gen, col[results'[i].req.side].gen, (R + 1) - i + 0 + n)
        <5> SUFFICES ASSUME NEW i \in 1 .. R + 1
                     PROVE  Aged(results'[i].req.gen, col[results'[i].req.side].gen,
                                 (R + 1) - i + 0 + n)
          OBVIOUS
        <5>1. CASE i = R + 1
          <6>1. (R + 1) - i + 0 + n = n
            BY <3>3, <5>1
          <6> QED BY <3>2, <3>3, <4>1, <5>1, <6>1
        <5>2. CASE i \in 1 .. R
          <6>1. (R + 1) - i + 0 + n = R - i + 1 + n
            BY <3>3, <5>2
          <6> QED BY <3>3, <4>1, <5>2, <6>1
        <5> QED BY <3>3, <5>1, <5>2
      <4> HIDE DEF n, R
      <4>4. \A i \in DOMAIN queue : Aged(queue[i].gen, col[queue[i].side].gen, Len(queue) - i)
        BY DEF NoticeInv, InTurn
      <4> QED BY <1>3, <2>1, <3>1, <3>3, <3>4, <4>2, <4>3, <4>4 DEF InTurn, n
    <3> HIDE DEF n, R
    <3>8. OneNewest'
      <4>1. ASSUME NEW i \in DOMAIN results', NEW j \in DOMAIN results', i < j
            PROVE  Outdated(results'[i].req, results'[j].req)
        <5>1. i \in DOMAIN results /\ results'[i] = results[i]
          BY <3>3, <4>1
        <5>2. CASE j \in DOMAIN results /\ results'[j] = results[j]
          BY <4>1, <5>1, <5>2 DEF NoticeInv, OneNewest
        <5>3. CASE results'[j] = answer
          BY <2>1, <3>2, <5>1, <5>3 DEF NoticeInv, OneNewest
        <5> QED BY <3>5, <5>2, <5>3
      <4>2. ASSUME NEW i \in DOMAIN results', NEW j \in DOMAIN queue
            PROVE  Outdated(results'[i].req, queue[j])
        BY <2>1, <3>2, <3>5 DEF NoticeInv, OneNewest
      <4>3. \A i, j \in DOMAIN queue : i < j => Outdated(queue[i], queue[j])
        BY DEF NoticeInv, OneNewest
      <4> QED BY <1>3, <2>1, <3>1, <4>1, <4>2, <4>3 DEF OneNewest, Outdated
    <3>9. WasRead'
      BY <1>3, <2>1, <3>1, <3>2, <3>5 DEF NoticeInv, WasRead
    <3>10. KeyedOnce'
      <4>1. ASSUME NEW s \in Sides, NEW i \in DOMAIN results', Newest(s, results'[i].req),
                   results'[i].stamp = None
            PROVE  NoKeyYet(s, results'[i].req)
        BY <2>1, <3>2, <3>5, <4>1 DEF NoticeInv, KeyedOnce
      <4> QED BY <1>3, <3>1, <4>1 DEF KeyedOnce, Newest, NoKeyYet
    <3>11. HeardOf'
      <4>1. ASSUME NEW s \in Sides, ~col[s].flag, NEW i \in DOMAIN results',
                   results'[i].entries # None, Here(s, results'[i].req)
            PROVE  results'[i].entries.tree >= heard[s]
        BY <2>1, <3>2, <3>5, <4>1 DEF NoticeInv, HeardOf
      <4>2. \A s \in Sides : ~col[s].flag /\ col[s].root # None => heard[s] <= tree[col[s].root]
        BY DEF NoticeInv, HeardOf
      <4> QED BY <1>3, <3>1, <4>1, <4>2 DEF HeardOf, Here, Newest
    <3>12. \A s \in Sides : UpToPoll(s)'
      <4> SUFFICES ASSUME NEW s \in Sides PROVE UpToPoll(s)'
        OBVIOUS
      <4>1. Waiting(s) => Waiting(s)'
        <5>1. ASSUME Here(s, walk.req) PROVE Waiting(s)'
          <6>1. R + 1 \in DOMAIN results'
            BY <3>3
          <6> QED BY <1>3, <3>2, <3>3, <5>1, <6>1 DEF Waiting, Here, Newest
        <5>2. ASSUME NEW i \in DOMAIN results, Here(s, results[i].req) PROVE Waiting(s)'
          <6>1. i \in DOMAIN results' /\ results'[i] = results[i]
            BY <3>3, <5>2
          <6> QED BY <1>3, <5>2, <6>1 DEF Waiting, Here, Newest
        <5> QED BY <1>3, <2>1, <5>1, <5>2 DEF Waiting, Here, Newest
      <4>2. UpToPoll(s)
        BY DEF NoticeInv
      <4> QED BY <1>3, <4>1, <4>2 DEF UpToPoll, Listed
    <3> QED BY <1>1, <3>6, <3>7, <3>8, <3>9, <3>10, <3>11, <3>12 DEF NoticeInv
  <2> QED BY <2>2, <2>3
<1> QED BY <1>5, <1>7, <1>8, <1>9 DEF Worker

\* An answer lands: the column's own last one is what it then shows; one that
\* failed or came while the project was away leaves it to the next poll.
LEMMA LandsNotice == NoticeInv /\ GitAssumption /\ Lands => NoticeInv'
<1> SUFFICES ASSUME NoticeInv, GitAssumption, Lands PROVE NoticeInv'
  OBVIOUS
<1> DEFINE res == Head(results)
           s0 == res.req.side
           cache == [repo |-> res.req.repo, key |-> res.stamp, entries |-> res.entries]
           landed == [col[s0] EXCEPT !.cache = cache, !.poll = res.stamp]
           lands == Current(res) /\ res.entries # None /\ res.stamp # None
           n == Len(queue)
           R == Len(results)
<1>1. IInv' /\ IInv
  BY LandsInv DEF NoticeInv
<1>2. /\ queue \in Seq(Reqs) /\ results \in Seq(Answers)
      /\ \A i \in DOMAIN queue : queue[i] \in Reqs /\ queue[i].gen \in Gens
      /\ walk # None => walk \in Walks /\ walk.req \in Reqs /\ walk.req.gen \in Gens
      /\ \A i \in DOMAIN results : /\ results[i] \in Answers /\ results[i].req \in Reqs
                                   /\ results[i].req.gen \in Gens
      /\ \A s \in Sides : col[s] \in Columns /\ col[s].gen \in Gens /\ heard[s] \in Nat
      /\ \A r \in Repos : key[r] \in Nat /\ tree[r] \in Nat
  BY <1>1, OnItsWay DEF NoticeInv
<1>3. /\ key' = key /\ tree' = tree /\ queue' = queue /\ walk' = walk /\ events' = events
      /\ away' = away /\ heard' = heard /\ results # <<>> /\ results' = Tail(results)
      /\ col' = IF lands THEN [col EXCEPT ![s0] = [landed EXCEPT !.shown = Listed(landed.cache)]]
                ELSE col
      /\ failed' = IF Current(res) /\ res.entries = None
                   THEN [failed EXCEPT ![s0] = TRUE] ELSE failed
  BY DEF Lands, disk
<1>4. /\ R \in Nat \ {0} /\ DOMAIN results = 1 .. R /\ res = results[1]
      /\ Len(results') = R - 1 /\ DOMAIN results' = 1 .. R - 1
      /\ \A i \in 1 .. R - 1 : results'[i] = results[i + 1] /\ i + 1 \in 1 .. R
  <2>1. PICK w : w = results'
    OBVIOUS
  <2>2. w = Tail(results) /\ results # <<>> /\ results \in Seq(Answers)
    BY <1>2, <1>3, <2>1
  <2> HIDE DEF s0, cache, landed, lands, n
  <2>3. Len(results) \in Nat \ {0} /\ DOMAIN results = 1 .. Len(results)
        /\ Head(results) = results[1]
    BY <2>2
  <2>4. Len(w) = Len(results) - 1 /\ DOMAIN w = 1 .. Len(results) - 1
    BY <2>2, <2>3
  <2>5. \A i \in 1 .. Len(results) - 1 : w[i] = results[i + 1] /\ i + 1 \in 1 .. Len(results)
    BY <2>2, <2>3
  <2> QED BY <2>1, <2>3, <2>4, <2>5
<1>5. n \in Nat /\ DOMAIN queue = 1 .. n
  BY <1>2
<1> HIDE DEF res, n, R
<1>6. 1 \in DOMAIN results /\ res \in Answers /\ res.req \in Reqs /\ s0 \in Sides
      /\ (res.stamp # None /\ res.entries # None => res.entries.key >= res.stamp)
  <2>1. 1 \in DOMAIN results
    BY <1>4
  <2>2. res \in Answers /\ res.req \in Reqs
    BY <1>2, <1>4, <2>1
  <2>3. results[1].stamp # None /\ results[1].entries # None =>
          results[1].entries.key >= results[1].stamp
    BY <1>1, <2>1 DEF IInv, AnswersInOrder
  <2> QED BY <1>4, <2>1, <2>2, <2>3 DEF Reqs
<1>7. lands => /\ cache \in Caches /\ cache # None /\ cache.repo = res.req.repo
               /\ cache.key = res.stamp /\ cache.entries = res.entries
               /\ res.req.repo = col[s0].root /\ res.stamp \in Keys /\ res.entries \in Entries
               /\ Newest(s0, res.req) /\ Here(s0, res.req) /\ ~away
  BY <1>6 DEF Caches, Answers, Reqs, Current, Newest, Here, GitAssumption
<1> HIDE DEF cache
<1>8. lands => /\ col'[s0].cache = cache /\ col'[s0].poll = res.stamp
               /\ col'[s0].shown = Listed(cache)
               /\ col'[s0].gen = col[s0].gen /\ col'[s0].root = col[s0].root
               /\ col'[s0].flag = col[s0].flag
  <2> SUFFICES ASSUME lands
               PROVE  /\ col'[s0].cache = cache /\ col'[s0].poll = res.stamp
                      /\ col'[s0].shown = Listed(cache)
                      /\ col'[s0].gen = col[s0].gen /\ col'[s0].root = col[s0].root
                      /\ col'[s0].flag = col[s0].flag
    OBVIOUS
  <2>1. PICK c, l, stamp : c = col[s0] /\ l = landed /\ stamp = res.stamp
    OBVIOUS
  <2>2. c \in Columns /\ l = [c EXCEPT !.cache = cache, !.poll = stamp]
    BY <1>2, <1>6, <2>1
  <2>3. stamp \in Keys /\ cache \in Caches
    BY <1>7, <2>1
  <2>4. l \in Columns /\ l.cache = cache /\ l.poll = stamp /\ l.gen = c.gen /\ l.root = c.root
        /\ l.flag = c.flag
    BY <2>2, <2>3 DEF Columns
  <2>5. col' = [col EXCEPT ![s0] = [l EXCEPT !.shown = Listed(l.cache)]] /\ col \in [Sides -> Columns]
    BY <1>1, <1>3, <2>1 DEF IInv, TypeInv
  <2>6. col'[s0] = [l EXCEPT !.shown = Listed(l.cache)]
    BY <1>6, <2>5
  <2> QED BY <2>1, <2>4, <2>6 DEF Columns
<1>9. \A s \in Sides : s # s0 \/ ~lands => col'[s] = col[s]
  <2>1. col \in [Sides -> Columns]
    BY <1>1 DEF IInv, TypeInv
  <2> HIDE DEF landed, lands
  <2> QED BY <1>3, <1>6, <2>1
<1> HIDE DEF lands, landed
<1>10. \A s \in Sides : col'[s].gen = col[s].gen /\ col'[s].root = col[s].root
                        /\ col'[s].flag = col[s].flag
  BY <1>8, <1>9
<1>11. \A i \in DOMAIN results' : i + 1 \in DOMAIN results /\ results'[i] = results[i + 1]
  BY <1>4
<1>12. TypeNow'
  <2>1. TypeNow
    BY DEF NoticeInv
  <2>2. \A s \in Sides : col'[s].gen \in Gens
    BY <1>10, <2>1 DEF TypeNow
  <2>3. \A i \in DOMAIN results' : results'[i].req.gen \in Gens
    BY <1>11, <2>1 DEF TypeNow
  <2> QED BY <1>3, <2>1, <2>2, <2>3 DEF TypeNow
<1>13. /\ \A i \in DOMAIN queue : queue[i].side \in Sides
       /\ walk # None => walk.req.side \in Sides
       /\ \A i \in DOMAIN results : results[i].req.side \in Sides
  <2>1. \A r \in Reqs : r.side \in Sides
    BY DEF Reqs
  <2> QED BY <1>2, <2>1
<1>14. InTurn'
  <2>1. /\ n + R + Walking <= MaxQueue
        /\ \A i \in DOMAIN queue : Aged(queue[i].gen, col[queue[i].side].gen, n - i)
        /\ walk # None => Aged(walk.req.gen, col[walk.req.side].gen, n)
        /\ \A i \in DOMAIN results :
             Aged(results[i].req.gen, col[results[i].req.side].gen, R - i + Walking + n)
    BY DEF NoticeInv, InTurn, n, R
  <2>2. Walking' = Walking /\ Walking \in Nat
    BY <1>3 DEF Walking
  <2>3. n + (R - 1) + Walking <= MaxQueue
    BY <1>4, <1>5, <2>1, <2>2 DEF GitAssumption
  <2>4. \A i \in 1 .. R - 1 : (R - 1) - i + Walking + n = R - (i + 1) + Walking + n
    BY <1>4, <1>5, <2>2
  <2>5. \A i \in DOMAIN results' :
          Aged(results'[i].req.gen, col'[results'[i].req.side].gen, (R - 1) - i + Walking + n)
    <3> SUFFICES ASSUME NEW i \in 1 .. R - 1
                 PROVE  Aged(results'[i].req.gen, col'[results'[i].req.side].gen,
                             (R - 1) - i + Walking + n)
      BY <1>4
    <3>1. i + 1 \in DOMAIN results /\ results'[i] = results[i + 1]
      BY <1>4
    <3>2. Aged(results[i + 1].req.gen, col[results[i + 1].req.side].gen,
               R - (i + 1) + Walking + n)
      BY <2>1, <3>1
    <3>3. (R - 1) - i + Walking + n = R - (i + 1) + Walking + n
      BY <2>4
    <3>4. col'[results[i + 1].req.side].gen = col[results[i + 1].req.side].gen
      BY <1>10, <1>13, <3>1
    <3> QED BY <3>1, <3>2, <3>3, <3>4
  <2>6. Len(queue') = n
    BY <1>3 DEF n
  <2>7. Len(results') = R - 1
    BY <1>4
  <2>8. \A i \in DOMAIN queue' : Aged(queue'[i].gen, col'[queue'[i].side].gen, n - i)
    BY <1>3, <1>10, <1>13, <2>1
  <2>9. walk' # None => Aged(walk'.req.gen, col'[walk'.req.side].gen, n)
    BY <1>3, <1>10, <1>13, <2>1
  <2> QED BY <2>2, <2>3, <2>5, <2>6, <2>7, <2>8, <2>9 DEF InTurn
<1>15. OneNewest'
  <2>1. ASSUME NEW i \in DOMAIN results', NEW j \in DOMAIN results', i < j
        PROVE  Outdated(results'[i].req, results'[j].req)
    <3>1. i + 1 < j + 1
      BY <1>4, <2>1
    <3> QED BY <1>11, <2>1, <3>1 DEF NoticeInv, OneNewest
  <2>2. \A i \in DOMAIN results' :
          /\ walk # None => Outdated(results'[i].req, walk.req)
          /\ \A j \in DOMAIN queue : Outdated(results'[i].req, queue[j])
    BY <1>11 DEF NoticeInv, OneNewest
  <2>3. /\ \A i, j \in DOMAIN queue : i < j => Outdated(queue[i], queue[j])
        /\ walk # None => \A j \in DOMAIN queue : Outdated(walk.req, queue[j])
    BY DEF NoticeInv, OneNewest
  <2>4. \A i \in DOMAIN results' : results'[i].req.side \in Sides
    BY <1>11, <1>13
  <2>5. \A i \in DOMAIN results' :
          /\ \A j \in DOMAIN results' : i < j /\ results'[i].req.side = results'[j].req.side =>
               results'[i].req.gen # col'[results'[i].req.side].gen
          /\ walk # None /\ results'[i].req.side = walk.req.side =>
               results'[i].req.gen # col'[results'[i].req.side].gen
          /\ \A j \in DOMAIN queue : results'[i].req.side = queue[j].side =>
               results'[i].req.gen # col'[results'[i].req.side].gen
    BY <1>10, <2>1, <2>2, <2>4 DEF Outdated
  <2>6. /\ \A i, j \in DOMAIN queue : i < j /\ queue[i].side = queue[j].side =>
               queue[i].gen # col'[queue[i].side].gen
        /\ walk # None => \A j \in DOMAIN queue : walk.req.side = queue[j].side =>
               walk.req.gen # col'[walk.req.side].gen
    BY <1>10, <1>13, <2>3 DEF Outdated
  <2> QED BY <1>3, <2>5, <2>6 DEF OneNewest, Outdated
<1>16. WasRead'
  <2>1. \A i \in DOMAIN results' :
          results'[i].entries # None => results'[i].entries.key <= key[results'[i].req.repo]
    BY <1>11 DEF NoticeInv, WasRead
  <2>2. ASSUME NEW s \in Sides
        PROVE  /\ col'[s].cache # None => col'[s].cache.entries.key <= key[col'[s].cache.repo]
               /\ col'[s].root # None /\ col'[s].poll # None => col'[s].poll <= key[col'[s].root]
    <3>1. CASE s # s0 \/ ~lands
      BY <1>9, <3>1 DEF NoticeInv, WasRead
    <3>2. CASE s = s0 /\ lands
      <4>1. res.entries.key <= key[res.req.repo] /\ res.entries.key >= res.stamp
        BY <1>4, <1>6, <1>7, <3>2 DEF NoticeInv, WasRead, lands
      <4>2. res.entries.key \in Nat /\ res.stamp \in Nat /\ key[res.req.repo] \in Nat
        BY <1>2, <1>6, <1>7, <3>2 DEF Entries, Keys, Reqs
      <4>3. res.stamp <= key[res.req.repo]
        BY <4>1, <4>2
      <4> QED BY <1>7, <1>8, <3>2, <4>1, <4>3
    <3> QED BY <3>1, <3>2
  <2>3. walk # None /\ walk.entries # None => walk.entries.key <= key[walk.req.repo]
    BY DEF NoticeInv, WasRead
  <2> QED BY <1>3, <2>1, <2>2, <2>3 DEF WasRead
<1>17. KeyedOnce'
  <2>1. ASSUME NEW s \in Sides, walk # None, Newest(s, walk.req), walk.before = None
        PROVE  NoKeyYet(s, walk.req) /\ ~(s = s0 /\ lands)
    <3>1. Outdated(results[1].req, walk.req)
      BY <1>6, <2>1 DEF NoticeInv, OneNewest
    <3> QED BY <1>4, <1>7, <2>1, <3>1 DEF NoticeInv, KeyedOnce, Outdated, Newest
  <2>2. ASSUME NEW s \in Sides, NEW i \in DOMAIN results', Newest(s, results'[i].req),
               results'[i].stamp = None
        PROVE  NoKeyYet(s, results'[i].req) /\ ~(s = s0 /\ lands)
    <3>1. 1 < i + 1
      BY <1>4, <2>2
    <3>2. Outdated(results[1].req, results[i + 1].req)
      BY <1>6, <1>11, <2>2, <3>1 DEF NoticeInv, OneNewest
    <3> QED BY <1>4, <1>7, <1>11, <2>2, <3>2 DEF NoticeInv, KeyedOnce, Outdated, Newest
  <2> QED BY <1>3, <1>9, <1>10, <2>1, <2>2 DEF KeyedOnce, NoKeyYet, Newest
<1>18. HeardOf'
  <2>1. ASSUME NEW s \in Sides, ~col[s].flag
        PROVE  /\ col[s].root # None => heard[s] <= tree[col[s].root]
               /\ walk # None /\ walk.at = "done" /\ walk.entries # None /\ Here(s, walk.req)
                    => walk.entries.tree >= heard[s]
               /\ \A i \in DOMAIN results' :
                    results'[i].entries # None /\ Here(s, results'[i].req)
                      => results'[i].entries.tree >= heard[s]
    BY <1>11, <2>1 DEF NoticeInv, HeardOf
  <2> QED BY <1>3, <1>10, <2>1 DEF HeardOf, Here, Newest
<1>19. \A s \in Sides : UpToPoll(s)'
  <2> SUFFICES ASSUME NEW s \in Sides PROVE UpToPoll(s)'
    OBVIOUS
  <2>1. UpToPoll(s)
    BY DEF NoticeInv
  <2>2. CASE ~Here(s, res.req)
    <3>1. Waiting(s) => Waiting(s)'
      <4>1. ASSUME NEW i \in DOMAIN results, Here(s, results[i].req) PROVE Waiting(s)'
        <5>1. i # 1
          BY <1>4, <2>2, <4>1
        <5>2. i - 1 \in DOMAIN results' /\ results'[i - 1] = results[i]
          BY <1>4, <4>1, <5>1
        <5> QED BY <1>3, <1>10, <4>1, <5>2 DEF Waiting, Here, Newest
      <4> QED BY <1>3, <1>10, <4>1 DEF Waiting, Here, Newest
    <3>2. s # s0 \/ ~Current(res)
      BY <2>2 DEF Current, Here, Newest
    <3>3. col'[s] = col[s] /\ (failed[s] => failed'[s])
      BY <1>3, <1>9, <3>2 DEF lands
    <3> QED BY <1>3, <2>1, <3>1, <3>3 DEF UpToPoll, Listed
  <2>3. CASE Here(s, res.req)
    <3>1. s = s0 /\ (~away => Current(res)) /\ res.req.repo = col[s].root
      BY <2>3 DEF Here, Newest, Current
    <3>2. CASE away
      BY <1>3, <3>2 DEF UpToPoll
    <3>3. CASE ~away /\ res.entries = None
      <4>1. failed'[s]
        BY <1>3, <1>6, <3>1, <3>3 DEF NoticeInv, TypeNow
      <4> QED BY <4>1 DEF UpToPoll
    <3>4. CASE ~away /\ res.entries # None /\ res.stamp = None
      <4>1. NoKeyYet(s, res.req)
        BY <1>4, <1>6, <2>3, <3>4 DEF NoticeInv, KeyedOnce, Here
      <4>2. ~lands /\ col[s].root # None
        BY <1>6, <3>1, <3>4 DEF lands, Reqs, Repos
      <4>3. CacheOwn(col[s])
        BY <1>1 DEF IInv, Good
      <4>4. col[s].poll = None /\ col[s].cache = None
        BY <3>1, <4>1, <4>2, <4>3 DEF NoKeyYet, CacheOwn
      <4> QED BY <1>9, <4>2, <4>4 DEF UpToPoll
    <3>5. CASE lands
      <4>1. col[s].flag \/ res.entries.tree >= heard[s]
        BY <1>4, <1>6, <2>3, <3>5 DEF NoticeInv, HeardOf, lands
      <4> QED BY <1>3, <1>7, <1>8, <3>1, <3>5, <4>1 DEF UpToPoll, Listed
    <3> QED BY <3>1, <3>2, <3>3, <3>4, <3>5 DEF lands
  <2> QED BY <2>2, <2>3
<1> QED BY <1>1, <1>12, <1>14, <1>15, <1>16, <1>17, <1>18, <1>19 DEF NoticeInv

LEMMA InitNotice == GitAssumption /\ Init => NoticeInv
<1> SUFFICES ASSUME GitAssumption, Init PROVE NoticeInv
  OBVIOUS
<1> DEFINE q == SetToSeq(Sides)
           n == Cardinality(Sides)
<1>1. IInv /\ TypeInv
  BY InitInv DEF IInv
<1>2. /\ DOMAIN q = 1 .. n /\ n \in Nat
      /\ \A i, j \in DOMAIN q : i # j => q[i] # q[j]
      /\ \A i \in DOMAIN q : q[i] \in Sides
      /\ \A s \in Sides : \E i \in DOMAIN q : q[i] = s
  BY ListedOnce DEF GitAssumption
<1>3. queue = [i \in DOMAIN q |-> [side |-> q[i], gen |-> 1, repo |-> RepoOf[Home]]]
      /\ walk = None /\ results = <<>>
  BY DEF Init
<1>4. \A s \in Sides : /\ col[s].gen = 1 /\ col[s].root = RepoOf[Home] /\ col[s].cache = None
                       /\ col[s].poll = None
  BY DEF Init, NewColumn
<1>5. RepoOf[Home] \in Repos
  BY DEF GitAssumption
<1>6. n # 0 /\ n <= MaxQueue /\ Generations > 1 /\ Generations \in Nat
  BY <1>2, FS_EmptySet DEF GitAssumption
<1> HIDE DEF q
<1>7. DOMAIN queue = 1 .. n /\ \A i \in 1 .. n : /\ queue[i].side = q[i] /\ queue[i].gen = 1
                                                /\ queue[i].repo = RepoOf[Home]
                                                /\ q[i] \in Sides
  BY <1>2, <1>3
<1>8. Len(queue) = n
  BY <1>1, <1>2, <1>7 DEF TypeInv
<1> HIDE DEF n
<1>9. TypeNow
  BY <1>3, <1>4, <1>6, <1>7 DEF TypeNow, Gens, Init
<1>10. InTurn
  <2>1. \A i \in DOMAIN queue : Aged(queue[i].gen, col[queue[i].side].gen, Len(queue) - i)
    <3>1. \A i \in 1 .. n : Aged(1, 1, n - i)
      BY <1>2, AgedNow
    <3> QED BY <1>4, <1>7, <1>8, <3>1
  <2>2. Len(queue) + Len(results) + Walking <= MaxQueue
    BY <1>2, <1>3, <1>6, <1>8 DEF Walking
  <2> QED BY <1>3, <2>1, <2>2 DEF InTurn
<1>11. OneNewest
  BY <1>2, <1>3, <1>7 DEF OneNewest, Outdated
<1>12. WasRead
  BY <1>3, <1>4 DEF WasRead
<1>13. KeyedOnce
  BY <1>3 DEF KeyedOnce
<1>14. HeardOf
  <2>1. \A s \in Sides : heard[s] = 1 /\ tree[col[s].root] = 1
    BY <1>4, <1>5 DEF Init
  <2> QED BY <1>3, <2>1 DEF HeardOf
<1>15. \A s \in Sides : UpToPoll(s)
  <2> SUFFICES ASSUME NEW s \in Sides PROVE Waiting(s)
    BY DEF UpToPoll
  <2>1. PICK i \in 1 .. n : q[i] = s
    BY <1>2
  <2> QED BY <1>4, <1>7, <2>1 DEF Waiting, Here, Newest
<1> QED BY <1>1, <1>9, <1>10, <1>11, <1>12, <1>13, <1>14, <1>15 DEF NoticeInv

LEMMA NextNotice == GitAssumption /\ NoticeInv /\ [Next]_vars => NoticeInv'
<1> SUFFICES ASSUME GitAssumption, NoticeInv, [Next]_vars PROVE NoticeInv'
  OBVIOUS
<1>1. IInv' /\ \A r \in Repos : key[r] \in Nat /\ tree[r] \in Nat
  BY NextInv DEF NoticeInv, IInv, TypeInv
<1>2. \A e \in events : e.tree \in Nat
  BY DEF NoticeInv, TypeNow
<1>3. CASE Disk
  <2>1. ASSUME NEW r \in Written, GitOperation(r) PROVE NoticeInv'
    <3>1. UNCHANGED <<tree, events, col, worker, heard, failed, away>>
          /\ key' = [key EXCEPT ![r] = @ + 1] /\ key \in [Repos -> Nat] /\ r \in Repos
      BY <2>1 DEF GitOperation, NoticeInv, IInv, TypeInv, GitAssumption
    <3>2. \A x \in Repos : key'[x] >= key[x] /\ tree'[x] >= tree[x]
      BY <1>1, <3>1
    <3> QED BY <1>1, <1>2, <3>1, <3>2, DiskNotice
  <2>2. ASSUME NEW d \in Dirs, NEW missed \in MayMiss, Edit(d, missed) PROVE NoticeInv'
    <3> DEFINE r == RepoOf[d]
    <3>1. /\ UNCHANGED <<key, col, worker, heard, failed, away>> /\ r \in Repos
          /\ tree' = [tree EXCEPT ![r] = @ + 1] /\ tree \in [Repos -> Nat]
          /\ events' = IF missed THEN events
                       ELSE events \cup {[dir |-> d, tree |-> tree[r] + 1]}
      BY <2>2 DEF Edit, NoticeInv, IInv, TypeInv, GitAssumption
    <3>2. \A x \in Repos : key'[x] >= key[x] /\ tree'[x] >= tree[x]
      BY <1>1, <3>1
    <3>3. \A e \in events' : e.tree \in Nat
      <4>1. tree[r] + 1 \in Nat
        BY <3>1
      <4>2. \A e \in events' : e \in events \/ e = [dir |-> d, tree |-> tree[r] + 1]
        BY <3>1
      <4> QED BY <1>2, <4>1, <4>2
    <3> QED BY <1>1, <3>1, <3>2, <3>3, DiskNotice
  <2> QED BY <1>3, <2>1, <2>2 DEF Disk
<1>4. ASSUME UNCHANGED <<key, tree, events, col, worker, heard, failed>>, away => away'
      PROVE  NoticeInv'
  <2>1. \A x \in Repos : key'[x] >= key[x] /\ tree'[x] >= tree[x]
    BY <1>1, <1>4
  <2> QED BY <1>1, <1>2, <1>4, <2>1, DiskNotice
<1>5. CASE User
  <2>1. CASE SwitchAway
    BY <1>4, <2>1 DEF SwitchAway, disk
  <2> QED BY <1>5, <2>1, ChdirNotice, SwitchBackNotice DEF User
<1>6. CASE Loop
  <2>1. CASE ListingDropped
    BY <1>4, <2>1 DEF ListingDropped, disk
  <2>2. ASSUME NEW e \in events, FileEvent(e) PROVE NoticeInv'
    BY <2>2, FileEventNotice
  <2>3. ASSUME NEW s \in Sides, NEW throttled \in BOOLEAN, ListingRefreshed(s, throttled)
        PROVE  NoticeInv'
    BY <2>3, ListingNotice
  <2> QED BY <1>6, <2>1, <2>2, <2>3, PollNotice, LandsNotice DEF Loop
<1>7. CASE Worker
  BY <1>7, WorkerNotice
<1>8. CASE UNCHANGED vars
  BY <1>4, <1>8 DEF vars
<1> QED BY <1>3, <1>5, <1>6, <1>7, <1>8 DEF Next

\* Markers that are behind are never taken for fresh: a column in view, in a
\* repository with a key, shows the repository as git last wrote it with
\* every edit it heard of, or it is flagged, or its key differs from the one
\* noted, or a walk it asked for is on its way, or its last walk failed
\* (refresh_git_state_for, git_file_statuses_cached, apply_git_worker_result).
THEOREM NeverTakenForFresh == Spec => []BehindIsNoticed
<1>1. Init => NoticeInv
  BY InitNotice, GitAssumption
<1>2. NoticeInv /\ [Next]_vars => NoticeInv'
  BY NextNotice, GitAssumption
<1>3. NoticeInv => BehindIsNoticed
  <2> SUFFICES ASSUME NoticeInv, NEW s \in Sides, ~away, HasKey(col[s].root), ~failed[s],
                      ~Moved(col[s]), ~Pending(s)
               PROVE  Fresh(s)
    BY DEF BehindIsNoticed
  <2>1. ~Waiting(s)
    BY DEF Waiting, Here, Newest, Pending
  <2>2. /\ col[s].root # None /\ PollKey(col[s].root) # None /\ col[s].poll = PollKey(col[s].root)
        /\ ~col[s].flag
    BY DEF HasKey, Moved
  <2>3. col[s].poll = key[col[s].root]
    BY <2>2 DEF PollKey
  <2> DEFINE c == col[s].cache
  <2>4. c # None /\ c.key = col[s].poll /\ col[s].shown = Listed(c) /\ c.entries.tree >= heard[s]
    BY <2>1, <2>2 DEF NoticeInv, UpToPoll
  <2>5. c.repo = col[s].root /\ c.entries.key >= c.key /\ c.entries.key <= key[c.repo]
    BY <2>2, <2>4 DEF NoticeInv, IInv, Good, CacheOwn, NotNewer, WasRead
  <2>6. c \in Caches /\ col[s].root \in Repos /\ key[c.repo] \in Nat
    BY <2>2, <2>4, <2>5 DEF NoticeInv, IInv, TypeInv, Columns
  <2>7. c.entries.key \in Nat /\ c.key \in Nat /\ Listed(c) \in Marks
        /\ Listed(c).key = c.entries.key /\ Listed(c).tree = c.entries.tree
    BY <2>6 DEF Caches, Entries, Keys, Listed, Marks
  <2>8. c.entries.key = key[col[s].root]
    BY <2>3, <2>4, <2>5, <2>6, <2>7
  <2>9. Blank \notin Marks
    BY GitAssumption DEF GitAssumption
  <2> QED BY <2>4, <2>7, <2>8, <2>9 DEF Fresh
<1> QED BY <1>1, <1>2, <1>3, PTL DEF Spec
=============================================================================
