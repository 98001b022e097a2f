-------------------------- MODULE AgentStatusProofs --------------------------
(***************************************************************************)
(* The safety properties of AgentStatus for any windows, lifetimes,        *)
(* agents, reports and keys: NeverStale, QuestionsStay, AsksRung,          *)
(* PendingShown and DoneShown.                                             *)
(*                                                                         *)
(* What carries NeverStale is that a pass that ends in a wait has armed a  *)
(* deadline no later than the first change the report in force, or the     *)
(* output, can bring by itself (Armed), and that a tick takes no more from *)
(* what is left of a report than from the deadline.  For it nothing is     *)
(* assumed of what the messages say: a report is a record with times in    *)
(* it, whatever its status.                                                *)
(*                                                                         *)
(* The others are about what was said and is not served yet.  They see     *)
(* what the loop has taken and what its channel holds as one line of       *)
(* messages (Line), served from its front; each says of what it follows    *)
(* that it is in the line with nothing behind it that ends it, or is kept  *)
(* by the tab with nothing in the line that ends it.  A step puts a        *)
(* message at the end of the line, serves the first, or takes a key out;   *)
(* what each of these does to such a statement is a lemma (...Grown,       *)
(* ...Served, ...Cut).                                                     *)
(***************************************************************************)
EXTENDS AgentStatus, TLAPS

IsReport(r) ==
    /\ r = [status |-> r.status, ttl |-> r.ttl, quiet |-> r.quiet,
            overridden |-> r.overridden, absorbed |-> r.absorbed]
    /\ r.ttl \in Nat /\ r.quiet \in Ages

\* An optional report.
Optional(live) == \A r \in live : IsReport(r) /\ live = {r}

Shape ==
    /\ Optional(reported) /\ Optional(heldWaiting)
    /\ outputAge \in Ages
    /\ idleIn \subseteq Nat

\* n ticks from now, r still says what it says.
Covers(n, r) ==
    /\ n <= r.ttl
    /\ r.status = "working" /\ kind = "agy" /\ ~Overrides(reported, scrape)
           => n <= QuietLeft(r)

\* What is shown is what holds now, and a deadline comes before that can
\* change by itself.
Armed ==
    /\ activity = Effective(reported, scrape)
    /\ \A r \in reported : r.status # "blocked" => \E n \in idleIn : Covers(n, r)
    /\ reported = {} /\ activity = "working" => \E n \in idleIn : n <= Active - outputAge

Settling ==
    pc = "recv" /\ ~dirty =>
        IF closed THEN activity = "idle" ELSE 0 \in idleIn \/ Armed

IInv == Shape /\ Settling

-----------------------------------------------------------------------------
(* Times. *)

LEMMA Windows ==
    /\ Active \in Nat /\ Active > 0 /\ Window \in Nat /\ Window > 0
    /\ Ttl \in Nat /\ Ttl > 0 /\ WaitTtl \in Nat /\ WaitTtl > 0 /\ Quiet \in Nat
    /\ Horizon \in Nat /\ Active <= Horizon /\ Window <= Horizon
BY WindowsAreTimes DEF Horizon, Greatest

LEMMA OlderSays ==
    ASSUME NEW a \in Ages
    PROVE  /\ Older(a) \in Ages
           /\ Older(a) <= a + 1 /\ a <= Older(a)
           /\ Older(a) = a + 1 \/ Older(a) = Horizon
BY Windows DEF Older, Least, Ages

\* A tick takes at most one from what is left of the quiet of a report.
LEMMA QuietSays ==
    ASSUME NEW a \in Ages, NEW b \in Ages, NEW q \in Ages, NEW p \in Ages,
           b <= a + 1, p <= q + 1
    PROVE  /\ Window - Least(Window, Least(a, q)) \in Nat
           /\ Window - Least(Window, Least(b, p))
                  >= Window - Least(Window, Least(a, q)) - 1
<1>1. Window \in Nat /\ a \in Nat /\ b \in Nat /\ q \in Nat /\ p \in Nat
  BY Windows DEF Ages
<1>2. Least(a, q) \in Nat /\ Least(b, p) \in Nat /\ Least(b, p) <= Least(a, q) + 1
  BY <1>1 DEF Least
<1> DEFINE m == Least(a, q)
           n == Least(b, p)
<1>3. m \in Nat /\ n \in Nat /\ n <= m + 1
  BY <1>2
<1> HIDE DEF m, n
<1>4. Window - Least(Window, m) \in Nat
  BY <1>1, <1>3 DEF Least
<1>5. Window - Least(Window, n) >= Window - Least(Window, m) - 1
  BY <1>1, <1>3 DEF Least
<1>6. QED
  BY <1>1, <1>3, <1>4, <1>5 DEF m, n

\* Both clocks of a report replaced, one after the other.
LEMMA TwoClocks ==
    ASSUME NEW s, NEW t, NEW q, NEW o, NEW b, NEW t2, NEW q2
    PROVE  [[status |-> s, ttl |-> t, quiet |-> q, overridden |-> o, absorbed |-> b]
                EXCEPT !.ttl = t2, !.quiet = q2]
               = [status |-> s, ttl |-> t2, quiet |-> q2, overridden |-> o, absorbed |-> b]
<1> DEFINE r == [status |-> s, ttl |-> t, quiet |-> q, overridden |-> o, absorbed |-> b]
           y == [r EXCEPT !.ttl = t2]
<1>1. y = [status |-> s, ttl |-> t2, quiet |-> q, overridden |-> o, absorbed |-> b]
  OBVIOUS
<1>2. [r EXCEPT !.ttl = t2, !.quiet = q2] = [y EXCEPT !.quiet = q2]
  OBVIOUS
<1> HIDE DEF y
<1>3. [y EXCEPT !.quiet = q2]
          = [status |-> s, ttl |-> t2, quiet |-> q2, overridden |-> o, absorbed |-> b]
  BY <1>1
<1>4. QED
  BY <1>2, <1>3

LEMMA Absorbs ==
    ASSUME NEW r, NEW s, NEW t, NEW q, NEW o, NEW b, NEW c,
           r = [status |-> s, ttl |-> t, quiet |-> q, overridden |-> o, absorbed |-> b]
    PROVE  [r EXCEPT !.absorbed = c]
               = [status |-> s, ttl |-> t, quiet |-> q, overridden |-> o, absorbed |-> c]
OBVIOUS

LEMMA AgedSays ==
    ASSUME NEW r, IsReport(r)
    PROVE  /\ IsReport(Aged(r))
           /\ Aged(r).status = r.status
           /\ Aged(r).ttl = Sooner(r.ttl) /\ Aged(r).quiet = Older(r.quiet)
<1>1. r.ttl \in Nat /\ r.quiet \in Ages
  BY DEF IsReport
<1>2. Sooner(r.ttl) \in Nat
  BY <1>1 DEF Sooner
<1>3. Older(r.quiet) \in Ages
  BY <1>1, OlderSays
<1>4. Aged(r) = [r EXCEPT !.ttl = Sooner(r.ttl), !.quiet = Older(r.quiet)]
  BY DEF Aged
<1>5. Aged(r) = [status |-> r.status, ttl |-> Sooner(r.ttl), quiet |-> Older(r.quiet),
                 overridden |-> r.overridden, absorbed |-> r.absorbed]
  BY <1>4, TwoClocks DEF IsReport
<1>6. QED
  BY <1>2, <1>3, <1>5 DEF IsReport

-----------------------------------------------------------------------------
(* A settle arms the deadline it needs. *)

\* The reports a settle keeps are those in force, and keep their status.
LEMMA SettledSays ==
    ASSUME NEW before, NEW scraped, Shape, Optional(before)
    PROVE  /\ Optional(Settled(before, scraped))
           /\ \A r \in Settled(before, scraped) : ~Expired(r) /\ ~Yields(r)
           /\ Overrides(Settled(before, scraped), scraped) <=> Overrides(before, scraped)
<1> DEFINE over == Overrides(before, scraped)
           live == Settled(before, scraped)
<1>1. \A r \in live : ~Expired(r) /\ ~Yields(r)
  BY DEF Settled
<1>2. 0 \in Ages
  BY Windows DEF Ages
<1>3. ASSUME NEW q \in before
      PROVE  IsReport(Overridden(q, over)) /\ Overridden(q, over).status = q.status
  <2>1. q = [status |-> q.status, ttl |-> q.ttl, quiet |-> q.quiet,
             overridden |-> q.overridden, absorbed |-> q.absorbed]
        /\ q.ttl \in Nat /\ q.quiet \in Ages
    BY <1>3 DEF Optional, IsReport
  <2>2. CASE over \/ q.overridden
    <3>1. Overridden(q, over) =
             [status |-> q.status, ttl |-> q.ttl, quiet |-> 0,
              overridden |-> over, absorbed |-> q.absorbed]
      BY <2>1, <2>2 DEF Overridden
    <3>2. QED
      BY <3>1, <2>1, <1>2 DEF IsReport
  <2>3. CASE ~(over \/ q.overridden)
    BY <2>1, <2>3 DEF Overridden, IsReport
  <2>4. QED
    BY <2>2, <2>3
<1>4. ASSUME NEW r \in live
      PROVE  \E q \in before : r = Overridden(q, over)
  BY <1>4 DEF Settled
<1>5. Optional(live)
  <2>1. ASSUME NEW r \in live
        PROVE  IsReport(r) /\ live = {r}
    <3>1. PICK q \in before : r = Overridden(q, over)
      BY <2>1, <1>4
    <3>2. before = {q}
      BY <3>1 DEF Optional
    <3>3. \A x \in live : x = r
      BY <3>1, <3>2, <1>4
    <3>4. QED
      BY <2>1, <3>1, <3>3, <1>3
  <2>2. QED
    BY <2>1 DEF Optional
<1>6. Overrides(live, scraped) <=> over
  <2>1. CASE before = {}
    BY <2>1 DEF Overrides, Settled
  <2>2. CASE before # {}
    <3>1. PICK q \in before : before = {q}
      BY <2>2 DEF Optional
    <3>2. \A r \in live : r.status = q.status
      BY <3>1, <1>3, <1>4
    <3>3. CASE q.status = "blocked"
      <4>1. ~over
        BY <3>1, <3>3 DEF Overrides
      <4>2. ~Expired(Overridden(q, over)) /\ ~Yields(Overridden(q, over))
        BY <3>3, <1>3 DEF Expired, Yields
      <4>3. Overridden(q, over) \in live
        BY <4>2 DEF Settled
      <4>4. QED
        BY <4>1, <4>3, <3>2, <3>3 DEF Overrides
    <3>4. CASE q.status # "blocked"
      BY <3>1, <3>2, <3>4 DEF Overrides
    <3>5. QED
      BY <3>3, <3>4
  <2>3. QED
    BY <2>1, <2>2
<1>7. QED
  BY <1>1, <1>5, <1>6

LEMMA LeftOfQuiet ==
    ASSUME Shape, NEW r, IsReport(r)
    PROVE  QuietLeft(r) \in Nat
<1>1. outputAge \in Ages /\ r.quiet \in Ages
  BY DEF Shape, IsReport
<1>2. QED
  BY <1>1, QuietSays, Windows DEF QuietLeft, Ages

LEMMA SettleArms ==
    ASSUME Shape, Settle
    PROVE  Shape' /\ Settling'
<1> DEFINE scraped == ScrapeAfter /\ ~closed
           before == IF closed THEN {} ELSE reported
           live == Settled(before, scraped)
           new == IF closed THEN "idle" ELSE Effective(live, scraped)
           over == Overrides(before, scraped)
<1>1. /\ scrape' = scraped /\ reported' = live
      /\ idleIn' = NextFlip(live, new, over)
      /\ activity' = new
      /\ heldWaiting' = IF closed THEN {} ELSE heldWaiting
      /\ kind' = kind /\ closed' = closed /\ outputAge' = outputAge
  BY DEF Settle, agentVars
<1>2. Optional(before) /\ Optional(heldWaiting)'
  BY <1>1 DEF Shape, Optional
<1>3. /\ Optional(live)
      /\ \A r \in live : ~Expired(r) /\ ~Yields(r)
      /\ Overrides(live, scraped) <=> over
  BY <1>2, SettledSays
<1>4. outputAge \in Ages /\ outputAge \in Nat
  BY Windows DEF Shape, Ages
<1> HIDE DEF scraped, before, live, over, new
<1>5. \A r \in live : r.ttl \in Nat /\ QuietLeft(r) \in Nat
  BY <1>3, LeftOfQuiet DEF Optional, IsReport
<1>6. NextFlip(live, new, over) \subseteq Nat
  <2>1. CASE live # {}
    <3>1. \A r \in live : Least(r.ttl, QuietLeft(r)) \in Nat
      BY <1>5 DEF Least
    <3>2. QED
      BY <2>1, <3>1, <1>5 DEF NextFlip
  <2>2. CASE live = {} /\ new = "working"
    <3>1. outputAge < Active
      <4>1. ~closed /\ Effective(live, scraped) = "working"
        BY <2>2 DEF new
      <4>2. QED
        BY <4>1, <2>2 DEF Effective, ByOutput
    <3>2. QED
      BY <2>2, <3>1, <1>4, Windows DEF NextFlip
  <2>3. CASE live = {} /\ new # "working"
    BY <2>3 DEF NextFlip
  <2>4. QED
    BY <2>1, <2>2, <2>3
<1>7. Shape'
  BY <1>1, <1>2, <1>3, <1>4, <1>6 DEF Shape, Optional
<1>8. ASSUME ~closed PROVE Armed'
  <2>1. activity' = Effective(reported, scrape)'
    BY <1>1, <1>8 DEF new, Effective, Overrides, HasRules, Expired, Yields, QuietLeft, ByOutput
  <2>2. ASSUME NEW r \in live, r.status # "blocked"
        PROVE  \E n \in NextFlip(live, new, over) : Covers(n, r)'
    <3>1. live = {r}
      BY <2>2, <1>3 DEF Optional
    <3>2. r.ttl \in Nat /\ QuietLeft(r) \in Nat
      BY <2>2, <1>5
    <3>3. (Overrides(reported, scrape)' <=> over) /\ QuietLeft(r)' = QuietLeft(r)
      BY <1>1, <1>3 DEF Overrides, HasRules, QuietLeft
    <3>4. CASE r.status = "working" /\ kind = "agy" /\ ~over
      <4>1. PICK n : n = Least(r.ttl, QuietLeft(r))
        OBVIOUS
      <4>2. n \in NextFlip(live, new, over)
        BY <4>1, <2>2, <3>1, <3>4 DEF NextFlip
      <4>3. Covers(n, r)'
        BY <4>1, <1>1, <3>2, <3>3 DEF Covers, Least
      <4>4. QED
        BY <4>2, <4>3
    <3>5. CASE ~(r.status = "working" /\ kind = "agy" /\ ~over)
      <4>1. r.ttl \in NextFlip(live, new, over)
        BY <2>2, <3>1, <3>5 DEF NextFlip
      <4>2. Covers(r.ttl, r)'
        BY <1>1, <3>2, <3>3, <3>5 DEF Covers
      <4>3. QED
        BY <4>1, <4>2
    <3>6. QED
      BY <3>4, <3>5
  <2>3. ASSUME live = {}, new = "working"
        PROVE  Active - outputAge \in NextFlip(live, new, over)
    BY <2>3 DEF NextFlip
  <2>4. QED
    BY <1>1, <1>4, <2>1, <2>2, <2>3, Windows DEF Armed
<1>9. closed => new = "idle"
  BY DEF new
<1>10. Settling'
  BY <1>1, <1>8, <1>9 DEF Settling
<1>11. QED
  BY <1>7, <1>10

-----------------------------------------------------------------------------
(* A tick.                                                                 *)

\* A report a deadline covers at n > 0 says what it says, and so it does a
\* tick later if n > 1.
LEMMA CoveredStands ==
    ASSUME Shape, NEW r, IsReport(r), NEW n \in Nat, Covers(n, r), n > 0,
           ~Overrides(reported, scrape)
    PROVE  ~Expired(r) /\ ~Yields(r)
<1>1. r.ttl \in Nat
  BY DEF IsReport
<1>2. QED
  BY <1>1, LeftOfQuiet DEF Covers, Expired, Yields

LEMMA TickSays ==
    ASSUME Shape, Tick
    PROVE  /\ Shape'
           /\ UNCHANGED <<kind, closed, activity, scrape, dirty, pc>>
           /\ outputAge' <= outputAge + 1 /\ outputAge <= outputAge'
           /\ (Overrides(reported, scrape)' <=> Overrides(reported, scrape))
           /\ \A r \in reported : reported' = {Aged(r)}
           /\ reported = {} => reported' = {}
<1>1. /\ outputAge' = Older(outputAge)
      /\ reported' = {Aged(r) : r \in reported}
      /\ heldWaiting' = {Aged(r) : r \in heldWaiting}
      /\ idleIn' = {Sooner(n) : n \in idleIn}
      /\ UNCHANGED <<kind, closed, activity, scrape, dirty, pc>>
  BY DEF Tick, agentVars
<1>2. /\ Optional(reported) /\ Optional(heldWaiting)
      /\ outputAge \in Ages /\ idleIn \subseteq Nat
  BY DEF Shape
<1>3. outputAge' \in Ages /\ outputAge' <= outputAge + 1 /\ outputAge <= outputAge'
  BY <1>1, <1>2, OlderSays
<1>4. idleIn' \subseteq Nat
  BY <1>1, <1>2 DEF Sooner
<1>5. \A r \in reported : reported' = {Aged(r)}
  BY <1>1, <1>2 DEF Optional
<1>6. \A r \in heldWaiting : heldWaiting' = {Aged(r)}
  BY <1>1, <1>2 DEF Optional
<1>7. Optional(reported')
  BY <1>1, <1>2, <1>5, AgedSays DEF Optional
<1>8. Optional(heldWaiting')
  BY <1>1, <1>2, <1>6, AgedSays DEF Optional
<1>9. Overrides(reported, scrape)' <=> Overrides(reported, scrape)
  <2>1. \A r \in reported : Aged(r).status = r.status
    BY <1>2, AgedSays DEF Optional
  <2>2. (\A r \in reported' : r.status # "blocked")
            <=> (\A r \in reported : r.status # "blocked")
    BY <1>1, <2>1
  <2>3. QED
    BY <1>1, <2>2 DEF Overrides, HasRules
<1>10. QED
  BY <1>1, <1>3, <1>4, <1>5, <1>7, <1>8, <1>9 DEF Shape, Optional

\* A tick takes no more from what a deadline covers than from the deadline.
LEMMA CoversATick ==
    ASSUME Shape, Tick, NEW r \in reported, NEW n \in Nat, Covers(n, r), n > 0
    PROVE  Covers(n - 1, Aged(r))'
<1>1. IsReport(r) /\ outputAge \in Ages
  BY DEF Shape, Optional
<1>2. /\ IsReport(Aged(r)) /\ Aged(r).status = r.status
      /\ Aged(r).ttl = Sooner(r.ttl) /\ Aged(r).quiet = Older(r.quiet)
  BY <1>1, AgedSays
<1>3. r.ttl \in Nat /\ r.quiet \in Ages
  BY <1>1 DEF IsReport
<1>4. n - 1 <= Sooner(r.ttl)
  BY <1>3 DEF Sooner, Covers
<1>5. PICK a : a = Aged(r)
  OBVIOUS
<1>6. QuietLeft(a)' >= QuietLeft(r) - 1
  <2>1. Older(r.quiet) \in Ages /\ Older(r.quiet) <= r.quiet + 1
    BY <1>3, OlderSays
  <2>2. outputAge' \in Ages /\ outputAge' <= outputAge + 1
    BY TickSays DEF Shape
  <2>3. QED
    BY <1>1, <1>2, <1>3, <1>5, <2>1, <2>2, QuietSays DEF QuietLeft
<1>7. QuietLeft(r) \in Nat /\ QuietLeft(a)' \in Nat
  <2>1. Shape'
    BY TickSays
  <2>2. (outputAge \in Ages)' /\ a.quiet \in Ages
    BY <1>2, <1>5, <2>1 DEF Shape, IsReport
  <2>3. QuietLeft(a)' \in Nat
    BY <2>2, QuietSays, Windows DEF QuietLeft, Ages
  <2>4. QED
    BY <1>1, <2>3, LeftOfQuiet
<1>8. Covers(n - 1, a)'
  BY <1>2, <1>4, <1>5, <1>6, <1>7, TickSays DEF Covers
<1>9. QED
  BY <1>5, <1>8

\* What is left of a window of w, a tick later.
LEMMA WindowSays ==
    ASSUME NEW w \in Nat, NEW a \in Nat, NEW b \in Nat, NEW n \in Nat, b <= a + 1
    PROVE  /\ n <= w - a => n - 1 <= w - b
           /\ n <= w - b /\ n > 0 => b < w
OBVIOUS

LEMMA TickKeepsArmed ==
    ASSUME Shape, Tick, Armed, 0 \notin idleIn'
    PROVE  Armed'
<1>1. /\ idleIn' = {Sooner(n) : n \in idleIn}
      /\ outputAge \in Ages /\ idleIn \subseteq Nat
  BY DEF Tick, Shape
<1>2. \A n \in idleIn : n - 1 \in idleIn' /\ n - 1 > 0
  BY <1>1 DEF Sooner
<1>3. /\ UNCHANGED <<kind, activity, scrape>>
      /\ outputAge' <= outputAge + 1 /\ outputAge <= outputAge'
      /\ outputAge \in Nat /\ outputAge' \in Nat
      /\ (Overrides(reported, scrape)' <=> Overrides(reported, scrape))
  BY <1>1, TickSays, Windows DEF Shape, Ages
<1>4. ASSUME NEW r \in reported, reported = {r}
      PROVE  Armed'
  <2>1. PICK a : a = Aged(r)
    OBVIOUS
  <2>2. reported' = {a} /\ a.status = r.status /\ IsReport(r) /\ IsReport(a)
    BY <1>4, <2>1, TickSays, AgedSays DEF Shape, Optional
  <2>3. ASSUME r.status # "blocked"
        PROVE  \E n \in idleIn' : Covers(n, a)' /\ n > 0 /\ n \in Nat
    <3>1. PICK n \in idleIn : Covers(n, r)
      BY <1>4, <2>3 DEF Armed
    <3>2. Covers(n - 1, a)'
      BY <1>1, <1>2, <1>4, <2>1, <3>1, CoversATick
    <3>3. QED
      BY <1>1, <1>2, <3>1, <3>2
  <2>4. CASE Overrides(reported, scrape)
    <3>1. activity' = Effective(reported, scrape)'
      BY <1>3, <2>4 DEF Armed, Effective
    <3>2. QED
      BY <2>2, <2>3, <3>1 DEF Armed
  <2>5. CASE ~Overrides(reported, scrape)
    <3>1. ~Expired(r) /\ ~Yields(r)
      <4>1. CASE r.status = "blocked"
        BY <4>1 DEF Expired, Yields
      <4>2. CASE r.status # "blocked"
        <5>1. PICK n \in idleIn : Covers(n, r)
          BY <1>4, <4>2 DEF Armed
        <5>2. QED
          BY <1>1, <1>2, <2>2, <2>5, <5>1, CoveredStands
      <4>3. QED
        BY <4>1, <4>2
    <3>2. (~Expired(a) /\ ~Yields(a))'
      <4>1. CASE r.status = "blocked"
        BY <2>2, <4>1 DEF Expired, Yields
      <4>2. CASE r.status # "blocked"
        <5>1. PICK n \in idleIn' : Covers(n, a)' /\ n > 0 /\ n \in Nat
          BY <2>3, <4>2
        <5>2. QuietLeft(a)' \in Nat
          BY <2>2, TickSays, QuietSays, Windows DEF QuietLeft, Shape, IsReport, Ages
        <5>3. QED
          BY <1>3, <2>2, <2>5, <5>1, <5>2 DEF Covers, Expired, Yields, IsReport
      <4>3. QED
        BY <4>1, <4>2
    <3>3. Effective(reported, scrape)
              = CHOOSE s \in Statuses : \E q \in reported : q.status = s
      BY <1>4, <2>5, <3>1 DEF Effective
    <3>4. Effective(reported, scrape)'
              = CHOOSE s \in Statuses : \E q \in reported' : q.status = s
      BY <1>3, <2>2, <2>5, <3>2 DEF Effective
    <3>5. activity' = Effective(reported, scrape)'
      <4>1. \A s : (\E q \in reported : q.status = s) <=> (\E q \in reported' : q.status = s)
        BY <1>4, <2>2
      <4>2. QED
        BY <1>3, <3>3, <3>4, <4>1 DEF Armed
    <3>6. QED
      BY <2>2, <2>3, <3>5 DEF Armed
  <2>6. QED
    BY <2>4, <2>5
<1>5. ASSUME reported = {}
      PROVE  Armed'
  <2>1. reported' = {}
    BY <1>5, TickSays
  <2>2. ASSUME activity = "working"
        PROVE  \E n \in idleIn' : n <= Active - outputAge' /\ n > 0
    <3>1. PICK n \in idleIn : n <= Active - outputAge
      BY <1>5, <2>2 DEF Armed
    <3>2. n \in Nat /\ n - 1 \in idleIn' /\ n - 1 > 0
      BY <1>1, <1>2
    <3>3. n - 1 <= Active - outputAge'
      <4>1. /\ outputAge \in Nat /\ outputAge' \in Nat /\ outputAge' <= outputAge + 1
            /\ Active \in Nat
        BY <1>3, Windows
      <4>2. QED
        BY <3>1, <3>2, <4>1, WindowSays
    <3>4. QED
      BY <3>2, <3>3
  <2>3. activity' = Effective(reported, scrape)'
    <3>1. activity = Effective({}, scrape)
      BY <1>5 DEF Armed
    <3>2. CASE scrape
      BY <1>3, <1>5, <2>1, <3>1, <3>2 DEF Effective
    <3>3. CASE ~scrape /\ outputAge < Active
      <4>1. activity = "working"
        BY <3>1, <3>3 DEF Effective, Overrides, ByOutput
      <4>2. outputAge' < Active
        <5>1. PICK n \in idleIn' : n <= Active - outputAge' /\ n > 0
          BY <2>2, <4>1
        <5>2. /\ n \in Nat /\ outputAge \in Nat /\ outputAge' \in Nat /\ Active \in Nat
              /\ outputAge' <= outputAge + 1
          BY <1>3, <5>1, TickSays, Windows DEF Shape
        <5>3. QED
          BY <5>1, <5>2, WindowSays
      <4>3. QED
        BY <1>3, <2>1, <3>3, <4>1, <4>2 DEF Effective, Overrides, ByOutput
    <3>4. CASE ~scrape /\ ~(outputAge < Active)
      <4>1. ~(outputAge' < Active)
        BY <1>3, <3>4, Windows
      <4>2. QED
        BY <1>3, <2>1, <3>1, <3>4, <4>1 DEF Effective, Overrides, ByOutput
    <3>5. QED
      BY <3>2, <3>3, <3>4
  <2>4. QED
    BY <1>3, <2>1, <2>2, <2>3 DEF Armed
<1>6. QED
  BY <1>4, <1>5 DEF Shape, Optional

LEMMA TickKeeps ==
    ASSUME IInv, Tick
    PROVE  IInv'
<1>1. Shape' /\ UNCHANGED <<closed, activity, dirty, pc>>
  BY TickSays DEF IInv
<1>2. 0 \in idleIn => 0 \in idleIn'
  BY DEF Tick, Sooner
<1>3. Armed => 0 \in idleIn' \/ Armed'
  BY TickKeepsArmed DEF IInv
<1>4. QED
  BY <1>1, <1>2, <1>3 DEF IInv, Settling

-----------------------------------------------------------------------------
(* The other steps.                                                        *)

\* What the agent and the user do reaches the tab through the loop alone.
LEMMA OutsideKeeps ==
    ASSUME IInv, Agent \/ (\E k \in KeyEvents : Type(k)) \/ UNCHANGED vars
    PROVE  IInv'
<1>1. UNCHANGED <<kind, closed, reported, heldWaiting, outputAge, scrape, activity,
                  pc, dirty, idleIn>>
  <2>1. CASE Agent
    <3>1. ASSUME NEW m, Send(m)
          PROVE  UNCHANGED <<kind, tabVars, loopVars>>
      BY <3>1 DEF Send
    <3>2. UNCHANGED <<kind, tabVars, loopVars>>
      <4>1. CASE StartTurn
        BY <4>1, <3>1 DEF StartTurn
      <4>2. CASE EndTurn
        BY <4>2, <3>1 DEF EndTurn
      <4>3. CASE CancelTurn
        BY <4>3, <3>1 DEF CancelTurn
      <4>4. CASE FailTurn \/ Ask \/ Nudge \/ Review
        BY <4>4, <3>1 DEF FailTurn, Ask, Nudge, Review
      <4>5. CASE \E c \in Calls : Question(c) \/ Answer(c)
        BY <4>5, <3>1 DEF Question, Answer
      <4>6. CASE \E status \in Tells : Tell(status)
        BY <4>6, <3>1 DEF Tell
      <4>7. CASE Draw \/ React \/ Exit
        BY <4>7 DEF Draw, React, Exit
      <4>8. QED
        BY <2>1, <4>1, <4>2, <4>3, <4>4, <4>5, <4>6, <4>7 DEF Agent
    <3>3. QED
      BY <3>2 DEF tabVars, loopVars
  <2>2. CASE \E k \in KeyEvents : Type(k)
    BY <2>2 DEF Type, agentVars, tabVars, loopVars
  <2>3. CASE UNCHANGED vars
    BY <2>3 DEF vars, agentVars, tabVars, loopVars
  <2>4. QED
    BY <2>1, <2>2, <2>3
<1>2. Shape'
  BY <1>1 DEF IInv, Shape
<1>3. Armed => Armed'
  BY <1>1 DEF Armed, Covers, Effective, Overrides, HasRules, Expired, Yields, QuietLeft,
          ByOutput
<1>4. QED
  BY <1>1, <1>2, <1>3 DEF IInv, Settling

LEMMA LandKeeps ==
    ASSUME IInv, Land
    PROVE  IInv'
<1>1. 0 \in Ages
  BY Windows DEF Ages
<1>2. QED
  BY <1>1 DEF Land, IInv, Shape, Settling, Optional

\* A report that is served replaces the one in force, marks it or leaves it; the
\* frame is drawn, and the next pass settles what it says.
LEMMA ServeKeeps ==
    ASSUME IInv, Serve
    PROVE  IInv'
<1>1. ASSUME NEW status
      PROVE  IsReport(NewReport(status))
  <2>1. 0 \in Ages
    BY Windows DEF Ages
  <2>2. QED
    BY <2>1, Windows DEF NewReport, IsReport
<1>2. ASSUME NEW r, IsReport(r)
      PROVE  IsReport([r EXCEPT !.absorbed = TRUE])
  <2>1. PICK s, t, q, o, b :
            /\ r = [status |-> s, ttl |-> t, quiet |-> q, overridden |-> o, absorbed |-> b]
            /\ t \in Nat /\ q \in Ages
    BY <1>2 DEF IsReport
  <2>2. PICK c : c = TRUE
    OBVIOUS
  <2>3. [r EXCEPT !.absorbed = c]
            = [status |-> s, ttl |-> t, quiet |-> q, overridden |-> o, absorbed |-> c]
    BY <2>1, Absorbs
  <2>4. IsReport([r EXCEPT !.absorbed = c])
    BY <2>1, <2>3 DEF IsReport
  <2>5. QED
    BY <2>2, <2>4, Zenon
<1>3. Optional(reported) /\ Optional(heldWaiting)
  BY DEF IInv, Shape
<1>4. ASSUME NEW live, Optional(live)
      PROVE  Optional({[r EXCEPT !.absorbed = TRUE] : r \in live})
  BY <1>2, <1>4 DEF Optional
<1>5. Optional(reported)' /\ Optional(heldWaiting)'
  <2>1. CASE closed
    BY <1>3, <2>1 DEF Serve, Optional
  <2>2. CASE ~closed
    <3>1. PICK m : Apply(m)
      BY <2>2 DEF Serve
    <3>2. Optional({NewReport("waiting")}) /\ Optional({}) /\ Optional({NewReport(Status(m))})
      BY <1>1 DEF Optional
    <3>3. \E live : /\ Optional(live)
                    /\ \/ reported' = live
                       \/ reported' = {[r EXCEPT !.absorbed = TRUE] : r \in live}
                       \/ reported' = {NewReport(Status(m))}
      <4>1. CASE HoldsForTurnEnd(m)
        BY <1>3, <3>1, <4>1 DEF Apply
      <4>2. CASE ~HoldsForTurnEnd(m)
        BY <1>3, <3>1, <4>2 DEF Apply
      <4>3. QED
        BY <4>1, <4>2
    <3>4. \/ heldWaiting' = {NewReport("waiting")}
          \/ heldWaiting' = heldWaiting
          \/ heldWaiting' = {}
      BY <3>1 DEF Apply
    <3>5. Optional(reported')
      BY <1>4, <3>2, <3>3
    <3>6. Optional(heldWaiting')
      BY <1>3, <3>2, <3>4
    <3>7. QED
      BY <3>5, <3>6 DEF Optional
  <2>3. QED
    BY <2>1, <2>2
<1>6. Shape' /\ dirty'
  BY <1>5 DEF Serve, IInv, Shape
<1>7. QED
  BY <1>6 DEF IInv, Settling

\* A key only takes reports away, and a pass follows it.
LEMMA RecvKeeps ==
    ASSUME IInv, Recv
    PROVE  IInv'
<1>1. /\ reported' = reported \/ \E esc : reported' = LeftByKey(esc)
      /\ heldWaiting' = heldWaiting \/ heldWaiting' = {}
      /\ UNCHANGED <<outputAge, idleIn>> /\ pc' = "land"
  BY DEF Recv, Dispatch, Press
<1>2. \A esc : LeftByKey(esc) \subseteq reported
  BY DEF LeftByKey
<1>3. Shape'
  BY <1>1, <1>2 DEF IInv, Shape, Optional
<1>4. QED
  BY <1>1, <1>3 DEF IInv, Settling

-----------------------------------------------------------------------------
(* The theorems.                                                           *)

\* Whenever the loop waits with nothing to draw, what it shows is what holds,
\* and a deadline is armed no later than that can change by itself.
THEOREM DeadlineArmed == Spec => []IInv
<1>1. Init => IInv
  <2>1. Horizon \in Ages
    BY Windows DEF Ages
  <2>2. QED
    BY <2>1 DEF Init, IInv, Shape, Settling, Optional
<1>2. ASSUME IInv, [Next]_vars
      PROVE  IInv'
  <2>1. CASE Agent \/ (\E k \in KeyEvents : Type(k)) \/ UNCHANGED vars
    BY <1>2, <2>1, OutsideKeeps
  <2>2. CASE Land
    BY <1>2, <2>2, LandKeeps
  <2>3. CASE Settle
    BY <1>2, <2>3, SettleArms DEF IInv
  <2>4. CASE Serve
    BY <1>2, <2>4, ServeKeeps
  <2>5. CASE Recv
    BY <1>2, <2>5, RecvKeeps
  <2>6. CASE Tick
    BY <1>2, <2>6, TickKeeps
  <2>7. QED
    BY <1>2, <2>1, <2>2, <2>3, <2>4, <2>5, <2>6 DEF Next
<1>3. QED
  BY <1>1, <1>2, PTL DEF Spec

\* The dot does not go stale while the loop sleeps, for any windows and
\* lifetimes, whatever the agent reports, draws and is given (settle_agent_activity
\* arms AgentIdle for the first flip of what it settled).
THEOREM DotNeverStale == Spec => []NeverStale
<1>1. IInv => NeverStale
  BY DEF IInv, Settling, Armed, NeverStale, Sleeping, Due
<1>2. QED
  BY <1>1, DeadlineArmed, PTL

-----------------------------------------------------------------------------
(* What is ahead of the loop: the reports it has received, and behind them *)
(* the channel.                                                            *)

Events == {"prompt", "stop", "stopIdle", "stopBusy", "cancel", "cancelIdle", "failure",
           "ask", "nudge", "question", "answer", "review", "own"} \cup KeyEvents
Messages == {m \in [event : Events, status : Statuses \cup {"none"}, call : SUBSET Calls] :
                m.status # "none" <=> m.event = "own"}
IsKey(m) == m.event \in KeyEvents

Ahead == Len(pending) + Len(chan)
Line == [i \in 1 .. Ahead |-> IF i <= Len(pending) THEN pending[i] ELSE chan[i - Len(pending)]]

QueueInv ==
    /\ kind \in Kinds
    /\ pending \in Seq(Messages) /\ chan \in Seq(Messages)
    /\ \A i \in DOMAIN pending : ~IsKey(pending[i])
    /\ pc = "recv" => pending = <<>>
    /\ pc = "serve" => pending # <<>>
    /\ closed => exited
    /\ pc = "recv" /\ ~dirty => activity = notified

\* Where the j-th message stood before the n-th was taken out, and where the
\* i-th stands after it was.
Was(n, j) == IF j < n THEN j ELSE j + 1
Now(n, i) == IF i < n THEN i ELSE i - 1

LEMMA LineSays ==
    ASSUME QueueInv
    PROVE  /\ Ahead \in Nat /\ DOMAIN Line = 1 .. Ahead
           /\ \A i \in 1 .. Ahead : Line[i] \in Messages
<1>1. /\ pending \in Seq(Messages) /\ chan \in Seq(Messages)
      /\ Len(pending) \in Nat /\ Len(chan) \in Nat
  BY DEF QueueInv
<1>2. /\ \A i \in 1 .. Len(pending) : pending[i] \in Messages
      /\ \A i \in 1 .. Len(chan) : chan[i] \in Messages
  BY <1>1
<1>3. ASSUME NEW i \in 1 .. Len(pending) + Len(chan), ~(i <= Len(pending))
      PROVE  i - Len(pending) \in 1 .. Len(chan)
  BY <1>1, <1>3
<1>4. ASSUME NEW i \in 1 .. Len(pending) + Len(chan), i <= Len(pending)
      PROVE  i \in 1 .. Len(pending)
  BY <1>1, <1>4
<1> QED BY <1>1, <1>2, <1>3, <1>4 DEF Line, Ahead

\* A message that is sent comes last.
LEMMA Grown ==
    ASSUME QueueInv, NEW m, chan' = Append(chan, m), pending' = pending
    PROVE  /\ Ahead' = Ahead + 1 /\ Line'[Ahead + 1] = m
           /\ \A i \in 1 .. Ahead : Line'[i] = Line[i]
<1>1. chan \in Seq(Messages) /\ Len(pending) \in Nat /\ Len(chan) \in Nat
  BY DEF QueueInv
<1>2. PICK c : c = chan'
  OBVIOUS
<1>3. c = Append(chan, m)
  BY <1>2
<1>4. Len(c) = Len(chan) + 1 /\ c[Len(chan) + 1] = m
      /\ \A i \in 1 .. Len(chan) : c[i] = chan[i]
  BY <1>1, <1>3
<1>5. Ahead' = Ahead + 1 /\ Ahead \in Nat
  BY <1>1, <1>2, <1>4 DEF Ahead
<1>6. Line' = [i \in 1 .. Ahead + 1 |->
                 IF i <= Len(pending) THEN pending[i] ELSE c[i - Len(pending)]]
  BY <1>2, <1>5 DEF Line
<1>7. Line'[Ahead + 1] = m
  <2>1. Ahead + 1 - Len(pending) = Len(chan) + 1 /\ ~(Ahead + 1 <= Len(pending))
    BY <1>1 DEF Ahead
  <2>2. Ahead + 1 \in 1 .. Ahead + 1
    BY <1>5
  <2>3. Line'[Ahead + 1] = c[Ahead + 1 - Len(pending)]
    <3>1. PICK l : l = Ahead + 1
      OBVIOUS
    <3>2. l \in 1 .. Ahead + 1 /\ ~(l <= Len(pending))
      BY <2>1, <2>2, <3>1
    <3>3. Line'[l] = c[l - Len(pending)]
      BY <1>6, <3>2
    <3> QED BY <1>1, <1>5, <3>1, <3>3
  <2>4. c[Ahead + 1 - Len(pending)] = c[Len(chan) + 1]
    BY <2>1
  <2> QED BY <1>4, <2>3, <2>4
<1>8. ASSUME NEW i \in 1 .. Ahead PROVE Line'[i] = Line[i]
  <2>1. i \in 1 .. Ahead + 1
    BY <1>5
  <2>2. ~(i <= Len(pending)) => i - Len(pending) \in 1 .. Len(chan)
    BY <1>1 DEF Ahead
  <2> QED BY <1>4, <1>6, <2>1, <2>2 DEF Line
<1> QED BY <1>5, <1>7, <1>8

\* The report that is served is the first.
LEMMA Served ==
    ASSUME QueueInv, Serve
    PROVE  /\ Ahead \in Nat \ {0} /\ Ahead' = Ahead - 1
           /\ Line[1] = Head(pending) /\ ~IsKey(Line[1])
           /\ \A i \in 1 .. Ahead - 1 : Line'[i] = Line[i + 1]
<1>1. /\ pending \in Seq(Messages) /\ pending # <<>> /\ pending' = Tail(pending)
      /\ chan' = chan /\ Len(chan) \in Nat
      /\ \A i \in DOMAIN pending : ~IsKey(pending[i])
  BY DEF QueueInv, Serve
<1>2. PICK p : p = pending'
  OBVIOUS
<1>3. p = Tail(pending)
  BY <1>1, <1>2
<1>4. Len(pending) \in Nat \ {0} /\ DOMAIN pending = 1 .. Len(pending)
      /\ Head(pending) = pending[1]
  BY <1>1
<1>5. Len(p) = Len(pending) - 1
  BY <1>1, <1>3, <1>4
<1>6. \A i \in 1 .. Len(pending) - 1 : p[i] = pending[i + 1]
  BY <1>1, <1>3, <1>4
<1>7. Ahead \in Nat \ {0} /\ Ahead' = Ahead - 1
  BY <1>1, <1>2, <1>4, <1>5 DEF Ahead
<1>8. Line' = [i \in 1 .. Ahead - 1 |->
                 IF i <= Len(pending) - 1 THEN p[i] ELSE chan[i - (Len(pending) - 1)]]
  BY <1>1, <1>2, <1>5, <1>7 DEF Line
<1>9. Line[1] = Head(pending) /\ ~IsKey(Line[1])
  <2>1. 1 \in 1 .. Ahead /\ 1 <= Len(pending) /\ 1 \in DOMAIN pending
    BY <1>4, <1>7
  <2> QED BY <1>1, <1>4, <2>1 DEF Line
<1>10. ASSUME NEW i \in 1 .. Ahead - 1 PROVE Line'[i] = Line[i + 1]
  <2>1. i + 1 \in 1 .. Ahead /\ i \in Nat
    BY <1>7
  <2>2. CASE i <= Len(pending) - 1
    <3>1. i + 1 <= Len(pending) /\ i \in 1 .. Len(pending) - 1
      BY <1>4, <2>1, <2>2
    <3> QED BY <1>6, <1>8, <2>1, <2>2, <3>1 DEF Line
  <2>3. CASE ~(i <= Len(pending) - 1)
    <3>1. ~(i + 1 <= Len(pending)) /\ i - (Len(pending) - 1) = i + 1 - Len(pending)
      BY <1>4, <2>1, <2>3
    <3>2. Line'[i] = chan[i - (Len(pending) - 1)]
      BY <1>8, <2>3
    <3>3. Line[i + 1] = chan[i + 1 - Len(pending)]
      BY <2>1, <3>1 DEF Line
    <3>4. chan[i - (Len(pending) - 1)] = chan[i + 1 - Len(pending)]
      BY <3>1
    <3> QED BY <3>2, <3>3, <3>4
  <2> QED BY <2>2, <2>3
<1> QED BY <1>7, <1>9, <1>10

\* The loop takes up the reports and at most one key, the first, which it
\* dispatches.
LEMMA Received ==
    ASSUME QueueInv, Recv
    PROVE  /\ Ahead \in Nat /\ \A i \in 1 .. Ahead : Line[i] = chan[i]
           /\ Ahead = Len(chan)
           /\ \/ /\ Ahead' = Ahead /\ \A i \in 1 .. Ahead : Line'[i] = Line[i]
                 /\ UNCHANGED <<view, poked, reported, heldWaiting, recovery, scrape, ghosts>>
              \/ \E n \in 1 .. Ahead :
                   /\ IsKey(Line[n]) /\ Ahead' = Ahead - 1
                   /\ \A j \in 1 .. Ahead - 1 : Line'[j] = Line[Was(n, j)]
                   /\ Dispatch(Line[n].event)
           /\ pending' \in Seq(Messages) /\ chan' \in Seq(Messages)
           /\ \A i \in DOMAIN pending' : ~IsKey(pending'[i])
<1>1. /\ chan \in Seq(Messages) /\ pending = <<>> /\ Len(pending) = 0
      /\ Len(chan) \in Nat /\ DOMAIN chan = 1 .. Len(chan)
  BY DEF QueueInv, Recv
<1>2. Ahead = Len(chan) /\ Ahead \in Nat
  BY <1>1 DEF Ahead
<1>3. \A i \in 1 .. Ahead : Line[i] = chan[i]
  <2> SUFFICES ASSUME NEW i \in 1 .. Ahead PROVE Line[i] = chan[i]
    OBVIOUS
  <2>1. ~(i <= Len(pending)) /\ i - Len(pending) = i
    BY <1>1, <1>2
  <2> QED BY <2>1 DEF Line
<1>4. PICK n \in 1 .. Len(chan) + 1 :
         /\ \A j \in 1 .. n - 1 : chan[j].event \notin KeyEvents
         /\ pending' = SubSeq(chan, 1, n - 1) /\ chan' = SubSeq(chan, n + 1, Len(chan))
         /\ IF n > Len(chan)
            THEN UNCHANGED <<view, poked, reported, heldWaiting, recovery, scrape, ghosts>>
            ELSE chan[n].event \in KeyEvents /\ Dispatch(chan[n].event)
  BY DEF Recv
<1>5. PICK p, c : p = pending' /\ c = chan'
  OBVIOUS
<1>6. p = SubSeq(chan, 1, n - 1) /\ c = SubSeq(chan, n + 1, Len(chan))
  BY <1>4, <1>5
<1>7. /\ p \in Seq(Messages) /\ Len(p) = n - 1
      /\ \A i \in 1 .. n - 1 : p[i] = chan[i]
  BY <1>1, <1>6
<1>8. c \in Seq(Messages)
  BY <1>1, <1>6
<1>9. Len(c) = IF n > Len(chan) THEN 0 ELSE Len(chan) - n
  BY <1>1, <1>6
<1>10. \A i \in 1 .. Len(chan) - n : c[i] = chan[i + n]
  <2> SUFFICES ASSUME NEW i \in 1 .. Len(chan) - n PROVE c[i] = chan[i + n]
    OBVIOUS
  <2>1. i + (n + 1) - 1 = i + n
    OBVIOUS
  <2> QED BY <1>1, <1>6, <2>1
<1>11. \A i \in DOMAIN p : ~IsKey(p[i])
  <2>1. DOMAIN p = 1 .. n - 1
    BY <1>7
  <2> QED BY <1>4, <1>7, <2>1 DEF IsKey
<1>12. Ahead' = (n - 1) + Len(c)
  BY <1>5, <1>7 DEF Ahead
<1>13. Line' = [i \in 1 .. Ahead' |-> IF i <= n - 1 THEN p[i] ELSE c[i - (n - 1)]]
  BY <1>5, <1>7 DEF Line
<1>14. CASE n > Len(chan)
  <2>1. n = Len(chan) + 1 /\ Ahead' = Ahead
    BY <1>1, <1>2, <1>9, <1>12, <1>14
  <2>2. \A i \in 1 .. Ahead : Line'[i] = Line[i]
    BY <1>2, <1>3, <1>7, <1>13, <2>1
  <2> QED BY <1>2, <1>3, <1>4, <1>5, <1>7, <1>8, <1>11, <1>14, <2>1, <2>2
<1>15. CASE ~(n > Len(chan))
  <2>1. n \in 1 .. Ahead /\ IsKey(Line[n]) /\ Dispatch(Line[n].event)
    BY <1>2, <1>3, <1>4, <1>15 DEF IsKey
  <2>2. Ahead' = Ahead - 1
    BY <1>1, <1>2, <1>9, <1>12, <1>15
  <2>3. ASSUME NEW j \in 1 .. Ahead - 1 PROVE Line'[j] = Line[Was(n, j)]
    <3>1. CASE j < n
      <4>1. j \in 1 .. n - 1 /\ j \in 1 .. Ahead /\ j \in 1 .. Ahead'
        BY <1>2, <2>2, <3>1
      <4> QED BY <1>3, <1>7, <1>13, <3>1, <4>1 DEF Was
    <3>2. CASE ~(j < n)
      <4>1. /\ ~(j <= n - 1) /\ j - (n - 1) \in 1 .. Len(chan) - n
            /\ j - (n - 1) + n = j + 1 /\ j + 1 \in 1 .. Ahead /\ j \in 1 .. Ahead'
        BY <1>1, <1>2, <2>1, <2>2, <3>2
      <4>2. c[j - (n - 1)] = chan[j - (n - 1) + n]
        BY <1>10, <4>1
      <4> QED BY <1>3, <1>13, <3>2, <4>1, <4>2 DEF Was
    <3> QED BY <3>1, <3>2
  <2> QED BY <1>2, <1>3, <1>5, <1>7, <1>8, <1>11, <2>1, <2>2, <2>3
<1> QED BY <1>14, <1>15

\* What a message of `up` brings and one of `down` takes away holds where the
\* i-th message is served, if it holds at the first one or by base.
Stands(line, up, down, base, i) ==
    \/ \E j \in 1 .. i - 1 : line[j] \in up /\ \A k \in j + 1 .. i - 1 : line[k] \notin down
    \/ base /\ \A k \in 1 .. i - 1 : line[k] \notin down

LEMMA StandsGrown ==
    ASSUME NEW a, NEW b, NEW L \in Nat, \A i \in 1 .. L : b[i] = a[i],
           NEW up, NEW down, NEW base
    PROVE  /\ \A i \in 1 .. L + 1 : Stands(b, up, down, base, i) <=> Stands(a, up, down, base, i)
           /\ Stands(b, up, down, base, L + 2) <=>
                  \/ b[L + 1] \in up
                  \/ Stands(a, up, down, base, L + 1) /\ b[L + 1] \notin down
<1>1. ASSUME NEW i \in 1 .. L + 1
      PROVE  Stands(b, up, down, base, i) <=> Stands(a, up, down, base, i)
  <2>1. \A k \in 1 .. i - 1 : k \in 1 .. L /\ \A q \in k + 1 .. i - 1 : q \in 1 .. L
    BY <1>1
  <2>2. \A k \in 1 .. i - 1 : b[k] = a[k] /\ \A q \in k + 1 .. i - 1 : b[q] = a[q]
    BY <2>1
  <2> QED BY <2>2 DEF Stands
<1>2. ASSUME Stands(b, up, down, base, L + 2)
      PROVE  \/ b[L + 1] \in up
             \/ Stands(a, up, down, base, L + 1) /\ b[L + 1] \notin down
  <2>1. CASE \E j \in 1 .. L + 1 : b[j] \in up /\ \A k \in j + 1 .. L + 1 : b[k] \notin down
    <3>1. PICK j \in 1 .. L + 1 : b[j] \in up /\ \A k \in j + 1 .. L + 1 : b[k] \notin down
      BY <2>1
    <3>2. CASE j = L + 1
      BY <3>1, <3>2
    <3>3. CASE j # L + 1
      <4>1. j \in 1 .. L /\ L + 1 \in j + 1 .. L + 1
        BY <3>1, <3>3
      <4>2. \A k \in j + 1 .. L : k \in j + 1 .. L + 1 /\ k \in 1 .. L
        BY <4>1
      <4>3. a[j] \in up /\ \A k \in j + 1 .. L : a[k] \notin down
        BY <3>1, <4>1, <4>2
      <4>4. L + 1 - 1 = L
        OBVIOUS
      <4>5. Stands(a, up, down, base, L + 1)
        BY <4>1, <4>3, <4>4 DEF Stands
      <4> QED BY <3>1, <4>1, <4>5
    <3> QED BY <3>2, <3>3
  <2>2. CASE base /\ \A k \in 1 .. L + 1 : b[k] \notin down
    <3>1. L + 1 \in 1 .. L + 1 /\ \A k \in 1 .. L : k \in 1 .. L + 1
      OBVIOUS
    <3>2. \A k \in 1 .. L : a[k] \notin down
      BY <2>2, <3>1
    <3>3. L + 1 - 1 = L
      OBVIOUS
    <3> QED BY <2>2, <3>1, <3>2, <3>3 DEF Stands
  <2>3. L + 2 - 1 = L + 1
    OBVIOUS
  <2> QED BY <1>2, <2>1, <2>2, <2>3 DEF Stands
<1>3. ASSUME b[L + 1] \in up
      PROVE  Stands(b, up, down, base, L + 2)
  <2>1. L + 1 \in 1 .. L + 2 - 1 /\ \A k \in L + 1 + 1 .. L + 2 - 1 : FALSE
    OBVIOUS
  <2> QED BY <1>3, <2>1 DEF Stands
<1>4. ASSUME Stands(a, up, down, base, L + 1), b[L + 1] \notin down
      PROVE  Stands(b, up, down, base, L + 2)
  <2>1. L + 1 - 1 = L /\ L + 2 - 1 = L + 1
    OBVIOUS
  <2>2. CASE \E j \in 1 .. L : a[j] \in up /\ \A k \in j + 1 .. L : a[k] \notin down
    <3>1. PICK j \in 1 .. L : a[j] \in up /\ \A k \in j + 1 .. L : a[k] \notin down
      BY <2>2
    <3>2. \A k \in j + 1 .. L + 1 : k = L + 1 \/ (k \in j + 1 .. L /\ k \in 1 .. L)
      BY <3>1
    <3>3. b[j] \in up /\ \A k \in j + 1 .. L + 1 : b[k] \notin down
      BY <1>4, <3>1, <3>2
    <3>4. j \in 1 .. L + 1
      BY <3>1
    <3> QED BY <2>1, <3>3, <3>4 DEF Stands
  <2>3. CASE base /\ \A k \in 1 .. L : a[k] \notin down
    <3>1. \A k \in 1 .. L + 1 : k = L + 1 \/ k \in 1 .. L
      OBVIOUS
    <3>2. \A k \in 1 .. L + 1 : b[k] \notin down
      BY <1>4, <2>3, <3>1
    <3> QED BY <2>1, <2>3, <3>2 DEF Stands
  <2> QED BY <1>4, <2>1, <2>2, <2>3 DEF Stands
<1> QED BY <1>1, <1>2, <1>3, <1>4

\* A message of neither kind is taken out.
LEMMA StandsCut ==
    ASSUME NEW a, NEW b, NEW L \in Nat \ {0}, NEW n \in 1 .. L,
           \A j \in 1 .. L - 1 : b[j] = a[Was(n, j)],
           NEW up, NEW down, NEW base, a[n] \notin up, a[n] \notin down
    PROVE  \A i \in 1 .. L :
             Stands(b, up, down, base, i) <=> Stands(a, up, down, base, Was(n, i))
<1> SUFFICES ASSUME NEW i \in 1 .. L
             PROVE  Stands(b, up, down, base, i) <=> Stands(a, up, down, base, Was(n, i))
  OBVIOUS
<1>1. /\ \A j \in 1 .. i - 1 : /\ j \in 1 .. L - 1 /\ Was(n, j) \in 1 .. Was(n, i) - 1
                               /\ b[j] = a[Was(n, j)]
      /\ \A j \in 1 .. i - 1 : \A k \in j + 1 .. i - 1 :
             k \in 1 .. i - 1 /\ Was(n, k) \in Was(n, j) + 1 .. Was(n, i) - 1
  BY DEF Was
<1>2. /\ \A j \in 1 .. Was(n, i) - 1 : j # n => /\ Now(n, j) \in 1 .. i - 1
                                               /\ Was(n, Now(n, j)) = j
      /\ \A j \in 1 .. Was(n, i) - 1 : \A k \in j + 1 .. Was(n, i) - 1 :
             k # n /\ j # n => Now(n, k) \in Now(n, j) + 1 .. i - 1 /\ k \in 1 .. Was(n, i) - 1
  BY DEF Was, Now
<1>3. \A j \in 1 .. Was(n, i) - 1 : j # n => b[Now(n, j)] = a[j]
  BY <1>1, <1>2
<1>4. ASSUME Stands(b, up, down, base, i)
      PROVE  Stands(a, up, down, base, Was(n, i))
  <2>1. CASE \E j \in 1 .. i - 1 : b[j] \in up /\ \A k \in j + 1 .. i - 1 : b[k] \notin down
    <3>1. PICK j \in 1 .. i - 1 : b[j] \in up /\ \A k \in j + 1 .. i - 1 : b[k] \notin down
      BY <2>1
    <3>2. Was(n, j) \in 1 .. Was(n, i) - 1 /\ a[Was(n, j)] \in up
      BY <1>1, <3>1
    <3>3. ASSUME NEW k \in Was(n, j) + 1 .. Was(n, i) - 1 PROVE a[k] \notin down
      <4>1. k # n => Now(n, k) \in j + 1 .. i - 1 /\ k \in 1 .. Was(n, i) - 1
        BY <3>1, <3>3 DEF Was, Now
      <4> QED BY <1>3, <3>1, <4>1
    <3> QED BY <3>2, <3>3 DEF Stands
  <2>2. CASE base /\ \A k \in 1 .. i - 1 : b[k] \notin down
    <3>1. \A k \in 1 .. Was(n, i) - 1 : a[k] \notin down
      BY <1>2, <1>3, <2>2
    <3> QED BY <2>2, <3>1 DEF Stands
  <2> QED BY <1>4, <2>1, <2>2 DEF Stands
<1>5. ASSUME Stands(a, up, down, base, Was(n, i))
      PROVE  Stands(b, up, down, base, i)
  <2>1. CASE \E j \in 1 .. Was(n, i) - 1 :
               a[j] \in up /\ \A k \in j + 1 .. Was(n, i) - 1 : a[k] \notin down
    <3>1. PICK j \in 1 .. Was(n, i) - 1 :
               a[j] \in up /\ \A k \in j + 1 .. Was(n, i) - 1 : a[k] \notin down
      BY <2>1
    <3>2. j # n /\ Now(n, j) \in 1 .. i - 1 /\ b[Now(n, j)] \in up
      BY <1>2, <1>3, <3>1
    <3>3. ASSUME NEW k \in Now(n, j) + 1 .. i - 1 PROVE b[k] \notin down
      <4>1. k \in 1 .. i - 1 /\ Was(n, k) \in j + 1 .. Was(n, i) - 1
        BY <3>1, <3>2, <3>3 DEF Was, Now
      <4> QED BY <1>1, <3>1, <4>1
    <3> QED BY <3>2, <3>3 DEF Stands
  <2>2. CASE base /\ \A k \in 1 .. Was(n, i) - 1 : a[k] \notin down
    <3>1. \A k \in 1 .. i - 1 : b[k] \notin down
      BY <1>1, <2>2
    <3> QED BY <2>2, <3>1 DEF Stands
  <2> QED BY <1>5, <2>1, <2>2 DEF Stands
<1> QED BY <1>4, <1>5

\* The first message is served, and next is what it leaves.
LEMMA StandsServed ==
    ASSUME NEW a, NEW b, NEW L \in Nat \ {0}, \A j \in 1 .. L - 1 : b[j] = a[j + 1],
           NEW up, NEW down, NEW base, NEW next
    PROVE  /\ (a[1] \in up \/ (base /\ a[1] \notin down) => next) =>
                \A i \in 1 .. L :
                  Stands(a, up, down, base, i + 1) => Stands(b, up, down, next, i)
           /\ (next => a[1] \in up \/ (base /\ a[1] \notin down)) =>
                \A i \in 1 .. L :
                  Stands(b, up, down, next, i) => Stands(a, up, down, base, i + 1)
<1>1. ASSUME a[1] \in up \/ (base /\ a[1] \notin down) => next,
             NEW i \in 1 .. L, Stands(a, up, down, base, i + 1)
      PROVE  Stands(b, up, down, next, i)
  <2>1. i + 1 - 1 = i
    OBVIOUS
  <2>2. ASSUME NEW j \in 1 .. i, a[j] \in up, \A k \in j + 1 .. i : a[k] \notin down
        PROVE  Stands(b, up, down, next, i)
    <3>1. CASE j = 1
      <4>1. \A k \in 1 .. i - 1 : k \in 1 .. L - 1 /\ k + 1 \in j + 1 .. i
        BY <3>1
      <4>2. \A k \in 1 .. i - 1 : b[k] \notin down
        BY <2>2, <4>1
      <4> QED BY <1>1, <2>2, <3>1, <4>2 DEF Stands
    <3>2. CASE j # 1
      <4>1. j - 1 \in 1 .. i - 1 /\ j - 1 \in 1 .. L - 1 /\ (j - 1) + 1 = j
        BY <3>2
      <4>2. \A k \in (j - 1) + 1 .. i - 1 : k \in 1 .. L - 1 /\ k + 1 \in j + 1 .. i
        BY <3>2
      <4>3. b[j - 1] \in up /\ \A k \in (j - 1) + 1 .. i - 1 : b[k] \notin down
        BY <2>2, <4>1, <4>2
      <4> QED BY <4>1, <4>3 DEF Stands
    <3> QED BY <3>1, <3>2
  <2>3. ASSUME base, \A k \in 1 .. i : a[k] \notin down
        PROVE  Stands(b, up, down, next, i)
    <3>1. 1 \in 1 .. i /\ \A k \in 1 .. i - 1 : k \in 1 .. L - 1 /\ k + 1 \in 1 .. i
      OBVIOUS
    <3>2. \A k \in 1 .. i - 1 : b[k] \notin down
      BY <2>3, <3>1
    <3> QED BY <1>1, <2>3, <3>1, <3>2 DEF Stands
  <2> QED BY <1>1, <2>1, <2>2, <2>3 DEF Stands
<1>2. ASSUME next => a[1] \in up \/ (base /\ a[1] \notin down),
             NEW i \in 1 .. L, Stands(b, up, down, next, i)
      PROVE  Stands(a, up, down, base, i + 1)
  <2>1. i + 1 - 1 = i
    OBVIOUS
  <2>2. ASSUME NEW j \in 1 .. i - 1, b[j] \in up, \A k \in j + 1 .. i - 1 : b[k] \notin down
        PROVE  Stands(a, up, down, base, i + 1)
    <3>1. j \in 1 .. L - 1 /\ j + 1 \in 1 .. i
      OBVIOUS
    <3>2. \A k \in j + 1 + 1 .. i : k - 1 \in j + 1 .. i - 1 /\ k - 1 \in 1 .. L - 1
                                    /\ (k - 1) + 1 = k
      OBVIOUS
    <3>3. a[j + 1] \in up /\ \A k \in j + 1 + 1 .. i : a[k] \notin down
      BY <2>2, <3>1, <3>2
    <3> QED BY <2>1, <3>1, <3>3 DEF Stands
  <2>3. ASSUME next, \A k \in 1 .. i - 1 : b[k] \notin down
        PROVE  Stands(a, up, down, base, i + 1)
    <3>1. \A k \in 2 .. i : k - 1 \in 1 .. i - 1 /\ k - 1 \in 1 .. L - 1 /\ (k - 1) + 1 = k
      OBVIOUS
    <3>2. \A k \in 2 .. i : a[k] \notin down
      BY <2>3, <3>1
    <3>3. 1 \in 1 .. i /\ \A k \in 1 .. i : k = 1 \/ k \in 2 .. i
      OBVIOUS
    <3>4. CASE a[1] \in up
      <4>1. 1 + 1 = 2
        OBVIOUS
      <4> QED BY <2>1, <3>2, <3>3, <3>4, <4>1 DEF Stands
    <3>5. CASE base /\ a[1] \notin down
      <4>1. \A k \in 1 .. i : a[k] \notin down
        BY <3>2, <3>3, <3>5
      <4> QED BY <2>1, <3>5, <4>1 DEF Stands
    <3> QED BY <1>2, <2>3, <3>4, <3>5
  <2> QED BY <1>2, <2>2, <2>3 DEF Stands
<1> QED BY <1>1, <1>2

LEMMA MessagesSay ==
    /\ \A e \in Events : e # "own" => Report(e) \in Messages
    /\ \A status \in Statuses : Own(status) \in Messages
    /\ \A e \in Events, c \in Calls : e # "own" => About(e, c) \in Messages
    /\ \A m \in Messages : m.event \in Events /\ (m.event # "own" => m.status = "none")
                           /\ (m.event = "own" => m.status \in Statuses)
    /\ KeyEvents \subseteq Events /\ "own" \notin KeyEvents
<1>1. "none" \notin Statuses
  BY DEF Statuses
<1>2. "own" \notin KeyEvents
  BY KnownKinds DEF KeyEvents
<1> QED BY <1>1, <1>2 DEF Messages, Events, Report, Own, About

\* What the agent reports, and where.
LEMMA Sent ==
    ASSUME QueueInv, NEW m \in Messages, Send(m)
    PROVE  /\ pc = "recv" /\ ~exited /\ QueueInv'
           /\ Ahead \in Nat /\ Ahead' = Ahead + 1 /\ Line'[Ahead + 1] = m
           /\ \A i \in 1 .. Ahead : Line'[i] = Line[i]
           /\ UNCHANGED <<kind, exited, closed, pending, reported, heldWaiting, turnOpen, recovery,
                          scrape, notified, unseenDone, activity, pc, dirty>>
<1>1. /\ chan' = Append(chan, m) /\ pending' = pending
      /\ UNCHANGED <<kind, exited, closed, pending, reported, heldWaiting, turnOpen, recovery,
                     scrape, notified, unseenDone, activity, pc, dirty>>
  BY DEF Send, tabVars, loopVars
<1>2. chan' \in Seq(Messages)
  <2>1. chan \in Seq(Messages)
    BY DEF QueueInv
  <2> QED BY <1>1, <2>1
<1>3. QueueInv'
  BY <1>1, <1>2 DEF QueueInv
<1>4. pc = "recv" /\ ~exited
  BY DEF Send, Waits
<1> QED BY <1>1, <1>3, <1>4, Grown, LineSays

\* What the user types.
LEMMA Typed ==
    ASSUME QueueInv, NEW k \in KeyEvents, Type(k)
    PROVE  /\ pc = "recv" /\ QueueInv'
           /\ Ahead \in Nat /\ Ahead' = Ahead + 1 /\ Line'[Ahead + 1] = Report(k)
           /\ IsKey(Report(k)) /\ Report(k) \in Messages
           /\ \A i \in 1 .. Ahead : Line'[i] = Line[i]
           /\ UNCHANGED <<agentVars, ghosts, closed, pending, reported, heldWaiting, turnOpen,
                          recovery, scrape, notified, unseenDone, activity, pc, dirty>>
<1>1. /\ chan' = Append(chan, Report(k)) /\ pending' = pending
      /\ UNCHANGED <<agentVars, ghosts, closed, pending, reported, heldWaiting, turnOpen, recovery,
                     scrape, notified, unseenDone, activity, pc, dirty>>
  BY DEF Type, tabVars, loopVars
<1>2. Report(k) \in Messages /\ IsKey(Report(k))
  BY MessagesSay DEF Report, IsKey
<1>3. chan' \in Seq(Messages)
  <2>1. chan \in Seq(Messages)
    BY DEF QueueInv
  <2> QED BY <1>1, <1>2, <2>1
<1>4. QueueInv'
  BY <1>1, <1>3 DEF QueueInv, agentVars
<1>5. pc = "recv"
  BY DEF Type, Waits
<1> QED BY <1>1, <1>2, <1>4, <1>5, Grown, LineSays

\* Every report of the agent is one of these.
LEMMA Sendings ==
    ASSUME QueueInv, Agent
    PROVE  \/ \E m \in Messages : Send(m) /\ m.event \notin KeyEvents
           \/ Draw \/ React \/ Exit
           \/ CancelTurn /\ UNCHANGED <<kind, exited, chan, pending, tabVars, loopVars>>
<1>1. /\ \A e \in Events \ (KeyEvents \cup {"own"}) :
           Report(e) \in Messages /\ Report(e).event \notin KeyEvents
      /\ \A e \in Events \ (KeyEvents \cup {"own"}), c \in Calls :
           About(e, c) \in Messages /\ About(e, c).event \notin KeyEvents
      /\ \A status \in Statuses : Own(status) \in Messages /\ Own(status).event \notin KeyEvents
  <2>1. /\ \A e : Report(e).event = e
        /\ \A e, c : About(e, c).event = e
        /\ \A status : Own(status).event = "own"
    BY DEF Report, About, Own
  <2> QED BY <2>1, MessagesSay
<1>2. {"prompt", "stop", "stopIdle", "stopBusy", "cancel", "cancelIdle", "failure", "ask",
       "nudge", "question", "answer", "review"} \subseteq Events \ (KeyEvents \cup {"own"})
  BY KnownKinds DEF Events, KeyEvents
<1> HIDE DEF Events
<1>3. CASE StartTurn
  BY <1>1, <1>2, <1>3 DEF StartTurn
<1>4. CASE EndTurn
  <2>1. \E e \in {"stop", "stopIdle", "stopBusy"} : Send(Report(e))
    <3>1. kind \in {"claude", "codex", "agy"}
      BY KnownKinds DEF QueueInv
    <3> QED BY <1>4, <3>1 DEF EndTurn
  <2> QED BY <1>1, <1>2, <2>1
<1>5. CASE CancelTurn
  <2>1. CASE kind = "claude"
    BY <1>5, <2>1 DEF CancelTurn, loopVars
  <2>2. CASE kind # "claude"
    BY <1>1, <1>2, <1>5, <2>2, Zenon DEF CancelTurn
  <2> QED BY <2>1, <2>2
<1>6. CASE FailTurn \/ Ask \/ Nudge \/ Review
  BY <1>1, <1>2, <1>6 DEF FailTurn, Ask, Nudge, Review
<1>7. CASE \E c \in Calls : Question(c) \/ Answer(c)
  BY <1>1, <1>2, <1>7 DEF Question, Answer
<1>8. CASE \E status \in Tells : Tell(status)
  BY <1>1, <1>8, KnownKinds DEF Tell
<1> QED BY <1>3, <1>4, <1>5, <1>6, <1>7, <1>8 DEF Agent

LEMMA QueueKeeps ==
    ASSUME QueueInv, [Next]_vars
    PROVE  QueueInv'
<1>1. CASE Agent
  <2>1. CASE \E m \in Messages : Send(m)
    BY <2>1, Sent
  <2>2. CASE Draw \/ React \/ Exit
    <3>1. /\ UNCHANGED <<kind, chan, pending, closed, pc, dirty, activity, notified>>
          /\ exited => exited'
      BY <2>2 DEF Draw, React, Exit, tabVars, loopVars
    <3> QED BY <3>1 DEF QueueInv
  <2>3. CASE UNCHANGED <<kind, exited, chan, pending, tabVars, loopVars>>
    BY <2>3 DEF QueueInv, tabVars, loopVars
  <2> QED BY <1>1, <2>1, <2>2, <2>3, Sendings
<1>2. CASE \E k \in KeyEvents : Type(k)
  BY <1>2, Typed
<1>3. CASE Land
  BY <1>3 DEF QueueInv, Land, agentVars
<1>4. CASE Settle
  BY <1>4 DEF QueueInv, Settle, agentVars
<1>5. CASE Serve
  <2>1. /\ pending \in Seq(Messages) /\ pending # <<>> /\ pending' = Tail(pending)
        /\ \A i \in DOMAIN pending : ~IsKey(pending[i])
    BY <1>5 DEF QueueInv, Serve
  <2>2. PICK p : p = pending'
    OBVIOUS
  <2>3. p = Tail(pending)
    BY <2>1, <2>2
  <2>4. p \in Seq(Messages)
    BY <2>1, <2>3
  <2>5. Len(pending) \in Nat \ {0} /\ DOMAIN pending = 1 .. Len(pending)
    BY <2>1
  <2>6. Len(p) = Len(pending) - 1 /\ DOMAIN p = 1 .. Len(pending) - 1
    BY <2>1, <2>3, <2>5
  <2>7. \A i \in 1 .. Len(pending) - 1 : p[i] = pending[i + 1] /\ i + 1 \in 1 .. Len(pending)
    BY <2>1, <2>3, <2>5
  <2>8. \A i \in DOMAIN p : ~IsKey(p[i])
    BY <2>1, <2>5, <2>6, <2>7
  <2>9. Len(pending) = 1 => p = <<>>
    BY <2>4, <2>6
  <2>10. Len(pending) # 1 => p # <<>>
    BY <2>5, <2>6
  <2>11. /\ pc' = IF Len(pending) = 1 THEN "recv" ELSE "serve"
         /\ dirty' = TRUE /\ UNCHANGED <<kind, chan, closed, exited>>
    BY <1>5 DEF Serve, agentVars
  <2> QED BY <2>2, <2>4, <2>8, <2>9, <2>10, <2>11 DEF QueueInv
<1>6. CASE Recv
  <2>1. /\ pending' \in Seq(Messages) /\ chan' \in Seq(Messages)
        /\ \A i \in DOMAIN pending' : ~IsKey(pending'[i])
    BY <1>6, Received
  <2>2. pc' = "land" /\ UNCHANGED <<kind, closed, exited>>
    BY <1>6 DEF Recv
  <2> QED BY <2>1, <2>2 DEF QueueInv
<1>7. CASE Tick
  BY <1>7 DEF QueueInv, Tick, agentVars
<1>8. CASE UNCHANGED vars
  BY <1>8 DEF QueueInv, vars, agentVars, tabVars, loopVars
<1> QED BY <1>1, <1>2, <1>3, <1>4, <1>5, <1>6, <1>7, <1>8 DEF Next

\* Steps that leave the messages where they are.
LEMMA LineStays ==
    ASSUME chan' = chan, pending' = pending
    PROVE  Ahead' = Ahead /\ Line' = Line
BY DEF Ahead, Line

\* Nothing but messages of kept comes behind the i-th.
Behind(line, len, i, kept) == \A j \in i + 1 .. len : line[j] \in kept

LEMMA BehindGrown ==
    ASSUME NEW a, NEW b, NEW L \in Nat, \A i \in 1 .. L : b[i] = a[i], NEW kept
    PROVE  /\ \A i \in 0 .. L :
                Behind(a, L, i, kept) /\ b[L + 1] \in kept => Behind(b, L + 1, i, kept)
           /\ Behind(b, L + 1, L + 1, kept)
<1>1. \A i \in 0 .. L : \A j \in i + 1 .. L + 1 : j = L + 1 \/ (j \in 1 .. L /\ j \in i + 1 .. L)
  OBVIOUS
<1>2. \A j \in L + 1 + 1 .. L + 1 : FALSE
  OBVIOUS
<1> QED BY <1>1, <1>2 DEF Behind

\* b is the line a with its n-th message taken out, and what that does to the i-th.
TakenOut(a, b, len, n) == \A j \in 1 .. len - 1 : b[j] = a[Was(n, j)]

MovesUp(a, b, len, n, i, kept) ==
    /\ Behind(a, len, i, kept) => Behind(b, len - 1, Now(n, i), kept)
    /\ i # 0 => Now(n, i) \in 1 .. len - 1 /\ Was(n, Now(n, i)) = i /\ b[Now(n, i)] = a[i]
    /\ i = 0 => Now(n, i) = 0

LEMMA BehindCut ==
    ASSUME NEW a, NEW b, NEW L \in Nat \ {0}, NEW n \in 1 .. L, TakenOut(a, b, L, n), NEW kept
    PROVE  \A i \in 0 .. L : i # n => MovesUp(a, b, L, n, i, kept)
<1> SUFFICES ASSUME NEW i \in 0 .. L, i # n
             PROVE  /\ Behind(a, L, i, kept) => Behind(b, L - 1, Now(n, i), kept)
                    /\ i # 0 => /\ Now(n, i) \in 1 .. L - 1 /\ Was(n, Now(n, i)) = i
                                /\ b[Now(n, i)] = a[i]
                    /\ i = 0 => Now(n, i) = 0
  BY DEF MovesUp
<1>1. \A j \in Now(n, i) + 1 .. L - 1 : j \in 1 .. L - 1 /\ Was(n, j) \in i + 1 .. L
  BY DEF Now, Was
<1>2. i # 0 => Now(n, i) \in 1 .. L - 1 /\ Was(n, Now(n, i)) = i
  BY DEF Now, Was
<1>3. i = 0 => Now(n, i) = 0
  BY DEF Now
<1> QED BY <1>1, <1>2, <1>3 DEF Behind, TakenOut

LEMMA BehindServed ==
    ASSUME NEW a, NEW b, NEW L \in Nat \ {0}, \A j \in 1 .. L - 1 : b[j] = a[j + 1], NEW kept
    PROVE  /\ \A i \in 1 .. L : Behind(a, L, i, kept) => Behind(b, L - 1, i - 1, kept)
           /\ \A i \in 1 .. L : i # 1 => i - 1 \in 1 .. L - 1 /\ b[i - 1] = a[i] /\ (i - 1) + 1 = i
           /\ Behind(a, L, 0, kept) => a[1] \in kept /\ Behind(b, L - 1, 0, kept)
<1>1. \A i \in 1 .. L : \A j \in i - 1 + 1 .. L - 1 : j \in 1 .. L - 1 /\ j + 1 \in i + 1 .. L
  OBVIOUS
<1>2. \A i \in 1 .. L : i # 1 => i - 1 \in 1 .. L - 1 /\ (i - 1) + 1 = i
  OBVIOUS
<1>3. 1 \in 0 + 1 .. L /\ \A j \in 0 + 1 .. L - 1 : j \in 1 .. L - 1 /\ j + 1 \in 0 + 1 .. L
  OBVIOUS
<1> QED BY <1>1, <1>2, <1>3 DEF Behind

LEMMA BehindLess ==
    ASSUME NEW a, NEW L \in Nat, NEW i \in 0 .. L, NEW kept, NEW more,
           Behind(a, L, i, kept), kept \subseteq more
    PROVE  /\ Behind(a, L, i, more)
           /\ \A j \in i .. L : Behind(a, L, j, kept)
<1>1. \A j \in i .. L : \A k \in j + 1 .. L : k \in i + 1 .. L
  OBVIOUS
<1> QED BY <1>1 DEF Behind

-----------------------------------------------------------------------------
(* What is in force. *)

Says(live, status) == \E r \in live : live = {r} /\ r.status = status

LEMMA BlockedShows ==
    ASSUME NEW live, NEW scraped, Says(live, "blocked")
    PROVE  Effective(live, scraped) = "blocked"
<1>1. PICK r \in live : live = {r} /\ r.status = "blocked"
  BY DEF Says
<1>2. ~Expired(r) /\ ~Yields(r) /\ ~Overrides(live, scraped)
  BY <1>1 DEF Expired, Yields, Overrides
<1>3. Effective(live, scraped) = CHOOSE s \in Statuses : \E q \in live : q.status = s
  BY <1>1, <1>2 DEF Effective
<1>4. "blocked" \in Statuses /\ \A s : (\E q \in live : q.status = s) <=> s = "blocked"
  BY <1>1 DEF Statuses
<1> QED BY <1>3, <1>4

LEMMA TickStill ==
    ASSUME Shape, Tick
    PROVE  /\ \A status : Says(reported, status) => Says(reported', status)
           /\ \A status : Says(reported', status) => Says(reported, status)
           /\ \A status : Says(heldWaiting, status) => Says(heldWaiting', status)
<1>1. /\ reported' = {Aged(r) : r \in reported} /\ heldWaiting' = {Aged(r) : r \in heldWaiting}
      /\ Optional(reported) /\ Optional(heldWaiting)
  BY DEF Tick, Shape
<1>2. \A r \in reported \cup heldWaiting : Aged(r).status = r.status
  BY <1>1, AgedSays DEF Optional
<1>3. ASSUME NEW live, NEW next, NEW status, Optional(live), next = {Aged(r) : r \in live},
             \A r \in live : Aged(r).status = r.status
      PROVE  Says(live, status) <=> Says(next, status)
  BY <1>3 DEF Says, Optional
<1> QED BY <1>1, <1>2, <1>3

\* A block is settled as it is, and shown.
LEMMA SettleBlocks ==
    ASSUME Shape, Settle, ~closed, Says(reported, "blocked")
    PROVE  Says(reported', "blocked") /\ activity' = "blocked"
<1> DEFINE scraped == ScrapeAfter /\ ~closed
           over == Overrides(reported, scraped)
           live == Settled(reported, scraped)
<1>1. reported' = live /\ activity' = Effective(live, scraped)
  BY DEF Settle
<1>2. PICK q : reported = {q} /\ q.status = "blocked" /\ IsReport(q)
  BY DEF Says, Shape, Optional
<1>3. ~over
  BY <1>2 DEF Overrides
<1>4. PICK o : o = Overridden(q, over)
  OBVIOUS
<1>5. o.status = "blocked"
  <2>1. CASE q.overridden
    <3> HIDE DEF over
    <3>1. o = [q EXCEPT !.quiet = 0, !.overridden = over]
      BY <1>4, <2>1 DEF Overridden
    <3> QED BY <1>2, <3>1 DEF IsReport
  <2>2. CASE ~q.overridden
    BY <1>2, <1>3, <1>4, <2>2 DEF Overridden
  <2> QED BY <2>1, <2>2
<1>6. ~Expired(o) /\ ~Yields(o)
  BY <1>5 DEF Expired, Yields
<1>7. live = {o}
  BY <1>2, <1>4, <1>6 DEF Settled
<1>8. Says(live, "blocked")
  BY <1>5, <1>7 DEF Says
<1> QED BY <1>1, <1>8, BlockedShows

\* What the loop shows while it sleeps is what is in force.
LEMMA AsleepSays ==
    ASSUME IInv, QueueInv, Sleeping
    PROVE  /\ Ahead = 0 /\ activity = notified
           /\ ~exited => activity = Effective(reported, scrape) /\ Armed
<1>1. pc = "recv" /\ ~dirty /\ chan = <<>> /\ closed = exited /\ 0 \notin idleIn
  BY DEF Sleeping, Due
<1>2. pending = <<>> /\ activity = notified
  BY <1>1 DEF QueueInv
<1>3. Ahead = 0
  BY <1>1, <1>2 DEF Ahead
<1> QED BY <1>1, <1>2, <1>3 DEF IInv, Settling, Armed

-----------------------------------------------------------------------------
(* Identified questions stay. *)

Recoveries == [calls : SUBSET Calls, overflow : BOOLEAN, other : BOOLEAN]

Asks(c) == {m \in Messages : m.event = "question" /\ m.call = {c}}
Spares(c) ==
    {m \in Messages : \/ IsKey(m) \/ m.event \in {"review", "question"}
                      \/ m.event = "answer" /\ c \notin m.call
                      \/ m.event = "own" /\ m.status = "blocked"}

\* A question that has no answer is on its way, or is kept and holds the block;
\* no report that ends it comes behind it.
Unanswered(c) ==
    \/ \E i \in 1 .. Ahead : Line[i] \in Asks(c) /\ Behind(Line, Ahead, i, Spares(c))
    \/ /\ c \in recovery.calls \/ recovery.overflow
       /\ Says(reported, "blocked")
       /\ Behind(Line, Ahead, 0, Spares(c))

QuestionInv ==
    /\ recovery \in Recoveries
    /\ open # {} => kind = "codex" /\ ~exited /\ \A c \in open : Unanswered(c)

LEMMA UnansweredGrown ==
    ASSUME NEW c, NEW m \in Spares(c), Unanswered(c), Ahead \in Nat,
           Ahead' = Ahead + 1, Line'[Ahead + 1] = m, \A i \in 1 .. Ahead : Line'[i] = Line[i],
           UNCHANGED <<recovery, reported>>
    PROVE  Unanswered(c)'
<1>1. PICK a, b, L : a = Line /\ b = Line' /\ L = Ahead
  OBVIOUS
<1>2. \A i \in 0 .. L :
        Behind(a, L, i, Spares(c)) /\ b[L + 1] \in Spares(c) => Behind(b, L + 1, i, Spares(c))
  BY <1>1, BehindGrown
<1>3. b[L + 1] \in Spares(c) /\ L \in Nat
  BY <1>1
<1>4. CASE \E i \in 1 .. L : a[i] \in Asks(c) /\ Behind(a, L, i, Spares(c))
  <2>1. PICK i \in 1 .. L : a[i] \in Asks(c) /\ Behind(a, L, i, Spares(c))
    BY <1>4
  <2>2. i \in 0 .. L /\ i \in 1 .. L + 1 /\ b[i] \in Asks(c)
    BY <1>1, <1>3, <2>1
  <2>3. Behind(b, L + 1, i, Spares(c))
    BY <1>2, <1>3, <2>1, <2>2
  <2> QED BY <1>1, <2>2, <2>3 DEF Unanswered
<1>5. CASE Behind(a, L, 0, Spares(c)) /\ (c \in recovery.calls \/ recovery.overflow)
           /\ Says(reported, "blocked")
  <2>1. 0 \in 0 .. L
    BY <1>3
  <2>2. Behind(b, L + 1, 0, Spares(c))
    BY <1>2, <1>3, <1>5, <2>1
  <2> QED BY <1>1, <1>5, <2>2 DEF Unanswered, Says
<1> QED BY <1>1, <1>4, <1>5 DEF Unanswered

\* A key is taken out, and the block that is kept is not its to settle.
LEMMA UnansweredCut ==
    ASSUME QueueInv, NEW c, Unanswered(c), NEW n \in 1 .. Ahead, IsKey(Line[n]),
           Ahead' = Ahead - 1, \A j \in 1 .. Ahead - 1 : Line'[j] = Line[Was(n, j)],
           Dispatch(Line[n].event)
    PROVE  Unanswered(c)'
<1>1. PICK a, b, L : a = Line /\ b = Line' /\ L = Ahead
  OBVIOUS
<1>2. L \in Nat \ {0} /\ n \in 1 .. L /\ L = Ahead /\ Ahead' = L - 1
  BY <1>1, LineSays
<1>3. \A i \in 0 .. L : i # n =>
        /\ Behind(a, L, i, Spares(c)) => Behind(b, L - 1, Now(n, i), Spares(c))
        /\ i # 0 => Now(n, i) \in 1 .. L - 1 /\ b[Now(n, i)] = a[i]
        /\ i = 0 => Now(n, i) = 0
  <2>1. \A j \in 1 .. L - 1 : b[j] = a[Was(n, j)]
    BY <1>1
  <2>2. L \in Nat \ {0} /\ n \in 1 .. L
    BY <1>2
  <2>3. PICK kept : kept = Spares(c)
    OBVIOUS
  <2>4. \A i \in 0 .. L : i # n =>
        /\ Behind(a, L, i, kept) => Behind(b, L - 1, Now(n, i), kept)
        /\ i # 0 => Now(n, i) \in 1 .. L - 1 /\ Was(n, Now(n, i)) = i /\ b[Now(n, i)] = a[i]
        /\ i = 0 => Now(n, i) = 0
    <3>1. TakenOut(a, b, L, n)
      BY <2>1 DEF TakenOut
    <3>2. \A i \in 0 .. L : i # n => MovesUp(a, b, L, n, i, kept)
      BY <2>2, <3>1, BehindCut
    <3> QED BY <3>2 DEF MovesUp
  <2> QED BY <2>3, <2>4
<1>4. CASE \E i \in 1 .. L : a[i] \in Asks(c) /\ Behind(a, L, i, Spares(c))
  <2>1. PICK i \in 1 .. L : a[i] \in Asks(c) /\ Behind(a, L, i, Spares(c))
    BY <1>4
  <2>2. i # n
    BY <1>1, <2>1, KnownKinds DEF Asks, IsKey, KeyEvents
  <2>3. i \in 0 .. L /\ i # 0
    BY <1>2, <2>1
  <2>4. /\ Behind(b, L - 1, Now(n, i), Spares(c))
        /\ Now(n, i) \in 1 .. L - 1 /\ b[Now(n, i)] \in Asks(c)
    BY <1>3, <2>1, <2>2, <2>3
  <2> QED BY <1>1, <1>2, <2>4 DEF Unanswered
<1>5. CASE Behind(a, L, 0, Spares(c)) /\ (c \in recovery.calls \/ recovery.overflow)
           /\ Says(reported, "blocked")
  <2>1. 0 \in 0 .. L /\ 0 # n
    BY <1>2
  <2>2. Behind(b, L - 1, 0, Spares(c))
    BY <1>3, <1>5, <2>1
  <2>3. QuestionWaiting
    BY <1>5 DEF QuestionWaiting
  <2>4. recovery' = recovery /\ Says(reported, "blocked")'
    <3>1. PICK r \in reported : reported = {r} /\ r.status = "blocked"
      BY <1>5 DEF Says
    <3>2. \A esc : LeftByKey(esc) = reported
      BY <2>3, <3>1 DEF LeftByKey
    <3>3. reported' = reported /\ recovery' = recovery
      BY <2>3, <3>2 DEF Dispatch, Press
    <3> QED BY <1>5, <3>3 DEF Says
  <2> QED BY <1>1, <1>2, <1>5, <2>2, <2>4 DEF Unanswered
<1> QED BY <1>1, <1>4, <1>5 DEF Unanswered

\* What serving a report does to codex's questions.
LEMMA RecoveredSays ==
    ASSUME recovery \in Recoveries, NEW m \in Messages
    PROVE  /\ Recovered(m) \in Recoveries
           /\ \A c : m \in Asks(c) => c \in Recovered(m).calls \/ Recovered(m).overflow
           /\ \A c : m \in Spares(c) /\ ~IsKey(m) /\ (c \in recovery.calls \/ recovery.overflow) =>
                       c \in Recovered(m).calls \/ Recovered(m).overflow
<1>1. m.call \subseteq Calls
  BY DEF Messages
<1>2. CASE m.event = "review"
  BY <1>2 DEF Recovered, Asks
<1>3. CASE m.event = "question"
  <2> DEFINE fits == m.call \subseteq recovery.calls
                       \/ Cardinality(recovery.calls) < PendingLimit
  <2>1. Recovered(m) = [calls |-> IF fits THEN recovery.calls \cup m.call ELSE recovery.calls,
                        overflow |-> recovery.overflow \/ ~fits,
                        other |-> recovery.other /\ QuestionWaiting]
    BY <1>3 DEF Recovered
  <2> HIDE DEF fits
  <2>2. Recovered(m) \in Recoveries
    BY <1>1, <2>1 DEF Recoveries
  <2>3. /\ \A c : m \in Asks(c) => c \in Recovered(m).calls \/ Recovered(m).overflow
        /\ \A c \in recovery.calls : c \in Recovered(m).calls
        /\ recovery.overflow => Recovered(m).overflow
    <3>1. recovery.overflow \in BOOLEAN /\ Recovered(m).overflow = (recovery.overflow \/ ~fits)
      BY <2>1 DEF Recoveries
    <3>2. Recovered(m).calls = IF fits THEN recovery.calls \cup m.call ELSE recovery.calls
      BY <2>1
    <3>3. CASE fits
      BY <3>1, <3>2, <3>3 DEF Asks
    <3>4. CASE ~fits
      BY <3>1, <3>2, <3>4
    <3> QED BY <3>3, <3>4
  <2> QED BY <2>2, <2>3
<1>4. CASE m.event = "answer"
  <2>1. Recovered(m) = [recovery EXCEPT !.calls = recovery.calls \ m.call]
    BY <1>4 DEF Recovered
  <2>2. /\ Recovered(m) \in Recoveries /\ Recovered(m).calls = recovery.calls \ m.call
        /\ Recovered(m).overflow = recovery.overflow
    BY <2>1 DEF Recoveries
  <2> QED BY <1>4, <2>2, KnownKinds DEF Asks, Spares, IsKey, KeyEvents
<1>5. CASE m.event \notin {"review", "question", "answer"}
  <2>1. CASE Status(m) = "blocked"
    <3>1. Recovered(m) = [recovery EXCEPT !.other = TRUE]
      BY <1>5, <2>1 DEF Recovered
    <3>2. /\ Recovered(m) \in Recoveries /\ Recovered(m).calls = recovery.calls
          /\ Recovered(m).overflow = recovery.overflow
      BY <3>1 DEF Recoveries
    <3> QED BY <1>5, <3>2 DEF Asks
  <2>2. CASE Status(m) # "blocked"
    <3>1. Recovered(m) = NoQuestions
      BY <1>5, <2>2 DEF Recovered
    <3>2. \A c : m \in Spares(c) => IsKey(m)
      BY <1>5, <2>2 DEF Spares, Status
    <3> QED BY <1>5, <3>1, <3>2 DEF Asks, NoQuestions, Recoveries
  <2> QED BY <2>1, <2>2
<1> QED BY <1>2, <1>3, <1>4, <1>5

\* A report that asks is put in force.
Asking == {m \in Messages : \/ m.event \in {"ask", "failure", "question"}
                            \/ m.event = "own" /\ m.status = "blocked"}

LEMMA AskingApplies ==
    ASSUME NEW m \in Asking, Apply(m)
    PROVE  Says(reported', "blocked")
<1>1. Status(m) = "blocked"
  BY DEF Asking, Status
<1>2. \A live : Meet(live, m) = "apply"
  BY <1>1 DEF Meet
<1>3. LetsThrough(m)
  BY DEF Asking, LetsThrough
<1>4. ~HoldsForTurnEnd(m)
  BY <1>1 DEF HoldsForTurnEnd
<1>5. reported' = {NewReport("blocked")}
  BY <1>1, <1>2, <1>3, <1>4 DEF Apply
<1>6. NewReport("blocked").status = "blocked"
  BY DEF NewReport
<1> QED BY <1>5, <1>6 DEF Says

\* What leaves a question open leaves the block it holds.
LEMMA SparesBlock ==
    ASSUME NEW c, NEW m \in Spares(c), ~IsKey(m), Apply(m), kind = "codex",
           recovery \in Recoveries,
           c \in recovery.calls \/ recovery.overflow, Says(reported, "blocked")
    PROVE  Says(reported', "blocked")
<1>1. CASE m.event = "question" \/ m.event = "own"
  <2>1. m \in Asking
    BY <1>1 DEF Spares, Asking, IsKey, KeyEvents
  <2> QED BY <2>1, AskingApplies
<1>2. CASE m.event \in {"review", "answer"}
  <2>1. ~LetsThrough(m)
    <3>1. CASE m.event = "answer"
      <4>1. c \notin m.call
        BY <3>1, KnownKinds DEF Spares, IsKey, KeyEvents
      <4> QED BY <3>1, <4>1 DEF LetsThrough
    <3> QED BY <1>2, <3>1 DEF LetsThrough
  <2>2. /\ FromHook(m) /\ Status(m) \in {"blocked", "working"}
        /\ (m.event = "answer" => Status(m) = "working")
        /\ (m.event = "review" => Status(m) = "blocked")
    BY <1>2 DEF FromHook, Status
  <2>3. ~(turnOpen /\ ~TurnOpenAfter(m))
    BY <1>2, <2>2 DEF TurnOpenAfter
  <2>4. \A live : Meet(live, m) = "apply"
    BY <2>2 DEF Meet
  <2>5. ~HoldsForTurnEnd(m)
    BY <2>2 DEF HoldsForTurnEnd
  <2>6. reported' = reported
    BY <2>1, <2>3, <2>4, <2>5 DEF Apply
  <2> QED BY <2>6 DEF Says
<1> QED BY <1>1, <1>2 DEF Spares

LEMMA UnansweredServed ==
    ASSUME QueueInv, QuestionInv, Serve, NEW c, Unanswered(c), kind = "codex", ~closed
    PROVE  Unanswered(c)'
<1>1. PICK a, b, L, m : a = Line /\ b = Line' /\ L = Ahead /\ m = Line[1]
  OBVIOUS
<1>2. L \in Nat \ {0} /\ Ahead' = L - 1 /\ m = Head(pending) /\ ~IsKey(m)
  BY <1>1, Served
<1>3. m \in Messages
  <2>1. Ahead \in Nat \ {0}
    BY Served
  <2>2. 1 \in 1 .. Ahead
    BY <2>1
  <2> QED BY <1>1, <2>2, LineSays
<1>4. Apply(m) /\ recovery' = Recovered(m)
  <2>1. Apply(m)
    BY <1>2 DEF Serve
  <2> QED BY <2>1 DEF Apply
<1>5. PICK kept : kept = Spares(c)
  OBVIOUS
<1>6. /\ \A i \in 1 .. L : Behind(a, L, i, kept) => Behind(b, L - 1, i - 1, kept)
      /\ \A i \in 1 .. L : i # 1 => i - 1 \in 1 .. L - 1 /\ b[i - 1] = a[i]
      /\ Behind(a, L, 0, kept) => a[1] \in kept /\ Behind(b, L - 1, 0, kept)
  <2>1. \A j \in 1 .. L - 1 : b[j] = a[j + 1]
    BY <1>1, Served
  <2>2. L \in Nat \ {0}
    BY <1>2
  <2>3. \A i \in 1 .. L : Behind(a, L, i, kept) => Behind(b, L - 1, i - 1, kept)
    BY <2>1, <2>2, BehindServed
  <2>4. \A i \in 1 .. L : i # 1 => i - 1 \in 1 .. L - 1 /\ b[i - 1] = a[i]
    BY <2>1, <2>2, BehindServed
  <2>5. Behind(a, L, 0, kept) => a[1] \in kept /\ Behind(b, L - 1, 0, kept)
    BY <2>1, <2>2, BehindServed
  <2> QED BY <2>3, <2>4, <2>5
<1>7. CASE \E i \in 1 .. L : a[i] \in Asks(c) /\ Behind(a, L, i, kept)
  <2>1. PICK i \in 1 .. L : a[i] \in Asks(c) /\ Behind(a, L, i, kept)
    BY <1>7
  <2>2. CASE i = 1
    <3>1. m \in Asks(c) /\ Behind(b, L - 1, 0, kept)
      <4>1. 1 - 1 = 0
        OBVIOUS
      <4> QED BY <1>1, <1>6, <2>1, <2>2, <4>1
    <3>2. m \in Asking
      BY <3>1 DEF Asks, Asking
    <3>3. Says(reported', "blocked")
      BY <1>4, <3>2, AskingApplies
    <3>4. c \in recovery'.calls \/ recovery'.overflow
      BY <1>3, <1>4, <3>1, RecoveredSays DEF QuestionInv
    <3> QED BY <1>1, <1>2, <1>5, <3>1, <3>3, <3>4 DEF Unanswered, Says
  <2>3. CASE i # 1
    <3>1. i - 1 \in 1 .. L - 1 /\ b[i - 1] \in Asks(c) /\ Behind(b, L - 1, i - 1, kept)
      BY <1>6, <2>1, <2>3
    <3> QED BY <1>1, <1>2, <1>5, <3>1 DEF Unanswered
  <2> QED BY <2>2, <2>3
<1>8. CASE Behind(a, L, 0, kept) /\ (c \in recovery.calls \/ recovery.overflow)
           /\ Says(reported, "blocked")
  <2>1. m \in Spares(c) /\ Behind(b, L - 1, 0, kept)
    BY <1>1, <1>5, <1>6, <1>8
  <2>2. Says(reported', "blocked")
    BY <1>2, <1>4, <1>8, <2>1, SparesBlock DEF QuestionInv
  <2>3. c \in recovery'.calls \/ recovery'.overflow
    BY <1>2, <1>3, <1>4, <1>8, <2>1, RecoveredSays DEF QuestionInv
  <2> QED BY <1>1, <1>2, <1>5, <2>1, <2>2, <2>3 DEF Unanswered, Says
<1> QED BY <1>1, <1>5, <1>7, <1>8 DEF Unanswered

\* The agent asks, answers, ends its turn or says something else.
LEMMA AgentQuestions ==
    ASSUME QueueInv, QuestionInv, Agent
    PROVE  QuestionInv'
<1>1. ASSUME NEW m \in Messages, Send(m)
      PROVE  /\ UNCHANGED <<recovery, reported, kind, exited>> /\ ~exited
             /\ \A c : Unanswered(c) /\ m \in Spares(c) => Unanswered(c)'
             /\ \A c : m \in Asks(c) => Unanswered(c)'
  <2>1. /\ Ahead \in Nat /\ Ahead' = Ahead + 1 /\ Line'[Ahead + 1] = m
        /\ \A i \in 1 .. Ahead : Line'[i] = Line[i]
        /\ UNCHANGED <<recovery, reported, kind, exited>> /\ ~exited
    BY <1>1, Sent
  <2>2. \A c : Unanswered(c) /\ m \in Spares(c) => Unanswered(c)'
    BY <2>1, UnansweredGrown
  <2>3. ASSUME NEW c, m \in Asks(c) PROVE Unanswered(c)'
    <3>1. Ahead + 1 \in 1 .. Ahead + 1 /\ \A j \in Ahead + 1 + 1 .. Ahead + 1 : FALSE
      BY <2>1
    <3> QED BY <2>1, <2>3, <3>1 DEF Unanswered, Behind
  <2> QED BY <2>1, <2>2, <2>3
<1>2. ASSUME open' = {}, recovery' = recovery
      PROVE  QuestionInv'
  BY <1>2 DEF QuestionInv
<1>3. ASSUME UNCHANGED <<recovery, kind, open, exited>>, open = {}
      PROVE  QuestionInv'
  BY <1>3 DEF QuestionInv
<1>4. ASSUME NEW m \in Messages, Send(m), open' \subseteq open,
             \A c \in open' : m \in Spares(c)
      PROVE  QuestionInv'
  BY <1>1, <1>4 DEF QuestionInv
<1>5. \A e \in Events \ {"own"} : Report(e) \in Messages /\ Report(e).event = e
  BY MessagesSay DEF Report
<1>6. {"prompt", "failure", "ask", "nudge", "review"} \subseteq Events \ {"own"}
  BY DEF Events
<1>7. CASE StartTurn \/ EndTurn \/ CancelTurn
  <2>1. open' = {}
    BY <1>7 DEF StartTurn, EndTurn, CancelTurn
  <2>2. recovery' = recovery
    <3>1. CASE \E m \in Messages : Send(m)
      BY <1>1, <3>1
    <3>2. CASE UNCHANGED tabVars
      BY <3>2 DEF tabVars
    <3>3. CASE Draw \/ React \/ Exit
      BY <3>3 DEF Draw, React, Exit, tabVars
    <3> QED BY <3>1, <3>2, <3>3, Sendings
  <2> QED BY <1>2, <2>1, <2>2
<1>8. CASE FailTurn \/ Ask \/ Nudge
  <2>1. PICK e \in {"failure", "ask", "nudge"} : Send(Report(e))
    BY <1>8 DEF FailTurn, Ask, Nudge
  <2>2. Report(e) \in Messages
    BY <1>5, <1>6, <2>1
  <2>3. kind # "codex" /\ open' = open
    BY <1>8 DEF FailTurn, Ask, Nudge
  <2>4. open = {}
    BY <2>3 DEF QuestionInv
  <2> QED BY <1>1, <1>3, <2>1, <2>2, <2>3, <2>4
<1>9. CASE Review
  <2>1. Send(Report("review")) /\ open' = open
    BY <1>9 DEF Review
  <2>2. Report("review") \in Messages /\ \A c : Report("review") \in Spares(c)
    BY <1>5, <1>6 DEF Spares
  <2> QED BY <1>4, <2>1, <2>2
<1>10. ASSUME NEW c \in Calls, Question(c)
       PROVE  QuestionInv'
  <2>1. PICK m : m = About("question", c)
    OBVIOUS
  <2>2. Send(m) /\ open' = open \cup {c} /\ kind = "codex"
    BY <1>10, <2>1 DEF Question
  <2>3. m \in Messages /\ m.event = "question" /\ m.call = {c}
    BY <2>1, MessagesSay DEF About, Events
  <2>4. m \in Asks(c) /\ \A d : m \in Spares(d)
    BY <2>3 DEF Asks, Spares
  <2> QED BY <1>1, <2>2, <2>3, <2>4 DEF QuestionInv
<1>11. ASSUME NEW c \in Calls, Answer(c)
       PROVE  QuestionInv'
  <2>1. PICK m : m = About("answer", c)
    OBVIOUS
  <2>2. Send(m) /\ open' = open \ {c}
    BY <1>11, <2>1 DEF Answer
  <2>3. m \in Messages /\ m.event = "answer" /\ m.call = {c}
    BY <2>1, MessagesSay DEF About, Events
  <2>4. \A d \in open' : m \in Spares(d)
    BY <2>2, <2>3 DEF Spares
  <2> QED BY <1>4, <2>2, <2>3, <2>4
<1>12. ASSUME NEW status \in Tells, Tell(status)
       PROVE  QuestionInv'
  <2>1. PICK m : m = Own(status)
    OBVIOUS
  <2>2. Send(m) /\ open' = IF status = "blocked" THEN open ELSE {}
    BY <1>12, <2>1 DEF Tell
  <2>3. m \in Messages /\ m.event = "own" /\ m.status = status
    BY <2>1, MessagesSay, KnownKinds DEF Own
  <2>4. \A d \in open' : m \in Spares(d)
    BY <2>2, <2>3 DEF Spares
  <2> QED BY <1>4, <2>2, <2>3, <2>4
<1>13. CASE Draw \/ React
  <2>1. UNCHANGED <<chan, pending, recovery, reported, kind, open, exited>>
    BY <1>13 DEF Draw, React, tabVars, loopVars
  <2>2. Ahead' = Ahead /\ Line' = Line
    BY <2>1, LineStays
  <2>3. \A c : Unanswered(c) => Unanswered(c)'
    BY <2>1, <2>2 DEF Unanswered, Says
  <2> QED BY <2>1, <2>3 DEF QuestionInv
<1>14. CASE Exit
  BY <1>2, <1>14 DEF Exit, tabVars
<1> QED BY <1>7, <1>8, <1>9, <1>10, <1>11, <1>12, <1>13, <1>14 DEF Agent

LEMMA QuestionsKept ==
    ASSUME IInv, QueueInv, QuestionInv, [Next]_vars
    PROVE  QuestionInv'
<1>1. CASE Agent
  BY <1>1, AgentQuestions
<1>2. ASSUME NEW k \in KeyEvents, Type(k)
      PROVE  QuestionInv'
  <2>1. /\ Ahead \in Nat /\ Ahead' = Ahead + 1 /\ Line'[Ahead + 1] = Report(k)
        /\ \A i \in 1 .. Ahead : Line'[i] = Line[i]
        /\ IsKey(Report(k)) /\ Report(k) \in Messages
        /\ UNCHANGED <<recovery, reported, kind, open, exited>>
    BY <1>2, Typed DEF agentVars
  <2>2. \A c : Report(k) \in Spares(c)
    BY <2>1 DEF Spares
  <2>3. \A c : Unanswered(c) => Unanswered(c)'
    BY <2>1, <2>2, UnansweredGrown
  <2> QED BY <2>1, <2>3 DEF QuestionInv
<1>3. ASSUME UNCHANGED <<chan, pending, recovery, kind, open, exited>>,
             Says(reported, "blocked") /\ open # {} => Says(reported', "blocked")
      PROVE  QuestionInv'
  <2>1. Ahead' = Ahead /\ Line' = Line
    BY <1>3, LineStays
  <2>2. \A c : Unanswered(c) /\ open # {} => Unanswered(c)'
    BY <1>3, <2>1 DEF Unanswered, Says
  <2> QED BY <1>3, <2>2 DEF QuestionInv
<1>4. CASE Land
  BY <1>3, <1>4 DEF Land, agentVars, Says
<1>5. CASE Settle
  <2>1. UNCHANGED <<chan, pending, kind, open, exited>>
        /\ recovery' = IF closed THEN NoQuestions ELSE recovery
    BY <1>5 DEF Settle, agentVars
  <2>2. CASE closed
    <3>1. open = {} /\ NoQuestions \in Recoveries
      BY <2>2 DEF QueueInv, QuestionInv, NoQuestions, Recoveries
    <3> QED BY <2>1, <2>2, <3>1 DEF QuestionInv
  <2>3. CASE ~closed
    BY <1>3, <1>5, <2>1, <2>3, SettleBlocks DEF IInv
  <2> QED BY <2>2, <2>3
<1>6. CASE Serve
  <2>1. UNCHANGED <<kind, open, exited, closed>>
    BY <1>6 DEF Serve, agentVars
  <2>2. recovery' \in Recoveries
    <3>1. CASE closed
      BY <1>6, <3>1 DEF Serve, QuestionInv
    <3>2. CASE ~closed
      <4>1. PICK m : m = Head(pending)
        OBVIOUS
      <4>2. m \in Messages
        BY <1>6, <4>1, Served, LineSays
      <4>3. recovery' = IF kind = "codex" THEN Recovered(m) ELSE recovery
        BY <1>6, <3>2, <4>1 DEF Serve, Apply
      <4> QED BY <4>2, <4>3, RecoveredSays DEF QuestionInv
    <3> QED BY <3>1, <3>2
  <2>3. ASSUME NEW c \in open PROVE Unanswered(c)'
    <3>1. kind = "codex" /\ ~closed /\ Unanswered(c)
      BY <2>3 DEF QuestionInv, QueueInv
    <3> QED BY <1>6, <3>1, UnansweredServed
  <2> QED BY <2>1, <2>2, <2>3 DEF QuestionInv
<1>7. CASE Recv
  <2>1. UNCHANGED <<kind, open, exited>>
    BY <1>7 DEF Recv
  <2>2. CASE /\ Ahead' = Ahead /\ \A i \in 1 .. Ahead : Line'[i] = Line[i]
             /\ UNCHANGED <<reported, recovery>>
    <3>1. Ahead \in Nat
      BY LineSays
    <3>2. \A c : Unanswered(c) => Unanswered(c)'
      <4>1. \A i \in 0 .. Ahead : \A j \in i + 1 .. Ahead : j \in 1 .. Ahead
        BY <3>1
      <4>2. 0 \in 0 .. Ahead /\ \A i \in 1 .. Ahead : i \in 0 .. Ahead
        BY <3>1
      <4> QED BY <2>2, <4>1, <4>2 DEF Unanswered, Behind, Says
    <3> QED BY <2>1, <2>2, <3>2 DEF QuestionInv
  <2>3. ASSUME NEW n \in 1 .. Ahead, IsKey(Line[n]), Ahead' = Ahead - 1,
               \A j \in 1 .. Ahead - 1 : Line'[j] = Line[Was(n, j)], Dispatch(Line[n].event)
        PROVE  QuestionInv'
    <3>1. \A c : Unanswered(c) => Unanswered(c)'
      BY <2>3, UnansweredCut
    <3>2. recovery' \in Recoveries
      <4>1. recovery' = recovery \/ recovery' = NoQuestions
        BY <2>3 DEF Dispatch, Press
      <4>2. NoQuestions \in Recoveries
        BY DEF NoQuestions, Recoveries
      <4> QED BY <4>1, <4>2 DEF QuestionInv
    <3> QED BY <2>1, <3>1, <3>2 DEF QuestionInv
  <2> QED BY <1>7, <2>2, <2>3, Received
<1>8. CASE Tick
  BY <1>3, <1>8, TickStill DEF Tick, agentVars, IInv
<1>9. CASE UNCHANGED vars
  BY <1>3, <1>9 DEF vars, agentVars, tabVars, loopVars, Says
<1> QED BY <1>1, <1>2, <1>4, <1>5, <1>6, <1>7, <1>8, <1>9 DEF Next

\* What is ahead of the loop is always messages it can serve.
LEMMA Queued == Spec => []QueueInv
<1>1. Init => QueueInv
  BY DEF Init, QueueInv, IsKey
<1> QED BY <1>1, QueueKeeps, PTL DEF Spec

\* The dot stays blocked for as long as an identified question has no answer,
\* whatever the user types, whichever others are answered and however many the
\* tab cannot keep apart (CodexRecovery, clear_blocked_for_input): a question that
\* is open is in the queue or kept, and nothing behind it lets another report
\* move the dot.
THEOREM QuestionsNeverDrop == Spec => []QuestionsStay
<1>1. Init => QuestionInv
  BY DEF Init, QuestionInv, NoQuestions, Recoveries
<1>2. Spec => []QuestionInv
  BY <1>1, QuestionsKept, Queued, DeadlineArmed, PTL DEF Spec
<1>3. IInv /\ QueueInv /\ QuestionInv => QuestionsStay
  <2> SUFFICES ASSUME IInv, QueueInv, QuestionInv, Sleeping, open # {}
               PROVE  activity = "blocked"
    BY DEF QuestionsStay
  <2>1. PICK c \in open : Unanswered(c)
    BY DEF QuestionInv
  <2>2. Ahead = 0 /\ ~exited /\ activity = Effective(reported, scrape)
    BY AsleepSays DEF QuestionInv
  <2>3. Says(reported, "blocked")
    BY <2>1, <2>2 DEF Unanswered
  <2> QED BY <2>2, <2>3, BlockedShows
<1> QED BY <1>2, <1>3, Queued, DeadlineArmed, PTL

-----------------------------------------------------------------------------
(* Every ask is rung. *)

Beside == {m \in Messages : IsKey(m) \/ m.event = "review"}

\* An ask that nothing was rung for found the agent not blocked, and is on its
\* way or in force.
Coming ==
    \/ \E i \in 1 .. Ahead : Line[i] \in Asking /\ Behind(Line, Ahead, i, Beside)
    \/ Says(reported, "blocked") /\ Behind(Line, Ahead, 0, Beside)
RungInv == unrung => ~exited /\ notified # "blocked" /\ Coming

LEMMA ComingGrown ==
    ASSUME NEW m \in Messages, Ahead \in Nat,
           Ahead' = Ahead + 1, Line'[Ahead + 1] = m, \A i \in 1 .. Ahead : Line'[i] = Line[i],
           reported' = reported
    PROVE  /\ Coming /\ m \in Beside => Coming'
           /\ m \in Asking => Coming'
<1>1. PICK a, b, L : a = Line /\ b = Line' /\ L = Ahead
  OBVIOUS
<1>2. /\ \A i \in 0 .. L : Behind(a, L, i, Beside) /\ b[L + 1] \in Beside => Behind(b, L + 1, i, Beside)
      /\ Behind(b, L + 1, L + 1, Beside)
  BY <1>1, BehindGrown
<1>3. b[L + 1] = m /\ L \in Nat /\ \A i \in 1 .. L : b[i] = a[i]
  BY <1>1
<1>4. CASE m \in Asking
  <2>1. L + 1 \in 1 .. L + 1
    BY <1>3
  <2> QED BY <1>1, <1>2, <1>3, <1>4, <2>1 DEF Coming
<1>5. ASSUME m \in Beside, NEW i \in 1 .. L, a[i] \in Asking, Behind(a, L, i, Beside)
      PROVE  Coming'
  <2>1. i \in 0 .. L /\ i \in 1 .. L + 1
    BY <1>3
  <2>2. b[i] \in Asking /\ Behind(b, L + 1, i, Beside)
    BY <1>2, <1>3, <1>5, <2>1
  <2> QED BY <1>1, <2>1, <2>2 DEF Coming
<1>6. ASSUME m \in Beside, Says(reported, "blocked"), Behind(a, L, 0, Beside)
      PROVE  Coming'
  <2>1. 0 \in 0 .. L
    BY <1>3
  <2>2. Behind(b, L + 1, 0, Beside)
    BY <1>2, <1>3, <1>6, <2>1
  <2> QED BY <1>1, <1>6, <2>2 DEF Coming, Says
<1> QED BY <1>1, <1>4, <1>5, <1>6 DEF Coming

\* A review beside the ask does not move the dot, or asks itself.
LEMMA BesideBlock ==
    ASSUME NEW m \in Beside, ~IsKey(m), Apply(m), Says(reported, "blocked")
    PROVE  Says(reported', "blocked")
<1>1. m.event = "review"
  BY DEF Beside
<1>2. Status(m) = "blocked" /\ FromHook(m)
  BY <1>1 DEF Status, FromHook
<1>3. ~(turnOpen /\ ~TurnOpenAfter(m))
  BY <1>1, <1>2 DEF TurnOpenAfter
<1>4. \A live : Meet(live, m) = "apply"
  BY <1>2 DEF Meet
<1>5. ~HoldsForTurnEnd(m)
  BY <1>2 DEF HoldsForTurnEnd
<1>6. reported' = reported \/ reported' = {NewReport("blocked")}
  BY <1>2, <1>3, <1>4, <1>5 DEF Apply
<1>7. NewReport("blocked").status = "blocked"
  BY DEF NewReport
<1> QED BY <1>6, <1>7 DEF Says

LEMMA ComingServed ==
    ASSUME QueueInv, Serve, Coming, ~closed
    PROVE  Coming'
<1>1. PICK a, b, L, m : a = Line /\ b = Line' /\ L = Ahead /\ m = Line[1]
  OBVIOUS
<1>2. L \in Nat \ {0} /\ Ahead' = L - 1 /\ m = Head(pending) /\ ~IsKey(m)
  BY <1>1, Served
<1>3. Apply(m)
  BY <1>2 DEF Serve
<1>4. /\ \A i \in 1 .. L : Behind(a, L, i, Beside) => Behind(b, L - 1, i - 1, Beside)
      /\ \A i \in 1 .. L : i # 1 => i - 1 \in 1 .. L - 1 /\ b[i - 1] = a[i]
      /\ Behind(a, L, 0, Beside) => a[1] \in Beside /\ Behind(b, L - 1, 0, Beside)
  <2>1. \A j \in 1 .. L - 1 : b[j] = a[j + 1]
    BY <1>1, Served
  <2>2. L \in Nat \ {0}
    BY <1>2
  <2>3. \A i \in 1 .. L : Behind(a, L, i, Beside) => Behind(b, L - 1, i - 1, Beside)
    BY <2>1, <2>2, BehindServed
  <2>4. \A i \in 1 .. L : i # 1 => i - 1 \in 1 .. L - 1 /\ b[i - 1] = a[i]
    BY <2>1, <2>2, BehindServed
  <2>5. Behind(a, L, 0, Beside) => a[1] \in Beside /\ Behind(b, L - 1, 0, Beside)
    BY <2>1, <2>2, BehindServed
  <2> QED BY <2>3, <2>4, <2>5
<1>5. ASSUME NEW i \in 1 .. L, a[i] \in Asking, Behind(a, L, i, Beside)
      PROVE  Coming'
  <2>1. CASE i = 1
    <3>1. 1 - 1 = 0
      OBVIOUS
    <3>2. Behind(b, L - 1, 0, Beside) /\ m \in Asking
      BY <1>1, <1>4, <1>5, <2>1, <3>1
    <3>3. Says(reported', "blocked")
      BY <1>3, <3>2, AskingApplies
    <3> QED BY <1>1, <1>2, <3>2, <3>3 DEF Coming, Says
  <2>2. CASE i # 1
    <3>1. i - 1 \in 1 .. L - 1 /\ b[i - 1] \in Asking /\ Behind(b, L - 1, i - 1, Beside)
      BY <1>4, <1>5, <2>2
    <3> QED BY <1>1, <1>2, <3>1 DEF Coming
  <2> QED BY <2>1, <2>2
<1>6. ASSUME Says(reported, "blocked"), Behind(a, L, 0, Beside)
      PROVE  Coming'
  <2>1. m \in Beside /\ Behind(b, L - 1, 0, Beside)
    BY <1>1, <1>4, <1>6
  <2>2. Says(reported', "blocked")
    BY <1>2, <1>3, <1>6, <2>1, BesideBlock
  <2> QED BY <1>1, <1>2, <2>1, <2>2 DEF Coming, Says
<1> QED BY <1>1, <1>5, <1>6 DEF Coming

\* A key that does not reach the agent leaves the ask where it is.
LEMMA ComingCut ==
    ASSUME QueueInv, Coming, NEW n \in 1 .. Ahead, IsKey(Line[n]),
           Ahead' = Ahead - 1, \A j \in 1 .. Ahead - 1 : Line'[j] = Line[Was(n, j)],
           reported' = reported
    PROVE  Coming'
<1>1. PICK a, b, L : a = Line /\ b = Line' /\ L = Ahead
  OBVIOUS
<1>2. L \in Nat \ {0} /\ n \in 1 .. L
  BY <1>1, LineSays
<1>3. \A j \in 1 .. L - 1 : b[j] = a[Was(n, j)]
  BY <1>1
<1>4. \A i \in 0 .. L : i # n =>
        /\ Behind(a, L, i, Beside) => Behind(b, L - 1, Now(n, i), Beside)
        /\ i # 0 => Now(n, i) \in 1 .. L - 1 /\ Was(n, Now(n, i)) = i /\ b[Now(n, i)] = a[i]
        /\ i = 0 => Now(n, i) = 0
  <2>1. TakenOut(a, b, L, n)
    BY <1>3 DEF TakenOut
  <2>2. \A i \in 0 .. L : i # n => MovesUp(a, b, L, n, i, Beside)
    BY <1>2, <2>1, BehindCut
  <2> QED BY <2>2 DEF MovesUp
<1>5. ASSUME NEW i \in 1 .. L, a[i] \in Asking, Behind(a, L, i, Beside)
      PROVE  Coming'
  <2>1. i # n
    BY <1>1, <1>5, KnownKinds DEF Asking, IsKey, KeyEvents
  <2>2. i \in 0 .. L /\ i # 0
    BY <1>2
  <2>3. /\ Behind(b, L - 1, Now(n, i), Beside)
        /\ Now(n, i) \in 1 .. L - 1 /\ b[Now(n, i)] \in Asking
    BY <1>4, <1>5, <2>1, <2>2
  <2> QED BY <1>1, <2>3 DEF Coming
<1>6. ASSUME Says(reported, "blocked"), Behind(a, L, 0, Beside)
      PROVE  Coming'
  <2>1. 0 \in 0 .. L /\ 0 # n
    BY <1>2
  <2>2. Behind(b, L - 1, 0, Beside)
    BY <1>4, <1>6, <2>1
  <2> QED BY <1>1, <1>6, <2>2 DEF Coming, Says
<1> QED BY <1>1, <1>5, <1>6 DEF Coming

LEMMA AgentRings ==
    ASSUME QueueInv, RungInv, Agent
    PROVE  RungInv'
<1>1. ASSUME NEW m \in Messages, Send(m)
      PROVE  /\ ~exited' /\ notified' = notified
             /\ Coming /\ m \in Beside => Coming'
             /\ m \in Asking => Coming'
  <2>1. /\ Ahead \in Nat /\ Ahead' = Ahead + 1 /\ Line'[Ahead + 1] = m
        /\ \A i \in 1 .. Ahead : Line'[i] = Line[i]
        /\ UNCHANGED <<reported, notified, exited>> /\ ~exited
    BY <1>1, Sent
  <2> QED BY <2>1, ComingGrown
<1>2. ASSUME NEW m \in Asking, Send(m), unrung' => notified # "blocked"
      PROVE  RungInv'
  <2>1. m \in Messages
    BY DEF Asking
  <2> QED BY <1>1, <1>2, <2>1 DEF RungInv
<1>3. ASSUME ~unrung' PROVE RungInv'
  BY <1>3 DEF RungInv
<1>4. CASE StartTurn \/ EndTurn \/ CancelTurn \/ Nudge \/ (\E c \in Calls : Answer(c)) \/ Exit
  BY <1>3, <1>4 DEF StartTurn, EndTurn, CancelTurn, Nudge, Answer, Exit
<1>5. CASE FailTurn \/ Ask
  <2>1. PICK e \in {"failure", "ask"} : Send(Report(e))
    BY <1>5 DEF FailTurn, Ask
  <2>2. Report(e) \in Asking
    BY <2>1, MessagesSay DEF Asking, Report, Events
  <2>3. unrung' => notified # "blocked"
    BY <1>5 DEF FailTurn, Ask
  <2> QED BY <1>2, <2>1, <2>2, <2>3
<1>6. CASE Review
  <2>1. PICK m : m = Report("review")
    OBVIOUS
  <2>2. Send(m) /\ unrung' = unrung
    BY <1>6, <2>1 DEF Review
  <2>3. m \in Beside /\ m \in Messages
    BY <2>1, MessagesSay DEF Beside, Report, Events
  <2> QED BY <1>1, <2>2, <2>3 DEF RungInv
<1>7. ASSUME NEW c \in Calls, Question(c)
      PROVE  RungInv'
  <2>1. About("question", c) \in Asking
    BY MessagesSay DEF Asking, About, Events
  <2> QED BY <1>2, <1>7, <2>1 DEF Question
<1>8. ASSUME NEW status \in Tells, Tell(status)
      PROVE  RungInv'
  <2>1. CASE status = "blocked"
    <3>1. Own(status) \in Asking
      BY <2>1, MessagesSay DEF Asking, Own, Statuses
    <3> QED BY <1>2, <1>8, <3>1 DEF Tell
  <2>2. CASE status # "blocked"
    BY <1>3, <1>8, <2>2 DEF Tell
  <2> QED BY <2>1, <2>2
<1>9. CASE Draw \/ React
  <2>1. UNCHANGED <<chan, pending, reported, notified, exited, unrung>>
    BY <1>9 DEF Draw, React, tabVars, loopVars, ghosts
  <2>2. Ahead' = Ahead /\ Line' = Line
    BY <2>1, LineStays
  <2> QED BY <2>1, <2>2 DEF RungInv, Coming, Says
<1> QED BY <1>4, <1>5, <1>6, <1>7, <1>8, <1>9 DEF Agent

LEMMA RungKept ==
    ASSUME IInv, QueueInv, RungInv, [Next]_vars
    PROVE  RungInv'
<1>1. CASE Agent
  BY <1>1, AgentRings
<1>2. ASSUME NEW k \in KeyEvents, Type(k)
      PROVE  RungInv'
  <2>1. /\ Ahead \in Nat /\ Ahead' = Ahead + 1 /\ Line'[Ahead + 1] = Report(k)
        /\ \A i \in 1 .. Ahead : Line'[i] = Line[i]
        /\ IsKey(Report(k)) /\ Report(k) \in Messages
        /\ UNCHANGED <<reported, notified, unrung, exited>>
    BY <1>2, Typed DEF agentVars, ghosts
  <2>2. Report(k) \in Beside
    BY <2>1 DEF Beside
  <2>3. Coming => Coming'
    BY <2>1, <2>2, ComingGrown
  <2> QED BY <2>1, <2>3 DEF RungInv
<1>3. ASSUME UNCHANGED <<chan, pending, notified, unrung, exited>>,
             Says(reported, "blocked") => Says(reported', "blocked")
      PROVE  RungInv'
  <2>1. Ahead' = Ahead /\ Line' = Line
    BY <1>3, LineStays
  <2> QED BY <1>3, <2>1 DEF RungInv, Coming, Says
<1>4. CASE Land
  BY <1>3, <1>4 DEF Land, agentVars, ghosts, Says
<1>5. CASE Settle
  <2>1. /\ UNCHANGED <<chan, pending, exited>> /\ notified' = activity'
        /\ unrung' => unrung /\ ~(activity' = "blocked" /\ activity' # notified)
    BY <1>5 DEF Settle, agentVars, Fresh
  <2>2. Ahead' = Ahead /\ Line' = Line
    BY <2>1, LineStays
  <2>3. ASSUME unrung'
        PROVE  ~exited' /\ notified' # "blocked" /\ Coming'
    <3>1. ~closed /\ ~exited /\ notified # "blocked" /\ Coming
      BY <2>1, <2>3 DEF RungInv, QueueInv
    <3>2. notified' # "blocked"
      BY <2>1, <2>3, <3>1
    <3>3. ~Says(reported, "blocked")
      BY <1>5, <2>1, <3>1, <3>2, SettleBlocks DEF IInv
    <3> QED BY <2>1, <2>2, <3>1, <3>2, <3>3 DEF Coming
  <2> QED BY <2>3 DEF RungInv
<1>6. CASE Serve
  <2>1. UNCHANGED <<exited, notified, unrung>>
    BY <1>6 DEF Serve, agentVars, ghosts
  <2>2. unrung => ~closed
    BY DEF QueueInv, RungInv
  <2> QED BY <1>6, <2>1, <2>2, ComingServed DEF RungInv
<1>7. CASE Recv
  <2>1. UNCHANGED <<exited, notified>>
    BY <1>7 DEF Recv
  <2>2. CASE /\ Ahead' = Ahead /\ \A i \in 1 .. Ahead : Line'[i] = Line[i]
             /\ reported' = reported /\ unrung' = unrung
    <3>1. Ahead \in Nat
      BY LineSays
    <3>2. Coming => Coming'
      <4>1. \A i \in 0 .. Ahead : \A j \in i + 1 .. Ahead : j \in 1 .. Ahead
        BY <3>1
      <4>2. 0 \in 0 .. Ahead /\ \A i \in 1 .. Ahead : i \in 0 .. Ahead
        BY <3>1
      <4> QED BY <2>2, <4>1, <4>2 DEF Coming, Behind, Says
    <3> QED BY <2>1, <2>2, <3>2 DEF RungInv
  <2>3. ASSUME NEW n \in 1 .. Ahead, IsKey(Line[n]), Ahead' = Ahead - 1,
               \A j \in 1 .. Ahead - 1 : Line'[j] = Line[Was(n, j)], Dispatch(Line[n].event)
        PROVE  RungInv'
    <3>1. ~unrung' \/ (unrung' = unrung /\ reported' = reported)
      BY <2>3 DEF Dispatch, Press, ghosts
    <3>2. reported' = reported /\ Coming => Coming'
      BY <2>3, ComingCut
    <3> QED BY <2>1, <3>1, <3>2 DEF RungInv
  <2> QED BY <1>7, <2>2, <2>3, Received DEF ghosts
<1>8. CASE Tick
  BY <1>3, <1>8, TickStill DEF Tick, agentVars, IInv
<1>9. CASE UNCHANGED vars
  BY <1>3, <1>9 DEF vars, agentVars, tabVars, loopVars, ghosts, Says
<1> QED BY <1>1, <1>2, <1>4, <1>5, <1>6, <1>7, <1>8, <1>9 DEF Next

\* No ask that finds the agent not blocked goes by in silence: it is rung for, or
\* the user or the agent takes it back, before the loop sleeps (the edge in
\* settle_agent_activity compares with what was notified, which a report that is
\* served does not move).
THEOREM EveryAskRung == Spec => []AsksRung
<1>1. Init => RungInv
  BY DEF Init, RungInv
<1>2. Spec => []RungInv
  BY <1>1, RungKept, Queued, DeadlineArmed, PTL DEF Spec
<1>3. IInv /\ QueueInv /\ RungInv => AsksRung
  <2> SUFFICES ASSUME IInv, QueueInv, RungInv, Sleeping, unrung
               PROVE  FALSE
    BY DEF AsksRung
  <2>1. Coming /\ ~exited /\ notified # "blocked"
    BY DEF RungInv
  <2>2. Ahead = 0 /\ activity = Effective(reported, scrape) /\ activity = notified
    BY <2>1, AsleepSays
  <2>3. Says(reported, "blocked")
    BY <2>1, <2>2 DEF Coming
  <2> QED BY <2>1, <2>2, <2>3, BlockedShows
<1> QED BY <1>2, <1>3, Queued, DeadlineArmed, PTL

-----------------------------------------------------------------------------
(* Turns, as the loop hears of them. *)

Opening == {m \in Messages : m.event \in {"prompt", "answer"}}
Closing == {m \in Messages :
              m.event \in {"failure", "stop", "stopIdle", "stopBusy", "cancel", "cancelIdle"}}

\* turnOpen as it is when the i-th message is served.
OpenAt(i) == Stands(Line, Opening, Closing, turnOpen, i)
HeardOpen == OpenAt(Ahead + 1)

\* Served to its end, the queue tells the loop whether a turn is open; claude may
\* close one in silence. A wait that is held is held in an open turn, and one in
\* force stands outside of any.
TurnInv ==
    /\ ~closed /\ turn => HeardOpen
    /\ ~closed /\ kind # "claude" /\ ~turn => ~HeardOpen
    /\ ~closed => \A i \in 1 .. Ahead : Line[i].event = "answer" => OpenAt(i)
    /\ ~closed /\ kind # "claude" =>
           \A i \in 1 .. Ahead : Line[i].event = "prompt" => ~OpenAt(i)
    /\ heldWaiting # {} => turnOpen /\ Says(heldWaiting, "waiting")
    /\ \A r \in heldWaiting : ~r.absorbed
    /\ Says(reported, "waiting") => ~turnOpen

LEMMA TurnSays ==
    ASSUME NEW m \in Messages, ~IsKey(m)
    PROVE  (IF FromHook(m) THEN TurnOpenAfter(m) ELSE turnOpen)
               <=> m \in Opening \/ (turnOpen /\ m \notin Closing)
<1>1. CASE m.event = "own"
  BY <1>1 DEF FromHook, Opening, Closing
<1>2. CASE m.event \in {"prompt", "answer"}
  <2>1. FromHook(m) /\ Status(m) = "working" /\ m.event # "nudge"
    BY <1>2 DEF FromHook, Status
  <2> QED BY <1>2, <2>1 DEF Opening, TurnOpenAfter
<1>3. CASE m.event \in {"failure", "stop", "stopIdle", "stopBusy", "cancel", "cancelIdle"}
  <2>1. /\ FromHook(m) /\ m.event # "nudge" /\ Status(m) # "working"
        /\ m.event # "failure" => Status(m) \in {"done", "waiting", "idle"}
    BY <1>3 DEF FromHook, Status
  <2> QED BY <1>3, <2>1 DEF Opening, Closing, TurnOpenAfter
<1>4. CASE m.event \in {"ask", "nudge", "question", "review"}
  <2>1. /\ FromHook(m) /\ m.event # "failure"
        /\ m.event # "nudge" => Status(m) = "blocked"
    BY <1>4 DEF FromHook, Status
  <2> QED BY <1>4, <2>1 DEF Opening, Closing, TurnOpenAfter
<1> QED BY <1>1, <1>2, <1>3, <1>4 DEF Messages, Events, IsKey

LEMMA OpenGrown ==
    ASSUME NEW m, Ahead \in Nat, Line'[Ahead + 1] = m, \A i \in 1 .. Ahead : Line'[i] = Line[i],
           Ahead' = Ahead + 1, turnOpen' = turnOpen
    PROVE  /\ \A i \in 1 .. Ahead + 1 : OpenAt(i)' <=> OpenAt(i)
           /\ HeardOpen' <=> m \in Opening \/ (HeardOpen /\ m \notin Closing)
<1>1. PICK a, b, L : a = Line /\ b = Line' /\ L = Ahead
  OBVIOUS
<1>2. L \in Nat /\ \A i \in 1 .. L : b[i] = a[i]
  BY <1>1
<1>3. /\ \A i \in 1 .. L + 1 : Stands(b, Opening, Closing, turnOpen, i)
                                 <=> Stands(a, Opening, Closing, turnOpen, i)
      /\ Stands(b, Opening, Closing, turnOpen, L + 2) <=>
           \/ b[L + 1] \in Opening
           \/ Stands(a, Opening, Closing, turnOpen, L + 1) /\ b[L + 1] \notin Closing
  BY <1>2, StandsGrown
<1>4. Ahead' + 1 = L + 2 /\ b[L + 1] = m
  BY <1>1, <1>2
<1> QED BY <1>1, <1>3, <1>4 DEF OpenAt, HeardOpen

LEMMA OpenServed ==
    ASSUME QueueInv, Serve, ~closed
    PROVE  /\ \A i \in 1 .. Ahead : OpenAt(i)' <=> OpenAt(i + 1)
           /\ HeardOpen' <=> HeardOpen
<1>1. PICK a, b, L, m : a = Line /\ b = Line' /\ L = Ahead /\ m = Line[1]
  OBVIOUS
<1>2. L \in Nat \ {0} /\ Ahead' = L - 1 /\ m = Head(pending) /\ ~IsKey(m)
  BY <1>1, Served
<1>3. m \in Messages
  <2>1. 1 \in 1 .. L
    BY <1>2
  <2> QED BY <1>1, <2>1, LineSays
<1>4. \A j \in 1 .. L - 1 : b[j] = a[j + 1]
  BY <1>1, Served
<1>5. turnOpen' <=> a[1] \in Opening \/ (turnOpen /\ a[1] \notin Closing)
  <2>1. Apply(m)
    BY <1>2 DEF Serve
  <2>2. turnOpen' = IF FromHook(m) THEN TurnOpenAfter(m) ELSE turnOpen
    BY <2>1 DEF Apply
  <2> QED BY <1>1, <1>2, <1>3, <2>2, TurnSays
<1>6. PICK base, next : base = turnOpen /\ next = turnOpen'
  OBVIOUS
<1>7. L \in Nat \ {0}
  BY <1>2
<1>8. next <=> a[1] \in Opening \/ (base /\ a[1] \notin Closing)
  BY <1>5, <1>6
<1>9. \A i \in 1 .. L : Stands(a, Opening, Closing, base, i + 1)
                          => Stands(b, Opening, Closing, next, i)
  BY <1>4, <1>7, <1>8, StandsServed
<1>10. \A i \in 1 .. L : Stands(b, Opening, Closing, next, i)
                           => Stands(a, Opening, Closing, base, i + 1)
  BY <1>4, <1>7, <1>8, StandsServed
<1>11. \A i \in 1 .. L : OpenAt(i)' <=> OpenAt(i + 1)
  BY <1>1, <1>6, <1>9, <1>10 DEF OpenAt
<1>12. Ahead' + 1 = L /\ L \in 1 .. L
  BY <1>2
<1> QED BY <1>1, <1>11, <1>12 DEF HeardOpen, OpenAt

LEMMA OpenCut ==
    ASSUME QueueInv, NEW n \in 1 .. Ahead, IsKey(Line[n]), Ahead' = Ahead - 1,
           \A j \in 1 .. Ahead - 1 : Line'[j] = Line[Was(n, j)], turnOpen' = turnOpen
    PROVE  /\ \A i \in 1 .. Ahead : OpenAt(i)' <=> OpenAt(Was(n, i))
           /\ HeardOpen' <=> HeardOpen
<1>1. PICK a, b, L : a = Line /\ b = Line' /\ L = Ahead
  OBVIOUS
<1>2. L \in Nat \ {0} /\ n \in 1 .. L
  BY <1>1, LineSays
<1>3. \A j \in 1 .. L - 1 : b[j] = a[Was(n, j)]
  BY <1>1
<1>4. a[n] \notin Opening /\ a[n] \notin Closing
  BY <1>1, KnownKinds DEF Opening, Closing, IsKey, KeyEvents
<1>5. \A i \in 1 .. L : Stands(b, Opening, Closing, turnOpen, i)
                          <=> Stands(a, Opening, Closing, turnOpen, Was(n, i))
  BY <1>2, <1>3, <1>4, StandsCut
<1>6. \A i \in 1 .. L : OpenAt(i)' <=> OpenAt(Was(n, i))
  BY <1>1, <1>5 DEF OpenAt
<1>7. Ahead' + 1 = L /\ L \in 1 .. L /\ Was(n, L) = L + 1
  BY <1>1, <1>2 DEF Was
<1> QED BY <1>1, <1>5, <1>7 DEF HeardOpen, OpenAt

LEMMA OpenSame ==
    ASSUME UNCHANGED <<chan, pending>>, turnOpen' <=> turnOpen
    PROVE  (\A i : OpenAt(i)' <=> OpenAt(i)) /\ (HeardOpen' <=> HeardOpen)
<1>1. Ahead' = Ahead /\ Line' = Line
  BY LineStays
<1>2. \A i : OpenAt(i)' <=> OpenAt(i)
  BY <1>1 DEF OpenAt, Stands
<1> QED BY <1>1, <1>2 DEF HeardOpen

\* A report is settled as it is but for its clock of quiet, or taken away when it
\* has run out or yields.
LEMMA OverriddenSays ==
    ASSUME NEW q, IsReport(q), NEW over
    PROVE  LET r == Overridden(q, over)
           IN IsReport(r) /\ r.status = q.status /\ r.ttl = q.ttl /\ r.absorbed = q.absorbed
<1>1. 0 \in Ages
  BY Windows DEF Ages
<1>2. q = [status |-> q.status, ttl |-> q.ttl, quiet |-> q.quiet,
           overridden |-> q.overridden, absorbed |-> q.absorbed]
      /\ q.ttl \in Nat /\ q.quiet \in Ages
  BY DEF IsReport
<1>3. CASE over \/ q.overridden
  <2>1. Overridden(q, over) =
           [status |-> q.status, ttl |-> q.ttl, quiet |-> 0,
            overridden |-> over, absorbed |-> q.absorbed]
    BY <1>2, <1>3 DEF Overridden
  <2> QED BY <2>1, <1>1, <1>2 DEF IsReport
<1>4. CASE ~(over \/ q.overridden)
  BY <1>2, <1>4 DEF Overridden, IsReport
<1> QED BY <1>3, <1>4

LEMMA SettleStill ==
    ASSUME Shape, Settle, ~closed
    PROVE  /\ \A r \in reported' : \E q \in reported :
                /\ reported = {q} /\ reported' = {r}
                /\ r.status = q.status /\ r.ttl = q.ttl /\ r.absorbed = q.absorbed
           /\ \A q \in reported : q.status \notin {"working", "blocked"} /\ q.ttl > 0 =>
                \E r \in reported' : r.status = q.status /\ r.ttl = q.ttl
<1> DEFINE over == Overrides(reported, ScrapeAfter /\ ~closed)
           live == Settled(reported, ScrapeAfter /\ ~closed)
<1>1. reported' = live
  BY DEF Settle
<1>2. live = {r \in {Overridden(q, over) : q \in reported} : ~Expired(r) /\ ~Yields(r)}
  BY DEF Settled
<1> HIDE DEF over, live
<1>3. \A q \in reported :
        /\ reported = {q} /\ IsReport(q)
        /\ Overridden(q, over).status = q.status
        /\ Overridden(q, over).ttl = q.ttl
        /\ Overridden(q, over).absorbed = q.absorbed
  BY OverriddenSays DEF Shape, Optional
<1>4. ASSUME NEW r \in live
      PROVE  \E q \in reported :
                /\ reported = {q} /\ live = {r}
                /\ r.status = q.status /\ r.ttl = q.ttl /\ r.absorbed = q.absorbed
  <2>1. PICK q \in reported : r = Overridden(q, over)
    BY <1>2, <1>4
  <2>2. reported = {q}
    BY <1>3
  <2>3. \A x \in live : x = r
    BY <1>2, <2>1, <2>2
  <2> QED BY <1>3, <1>4, <2>1, <2>2, <2>3
<1>5. ASSUME NEW q \in reported, q.status \notin {"working", "blocked"}, q.ttl > 0
      PROVE  \E r \in live : r.status = q.status /\ r.ttl = q.ttl
  <2>1. PICK r : r = Overridden(q, over)
    OBVIOUS
  <2>2. r.status = q.status /\ r.ttl = q.ttl /\ q.ttl \in Nat
    BY <1>3, <2>1 DEF IsReport
  <2>3. ~Expired(r) /\ ~Yields(r)
    BY <1>5, <2>2 DEF Expired, Yields
  <2> QED BY <1>2, <2>1, <2>2, <2>3
<1> QED BY <1>1, <1>4, <1>5

\* A tick leaves of a report what it says and whether it met a turn's end.
LEMMA AgedKeeps ==
    ASSUME NEW r, IsReport(r)
    PROVE  Aged(r).absorbed = r.absorbed
<1>1. Aged(r) = [r EXCEPT !.ttl = Sooner(r.ttl), !.quiet = Older(r.quiet)]
  BY DEF Aged
<1>2. Aged(r) = [status |-> r.status, ttl |-> Sooner(r.ttl), quiet |-> Older(r.quiet),
                 overridden |-> r.overridden, absorbed |-> r.absorbed]
  BY <1>1, TwoClocks DEF IsReport
<1> QED BY <1>2

LEMMA AbsorbedSays ==
    ASSUME NEW r, IsReport(r)
    PROVE  LET x == [r EXCEPT !.absorbed = TRUE]
           IN x.status = r.status /\ x.ttl = r.ttl
<1>1. PICK s, t, q, o, b :
          r = [status |-> s, ttl |-> t, quiet |-> q, overridden |-> o, absorbed |-> b]
  BY DEF IsReport
<1>2. PICK c : c = TRUE
  OBVIOUS
<1>3. [r EXCEPT !.absorbed = c]
          = [status |-> s, ttl |-> t, quiet |-> q, overridden |-> o, absorbed |-> c]
  BY <1>1, Absorbs
<1>4. [r EXCEPT !.absorbed = c].status = r.status /\ [r EXCEPT !.absorbed = c].ttl = r.ttl
  BY <1>1, <1>3
<1> QED BY <1>2, <1>4, Zenon

\* What is held and what is in force when a report has been served.
LEMMA ServedTurn ==
    ASSUME Shape, QueueInv, TurnInv, Serve, ~closed
    PROVE  /\ heldWaiting' # {} => turnOpen' /\ Says(heldWaiting', "waiting")
           /\ \A r \in heldWaiting' : ~r.absorbed
           /\ Says(reported', "waiting") => ~turnOpen'
<1>1. PICK m : m = Head(pending)
  OBVIOUS
<1>2. /\ Ahead \in Nat \ {0} /\ m = Line[1] /\ ~IsKey(m) /\ Apply(m)
  BY <1>1, Served DEF Serve
<1>3. 1 \in 1 .. Ahead
  BY <1>2
<1>4. m \in Messages
  BY <1>2, <1>3, LineSays
<1>5. turnOpen' = IF FromHook(m) THEN TurnOpenAfter(m) ELSE turnOpen
  BY <1>2 DEF Apply
<1>6. turnOpen' <=> m \in Opening \/ (turnOpen /\ m \notin Closing)
  BY <1>2, <1>4, <1>5, TurnSays
<1> DEFINE closes == FromHook(m) /\ turnOpen /\ ~TurnOpenAfter(m)
           promoted == closes /\ heldWaiting # {}
           live == IF promoted THEN heldWaiting ELSE reported
<1>7. CASE HoldsForTurnEnd(m)
  <2>1. turnOpen /\ turnOpen' = turnOpen
    BY <1>5, <1>7 DEF HoldsForTurnEnd
  <2>2. heldWaiting' = {NewReport("waiting")} /\ reported' = reported
    BY <1>2, <1>7 DEF Apply
  <2>3. NewReport("waiting").status = "waiting" /\ ~NewReport("waiting").absorbed
    BY DEF NewReport
  <2> QED BY <2>1, <2>2, <2>3 DEF TurnInv, Says
<1>8. CASE ~HoldsForTurnEnd(m)
  <2>1. /\ heldWaiting' = IF FromHook(m) /\ ~promoted THEN heldWaiting ELSE {}
        /\ \/ reported' = {NewReport(Status(m))}
              /\ Meet(live, m) = "apply" /\ (kind = "codex" => LetsThrough(m))
           \/ reported' = {[r EXCEPT !.absorbed = TRUE] : r \in live}
              /\ Meet(live, m) = "absorbTurnEnd"
           \/ reported' = live
              /\ ~(Meet(live, m) = "apply" /\ (kind = "codex" => LetsThrough(m)))
    BY <1>2, <1>8 DEF Apply
  <2>2. heldWaiting' # {} => turnOpen' /\ Says(heldWaiting', "waiting")
    <3> SUFFICES ASSUME heldWaiting' # {}
                 PROVE  turnOpen' /\ Says(heldWaiting', "waiting")
      OBVIOUS
    <3>1. FromHook(m) /\ ~promoted /\ heldWaiting' = heldWaiting
      BY <2>1
    <3>2. turnOpen /\ Says(heldWaiting, "waiting")
      BY <3>1 DEF TurnInv
    <3>3. TurnOpenAfter(m)
      BY <3>1, <3>2
    <3> QED BY <1>5, <3>1, <3>2, <3>3
  <2>3. \A r \in heldWaiting' : ~r.absorbed
    BY <2>1 DEF TurnInv
  <2>4. ASSUME Says(live, "waiting")
        PROVE  ~turnOpen' \/ m \in Opening
    <3>1. CASE promoted
      BY <1>5, <3>1
    <3>2. CASE ~promoted
      BY <1>6, <2>4, <3>2 DEF TurnInv
    <3> QED BY <3>1, <3>2
  <2>5. m \in Opening => reported' = {NewReport(Status(m))} \/ turnOpen
    <3>1. CASE m.event = "answer"
      <4>1. OpenAt(1)
        BY <1>2, <1>3, <3>1 DEF TurnInv
      <4>2. \A i \in 1 .. 1 - 1 : FALSE
        OBVIOUS
      <4> QED BY <4>1, <4>2 DEF OpenAt, Stands
    <3>2. CASE m.event = "prompt"
      <4>1. Status(m) = "working" /\ LetsThrough(m)
        BY <3>2 DEF Status, LetsThrough
      <4>2. Meet(live, m) = "apply"
        BY <4>1 DEF Meet
      <4> QED BY <2>1, <4>1, <4>2
    <3> QED BY <3>1, <3>2 DEF Opening
  <2>6. ASSUME Says(reported', "waiting")
        PROVE  ~turnOpen'
    <3>1. CASE reported' = {NewReport(Status(m))}
      <4>1. Status(m) = "waiting"
        BY <2>6, <3>1 DEF Says, NewReport
      <4>2. CASE FromHook(m)
        <5>1. m.event \in Events \ KeyEvents /\ m.event # "own"
          BY <1>2, <1>4, <4>2 DEF Messages, IsKey, FromHook
        <5>2. Status(m) = CASE m.event \in {"prompt", "answer"} -> "working"
                            [] m.event \in {"stop", "stopIdle", "nudge"} -> "done"
                            [] m.event = "stopBusy" -> "waiting"
                            [] m.event \in {"cancel", "cancelIdle"} -> "idle"
                            [] m.event \in {"ask", "failure", "review", "question"} -> "blocked"
                            [] m.event = "own" -> m.status
          BY DEF Status
        <5>3. m.event = "stopBusy"
          BY <4>1, <5>1, <5>2 DEF Events
        <5> QED BY <1>4, <1>6, <5>3 DEF Opening, Closing
      <4>3. CASE ~FromHook(m)
        BY <1>5, <1>8, <4>1, <4>3 DEF HoldsForTurnEnd
      <4> QED BY <4>2, <4>3
    <3>2. CASE reported' # {NewReport(Status(m))}
      <4>1. Optional(live)
        BY DEF Shape
      <4>2. Says(live, "waiting")
        <5>1. CASE reported' = live
          BY <2>6, <5>1
        <5>2. CASE reported' = {[r EXCEPT !.absorbed = TRUE] : r \in live}
          <6>1. PICK x \in reported' : x.status = "waiting"
            BY <2>6 DEF Says
          <6>2. PICK r \in live : x = [r EXCEPT !.absorbed = TRUE]
            BY <5>2, <6>1
          <6>3. IsReport(r) /\ live = {r}
            BY <4>1 DEF Optional
          <6>4. r.status = "waiting"
            BY <6>1, <6>2, <6>3, AbsorbedSays
          <6> QED BY <6>3, <6>4 DEF Says
        <5> QED BY <2>1, <3>2, <5>1, <5>2
      <4>3. ~turnOpen' \/ turnOpen
        BY <2>4, <2>5, <3>2, <4>2
      <4>4. CASE promoted
        BY <1>5, <4>4
      <4>5. CASE ~promoted
        <5>1. ~turnOpen
          BY <4>2, <4>5 DEF TurnInv
        <5> QED BY <4>3, <5>1
      <4> QED BY <4>4, <4>5
    <3> QED BY <3>1, <3>2
  <2> QED BY <2>2, <2>3, <2>6
<1> QED BY <1>7, <1>8

\* What is sent says how the turn stands then.
LEMMA TurnGrown ==
    ASSUME TurnInv, NEW m \in Messages, Ahead \in Nat, Ahead' = Ahead + 1,
           Line'[Ahead + 1] = m, \A i \in 1 .. Ahead : Line'[i] = Line[i],
           UNCHANGED <<kind, closed, reported, heldWaiting, turnOpen>>,
           turn' => m \in Opening \/ (turn /\ m \notin Closing),
           kind # "claude" /\ ~turn' => m \in Closing \/ (~turn /\ m \notin Opening),
           m.event = "answer" => turn,
           m.event = "prompt" /\ kind # "claude" => ~turn
    PROVE  TurnInv'
<1>1. /\ \A i \in 1 .. Ahead + 1 : OpenAt(i)' <=> OpenAt(i)
      /\ HeardOpen' <=> m \in Opening \/ (HeardOpen /\ m \notin Closing)
  BY OpenGrown
<1>2. m \in Closing => m \notin Opening
  BY DEF Opening, Closing
<1>3. /\ ~closed' /\ turn' => HeardOpen'
      /\ ~closed' /\ kind' # "claude" /\ ~turn' => ~HeardOpen'
  <2>1. /\ ~closed /\ turn => HeardOpen
        /\ ~closed /\ kind # "claude" /\ ~turn => ~HeardOpen
    BY DEF TurnInv
  <2> QED BY <1>1, <1>2, <2>1
<1>4. \A i \in 1 .. Ahead' : i \in 1 .. Ahead \/ i = Ahead + 1
  OBVIOUS
<1>5. \A i \in 1 .. Ahead : i \in 1 .. Ahead + 1
  OBVIOUS
<1>6. Ahead + 1 \in 1 .. Ahead + 1
  OBVIOUS
<1>7. ASSUME ~closed, NEW i \in 1 .. Ahead', Line'[i].event = "answer"
      PROVE  OpenAt(i)'
  <2>1. CASE i \in 1 .. Ahead
    BY <1>1, <1>5, <1>7, <2>1 DEF TurnInv
  <2>2. CASE i = Ahead + 1
    <3>1. OpenAt(Ahead + 1)
      BY <1>7, <2>2 DEF TurnInv, HeardOpen
    <3> QED BY <1>1, <1>6, <2>2, <3>1
  <2> QED BY <1>4, <2>1, <2>2
<1>8. ASSUME ~closed, kind # "claude", NEW i \in 1 .. Ahead', Line'[i].event = "prompt"
      PROVE  ~OpenAt(i)'
  <2>1. CASE i \in 1 .. Ahead
    BY <1>1, <1>5, <1>8, <2>1 DEF TurnInv
  <2>2. CASE i = Ahead + 1
    <3>1. ~OpenAt(Ahead + 1)
      BY <1>8, <2>2 DEF TurnInv, HeardOpen
    <3> QED BY <1>1, <1>6, <2>2, <3>1
  <2> QED BY <1>4, <2>1, <2>2
<1>9. /\ heldWaiting' # {} => turnOpen' /\ Says(heldWaiting', "waiting")
      /\ \A r \in heldWaiting' : ~r.absorbed
      /\ Says(reported', "waiting") => ~turnOpen'
  BY DEF TurnInv, Says
<1> QED BY <1>3, <1>7, <1>8, <1>9 DEF TurnInv, Says

\* Steps that move neither the queue nor the turn.
LEMMA TurnSame ==
    ASSUME TurnInv, UNCHANGED <<chan, pending, kind, closed>>, turnOpen' <=> turnOpen,
           turn' = turn \/ (kind = "claude" /\ ~turn'),
           heldWaiting' # {} => turnOpen /\ Says(heldWaiting', "waiting"),
           \A r \in heldWaiting' : ~r.absorbed,
           Says(reported', "waiting") => Says(reported, "waiting")
    PROVE  TurnInv'
<1>1. (\A i : OpenAt(i)' <=> OpenAt(i)) /\ (HeardOpen' <=> HeardOpen)
  BY OpenSame
<1>2. Ahead' = Ahead /\ Line' = Line
  BY LineStays
<1>3. /\ ~closed' /\ turn' => HeardOpen'
      /\ ~closed' /\ kind' # "claude" /\ ~turn' => ~HeardOpen'
  BY <1>1 DEF TurnInv
<1>4. /\ ~closed' => \A i \in 1 .. Ahead' : Line'[i].event = "answer" => OpenAt(i)'
      /\ ~closed' /\ kind' # "claude" =>
             \A i \in 1 .. Ahead' : Line'[i].event = "prompt" => ~OpenAt(i)'
  BY <1>1, <1>2 DEF TurnInv
<1>5. Says(reported', "waiting") => ~turnOpen'
  BY DEF TurnInv
<1> QED BY <1>3, <1>4, <1>5 DEF TurnInv, Says

LEMMA AgentTurns ==
    ASSUME QueueInv, TurnInv, Agent
    PROVE  TurnInv'
<1>1. ASSUME NEW m \in Messages, Send(m),
             turn' => m \in Opening \/ (turn /\ m \notin Closing),
             kind # "claude" /\ ~turn' => m \in Closing \/ (~turn /\ m \notin Opening),
             m.event = "answer" => turn,
             m.event = "prompt" /\ kind # "claude" => ~turn
      PROVE  TurnInv'
  <2>1. /\ Ahead \in Nat /\ Ahead' = Ahead + 1 /\ Line'[Ahead + 1] = m
        /\ \A i \in 1 .. Ahead : Line'[i] = Line[i]
        /\ UNCHANGED <<kind, closed, reported, heldWaiting, turnOpen>>
    BY <1>1, Sent
  <2> QED BY <1>1, <2>1, TurnGrown
<1>2. \A e \in Events \ {"own"} : Report(e) \in Messages /\ Report(e).event = e
  BY MessagesSay DEF Report
<1>3. {"prompt", "stop", "stopIdle", "stopBusy", "cancel", "cancelIdle", "failure", "ask",
       "nudge", "review"} \subseteq Events \ {"own"}
  BY DEF Events
<1>4. CASE StartTurn
  <2>1. PICK m : m = Report("prompt")
    OBVIOUS
  <2>2. Send(m) /\ ~turn /\ turn'
    BY <1>4, <2>1 DEF StartTurn
  <2>3. m \in Messages /\ m.event = "prompt"
    BY <1>2, <1>3, <2>1
  <2>4. m \in Opening
    BY <2>3 DEF Opening
  <2> QED BY <1>1, <2>2, <2>3, <2>4
<1>5. ASSUME NEW e \in {"stop", "stopIdle", "stopBusy", "cancel", "cancelIdle", "failure"},
             Send(Report(e)), ~turn'
      PROVE  TurnInv'
  <2>1. PICK m : m = Report(e)
    OBVIOUS
  <2>2. m \in Messages /\ m.event = e
    BY <1>2, <1>3, <2>1
  <2>3. m \in Closing
    BY <2>2 DEF Closing
  <2> QED BY <1>1, <1>5, <2>1, <2>2, <2>3
<1>6. CASE EndTurn
  <2>1. kind \in {"claude", "codex", "agy"}
    BY KnownKinds DEF QueueInv
  <2>2. \E e \in {"stop", "stopIdle", "stopBusy"} : Send(Report(e)) /\ ~turn'
    BY <1>6, <2>1 DEF EndTurn
  <2> QED BY <1>5, <2>2
<1>7. CASE FailTurn
  BY <1>5, <1>7 DEF FailTurn
<1>8. CASE CancelTurn
  <2>1. CASE kind = "claude"
    <3>1. /\ UNCHANGED <<chan, pending, turnOpen, kind, closed, heldWaiting, reported>>
          /\ kind = "claude" /\ ~turn'
      BY <1>8, <2>1 DEF CancelTurn, tabVars, loopVars
    <3> QED BY <3>1, TurnSame DEF TurnInv
  <2>2. CASE kind # "claude"
    <3>1. \E e \in {"stopBusy", "cancel", "cancelIdle"} : Send(Report(e)) /\ ~turn'
      BY <1>8, <2>2 DEF CancelTurn
    <3> QED BY <1>5, <3>1
  <2> QED BY <2>1, <2>2
<1>9. ASSUME NEW m \in Messages, Send(m), turn' = turn, m \notin Opening, m \notin Closing,
             m.event \notin {"answer", "prompt"}
      PROVE  TurnInv'
  BY <1>1, <1>9
<1>10. CASE Ask \/ Nudge \/ Review
  <2>1. PICK e \in {"ask", "nudge", "review"} : Send(Report(e)) /\ turn' = turn
    BY <1>10 DEF Ask, Nudge, Review
  <2>2. PICK m : m = Report(e)
    OBVIOUS
  <2>3. m \in Messages /\ m.event = e
    BY <1>2, <1>3, <2>1, <2>2
  <2> QED BY <1>9, <2>1, <2>2, <2>3 DEF Opening, Closing
<1>11. ASSUME NEW c \in Calls, Question(c)
       PROVE  TurnInv'
  <2>1. PICK m : m = About("question", c)
    OBVIOUS
  <2>2. Send(m) /\ turn' = turn
    BY <1>11, <2>1 DEF Question
  <2>3. m \in Messages /\ m.event = "question"
    BY <2>1, MessagesSay DEF About, Events
  <2> QED BY <1>9, <2>2, <2>3 DEF Opening, Closing
<1>12. ASSUME NEW c \in Calls, Answer(c)
       PROVE  TurnInv'
  <2>1. PICK m : m = About("answer", c)
    OBVIOUS
  <2>2. Send(m) /\ turn /\ turn' = turn
    BY <1>12, <2>1 DEF Answer
  <2>3. m \in Messages /\ m.event = "answer"
    BY <2>1, MessagesSay DEF About, Events
  <2>4. m \in Opening
    BY <2>3 DEF Opening
  <2> QED BY <1>1, <2>2, <2>3, <2>4
<1>13. ASSUME NEW status \in Tells, Tell(status)
       PROVE  TurnInv'
  <2>1. PICK m : m = Own(status)
    OBVIOUS
  <2>2. Send(m) /\ turn' = turn
    BY <1>13, <2>1 DEF Tell
  <2>3. m \in Messages /\ m.event = "own"
    BY <2>1, MessagesSay, KnownKinds DEF Own
  <2> QED BY <1>9, <2>2, <2>3 DEF Opening, Closing
<1>14. CASE Draw \/ React \/ Exit
  <2>1. UNCHANGED <<chan, pending, turnOpen, kind, closed, turn, heldWaiting, reported>>
    BY <1>14 DEF Draw, React, Exit, tabVars, loopVars
  <2> QED BY <2>1, TurnSame DEF TurnInv
<1> QED BY <1>4, <1>6, <1>7, <1>8, <1>10, <1>11, <1>12, <1>13, <1>14 DEF Agent

\* The queue as it is, though the loop has taken it up.
LEMMA LineEquals ==
    ASSUME Ahead' = Ahead, \A i \in 1 .. Ahead : Line'[i] = Line[i]
    PROVE  Line' = Line
<1>1. Line = [i \in 1 .. Ahead |-> Line[i]]
  BY DEF Line
<1>2. Line' = [i \in 1 .. Ahead' |-> Line'[i]]
  BY DEF Line
<1>3. [i \in 1 .. Ahead |-> Line'[i]] = [i \in 1 .. Ahead |-> Line[i]]
  OBVIOUS
<1> QED BY <1>1, <1>2, <1>3

\* A key leaves a report, or none.
LEMMA KeySays ==
    ASSUME Shape, NEW k, Dispatch(k)
    PROVE  /\ reported' \subseteq reported /\ heldWaiting' \in {heldWaiting, {}}
           /\ \A status : Says(reported', status) => Says(reported, status)
<1>1. reported' \subseteq reported /\ heldWaiting' \in {heldWaiting, {}}
  BY DEF Dispatch, Press, LeftByKey
<1> QED BY <1>1 DEF Says, Shape, Optional

LEMMA TurnReceived ==
    ASSUME IInv, QueueInv, TurnInv, Recv
    PROVE  TurnInv'
<1>1. UNCHANGED <<kind, turn, closed, turnOpen>>
  BY DEF Recv
<1>2. CASE /\ Ahead' = Ahead /\ \A i \in 1 .. Ahead : Line'[i] = Line[i]
           /\ UNCHANGED <<reported, heldWaiting>>
  <2>1. Line' = Line /\ Ahead' = Ahead
    BY <1>2, LineEquals
  <2>2. (\A i : OpenAt(i)' <=> OpenAt(i)) /\ (HeardOpen' <=> HeardOpen)
    BY <1>1, <2>1 DEF OpenAt, HeardOpen
  <2>3. /\ ~closed' /\ turn' => HeardOpen'
        /\ ~closed' /\ kind' # "claude" /\ ~turn' => ~HeardOpen'
        /\ ~closed' => \A i \in 1 .. Ahead' : Line'[i].event = "answer" => OpenAt(i)'
        /\ ~closed' /\ kind' # "claude" =>
               \A i \in 1 .. Ahead' : Line'[i].event = "prompt" => ~OpenAt(i)'
    BY <1>1, <2>1, <2>2 DEF TurnInv
  <2>4. /\ heldWaiting' # {} => turnOpen' /\ Says(heldWaiting', "waiting")
        /\ \A r \in heldWaiting' : ~r.absorbed
        /\ Says(reported', "waiting") => ~turnOpen'
    BY <1>1, <1>2 DEF TurnInv, Says
  <2> QED BY <2>3, <2>4 DEF TurnInv, Says
<1>3. ASSUME NEW n \in 1 .. Ahead, IsKey(Line[n]), Ahead' = Ahead - 1,
             \A j \in 1 .. Ahead - 1 : Line'[j] = Line[Was(n, j)], Dispatch(Line[n].event)
      PROVE  TurnInv'
  <2>1. /\ \A i \in 1 .. Ahead : OpenAt(i)' <=> OpenAt(Was(n, i))
        /\ HeardOpen' <=> HeardOpen
    BY <1>1, <1>3, OpenCut
  <2>2. Ahead \in Nat
    BY LineSays
  <2>3. \A i \in 1 .. Ahead' : i \in 1 .. Ahead /\ i \in 1 .. Ahead - 1 /\ Was(n, i) \in 1 .. Ahead
    BY <1>3, <2>2 DEF Was
  <2>4. /\ ~closed' /\ turn' => HeardOpen'
        /\ ~closed' /\ kind' # "claude" /\ ~turn' => ~HeardOpen'
    BY <1>1, <2>1 DEF TurnInv
  <2>5. ASSUME ~closed, NEW i \in 1 .. Ahead', Line'[i].event = "answer"
        PROVE  OpenAt(i)'
    <3>1. OpenAt(Was(n, i))
      BY <1>3, <2>3, <2>5 DEF TurnInv
    <3> QED BY <2>1, <2>3, <3>1
  <2>6. ASSUME ~closed, kind # "claude", NEW i \in 1 .. Ahead', Line'[i].event = "prompt"
        PROVE  ~OpenAt(i)'
    <3>1. ~OpenAt(Was(n, i))
      BY <1>3, <2>3, <2>6 DEF TurnInv
    <3> QED BY <2>1, <2>3, <3>1
  <2>7. /\ heldWaiting' \in {heldWaiting, {}}
        /\ Says(reported', "waiting") => Says(reported, "waiting")
    BY <1>3, KeySays DEF IInv
  <2>8. /\ heldWaiting' # {} => turnOpen' /\ Says(heldWaiting', "waiting")
        /\ \A r \in heldWaiting' : ~r.absorbed
        /\ Says(reported', "waiting") => ~turnOpen'
    BY <1>1, <2>7 DEF TurnInv, Says
  <2> QED BY <1>1, <2>4, <2>5, <2>6, <2>8 DEF TurnInv, Says
<1> QED BY <1>2, <1>3, Received

LEMMA TurnServed ==
    ASSUME IInv, QueueInv, TurnInv, Serve
    PROVE  TurnInv'
<1>1. UNCHANGED <<kind, turn, closed>>
  BY DEF Serve, agentVars
<1>2. CASE closed
  <2>1. UNCHANGED <<turnOpen, heldWaiting, reported>>
    BY <1>2 DEF Serve
  <2> QED BY <1>1, <1>2, <2>1 DEF TurnInv, Says
<1>3. CASE ~closed
  <2>1. /\ \A i \in 1 .. Ahead : OpenAt(i)' <=> OpenAt(i + 1)
        /\ HeardOpen' <=> HeardOpen
    BY <1>3, OpenServed
  <2>2. /\ Ahead \in Nat \ {0} /\ Ahead' = Ahead - 1
        /\ \A i \in 1 .. Ahead - 1 : Line'[i] = Line[i + 1]
    BY Served
  <2>3. \A i \in 1 .. Ahead' : i \in 1 .. Ahead /\ i \in 1 .. Ahead - 1 /\ i + 1 \in 1 .. Ahead
    BY <2>2
  <2>4. /\ ~closed' /\ turn' => HeardOpen'
        /\ ~closed' /\ kind' # "claude" /\ ~turn' => ~HeardOpen'
    BY <1>1, <2>1 DEF TurnInv
  <2>5. ASSUME NEW i \in 1 .. Ahead', Line'[i].event = "answer"
        PROVE  OpenAt(i)'
    <3>1. OpenAt(i + 1)
      BY <1>3, <2>2, <2>3, <2>5 DEF TurnInv
    <3> QED BY <2>1, <2>3, <3>1
  <2>6. ASSUME kind # "claude", NEW i \in 1 .. Ahead', Line'[i].event = "prompt"
        PROVE  ~OpenAt(i)'
    <3>1. ~OpenAt(i + 1)
      BY <1>3, <2>2, <2>3, <2>6 DEF TurnInv
    <3> QED BY <2>1, <2>3, <3>1
  <2>7. /\ heldWaiting' # {} => turnOpen' /\ Says(heldWaiting', "waiting")
        /\ \A r \in heldWaiting' : ~r.absorbed
        /\ Says(reported', "waiting") => ~turnOpen'
    BY <1>3, ServedTurn DEF IInv
  <2> QED BY <1>1, <2>4, <2>5, <2>6, <2>7 DEF TurnInv, Says
<1> QED BY <1>2, <1>3

LEMMA TurnKept ==
    ASSUME IInv, QueueInv, TurnInv, [Next]_vars
    PROVE  TurnInv'
<1>1. CASE Agent
  BY <1>1, AgentTurns
<1>2. ASSUME NEW k \in KeyEvents, Type(k)
      PROVE  TurnInv'
  <2>1. /\ Ahead \in Nat /\ Ahead' = Ahead + 1 /\ Line'[Ahead + 1] = Report(k)
        /\ \A i \in 1 .. Ahead : Line'[i] = Line[i]
        /\ IsKey(Report(k)) /\ Report(k) \in Messages
        /\ UNCHANGED <<kind, turn, closed, reported, heldWaiting, turnOpen>>
    BY <1>2, Typed DEF agentVars
  <2>2. PICK m : m = Report(k)
    OBVIOUS
  <2>3. m \notin Opening /\ m \notin Closing /\ m.event \notin {"answer", "prompt"}
    BY <2>1, <2>2, KnownKinds DEF Opening, Closing, IsKey, KeyEvents
  <2> QED BY <2>1, <2>2, <2>3, TurnGrown
<1>3. CASE Land
  <2>1. /\ UNCHANGED <<chan, pending, turnOpen, kind, turn, heldWaiting, reported, exited>>
        /\ closed' = exited /\ (closed => exited)
    BY <1>3 DEF Land, QueueInv, agentVars
  <2>2. (\A i : OpenAt(i)' <=> OpenAt(i)) /\ (HeardOpen' <=> HeardOpen)
    BY <2>1, OpenSame
  <2>3. Ahead' = Ahead /\ Line' = Line
    BY <2>1, LineStays
  <2>4. ~closed' => ~closed
    BY <2>1
  <2>5. /\ ~closed' /\ turn' => HeardOpen'
        /\ ~closed' /\ kind' # "claude" /\ ~turn' => ~HeardOpen'
        /\ ~closed' => \A i \in 1 .. Ahead' : Line'[i].event = "answer" => OpenAt(i)'
        /\ ~closed' /\ kind' # "claude" =>
               \A i \in 1 .. Ahead' : Line'[i].event = "prompt" => ~OpenAt(i)'
    BY <2>1, <2>2, <2>3, <2>4 DEF TurnInv
  <2>6. /\ heldWaiting' # {} => turnOpen' /\ Says(heldWaiting', "waiting")
        /\ \A r \in heldWaiting' : ~r.absorbed
        /\ Says(reported', "waiting") => ~turnOpen'
    BY <2>1 DEF TurnInv, Says
  <2> QED BY <2>5, <2>6 DEF TurnInv, Says
<1>4. CASE Settle
  <2>1. UNCHANGED <<chan, pending, kind, turn, closed>>
    BY <1>4 DEF Settle, agentVars
  <2>2. CASE closed
    <3>1. heldWaiting' = {} /\ ~turnOpen'
      BY <1>4, <2>2 DEF Settle
    <3> QED BY <2>1, <2>2, <3>1 DEF TurnInv
  <2>3. CASE ~closed
    <3>1. heldWaiting' = heldWaiting /\ (turnOpen' <=> turnOpen)
      BY <1>4, <2>3 DEF Settle
    <3>2. Says(reported', "waiting") => Says(reported, "waiting")
      BY <1>4, <2>3, SettleStill DEF IInv, Says
    <3> QED BY <2>1, <3>1, <3>2, TurnSame DEF TurnInv, Says
  <2> QED BY <2>2, <2>3
<1>5. CASE Serve
  BY <1>5, TurnServed
<1>6. CASE Recv
  BY <1>6, TurnReceived
<1>7. CASE Tick
  <2>1. /\ UNCHANGED <<chan, pending, turnOpen, kind, closed, turn>>
        /\ heldWaiting' = {Aged(r) : r \in heldWaiting}
    BY <1>7 DEF Tick, agentVars
  <2>2. \A r \in heldWaiting' : ~r.absorbed
    BY <2>1, AgedKeeps DEF TurnInv, IInv, Shape, Optional
  <2>3. /\ Says(reported', "waiting") => Says(reported, "waiting")
        /\ Says(heldWaiting, "waiting") => Says(heldWaiting', "waiting")
    BY <1>7, TickStill DEF IInv
  <2>4. heldWaiting' # {} => heldWaiting # {}
    BY <2>1
  <2>5. heldWaiting' # {} => turnOpen /\ Says(heldWaiting', "waiting")
    BY <2>3, <2>4 DEF TurnInv
  <2> QED BY <2>1, <2>2, <2>3, <2>5, TurnSame
<1>8. CASE UNCHANGED vars
  <2>1. UNCHANGED <<chan, pending, turnOpen, kind, closed, turn, heldWaiting, reported>>
    BY <1>8 DEF vars, agentVars, tabVars, loopVars
  <2> QED BY <2>1, TurnSame DEF TurnInv, Says
<1> QED BY <1>1, <1>2, <1>3, <1>4, <1>5, <1>6, <1>7, <1>8 DEF Next

\* What the loop knows of the turn is what the agent's messages make of it.
THEOREM TurnsHeard == Spec => []TurnInv
<1>1. Init => TurnInv
  <2> SUFFICES ASSUME Init PROVE TurnInv
    OBVIOUS
  <2>1. /\ pending = <<>> /\ chan = <<>> /\ turnOpen = turn /\ heldWaiting = {}
        /\ reported = {}
    BY DEF Init
  <2>2. Ahead = 0
    BY <2>1 DEF Ahead
  <2>3. HeardOpen <=> turnOpen
    BY <2>2 DEF HeardOpen, OpenAt, Stands
  <2> QED BY <2>1, <2>2, <2>3 DEF TurnInv, Says
<1> QED BY <1>1, TurnKept, Queued, DeadlineArmed, PTL DEF Spec

-----------------------------------------------------------------------------
(* A wait that is said is shown. *)

\* What leaves a wait in force, what an open turn may say while one is held, and
\* what ends a turn without saying what is left.
Staying == {m \in Messages : IsKey(m) \/ m.event = "nudge"}
Bearing == {m \in Messages :
               IsKey(m) \/ m.event \in {"nudge", "ask", "question", "answer", "review"}}
Ending == {m \in Messages : m.event \in {"stop", "cancel"}}

\* Behind the i-th message the turn goes on, or ends once.
Held(line, len, i, on) ==
    /\ Behind(line, len, i, Bearing \cup Ending)
    /\ on => Behind(line, len, i, Bearing)
    /\ \A j \in i + 1 .. len : line[j] \in Ending => Behind(line, len, j, Staying)

\* A report that holds the dot at `waiting`.
InForce(live) == \E r \in live : live = {r} /\ r.status = "waiting" /\ r.ttl > 0

LEMMA KeptSays ==
    /\ Staying \subseteq Bearing /\ Staying \subseteq Bearing \cup Ending
    /\ \A m \in Bearing : m \notin Ending
    /\ \A m \in Bearing \cup Ending : ~SaysWaiting(m)
    /\ \A m \in Messages : IsKey(m) => m \in Staying
    /\ \A m \in Bearing : m \notin Closing
    /\ \A m \in Ending : m \in Closing
<1>1. \A m \in Messages : IsKey(m) => m.event \notin {"own", "stopBusy", "stop", "cancel", "failure",
                                                     "stopIdle", "cancelIdle"}
  BY KnownKinds DEF IsKey, KeyEvents
<1>2. \A m \in Messages : m.status = "waiting" => m.event = "own"
  BY DEF Messages
<1>3. \A m \in Bearing : m \in Messages /\ (IsKey(m)
            \/ m.event \in {"nudge", "ask", "question", "answer", "review"})
  BY DEF Bearing
<1>4. \A m \in Bearing : m.event \notin {"own", "stopBusy", "stop", "cancel", "failure",
                                         "stopIdle", "cancelIdle"}
  BY <1>1, <1>3
<1>5. \A m \in Ending : m \in Messages /\ m.event \in {"stop", "cancel"}
  BY DEF Ending
<1>6. \A m \in Bearing \cup Ending : ~SaysWaiting(m)
  BY <1>2, <1>3, <1>4, <1>5 DEF SaysWaiting
<1>7. Staying \subseteq Bearing
  BY DEF Staying, Bearing
<1> QED BY <1>4, <1>5, <1>6, <1>7 DEF Staying, Closing

LEMMA HeldGrown ==
    ASSUME NEW a, NEW b, NEW L \in Nat, \A i \in 1 .. L : b[i] = a[i],
           NEW on, NEW next,
           \/ b[L + 1] \in Staying /\ (next => on)
           \/ b[L + 1] \in Bearing /\ on
           \/ b[L + 1] \in Ending /\ on /\ ~next
    PROVE  /\ \A i \in 0 .. L : Held(a, L, i, on) => Held(b, L + 1, i, next)
           /\ Held(b, L + 1, L + 1, next)
<1>1. \A kept : /\ \A i \in 0 .. L :
                     Behind(a, L, i, kept) /\ b[L + 1] \in kept => Behind(b, L + 1, i, kept)
                /\ Behind(b, L + 1, L + 1, kept)
  BY BehindGrown
<1>2. \A j \in L + 1 + 1 .. L + 1 : FALSE
  OBVIOUS
<1>3. Held(b, L + 1, L + 1, next)
  BY <1>1, <1>2 DEF Held
<1>4. ASSUME NEW i \in 0 .. L, Held(a, L, i, on)
      PROVE  Held(b, L + 1, i, next)
  <2>1. b[L + 1] \in Bearing \cup Ending
    BY KeptSays
  <2>2. Behind(b, L + 1, i, Bearing \cup Ending)
    BY <1>1, <1>4, <2>1 DEF Held
  <2>3. ASSUME next PROVE Behind(b, L + 1, i, Bearing)
    <3>1. on /\ b[L + 1] \in Bearing
      BY <2>3, KeptSays
    <3> QED BY <1>1, <1>4, <3>1 DEF Held
  <2>4. ASSUME NEW j \in i + 1 .. L + 1, b[j] \in Ending
        PROVE  Behind(b, L + 1, j, Staying)
    <3>1. CASE j = L + 1
      BY <1>1, <3>1
    <3>2. CASE j # L + 1
      <4>1. j \in i + 1 .. L /\ j \in 1 .. L /\ j \in 0 .. L
        BY <3>2
      <4>2. a[j] \in Ending
        BY <2>4, <4>1
      <4>3. ~on
        <5>1. Behind(a, L, i, Bearing) => a[j] \in Bearing
          BY <4>1 DEF Behind
        <5> QED BY <1>4, <4>2, <5>1, KeptSays DEF Held
      <4>4. b[L + 1] \in Staying /\ Behind(a, L, j, Staying)
        BY <1>4, <4>1, <4>2, <4>3 DEF Held
      <4> QED BY <1>1, <4>1, <4>4
    <3> QED BY <3>1, <3>2
  <2> QED BY <2>2, <2>3, <2>4 DEF Held
<1> QED BY <1>3, <1>4

LEMMA HeldCut ==
    ASSUME NEW a, NEW b, NEW L \in Nat \ {0}, NEW n \in 1 .. L,
           \A j \in 1 .. L - 1 : b[j] = a[Was(n, j)], NEW on, a[n] \notin Ending
    PROVE  \A i \in 0 .. L : i # n /\ Held(a, L, i, on) => Held(b, L - 1, Now(n, i), on)
<1>1. \A kept : \A i \in 0 .. L : i # n =>
             (Behind(a, L, i, kept) => Behind(b, L - 1, Now(n, i), kept))
  <2>1. TakenOut(a, b, L, n)
    BY DEF TakenOut
  <2>2. \A kept : \A i \in 0 .. L : i # n => MovesUp(a, b, L, n, i, kept)
    BY <2>1, BehindCut
  <2> QED BY <2>2 DEF MovesUp
<1>2. SUFFICES ASSUME NEW i \in 0 .. L, i # n, Held(a, L, i, on)
               PROVE  Held(b, L - 1, Now(n, i), on)
  OBVIOUS
<1>3. /\ Behind(b, L - 1, Now(n, i), Bearing \cup Ending)
      /\ on => Behind(b, L - 1, Now(n, i), Bearing)
  BY <1>1, <1>2 DEF Held
<1>4. ASSUME NEW j \in Now(n, i) + 1 .. L - 1, b[j] \in Ending
      PROVE  Behind(b, L - 1, j, Staying)
  <2>1. /\ j \in 1 .. L - 1 /\ Was(n, j) \in i + 1 .. L /\ Was(n, j) \in 0 .. L
        /\ Was(n, j) # n /\ Now(n, Was(n, j)) = j
    BY <1>2 DEF Now, Was
  <2>2. Behind(a, L, Was(n, j), Staying)
    BY <1>2, <1>4, <2>1 DEF Held
  <2> QED BY <1>1, <2>1, <2>2
<1> QED BY <1>3, <1>4 DEF Held

LEMMA HeldServed ==
    ASSUME NEW a, NEW b, NEW L \in Nat \ {0}, \A j \in 1 .. L - 1 : b[j] = a[j + 1], NEW on
    PROVE  /\ \A i \in 1 .. L : Held(a, L, i, on) => Held(b, L - 1, i - 1, on)
           /\ Held(a, L, 0, on) =>
                /\ a[1] \in Bearing \/ (a[1] \in Ending /\ ~on)
                /\ a[1] \in Ending => Behind(b, L - 1, 0, Staying)
                /\ Held(b, L - 1, 0, on)
<1>1. \A kept : /\ \A i \in 1 .. L : Behind(a, L, i, kept) => Behind(b, L - 1, i - 1, kept)
                /\ Behind(a, L, 0, kept) => a[1] \in kept
  BY BehindServed
<1>2. ASSUME NEW i \in 1 .. L, Held(a, L, i, on)
      PROVE  Held(b, L - 1, i - 1, on)
  <2>1. /\ Behind(b, L - 1, i - 1, Bearing \cup Ending)
        /\ on => Behind(b, L - 1, i - 1, Bearing)
    BY <1>1, <1>2 DEF Held
  <2>2. ASSUME NEW j \in i - 1 + 1 .. L - 1, b[j] \in Ending
        PROVE  Behind(b, L - 1, j, Staying)
    <3>1. j \in 1 .. L - 1 /\ j + 1 \in i + 1 .. L /\ j + 1 \in 1 .. L /\ (j + 1) - 1 = j
      OBVIOUS
    <3>2. Behind(a, L, j + 1, Staying)
      BY <1>2, <2>2, <3>1 DEF Held
    <3>3. Behind(b, L - 1, (j + 1) - 1, Staying)
      BY <1>1, <3>1, <3>2
    <3> QED BY <3>1, <3>3
  <2> QED BY <2>1, <2>2 DEF Held
<1>3. ASSUME Held(a, L, 0, on)
      PROVE  /\ a[1] \in Bearing \/ (a[1] \in Ending /\ ~on)
             /\ a[1] \in Ending => Behind(b, L - 1, 0, Staying)
             /\ Held(b, L - 1, 0, on)
  <2>1. 1 \in 1 .. L /\ 1 \in 0 + 1 .. L /\ 1 - 1 = 0
    OBVIOUS
  <2>2. \A kept : Behind(a, L, 0, kept) => Behind(a, L, 1, kept)
    <3>1. \A j \in 1 + 1 .. L : j \in 0 + 1 .. L
      OBVIOUS
    <3> QED BY <3>1 DEF Behind
  <2>3. \A j \in 1 + 1 .. L : j \in 0 + 1 .. L
    OBVIOUS
  <2>4. Held(a, L, 1, on)
    BY <1>3, <2>2, <2>3 DEF Held
  <2>5. Held(b, L - 1, 0, on)
    BY <1>2, <2>1, <2>4
  <2>6. a[1] \in Ending => Behind(b, L - 1, 0, Staying)
    <3>1. a[1] \in Ending => Behind(a, L, 1, Staying)
      BY <1>3, <2>1 DEF Held
    <3> QED BY <1>1, <2>1, <3>1
  <2>7. a[1] \in Bearing \/ (a[1] \in Ending /\ ~on)
    BY <1>1, <1>3 DEF Held
  <2> QED BY <2>5, <2>6, <2>7
<1> QED BY <1>2, <1>3

\* The wait the agent last spoke of is on its way and nothing behind it ends it,
\* or is in force, or is held for the end of the open turn.
WaitStands ==
    \/ \E i \in 1 .. Ahead :
          /\ SaysWaiting(Line[i])
          /\ \/ ~turn /\ Behind(Line, Ahead, i, Staying)
             \/ Line[i].event = "own" /\ OpenAt(i) /\ Held(Line, Ahead, i, turn)
    \/ InForce(reported) /\ ~turn /\ Behind(Line, Ahead, 0, Staying)
    \/ InForce(heldWaiting) /\ turnOpen /\ Held(Line, Ahead, 0, turn)

PendingInv == announced => ~exited /\ WaitStands

LEMMA WaitGrown ==
    ASSUME WaitStands, NEW m \in Messages, Ahead \in Nat, Ahead' = Ahead + 1,
           Line'[Ahead + 1] = m, \A i \in 1 .. Ahead : Line'[i] = Line[i],
           UNCHANGED <<reported, heldWaiting, turnOpen>>,
           \/ m \in Staying /\ (turn' <=> turn)
           \/ m \in Bearing /\ turn /\ turn'
           \/ m \in Ending /\ turn /\ ~turn'
    PROVE  WaitStands'
<1>1. PICK a, b, L, on, next :
         a = Line /\ b = Line' /\ L = Ahead /\ on = turn /\ next = turn'
  OBVIOUS
<1>2. L \in Nat /\ b[L + 1] = m /\ Ahead' = L + 1
  BY <1>1
<1>3. \A i \in 1 .. L : b[i] = a[i]
  BY <1>1
<1>4. \/ b[L + 1] \in Staying /\ (next <=> on)
      \/ b[L + 1] \in Bearing /\ on /\ next
      \/ b[L + 1] \in Ending /\ on /\ ~next
  BY <1>1, <1>2
<1>5. \A i \in 0 .. L : Held(a, L, i, on) => Held(b, L + 1, i, next)
  BY <1>2, <1>3, <1>4, HeldGrown
<1>6. ~on => b[L + 1] \in Staying /\ ~next
  BY <1>4
<1>7. \A i \in 0 .. L : ~on /\ Behind(a, L, i, Staying) => Behind(b, L + 1, i, Staying)
  BY <1>2, <1>3, <1>6, BehindGrown
<1>8. \A i \in 1 .. L : OpenAt(i)' <=> OpenAt(i)
  <2>1. \A i \in 1 .. L + 1 : OpenAt(i)' <=> OpenAt(i)
    BY <1>1, OpenGrown
  <2>2. \A i \in 1 .. L : i \in 1 .. L + 1
    BY <1>2
  <2> QED BY <2>1, <2>2
<1>9. \A i \in 1 .. L : i \in 1 .. L + 1 /\ i \in 0 .. L
  BY <1>2
<1>10. ASSUME NEW i \in 1 .. L, SaysWaiting(a[i]), ~on, Behind(a, L, i, Staying)
       PROVE  WaitStands'
  <2>1. i \in 1 .. L + 1 /\ SaysWaiting(b[i])
    BY <1>3, <1>9, <1>10
  <2>2. ~next /\ Behind(b, L + 1, i, Staying)
    BY <1>6, <1>7, <1>9, <1>10
  <2> QED BY <1>1, <1>2, <2>1, <2>2 DEF WaitStands
<1>11. ASSUME NEW i \in 1 .. L, SaysWaiting(a[i]), a[i].event = "own", OpenAt(i),
              Held(a, L, i, on)
       PROVE  WaitStands'
  <2>1. i \in 1 .. L + 1 /\ SaysWaiting(b[i]) /\ b[i].event = "own"
    BY <1>3, <1>9, <1>11
  <2>2. OpenAt(i)' /\ Held(b, L + 1, i, next)
    BY <1>5, <1>8, <1>9, <1>11
  <2> QED BY <1>1, <1>2, <2>1, <2>2 DEF WaitStands
<1>12. 0 \in 0 .. L
  BY <1>2
<1>13. ASSUME InForce(reported), ~on, Behind(a, L, 0, Staying)
       PROVE  WaitStands'
  <2>1. ~next /\ Behind(b, L + 1, 0, Staying)
    BY <1>6, <1>7, <1>12, <1>13
  <2> QED BY <1>1, <1>2, <1>13, <2>1 DEF WaitStands, InForce
<1>14. ASSUME InForce(heldWaiting), turnOpen, Held(a, L, 0, on)
       PROVE  WaitStands'
  <2>1. Held(b, L + 1, 0, next)
    BY <1>5, <1>12, <1>14
  <2> QED BY <1>1, <1>2, <1>14, <2>1 DEF WaitStands, InForce
<1> QED BY <1>1, <1>10, <1>11, <1>13, <1>14 DEF WaitStands

\* What is last in the queue and says that work is left behind stands there.
LEMMA WaitSent ==
    ASSUME NEW i \in Nat \ {0}, Ahead' = i, SaysWaiting(Line'[i]),
           ~turn' \/ (Line'[i].event = "own" /\ OpenAt(i)')
    PROVE  WaitStands'
<1>1. i \in 1 .. i /\ \A j \in i + 1 .. i : FALSE
  OBVIOUS
<1>2. \A line, kept : Behind(line, i, i, kept)
  BY <1>1 DEF Behind
<1>3. \A line, on : Held(line, i, i, on)
  BY <1>1, <1>2 DEF Held
<1> QED BY <1>1, <1>2, <1>3 DEF WaitStands

\* Steps that leave the queue and what is in force as they were, but that a wait
\* may be nearer its end.
LEMMA WaitSame ==
    ASSUME WaitStands, Ahead' = Ahead, Line' = Line, turnOpen' <=> turnOpen, turn' => turn,
           \/ /\ InForce(reported) => InForce(reported')
              /\ InForce(heldWaiting) => InForce(heldWaiting')
           \/ \E i \in 1 .. Ahead : SaysWaiting(Line[i])
    PROVE  WaitStands'
<1>1. Ahead' = Ahead /\ Line' = Line /\ \A i : OpenAt(i)' <=> OpenAt(i)
  BY DEF OpenAt, Stands
<1>2. \A i : Held(Line, Ahead, i, turn) => Held(Line, Ahead, i, turn')
  BY DEF Held
<1>3. ASSUME NEW i \in 1 .. Ahead, SaysWaiting(Line[i]), ~turn, Behind(Line, Ahead, i, Staying)
      PROVE  WaitStands'
  BY <1>1, <1>3 DEF WaitStands
<1>4. ASSUME NEW i \in 1 .. Ahead, SaysWaiting(Line[i]), Line[i].event = "own", OpenAt(i),
             Held(Line, Ahead, i, turn)
      PROVE  WaitStands'
  BY <1>1, <1>2, <1>4 DEF WaitStands
<1>5. ASSUME InForce(reported), ~turn, Behind(Line, Ahead, 0, Staying)
      PROVE  WaitStands'
  <2>1. \A i \in 1 .. Ahead : ~SaysWaiting(Line[i])
    BY <1>5, KeptSays DEF Behind
  <2> QED BY <1>1, <1>5, <2>1 DEF WaitStands, InForce
<1>6. ASSUME InForce(heldWaiting), turnOpen, Held(Line, Ahead, 0, turn)
      PROVE  WaitStands'
  <2>1. \A i \in 1 .. Ahead : ~SaysWaiting(Line[i])
    BY <1>6, KeptSays DEF Held, Behind
  <2> QED BY <1>1, <1>2, <1>6, <2>1 DEF WaitStands, InForce
<1> QED BY <1>3, <1>4, <1>5, <1>6 DEF WaitStands

\* A wait that is reported is in force, or held for the end of the turn.
LEMMA WaitApplies ==
    ASSUME NEW m \in Messages, ~IsKey(m), SaysWaiting(m), Apply(m)
    PROVE  IF m.event = "own" /\ turnOpen
           THEN InForce(heldWaiting') /\ (turnOpen' <=> turnOpen) ELSE InForce(reported')
<1>1. InForce({NewReport("waiting")})
  <2>1. NewReport("waiting").status = "waiting" /\ NewReport("waiting").ttl = WaitTtl
    BY DEF NewReport
  <2>2. WaitTtl > 0
    BY WindowsAreTimes
  <2> QED BY <2>1, <2>2 DEF InForce
<1>2. m.event \in {"own", "stopBusy"} /\ Status(m) = "waiting"
  BY DEF SaysWaiting, Status, Messages
<1>3. CASE m.event = "own" /\ turnOpen
  <2>1. HoldsForTurnEnd(m) /\ ~FromHook(m)
    BY <1>2, <1>3 DEF HoldsForTurnEnd, FromHook
  <2>2. heldWaiting' = {NewReport("waiting")} /\ (turnOpen' <=> turnOpen)
    BY <2>1 DEF Apply
  <2> QED BY <1>1, <1>3, <2>2
<1>4. CASE ~(m.event = "own" /\ turnOpen)
  <2>1. ~HoldsForTurnEnd(m) /\ LetsThrough(m)
    BY <1>2, <1>4 DEF HoldsForTurnEnd, FromHook, LetsThrough
  <2>2. \A live : Meet(live, m) = "apply"
    BY <1>2 DEF Meet
  <2>3. reported' = {NewReport("waiting")}
    BY <1>2, <2>1, <2>2 DEF Apply
  <2> QED BY <1>1, <1>4, <2>3
<1> QED BY <1>3, <1>4

\* A nudge leaves a wait in force.
LEMMA NudgeStays ==
    ASSUME NEW m \in Staying, ~IsKey(m), InForce(reported), Apply(m)
    PROVE  reported' = reported
<1>1. m.event = "nudge"
  BY DEF Staying
<1>2. FromHook(m) /\ Status(m) = "done" /\ (TurnOpenAfter(m) <=> turnOpen)
  BY <1>1 DEF FromHook, Status, TurnOpenAfter
<1>3. ~HoldsForTurnEnd(m) /\ ~(FromHook(m) /\ turnOpen /\ ~TurnOpenAfter(m))
  BY <1>2 DEF HoldsForTurnEnd
<1>4. Waiting(reported) # {}
  BY DEF InForce, Waiting
<1>5. Meet(reported, m) = "absorb"
  BY <1>1, <1>2, <1>4 DEF Meet
<1> QED BY <1>3, <1>5 DEF Apply

\* What a turn says while it goes on leaves it open, and what is held in it.
LEMMA BearingHolds ==
    ASSUME NEW m \in Bearing, ~IsKey(m), turnOpen, Apply(m)
    PROVE  turnOpen' /\ heldWaiting' = heldWaiting
<1>1. m \in Messages /\ m.event \in {"nudge", "ask", "question", "answer", "review"}
  BY DEF Bearing
<1>2. FromHook(m) /\ m \notin Closing
  BY <1>1, KeptSays DEF FromHook
<1>3. TurnOpenAfter(m)
  BY <1>1, <1>2, TurnSays
<1>4. ~HoldsForTurnEnd(m)
  BY <1>2 DEF HoldsForTurnEnd
<1> QED BY <1>2, <1>3, <1>4 DEF Apply

\* The end of the turn puts in force what was held for it.
LEMMA EndingPromotes ==
    ASSUME Shape, TurnInv, NEW m \in Ending, turnOpen, InForce(heldWaiting), Apply(m)
    PROVE  InForce(reported')
<1>1. m \in Messages /\ m.event \in {"stop", "cancel"}
  BY DEF Ending
<1>2. FromHook(m) /\ Status(m) \in {"done", "idle"} /\ WakesPending(m) = {}
  BY <1>1 DEF FromHook, Status, WakesPending
<1>3. ~TurnOpenAfter(m) /\ ~HoldsForTurnEnd(m)
  BY <1>1, <1>2 DEF TurnOpenAfter, HoldsForTurnEnd
<1>4. PICK r \in heldWaiting : heldWaiting = {r} /\ r.status = "waiting" /\ r.ttl > 0
  BY DEF InForce
<1>5. IsReport(r) /\ ~r.absorbed
  BY <1>4 DEF Shape, Optional, TurnInv
<1>6. Waiting(heldWaiting) # {} /\ \A q \in Waiting(heldWaiting) : ~q.absorbed
  BY <1>4, <1>5 DEF Waiting
<1>7. Meet(heldWaiting, m) = "absorbTurnEnd"
  BY <1>1, <1>2, <1>6 DEF Meet
<1>8. reported' = {[q EXCEPT !.absorbed = TRUE] : q \in heldWaiting}
  BY <1>2, <1>3, <1>4, <1>7 DEF Apply
<1>9. PICK x : x = [r EXCEPT !.absorbed = TRUE]
  OBVIOUS
<1>10. reported' = {x}
  BY <1>4, <1>8, <1>9
<1>11. x.status = "waiting" /\ x.ttl > 0
  BY <1>4, <1>5, <1>9, AbsorbedSays
<1> QED BY <1>10, <1>11 DEF InForce

LEMMA WaitServed ==
    ASSUME Shape, QueueInv, TurnInv, WaitStands, Serve, ~closed
    PROVE  WaitStands'
<1>1. PICK a, b, L, m, on : a = Line /\ b = Line' /\ L = Ahead /\ m = Line[1] /\ on = turn
  OBVIOUS
<1>2. /\ L \in Nat \ {0} /\ Ahead' = L - 1 /\ m = Head(pending) /\ ~IsKey(m)
      /\ turn' = turn
  BY <1>1, Served DEF Serve, agentVars
<1>3. m \in Messages
  <2>1. 1 \in 1 .. L
    BY <1>2
  <2> QED BY <1>1, <2>1, LineSays
<1>4. Apply(m)
  BY <1>2 DEF Serve
<1>5. \A j \in 1 .. L - 1 : b[j] = a[j + 1]
  BY <1>1, Served
<1>6. L \in Nat \ {0}
  BY <1>2
<1>7. /\ \A i \in 1 .. L : Behind(a, L, i, Staying) => Behind(b, L - 1, i - 1, Staying)
      /\ \A i \in 1 .. L : Held(a, L, i, on) => Held(b, L - 1, i - 1, on)
  BY <1>5, <1>6, BehindServed, HeldServed
<1>8. \A i \in 1 .. L : i # 1 => i - 1 \in 1 .. L - 1 /\ b[i - 1] = a[i] /\ (i - 1) + 1 = i
                                 /\ i - 1 \in 1 .. L
  <2>1. \A i \in 1 .. L : i # 1 => i - 1 \in 1 .. L - 1 /\ (i - 1) + 1 = i /\ i - 1 \in 1 .. L
    BY <1>6
  <2> QED BY <1>5, <2>1
<1>9. 1 \in 1 .. L /\ 1 - 1 = 0
  BY <1>6
<1>10. ASSUME InForce(reported'), ~on, Behind(b, L - 1, 0, Staying)
       PROVE  WaitStands'
  BY <1>1, <1>2, <1>10 DEF WaitStands, InForce
<1>11. ASSUME InForce(heldWaiting'), turnOpen', Held(b, L - 1, 0, on)
       PROVE  WaitStands'
  BY <1>1, <1>2, <1>11 DEF WaitStands, InForce
<1>12. ASSUME NEW i \in 1 .. L, SaysWaiting(a[i]), ~on, Behind(a, L, i, Staying)
       PROVE  WaitStands'
  <2>1. CASE i = 1
    <3>1. Behind(b, L - 1, 0, Staying) /\ SaysWaiting(m)
      BY <1>1, <1>7, <1>9, <1>12, <2>1
    <3>2. Held(b, L - 1, 0, on)
      <4>1. \A j \in 0 + 1 .. L - 1 : b[j] \in Staying
        BY <3>1 DEF Behind
      <4>2. \A j \in 0 + 1 .. L - 1 : b[j] \in Bearing \cup Ending /\ b[j] \notin Ending
        BY <4>1, KeptSays
      <4> QED BY <1>12, <4>2 DEF Held, Behind
    <3>3. CASE m.event = "own" /\ turnOpen
      <4>1. InForce(heldWaiting') /\ turnOpen'
        BY <1>2, <1>3, <1>4, <3>1, <3>3, WaitApplies
      <4> QED BY <1>11, <3>2, <4>1
    <3>4. CASE ~(m.event = "own" /\ turnOpen)
      <4>1. InForce(reported')
        BY <1>2, <1>3, <1>4, <3>1, <3>4, WaitApplies
      <4> QED BY <1>10, <1>12, <3>1, <4>1
    <3> QED BY <3>3, <3>4
  <2>2. CASE i # 1
    <3>1. i - 1 \in 1 .. L - 1 /\ SaysWaiting(b[i - 1]) /\ Behind(b, L - 1, i - 1, Staying)
      BY <1>7, <1>8, <1>12, <2>2
    <3> QED BY <1>1, <1>2, <1>12, <3>1 DEF WaitStands
  <2> QED BY <2>1, <2>2
<1>13. ASSUME NEW i \in 1 .. L, SaysWaiting(a[i]), a[i].event = "own", OpenAt(i),
              Held(a, L, i, on)
       PROVE  WaitStands'
  <2>1. CASE i = 1
    <3>1. Held(b, L - 1, 0, on) /\ SaysWaiting(m) /\ m.event = "own"
      BY <1>1, <1>7, <1>9, <1>13, <2>1
    <3>2. turnOpen
      <4>1. \A j \in 1 .. 1 - 1 : FALSE
        OBVIOUS
      <4> QED BY <1>13, <2>1, <4>1 DEF OpenAt, Stands
    <3>3. InForce(heldWaiting') /\ turnOpen'
      BY <1>2, <1>3, <1>4, <3>1, <3>2, WaitApplies
    <3> QED BY <1>11, <3>1, <3>3
  <2>2. CASE i # 1
    <3>1. /\ i - 1 \in 1 .. L - 1 /\ SaysWaiting(b[i - 1]) /\ b[i - 1].event = "own"
          /\ Held(b, L - 1, i - 1, on)
      BY <1>7, <1>8, <1>13, <2>2
    <3>2. OpenAt(i - 1)'
      <4>1. PICK k : k = i - 1
        OBVIOUS
      <4>2. k \in 1 .. L /\ k + 1 = i
        BY <1>8, <1>13, <2>2, <4>1
      <4>3. \A j \in 1 .. L : OpenAt(j)' <=> OpenAt(j + 1)
        BY <1>1, OpenServed
      <4>4. OpenAt(k)'
        BY <1>13, <4>2, <4>3
      <4> QED BY <4>1, <4>4
    <3> QED BY <1>1, <1>2, <3>1, <3>2 DEF WaitStands
  <2> QED BY <2>1, <2>2
<1>14. ASSUME InForce(reported), ~on, Behind(a, L, 0, Staying)
       PROVE  WaitStands'
  <2>1. a[1] \in Staying /\ Behind(b, L - 1, 0, Staying)
    BY <1>5, <1>6, <1>14, BehindServed
  <2>2. reported' = reported
    BY <1>1, <1>2, <1>4, <1>14, <2>1, NudgeStays
  <2>3. InForce(reported')
    BY <1>14, <2>2 DEF InForce
  <2> QED BY <1>10, <1>14, <2>1, <2>3
<1>15. ASSUME InForce(heldWaiting), turnOpen, Held(a, L, 0, on)
       PROVE  WaitStands'
  <2>1. /\ a[1] \in Bearing \/ (a[1] \in Ending /\ ~on)
        /\ a[1] \in Ending => Behind(b, L - 1, 0, Staying)
        /\ Held(b, L - 1, 0, on)
    BY <1>5, <1>6, <1>15, HeldServed
  <2>2. CASE a[1] \in Bearing
    <3>1. turnOpen' /\ heldWaiting' = heldWaiting
      BY <1>1, <1>2, <1>4, <1>15, <2>2, BearingHolds
    <3>2. InForce(heldWaiting')
      BY <1>15, <3>1 DEF InForce
    <3> QED BY <1>11, <2>1, <3>1, <3>2
  <2>3. CASE a[1] \in Ending /\ ~on
    <3>1. InForce(reported')
      BY <1>1, <1>4, <1>15, <2>3, EndingPromotes
    <3> QED BY <1>10, <2>1, <2>3, <3>1
  <2> QED BY <2>1, <2>2, <2>3
<1> QED BY <1>1, <1>12, <1>13, <1>14, <1>15 DEF WaitStands

\* The wait is not the key's to end, or is said again.
LEMMA WaitCut ==
    ASSUME QueueInv, WaitStands, NEW n \in 1 .. Ahead, IsKey(Line[n]), Ahead' = Ahead - 1,
           \A j \in 1 .. Ahead - 1 : Line'[j] = Line[Was(n, j)],
           turnOpen' = turnOpen, turn' = turn,
           \/ reported' = reported /\ heldWaiting' = heldWaiting
           \/ /\ InForce(reported) => InForce(reported')
              /\ InForce(heldWaiting) => InForce(heldWaiting')
           \/ \E i \in 1 .. Ahead : SaysWaiting(Line[i])
    PROVE  WaitStands'
<1>1. PICK a, b, L, on : a = Line /\ b = Line' /\ L = Ahead /\ on = turn
  OBVIOUS
<1>2. L \in Nat \ {0} /\ n \in 1 .. L /\ Ahead' = L - 1
  BY <1>1, LineSays
<1>3. \A j \in 1 .. L - 1 : b[j] = a[Was(n, j)]
  BY <1>1
<1>4. a[n] \in Staying /\ a[n] \notin Ending /\ ~SaysWaiting(a[n])
  BY <1>1, LineSays, KeptSays
<1>5. \A i \in 0 .. L : i # n =>
        /\ Behind(a, L, i, Staying) => Behind(b, L - 1, Now(n, i), Staying)
        /\ i # 0 => Now(n, i) \in 1 .. L - 1 /\ Was(n, Now(n, i)) = i /\ b[Now(n, i)] = a[i]
        /\ i = 0 => Now(n, i) = 0
  <2>1. L \in Nat \ {0} /\ n \in 1 .. L
    BY <1>2
  <2>2. PICK kept : kept = Staying
    OBVIOUS
  <2>3. \A i \in 0 .. L : i # n =>
        /\ Behind(a, L, i, kept) => Behind(b, L - 1, Now(n, i), kept)
        /\ i # 0 => Now(n, i) \in 1 .. L - 1 /\ Was(n, Now(n, i)) = i /\ b[Now(n, i)] = a[i]
        /\ i = 0 => Now(n, i) = 0
    <3>1. TakenOut(a, b, L, n)
      BY <1>3 DEF TakenOut
    <3>2. \A i \in 0 .. L : i # n => MovesUp(a, b, L, n, i, kept)
      BY <2>1, <3>1, BehindCut
    <3> QED BY <3>2 DEF MovesUp
  <2> QED BY <2>2, <2>3
<1>6. \A i \in 0 .. L : i # n /\ Held(a, L, i, on) => Held(b, L - 1, Now(n, i), on)
  BY <1>2, <1>3, <1>4, HeldCut
<1>7. \A i \in 1 .. L : OpenAt(i)' <=> OpenAt(Was(n, i))
  BY <1>1, OpenCut
<1>8. \A i \in 1 .. L : i \in 0 .. L /\ i # 0
  BY <1>2
<1>9. 0 \in 0 .. L /\ 0 # n
  BY <1>2
<1>10. ASSUME NEW i \in 1 .. L, SaysWaiting(a[i]), ~on, Behind(a, L, i, Staying)
       PROVE  WaitStands'
  <2>1. i # n
    BY <1>4, <1>10
  <2>2. /\ Now(n, i) \in 1 .. L - 1 /\ SaysWaiting(b[Now(n, i)])
        /\ Behind(b, L - 1, Now(n, i), Staying)
    BY <1>5, <1>8, <1>10, <2>1
  <2> QED BY <1>1, <1>2, <1>10, <2>2 DEF WaitStands
<1>11. ASSUME NEW i \in 1 .. L, SaysWaiting(a[i]), a[i].event = "own", OpenAt(i),
              Held(a, L, i, on)
       PROVE  WaitStands'
  <2>1. i # n
    BY <1>4, <1>11
  <2>2. PICK k : k = Now(n, i)
    OBVIOUS
  <2>3. /\ k \in 1 .. L - 1 /\ SaysWaiting(b[k]) /\ b[k].event = "own" /\ Was(n, k) = i
        /\ Held(b, L - 1, k, on)
    BY <1>5, <1>6, <1>8, <1>11, <2>1, <2>2
  <2>4. k \in 1 .. L
    BY <1>2, <2>3
  <2>5. OpenAt(k)'
    BY <1>7, <1>11, <2>3, <2>4
  <2> QED BY <1>1, <1>2, <2>3, <2>5 DEF WaitStands
<1>12. ASSUME InForce(reported), ~on, Behind(a, L, 0, Staying)
       PROVE  WaitStands'
  <2>1. \A i \in 1 .. L : ~SaysWaiting(a[i])
    <3>1. \A i \in 1 .. L : i \in 0 + 1 .. L
      BY <1>2
    <3> QED BY <1>12, <3>1, KeptSays DEF Behind
  <2>2. InForce(reported')
    BY <1>1, <1>12, <2>1 DEF InForce
  <2>3. Behind(b, L - 1, 0, Staying)
    BY <1>5, <1>9, <1>12
  <2> QED BY <1>1, <1>2, <1>12, <2>2, <2>3 DEF WaitStands, InForce
<1>13. ASSUME InForce(heldWaiting), turnOpen, Held(a, L, 0, on)
       PROVE  WaitStands'
  <2>1. \A i \in 1 .. L : ~SaysWaiting(a[i])
    <3>1. \A i \in 1 .. L : i \in 0 + 1 .. L
      BY <1>2
    <3> QED BY <1>13, <3>1, KeptSays DEF Held, Behind
  <2>2. InForce(heldWaiting')
    BY <1>1, <1>13, <2>1 DEF InForce
  <2>3. Held(b, L - 1, 0, on)
    <3>1. Now(n, 0) = 0
      BY <1>5, <1>9
    <3> QED BY <1>6, <1>9, <1>13, <3>1
  <2> QED BY <1>1, <1>2, <1>13, <2>2, <2>3 DEF WaitStands, InForce
<1> QED BY <1>1, <1>10, <1>11, <1>12, <1>13 DEF WaitStands

\* The key that is dispatched is one of the queue, and if an Enter does not take
\* the promise back, something of the channel makes it again.
LEMMA WaitReceived ==
    ASSUME QueueInv, PendingInv, Recv
    PROVE  PendingInv'
<1>1. UNCHANGED <<turn, turnOpen, exited>>
  BY DEF Recv
<1>2. CASE /\ Ahead' = Ahead /\ \A i \in 1 .. Ahead : Line'[i] = Line[i]
           /\ UNCHANGED <<reported, heldWaiting, ghosts>>
  <2>1. Line' = Line /\ Ahead' = Ahead
    BY <1>2, LineEquals
  <2>2. WaitStands => WaitStands'
    BY <1>1, <1>2, <2>1, WaitSame DEF InForce
  <2> QED BY <1>1, <1>2, <2>2 DEF PendingInv, ghosts
<1>3. ASSUME NEW n \in 1 .. Ahead, IsKey(Line[n]), Ahead' = Ahead - 1,
             \A j \in 1 .. Ahead - 1 : Line'[j] = Line[Was(n, j)], Dispatch(Line[n].event)
      PROVE  PendingInv'
  <2> SUFFICES ASSUME announced' PROVE ~exited' /\ WaitStands'
    BY DEF PendingInv
  <2>1. \/ announced' = announced /\ reported' = reported /\ heldWaiting' = heldWaiting
        \/ Press(Line[n].event = "esc")
    BY <1>3 DEF Dispatch, ghosts
  <2>2. announced
    <3>1. Press(Line[n].event = "esc") => announced
      BY DEF Press
    <3> QED BY <2>1, <3>1
  <2>3. ~exited /\ WaitStands
    BY <2>2 DEF PendingInv
  <2>4. \/ reported' = reported /\ heldWaiting' = heldWaiting
        \/ /\ InForce(reported) => InForce(reported')
           /\ InForce(heldWaiting) => InForce(heldWaiting')
        \/ \E i \in 1 .. Ahead : SaysWaiting(Line[i])
    <3>1. CASE announced' = announced /\ reported' = reported /\ heldWaiting' = heldWaiting
      BY <3>1
    <3>2. ASSUME Press(TRUE)
          PROVE  /\ InForce(reported) => InForce(reported')
                 /\ InForce(heldWaiting) => InForce(heldWaiting')
      <4>1. heldWaiting' = heldWaiting /\ reported' = LeftByKey(TRUE)
        BY <3>2 DEF Press
      <4>2. ASSUME NEW r \in reported, reported = {r}, r.status = "waiting"
            PROVE  LeftByKey(TRUE) = reported
        BY <4>2 DEF LeftByKey
      <4> QED BY <4>1, <4>2 DEF InForce
    <3>3. ASSUME Press(FALSE)
          PROVE  \E i \in 1 .. Ahead : SaysWaiting(Line[i])
      <4>1. \E m \in ToSet(chan) : SaysWaiting(m)
        BY <3>3 DEF Press
      <4>2. /\ chan \in Seq(Messages) /\ \A i \in 1 .. Ahead : Line[i] = chan[i]
            /\ Ahead = Len(chan)
        BY Received DEF QueueInv
      <4>3. DOMAIN chan = 1 .. Ahead
        BY <4>2
      <4> QED BY <4>1, <4>2, <4>3 DEF ToSet
    <3>4. (Line[n].event = "esc") \in BOOLEAN
      OBVIOUS
    <3>5. CASE Line[n].event = "esc"
      <4>1. (Line[n].event = "esc") = TRUE
        BY <3>5
      <4> QED BY <2>1, <3>2, <4>1
    <3>6. CASE Line[n].event # "esc"
      <4>1. (Line[n].event = "esc") = FALSE
        BY <3>6
      <4> QED BY <2>1, <3>3, <4>1
    <3> QED BY <3>5, <3>6
  <2>5. WaitStands'
    BY <1>1, <1>3, <2>3, <2>4, WaitCut
  <2> QED BY <1>1, <2>3, <2>5
<1> QED BY <1>2, <1>3, Received

LEMMA AgentWaits ==
    ASSUME QueueInv, TurnInv, PendingInv, Agent
    PROVE  PendingInv'
<1>1. ASSUME NEW m \in Messages, Send(m)
      PROVE  /\ ~exited' /\ ~closed /\ exited' = exited
             /\ (/\ WaitStands
                 /\ \/ m \in Staying /\ (turn' <=> turn)
                    \/ m \in Bearing /\ turn /\ turn'
                    \/ m \in Ending /\ turn /\ ~turn')
                => WaitStands'
             /\ SaysWaiting(m) /\ ~turn' => WaitStands'
             /\ SaysWaiting(m) /\ m.event = "own" /\ turn => WaitStands'
  <2>1. /\ Ahead \in Nat /\ Ahead' = Ahead + 1 /\ Line'[Ahead + 1] = m
        /\ \A i \in 1 .. Ahead : Line'[i] = Line[i]
        /\ UNCHANGED <<reported, heldWaiting, turnOpen, exited>> /\ ~exited
    BY <1>1, Sent
  <2>2. ~closed
    BY <2>1 DEF QueueInv
  <2>3. ASSUME WaitStands, \/ m \in Staying /\ (turn' <=> turn)
                           \/ m \in Bearing /\ turn /\ turn'
                           \/ m \in Ending /\ turn /\ ~turn'
        PROVE  WaitStands'
    BY <2>1, <2>3, WaitGrown
  <2>4. PICK n : n = Ahead + 1
    OBVIOUS
  <2>5. n \in Nat \ {0} /\ Ahead' = n /\ Line'[n] = m
    BY <2>1, <2>4
  <2>6. SaysWaiting(m) /\ ~turn' => WaitStands'
    BY <2>5, WaitSent
  <2>7. ASSUME SaysWaiting(m), m.event = "own", turn
        PROVE  WaitStands'
    <3>1. OpenAt(n)
      BY <2>2, <2>4, <2>7 DEF TurnInv, HeardOpen
    <3>2. \A i \in 1 .. Ahead + 1 : OpenAt(i)' <=> OpenAt(i)
      BY <2>1, OpenGrown
    <3>3. n \in 1 .. Ahead + 1
      BY <2>1, <2>4
    <3>4. OpenAt(n)'
      BY <3>1, <3>2, <3>3
    <3> QED BY <2>5, <2>7, <3>4, WaitSent
  <2> QED BY <2>1, <2>2, <2>3, <2>6, <2>7
<1>2. \A e \in Events \ {"own"} : Report(e) \in Messages /\ Report(e).event = e
  BY MessagesSay DEF Report
<1>3. {"prompt", "stop", "stopIdle", "stopBusy", "cancel", "cancelIdle", "failure", "ask",
       "nudge", "review"} \subseteq Events \ {"own"}
  BY DEF Events
<1>4. CASE StartTurn \/ FailTurn \/ Exit
  BY <1>4 DEF StartTurn, FailTurn, Exit, PendingInv
<1>5. ASSUME NEW e \in {"stop", "stopIdle", "stopBusy", "cancel", "cancelIdle"},
             Send(Report(e)), turn, ~turn',
             announced' <=> e = "stopBusy" \/ (e \in {"stop", "cancel"} /\ announced)
      PROVE  PendingInv'
  <2>1. PICK m : m = Report(e)
    OBVIOUS
  <2>2. m \in Messages /\ m.event = e
    BY <1>2, <1>3, <2>1
  <2>3. CASE e = "stopBusy"
    <3>1. SaysWaiting(m)
      BY <2>2, <2>3 DEF SaysWaiting
    <3>2. ~exited' /\ WaitStands'
      BY <1>1, <1>5, <2>1, <2>2, <3>1
    <3> QED BY <3>2 DEF PendingInv
  <2>4. CASE e \in {"stop", "cancel"}
    <3>1. m \in Ending
      BY <2>2, <2>4 DEF Ending
    <3>2. ~exited' /\ (WaitStands => WaitStands')
      BY <1>1, <1>5, <2>1, <2>2, <3>1
    <3>3. announced' => announced
      BY <1>5, <2>4
    <3> QED BY <3>2, <3>3 DEF PendingInv
  <2>5. CASE e \notin {"stop", "cancel", "stopBusy"}
    BY <1>5, <2>5 DEF PendingInv
  <2> QED BY <2>3, <2>4, <2>5
<1>6. CASE EndTurn
  <2>1. kind \in {"claude", "codex", "agy"}
    BY KnownKinds DEF QueueInv
  <2>2. PICK e \in {"stop", "stopIdle", "stopBusy"} :
           /\ Send(Report(e)) /\ turn /\ ~turn'
           /\ announced' = (e = "stopBusy" \/ (e = "stop" /\ announced))
    BY <1>6, <2>1 DEF EndTurn
  <2>3. announced' <=> e = "stopBusy" \/ (e \in {"stop", "cancel"} /\ announced)
    BY <2>2
  <2> QED BY <1>5, <2>2, <2>3
<1>7. CASE CancelTurn
  <2>1. CASE kind = "claude"
    <3>1. /\ UNCHANGED <<chan, pending, turnOpen, heldWaiting, reported, exited, announced>>
          /\ ~turn'
      BY <1>7, <2>1 DEF CancelTurn, tabVars, loopVars
    <3>2. Ahead' = Ahead /\ Line' = Line
      BY <3>1, LineStays
    <3>3. WaitStands => WaitStands'
      BY <3>1, <3>2, WaitSame DEF InForce
    <3> QED BY <3>1, <3>3 DEF PendingInv
  <2>2. CASE kind # "claude"
    <3>1. PICK e \in {"stopBusy", "cancel", "cancelIdle"} :
             /\ Send(Report(e)) /\ turn /\ ~turn'
             /\ announced' = (e = "stopBusy" \/ (e = "cancel" /\ announced))
      BY <1>7, <2>2 DEF CancelTurn
    <3>2. announced' <=> e = "stopBusy" \/ (e \in {"stop", "cancel"} /\ announced)
      BY <3>1
    <3> QED BY <1>5, <3>1, <3>2
  <2> QED BY <2>1, <2>2
<1>8. ASSUME NEW m \in Messages, Send(m), m \in Bearing, turn, turn' = turn,
             announced' = announced
      PROVE  PendingInv'
  BY <1>1, <1>8 DEF PendingInv
<1>9. CASE Ask \/ Review
  <2>1. PICK e \in {"ask", "review"} :
           Send(Report(e)) /\ turn /\ turn' = turn /\ announced' = announced
    BY <1>9 DEF Ask, Review
  <2>2. Report(e) \in Messages /\ Report(e).event = e
    BY <1>2, <1>3, <2>1
  <2>3. Report(e) \in Bearing
    BY <2>1, <2>2 DEF Bearing
  <2> QED BY <1>8, <2>1, <2>2, <2>3
<1>10. CASE Nudge
  <2>1. Send(Report("nudge")) /\ turn' = turn /\ announced' = announced
    BY <1>10 DEF Nudge
  <2>2. Report("nudge") \in Messages /\ Report("nudge") \in Staying
    BY <1>2, <1>3 DEF Staying
  <2> QED BY <1>1, <2>1, <2>2 DEF PendingInv
<1>11. ASSUME NEW c \in Calls, Question(c) \/ Answer(c)
       PROVE  PendingInv'
  <2>1. PICK e \in {"question", "answer"} :
           Send(About(e, c)) /\ turn /\ turn' = turn /\ announced' = announced
    BY <1>11 DEF Question, Answer
  <2>2. About(e, c) \in Messages /\ About(e, c).event = e
    BY <2>1, MessagesSay DEF About, Events
  <2>3. About(e, c) \in Bearing
    BY <2>1, <2>2 DEF Bearing
  <2> QED BY <1>8, <2>1, <2>2, <2>3
<1>12. ASSUME NEW status \in Tells, Tell(status)
       PROVE  PendingInv'
  <2>1. PICK m : m = Own(status)
    OBVIOUS
  <2>2. Send(m) /\ turn' = turn /\ announced' = (status = "waiting")
    BY <1>12, <2>1 DEF Tell
  <2>3. m \in Messages /\ m.event = "own" /\ m.status = status
    BY <2>1, MessagesSay, KnownKinds DEF Own
  <2>4. CASE status = "waiting"
    <3>1. SaysWaiting(m)
      BY <2>3, <2>4 DEF SaysWaiting
    <3>2. ~exited' /\ WaitStands'
      BY <1>1, <2>2, <2>3, <3>1
    <3> QED BY <3>2 DEF PendingInv
  <2>5. CASE status # "waiting"
    BY <2>2, <2>5 DEF PendingInv
  <2> QED BY <2>4, <2>5
<1>13. CASE Draw \/ React
  <2>1. UNCHANGED <<chan, pending, turnOpen, turn, heldWaiting, reported, exited, announced>>
    BY <1>13 DEF Draw, React, tabVars, loopVars, ghosts
  <2>2. Ahead' = Ahead /\ Line' = Line
    BY <2>1, LineStays
  <2>3. WaitStands => WaitStands'
    BY <2>1, <2>2, WaitSame DEF InForce
  <2> QED BY <2>1, <2>3 DEF PendingInv
<1> QED BY <1>4, <1>6, <1>7, <1>9, <1>10, <1>11, <1>12, <1>13 DEF Agent

\* What a tick or a settle leaves in force.
LEMMA AgedInForce ==
    ASSUME NEW live, Optional(live), InForce(live),
           \A r \in live : r.status = "waiting" => r.ttl # 1
    PROVE  InForce({Aged(r) : r \in live})
<1>1. PICK r \in live : live = {r} /\ r.status = "waiting" /\ r.ttl > 0 /\ r.ttl # 1
  BY DEF InForce
<1>2. IsReport(r) /\ r.ttl \in Nat
  BY <1>1 DEF Optional, IsReport
<1>3. Aged(r).status = "waiting" /\ Aged(r).ttl = r.ttl - 1
  BY <1>1, <1>2, AgedSays DEF Sooner
<1>4. {Aged(q) : q \in live} = {Aged(r)} /\ r.ttl - 1 > 0
  BY <1>1, <1>2
<1> QED BY <1>3, <1>4 DEF InForce

LEMMA SettleInForce ==
    ASSUME Shape, Settle, ~closed, InForce(reported)
    PROVE  InForce(reported')
<1>1. PICK q \in reported : q.status = "waiting" /\ q.ttl > 0
  BY DEF InForce
<1>2. PICK r \in reported' : r.status = q.status /\ r.ttl = q.ttl
  BY <1>1, SettleStill
<1>3. reported' = {r}
  BY <1>2, SettleStill
<1> QED BY <1>1, <1>2, <1>3 DEF InForce

LEMMA WaitKept ==
    ASSUME IInv, QueueInv, TurnInv, PendingInv, [Next]_vars
    PROVE  PendingInv'
<1>1. CASE Agent
  BY <1>1, AgentWaits
<1>2. ASSUME NEW k \in KeyEvents, Type(k)
      PROVE  PendingInv'
  <2>1. /\ Ahead \in Nat /\ Ahead' = Ahead + 1 /\ Line'[Ahead + 1] = Report(k)
        /\ \A i \in 1 .. Ahead : Line'[i] = Line[i]
        /\ IsKey(Report(k)) /\ Report(k) \in Messages
        /\ UNCHANGED <<turn, reported, heldWaiting, turnOpen, announced, exited>>
    BY <1>2, Typed DEF agentVars, ghosts
  <2>2. Report(k) \in Staying
    BY <2>1 DEF Staying
  <2>3. WaitStands => WaitStands'
    BY <2>1, <2>2, WaitGrown
  <2> QED BY <2>1, <2>3 DEF PendingInv
<1>3. ASSUME UNCHANGED <<chan, pending, turn, exited>>, turnOpen' <=> turnOpen,
             announced' => announced,
             announced' => \/ /\ InForce(reported) => InForce(reported')
                              /\ InForce(heldWaiting) => InForce(heldWaiting')
                           \/ \E i \in 1 .. Ahead : SaysWaiting(Line[i])
      PROVE  PendingInv'
  <2>1. Ahead' = Ahead /\ Line' = Line
    BY <1>3, LineStays
  <2>2. announced' => WaitStands'
    BY <1>3, <2>1, WaitSame DEF PendingInv
  <2> QED BY <1>3, <2>2 DEF PendingInv
<1>4. CASE Land
  BY <1>3, <1>4 DEF Land, agentVars, ghosts, InForce
<1>5. CASE Settle
  <2>1. UNCHANGED <<chan, pending, turn, exited, announced>>
    BY <1>5 DEF Settle, agentVars
  <2>2. CASE closed
    BY <2>1, <2>2 DEF PendingInv, QueueInv
  <2>3. CASE ~closed
    <3>1. heldWaiting' = heldWaiting /\ (turnOpen' <=> turnOpen)
      BY <1>5, <2>3 DEF Settle
    <3>2. InForce(reported) => InForce(reported')
      BY <1>5, <2>3, SettleInForce DEF IInv
    <3> QED BY <1>3, <2>1, <3>1, <3>2 DEF InForce
  <2> QED BY <2>2, <2>3
<1>6. CASE Serve
  <2>1. UNCHANGED <<exited, announced>>
    BY <1>6 DEF Serve, agentVars, ghosts
  <2>2. announced => ~closed
    BY DEF PendingInv, QueueInv
  <2>3. announced => WaitStands'
    BY <1>6, <2>2, WaitServed DEF PendingInv, IInv
  <2> QED BY <2>1, <2>3 DEF PendingInv
<1>7. CASE Recv
  BY <1>7, WaitReceived
<1>8. CASE Tick
  <2>1. /\ UNCHANGED <<chan, pending, turn, exited, turnOpen>>
        /\ reported' = {Aged(r) : r \in reported}
        /\ heldWaiting' = {Aged(r) : r \in heldWaiting}
        /\ announced' = (announced /\ \/ \E m \in ToSet(pending \o chan) : SaysWaiting(m)
                                      \/ \A r \in reported \cup heldWaiting :
                                            r.status = "waiting" => r.ttl # 1)
    BY <1>8 DEF Tick, agentVars
  <2>2. ASSUME \E m \in ToSet(pending \o chan) : SaysWaiting(m)
        PROVE  \E i \in 1 .. Ahead : SaysWaiting(Line[i])
    <3>1. PICK s : s = pending \o chan
      OBVIOUS
    <3>2. PICK m \in ToSet(s) : SaysWaiting(m)
      BY <2>2, <3>1
    <3>3. PICK i \in DOMAIN s : m = s[i]
      BY <3>2 DEF ToSet
    <3>4. pending \in Seq(Messages) /\ chan \in Seq(Messages)
      BY DEF QueueInv
    <3>5. Len(pending) \in Nat /\ Len(chan) \in Nat /\ DOMAIN s = 1 .. Len(pending) + Len(chan)
      BY <3>1, <3>4
    <3>6. i \in 1 .. Ahead
      BY <3>3, <3>5 DEF Ahead
    <3>7. s[i] = IF i <= Len(pending) THEN pending[i] ELSE chan[i - Len(pending)]
      BY <3>1, <3>3, <3>4, <3>5
    <3>8. Line[i] = s[i]
      BY <3>6, <3>7 DEF Line
    <3> QED BY <3>2, <3>3, <3>6, <3>8
  <2>3. ASSUME \A r \in reported \cup heldWaiting : r.status = "waiting" => r.ttl # 1
        PROVE  /\ InForce(reported) => InForce(reported')
               /\ InForce(heldWaiting) => InForce(heldWaiting')
    <3>1. InForce(reported) => InForce({Aged(r) : r \in reported})
      BY <2>3, AgedInForce DEF IInv, Shape
    <3>2. InForce(heldWaiting) => InForce({Aged(r) : r \in heldWaiting})
      BY <2>3, AgedInForce DEF IInv, Shape
    <3>3. PICK x, y : x = {Aged(r) : r \in reported} /\ y = {Aged(r) : r \in heldWaiting}
      OBVIOUS
    <3> QED BY <2>1, <3>1, <3>2
  <2> QED BY <1>3, <2>1, <2>2, <2>3
<1>9. CASE UNCHANGED vars
  BY <1>3, <1>9 DEF vars, agentVars, tabVars, loopVars, ghosts, InForce
<1> QED BY <1>1, <1>2, <1>4, <1>5, <1>6, <1>7, <1>8, <1>9 DEF Next

\* An agent that said it leaves work behind is shown as waiting once its turn is
\* over (apply_status_report, take_held_waiting, clear_blocked_for_input): what it
\* said is in the queue, in force, or held for the turn's end, the end that is
\* served puts it in force, and no nudge, question or key but an Enter ends it.
THEOREM PendingWorkIsShown == Spec => []PendingShown
<1>1. Init => PendingInv
  BY DEF Init, PendingInv
<1>2. Spec => []PendingInv
  BY <1>1, WaitKept, Queued, TurnsHeard, DeadlineArmed, PTL DEF Spec
<1>3. IInv /\ QueueInv /\ PendingInv => PendingShown
  <2> SUFFICES ASSUME IInv, QueueInv, PendingInv, Sleeping, announced, ~turn, ~turnOpen
               PROVE  activity = "waiting" \/ (scrape /\ activity = "blocked")
    BY DEF PendingShown
  <2>1. WaitStands /\ ~exited
    BY DEF PendingInv
  <2>2. Ahead = 0 /\ activity = Effective(reported, scrape)
    BY <2>1, AsleepSays
  <2>3. InForce(reported)
    BY <2>1, <2>2 DEF WaitStands
  <2>4. PICK r \in reported : reported = {r} /\ r.status = "waiting" /\ r.ttl > 0
    BY <2>3 DEF InForce
  <2>5. ~Expired(r) /\ ~Yields(r)
    BY <2>4 DEF Expired, Yields
  <2>6. CASE Overrides(reported, scrape)
    BY <2>2, <2>6 DEF Effective, Overrides
  <2>7. CASE ~Overrides(reported, scrape)
    <3>1. activity = CHOOSE s \in Statuses : \E q \in reported : q.status = s
      BY <2>2, <2>4, <2>5, <2>7 DEF Effective
    <3>2. "waiting" \in Statuses
      BY DEF Statuses
    <3>3. \A s : (\E q \in reported : q.status = s) <=> s = "waiting"
      BY <2>4
    <3> QED BY <3>1, <3>2, <3>3
  <2> QED BY <2>6, <2>7
<1> QED BY <1>2, <1>3, Queued, DeadlineArmed, PTL

-----------------------------------------------------------------------------
(* A turn that is over is shown as done. *)

\* What says that work is left behind, and what takes that back.
Saying == {m \in Messages : SaysWaiting(m)}
Clearing == {m \in Messages : \/ m.event \in {"prompt", "stopIdle", "cancelIdle"}
                              \/ m.event = "own" /\ m.status # "waiting"}

\* No wait is in force or held when the i-th message is served.
NoneWaits == Waiting(reported) = {} /\ Waiting(heldWaiting) = {}
NoWait(i) == Stands(Line, Clearing, Saying, NoneWaits, i)
HeardNone == NoWait(Ahead + 1)

ClearInv == ~announced /\ ~exited /\ kind # "claude" => HeardNone

LEMMA ClearGrown ==
    ASSUME NEW m, Ahead \in Nat, Line'[Ahead + 1] = m, \A i \in 1 .. Ahead : Line'[i] = Line[i],
           Ahead' = Ahead + 1, UNCHANGED <<reported, heldWaiting>>
    PROVE  /\ \A i \in 1 .. Ahead + 1 : NoWait(i)' <=> NoWait(i)
           /\ HeardNone' <=> m \in Clearing \/ (HeardNone /\ m \notin Saying)
<1>1. PICK a, b, L, base : a = Line /\ b = Line' /\ L = Ahead /\ base = NoneWaits
  OBVIOUS
<1>2. L \in Nat /\ \A i \in 1 .. L : b[i] = a[i]
  BY <1>1
<1>3. /\ \A i \in 1 .. L + 1 : Stands(b, Clearing, Saying, base, i)
                                 <=> Stands(a, Clearing, Saying, base, i)
      /\ Stands(b, Clearing, Saying, base, L + 2) <=>
           \/ b[L + 1] \in Clearing
           \/ Stands(a, Clearing, Saying, base, L + 1) /\ b[L + 1] \notin Saying
  BY <1>2, StandsGrown
<1>4. Ahead' + 1 = L + 2 /\ b[L + 1] = m
  BY <1>1, <1>2
<1>5. NoneWaits' = base
  BY <1>1 DEF NoneWaits, Waiting
<1> QED BY <1>1, <1>3, <1>4, <1>5 DEF NoWait, HeardNone

LEMMA ClearSame ==
    ASSUME Ahead' = Ahead, Line' = Line, NoneWaits => NoneWaits'
    PROVE  (\A i : NoWait(i) => NoWait(i)') /\ (HeardNone => HeardNone')
<1>1. \A i : NoWait(i) => NoWait(i)'
  BY DEF NoWait, Stands
<1> QED BY <1>1 DEF HeardNone

LEMMA ClearCut ==
    ASSUME QueueInv, NEW n \in 1 .. Ahead, IsKey(Line[n]), Ahead' = Ahead - 1,
           \A j \in 1 .. Ahead - 1 : Line'[j] = Line[Was(n, j)], NoneWaits => NoneWaits'
    PROVE  /\ \A i \in 1 .. Ahead : NoWait(Was(n, i)) => NoWait(i)'
           /\ HeardNone => HeardNone'
<1>1. PICK a, b, L, base, next :
         a = Line /\ b = Line' /\ L = Ahead /\ base = NoneWaits /\ next = NoneWaits'
  OBVIOUS
<1>2. L \in Nat \ {0} /\ n \in 1 .. L
  BY <1>1, LineSays
<1>3. \A j \in 1 .. L - 1 : b[j] = a[Was(n, j)]
  BY <1>1
<1>4. a[n] \notin Clearing /\ a[n] \notin Saying
  <2>1. a[n] \in Messages /\ a[n].event \notin {"own", "prompt", "stopIdle", "cancelIdle"}
    BY <1>1, LineSays, KnownKinds DEF IsKey, KeyEvents
  <2>2. a[n] \in Bearing \cup Ending
    BY <1>1, <2>1 DEF Bearing
  <2> QED BY <2>1, <2>2, KeptSays DEF Clearing, Saying
<1>5. \A i \in 1 .. L : Stands(b, Clearing, Saying, base, i)
                          <=> Stands(a, Clearing, Saying, base, Was(n, i))
  BY <1>2, <1>3, <1>4, StandsCut
<1>6. \A i \in 1 .. L : NoWait(Was(n, i)) => NoWait(i)'
  <2>1. \A i : Stands(b, Clearing, Saying, base, i) => Stands(b, Clearing, Saying, next, i)
    BY <1>1 DEF Stands
  <2> QED BY <1>1, <1>5, <2>1 DEF NoWait
<1>7. Ahead' + 1 = L /\ L \in 1 .. L /\ Was(n, L) = L + 1
  BY <1>1, <1>2 DEF Was
<1>8. NoWait(Was(n, L)) => NoWait(L)'
  BY <1>6, <1>7
<1> QED BY <1>1, <1>6, <1>7, <1>8 DEF HeardNone, NoWait

\* Which reports wait is not what an absorbed turn's end changes.
LEMMA NoneAbsorbed ==
    ASSUME NEW live, Optional(live), Waiting(live) = {}
    PROVE  Waiting({[r EXCEPT !.absorbed = TRUE] : r \in live}) = {}
<1>1. ASSUME NEW r \in live
      PROVE  ~([r EXCEPT !.absorbed = TRUE].status = "waiting"
                  /\ [r EXCEPT !.absorbed = TRUE].ttl > 0)
  <2>1. IsReport(r) /\ ~(r.status = "waiting" /\ r.ttl > 0)
    BY <1>1 DEF Optional, Waiting
  <2> QED BY <2>1, AbsorbedSays
<1> QED BY <1>1 DEF Waiting

\* What takes a wait back leaves none, and what does not speak of one makes none.
LEMMA NoneServed ==
    ASSUME Shape, TurnInv, NEW m \in Messages, ~IsKey(m), Apply(m),
           m \in Clearing \/ (NoneWaits /\ m \notin Saying),
           m.event = "prompt" => ~turnOpen
    PROVE  NoneWaits'
<1>1. m.event \in Events \ KeyEvents
  BY DEF Messages, IsKey
<1>2. Status(m) # "waiting"
  <2>1. m.event # "stopBusy" /\ ~(m.event = "own" /\ m.status = "waiting")
    BY DEF Clearing, Saying, SaysWaiting
  <2>2. Status(m) = CASE m.event \in {"prompt", "answer"} -> "working"
                      [] m.event \in {"stop", "stopIdle", "nudge"} -> "done"
                      [] m.event = "stopBusy" -> "waiting"
                      [] m.event \in {"cancel", "cancelIdle"} -> "idle"
                      [] m.event \in {"ask", "failure", "review", "question"} -> "blocked"
                      [] m.event = "own" -> m.status
    BY DEF Status
  <2> QED BY <1>1, <2>1, <2>2 DEF Events
<1>3. ~HoldsForTurnEnd(m)
  BY <1>2 DEF HoldsForTurnEnd
<1>4. Waiting({NewReport(Status(m))}) = {}
  BY <1>2 DEF Waiting, NewReport
<1>5. Waiting({}) = {}
  BY DEF Waiting
<1> DEFINE closes == FromHook(m) /\ turnOpen /\ ~TurnOpenAfter(m)
           promoted == closes /\ heldWaiting # {}
           live == IF promoted THEN heldWaiting ELSE reported
<1>6. /\ heldWaiting' = IF FromHook(m) /\ ~promoted THEN heldWaiting ELSE {}
      /\ \/ reported' = {NewReport(Status(m))}
         \/ /\ reported' = {[r EXCEPT !.absorbed = TRUE] : r \in live} \/ reported' = live
            /\ ~(Meet(live, m) = "apply" /\ (kind = "codex" => LetsThrough(m)))
  BY <1>3 DEF Apply
<1>7. ~turnOpen => heldWaiting = {}
  BY DEF TurnInv
<1>8. CASE m \in Clearing
  <2>1. m.event \in {"prompt", "stopIdle", "cancelIdle", "own"}
    BY <1>8 DEF Clearing
  <2>2. LetsThrough(m)
    BY <2>1 DEF LetsThrough
  <2>3. Meet(live, m) = "apply"
    <3>1. CASE m.event = "own"
      BY <3>1 DEF Meet, FromHook
    <3>2. CASE m.event = "prompt"
      <4>1. Status(m) = "working"
        BY <3>2 DEF Status
      <4> QED BY <4>1 DEF Meet
    <3>3. CASE m.event \in {"stopIdle", "cancelIdle"}
      <4>1. WakesPending(m) = {FALSE} /\ m.event # "nudge"
        BY <3>3 DEF WakesPending
      <4>2. TRUE \notin {FALSE}
        OBVIOUS
      <4> QED BY <4>1, <4>2 DEF Meet
    <3> QED BY <2>1, <3>1, <3>2, <3>3
  <2>4. heldWaiting' = {}
    <3>1. CASE m.event = "own"
      BY <1>6, <3>1 DEF FromHook
    <3>2. CASE ~turnOpen
      BY <1>6, <1>7, <3>2
    <3>3. CASE turnOpen /\ m.event \in {"stopIdle", "cancelIdle"}
      <4>1. FromHook(m) /\ Status(m) \in {"done", "idle"}
        BY <3>3 DEF FromHook, Status
      <4>2. ~TurnOpenAfter(m)
        BY <3>3, <4>1 DEF TurnOpenAfter
      <4> QED BY <1>6, <3>3, <4>1, <4>2
    <3> QED BY <2>1, <3>1, <3>2, <3>3
  <2> QED BY <1>4, <1>5, <1>6, <2>2, <2>3, <2>4 DEF NoneWaits
<1>9. CASE NoneWaits
  <2>1. Waiting(live) = {} /\ Optional(live)
    BY <1>9 DEF NoneWaits, Shape
  <2>2. Waiting(heldWaiting') = {}
    BY <1>5, <1>6, <1>9 DEF NoneWaits
  <2>3. Waiting({[r EXCEPT !.absorbed = TRUE] : r \in live}) = {}
    BY <2>1, NoneAbsorbed
  <2> QED BY <1>4, <1>6, <2>1, <2>2, <2>3 DEF NoneWaits
<1> QED BY <1>8, <1>9

LEMMA ClearServed ==
    ASSUME Shape, QueueInv, TurnInv, Serve, ~closed, kind # "claude"
    PROVE  /\ \A i \in 1 .. Ahead : NoWait(i + 1) => NoWait(i)'
           /\ HeardNone => HeardNone'
<1>1. PICK a, b, L, m, base, next :
         /\ a = Line /\ b = Line' /\ L = Ahead /\ m = Line[1]
         /\ base = NoneWaits /\ next = NoneWaits'
  OBVIOUS
<1>2. L \in Nat \ {0} /\ Ahead' = L - 1 /\ m = Head(pending) /\ ~IsKey(m)
  BY <1>1, Served
<1>3. 1 \in 1 .. L
  BY <1>2
<1>4. m \in Messages
  BY <1>1, <1>3, LineSays
<1>5. m.event = "prompt" => ~turnOpen
  <2>1. \A k \in 1 .. 1 - 1 : FALSE
    OBVIOUS
  <2>2. m.event = "prompt" => ~OpenAt(1)
    BY <1>1, <1>3 DEF TurnInv
  <2> QED BY <2>1, <2>2 DEF OpenAt, Stands
<1>6. m \in Clearing \/ (NoneWaits /\ m \notin Saying) => NoneWaits'
  <2>1. Apply(m)
    BY <1>2 DEF Serve
  <2> QED BY <1>2, <1>4, <1>5, <2>1, NoneServed
<1>7. a[1] \in Clearing \/ (base /\ a[1] \notin Saying) => next
  BY <1>1, <1>6
<1>8. \A j \in 1 .. L - 1 : b[j] = a[j + 1]
  BY <1>1, Served
<1>9. L \in Nat \ {0}
  BY <1>2
<1>10. \A i \in 1 .. L : Stands(a, Clearing, Saying, base, i + 1)
                           => Stands(b, Clearing, Saying, next, i)
  BY <1>7, <1>8, <1>9, StandsServed
<1>11. \A i \in 1 .. L : NoWait(i + 1) => NoWait(i)'
  BY <1>1, <1>10 DEF NoWait
<1>12. Ahead' + 1 = L /\ L \in 1 .. L
  BY <1>2
<1> QED BY <1>1, <1>11, <1>12 DEF HeardNone, NoWait

\* A settle, a tick and a key bring no wait.
LEMMA NoneSettled ==
    ASSUME Shape, Settle, ~closed, NoneWaits
    PROVE  NoneWaits'
<1>1. heldWaiting' = heldWaiting
  BY DEF Settle
<1>2. Waiting(reported') = {}
  <2>1. ASSUME NEW r \in reported', r.status = "waiting", r.ttl > 0
        PROVE  FALSE
    <3>1. PICK q \in reported : r.status = q.status /\ r.ttl = q.ttl
      BY <2>1, SettleStill
    <3> QED BY <2>1, <3>1 DEF NoneWaits, Waiting
  <2> QED BY <2>1 DEF Waiting
<1> QED BY <1>1, <1>2 DEF NoneWaits, Waiting

LEMMA NoneAged ==
    ASSUME NEW live, Optional(live),
           \A r \in live : r.status = "waiting" => r.ttl \in {0, 1}
    PROVE  Waiting({Aged(r) : r \in live}) = {}
<1>1. ASSUME NEW r \in live, Aged(r).status = "waiting", Aged(r).ttl > 0
      PROVE  FALSE
  <2>1. IsReport(r) /\ r.ttl \in Nat
    BY DEF Optional, IsReport
  <2>2. Aged(r).status = r.status /\ Aged(r).ttl = Sooner(r.ttl)
    BY <2>1, AgedSays
  <2> QED BY <1>1, <2>1, <2>2 DEF Sooner
<1> QED BY <1>1 DEF Waiting

LEMMA NoneTicks ==
    ASSUME Shape, Tick, NoneWaits
    PROVE  NoneWaits'
<1>1. /\ reported' = {Aged(r) : r \in reported} /\ heldWaiting' = {Aged(r) : r \in heldWaiting}
      /\ Optional(reported) /\ Optional(heldWaiting)
  BY DEF Tick, Shape
<1>2. \A r \in reported \cup heldWaiting : r.status = "waiting" => r.ttl \in {0, 1}
  <2>1. \A r \in reported \cup heldWaiting : r.ttl \in Nat
    BY <1>1 DEF Optional, IsReport
  <2> QED BY <2>1 DEF NoneWaits, Waiting
<1>3. PICK x, y : x = {Aged(r) : r \in reported} /\ y = {Aged(r) : r \in heldWaiting}
  OBVIOUS
<1>4. Waiting(x) = {} /\ Waiting(y) = {}
  BY <1>1, <1>2, <1>3, NoneAged
<1> QED BY <1>1, <1>3, <1>4 DEF NoneWaits

LEMMA NoneKeyed ==
    ASSUME Shape, NEW k, Dispatch(k), NoneWaits
    PROVE  NoneWaits'
BY KeySays DEF NoneWaits, Waiting

LEMMA AgentClears ==
    ASSUME QueueInv, ClearInv, Agent
    PROVE  ClearInv'
<1>1. ASSUME NEW m \in Messages, Send(m),
             ~announced' => m \in Clearing \/ (~announced /\ m \notin Saying) \/ kind = "claude"
      PROVE  ClearInv'
  <2>1. /\ Ahead \in Nat /\ Ahead' = Ahead + 1 /\ Line'[Ahead + 1] = m
        /\ \A i \in 1 .. Ahead : Line'[i] = Line[i]
        /\ UNCHANGED <<reported, heldWaiting, kind, exited>>
    BY <1>1, Sent
  <2>2. HeardNone' <=> m \in Clearing \/ (HeardNone /\ m \notin Saying)
    BY <2>1, ClearGrown
  <2> QED BY <1>1, <2>1, <2>2 DEF ClearInv
<1>2. \A e \in Events \ {"own"} : Report(e) \in Messages /\ Report(e).event = e
  BY MessagesSay DEF Report
<1>3. {"prompt", "stop", "stopIdle", "stopBusy", "cancel", "cancelIdle", "failure", "ask",
       "nudge", "review"} \subseteq Events \ {"own"}
  BY DEF Events
<1>4. CASE StartTurn
  <2>1. Send(Report("prompt"))
    BY <1>4 DEF StartTurn
  <2>2. Report("prompt") \in Messages /\ Report("prompt") \in Clearing
    BY <1>2, <1>3 DEF Clearing
  <2> QED BY <1>1, <2>1, <2>2
<1>5. ASSUME NEW e \in {"stop", "stopIdle", "stopBusy", "cancel", "cancelIdle"},
             Send(Report(e)),
             announced' <=> e = "stopBusy" \/ (e \in {"stop", "cancel"} /\ announced)
      PROVE  ClearInv'
  <2>1. PICK m : m = Report(e)
    OBVIOUS
  <2>2. m \in Messages /\ m.event = e
    BY <1>2, <1>3, <2>1
  <2>3. e \in {"stop", "cancel"} => m \notin Saying
    <3>1. e \in {"stop", "cancel"} => m \in Ending
      BY <2>2 DEF Ending
    <3> QED BY <3>1, KeptSays DEF Saying
  <2>4. e \in {"stopIdle", "cancelIdle"} => m \in Clearing
    BY <2>2 DEF Clearing
  <2> QED BY <1>1, <1>5, <2>1, <2>2, <2>3, <2>4
<1>6. CASE EndTurn
  <2>1. kind \in {"claude", "codex", "agy"}
    BY KnownKinds DEF QueueInv
  <2>2. PICK e \in {"stop", "stopIdle", "stopBusy"} :
           /\ Send(Report(e))
           /\ announced' = (e = "stopBusy" \/ (e = "stop" /\ announced))
    BY <1>6, <2>1 DEF EndTurn
  <2>3. announced' <=> e = "stopBusy" \/ (e \in {"stop", "cancel"} /\ announced)
    BY <2>2
  <2> QED BY <1>5, <2>2, <2>3
<1>7. CASE CancelTurn
  <2>1. CASE kind = "claude"
    BY <1>7, <2>1 DEF CancelTurn, ClearInv
  <2>2. CASE kind # "claude"
    <3>1. PICK e \in {"stopBusy", "cancel", "cancelIdle"} :
             /\ Send(Report(e))
             /\ announced' = (e = "stopBusy" \/ (e = "cancel" /\ announced))
      BY <1>7, <2>2 DEF CancelTurn
    <3>2. announced' <=> e = "stopBusy" \/ (e \in {"stop", "cancel"} /\ announced)
      BY <3>1
    <3> QED BY <1>5, <3>1, <3>2
  <2> QED BY <2>1, <2>2
<1>8. CASE FailTurn
  BY <1>1, <1>2, <1>3, <1>8 DEF FailTurn
<1>9. ASSUME NEW m \in Messages, Send(m), m \in Bearing, announced' = announced
      PROVE  ClearInv'
  <2>1. m \notin Saying
    BY <1>9, KeptSays DEF Saying
  <2> QED BY <1>1, <1>9, <2>1
<1>10. CASE Ask \/ Nudge \/ Review
  <2>1. PICK e \in {"ask", "nudge", "review"} : Send(Report(e)) /\ announced' = announced
    BY <1>10 DEF Ask, Nudge, Review
  <2>2. Report(e) \in Messages /\ Report(e).event = e
    BY <1>2, <1>3, <2>1
  <2>3. Report(e) \in Bearing
    BY <2>1, <2>2 DEF Bearing
  <2> QED BY <1>9, <2>1, <2>2, <2>3
<1>11. ASSUME NEW c \in Calls, Question(c) \/ Answer(c)
       PROVE  ClearInv'
  <2>1. PICK e \in {"question", "answer"} : Send(About(e, c)) /\ announced' = announced
    BY <1>11 DEF Question, Answer
  <2>2. About(e, c) \in Messages /\ About(e, c).event = e
    BY <2>1, MessagesSay DEF About, Events
  <2>3. About(e, c) \in Bearing
    BY <2>1, <2>2 DEF Bearing
  <2> QED BY <1>9, <2>1, <2>2, <2>3
<1>12. ASSUME NEW status \in Tells, Tell(status)
       PROVE  ClearInv'
  <2>1. PICK m : m = Own(status)
    OBVIOUS
  <2>2. Send(m) /\ announced' = (status = "waiting")
    BY <1>12, <2>1 DEF Tell
  <2>3. m \in Messages /\ m.event = "own" /\ m.status = status
    BY <2>1, MessagesSay, KnownKinds DEF Own
  <2>4. status # "waiting" => m \in Clearing
    BY <2>3 DEF Clearing
  <2> QED BY <1>1, <2>2, <2>3, <2>4
<1>13. CASE Draw \/ React
  <2>1. UNCHANGED <<chan, pending, heldWaiting, reported, exited, announced, kind>>
    BY <1>13 DEF Draw, React, tabVars, loopVars, ghosts
  <2>2. Ahead' = Ahead /\ Line' = Line
    BY <2>1, LineStays
  <2>3. HeardNone => HeardNone'
    BY <2>1, <2>2, ClearSame DEF NoneWaits, Waiting
  <2> QED BY <2>1, <2>3 DEF ClearInv
<1>14. CASE Exit
  BY <1>14 DEF Exit, ClearInv
<1> QED BY <1>4, <1>6, <1>7, <1>8, <1>10, <1>11, <1>12, <1>13, <1>14 DEF Agent

\* The promise is taken back by an Enter, or its time ends it: nothing that waits
\* is in force then, held, or on its way.
LEMMA ClearReceived ==
    ASSUME Shape, QueueInv, ClearInv, Recv
    PROVE  ClearInv'
<1>1. UNCHANGED <<kind, exited>>
  BY DEF Recv
<1>2. CASE /\ Ahead' = Ahead /\ \A i \in 1 .. Ahead : Line'[i] = Line[i]
           /\ UNCHANGED <<reported, heldWaiting, ghosts>>
  <2>1. Line' = Line /\ Ahead' = Ahead
    BY <1>2, LineEquals
  <2>2. HeardNone => HeardNone'
    BY <1>2, <2>1, ClearSame DEF NoneWaits, Waiting
  <2> QED BY <1>1, <1>2, <2>2 DEF ClearInv, ghosts
<1>3. ASSUME NEW n \in 1 .. Ahead, IsKey(Line[n]), Ahead' = Ahead - 1,
             \A j \in 1 .. Ahead - 1 : Line'[j] = Line[Was(n, j)], Dispatch(Line[n].event)
      PROVE  ClearInv'
  <2>1. NoneWaits => NoneWaits'
    BY <1>3, NoneKeyed
  <2>2. HeardNone => HeardNone'
    BY <1>3, <2>1, ClearCut
  <2>3. CASE announced' \/ ~announced
    <3>1. announced' => announced
      BY <1>3 DEF Dispatch, Press, ghosts
    <3> QED BY <1>1, <2>2, <2>3, <3>1 DEF ClearInv
  <2>4. CASE announced /\ ~announced'
    <3>1. ~(Line[n].event = "esc") /\ Press(FALSE)
      <4>1. Press(Line[n].event = "esc") /\ announced' # announced
        BY <1>3, <2>4 DEF Dispatch, ghosts
      <4>2. Line[n].event # "esc"
        BY <2>4, <4>1 DEF Press
      <4>3. (Line[n].event = "esc") = FALSE
        BY <4>2
      <4> QED BY <4>1, <4>2, <4>3
    <3>2. /\ reported' = LeftByKey(FALSE) /\ heldWaiting' = {}
          /\ \A m \in ToSet(chan) : ~SaysWaiting(m)
      BY <2>4, <3>1 DEF Press
    <3>3. NoneWaits'
      BY <3>2 DEF NoneWaits, Waiting, LeftByKey
    <3>4. \A i \in 1 .. Ahead : Line[i] \notin Saying
      <4>1. /\ chan \in Seq(Messages) /\ \A i \in 1 .. Ahead : Line[i] = chan[i]
            /\ Ahead = Len(chan)
        BY Received DEF QueueInv
      <4>2. DOMAIN chan = 1 .. Ahead
        BY <4>1
      <4> QED BY <3>2, <4>1, <4>2 DEF ToSet, Saying
    <3>5. HeardNone'
      <4>1. Ahead \in Nat
        BY LineSays
      <4>2. PICK L, b, next : L = Ahead /\ b = Line' /\ next = NoneWaits'
        OBVIOUS
      <4>3. L \in Nat /\ Ahead' + 1 = L
        BY <1>3, <4>1, <4>2
      <4>4. \A j \in 1 .. L - 1 : j \in 1 .. Ahead - 1 /\ Was(n, j) \in 1 .. Ahead
        BY <1>3, <4>1, <4>2 DEF Was
      <4>5. \A j \in 1 .. L - 1 : b[j] \notin Saying
        BY <1>3, <3>4, <4>2, <4>4
      <4>6. Stands(b, Clearing, Saying, next, L)
        BY <3>3, <4>2, <4>5 DEF Stands
      <4> QED BY <4>2, <4>3, <4>6 DEF HeardNone, NoWait
    <3> QED BY <3>5 DEF ClearInv
  <2> QED BY <2>3, <2>4
<1> QED BY <1>2, <1>3, Received

LEMMA ClearTicks ==
    ASSUME Shape, QueueInv, TurnInv, ClearInv, Tick
    PROVE  ClearInv'
<1>1. /\ UNCHANGED <<chan, pending, exited, kind>>
      /\ reported' = {Aged(r) : r \in reported}
      /\ heldWaiting' = {Aged(r) : r \in heldWaiting}
      /\ announced' = (announced /\ \/ \E m \in ToSet(pending \o chan) : SaysWaiting(m)
                                    \/ \A r \in reported \cup heldWaiting :
                                          r.status = "waiting" => r.ttl # 1)
  BY DEF Tick, agentVars
<1>2. Ahead' = Ahead /\ Line' = Line
  BY <1>1, LineStays
<1>3. HeardNone => HeardNone'
  BY <1>2, NoneTicks, ClearSame
<1>4. CASE announced' \/ ~announced
  <2>1. announced' => announced
    BY <1>1
  <2> QED BY <1>1, <1>3, <1>4, <2>1 DEF ClearInv
<1>5. CASE announced /\ ~announced'
  <2>1. \A m \in ToSet(pending \o chan) : ~SaysWaiting(m)
    BY <1>1, <1>5
  <2>2. PICK r \in reported \cup heldWaiting : r.status = "waiting" /\ r.ttl = 1
    BY <1>1, <1>5
  <2>3. /\ \A q \in reported : q.status = "waiting" => q.ttl \in {0, 1}
        /\ \A q \in heldWaiting : q.status = "waiting" => q.ttl \in {0, 1}
    <3>1. CASE r \in reported
      <4>1. reported = {r}
        BY <3>1 DEF Shape, Optional
      <4>2. ~turnOpen
        BY <2>2, <4>1 DEF TurnInv, Says
      <4>3. heldWaiting = {}
        BY <4>2 DEF TurnInv
      <4> QED BY <2>2, <4>1, <4>3
    <3>2. CASE r \in heldWaiting
      <4>1. heldWaiting = {r}
        BY <3>2 DEF Shape, Optional
      <4>2. turnOpen
        BY <3>2 DEF TurnInv
      <4>3. \A q \in reported : q.status # "waiting"
        BY <4>2 DEF TurnInv, Says, Shape, Optional
      <4> QED BY <2>2, <4>1, <4>3
    <3> QED BY <2>2, <3>1, <3>2
  <2>4. NoneWaits'
    <3>1. PICK x, y : x = {Aged(q) : q \in reported} /\ y = {Aged(q) : q \in heldWaiting}
      OBVIOUS
    <3>2. Waiting(x) = {} /\ Waiting(y) = {}
      BY <2>3, <3>1, NoneAged DEF Shape
    <3> QED BY <1>1, <3>1, <3>2 DEF NoneWaits
  <2>5. \A i \in 1 .. Ahead : Line[i] \notin Saying
    <3>1. PICK s : s = pending \o chan
      OBVIOUS
    <3>2. pending \in Seq(Messages) /\ chan \in Seq(Messages)
      BY DEF QueueInv
    <3>3. Len(pending) \in Nat /\ Len(chan) \in Nat /\ DOMAIN s = 1 .. Len(pending) + Len(chan)
      BY <3>1, <3>2
    <3>4. DOMAIN s = 1 .. Ahead
      BY <3>3 DEF Ahead
    <3>5. \A i \in DOMAIN s :
             s[i] = IF i <= Len(pending) THEN pending[i] ELSE chan[i - Len(pending)]
      BY <3>1, <3>2, <3>3
    <3>6. \A i \in 1 .. Ahead : Line[i] = s[i]
      BY <3>4, <3>5 DEF Line
    <3>7. \A i \in 1 .. Ahead : s[i] \in ToSet(s)
      BY <3>4 DEF ToSet
    <3> QED BY <2>1, <3>1, <3>6, <3>7 DEF Saying
  <2>6. HeardNone'
    <3>1. PICK L, b, next : L = Ahead + 1 /\ b = Line' /\ next = NoneWaits'
      OBVIOUS
    <3>2. L \in Nat /\ Ahead' + 1 = L
      BY <1>2, <3>1, LineSays
    <3>3. \A j \in 1 .. L - 1 : j \in 1 .. Ahead
      BY <3>1, LineSays
    <3>4. \A j \in 1 .. L - 1 : b[j] \notin Saying
      BY <1>2, <2>5, <3>1, <3>3
    <3>5. Stands(b, Clearing, Saying, next, L)
      BY <2>4, <3>1, <3>4 DEF Stands
    <3> QED BY <3>1, <3>2, <3>5 DEF HeardNone, NoWait
  <2> QED BY <2>6 DEF ClearInv
<1> QED BY <1>4, <1>5

LEMMA ClearKept ==
    ASSUME IInv, QueueInv, TurnInv, ClearInv, [Next]_vars
    PROVE  ClearInv'
<1>1. CASE Agent
  BY <1>1, AgentClears
<1>2. ASSUME NEW k \in KeyEvents, Type(k)
      PROVE  ClearInv'
  <2>1. /\ Ahead \in Nat /\ Ahead' = Ahead + 1 /\ Line'[Ahead + 1] = Report(k)
        /\ \A i \in 1 .. Ahead : Line'[i] = Line[i]
        /\ IsKey(Report(k)) /\ Report(k) \in Messages
        /\ UNCHANGED <<reported, heldWaiting, announced, exited, kind>>
    BY <1>2, Typed DEF agentVars, ghosts
  <2>2. Report(k) \notin Saying
    BY <2>1, KeptSays DEF Saying
  <2>3. HeardNone => HeardNone'
    BY <2>1, <2>2, ClearGrown
  <2> QED BY <2>1, <2>3 DEF ClearInv
<1>3. ASSUME UNCHANGED <<chan, pending, exited, kind, announced>>, NoneWaits => NoneWaits'
      PROVE  ClearInv'
  <2>1. Ahead' = Ahead /\ Line' = Line
    BY <1>3, LineStays
  <2>2. HeardNone => HeardNone'
    BY <1>3, <2>1, ClearSame
  <2> QED BY <1>3, <2>2 DEF ClearInv
<1>4. CASE Land
  BY <1>3, <1>4 DEF Land, agentVars, ghosts, NoneWaits, Waiting
<1>5. CASE Settle
  <2>1. UNCHANGED <<chan, pending, exited, kind, announced>>
    BY <1>5 DEF Settle, agentVars
  <2>2. CASE closed
    BY <2>1, <2>2 DEF ClearInv, QueueInv
  <2>3. CASE ~closed
    BY <1>3, <1>5, <2>1, <2>3, NoneSettled DEF IInv
  <2> QED BY <2>2, <2>3
<1>6. CASE Serve
  <2>1. UNCHANGED <<exited, announced, kind>>
    BY <1>6 DEF Serve, agentVars, ghosts
  <2>2. ~exited => ~closed
    BY DEF QueueInv
  <2>3. ~exited /\ kind # "claude" => (HeardNone => HeardNone')
    BY <1>6, <2>2, ClearServed DEF IInv
  <2> QED BY <2>1, <2>3 DEF ClearInv
<1>7. CASE Recv
  BY <1>7, ClearReceived DEF IInv
<1>8. CASE Tick
  BY <1>8, ClearTicks DEF IInv
<1>9. CASE UNCHANGED vars
  BY <1>3, <1>9 DEF vars, agentVars, tabVars, loopVars, ghosts, NoneWaits, Waiting
<1> QED BY <1>1, <1>2, <1>4, <1>5, <1>6, <1>7, <1>8, <1>9 DEF Next

\* What is not promised is not waited for.
LEMMA NothingWaits == Spec => []ClearInv
<1>1. Init => ClearInv
  <2> SUFFICES ASSUME Init PROVE ClearInv
    OBVIOUS
  <2>1. pending = <<>> /\ chan = <<>> /\ reported = {} /\ heldWaiting = {}
    BY DEF Init
  <2>2. Ahead = 0
    BY <2>1 DEF Ahead
  <2>3. NoneWaits
    BY <2>1 DEF NoneWaits, Waiting
  <2>4. \A j \in 1 .. 0 + 1 - 1 : FALSE
    OBVIOUS
  <2> QED BY <2>2, <2>3, <2>4 DEF ClearInv, HeardNone, NoWait, Stands
<1> QED BY <1>1, ClearKept, Queued, TurnsHeard, DeadlineArmed, PTL DEF Spec

\* The end of a turn that is served as done.
Finished(i) == \/ Line[i].event = "stopIdle"
               \/ Line[i].event = "stop" /\ kind # "claude" /\ NoWait(i)

\* The dot is held at `done`, or was and nothing has come since but another one.
Lasts(live) == \E r \in live : live = {r} /\ r.status = "done" /\ r.ttl > 0
Remains(live, unseen) == Lasts(live) \/ (unseen /\ \A r \in live : r.status = "done")

DoneStands ==
    \/ \E i \in 1 .. Ahead : Finished(i) /\ Behind(Line, Ahead, i, Staying)
    \/ Behind(Line, Ahead, 0, Staying) /\ Remains(reported, unseenDone)

OwedInv == owed => /\ ~exited /\ ~turn /\ DoneStands
                   /\ notified = "done" => unseenDone

LEMMA DoneGrown ==
    ASSUME DoneStands, NEW m \in Staying, Ahead \in Nat, Ahead' = Ahead + 1,
           Line'[Ahead + 1] = m, \A i \in 1 .. Ahead : Line'[i] = Line[i],
           UNCHANGED <<reported, heldWaiting, kind, unseenDone>>
    PROVE  DoneStands'
<1>1. PICK a, b, L : a = Line /\ b = Line' /\ L = Ahead
  OBVIOUS
<1>2. L \in Nat /\ Ahead' = L + 1 /\ \A i \in 1 .. L : b[i] = a[i]
  BY <1>1
<1>3. b[L + 1] \in Staying
  BY <1>1
<1>4. \A i \in 0 .. L : Behind(a, L, i, Staying) => Behind(b, L + 1, i, Staying)
  BY <1>2, <1>3, BehindGrown
<1>5. CASE \E i \in 1 .. L : Finished(i) /\ Behind(a, L, i, Staying)
  <2>1. PICK i \in 1 .. L : Finished(i) /\ Behind(a, L, i, Staying)
    BY <1>5
  <2>2. i \in 0 .. L /\ i \in 1 .. L + 1
    BY <1>2
  <2>3. Finished(i)'
    <3>1. NoWait(i) => NoWait(i)'
      BY <1>1, <2>2, ClearGrown
    <3> QED BY <1>1, <1>2, <2>1, <3>1 DEF Finished
  <2> QED BY <1>1, <1>2, <1>4, <2>1, <2>2, <2>3 DEF DoneStands
<1>6. CASE Behind(a, L, 0, Staying) /\ Remains(reported, unseenDone)
  <2>1. 0 \in 0 .. L
    BY <1>2
  <2>2. Remains(reported', unseenDone')
    BY <1>6
  <2> QED BY <1>1, <1>2, <1>4, <1>6, <2>1, <2>2 DEF DoneStands
<1> QED BY <1>1, <1>5, <1>6 DEF DoneStands

LEMMA DoneSame ==
    ASSUME DoneStands, Ahead' = Ahead, Line' = Line, kind' = kind,
           NoneWaits => NoneWaits',
           Remains(reported, unseenDone) => Remains(reported', unseenDone')
    PROVE  DoneStands'
<1>1. \A i : NoWait(i) => NoWait(i)'
  BY ClearSame
<1>2. \A i : Finished(i) => Finished(i)'
  BY <1>1 DEF Finished
<1> QED BY <1>2 DEF DoneStands

LEMMA DoneCut ==
    ASSUME QueueInv, DoneStands, NEW n \in 1 .. Ahead, IsKey(Line[n]), Ahead' = Ahead - 1,
           \A j \in 1 .. Ahead - 1 : Line'[j] = Line[Was(n, j)], kind' = kind,
           NoneWaits => NoneWaits',
           Remains(reported, unseenDone) => Remains(reported', unseenDone')
    PROVE  DoneStands'
<1>1. PICK a, b, L, kept : a = Line /\ b = Line' /\ L = Ahead /\ kept = Staying
  OBVIOUS
<1>2. L \in Nat \ {0} /\ n \in 1 .. L
  BY <1>1, LineSays
<1>3. \A j \in 1 .. L - 1 : b[j] = a[Was(n, j)]
  BY <1>1
<1>4. \A i \in 0 .. L : i # n =>
        /\ Behind(a, L, i, kept) => Behind(b, L - 1, Now(n, i), kept)
        /\ i # 0 => Now(n, i) \in 1 .. L - 1 /\ Was(n, Now(n, i)) = i /\ b[Now(n, i)] = a[i]
        /\ i = 0 => Now(n, i) = 0
  <2>1. TakenOut(a, b, L, n)
    BY <1>3 DEF TakenOut
  <2>2. \A i \in 0 .. L : i # n => MovesUp(a, b, L, n, i, kept)
    BY <1>2, <2>1, BehindCut
  <2> QED BY <2>2 DEF MovesUp
<1>5. \A i \in 1 .. L : NoWait(Was(n, i)) => NoWait(i)'
  BY <1>1, ClearCut
<1>6. CASE \E i \in 1 .. L : Finished(i) /\ Behind(a, L, i, kept)
  <2>1. PICK i \in 1 .. L : Finished(i) /\ Behind(a, L, i, kept)
    BY <1>6
  <2>2. i # n
    BY <1>1, <2>1, KnownKinds DEF Finished, IsKey, KeyEvents
  <2>3. i \in 0 .. L /\ i # 0
    BY <1>2
  <2>4. PICK k : k = Now(n, i)
    OBVIOUS
  <2>5. /\ k \in 1 .. L - 1 /\ Was(n, k) = i /\ b[k] = a[i]
        /\ Behind(b, L - 1, k, kept)
    BY <1>4, <2>1, <2>2, <2>3, <2>4
  <2>6. k \in 1 .. L
    BY <1>2, <2>5
  <2>7. NoWait(i) => NoWait(k)'
    BY <1>5, <2>5, <2>6
  <2>8. Finished(k)'
    BY <1>1, <2>1, <2>5, <2>7 DEF Finished
  <2> QED BY <1>1, <2>5, <2>8 DEF DoneStands
<1>7. CASE Behind(a, L, 0, kept) /\ Remains(reported, unseenDone)
  <2>1. 0 \in 0 .. L /\ 0 # n
    BY <1>2
  <2>2. Behind(b, L - 1, 0, kept)
    BY <1>4, <1>7, <2>1
  <2> QED BY <1>1, <1>7, <2>2 DEF DoneStands
<1> QED BY <1>1, <1>6, <1>7 DEF DoneStands

\* The end of a turn that leaves nothing behind is reported as done, and so is a
\* nudge.
LEMMA DoneApplies ==
    ASSUME NEW m, Apply(m),
           \/ m.event = "stopIdle"
           \/ m.event = "stop" /\ NoneWaits
           \/ m.event = "nudge" /\ Waiting(reported) = {}
    PROVE  Lasts(reported')
<1>1. FromHook(m) /\ Status(m) = "done" /\ LetsThrough(m)
  BY DEF FromHook, Status, LetsThrough
<1>2. ~HoldsForTurnEnd(m)
  BY <1>1 DEF HoldsForTurnEnd
<1> DEFINE promoted == FromHook(m) /\ turnOpen /\ ~TurnOpenAfter(m) /\ heldWaiting # {}
           live == IF promoted THEN heldWaiting ELSE reported
<1>3. Meet(live, m) = "apply"
  <2>1. CASE m.event = "stopIdle"
    <3>1. WakesPending(m) = {FALSE} /\ m.event # "nudge"
      BY <2>1 DEF WakesPending
    <3>2. TRUE \notin {FALSE}
      OBVIOUS
    <3> QED BY <3>1, <3>2 DEF Meet
  <2>2. CASE m.event = "stop" /\ NoneWaits
    <3>1. Waiting(live) = {}
      BY <2>2 DEF NoneWaits
    <3> QED BY <3>1 DEF Meet
  <2>3. CASE m.event = "nudge" /\ Waiting(reported) = {}
    <3>1. ~promoted
      BY <2>3 DEF TurnOpenAfter
    <3>2. Waiting(live) = {}
      BY <2>3, <3>1
    <3> QED BY <3>2 DEF Meet
  <2> QED BY <2>1, <2>2, <2>3
<1>4. reported' = {NewReport("done")}
  BY <1>1, <1>2, <1>3 DEF Apply
<1>5. NewReport("done").status = "done" /\ NewReport("done").ttl = Ttl /\ Ttl > 0
  BY WindowsAreTimes DEF NewReport
<1> QED BY <1>4, <1>5 DEF Lasts

LEMMA DoneServed ==
    ASSUME Shape, QueueInv, TurnInv, DoneStands, Serve, ~closed
    PROVE  DoneStands'
<1>1. PICK a, b, L, m, kept :
         a = Line /\ b = Line' /\ L = Ahead /\ m = Line[1] /\ kept = Staying
  OBVIOUS
<1>2. /\ L \in Nat \ {0} /\ Ahead' = L - 1 /\ m = Head(pending) /\ ~IsKey(m)
      /\ kind' = kind /\ unseenDone' = unseenDone
  BY <1>1, Served DEF Serve, agentVars
<1>3. Apply(m)
  BY <1>2 DEF Serve
<1>4. \A j \in 1 .. L - 1 : b[j] = a[j + 1]
  BY <1>1, Served
<1>5. L \in Nat \ {0}
  BY <1>2
<1>6. \A i \in 1 .. L : Behind(a, L, i, kept) => Behind(b, L - 1, i - 1, kept)
  BY <1>4, <1>5, BehindServed
<1>7. \A i \in 1 .. L : i # 1 => i - 1 \in 1 .. L - 1 /\ b[i - 1] = a[i] /\ (i - 1) + 1 = i
  BY <1>4, <1>5, BehindServed
<1>8. 1 \in 1 .. L /\ 1 - 1 = 0
  BY <1>5
<1>9. ASSUME Lasts(reported'), Behind(b, L - 1, 0, kept)
      PROVE  DoneStands'
  BY <1>1, <1>2, <1>9 DEF DoneStands, Remains
<1>10. CASE \E i \in 1 .. L : Finished(i) /\ Behind(a, L, i, kept)
  <2>1. PICK i \in 1 .. L : Finished(i) /\ Behind(a, L, i, kept)
    BY <1>10
  <2>2. CASE i = 1
    <3>1. Behind(b, L - 1, 0, kept)
      BY <1>6, <1>8, <2>1, <2>2
    <3>2. m.event = "stopIdle" \/ (m.event = "stop" /\ NoneWaits)
      <4>1. \A k \in 1 .. 1 - 1 : FALSE
        OBVIOUS
      <4>2. NoWait(1) => NoneWaits
        BY <4>1 DEF NoWait, Stands
      <4> QED BY <1>1, <2>1, <2>2, <4>2 DEF Finished
    <3>3. Lasts(reported')
      BY <1>3, <3>2, DoneApplies
    <3> QED BY <1>9, <3>1, <3>3
  <2>3. CASE i # 1
    <3>1. PICK k : k = i - 1
      OBVIOUS
    <3>2. /\ k \in 1 .. L - 1 /\ b[k] = a[i] /\ k + 1 = i /\ Behind(b, L - 1, k, kept)
      BY <1>6, <1>7, <2>1, <2>3, <3>1
    <3>3. k \in 1 .. L
      BY <1>5, <3>2
    <3>4. kind # "claude" => (NoWait(i) => NoWait(k)')
      BY <1>1, <3>2, <3>3, ClearServed
    <3>5. Finished(k)'
      BY <1>1, <1>2, <2>1, <3>2, <3>4 DEF Finished
    <3> QED BY <1>1, <1>2, <3>2, <3>5 DEF DoneStands
  <2> QED BY <2>2, <2>3
<1>11. CASE Behind(a, L, 0, kept) /\ Remains(reported, unseenDone)
  <2>1. a[1] \in kept /\ Behind(b, L - 1, 0, kept)
    BY <1>4, <1>5, <1>11, BehindServed
  <2>2. m.event = "nudge"
    BY <1>1, <1>2, <2>1 DEF Staying
  <2>3. Waiting(reported) = {}
    BY <1>11 DEF Remains, Lasts, Waiting
  <2>4. Lasts(reported')
    BY <1>3, <2>2, <2>3, DoneApplies
  <2> QED BY <1>9, <2>1, <2>4
<1> QED BY <1>1, <1>10, <1>11 DEF DoneStands

LEMMA AgentDone ==
    ASSUME QueueInv, ClearInv, OwedInv, Agent
    PROVE  OwedInv'
<1>1. \A e \in Events \ {"own"} : Report(e) \in Messages /\ Report(e).event = e
  BY MessagesSay DEF Report
<1>2. {"prompt", "stop", "stopIdle", "stopBusy", "cancel", "cancelIdle", "failure", "ask",
       "nudge", "review"} \subseteq Events \ {"own"}
  BY DEF Events
<1>3. CASE StartTurn \/ CancelTurn \/ FailTurn \/ Exit \/ \E status \in Tells : Tell(status)
  <2>1. owed' = FALSE
    BY <1>3 DEF StartTurn, CancelTurn, FailTurn, Exit, Tell
  <2> QED BY <2>1 DEF OwedInv
<1>4. CASE EndTurn
  <2>1. kind \in {"claude", "codex", "agy"}
    BY KnownKinds DEF QueueInv
  <2>2. PICK e \in {"stop", "stopIdle", "stopBusy"} :
           /\ Send(Report(e)) /\ ~turn' /\ (e = "stop" => kind # "claude")
           /\ announced' = (e = "stopBusy" \/ (e = "stop" /\ announced))
           /\ owed' = (~announced' /\ notified # "done")
    BY <1>4, <2>1 DEF EndTurn
  <2> SUFFICES ASSUME owed' PROVE OwedInv'
    BY DEF OwedInv
  <2>3. ~announced' /\ notified # "done" /\ e # "stopBusy" /\ (e = "stop" => ~announced)
    BY <2>2
  <2>4. PICK m, n : m = Report(e) /\ n = Ahead + 1
    OBVIOUS
  <2>5. m \in Messages /\ m.event = e /\ Send(m)
    BY <1>1, <1>2, <2>2, <2>4
  <2>6. /\ Ahead \in Nat /\ Ahead' = Ahead + 1 /\ Line'[Ahead + 1] = m
        /\ \A i \in 1 .. Ahead : Line'[i] = Line[i]
        /\ UNCHANGED <<reported, heldWaiting, kind, exited, notified>> /\ ~exited
    BY <2>5, Sent
  <2>7. n \in Nat /\ n \in 1 .. n /\ Ahead' = n /\ Line'[n] = m /\ n \in 1 .. Ahead + 1
        /\ \A j \in n + 1 .. n : FALSE
    BY <2>4, <2>6
  <2>8. e = "stop" => NoWait(n)'
    <3>1. e = "stop" => NoWait(n)
      BY <2>2, <2>3, <2>4, <2>6 DEF ClearInv, HeardNone
    <3>2. \A i \in 1 .. Ahead + 1 : NoWait(i)' <=> NoWait(i)
      BY <2>6, ClearGrown
    <3> QED BY <2>7, <3>1, <3>2
  <2>9. Finished(n)'
    BY <2>2, <2>3, <2>5, <2>6, <2>7, <2>8 DEF Finished
  <2>10. DoneStands'
    BY <2>7, <2>9 DEF DoneStands, Behind
  <2> QED BY <2>2, <2>3, <2>6, <2>10 DEF OwedInv
<1>5. CASE Ask \/ Review \/ \E c \in Calls : Question(c) \/ Answer(c)
  <2>1. turn /\ owed' = owed
    BY <1>5 DEF Ask, Review, Question, Answer
  <2>2. ~owed'
    BY <2>1 DEF OwedInv
  <2> QED BY <2>2 DEF OwedInv
<1>6. CASE Nudge
  <2>1. PICK m : m = Report("nudge")
    OBVIOUS
  <2>2. Send(m) /\ turn' = turn /\ owed' = owed
    BY <1>6, <2>1 DEF Nudge
  <2>3. m \in Messages /\ m \in Staying
    BY <1>1, <1>2, <2>1 DEF Staying
  <2>4. /\ Ahead \in Nat /\ Ahead' = Ahead + 1 /\ Line'[Ahead + 1] = m
        /\ \A i \in 1 .. Ahead : Line'[i] = Line[i]
        /\ UNCHANGED <<reported, heldWaiting, kind, unseenDone, exited, notified>>
    BY <2>2, <2>3, Sent
  <2>5. DoneStands => DoneStands'
    BY <2>3, <2>4, DoneGrown
  <2> QED BY <2>2, <2>4, <2>5 DEF OwedInv
<1>7. CASE Draw \/ React
  <2>1. UNCHANGED <<chan, pending, heldWaiting, reported, exited, owed, kind, turn,
                    notified, unseenDone>>
    BY <1>7 DEF Draw, React, tabVars, loopVars, ghosts
  <2>2. Ahead' = Ahead /\ Line' = Line
    BY <2>1, LineStays
  <2>3. DoneStands => DoneStands'
    BY <2>1, <2>2, DoneSame DEF NoneWaits, Waiting
  <2> QED BY <2>1, <2>3 DEF OwedInv
<1> QED BY <1>3, <1>4, <1>5, <1>6, <1>7 DEF Agent

\* A settle the user does not see keeps the done, and remembers it.
LEMMA DoneSettles ==
    ASSUME Shape, QueueInv, OwedInv, Settle
    PROVE  OwedInv'
<1> SUFFICES ASSUME owed' PROVE OwedInv'
  BY DEF OwedInv
<1>1. /\ UNCHANGED <<chan, pending, exited, kind, turn>>
      /\ owed /\ ~InView
  BY DEF Settle, agentVars
<1>2. ~exited /\ ~turn /\ DoneStands /\ (notified = "done" => unseenDone) /\ ~closed
  BY <1>1 DEF OwedInv, QueueInv
<1>3. unseenDone' <=> unseenDone \/ (notified' = "done" /\ notified # "done")
  <2>1. PICK new : notified' = new /\ unseenDone' = UnseenAfter(new)
    BY DEF Settle
  <2> QED BY <1>1, <2>1 DEF UnseenAfter
<1>4. Remains(reported, unseenDone) => Remains(reported', unseenDone')
  <2>1. ASSUME Lasts(reported) PROVE Lasts(reported')
    <3>1. PICK q \in reported : q.status = "done" /\ q.ttl > 0
      BY <2>1 DEF Lasts
    <3>2. PICK r \in reported' : r.status = q.status /\ r.ttl = q.ttl
      BY <1>2, <3>1, SettleStill
    <3>3. reported' = {r}
      BY <1>2, <3>2, SettleStill
    <3> QED BY <3>1, <3>2, <3>3 DEF Lasts
  <2>2. ASSUME \A r \in reported : r.status = "done"
        PROVE  \A r \in reported' : r.status = "done"
    BY <1>2, <2>2, SettleStill
  <2> QED BY <1>3, <2>1, <2>2 DEF Remains
<1>5. Ahead' = Ahead /\ Line' = Line
  BY <1>1, LineStays
<1>6. NoneWaits => NoneWaits'
  BY <1>2, NoneSettled
<1>7. DoneStands'
  BY <1>1, <1>2, <1>4, <1>5, <1>6, DoneSame
<1> QED BY <1>1, <1>2, <1>3, <1>7 DEF OwedInv

LEMMA DoneReceived ==
    ASSUME Shape, QueueInv, OwedInv, Recv
    PROVE  OwedInv'
<1>1. UNCHANGED <<kind, turn, exited, notified, unseenDone>>
  BY DEF Recv
<1>2. CASE /\ Ahead' = Ahead /\ \A i \in 1 .. Ahead : Line'[i] = Line[i]
           /\ UNCHANGED <<reported, heldWaiting, ghosts>>
  <2>1. Line' = Line /\ Ahead' = Ahead
    BY <1>2, LineEquals
  <2>2. DoneStands => DoneStands'
    BY <1>1, <1>2, <2>1, DoneSame DEF NoneWaits, Waiting
  <2> QED BY <1>1, <1>2, <2>2 DEF OwedInv, ghosts
<1>3. ASSUME NEW n \in 1 .. Ahead, IsKey(Line[n]), Ahead' = Ahead - 1,
             \A j \in 1 .. Ahead - 1 : Line'[j] = Line[Was(n, j)], Dispatch(Line[n].event)
      PROVE  OwedInv'
  <2>1. owed' = owed
    BY <1>3 DEF Dispatch, Press, ghosts
  <2>2. NoneWaits => NoneWaits'
    BY <1>3, NoneKeyed
  <2>3. Remains(reported, unseenDone) => Remains(reported', unseenDone')
    <3>1. reported' \subseteq reported
      BY <1>3, KeySays
    <3>2. ASSUME Lasts(reported) PROVE Lasts(reported')
      <4>1. PICK r \in reported : reported = {r} /\ r.status = "done" /\ r.ttl > 0
        BY <3>2 DEF Lasts
      <4>2. \A esc : LeftByKey(esc) = reported
        BY <4>1 DEF LeftByKey
      <4>3. reported' = reported
        BY <1>3, <4>2 DEF Dispatch, Press
      <4> QED BY <4>1, <4>3 DEF Lasts
    <3> QED BY <1>1, <3>1, <3>2 DEF Remains
  <2>4. DoneStands => DoneStands'
    BY <1>1, <1>3, <2>2, <2>3, DoneCut
  <2> QED BY <1>1, <2>1, <2>4 DEF OwedInv
<1> QED BY <1>2, <1>3, Received

LEMMA DoneTicks ==
    ASSUME Shape, QueueInv, OwedInv, Tick
    PROVE  OwedInv'
<1> SUFFICES ASSUME owed' PROVE OwedInv'
  BY DEF OwedInv
<1>1. /\ UNCHANGED <<chan, pending, exited, kind, turn, notified, unseenDone>>
      /\ reported' = {Aged(r) : r \in reported}
      /\ owed /\ (notified = "done" \/ \A r \in reported : r.status = "done" => r.ttl # 1)
  BY DEF Tick, agentVars
<1>2. ~exited /\ ~turn /\ DoneStands /\ (notified = "done" => unseenDone)
  BY <1>1 DEF OwedInv
<1>3. \A r \in reported : /\ r.ttl \in Nat /\ reported = {r} /\ Aged(r).status = r.status
                          /\ Aged(r).ttl = Sooner(r.ttl)
  BY AgedSays DEF Shape, Optional, IsReport
<1>4. Remains(reported, unseenDone) => Remains(reported', unseenDone')
  <2>1. (\A r \in reported : r.status = "done") => \A r \in reported' : r.status = "done"
    BY <1>1, <1>3
  <2>2. ASSUME Lasts(reported) PROVE Remains(reported', unseenDone')
    <3>1. PICK r \in reported : reported = {r} /\ r.status = "done" /\ r.ttl > 0
      BY <2>2 DEF Lasts
    <3>2. CASE notified = "done"
      BY <1>1, <1>2, <2>1, <3>1, <3>2 DEF Remains
    <3>3. CASE r.ttl # 1
      <4>1. reported' = {Aged(r)}
        BY <1>1, <3>1
      <4>2. Aged(r).status = "done" /\ Aged(r).ttl > 0
        BY <1>3, <3>1, <3>3 DEF Sooner
      <4> QED BY <4>1, <4>2 DEF Lasts, Remains
    <3> QED BY <1>1, <3>1, <3>2, <3>3
  <2> QED BY <1>1, <2>1, <2>2 DEF Remains
<1>5. Ahead' = Ahead /\ Line' = Line
  BY <1>1, LineStays
<1>6. DoneStands'
  BY <1>1, <1>2, <1>4, <1>5, NoneTicks, DoneSame
<1> QED BY <1>1, <1>2, <1>6 DEF OwedInv

LEMMA DoneKept ==
    ASSUME IInv, QueueInv, TurnInv, ClearInv, OwedInv, [Next]_vars
    PROVE  OwedInv'
<1>1. CASE Agent
  BY <1>1, AgentDone
<1>2. ASSUME NEW k \in KeyEvents, Type(k)
      PROVE  OwedInv'
  <2>1. /\ Ahead \in Nat /\ Ahead' = Ahead + 1 /\ Line'[Ahead + 1] = Report(k)
        /\ \A i \in 1 .. Ahead : Line'[i] = Line[i]
        /\ IsKey(Report(k)) /\ Report(k) \in Messages
        /\ UNCHANGED <<reported, heldWaiting, kind, turn, exited, owed, notified, unseenDone>>
    BY <1>2, Typed DEF agentVars, ghosts
  <2>2. Report(k) \in Staying
    BY <2>1 DEF Staying
  <2>3. DoneStands => DoneStands'
    BY <2>1, <2>2, DoneGrown
  <2> QED BY <2>1, <2>3 DEF OwedInv
<1>3. ASSUME UNCHANGED <<chan, pending, exited, kind, turn, owed, reported, heldWaiting,
                         notified, unseenDone>>
      PROVE  OwedInv'
  <2>1. Ahead' = Ahead /\ Line' = Line
    BY <1>3, LineStays
  <2>2. DoneStands => DoneStands'
    BY <1>3, <2>1, DoneSame DEF NoneWaits, Waiting
  <2> QED BY <1>3, <2>2 DEF OwedInv
<1>4. CASE Land
  BY <1>3, <1>4 DEF Land, agentVars, ghosts
<1>5. CASE Settle
  BY <1>5, DoneSettles DEF IInv
<1>6. CASE Serve
  <2>1. UNCHANGED <<exited, owed, turn, notified, unseenDone>>
    BY <1>6 DEF Serve, agentVars, ghosts
  <2>2. ~exited => ~closed
    BY DEF QueueInv
  <2>3. ~exited => (DoneStands => DoneStands')
    BY <1>6, <2>2, DoneServed DEF IInv
  <2> QED BY <2>1, <2>3 DEF OwedInv
<1>7. CASE Recv
  BY <1>7, DoneReceived DEF IInv
<1>8. CASE Tick
  BY <1>8, DoneTicks DEF IInv
<1>9. CASE UNCHANGED vars
  BY <1>3, <1>9 DEF vars, agentVars, tabVars, loopVars, ghosts
<1> QED BY <1>1, <1>2, <1>4, <1>5, <1>6, <1>7, <1>8, <1>9 DEF Next

\* A turn that ended while nobody looked shows as done until somebody does
\* (settle_agent_activity, apply_status_report): its end is in the queue and no
\* wait is left to take it for the end of something else, or its report is in
\* force, or the loop remembers that nobody has seen it.
THEOREM FinishedTurnIsShown == Spec => []DoneShown
<1>1. Init => OwedInv
  BY DEF Init, OwedInv
<1>2. Spec => []OwedInv
  BY <1>1, DoneKept, NothingWaits, Queued, TurnsHeard, DeadlineArmed, PTL DEF Spec
<1>3. IInv /\ QueueInv /\ OwedInv => DoneShown
  <2> SUFFICES ASSUME IInv, QueueInv, OwedInv, Sleeping, owed, ~scrape
               PROVE  \/ activity = "done"
                      \/ unseenDone /\ activity = "idle"
                      \/ reported = {} /\ activity = "working" /\ outputAge < Active
    BY DEF DoneShown
  <2>1. DoneStands /\ ~exited
    BY DEF OwedInv
  <2>2. Ahead = 0 /\ activity = Effective(reported, scrape) /\ Armed
    BY <2>1, AsleepSays
  <2>3. Remains(reported, unseenDone)
    BY <2>1, <2>2 DEF DoneStands
  <2>4. ~Overrides(reported, scrape)
    BY DEF Overrides
  <2>5. CASE reported = {}
    <3>1. unseenDone
      BY <2>3, <2>5 DEF Remains, Lasts
    <3>2. activity = ByOutput
      BY <2>2, <2>4, <2>5 DEF Effective
    <3> QED BY <2>5, <3>1, <3>2 DEF ByOutput
  <2>6. CASE reported # {}
    <3>1. PICK r \in reported : reported = {r} /\ r.status = "done" /\ r.ttl \in Nat
      BY <2>3, <2>6 DEF Remains, Lasts, IInv, Shape, Optional, IsReport
    <3>2. r.ttl # 0
      <4>1. PICK n \in idleIn : Covers(n, r)
        BY <2>2, <3>1 DEF Armed
      <4>2. n \in Nat /\ n <= r.ttl
        BY <4>1 DEF Covers, IInv, Shape
      <4>3. n # 0
        BY <4>1 DEF Sleeping, Due
      <4> QED BY <3>1, <4>2, <4>3
    <3>3. ~Expired(r) /\ ~Yields(r)
      BY <3>1, <3>2 DEF Expired, Yields
    <3>4. activity = CHOOSE s \in Statuses : \E q \in reported : q.status = s
      BY <2>2, <2>4, <3>1, <3>3 DEF Effective
    <3>5. "done" \in Statuses
      BY DEF Statuses
    <3>6. \A s : (\E q \in reported : q.status = s) <=> s = "done"
      BY <3>1
    <3> QED BY <3>4, <3>5, <3>6
  <2> QED BY <2>5, <2>6
<1> QED BY <1>2, <1>3, Queued, DeadlineArmed, PTL

=============================================================================
