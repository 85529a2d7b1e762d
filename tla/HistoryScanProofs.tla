------------------------- MODULE HistoryScanProofs -------------------------
(***************************************************************************)
(* Proofs about the reconciliation scan of the activity list: the walks    *)
(* over the account's pages, their two reports, the retained scan, the     *)
(* guard of the fetches and the marks of the list, for any number of rows, *)
(* any page size, page budget, faults, late rows, generations and sends.   *)
(*                                                                         *)
(* IInv says, of the rows an endpoint shows and nothing explains (older    *)
(* than a walk's age cutoff, past the cap of the list, of a stale report,  *)
(* indexed late, or skipped by the anchor of a send):                      *)
(*   Pool      every walk has an id of its own and owns what it read; the  *)
(*             guard is owned by one of them                               *)
(*   Trusted   below the floor the list misses none of them, and without a *)
(*             mark it misses none at all up to its newest row             *)
(*   ScanOK    the rows of the retained scan have no hole, and are in the  *)
(*             list unless the walk that brought them has yet to report    *)
(*   Walks     the walk that will be believed has met all of them between  *)
(*             its cursor and where it began (Walked), and where it began  *)
(*             joins the scan or the list (Placed)                         *)
(*   Skips     what a send's floor skips is explained                      *)
(*   Promised  an announced row that is not in the list is served by the   *)
(*             walk under way, by one that is queued, or by a mark         *)
(*                                                                         *)
(* RInv, at the end, adds what the duplicate-risk review relies on at an   *)
(* endpoint that indexes in order: the row of the unresolved transfer is   *)
(* within reach of the walk, of the retained scan and of every floor, and  *)
(* a review that was asked for while it was listed waits for a walk that   *)
(* covers it.                                                              *)
(***************************************************************************)
EXTENDS HistoryScan, FiniteSetTheorems, WellFoundedInduction, TLAPS

-----------------------------------------------------------------------------
(* Sets of rows.                                                           *)

(* A set of rows that is not empty has a smallest and a largest row.       *)
LEMMA MinOfRows ==
    ASSUME NEW S \in SUBSET Nat, S # {}
    PROVE  Min(S) \in S /\ \A y \in S : Min(S) <= y
  <1>1. PICK x \in S : \A y \in S : ~(<<y, x>> \in OpToRel(<, Nat))
    BY NatLessThanWellFounded, WFMin, Zenon
  <1>2. \A y \in S : x =< y
    <2> TAKE y \in S
    <2>1. ~(<<y, x>>[1] < <<y, x>>[2])
      BY <1>1 DEF OpToRel
    <2> QED
      BY <2>1
  <1> QED
    BY <1>2, Zenon DEF Min

(* The same of the largest row, by the smallest distance to a bound.       *)
LEMMA MaxOfRows ==
    ASSUME NEW h \in Nat, NEW S \in SUBSET (1..h), S # {}
    PROVE  Max(S) \in S /\ \A y \in S : y <= Max(S)
  <1> DEFINE T == {h - y : y \in S}
  <1>1. T \in SUBSET Nat /\ T # {}
    <2>1. \A y \in S : y \in Int /\ y <= h
      OBVIOUS
    <2>2. \A y \in S : h - y \in Nat
      BY <2>1
    <2>3. PICK y \in S : TRUE
      OBVIOUS
    <2>4. h - y \in T
      OBVIOUS
    <2> QED
      BY <2>2, <2>4
  <1>2. Min(T) \in T /\ \A t \in T : Min(T) <= t
    BY <1>1, MinOfRows
  <1>3. PICK x \in S : Min(T) = h - x
    BY <1>2
  <1>4. \A y \in S : x >= y
    <2> TAKE y \in S
    <2>1. h - x <= h - y
      BY <1>2, <1>3
    <2> QED
      BY <2>1
  <1>5. Max(S) \in S /\ \A y \in S : Max(S) >= y
    BY <1>4, Zenon DEF Max
  <1> QED
    BY <1>5

(* Newest is the largest row of a set, and 0 when there is none.           *)
LEMMA NewestFacts ==
    ASSUME NEW h \in Nat, NEW S \in SUBSET (1..h)
    PROVE  /\ Newest(S) \in 0..h
           /\ \A y \in S : y <= Newest(S)
           /\ S = {} => Newest(S) = 0
           /\ S # {} => Newest(S) \in S
  <1>1. CASE S = {}
    BY <1>1 DEF Newest
  <1>2. CASE S # {}
    <2>1. Newest(S) = Max(S)
      BY <1>2 DEF Newest
    <2>2. Max(S) \in S /\ \A y \in S : y <= Max(S)
      BY <1>2, MaxOfRows
    <2>3. Max(S) \in 1..h
      BY <2>2
    <2>4. Max(S) \in 0..h
      BY <2>3
    <2> QED
      BY <1>2, <2>1, <2>2, <2>4, Zenon
  <1> QED
    BY <1>1, <1>2

(* Oldest is the smallest row of a set, and 0 when there is none.          *)
LEMMA OldestFacts ==
    ASSUME NEW h \in Nat, NEW S \in SUBSET (1..h)
    PROVE  /\ Oldest(S) \in 0..h
           /\ \A y \in S : Oldest(S) <= y
           /\ S = {} => Oldest(S) = 0
           /\ S # {} => Oldest(S) \in S
  <1>1. CASE S = {}
    BY <1>1 DEF Oldest
  <1>2. CASE S # {}
    <2>1. Oldest(S) = Min(S)
      BY <1>2 DEF Oldest
    <2>2. S \in SUBSET Nat
      OBVIOUS
    <2>3. Min(S) \in S /\ \A y \in S : Min(S) <= y
      BY <1>2, <2>2, MinOfRows
    <2>4. Min(S) \in 1..h
      BY <2>3
    <2>5. Min(S) \in 0..h
      BY <2>4
    <2> QED
      BY <1>2, <2>1, <2>3, <2>5, Zenon
  <1> QED
    BY <1>1, <1>2

(* The cap keeps the newest row.                                           *)
LEMMA CapFacts ==
    ASSUME NEW h \in Nat, NEW S \in SUBSET (1..h)
    PROVE  Cap(S) \subseteq S /\ Newest(Cap(S)) = Newest(S)
  <1>1. Cap(S) \subseteq S
    BY DEF Cap
  <1>2. CASE S = {}
    BY <1>1, <1>2
  <1>3. CASE S # {}
    <2> DEFINE m == Newest(S)
    <2>1. m \in S /\ m \in Nat /\ \A y \in S : y <= m
      BY <1>3, NewestFacts
    <2> HIDE DEF m
    <2>2. {k \in S : k > m} = {}
      <3>1. \A y \in S : ~(y > m)
        BY <2>1
      <3> QED
        BY <3>1
    <2>3. Cardinality({k \in S : k > m}) = 0
      BY <2>2, FS_EmptySet
    <2>4. m \in Cap(S)
      BY <2>1, <2>3, HistoryAssumptions DEF Cap
    <2>5. /\ \A y \in Cap(S) : y <= Newest(Cap(S))
          /\ Newest(Cap(S)) \in Cap(S)
      BY <1>1, <2>4, NewestFacts
    <2>6. Newest(Cap(S)) <= m /\ m <= Newest(Cap(S)) /\ Newest(Cap(S)) \in S
      BY <1>1, <2>1, <2>4, <2>5
    <2>7. PICK k \in 1..h : k = Newest(Cap(S))
      BY <2>6
    <2>8. k = m
      BY <2>1, <2>6, <2>7
    <2> QED
      BY <1>1, <2>7, <2>8 DEF m
  <1> QED
    BY <1>2, <1>3

(* A page is a final segment of the rows below its cursor, and one that is *)
(* not full holds all of them.                                             *)
LEMMA PageFacts ==
    ASSUME head \in Nat, hidden \subseteq 1..head, NEW c \in Nat
    PROVE  LET P == PageBelow(c) IN
           /\ P \subseteq Visible
           /\ IsFiniteSet(P)
           /\ c # 0 => \A k \in P : k < c
           /\ \A k \in P, l \in Visible : (k <= l /\ (c = 0 \/ l < c)) => l \in P
           /\ Cardinality(P) < PageSize =>
                  \A l \in Visible : c = 0 \/ l < c => l \in P
           /\ P = {} => Cardinality(P) < PageSize
           /\ Visible # {} /\ c = 0 => Newest(Visible) \in P
  <1> DEFINE older == IF c = 0 THEN Visible ELSE {l \in Visible : l < c}
             Above(l) == {k \in older : k > l}
             P == PageBelow(c)
  <1>0. Visible \subseteq 1..head /\ older \subseteq 1..head
    BY DEF Visible
  <1>1. P = {l \in older : Cardinality(Above(l)) < PageSize}
    BY DEF PageBelow
  <1>2. IsFiniteSet(older) /\ IsFiniteSet(P)
    <2>1. IsFiniteSet(1..head)
      BY FS_Interval
    <2>2. older \in SUBSET (1..head) /\ P \in SUBSET (1..head)
      BY <1>0, <1>1
    <2> HIDE DEF older, P
    <2> QED
      BY <2>1, <2>2, FS_Subset
  <1>3. \A l : IsFiniteSet(Above(l)) /\ Cardinality(Above(l)) \in Nat
    BY <1>2, FS_Subset, FS_CardinalityType
  <1>4. PageSize \in Nat \ {0}
    BY HistoryAssumptions
  <1>5. ASSUME NEW k \in P, NEW l \in older, k <= l PROVE l \in P
    <2>1. Above(l) \subseteq Above(k)
      BY <1>0, <1>1, <1>5
    <2>2. Cardinality(Above(l)) <= Cardinality(Above(k))
      BY <1>3, <2>1, FS_Subset
    <2>3. Cardinality(Above(k)) < PageSize
      BY <1>1
    <2>4. PICK i \in Nat, j \in Nat :
             i = Cardinality(Above(l)) /\ j = Cardinality(Above(k))
      BY <1>3
    <2>5. i < PageSize
      BY <1>4, <2>2, <2>3, <2>4
    <2> QED
      BY <1>1, <2>4, <2>5
  <1>6. ASSUME Cardinality(P) < PageSize, NEW l \in older PROVE l \in P
    <2> SUFFICES ASSUME l \notin P PROVE FALSE
      OBVIOUS
    <2> DEFINE R == older \ P
    <2>1. R \in SUBSET (1..head) /\ R # {}
      BY <1>0
    <2>2. Max(R) \in R /\ \A y \in R : y <= Max(R)
      BY <2>1, MaxOfRows
    <2>3. Above(Max(R)) \subseteq P
      BY <1>0, <2>1, <2>2
    <2>4. Cardinality(Above(Max(R))) <= Cardinality(P) /\ Cardinality(P) \in Nat
      BY <1>2, <2>3, FS_Subset, FS_CardinalityType
    <2>5. PICK m \in older : m = Max(R)
      BY <2>2
    <2>6. PICK i \in Nat, j \in Nat :
             i = Cardinality(Above(m)) /\ j = Cardinality(P)
      BY <1>3, <2>4
    <2>7. i < PageSize
      BY <1>4, <1>6, <2>4, <2>5, <2>6
    <2>8. m \in P
      BY <1>1, <2>6, <2>7
    <2> QED
      BY <2>2, <2>5, <2>8
  <1>7. Visible # {} /\ c = 0 => Newest(Visible) \in P
    <2> SUFFICES ASSUME Visible # {}, c = 0 PROVE Newest(Visible) \in P
      OBVIOUS
    <2>1. /\ Newest(Visible) \in Visible /\ \A y \in Visible : y <= Newest(Visible)
          /\ Newest(Visible) \in 0..head
      BY <1>0, NewestFacts
    <2>2. PICK m \in Visible : m = Newest(Visible)
      BY <2>1
    <2>3. \A y \in older : ~(y > m)
      BY <1>0, <2>1, <2>2
    <2>4. Above(m) = {}
      BY <2>3
    <2>5. Cardinality(Above(m)) = 0
      BY <2>4, FS_EmptySet
    <2> QED
      BY <1>1, <1>4, <2>2, <2>5
  <1>8. P = {} => Cardinality(P) < PageSize
    BY <1>4, FS_EmptySet
  <1> QED
    BY <1>0, <1>1, <1>2, <1>5, <1>6, <1>7, <1>8

-----------------------------------------------------------------------------
(* The inductive invariant.  Its parts take the controller's fields as a   *)
(* parameter, since the handlers build their result in several steps; V    *)
(* are the visible rows, h is the head and L are the rows that must be     *)
(* accounted for: visible ones that nothing explains.                      *)

AppType ==
    [gen : 0..MaxGeneration, sub : {"connecting", "live", "failed"},
     tasks : SUBSET WalkType, inFlight : Nat, again : BOOLEAN,
     headAfter : BOOLEAN, scan : ScanType, activity : SUBSET Lts,
     incomplete : BOOLEAN, hasGap : BOOLEAN, integrity : BOOLEAN,
     floor : OptLt, blocking : BOOLEAN, recFloor : OptLt,
     timeFloor : OptCutoff, risk : {"none", "checking", "context"}]

\* The values of a flag that is an argument.
Flag == {TRUE, FALSE}

\* The walk whose reports are taken.
Current(a, w) == w.id = a.inFlight /\ w.gen = a.gen

\* No page of the walk has arrived.
Unread(w) == w.st = "walking" /\ w.pages = MaxPages

Known(a) == Newest(a.activity)

\* What a walk satisfies, whoever waits for it.
WalkOK(w, V, h) ==
    /\ w.id # 0
    /\ w.rows \subseteq V
    /\ w.start <= h
    /\ w.stop <= h
    /\ w.cont # 0 => w.cont \in w.rows
    /\ w.st = "walking" => w.pages # 0 /\ w.cont = 0
    /\ Unread(w) => /\ w.rows = {}
                    /\ w.before = w.start
                    /\ w.headOnly => w.cutoff = 0
    /\ w.st = "walking" /\ w.before = 0 => Unread(w)
    /\ w.st = "died" => w.gap
    /\ w.headOnly => w.start = 0

\* Walks have ids of their own, and the guard is owned by one of them.
Pool(a, V, h) ==
    /\ IsFiniteSet(a.tasks)
    /\ \A v, w \in a.tasks : v.id = w.id => v = w
    /\ a.inFlight # 0 => \E w \in a.tasks : w.id = a.inFlight
    /\ \A w \in a.tasks : w.gen <= a.gen /\ WalkOK(w, V, h)

Fields(a, V, h) ==
    /\ a \in AppType
    /\ a.sub = "failed" => a.gen < MaxGeneration
    /\ a.activity \subseteq V
    /\ a.scan.rows \subseteq V
    /\ a.floor <= h
    /\ a.recFloor <= h
    /\ a.scan.next <= h
    /\ a.scan.stop <= h
    /\ a.scan # NoScan => a.scan.next # 0

\* Nothing below s is missing from the list.
Below(a, L, s) == \A l \in L : l < s => l \in a.activity

\* The floor is trusted, and a list without a mark misses nothing.
Trusted(a, L) ==
    /\ Below(a, L, a.floor)
    /\ ~a.hasGap /\ ~a.incomplete => Below(a, L, Known(a) + 1)

\* The rows of a retained scan have no hole and are in the list, or about to be.
ScanOK(a, L) ==
    a.scan # NoScan =>
        /\ \A l \in L : a.scan.next <= l /\ l <= Newest(a.scan.rows)
                          => l \in a.scan.rows
        /\ Known(a) <= Newest(a.scan.rows)
        /\ Below(a, L, a.scan.stop)
        /\ \A l \in L : l \in a.scan.rows =>
             \/ l \in a.activity
             \/ \E w \in a.tasks : /\ w.id = a.inFlight
                                   /\ w.st = "observed"
                                   /\ l \in w.rows

\* The rows walk w has met from c on, k being the newest row of the list.
InReach(w, l, k) ==
    l <= Newest(w.rows) \/ IF w.start = 0 THEN l <= k ELSE l < w.start

WholeDownTo(w, c, L, k) ==
    \A l \in L : c <= l /\ InReach(w, l, k) => l \in w.rows

Walked(w, L, k) ==
    /\ w.st = "walking" /\ w.before # 0 => WholeDownTo(w, w.before, L, k)
    /\ w.cont # 0 => WholeDownTo(w, w.cont, L, k)
    /\ w.st # "walking" /\ w.cont = 0
         => WholeDownTo(w, Larger(w.stop, w.cutoff), L, k)

\* How the current walk stands to the retained scan and to the list.
Head(a, w) ==
    /\ a.scan # NoScan
    /\ w.stop = Known(a)
    /\ ~Unread(w) => Newest(a.scan.rows) <= Newest(w.rows)

Joins(a, w) ==
    IF w.start = 0 THEN a.scan = NoScan
    ELSE /\ a.scan # NoScan
         /\ a.scan.next = w.start
         /\ a.scan.stop = w.stop
         /\ a.scan.cutoff = w.cutoff

Reported(a, w, L) ==
    IF a.scan = NoScan
    THEN \A l \in L : l <= Known(a) \/ l <= Newest(w.rows)
                        => l \in a.activity \/ l \in w.rows
    ELSE w.rows \subseteq a.scan.rows

Placed(a, w, L) ==
    /\ w.headOnly => Head(a, w)
    /\ ~w.headOnly => Below(a, L, w.stop)
    /\ ~w.headOnly /\ w.st # "observed" => Joins(a, w)
    /\ w.start = 0 /\ ~Unread(w) /\ (w.st = "walking" \/ w.cont # 0)
         => Known(a) <= Newest(w.rows)
    /\ w.st = "observed" => Reported(a, w, L)

Walks(a, L) ==
    \A w \in a.tasks : Current(a, w) /\ ~w.gap
        => Walked(w, L, Known(a)) /\ Placed(a, w, L)

\* What is explained is not in the list, and covers what a send skipped.
Skips(a, x) ==
    /\ x \cap a.activity = {}
    /\ \A l \in Lts : Known(a) < l /\ l < a.recFloor => l \in x

\* The announced row n is ahead of the list, and will not be forgotten.
Ahead(a, V, n) == n # 0 => n \in V /\ Known(a) < n

Serves(a, w, n) ==
    \/ a.headAfter
    \/ /\ w.start = 0
       /\ \/ Unread(w)
          \/ w.gap
          \/ n <= Newest(w.rows)
          \/ w.st \in {"walking", "done"} /\ n < w.cutoff

Promised(a, x, n) ==
    n # 0 /\ n \notin x /\ ~a.again =>
        IF a.inFlight = 0 THEN a.hasGap \/ a.incomplete
        ELSE \E w \in a.tasks : Current(a, w) /\ Serves(a, w, n)

Sound(a, V, h, x) ==
    /\ Pool(a, V, h)
    /\ Fields(a, V, h)
    /\ Trusted(a, V \ x)
    /\ ScanOK(a, V \ x)
    /\ Walks(a, V \ x)
    /\ Skips(a, x)

World ==
    /\ head \in OptLt
    /\ hidden \subseteq 1..head
    /\ sent \in 0..head
    /\ sends \in 0..MaxSends
    /\ faults \in Nat
    /\ announced \in 0..head
    /\ atRequest \in BOOLEAN
    /\ explained \subseteq Lts

IInv ==
    /\ World
    /\ Sound(app, Visible, head, explained)
    /\ Ahead(app, Visible, announced)
    /\ Promised(app, explained, announced)

-----------------------------------------------------------------------------
(* What a change of the other fields leaves alone.                         *)

\* The fields the invariant reads are the same in a and b.
Alike(a, b) ==
    /\ b \in AppType
    /\ b.gen = a.gen /\ b.tasks = a.tasks /\ b.inFlight = a.inFlight
    /\ b.activity = a.activity /\ b.hasGap = a.hasGap
    /\ b.incomplete = a.incomplete /\ b.floor = a.floor
    /\ b.sub = "failed" => b.gen < MaxGeneration
    /\ b.scan = NoScan <=> a.scan = NoScan
    /\ b.scan.next = a.scan.next /\ b.scan.stop = a.scan.stop
    /\ b.scan.cutoff = a.scan.cutoff /\ b.scan.rows = a.scan.rows

(* Only the floor of a send changes, and what it skips is explained.       *)
LEMMA FloorFrame ==
    ASSUME NEW V, NEW h, NEW x, NEW a, NEW b, Sound(a, V, h, x),
           Alike(a, b), b.recFloor <= h, Skips(b, x)
    PROVE  Sound(b, V, h, x)
  <1> USE DEF Alike
  <1>1. Pool(b, V, h)
    BY DEF Sound, Pool
  <1>2. Fields(b, V, h)
    BY DEF Sound, Fields
  <1>3. \A L, s : Below(a, L, s) => Below(b, L, s)
    BY DEF Below
  <1>4. Known(b) = Known(a)
    BY DEF Known
  <1>5. Trusted(b, V \ x)
    BY <1>3, <1>4 DEF Sound, Trusted
  <1>6. ScanOK(b, V \ x)
    BY <1>3, <1>4 DEF Sound, ScanOK
  <1>7. Walks(b, V \ x)
    <2>1. \A w : Current(b, w) <=> Current(a, w)
      BY DEF Current
    <2>2. \A w : Head(a, w) => Head(b, w)
      BY <1>4 DEF Head
    <2>3. \A w : Joins(a, w) => Joins(b, w)
      BY DEF Joins
    <2>4. \A w : Reported(a, w, V \ x) => Reported(b, w, V \ x)
      BY <1>4 DEF Reported
    <2>5. \A w : Placed(a, w, V \ x) => Placed(b, w, V \ x)
      BY <1>3, <1>4, <2>2, <2>3, <2>4 DEF Placed
    <2> QED
      BY <1>4, <2>1, <2>5 DEF Sound, Walks
  <1> QED
    BY <1>1, <1>2, <1>5, <1>6, <1>7 DEF Sound

(* Fields the invariant does not see change.                               *)
LEMMA Frame ==
    ASSUME NEW V, NEW h, NEW x, NEW a \in AppType, NEW b \in AppType,
           Sound(a, V, h, x),
           b.gen = a.gen, b.tasks = a.tasks, b.inFlight = a.inFlight,
           b.activity = a.activity, b.hasGap = a.hasGap,
           b.incomplete = a.incomplete, b.floor = a.floor,
           b.recFloor = a.recFloor,
           b.sub = "failed" => b.gen < MaxGeneration,
           b.scan = NoScan <=> a.scan = NoScan,
           b.scan.next = a.scan.next, b.scan.stop = a.scan.stop,
           b.scan.cutoff = a.scan.cutoff, b.scan.rows = a.scan.rows
    PROVE  Sound(b, V, h, x)
  <1>1. Alike(a, b)
    BY DEF Alike
  <1>2. b.recFloor <= h /\ Skips(b, x)
    BY DEF Sound, Fields, Skips, Known
  <1> QED
    BY <1>1, <1>2, FloorFrame

-----------------------------------------------------------------------------
(* Starting a walk.                                                        *)

(* The id given to a walk is positive and no other walk has it             *)
(* (fetch_transactions_inner, live.rs).                                    *)
LEMMA FreshIdFacts ==
    ASSUME NEW a, IsFiniteSet(a.tasks), \A w \in a.tasks : w.id \in Nat
    PROVE  /\ FreshId(a) \in Nat \ {0}
           /\ \A w \in a.tasks : w.id # FreshId(a)
  <1> DEFINE c == Cardinality(a.tasks)
             ids == {w.id : w \in a.tasks}
             free == (1..c + 1) \ ids
  <1>1. c \in Nat
    BY FS_CardinalityType
  <1>2. IsFiniteSet(ids) /\ Cardinality(ids) <= c
    <2> DEFINE f == [w \in a.tasks |-> w.id]
    <2>1. f \in Surjection(a.tasks, ids)
      BY DEF Surjection
    <2> HIDE DEF f, ids
    <2> QED
      BY <2>1, FS_Surjection
  <1>3. free # {}
    <2> SUFFICES ASSUME 1..c + 1 \subseteq ids PROVE FALSE
      OBVIOUS
    <2>1. Cardinality(1..c + 1) = c + 1
      <3>1. c + 1 \in Int /\ ~(1 > c + 1) /\ (c + 1) - 1 + 1 = c + 1
        BY <1>1
      <3> HIDE DEF c
      <3> QED
        BY <3>1, FS_Interval
    <2>2. Cardinality(1..c + 1) <= Cardinality(ids) /\ Cardinality(ids) \in Nat
      <3> HIDE DEF ids, c
      <3> QED
        BY <1>2, FS_Subset, FS_CardinalityType
    <2> HIDE DEF ids, c
    <2>3. PICK n \in Nat : n = Cardinality(ids)
      BY <2>2
    <2> QED
      BY <1>1, <1>2, <2>1, <2>2, <2>3
  <1>4. free \in SUBSET Nat
    OBVIOUS
  <1>5. Min(free) \in free
    BY <1>3, <1>4, MinOfRows
  <1>6. FreshId(a) = Min(free)
    BY DEF FreshId
  <1> QED
    BY <1>5, <1>6

(* A walk starts at the head or where the retained scan goes on.           *)
LEMMA BoundsFacts ==
    ASSUME NEW h \in 0..MaxLt, NEW V \in SUBSET (1..h), NEW a,
           Fields(a, V, h), NEW o \in Flag
    PROVE  LET b == Bounds(a, o) IN
           /\ b = [start |-> b.start, stop |-> b.stop, cutoff |-> b.cutoff]
           /\ b.start \in OptLt /\ b.stop \in OptLt /\ b.cutoff \in OptCutoff
           /\ b.start <= h /\ b.stop <= h
           /\ o = TRUE => b.start = 0 /\ b.stop = Known(a) /\ b.cutoff = 0
           /\ o = FALSE /\ a.scan = NoScan => b.start = 0
           /\ o = FALSE /\ a.scan # NoScan =>
                /\ b.start = a.scan.next /\ b.start # 0
                /\ b.stop = a.scan.stop /\ b.cutoff = a.scan.cutoff
           /\ o = FALSE /\ a.scan = NoScan =>
                \/ (a.hasGap \/ a.incomplete) /\ b.stop = a.floor
                \/ /\ ~a.hasGap /\ ~a.incomplete
                   /\ b.stop \in {0, a.recFloor, Known(a)}
  <1>1. MaxLt \in Nat
    BY HistoryAssumptions
  <1>2. Newest(a.activity) \in 0..h
    BY NewestFacts DEF Fields
  <1>3. /\ a.scan \in ScanType /\ a.floor \in OptLt /\ a.recFloor \in OptLt
        /\ a.timeFloor \in OptCutoff /\ a.hasGap \in BOOLEAN
        /\ a.incomplete \in BOOLEAN /\ a.blocking \in BOOLEAN
        /\ a.floor <= h /\ a.recFloor <= h /\ a.scan.next <= h
        /\ a.scan.stop <= h /\ (a.scan # NoScan => a.scan.next # 0)
    BY DEF Fields, AppType
  <1>4. PICK k \in 0..h : k = Newest(a.activity)
    BY <1>2
  <1>5. /\ k \in OptLt /\ 0 \in OptLt /\ 0 \in OptCutoff /\ 0 <= h /\ k <= h
        /\ h \in Nat
    BY <1>1 DEF OptLt, OptCutoff
  <1>6. /\ a.scan.next \in OptLt /\ a.scan.stop \in OptLt
        /\ a.scan.cutoff \in OptCutoff
    BY <1>3 DEF ScanType
  <1>7. CASE o = TRUE
    BY <1>4, <1>5, <1>7 DEF Bounds, Known
  <1>8. CASE o = FALSE /\ a.scan # NoScan
    BY <1>3, <1>6, <1>8 DEF Bounds
  <1>9. CASE o = FALSE /\ a.scan = NoScan
    <2>1. CASE a.hasGap \/ a.incomplete
      BY <1>3, <1>5, <1>9, <2>1 DEF Bounds
    <2>2. CASE ~a.hasGap /\ ~a.incomplete
      BY <1>3, <1>4, <1>5, <1>9, <2>2 DEF Bounds, Known
    <2> QED
      BY <2>1, <2>2
  <1> QED
    BY <1>7, <1>8, <1>9 DEF Flag

(* The new walk, whose stop leaves nothing missing below it.               *)
LEMMA NewWalkFacts ==
    ASSUME NEW h \in 0..MaxLt, NEW V \in SUBSET (1..h), NEW x, NEW a,
           Sound(a, V, h, x), NEW o \in Flag
    PROVE  LET w == NewWalk(a, o) IN
           /\ w \in WalkType
           /\ w.id = FreshId(a) /\ w.gen = a.gen /\ w.headOnly = o
           /\ \A v \in a.tasks : v.id # w.id
           /\ WalkOK(w, V, h)
           /\ Unread(w) /\ w.gap = FALSE /\ w.rows = {} /\ w.cont = 0
           /\ w.st = "walking" /\ w.before = w.start
           /\ o = TRUE => w.start = 0 /\ w.stop = Known(a)
           /\ o = FALSE => Below(a, V \ x, w.stop) /\ Joins(a, w)
  <1> DEFINE w == NewWalk(a, o)
             b == Bounds(a, o)
  <1>1. Fields(a, V, h) /\ a \in AppType
    BY DEF Sound, Fields
  <1>2. /\ b.start \in OptLt /\ b.stop \in OptLt /\ b.cutoff \in OptCutoff
        /\ b.start <= h /\ b.stop <= h
        /\ o = TRUE => b.start = 0 /\ b.stop = Known(a) /\ b.cutoff = 0
        /\ o = FALSE /\ a.scan = NoScan => b.start = 0
        /\ o = FALSE /\ a.scan # NoScan =>
             /\ b.start = a.scan.next /\ b.start # 0
             /\ b.stop = a.scan.stop /\ b.cutoff = a.scan.cutoff
        /\ o = FALSE /\ a.scan = NoScan =>
             \/ (a.hasGap \/ a.incomplete) /\ b.stop = a.floor
             \/ /\ ~a.hasGap /\ ~a.incomplete
                /\ b.stop \in {0, a.recFloor, Known(a)}
    BY <1>1, BoundsFacts
  <1>3. /\ FreshId(a) \in Nat \ {0} /\ a.gen \in Nat
        /\ \A v \in a.tasks : v.id # FreshId(a)
    <2>1. IsFiniteSet(a.tasks) /\ a.tasks \subseteq WalkType
      BY <1>1 DEF Sound, Pool, AppType
    <2>2. \A v \in a.tasks : v.id \in Nat
      BY <2>1 DEF WalkType
    <2> QED
      BY <1>1, <2>1, <2>2, FreshIdFacts, HistoryAssumptions DEF AppType
  <1> HIDE DEF b
  <1>4. PICK t \in OptCutoff : t = IF a.blocking THEN a.timeFloor ELSE 0
    BY <1>1, HistoryAssumptions DEF AppType, OptCutoff
  <1>5. w = [id |-> FreshId(a), gen |-> a.gen, headOnly |-> o,
             start |-> b.start, before |-> b.start, stop |-> b.stop,
             cutoff |-> b.cutoff, hard |-> t,
             pages |-> MaxPages, rows |-> {}, cont |-> 0, gap |-> FALSE,
             integrity |-> FALSE, st |-> "walking"]
    BY <1>4 DEF NewWalk, b
  <1>6. w \in WalkType
    <2>1. MaxPages \in 0..MaxPages /\ 0 \in OptLt /\ {} \in SUBSET Lts
      BY HistoryAssumptions DEF OptLt
    <2>2. o \in BOOLEAN
      BY DEF Flag
    <2> QED
      BY <1>2, <1>3, <1>4, <1>5, <2>1, <2>2 DEF WalkType
  <1>7. Unread(w)
    BY <1>5 DEF Unread
  <1> HIDE DEF w
  <1>8. WalkOK(w, V, h)
    BY <1>2, <1>3, <1>5, <1>7, HistoryAssumptions DEF WalkOK
  <1>9. o = FALSE => Below(a, V \ x, b.stop)
    <2> SUFFICES ASSUME o = FALSE PROVE Below(a, V \ x, b.stop)
      OBVIOUS
    <2>1. CASE a.scan # NoScan
      BY <1>2, <2>1 DEF Sound, ScanOK
    <2>2. CASE a.scan = NoScan /\ b.stop = a.floor
      BY <2>2 DEF Sound, Trusted
    <2>3. CASE /\ a.scan = NoScan /\ ~a.hasGap /\ ~a.incomplete
               /\ b.stop \in {0, a.recFloor, Known(a)}
      <3>1. Below(a, V \ x, Known(a) + 1)
        BY <2>3 DEF Sound, Trusted
      <3>2. Known(a) \in 0..h
        BY <1>1, NewestFacts DEF Known, Fields
      <3>3. PICK k \in 0..h : k = Known(a)
        BY <3>2
      <3>4. PICK s \in OptLt : s = b.stop
        BY <1>2
      <3>5. ASSUME NEW l \in V \ x, l < s PROVE l \in a.activity
        <4>0. l \in 1..h
          OBVIOUS
        <4>1. CASE l <= k
          BY <3>1, <3>3, <4>0, <4>1 DEF Below
        <4>2. CASE k < l
          <5>1. s = a.recFloor
            BY <2>3, <3>3, <3>4, <3>5, <4>0, <4>2 DEF OptLt
          <5>2. l \in Lts
            BY <4>0, HistoryAssumptions DEF Lts
          <5> QED
            BY <3>3, <3>5, <4>2, <5>1, <5>2 DEF Sound, Skips
        <4> QED
          BY <4>0, <4>1, <4>2
      <3> QED
        BY <3>4, <3>5 DEF Below
    <2> QED
      BY <1>2, <2>1, <2>2, <2>3
  <1>10. o = FALSE => Joins(a, w)
    BY <1>2, <1>5 DEF Joins
  <1>11. /\ w.id = FreshId(a) /\ w.gen = a.gen /\ w.headOnly = o
         /\ w.gap = FALSE /\ w.rows = {} /\ w.cont = 0
         /\ w.st = "walking" /\ w.before = w.start
         /\ w.start = b.start /\ w.stop = b.stop
    BY <1>5
  <1> QED
    BY <1>2, <1>3, <1>6, <1>7, <1>8, <1>9, <1>10, <1>11 DEF w

(* The fields after a fetch with no walk in flight.                        *)
LEMMA FetchInnerFields ==
    ASSUME NEW a \in AppType, NEW o, a.inFlight = 0,
           NewWalk(a, o) \in WalkType, NewWalk(a, o).id = FreshId(a)
    PROVE  LET f == FetchInner(a, o) IN
           /\ f \in AppType
           /\ f.tasks = a.tasks \cup {NewWalk(a, o)}
           /\ f.inFlight = NewWalk(a, o).id
           /\ f.gen = a.gen /\ f.sub = a.sub /\ f.again = a.again
           /\ f.headAfter = a.headAfter /\ f.scan = a.scan
           /\ f.activity = a.activity /\ f.incomplete = a.incomplete
           /\ f.hasGap = a.hasGap /\ f.floor = a.floor
           /\ f.recFloor = a.recFloor
  <1>1. PICK w \in WalkType : w = NewWalk(a, o)
    OBVIOUS
  <1>2. w.id \in Nat
    BY DEF WalkType
  <1>3. PICK T \in SUBSET WalkType, i \in Nat : T = a.tasks \cup {w} /\ i = w.id
    BY <1>2 DEF AppType
  <1>4. FetchInner(a, o) = [a EXCEPT !.inFlight = i, !.tasks = T]
    BY <1>1, <1>3 DEF FetchInner
  <1>5. PICK f : f = [a EXCEPT !.inFlight = i, !.tasks = T]
    OBVIOUS
  <1>6. /\ f \in AppType
        /\ f.tasks = T
        /\ f.inFlight = i
        /\ f.gen = a.gen /\ f.sub = a.sub /\ f.again = a.again
        /\ f.headAfter = a.headAfter /\ f.scan = a.scan
        /\ f.activity = a.activity /\ f.incomplete = a.incomplete
        /\ f.hasGap = a.hasGap /\ f.floor = a.floor
        /\ f.recFloor = a.recFloor
    BY <1>5 DEF AppType
  <1> QED
    BY <1>1, <1>3, <1>4, <1>5, <1>6, Zenon

(* Starting or queueing a fetch leaves the list alone                      *)
(* (fetch_transactions_inner, live.rs).                                    *)
LEMMA FetchInnerList ==
    ASSUME NEW a \in AppType, NEW o
    PROVE  FetchInner(a, o).activity = a.activity
  BY DEF FetchInner, AppType

(* A walk under way is asked to be followed by another.                    *)
LEMMA FetchInnerQueues ==
    ASSUME NEW V, NEW h, NEW x, NEW a, NEW o, Sound(a, V, h, x),
           a.inFlight # 0
    PROVE  /\ Sound(FetchInner(a, o), V, h, x)
           /\ \A n : Promised(FetchInner(a, o), x, n)
  <1>1. a \in AppType
    BY DEF Sound, Fields
  <1>2. FetchInner(a, o) = [a EXCEPT !.again = TRUE]
    BY DEF FetchInner
  <1> DEFINE b == [a EXCEPT !.again = TRUE]
  <1>3. /\ b \in AppType /\ b.again
        /\ b.gen = a.gen /\ b.tasks = a.tasks /\ b.inFlight = a.inFlight
        /\ b.activity = a.activity /\ b.hasGap = a.hasGap
        /\ b.incomplete = a.incomplete /\ b.floor = a.floor
        /\ b.recFloor = a.recFloor /\ b.sub = a.sub /\ b.scan = a.scan
    BY <1>1 DEF AppType
  <1>4. a.sub = "failed" => a.gen < MaxGeneration
    BY DEF Sound, Fields
  <1> HIDE DEF b
  <1>5. Sound(b, V, h, x)
    BY <1>1, <1>3, <1>4, Frame
  <1>6. \A n : Promised(b, x, n)
    BY <1>3 DEF Promised
  <1> QED
    BY <1>2, <1>3, <1>5, <1>6 DEF b

(* A new walk keeps the invariant; one of the head needs a retained scan.  *)
LEMMA FetchInnerStarts ==
    ASSUME NEW h \in 0..MaxLt, NEW V \in SUBSET (1..h), NEW x, NEW a,
           Sound(a, V, h, x), NEW o \in Flag, a.inFlight = 0,
           o = TRUE => a.scan # NoScan
    PROVE  /\ Sound(FetchInner(a, o), V, h, x)
           /\ o = TRUE \/ a.scan = NoScan \/ a.headAfter =>
                \A n : Promised(FetchInner(a, o), x, n)
  <1> DEFINE w == NewWalk(a, o)
             f == FetchInner(a, o)
             L == V \ x
  <1>1. a \in AppType /\ Fields(a, V, h) /\ Pool(a, V, h)
    BY DEF Sound, Fields
  <1>2. /\ w \in WalkType
        /\ w.id = FreshId(a) /\ w.gen = a.gen /\ w.headOnly = o
        /\ \A v \in a.tasks : v.id # w.id
        /\ WalkOK(w, V, h)
        /\ Unread(w) /\ w.gap = FALSE /\ w.rows = {} /\ w.cont = 0
        /\ w.st = "walking" /\ w.before = w.start
        /\ o = TRUE => w.start = 0 /\ w.stop = Known(a)
        /\ o = FALSE => Below(a, V \ x, w.stop) /\ Joins(a, w)
    BY NewWalkFacts
  <1>3. /\ f \in AppType
        /\ f.tasks = a.tasks \cup {w}
        /\ f.inFlight = w.id
        /\ f.gen = a.gen /\ f.sub = a.sub /\ f.again = a.again
        /\ f.headAfter = a.headAfter /\ f.scan = a.scan
        /\ f.activity = a.activity /\ f.incomplete = a.incomplete
        /\ f.hasGap = a.hasGap /\ f.floor = a.floor
        /\ f.recFloor = a.recFloor
    BY <1>1, <1>2, FetchInnerFields
  <1> HIDE DEF f, w
  <1>4. Known(f) = Known(a) /\ \A s : Below(f, L, s) <=> Below(a, L, s)
    BY <1>3 DEF Known, Below
  <1>5. Pool(f, V, h)
    <2>1. IsFiniteSet(f.tasks)
      BY <1>1, <1>3, FS_AddElement DEF Pool
    <2>2. \A v, u \in f.tasks : v.id = u.id => v = u
      BY <1>1, <1>2, <1>3 DEF Pool
    <2>3. \A v \in f.tasks : v.gen <= f.gen /\ WalkOK(v, V, h)
      <3>1. a.gen <= a.gen
        BY <1>1, HistoryAssumptions DEF AppType
      <3> QED
        BY <1>1, <1>2, <1>3, <3>1 DEF Pool
    <2> QED
      BY <1>3, <2>1, <2>2, <2>3 DEF Pool
  <1>6. Fields(f, V, h)
    BY <1>1, <1>3 DEF Fields
  <1>7. Trusted(f, L)
    BY <1>3, <1>4 DEF Sound, Trusted
  <1>8. ScanOK(f, L)
    <2>1. \A v \in a.tasks : v.id # 0
      BY <1>1 DEF Pool, WalkOK
    <2> QED
      BY <1>3, <1>4, <2>1 DEF Sound, ScanOK
  <1>9. Walks(f, L)
    <2> SUFFICES ASSUME NEW v \in f.tasks, Current(f, v)
                 PROVE  Walked(v, L, Known(f)) /\ Placed(f, v, L)
      BY DEF Walks
    <2>1. v = w
      BY <1>2, <1>3 DEF Current
    <2>2. Walked(w, L, Known(f))
      <3>1. WholeDownTo(w, w.before, L, Known(f)) \/ w.before = 0
        <4> SUFFICES ASSUME w.start # 0, NEW l \in L, w.start <= l,
                            InReach(w, l, Known(f))
                     PROVE  FALSE
          BY <1>2 DEF WholeDownTo
        <4>1. Newest({}) = 0
          BY DEF Newest
        <4>2. l \in 1..h /\ w.start \in Nat
          BY <1>2, HistoryAssumptions DEF WalkType, OptLt
        <4> QED
          BY <1>2, <4>1, <4>2 DEF InReach
      <3> QED
        BY <1>2, <3>1 DEF Walked
    <2>3. Placed(f, w, L)
      <3>1. o = TRUE => Head(f, w)
        BY <1>2, <1>3, <1>4 DEF Head
      <3>2. o = FALSE => Joins(f, w)
        BY <1>2, <1>3 DEF Joins
      <3> QED
        BY <1>2, <1>4, <3>1, <3>2 DEF Placed
    <2> QED
      BY <2>1, <2>2, <2>3
  <1>10. Skips(f, x)
    BY <1>3, <1>4 DEF Sound, Skips
  <1>11. Sound(f, V, h, x)
    BY <1>5, <1>6, <1>7, <1>8, <1>9, <1>10 DEF Sound
  <1>12. ASSUME o = TRUE \/ a.scan = NoScan \/ a.headAfter, NEW n
         PROVE  Promised(f, x, n)
    <2>1. Current(f, w)
      BY <1>2, <1>3 DEF Current
    <2>2. Serves(f, w, n)
      BY <1>2, <1>3, <1>12 DEF Serves, Joins
    <2>3. f.inFlight # 0
      BY <1>2, <1>3 DEF WalkOK
    <2> QED
      BY <1>3, <2>1, <2>2, <2>3 DEF Promised
  <1> QED
    BY <1>11, <1>12 DEF f

(* A fetch keeps the invariant, and what was announced will be met.        *)
LEMMA FetchSound ==
    ASSUME NEW h \in 0..MaxLt, NEW V \in SUBSET (1..h), NEW x, NEW a,
           Sound(a, V, h, x)
    PROVE  /\ Sound(Fetch(a), V, h, x)
           /\ \A n : Promised(Fetch(a), x, n)
           /\ Fetch(a).activity = a.activity
  <1>1. a \in AppType /\ (a.sub = "failed" => a.gen < MaxGeneration)
    BY DEF Sound, Fields
  <1>2. PICK k \in BOOLEAN :
           k = (a.headAfter \/ (a.inFlight = 0 /\ a.scan # NoScan))
    OBVIOUS
  <1> DEFINE b == [a EXCEPT !.headAfter = k]
  <1>0. PICK o \in Flag : o = FALSE
    BY DEF Flag
  <1>3. Fetch(a) = FetchInner(b, o)
    BY <1>0, <1>1, <1>2 DEF Fetch, AppType
  <1>4. /\ b \in AppType /\ b.headAfter = k
        /\ b.gen = a.gen /\ b.tasks = a.tasks /\ b.inFlight = a.inFlight
        /\ b.activity = a.activity /\ b.hasGap = a.hasGap
        /\ b.incomplete = a.incomplete /\ b.floor = a.floor
        /\ b.recFloor = a.recFloor /\ b.sub = a.sub /\ b.scan = a.scan
    BY <1>1 DEF AppType
  <1> HIDE DEF b
  <1>5. Sound(b, V, h, x)
    BY <1>1, <1>4, Frame
  <1>6. CASE a.inFlight # 0
    <2>1. b.inFlight # 0
      BY <1>4, <1>6
    <2> QED
      BY <1>3, <1>4, <1>5, <2>1, FetchInnerQueues, FetchInnerList
  <1>7. CASE a.inFlight = 0
    <2>1. b.scan = NoScan \/ b.headAfter
      BY <1>2, <1>4, <1>7
    <2>2. b.inFlight = 0 /\ (o = TRUE => b.scan # NoScan)
      BY <1>0, <1>4, <1>7
    <2>3. Sound(FetchInner(b, o), V, h, x)
      BY <1>5, <2>2, FetchInnerStarts
    <2>5. FetchInner(b, o).activity = b.activity
      BY <1>4, FetchInnerList
    <2>4. \A n : Promised(FetchInner(b, o), x, n)
      BY <1>5, <2>1, <2>2, FetchInnerStarts
    <2> QED
      BY <1>3, <1>4, <2>3, <2>4, <2>5
  <1> QED
    BY <1>6, <1>7

-----------------------------------------------------------------------------
(* A step of a walk.                                                       *)

(* A walk stands to the list and to the scan as before.                    *)
LEMMA PlacedFrame ==
    ASSUME NEW a, NEW b, b.scan = a.scan, b.activity = a.activity
    PROVE  /\ Known(b) = Known(a)
           /\ \A L, s : Below(b, L, s) <=> Below(a, L, s)
           /\ \A w, L : Placed(a, w, L) => Placed(b, w, L)
  <1>1. Known(b) = Known(a)
    BY DEF Known
  <1>2. \A L, s : Below(b, L, s) <=> Below(a, L, s)
    BY DEF Below
  <1>3. \A w, L : Placed(a, w, L) => Placed(b, w, L)
    <2> TAKE w, L
    <2>1. Head(a, w) => Head(b, w)
      BY <1>1 DEF Head
    <2>2. Joins(a, w) => Joins(b, w)
      BY DEF Joins
    <2>3. Reported(a, w, L) => Reported(b, w, L)
      BY <1>1 DEF Reported
    <2> QED
      BY <1>1, <1>2, <2>1, <2>2, <2>3 DEF Placed
  <1> QED
    BY <1>1, <1>2, <1>3

(* A walk goes on: nothing else of the controller changes.                 *)
LEMMA ReplaceFields ==
    ASSUME NEW a \in AppType, NEW w \in a.tasks, NEW n \in WalkType
    PROVE  LET b == Replace(a, w, n) IN
           /\ b \in AppType
           /\ b.tasks = (a.tasks \ {w}) \cup {n}
           /\ b.inFlight = a.inFlight
           /\ b.gen = a.gen /\ b.sub = a.sub /\ b.again = a.again
           /\ b.headAfter = a.headAfter /\ b.scan = a.scan
           /\ b.activity = a.activity /\ b.incomplete = a.incomplete
           /\ b.hasGap = a.hasGap /\ b.floor = a.floor
           /\ b.recFloor = a.recFloor /\ b.blocking = a.blocking
           /\ b.risk = a.risk
  <1>1. PICK T \in SUBSET WalkType : T = (a.tasks \ {w}) \cup {n}
    BY DEF AppType
  <1>2. Replace(a, w, n) = [a EXCEPT !.tasks = T]
    BY <1>1 DEF Replace
  <1>3. PICK b : b = [a EXCEPT !.tasks = T]
    OBVIOUS
  <1>4. /\ b \in AppType
        /\ b.tasks = T
        /\ b.inFlight = a.inFlight
        /\ b.gen = a.gen /\ b.sub = a.sub /\ b.again = a.again
        /\ b.headAfter = a.headAfter /\ b.scan = a.scan
        /\ b.activity = a.activity /\ b.incomplete = a.incomplete
        /\ b.hasGap = a.hasGap /\ b.floor = a.floor
        /\ b.recFloor = a.recFloor /\ b.blocking = a.blocking
        /\ b.risk = a.risk
    BY <1>3 DEF AppType
  <1> QED
    BY <1>1, <1>2, <1>3, <1>4, Zenon

(* The pool with one walk replaced by its next state.                      *)
LEMMA ReplacePool ==
    ASSUME NEW V, NEW h, NEW a, NEW w \in a.tasks, NEW n, Pool(a, V, h),
           n.id = w.id, n.gen = w.gen, WalkOK(n, V, h),
           NEW b, b.tasks = (a.tasks \ {w}) \cup {n},
           b.inFlight = a.inFlight, b.gen = a.gen
    PROVE  Pool(b, V, h)
  <1>1. IsFiniteSet(a.tasks \ {w})
    BY FS_RemoveElement DEF Pool
  <1>2. IsFiniteSet(b.tasks)
    BY <1>1, FS_AddElement
  <1>3. \A u, v \in b.tasks : u.id = v.id => u = v
    BY DEF Pool
  <1>4. b.inFlight # 0 => \E u \in b.tasks : u.id = b.inFlight
    BY DEF Pool
  <1>5. \A u \in b.tasks : u.gen <= b.gen /\ WalkOK(u, V, h)
    BY DEF Pool
  <1> QED
    BY <1>2, <1>3, <1>4, <1>5 DEF Pool

(* A walk goes on, and what it has met is what its new position says.      *)
LEMMA ReplaceSound ==
    ASSUME NEW V, NEW h, NEW x, NEW a, Sound(a, V, h, x),
           NEW w \in a.tasks, w.st # "observed", NEW n \in WalkType,
           n.id = w.id, n.gen = w.gen, WalkOK(n, V, h),
           Current(a, w) /\ ~n.gap =>
               Walked(n, V \ x, Known(a)) /\ Placed(a, n, V \ x)
    PROVE  Sound(Replace(a, w, n), V, h, x)
  <1>1. a \in AppType /\ Fields(a, V, h) /\ Pool(a, V, h)
    BY DEF Sound, Fields
  <1>2. PICK b : b = Replace(a, w, n)
    OBVIOUS
  <1>3. /\ b \in AppType
        /\ b.tasks = (a.tasks \ {w}) \cup {n}
        /\ b.inFlight = a.inFlight
        /\ b.gen = a.gen /\ b.sub = a.sub /\ b.scan = a.scan
        /\ b.activity = a.activity /\ b.incomplete = a.incomplete
        /\ b.hasGap = a.hasGap /\ b.floor = a.floor
        /\ b.recFloor = a.recFloor
    BY <1>1, <1>2, ReplaceFields
  <1>4. /\ Known(b) = Known(a)
        /\ \A L, s : Below(b, L, s) <=> Below(a, L, s)
        /\ \A v, L : Placed(a, v, L) => Placed(b, v, L)
    BY <1>3, PlacedFrame
  <1>5. Pool(b, V, h)
    BY <1>1, <1>3, ReplacePool
  <1>6. Fields(b, V, h)
    BY <1>1, <1>3 DEF Fields
  <1>7. Trusted(b, V \ x)
    BY <1>3, <1>4 DEF Sound, Trusted
  <1>8. ScanOK(b, V \ x)
    BY <1>3, <1>4 DEF Sound, ScanOK
  <1>9. Walks(b, V \ x)
    <2> SUFFICES ASSUME NEW v \in b.tasks, Current(b, v), ~v.gap
                 PROVE  Walked(v, V \ x, Known(b)) /\ Placed(b, v, V \ x)
      BY DEF Walks
    <2>1. Current(a, v)
      BY <1>3 DEF Current
    <2>2. CASE v = n
      <3>1. Current(a, w)
        BY <2>1, <2>2 DEF Current
      <3> QED
        BY <1>4, <2>2, <3>1
    <2>3. CASE v \in a.tasks
      BY <1>4, <2>1, <2>3 DEF Sound, Walks
    <2> QED
      BY <1>3, <2>2, <2>3
  <1>10. Skips(b, x)
    BY <1>3, <1>4 DEF Sound, Skips
  <1> QED
    BY <1>2, <1>5, <1>6, <1>7, <1>8, <1>9, <1>10 DEF Sound

(* A walk goes on, and still serves the announced row.                     *)
LEMMA ReplacePromised ==
    ASSUME NEW x, NEW a \in AppType, NEW m, Promised(a, x, m),
           NEW w \in a.tasks, NEW n \in WalkType, n.id = w.id, n.gen = w.gen,
           m # 0 /\ m \notin x /\ Current(a, w) /\ Serves(a, w, m)
             => Serves(a, n, m)
    PROVE  Promised(Replace(a, w, n), x, m)
  <1>1. PICK b : b = Replace(a, w, n)
    OBVIOUS
  <1>2. /\ b.tasks = (a.tasks \ {w}) \cup {n}
        /\ b.inFlight = a.inFlight
        /\ b.gen = a.gen /\ b.again = a.again
        /\ b.headAfter = a.headAfter /\ b.incomplete = a.incomplete
        /\ b.hasGap = a.hasGap
    BY <1>1, ReplaceFields
  <1> SUFFICES ASSUME m # 0, m \notin x, ~b.again
               PROVE  IF b.inFlight = 0 THEN b.hasGap \/ b.incomplete
                      ELSE \E v \in b.tasks : Current(b, v) /\ Serves(b, v, m)
    BY <1>1 DEF Promised
  <1>3. CASE b.inFlight = 0
    BY <1>2, <1>3 DEF Promised
  <1>4. CASE b.inFlight # 0
    <2>1. PICK v \in a.tasks : Current(a, v) /\ Serves(a, v, m)
      BY <1>2, <1>4 DEF Promised
    <2>2. \A u : Current(b, u) <=> Current(a, u)
      BY <1>2 DEF Current
    <2>3. \A u : Serves(a, u, m) => Serves(b, u, m)
      BY <1>2 DEF Serves
    <2>4. CASE v = w
      <3>1. Current(a, n) /\ Serves(a, n, m)
        BY <2>1, <2>4 DEF Current
      <3> QED
        BY <1>2, <1>4, <2>2, <2>3, <3>1
    <2>5. CASE v # w
      BY <1>2, <1>4, <2>1, <2>2, <2>3, <2>5
    <2> QED
      BY <2>4, <2>5
  <1> QED
    BY <1>3, <1>4

-----------------------------------------------------------------------------
(* Reading a page.                                                         *)

\* The rows of the page within the walk's stop and its cutoff c.
Taken(w, page, c) == {l \in page : l >= w.stop /\ l >= c}

\* What ends a walk at a page of which it took the rows t.
Ends(w, page, t) ==
    page = {} \/ t # page \/ w.stop \in t \/ Cardinality(page) < PageSize

\* The walk n after a page: its fields, and, if nothing was lost, the page
\* ended it or all of the page was taken and it stands at the oldest row.
PageRead(w, page, lost, n) ==
    /\ n \in WalkType
    /\ n.id = w.id /\ n.gen = w.gen /\ n.headOnly = w.headOnly
    /\ n.start = w.start /\ n.stop = w.stop
    /\ w.gap \/ lost # {} => n.gap
    /\ n.rows \subseteq w.rows \cup page
    /\ n.st = "walking" => /\ n.pages # 0 /\ n.pages # MaxPages
                           /\ n.cont = 0 /\ n.before # 0
    /\ n.st \in {"walking", "done"}
    /\ n.cont # 0 => n.cont \in n.rows
    /\ lost = {} =>
         n.cutoff = IF w.start = 0 /\ w.pages = MaxPages
                    THEN Larger(w.cutoff, AtLeast0(Newest(page) - MaxAge))
                    ELSE w.cutoff
    /\ lost = {} /\ ~n.gap =>
         \E t \in SUBSET page :
           /\ t = Taken(w, page, n.cutoff)
           /\ n.rows = w.rows \cup t
           /\ \/ n.st = "done" /\ n.cont = 0 /\ Ends(w, page, t)
              \/ /\ t = page /\ page # {}
                 /\ \/ n.st = "walking" /\ n.before = Oldest(page) /\ n.cont = 0
                    \/ n.st = "done" /\ n.cont = Oldest(page)

(* What a walk is after a page: its rows, its cutoff and whether it ends   *)
(* (fetch_transactions_inner, live.rs).                                    *)
LEMMA ReadPageFields ==
    ASSUME NEW h \in 0..MaxLt, NEW page, page \subseteq 1..h,
           NEW w \in WalkType, w.st = "walking", w.pages # 0, w.cont = 0,
           NEW lost, lost \subseteq page
    PROVE  PageRead(w, page, lost, ReadPage(w, page, lost))
  <1>0. PICK n : n = ReadPage(w, page, lost)
    OBVIOUS
  <1> DEFINE decoded == page \ lost
             first   == w.start = 0 /\ w.pages = MaxPages
             cutoff  == IF lost # {} THEN w.hard
                        ELSE IF first
                        THEN Larger(w.cutoff, AtLeast0(Newest(decoded) - MaxAge))
                        ELSE w.cutoff
             taken   == {l \in decoded : l >= w.stop /\ l >= cutoff}
             ended   == \/ decoded = {}
                        \/ taken # decoded
                        \/ w.stop \in taken
                        \/ Cardinality(page) < PageSize
             budget  == ~ended /\ w.pages = 1
             gap     == w.gap \/ lost # {}
             next    == Oldest(taken)
             stuck   == budget /\ ~gap /\ w.start # 0 /\ next >= w.start
             over    == ended \/ budget
  <1>1. /\ w.pages \in 1..MaxPages /\ w.cutoff \in OptCutoff
        /\ w.hard \in OptCutoff /\ w.rows \in SUBSET Lts /\ w.gap \in BOOLEAN
        /\ w.integrity \in BOOLEAN /\ MaxPages \in Nat /\ MaxLt \in Nat
        /\ MaxAge \in Nat
    BY HistoryAssumptions DEF WalkType
  <1>2. PICK c : c = cutoff
    OBVIOUS
  <1>3. c \in OptCutoff
    <2>1. decoded \in SUBSET (1..h)
      OBVIOUS
    <2>2. PICK m \in 0..h : m = Newest(decoded)
      BY <2>1, NewestFacts
    <2>3. AtLeast0(m - MaxAge) \in 0..MaxLt
      BY <1>1 DEF AtLeast0
    <2>4. PICK k \in 0..MaxLt : k = AtLeast0(m - MaxAge)
      BY <2>3
    <2>5. Larger(w.cutoff, k) \in OptCutoff
      BY <1>1 DEF Larger, OptCutoff
    <2> QED
      BY <1>1, <1>2, <2>2, <2>4, <2>5
  <1>4. PICK t \in SUBSET page : t = taken
    OBVIOUS
  <1>5. t = {l \in decoded : l >= w.stop /\ l >= c}
    BY <1>2, <1>4
  <1>6. PICK e \in BOOLEAN : e = ended
    OBVIOUS
  <1>7. e = (\/ decoded = {} \/ t # decoded \/ w.stop \in t
             \/ Cardinality(page) < PageSize)
    BY <1>4, <1>6
  <1>8. PICK u \in BOOLEAN : u = budget
    OBVIOUS
  <1>9. PICK g \in BOOLEAN : g = gap
    OBVIOUS
  <1>10. PICK o \in OptLt : o = next
    <2>1. t \in SUBSET (1..h)
      BY <1>4
    <2>2. PICK k \in 0..h : k = Oldest(t)
      BY <2>1, OldestFacts
    <2>3. k \in OptLt
      BY <1>1 DEF OptLt
    <2> QED
      BY <1>4, <2>2, <2>3
  <1>11. PICK s \in BOOLEAN : s = stuck
    OBVIOUS
  <1>12. PICK v \in BOOLEAN : v = over
    OBVIOUS
  <1>13. /\ u = (~e /\ w.pages = 1) /\ v = (e \/ u)
         /\ g = (w.gap \/ lost # {}) /\ o = Oldest(t)
         /\ s = (u /\ ~g /\ w.start # 0 /\ o >= w.start)
    BY <1>4, <1>6, <1>8, <1>9, <1>10, <1>11, <1>12
  <1>14. ReadPage(w, page, lost) =
           [w EXCEPT !.cutoff = c, !.rows = @ \cup t, !.gap = g \/ s,
                     !.integrity = @ \/ s,
                     !.before = IF v THEN 0 ELSE o,
                     !.pages = IF v THEN 0 ELSE @ - 1,
                     !.cont = IF u /\ ~g /\ ~s THEN o ELSE 0,
                     !.st = IF v THEN "done" ELSE "walking"]
    BY <1>2, <1>4, <1>6, <1>8, <1>9, <1>10, <1>11, <1>12 DEF ReadPage
  <1> HIDE DEF decoded, first, cutoff, taken, ended, budget, gap, next, stuck, over
  <1>15. PICK r \in SUBSET Lts : r = w.rows \cup t
    <2>1. \A l \in 1..h : l \in Lts
      BY <1>1 DEF Lts
    <2> QED
      BY <1>1, <1>4, <2>1
  <1>16. PICK p \in 0..MaxPages : p = IF v THEN 0 ELSE w.pages - 1
    BY <1>1
  <1>17. PICK b \in OptLt : b = IF v THEN 0 ELSE o
    BY <1>1 DEF OptLt
  <1>18. PICK k \in OptLt : k = IF u /\ ~g /\ ~s THEN o ELSE 0
    BY <1>1 DEF OptLt
  <1>19. PICK q \in {"walking", "done"} : q = IF v THEN "done" ELSE "walking"
    OBVIOUS
  <1>20. PICK gg \in BOOLEAN, ii \in BOOLEAN : gg = (g \/ s) /\ ii = (w.integrity \/ s)
    OBVIOUS
  <1>21. PICK f : f = [w EXCEPT !.cutoff = c, !.rows = r, !.gap = gg,
                                !.integrity = ii, !.before = b, !.pages = p,
                                !.cont = k, !.st = q]
    OBVIOUS
  <1>22. n = f
    BY <1>0, <1>14, <1>15, <1>16, <1>17, <1>18, <1>19, <1>20, <1>21
  <1>31. /\ f \in WalkType
         /\ f.id = w.id /\ f.gen = w.gen /\ f.headOnly = w.headOnly
         /\ f.start = w.start /\ f.stop = w.stop
         /\ f.cutoff = c /\ f.rows = r /\ f.gap = gg /\ f.before = b
         /\ f.pages = p /\ f.cont = k /\ f.st = q
    BY <1>3, <1>21 DEF WalkType
  <1>23. /\ n \in WalkType
         /\ n.id = w.id /\ n.gen = w.gen /\ n.headOnly = w.headOnly
         /\ n.start = w.start /\ n.stop = w.stop
         /\ n.cutoff = c /\ n.rows = r /\ n.gap = gg /\ n.before = b
         /\ n.pages = p /\ n.cont = k /\ n.st = q
    BY <1>22, <1>31
  <1>24. w.gap \/ lost # {} => n.gap
    BY <1>13, <1>20, <1>23
  <1>25. n.rows \subseteq w.rows \cup page
    BY <1>4, <1>15, <1>23
  <1>26. ~e => t # {} /\ o # 0
    <2>1. ~e => t # {}
      BY <1>7
    <2>2. t \in SUBSET (1..h)
      BY <1>4
    <2>3. t # {} => Oldest(t) \in t
      BY <2>2, OldestFacts
    <2>4. t # {} => o \in 1..h
      BY <1>13, <2>2, <2>3
    <2> QED
      BY <2>1, <2>4
  <1>27. n.st = "walking" => /\ n.pages # 0 /\ n.pages # MaxPages
                             /\ n.cont = 0 /\ n.before # 0
    <2> SUFFICES ASSUME n.st = "walking"
                 PROVE  /\ n.pages # 0 /\ n.pages # MaxPages
                        /\ n.cont = 0 /\ n.before # 0
      OBVIOUS
    <2>1. ~v
      BY <1>19, <1>23
    <2>2. ~e /\ ~u /\ w.pages # 1
      BY <1>13, <2>1
    <2>3. p = w.pages - 1 /\ b = o /\ k = 0
      BY <1>16, <1>17, <1>18, <2>1, <2>2
    <2> QED
      BY <1>1, <1>23, <1>26, <2>2, <2>3
  <1>28. lost = {} =>
           n.cutoff = IF w.start = 0 /\ w.pages = MaxPages
                      THEN Larger(w.cutoff, AtLeast0(Newest(page) - MaxAge))
                      ELSE w.cutoff
    <2> SUFFICES ASSUME lost = {} 
                 PROVE n.cutoff = IF w.start = 0 /\ w.pages = MaxPages
                      THEN Larger(w.cutoff, AtLeast0(Newest(page) - MaxAge))
                      ELSE w.cutoff
      OBVIOUS
    <2>1. decoded = page
      BY DEF decoded
    <2> QED
      BY <1>2, <1>23, <2>1 DEF cutoff, first
  <1>29. lost = {} /\ ~n.gap =>
            /\ t = Taken(w, page, n.cutoff)
            /\ n.rows = w.rows \cup t
            /\ \/ n.st = "done" /\ n.cont = 0 /\ Ends(w, page, t)
               \/ /\ t = page /\ page # {}
                  /\ \/ n.st = "walking" /\ n.before = Oldest(page) /\ n.cont = 0
                     \/ n.st = "done" /\ n.cont = Oldest(page)
    <2> SUFFICES ASSUME lost = {}, ~n.gap
                 PROVE  /\ t = Taken(w, page, n.cutoff)
                        /\ n.rows = w.rows \cup t
                        /\ \/ n.st = "done" /\ n.cont = 0 /\ Ends(w, page, t)
                           \/ /\ t = page /\ page # {}
                              /\ \/ n.st = "walking" /\ n.before = Oldest(page) /\ n.cont = 0
                                 \/ n.st = "done" /\ n.cont = Oldest(page)
      OBVIOUS
    <2>1. decoded = page
      BY DEF decoded
    <2>2. ~g /\ ~s
      BY <1>20, <1>23
    <2>3. t = Taken(w, page, n.cutoff)
      BY <1>5, <1>23, <2>1 DEF Taken
    <2>4. CASE e
      <3>1. Ends(w, page, t)
        BY <1>7, <2>1, <2>4 DEF Ends
      <3>2. v /\ ~u
        BY <1>13, <2>4
      <3> QED
        BY <1>15, <1>18, <1>19, <1>23, <2>3, <3>1, <3>2
    <2>5. CASE ~e
      <3>1. t = page /\ page # {}
        BY <1>7, <2>1, <2>5
      <3>2. o = Oldest(page)
        BY <1>13, <3>1
      <3>3. CASE u
        <4>1. v
          BY <1>13, <3>3
        <4>2. n.st = "done" /\ n.cont = Oldest(page)
          BY <1>18, <1>19, <1>23, <2>2, <3>2, <3>3, <4>1
        <4> QED
          BY <1>15, <1>23, <2>3, <3>1, <4>2
      <3>4. CASE ~u
        <4>1. ~v
          BY <1>13, <2>5, <3>4
        <4>2. n.st = "walking" /\ n.before = Oldest(page) /\ n.cont = 0
          BY <1>17, <1>18, <1>19, <1>23, <3>2, <3>4, <4>1
        <4> QED
          BY <1>15, <1>23, <2>3, <3>1, <4>2
      <3> QED
        BY <3>3, <3>4
    <2> QED
      BY <2>4, <2>5
  <1>30. n.st \in {"walking", "done"}
    BY <1>23
  <1>32. n.cont # 0 => n.cont \in n.rows
    <2> SUFFICES ASSUME n.cont # 0 PROVE n.cont \in n.rows
      OBVIOUS
    <2>1. u /\ k = o
      BY <1>18, <1>23
    <2>2. t \in SUBSET (1..h) /\ t # {}
      BY <1>4, <1>13, <1>26, <2>1
    <2>3. Oldest(t) \in t
      BY <2>2, OldestFacts
    <2> QED
      BY <1>13, <1>15, <1>23, <2>1, <2>3
  <1> QED
    BY <1>0, <1>23, <1>24, <1>25, <1>27, <1>28, <1>29, <1>30, <1>32 DEF PageRead

(* A larger set of rows has no older newest row.                           *)
LEMMA NewestMonotone ==
    ASSUME NEW h \in Nat, NEW T \in SUBSET (1..h), NEW S \in SUBSET T
    PROVE  Newest(S) <= Newest(T)
  <1>1. /\ Newest(T) \in 0..h /\ \A y \in T : y <= Newest(T)
    BY NewestFacts
  <1>2. /\ S \in SUBSET (1..h)
    OBVIOUS
  <1>3. /\ S = {} => Newest(S) = 0
        /\ S # {} => Newest(S) \in S
    BY <1>2, NewestFacts
  <1>4. PICK i \in 0..h : i = Newest(T)
    BY <1>1
  <1>5. 0 <= i
    OBVIOUS
  <1> QED
    BY <1>1, <1>3, <1>4, <1>5

(* What the endpoint's pages are like, for a page below c of the rows V.   *)
IsPage(page, V, c) ==
    /\ page \subseteq V
    /\ c # 0 => \A k \in page : k < c
    /\ \A k \in page, l \in V : (k <= l /\ (c = 0 \/ l < c)) => l \in page
    /\ Cardinality(page) < PageSize => \A l \in V : c = 0 \/ l < c => l \in page
    /\ page = {} => Cardinality(page) < PageSize
    /\ V # {} /\ c = 0 => Newest(V) \in page

(* The page below a cursor is what IsPage says of a page.                  *)
LEMMA PageIsPage ==
    ASSUME head \in Nat, hidden \subseteq 1..head, NEW c \in Nat
    PROVE  IsPage(PageBelow(c), Visible, c)
  BY PageFacts DEF IsPage

PageTaken(w, page, t, n) ==
    /\ w \in WalkType
    /\ n \in WalkType
    /\ n.start = w.start /\ n.stop = w.stop
    /\ n.rows = w.rows \cup t
    /\ t = Taken(w, page, n.cutoff)

PageMet(w, page, t, n, L, k) ==
    /\ Ends(w, page, t) => WholeDownTo(n, Larger(n.stop, n.cutoff), L, k)
    /\ t = page /\ page # {} => WholeDownTo(n, Oldest(page), L, k)

(* After a page, the walk has met every row from where it stands, or, at   *)
(* its end, from its stop and its cutoff on.                               *)
LEMMA PageIsMet ==
    ASSUME NEW h \in Nat, NEW V \in SUBSET (1..h), NEW x,
           NEW k \in Nat, NEW c \in Nat, NEW page, IsPage(page, V, c),
           NEW w, NEW n, NEW t, PageTaken(w, page, t, n),
           w.rows \subseteq V, c # 0 => WholeDownTo(w, c, V \ x, k)
    PROVE  PageMet(w, page, t, n, V \ x, k)
  <1> DEFINE L == V \ x
  <1>0. /\ n \in WalkType /\ w \in WalkType /\ n.rows = w.rows \cup t
        /\ n.start = w.start /\ n.stop = w.stop
        /\ t = Taken(w, page, n.cutoff)
    BY DEF PageTaken
  <1>1. page \in SUBSET (1..h) /\ t \subseteq page
    BY <1>0 DEF IsPage, Taken
  <1>2. n.rows \in SUBSET (1..h) /\ w.rows \in SUBSET (1..h)
    BY <1>0, <1>1
  <1>3. ASSUME NEW l \in L, c # 0, c <= l, InReach(n, l, k)
        PROVE  l \in n.rows
    <2>0. l \in 1..h
      OBVIOUS
    <2>1. InReach(w, l, k)
      <3>1. CASE l <= Newest(n.rows)
        <4>1. Newest(n.rows) \in n.rows
          <5>1. Newest(n.rows) # 0
            BY <1>0, <2>0, <3>1
          <5> QED
            BY <1>0, <1>2, <5>1, NewestFacts
        <4>2. Newest(n.rows) \notin t
          <5>1. PICK i \in 1..h : i = Newest(n.rows)
            BY <1>0, <1>2, <4>1
          <5>2. ~(i < c)
            BY <1>0, <1>3, <2>0, <3>1, <5>1
          <5> QED
            BY <1>0, <1>1, <1>3, <5>1, <5>2 DEF IsPage
        <4>3. Newest(n.rows) \in w.rows
          BY <1>0, <4>1, <4>2
        <4>4. Newest(n.rows) <= Newest(w.rows) /\ Newest(w.rows) \in 0..h
          BY <1>0, <1>2, <4>3, NewestFacts
        <4>5. PICK i \in 1..h : i = Newest(n.rows)
          BY <1>0, <1>2, <4>1
        <4> QED
          BY <1>0, <2>0, <3>1, <4>4, <4>5 DEF InReach
      <3>2. CASE IF n.start = 0 THEN l <= k ELSE l < n.start
        BY <1>0, <3>2 DEF InReach
      <3> QED
        BY <1>0, <1>3, <3>1, <3>2 DEF InReach
    <2> QED
      BY <1>0, <1>3, <2>1 DEF WholeDownTo
  <1>4. ASSUME Ends(w, page, t), NEW l \in L, Larger(n.stop, n.cutoff) <= l,
               InReach(n, l, k)
        PROVE  l \in n.rows
    <2>0. l \in 1..h /\ n.stop \in Nat /\ n.cutoff \in Nat
      BY <1>0, HistoryAssumptions DEF WalkType, OptLt, OptCutoff
    <2>1. n.stop <= l /\ n.cutoff <= l
      BY <1>0, <1>4, <2>0 DEF Larger
    <2>2. CASE c # 0 /\ c <= l
      BY <1>0, <1>3, <1>4, <2>2
    <2>3. CASE c = 0 \/ l < c
      <3>1. l \in page
        <4>1. CASE page = {} \/ Cardinality(page) < PageSize
          BY <1>0, <2>3, <4>1 DEF IsPage
        <4>2. CASE t # page
          <5>1. PICK j \in page : j < n.stop \/ j < n.cutoff
            <6>1. PICK j \in page : j \notin t
              BY <1>0, <1>1, <4>2
            <6>2. j \in 1..h
              BY <1>0, <1>1
            <6>3. ~(j >= n.stop /\ j >= n.cutoff)
              BY <1>0, <6>1 DEF Taken
            <6> QED
              BY <1>0, <2>0, <6>2, <6>3
          <5>2. j \in 1..h /\ j <= l
            BY <1>0, <1>1, <2>0, <2>1, <5>1
          <5> QED
            BY <1>0, <2>3, <5>2 DEF IsPage
        <4>3. CASE w.stop \in t
          BY <1>0, <1>1, <2>1, <2>3, <4>3 DEF IsPage
        <4> QED
          BY <1>0, <1>4, <4>1, <4>2, <4>3 DEF Ends
      <3>2. l \in t
        BY <1>0, <2>0, <2>1, <3>1 DEF Taken
      <3> QED
        BY <1>0, <3>2
    <2> QED
      BY <1>0, <2>0, <2>2, <2>3
  <1>5. ASSUME t = page, page # {}, NEW l \in L, Oldest(page) <= l,
               InReach(n, l, k)
        PROVE  l \in n.rows
    <2>0. l \in 1..h
      OBVIOUS
    <2>1. CASE c # 0 /\ c <= l
      BY <1>0, <1>3, <1>5, <2>1
    <2>2. CASE c = 0 \/ l < c
      <3>1. Oldest(page) \in page
        BY <1>0, <1>1, <1>5, OldestFacts
      <3> QED
        BY <1>0, <1>5, <2>2, <3>1 DEF IsPage
    <2> QED
      BY <1>0, <2>0, <2>1, <2>2
  <1> QED
    BY <1>4, <1>5 DEF WholeDownTo, PageMet

(* A page that arrives for the current walk leaves it in its place.        *)
LEMMA ReadPagePlaced ==
    ASSUME NEW h \in 0..MaxLt, NEW V \in SUBSET (1..h), NEW x, NEW a,
           Fields(a, V, h), NEW w \in WalkType, WalkOK(w, V, h),
           w.st = "walking", NEW c \in Nat, c = w.before \/ c = 0,
           NEW page, IsPage(page, V, c), Placed(a, w, V \ x),
           NEW n, n = ReadPage(w, page, {}), ~n.gap
    PROVE  Placed(a, n, V \ x)
  <1>0. page \in SUBSET (1..h) /\ {} \in SUBSET page /\ h \in Nat /\ MaxLt \in Nat
        /\ MaxAge \in Nat
    <2>1. h \in Nat /\ MaxLt \in Nat /\ MaxAge \in Nat
      BY HistoryAssumptions
    <2>2. page \in SUBSET (1..h)
      BY DEF IsPage
    <2> QED
      BY <2>1, <2>2
  <1>1. w.pages # 0 /\ w.cont = 0
    BY DEF WalkOK
  <1>20. PageRead(w, page, {}, n)
    BY <1>0, <1>1, ReadPageFields
  <1>2. /\ n \in WalkType
        /\ n.headOnly = w.headOnly
        /\ n.start = w.start /\ n.stop = w.stop
        /\ n.st = "walking" => n.pages # MaxPages
        /\ n.st \in {"walking", "done"}
        /\ n.cutoff = IF w.start = 0 /\ w.pages = MaxPages
                      THEN Larger(w.cutoff, AtLeast0(Newest(page) - MaxAge))
                      ELSE w.cutoff
        /\ \E t \in SUBSET page :
             /\ t = Taken(w, page, n.cutoff)
             /\ n.rows = w.rows \cup t
             /\ \/ n.st = "done" /\ n.cont = 0 /\ Ends(w, page, t)
                \/ /\ t = page /\ page # {}
                   /\ \/ n.st = "walking" /\ n.before = Oldest(page) /\ n.cont = 0
                      \/ n.st = "done" /\ n.cont = Oldest(page)
    BY <1>20 DEF PageRead
  <1>3. PICK t \in SUBSET page :
             /\ t = Taken(w, page, n.cutoff)
             /\ n.rows = w.rows \cup t
             /\ \/ n.st = "done" /\ n.cont = 0 /\ Ends(w, page, t)
                \/ t = page /\ page # {}
    BY <1>2
  <1>4. w.rows \subseteq V /\ page \subseteq V /\ n.rows \in SUBSET (1..h)
        /\ w.rows \in SUBSET (1..h) /\ V \in SUBSET (1..h)
    BY <1>3 DEF WalkOK, IsPage
  <1>5. Newest(w.rows) <= Newest(n.rows) /\ Newest(w.rows) \in 0..h
        /\ Newest(n.rows) \in 0..h
    BY <1>0, <1>3, <1>4, NewestMonotone, NewestFacts
  <1>6. ~Unread(n)
    BY <1>2 DEF Unread
  <1>7. ASSUME Unread(w), w.start = 0, V # {}
        PROVE  Newest(V) \in page /\ Newest(page) = Newest(V) /\ Newest(V) \in 1..h
    <2>1. c = 0
      BY <1>7 DEF WalkOK
    <2>2. Newest(V) \in page
      BY <1>7, <2>1 DEF IsPage
    <2>3. Newest(page) <= Newest(V)
      BY <1>0, <1>4, NewestMonotone
    <2>4. Newest(V) <= Newest(page) /\ Newest(page) \in 0..h /\ Newest(V) \in 0..h
      BY <1>0, <2>2, NewestFacts
    <2>5. Newest(V) \in 1..h
      BY <1>0, <2>2
    <2>6. PICK i \in 0..h, j \in 0..h : i = Newest(page) /\ j = Newest(V)
      BY <2>4
    <2>7. i = j
      BY <1>0, <2>3, <2>4, <2>6
    <2> QED
      BY <2>2, <2>5, <2>6, <2>7
  <1>8. /\ Known(a) \in 0..h /\ Known(a) <= Newest(V)
        /\ Newest(a.scan.rows) \in 0..h /\ Newest(a.scan.rows) <= Newest(V)
        /\ V = {} => Known(a) = 0 /\ Newest(a.scan.rows) = 0
    <2>1. a.activity \in SUBSET V /\ a.scan.rows \in SUBSET V
      BY DEF Fields
    <2>2. a.activity \in SUBSET (1..h) /\ a.scan.rows \in SUBSET (1..h)
      BY <2>1
    <2> QED
      BY <1>0, <2>1, <2>2, NewestMonotone, NewestFacts DEF Known
  <1>9. n.headOnly => Head(a, n)
    <2> SUFFICES ASSUME w.headOnly PROVE Newest(a.scan.rows) <= Newest(n.rows)
      BY <1>2, <1>6 DEF Placed, Head
    <2>1. Head(a, w) /\ w.start = 0
      BY DEF Placed, WalkOK
    <2>2. CASE ~Unread(w)
      BY <1>5, <1>8, <2>1, <2>2 DEF Head
    <2>3. CASE Unread(w) /\ V = {}
      BY <1>5, <1>8, <2>3
    <2>4. CASE Unread(w) /\ V # {}
      <3>1. PICK m \in 1..h : m = Newest(V)
        BY <1>7, <2>1, <2>4
      <3>2. m \in page /\ Newest(page) = m
        BY <1>7, <2>1, <2>4, <3>1
      <3>3. w.cutoff = 0 /\ w.pages = MaxPages
        BY <2>4 DEF WalkOK, Unread
      <3>4. n.cutoff = Larger(0, AtLeast0(m - MaxAge))
        BY <1>2, <2>1, <3>2, <3>3
      <3>5. m >= n.cutoff
        BY <1>0, <3>4 DEF Larger, AtLeast0
      <3>6. m >= w.stop
        BY <1>8, <2>1, <3>1 DEF Head
      <3>7. m \in n.rows
        BY <1>3, <3>2, <3>5, <3>6 DEF Taken
      <3>8. m <= Newest(n.rows)
        BY <1>0, <1>4, <3>7, NewestFacts
      <3> QED
        BY <1>5, <1>8, <3>1, <3>8
    <2> QED
      BY <2>2, <2>3, <2>4
  <1>10. ~n.headOnly => Below(a, V \ x, n.stop) /\ Joins(a, n)
    BY <1>2 DEF Placed, Joins
  <1>11. ASSUME n.start = 0, n.st = "walking" \/ n.cont # 0
         PROVE  Known(a) <= Newest(n.rows)
    <2>1. t = page /\ page # {}
      BY <1>3, <1>11
    <2>2. CASE ~Unread(w)
      BY <1>2, <1>5, <1>8, <1>11, <2>2 DEF Placed
    <2>3. CASE Unread(w)
      <3>1. V # {}
        BY <1>4, <2>1
      <3>2. Newest(V) \in n.rows /\ Newest(V) \in 1..h
        BY <1>2, <1>3, <1>7, <1>11, <2>1, <2>3, <3>1
      <3>3. Newest(V) <= Newest(n.rows)
        BY <1>0, <1>4, <3>2, NewestFacts
      <3> QED
        BY <1>5, <1>8, <3>2, <3>3
    <2> QED
      BY <2>2, <2>3
  <1> QED
    BY <1>2, <1>9, <1>10, <1>11 DEF Placed

(* An announced row that the current walk serves is served after a page.   *)
LEMMA ReadPageServes ==
    ASSUME NEW h \in 0..MaxLt, NEW V \in SUBSET (1..h), NEW x, NEW a,
           Fields(a, V, h), NEW w \in WalkType, WalkOK(w, V, h),
           w.st = "walking", NEW c \in Nat, c = w.before \/ c = 0,
           NEW page, IsPage(page, V, c), NEW lost \in SUBSET page,
           ~w.gap => Placed(a, w, V \ x),
           NEW m, m # 0, m \notin x, Ahead(a, V, m), Serves(a, w, m),
           NEW n, n = ReadPage(w, page, lost)
    PROVE  Serves(a, n, m)
  <1>0. page \in SUBSET (1..h) /\ h \in Nat /\ MaxLt \in Nat /\ MaxAge \in Nat
        /\ m \in 1..h /\ m \in V /\ Known(a) < m
    BY HistoryAssumptions DEF IsPage, Ahead
  <1>1. w.pages # 0 /\ w.cont = 0 /\ w.rows \subseteq V
    BY DEF WalkOK
  <1>20. PageRead(w, page, lost, n)
    BY <1>0, <1>1, ReadPageFields
  <1>2. /\ n \in WalkType
        /\ n.start = w.start /\ n.stop = w.stop
        /\ n.st \in {"walking", "done"}
    BY <1>20 DEF PageRead
  <1>6. w.gap \/ lost # {} => n.gap
    BY <1>20 DEF PageRead
  <1>7. ASSUME lost = {}
        PROVE  n.cutoff = IF w.start = 0 /\ w.pages = MaxPages
                          THEN Larger(w.cutoff, AtLeast0(Newest(page) - MaxAge))
                          ELSE w.cutoff
    BY <1>7, <1>20 DEF PageRead
  <1>8. ASSUME lost = {}, ~n.gap
        PROVE  \E t \in SUBSET page :
                 t = Taken(w, page, n.cutoff) /\ n.rows = w.rows \cup t
    BY <1>8, <1>20 DEF PageRead
  <1>3. CASE a.headAfter
    BY <1>3 DEF Serves
  <1>4. CASE n.gap /\ w.start = 0
    BY <1>2, <1>4 DEF Serves
  <1>5. CASE ~n.gap /\ w.start = 0
    <2>1. lost = {} /\ ~w.gap
      BY <1>5, <1>6
    <2>2. PICK t \in SUBSET page :
               t = Taken(w, page, n.cutoff) /\ n.rows = w.rows \cup t
      BY <1>5, <1>8, <2>1
    <2>3. n.rows \in SUBSET (1..h) /\ w.rows \in SUBSET (1..h)
      BY <1>0, <1>1, <2>2
    <2>4. CASE Unread(w)
      <3>1. c = 0 /\ V # {}
        BY <1>0, <1>5, <2>4 DEF WalkOK
      <3>2. Newest(V) \in page
        BY <3>1 DEF IsPage
      <3>3. PICK i \in 1..h : i = Newest(V)
        BY <1>0, <3>2
      <3>4. m <= i
        BY <1>0, <3>3, NewestFacts
      <3>5. w.stop <= m
        <4>1. CASE w.headOnly
          <5>1. w.stop = Known(a)
            BY <2>1, <4>1 DEF Placed, Head
          <5>2. Known(a) \in 0..h
            <6>1. a.activity \in SUBSET (1..h)
              BY DEF Fields
            <6> QED
              BY <1>0, <6>1, NewestFacts DEF Known
          <5> QED
            BY <1>0, <5>1, <5>2
        <4>2. CASE ~w.headOnly
          <5>1. Below(a, V \ x, w.stop)
            BY <2>1, <4>2 DEF Placed
          <5>2. m \notin a.activity
            <6>1. a.activity \in SUBSET (1..h)
              BY DEF Fields
            <6>2. m \in a.activity => m <= Known(a) /\ Known(a) \in 0..h
              BY <1>0, <6>1, NewestFacts DEF Known
            <6> QED
              BY <1>0, <6>2
          <5>3. ~(m < w.stop)
            BY <1>0, <5>1, <5>2 DEF Below
          <5>4. w.stop \in Nat
            BY <1>0 DEF WalkType, OptLt
          <5> QED
            BY <1>0, <5>3, <5>4
        <4> QED
          BY <4>1, <4>2
      <3>6. w.stop \in Nat /\ n.cutoff \in Nat
        BY <1>0, <1>2 DEF WalkType, OptLt, OptCutoff
      <3>7. CASE i >= n.cutoff
        <4>1. i \in n.rows
          BY <1>0, <2>2, <3>2, <3>3, <3>4, <3>5, <3>6, <3>7 DEF Taken
        <4>2. i <= Newest(n.rows) /\ Newest(n.rows) \in 0..h
          BY <1>0, <2>3, <4>1, NewestFacts
        <4>3. m <= Newest(n.rows)
          BY <1>0, <3>4, <4>2
        <4> QED
          BY <1>2, <1>5, <4>3 DEF Serves
      <3>8. CASE ~(i >= n.cutoff)
        <4>1. m < n.cutoff
          BY <1>0, <3>4, <3>6, <3>8
        <4> QED
          BY <1>2, <1>5, <4>1 DEF Serves
      <3> QED
        BY <3>7, <3>8
    <2>5. CASE m <= Newest(w.rows)
      <3>1. /\ Newest(w.rows) <= Newest(n.rows)
            /\ Newest(w.rows) \in 0..h /\ Newest(n.rows) \in 0..h
        BY <1>0, <2>2, <2>3, NewestMonotone, NewestFacts
      <3>2. m <= Newest(n.rows)
        BY <1>0, <2>5, <3>1
      <3> QED
        BY <1>2, <1>5, <3>2 DEF Serves
    <2>6. CASE m < w.cutoff
      <3>1. PICK j \in 0..h : j = Newest(page)
        BY <1>0, NewestFacts
      <3>2. AtLeast0(j - MaxAge) \in Nat /\ w.cutoff \in Nat
        BY <1>0 DEF AtLeast0, WalkType, OptCutoff
      <3>3. PICK y \in Nat, z \in Nat : y = AtLeast0(j - MaxAge) /\ z = w.cutoff
        BY <3>2
      <3>4. n.cutoff = z \/ n.cutoff = Larger(z, y)
        BY <1>7, <2>1, <3>1, <3>3
      <3>5. m < n.cutoff
        BY <1>0, <2>6, <3>3, <3>4 DEF Larger
      <3> QED
        BY <1>2, <1>5, <3>5 DEF Serves
    <2> QED
      BY <1>5, <2>1, <2>4, <2>5, <2>6, <1>3 DEF Serves
  <1> QED
    BY <1>3, <1>4, <1>5 DEF Serves

(* A page, with or without rows that do not decode, keeps the invariant.   *)
LEMMA ReadPageStep ==
    ASSUME NEW h \in 0..MaxLt, NEW V \in SUBSET (1..h), NEW x, NEW a,
           Sound(a, V, h, x), NEW w \in a.tasks, w.st = "walking",
           NEW c \in Nat, c = w.before \/ c = 0,
           NEW page, IsPage(page, V, c), NEW lost \in SUBSET page,
           NEW m, Ahead(a, V, m), Promised(a, x, m),
           NEW n, n = ReadPage(w, page, lost)
    PROVE  /\ Sound(Replace(a, w, n), V, h, x)
           /\ Promised(Replace(a, w, n), x, m)
  <1>0. /\ h \in Nat /\ page \in SUBSET (1..h) /\ page \subseteq V
        /\ lost \subseteq page
    BY HistoryAssumptions DEF IsPage
  <1>1. a \in AppType /\ Fields(a, V, h) /\ Pool(a, V, h)
    BY DEF Sound, Fields
  <1>2. w \in WalkType /\ WalkOK(w, V, h)
    BY <1>1 DEF AppType, Pool
  <1>3. w.pages # 0 /\ w.cont = 0 /\ w.rows \subseteq V
    BY <1>2 DEF WalkOK
  <1>4. PageRead(w, page, lost, n)
    BY <1>0, <1>2, <1>3, ReadPageFields
  <1>5. /\ n \in WalkType
        /\ n.id = w.id /\ n.gen = w.gen /\ n.headOnly = w.headOnly
        /\ n.start = w.start /\ n.stop = w.stop
        /\ n.rows \subseteq w.rows \cup page
        /\ n.st = "walking" => /\ n.pages # 0 /\ n.pages # MaxPages
                               /\ n.cont = 0 /\ n.before # 0
        /\ n.st \in {"walking", "done"}
        /\ n.cont # 0 => n.cont \in n.rows
    BY <1>4 DEF PageRead
  <1>6. w.gap \/ lost # {} => n.gap
    BY <1>4 DEF PageRead
  <1>7. WalkOK(n, V, h)
    BY <1>0, <1>2, <1>3, <1>5 DEF WalkOK, Unread
  <1>8. Known(a) \in Nat
    <2>1. a.activity \in SUBSET (1..h)
      BY <1>1 DEF Fields
    <2>2. Known(a) \in 0..h
      BY <1>0, <2>1, NewestFacts DEF Known
    <2> QED
      BY <2>2
  <1>9. ASSUME Current(a, w), ~n.gap
        PROVE  Walked(n, V \ x, Known(a)) /\ Placed(a, n, V \ x)
    <2>1. ~w.gap /\ lost = {}
      BY <1>6, <1>9
    <2>2. Walked(w, V \ x, Known(a)) /\ Placed(a, w, V \ x)
      BY <1>9, <2>1 DEF Sound, Walks
    <2>3. PICK t \in SUBSET page :
             /\ t = Taken(w, page, n.cutoff)
             /\ n.rows = w.rows \cup t
             /\ \/ n.st = "done" /\ n.cont = 0 /\ Ends(w, page, t)
                \/ /\ t = page /\ page # {}
                   /\ \/ n.st = "walking" /\ n.before = Oldest(page) /\ n.cont = 0
                      \/ n.st = "done" /\ n.cont = Oldest(page)
      BY <1>4, <1>9, <2>1 DEF PageRead
    <2>4. c # 0 => WholeDownTo(w, c, V \ x, Known(a))
      BY <2>2 DEF Walked
    <2>5. PageMet(w, page, t, n, V \ x, Known(a))
      <3>1. PageTaken(w, page, t, n)
        BY <1>2, <1>5, <2>3 DEF PageTaken
      <3>2. PICK k \in Nat : k = Known(a)
        BY <1>8
      <3> QED
        BY <1>0, <1>3, <2>4, <3>1, <3>2, PageIsMet
    <2>6. page # {} => Oldest(page) # 0
      <3>1. page # {} => Oldest(page) \in page
        BY <1>0, OldestFacts
      <3> QED
        BY <1>0, <3>1
    <2>7. Walked(n, V \ x, Known(a))
      BY <2>3, <2>5, <2>6 DEF Walked, PageMet
    <2>8. Placed(a, n, V \ x)
      BY <1>1, <1>2, <1>9, <2>1, <2>2, ReadPagePlaced
    <2> QED
      BY <2>7, <2>8
  <1>10. Sound(Replace(a, w, n), V, h, x)
    BY <1>5, <1>7, <1>9, ReplaceSound
  <1>11. ASSUME m # 0, m \notin x, Current(a, w), Serves(a, w, m)
         PROVE  Serves(a, n, m)
    <2>1. ~w.gap => Placed(a, w, V \ x)
      BY <1>11 DEF Sound, Walks
    <2> QED
      BY <1>1, <1>2, <1>11, <2>1, ReadPageServes
  <1>12. Promised(Replace(a, w, n), x, m)
    BY <1>1, <1>5, <1>11, ReplacePromised
  <1> QED
    BY <1>10, <1>12

\* The walk ended with a gap.
Failed(w, n) ==
    /\ n \in WalkType
    /\ n.id = w.id /\ n.gen = w.gen /\ n.headOnly = w.headOnly
    /\ n.start = w.start /\ n.stop = w.stop /\ n.gap = TRUE
    /\ n.rows \subseteq w.rows /\ n.st \in {"done", "died"} /\ n.cont = w.cont

(* So does a walk that ends with a gap.                                    *)
LEMMA FailStep ==
    ASSUME NEW h \in 0..MaxLt, NEW V \in SUBSET (1..h), NEW x, NEW a,
           Sound(a, V, h, x), NEW w \in a.tasks, w.st = "walking",
           NEW n, Failed(w, n)
    PROVE  /\ Sound(Replace(a, w, n), V, h, x)
           /\ \A m : Promised(a, x, m) => Promised(Replace(a, w, n), x, m)
  <1>1. a \in AppType /\ Pool(a, V, h)
    BY DEF Sound, Fields
  <1>2. w \in WalkType /\ WalkOK(w, V, h)
    BY <1>1 DEF AppType, Pool
  <1>4. /\ n \in WalkType
        /\ n.id = w.id /\ n.gen = w.gen /\ n.headOnly = w.headOnly
        /\ n.start = w.start /\ n.stop = w.stop /\ n.gap = TRUE
        /\ n.rows \subseteq w.rows /\ n.st \in {"done", "died"}
        /\ n.cont = w.cont
    BY DEF Failed
  <1>5. WalkOK(n, V, h)
    BY <1>2, <1>4 DEF WalkOK, Unread
  <1>6. Sound(Replace(a, w, n), V, h, x)
    BY <1>4, <1>5, ReplaceSound
  <1>7. \A m : Serves(a, w, m) => Serves(a, n, m)
    BY <1>4 DEF Serves
  <1>8. \A m : Promised(a, x, m) => Promised(Replace(a, w, n), x, m)
    BY <1>1, <1>4, <1>7, ReplacePromised
  <1> QED
    BY <1>6, <1>8

-----------------------------------------------------------------------------
(* The pages of a walk keep the inductive invariant.                       *)

WorldFacts == head \in 0..MaxLt /\ Visible \in SUBSET (1..head) /\ head \in Nat

(* What the steps use of the account.                                      *)
LEMMA WorldGives == ASSUME World PROVE WorldFacts
  BY HistoryAssumptions DEF World, WorldFacts, Visible, OptLt

(* A step of the walk that leaves the list and the account alone.          *)
LEMMA WalkStep ==
    ASSUME IInv, NEW w \in app.tasks, NEW n \in WalkType,
           Sound(Replace(app, w, n), Visible, head, explained),
           Promised(Replace(app, w, n), explained, announced),
           app' = Replace(app, w, n), faults' \in Nat,
           UNCHANGED <<account, history>>
    PROVE  IInv'
  <1>1. UNCHANGED <<head, hidden, sends, sent, announced, atRequest, explained>>
    BY DEF account, history
  <1>2. Visible' = Visible
    BY <1>1 DEF Visible
  <1>3. World'
    BY <1>1 DEF IInv, World
  <1>4. app'.activity = app.activity
    <2>1. app \in AppType
      BY DEF IInv, Sound, Fields
    <2> QED
      BY <2>1, ReplaceFields
  <1>5. Ahead(app', Visible, announced)
    BY <1>4 DEF IInv, Ahead, Known
  <1> QED
    BY <1>1, <1>2, <1>3, <1>5 DEF IInv

(* The page a walk asked for arrives.                                      *)
LEMMA PageArrivesStep ==
    ASSUME IInv, NEW w \in app.tasks, PageArrives(w)
    PROVE  IInv'
  <1>1. WorldFacts /\ hidden \subseteq 1..head
    BY WorldGives DEF IInv, World
  <1>2. w \in WalkType /\ w.st = "walking"
    BY DEF PageArrives, Walking, IInv, Sound, Fields, AppType
  <1>3. PICK c \in Nat : c = w.before
    BY <1>2, HistoryAssumptions DEF WalkType, OptLt
  <1>4. PICK page : page = PageBelow(c)
    OBVIOUS
  <1>5. IsPage(page, Visible, c)
    BY <1>1, <1>4, PageIsPage DEF WorldFacts
  <1>6. PICK n : n = ReadPage(w, page, {})
    OBVIOUS
  <1>7. {} \in SUBSET page
    OBVIOUS
  <1>8. /\ Sound(Replace(app, w, n), Visible, head, explained)
        /\ Promised(Replace(app, w, n), explained, announced)
    BY <1>1, <1>2, <1>3, <1>5, <1>6, <1>7, ReadPageStep DEF WorldFacts, IInv
  <1>9. n \in WalkType
    <2>1. page \subseteq 1..head
      BY <1>1, <1>5 DEF WorldFacts, IsPage
    <2>2. w.pages # 0 /\ w.cont = 0
      BY <1>2 DEF IInv, Sound, Pool, WalkOK
    <2>3. PageRead(w, page, {}, n)
      BY <1>1, <1>2, <1>6, <1>7, <2>1, <2>2, ReadPageFields DEF WorldFacts
    <2> QED
      BY <2>3 DEF PageRead
  <1>10. app' = Replace(app, w, n) /\ UNCHANGED <<account, history>>
         /\ faults' = faults
    BY <1>3, <1>4, <1>6 DEF PageArrives
  <1>11. faults' \in Nat
    BY <1>10 DEF IInv, World
  <1> QED
    BY <1>8, <1>9, <1>10, <1>11, WalkStep

(* The page of a walk does not decode, or the endpoint fails.              *)
LEMMA PageFaultsStep ==
    ASSUME IInv, NEW w \in app.tasks, PageFaults(w)
    PROVE  IInv'
  <1>1. WorldFacts /\ hidden \subseteq 1..head
    BY WorldGives DEF IInv, World
  <1>2. w \in WalkType /\ w.st = "walking" /\ w.pages # 0 /\ w.cont = 0
    <2>1. w \in WalkType /\ w.st = "walking"
      BY DEF PageFaults, Walking, IInv, Sound, Fields, AppType
    <2> QED
      BY <2>1 DEF IInv, Sound, Pool, WalkOK
  <1>3. PICK b \in Nat : b = w.before
    BY <1>2, HistoryAssumptions DEF WalkType, OptLt
  <1>4. faults' \in Nat /\ UNCHANGED <<account, history>>
    BY DEF PageFaults, IInv, World
  <1>5. ASSUME NEW c \in Nat, c = w.before \/ c = 0,
               NEW lost \in SUBSET PageBelow(c),
               app' = Replace(app, w, ReadPage(w, PageBelow(c), lost))
        PROVE  IInv'
    <2>1. PICK page : page = PageBelow(c)
      OBVIOUS
    <2>2. IsPage(page, Visible, c) /\ lost \in SUBSET page
      BY <1>1, <1>5, <2>1, PageIsPage DEF WorldFacts
    <2>3. PICK n : n = ReadPage(w, page, lost)
      OBVIOUS
    <2>4. /\ Sound(Replace(app, w, n), Visible, head, explained)
          /\ Promised(Replace(app, w, n), explained, announced)
      BY <1>1, <1>2, <1>5, <2>2, <2>3, ReadPageStep DEF WorldFacts, IInv
    <2>5. n \in WalkType
      <3>1. page \subseteq 1..head /\ lost \subseteq page
        BY <1>1, <2>2 DEF WorldFacts, IsPage
      <3>2. PageRead(w, page, lost, n)
        BY <1>1, <1>2, <2>3, <3>1, ReadPageFields DEF WorldFacts
      <3> QED
        BY <3>2 DEF PageRead
    <2> QED
      BY <1>4, <1>5, <2>1, <2>3, <2>4, <2>5, WalkStep
  <1>6. ASSUME NEW invalid \in BOOLEAN,
               app' = Replace(app, w, FailPage(w, invalid))
        PROVE  IInv'
    <2>1. PICK r \in SUBSET w.rows : r = IF invalid THEN {} ELSE w.rows
      OBVIOUS
    <2>2. PICK i \in BOOLEAN, s \in {"done", "died"} : i = invalid /\ s = "done"
      OBVIOUS
    <2>3. PICK n : n = [w EXCEPT !.gap = TRUE, !.integrity = i, !.st = s,
                                 !.before = 0, !.pages = 0, !.rows = r]
      OBVIOUS
    <2>4. FailPage(w, invalid) = n
      BY <1>2, <2>1, <2>2, <2>3 DEF FailPage, WalkType
    <2>6. Failed(w, n)
      <3>1. r \in SUBSET Lts /\ 0 \in OptLt /\ 0 \in 0..MaxPages
        BY <1>2, HistoryAssumptions DEF WalkType, OptLt
      <3>2. /\ n \in WalkType
            /\ n.id = w.id /\ n.gen = w.gen /\ n.headOnly = w.headOnly
            /\ n.start = w.start /\ n.stop = w.stop /\ n.gap = TRUE
            /\ n.rows = r /\ n.st = s /\ n.cont = w.cont
        BY <1>2, <2>3, <3>1 DEF WalkType
      <3> QED
        BY <3>2 DEF Failed
    <2>5. /\ Sound(Replace(app, w, n), Visible, head, explained)
          /\ Promised(Replace(app, w, n), explained, announced)
      BY <1>1, <1>2, <2>6, FailStep DEF WorldFacts, IInv
    <2>7. n \in WalkType
      BY <2>6 DEF Failed
    <2> QED
      BY <1>4, <1>6, <2>4, <2>5, <2>7, WalkStep
  <1>7. 0 \in Nat
    OBVIOUS
  <1>8. {} \in SUBSET PageBelow(0)
    OBVIOUS
  <1> QED
    BY <1>3, <1>5, <1>6, <1>7, <1>8 DEF PageFaults

(* The task of a walk is dropped.                                          *)
LEMMA WalkDiesStep ==
    ASSUME IInv, NEW w \in app.tasks, WalkDies(w)
    PROVE  IInv'
  <1>1. WorldFacts
    BY WorldGives DEF IInv
  <1>2. w \in WalkType /\ w.st = "walking"
    BY DEF WalkDies, Walking, IInv, Sound, Fields, AppType
  <1>3. PICK r \in SUBSET w.rows, i \in BOOLEAN, s \in {"done", "died"} :
           r = {} /\ i = FALSE /\ s = "died"
    OBVIOUS
  <1>4. PICK n : n = [w EXCEPT !.gap = TRUE, !.integrity = i, !.st = s,
                               !.before = 0, !.pages = 0, !.rows = r]
    OBVIOUS
  <1>5. [FailPage(w, TRUE) EXCEPT !.integrity = FALSE, !.st = "died"] = n
    BY <1>2, <1>3, <1>4 DEF FailPage, WalkType
  <1>9. Failed(w, n)
    <2>1. r \in SUBSET Lts /\ 0 \in OptLt /\ 0 \in 0..MaxPages
      BY <1>2, HistoryAssumptions DEF WalkType, OptLt
    <2>2. /\ n \in WalkType
          /\ n.id = w.id /\ n.gen = w.gen /\ n.headOnly = w.headOnly
          /\ n.start = w.start /\ n.stop = w.stop /\ n.gap = TRUE
          /\ n.rows = r /\ n.st = s /\ n.cont = w.cont
      BY <1>2, <1>4, <2>1 DEF WalkType
    <2> QED
      BY <2>2 DEF Failed
  <1>6. /\ Sound(Replace(app, w, n), Visible, head, explained)
        /\ Promised(Replace(app, w, n), explained, announced)
    BY <1>1, <1>2, <1>9, FailStep DEF WorldFacts, IInv
  <1>7. n \in WalkType
    BY <1>9 DEF Failed
  <1>8. faults' \in Nat /\ UNCHANGED <<account, history>>
        /\ app' = Replace(app, w, n)
    BY <1>5 DEF WalkDies, IInv, World
  <1> QED
    BY <1>6, <1>7, <1>8, WalkStep

-----------------------------------------------------------------------------
(* Rows appear, and more of them are explained.                            *)

\* The account went from rows V with head h to rows W with head g, and what
\* is explained from x to y: no old row has to be accounted for anew.
Grows(V, h, x, W, g, y) ==
    /\ g \in 0..MaxLt /\ h <= g
    /\ V \subseteq W /\ W \subseteq 1..g
    /\ \A l \in W \ y : l \in V \ x \/ l > h

(* The invariant of the controller is kept when the account grows.         *)
LEMMA GrowSound ==
    ASSUME NEW h \in 0..MaxLt, NEW V \in SUBSET (1..h), NEW x, NEW a,
           Sound(a, V, h, x), NEW g, NEW W, NEW y,
           Grows(V, h, x, W, g, y), Skips(a, y)
    PROVE  Sound(a, W, g, y)
  <1> DEFINE K == V \ x
             L == W \ y
  <1>0. /\ h \in Nat /\ g \in Nat /\ h <= g /\ V \subseteq W
        /\ \A l \in L : l \in K \/ l > h
        /\ \A l \in L : l \in Nat
    <2>1. /\ g \in 0..MaxLt /\ h <= g /\ V \subseteq W /\ W \subseteq 1..g
          /\ \A l \in L : l \in K \/ l > h
      BY DEF Grows
    <2>2. MaxLt \in Nat
      BY HistoryAssumptions
    <2>3. h \in Nat /\ g \in Nat
      BY <2>1, <2>2
    <2>4. \A l \in 1..g : l \in Nat
      BY <2>3
    <2>5. \A l \in L : l \in Nat
      BY <2>1, <2>4
    <2> QED
      BY <2>1, <2>3, <2>5
  <1>1. a \in AppType /\ Fields(a, V, h) /\ Pool(a, V, h)
    BY DEF Sound, Fields
  <1>2. MaxLt \in Nat
    BY HistoryAssumptions
  <1>3. ASSUME NEW l \in L, NEW s \in 0..h, l <= s PROVE l \in K
    <2>1. ~(l > h)
      BY <1>0, <1>3
    <2> QED
      BY <1>0, <2>1
  <1>4. \A w \in a.tasks : w \in WalkType /\ WalkOK(w, V, h)
    BY <1>1 DEF Pool, AppType
  <1>5. /\ Known(a) \in 0..h /\ Newest(a.scan.rows) \in 0..h
        /\ \A w \in a.tasks : Newest(w.rows) \in 0..h
    <2>1. /\ a.activity \in SUBSET (1..h) /\ a.scan.rows \in SUBSET (1..h)
          /\ \A w \in a.tasks : w.rows \in SUBSET (1..h)
      BY <1>1, <1>4 DEF Fields, WalkOK
    <2> QED
      BY <1>0, <2>1, NewestFacts DEF Known
  <1>6. /\ a.floor \in 0..h /\ a.scan.stop \in 0..h
    BY <1>0, <1>1, <1>2 DEF Fields, AppType, OptLt, ScanType
  <1>7. \A w \in a.tasks : w.start \in 0..h /\ w.stop \in 0..h
    BY <1>0, <1>2, <1>4 DEF WalkOK, WalkType, OptLt
  <1>14. \A s \in 0..h : s <= g
    BY <1>0
  <1> HIDE DEF K, L
  <1>8. ASSUME NEW s \in 0..h, Below(a, K, s) PROVE Below(a, L, s)
    BY <1>0, <1>3, <1>8 DEF Below
  <1>9. Pool(a, W, g)
    <2>1. ASSUME NEW w \in a.tasks PROVE WalkOK(w, W, g)
      <3>1. w.start <= g /\ w.stop <= g
        BY <1>7, <1>14
      <3>2. w.rows \subseteq W
        BY <1>0, <1>4 DEF WalkOK
      <3> QED
        BY <1>4, <3>1, <3>2 DEF WalkOK
    <2> QED
      BY <1>1, <2>1 DEF Pool
  <1>10. Fields(a, W, g)
    <2>1. /\ a.floor \in Nat /\ a.recFloor \in Nat /\ a.scan.next \in Nat
          /\ a.scan.stop \in Nat
      BY <1>1, <1>2 DEF AppType, OptLt, ScanType
    <2>2. /\ a.floor <= h /\ a.recFloor <= h /\ a.scan.next <= h
          /\ a.scan.stop <= h
      BY <1>1 DEF Fields
    <2>3. /\ a.floor <= g /\ a.recFloor <= g /\ a.scan.next <= g
          /\ a.scan.stop <= g
      BY <1>0, <2>1, <2>2
    <2>4. a.activity \subseteq W /\ a.scan.rows \subseteq W
      BY <1>0, <1>1 DEF Fields
    <2> QED
      BY <1>1, <2>3, <2>4 DEF Fields
  <1>11. Trusted(a, L)
    <2>1. Trusted(a, K)
      BY DEF Sound, K
    <2>2. Below(a, L, a.floor)
      BY <1>6, <1>8, <2>1 DEF Trusted
    <2>3. Below(a, K, Known(a) + 1) => Below(a, L, Known(a) + 1)
      <3> SUFFICES ASSUME Below(a, K, Known(a) + 1), NEW l \in L,
                          l < Known(a) + 1
                   PROVE  l \in a.activity
        BY DEF Below
      <3>1. PICK k \in 0..h : k = Known(a)
        BY <1>5
      <3>2. l <= k
        BY <1>0, <3>1
      <3>3. l \in K
        BY <1>3, <3>2
      <3> QED
        BY <3>3 DEF Below
    <2> QED
      BY <2>1, <2>2, <2>3 DEF Trusted
  <1>12. ScanOK(a, L)
    <2> SUFFICES ASSUME a.scan # NoScan PROVE ScanOK(a, L)
      BY DEF ScanOK
    <2>1. ScanOK(a, K)
      BY DEF Sound, K
    <2>2. ASSUME NEW l \in L, a.scan.next <= l, l <= Newest(a.scan.rows)
          PROVE  l \in a.scan.rows
      BY <1>3, <1>5, <2>1, <2>2 DEF ScanOK
    <2>3. ASSUME NEW l \in L, l \in a.scan.rows PROVE l \in K
      BY <1>1, <1>0, <2>3 DEF Fields
    <2>4. Below(a, L, a.scan.stop)
      BY <1>6, <1>8, <2>1 DEF ScanOK
    <2> QED
      BY <2>1, <2>2, <2>3, <2>4 DEF ScanOK
  <1>13. Walks(a, L)
    <2> SUFFICES ASSUME NEW w \in a.tasks, Current(a, w), ~w.gap
                 PROVE  Walked(w, L, Known(a)) /\ Placed(a, w, L)
      BY DEF Walks
    <2>1. Walked(w, K, Known(a)) /\ Placed(a, w, K)
      BY DEF Sound, Walks, K
    <2>2. ASSUME NEW c, WholeDownTo(w, c, K, Known(a))
          PROVE  WholeDownTo(w, c, L, Known(a))
      <3> SUFFICES ASSUME NEW l \in L, c <= l, InReach(w, l, Known(a))
                   PROVE  l \in w.rows
        BY DEF WholeDownTo
      <3>1. l \in K
        <4>1. CASE l <= Newest(w.rows)
          BY <1>3, <1>5, <4>1
        <4>2. CASE l <= Known(a)
          BY <1>3, <1>5, <4>2
        <4>3. CASE l < w.start
          <5>1. PICK s \in 0..h : s = w.start
            BY <1>7
          <5> QED
            BY <1>0, <1>3, <4>3, <5>1
        <4> QED
          BY <4>1, <4>2, <4>3 DEF InReach
      <3> QED
        BY <2>2, <3>1 DEF WholeDownTo
    <2>3. Walked(w, L, Known(a))
      BY <2>1, <2>2 DEF Walked
    <2>4. Below(a, K, w.stop) => Below(a, L, w.stop)
      BY <1>7, <1>8
    <2>5. Reported(a, w, K) => Reported(a, w, L)
      BY <1>3, <1>5 DEF Reported
    <2>6. Placed(a, w, L)
      BY <2>1, <2>4, <2>5 DEF Placed
    <2> QED
      BY <2>3, <2>6
  <1> QED
    BY <1>9, <1>10, <1>11, <1>12, <1>13 DEF Sound, L

(* A promise is kept by what leaves the walks and the marks alone.         *)
LEMMA PromisedFrame ==
    ASSUME NEW x, NEW y, x \subseteq y, NEW n, NEW a, NEW b, Promised(a, x, n),
           b.again = a.again, b.inFlight = a.inFlight, b.hasGap = a.hasGap,
           b.incomplete = a.incomplete, b.tasks = a.tasks, b.gen = a.gen,
           b.headAfter = a.headAfter
    PROVE  Promised(b, y, n)
  <1>1. \A w : Serves(a, w, n) => Serves(b, w, n)
    BY DEF Serves
  <1>2. \A w : Current(a, w) => Current(b, w)
    BY DEF Current
  <1> QED
    BY <1>1, <1>2 DEF Promised

(* The account gets a row.                                                 *)
LEMMA NewRowStep ==
    ASSUME IInv, NEW ours \in BOOLEAN, NEW late \in BOOLEAN, NewRow(ours, late)
    PROVE  IInv'
  <1>1. /\ head \in 0..MaxLt /\ head' = head + 1 /\ head' \in 0..MaxLt
        /\ head \in Nat /\ Visible \in SUBSET (1..head)
    BY WorldGives, HistoryAssumptions DEF IInv, WorldFacts, NewRow
  <1>2. /\ hidden \subseteq 1..head
        /\ hidden' = IF late THEN hidden \cup {head + 1} ELSE hidden
        /\ app' = app /\ announced' = announced /\ explained' = explained
    BY DEF NewRow, history, IInv, World
  <1>3. Grows(Visible, head, explained, Visible', head', explained)
    <2>1. \A l \in Visible' : l \in Visible \/ l > head
      BY <1>1, <1>2 DEF Visible
    <2>2. Visible \subseteq Visible' /\ Visible' \subseteq 1..head'
      BY <1>1, <1>2 DEF Visible
    <2> QED
      BY <1>1, <2>1, <2>2 DEF Grows
  <1>4. World'
    <2>1. hidden' \subseteq 1..head'
      BY <1>1, <1>2
    <2>2. sent' \in 0..head' /\ faults' \in Nat
      BY <1>1 DEF NewRow, IInv, World
    <2>3. /\ announced \in 0..head /\ sends' \in 0..MaxSends
          /\ atRequest' \in BOOLEAN /\ explained' \subseteq Lts
      BY <1>2 DEF NewRow, history, IInv, World
    <2>4. announced' \in 0..head' /\ head' \in OptLt
      BY <1>1, <1>2, <2>3 DEF OptLt
    <2> QED
      BY <2>1, <2>2, <2>3, <2>4 DEF World
  <1>5. Sound(app, Visible', head', explained)
    <2>1. Sound(app, Visible, head, explained) /\ Skips(app, explained)
      BY DEF IInv, Sound
    <2> QED
      BY <1>1, <1>3, <2>1, GrowSound
  <1>6. Ahead(app, Visible', announced)
    BY <1>3 DEF IInv, Ahead, Grows
  <1>7. Promised(app, explained, announced)
    BY DEF IInv
  <1> QED
    BY <1>2, <1>4, <1>5, <1>6, <1>7 DEF IInv

(* The endpoint indexes a late row.                                        *)
LEMMA IndexRowStep ==
    ASSUME IInv, NEW l \in hidden, IndexRow(l)
    PROVE  IInv'
  <1>1. /\ head \in 0..MaxLt /\ head' = head
        /\ head \in Nat /\ Visible \in SUBSET (1..head)
    BY WorldGives DEF IInv, WorldFacts, IndexRow
  <1>2. /\ hidden \subseteq 1..head /\ hidden' = hidden \ {l}
        /\ app' = app /\ announced' = announced
        /\ explained' = explained \cup {l}
    BY DEF IndexRow, IInv, World
  <1>3. Grows(Visible, head, explained, Visible', head', explained')
    <2>1. Visible' = Visible \cup {l}
      BY <1>1, <1>2 DEF Visible
    <2>2. Visible' \subseteq 1..head'
      BY <1>1, <1>2, <2>1
    <2> QED
      BY <1>1, <1>2, <2>1, <2>2 DEF Grows
  <1>4. World'
    <2>1. l \in Lts
      BY <1>1, <1>2, HistoryAssumptions DEF Lts
    <2> QED
      BY <1>1, <1>2, <2>1 DEF IInv, World, IndexRow
  <1>5. Skips(app, explained')
    <2>1. l \notin app.activity
      BY DEF IInv, Sound, Fields, Visible
    <2> QED
      BY <1>2, <2>1 DEF IInv, Sound, Skips
  <1>6. Sound(app, Visible', head', explained')
    <2>1. Sound(app, Visible, head, explained)
      BY DEF IInv
    <2> QED
      BY <1>1, <1>3, <1>5, <2>1, GrowSound
  <1>7. Ahead(app, Visible', announced)
    BY <1>3 DEF IInv, Ahead, Grows
  <1>8. Promised(app, explained', announced)
    BY <1>2 DEF IInv, Promised
  <1> QED
    BY <1>2, <1>4, <1>6, <1>7, <1>8 DEF IInv

-----------------------------------------------------------------------------
(* The subscription and the Journal.                                       *)

(* A step of the controller that leaves the account alone.                 *)
LEMMA AppStep ==
    ASSUME IInv, UNCHANGED account, faults' = faults, atRequest' \in BOOLEAN,
           NEW b, app' = b, NEW y, explained' = y, y \subseteq Lts,
           NEW n, announced' = n, n = 0 \/ n \in Visible,
           Sound(b, Visible, head, y), Ahead(b, Visible, n), Promised(b, y, n)
    PROVE  IInv'
  <1>1. UNCHANGED <<head, hidden, sends, sent>>
    BY DEF account
  <1>2. Visible' = Visible
    BY <1>1 DEF Visible
  <1>3. n \in 0..head
    <2>1. WorldFacts
      BY WorldGives DEF IInv
    <2>2. head \in Nat /\ (n = 0 \/ n \in 1..head)
      BY <2>1 DEF WorldFacts
    <2> QED
      BY <2>2
  <1>4. World'
    BY <1>1, <1>3 DEF IInv, World
  <1> QED
    BY <1>1, <1>2, <1>4 DEF IInv

(* An announced row can be read.                                           *)
LEMMA AnnouncedRow ==
    ASSUME IInv PROVE announced = 0 \/ announced \in Visible
  BY DEF IInv, Ahead

(* A fetch, after a change the invariant does not see.                     *)
LEMMA FetchStep ==
    ASSUME IInv, UNCHANGED account, faults' = faults, atRequest' \in BOOLEAN,
           NEW b, Sound(b, Visible, head, explained),
           b.activity = app.activity, app' = Fetch(b),
           explained' = explained,
           NEW n, announced' = n, n = 0 \/ n \in Visible,
           Ahead(app, Visible, n)
    PROVE  IInv'
  <1>1. WorldFacts /\ explained \subseteq Lts
    BY WorldGives DEF IInv, World
  <1>2. /\ Sound(Fetch(b), Visible, head, explained)
        /\ \A m : Promised(Fetch(b), explained, m)
        /\ Fetch(b).activity = b.activity
    BY <1>1, FetchSound DEF WorldFacts
  <1>3. Ahead(Fetch(b), Visible, n)
    BY <1>2 DEF Ahead, Known
  <1> QED
    BY <1>1, <1>2, <1>3, AppStep

(* A change the invariant does not see.                                    *)
LEMMA FieldStep ==
    ASSUME IInv, UNCHANGED account, faults' = faults, atRequest' \in BOOLEAN,
           NEW b, Alike(app, b), b.recFloor = app.recFloor,
           b.again = app.again, b.headAfter = app.headAfter, app' = b,
           explained' = explained, announced' = announced
    PROVE  IInv'
  <1>1. Sound(b, Visible, head, explained)
    <2>1. b.recFloor <= head /\ Skips(b, explained)
      BY DEF IInv, Sound, Fields, Skips, Known, Alike
    <2>2. Sound(app, Visible, head, explained)
      BY DEF IInv
    <2> QED
      BY <2>1, <2>2, FloorFrame
  <1>2. Ahead(b, Visible, announced)
    BY DEF IInv, Ahead, Known, Alike
  <1>3. Promised(b, explained, announced)
    <2>1. Promised(app, explained, announced)
      BY DEF IInv
    <2> QED
      BY <2>1, PromisedFrame DEF Alike
  <1>4. explained \subseteq Lts
    BY DEF IInv, World
  <1> QED
    BY <1>1, <1>2, <1>3, <1>4, AnnouncedRow, AppStep

(* What the handlers of the subscription need of the invariant.            *)
LEMMA AppIsTyped ==
    ASSUME IInv
    PROVE  /\ app \in AppType
           /\ app.sub = "failed" => app.gen < MaxGeneration
           /\ atRequest \in BOOLEAN
  BY DEF IInv, World, Sound, Fields

(* The subscription fails.                                                 *)
LEMMA SubscriptionFailedStep ==
    ASSUME IInv, SubscriptionFailed
    PROVE  IInv'
  <1>1. app \in AppType /\ atRequest \in BOOLEAN
    BY AppIsTyped
  <1>2. PICK b : b = [app EXCEPT !.sub = "failed"]
    OBVIOUS
  <1>3. /\ Alike(app, b) /\ b.recFloor = app.recFloor
        /\ b.again = app.again /\ b.headAfter = app.headAfter
    BY <1>1, <1>2 DEF Alike, AppType, SubscriptionFailed
  <1> QED
    BY <1>1, <1>2, <1>3, FieldStep DEF SubscriptionFailed, history

(* A record of the Journal is no longer recent.                            *)
LEMMA RecordAgesStep ==
    ASSUME IInv, RecordAges
    PROVE  IInv'
  <1>1. /\ app \in AppType /\ atRequest \in BOOLEAN
        /\ app.sub = "failed" => app.gen < MaxGeneration
    BY AppIsTyped
  <1>2. PICK b : b = [app EXCEPT !.timeFloor = 0]
    OBVIOUS
  <1>3. 0 \in OptCutoff
    BY HistoryAssumptions DEF OptCutoff
  <1>4. /\ Alike(app, b) /\ b.recFloor = app.recFloor
        /\ b.again = app.again /\ b.headAfter = app.headAfter
    BY <1>1, <1>2, <1>3 DEF Alike, AppType
  <1> QED
    BY <1>1, <1>2, <1>4, FieldStep DEF RecordAges, history

(* A review ends.                                                          *)
LEMMA EndRiskStep ==
    ASSUME IInv, EndRisk
    PROVE  IInv'
  <1>1. /\ app \in AppType /\ atRequest \in BOOLEAN
        /\ app.sub = "failed" => app.gen < MaxGeneration
    BY AppIsTyped
  <1>2. PICK b : b = [app EXCEPT !.risk = "none"]
    OBVIOUS
  <1>3. /\ Alike(app, b) /\ b.recFloor = app.recFloor
        /\ b.again = app.again /\ b.headAfter = app.headAfter
    BY <1>1, <1>2 DEF Alike, AppType
  <1> QED
    BY <1>1, <1>2, <1>3, FieldStep DEF EndRisk

(* The Journal is polled.                                                  *)
LEMMA PollJournalStep ==
    ASSUME IInv, PollJournal
    PROVE  IInv'
  <1>1. /\ Sound(app, Visible, head, explained)
        /\ Ahead(app, Visible, announced)
    BY DEF IInv
  <1>2. atRequest' \in BOOLEAN
    BY AppIsTyped DEF PollJournal, history
  <1> QED
    BY <1>1, <1>2, AnnouncedRow, FetchStep DEF PollJournal, history

(* A review is requested.                                                  *)
LEMMA RequestRiskStep ==
    ASSUME IInv, RequestRisk
    PROVE  IInv'
  <1>1. /\ app \in AppType /\ (app.sub = "failed" => app.gen < MaxGeneration)
        /\ Sound(app, Visible, head, explained)
        /\ Ahead(app, Visible, announced)
    BY AppIsTyped DEF IInv
  <1>2. PICK b : b = [app EXCEPT !.risk = "checking"]
    OBVIOUS
  <1>3. /\ Alike(app, b) /\ b.recFloor = app.recFloor
        /\ b.activity = app.activity
    BY <1>1, <1>2 DEF Alike, AppType
  <1>4. Sound(b, Visible, head, explained)
    <2>1. b.recFloor <= head /\ Skips(b, explained)
      BY <1>1, <1>3 DEF Sound, Fields, Skips, Known
    <2> QED
      BY <1>1, <1>3, <2>1, FloorFrame
  <1>5. atRequest' \in BOOLEAN
    BY DEF RequestRisk
  <1> QED
    BY <1>1, <1>2, <1>3, <1>4, <1>5, AnnouncedRow, FetchStep DEF RequestRisk

(* The subscription is ready, and the head is fetched.                     *)
LEMMA SubscriptionReadyStep ==
    ASSUME IInv, SubscriptionReady
    PROVE  IInv'
  <1>1. /\ app \in AppType /\ atRequest \in BOOLEAN
        /\ Sound(app, Visible, head, explained)
        /\ Ahead(app, Visible, announced)
    BY AppIsTyped DEF IInv
  <1>2. PICK b : b = [app EXCEPT !.sub = "live"]
    OBVIOUS
  <1>3. /\ Alike(app, b) /\ b.recFloor = app.recFloor
        /\ b.again = app.again /\ b.headAfter = app.headAfter
        /\ b.activity = app.activity
    BY <1>1, <1>2 DEF Alike, AppType
  <1>4. Sound(b, Visible, head, explained)
    <2>1. b.recFloor <= head /\ Skips(b, explained)
      BY <1>1, <1>3 DEF Sound, Fields, Skips, Known
    <2> QED
      BY <1>1, <1>3, <2>1, FloorFrame
  <1>5. /\ atRequest' \in BOOLEAN /\ UNCHANGED account /\ faults' = faults
        /\ explained' = explained /\ announced' = announced
    BY <1>1 DEF SubscriptionReady, history
  <1>6. CASE app' = Fetch(b)
    BY <1>1, <1>3, <1>4, <1>5, <1>6, AnnouncedRow, FetchStep
  <1>7. CASE app' = b
    BY <1>3, <1>5, <1>7, FieldStep
  <1> QED
    BY <1>2, <1>6, <1>7 DEF SubscriptionReady

(* The subscription announces a row.                                       *)
LEMMA SubscriptionUpdateStep ==
    ASSUME IInv, SubscriptionUpdate
    PROVE  IInv'
  <1>1. /\ Sound(app, Visible, head, explained) /\ atRequest \in BOOLEAN
        /\ WorldFacts
    BY AppIsTyped, WorldGives DEF IInv
  <1>2. app'.activity = app.activity
    BY <1>1, FetchSound DEF SubscriptionUpdate, WorldFacts
  <1>3. Newest(Visible) \in 0..head /\ (Visible # {} => Newest(Visible) \in Visible)
        /\ (Visible = {} => Newest(Visible) = 0)
    BY <1>1, NewestFacts DEF WorldFacts
  <1>4. Known(app) \in 0..head
    <2>1. app.activity \in SUBSET (1..head)
      BY <1>1 DEF Sound, Fields, WorldFacts
    <2> QED
      BY <1>1, <2>1, NewestFacts DEF Known, WorldFacts
  <1>5. PICK i \in 0..head, k \in 0..head : i = Newest(Visible) /\ k = Known(app)
    BY <1>3, <1>4
  <1>6. PICK n : n = announced'
    OBVIOUS
  <1>7. n = IF i <= k THEN 0 ELSE i
    BY <1>2, <1>5, <1>6 DEF SubscriptionUpdate, Unheld, Known
  <1>8. n = 0 \/ n \in Visible
    BY <1>3, <1>5, <1>7
  <1>9. Ahead(app, Visible, n)
    <2>1. n # 0 => k < n
      BY <1>1, <1>7 DEF WorldFacts
    <2> QED
      BY <1>5, <1>8, <2>1 DEF Ahead
  <1>10. /\ atRequest' \in BOOLEAN /\ UNCHANGED account /\ faults' = faults
         /\ explained' = explained /\ app' = Fetch(app)
    BY <1>1 DEF SubscriptionUpdate
  <1> QED
    BY <1>1, <1>6, <1>8, <1>9, <1>10, FetchStep

(* A new generation: no walk under way is current any more.                *)
LEMMA NewGeneration ==
    ASSUME NEW V, NEW h, NEW x, NEW a, Sound(a, V, h, x),
           NEW b \in AppType, b.gen = a.gen + 1, b.sub = "connecting",
           b.tasks = a.tasks, b.activity = a.activity,
           b.inFlight = a.inFlight \/ b.inFlight = 0,
           b.scan = NoScan \/ (b.scan = a.scan /\ b.inFlight = a.inFlight),
           b.hasGap = a.hasGap, b.incomplete = a.incomplete,
           b.floor = a.floor, b.recFloor = a.recFloor, h \in Nat
    PROVE  Sound(b, V, h, x)
  <1>1. a \in AppType /\ Fields(a, V, h) /\ Pool(a, V, h)
    BY DEF Sound, Fields
  <1>2. \A w \in a.tasks : w.gen \in Nat /\ a.gen \in Nat /\ w.gen <= a.gen
    BY <1>1, HistoryAssumptions DEF AppType, WalkType, Pool
  <1>3. Known(b) = Known(a) /\ \A L, s : Below(b, L, s) <=> Below(a, L, s)
    BY DEF Known, Below
  <1>4. Pool(b, V, h)
    <2>1. \A w \in b.tasks : w.gen <= b.gen
      BY <1>2
    <2> QED
      BY <1>1, <2>1 DEF Pool
  <1>5. Fields(b, V, h)
    <2>1. NoScan.rows = {} /\ NoScan.next = 0 /\ NoScan.stop = 0
      BY DEF NoScan
    <2>2. 0 <= h
      OBVIOUS
    <2>3. b.scan.rows \subseteq V /\ b.scan.next <= h /\ b.scan.stop <= h
          /\ (b.scan # NoScan => b.scan.next # 0)
      BY <1>1, <2>1, <2>2 DEF Fields
    <2> QED
      BY <1>1, <2>3 DEF Fields
  <1>6. Trusted(b, V \ x)
    BY <1>3 DEF Sound, Trusted
  <1>7. ScanOK(b, V \ x)
    BY <1>3 DEF Sound, ScanOK
  <1>8. Walks(b, V \ x)
    <2>1. \A w \in b.tasks : w.gen # b.gen
      BY <1>2
    <2> QED
      BY <2>1 DEF Walks, Current
  <1>9. Skips(b, x)
    BY <1>3 DEF Sound, Skips
  <1> QED
    BY <1>4, <1>5, <1>6, <1>7, <1>8, <1>9 DEF Sound

(* A new subscription leaves the walks of the old one without effect.      *)
LEMMA ResubscribeSound ==
    ASSUME IInv, app.sub = "failed"
    PROVE  /\ Sound(Resubscribe(app), Visible, head, explained)
           /\ Resubscribe(app).activity = app.activity
  <1>1. app \in AppType /\ app.gen < MaxGeneration /\ WorldFacts
        /\ Sound(app, Visible, head, explained)
    BY AppIsTyped, WorldGives DEF IInv
  <1>2. PICK g \in 0..MaxGeneration : g = app.gen + 1
    BY <1>1, HistoryAssumptions DEF AppType
  <1>3. PICK b : b = [app EXCEPT !.gen = g, !.sub = "connecting"]
    OBVIOUS
  <1>4. Resubscribe(app) = b
    BY <1>2, <1>3 DEF Resubscribe
  <1>5. /\ b \in AppType /\ b.gen = g /\ b.sub = "connecting"
        /\ b.tasks = app.tasks /\ b.activity = app.activity
        /\ b.inFlight = app.inFlight /\ b.scan = app.scan
        /\ b.hasGap = app.hasGap /\ b.incomplete = app.incomplete
        /\ b.floor = app.floor /\ b.recFloor = app.recFloor
    BY <1>1, <1>3 DEF AppType
  <1>6. Sound(b, Visible, head, explained)
    BY <1>1, <1>2, <1>5, NewGeneration DEF WorldFacts
  <1> QED
    BY <1>4, <1>5, <1>6

(* The subscription is opened again.                                       *)
LEMMA ReconnectStep ==
    ASSUME IInv, Reconnect
    PROVE  IInv'
  <1>1. Sound(Resubscribe(app), Visible, head, explained)
    BY ResubscribeSound DEF Reconnect
  <1>2. Ahead(Resubscribe(app), Visible, 0)
        /\ Promised(Resubscribe(app), explained, 0)
    BY DEF Ahead, Promised
  <1>3. /\ UNCHANGED account /\ faults' = faults /\ atRequest' \in BOOLEAN
        /\ app' = Resubscribe(app) /\ explained' = explained
        /\ explained \subseteq Lts /\ announced' = 0
    BY AppIsTyped DEF Reconnect, IInv, World
  <1> QED
    BY <1>1, <1>2, <1>3, AppStep

(* The user asks for a refresh.                                            *)
LEMMA ManualRefreshStep ==
    ASSUME IInv, ManualRefresh
    PROVE  IInv'
  <1>1. /\ Sound(app, Visible, head, explained)
        /\ Ahead(app, Visible, announced) /\ Ahead(app, Visible, 0)
    BY DEF IInv, Ahead
  <1>2. /\ UNCHANGED account /\ faults' = faults /\ atRequest' \in BOOLEAN
        /\ explained' = explained
    BY AppIsTyped DEF ManualRefresh
  <1>3. CASE app.sub = "failed"
    <2>1. /\ Sound(Resubscribe(app), Visible, head, explained)
          /\ Resubscribe(app).activity = app.activity
      BY <1>3, ResubscribeSound
    <2>2. app' = Fetch(Resubscribe(app)) /\ announced' = 0
      BY <1>3 DEF ManualRefresh
    <2> QED
      BY <1>1, <1>2, <2>1, <2>2, FetchStep
  <1>4. CASE app.sub # "failed"
    <2>1. app' = Fetch(app) /\ announced' = announced
      BY <1>4 DEF ManualRefresh
    <2> QED
      BY <1>1, <1>2, <2>1, AnnouncedRow, FetchStep
  <1> QED
    BY <1>3, <1>4

(* The wallet is closed and opened again.                                  *)
LEMMA RestartStep ==
    ASSUME IInv, NEW reopen \in BOOLEAN, Restart(reopen)
    PROVE  IInv'
  <1>1. /\ app \in AppType /\ app.gen < MaxGeneration /\ WorldFacts
        /\ Sound(app, Visible, head, explained) /\ explained \subseteq Lts
    BY AppIsTyped, WorldGives DEF IInv, Restart, World
  <1>2. PICK g \in 0..MaxGeneration : g = app.gen + 1
    BY <1>1, HistoryAssumptions DEF AppType
  <1>3. NoScan \in ScanType
    BY HistoryAssumptions DEF NoScan, ScanType, OptLt, OptCutoff
  <1>4. PICK b : b = [app EXCEPT !.gen = g, !.sub = "connecting",
                          !.inFlight = 0, !.again = FALSE,
                          !.headAfter = FALSE, !.scan = NoScan]
    OBVIOUS
  <1>5. /\ b \in AppType /\ b.gen = g /\ b.sub = "connecting"
        /\ b.tasks = app.tasks /\ b.activity = app.activity
        /\ b.inFlight = 0 /\ b.scan = NoScan
        /\ b.hasGap = app.hasGap /\ b.incomplete = app.incomplete
        /\ b.floor = app.floor /\ b.recFloor = app.recFloor
    BY <1>1, <1>3, <1>4 DEF AppType
  <1>6. Sound(b, Visible, head, explained)
    BY <1>1, <1>2, <1>5, NewGeneration DEF WorldFacts
  <1>7. /\ UNCHANGED account /\ faults' = faults /\ announced' = 0
        /\ atRequest' \in BOOLEAN
        /\ explained' = IF reopen THEN {} ELSE explained
    BY DEF Restart
  <1>8. \A d, y : Ahead(d, Visible, 0) /\ Promised(d, y, 0)
    BY DEF Ahead, Promised
  <1>9. CASE ~reopen
    <2>1. app' = b /\ explained' = explained
      BY <1>2, <1>4, <1>7, <1>9 DEF Restart
    <2> QED
      BY <1>1, <1>6, <1>7, <1>8, <2>1, AppStep
  <1>10. CASE reopen
    <2>1. 0 \in OptLt /\ 0 <= head
      BY <1>1, HistoryAssumptions DEF OptLt, WorldFacts
    <2>2. PICK d : d = [b EXCEPT !.hasGap = TRUE, !.incomplete = FALSE,
                                 !.integrity = FALSE, !.floor = 0,
                                 !.recFloor = 0, !.risk = "none"]
      OBVIOUS
    <2>3. /\ d \in AppType /\ d.gen = b.gen /\ d.sub = b.sub
          /\ d.tasks = b.tasks /\ d.activity = b.activity
          /\ d.inFlight = b.inFlight /\ d.scan = b.scan
          /\ d.hasGap = TRUE /\ d.floor = 0 /\ d.recFloor = 0
      BY <1>5, <2>1, <2>2 DEF AppType
    <2>4. Sound(d, Visible, head, {})
      <3>1. Pool(d, Visible, head)
        BY <1>6, <2>3 DEF Sound, Pool
      <3>2. Fields(d, Visible, head)
        BY <1>6, <2>1, <2>3 DEF Sound, Fields
      <3>3. \A l \in Visible : l \in Nat
        BY <1>1 DEF WorldFacts
      <3>4. Trusted(d, Visible \ {})
        BY <2>3, <3>3 DEF Trusted, Below
      <3>5. ScanOK(d, Visible \ {})
        BY <1>5, <2>3 DEF ScanOK
      <3>6. Walks(d, Visible \ {})
        <4>1. \A w \in d.tasks : w.id # 0
          BY <3>1 DEF Pool, WalkOK
        <4> QED
          BY <1>5, <2>3, <4>1 DEF Walks, Current
      <3>7. Skips(d, {})
        BY <2>3 DEF Skips, Lts
      <3> QED
        BY <3>1, <3>2, <3>4, <3>5, <3>6, <3>7 DEF Sound
    <2>5. app' = d /\ explained' = {}
      BY <1>2, <1>4, <1>7, <1>10, <2>2 DEF Restart
    <2>6. {} \subseteq Lts
      OBVIOUS
    <2> QED
      BY <1>7, <1>8, <2>4, <2>5, <2>6, AppStep
  <1> QED
    BY <1>9, <1>10

(* A transfer is sent.                                                     *)
LEMMA SendStep ==
    ASSUME IInv, NEW lt \in 0..head, Send(lt)
    PROVE  IInv'
  <1>1. /\ app \in AppType /\ (app.sub = "failed" => app.gen < MaxGeneration)
        /\ WorldFacts /\ MaxLt \in Nat /\ Grace \in Nat
        /\ Sound(app, Visible, head, explained) /\ explained \subseteq Lts
    BY AppIsTyped, WorldGives, HistoryAssumptions DEF IInv, World
  <1>2. PICK k \in 0..head : k = Known(app)
    <2>1. app.activity \in SUBSET (1..head)
      BY <1>1 DEF Sound, Fields, WorldFacts
    <2> QED
      BY <1>1, <2>1, NewestFacts DEF Known, WorldFacts
  <1>3. PICK r \in OptLt : r = Larger(k, lt) /\ r <= head
    BY <1>1, <1>2 DEF Larger, OptLt, WorldFacts
  <1>0. head \in Nat /\ head <= MaxLt /\ MaxLt \in Nat /\ Grace \in Nat
    BY <1>1 DEF WorldFacts
  <1>4. PICK t \in OptCutoff : t = AtLeast0(head + 1 - Grace)
    <2>1. PICK i \in Int : i = head + 1 - Grace
      BY <1>0
    <2>2. i <= MaxLt + 1
      BY <1>0, <2>1
    <2>3. AtLeast0(i) \in 0..MaxLt + 1
      BY <1>0, <2>2 DEF AtLeast0
    <2> QED
      BY <2>1, <2>3 DEF OptCutoff
  <1>5. PICK b : b = [app EXCEPT !.blocking = TRUE, !.recFloor = r,
                                 !.timeFloor = t]
    OBVIOUS
  <1>6. /\ Alike(app, b) /\ b.recFloor = r
        /\ b.again = app.again /\ b.headAfter = app.headAfter
        /\ b.activity = app.activity
    BY <1>1, <1>5 DEF Alike, AppType
  <1>7. PICK y : y = explained \cup (k + 1 .. lt - 1)
    OBVIOUS
  <1>8. /\ app' = b /\ explained' = y /\ announced' = announced
        /\ UNCHANGED <<head, hidden, sent, faults, atRequest>>
    BY <1>2, <1>3, <1>4, <1>5, <1>7 DEF Send, Known
  <1>9. y \subseteq Lts
    <2>1. \A l \in k + 1 .. lt - 1 : l \in 1..MaxLt
      BY <1>0, <1>2
    <2> QED
      BY <1>1, <1>7, <2>1 DEF Lts
  <1>10. Skips(app, y)
    <2>1. app.activity \in SUBSET (1..head) /\ \A l \in app.activity : l <= k
      <3>1. app.activity \in SUBSET (1..head)
        BY <1>1 DEF Sound, Fields, WorldFacts
      <3> QED
        BY <1>1, <1>2, <3>1, NewestFacts DEF Known, WorldFacts
    <2>2. \A l \in k + 1 .. lt - 1 : l \notin app.activity
      BY <1>1, <1>2, <2>1 DEF WorldFacts
    <2> QED
      BY <1>1, <1>7, <2>2 DEF Sound, Skips
  <1>11. Sound(app, Visible, head, y)
    <2>1. Grows(Visible, head, explained, Visible, head, y)
      BY <1>1, <1>7 DEF Grows, WorldFacts
    <2> QED
      BY <1>1, <1>10, <2>1, GrowSound DEF WorldFacts
  <1>12. Skips(b, y)
    <2>1. Known(b) = k /\ y \cap b.activity = {}
      BY <1>2, <1>6, <1>10 DEF Known, Skips
    <2>2. ASSUME NEW l \in Lts, k < l, l < r PROVE l \in y
      <3>1. l \in k + 1 .. lt - 1
        BY <1>1, <1>2, <1>3, <2>2 DEF Larger, Lts, WorldFacts
      <3> QED
        BY <1>7, <3>1
    <2> QED
      BY <1>6, <2>1, <2>2 DEF Skips
  <1>13. Sound(b, Visible, head, y)
    BY <1>3, <1>6, <1>11, <1>12, FloorFrame
  <1>14. Ahead(b, Visible, announced)
    BY <1>6 DEF IInv, Ahead, Known
  <1>15. Promised(b, y, announced)
    <2>1. Promised(app, explained, announced) /\ explained \subseteq y
      BY <1>7 DEF IInv
    <2> QED
      BY <1>6, <2>1, PromisedFrame DEF Alike
  <1>16. Visible' = Visible
    BY <1>8 DEF Visible
  <1>17. World'
    <2>1. sends' \in 0..MaxSends
      BY HistoryAssumptions DEF Send, IInv, World
    <2> QED
      BY <1>8, <1>9, <2>1 DEF IInv, World
  <1> QED
    BY <1>8, <1>13, <1>14, <1>15, <1>16, <1>17 DEF IInv

-----------------------------------------------------------------------------
(* EndpointHistoryScanned.                                                 *)

(* The newest row of two sets is the newer of their newest ones.           *)
LEMMA NewestOfBoth ==
    ASSUME NEW h \in Nat, NEW S \in SUBSET (1..h), NEW T \in SUBSET (1..h)
    PROVE  /\ Newest(S \cup T) \in 0..h
           /\ Newest(S) <= Newest(S \cup T)
           /\ Newest(T) <= Newest(S \cup T)
           /\ Newest(S \cup T) = Newest(S) \/ Newest(S \cup T) = Newest(T)
  <1>1. S \cup T \in SUBSET (1..h) /\ S \in SUBSET (S \cup T) /\ T \in SUBSET (S \cup T)
    OBVIOUS
  <1>2. /\ Newest(S \cup T) \in 0..h
        /\ S \cup T = {} => Newest(S \cup T) = 0
        /\ S \cup T # {} => Newest(S \cup T) \in S \cup T
    BY <1>1, NewestFacts
  <1>3. Newest(S) <= Newest(S \cup T) /\ Newest(T) <= Newest(S \cup T)
    BY <1>1, NewestMonotone
  <1>4. /\ Newest(S) \in 0..h /\ (\A y \in S : y <= Newest(S))
        /\ Newest(T) \in 0..h /\ (\A y \in T : y <= Newest(T))
    BY NewestFacts
  <1>5. PICK i \in 0..h, j \in 0..h, k \in 0..h :
           i = Newest(S) /\ j = Newest(T) /\ k = Newest(S \cup T)
    BY <1>2, <1>4
  <1>6. k = 0 \/ k <= i \/ k <= j
    BY <1>2, <1>4, <1>5
  <1>7. k = i \/ k = j
    BY <1>3, <1>5, <1>6
  <1> QED
    BY <1>2, <1>3, <1>5, <1>7

\* What the report of walk w leaves in the controller's fields: only the scan
\* and the floors have changed, and the walk is now n.
Observes(a, w, n, b) ==
    /\ n = [w EXCEPT !.st = "observed"]
    /\ b \in AppType
    /\ b.tasks = (a.tasks \ {w}) \cup {n}
    /\ b.inFlight = a.inFlight /\ b.gen = a.gen /\ b.sub = a.sub
    /\ b.activity = a.activity
    /\ b.hasGap = a.hasGap /\ b.incomplete = a.incomplete
    /\ b.again = a.again /\ b.headAfter = a.headAfter
    /\ b.recFloor \in {0, a.recFloor}

(* A walk whose first report was taken is as it was.                       *)
LEMMA ObservedWalk ==
    ASSUME NEW V, NEW h, NEW w \in WalkType, WalkOK(w, V, h), w.st = "done",
           NEW n, n = [w EXCEPT !.st = "observed"]
    PROVE  /\ n \in WalkType /\ WalkOK(n, V, h) /\ n.st = "observed"
           /\ n.id = w.id /\ n.gen = w.gen /\ n.headOnly = w.headOnly
           /\ n.start = w.start /\ n.stop = w.stop /\ n.cutoff = w.cutoff
           /\ n.rows = w.rows /\ n.cont = w.cont /\ n.gap = w.gap
  <1>1. /\ n \in WalkType /\ n.st = "observed"
        /\ n.id = w.id /\ n.gen = w.gen /\ n.headOnly = w.headOnly
        /\ n.start = w.start /\ n.stop = w.stop /\ n.cutoff = w.cutoff
        /\ n.rows = w.rows /\ n.cont = w.cont /\ n.gap = w.gap
    BY DEF WalkType
  <1>2. WalkOK(n, V, h)
    BY <1>1 DEF WalkOK, Unread
  <1> QED
    BY <1>1, <1>2

(* A report keeps the invariant if the new scan and floor are sound.       *)
LEMMA ObservesSound ==
    ASSUME NEW h \in 0..MaxLt, NEW V \in SUBSET (1..h), NEW x, NEW a,
           Sound(a, V, h, x), NEW w \in a.tasks, w.st = "done",
           NEW n, NEW b, Observes(a, w, n, b), b.floor <= h,
           b.scan.rows \subseteq V, b.scan.next <= h, b.scan.stop <= h,
           b.scan # NoScan => b.scan.next # 0,
           Below(b, V \ x, b.floor), ScanOK(b, V \ x),
           Current(a, w),
           ~w.gap /\ w.headOnly => Head(b, n),
           ~w.gap => Reported(b, n, V \ x)
    PROVE  Sound(b, V, h, x)
  <1>1. a \in AppType /\ Fields(a, V, h) /\ Pool(a, V, h)
    BY DEF Sound, Fields
  <1>2. w \in WalkType /\ WalkOK(w, V, h)
    BY <1>1 DEF AppType, Pool
  <1>3. /\ n \in WalkType /\ WalkOK(n, V, h) /\ n.st = "observed"
        /\ n.id = w.id /\ n.gen = w.gen /\ n.headOnly = w.headOnly
        /\ n.start = w.start /\ n.stop = w.stop /\ n.cutoff = w.cutoff
        /\ n.rows = w.rows /\ n.cont = w.cont /\ n.gap = w.gap
    BY <1>2, ObservedWalk DEF Observes
  <1>4. /\ b \in AppType
        /\ b.tasks = (a.tasks \ {w}) \cup {n}
        /\ b.inFlight = a.inFlight /\ b.gen = a.gen /\ b.sub = a.sub
        /\ b.activity = a.activity
        /\ b.hasGap = a.hasGap /\ b.incomplete = a.incomplete
        /\ b.recFloor \in {0, a.recFloor}
    BY DEF Observes
  <1>5. Known(b) = Known(a) /\ \A L, s : Below(b, L, s) <=> Below(a, L, s)
    BY <1>4 DEF Known, Below
  <1>6. Pool(b, V, h)
    BY <1>1, <1>3, <1>4, ReplacePool
  <1>7. Fields(b, V, h)
    <2>1. 0 <= h
      OBVIOUS
    <2>2. b.recFloor <= h
      BY <1>1, <1>4, <2>1 DEF Fields
    <2> QED
      BY <1>1, <1>4, <2>2 DEF Fields
  <1>8. Trusted(b, V \ x)
    BY <1>4, <1>5 DEF Sound, Trusted
  <1>9. Walks(b, V \ x)
    <2> SUFFICES ASSUME NEW v \in b.tasks, Current(b, v), ~v.gap
                 PROVE  Walked(v, V \ x, Known(b)) /\ Placed(b, v, V \ x)
      BY DEF Walks
    <2>1. v = n
      <3>1. v.id = w.id
        BY <1>4 DEF Current
      <3> QED
        BY <1>1, <1>4, <3>1 DEF Pool
    <2>2. ~w.gap
      BY <1>3, <2>1
    <2>3. Walked(w, V \ x, Known(a)) /\ Placed(a, w, V \ x)
      BY <2>2 DEF Sound, Walks
    <2>4. \A c, L, k : WholeDownTo(n, c, L, k) <=> WholeDownTo(w, c, L, k)
      BY <1>3 DEF WholeDownTo, InReach
    <2>5. Walked(n, V \ x, Known(b))
      BY <1>3, <1>5, <2>3, <2>4 DEF Walked
    <2>6. ~Unread(n) /\ ~Unread(w)
      BY <1>3 DEF Unread
    <2>7. Placed(b, n, V \ x)
      BY <1>3, <1>5, <2>2, <2>3, <2>6 DEF Placed
    <2> QED
      BY <2>1, <2>5, <2>7
  <1>10. Skips(b, x)
    <2>1. Skips(a, x)
      BY DEF Sound
    <2>2. \A l \in Lts : ~(l < 0)
      BY DEF Lts
    <2> QED
      BY <1>4, <1>5, <2>1, <2>2 DEF Skips
  <1> QED
    BY <1>6, <1>7, <1>8, <1>9, <1>10 DEF Sound

(* The announced row is served by the reported walk as it was before.      *)
LEMMA ObservesPromised ==
    ASSUME NEW x, NEW y, x \subseteq y, NEW a, NEW w \in a.tasks,
           w \in WalkType, w.st = "done", NEW n, NEW b, Observes(a, w, n, b),
           NEW m, Promised(a, x, m),
           Current(a, w) /\ m # 0 /\ m \notin y /\ ~w.gap => ~(m < w.cutoff)
    PROVE  Promised(b, y, m)
  <1>1. /\ b.tasks = (a.tasks \ {w}) \cup {n}
        /\ b.inFlight = a.inFlight /\ b.gen = a.gen
        /\ b.hasGap = a.hasGap /\ b.incomplete = a.incomplete
        /\ b.again = a.again /\ b.headAfter = a.headAfter
        /\ n = [w EXCEPT !.st = "observed"]
    BY DEF Observes
  <1>2. /\ n.st = "observed" /\ n.id = w.id /\ n.gen = w.gen
        /\ n.start = w.start /\ n.rows = w.rows /\ n.gap = w.gap
    BY <1>1 DEF WalkType
  <1> SUFFICES ASSUME m # 0, m \notin y, ~b.again
               PROVE  IF b.inFlight = 0 THEN b.hasGap \/ b.incomplete
                      ELSE \E v \in b.tasks : Current(b, v) /\ Serves(b, v, m)
    BY DEF Promised
  <1>3. CASE b.inFlight = 0
    BY <1>1, <1>3 DEF Promised
  <1>4. CASE b.inFlight # 0
    <2>1. PICK v \in a.tasks : Current(a, v) /\ Serves(a, v, m)
      BY <1>1, <1>4 DEF Promised
    <2>2. CASE v # w
      <3>1. Current(b, v) /\ Serves(b, v, m)
        BY <1>1, <2>1 DEF Current, Serves
      <3> QED
        BY <1>1, <1>4, <2>2, <3>1
    <2>3. CASE v = w
      <3>1. Current(b, n)
        BY <1>1, <1>2, <2>1, <2>3 DEF Current
      <3>2. ~Unread(w)
        BY DEF Unread
      <3>3. Serves(b, n, m)
        BY <1>1, <1>2, <2>1, <2>3, <3>2 DEF Serves
      <3> QED
        BY <1>1, <1>4, <3>1, <3>3
    <2> QED
      BY <2>2, <2>3
  <1> QED
    BY <1>3, <1>4

\* The current walk w came to its end without a gap; L are the rows that must
\* be accounted for once the rows below its age cutoff are explained.
Finished(a, w, V, h, L) ==
    /\ h \in Nat /\ V \subseteq 1..h /\ L \subseteq V
    /\ Fields(a, V, h)
    /\ w \in WalkType /\ WalkOK(w, V, h) /\ w.st = "done"
    /\ w \in a.tasks /\ Current(a, w)
    /\ Walked(w, L, Known(a)) /\ Placed(a, w, L)
    /\ ScanOK(a, L) /\ Trusted(a, L)
    /\ \A l \in L : l < w.cutoff => l \in a.activity
    /\ a.scan # NoScan => \A l \in L : l \in a.scan.rows => l \in a.activity

\* The scan as the report of w leaves it.
ScanReported(b, n, V, h, L) ==
    /\ b.scan.rows \subseteq V
    /\ b.scan.next <= h /\ b.scan.stop <= h
    /\ b.scan # NoScan => b.scan.next # 0
    /\ ScanOK(b, L)
    /\ n.headOnly => Head(b, n)
    /\ Reported(b, n, L)

(* The numbers of a finished walk and of the controller that takes its     *)
(* report are rows of the account.                                         *)
LEMMA FinishedFacts ==
    ASSUME NEW h, NEW V, NEW L, NEW a, NEW w, Finished(a, w, V, h, L)
    PROVE  /\ w.rows \in SUBSET (1..h) /\ a.scan.rows \in SUBSET (1..h)
           /\ a.activity \in SUBSET (1..h)
           /\ Known(a) \in 0..h /\ Newest(w.rows) \in 0..h
           /\ Newest(a.scan.rows) \in 0..h
           /\ \A l \in a.activity : l <= Known(a)
           /\ \A l \in L : l \in 1..h
           /\ w.start \in 0..h /\ w.stop \in 0..h /\ w.cutoff \in Nat
           /\ a.scan.next \in 0..h /\ a.scan.stop \in 0..h
           /\ w.cont # 0 => w.cont \in 1..h
           /\ ~Unread(w)
  <1>1. /\ h \in Nat /\ V \subseteq 1..h /\ L \subseteq V /\ Fields(a, V, h)
        /\ w \in WalkType /\ WalkOK(w, V, h) /\ w.st = "done" /\ MaxLt \in Nat
    BY HistoryAssumptions DEF Finished
  <1>2. /\ w.rows \in SUBSET (1..h) /\ a.scan.rows \in SUBSET (1..h)
        /\ a.activity \in SUBSET (1..h)
    BY <1>1 DEF WalkOK, Fields
  <1>3. /\ Known(a) \in 0..h /\ Newest(w.rows) \in 0..h
        /\ Newest(a.scan.rows) \in 0..h
        /\ \A l \in a.activity : l <= Known(a)
    BY <1>1, <1>2, NewestFacts DEF Known
  <1>4. w.start \in 0..h /\ w.stop \in 0..h /\ w.cutoff \in Nat
    BY <1>1 DEF WalkOK, WalkType, OptLt, OptCutoff
  <1>5. a.scan.next \in 0..h /\ a.scan.stop \in 0..h
    BY <1>1 DEF Fields, AppType, ScanType, OptLt
  <1>6. w.cont # 0 => w.cont \in 1..h
    BY <1>1, <1>2 DEF WalkOK
  <1> QED
    BY <1>1, <1>2, <1>3, <1>4, <1>5, <1>6 DEF Unread

(* What the first report of a walk leaves alone.                           *)
LEMMA ObservedFields ==
    ASSUME NEW h, NEW V, NEW L, NEW a, NEW w, Finished(a, w, V, h, L),
           NEW n, NEW b, Observes(a, w, n, b)
    PROVE  /\ n \in b.tasks /\ n.id = b.inFlight /\ n.st = "observed"
           /\ n.rows = w.rows /\ n.stop = w.stop /\ n.headOnly = w.headOnly
           /\ Known(b) = Known(a) /\ b.activity = a.activity
           /\ \A s : Below(b, L, s) <=> Below(a, L, s)
  <1>1. w \in WalkType /\ WalkOK(w, V, h) /\ w.st = "done" /\ Current(a, w)
    BY DEF Finished
  <1>2. /\ n = [w EXCEPT !.st = "observed"] /\ b.activity = a.activity
        /\ n \in b.tasks /\ b.inFlight = a.inFlight
    BY DEF Observes
  <1>3. /\ n.st = "observed" /\ n.id = w.id /\ n.headOnly = w.headOnly
        /\ n.stop = w.stop /\ n.rows = w.rows
    BY <1>1, <1>2, ObservedWalk
  <1>4. Known(b) = Known(a) /\ \A s : Below(b, L, s) <=> Below(a, L, s)
    BY <1>2 DEF Known, Below
  <1> QED
    BY <1>1, <1>2, <1>3, <1>4 DEF Current

(* A refresh of the head leaves the retained scan without a hole.          *)
LEMMA HeadReport ==
    ASSUME NEW h, NEW V, NEW L, NEW a, NEW w, Finished(a, w, V, h, L),
           w.headOnly, NEW n, NEW b, Observes(a, w, n, b),
           b.scan.rows = a.scan.rows \cup w.rows,
           b.scan.stop = a.scan.stop,
           b.scan.next = IF w.cont # 0 THEN w.cont ELSE a.scan.next
    PROVE  ScanReported(b, n, V, h, L)
  <1>1. /\ h \in Nat /\ L \subseteq V /\ Fields(a, V, h) /\ WalkOK(w, V, h)
        /\ w.st = "done" /\ Walked(w, L, Known(a)) /\ Placed(a, w, L)
        /\ ScanOK(a, L) /\ (\A l \in L : l < w.cutoff => l \in a.activity)
        /\ (a.scan # NoScan => \A l \in L : l \in a.scan.rows => l \in a.activity)
    BY DEF Finished
  <1>2. /\ w.rows \in SUBSET (1..h) /\ a.scan.rows \in SUBSET (1..h)
        /\ Known(a) \in 0..h /\ Newest(w.rows) \in 0..h
        /\ Newest(a.scan.rows) \in 0..h
        /\ (\A l \in a.activity : l <= Known(a))
        /\ (\A l \in L : l \in 1..h)
        /\ w.stop \in 0..h /\ w.cutoff \in Nat
        /\ a.scan.next \in 0..h /\ a.scan.stop \in 0..h
        /\ (w.cont # 0 => w.cont \in 1..h)
        /\ ~Unread(w)
    BY FinishedFacts
  <1>3. /\ n \in b.tasks /\ n.id = b.inFlight /\ n.st = "observed"
        /\ n.rows = w.rows /\ n.stop = w.stop /\ n.headOnly = w.headOnly
        /\ Known(b) = Known(a) /\ b.activity = a.activity
        /\ \A s : Below(b, L, s) <=> Below(a, L, s)
    BY ObservedFields
  <1>4. /\ a.scan # NoScan /\ w.stop = Known(a)
        /\ Newest(a.scan.rows) <= Newest(w.rows)
    BY <1>1, <1>2 DEF Placed, Head
  <1>5. PICK i \in 0..h, j \in 0..h, k \in 0..h :
           i = Newest(a.scan.rows) /\ j = Newest(w.rows) /\ k = Known(a)
    BY <1>2
  <1>6. /\ (\A l \in L : a.scan.next <= l /\ l <= i => l \in a.scan.rows)
        /\ k <= i /\ i <= j /\ Below(a, L, a.scan.stop)
    BY <1>1, <1>4, <1>5 DEF ScanOK
  <1>7. Newest(b.scan.rows) = j
    <2>1. PICK u \in 0..h : u = Newest(a.scan.rows \cup w.rows)
      BY <1>1, <1>2, NewestOfBoth
    <2>2. j <= u /\ (u = i \/ u = j)
      BY <1>1, <1>2, <1>5, <2>1, NewestOfBoth
    <2> QED
      BY <1>6, <2>1, <2>2
  <1>8. b.scan.next # 0 /\ b.scan.next <= h /\ b.scan.stop <= h
    BY <1>1, <1>2, <1>4 DEF Fields
  <1>9. b.scan # NoScan
    BY <1>8 DEF NoScan
  <1>10. ASSUME NEW l \in L, b.scan.next <= l, l <= j
         PROVE  l \in b.scan.rows
    <2>0. l \in 1..h
      BY <1>2
    <2>1. CASE w.cont # 0
      <3>1. WholeDownTo(w, w.cont, L, Known(a))
        BY <1>1, <2>1 DEF Walked
      <3>2. InReach(w, l, Known(a))
        BY <1>5, <1>10 DEF InReach
      <3> QED
        BY <1>10, <2>1, <3>1, <3>2 DEF WholeDownTo
    <2>2. CASE w.cont = 0 /\ l <= i
      BY <1>6, <1>10, <2>2
    <2>3. CASE w.cont = 0 /\ ~(l <= i)
      <3>1. WholeDownTo(w, Larger(w.stop, w.cutoff), L, Known(a))
        BY <1>1, <2>3 DEF Walked
      <3>2. InReach(w, l, Known(a))
        BY <1>5, <1>10 DEF InReach
      <3>3. k < l
        BY <1>6, <2>0, <2>3
      <3>4. ~(l < w.cutoff)
        BY <1>1, <1>2, <1>5, <2>0, <3>3
      <3>5. Larger(w.stop, w.cutoff) <= l
        BY <1>2, <1>4, <1>5, <2>0, <3>3, <3>4 DEF Larger
      <3> QED
        BY <3>1, <3>2, <3>5 DEF WholeDownTo
    <2> QED
      BY <2>1, <2>2, <2>3
  <1>11. ASSUME NEW l \in L, l \in b.scan.rows
         PROVE  \/ l \in b.activity
                \/ \E v \in b.tasks : /\ v.id = b.inFlight
                                      /\ v.st = "observed"
                                      /\ l \in v.rows
    BY <1>1, <1>3, <1>4, <1>11
  <1>12. ScanOK(b, L)
    <2>1. Known(b) <= Newest(b.scan.rows)
      BY <1>3, <1>5, <1>6, <1>7
    <2>2. Below(b, L, b.scan.stop)
      BY <1>3, <1>6
    <2>3. \A l \in L : b.scan.next <= l /\ l <= Newest(b.scan.rows)
                         => l \in b.scan.rows
      BY <1>7, <1>10
    <2> QED
      BY <1>11, <2>1, <2>2, <2>3 DEF ScanOK
  <1>13. Head(b, n)
    BY <1>3, <1>4, <1>5, <1>7, <1>9 DEF Head
  <1>14. Reported(b, n, L)
    BY <1>3, <1>9 DEF Reported
  <1>15. b.scan.rows \subseteq V
    BY <1>1 DEF Fields, WalkOK
  <1> QED
    BY <1>8, <1>12, <1>13, <1>14, <1>15 DEF ScanReported

(* Neither does a continuation, or a first walk, that ran out of pages.    *)
LEMMA RetainReport ==
    ASSUME NEW h, NEW V, NEW L, NEW a, NEW w, Finished(a, w, V, h, L),
           ~w.headOnly, w.cont # 0, NEW n, NEW b, Observes(a, w, n, b),
           b.scan.rows = a.scan.rows \cup w.rows,
           b.scan.stop = w.stop, b.scan.next = w.cont
    PROVE  ScanReported(b, n, V, h, L)
  <1>1. /\ h \in Nat /\ L \subseteq V /\ Fields(a, V, h) /\ WalkOK(w, V, h)
        /\ w.st = "done" /\ Walked(w, L, Known(a)) /\ Placed(a, w, L)
        /\ ScanOK(a, L)
        /\ (a.scan # NoScan => \A l \in L : l \in a.scan.rows => l \in a.activity)
    BY DEF Finished
  <1>2. /\ w.rows \in SUBSET (1..h) /\ a.scan.rows \in SUBSET (1..h)
        /\ Known(a) \in 0..h /\ Newest(w.rows) \in 0..h
        /\ Newest(a.scan.rows) \in 0..h
        /\ (\A l \in L : l \in 1..h)
        /\ w.start \in 0..h /\ w.stop \in 0..h
        /\ a.scan.next \in 0..h
        /\ (w.cont # 0 => w.cont \in 1..h)
        /\ ~Unread(w)
    BY FinishedFacts
  <1>3. /\ n \in b.tasks /\ n.id = b.inFlight /\ n.st = "observed"
        /\ n.rows = w.rows /\ n.stop = w.stop /\ n.headOnly = w.headOnly
        /\ Known(b) = Known(a) /\ b.activity = a.activity
        /\ \A s : Below(b, L, s) <=> Below(a, L, s)
    BY ObservedFields
  <1>4. Joins(a, w) /\ Below(a, L, w.stop)
    BY <1>1 DEF Placed
  <1>5. PICK i \in 0..h, j \in 0..h, k \in 0..h :
           i = Newest(a.scan.rows) /\ j = Newest(w.rows) /\ k = Known(a)
    BY <1>2
  <1>6. PICK u \in 0..h : u = Newest(b.scan.rows)
    BY <1>1, <1>2, NewestOfBoth
  <1>7. i <= u /\ j <= u /\ (u = i \/ u = j)
    BY <1>1, <1>2, <1>5, <1>6, NewestOfBoth
  <1>8. a.scan = NoScan => a.scan.rows = {} /\ i = 0
    BY <1>5 DEF NoScan, Newest
  <1>9. WholeDownTo(w, w.cont, L, Known(a))
    BY <1>1 DEF Walked
  <1>10. b.scan.next # 0 /\ b.scan.next <= h /\ b.scan.stop <= h /\ b.scan # NoScan
    <2>1. b.scan.next # 0 /\ b.scan.next <= h /\ b.scan.stop <= h
      BY <1>1, <1>2
    <2> QED
      BY <2>1 DEF NoScan
  <1>11. k <= u
    <2>1. CASE w.start = 0
      <3>1. k <= j
        BY <1>1, <1>2, <1>5, <2>1 DEF Placed
      <3> QED
        BY <1>7, <3>1
    <2>2. CASE w.start # 0
      <3>1. k <= i
        BY <1>1, <1>4, <1>5, <2>2 DEF Joins, ScanOK
      <3> QED
        BY <1>7, <3>1
    <2> QED
      BY <2>1, <2>2
  <1>12. ASSUME NEW l \in L, w.cont <= l, l <= u
         PROVE  l \in b.scan.rows
    <2>0. l \in 1..h
      BY <1>2
    <2>1. CASE InReach(w, l, Known(a))
      BY <1>9, <1>12, <2>1 DEF WholeDownTo
    <2>2. CASE ~InReach(w, l, Known(a))
      <3>1. ~(l <= j)
        BY <1>5, <2>2 DEF InReach
      <3>2. l <= i
        BY <1>7, <1>12, <3>1
      <3>3. a.scan # NoScan
        BY <1>8, <2>0, <3>2
      <3>4. w.start # 0 /\ a.scan.next = w.start
        BY <1>4, <3>3 DEF Joins
      <3>5. ~(l < w.start)
        BY <2>2, <3>4 DEF InReach
      <3>6. a.scan.next <= l
        BY <1>2, <2>0, <3>4, <3>5
      <3> QED
        BY <1>1, <1>5, <3>2, <3>3, <3>6 DEF ScanOK
    <2> QED
      BY <2>1, <2>2
  <1>13. ASSUME NEW l \in L, l \in b.scan.rows
         PROVE  \/ l \in b.activity
                \/ \E v \in b.tasks : /\ v.id = b.inFlight
                                      /\ v.st = "observed"
                                      /\ l \in v.rows
    BY <1>1, <1>3, <1>8, <1>13
  <1>14. ScanOK(b, L)
    <2>1. Known(b) <= Newest(b.scan.rows)
      BY <1>3, <1>5, <1>6, <1>11
    <2>2. Below(b, L, b.scan.stop)
      BY <1>3, <1>4
    <2>3. \A l \in L : b.scan.next <= l /\ l <= Newest(b.scan.rows)
                         => l \in b.scan.rows
      BY <1>6, <1>12
    <2> QED
      BY <1>13, <2>1, <2>2, <2>3 DEF ScanOK
  <1>15. Reported(b, n, L)
    BY <1>3, <1>10 DEF Reported
  <1>16. b.scan.rows \subseteq V
    BY <1>1 DEF Fields, WalkOK
  <1> QED
    BY <1>3, <1>10, <1>14, <1>15, <1>16 DEF ScanReported

(* At the end of a scan its oldest row is a floor to be trusted.           *)
LEMMA CompleteReport ==
    ASSUME NEW h, NEW V, NEW L, NEW a, NEW w, Finished(a, w, V, h, L),
           ~w.headOnly, w.cont = 0, NEW n, NEW b, Observes(a, w, n, b),
           b.scan = NoScan,
           b.floor = LowerFloor(a.floor, Oldest(a.scan.rows \cup w.rows))
    PROVE  /\ ScanReported(b, n, V, h, L)
           /\ b.floor <= h
           /\ Below(b, L, b.floor)
  <1>1. /\ h \in Nat /\ L \subseteq V /\ Fields(a, V, h) /\ WalkOK(w, V, h)
        /\ w.st = "done" /\ Walked(w, L, Known(a)) /\ Placed(a, w, L)
        /\ ScanOK(a, L) /\ Trusted(a, L)
        /\ (\A l \in L : l < w.cutoff => l \in a.activity)
        /\ (a.scan # NoScan => \A l \in L : l \in a.scan.rows => l \in a.activity)
    BY DEF Finished
  <1>2. /\ w.rows \in SUBSET (1..h) /\ a.scan.rows \in SUBSET (1..h)
        /\ Known(a) \in 0..h /\ Newest(w.rows) \in 0..h
        /\ Newest(a.scan.rows) \in 0..h
        /\ (\A l \in L : l \in 1..h)
        /\ w.start \in 0..h /\ w.stop \in 0..h /\ w.cutoff \in Nat
        /\ a.scan.next \in 0..h
    BY FinishedFacts
  <1>3. /\ n \in b.tasks /\ n.id = b.inFlight /\ n.st = "observed"
        /\ n.rows = w.rows /\ n.stop = w.stop /\ n.headOnly = w.headOnly
        /\ Known(b) = Known(a) /\ b.activity = a.activity
        /\ \A s : Below(b, L, s) <=> Below(a, L, s)
    BY ObservedFields
  <1>4. Joins(a, w) /\ Below(a, L, w.stop)
    BY <1>1 DEF Placed
  <1>5. WholeDownTo(w, Larger(w.stop, w.cutoff), L, Known(a))
    BY <1>1 DEF Walked
  <1>6. ASSUME NEW l \in L, InReach(w, l, Known(a))
        PROVE  l \in a.activity \/ l \in w.rows
    <2>1. CASE l < w.stop
      BY <1>4, <2>1 DEF Below
    <2>2. CASE l < w.cutoff
      BY <1>1, <2>2
    <2>3. CASE ~(l < w.stop) /\ ~(l < w.cutoff)
      <3>1. Larger(w.stop, w.cutoff) <= l
        BY <1>2, <2>3 DEF Larger
      <3> QED
        BY <1>5, <1>6, <3>1 DEF WholeDownTo
    <2> QED
      BY <2>1, <2>2, <2>3
  <1>7. Reported(b, n, L)
    <2> SUFFICES ASSUME NEW l \in L, l <= Known(a) \/ l <= Newest(w.rows)
                 PROVE  l \in a.activity \/ l \in w.rows
      BY <1>3 DEF Reported
    <2>0. l \in 1..h
      BY <1>2
    <2>1. CASE InReach(w, l, Known(a))
      BY <1>6, <2>1
    <2>2. CASE ~InReach(w, l, Known(a))
      <3>1. l <= Known(a) /\ w.start # 0 /\ ~(l < w.start)
        BY <2>2 DEF InReach
      <3>2. a.scan # NoScan /\ a.scan.next = w.start
        BY <1>4, <3>1 DEF Joins
      <3>3. Known(a) <= Newest(a.scan.rows)
        BY <1>1, <3>2 DEF ScanOK
      <3>4. a.scan.next <= l /\ l <= Newest(a.scan.rows)
        BY <1>2, <2>0, <3>1, <3>2, <3>3
      <3>5. l \in a.scan.rows
        BY <1>1, <3>2, <3>4 DEF ScanOK
      <3> QED
        BY <1>1, <3>2, <3>5
    <2> QED
      BY <2>1, <2>2
  <1>8. PICK R \in SUBSET (1..h) : R = a.scan.rows \cup w.rows
    BY <1>2
  <1>9. PICK o \in 0..h : o = Oldest(R)
    BY <1>1, <1>8, OldestFacts
  <1>10. /\ \A y \in R : o <= y
         /\ R = {} => o = 0
    BY <1>1, <1>8, <1>9, OldestFacts
  <1>11. Below(a, L, o)
    <2> SUFFICES ASSUME NEW l \in L, l < o PROVE l \in a.activity
      BY DEF Below
    <2>0. l \in 1..h /\ l \notin R
      <3>1. l \in 1..h
        BY <1>2
      <3> QED
        BY <1>10, <3>1
    <2>1. R # {}
      BY <1>10, <2>0
    <2>2. InReach(w, l, Known(a)) => l \in a.activity
      BY <1>6, <1>8, <2>0
    <2>3. CASE w.rows # {}
      <3>1. PICK y \in w.rows : y <= Newest(w.rows) /\ y \in R
        BY <1>1, <1>2, <1>8, <2>3, NewestFacts
      <3>2. l <= Newest(w.rows)
        BY <1>2, <1>8, <1>10, <2>0, <3>1
      <3> QED
        BY <2>2, <3>2 DEF InReach
    <2>4. CASE w.rows = {}
      <3>1. PICK y \in a.scan.rows : y <= Newest(a.scan.rows) /\ y \in R
        BY <1>1, <1>2, <1>8, <2>1, <2>4, NewestFacts
      <3>2. l <= Newest(a.scan.rows)
        BY <1>2, <1>8, <1>10, <2>0, <3>1
      <3>3. a.scan # NoScan
        BY <3>1 DEF NoScan
      <3>4. ~(a.scan.next <= l)
        BY <1>1, <1>8, <2>0, <3>2, <3>3 DEF ScanOK
      <3>5. w.start # 0 /\ l < w.start
        BY <1>2, <1>4, <2>0, <3>3, <3>4 DEF Joins
      <3> QED
        BY <2>2, <3>5 DEF InReach
    <2> QED
      BY <2>3, <2>4
  <1>12. b.floor \in {a.floor, o}
    <2>1. a.floor \in 0..h
      BY <1>1, HistoryAssumptions DEF Fields, AppType, OptLt
    <2>2. {a.floor, o} \in SUBSET Nat /\ {a.floor, o} # {}
      BY <2>1
    <2>3. Min({a.floor, o}) \in {a.floor, o}
      BY <2>2, MinOfRows
    <2> QED
      BY <1>8, <1>9, <2>3 DEF LowerFloor
  <1>13. b.floor <= h
    BY <1>1, <1>9, <1>12 DEF Fields
  <1>14. Below(b, L, b.floor)
    BY <1>1, <1>3, <1>11, <1>12 DEF Trusted
  <1>15. ScanReported(b, n, V, h, L)
    <2>1. b.scan.rows = {} /\ b.scan.next = 0 /\ b.scan.stop = 0 /\ 0 <= h
      BY <1>1 DEF NoScan
    <2>2. ScanOK(b, L)
      BY DEF ScanOK
    <2> QED
      BY <1>3, <1>7, <2>1, <2>2 DEF ScanReported
  <1> QED
    BY <1>13, <1>14, <1>15

(* The rows below the age cutoff of a finished walk are explained.         *)
LEMMA CurrentFinished ==
    ASSUME IInv, NEW w \in app.tasks, w.st = "done", Current(app, w), ~w.gap,
           NEW y, y = explained \cup ((1..w.cutoff - 1) \ app.activity)
    PROVE  /\ y \subseteq Lts
           /\ Sound(app, Visible, head, y)
           /\ Finished(app, w, Visible, head, Visible \ y)
  <1>1. /\ WorldFacts /\ Sound(app, Visible, head, explained)
        /\ explained \subseteq Lts /\ MaxLt \in Nat
    BY WorldGives, HistoryAssumptions DEF IInv, World
  <1>2. /\ Fields(app, Visible, head) /\ Pool(app, Visible, head)
        /\ app \in AppType /\ Skips(app, explained)
    BY <1>1 DEF Sound, Fields
  <1>3. w \in WalkType /\ WalkOK(w, Visible, head)
    BY <1>2 DEF AppType, Pool
  <1>4. w.cutoff \in 0..MaxLt + 1
    BY <1>3 DEF WalkType, OptCutoff
  <1>5. y \subseteq Lts
    <2>1. \A l \in 1..w.cutoff - 1 : l \in 1..MaxLt
      BY <1>1, <1>4
    <2> QED
      BY <1>1, <2>1 DEF Lts
  <1>6. Skips(app, y)
    BY <1>2 DEF Skips
  <1>7. Sound(app, Visible, head, y)
    <2>1. Grows(Visible, head, explained, Visible, head, y)
      BY <1>1 DEF Grows, WorldFacts
    <2> QED
      BY <1>1, <1>6, <2>1, GrowSound DEF WorldFacts
  <1>8. ASSUME NEW l \in Visible \ y, l < w.cutoff PROVE l \in app.activity
    <2>1. l \in 1..w.cutoff - 1
      BY <1>1, <1>4, <1>8 DEF WorldFacts
    <2> QED
      BY <2>1
  <1>9. ASSUME app.scan # NoScan, NEW l \in Visible \ y, l \in app.scan.rows
        PROVE  l \in app.activity
    <2>1. \A v \in app.tasks : v.id = app.inFlight => v.st # "observed"
      BY <1>2 DEF Pool, Current
    <2> QED
      BY <1>7, <1>9, <2>1 DEF Sound, ScanOK
  <1>10. Walked(w, Visible \ y, Known(app)) /\ Placed(app, w, Visible \ y)
    BY <1>7 DEF Sound, Walks
  <1>11. ScanOK(app, Visible \ y) /\ Trusted(app, Visible \ y)
    BY <1>7 DEF Sound
  <1>12. /\ head \in Nat /\ Visible \subseteq 1..head
         /\ Visible \ y \subseteq Visible
    BY <1>1 DEF WorldFacts
  <1> QED
    BY <1>2, <1>3, <1>5, <1>7, <1>8, <1>9, <1>10, <1>11, <1>12 DEF Finished

(* The invariant from its parts, after the first report of a walk.         *)
LEMMA ScannedStep ==
    ASSUME IInv, UNCHANGED <<sends, head, hidden, faults, announced>>,
           sent' \in {0, sent}, atRequest' \in BOOLEAN,
           NEW b, app' = b, NEW y, explained' = y, y \subseteq Lts,
           b.activity = app.activity,
           Sound(b, Visible, head, y), Promised(b, y, announced)
    PROVE  IInv'
  <1>1. Visible' = Visible
    BY DEF Visible
  <1>2. World'
    <2>1. 0 \in 0..head
      BY WorldGives DEF IInv, WorldFacts
    <2> QED
      BY <2>1 DEF IInv, World
  <1>3. Ahead(b, Visible, announced)
    BY DEF IInv, Ahead, Known
  <1> QED
    BY <1>1, <1>2, <1>3 DEF IInv

(* The first report of a walk, to the Journal and to the retained scan.    *)
LEMMA EndpointHistoryScannedStep ==
    ASSUME IInv, NEW w \in app.tasks, EndpointHistoryScanned(w)
    PROVE  IInv'
  <1>1. /\ WorldFacts /\ Sound(app, Visible, head, explained)
        /\ Promised(app, explained, announced)
        /\ explained \subseteq Lts /\ Ahead(app, Visible, announced)
    BY WorldGives DEF IInv, World
  <1>2. /\ Fields(app, Visible, head) /\ Pool(app, Visible, head)
        /\ app \in AppType /\ w.st = "done"
    BY <1>1 DEF Sound, Fields, EndpointHistoryScanned
  <1>3. w \in WalkType /\ WalkOK(w, Visible, head)
    BY <1>2 DEF AppType, Pool
  <1>4. PICK n : n = [w EXCEPT !.st = "observed"]
    OBVIOUS
  <1>5. /\ n \in WalkType /\ WalkOK(n, Visible, head)
        /\ n.id = w.id /\ n.gen = w.gen /\ n.gap = w.gap
        /\ n.headOnly = w.headOnly
    BY <1>2, <1>3, <1>4, ObservedWalk
  <1>6. PICK a : a = Replace(app, w, n)
    OBVIOUS
  <1>7. /\ a \in AppType
        /\ a.tasks = (app.tasks \ {w}) \cup {n}
        /\ a.inFlight = app.inFlight
        /\ a.gen = app.gen /\ a.sub = app.sub /\ a.again = app.again
        /\ a.headAfter = app.headAfter /\ a.scan = app.scan
        /\ a.activity = app.activity /\ a.incomplete = app.incomplete
        /\ a.hasGap = app.hasGap /\ a.floor = app.floor
        /\ a.recFloor = app.recFloor
    BY <1>2, <1>5, <1>6, ReplaceFields
  <1>8. /\ UNCHANGED <<sends, head, hidden, faults, announced>>
        /\ sent' \in {0, sent} /\ atRequest' \in BOOLEAN
    BY DEF EndpointHistoryScanned
  <1>9. Current(app, w) <=> Mine(app, w)
    BY DEF Current, Mine
  <1>10. NoScan \in ScanType
    BY HistoryAssumptions DEF NoScan, ScanType, OptLt, OptCutoff
  <1>11. CASE ~Mine(app, w)
    <2>1. app' = a /\ explained' = explained
      BY <1>4, <1>6, <1>11 DEF EndpointHistoryScanned
    <2>2. Sound(a, Visible, head, explained)
      BY <1>1, <1>2, <1>5, <1>6, <1>9, <1>11, ReplaceSound
    <2>3. Observes(app, w, n, a)
      BY <1>4, <1>7 DEF Observes
    <2>4. Promised(a, explained, announced)
      BY <1>1, <1>2, <1>3, <1>9, <1>11, <2>3, ObservesPromised
    <2> QED
      BY <1>1, <1>7, <1>8, <2>1, <2>2, <2>4, ScannedStep
  <1>12. CASE Mine(app, w) /\ w.gap
    <2>1. PICK b : b = [a EXCEPT !.scan = NoScan]
      OBVIOUS
    <2>2. app' = b /\ explained' = explained
      BY <1>4, <1>6, <1>12, <2>1 DEF EndpointHistoryScanned
    <2>3. /\ Observes(app, w, n, b) /\ b.scan = NoScan /\ b.floor = app.floor
          /\ b.activity = app.activity
      BY <1>4, <1>7, <1>10, <2>1 DEF Observes, AppType
    <2>4. Sound(b, Visible, head, explained)
      <3>1. b.scan.rows = {} /\ b.scan.next = 0 /\ b.scan.stop = 0 /\ 0 <= head
        BY <1>1, <2>3 DEF NoScan, WorldFacts
      <3>2. ScanOK(b, Visible \ explained)
        BY <2>3 DEF ScanOK
      <3>3. b.floor <= head /\ Below(b, Visible \ explained, b.floor)
        BY <1>1, <1>2, <2>3 DEF Fields, Sound, Trusted, Below
      <3>4. b.scan.rows \subseteq Visible /\ b.scan.next <= head /\ b.scan.stop <= head
        BY <3>1
      <3>5. Current(app, w) /\ w.gap
        BY <1>9, <1>12
      <3> QED
        BY <1>1, <1>2, <2>3, <3>2, <3>3, <3>4, <3>5, ObservesSound DEF WorldFacts
    <2>5. Promised(b, explained, announced)
      BY <1>1, <1>2, <1>3, <1>12, <2>3, ObservesPromised
    <2> QED
      BY <1>1, <1>8, <2>2, <2>3, <2>4, <2>5, ScannedStep
  <1>13. CASE Mine(app, w) /\ ~w.gap
    <2>1. PICK y : y = explained \cup ((1..w.cutoff - 1) \ app.activity)
      OBVIOUS
    <2>2. /\ y \subseteq Lts
          /\ Sound(app, Visible, head, y)
          /\ Finished(app, w, Visible, head, Visible \ y)
          /\ explained' = y /\ Current(app, w)
      BY <1>2, <1>9, <1>13, <2>1, CurrentFinished DEF EndpointHistoryScanned
    <2>3. ASSUME NEW b, Observes(app, w, n, b), app' = b,
                 ScanReported(b, n, Visible, head, Visible \ y),
                 b.floor <= head, Below(b, Visible \ y, b.floor)
          PROVE  IInv'
      <3>1. Sound(b, Visible, head, y)
        <4>1. /\ b.scan.rows \subseteq Visible
              /\ b.scan.next <= head /\ b.scan.stop <= head
              /\ b.scan # NoScan => b.scan.next # 0
              /\ ScanOK(b, Visible \ y)
              /\ w.headOnly => Head(b, n)
              /\ Reported(b, n, Visible \ y)
          BY <1>5, <2>3 DEF ScanReported
        <4> QED
          BY <1>1, <1>2, <2>2, <2>3, <4>1, ObservesSound DEF WorldFacts
      <3>2. Promised(b, y, announced)
        <4>1. ASSUME announced # 0, announced \notin y
              PROVE  ~(announced < w.cutoff)
          <5>1. announced \in Visible /\ announced \notin app.activity
            <6>1. announced \in Visible /\ Known(app) < announced
              BY <1>1, <4>1 DEF Ahead
            <6>2. app.activity \in SUBSET (1..head) /\ head \in Nat
              BY <1>1, <1>2 DEF Fields, WorldFacts
            <6>3. announced \in app.activity => announced <= Known(app)
              BY <6>2, NewestFacts DEF Known
            <6>4. Known(app) \in 0..head
              BY <6>2, NewestFacts DEF Known
            <6>5. announced \in 1..head
              BY <1>1, <6>1 DEF WorldFacts
            <6>6. ~(announced <= Known(app))
              BY <6>1, <6>4, <6>5
            <6> QED
              BY <6>1, <6>3, <6>6
          <5> QED
            BY <2>2, <4>1, <5>1 DEF Finished
        <4> QED
          BY <1>1, <1>2, <1>3, <2>1, <2>3, <4>1, ObservesPromised
      <3>3. b.activity = app.activity
        BY <2>3 DEF Observes
      <3> QED
        BY <1>8, <2>2, <2>3, <3>1, <3>2, <3>3, ScannedStep
    <2>4. a.floor <= head /\ Below(a, Visible \ y, a.floor)
      BY <1>2, <1>7, <2>2 DEF Fields, Sound, Trusted, Below
    <2>8. ASSUME NEW S \in ScanType, NEW b, b = [a EXCEPT !.scan = S]
          PROVE  /\ Observes(app, w, n, b) /\ b.scan = S
                 /\ b.floor = a.floor /\ b.activity = a.activity
      BY <1>4, <1>7, <2>8 DEF Observes, AppType
    <2>9. ASSUME NEW S \in ScanType, app' = [a EXCEPT !.scan = S],
                 \A b : Observes(app, w, n, b) /\ b.scan = S =>
                           ScanReported(b, n, Visible, head, Visible \ y)
          PROVE  IInv'
      <3>1. PICK b : b = [a EXCEPT !.scan = S]
        OBVIOUS
      <3>2. /\ Observes(app, w, n, b) /\ b.scan = S
            /\ b.floor = a.floor /\ b.activity = a.activity
        BY <2>8, <3>1
      <3>3. b.floor <= head /\ Below(b, Visible \ y, b.floor)
        BY <2>4, <3>2 DEF Below
      <3> QED
        BY <2>3, <2>9, <3>1, <3>2, <3>3
    <2>10. /\ app.scan \in ScanType /\ w.stop \in OptLt /\ w.cont \in OptLt
           /\ w.cutoff \in OptCutoff /\ w.rows \in SUBSET Lts
           /\ MaxAuto \in 0..MaxAuto
      BY <1>2, <1>3, HistoryAssumptions DEF AppType, WalkType
    <2>11. PICK R \in SUBSET Lts : R = app.scan.rows \cup w.rows
      BY <2>10 DEF ScanType
    <2>12. Placed(app, w, Visible \ y)
      BY <2>2 DEF Finished
    <2>5. CASE w.headOnly
      <3>1. app.scan # NoScan
        BY <2>5, <2>12 DEF Placed, Head
      <3>2. app' = HeadScanned(a, w)
        BY <1>4, <1>6, <1>13, <2>5 DEF EndpointHistoryScanned
      <3>3. CASE w.cont # 0
        <4>1. PICK S : S = [next |-> w.cont, stop |-> app.scan.stop,
                            cutoff |-> app.scan.cutoff, rows |-> R,
                            left |-> MaxAuto]
          OBVIOUS
        <4>2. /\ S \in ScanType /\ S.rows = R /\ S.stop = app.scan.stop
              /\ S.next = w.cont
          BY <2>10, <2>11, <4>1 DEF ScanType
        <4>3. app' = [a EXCEPT !.scan = S]
          BY <1>7, <2>11, <3>1, <3>2, <3>3, <4>1 DEF HeadScanned
        <4>4. \A b : Observes(app, w, n, b) /\ b.scan = S =>
                       ScanReported(b, n, Visible, head, Visible \ y)
          BY <2>2, <2>5, <2>11, <3>3, <4>2, HeadReport
        <4> QED
          BY <2>9, <4>2, <4>3, <4>4
      <3>4. CASE w.cont = 0
        <4>1. PICK S : S = [app.scan EXCEPT !.rows = R]
          OBVIOUS
        <4>2. /\ S \in ScanType /\ S.rows = R /\ S.stop = app.scan.stop
              /\ S.next = app.scan.next
          BY <2>10, <2>11, <4>1 DEF ScanType
        <4>3. app' = [a EXCEPT !.scan = S]
          BY <1>7, <2>10, <2>11, <3>1, <3>2, <3>4, <4>1
             DEF HeadScanned, AppType, ScanType
        <4>4. \A b : Observes(app, w, n, b) /\ b.scan = S =>
                       ScanReported(b, n, Visible, head, Visible \ y)
          BY <2>2, <2>5, <2>11, <3>4, <4>2, HeadReport
        <4> QED
          BY <2>9, <4>2, <4>3, <4>4
      <3> QED
        BY <3>3, <3>4
    <2>6. CASE ~w.headOnly /\ w.cont # 0
      <3>1. Joins(app, w)
        BY <1>2, <2>6, <2>12 DEF Placed
      <3>2. app' = RetainScan(a, w)
        BY <1>4, <1>6, <1>13, <2>6 DEF EndpointHistoryScanned
      <3>3. CASE w.start # 0
        <4>1. PICK S : S = [app.scan EXCEPT !.next = w.cont, !.rows = R]
          OBVIOUS
        <4>2. /\ S \in ScanType /\ S.rows = R /\ S.stop = w.stop
              /\ S.next = w.cont
          BY <2>10, <2>11, <3>1, <3>3, <4>1 DEF ScanType, Joins
        <4>3. Continues(a, w)
          BY <1>7, <3>1, <3>3 DEF Continues, Joins
        <4>4. app' = [a EXCEPT !.scan = S]
          BY <1>7, <2>10, <2>11, <3>2, <4>1, <4>3
             DEF RetainScan, AppType, ScanType
        <4>5. \A b : Observes(app, w, n, b) /\ b.scan = S =>
                       ScanReported(b, n, Visible, head, Visible \ y)
          BY <2>2, <2>6, <2>11, <4>2, RetainReport
        <4> QED
          BY <2>9, <4>2, <4>4, <4>5
      <3>4. CASE w.start = 0
        <4>1. PICK S : S = [next |-> w.cont, stop |-> w.stop,
                            cutoff |-> w.cutoff, rows |-> w.rows,
                            left |-> MaxAuto]
          OBVIOUS
        <4>2. app.scan = NoScan
          BY <3>1, <3>4 DEF Joins
        <4>3. app.scan.rows = {}
          BY <4>2 DEF NoScan
        <4>4. /\ S \in ScanType /\ S.rows = R /\ S.stop = w.stop
              /\ S.next = w.cont
          BY <2>10, <2>11, <4>1, <4>3 DEF ScanType
        <4>5. ~Continues(a, w)
          BY <1>7, <4>2 DEF Continues
        <4>6. app' = [a EXCEPT !.scan = S]
          BY <1>7, <3>2, <3>4, <4>1, <4>2, <4>5 DEF RetainScan
        <4>7. \A b : Observes(app, w, n, b) /\ b.scan = S =>
                       ScanReported(b, n, Visible, head, Visible \ y)
          BY <2>2, <2>6, <2>11, <4>4, RetainReport
        <4> QED
          BY <2>9, <4>4, <4>6, <4>7
      <3> QED
        BY <3>3, <3>4
    <2>7. CASE ~w.headOnly /\ w.cont = 0
      <3>1. Joins(app, w)
        BY <1>2, <2>7, <2>12 DEF Placed
      <3>2. app' = CompleteScan(a, w)
        BY <1>4, <1>6, <1>13, <2>7 DEF EndpointHistoryScanned
      <3>3. Continues(a, w) \/ (a.scan = NoScan /\ w.start = 0)
        BY <1>7, <3>1 DEF Continues, Joins
      <3>4. PICK f \in OptLt : f = LowerFloor(a.floor, Oldest(R))
        <4>1. MaxLt \in Nat /\ R \in SUBSET (1..MaxLt) /\ a.floor \in 0..MaxLt
          BY <1>7, HistoryAssumptions DEF Lts, AppType, OptLt
        <4>2. PICK o \in 0..MaxLt : o = Oldest(R)
          BY <4>1, OldestFacts
        <4>3. {a.floor, o} \in SUBSET Nat /\ {a.floor, o} # {}
          BY <4>1
        <4>4. Min({a.floor, o}) \in {a.floor, o}
          BY <4>3, MinOfRows
        <4> QED
          BY <4>1, <4>2, <4>4 DEF LowerFloor, OptLt
      <3>5. PICK b : b = [a EXCEPT !.scan = NoScan, !.floor = f]
        OBVIOUS
      <3>6. /\ b \in AppType /\ Observes(app, w, n, b) /\ b.scan = NoScan
            /\ b.floor = f
        BY <1>4, <1>7, <1>10, <3>5 DEF Observes, AppType
      <3>7. PICK d : d = Unblock(b)
        OBVIOUS
      <3>8. /\ Observes(app, w, n, d) /\ d.scan = NoScan /\ d.floor = f
        <4>1. 0 \in OptLt /\ 0 \in OptCutoff
          BY HistoryAssumptions DEF OptLt, OptCutoff
        <4>2. d = [b EXCEPT !.blocking = FALSE, !.recFloor = 0,
                            !.timeFloor = 0, !.risk = "none"]
          BY <3>7 DEF Unblock
        <4>3. /\ d \in AppType /\ d.scan = b.scan /\ d.floor = b.floor
              /\ d.tasks = b.tasks /\ d.inFlight = b.inFlight
              /\ d.gen = b.gen /\ d.sub = b.sub /\ d.activity = b.activity
              /\ d.hasGap = b.hasGap /\ d.incomplete = b.incomplete
              /\ d.again = b.again /\ d.headAfter = b.headAfter
              /\ d.recFloor = 0
          BY <3>6, <4>1, <4>2 DEF AppType
        <4> QED
          BY <3>6, <4>3 DEF Observes
      <3>9. app' \in {b, d}
        BY <1>7, <2>11, <3>2, <3>3, <3>4, <3>5, <3>7 DEF CompleteScan
      <3>10. PICK e \in {b, d} : app' = e
        BY <3>9
      <3>11. Observes(app, w, n, e) /\ e.scan = NoScan
             /\ e.floor = LowerFloor(app.floor, Oldest(app.scan.rows \cup w.rows))
        BY <1>7, <2>11, <3>4, <3>6, <3>8, <3>10
      <3>12. /\ ScanReported(e, n, Visible, head, Visible \ y)
             /\ e.floor <= head /\ Below(e, Visible \ y, e.floor)
        BY <2>2, <2>7, <3>11, CompleteReport
      <3> QED
        BY <2>3, <3>10, <3>11, <3>12
    <2> QED
      BY <2>5, <2>6, <2>7
  <1> QED
    BY <1>11, <1>12, <1>13

-----------------------------------------------------------------------------
(* TransactionsLoaded: what is fetched next.                               *)

(* A queued request and the page of the review change no other field.      *)
LEMMA FlagFrame ==
    ASSUME NEW V, NEW h, NEW x, NEW a, Sound(a, V, h, x), NEW b \in AppType,
           b.gen = a.gen, b.tasks = a.tasks, b.inFlight = a.inFlight,
           b.activity = a.activity, b.hasGap = a.hasGap,
           b.incomplete = a.incomplete, b.floor = a.floor,
           b.recFloor = a.recFloor, b.sub = a.sub, b.scan = a.scan
    PROVE  Sound(b, V, h, x)
  <1>1. a \in AppType /\ (a.sub = "failed" => a.gen < MaxGeneration)
    BY DEF Sound, Fields
  <1> QED
    BY <1>1, Frame

\* A row still announced is ahead of the list only if a walk is asked for or
\* the walk that was to bring it left a gap; a retained scan is unfinished.
Owed(a, x, n) ==
    /\ n # 0 /\ n \notin x /\ ~a.again /\ ~a.headAfter
         => a.hasGap /\ a.scan = NoScan
    /\ a.scan # NoScan => a.incomplete

(* The next walk serves what is owed.                                      *)
LEMMA FetchNextSound ==
    ASSUME NEW h \in 0..MaxLt, NEW V \in SUBSET (1..h), NEW x, NEW a,
           Sound(a, V, h, x), a.inFlight = 0, NEW headOnly \in BOOLEAN,
           NEW n, Owed(a, x, n)
    PROVE  /\ Sound(FetchNext(a, headOnly), V, h, x)
           /\ Promised(FetchNext(a, headOnly), x, n)
           /\ FetchNext(a, headOnly).activity = a.activity
  <1>1. a \in AppType /\ a.again \in BOOLEAN /\ a.headAfter \in BOOLEAN
    BY DEF Sound, Fields, AppType
  <1>2. PICK p \in BOOLEAN : p = (a.scan # NoScan)
    OBVIOUS
  <1>3. PICK g \in BOOLEAN, k \in BOOLEAN :
           g = (a.again /\ ~p) /\ k = (a.headAfter \/ (p /\ a.again))
    OBVIOUS
  <1>4. PICK b : b = [a EXCEPT !.again = g, !.headAfter = k]
    OBVIOUS
  <1>5. /\ b \in AppType /\ b.again = g /\ b.headAfter = k
        /\ b.gen = a.gen /\ b.tasks = a.tasks /\ b.inFlight = a.inFlight
        /\ b.activity = a.activity /\ b.hasGap = a.hasGap
        /\ b.incomplete = a.incomplete /\ b.floor = a.floor
        /\ b.recFloor = a.recFloor /\ b.sub = a.sub /\ b.scan = a.scan
    BY <1>1, <1>4 DEF AppType
  <1>6. Sound(b, V, h, x)
    BY <1>5, FlagFrame
  <1>7. PICK auto \in BOOLEAN : auto = (p /\ a.scan.left > 0)
    OBVIOUS
  <1>8. FetchNext(a, headOnly) =
          IF auto
          THEN FetchInner([b EXCEPT !.scan.left = @ - 1], FALSE)
          ELSE IF p /\ a.again
          THEN FetchInner(b, FALSE)
          ELSE IF p /\ b.headAfter
          THEN FetchInner([b EXCEPT !.headAfter = FALSE], TRUE)
          ELSE IF ~p /\ (b.again \/ b.headAfter)
          THEN Fetch([b EXCEPT !.again = FALSE, !.headAfter = FALSE])
          ELSE IF p /\ ~headOnly
          THEN FetchInner(b, TRUE)
          ELSE b
    BY <1>1, <1>2, <1>3, <1>4, <1>7 DEF FetchNext, AppType
  <1>9. PICK no \in Flag, yes \in Flag : no = FALSE /\ yes = TRUE
    BY DEF Flag
  <1>10. CASE auto
    <2>1. PICK S : S = [b.scan EXCEPT !.left = @ - 1]
      OBVIOUS
    <2>2. /\ S \in ScanType /\ S.next = b.scan.next /\ S.stop = b.scan.stop
          /\ S.cutoff = b.scan.cutoff /\ S.rows = b.scan.rows
      <3>1. b.scan \in ScanType /\ b.scan.left \in 0..MaxAuto /\ MaxAuto \in Nat
        BY <1>5, HistoryAssumptions DEF AppType, ScanType
      <3>2. b.scan.left > 0
        BY <1>5, <1>7, <1>10
      <3>3. PICK i \in 0..MaxAuto : i = b.scan.left - 1
        BY <3>1, <3>2
      <3>4. S = [b.scan EXCEPT !.left = i]
        BY <2>1, <3>3
      <3> QED
        BY <3>1, <3>4 DEF ScanType
    <2>3. PICK c : c = [b EXCEPT !.scan = S]
      OBVIOUS
    <2>4. /\ c \in AppType /\ c.again = g /\ c.headAfter = k /\ c.scan = S
          /\ c.gen = b.gen /\ c.tasks = b.tasks /\ c.inFlight = b.inFlight
          /\ c.activity = b.activity /\ c.hasGap = b.hasGap
          /\ c.incomplete = b.incomplete /\ c.floor = b.floor
          /\ c.recFloor = b.recFloor /\ c.sub = b.sub
      BY <1>5, <2>2, <2>3 DEF AppType
    <2>5. b.scan.next # 0 /\ b.scan # NoScan
      BY <1>2, <1>5, <1>6, <1>7, <1>10 DEF Sound, Fields
    <2>6. c.scan # NoScan
      BY <2>2, <2>4, <2>5 DEF NoScan
    <2>7. Sound(c, V, h, x)
      <3>1. b.sub = "failed" => b.gen < MaxGeneration
        BY <1>6 DEF Sound, Fields
      <3> QED
        BY <1>5, <1>6, <2>2, <2>4, <2>5, <2>6, <3>1, Frame
    <2>8. FetchNext(a, headOnly) = FetchInner(c, no)
      BY <1>5, <1>8, <1>9, <1>10, <2>1, <2>3 DEF AppType
    <2>9. c.inFlight = 0 /\ (no = TRUE => c.scan # NoScan)
      BY <1>5, <2>4, <2>6
    <2>10. Sound(FetchInner(c, no), V, h, x)
      BY <2>7, <2>9, FetchInnerStarts
    <2>11. FetchInner(c, no).activity = a.activity
      BY <1>5, <2>4, FetchInnerList
    <2>12. Promised(FetchInner(c, no), x, n)
      <3>1. CASE k
        <4>1. c.headAfter
          BY <2>4, <3>1
        <4> QED
          BY <2>7, <2>9, <4>1, FetchInnerStarts
      <3>2. CASE ~k
        <4>1. ~a.headAfter /\ ~a.again /\ a.scan # NoScan
          BY <1>2, <1>3, <1>7, <1>10, <3>2
        <4>2. n = 0 \/ n \in x
          BY <4>1 DEF Owed
        <4> QED
          BY <4>2 DEF Promised
      <3> QED
        BY <3>1, <3>2
    <2> QED
      BY <2>8, <2>10, <2>11, <2>12
  <1>11. CASE ~auto /\ p /\ a.again
    <2>1. FetchNext(a, headOnly) = FetchInner(b, no)
      BY <1>8, <1>9, <1>11
    <2>2. b.inFlight = 0 /\ (no = TRUE => b.scan # NoScan) /\ b.headAfter
      BY <1>3, <1>5, <1>9, <1>11
    <2>3. Sound(FetchInner(b, no), V, h, x)
      BY <1>6, <2>2, FetchInnerStarts
    <2>4. \A m : Promised(FetchInner(b, no), x, m)
      BY <1>6, <2>2, FetchInnerStarts
    <2>5. FetchInner(b, no).activity = a.activity
      BY <1>5, FetchInnerList
    <2> QED
      BY <2>1, <2>3, <2>4, <2>5
  <1>12. CASE ~auto /\ p /\ ~a.again /\ b.headAfter
    <2>1. PICK c : c = [b EXCEPT !.headAfter = FALSE]
      OBVIOUS
    <2>2. /\ c \in AppType /\ c.scan = b.scan
          /\ c.gen = b.gen /\ c.tasks = b.tasks /\ c.inFlight = b.inFlight
          /\ c.activity = b.activity /\ c.hasGap = b.hasGap
          /\ c.incomplete = b.incomplete /\ c.floor = b.floor
          /\ c.recFloor = b.recFloor /\ c.sub = b.sub
      BY <1>5, <2>1 DEF AppType
    <2>3. Sound(c, V, h, x)
      BY <1>6, <2>2, FlagFrame
    <2>4. c.inFlight = 0 /\ (yes = TRUE => c.scan # NoScan)
      BY <1>2, <1>5, <1>12, <2>2
    <2>5. FetchNext(a, headOnly) = FetchInner(c, yes)
      BY <1>8, <1>9, <1>12, <2>1
    <2>6. Sound(FetchInner(c, yes), V, h, x)
      BY <2>3, <2>4, FetchInnerStarts
    <2>7. \A m : Promised(FetchInner(c, yes), x, m)
      BY <1>9, <2>3, <2>4, FetchInnerStarts
    <2>8. FetchInner(c, yes).activity = a.activity
      BY <1>5, <2>2, FetchInnerList
    <2> QED
      BY <2>5, <2>6, <2>7, <2>8
  <1>13. CASE ~p /\ (b.again \/ b.headAfter)
    <2>1. PICK c : c = [b EXCEPT !.again = FALSE, !.headAfter = FALSE]
      OBVIOUS
    <2>2. /\ c \in AppType /\ c.scan = b.scan
          /\ c.gen = b.gen /\ c.tasks = b.tasks /\ c.inFlight = b.inFlight
          /\ c.activity = b.activity /\ c.hasGap = b.hasGap
          /\ c.incomplete = b.incomplete /\ c.floor = b.floor
          /\ c.recFloor = b.recFloor /\ c.sub = b.sub
      BY <1>5, <2>1 DEF AppType
    <2>3. Sound(c, V, h, x)
      BY <1>6, <2>2, FlagFrame
    <2>4. FetchNext(a, headOnly) = Fetch(c)
      BY <1>7, <1>8, <1>13, <2>1
    <2>5. /\ Sound(Fetch(c), V, h, x)
          /\ \A m : Promised(Fetch(c), x, m)
          /\ Fetch(c).activity = c.activity
      BY <2>3, FetchSound
    <2> QED
      BY <1>5, <2>2, <2>4, <2>5
  <1>14. CASE ~auto /\ p /\ ~a.again /\ ~b.headAfter /\ ~headOnly
    <2>1. FetchNext(a, headOnly) = FetchInner(b, yes)
      BY <1>8, <1>9, <1>14
    <2>2. b.inFlight = 0 /\ (yes = TRUE => b.scan # NoScan)
      BY <1>2, <1>5, <1>14
    <2>3. Sound(FetchInner(b, yes), V, h, x)
      BY <1>6, <2>2, FetchInnerStarts
    <2>4. \A m : Promised(FetchInner(b, yes), x, m)
      BY <1>6, <1>9, <2>2, FetchInnerStarts
    <2>5. FetchInner(b, yes).activity = a.activity
      BY <1>5, FetchInnerList
    <2> QED
      BY <2>1, <2>3, <2>4, <2>5
  <1>15. CASE \/ ~auto /\ p /\ ~a.again /\ ~b.headAfter /\ headOnly
              \/ ~p /\ ~b.again /\ ~b.headAfter
    <2>1. FetchNext(a, headOnly) = b
      BY <1>7, <1>8, <1>15
    <2>2. Promised(b, x, n)
      <3>1. CASE p
        <4>1. b.incomplete
          BY <1>2, <1>5, <3>1 DEF Owed
        <4> QED
          BY <1>5, <4>1 DEF Promised
      <3>2. CASE ~p
        <4>1. ~a.again /\ ~a.headAfter
          BY <1>3, <1>5, <1>15, <3>2
        <4>2. n # 0 /\ n \notin x => b.hasGap
          BY <1>5, <4>1 DEF Owed
        <4> QED
          BY <1>5, <4>2 DEF Promised
      <3> QED
        BY <3>1, <3>2
    <2> QED
      BY <1>5, <1>6, <2>1, <2>2
  <1> QED
    BY <1>10, <1>11, <1>12, <1>13, <1>14, <1>15

(* The review is not seen by the invariant.                                *)
LEMMA FinishRiskSound ==
    ASSUME NEW V, NEW h, NEW x, NEW a, Sound(a, V, h, x), NEW n,
           Promised(a, x, n)
    PROVE  /\ Sound(FinishRisk(a), V, h, x)
           /\ Promised(FinishRisk(a), x, n)
           /\ FinishRisk(a).activity = a.activity
  <1>1. a \in AppType
    BY DEF Sound, Fields
  <1>2. PICK r \in {"none", "checking", "context"} :
           FinishRisk(a) = [a EXCEPT !.risk = r]
    <2>1. FinishRisk(a) = a => FinishRisk(a) = [a EXCEPT !.risk = a.risk]
      BY <1>1 DEF AppType
    <2>2. a.risk \in {"none", "checking", "context"}
      BY <1>1 DEF AppType
    <2>3. \/ FinishRisk(a) = a
          \/ FinishRisk(a) = [a EXCEPT !.risk = "none"]
          \/ FinishRisk(a) = [a EXCEPT !.risk = "context"]
      BY DEF FinishRisk
    <2> QED
      BY <2>1, <2>2, <2>3
  <1>3. PICK b : b = [a EXCEPT !.risk = r]
    OBVIOUS
  <1>4. /\ b \in AppType /\ b.again = a.again /\ b.headAfter = a.headAfter
        /\ b.gen = a.gen /\ b.tasks = a.tasks /\ b.inFlight = a.inFlight
        /\ b.activity = a.activity /\ b.hasGap = a.hasGap
        /\ b.incomplete = a.incomplete /\ b.floor = a.floor
        /\ b.recFloor = a.recFloor /\ b.sub = a.sub /\ b.scan = a.scan
    BY <1>1, <1>3 DEF AppType
  <1>5. Sound(b, V, h, x)
    BY <1>4, FlagFrame
  <1>6. Promised(b, x, n)
    BY <1>4, PromisedFrame
  <1> QED
    BY <1>2, <1>3, <1>4, <1>5, <1>6

-----------------------------------------------------------------------------
(* TransactionsLoaded: the report itself.                                  *)

(* A walk that nobody waits for leaves.                                    *)
LEMMA LeaveSound ==
    ASSUME NEW V, NEW h, NEW x, NEW a, Sound(a, V, h, x),
           NEW w \in a.tasks, w.id # a.inFlight,
           NEW b \in AppType, b.tasks = a.tasks \ {w},
           b.gen = a.gen, b.inFlight = a.inFlight,
           b.activity = a.activity, b.hasGap = a.hasGap,
           b.incomplete = a.incomplete, b.floor = a.floor,
           b.recFloor = a.recFloor, b.sub = a.sub, b.scan = a.scan
    PROVE  Sound(b, V, h, x)
  <1>1. Fields(a, V, h) /\ Pool(a, V, h)
    BY DEF Sound
  <1>2. /\ Known(b) = Known(a)
        /\ \A L, s : Below(b, L, s) <=> Below(a, L, s)
        /\ \A v, L : Placed(a, v, L) => Placed(b, v, L)
    BY PlacedFrame
  <1>3. Pool(b, V, h)
    <2>1. IsFiniteSet(b.tasks)
      BY <1>1, FS_RemoveElement DEF Pool
    <2> QED
      BY <1>1, <2>1 DEF Pool
  <1>4. Fields(b, V, h)
    BY <1>1 DEF Fields
  <1>5. Trusted(b, V \ x)
    BY <1>2 DEF Sound, Trusted
  <1>6. ScanOK(b, V \ x)
    BY <1>2 DEF Sound, ScanOK
  <1>7. Walks(b, V \ x)
    <2>1. \A v : Current(b, v) => Current(a, v)
      BY DEF Current
    <2> QED
      BY <1>2, <2>1 DEF Sound, Walks
  <1>8. Skips(b, x)
    BY <1>2 DEF Sound, Skips
  <1> QED
    BY <1>3, <1>4, <1>5, <1>6, <1>7, <1>8 DEF Sound

\* The walk in flight, w, has left, and the guard is free.
Released(a, w, b) ==
    /\ b \in AppType
    /\ b.tasks = a.tasks \ {w} /\ b.inFlight = 0
    /\ b.gen = a.gen /\ b.sub = a.sub /\ b.recFloor = a.recFloor
    /\ b.again = a.again /\ b.headAfter = a.headAfter

(* The guard is released, and no walk is current any more.                 *)
LEMMA ReleasedPool ==
    ASSUME NEW V, NEW h, NEW L, NEW a, Pool(a, V, h), NEW w \in a.tasks,
           NEW b, Released(a, w, b)
    PROVE  Pool(b, V, h) /\ Walks(b, L)
  <1>1. b.tasks = a.tasks \ {w} /\ b.inFlight = 0 /\ b.gen = a.gen
    BY DEF Released
  <1>2. IsFiniteSet(b.tasks)
    BY <1>1, FS_RemoveElement DEF Pool
  <1>3. Pool(b, V, h)
    BY <1>1, <1>2 DEF Pool
  <1>4. \A v \in b.tasks : v.id # 0
    BY <1>3 DEF Pool, WalkOK
  <1> QED
    BY <1>1, <1>3, <1>4 DEF Walks, Current

(* The rows of a stale report are dropped, and explained by that.          *)
LEMMA StaleSound ==
    ASSUME NEW h \in 0..MaxLt, NEW V \in SUBSET (1..h), NEW x, NEW a,
           Sound(a, V, h, x), NEW w \in a.tasks, w.id = a.inFlight,
           NEW b, Released(a, w, b), b.scan = a.scan,
           b.activity = a.activity, b.hasGap = a.hasGap,
           b.incomplete = a.incomplete, b.floor = a.floor,
           NEW y, y = (x \cup w.rows) \ a.activity
    PROVE  Sound(b, V, h, y) /\ x \subseteq y
  <1>1. Fields(a, V, h) /\ Pool(a, V, h) /\ Skips(a, x)
    BY DEF Sound
  <1>2. x \subseteq y
    BY <1>1 DEF Skips
  <1>3. Skips(a, y)
    BY <1>1, <1>2 DEF Skips
  <1>4. Sound(a, V, h, y)
    <2>1. Grows(V, h, x, V, h, y)
      BY <1>2, HistoryAssumptions DEF Grows
    <2> QED
      BY <1>3, <2>1, GrowSound
  <1>5. Pool(b, V, h) /\ Walks(b, V \ y)
    BY <1>1, ReleasedPool
  <1>6. /\ Known(b) = Known(a)
        /\ \A L, s : Below(b, L, s) <=> Below(a, L, s)
    BY DEF Known, Below
  <1>7. b \in AppType /\ b.gen = a.gen /\ b.sub = a.sub /\ b.recFloor = a.recFloor
    BY DEF Released
  <1>8. Fields(b, V, h)
    BY <1>1, <1>7 DEF Fields
  <1>9. Trusted(b, V \ y)
    BY <1>4, <1>6 DEF Sound, Trusted
  <1>10. ScanOK(b, V \ y)
    <2> SUFFICES ASSUME a.scan # NoScan PROVE ScanOK(b, V \ y)
      BY DEF ScanOK
    <2>1. ASSUME NEW l \in V \ y, l \in a.scan.rows PROVE l \in a.activity
      <3>1. \A v \in a.tasks : v.id = a.inFlight => v = w
        BY <1>1 DEF Pool
      <3>2. l \in a.activity \/ l \in w.rows
        BY <1>4, <2>1, <3>1 DEF Sound, ScanOK
      <3> QED
        BY <3>2
    <2> QED
      BY <1>4, <1>6, <2>1 DEF Sound, ScanOK
  <1>11. Skips(b, y)
    BY <1>3, <1>6, <1>7 DEF Skips
  <1> QED
    BY <1>2, <1>5, <1>8, <1>9, <1>10, <1>11 DEF Sound

(* A report to an older subscription serves only a queued request.         *)
LEMMA StaleLoadedSound ==
    ASSUME NEW h \in 0..MaxLt, NEW V \in SUBSET (1..h), NEW x, NEW a,
           Sound(a, V, h, x), a.inFlight = 0, NEW n,
           ~a.again => n = 0 \/ n \in x
    PROVE  /\ Sound(StaleLoaded(a), V, h, x)
           /\ Promised(StaleLoaded(a), x, n)
           /\ StaleLoaded(a).activity = a.activity
  <1>1. a \in AppType
    BY DEF Sound, Fields
  <1>2. PICK no \in Flag : no = FALSE
    BY DEF Flag
  <1>3. CASE a.again /\ a.scan # NoScan
    <2>1. PICK b : b = [a EXCEPT !.again = FALSE, !.headAfter = TRUE]
      OBVIOUS
    <2>2. /\ b \in AppType /\ b.scan = a.scan /\ b.headAfter
          /\ b.gen = a.gen /\ b.tasks = a.tasks /\ b.inFlight = a.inFlight
          /\ b.activity = a.activity /\ b.hasGap = a.hasGap
          /\ b.incomplete = a.incomplete /\ b.floor = a.floor
          /\ b.recFloor = a.recFloor /\ b.sub = a.sub
      BY <1>1, <2>1 DEF AppType
    <2>3. StaleLoaded(a) = FetchInner(b, no)
      BY <1>1, <1>2, <1>3, <2>1 DEF StaleLoaded
    <2>4. Sound(b, V, h, x)
      BY <2>2, FlagFrame
    <2>5. b.inFlight = 0 /\ (no = TRUE => b.scan # NoScan)
      BY <1>3, <2>2
    <2>6. Sound(FetchInner(b, no), V, h, x)
      BY <2>4, <2>5, FetchInnerStarts
    <2>7. \A m : Promised(FetchInner(b, no), x, m)
      BY <2>2, <2>4, <2>5, FetchInnerStarts
    <2>8. FetchInner(b, no).activity = a.activity
      BY <2>2, FetchInnerList
    <2> QED
      BY <2>3, <2>6, <2>7, <2>8
  <1>4. CASE a.again /\ a.scan = NoScan
    <2>1. PICK b : b = [a EXCEPT !.again = FALSE]
      OBVIOUS
    <2>2. /\ b \in AppType /\ b.scan = a.scan
          /\ b.gen = a.gen /\ b.tasks = a.tasks /\ b.inFlight = a.inFlight
          /\ b.activity = a.activity /\ b.hasGap = a.hasGap
          /\ b.incomplete = a.incomplete /\ b.floor = a.floor
          /\ b.recFloor = a.recFloor /\ b.sub = a.sub
      BY <1>1, <2>1 DEF AppType
    <2>3. StaleLoaded(a) = Fetch(b)
      BY <1>4, <2>1 DEF StaleLoaded
    <2>4. Sound(b, V, h, x)
      BY <2>2, FlagFrame
    <2>5. /\ Sound(Fetch(b), V, h, x)
          /\ \A m : Promised(Fetch(b), x, m)
          /\ Fetch(b).activity = b.activity
      BY <2>4, FetchSound
    <2> QED
      BY <2>2, <2>3, <2>5
  <1>5. CASE ~a.again
    <2>1. PICK r \in {"none", "checking", "context"} :
             r = IF a.risk = "checking" THEN "none" ELSE a.risk
      BY <1>1 DEF AppType
    <2>2. PICK b : b = [a EXCEPT !.risk = r]
      OBVIOUS
    <2>3. /\ b \in AppType /\ b.scan = a.scan
          /\ b.gen = a.gen /\ b.tasks = a.tasks /\ b.inFlight = a.inFlight
          /\ b.activity = a.activity /\ b.hasGap = a.hasGap
          /\ b.incomplete = a.incomplete /\ b.floor = a.floor
          /\ b.recFloor = a.recFloor /\ b.sub = a.sub
      BY <1>1, <2>2 DEF AppType
    <2>4. StaleLoaded(a) = b
      BY <1>1, <1>5, <2>1, <2>2 DEF StaleLoaded, AppType
    <2>5. Sound(b, V, h, x)
      BY <2>3, FlagFrame
    <2>6. Promised(b, x, n)
      BY <1>5 DEF Promised
    <2> QED
      BY <2>3, <2>4, <2>5, <2>6
  <1> QED
    BY <1>3, <1>4, <1>5

\* The rows of the current walk w are merged into the list: b is m in
\* TransactionsLoaded, before the next walk is chosen.
Merged(a, w, b) ==
    /\ Released(a, w, b)
    /\ b.activity = Cap(a.activity \cup w.rows)
    /\ b.incomplete = (w.gap \/ w.cont # 0 \/ a.scan # NoScan)
    /\ b.scan = IF w.gap THEN NoScan ELSE a.scan
    /\ w.gap => b.hasGap
    /\ b.floor = IF b.incomplete THEN a.floor
                 ELSE LowerFloor(a.floor, Oldest(w.rows))

(* What the merge of a walk into the list computes (merge_activity,        *)
(* live.rs).                                                               *)
LEMMA MergeFields ==
    ASSUME NEW h \in 0..MaxLt, NEW V \in SUBSET (1..h),
           NEW a \in AppType, Fields(a, V, h), NEW w \in WalkType,
           WalkOK(w, V, h), NEW b \in AppType, Released(a, w, b),
           b.scan = a.scan, b.activity = a.activity, b.hasGap = a.hasGap,
           b.floor = a.floor
    PROVE  Merged(a, w, Merge(b, w))
  <1>1. MaxLt \in Nat /\ h \in Nat
    BY HistoryAssumptions
  <1>2. a.activity \cup w.rows \in SUBSET (1..h)
    BY DEF Fields, WalkOK
  <1>3. PICK A \in SUBSET Lts : A = Cap(a.activity \cup w.rows)
    <2>1. \A l \in 1..h : l \in Lts
      BY <1>1 DEF Lts
    <2>2. Cap(a.activity \cup w.rows) \subseteq a.activity \cup w.rows
      BY <1>1, <1>2, CapFacts
    <2> QED
      BY <1>2, <2>1, <2>2
  <1>4. PICK i \in BOOLEAN : i = (w.gap \/ w.cont # 0 \/ (~w.gap /\ a.scan # NoScan))
    OBVIOUS
  <1>5. PICK u \in BOOLEAN : u = (~w.gap /\ ~i)
    OBVIOUS
  <1>6. PICK t \in BOOLEAN : t = (w.integrity \/ (b.integrity /\ ~u))
    OBVIOUS
  <1>7. PICK S \in ScanType : S = IF w.gap THEN NoScan ELSE a.scan
    <2>1. NoScan \in ScanType
      BY HistoryAssumptions DEF NoScan, ScanType, OptLt, OptCutoff
    <2> QED
      BY <2>1 DEF AppType
  <1>8. PICK g \in BOOLEAN : g = (w.gap \/ (a.hasGap /\ ~u))
    OBVIOUS
  <1>9. PICK f \in OptLt : f = IF u THEN LowerFloor(a.floor, Oldest(w.rows))
                               ELSE a.floor
    <2>1. w.rows \in SUBSET (1..h) /\ a.floor \in 0..MaxLt
      BY <1>2 DEF AppType, OptLt
    <2>2. PICK o \in 0..h : o = Oldest(w.rows)
      BY <1>1, <2>1, OldestFacts
    <2>3. o \in 0..MaxLt
      BY <1>1
    <2>4. {a.floor, o} \in SUBSET Nat /\ {a.floor, o} # {}
      BY <1>1, <2>1, <2>3
    <2>5. Min({a.floor, o}) \in {a.floor, o}
      BY <2>4, MinOfRows
    <2> QED
      BY <2>1, <2>2, <2>3, <2>5 DEF LowerFloor, OptLt
  <1>10. PICK c : c = [b EXCEPT !.activity = A, !.incomplete = i,
                                !.integrity = t, !.scan = S, !.hasGap = g,
                                !.floor = f]
    OBVIOUS
  <1>11. Merge(b, w) = c
    <2> DEFINE pending    == ~w.gap /\ b.scan # NoScan
               incomplete == w.gap \/ w.cont # 0 \/ pending
               whole      == ~w.gap /\ ~incomplete
               all        == Cap(b.activity \cup w.rows)
               int        == w.integrity \/ (b.integrity /\ ~whole)
               scan       == IF w.gap THEN NoScan ELSE b.scan
               gap        == w.gap \/ (b.hasGap /\ ~whole)
               low        == IF whole THEN LowerFloor(b.floor, Oldest(w.rows))
                             ELSE b.floor
    <2>1. A = all /\ S = scan
      BY <1>3, <1>7
    <2>2. i = incomplete /\ u = whole
      BY <1>4, <1>5
    <2>3. t = int /\ g = gap
      BY <1>6, <1>8, <2>2
    <2>4. f = low
      BY <1>9, <2>2
    <2>5. Merge(b, w) = [b EXCEPT !.activity = all, !.incomplete = incomplete,
                                  !.integrity = int, !.scan = scan,
                                  !.hasGap = gap, !.floor = low]
      BY Zenon DEF Merge
    <2> HIDE DEF incomplete, whole, all, int, scan, gap, low
    <2> QED
      BY <1>10, <2>1, <2>2, <2>3, <2>4, <2>5
  <1>12. /\ c \in AppType /\ c.activity = A /\ c.incomplete = i
         /\ c.scan = S /\ c.hasGap = g /\ c.floor = f
         /\ c.tasks = b.tasks /\ c.inFlight = b.inFlight /\ c.gen = b.gen
         /\ c.sub = b.sub /\ c.recFloor = b.recFloor
         /\ c.again = b.again /\ c.headAfter = b.headAfter
    <2>1. PICK d : d = [b EXCEPT !.activity = A, !.incomplete = i, !.hasGap = g]
      OBVIOUS
    <2>2. /\ d \in AppType /\ d.activity = A /\ d.incomplete = i
          /\ d.hasGap = g
          /\ d.tasks = b.tasks /\ d.inFlight = b.inFlight /\ d.gen = b.gen
          /\ d.sub = b.sub /\ d.recFloor = b.recFloor
          /\ d.again = b.again /\ d.headAfter = b.headAfter
      BY <2>1 DEF AppType
    <2>3. c = [d EXCEPT !.integrity = t, !.scan = S, !.floor = f]
      BY <1>10, <2>1 DEF AppType
    <2>4. /\ c \in AppType /\ c.activity = d.activity
          /\ c.incomplete = d.incomplete /\ c.scan = S
          /\ c.hasGap = d.hasGap /\ c.floor = f
          /\ c.tasks = d.tasks /\ c.inFlight = d.inFlight /\ c.gen = d.gen
          /\ c.sub = d.sub /\ c.recFloor = d.recFloor
          /\ c.again = d.again /\ c.headAfter = d.headAfter
      BY <2>2, <2>3 DEF AppType
    <2> QED
      BY <2>2, <2>4
  <1>13. Released(a, w, c)
    BY <1>12 DEF Released
  <1>14. /\ c.incomplete = (w.gap \/ w.cont # 0 \/ a.scan # NoScan)
         /\ u = ~c.incomplete /\ (w.gap => c.hasGap)
    BY <1>4, <1>5, <1>8, <1>12
  <1> QED
    BY <1>3, <1>7, <1>9, <1>11, <1>12, <1>13, <1>14 DEF Merged

(* The merged list keeps the invariant; what the cap dropped is explained. *)
LEMMA MergeSound ==
    ASSUME NEW h \in 0..MaxLt, NEW V \in SUBSET (1..h), NEW x, NEW a,
           Sound(a, V, h, x), NEW w \in a.tasks, Current(a, w),
           w.st \in {"observed", "died"}, NEW b, Merged(a, w, b),
           NEW y, y = (x \cup ((a.activity \cup w.rows) \ b.activity)) \ b.activity
    PROVE  Sound(b, V, h, y)
  <1> DEFINE L == V \ x
             M == V \ y
             A == a.activity \cup w.rows
  <1>1. /\ a \in AppType /\ Fields(a, V, h) /\ Pool(a, V, h) /\ Skips(a, x)
        /\ Trusted(a, L) /\ ScanOK(a, L)
    BY DEF Sound, Fields
  <1>2. w \in WalkType /\ WalkOK(w, V, h) /\ h \in Nat /\ MaxLt \in Nat
    BY <1>1, HistoryAssumptions DEF AppType, Pool
  <1>3. /\ a.activity \in SUBSET (1..h) /\ w.rows \in SUBSET (1..h)
        /\ a.scan.rows \in SUBSET (1..h) /\ A \in SUBSET (1..h) /\ A \subseteq V
    BY <1>1, <1>2 DEF Fields, WalkOK
  <1>4. b.activity \subseteq A /\ Known(b) = Newest(A)
    <2>1. b.activity = Cap(A)
      BY DEF Merged
    <2>2. Cap(A) \subseteq A /\ Newest(Cap(A)) = Newest(A)
      BY <1>2, <1>3, CapFacts
    <2> QED
      BY <2>1, <2>2 DEF Known
  <1>5. ~w.gap => Reported(a, w, L)
    <2>1. ~w.gap => w.st = "observed"
      BY <1>2 DEF WalkOK
    <2> QED
      BY <2>1 DEF Sound, Walks, Placed
  <1>6. PICK k \in 0..h, r \in 0..h, u \in 0..h :
           k = Known(a) /\ r = Newest(w.rows) /\ u = Known(b)
    <2>1. Known(a) \in 0..h /\ Newest(w.rows) \in 0..h /\ Newest(A) \in 0..h
      BY <1>2, <1>3, NewestFacts DEF Known
    <2> QED
      BY <1>4, <2>1
  <1>7. k <= u /\ r <= u /\ (u = k \/ u = r)
    BY <1>2, <1>3, <1>4, <1>6, NewestOfBoth DEF Known
  <1>8. \A l \in M : l \in b.activity \/ (l \in L /\ l \notin A)
    OBVIOUS
  <1>9. \A l \in M : l \in 1..h
    OBVIOUS
  <1>10. /\ b \in AppType /\ b.inFlight = 0 /\ b.gen = a.gen /\ b.sub = a.sub
         /\ b.recFloor = a.recFloor /\ Released(a, w, b)
         /\ b.incomplete = (w.gap \/ w.cont # 0 \/ a.scan # NoScan)
         /\ b.scan = IF w.gap THEN NoScan ELSE a.scan
         /\ b.floor = IF b.incomplete THEN a.floor
                      ELSE LowerFloor(a.floor, Oldest(w.rows))
    BY DEF Merged, Released
  <1>11. Pool(b, V, h) /\ Walks(b, M)
    BY <1>1, <1>10, ReleasedPool
  <1>12. ASSUME NEW s, \A l \in L : l < s => l \in A
         PROVE  Below(b, M, s)
    BY <1>8, <1>12 DEF Below
  <1>13. ASSUME NEW s, Below(a, L, s) PROVE Below(b, M, s)
    BY <1>12, <1>13 DEF Below
  <1> HIDE DEF L, M, A
  <1>14. Skips(b, y)
    <2>1. y \cap b.activity = {}
      OBVIOUS
    <2>2. ASSUME NEW l \in Lts, u < l, l < b.recFloor PROVE l \in y
      <3>1. l \in Nat /\ k < l
        BY <1>2, <1>7, <2>2 DEF Lts
      <3>2. l \in x
        BY <1>1, <1>6, <1>10, <2>2, <3>1 DEF Skips
      <3>3. l \notin b.activity
        <4>1. l \in A => l <= u
          BY <1>2, <1>3, <1>4, <1>6, NewestFacts
        <4> QED
          BY <1>4, <2>2, <3>1, <4>1
      <3> QED
        BY <3>2, <3>3
    <2> QED
      BY <1>6, <2>1, <2>2 DEF Skips
  <1>15. PICK o \in 0..h : o = Oldest(w.rows)
    BY <1>2, <1>3, OldestFacts
  <1>16. b.floor \in {a.floor, o} /\ (b.incomplete => b.floor = a.floor)
    <2>1. a.floor \in 0..MaxLt
      BY <1>1 DEF AppType, OptLt
    <2>2. {a.floor, o} \in SUBSET Nat /\ {a.floor, o} # {}
      BY <1>2, <2>1
    <2>3. Min({a.floor, o}) \in {a.floor, o}
      BY <2>2, MinOfRows
    <2> QED
      BY <1>10, <1>15, <2>3 DEF LowerFloor
  <1>17. Fields(b, V, h)
    <2>1. b.floor <= h
      BY <1>1, <1>2, <1>16 DEF Fields
    <2>2. NoScan.rows = {} /\ NoScan.next = 0 /\ NoScan.stop = 0 /\ 0 <= h
      BY <1>2 DEF NoScan
    <2>3. /\ b.scan.rows \subseteq V /\ b.scan.next <= h /\ b.scan.stop <= h
          /\ b.scan # NoScan => b.scan.next # 0
      BY <1>1, <1>10, <2>2 DEF Fields
    <2>4. b.activity \subseteq V
      BY <1>3, <1>4
    <2> QED
      BY <1>1, <1>10, <2>1, <2>3, <2>4 DEF Fields
  <1>18. Trusted(b, M)
    <2>1. ASSUME ~b.incomplete, NEW l \in L, l <= u PROVE l \in A
      <3>1. ~w.gap /\ a.scan = NoScan
        BY <1>10, <2>1
      <3>2. l <= k \/ l <= r
        BY <1>7, <2>1
      <3> QED
        BY <1>5, <1>6, <3>1, <3>2 DEF Reported, A
    <2>2. Below(b, M, a.floor)
      BY <1>1, <1>13 DEF Trusted
    <2>3. ~b.incomplete => Below(b, M, o)
      <3> SUFFICES ASSUME ~b.incomplete, NEW l \in L, l < o PROVE l \in A
        BY <1>12
      <3>1. l \in 1..h
        BY DEF L
      <3>2. w.rows # {}
        BY <1>2, <1>3, <1>15, <3>1, OldestFacts
      <3>3. o \in w.rows
        BY <1>2, <1>3, <1>15, <3>2, OldestFacts
      <3>4. o <= r
        BY <1>2, <1>3, <1>6, <3>3, NewestFacts
      <3>5. l <= u
        BY <1>7, <3>1, <3>4
      <3> QED
        BY <2>1, <3>5
    <2>4. Below(b, M, b.floor)
      BY <1>16, <2>2, <2>3
    <2>5. ~b.incomplete => Below(b, M, Known(b) + 1)
      <3> SUFFICES ASSUME ~b.incomplete, NEW l \in L, l < u + 1 PROVE l \in A
        BY <1>6, <1>12
      <3>1. l \in 1..h
        BY DEF L
      <3>2. l <= u
        BY <3>1
      <3> QED
        BY <2>1, <3>2
    <2> QED
      BY <2>4, <2>5 DEF Trusted
  <1>19. ScanOK(b, M)
    <2> SUFFICES ASSUME b.scan # NoScan PROVE ScanOK(b, M)
      BY DEF ScanOK
    <2>1. ~w.gap /\ b.scan = a.scan /\ a.scan # NoScan
      BY <1>10
    <2>2. w.rows \in SUBSET a.scan.rows
      BY <1>5, <2>1 DEF Reported
    <2>3. /\ (\A l \in L : a.scan.next <= l /\ l <= Newest(a.scan.rows)
                             => l \in a.scan.rows)
          /\ Known(a) <= Newest(a.scan.rows)
          /\ Below(a, L, a.scan.stop)
          /\ (\A l \in L : l \in a.scan.rows =>
                \/ l \in a.activity
                \/ \E v \in a.tasks : /\ v.id = a.inFlight
                                      /\ v.st = "observed"
                                      /\ l \in v.rows)
      BY <1>1, <2>1 DEF ScanOK
    <2>4. ASSUME NEW l \in M, a.scan.next <= l, l <= Newest(a.scan.rows)
          PROVE  l \in a.scan.rows
      <3>1. CASE l \in L
        BY <2>3, <2>4, <3>1
      <3>2. CASE l \notin L
        <4>1. l \in b.activity /\ l \in x
          BY <1>8, <3>2 DEF L, M
        <4>2. l \notin a.activity
          BY <1>1, <4>1 DEF Skips
        <4> QED
          BY <1>4, <2>2, <4>1, <4>2 DEF A
      <3> QED
        BY <3>1, <3>2
    <2>5. Known(b) <= Newest(a.scan.rows)
      <3>1. r <= Newest(a.scan.rows) /\ k <= Newest(a.scan.rows)
        BY <1>2, <1>3, <1>6, <2>2, <2>3, NewestMonotone
      <3> QED
        BY <1>6, <1>7, <3>1
    <2>6. Below(b, M, a.scan.stop)
      BY <1>13, <2>3
    <2>7. ASSUME NEW l \in M, l \in a.scan.rows PROVE l \in b.activity
      <3> SUFFICES ASSUME l \in L, l \notin A PROVE FALSE
        BY <1>8
      <3>1. \A v \in a.tasks : v.id = a.inFlight => v = w
        BY <1>1 DEF Pool, Current
      <3> QED
        BY <2>3, <2>7, <3>1 DEF A
    <2> QED
      BY <2>1, <2>4, <2>5, <2>6, <2>7 DEF ScanOK
  <1> QED
    BY <1>11, <1>14, <1>17, <1>18, <1>19 DEF Sound, M

(* The second report of a walk, which merges its rows into the list.       *)
LEMMA TransactionsLoadedStep ==
    ASSUME IInv, NEW w \in app.tasks, TransactionsLoaded(w)
    PROVE  IInv'
  <1>1. /\ WorldFacts /\ Sound(app, Visible, head, explained)
        /\ Promised(app, explained, announced)
        /\ explained \subseteq Lts /\ Ahead(app, Visible, announced)
    BY WorldGives DEF IInv, World
  <1>2. /\ Fields(app, Visible, head) /\ Pool(app, Visible, head)
        /\ app \in AppType /\ w.st \in {"observed", "died"}
        /\ Skips(app, explained)
    BY <1>1 DEF Sound, Fields, TransactionsLoaded
  <1>3. w \in WalkType /\ WalkOK(w, Visible, head) /\ ~Unread(w)
    BY <1>2 DEF AppType, Pool, Unread
  <1>4. /\ app.activity \in SUBSET (1..head) /\ w.rows \in SUBSET (1..head)
        /\ head \in Nat /\ MaxLt \in Nat
        /\ \A l \in 1..head : l \in Lts
    <2>1. head \in 0..MaxLt /\ head \in Nat /\ Visible \in SUBSET (1..head)
      BY <1>1 DEF WorldFacts
    <2>2. MaxLt \in Nat
      BY HistoryAssumptions
    <2>3. app.activity \subseteq Visible /\ w.rows \subseteq Visible
      BY <1>2, <1>3 DEF Fields, WalkOK
    <2>4. \A l \in 1..head : l \in Lts
      BY <2>1, <2>2 DEF Lts
    <2> QED
      BY <2>1, <2>2, <2>3, <2>4
  <1>5. PICK a : a = [app EXCEPT !.tasks = app.tasks \ {w}]
    OBVIOUS
  <1>6. /\ a \in AppType /\ a.tasks = app.tasks \ {w}
        /\ a.scan = app.scan /\ a.again = app.again /\ a.headAfter = app.headAfter
        /\ a.gen = app.gen /\ a.inFlight = app.inFlight
        /\ a.activity = app.activity /\ a.hasGap = app.hasGap
        /\ a.incomplete = app.incomplete /\ a.floor = app.floor
        /\ a.recFloor = app.recFloor /\ a.sub = app.sub
    BY <1>2, <1>5 DEF AppType
  <1>7. PICK b : b = [a EXCEPT !.inFlight = 0]
    OBVIOUS
  <1>8. /\ b \in AppType /\ b.tasks = a.tasks /\ b.inFlight = 0
        /\ b.scan = a.scan /\ b.again = a.again /\ b.headAfter = a.headAfter
        /\ b.gen = a.gen
        /\ b.activity = a.activity /\ b.hasGap = a.hasGap
        /\ b.incomplete = a.incomplete /\ b.floor = a.floor
        /\ b.recFloor = a.recFloor /\ b.sub = a.sub
    BY <1>6, <1>7 DEF AppType
  <1>9. Released(app, w, b)
    BY <1>6, <1>8 DEF Released
  <1>10. PICK m : m = Merge(b, w)
    OBVIOUS
  <1>11. /\ app' = IF w.id # app.inFlight THEN a
                   ELSE IF w.gen # app.gen THEN StaleLoaded(b)
                   ELSE FinishRisk(FetchNext(m, w.headOnly))
         /\ explained' = (explained \cup
                IF w.id # app.inFlight THEN {}
                ELSE IF w.gen # app.gen THEN w.rows
                ELSE (app.activity \cup w.rows) \ m.activity)
                \ app'.activity
         /\ announced' = IF announced <= Newest(app'.activity)
                         THEN 0 ELSE announced
         /\ UNCHANGED account /\ faults' = faults /\ atRequest' \in BOOLEAN
    BY <1>5, <1>7, <1>10 DEF TransactionsLoaded, Unheld
  <1>12. announced' \in {0, announced}
    BY <1>11
  <1>13. \A v \in app.tasks : v.id = w.id => v = w
    BY <1>2 DEF Pool
  <1>14. CASE w.id # app.inFlight
    <2>1. app' = a /\ explained' = explained
      BY <1>2, <1>6, <1>11, <1>14 DEF Skips
    <2>2. Sound(a, Visible, head, explained)
      BY <1>1, <1>6, <1>14, LeaveSound
    <2>3. Promised(a, explained, announced)
      <3>1. \A v : Current(app, v) /\ Serves(app, v, announced) =>
                     Current(a, v) /\ Serves(a, v, announced)
        BY <1>6 DEF Current, Serves
      <3>2. \A v \in app.tasks : Current(app, v) => v \in a.tasks
        BY <1>6, <1>14 DEF Current
      <3> QED
        BY <1>1, <1>6, <3>1, <3>2 DEF Promised
    <2>4. /\ announced' = 0 \/ announced' \in Visible
          /\ Ahead(a, Visible, announced')
      BY <1>1, <1>6, <1>12 DEF Ahead, Known
    <2>5. Promised(a, explained, announced')
      BY <1>12, <2>3 DEF Promised
    <2> QED
      BY <1>1, <1>11, <2>1, <2>2, <2>4, <2>5, AppStep
  <1>15. CASE w.id = app.inFlight /\ w.gen # app.gen
    <2>1. PICK y : y = (explained \cup w.rows) \ app.activity
      OBVIOUS
    <2>2. Sound(b, Visible, head, y) /\ explained \subseteq y
      BY <1>1, <1>6, <1>8, <1>9, <1>15, <2>1, StaleSound DEF WorldFacts
    <2>3. ~app.again => announced' = 0 \/ announced' \in explained
      <3>1. ASSUME ~app.again, announced # 0, announced \notin explained
            PROVE  FALSE
        <4>1. app.inFlight # 0
          BY <1>3, <1>15 DEF WalkOK
        <4>2. PICK v \in app.tasks : Current(app, v)
          BY <1>1, <3>1, <4>1 DEF Promised
        <4> QED
          BY <1>13, <1>15, <4>2 DEF Current
      <3> QED
        BY <1>12, <3>1
    <2>4. ~b.again => announced' = 0 \/ announced' \in y
      BY <1>6, <1>8, <2>2, <2>3
    <2>5. PICK n : n = announced'
      OBVIOUS
    <2>6. /\ Sound(StaleLoaded(b), Visible, head, y)
          /\ Promised(StaleLoaded(b), y, n)
          /\ StaleLoaded(b).activity = b.activity
      BY <1>1, <1>8, <2>2, <2>4, <2>5, StaleLoadedSound DEF WorldFacts
    <2>7. app' = StaleLoaded(b) /\ explained' = y
      BY <1>6, <1>8, <1>11, <1>15, <2>1, <2>6
    <2>8. y \subseteq Lts
      BY <1>1, <1>4, <2>1
    <2>9. /\ n = 0 \/ n \in Visible
          /\ Ahead(StaleLoaded(b), Visible, n)
      BY <1>1, <1>6, <1>8, <1>12, <2>5, <2>6 DEF Ahead, Known
    <2> QED
      BY <1>11, <2>5, <2>6, <2>7, <2>8, <2>9, AppStep
  <1>16. CASE w.id = app.inFlight /\ w.gen = app.gen
    <2>1. Current(app, w)
      BY <1>16 DEF Current
    <2>2. Merged(app, w, m)
      BY <1>1, <1>2, <1>3, <1>6, <1>8, <1>9, <1>10, MergeFields DEF WorldFacts
    <2>3. PICK y : y = (explained \cup ((app.activity \cup w.rows) \ m.activity))
                       \ m.activity
      OBVIOUS
    <2>4. Sound(m, Visible, head, y)
      BY <1>1, <1>2, <2>1, <2>2, <2>3, MergeSound DEF WorldFacts
    <2>5. /\ m.inFlight = 0 /\ m.again = app.again /\ m.headAfter = app.headAfter
          /\ m.activity = Cap(app.activity \cup w.rows)
          /\ m.incomplete = (w.gap \/ w.cont # 0 \/ app.scan # NoScan)
          /\ m.scan = IF w.gap THEN NoScan ELSE app.scan
          /\ w.gap => m.hasGap
      BY <2>2 DEF Merged, Released
    <2>6. PICK n : n = IF announced <= Newest(m.activity) THEN 0 ELSE announced
      OBVIOUS
    <2>7. /\ app.activity \cup w.rows \in SUBSET (1..head)
          /\ w.rows \in SUBSET (app.activity \cup w.rows)
          /\ m.activity \in SUBSET (1..head)
          /\ Newest(w.rows) <= Newest(m.activity)
          /\ Newest(m.activity) \in 0..head /\ Newest(w.rows) \in 0..head
          /\ \A l \in m.activity : l <= Newest(m.activity)
      <3>1. /\ app.activity \cup w.rows \in SUBSET (1..head)
            /\ w.rows \in SUBSET (app.activity \cup w.rows)
        BY <1>4
      <3>2. /\ m.activity \subseteq app.activity \cup w.rows
            /\ Newest(m.activity) = Newest(app.activity \cup w.rows)
        BY <1>4, <2>5, <3>1, CapFacts
      <3>3. m.activity \in SUBSET (1..head)
        BY <3>1, <3>2
      <3>4. Newest(w.rows) <= Newest(m.activity)
        BY <1>4, <3>1, <3>2, NewestMonotone
      <3> QED
        BY <1>4, <3>1, <3>3, <3>4, NewestFacts
    <2>8. announced \in 0..head
      BY DEF IInv, World
    <2>9. n # 0 => n = announced /\ Newest(m.activity) < n
      BY <1>4, <2>6, <2>7, <2>8
    <2>10. Owed(m, y, n)
      <3>1. ASSUME n # 0, n \notin y, ~m.again, ~m.headAfter
            PROVE  w.gap
        <4>1. n = announced /\ Newest(m.activity) < n /\ n \in 1..head
          BY <2>8, <2>9, <3>1
        <4>2. n \notin m.activity
          BY <2>7, <4>1
        <4>3. n \notin explained
          BY <2>3, <3>1, <4>2
        <4>4. app.inFlight # 0
          BY <1>3, <1>16 DEF WalkOK
        <4>5. PICK v \in app.tasks : Current(app, v) /\ Serves(app, v, n)
          BY <1>1, <2>5, <3>1, <4>1, <4>3, <4>4 DEF Promised
        <4>6. Serves(app, w, n)
          BY <1>13, <1>16, <4>5 DEF Current
        <4>7. ~(n <= Newest(w.rows))
          BY <2>7, <4>1
        <4> QED
          BY <1>2, <1>3, <2>5, <3>1, <4>6, <4>7 DEF Serves
      <3> QED
        BY <2>5, <3>1 DEF Owed
    <2>11. PICK o \in BOOLEAN : o = w.headOnly
      BY <1>3 DEF WalkType
    <2>12. PICK f : f = FetchNext(m, o)
      OBVIOUS
    <2>13. /\ Sound(f, Visible, head, y) /\ Promised(f, y, n)
           /\ f.activity = m.activity
      BY <1>1, <2>4, <2>5, <2>10, <2>12, FetchNextSound DEF WorldFacts
    <2>14. /\ Sound(FinishRisk(f), Visible, head, y)
           /\ Promised(FinishRisk(f), y, n)
           /\ FinishRisk(f).activity = f.activity
      BY <2>13, FinishRiskSound
    <2>15. app' = FinishRisk(f)
      BY <1>11, <1>16, <2>11, <2>12
    <2>16. explained' = y /\ announced' = n
      BY <1>11, <1>16, <2>3, <2>6, <2>13, <2>14, <2>15
    <2>17. y \subseteq Lts
      BY <1>1, <1>4, <2>3
    <2>18. n = 0 \/ n \in Visible
      BY <1>1, <2>9 DEF Ahead
    <2>19. Ahead(FinishRisk(f), Visible, n)
      BY <2>9, <2>13, <2>14, <2>18 DEF Ahead, Known
    <2> QED
      BY <1>11, <2>14, <2>15, <2>16, <2>17, <2>18, <2>19, AppStep
  <1> QED
    BY <1>14, <1>15, <1>16

-----------------------------------------------------------------------------
(* The theorems.                                                           *)

(* The invariant holds when the wallet is opened.                          *)
LEMMA HistoryInitOK == HistoryInit => IInv
  <1> SUFFICES ASSUME HistoryInit PROVE IInv
    OBVIOUS
  <1>1. /\ head = 1 /\ hidden = {} /\ sends = 0 /\ sent = 0 /\ faults = 0
        /\ announced = 0 /\ atRequest = FALSE /\ explained = {}
    BY DEF HistoryInit
  <1>2. 1 \in OptLt /\ 0 \in OptLt /\ 0 \in OptCutoff /\ 0 \in 0..MaxGeneration
        /\ 0 \in 0..MaxSends /\ NoScan \in ScanType
    BY HistoryAssumptions DEF OptLt, OptCutoff, NoScan, ScanType
  <1>3. World
    <2>1. hidden \subseteq 1..head /\ explained \subseteq Lts
      BY <1>1
    <2>2. sent \in 0..head /\ announced \in 0..head /\ faults \in Nat
      BY <1>1
    <2>3. head \in OptLt /\ sends \in 0..MaxSends /\ atRequest \in BOOLEAN
      BY <1>1, <1>2
    <2> QED
      BY <2>1, <2>2, <2>3 DEF World
  <1>4. /\ app \in AppType /\ app.tasks = {} /\ app.inFlight = 0
        /\ app.scan = NoScan /\ app.activity = {} /\ app.hasGap = TRUE
        /\ app.floor = 0 /\ app.recFloor = 0 /\ app.sub = "connecting"
    BY <1>2 DEF HistoryInit, AppType
  <1>5. Pool(app, Visible, head)
    BY <1>4, FS_EmptySet DEF Pool
  <1>6. Fields(app, Visible, head)
    BY <1>1, <1>4 DEF Fields, NoScan
  <1>7. \A l \in Visible : l \in Nat
    BY <1>1 DEF Visible
  <1>8. Trusted(app, Visible \ explained)
    BY <1>4, <1>7 DEF Trusted, Below
  <1>9. ScanOK(app, Visible \ explained) /\ Walks(app, Visible \ explained)
    BY <1>4 DEF ScanOK, Walks
  <1>10. Skips(app, explained)
    <2>1. \A l \in Lts : ~(l < 0)
      BY DEF Lts
    <2> QED
      BY <1>1, <1>4, <2>1 DEF Skips
  <1>11. Ahead(app, Visible, announced) /\ Promised(app, explained, announced)
    BY <1>1 DEF Ahead, Promised
  <1> QED
    BY <1>3, <1>5, <1>6, <1>8, <1>9, <1>10, <1>11 DEF IInv, Sound

(* Every step keeps the invariant.                                         *)
LEMMA HistoryNextOK == IInv /\ [HistoryNext]_historyVars => IInv'
  <1> SUFFICES ASSUME IInv, [HistoryNext]_historyVars PROVE IInv'
    OBVIOUS
  <1>1. CASE WalkNext
    <2>1. ASSUME NEW w \in app.tasks,
                 PageArrives(w) \/ PageFaults(w) \/ WalkDies(w)
          PROVE  IInv'
      BY <2>1, PageArrivesStep, PageFaultsStep, WalkDiesStep
    <2>2. ASSUME NEW w \in app.tasks,
                 EndpointHistoryScanned(w) \/ TransactionsLoaded(w)
          PROVE  IInv'
      BY <2>2, EndpointHistoryScannedStep, TransactionsLoadedStep
    <2>3. CASE \/ SubscriptionReady \/ SubscriptionUpdate \/ SubscriptionFailed
               \/ Reconnect \/ ManualRefresh
      BY <2>3, SubscriptionReadyStep, SubscriptionUpdateStep,
         SubscriptionFailedStep, ReconnectStep, ManualRefreshStep
    <2>4. ASSUME NEW reopen \in BOOLEAN, Restart(reopen) PROVE IInv'
      BY <2>4, RestartStep
    <2>5. ASSUME NEW ours \in BOOLEAN, NEW late \in BOOLEAN, NewRow(ours, late)
          PROVE  IInv'
      BY <2>5, NewRowStep
    <2>6. ASSUME NEW l \in hidden, IndexRow(l) PROVE IInv'
      BY <2>6, IndexRowStep
    <2> QED
      BY <1>1, <2>1, <2>2, <2>3, <2>4, <2>5, <2>6 DEF WalkNext
  <1>2. CASE TransferNext
    <2>1. ASSUME NEW lt \in 0..head, Send(lt) PROVE IInv'
      BY <2>1, SendStep
    <2>2. CASE RecordAges \/ PollJournal \/ RequestRisk \/ EndRisk
      BY <2>2, RecordAgesStep, PollJournalStep, RequestRiskStep, EndRiskStep
    <2> QED
      BY <1>2, <2>1, <2>2 DEF TransferNext
  <1>3. CASE UNCHANGED historyVars
    <2>1. UNCHANGED <<head, hidden, sends, sent, app, faults, announced,
                      atRequest, explained>>
      BY <1>3 DEF historyVars, account, history
    <2>2. Visible' = Visible
      BY <2>1 DEF Visible
    <2> QED
      BY <2>1, <2>2 DEF IInv, World
  <1> QED
    BY <1>1, <1>2, <1>3 DEF HistoryNext

(* Whatever pages, faults, subscriptions, restarts and sends interleave,   *)
(* the walks, the retained scan, the list and its marks fit together as    *)
(* IInv says (live.rs and events.rs, the reconciliation scan).             *)
THEOREM HistoryInvariant == HistorySpec => []IInv
  BY HistoryInitOK, HistoryNextOK, PTL DEF HistorySpec

(* The guard that admits one fetch at a time is always owned by a walk     *)
(* that will still report, so that no later fetch is coalesced into        *)
(* nothing (FetchCompletionGuard, fetch_in_flight_id in live.rs).          *)
THEOREM HistoryGuard == HistorySpec => []GuardNeverStranded
  <1>1. IInv => GuardNeverStranded
    <2> SUFFICES ASSUME IInv PROVE GuardNeverStranded
      OBVIOUS
    <2>1. /\ WorldFacts /\ World /\ app \in AppType
          /\ Fields(app, Visible, head) /\ Pool(app, Visible, head)
      BY WorldGives DEF IInv, Sound, Fields
    <2>2. app.activity \subseteq 1..head
      BY <2>1 DEF Fields, WorldFacts
    <2>3. {app.floor, app.recFloor} \subseteq 0..head
      BY <2>1, HistoryAssumptions DEF Fields, AppType, OptLt, WorldFacts
    <2>4. \A f \in {"again", "headAfter", "incomplete", "hasGap", "integrity",
                    "blocking"} : app[f] \in BOOLEAN
      BY <2>1 DEF AppType
    <2>5. /\ app.gen \in 0..MaxGeneration
          /\ app.sub \in {"connecting", "live", "failed"}
          /\ app.tasks \subseteq WalkType
          /\ app.inFlight \in Nat
          /\ app.scan \in ScanType
          /\ app.timeFloor \in OptCutoff
          /\ app.risk \in {"none", "checking", "context"}
      BY <2>1 DEF AppType
    <2>6. HistoryTypeOK
      BY <2>1, <2>2, <2>3, <2>4, <2>5 DEF HistoryTypeOK, World
    <2>7. app.inFlight # 0 => \E w \in app.tasks : w.id = app.inFlight
      BY <2>1 DEF Pool
    <2> QED
      BY <2>6, <2>7 DEF GuardNeverStranded
  <1> QED
    BY <1>1, HistoryInvariant, PTL

(* Everything between the cursor of a retained scan and its newest row has *)
(* been walked, through every head refresh and continuation (events.rs,    *)
(* the EndpointHistoryScanned arm).                                        *)
THEOREM HistoryScanWhole == HistorySpec => []ScanHasNoHole
  <1>1. IInv => ScanHasNoHole
    <2> SUFFICES ASSUME IInv, app.scan # NoScan,
                        NEW l \in app.scan.next..Newest(app.scan.rows),
                        l \in Visible \ explained
                 PROVE  l \in app.scan.rows
      BY DEF ScanHasNoHole
    <2>1. ScanOK(app, Visible \ explained)
      BY DEF IInv, Sound
    <2>2. app.scan.next <= l /\ l <= Newest(app.scan.rows)
      OBVIOUS
    <2> QED
      BY <2>1, <2>2 DEF ScanOK
  <1> QED
    BY <1>1, HistoryInvariant, PTL

(* A row the present subscription announced is not forgotten: once nothing *)
(* runs or is queued, it is in the list, or the list is marked unfinished, *)
(* or the row was excluded on purpose (live.rs, fetch_transactions and the *)
(* queue flags it sets; events.rs, the TransactionsLoaded arm).            *)
THEOREM HistoryNoLostUpdate == HistorySpec => []NoLostUpdate
  <1>1. IInv => NoLostUpdate
    <2> SUFFICES ASSUME IInv, Idle, ~app.hasGap, ~app.incomplete
                 PROVE  announced <= Newest(app.activity) \/ announced \in explained
      BY DEF NoLostUpdate
    <2>1. announced = 0 \/ announced \in explained
      BY DEF IInv, Promised, Idle
    <2>2. Known(app) \in 0..head
      <3>1. WorldFacts /\ app.activity \subseteq Visible
        BY WorldGives DEF IInv, Sound, Fields
      <3>2. app.activity \in SUBSET (1..head) /\ head \in Nat
        BY <3>1 DEF WorldFacts
      <3> QED
        BY <3>2, NewestFacts DEF Known
    <2> QED
      BY <2>1, <2>2 DEF Known
  <1> QED
    BY <1>1, HistoryInvariant, PTL

(* A list that carries no gap mark and no incomplete mark misses no row up *)
(* to its newest one, except the rows that were excluded on purpose, the   *)
(* ones the cap dropped, and those that came too late or to a subscription *)
(* that had ended (events.rs, merge_activity and the marks).               *)
THEOREM HistoryHolesExplained == HistorySpec => []EveryHoleIsExplained
  <1>1. IInv => EveryHoleIsExplained
    <2> SUFFICES ASSUME IInv, ~app.hasGap, ~app.incomplete, NEW l \in Missing,
                        l \notin explained
                 PROVE  FALSE
      BY DEF EveryHoleIsExplained
    <2>1. Below(app, Visible \ explained, Known(app) + 1)
      BY DEF IInv, Sound, Trusted
    <2>2. /\ l \in Visible \ explained /\ l \notin app.activity
          /\ l <= Known(app)
      BY DEF Missing, Known
    <2>3. WorldFacts /\ app.activity \subseteq Visible
      BY WorldGives DEF IInv, Sound, Fields
    <2>4. PICK k \in 0..head : k = Known(app)
      <3>1. app.activity \in SUBSET (1..head) /\ head \in Nat
        BY <2>3 DEF WorldFacts
      <3> QED
        BY <3>1, NewestFacts DEF Known
    <2>5. l \in 1..head
      BY <2>2, <2>3 DEF WorldFacts
    <2>6. l < k + 1
      BY <2>2, <2>4, <2>5
    <2> QED
      BY <2>1, <2>2, <2>4, <2>6 DEF Below
  <1> QED
    BY <1>1, HistoryInvariant, PTL

-----------------------------------------------------------------------------
(* The review of an unresolved transfer.  A second inductive invariant,    *)
(* for an endpoint that indexes in order: s is the row of the transfer     *)
(* while it may still be found, or else the row after the head, for which  *)
(* nothing but the bounds has to be kept; r says that the transfer was     *)
(* listed when the review was asked for.                                   *)

\* The walk whose report will be taken, and that has met no gap.
Heard(a) == {w \in a.tasks : Current(a, w) /\ ~w.gap}

\* No floor, stop or cutoff hides row s.
Limits(a, s) ==
    /\ a.timeFloor <= s
    /\ a.floor < s
    /\ a.recFloor < s
    /\ a.scan.cutoff <= s
    /\ a.scan.stop < s

\* The retained scan has met s, is still above it, or began below it.
ScanMeets(a, s) ==
    a.scan # NoScan => \/ s \in a.scan.rows
                       \/ s < a.scan.next
                       \/ Newest(a.scan.rows) < s

\* So has the walk; one whose report ended the scan without a match began
\* below s.
Sees(a, w, s) ==
    /\ w.cutoff <= s
    /\ ~w.headOnly => w.stop < s
    /\ Walked(w, {s}, 0)
    /\ w.st = "observed" /\ w.cont = 0 /\ a.scan = NoScan => Newest(w.rows) < s

Meets(a, s) ==
    /\ Limits(a, s)
    /\ ScanMeets(a, s)
    /\ \A w \in Heard(a) : Sees(a, w, s)

\* The walk will reach s, or it began above it.
Sought(a, w, s) ==
    \/ Unread(w) /\ w.start = 0
    \/ s <= Newest(w.rows)
    \/ a.scan # NoScan /\ s <= Newest(a.scan.rows)

\* The review waits for a walk that covers s, or for one that is queued.
Seeks(a, s, r) ==
    a.risk = "checking" /\ r /\ ~a.again /\ ~a.headAfter
        => \A w \in Heard(a) : Sought(a, w, s)

\* What a fetch needs of the controller's fields, and what it establishes.
Waits(a, s, r) ==
    /\ Meets(a, s)
    /\ a.risk # "none" => a.blocking
    /\ a.risk = "context" => ~r

Reviewed(a, s, r) ==
    /\ Waits(a, s, r)
    /\ Seeks(a, s, r)
    /\ a.risk = "checking" => a.inFlight # 0

\* The rows that are looked for.
Aims(a, h, s) ==
    /\ s \in 1..h + 1
    /\ s >= h - MaxAge
    /\ s <= h => a.blocking

Aim == IF sent # 0 /\ sent >= head - MaxAge THEN sent ELSE head + 1
Asked == atRequest /\ sent >= head - MaxAge

RInv ==
    /\ hidden = {}
    /\ sent # 0 => app.blocking
    /\ atRequest => sent # 0
    /\ Reviewed(app, Aim, Asked)

-----------------------------------------------------------------------------
(* Fields that the review does not read.                                   *)

\* What Meets reads of the controller is the same in a and b.
Keeps(a, b) ==
    /\ b.tasks = a.tasks /\ b.inFlight = a.inFlight /\ b.gen = a.gen
    /\ b.scan = a.scan /\ b.floor = a.floor /\ b.recFloor = a.recFloor
    /\ b.timeFloor = a.timeFloor /\ b.blocking = a.blocking

(* Fields that Meets does not read change.                                 *)
LEMMA MeetsFrame ==
    ASSUME NEW s, NEW a, NEW b, Meets(a, s), Keeps(a, b)
    PROVE  Meets(b, s) /\ Heard(b) = Heard(a)
  <1>1. Heard(b) = Heard(a)
    BY DEF Heard, Current, Keeps
  <1>2. Limits(b, s) /\ ScanMeets(b, s)
    BY DEF Keeps, Meets, Limits, ScanMeets
  <1>3. \A w : Sees(a, w, s) => Sees(b, w, s)
    BY DEF Sees, Keeps
  <1> QED
    BY <1>1, <1>2, <1>3 DEF Meets

(* No walk is listened to.                                                 *)
LEMMA NobodyHeard ==
    ASSUME NEW V, NEW h, NEW a, Pool(a, V, h), a.inFlight = 0
    PROVE  Heard(a) = {}
  <1>1. \A w \in a.tasks : w.id # 0
    BY DEF Pool, WalkOK
  <1> QED
    BY <1>1 DEF Heard, Current

(* What was listed when the review was asked for may be forgotten.         *)
LEMMA LessAsked ==
    ASSUME NEW s, NEW a, NEW r \in BOOLEAN, NEW q \in BOOLEAN, q => r,
           Reviewed(a, s, r)
    PROVE  Reviewed(a, s, q)
  BY DEF Reviewed, Waits, Seeks

-----------------------------------------------------------------------------
(* Fetches.                                                                *)

(* The bounds of a new walk do not hide the transfer.                      *)
LEMMA NewWalkSees ==
    ASSUME NEW h \in 0..MaxLt, NEW V \in SUBSET (1..h), NEW x, NEW a,
           Sound(a, V, h, x), NEW o \in Flag, NEW s, Aims(a, h, s),
           Limits(a, s), NEW b
    PROVE  Sees(b, NewWalk(a, o), s)
  <1> DEFINE w == NewWalk(a, o)
             d == Bounds(a, o)
  <1>0. /\ h \in Nat /\ MaxLt \in Nat /\ s \in Nat \ {0} /\ s \in 1..h+1
        /\ (s <= h => a.blocking)
        /\ a \in AppType /\ Fields(a, V, h)
    BY HistoryAssumptions DEF Aims, Sound, Fields
  <1>1. /\ w \in WalkType
        /\ w.id = FreshId(a) /\ w.gen = a.gen /\ w.headOnly = o
        /\ \A v \in a.tasks : v.id # w.id
        /\ WalkOK(w, V, h)
        /\ Unread(w) /\ w.gap = FALSE /\ w.rows = {} /\ w.cont = 0
        /\ w.st = "walking" /\ w.before = w.start
        /\ o = TRUE => w.start = 0 /\ w.stop = Known(a)
        /\ o = FALSE => Below(a, V \ x, w.stop) /\ Joins(a, w)
    BY NewWalkFacts
  <1>2. w.stop = d.stop /\ w.cutoff = d.cutoff
    BY DEF NewWalk
  <1>3. Known(a) \in 0..h
    <2>1. a.activity \in SUBSET (1..h)
      BY <1>0 DEF Fields
    <2> QED
      BY <1>0, <2>1, NewestFacts DEF Known
  <1>4. a.timeFloor \in Nat /\ a.blocking \in BOOLEAN /\ a.floor \in Nat
        /\ a.recFloor \in Nat
    BY <1>0 DEF AppType, OptCutoff, OptLt
  <1>5. PICK t \in Nat, f \in Nat, q \in Nat, k \in 0..h :
           t = a.timeFloor /\ f = a.floor /\ q = a.recFloor /\ k = Known(a)
    BY <1>3, <1>4
  <1>6. t <= s /\ f < s /\ q < s /\ a.scan.cutoff <= s /\ a.scan.stop < s
    BY <1>5 DEF Limits
  <1>7. \/ d.cutoff = 0 \/ d.cutoff = t \/ d.cutoff = a.scan.cutoff
    BY <1>5 DEF Bounds
  <1>8. d.cutoff <= s
    BY <1>0, <1>6, <1>7
  <1>9. o = FALSE => \/ d.stop = 0 \/ d.stop = f \/ d.stop = q
                     \/ d.stop = a.scan.stop
                     \/ d.stop = k /\ ~a.blocking
    BY <1>5 DEF Bounds, Known
  <1>10. o = FALSE => d.stop < s
    <2>1. ~a.blocking => k < s
      BY <1>0
    <2> QED
      BY <1>0, <1>6, <1>9, <2>1
  <1> HIDE DEF w, d
  <1>11. Walked(w, {s}, 0)
    <2>1. Newest({}) = 0
      BY DEF Newest
    <2>2. w.start \in Nat
      BY <1>0, <1>1 DEF WalkType, OptLt
    <2>3. w.start # 0 => WholeDownTo(w, w.start, {s}, 0)
      BY <1>0, <1>1, <2>1, <2>2 DEF WholeDownTo, InReach
    <2> QED
      BY <1>1, <2>3 DEF Walked
  <1> QED
    BY <1>1, <1>2, <1>8, <1>10, <1>11 DEF Sees, w, Flag

\* The flags and floors of the review after a fetch.
SameReview(a, b) ==
    /\ b.timeFloor = a.timeFloor /\ b.blocking = a.blocking
    /\ b.risk = a.risk /\ b.floor = a.floor /\ b.recFloor = a.recFloor
    /\ b.scan = a.scan /\ b.headAfter = a.headAfter

(* A fetch leaves the floors of the review alone                           *)
(* (fetch_transactions_inner, live.rs).                                    *)
LEMMA FetchInnerReview ==
    ASSUME NEW a \in AppType, NEW o
    PROVE  SameReview(a, FetchInner(a, o))
  BY DEF FetchInner, AppType, SameReview

\* A walk that begins now covers s, or another will be asked for.
Covers(a, o, s, r) ==
    \/ o = TRUE \/ a.scan = NoScan \/ a.headAfter
    \/ a.risk = "checking" /\ r /\ ~a.again => s <= Newest(a.scan.rows)

(* A walk begins for the review, or for what comes before it.              *)
LEMMA StartReviewed ==
    ASSUME NEW h \in 0..MaxLt, NEW V \in SUBSET (1..h), NEW x, NEW a,
           Sound(a, V, h, x), NEW o \in Flag, a.inFlight = 0,
           NEW s, Aims(a, h, s), NEW r \in BOOLEAN, Waits(a, s, r),
           Covers(a, o, s, r)
    PROVE  /\ Reviewed(FetchInner(a, o), s, r)
           /\ FetchInner(a, o).blocking = a.blocking
  <1> DEFINE w == NewWalk(a, o)
             f == FetchInner(a, o)
  <1>1. a \in AppType /\ Pool(a, V, h)
    BY DEF Sound, Fields
  <1>2. /\ w \in WalkType
        /\ w.id = FreshId(a) /\ w.gen = a.gen /\ w.headOnly = o
        /\ \A v \in a.tasks : v.id # w.id
        /\ WalkOK(w, V, h)
        /\ Unread(w) /\ w.gap = FALSE /\ w.rows = {} /\ w.cont = 0
        /\ w.st = "walking" /\ w.before = w.start
        /\ o = TRUE => w.start = 0 /\ w.stop = Known(a)
        /\ o = FALSE => Below(a, V \ x, w.stop) /\ Joins(a, w)
    BY NewWalkFacts
  <1>3. /\ f \in AppType
        /\ f.tasks = a.tasks \cup {w}
        /\ f.inFlight = w.id
        /\ f.gen = a.gen /\ f.again = a.again
        /\ f.headAfter = a.headAfter /\ f.scan = a.scan
    BY <1>1, <1>2, FetchInnerFields
  <1>4. SameReview(a, f)
    BY <1>1, FetchInnerReview
  <1>5. Limits(a, s) /\ ScanMeets(a, s)
    BY DEF Waits, Meets
  <1>6. Sees(f, w, s)
    BY <1>5, NewWalkSees
  <1> HIDE DEF w, f
  <1>7. Heard(f) = {w}
    BY <1>2, <1>3 DEF Heard, Current
  <1>8. Meets(f, s)
    BY <1>4, <1>5, <1>6, <1>7 DEF Meets, Limits, ScanMeets, SameReview
  <1>9. Seeks(f, s, r)
    <2> SUFFICES ASSUME f.risk = "checking", r, ~f.again, ~f.headAfter
                 PROVE  Sought(f, w, s)
      BY <1>7 DEF Seeks
    <2>1. o = TRUE \/ a.scan = NoScan => w.start = 0
      BY <1>2 DEF Joins, Flag
    <2>2. CASE o = TRUE \/ a.scan = NoScan
      BY <1>2, <2>1, <2>2 DEF Sought
    <2>3. CASE a.scan # NoScan /\ s <= Newest(a.scan.rows)
      BY <1>3, <2>3 DEF Sought
    <2> QED
      BY <1>3, <1>4, <2>2, <2>3 DEF SameReview, Covers
  <1>10. f.inFlight # 0
    BY <1>2, <1>3 DEF WalkOK
  <1>11. f.blocking = a.blocking
    BY <1>4 DEF SameReview
  <1>12. Reviewed(f, s, r)
    BY <1>4, <1>8, <1>9, <1>10 DEF Reviewed, Waits, SameReview
  <1> QED
    BY <1>11, <1>12 DEF f

(* A fetch behind a walk under way.                                        *)
LEMMA QueueReviewed ==
    ASSUME NEW a \in AppType, NEW o, a.inFlight # 0,
           NEW s, NEW r, Waits(a, s, r)
    PROVE  /\ Reviewed(FetchInner(a, o), s, r)
           /\ FetchInner(a, o).blocking = a.blocking
  <1>1. PICK b : b = [a EXCEPT !.again = TRUE]
    OBVIOUS
  <1>2. FetchInner(a, o) = b
    BY <1>1 DEF FetchInner
  <1>3. Keeps(a, b) /\ b.again /\ b.risk = a.risk
    BY <1>1 DEF AppType, Keeps
  <1>4. Meets(b, s)
    BY <1>3, MeetsFrame DEF Waits
  <1>5. b.blocking = a.blocking /\ b.inFlight = a.inFlight
    BY <1>3 DEF Keeps
  <1> QED
    BY <1>2, <1>3, <1>4, <1>5 DEF Reviewed, Waits, Seeks

(* After a fetch, the review waits for a walk of the head or for one that  *)
(* is queued (fetch_transactions, live.rs).                                *)
LEMMA FetchReviewed ==
    ASSUME NEW h \in 0..MaxLt, NEW V \in SUBSET (1..h), NEW x, NEW a,
           Sound(a, V, h, x), NEW s, Aims(a, h, s), NEW r \in BOOLEAN,
           Waits(a, s, r)
    PROVE  Reviewed(Fetch(a), s, r) /\ Fetch(a).blocking = a.blocking
  <1>1. a \in AppType
    BY DEF Sound, Fields
  <1>2. PICK k \in BOOLEAN :
           k = (a.headAfter \/ (a.inFlight = 0 /\ a.scan # NoScan))
    OBVIOUS
  <1>3. PICK b : b = [a EXCEPT !.headAfter = k]
    OBVIOUS
  <1>4. PICK o \in Flag : o = FALSE
    BY DEF Flag
  <1>5. Fetch(a) = FetchInner(b, o)
    BY <1>1, <1>2, <1>3, <1>4 DEF Fetch, AppType
  <1>6. /\ b \in AppType /\ b.headAfter = k
        /\ b.gen = a.gen /\ b.tasks = a.tasks /\ b.inFlight = a.inFlight
        /\ b.activity = a.activity /\ b.hasGap = a.hasGap
        /\ b.incomplete = a.incomplete /\ b.floor = a.floor
        /\ b.recFloor = a.recFloor /\ b.sub = a.sub /\ b.scan = a.scan
    BY <1>1, <1>3 DEF AppType
  <1>7. Keeps(a, b) /\ b.risk = a.risk
    BY <1>1, <1>3 DEF AppType, Keeps
  <1>8. Sound(b, V, h, x)
    BY <1>6, FlagFrame
  <1>9. b.blocking = a.blocking
    BY <1>7 DEF Keeps
  <1>10. Meets(b, s)
    BY <1>7, MeetsFrame DEF Waits
  <1>11. Waits(b, s, r) /\ Aims(b, h, s)
    BY <1>7, <1>9, <1>10 DEF Waits, Aims
  <1>12. CASE a.inFlight # 0
    <2>1. b.inFlight # 0
      BY <1>6, <1>12
    <2> QED
      BY <1>5, <1>6, <1>9, <1>11, <2>1, QueueReviewed
  <1>13. CASE a.inFlight = 0
    <2>1. b.inFlight = 0 /\ Covers(b, o, s, r)
      BY <1>2, <1>6, <1>13 DEF Covers
    <2>2. Reviewed(FetchInner(b, o), s, r) /\ FetchInner(b, o).blocking = b.blocking
      BY <1>8, <1>11, <2>1, StartReviewed
    <2> QED
      BY <1>5, <1>9, <2>2
  <1> QED
    BY <1>12, <1>13

-----------------------------------------------------------------------------
(* The pages of a walk, and the frame of a step.                           *)

(* What is looked for is a row that the endpoint shows, or the next one.   *)
LEMMA AimFacts ==
    ASSUME IInv, RInv
    PROVE  /\ Aims(app, head, Aim) /\ Visible = 1..head /\ Asked \in BOOLEAN
           /\ Reviewed(app, Aim, Asked) /\ (Asked => Aim <= head)
  <1>1. WorldFacts /\ sent \in 0..head /\ hidden = {} /\ atRequest \in BOOLEAN
        /\ (sent # 0 => app.blocking) /\ (atRequest => sent # 0)
        /\ MaxAge \in Nat
    BY WorldGives, HistoryAssumptions DEF IInv, World, RInv
  <1>2. Aims(app, head, Aim)
    BY <1>1 DEF Aims, Aim, WorldFacts
  <1>3. Asked => Aim <= head
    BY <1>1 DEF Aim, Asked, WorldFacts
  <1> QED
    BY <1>1, <1>2, <1>3 DEF Visible, Asked, RInv

(* A step that leaves the account and the transfer alone.                  *)
LEMMA ReviewStep ==
    ASSUME IInv, RInv, UNCHANGED account, atRequest' => atRequest,
           NEW b, app' = b, b.blocking = app.blocking, Reviewed(b, Aim, Asked),
           atRequest' \in BOOLEAN
    PROVE  RInv'
  <1>1. UNCHANGED <<head, hidden, sends, sent>>
    BY DEF account
  <1>2. Aim' = Aim
    BY <1>1 DEF Aim
  <1>3. (Asked' => Asked) /\ Asked \in BOOLEAN /\ Asked' \in BOOLEAN
    BY <1>1 DEF Asked, IInv, World
  <1>4. PICK s : s = Aim
    OBVIOUS
  <1>5. PICK r \in BOOLEAN, q \in BOOLEAN : r = Asked /\ q = Asked'
    BY <1>3
  <1>6. Reviewed(b, s, q)
    BY <1>3, <1>4, <1>5, LessAsked
  <1>7. Reviewed(b, Aim, Asked')
    BY <1>4, <1>5, <1>6
  <1>8. /\ hidden' = {} /\ (sent' # 0 => b.blocking)
        /\ (atRequest' => sent' # 0)
    BY <1>1 DEF RInv
  <1> QED
    BY <1>2, <1>7, <1>8 DEF RInv

(* A walk goes on.                                                         *)
LEMMA ReplaceReviewed ==
    ASSUME NEW a \in AppType, NEW V, NEW h, Pool(a, V, h),
           NEW w \in a.tasks, NEW n \in WalkType,
           n.id = w.id, n.gen = w.gen, NEW s, NEW r, Reviewed(a, s, r),
           Current(a, w) /\ ~n.gap =>
             ~w.gap /\ (Sees(a, w, s) => Sees(a, n, s)),
           Current(a, w) /\ ~n.gap /\ a.risk = "checking" /\ r
             => (Sought(a, w, s) => Sought(a, n, s))
    PROVE  /\ Reviewed(Replace(a, w, n), s, r)
           /\ Replace(a, w, n).blocking = a.blocking
  <1>1. PICK b : b = Replace(a, w, n)
    OBVIOUS
  <1>2. /\ b.tasks = (a.tasks \ {w}) \cup {n}
        /\ b.inFlight = a.inFlight
        /\ b.gen = a.gen /\ b.again = a.again
        /\ b.headAfter = a.headAfter /\ b.scan = a.scan
        /\ b.floor = a.floor
        /\ b.recFloor = a.recFloor /\ b.blocking = a.blocking
        /\ b.risk = a.risk
    BY <1>1, ReplaceFields
  <1>3. b.timeFloor = a.timeFloor
    BY <1>1 DEF Replace, AppType
  <1>4. \A v \in Heard(b) : v \in Heard(a) \/ v = n
    BY <1>2 DEF Heard, Current
  <1>5. n \in Heard(b) => Current(a, w) /\ ~n.gap
    BY <1>2 DEF Heard, Current
  <1>6. Current(a, w) /\ ~n.gap => w \in Heard(a)
    BY DEF Heard
  <1>7. \A v : (Sees(a, v, s) => Sees(b, v, s)) /\ (Sought(a, v, s) => Sought(b, v, s))
    BY <1>2 DEF Sees, Sought
  <1>8. Meets(a, s) /\ Seeks(a, s, r)
    BY DEF Reviewed, Waits
  <1>9. Limits(b, s) /\ ScanMeets(b, s)
    BY <1>2, <1>3, <1>8 DEF Meets, Limits, ScanMeets
  <1>10. ASSUME NEW v \in Heard(b) PROVE Sees(b, v, s)
    <2>1. CASE v \in Heard(a)
      BY <1>7, <1>8, <2>1 DEF Meets
    <2>2. CASE v = n
      <3>1. Current(a, w) /\ ~n.gap
        BY <1>5, <1>10, <2>2
      <3>2. Sees(a, w, s)
        BY <1>6, <1>8, <3>1 DEF Meets
      <3> QED
        BY <1>7, <2>2, <3>1, <3>2
    <2> QED
      BY <1>4, <2>1, <2>2
  <1>11. Meets(b, s)
    BY <1>9, <1>10 DEF Meets
  <1>12. Seeks(b, s, r)
    <2> SUFFICES ASSUME b.risk = "checking", r, ~b.again, ~b.headAfter,
                        NEW v \in Heard(b)
                 PROVE  Sought(b, v, s)
      BY DEF Seeks
    <2>0. /\ a.risk = "checking" /\ r /\ ~a.again /\ ~a.headAfter
          /\ \A u \in Heard(a) : Sought(a, u, s)
      BY <1>2, <1>8 DEF Seeks
    <2>1. CASE v \in Heard(a)
      BY <1>7, <2>0, <2>1
    <2>2. CASE v = n
      <3>1. Current(a, w) /\ ~n.gap
        BY <1>5, <2>2
      <3>2. Sought(a, w, s)
        BY <1>6, <2>0, <3>1
      <3> QED
        BY <1>7, <2>0, <2>2, <3>1, <3>2
    <2> QED
      BY <1>4, <2>1, <2>2
  <1> QED
    BY <1>1, <1>2, <1>11, <1>12 DEF Reviewed, Waits

(* A page keeps the transfer in the walk's reach: the first page of a walk *)
(* of the head cuts off at an age the transfer has not reached, and a page *)
(* is served whole.                                                        *)
LEMMA ReadPageSees ==
    ASSUME NEW h \in 0..MaxLt, NEW V, V = 1..h, NEW w \in WalkType,
           WalkOK(w, V, h), w.st = "walking", NEW c \in Nat,
           c = w.before \/ c = 0, NEW page, IsPage(page, V, c),
           NEW n, n = ReadPage(w, page, {}), ~n.gap,
           NEW a, NEW s, Aims(a, h, s), Sees(a, w, s)
    PROVE  Sees(a, n, s) /\ (s <= h => (Sought(a, w, s) => Sought(a, n, s)))
  <1>0. /\ h \in Nat /\ MaxLt \in Nat /\ MaxAge \in Nat /\ V \in SUBSET (1..h)
        /\ page \in SUBSET (1..h) /\ {} \subseteq page /\ page \subseteq V
        /\ s \in Nat /\ s \in 1..h + 1 /\ s >= h - MaxAge
        /\ w.rows \subseteq V /\ w.pages # 0 /\ w.cont = 0
        /\ w.stop <= h /\ w.start <= h
        /\ w.cutoff \in Nat /\ w.stop \in Nat /\ w.start \in Nat
    <2>1. /\ h \in Nat /\ MaxLt \in Nat /\ MaxAge \in Nat
          /\ s \in 1..h + 1 /\ s >= h - MaxAge
      BY HistoryAssumptions DEF Aims
    <2>2. s \in Nat
      BY <2>1
    <2>3. page \subseteq V
      BY DEF IsPage
    <2>4. /\ w.rows \subseteq V /\ w.pages # 0 /\ w.cont = 0
          /\ w.stop <= h /\ w.start <= h
      BY DEF WalkOK
    <2>5. w.cutoff \in Nat /\ w.stop \in Nat /\ w.start \in Nat
      BY <2>1 DEF WalkType, OptLt, OptCutoff
    <2> QED
      BY <2>1, <2>2, <2>3, <2>4, <2>5
  <1>1. PageRead(w, page, {}, n)
    BY <1>0, ReadPageFields
  <1>2. /\ n \in WalkType
        /\ n.headOnly = w.headOnly
        /\ n.start = w.start /\ n.stop = w.stop
        /\ n.st \in {"walking", "done"}
        /\ n.cutoff = IF w.start = 0 /\ w.pages = MaxPages
                      THEN Larger(w.cutoff, AtLeast0(Newest(page) - MaxAge))
                      ELSE w.cutoff
    BY <1>1 DEF PageRead
  <1>3. PICK t \in SUBSET page :
             /\ t = Taken(w, page, n.cutoff)
             /\ n.rows = w.rows \cup t
             /\ \/ n.st = "done" /\ n.cont = 0 /\ Ends(w, page, t)
                \/ /\ t = page /\ page # {}
                   /\ \/ n.st = "walking" /\ n.before = Oldest(page) /\ n.cont = 0
                      \/ n.st = "done" /\ n.cont = Oldest(page)
    BY <1>1 DEF PageRead
  <1>4. PICK p \in 0..h : p = Newest(page)
    BY <1>0, NewestFacts
  <1>5. w.cutoff <= s /\ (~w.headOnly => w.stop < s) /\ Walked(w, {s}, 0)
    BY DEF Sees
  <1>6. n.cutoff <= s
    BY <1>0, <1>2, <1>4, <1>5 DEF Larger, AtLeast0
  <1>7. n.rows \in SUBSET (1..h) /\ w.rows \in SUBSET (1..h) /\ w.rows \in SUBSET n.rows
    BY <1>0, <1>3
  <1>8. PICK i \in 0..h, j \in 0..h : i = Newest(n.rows) /\ j = Newest(w.rows)
    BY <1>0, <1>7, NewestFacts
  <1>9. j <= i
    BY <1>0, <1>7, <1>8, NewestMonotone
  <1>10. Walked(n, {s}, 0)
    <2>1. CASE s = h + 1
      <3>1. \A d : WholeDownTo(n, d, {s}, 0)
        <4>1. ~(s <= i) /\ ~(s <= 0) /\ ~(s < n.start)
          BY <1>0, <1>2, <2>1
        <4> QED
          BY <1>8, <4>1 DEF WholeDownTo, InReach
      <3> QED
        BY <3>1 DEF Walked
    <2>2. CASE s # h + 1
      <3>1. s \in V
        BY <1>0, <2>2
      <3>2. PICK x : x = V \ {s}
        OBVIOUS
      <3>3. V \ x = {s}
        BY <3>1, <3>2
      <3>4. c # 0 => WholeDownTo(w, c, V \ x, 0)
        BY <1>5, <3>3 DEF Walked
      <3>5. PageTaken(w, page, t, n)
        BY <1>2, <1>3 DEF PageTaken
      <3>6. PICK k \in Nat : k = 0
        OBVIOUS
      <3>7. PageMet(w, page, t, n, V \ x, k)
        BY <1>0, <3>4, <3>5, <3>6, PageIsMet
      <3>8. page # {} => Oldest(page) # 0
        <4>1. page # {} => Oldest(page) \in page
          BY <1>0, OldestFacts
        <4> QED
          BY <1>0, <4>1
      <3> QED
        BY <1>3, <3>3, <3>6, <3>7, <3>8 DEF Walked, PageMet
    <2> QED
      BY <2>1, <2>2
  <1>11. Sees(a, n, s)
    BY <1>2, <1>5, <1>6, <1>10 DEF Sees
  <1>12. ASSUME s <= h, Sought(a, w, s) PROVE Sought(a, n, s)
    <2>1. CASE s <= Newest(w.rows)
      BY <1>0, <1>8, <1>9, <2>1 DEF Sought
    <2>2. CASE a.scan # NoScan /\ s <= Newest(a.scan.rows)
      BY <2>2 DEF Sought
    <2>3. CASE Unread(w) /\ w.start = 0
      <3>1. c = 0
        BY <2>3 DEF WalkOK
      <3>2. s \in V /\ V # {} /\ h \in V
        <4>1. s \in 1..h /\ h \in 1..h
          BY <1>0, <1>12
        <4> QED
          BY <4>1
      <3>3. PICK m \in 1..h : m = Newest(V)
        BY <1>0, <3>2, NewestFacts
      <3>4. m \in page /\ h <= m
        BY <1>0, <3>1, <3>2, <3>3, NewestFacts DEF IsPage
      <3>5. m \in t
        <4>1. n.cutoff \in Nat
          BY <1>0, <1>2 DEF WalkType, OptCutoff
        <4>2. m >= w.stop /\ m >= n.cutoff
          BY <1>0, <1>6, <1>12, <3>3, <3>4, <4>1
        <4> QED
          BY <1>3, <3>4, <4>2 DEF Taken
      <3>6. m <= Newest(n.rows)
        BY <1>0, <1>3, <1>7, <3>5, NewestFacts
      <3>7. s <= i
        BY <1>0, <1>8, <1>12, <3>4, <3>6
      <3> QED
        BY <1>8, <3>7 DEF Sought
    <2> QED
      BY <1>12, <2>1, <2>2, <2>3 DEF Sought
  <1> QED
    BY <1>11, <1>12

(* A page arrives, whole or not, of the cursor or of the head.             *)
LEMMA PageReview ==
    ASSUME IInv, RInv, NEW w \in app.tasks, w.st = "walking", NEW c \in Nat,
           c = w.before \/ c = 0, NEW lost \in SUBSET PageBelow(c),
           app' = Replace(app, w, ReadPage(w, PageBelow(c), lost)),
           UNCHANGED <<account, history>>
    PROVE  RInv'
  <1>1. /\ WorldFacts /\ hidden \subseteq 1..head /\ head \in 0..MaxLt
        /\ Sound(app, Visible, head, explained)
    BY WorldGives DEF IInv, World, WorldFacts
  <1>2. /\ app \in AppType /\ Pool(app, Visible, head)
        /\ w \in WalkType /\ WalkOK(w, Visible, head)
    BY <1>1 DEF Sound, Fields, AppType, Pool
  <1>3. PICK page : page = PageBelow(c)
    OBVIOUS
  <1>4. IsPage(page, Visible, c) /\ lost \subseteq page
    BY <1>1, <1>3, PageIsPage DEF WorldFacts
  <1>5. PICK n : n = ReadPage(w, page, lost)
    OBVIOUS
  <1>6. PageRead(w, page, lost, n)
    <2>1. page \subseteq 1..head
      BY <1>1, <1>4 DEF WorldFacts, IsPage
    <2>2. w.pages # 0 /\ w.cont = 0
      BY <1>2 DEF WalkOK
    <2> QED
      BY <1>1, <1>2, <1>4, <1>5, <2>1, <2>2, ReadPageFields
  <1>7. /\ n \in WalkType /\ n.id = w.id /\ n.gen = w.gen
        /\ w.gap \/ lost # {} => n.gap
    BY <1>6 DEF PageRead
  <1>8. PICK s : s = Aim
    OBVIOUS
  <1>9. PICK r \in BOOLEAN : r = Asked
    BY AimFacts
  <1>10. s = Aim /\ r = Asked
    BY <1>8, <1>9
  <1>11. /\ Aims(app, head, s) /\ Visible = 1..head /\ Reviewed(app, s, r)
         /\ r => s <= head
    BY <1>10, AimFacts
  <1>12. ASSUME ~n.gap
         PROVE  /\ ~w.gap /\ (Sees(app, w, s) => Sees(app, n, s))
                /\ Sees(app, w, s) /\ s <= head =>
                     (Sought(app, w, s) => Sought(app, n, s))
    <2>1. ~w.gap /\ lost = {}
      BY <1>7, <1>12
    <2>2. n = ReadPage(w, page, {})
      BY <1>5, <2>1
    <2> QED
      BY <1>1, <1>2, <1>4, <1>11, <1>12, <2>1, <2>2, ReadPageSees
  <1>13. Current(app, w) /\ ~w.gap => Sees(app, w, s)
    BY <1>11 DEF Reviewed, Waits, Meets, Heard
  <1>14. /\ Reviewed(Replace(app, w, n), s, r)
         /\ Replace(app, w, n).blocking = app.blocking
    BY <1>2, <1>7, <1>11, <1>12, <1>13, ReplaceReviewed
  <1>15. /\ app' = Replace(app, w, n) /\ UNCHANGED account
         /\ atRequest' = atRequest /\ atRequest \in BOOLEAN
    BY <1>3, <1>5 DEF history, IInv, World
  <1> QED
    BY <1>10, <1>14, <1>15, ReviewStep

(* A walk ends with a gap.                                                 *)
LEMMA GapReview ==
    ASSUME IInv, RInv, NEW w \in app.tasks, NEW n, Failed(w, n),
           app' = Replace(app, w, n), UNCHANGED <<account, history>>
    PROVE  RInv'
  <1>1. /\ app \in AppType /\ Pool(app, Visible, head)
    BY DEF IInv, Sound, Fields
  <1>2. n \in WalkType /\ n.id = w.id /\ n.gen = w.gen /\ n.gap = TRUE
    BY DEF Failed
  <1>3. PICK s : s = Aim
    OBVIOUS
  <1>4. PICK r \in BOOLEAN : r = Asked
    BY AimFacts
  <1>5. s = Aim /\ r = Asked
    BY <1>3, <1>4
  <1>6. Reviewed(app, s, r)
    BY <1>5, AimFacts
  <1>7. /\ Reviewed(Replace(app, w, n), s, r)
        /\ Replace(app, w, n).blocking = app.blocking
    BY <1>1, <1>2, <1>6, ReplaceReviewed
  <1>8. UNCHANGED account /\ atRequest' = atRequest /\ atRequest \in BOOLEAN
    BY DEF history, IInv, World
  <1> QED
    BY <1>5, <1>7, <1>8, ReviewStep

(* A page of a walk arrives or fails, or the walk dies.                    *)
LEMMA WalkReview ==
    ASSUME IInv, RInv, NEW w \in app.tasks,
           PageArrives(w) \/ PageFaults(w) \/ WalkDies(w)
    PROVE  RInv'
  <1>1. w \in WalkType /\ w.st = "walking"
    BY DEF PageArrives, PageFaults, WalkDies, Walking, IInv, Sound, Fields,
           AppType
  <1>2. PICK b \in Nat : b = w.before
    BY <1>1, HistoryAssumptions DEF WalkType, OptLt
  <1>3. UNCHANGED <<account, history>>
    BY DEF PageArrives, PageFaults, WalkDies
  <1>4. {} \in SUBSET PageBelow(0) /\ {} \in SUBSET PageBelow(b) /\ 0 \in Nat
    OBVIOUS
  <1>5. CASE PageArrives(w)
    BY <1>1, <1>2, <1>3, <1>4, <1>5, PageReview DEF PageArrives
  <1>6. ASSUME NEW i \in BOOLEAN, NEW t \in {"done", "died"},
               NEW u \in SUBSET w.rows, NEW n,
               n = [w EXCEPT !.gap = TRUE, !.integrity = i, !.st = t,
                             !.before = 0, !.pages = 0, !.rows = u],
               app' = Replace(app, w, n)
        PROVE  RInv'
    <2>1. u \in SUBSET Lts /\ 0 \in OptLt /\ 0 \in 0..MaxPages
      BY <1>1, HistoryAssumptions DEF WalkType, OptLt
    <2>2. /\ n \in WalkType
          /\ n.id = w.id /\ n.gen = w.gen /\ n.headOnly = w.headOnly
          /\ n.start = w.start /\ n.stop = w.stop /\ n.gap = TRUE
          /\ n.rows = u /\ n.st = t /\ n.cont = w.cont
      BY <1>1, <1>6, <2>1 DEF WalkType
    <2>3. Failed(w, n)
      BY <2>2 DEF Failed
    <2> QED
      BY <1>3, <1>6, <2>3, GapReview
  <1>7. CASE PageFaults(w)
    <2>1. ASSUME NEW lost \in SUBSET PageBelow(b),
                 app' = Replace(app, w, ReadPage(w, PageBelow(b), lost))
          PROVE  RInv'
      BY <1>1, <1>2, <1>3, <2>1, PageReview
    <2>2. CASE app' = Replace(app, w, ReadPage(w, PageBelow(0), {}))
      BY <1>1, <1>3, <1>4, <2>2, PageReview
    <2>3. ASSUME NEW invalid \in BOOLEAN,
                 app' = Replace(app, w, FailPage(w, invalid))
          PROVE  RInv'
      <3>1. PICK u \in SUBSET w.rows : u = IF invalid THEN {} ELSE w.rows
        OBVIOUS
      <3>2. PICK t \in {"done", "died"} : t = "done"
        OBVIOUS
      <3>3. PICK n : n = [w EXCEPT !.gap = TRUE, !.integrity = invalid, !.st = t,
                                   !.before = 0, !.pages = 0, !.rows = u]
        OBVIOUS
      <3>4. FailPage(w, invalid) = n
        BY <1>1, <3>1, <3>2, <3>3 DEF FailPage, WalkType
      <3> QED
        BY <1>6, <2>3, <3>3, <3>4
    <2> QED
      BY <1>2, <1>7, <2>1, <2>2, <2>3 DEF PageFaults
  <1>8. CASE WalkDies(w)
    <2>1. PICK u \in SUBSET w.rows, i \in BOOLEAN, t \in {"done", "died"} :
             u = {} /\ i = FALSE /\ t = "died"
      OBVIOUS
    <2>2. PICK n : n = [w EXCEPT !.gap = TRUE, !.integrity = i, !.st = t,
                                 !.before = 0, !.pages = 0, !.rows = u]
      OBVIOUS
    <2>3. [FailPage(w, TRUE) EXCEPT !.integrity = FALSE, !.st = "died"] = n
      BY <1>1, <2>1, <2>2 DEF FailPage, WalkType
    <2>4. app' = Replace(app, w, n)
      BY <1>8, <2>3 DEF WalkDies
    <2> QED
      BY <1>6, <2>2, <2>4
  <1> QED
    BY <1>5, <1>7, <1>8

-----------------------------------------------------------------------------
(* The subscription and the Journal.                                       *)

(* Fields that the review does not read change.                            *)
LEMMA ReviewedFrame ==
    ASSUME NEW s, NEW r, NEW a, NEW b, Reviewed(a, s, r), Keeps(a, b),
           b.risk = a.risk, b.again = a.again, b.headAfter = a.headAfter
    PROVE  Reviewed(b, s, r)
  <1>1. Meets(b, s) /\ Heard(b) = Heard(a)
    BY MeetsFrame DEF Reviewed, Waits
  <1>2. \A w : Sought(a, w, s) => Sought(b, w, s)
    BY DEF Sought, Keeps
  <1>3. b.blocking = a.blocking /\ b.inFlight = a.inFlight
    BY DEF Keeps
  <1> QED
    BY <1>1, <1>2, <1>3 DEF Reviewed, Waits, Seeks

(* A fetch by the subscription, the Journal or the user.                   *)
LEMMA FetchReview ==
    ASSUME IInv, RInv, UNCHANGED account, atRequest' = atRequest, NEW b,
           Sound(b, Visible, head, explained), b.blocking = app.blocking,
           Waits(b, Aim, Asked), app' = Fetch(b)
    PROVE  RInv'
  <1>1. head \in 0..MaxLt /\ Visible \in SUBSET (1..head) /\ atRequest \in BOOLEAN
    BY WorldGives DEF IInv, World, WorldFacts
  <1>2. PICK s : s = Aim
    OBVIOUS
  <1>3. PICK r \in BOOLEAN : r = Asked
    BY AimFacts
  <1>4. Aims(b, head, s) /\ Waits(b, s, r)
    BY <1>2, <1>3, AimFacts DEF Aims
  <1>5. Reviewed(Fetch(b), s, r) /\ Fetch(b).blocking = b.blocking
    BY <1>1, <1>4, FetchReviewed
  <1> QED
    BY <1>1, <1>2, <1>3, <1>5, ReviewStep

(* The subscription is ready, fails, or announces a row; the Journal is    *)
(* polled.                                                                 *)
LEMMA PollReview ==
    ASSUME IInv, RInv,
           SubscriptionReady \/ SubscriptionUpdate \/ SubscriptionFailed
             \/ PollJournal
    PROVE  RInv'
  <1>1. /\ app \in AppType /\ atRequest \in BOOLEAN
        /\ Sound(app, Visible, head, explained)
        /\ (app.sub = "failed" => app.gen < MaxGeneration)
        /\ Reviewed(app, Aim, Asked) /\ Waits(app, Aim, Asked)
    BY AppIsTyped DEF IInv, RInv, Reviewed
  <1>2. UNCHANGED account /\ atRequest' = atRequest
    BY DEF SubscriptionReady, SubscriptionUpdate, SubscriptionFailed,
           PollJournal, history
  <1>3. CASE SubscriptionUpdate \/ PollJournal
    <2>1. app' = Fetch(app)
      BY <1>3 DEF SubscriptionUpdate, PollJournal
    <2> QED
      BY <1>1, <1>2, <2>1, FetchReview
  <1>4. ASSUME NEW u \in {"live", "failed"}, NEW b, b = [app EXCEPT !.sub = u]
        PROVE  /\ Reviewed(b, Aim, Asked) /\ b.blocking = app.blocking
               /\ b \in AppType
    <2>1. /\ Keeps(app, b) /\ b.risk = app.risk /\ b.again = app.again
          /\ b.headAfter = app.headAfter /\ b \in AppType
      BY <1>1, <1>4 DEF Keeps, AppType
    <2>2. Reviewed(b, Aim, Asked)
      BY <1>1, <2>1, ReviewedFrame
    <2> QED
      BY <2>1, <2>2 DEF Keeps
  <1>5. CASE SubscriptionFailed
    <2>1. PICK b : b = [app EXCEPT !.sub = "failed"]
      OBVIOUS
    <2>2. Reviewed(b, Aim, Asked) /\ b.blocking = app.blocking
      BY <1>4, <2>1
    <2>3. app' = b
      BY <1>5, <2>1 DEF SubscriptionFailed
    <2> QED
      BY <1>1, <1>2, <2>2, <2>3, ReviewStep
  <1>6. CASE SubscriptionReady
    <2>1. PICK b : b = [app EXCEPT !.sub = "live"]
      OBVIOUS
    <2>2. Reviewed(b, Aim, Asked) /\ b.blocking = app.blocking
      BY <1>4, <2>1
    <2>3. CASE app' = b
      BY <1>1, <1>2, <2>2, <2>3, ReviewStep
    <2>4. CASE app' = Fetch(b)
      <3>1. /\ b \in AppType /\ b.sub = "live"
            /\ b.gen = app.gen /\ b.tasks = app.tasks
            /\ b.inFlight = app.inFlight
            /\ b.activity = app.activity /\ b.hasGap = app.hasGap
            /\ b.incomplete = app.incomplete /\ b.floor = app.floor
            /\ b.recFloor = app.recFloor /\ b.scan = app.scan
        BY <1>1, <2>1 DEF AppType
      <3>2. Sound(b, Visible, head, explained)
        BY <1>1, <3>1, Frame
      <3> QED
        BY <1>2, <2>2, <2>4, <3>2, FetchReview DEF Reviewed
    <2> QED
      BY <1>6, <2>1, <2>3, <2>4 DEF SubscriptionReady
  <1> QED
    BY <1>3, <1>5, <1>6

(* A record ages, or a review ends.                                        *)
LEMMA EndReview ==
    ASSUME IInv, RInv, RecordAges \/ EndRisk
    PROVE  RInv'
  <1>1. /\ app \in AppType /\ atRequest \in BOOLEAN
        /\ Reviewed(app, Aim, Asked)
    BY AppIsTyped DEF IInv, RInv
  <1>2. PICK s : s = Aim
    OBVIOUS
  <1>3. PICK r \in BOOLEAN : r = Asked
    BY AimFacts
  <1>4. CASE RecordAges
    <2>1. PICK b : b = [app EXCEPT !.timeFloor = 0]
      OBVIOUS
    <2>2. /\ b.tasks = app.tasks /\ b.inFlight = app.inFlight
          /\ b.gen = app.gen /\ b.scan = app.scan /\ b.floor = app.floor
          /\ b.recFloor = app.recFloor /\ b.blocking = app.blocking
          /\ b.risk = app.risk /\ b.again = app.again
          /\ b.headAfter = app.headAfter /\ b.timeFloor = 0
      BY <1>1, <2>1, HistoryAssumptions DEF AppType
    <2>3. 0 <= s
      BY <1>2, AimFacts DEF Aims
    <2>4. Reviewed(app, s, r)
      BY <1>1, <1>2, <1>3
    <2>5. Heard(b) = Heard(app)
      BY <2>2 DEF Heard, Current
    <2>6. \A w : /\ Sees(app, w, s) => Sees(b, w, s)
                 /\ Sought(app, w, s) => Sought(b, w, s)
      BY <2>2 DEF Sees, Sought
    <2>7. Meets(b, s)
      BY <2>2, <2>3, <2>4, <2>5, <2>6
         DEF Reviewed, Waits, Meets, Limits, ScanMeets
    <2>8. Reviewed(b, s, r)
      BY <2>2, <2>4, <2>5, <2>6, <2>7 DEF Reviewed, Waits, Seeks
    <2>9. app' = b /\ UNCHANGED account /\ atRequest' = atRequest
      BY <1>4, <2>1 DEF RecordAges, history
    <2> QED
      BY <1>1, <1>2, <1>3, <2>2, <2>8, <2>9, ReviewStep
  <1>5. CASE EndRisk
    <2>1. PICK b : b = [app EXCEPT !.risk = "none"]
      OBVIOUS
    <2>2. Keeps(app, b) /\ b.risk = "none"
      BY <1>1, <2>1 DEF AppType, Keeps
    <2>3. Meets(b, s)
      BY <1>1, <1>2, <2>2, MeetsFrame DEF Reviewed, Waits
    <2>4. Reviewed(b, s, r)
      BY <2>2, <2>3 DEF Reviewed, Waits, Seeks
    <2>5. b.blocking = app.blocking
      BY <2>2 DEF Keeps
    <2>6. app' = b /\ UNCHANGED account /\ atRequest' = FALSE
      BY <1>5, <2>1 DEF EndRisk
    <2> QED
      BY <1>2, <1>3, <2>4, <2>5, <2>6, ReviewStep
  <1> QED
    BY <1>4, <1>5

(* A review is requested: whatever was listed then is looked for.          *)
LEMMA RequestReview ==
    ASSUME IInv, RInv, RequestRisk
    PROVE  RInv'
  <1>1. /\ app \in AppType /\ app.blocking
        /\ Sound(app, Visible, head, explained)
        /\ Meets(app, Aim)
    BY AppIsTyped DEF IInv, RInv, Reviewed, Waits, RequestRisk
  <1>2. PICK b : b = [app EXCEPT !.risk = "checking"]
    OBVIOUS
  <1>3. /\ b \in AppType /\ b.sub = app.sub
        /\ b.gen = app.gen /\ b.tasks = app.tasks
        /\ b.inFlight = app.inFlight
        /\ b.activity = app.activity /\ b.hasGap = app.hasGap
        /\ b.incomplete = app.incomplete /\ b.floor = app.floor
        /\ b.recFloor = app.recFloor /\ b.scan = app.scan
    BY <1>1, <1>2 DEF AppType
  <1>4. Keeps(app, b) /\ b.risk = "checking"
    BY <1>1, <1>2 DEF AppType, Keeps
  <1>5. b.blocking = app.blocking
    BY <1>4 DEF Keeps
  <1>6. Sound(b, Visible, head, explained)
    BY <1>1, <1>3, FlagFrame
  <1>7. /\ UNCHANGED <<head, hidden, sends, sent>> /\ app' = Fetch(b)
        /\ atRequest' = (sent \in Visible)
    BY <1>2 DEF RequestRisk, account
  <1>8. head \in 0..MaxLt /\ Visible \in SUBSET (1..head)
    BY WorldGives DEF IInv, WorldFacts
  <1>9. Asked' \in BOOLEAN
    BY <1>7 DEF Asked
  <1>10. PICK s : s = Aim
    OBVIOUS
  <1>11. PICK q \in BOOLEAN : q = Asked'
    BY <1>9
  <1>12. Aims(b, head, s) /\ Meets(b, s)
    BY <1>1, <1>4, <1>5, <1>10, AimFacts, MeetsFrame DEF Aims
  <1>13. Waits(b, s, q)
    BY <1>1, <1>4, <1>5, <1>12 DEF Waits
  <1>14. Reviewed(Fetch(b), s, q) /\ Fetch(b).blocking = b.blocking
    BY <1>6, <1>8, <1>12, <1>13, FetchReviewed
  <1>15. Aim' = Aim
    BY <1>7 DEF Aim
  <1>16. hidden' = {} /\ (atRequest' => sent' # 0)
    <2>1. sent \in Visible => sent # 0
      BY <1>8
    <2> QED
      BY <1>7, <2>1 DEF RInv
  <1>17. app'.blocking
    BY <1>1, <1>5, <1>7, <1>14
  <1>18. Reviewed(app', Aim', Asked')
    BY <1>7, <1>10, <1>11, <1>14, <1>15
  <1> QED
    BY <1>16, <1>17, <1>18 DEF RInv

(* Nothing is looked for: the row after the head has not been met.         *)
LEMMA Beyond ==
    ASSUME NEW h \in 0..MaxLt, NEW V \in SUBSET (1..h), NEW x, NEW a,
           Sound(a, V, h, x), NEW s, s = h + 1, a.timeFloor <= s,
           a.scan.cutoff <= s, \A w \in Heard(a) : w.cutoff <= s
    PROVE  Meets(a, s)
  <1>0. h \in Nat /\ s \in Nat /\ MaxLt \in Nat
    BY HistoryAssumptions
  <1>1. a \in AppType /\ Fields(a, V, h) /\ Pool(a, V, h)
    BY DEF Sound, Fields
  <1>2. Limits(a, s)
    <2>1. a.floor <= h /\ a.recFloor <= h /\ a.scan.stop <= h
      BY <1>1 DEF Fields
    <2>2. a.floor \in Nat /\ a.recFloor \in Nat /\ a.scan.stop \in Nat
      BY <1>0, <1>1 DEF AppType, ScanType, OptLt
    <2>3. a.floor < s /\ a.recFloor < s /\ a.scan.stop < s
      BY <1>0, <2>1, <2>2
    <2> QED
      BY <2>3 DEF Limits
  <1>3. ScanMeets(a, s)
    <2>1. a.scan.rows \in SUBSET (1..h)
      BY <1>1 DEF Fields
    <2>2. Newest(a.scan.rows) \in 0..h
      BY <1>0, <2>1, NewestFacts
    <2>3. Newest(a.scan.rows) < s
      BY <1>0, <2>2
    <2> QED
      BY <2>3 DEF ScanMeets
  <1>4. ASSUME NEW w \in Heard(a) PROVE Sees(a, w, s)
    <2>1. w \in WalkType /\ WalkOK(w, V, h)
      BY <1>1 DEF Heard, AppType, Pool
    <2>2. w.rows \in SUBSET (1..h) /\ w.start <= h /\ w.stop <= h
      BY <2>1 DEF WalkOK
    <2>3. w.start \in Nat /\ w.stop \in Nat
      BY <1>0, <2>1 DEF WalkType, OptLt
    <2>4. PICK i \in 0..h : i = Newest(w.rows)
      BY <1>0, <2>2, NewestFacts
    <2>5. ~(s <= i) /\ ~(s <= 0) /\ ~(s < w.start) /\ w.stop < s /\ i < s
      BY <1>0, <2>2, <2>3
    <2>6. \A c : WholeDownTo(w, c, {s}, 0)
      BY <2>4, <2>5 DEF WholeDownTo, InReach
    <2> QED
      BY <2>4, <2>5, <2>6 DEF Sees, Walked
  <1> QED
    BY <1>2, <1>3, <1>4 DEF Meets

(* What the bounds allow at a row, they allow at a later one.              *)
LEMMA WithinLater ==
    ASSUME NEW a \in AppType, NEW s \in Nat, NEW t \in Nat, s <= t, Meets(a, s)
    PROVE  /\ a.timeFloor <= t /\ a.scan.cutoff <= t
           /\ \A w \in Heard(a) : w.cutoff <= t
  <1>1. MaxLt \in Nat
    BY HistoryAssumptions
  <1>2. a.timeFloor \in Nat /\ a.scan.cutoff \in Nat
    BY <1>1 DEF AppType, ScanType, OptCutoff
  <1>3. \A w \in Heard(a) : w.cutoff \in Nat /\ w.cutoff <= s
    BY <1>1 DEF Heard, AppType, WalkType, OptCutoff, Meets, Sees
  <1>4. a.timeFloor <= s /\ a.scan.cutoff <= s
    BY DEF Meets, Limits
  <1> QED
    BY <1>2, <1>3, <1>4

(* The account gets a row, of the transfer or of another.                  *)
LEMMA NewRowReview ==
    ASSUME MaxLate = 0, IInv, IInv', RInv, NEW ours \in BOOLEAN,
           NEW late \in BOOLEAN, NewRow(ours, late)
    PROVE  RInv'
  <1>1. /\ head \in 0..MaxLt /\ head \in Nat /\ sent \in 0..head
        /\ faults \in Nat /\ MaxAge \in Nat
        /\ head' \in 0..MaxLt /\ Visible' \in SUBSET (1..head')
        /\ Sound(app', Visible', head', explained')
        /\ app \in AppType /\ atRequest \in BOOLEAN
    <2>1. head \in 0..MaxLt /\ head \in Nat /\ sent \in 0..head
          /\ faults \in Nat
      BY WorldGives DEF IInv, World, WorldFacts
    <2>2. head' \in 0..MaxLt /\ Visible' \in SUBSET (1..head')
      BY HistoryAssumptions DEF IInv, World, Visible, OptLt
    <2> QED
      BY <2>1, <2>2, AppIsTyped, HistoryAssumptions DEF IInv
  <1>2. /\ hidden' = {} /\ head' = head + 1 /\ app' = app
        /\ atRequest' = atRequest
        /\ sent' = IF ours THEN head + 1 ELSE sent
        /\ ours => app.blocking /\ sent = 0
    BY <1>1 DEF NewRow, RInv, history
  <1>3. (sent' # 0 => app'.blocking) /\ (atRequest' => sent' # 0)
    BY <1>1, <1>2 DEF RInv
  <1>4. PICK s : s = Aim
    OBVIOUS
  <1>5. PICK r \in BOOLEAN : r = Asked
    BY AimFacts
  <1>6. Reviewed(app, s, r) /\ s \in Nat /\ s <= head + 1
    BY <1>1, <1>4, <1>5, AimFacts DEF Aims
  <1>7. PICK q \in BOOLEAN : q = Asked'
    BY <1>2 DEF Asked
  <1>8. q => r
    BY <1>1, <1>2, <1>5, <1>7 DEF Asked, RInv
  <1>9. CASE Aim' = s
    <2>1. Reviewed(app, s, q)
      BY <1>6, <1>8, LessAsked
    <2> QED
      BY <1>2, <1>3, <1>7, <1>9, <2>1 DEF RInv
  <1>10. CASE Aim' # s
    <2>1. Aim' = head + 2 /\ ~q
      BY <1>1, <1>2, <1>4, <1>7, <1>10 DEF Aim, Asked, RInv
    <2>2. PICK t \in Nat : t = head + 2
      BY <1>1
    <2>3. s <= t /\ t = head' + 1
      BY <1>1, <1>2, <1>6, <2>2
    <2>4. Meets(app, s)
      BY <1>6 DEF Reviewed, Waits
    <2>5. /\ app.timeFloor <= t /\ app.scan.cutoff <= t
          /\ \A w \in Heard(app) : w.cutoff <= t
      BY <1>1, <1>6, <2>3, <2>4, WithinLater
    <2>6. Meets(app', t)
      BY <1>1, <1>2, <2>3, <2>5, Beyond
    <2>7. Reviewed(app', t, q)
      BY <1>2, <1>6, <2>1, <2>6 DEF Reviewed, Waits, Seeks
    <2> QED
      BY <1>2, <1>3, <1>7, <2>1, <2>2, <2>7 DEF RInv
  <1> QED
    BY <1>9, <1>10

(* A transfer is sent: its row, when it lands, is above every bound.       *)
LEMMA SendReview ==
    ASSUME IInv, IInv', RInv, NEW lt \in 0..head, Send(lt)
    PROVE  RInv'
  <1>1. /\ head \in 0..MaxLt /\ head \in Nat /\ Grace \in Nat
        /\ Visible \in SUBSET (1..head)
        /\ app \in AppType /\ app' \in AppType
        /\ UNCHANGED <<head, hidden, sent, atRequest>>
    <2>1. app' \in AppType
      BY DEF IInv, Sound, Fields
    <2> QED
      BY <2>1, WorldGives, AppIsTyped, HistoryAssumptions DEF IInv, WorldFacts, Send
  <1>2. Sound(app', Visible, head, explained')
    BY <1>1 DEF IInv, Visible
  <1>3. PICK b : b = app'
    OBVIOUS
  <1>4. PICK f, t : /\ f = Larger(Newest(app.activity), lt)
                    /\ t = AtLeast0(head + 1 - Grace)
    OBVIOUS
  <1>5. b = [app EXCEPT !.blocking = TRUE, !.recFloor = f, !.timeFloor = t]
    BY <1>3, <1>4 DEF Send
  <1>6. /\ b.blocking = TRUE /\ b.timeFloor = t /\ b.risk = app.risk
        /\ b.tasks = app.tasks /\ b.inFlight = app.inFlight
        /\ b.gen = app.gen /\ b.scan = app.scan
    BY <1>1, <1>5 DEF AppType
  <1>7. ~app.blocking
    BY DEF Send
  <1>8. /\ sent = 0 /\ ~atRequest /\ app.risk = "none"
        /\ Reviewed(app, Aim, Asked)
    BY <1>7 DEF RInv, Reviewed, Waits
  <1>9. PICK s : s = head + 1
    OBVIOUS
  <1>10. s = Aim /\ s = Aim' /\ ~Asked' /\ s \in Nat
    BY <1>1, <1>8, <1>9 DEF Aim, Asked
  <1>11. Meets(app, s)
    BY <1>8, <1>10 DEF Reviewed, Waits
  <1>12. /\ app.timeFloor <= s /\ app.scan.cutoff <= s
         /\ \A w \in Heard(app) : w.cutoff <= s
    BY <1>1, <1>10, <1>11, WithinLater
  <1>13. Heard(b) = Heard(app)
    BY <1>6 DEF Heard, Current
  <1>14. t <= s
    BY <1>1, <1>4, <1>9 DEF AtLeast0
  <1>15. Meets(b, s)
    BY <1>1, <1>2, <1>3, <1>6, <1>9, <1>12, <1>13, <1>14, Beyond
  <1>16. Reviewed(b, s, Asked')
    BY <1>6, <1>8, <1>10, <1>15 DEF Reviewed, Waits, Seeks
  <1>17. /\ hidden' = {} /\ (sent' # 0 => app'.blocking)
         /\ (atRequest' => sent' # 0)
    BY <1>1, <1>8 DEF RInv
  <1> QED
    BY <1>3, <1>10, <1>16, <1>17 DEF RInv

(* A new generation, or a released guard: no walk is listened to.          *)
LEMMA UnheardWaits ==
    ASSUME NEW a, NEW b, NEW s, NEW r, Waits(a, s, r), Heard(b) = {},
           b.timeFloor = a.timeFloor, b.floor = a.floor,
           b.recFloor = a.recFloor, b.scan = a.scan,
           b.blocking = a.blocking, b.risk = a.risk
    PROVE  Waits(b, s, r)
  <1>1. Limits(b, s) /\ ScanMeets(b, s)
    BY DEF Waits, Meets, Limits, ScanMeets
  <1> QED
    BY <1>1 DEF Waits, Meets

(* The subscription is opened again, by itself or by the user.             *)
LEMMA ReconnectReview ==
    ASSUME IInv, RInv, Reconnect \/ ManualRefresh
    PROVE  RInv'
  <1>1. /\ app \in AppType /\ atRequest \in BOOLEAN
        /\ Sound(app, Visible, head, explained) /\ Pool(app, Visible, head)
        /\ Reviewed(app, Aim, Asked) /\ Waits(app, Aim, Asked)
    BY AppIsTyped DEF IInv, RInv, Reviewed, Sound
  <1>2. UNCHANGED account /\ atRequest' = atRequest
    BY DEF Reconnect, ManualRefresh
  <1>3. ASSUME app.sub = "failed", NEW b, b = Resubscribe(app)
        PROVE  /\ Sound(b, Visible, head, explained)
               /\ b.blocking = app.blocking /\ Reviewed(b, Aim, Asked)
    <2>1. Sound(b, Visible, head, explained)
      BY <1>3, ResubscribeSound
    <2>2. PICK g \in Nat : g = app.gen + 1
      BY <1>1, HistoryAssumptions DEF AppType
    <2>3. b = [app EXCEPT !.gen = g, !.sub = "connecting"]
      BY <1>3, <2>2 DEF Resubscribe
    <2>4. /\ b.gen = g
          /\ b.tasks = app.tasks /\ b.inFlight = app.inFlight
          /\ b.scan = app.scan /\ b.floor = app.floor
          /\ b.recFloor = app.recFloor /\ b.timeFloor = app.timeFloor
          /\ b.blocking = app.blocking /\ b.risk = app.risk
      BY <1>1, <2>3 DEF AppType
    <2>5. Heard(b) = {}
      <3>1. \A w \in app.tasks : w.gen \in Nat /\ w.gen <= app.gen
        BY <1>1 DEF AppType, WalkType, Pool
      <3>2. app.gen \in Nat
        BY <1>1, HistoryAssumptions DEF AppType
      <3>3. \A w \in app.tasks : w.gen # g
        BY <2>2, <3>1, <3>2
      <3> QED
        BY <2>4, <3>3 DEF Heard, Current
    <2>6. Waits(b, Aim, Asked)
      BY <1>1, <2>4, <2>5, UnheardWaits
    <2>7. Reviewed(b, Aim, Asked)
      BY <1>1, <2>4, <2>5, <2>6 DEF Reviewed, Seeks
    <2> QED
      BY <2>1, <2>4, <2>7
  <1>4. CASE Reconnect
    <2>1. app.sub = "failed" /\ app' = Resubscribe(app)
      BY <1>4 DEF Reconnect
    <2> QED
      BY <1>1, <1>2, <1>3, <2>1, ReviewStep
  <1>5. CASE ManualRefresh /\ app.sub = "failed"
    <2>1. app' = Fetch(Resubscribe(app))
      BY <1>5 DEF ManualRefresh
    <2>2. PICK b : b = Resubscribe(app)
      OBVIOUS
    <2>3. /\ Sound(b, Visible, head, explained)
          /\ b.blocking = app.blocking /\ Waits(b, Aim, Asked)
      BY <1>3, <1>5, <2>2 DEF Reviewed
    <2> QED
      BY <1>2, <2>1, <2>2, <2>3, FetchReview
  <1>6. CASE ManualRefresh /\ app.sub # "failed"
    <2>1. app' = Fetch(app)
      BY <1>6 DEF ManualRefresh
    <2> QED
      BY <1>1, <1>2, <2>1, FetchReview
  <1> QED
    BY <1>4, <1>5, <1>6

(* The wallet is closed and opened again, or moves to another endpoint.    *)
LEMMA RestartReview ==
    ASSUME IInv, IInv', RInv, NEW reopen \in BOOLEAN, Restart(reopen)
    PROVE  RInv'
  <1>1. /\ app \in AppType /\ atRequest \in BOOLEAN
        /\ Pool(app, Visible, head) /\ Aims(app, head, Aim)
        /\ Reviewed(app, Aim, Asked) /\ Waits(app, Aim, Asked)
    BY AppIsTyped, AimFacts DEF IInv, RInv, Reviewed, Sound
  <1>2. UNCHANGED account /\ (atRequest' => atRequest) /\ atRequest' \in BOOLEAN
    BY DEF Restart
  <1>3. PICK b : b = app'
    OBVIOUS
  <1>4. PICK g : g = app.gen + 1
    OBVIOUS
  <1>5. PICK d : d = [app EXCEPT !.gen = g, !.sub = "connecting",
                          !.inFlight = 0, !.again = FALSE,
                          !.headAfter = FALSE, !.scan = NoScan]
    OBVIOUS
  <1>6. /\ d.tasks = app.tasks /\ d.inFlight = 0 /\ d.scan = NoScan
        /\ d.floor = app.floor /\ d.recFloor = app.recFloor
        /\ d.timeFloor = app.timeFloor
        /\ d.blocking = app.blocking /\ d.risk = app.risk
    BY <1>1, <1>5 DEF AppType
  <1>7. b = IF ~reopen THEN d
            ELSE [d EXCEPT !.hasGap = TRUE, !.incomplete = FALSE,
                           !.integrity = FALSE, !.floor = 0,
                           !.recFloor = 0, !.risk = "none"]
    BY <1>3, <1>4, <1>5, Zenon DEF Restart
  <1>8. PICK s : s = Aim
    OBVIOUS
  <1>9. s \in Nat \ {0}
    <2>1. head \in Nat
      BY WorldGives DEF IInv, WorldFacts
    <2> QED
      BY <1>1, <1>8, <2>1 DEF Aims
  <1>10. PICK r \in BOOLEAN : r = Asked
    BY AimFacts
  <1>11. \A w \in app.tasks : w.id # 0
    BY <1>1 DEF Pool, WalkOK
  <1>12. NoScan.cutoff = 0 /\ NoScan.stop = 0
    BY DEF NoScan
  <1>13. app.timeFloor <= s /\ app.floor < s /\ app.recFloor < s
    BY <1>1, <1>8 DEF Waits, Meets, Limits
  <1>14. ASSUME b.tasks = app.tasks, b.inFlight = 0, b.scan = NoScan,
                b.floor \in {0, app.floor}, b.recFloor \in {0, app.recFloor},
                b.timeFloor = app.timeFloor, b.blocking = app.blocking,
                b.risk = "none"
         PROVE  RInv'
    <2>1. Heard(b) = {}
      BY <1>11, <1>14 DEF Heard, Current
    <2>2. Limits(b, s)
      BY <1>9, <1>12, <1>13, <1>14 DEF Limits
    <2>3. Meets(b, s)
      BY <1>14, <2>1, <2>2 DEF Meets, ScanMeets
    <2>4. Reviewed(b, s, r)
      BY <1>14, <2>3 DEF Reviewed, Waits, Seeks
    <2> QED
      BY <1>2, <1>3, <1>8, <1>10, <1>14, <2>4, ReviewStep
  <1>15. CASE ~reopen
    <2>1. b = d /\ ~app.blocking
      BY <1>7, <1>15 DEF Restart
    <2>2. app.risk = "none"
      BY <1>1, <2>1 DEF Waits
    <2> QED
      BY <1>6, <1>14, <2>1, <2>2
  <1>16. CASE reopen
    <2>1. d \in AppType
      <3>1. g \in 0..MaxGeneration /\ NoScan \in ScanType
        BY <1>1, <1>4, HistoryAssumptions
           DEF Restart, AppType, NoScan, ScanType, OptLt, OptCutoff
      <3> QED
        BY <1>1, <1>5, <3>1 DEF AppType
    <2>2. b = [d EXCEPT !.hasGap = TRUE, !.incomplete = FALSE,
                        !.integrity = FALSE, !.floor = 0,
                        !.recFloor = 0, !.risk = "none"]
      BY <1>7, <1>16
    <2>3. /\ b.tasks = d.tasks /\ b.inFlight = d.inFlight /\ b.scan = d.scan
          /\ b.floor = 0 /\ b.recFloor = 0 /\ b.timeFloor = d.timeFloor
          /\ b.blocking = d.blocking /\ b.risk = "none"
      BY <2>1, <2>2 DEF AppType
    <2> QED
      BY <1>6, <1>14, <2>3
  <1> QED
    BY <1>15, <1>16

-----------------------------------------------------------------------------
(* The first report of a walk.                                             *)

\* The flags and floors of the review, but for the scan.
SameFlags(a, b) ==
    /\ b.timeFloor = a.timeFloor /\ b.blocking = a.blocking
    /\ b.risk = a.risk /\ b.recFloor = a.recFloor

(* Only the walk in flight is heard after its report.                      *)
LEMMA ReportHeard ==
    ASSUME NEW V, NEW h, NEW a \in AppType, Pool(a, V, h), NEW w \in a.tasks,
           w \in WalkType, w.st = "done", Current(a, w),
           NEW n, NEW b, Observes(a, w, n, b)
    PROVE  /\ w.gap => Heard(b) = {}
           /\ ~w.gap => Heard(b) = {n} /\ w \in Heard(a)
  <1>1. /\ b.tasks = (a.tasks \ {w}) \cup {n}
        /\ b.inFlight = a.inFlight /\ b.gen = a.gen
        /\ n = [w EXCEPT !.st = "observed"]
    BY DEF Observes
  <1>2. n.id = w.id /\ n.gen = w.gen /\ n.gap = w.gap
    BY <1>1 DEF WalkType
  <1>3. \A v \in a.tasks : v.id = w.id => v = w
    BY DEF Pool
  <1>4. \A v \in b.tasks : Current(b, v) => v = n
    BY <1>1, <1>3 DEF Current
  <1>5. Current(b, n)
    BY <1>1, <1>2 DEF Current
  <1> QED
    BY <1>1, <1>2, <1>4, <1>5 DEF Heard

(* A report that was taken, from what it leaves in the scan.               *)
LEMMA ReportReviewed ==
    ASSUME NEW V, NEW h, NEW a \in AppType, Pool(a, V, h), NEW w \in a.tasks,
           w \in WalkType, WalkOK(w, V, h), w.st = "done", Current(a, w),
           ~w.gap, NEW n, NEW b, Observes(a, w, n, b), SameFlags(a, b),
           NEW s, NEW r, Reviewed(a, s, r), Limits(b, s), ScanMeets(b, s),
           w.cont = 0 /\ b.scan = NoScan => Newest(w.rows) < s,
           Sought(a, w, s) => \/ s <= Newest(w.rows)
                              \/ b.scan # NoScan /\ s <= Newest(b.scan.rows)
    PROVE  Reviewed(b, s, r)
  <1>1. Heard(b) = {n} /\ w \in Heard(a)
    BY ReportHeard
  <1>2. /\ b.inFlight = a.inFlight
        /\ b.again = a.again /\ b.headAfter = a.headAfter
        /\ n = [w EXCEPT !.st = "observed"]
    BY DEF Observes
  <1>3. /\ n.st = "observed" /\ n.headOnly = w.headOnly
        /\ n.start = w.start /\ n.stop = w.stop /\ n.cutoff = w.cutoff
        /\ n.rows = w.rows /\ n.cont = w.cont
    BY <1>2, ObservedWalk
  <1>4. Sees(a, w, s)
    BY <1>1 DEF Reviewed, Waits, Meets
  <1>5. \A c : WholeDownTo(n, c, {s}, 0) <=> WholeDownTo(w, c, {s}, 0)
    BY <1>3 DEF WholeDownTo, InReach
  <1>6. Walked(n, {s}, 0)
    BY <1>3, <1>4, <1>5 DEF Sees, Walked
  <1>7. Sees(b, n, s)
    BY <1>3, <1>4, <1>6 DEF Sees
  <1>8. Meets(b, s)
    BY <1>1, <1>7 DEF Meets
  <1>9. Sought(a, w, s) => Sought(b, n, s)
    BY <1>3 DEF Sought
  <1>10. Seeks(b, s, r)
    BY <1>1, <1>2, <1>9 DEF Seeks, Reviewed, SameFlags
  <1> QED
    BY <1>2, <1>8, <1>10 DEF Reviewed, Waits, SameFlags

(* A refresh of the head keeps the transfer in the reach of the scan.      *)
LEMMA HeadMeets ==
    ASSUME NEW h, NEW V, NEW L, NEW a, NEW w, Finished(a, w, V, h, L),
           w.headOnly, NEW s \in Nat, Sees(a, w, s), ScanMeets(a, s), NEW b,
           b.scan.rows = a.scan.rows \cup w.rows,
           b.scan.next = IF w.cont # 0 THEN w.cont ELSE a.scan.next
    PROVE  /\ ScanMeets(b, s) /\ b.scan # NoScan
           /\ Sought(a, w, s) => s <= Newest(w.rows)
  <1>1. /\ h \in Nat /\ Fields(a, V, h) /\ WalkOK(w, V, h)
        /\ w.st = "done" /\ Placed(a, w, L) /\ ScanOK(a, L)
    BY DEF Finished
  <1>2. /\ w.rows \in SUBSET (1..h) /\ a.scan.rows \in SUBSET (1..h)
        /\ Known(a) \in 0..h /\ Newest(w.rows) \in 0..h
        /\ Newest(a.scan.rows) \in 0..h
        /\ w.stop \in 0..h /\ w.cutoff \in Nat
        /\ a.scan.next \in 0..h
        /\ (w.cont # 0 => w.cont \in 1..h)
        /\ ~Unread(w)
    BY FinishedFacts
  <1>3. /\ a.scan # NoScan /\ w.stop = Known(a)
        /\ Newest(a.scan.rows) <= Newest(w.rows)
        /\ Known(a) <= Newest(a.scan.rows)
    BY <1>1, <1>2 DEF Placed, Head, ScanOK
  <1>4. PICK i \in 0..h, j \in 0..h, k \in 0..h :
           i = Newest(a.scan.rows) /\ j = Newest(w.rows) /\ k = Known(a)
    BY <1>2
  <1>5. k <= i /\ i <= j /\ w.stop = k
    BY <1>3, <1>4
  <1>6. PICK u \in 0..h : u = Newest(b.scan.rows)
    BY <1>1, <1>2, NewestOfBoth
  <1>7. u = j
    <2>1. j <= u /\ (u = i \/ u = j)
      BY <1>1, <1>2, <1>4, <1>6, NewestOfBoth
    <2> QED
      BY <1>5, <2>1
  <1>8. w.cutoff <= s /\ Walked(w, {s}, 0)
    BY DEF Sees
  <1>9. b.scan # NoScan
    <2>1. b.scan.next # 0
      BY <1>1, <1>2, <1>3 DEF Fields
    <2> QED
      BY <2>1 DEF NoScan
  <1>10. s <= j => InReach(w, s, 0)
    BY <1>4 DEF InReach
  <1>11. ASSUME w.cont # 0 PROVE ScanMeets(b, s)
    <2>1. WholeDownTo(w, w.cont, {s}, 0) /\ w.cont \in 1..h /\ b.scan.next = w.cont
      BY <1>2, <1>8, <1>11 DEF Walked
    <2>2. s < w.cont \/ j < s \/ (w.cont <= s /\ s <= j)
      BY <2>1
    <2>3. w.cont <= s /\ s <= j => s \in w.rows
      BY <1>10, <2>1 DEF WholeDownTo
    <2> QED
      BY <1>6, <1>7, <2>1, <2>2, <2>3 DEF ScanMeets
  <1>12. ASSUME w.cont = 0 PROVE ScanMeets(b, s)
    <2>1. WholeDownTo(w, Larger(w.stop, w.cutoff), {s}, 0) /\ b.scan.next = a.scan.next
      BY <1>1, <1>8, <1>12 DEF Walked
    <2>2. i < s => Larger(w.stop, w.cutoff) <= s
      BY <1>2, <1>5, <1>8 DEF Larger
    <2>3. i < s /\ s <= j => s \in w.rows
      BY <1>10, <2>1, <2>2 DEF WholeDownTo
    <2>4. s \in a.scan.rows \/ s < a.scan.next \/ i < s
      BY <1>3, <1>4 DEF ScanMeets
    <2>5. s <= j \/ j < s
      OBVIOUS
    <2> QED
      BY <1>6, <1>7, <2>1, <2>3, <2>4, <2>5 DEF ScanMeets
  <1>13. Sought(a, w, s) => s <= Newest(w.rows)
    <2>1. s <= i => s <= j
      BY <1>5
    <2> QED
      BY <1>2, <1>4, <2>1 DEF Sought
  <1> QED
    BY <1>9, <1>11, <1>12, <1>13

(* So does a continuation, or a first walk, that ran out of pages.         *)
LEMMA RetainMeets ==
    ASSUME NEW h, NEW V, NEW L, NEW a, NEW w, Finished(a, w, V, h, L),
           ~w.headOnly, w.cont # 0, NEW s \in Nat \ {0}, Sees(a, w, s),
           ScanMeets(a, s), NEW b,
           b.scan.rows = a.scan.rows \cup w.rows, b.scan.next = w.cont
    PROVE  /\ ScanMeets(b, s) /\ b.scan # NoScan
           /\ Sought(a, w, s) => s <= Newest(b.scan.rows)
  <1>1. /\ h \in Nat /\ w.st = "done" /\ Placed(a, w, L)
    BY DEF Finished
  <1>2. /\ w.rows \in SUBSET (1..h) /\ a.scan.rows \in SUBSET (1..h)
        /\ Newest(w.rows) \in 0..h /\ Newest(a.scan.rows) \in 0..h
        /\ w.start \in 0..h /\ a.scan.next \in 0..h
        /\ (w.cont # 0 => w.cont \in 1..h)
        /\ ~Unread(w)
    BY FinishedFacts
  <1>3. Joins(a, w)
    BY <1>1 DEF Placed
  <1>4. PICK i \in 0..h, j \in 0..h : i = Newest(a.scan.rows) /\ j = Newest(w.rows)
    BY <1>2
  <1>5. PICK u \in 0..h : u = Newest(b.scan.rows)
    BY <1>1, <1>2, NewestOfBoth
  <1>6. i <= u /\ j <= u /\ (u = i \/ u = j)
    BY <1>1, <1>2, <1>4, <1>5, NewestOfBoth
  <1>7. a.scan = NoScan => i = 0
    BY <1>4 DEF NoScan, Newest
  <1>8. b.scan # NoScan
    <2>1. b.scan.next # 0
      BY <1>2
    <2> QED
      BY <2>1 DEF NoScan
  <1>9. WholeDownTo(w, w.cont, {s}, 0)
    BY DEF Sees, Walked
  <1>10. ASSUME s < w.cont PROVE ScanMeets(b, s)
    BY <1>10 DEF ScanMeets
  <1>11. ASSUME w.cont <= s /\ InReach(w, s, 0) PROVE ScanMeets(b, s)
    BY <1>9, <1>11 DEF WholeDownTo, ScanMeets
  <1>12. ASSUME ~InReach(w, s, 0) PROVE ScanMeets(b, s)
    <2>1. j < s /\ (w.start # 0 => ~(s < w.start))
      BY <1>2, <1>4, <1>12 DEF InReach
    <2>2. CASE a.scan = NoScan
      <3>1. u < s
        BY <1>6, <1>7, <2>1, <2>2
      <3> QED
        BY <1>5, <3>1 DEF ScanMeets
    <2>3. CASE a.scan # NoScan
      <3>1. ~(s < a.scan.next)
        BY <1>3, <2>1, <2>3 DEF Joins
      <3>2. s \in a.scan.rows \/ i < s
        BY <1>4, <2>3, <3>1 DEF ScanMeets
      <3>3. i < s => u < s
        BY <1>6, <2>1
      <3> QED
        BY <1>5, <3>2, <3>3 DEF ScanMeets
    <2> QED
      BY <2>2, <2>3
  <1>13. s < w.cont \/ w.cont <= s
    BY <1>2
  <1>14. Sought(a, w, s) => s <= Newest(b.scan.rows)
    <2>1. (s <= i => s <= u) /\ (s <= j => s <= u)
      BY <1>6
    <2> QED
      BY <1>2, <1>4, <1>5, <2>1 DEF Sought
  <1> QED
    BY <1>8, <1>10, <1>11, <1>12, <1>13, <1>14

(* A scan that ended without the transfer began below it.                  *)
LEMMA CompleteMeets ==
    ASSUME NEW h, NEW V, NEW L, NEW a, NEW w, Finished(a, w, V, h, L),
           ~w.headOnly, w.cont = 0, NEW s \in Nat \ {0}, Sees(a, w, s),
           Limits(a, s), ScanMeets(a, s), NEW R, R = a.scan.rows \cup w.rows,
           s \notin R
    PROVE  /\ LowerFloor(a.floor, Oldest(R)) < s /\ Newest(w.rows) < s
           /\ ~Sought(a, w, s)
  <1>1. h \in Nat /\ w.st = "done" /\ Placed(a, w, L) /\ Fields(a, V, h)
    BY DEF Finished
  <1>2. /\ w.rows \in SUBSET (1..h) /\ a.scan.rows \in SUBSET (1..h)
        /\ Newest(w.rows) \in 0..h /\ Newest(a.scan.rows) \in 0..h
        /\ w.start \in 0..h /\ w.stop \in 0..h /\ w.cutoff \in Nat
        /\ a.scan.next \in 0..h
        /\ ~Unread(w)
    BY FinishedFacts
  <1>3. Joins(a, w)
    BY <1>1 DEF Placed
  <1>4. PICK i \in 0..h, j \in 0..h : i = Newest(a.scan.rows) /\ j = Newest(w.rows)
    BY <1>2
  <1>5. a.scan = NoScan => i = 0
    BY <1>4 DEF NoScan, Newest
  <1>6. WholeDownTo(w, Larger(w.stop, w.cutoff), {s}, 0)
    BY <1>1 DEF Sees, Walked
  <1>7. Larger(w.stop, w.cutoff) <= s
    BY <1>2 DEF Sees, Larger
  <1>8. ~InReach(w, s, 0)
    BY <1>6, <1>7 DEF WholeDownTo
  <1>9. j < s /\ (w.start # 0 => ~(s < w.start))
    BY <1>2, <1>4, <1>8 DEF InReach
  <1>10. i < s
    <2>1. CASE a.scan = NoScan
      BY <1>5, <2>1
    <2>2. CASE a.scan # NoScan
      <3>1. ~(s < a.scan.next)
        BY <1>3, <1>9, <2>2 DEF Joins
      <3> QED
        BY <1>4, <2>2, <3>1 DEF ScanMeets
    <2> QED
      BY <2>1, <2>2
  <1>11. PICK o \in 0..h : o = Oldest(R)
    <2>1. R \in SUBSET (1..h)
      BY <1>2
    <2> QED
      BY <1>1, <2>1, OldestFacts
  <1>12. o < s
    <2>1. R \in SUBSET (1..h)
      BY <1>2
    <2>2. o \in R \/ o = 0
      BY <1>1, <1>11, <2>1, OldestFacts
    <2>3. (o \in a.scan.rows => o <= i) /\ (o \in w.rows => o <= j)
      BY <1>1, <1>2, <1>4, NewestFacts
    <2> QED
      BY <1>9, <1>10, <2>2, <2>3
  <1>13. LowerFloor(a.floor, o) \in {a.floor, o}
    <2>1. a.floor \in Nat
      BY <1>1, HistoryAssumptions DEF Fields, AppType, OptLt
    <2>2. {a.floor, o} \in SUBSET Nat /\ {a.floor, o} # {}
      BY <2>1
    <2>3. Min({a.floor, o}) \in {a.floor, o}
      BY <2>2, MinOfRows
    <2> QED
      BY <2>3 DEF LowerFloor
  <1>14. LowerFloor(a.floor, o) < s
    BY <1>12, <1>13 DEF Limits
  <1>15. ~Sought(a, w, s)
    <2>1. ~(s <= i) /\ ~(s <= j)
      BY <1>9, <1>10
    <2> QED
      BY <1>2, <1>4, <2>1 DEF Sought
  <1> QED
    BY <1>4, <1>9, <1>11, <1>14, <1>15

(* The first report of a walk finds the transfer, or leaves it to be       *)
(* found.                                                                  *)
LEMMA ScannedReview ==
    ASSUME IInv, IInv', RInv, NEW w \in app.tasks, EndpointHistoryScanned(w)
    PROVE  RInv'
  <1>1. /\ WorldFacts /\ Sound(app, Visible, head, explained)
        /\ sent \in 0..head /\ atRequest \in BOOLEAN
    BY WorldGives DEF IInv, World
  <1>2. /\ Fields(app, Visible, head) /\ Pool(app, Visible, head)
        /\ app \in AppType /\ w.st = "done"
    BY <1>1 DEF Sound, Fields, EndpointHistoryScanned
  <1>3. w \in WalkType /\ WalkOK(w, Visible, head)
    BY <1>2 DEF AppType, Pool
  <1>4. PICK n : n = [w EXCEPT !.st = "observed"]
    OBVIOUS
  <1>5. /\ n \in WalkType
        /\ n.id = w.id /\ n.gen = w.gen /\ n.gap = w.gap
        /\ n.headOnly = w.headOnly /\ n.cutoff = w.cutoff
    BY <1>2, <1>3, <1>4, ObservedWalk
  <1>6. PICK a : a = Replace(app, w, n)
    OBVIOUS
  <1>7. /\ a \in AppType
        /\ a.tasks = (app.tasks \ {w}) \cup {n}
        /\ a.inFlight = app.inFlight
        /\ a.gen = app.gen /\ a.sub = app.sub /\ a.again = app.again
        /\ a.headAfter = app.headAfter /\ a.scan = app.scan
        /\ a.activity = app.activity /\ a.incomplete = app.incomplete
        /\ a.hasGap = app.hasGap /\ a.floor = app.floor
        /\ a.recFloor = app.recFloor
        /\ a.blocking = app.blocking /\ a.risk = app.risk
    BY <1>2, <1>5, <1>6, ReplaceFields
  <1>8. a.timeFloor = app.timeFloor
    BY <1>2, <1>6 DEF Replace, AppType
  <1>9. /\ UNCHANGED <<sends, head, hidden>>
        /\ atRequest' \in BOOLEAN /\ (atRequest' => atRequest)
        /\ sent' = IF app.blocking /\ ~app'.blocking THEN 0 ELSE sent
        /\ atRequest' => app'.risk # "none"
    BY <1>1 DEF EndpointHistoryScanned
  <1>10. Current(app, w) <=> Mine(app, w)
    BY DEF Current, Mine
  <1>11. NoScan \in ScanType
    BY HistoryAssumptions DEF NoScan, ScanType, OptLt, OptCutoff
  <1>12. PICK s : s = Aim
    OBVIOUS
  <1>13. PICK r \in BOOLEAN : r = Asked
    BY AimFacts
  <1>14. /\ Aims(app, head, s) /\ Reviewed(app, s, r) /\ s \in Nat \ {0}
         /\ Limits(app, s) /\ ScanMeets(app, s)
    <2>1. Aims(app, head, s) /\ Reviewed(app, s, r)
      BY <1>12, <1>13, AimFacts
    <2>2. s \in Nat \ {0}
      BY <1>1, <2>1 DEF Aims, WorldFacts
    <2> QED
      BY <2>1, <2>2 DEF Reviewed, Waits, Meets
  <1>15. ASSUME NEW b, app' = b, b.blocking = app.blocking, Reviewed(b, s, r)
         PROVE  RInv'
    <2>1. UNCHANGED account
      BY <1>9, <1>15 DEF account
    <2> QED
      BY <1>9, <1>12, <1>13, <1>15, <2>1, ReviewStep
  <1>16. CASE ~Mine(app, w)
    <2>1. app' = a
      BY <1>4, <1>6, <1>16 DEF EndpointHistoryScanned
    <2>2. Reviewed(a, s, r)
      BY <1>2, <1>5, <1>6, <1>10, <1>14, <1>16, ReplaceReviewed
    <2> QED
      BY <1>7, <1>15, <2>1, <2>2
  <1>17. ASSUME NEW S \in ScanType, NEW b, b = [a EXCEPT !.scan = S]
         PROVE  /\ Observes(app, w, n, b) /\ SameFlags(app, b)
                /\ b.scan = S /\ b.floor = app.floor
    <2>1. Observes(app, w, n, b)
      BY <1>4, <1>7, <1>17 DEF Observes, AppType
    <2>2. /\ b.scan = S /\ b.floor = a.floor /\ b.timeFloor = a.timeFloor
          /\ b.blocking = a.blocking /\ b.risk = a.risk
          /\ b.recFloor = a.recFloor
      BY <1>7, <1>17 DEF AppType
    <2> QED
      BY <1>7, <1>8, <2>1, <2>2 DEF SameFlags
  <1>18. CASE Mine(app, w) /\ w.gap
    <2>1. PICK b : b = [a EXCEPT !.scan = NoScan]
      OBVIOUS
    <2>2. app' = b
      BY <1>4, <1>6, <1>18, <2>1 DEF EndpointHistoryScanned
    <2>3. /\ Observes(app, w, n, b) /\ SameFlags(app, b)
          /\ b.scan = NoScan /\ b.floor = app.floor
      BY <1>11, <1>17, <2>1
    <2>4. Heard(b) = {}
      BY <1>2, <1>3, <1>10, <1>18, <2>3, ReportHeard
    <2>5. NoScan.cutoff = 0 /\ NoScan.stop = 0
      BY DEF NoScan
    <2>6. Limits(b, s)
      BY <1>14, <2>3, <2>5 DEF Limits, SameFlags
    <2>7. Meets(b, s)
      BY <2>3, <2>4, <2>6 DEF Meets, ScanMeets
    <2>8. Reviewed(b, s, r)
      BY <1>14, <2>3, <2>4, <2>7
         DEF Reviewed, Waits, Seeks, SameFlags, Observes
    <2> QED
      BY <1>15, <2>2, <2>3, <2>8 DEF SameFlags
  <1>19. CASE Mine(app, w) /\ ~w.gap
    <2>1. PICK y : y = explained \cup ((1..w.cutoff - 1) \ app.activity)
      OBVIOUS
    <2>2. /\ Finished(app, w, Visible, head, Visible \ y)
          /\ Current(app, w)
      BY <1>2, <1>10, <1>19, <2>1, CurrentFinished
    <2>3. Placed(app, w, Visible \ y)
      BY <2>2 DEF Finished
    <2>4. Sees(app, w, s)
      BY <1>14, <1>19, <2>2 DEF Reviewed, Waits, Meets, Heard
    <2>5. ASSUME NEW S \in ScanType, app' = [a EXCEPT !.scan = S],
                 S.cutoff <= s, S.stop < s,
                 \A b : b.scan = S =>
                    /\ ScanMeets(b, s) /\ b.scan # NoScan
                    /\ Sought(app, w, s) =>
                         s <= Newest(w.rows) \/ s <= Newest(b.scan.rows)
          PROVE  RInv'
      <3>1. PICK b : b = [a EXCEPT !.scan = S]
        OBVIOUS
      <3>2. /\ Observes(app, w, n, b) /\ SameFlags(app, b)
            /\ b.scan = S /\ b.floor = app.floor
        BY <1>17, <3>1
      <3>3. Limits(b, s)
        BY <1>14, <2>5, <3>2 DEF Limits, SameFlags
      <3>4. /\ ScanMeets(b, s) /\ b.scan # NoScan
            /\ Sought(app, w, s) =>
                 s <= Newest(w.rows) \/ s <= Newest(b.scan.rows)
        BY <2>5, <3>2
      <3>5. Reviewed(b, s, r)
        BY <1>2, <1>3, <1>14, <1>19, <2>2, <3>2, <3>3, <3>4, ReportReviewed
      <3> QED
        BY <1>15, <2>5, <3>1, <3>2, <3>5 DEF SameFlags
    <2>6. /\ app.scan \in ScanType /\ w.stop \in OptLt /\ w.cont \in OptLt
          /\ w.cutoff \in OptCutoff /\ w.rows \in SUBSET Lts
          /\ MaxAuto \in 0..MaxAuto
      BY <1>2, <1>3, HistoryAssumptions DEF AppType, WalkType
    <2>7. PICK R \in SUBSET Lts : R = app.scan.rows \cup w.rows
      BY <2>6 DEF ScanType
    <2>8. app.scan.cutoff <= s /\ app.scan.stop < s
      BY <1>14 DEF Limits
    <2>9. w.cutoff <= s /\ (~w.headOnly => w.stop < s)
      BY <2>4 DEF Sees
    <2>10. CASE w.headOnly
      <3>1. app.scan # NoScan
        BY <2>3, <2>10 DEF Placed, Head
      <3>2. app' = HeadScanned(a, w)
        BY <1>4, <1>6, <1>19, <2>10 DEF EndpointHistoryScanned
      <3>3. CASE w.cont # 0
        <4>1. PICK S : S = [next |-> w.cont, stop |-> app.scan.stop,
                            cutoff |-> app.scan.cutoff, rows |-> R,
                            left |-> MaxAuto]
          OBVIOUS
        <4>2. /\ S \in ScanType /\ S.rows = R /\ S.stop = app.scan.stop
              /\ S.next = w.cont /\ S.cutoff = app.scan.cutoff
          BY <2>6, <2>7, <4>1 DEF ScanType
        <4>3. app' = [a EXCEPT !.scan = S]
          BY <1>7, <2>7, <3>1, <3>2, <3>3, <4>1 DEF HeadScanned
        <4>4. \A b : b.scan = S =>
                 /\ ScanMeets(b, s) /\ b.scan # NoScan
                 /\ Sought(app, w, s) => s <= Newest(w.rows)
          BY <1>14, <2>2, <2>4, <2>7, <2>10, <3>3, <4>2, HeadMeets
        <4> QED
          BY <2>5, <2>8, <4>2, <4>3, <4>4
      <3>4. CASE w.cont = 0
        <4>1. PICK S : S = [app.scan EXCEPT !.rows = R]
          OBVIOUS
        <4>2. /\ S \in ScanType /\ S.rows = R /\ S.stop = app.scan.stop
              /\ S.next = app.scan.next /\ S.cutoff = app.scan.cutoff
          BY <2>6, <2>7, <4>1 DEF ScanType
        <4>3. app' = [a EXCEPT !.scan = S]
          BY <1>7, <2>6, <2>7, <3>1, <3>2, <3>4, <4>1
             DEF HeadScanned, AppType, ScanType
        <4>4. \A b : b.scan = S =>
                 /\ ScanMeets(b, s) /\ b.scan # NoScan
                 /\ Sought(app, w, s) => s <= Newest(w.rows)
          BY <1>14, <2>2, <2>4, <2>7, <2>10, <3>4, <4>2, HeadMeets
        <4> QED
          BY <2>5, <2>8, <4>2, <4>3, <4>4
      <3> QED
        BY <3>3, <3>4
    <2>11. CASE ~w.headOnly /\ w.cont # 0
      <3>1. Joins(app, w)
        BY <1>2, <2>3, <2>11 DEF Placed
      <3>2. app' = RetainScan(a, w)
        BY <1>4, <1>6, <1>19, <2>11 DEF EndpointHistoryScanned
      <3>3. ASSUME NEW S \in ScanType, app' = [a EXCEPT !.scan = S],
                   S.rows = R, S.next = w.cont, S.stop = w.stop,
                   S.cutoff = w.cutoff
            PROVE  RInv'
        <4>1. \A b : b.scan = S =>
                 /\ ScanMeets(b, s) /\ b.scan # NoScan
                 /\ Sought(app, w, s) => s <= Newest(b.scan.rows)
          BY <1>14, <2>2, <2>4, <2>7, <2>11, <3>3, RetainMeets
        <4> QED
          BY <2>5, <2>9, <2>11, <3>3, <4>1
      <3>4. CASE w.start # 0
        <4>1. PICK S : S = [app.scan EXCEPT !.next = w.cont, !.rows = R]
          OBVIOUS
        <4>2. /\ S \in ScanType /\ S.rows = R /\ S.stop = w.stop
              /\ S.next = w.cont /\ S.cutoff = w.cutoff
          BY <2>6, <2>7, <3>1, <3>4, <4>1 DEF ScanType, Joins
        <4>3. Continues(a, w)
          BY <1>7, <3>1, <3>4 DEF Continues, Joins
        <4>4. app' = [a EXCEPT !.scan = S]
          BY <1>7, <2>6, <2>7, <3>2, <4>1, <4>3
             DEF RetainScan, AppType, ScanType
        <4> QED
          BY <3>3, <4>2, <4>4
      <3>5. CASE w.start = 0
        <4>1. PICK S : S = [next |-> w.cont, stop |-> w.stop,
                            cutoff |-> w.cutoff, rows |-> w.rows,
                            left |-> MaxAuto]
          OBVIOUS
        <4>2. app.scan = NoScan
          BY <3>1, <3>5 DEF Joins
        <4>3. app.scan.rows = {}
          BY <4>2 DEF NoScan
        <4>4. /\ S \in ScanType /\ S.rows = R /\ S.stop = w.stop
              /\ S.next = w.cont /\ S.cutoff = w.cutoff
          BY <2>6, <2>7, <4>1, <4>3 DEF ScanType
        <4>5. ~Continues(a, w)
          BY <1>7, <4>2 DEF Continues
        <4>6. app' = [a EXCEPT !.scan = S]
          BY <1>7, <3>2, <3>5, <4>1, <4>2, <4>5 DEF RetainScan
        <4> QED
          BY <3>3, <4>4, <4>6
      <3> QED
        BY <3>4, <3>5
    <2>12. CASE ~w.headOnly /\ w.cont = 0
      <3>1. Joins(app, w)
        BY <1>2, <2>3, <2>12 DEF Placed
      <3>2. app' = CompleteScan(a, w)
        BY <1>4, <1>6, <1>19, <2>12 DEF EndpointHistoryScanned
      <3>3. Continues(a, w) \/ (a.scan = NoScan /\ w.start = 0)
        BY <1>7, <3>1 DEF Continues, Joins
      <3>4. PICK f \in OptLt : f = LowerFloor(a.floor, Oldest(R))
        <4>1. MaxLt \in Nat /\ R \in SUBSET (1..MaxLt) /\ a.floor \in 0..MaxLt
          BY <1>7, HistoryAssumptions DEF Lts, AppType, OptLt
        <4>2. PICK o \in 0..MaxLt : o = Oldest(R)
          BY <4>1, OldestFacts
        <4>3. {a.floor, o} \in SUBSET Nat /\ {a.floor, o} # {}
          BY <4>1
        <4>4. Min({a.floor, o}) \in {a.floor, o}
          BY <4>3, MinOfRows
        <4> QED
          BY <4>1, <4>2, <4>4 DEF LowerFloor, OptLt
      <3>5. PICK b : b = [a EXCEPT !.scan = NoScan, !.floor = f]
        OBVIOUS
      <3>6. b \in AppType /\ b.scan = NoScan /\ b.floor = f
            /\ Observes(app, w, n, b)
        BY <1>4, <1>7, <1>11, <3>5 DEF Observes, AppType
      <3>7. SameFlags(app, b)
        BY <1>7, <1>8, <3>5 DEF SameFlags, AppType
      <3>8. CASE app.blocking /\ sent \in R
        <4>1. PICK d : d = Unblock(b)
          OBVIOUS
        <4>2. app' = d
          BY <1>7, <2>7, <3>2, <3>3, <3>4, <3>5, <3>8, <4>1 DEF CompleteScan
        <4>3. d = [b EXCEPT !.blocking = FALSE, !.recFloor = 0,
                            !.timeFloor = 0, !.risk = "none"]
          BY <4>1 DEF Unblock
        <4>4. /\ d.scan = b.scan /\ d.tasks = b.tasks
              /\ d.inFlight = b.inFlight /\ d.gen = b.gen
              /\ d.blocking = FALSE /\ d.timeFloor = 0 /\ d.risk = "none"
          BY <3>6, <4>3 DEF AppType
        <4>5. Heard(b) = {n}
          BY <1>2, <1>3, <1>19, <2>2, <3>6, ReportHeard
        <4>6. Heard(d) = {n}
          BY <4>4, <4>5 DEF Heard, Current
        <4>7. PICK t \in Nat : t = head + 1
          BY <1>1 DEF WorldFacts
        <4>8. n.cutoff <= t /\ 0 <= t
          <5>1. s <= head + 1 /\ w.cutoff \in Nat /\ head \in Nat
            BY <1>1, <1>3, <1>14, HistoryAssumptions
               DEF Aims, WalkType, OptCutoff, WorldFacts
          <5> QED
            BY <1>5, <1>14, <2>9, <4>7, <5>1
        <4>9. Sound(d, Visible, head, explained')
          <5>1. Visible' = Visible
            BY <1>9 DEF Visible
          <5> QED
            BY <1>9, <4>2, <5>1 DEF IInv
        <4>10. NoScan.cutoff = 0
          BY DEF NoScan
        <4>11. Meets(d, t)
          BY <1>1, <3>6, <4>4, <4>6, <4>7, <4>8, <4>9, <4>10, Beyond DEF WorldFacts
        <4>12. sent' = 0 /\ ~atRequest'
          BY <1>9, <3>8, <4>2, <4>4
        <4>13. Aim' = t /\ ~Asked'
          BY <1>9, <4>7, <4>12 DEF Aim, Asked
        <4>14. Reviewed(d, t, Asked')
          BY <4>4, <4>11, <4>13 DEF Reviewed, Waits, Seeks
        <4> QED
          BY <1>9, <4>2, <4>12, <4>13, <4>14 DEF RInv
      <3>9. CASE ~(app.blocking /\ sent \in R)
        <4>1. app' = b
          BY <1>7, <2>7, <3>2, <3>3, <3>4, <3>5, <3>9 DEF CompleteScan
        <4>2. s \notin R
          <5>1. \A l \in R : l \in 1..head
            BY <1>1, <1>2, <1>3, <2>7 DEF WorldFacts, Fields, WalkOK
          <5>2. s \in R => s # head + 1
            BY <1>1, <5>1 DEF WorldFacts
          <5>3. s # head + 1 => s = sent /\ sent # 0
            BY <1>12 DEF Aim
          <5> QED
            BY <3>9, <5>2, <5>3 DEF RInv
        <4>3. /\ LowerFloor(app.floor, Oldest(R)) < s /\ Newest(w.rows) < s
              /\ ~Sought(app, w, s)
          BY <1>14, <2>2, <2>4, <2>7, <2>12, <4>2, CompleteMeets
        <4>4. NoScan.cutoff = 0 /\ NoScan.stop = 0
          BY DEF NoScan
        <4>5. Limits(b, s)
          BY <1>7, <1>14, <3>4, <3>6, <3>7, <4>3, <4>4 DEF Limits, SameFlags
        <4>6. ScanMeets(b, s)
          BY <3>6 DEF ScanMeets
        <4>7. Reviewed(b, s, r)
          BY <1>2, <1>3, <1>14, <1>19, <2>2, <3>6, <3>7, <4>3, <4>5, <4>6,
             ReportReviewed
        <4> QED
          BY <1>15, <3>7, <4>1, <4>7 DEF SameFlags
      <3> QED
        BY <3>8, <3>9
    <2> QED
      BY <2>10, <2>11, <2>12
  <1> QED
    BY <1>16, <1>18, <1>19

-----------------------------------------------------------------------------
(* The second report of a walk, and what is fetched next.                  *)

\* A review that no queued request serves is served by the retained scan, or
\* will not go on: the list is marked as unfinished.
Debt(a, s, r) ==
    /\ a.scan # NoScan => a.incomplete
    /\ a.risk = "checking" /\ r /\ ~a.again /\ ~a.headAfter
         => /\ a.incomplete
            /\ a.scan # NoScan => s <= Newest(a.scan.rows)

(* The end of a review that no walk is waited for.                         *)
LEMMA FinishRiskReviewed ==
    ASSUME NEW a \in AppType, NEW s, NEW r, Waits(a, s, r), Heard(a) = {},
           a.risk = "checking" /\ r => a.incomplete
    PROVE  /\ a.inFlight = 0 => Reviewed(FinishRisk(a), s, r)
           /\ FinishRisk(a).blocking = a.blocking
  <1>1. CASE a.risk # "checking" \/ a.inFlight # 0
    <2>1. FinishRisk(a) = a
      BY <1>1 DEF FinishRisk
    <2>2. a.inFlight = 0 => Reviewed(a, s, r)
      BY <1>1 DEF Reviewed, Seeks
    <2> QED
      BY <2>1, <2>2
  <1>2. CASE a.risk = "checking" /\ a.inFlight = 0
    <2>1. PICK q \in {"none", "context"} :
             /\ FinishRisk(a) = [a EXCEPT !.risk = q]
             /\ q = "context" => a.blocking /\ ~a.incomplete
      BY <1>2 DEF FinishRisk
    <2>2. PICK b : b = [a EXCEPT !.risk = q]
      OBVIOUS
    <2>3. Keeps(a, b) /\ b.risk = q
      BY <2>2 DEF AppType, Keeps
    <2>4. Meets(b, s) /\ b.blocking = a.blocking
      BY <2>3, MeetsFrame DEF Waits, Keeps
    <2>5. Reviewed(b, s, r)
      BY <1>2, <2>1, <2>3, <2>4 DEF Reviewed, Waits, Seeks
    <2> QED
      BY <2>1, <2>2, <2>4, <2>5
  <1> QED
    BY <1>1, <1>2

(* A review whose walk is still under way is not ended.                    *)
LEMMA NotFinished ==
    ASSUME NEW a, NEW s, NEW r, Reviewed(a, s, r)
    PROVE  FinishRisk(a) = a
  BY DEF Reviewed, FinishRisk

(* The next walk serves the review, or the review ends.                    *)
LEMMA FetchNextReviewed ==
    ASSUME NEW h \in 0..MaxLt, NEW V \in SUBSET (1..h), NEW x, NEW a,
           Sound(a, V, h, x), a.inFlight = 0, NEW headOnly \in BOOLEAN,
           NEW s, Aims(a, h, s), NEW r \in BOOLEAN, Waits(a, s, r),
           Debt(a, s, r)
    PROVE  /\ Reviewed(FinishRisk(FetchNext(a, headOnly)), s, r)
           /\ FinishRisk(FetchNext(a, headOnly)).blocking = a.blocking
  <1>1. a \in AppType /\ a.again \in BOOLEAN /\ a.headAfter \in BOOLEAN
        /\ Pool(a, V, h)
    BY DEF Sound, Fields, AppType
  <1>2. PICK p \in BOOLEAN : p = (a.scan # NoScan)
    OBVIOUS
  <1>3. PICK g \in BOOLEAN, k \in BOOLEAN :
           g = (a.again /\ ~p) /\ k = (a.headAfter \/ (p /\ a.again))
    OBVIOUS
  <1>4. PICK b : b = [a EXCEPT !.again = g, !.headAfter = k]
    OBVIOUS
  <1>5. /\ b \in AppType /\ b.again = g /\ b.headAfter = k
        /\ b.gen = a.gen /\ b.tasks = a.tasks /\ b.inFlight = a.inFlight
        /\ b.activity = a.activity /\ b.hasGap = a.hasGap
        /\ b.incomplete = a.incomplete /\ b.floor = a.floor
        /\ b.recFloor = a.recFloor /\ b.sub = a.sub /\ b.scan = a.scan
    BY <1>1, <1>4 DEF AppType
  <1>6. Sound(b, V, h, x)
    BY <1>5, FlagFrame
  <1>7. PICK auto \in BOOLEAN : auto = (p /\ a.scan.left > 0)
    OBVIOUS
  <1>8. FetchNext(a, headOnly) =
          IF auto
          THEN FetchInner([b EXCEPT !.scan.left = @ - 1], FALSE)
          ELSE IF p /\ a.again
          THEN FetchInner(b, FALSE)
          ELSE IF p /\ b.headAfter
          THEN FetchInner([b EXCEPT !.headAfter = FALSE], TRUE)
          ELSE IF ~p /\ (b.again \/ b.headAfter)
          THEN Fetch([b EXCEPT !.again = FALSE, !.headAfter = FALSE])
          ELSE IF p /\ ~headOnly
          THEN FetchInner(b, TRUE)
          ELSE b
    BY <1>1, <1>2, <1>3, <1>4, <1>7 DEF FetchNext, AppType
  <1>9. PICK no \in Flag, yes \in Flag : no = FALSE /\ yes = TRUE
    BY DEF Flag
  <1>10. ASSUME NEW c, Sound(c, V, h, x), c.inFlight = 0,
                c.timeFloor = a.timeFloor, c.floor = a.floor,
                c.recFloor = a.recFloor, c.scan = a.scan,
                c.blocking = a.blocking, c.risk = a.risk
         PROVE  Waits(c, s, r) /\ Aims(c, h, s) /\ Heard(c) = {}
    <2>1. Pool(c, V, h)
      BY <1>10 DEF Sound
    <2>2. Heard(c) = {}
      BY <1>10, <2>1, NobodyHeard
    <2>3. Waits(c, s, r)
      BY <1>10, <2>2, UnheardWaits
    <2> QED
      BY <1>10, <2>2, <2>3 DEF Aims
  <1>11. /\ b.timeFloor = a.timeFloor /\ b.blocking = a.blocking
         /\ b.risk = a.risk
    BY <1>1, <1>4 DEF AppType
  <1>12. Waits(b, s, r) /\ Aims(b, h, s) /\ Heard(b) = {}
    BY <1>5, <1>6, <1>10, <1>11
  <1>13. ASSUME NEW f, FetchNext(a, headOnly) = f, Reviewed(f, s, r),
                f.blocking = a.blocking
         PROVE  /\ Reviewed(FinishRisk(FetchNext(a, headOnly)), s, r)
                /\ FinishRisk(FetchNext(a, headOnly)).blocking = a.blocking
    BY <1>13, NotFinished
  <1>14. CASE auto
    <2>1. PICK S : S = [b.scan EXCEPT !.left = @ - 1]
      OBVIOUS
    <2>2. /\ S \in ScanType /\ S.next = b.scan.next /\ S.stop = b.scan.stop
          /\ S.cutoff = b.scan.cutoff /\ S.rows = b.scan.rows
      <3>1. b.scan \in ScanType /\ b.scan.left \in 0..MaxAuto /\ MaxAuto \in Nat
        BY <1>5, HistoryAssumptions DEF AppType, ScanType
      <3>2. b.scan.left > 0
        BY <1>5, <1>7, <1>14
      <3>3. PICK i \in 0..MaxAuto : i = b.scan.left - 1
        BY <3>1, <3>2
      <3>4. S = [b.scan EXCEPT !.left = i]
        BY <2>1, <3>3
      <3> QED
        BY <3>1, <3>4 DEF ScanType
    <2>3. PICK c : c = [b EXCEPT !.scan = S]
      OBVIOUS
    <2>4. /\ c \in AppType /\ c.again = g /\ c.headAfter = k /\ c.scan = S
          /\ c.gen = b.gen /\ c.tasks = b.tasks /\ c.inFlight = b.inFlight
          /\ c.activity = b.activity /\ c.hasGap = b.hasGap
          /\ c.incomplete = b.incomplete /\ c.floor = b.floor
          /\ c.recFloor = b.recFloor /\ c.sub = b.sub
          /\ c.timeFloor = b.timeFloor /\ c.blocking = b.blocking
          /\ c.risk = b.risk
      BY <1>5, <2>2, <2>3 DEF AppType
    <2>5. b.scan.next # 0 /\ b.scan # NoScan
      BY <1>2, <1>5, <1>6, <1>7, <1>14 DEF Sound, Fields
    <2>6. c.scan # NoScan
      BY <2>2, <2>4, <2>5 DEF NoScan
    <2>7. Sound(c, V, h, x)
      <3>1. b.sub = "failed" => b.gen < MaxGeneration
        BY <1>6 DEF Sound, Fields
      <3> QED
        BY <1>5, <1>6, <2>2, <2>4, <2>5, <2>6, <3>1, Frame
    <2>8. FetchNext(a, headOnly) = FetchInner(c, no)
      BY <1>5, <1>8, <1>9, <1>14, <2>1, <2>3 DEF AppType
    <2>9. c.inFlight = 0
      BY <1>5, <2>4
    <2>10. Heard(c) = {}
      BY <2>4, <1>12 DEF Heard, Current
    <2>11. Limits(c, s) /\ ScanMeets(c, s)
      BY <1>12, <2>2, <2>4, <2>5 DEF Waits, Meets, Limits, ScanMeets
    <2>12. Waits(c, s, r) /\ Aims(c, h, s)
      BY <1>12, <2>4, <2>10, <2>11 DEF Waits, Meets, Aims
    <2>13. Covers(c, no, s, r)
      <3>1. CASE k
        BY <2>4, <3>1 DEF Covers
      <3>2. CASE ~k
        <4>1. ~a.headAfter /\ ~a.again /\ a.scan # NoScan
          BY <1>2, <1>3, <1>7, <1>14, <3>2
        <4>2. a.risk = "checking" /\ r => s <= Newest(a.scan.rows)
          BY <4>1 DEF Debt
        <4> QED
          BY <1>5, <1>11, <2>2, <2>4, <4>2 DEF Covers
      <3> QED
        BY <3>1, <3>2
    <2>14. /\ Reviewed(FetchInner(c, no), s, r)
           /\ FetchInner(c, no).blocking = c.blocking
      BY <2>7, <2>9, <2>12, <2>13, StartReviewed
    <2> QED
      BY <1>11, <1>13, <2>4, <2>8, <2>14
  <1>15. CASE ~auto /\ p /\ a.again
    <2>1. FetchNext(a, headOnly) = FetchInner(b, no)
      BY <1>8, <1>9, <1>15
    <2>2. b.inFlight = 0 /\ Covers(b, no, s, r)
      BY <1>3, <1>5, <1>15 DEF Covers
    <2>3. /\ Reviewed(FetchInner(b, no), s, r)
          /\ FetchInner(b, no).blocking = b.blocking
      BY <1>6, <1>12, <2>2, StartReviewed
    <2> QED
      BY <1>11, <1>13, <2>1, <2>3
  <1>16. CASE ~auto /\ p /\ ~a.again /\ b.headAfter
    <2>1. PICK c : c = [b EXCEPT !.headAfter = FALSE]
      OBVIOUS
    <2>2. /\ c \in AppType /\ c.scan = b.scan
          /\ c.gen = b.gen /\ c.tasks = b.tasks /\ c.inFlight = b.inFlight
          /\ c.activity = b.activity /\ c.hasGap = b.hasGap
          /\ c.incomplete = b.incomplete /\ c.floor = b.floor
          /\ c.recFloor = b.recFloor /\ c.sub = b.sub
          /\ c.timeFloor = b.timeFloor /\ c.blocking = b.blocking
          /\ c.risk = b.risk
      BY <1>5, <2>1 DEF AppType
    <2>3. Sound(c, V, h, x)
      BY <1>6, <2>2, FlagFrame
    <2>4. Waits(c, s, r) /\ Aims(c, h, s)
      BY <1>5, <1>10, <1>11, <2>2, <2>3
    <2>5. c.inFlight = 0 /\ Covers(c, yes, s, r)
      BY <1>5, <1>9, <2>2 DEF Covers
    <2>6. FetchNext(a, headOnly) = FetchInner(c, yes)
      BY <1>8, <1>9, <1>16, <2>1
    <2>7. /\ Reviewed(FetchInner(c, yes), s, r)
          /\ FetchInner(c, yes).blocking = c.blocking
      BY <2>3, <2>4, <2>5, StartReviewed
    <2> QED
      BY <1>11, <1>13, <2>2, <2>6, <2>7
  <1>17. CASE ~p /\ (b.again \/ b.headAfter)
    <2>1. PICK c : c = [b EXCEPT !.again = FALSE, !.headAfter = FALSE]
      OBVIOUS
    <2>2. /\ c \in AppType /\ c.scan = b.scan
          /\ c.gen = b.gen /\ c.tasks = b.tasks /\ c.inFlight = b.inFlight
          /\ c.activity = b.activity /\ c.hasGap = b.hasGap
          /\ c.incomplete = b.incomplete /\ c.floor = b.floor
          /\ c.recFloor = b.recFloor /\ c.sub = b.sub
          /\ c.timeFloor = b.timeFloor /\ c.blocking = b.blocking
          /\ c.risk = b.risk
      BY <1>5, <2>1 DEF AppType
    <2>3. Sound(c, V, h, x)
      BY <1>6, <2>2, FlagFrame
    <2>4. Waits(c, s, r) /\ Aims(c, h, s)
      BY <1>5, <1>10, <1>11, <2>2, <2>3
    <2>5. FetchNext(a, headOnly) = Fetch(c)
      BY <1>7, <1>8, <1>17, <2>1
    <2>6. Reviewed(Fetch(c), s, r) /\ Fetch(c).blocking = c.blocking
      BY <2>3, <2>4, FetchReviewed
    <2> QED
      BY <1>11, <1>13, <2>2, <2>5, <2>6
  <1>18. CASE ~auto /\ p /\ ~a.again /\ ~b.headAfter /\ ~headOnly
    <2>1. FetchNext(a, headOnly) = FetchInner(b, yes)
      BY <1>8, <1>9, <1>18
    <2>2. b.inFlight = 0 /\ Covers(b, yes, s, r)
      BY <1>5, <1>9 DEF Covers
    <2>3. /\ Reviewed(FetchInner(b, yes), s, r)
          /\ FetchInner(b, yes).blocking = b.blocking
      BY <1>6, <1>12, <2>2, StartReviewed
    <2> QED
      BY <1>11, <1>13, <2>1, <2>3
  <1>19. CASE \/ ~auto /\ p /\ ~a.again /\ ~b.headAfter /\ headOnly
              \/ ~p /\ ~b.again /\ ~b.headAfter
    <2>1. FetchNext(a, headOnly) = b
      BY <1>7, <1>8, <1>19
    <2>2. a.risk = "checking" /\ r => b.incomplete
      <3>1. CASE p
        BY <1>2, <1>5, <3>1 DEF Debt
      <3>2. CASE ~p
        <4>1. ~a.again /\ ~a.headAfter
          BY <1>3, <1>5, <1>19, <3>2
        <4> QED
          BY <1>5, <4>1 DEF Debt
      <3> QED
        BY <3>1, <3>2
    <2>3. /\ Reviewed(FinishRisk(b), s, r)
          /\ FinishRisk(b).blocking = b.blocking
      BY <1>5, <1>11, <1>12, <2>2, FinishRiskReviewed
    <2> QED
      BY <1>11, <2>1, <2>3
  <1> QED
    BY <1>14, <1>15, <1>16, <1>17, <1>18, <1>19

(* A report to an older subscription ends a review that nothing is queued  *)
(* for.                                                                    *)
LEMMA StaleReviewed ==
    ASSUME NEW h \in 0..MaxLt, NEW V \in SUBSET (1..h), NEW x, NEW a,
           Sound(a, V, h, x), a.inFlight = 0,
           NEW s, Aims(a, h, s), NEW r \in BOOLEAN, Waits(a, s, r)
    PROVE  /\ Reviewed(StaleLoaded(a), s, r)
           /\ StaleLoaded(a).blocking = a.blocking
  <1>1. a \in AppType
    BY DEF Sound, Fields
  <1>2. PICK no \in Flag : no = FALSE
    BY DEF Flag
  <1>3. ASSUME a.again, NEW k \in BOOLEAN,
               NEW b, b = [a EXCEPT !.again = FALSE, !.headAfter = k]
        PROVE  /\ Sound(b, V, h, x) /\ Waits(b, s, r) /\ Aims(b, h, s)
               /\ b.inFlight = 0 /\ b.blocking = a.blocking /\ b.headAfter = k
    <2>1. /\ b \in AppType /\ b.scan = a.scan /\ b.headAfter = k
          /\ b.gen = a.gen /\ b.tasks = a.tasks /\ b.inFlight = a.inFlight
          /\ b.activity = a.activity /\ b.hasGap = a.hasGap
          /\ b.incomplete = a.incomplete /\ b.floor = a.floor
          /\ b.recFloor = a.recFloor /\ b.sub = a.sub
          /\ b.timeFloor = a.timeFloor /\ b.blocking = a.blocking
          /\ b.risk = a.risk
      BY <1>1, <1>3 DEF AppType
    <2>2. Sound(b, V, h, x)
      BY <2>1, FlagFrame
    <2>3. Heard(b) = {}
      BY <2>1, <2>2, NobodyHeard DEF Sound
    <2>4. Waits(b, s, r)
      BY <2>1, <2>3, UnheardWaits
    <2> QED
      BY <2>1, <2>2, <2>4 DEF Aims
  <1>4. CASE a.again /\ a.scan # NoScan
    <2>1. PICK b : b = [a EXCEPT !.again = FALSE, !.headAfter = TRUE]
      OBVIOUS
    <2>2. StaleLoaded(a) = FetchInner(b, no)
      BY <1>1, <1>2, <1>4, <2>1 DEF StaleLoaded
    <2>3. /\ Sound(b, V, h, x) /\ Waits(b, s, r) /\ Aims(b, h, s)
          /\ b.inFlight = 0 /\ b.blocking = a.blocking /\ b.headAfter
      BY <1>3, <1>4, <2>1
    <2>4. Covers(b, no, s, r)
      BY <2>3 DEF Covers
    <2>5. /\ Reviewed(FetchInner(b, no), s, r)
          /\ FetchInner(b, no).blocking = b.blocking
      BY <2>3, <2>4, StartReviewed
    <2> QED
      BY <2>2, <2>3, <2>5
  <1>5. CASE a.again /\ a.scan = NoScan
    <2>1. PICK b : b = [a EXCEPT !.again = FALSE]
      OBVIOUS
    <2>2. PICK k \in BOOLEAN : k = a.headAfter
      BY <1>1 DEF AppType
    <2>3. b = [a EXCEPT !.again = FALSE, !.headAfter = k]
      BY <1>1, <2>1, <2>2 DEF AppType
    <2>4. StaleLoaded(a) = Fetch(b)
      BY <1>5, <2>1 DEF StaleLoaded
    <2>5. /\ Sound(b, V, h, x) /\ Waits(b, s, r) /\ Aims(b, h, s)
          /\ b.blocking = a.blocking
      BY <1>3, <1>5, <2>3
    <2>6. Reviewed(Fetch(b), s, r) /\ Fetch(b).blocking = b.blocking
      BY <2>5, FetchReviewed
    <2> QED
      BY <2>4, <2>5, <2>6
  <1>6. CASE ~a.again
    <2>1. PICK q \in {"none", "context"} :
             q = IF a.risk = "checking" THEN "none" ELSE a.risk
      BY <1>1 DEF AppType
    <2>2. PICK b : b = [a EXCEPT !.risk = q]
      OBVIOUS
    <2>3. Keeps(a, b) /\ b.risk = q
      BY <1>1, <2>2 DEF AppType, Keeps
    <2>4. StaleLoaded(a) = b
      BY <1>1, <1>6, <2>1, <2>2 DEF StaleLoaded, AppType
    <2>5. Meets(b, s) /\ b.blocking = a.blocking
      BY <2>3, MeetsFrame DEF Waits, Keeps
    <2>6. Reviewed(b, s, r)
      BY <2>1, <2>3, <2>5 DEF Reviewed, Waits, Seeks
    <2> QED
      BY <2>4, <2>5, <2>6
  <1> QED
    BY <1>4, <1>5, <1>6

(* The merge leaves the review's flags alone.                              *)
LEMMA MergeFlags ==
    ASSUME NEW b \in AppType, NEW w
    PROVE  SameFlags(b, Merge(b, w))
  <1>1. PICK A, i, t, S, g, f :
           Merge(b, w) = [b EXCEPT !.activity = A, !.incomplete = i,
                                   !.integrity = t, !.scan = S, !.hasGap = g,
                                   !.floor = f]
    BY Zenon DEF Merge
  <1>2. PICK c : c = [b EXCEPT !.activity = A, !.incomplete = i,
                               !.integrity = t, !.scan = S, !.hasGap = g,
                               !.floor = f]
    OBVIOUS
  <1>3. /\ c.timeFloor = b.timeFloor /\ c.blocking = b.blocking
        /\ c.risk = b.risk /\ c.recFloor = b.recFloor
    BY <1>2 DEF AppType
  <1> QED
    BY <1>1, <1>2, <1>3 DEF SameFlags

(* The merged list's floor is below the transfer, and a review that is not *)
(* yet served has found a reason to go on.                                 *)
LEMMA MergedReview ==
    ASSUME NEW h \in 0..MaxLt, NEW V \in SUBSET (1..h), NEW x, NEW a,
           Sound(a, V, h, x), NEW w \in a.tasks, Current(a, w),
           w.st \in {"observed", "died"}, NEW b, Merged(a, w, b),
           SameFlags(a, b), Pool(b, V, h),
           NEW s \in Nat \ {0}, NEW r \in BOOLEAN, Reviewed(a, s, r)
    PROVE  Waits(b, s, r) /\ Debt(b, s, r)
  <1>1. a \in AppType /\ Pool(a, V, h) /\ Fields(a, V, h) /\ Walks(a, V \ x)
        /\ h \in Nat
    BY HistoryAssumptions DEF Sound, Fields
  <1>2. w \in WalkType /\ WalkOK(w, V, h)
    BY <1>1 DEF AppType, Pool
  <1>3. ~w.gap => w.st = "observed"
    BY <1>2 DEF WalkOK
  <1>4. ~w.gap => w \in Heard(a) /\ Sees(a, w, s)
    BY DEF Heard, Reviewed, Waits, Meets
  <1>5. /\ b.inFlight = 0 /\ b.recFloor = a.recFloor
        /\ b.again = a.again /\ b.headAfter = a.headAfter
        /\ b.incomplete = (w.gap \/ w.cont # 0 \/ a.scan # NoScan)
        /\ b.scan = IF w.gap THEN NoScan ELSE a.scan
        /\ b.floor = IF b.incomplete THEN a.floor
                     ELSE LowerFloor(a.floor, Oldest(w.rows))
    BY DEF Merged, Released
  <1>6. /\ b.timeFloor = a.timeFloor /\ b.blocking = a.blocking
        /\ b.risk = a.risk
    BY DEF SameFlags
  <1>7. Limits(a, s) /\ ScanMeets(a, s)
    BY DEF Reviewed, Waits, Meets
  <1>8. w.rows \in SUBSET (1..h) /\ a.scan.rows \in SUBSET (1..h)
    BY <1>1, <1>2 DEF WalkOK, Fields
  <1>9. PICK j \in 0..h : j = Newest(w.rows)
    BY <1>1, <1>8, NewestFacts
  <1>10. ~w.gap /\ w.cont = 0 /\ a.scan = NoScan => j < s
    BY <1>3, <1>4, <1>9 DEF Sees
  <1>11. b.floor < s
    <2>1. a.floor < s /\ a.floor \in Nat
      BY <1>1, <1>7, HistoryAssumptions DEF Limits, AppType, OptLt
    <2>2. PICK o \in 0..h : o = Oldest(w.rows)
      BY <1>1, <1>8, OldestFacts
    <2>3. o = 0 \/ o <= j
      <3>1. o = 0 \/ o \in w.rows
        BY <1>1, <1>8, <2>2, OldestFacts
      <3>2. \A y \in w.rows : y <= j
        BY <1>1, <1>8, <1>9, NewestFacts
      <3> QED
        BY <3>1, <3>2
    <2>4. LowerFloor(a.floor, o) \in {a.floor, o}
      <3>1. {a.floor, o} \in SUBSET Nat /\ {a.floor, o} # {}
        BY <2>1
      <3>2. Min({a.floor, o}) \in {a.floor, o}
        BY <3>1, MinOfRows
      <3> QED
        BY <3>2 DEF LowerFloor
    <2>5. ~b.incomplete => j < s
      BY <1>5, <1>10
    <2>6. j < s => o < s
      BY <2>3
    <2> QED
      BY <1>5, <2>1, <2>2, <2>4, <2>5, <2>6
  <1>12. Limits(b, s) /\ ScanMeets(b, s)
    <2>1. NoScan.cutoff = 0 /\ NoScan.stop = 0
      BY DEF NoScan
    <2>2. b.scan.cutoff <= s /\ b.scan.stop < s
      BY <1>5, <1>7, <2>1 DEF Limits
    <2> QED
      BY <1>5, <1>6, <1>7, <1>11, <2>2 DEF Limits, ScanMeets
  <1>13. Heard(b) = {}
    BY <1>5, NobodyHeard
  <1>14. Waits(b, s, r)
    BY <1>6, <1>12, <1>13 DEF Reviewed, Waits, Meets
  <1>15. Debt(b, s, r)
    <2>1. b.scan # NoScan => b.incomplete
      BY <1>5
    <2> SUFFICES ASSUME b.risk = "checking", r, ~b.again, ~b.headAfter
                 PROVE  /\ b.incomplete
                        /\ b.scan # NoScan => s <= Newest(b.scan.rows)
      BY <2>1 DEF Debt
    <2>2. CASE w.gap
      BY <1>5, <2>2
    <2>3. CASE ~w.gap
      <3>1. Sought(a, w, s)
        BY <1>4, <1>5, <1>6, <2>3 DEF Reviewed, Seeks
      <3>2. s <= j \/ (a.scan # NoScan /\ s <= Newest(a.scan.rows))
        BY <1>9, <3>1 DEF Sought, Unread
      <3>3. CASE a.scan = NoScan
        <4>1. ~(j < s)
          BY <3>2, <3>3
        <4> QED
          BY <1>5, <1>10, <2>3, <3>3, <4>1
      <3>4. CASE a.scan # NoScan
        <4>1. w.rows \in SUBSET a.scan.rows
          BY <1>1, <1>3, <2>3, <3>4 DEF Walks, Placed, Reported
        <4>2. PICK i \in 0..h : i = Newest(a.scan.rows)
          BY <1>1, <1>8, NewestFacts
        <4>3. j <= i
          BY <1>1, <1>8, <1>9, <4>1, <4>2, NewestMonotone
        <4>4. s <= i
          BY <3>2, <4>2, <4>3
        <4> QED
          BY <1>5, <2>3, <3>4, <4>2, <4>4
      <3> QED
        BY <3>3, <3>4
    <2> QED
      BY <2>2, <2>3
  <1> QED
    BY <1>14, <1>15

(* The second report of a walk: the review goes on waiting, ends, or is    *)
(* over because the transfer was not listed.                               *)
LEMMA LoadedReview ==
    ASSUME IInv, RInv, NEW w \in app.tasks, TransactionsLoaded(w)
    PROVE  RInv'
  <1>1. /\ WorldFacts /\ Sound(app, Visible, head, explained)
        /\ atRequest \in BOOLEAN
    BY WorldGives DEF IInv, World
  <1>2. /\ Fields(app, Visible, head) /\ Pool(app, Visible, head)
        /\ app \in AppType /\ w.st \in {"observed", "died"}
    BY <1>1 DEF Sound, Fields, TransactionsLoaded
  <1>3. w \in WalkType /\ WalkOK(w, Visible, head)
    BY <1>2 DEF AppType, Pool
  <1>4. PICK a : a = [app EXCEPT !.tasks = app.tasks \ {w}]
    OBVIOUS
  <1>5. /\ a \in AppType /\ a.tasks = app.tasks \ {w}
        /\ a.scan = app.scan /\ a.again = app.again /\ a.headAfter = app.headAfter
        /\ a.gen = app.gen /\ a.inFlight = app.inFlight
        /\ a.activity = app.activity /\ a.hasGap = app.hasGap
        /\ a.incomplete = app.incomplete /\ a.floor = app.floor
        /\ a.recFloor = app.recFloor /\ a.sub = app.sub
        /\ a.timeFloor = app.timeFloor /\ a.blocking = app.blocking
        /\ a.risk = app.risk
    BY <1>2, <1>4 DEF AppType
  <1>6. PICK b : b = [a EXCEPT !.inFlight = 0]
    OBVIOUS
  <1>7. /\ b \in AppType /\ b.tasks = a.tasks /\ b.inFlight = 0
        /\ b.scan = a.scan /\ b.again = a.again /\ b.headAfter = a.headAfter
        /\ b.gen = a.gen
        /\ b.activity = a.activity /\ b.hasGap = a.hasGap
        /\ b.incomplete = a.incomplete /\ b.floor = a.floor
        /\ b.recFloor = a.recFloor /\ b.sub = a.sub
        /\ b.timeFloor = a.timeFloor /\ b.blocking = a.blocking
        /\ b.risk = a.risk
    BY <1>5, <1>6 DEF AppType
  <1>8. Released(app, w, b)
    BY <1>5, <1>7 DEF Released
  <1>9. PICK m : m = Merge(b, w)
    OBVIOUS
  <1>10. /\ app' = IF w.id # app.inFlight THEN a
                   ELSE IF w.gen # app.gen THEN StaleLoaded(b)
                   ELSE FinishRisk(FetchNext(m, w.headOnly))
         /\ UNCHANGED account /\ atRequest' \in BOOLEAN
         /\ atRequest' => atRequest
    BY <1>4, <1>6, <1>9 DEF TransactionsLoaded
  <1>11. PICK s : s = Aim
    OBVIOUS
  <1>12. PICK r \in BOOLEAN : r = Asked
    BY AimFacts
  <1>13. /\ Aims(app, head, s) /\ Reviewed(app, s, r) /\ s \in Nat \ {0}
    <2>1. Aims(app, head, s) /\ Reviewed(app, s, r)
      BY <1>11, <1>12, AimFacts
    <2> QED
      BY <1>1, <2>1 DEF Aims, WorldFacts
  <1>14. ASSUME NEW f, app' = f, f.blocking = app.blocking, Reviewed(f, s, r)
         PROVE  RInv'
    BY <1>10, <1>11, <1>12, <1>14, ReviewStep
  <1>15. CASE w.id # app.inFlight
    <2>1. app' = a
      BY <1>10, <1>15
    <2>2. Heard(a) = Heard(app)
      BY <1>5, <1>15 DEF Heard, Current
    <2>3. \A v : /\ Sees(app, v, s) => Sees(a, v, s)
                 /\ Sought(app, v, s) => Sought(a, v, s)
      BY <1>5 DEF Sees, Sought
    <2>4. Meets(a, s)
      BY <1>5, <1>13, <2>2, <2>3
         DEF Reviewed, Waits, Meets, Limits, ScanMeets
    <2>5. Reviewed(a, s, r)
      BY <1>5, <1>13, <2>2, <2>3, <2>4 DEF Reviewed, Waits, Seeks
    <2> QED
      BY <1>5, <1>14, <2>1, <2>5
  <1>16. CASE w.id = app.inFlight /\ w.gen # app.gen
    <2>1. PICK y : y = (explained \cup w.rows) \ app.activity
      OBVIOUS
    <2>2. Sound(b, Visible, head, y)
      BY <1>1, <1>5, <1>7, <1>8, <1>16, <2>1, StaleSound DEF WorldFacts
    <2>3. Heard(b) = {}
      BY <1>7, <2>2, NobodyHeard DEF Sound
    <2>4. Waits(b, s, r)
      BY <1>5, <1>7, <1>13, <2>3, UnheardWaits DEF Reviewed
    <2>5. Aims(b, head, s)
      BY <1>5, <1>7, <1>13 DEF Aims
    <2>6. /\ Reviewed(StaleLoaded(b), s, r)
          /\ StaleLoaded(b).blocking = b.blocking
      BY <1>1, <1>7, <2>2, <2>4, <2>5, StaleReviewed DEF WorldFacts
    <2>7. app' = StaleLoaded(b)
      BY <1>10, <1>16
    <2> QED
      BY <1>5, <1>7, <1>14, <2>6, <2>7
  <1>17. CASE w.id = app.inFlight /\ w.gen = app.gen
    <2>1. Current(app, w)
      BY <1>17 DEF Current
    <2>2. Merged(app, w, m)
      BY <1>1, <1>2, <1>3, <1>5, <1>7, <1>8, <1>9, MergeFields DEF WorldFacts
    <2>3. PICK y : y = (explained \cup ((app.activity \cup w.rows) \ m.activity))
                       \ m.activity
      OBVIOUS
    <2>4. Sound(m, Visible, head, y)
      BY <1>1, <1>2, <2>1, <2>2, <2>3, MergeSound DEF WorldFacts
    <2>5. SameFlags(app, m)
      <3>1. SameFlags(b, m)
        BY <1>7, <1>9, MergeFlags
      <3> QED
        BY <1>5, <1>7, <3>1 DEF SameFlags
    <2>6. m.inFlight = 0 /\ m.blocking = app.blocking /\ Pool(m, Visible, head)
      BY <2>2, <2>4, <2>5 DEF Merged, Released, SameFlags, Sound
    <2>7. Waits(m, s, r) /\ Debt(m, s, r)
      BY <1>1, <1>2, <1>13, <2>1, <2>2, <2>5, <2>6, MergedReview DEF WorldFacts
    <2>8. Aims(m, head, s)
      BY <1>13, <2>6 DEF Aims
    <2>9. PICK o \in BOOLEAN : o = w.headOnly
      BY <1>3 DEF WalkType
    <2>10. PICK f : f = FinishRisk(FetchNext(m, o))
      OBVIOUS
    <2>11. Reviewed(f, s, r) /\ f.blocking = m.blocking
      BY <1>1, <2>4, <2>6, <2>7, <2>8, <2>10, FetchNextReviewed DEF WorldFacts
    <2>12. app' = f
      BY <1>10, <1>17, <2>9, <2>10
    <2> QED
      BY <1>14, <2>6, <2>11, <2>12
  <1> QED
    BY <1>15, <1>16, <1>17

(* No transfer is reviewed when the wallet is opened.                      *)
LEMMA ReviewInitOK == HistoryInit => RInv
  <1> SUFFICES ASSUME HistoryInit PROVE RInv
    OBVIOUS
  <1>1. head = 1 /\ hidden = {} /\ sent = 0 /\ atRequest = FALSE
    BY DEF HistoryInit
  <1>2. /\ app.tasks = {} /\ app.inFlight = 0 /\ app.scan = NoScan
        /\ app.floor = 0 /\ app.recFloor = 0 /\ app.timeFloor = 0
        /\ app.risk = "none"
    BY DEF HistoryInit
  <1>3. Aim = 2 /\ ~Asked
    BY <1>1 DEF Aim, Asked
  <1>4. Heard(app) = {}
    BY <1>2 DEF Heard
  <1>5. Limits(app, 2)
    <2>1. NoScan.cutoff = 0 /\ NoScan.stop = 0
      BY DEF NoScan
    <2> QED
      BY <1>2, <2>1 DEF Limits
  <1>6. Meets(app, 2)
    BY <1>2, <1>4, <1>5 DEF Meets, ScanMeets
  <1>7. Reviewed(app, 2, Asked)
    BY <1>2, <1>3, <1>6 DEF Reviewed, Waits, Seeks
  <1> QED
    BY <1>1, <1>3, <1>7 DEF RInv

(* Every step keeps the review's invariant.                                *)
LEMMA ReviewNextOK ==
    MaxLate = 0 /\ IInv /\ IInv' /\ RInv /\ [HistoryNext]_historyVars => RInv'
  <1> SUFFICES ASSUME MaxLate = 0, IInv, IInv', RInv,
                      [HistoryNext]_historyVars
               PROVE  RInv'
    OBVIOUS
  <1>1. CASE WalkNext
    <2>1. ASSUME NEW w \in app.tasks,
                 PageArrives(w) \/ PageFaults(w) \/ WalkDies(w)
          PROVE  RInv'
      BY <2>1, WalkReview
    <2>2. ASSUME NEW w \in app.tasks,
                 EndpointHistoryScanned(w) \/ TransactionsLoaded(w)
          PROVE  RInv'
      BY <2>2, ScannedReview, LoadedReview
    <2>3. CASE \/ SubscriptionReady \/ SubscriptionUpdate \/ SubscriptionFailed
               \/ Reconnect \/ ManualRefresh
      BY <2>3, PollReview, ReconnectReview
    <2>4. ASSUME NEW reopen \in BOOLEAN, Restart(reopen) PROVE RInv'
      BY <2>4, RestartReview
    <2>5. ASSUME NEW ours \in BOOLEAN, NEW late \in BOOLEAN, NewRow(ours, late)
          PROVE  RInv'
      BY <2>5, NewRowReview
    <2>6. ASSUME NEW l \in hidden, IndexRow(l) PROVE RInv'
      BY <2>6 DEF RInv
    <2> QED
      BY <1>1, <2>1, <2>2, <2>3, <2>4, <2>5, <2>6 DEF WalkNext
  <1>2. CASE TransferNext
    <2>1. ASSUME NEW lt \in 0..head, Send(lt) PROVE RInv'
      BY <2>1, SendReview
    <2>2. CASE RecordAges \/ PollJournal \/ RequestRisk \/ EndRisk
      BY <2>2, EndReview, PollReview, RequestReview
    <2> QED
      BY <1>2, <2>1, <2>2 DEF TransferNext
  <1>3. CASE UNCHANGED historyVars
    <2>1. UNCHANGED <<head, hidden, sends, sent, app, faults, announced,
                      atRequest, explained>>
      BY <1>3 DEF historyVars, account, history
    <2>2. Aim' = Aim /\ Asked' = Asked
      BY <2>1 DEF Aim, Asked
    <2> QED
      BY <2>1, <2>2 DEF RInv
  <1> QED
    BY <1>1, <1>2, <1>3 DEF HistoryNext

(* What a review looks for stays within reach of its walks, of the         *)
(* retained scan and of every floor until it is found, if the endpoint     *)
(* indexes in order, however many pages fail or lose rows (risk.rs,        *)
(* events.rs and live.rs).                                                 *)
THEOREM HistoryReviewInvariant == MaxLate = 0 => (HistorySpec => []RInv)
  <1>1. ASSUME MaxLate = 0 PROVE HistorySpec => []RInv
    <2>1. IInv /\ IInv' /\ RInv /\ [HistoryNext]_historyVars => RInv'
      BY <1>1, ReviewNextOK
    <2> QED
      BY <2>1, ReviewInitOK, HistoryInvariant, PTL DEF HistorySpec
  <1> QED
    BY <1>1

(* An endpoint that indexes in order: the duplicate-risk review goes on    *)
(* only if the endpoint did not list the transfer when it was asked for,   *)
(* and an idle list marked complete has no unexplained hole, whatever      *)
(* pages, faults, reconnects and reopenings come in between (risk.rs,      *)
(* finish_pending_risk_reconciliation; live.rs, fetch_transactions_inner). *)
THEOREM HistoryReviewSound == MaxLate = 0 => (HistorySpec => []ReviewIsSound)
  <1>1. RInv => ReviewFindsLanded
    BY DEF RInv, Reviewed, Waits, Asked, ReviewFindsLanded
  <1>2. ASSUME MaxLate = 0 PROVE HistorySpec => []ReviewIsSound
    <2>1. HistorySpec => []RInv
      BY <1>2, HistoryReviewInvariant
    <2> QED
      BY <1>1, <2>1, HistoryHolesExplained, PTL DEF ReviewIsSound
  <1> QED
    BY <1>2
=============================================================================
