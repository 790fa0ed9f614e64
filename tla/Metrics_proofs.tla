--------------------------- MODULE Metrics_proofs ---------------------------
(***************************************************************************)
(* What is made of the metric reports, for any parameters.                 *)
(*                                                                         *)
(* The PM files, for any jobs, periods and bounds: every sample an active  *)
(* job accepts is accounted for once, in the period and the file it is of. *)
(*                                                                         *)
(* The metrics alarms, for any sources, causes, severities and numbers:    *)
(* counting runs debounces as Debounce defines it, the failure ratio       *)
(* judges what happened and nothing else, and so does their composition.   *)
(***************************************************************************)
EXTENDS FailureAlarm, PmFiles, FiniteSetTheorems, TLAPS

-----------------------------------------------------------------------------
(***************************************************************************)
(*                              The PM files                               *)
(***************************************************************************)
Period == [end : Nat, samples : SUBSET Report]
Collection ==
  [key : Periods, samples : SUBSET Report, periods : SUBSET Period,
   begin : Nat, periodEnd : Nat, fileEnd : Nat]

\* Unlike FilesTypeOK, what the proofs need of types.
Typed ==
  /\ tracked \subseteq Job
  /\ \A j \in Job : IF j \in tracked THEN collected[j] \in Collection ELSE collected[j] = Uncollected
  /\ collected = [j \in Job |-> collected[j]]
  /\ now = -1 => tracked = {}
  /\ at \in Seq(Nat) /\ Len(at) <= MaxReports
  /\ accepted \in [Job -> SUBSET Report] /\ dropped \in [Job -> SUBSET Report]

\* The boundaries of a collection are those of its periods, and the file's one
\* of those of its period.
InGrid(c, t) ==
  /\ \E k \in Nat : c.fileEnd = k * c.key.file
  /\ c.begin < c.periodEnd /\ c.periodEnd <= c.fileEnd
  /\ c.begin <= t /\ c.periodEnd - c.key.gran <= t
  /\ \A p \in c.periods : c.begin < p.end /\ p.end <= c.fileEnd

\* Nothing was sampled before the period it counts for.
Sampled(c, times) ==
  /\ \A r \in c.samples : times[r] >= c.periodEnd - c.key.gran
  /\ \A p \in c.periods : \A r \in p.samples : times[r] >= p.end - c.key.gran

Collecting == \A j \in tracked : InGrid(collected[j], now) /\ Sampled(collected[j], at)

\* A file was due when it was made; what is collected follows on it.
Made ==
  \A j \in Job : \A f \in FilesOf(j) :
    /\ f.begin \in Nat /\ f.end \in Nat /\ f.begin < f.end /\ f.end <= now
    /\ j \in tracked => f.end <= collected[j].begin

\* Every report that is anywhere has come.
Came ==
  \A j \in Job :
    /\ Held(collected[j]) \subseteq DOMAIN at
    /\ accepted[j] \subseteq DOMAIN at /\ dropped[j] \subseteq DOMAIN at
    /\ \A f \in FilesOf(j) : \A p \in f.periods : p.samples \subseteq DOMAIN at

\* OneFile, without the count.
OnePlace == phase # "ended" => \A j \in Job : \A r \in accepted[j] : \E x : Places(j, r) = {x}

Core == Typed /\ Collecting /\ Made /\ Came /\ FilesTile /\ NotBeforeItsPeriod /\ OnePlace

FilesIInv == FilesTypeOK /\ Core

-----------------------------------------------------------------------------
(* Boundaries *)

LEMMA Division ==
  ASSUME NEW t \in Nat, NEW p \in Nat \ {0}
  PROVE  t \div p \in Nat /\ (t \div p) * p <= t /\ t < (t \div p) * p + p
  OBVIOUS

LEMMA Multiples ==
  ASSUME NEW a \in Nat, NEW b \in Nat, NEW g \in Nat, a <= b
  PROVE  a * g <= b * g
<1>1. PICK d \in Nat : b = a + d
  <2>1. b - a \in Nat /\ b = a + (b - a)
    OBVIOUS
  <2> QED
    BY <2>1
<1>2. b * g = a * g + d * g /\ d * g \in Nat
  BY <1>1
<1> QED
  BY <1>2

\* The next boundary is ahead, by no more than a period.
LEMMA Boundary ==
  ASSUME NEW t \in Nat, NEW p \in Nat \ {0}
  PROVE  /\ NextBoundary(t, p) \in Nat /\ t < NextBoundary(t, p) /\ NextBoundary(t, p) - p <= t
         /\ \E k \in Nat : NextBoundary(t, p) = k * p
<1>1. NextBoundary(t, p) = (t \div p) * p + p /\ t \div p + 1 \in Nat /\ (t \div p) * p \in Nat
  BY Division DEF NextBoundary
<1>2. \E k \in Nat : NextBoundary(t, p) = k * p
  BY <1>1 DEF NextBoundary
<1>3. NextBoundary(t, p) \in Nat /\ t < NextBoundary(t, p) /\ NextBoundary(t, p) - p <= t
  <2> DEFINE q == (t \div p) * p
  <2>1. q \in Nat /\ q <= t /\ t < q + p /\ NextBoundary(t, p) = q + p
    BY <1>1, Division
  <2> HIDE DEF q
  <2> QED
    BY <2>1
<1> QED
  BY <1>2, <1>3

\* No boundary lies before the next one.
LEMMA BoundaryWithin ==
  ASSUME NEW t \in Nat, NEW g \in Nat \ {0}, NEW k \in Nat, t < k * g
  PROVE  NextBoundary(t, g) <= k * g
<1>1. ~(k <= t \div g)
  BY Division, Multiples
<1>2. t \div g + 1 \in Nat /\ t \div g + 1 <= k
  BY <1>1, Division
<1> QED
  BY <1>2, Multiples DEF NextBoundary

\* A period ends within its file.
LEMMA PeriodInFile ==
  ASSUME NEW t \in Nat, NEW key \in Periods, NEW e \in Nat, NEW k \in Nat, e = k * key.file, t < e
  PROVE  NextBoundary(t, key.gran) <= e
<1>1. key.gran \in Nat \ {0} /\ key.file \in Nat \ {0} /\ key.file % key.gran = 0
  BY PmAssumption
<1>2. PICK m \in Nat : key.file = m * key.gran
  <2> DEFINE f == key.file
             g == key.gran
  <2>1. f \in Nat /\ g \in Nat \ {0} /\ f % g = 0
    BY <1>1
  <2> HIDE DEF f, g
  <2>2. f \div g \in Nat /\ f = (f \div g) * g
    BY <2>1
  <2> QED
    BY <2>2 DEF f, g
<1>3. e = (k * m) * key.gran /\ k * m \in Nat
  BY <1>1, <1>2
<1> QED
  BY <1>1, <1>3, BoundaryWithin

LEMMA Keys ==
  ASSUME NEW key \in Periods
  PROVE  key.gran \in Nat \ {0} /\ key.file \in Nat \ {0}
  BY PmAssumption


\* A job that starts over.
LEMMA FreshCollection ==
  ASSUME NEW key \in Periods, NEW t \in Nat, NEW times
  PROVE  /\ Fresh(key, t) \in Collection /\ Held(Fresh(key, t)) = {}
         /\ InGrid(Fresh(key, t), t) /\ Sampled(Fresh(key, t), times) /\ Fresh(key, t).begin = t
         /\ Fresh(key, t).samples = {} /\ Fresh(key, t).periods = {}
<1> DEFINE c == Fresh(key, t)
           g == NextBoundary(t, key.gran)
           e == NextBoundary(t, key.file)
<1>1. /\ c.key = key /\ c.samples = {} /\ c.periods = {} /\ c.begin = t
      /\ c.periodEnd = g /\ c.fileEnd = e
  BY DEF Fresh
<1>2. g \in Nat /\ t < g /\ g - key.gran <= t
  BY Keys, Boundary
<1>3. e \in Nat /\ t < e
  BY Keys, Boundary
<1>4. PICK k \in Nat : e = k * key.file
  BY Keys, Boundary
<1>5. g <= e
  BY <1>3, <1>4, PeriodInFile
<1>6. c \in Collection
  BY <1>2, <1>3 DEF Fresh, Collection
<1> HIDE DEF c, g, e
<1>7. InGrid(c, t) /\ Sampled(c, times) /\ Held(c) = {}
  BY <1>1, <1>2, <1>3, <1>4, <1>5 DEF InGrid, Sampled, Held
<1> QED
  BY <1>1, <1>6, <1>7 DEF c

-----------------------------------------------------------------------------
(* Closing a period and a file *)

LEMMA PeriodFields ==
  ASSUME NEW c \in Collection, now \in Nat, now >= c.periodEnd
  PROVE  /\ PeriodClosed(c).key = c.key /\ PeriodClosed(c).begin = c.begin
         /\ PeriodClosed(c).fileEnd = c.fileEnd /\ PeriodClosed(c).samples = {}
         /\ PeriodClosed(c).periodEnd = NextBoundary(now, c.key.gran)
         /\ PeriodClosed(c).periods =
              IF c.samples = {} THEN c.periods
              ELSE c.periods \cup {[end |-> c.periodEnd, samples |-> c.samples]}
         /\ PeriodClosed(c) \in Collection
<1> DEFINE q == IF c.samples = {} THEN c.periods
                ELSE c.periods \cup {[end |-> c.periodEnd, samples |-> c.samples]}
           n == NextBoundary(now, c.key.gran)
           d == [key |-> c.key, samples |-> {}, periods |-> q, begin |-> c.begin, periodEnd |-> n, fileEnd |-> c.fileEnd]
<1>1. PeriodClosed(c) = d
  <2>1. ~(now < c.periodEnd)
    BY DEF Collection
  <2>2. c = [key |-> c.key, samples |-> c.samples, periods |-> c.periods, begin |-> c.begin,
             periodEnd |-> c.periodEnd, fileEnd |-> c.fileEnd]
    BY DEF Collection
  <2> QED
    BY <2>1, <2>2 DEF PeriodClosed
<1>2. q \in SUBSET Period
  BY DEF Collection, Period
<1>3. n \in Nat
  <2>1. c.key \in Periods
    BY DEF Collection
  <2> QED
    BY <2>1, Keys, Boundary
<1> HIDE DEF q, n
<1>4. d \in Collection
  BY <1>2, <1>3 DEF Collection
<1> QED
  BY <1>1, <1>4 DEF q, n

LEMMA PeriodClosing ==
  ASSUME now \in Nat, NEW c \in Collection, InGrid(c, now), Sampled(c, at), NEW d, d = PeriodClosed(c)
  PROVE  /\ d \in Collection /\ d.key = c.key /\ d.begin = c.begin /\ d.fileEnd = c.fileEnd
         /\ d.begin < d.periodEnd /\ now < d.periodEnd /\ d.periodEnd - d.key.gran <= now
         /\ now < c.fileEnd => d.periodEnd <= d.fileEnd
         /\ now >= c.fileEnd => d.samples = {} /\ d.periodEnd = NextBoundary(now, c.key.gran)
         /\ \A p \in d.periods : c.begin < p.end /\ p.end <= c.fileEnd
         /\ Sampled(d, at) /\ Held(d) = Held(c)
<1>1. /\ c.key \in Periods /\ c.key.gran \in Nat \ {0} /\ c.begin \in Nat
      /\ c.periodEnd \in Nat /\ c.fileEnd \in Nat
  BY Keys DEF Collection
<1>2. /\ c.begin < c.periodEnd /\ c.periodEnd <= c.fileEnd /\ c.begin <= now
      /\ c.periodEnd - c.key.gran <= now
      /\ \A p \in c.periods : c.begin < p.end /\ p.end <= c.fileEnd
  BY DEF InGrid
<1>3. CASE now < c.periodEnd
  <2>1. d = c
    BY <1>3 DEF PeriodClosed
  <2> QED
    BY <1>1, <1>2, <1>3, <2>1
<1>4. CASE now >= c.periodEnd
  <2> DEFINE n == NextBoundary(now, c.key.gran)
  <2>1. n \in Nat /\ now < n /\ n - c.key.gran <= now
    BY <1>1, Boundary
  <2>2. now < c.fileEnd => n <= c.fileEnd
    BY <1>1, PeriodInFile DEF InGrid
  <2>3. /\ d.key = c.key /\ d.begin = c.begin /\ d.fileEnd = c.fileEnd /\ d.samples = {}
        /\ d.periodEnd = n /\ d \in Collection
        /\ d.periods = IF c.samples = {} THEN c.periods
                       ELSE c.periods \cup {[end |-> c.periodEnd, samples |-> c.samples]}
    BY <1>4, PeriodFields
  <2> HIDE DEF n
  <2>4. ASSUME NEW p \in d.periods
        PROVE  p \in c.periods \/ p = [end |-> c.periodEnd, samples |-> c.samples]
    BY <2>3, <2>4
  <2>5. \A p \in d.periods : c.begin < p.end /\ p.end <= c.fileEnd
    BY <1>1, <1>2, <2>4
  <2>6. Sampled(d, at)
    <3>1. ASSUME NEW p \in d.periods, NEW r \in p.samples PROVE at[r] >= p.end - c.key.gran
      BY <2>4, <3>1 DEF Sampled
    <3> QED
      BY <2>3, <3>1 DEF Sampled
  <2>7. Held(d) = Held(c)
    <3>1. CASE c.samples = {}
      BY <2>3, <3>1 DEF Held
    <3>2. CASE c.samples # {}
      <4>1. d.periods = c.periods \cup {[end |-> c.periodEnd, samples |-> c.samples]} /\ d.samples = {}
        BY <2>3, <3>2
      <4>2. \A x : x \in Held(d) <=> \E p \in d.periods : x \in p.samples
        BY <4>1 DEF Held
      <4>3. \A x : x \in Held(c) <=> x \in c.samples \/ \E p \in c.periods : x \in p.samples
        BY DEF Held
      <4>4. ASSUME NEW x, NEW p \in d.periods, x \in p.samples
            PROVE  x \in c.samples \/ \E q \in c.periods : x \in q.samples
        <5>1. CASE p \in c.periods
          BY <4>4, <5>1
        <5>2. CASE p = [end |-> c.periodEnd, samples |-> c.samples]
          <6>1. p.samples = c.samples
            BY <5>2
          <6> QED
            BY <4>4, <6>1
        <5> QED
          BY <2>4, <5>1, <5>2
      <4>5. ASSUME NEW x \in c.samples
            PROVE  \E p \in d.periods : x \in p.samples
        <5> DEFINE p == [end |-> c.periodEnd, samples |-> c.samples]
        <5>1. p \in d.periods /\ p.samples = c.samples
          BY <4>1
        <5> QED
          BY <5>1
      <4>6. \A p \in c.periods : p \in d.periods
        BY <4>1
      <4> QED
        BY <4>2, <4>3, <4>4, <4>5, <4>6
    <3> QED
      BY <3>1, <3>2
  <2> QED
    BY <1>1, <1>2, <1>4, <2>1, <2>2, <2>3, <2>5, <2>6, <2>7 DEF n
<1> QED
  BY <1>1, <1>3, <1>4

LEMMA FileFields ==
  ASSUME now \in Nat, NEW d \in Collection, NEW e, e = FileClosed(d)
  PROVE  /\ e.key = d.key /\ e.samples = d.samples /\ e.periods = {} /\ e.begin = d.fileEnd
         /\ e.periodEnd = d.periodEnd /\ e.fileEnd = NextBoundary(now, d.key.file)
         /\ e \in Collection
<1> DEFINE n == NextBoundary(now, d.key.file)
           x == [key |-> d.key, samples |-> d.samples, periods |-> {}, begin |-> d.fileEnd,
                 periodEnd |-> d.periodEnd, fileEnd |-> n]
<1>1. e = x
  <2>1. d = [key |-> d.key, samples |-> d.samples, periods |-> d.periods, begin |-> d.begin,
             periodEnd |-> d.periodEnd, fileEnd |-> d.fileEnd]
    BY DEF Collection
  <2> QED
    BY <2>1 DEF FileClosed
<1>2. n \in Nat
  <2>1. d.key \in Periods
    BY DEF Collection
  <2> QED
    BY <2>1, Keys, Boundary
<1> HIDE DEF n
<1>3. x \in Collection
  BY <1>2 DEF Collection
<1> QED
  BY <1>1, <1>3 DEF n

LEMMA FileClosing ==
  ASSUME now \in Nat, NEW d \in Collection, NEW e, e = FileClosed(d),
         d.fileEnd <= now, now < d.periodEnd, d.periodEnd = NextBoundary(now, d.key.gran),
         d.periodEnd - d.key.gran <= now, d.samples = {}
  PROVE  /\ e \in Collection /\ InGrid(e, now) /\ Sampled(e, at) /\ e.begin = d.fileEnd
         /\ e.samples = {} /\ e.periods = {} /\ e.periodEnd = d.periodEnd
<1>1. d.key \in Periods /\ d.fileEnd \in Nat /\ d.periodEnd \in Nat
  BY DEF Collection
<1>2. /\ e.key = d.key /\ e.samples = {} /\ e.periods = {} /\ e.begin = d.fileEnd
      /\ e.periodEnd = d.periodEnd /\ e.fileEnd = NextBoundary(now, d.key.file)
      /\ e \in Collection
  BY FileFields
<1>3. now < e.fileEnd /\ e.fileEnd \in Nat
  BY <1>1, <1>2, Keys, Boundary
<1>4. PICK k \in Nat : e.fileEnd = k * e.key.file
  <2>1. d.key.file \in Nat \ {0}
    BY <1>1, Keys
  <2>2. \E k \in Nat : NextBoundary(now, d.key.file) = k * d.key.file
    BY <2>1, Boundary
  <2> QED
    BY <1>2, <2>2
<1>5. e.periodEnd <= e.fileEnd
  BY <1>1, <1>2, <1>3, <1>4, PeriodInFile
<1> QED
  BY <1>1, <1>2, <1>3, <1>4, <1>5 DEF InGrid, Sampled

-----------------------------------------------------------------------------
(* Where a report is *)

\* Places of what a job collects, made and dropped.
Where(c, made, lost, r) ==
  {<<"buffer", 0, 0>> : z \in {1 : y \in c.samples \cap {r}}}
    \cup {<<"period", 0, p.end>> : p \in {q \in c.periods : r \in q.samples}}
    \cup (UNION {{<<"file", f.begin, p.end>> : p \in {q \in f.periods : r \in q.samples}} : f \in made})
    \cup {<<"dropped", 0, 0>> : z \in lost \cap {r}}

InOnePlace(c, made, lost, r) == \E x : Where(c, made, lost, r) = {x}

LEMMA WhereIs ==
  ASSUME NEW c, NEW made, NEW lost, NEW r, NEW x
  PROVE  x \in Where(c, made, lost, r) <=>
           \/ r \in c.samples /\ x = <<"buffer", 0, 0>>
           \/ \E p \in c.periods : r \in p.samples /\ x = <<"period", 0, p.end>>
           \/ \E f \in made : \E p \in f.periods : r \in p.samples /\ x = <<"file", f.begin, p.end>>
           \/ r \in lost /\ x = <<"dropped", 0, 0>>
<1> DEFINE A == {<<"buffer", 0, 0>> : z \in {1 : y \in c.samples \cap {r}}}
           B == {<<"period", 0, p.end>> : p \in {q \in c.periods : r \in q.samples}}
           C(f) == {<<"file", f.begin, p.end>> : p \in {q \in f.periods : r \in q.samples}}
           D == {<<"dropped", 0, 0>> : z \in lost \cap {r}}
           U == UNION {C(f) : f \in made}
<1>1. x \in A <=> r \in c.samples /\ x = <<"buffer", 0, 0>>
  OBVIOUS
<1>2. x \in B <=> \E p \in c.periods : r \in p.samples /\ x = <<"period", 0, p.end>>
  OBVIOUS
<1>3. ASSUME NEW f PROVE x \in C(f) <=> \E p \in f.periods : r \in p.samples /\ x = <<"file", f.begin, p.end>>
  OBVIOUS
<1>4. x \in D <=> r \in lost /\ x = <<"dropped", 0, 0>>
  OBVIOUS
<1>5. Where(c, made, lost, r) = A \cup B \cup U \cup D
  BY DEF Where
<1> HIDE DEF A, B, C, D
<1>6. x \in U <=> \E f \in made : x \in C(f)
  OBVIOUS
<1> HIDE DEF U
<1> QED
  BY <1>1, <1>2, <1>3, <1>4, <1>5, <1>6

\* Places of different kinds are different places.
LEMMA Kinds ==
  ASSUME NEW a, NEW b, NEW e
  PROVE  /\ <<"buffer", 0, 0>> # <<"period", 0, a>> /\ <<"buffer", 0, 0>> # <<"file", a, b>>
         /\ <<"buffer", 0, 0>> # <<"dropped", 0, 0>> /\ <<"period", 0, e>> # <<"file", a, b>>
         /\ <<"period", 0, a>> # <<"dropped", 0, 0>> /\ <<"file", a, b>> # <<"dropped", 0, 0>>
  OBVIOUS

LEMMA HeldIs ==
  ASSUME NEW c, NEW r
  PROVE  r \in Held(c) <=> r \in c.samples \/ \E p \in c.periods : r \in p.samples
  BY DEF Held

\* One place is a place, and the only one.
LEMMA Single ==
  ASSUME NEW S, NEW x, \A y : y \in S <=> y = x
  PROVE  S = {x}
  OBVIOUS

\* A report the job holds is in no file, and was not dropped.
LEMMA HeldOnly ==
  ASSUME NEW c, NEW made, NEW lost, NEW r, r \in Held(c), NEW x, Where(c, made, lost, r) = {x}
  PROVE  (\A f \in made : \A p \in f.periods : r \notin p.samples) /\ r \notin lost
<1>1. x = <<"buffer", 0, 0>> \/ \E p \in c.periods : x = <<"period", 0, p.end>>
  <2>1. CASE r \in c.samples
    <3>1. <<"buffer", 0, 0>> \in Where(c, made, lost, r)
      BY <2>1, WhereIs
    <3> QED
      BY <3>1
  <2>2. CASE \E p \in c.periods : r \in p.samples
    <3>1. PICK p \in c.periods : r \in p.samples
      BY <2>2
    <3>2. <<"period", 0, p.end>> \in Where(c, made, lost, r)
      BY <3>1, WhereIs
    <3> QED
      BY <3>2
  <2> QED
    BY <2>1, <2>2, HeldIs
<1>2. ASSUME NEW f \in made, NEW p \in f.periods, r \in p.samples PROVE FALSE
  <2>1. <<"file", f.begin, p.end>> \in Where(c, made, lost, r)
    BY <1>2, WhereIs
  <2>2. x = <<"file", f.begin, p.end>>
    BY <2>1
  <2> QED
    BY <1>1, <2>2, Kinds
<1>3. ASSUME r \in lost PROVE FALSE
  <2>1. <<"dropped", 0, 0>> \in Where(c, made, lost, r)
    BY <1>3, WhereIs
  <2>2. x = <<"dropped", 0, 0>>
    BY <2>1
  <2> QED
    BY <1>1, <2>2, Kinds
<1> QED
  BY <1>2, <1>3

\* What is discarded is dropped.
LEMMA WhereDropped ==
  ASSUME NEW c, NEW made, NEW lost, NEW r, InOnePlace(c, made, lost, r),
         NEW d, d.samples = {}, d.periods = {}
  PROVE  InOnePlace(d, made, lost \cup Held(c), r)
<1> PICK x : Where(c, made, lost, r) = {x}
  BY DEF InOnePlace
<1>1. CASE r \in Held(c)
  <2>1. \A f \in made : \A p \in f.periods : r \notin p.samples
    BY <1>1, HeldOnly
  <2>2. \A y : y \in Where(d, made, lost \cup Held(c), r) <=> y = <<"dropped", 0, 0>>
    BY <1>1, <2>1, WhereIs
  <2>3. Where(d, made, lost \cup Held(c), r) = {<<"dropped", 0, 0>>}
    BY <2>2, Single
  <2> QED
    BY <2>3 DEF InOnePlace
<1>2. CASE r \notin Held(c)
  <2>1. r \notin c.samples /\ \A p \in c.periods : r \notin p.samples
    BY <1>2, HeldIs
  <2>2. \A y : y \in Where(d, made, lost \cup Held(c), r) <=> y \in Where(c, made, lost, r)
    BY <1>2, <2>1, WhereIs
  <2>3. Where(d, made, lost \cup Held(c), r) = Where(c, made, lost, r)
    BY <2>2
  <2> QED
    BY <2>3 DEF InOnePlace
<1> QED
  BY <1>1, <1>2

\* The samples of a period that closes go with it.
LEMMA WherePeriodClosed ==
  ASSUME NEW c, NEW made, NEW lost, NEW r, InOnePlace(c, made, lost, r),
         NEW d, NEW q, q.samples = c.samples, d.samples = {}, d.periods = c.periods \cup {q}
  PROVE  InOnePlace(d, made, lost, r)
<1> PICK x : Where(c, made, lost, r) = {x}
  BY DEF InOnePlace
<1>1. CASE r \in c.samples
  <2>1. r \in Held(c)
    BY <1>1, HeldIs
  <2>2. (\A f \in made : \A p \in f.periods : r \notin p.samples) /\ r \notin lost
    BY <2>1, HeldOnly
  <2>3. x = <<"buffer", 0, 0>>
    <3>1. <<"buffer", 0, 0>> \in Where(c, made, lost, r)
      BY <1>1, WhereIs
    <3> QED
      BY <3>1
  <2>4. ASSUME NEW p \in c.periods, r \in p.samples PROVE FALSE
    <3>1. <<"period", 0, p.end>> \in Where(c, made, lost, r)
      BY <2>4, WhereIs
    <3>2. x = <<"period", 0, p.end>>
      BY <3>1
    <3> QED
      BY <2>3, <3>2, Kinds
  <2>5. \A y : y \in Where(d, made, lost, r) <=> y = <<"period", 0, q.end>>
    BY <1>1, <2>2, <2>4, WhereIs
  <2>6. Where(d, made, lost, r) = {<<"period", 0, q.end>>}
    BY <2>5, Single
  <2> QED
    BY <2>6 DEF InOnePlace
<1>2. CASE r \notin c.samples
  <2>1. ASSUME NEW y PROVE y \in Where(d, made, lost, r) <=> y \in Where(c, made, lost, r)
    <3>1. ASSUME NEW p \in d.periods, r \in p.samples PROVE p \in c.periods
      BY <1>2, <3>1
    <3>2. \A p \in c.periods : p \in d.periods
      OBVIOUS
    <3> QED
      BY <1>2, <3>1, <3>2, WhereIs
  <2>2. Where(d, made, lost, r) = Where(c, made, lost, r)
    BY <2>1
  <2> QED
    BY <2>2 DEF InOnePlace
<1> QED
  BY <1>1, <1>2

\* The periods of a file that closes go with it.
LEMMA WhereFileClosed ==
  ASSUME NEW c, NEW made, NEW lost, NEW r, InOnePlace(c, made, lost, r), c.samples = {},
         NEW d, NEW g, g.periods = c.periods, d.samples = {}, d.periods = {}
  PROVE  InOnePlace(d, made \cup {g}, lost, r)
<1> PICK x : Where(c, made, lost, r) = {x}
  BY DEF InOnePlace
<1>1. CASE r \in Held(c)
  <2>1. (\A f \in made : \A p \in f.periods : r \notin p.samples) /\ r \notin lost
    BY <1>1, HeldOnly
  <2>2. PICK q \in c.periods : r \in q.samples
    BY <1>1, HeldIs
  <2>3. x = <<"period", 0, q.end>>
    <3>1. <<"period", 0, q.end>> \in Where(c, made, lost, r)
      BY <2>2, WhereIs
    <3> QED
      BY <3>1
  <2>4. ASSUME NEW p \in c.periods, r \in p.samples PROVE p.end = q.end
    <3>1. <<"period", 0, p.end>> \in Where(c, made, lost, r)
      BY <2>4, WhereIs
    <3>2. <<"period", 0, p.end>> = <<"period", 0, q.end>>
      BY <2>3, <3>1
    <3> QED
      BY <3>2
  <2>5. \A y : y \in Where(d, made \cup {g}, lost, r) <=> y = <<"file", g.begin, q.end>>
    BY <2>1, <2>2, <2>4, WhereIs
  <2>6. Where(d, made \cup {g}, lost, r) = {<<"file", g.begin, q.end>>}
    BY <2>5, Single
  <2> QED
    BY <2>6 DEF InOnePlace
<1>2. CASE r \notin Held(c)
  <2>1. r \notin c.samples /\ \A p \in c.periods : r \notin p.samples
    BY <1>2, HeldIs
  <2>2. \A y : y \in Where(d, made \cup {g}, lost, r) <=> y \in Where(c, made, lost, r)
    BY <2>1, WhereIs
  <2>3. Where(d, made \cup {g}, lost, r) = Where(c, made, lost, r)
    BY <2>2
  <2> QED
    BY <2>3 DEF InOnePlace
<1> QED
  BY <1>1, <1>2

\* A report that comes is in the buffer.
LEMMA WhereBuffered ==
  ASSUME NEW d, NEW made, NEW lost, NEW r, r \in d.samples, r \notin lost,
         \A p \in d.periods : r \notin p.samples,
         \A f \in made : \A p \in f.periods : r \notin p.samples
  PROVE  Where(d, made, lost, r) = {<<"buffer", 0, 0>>}
<1>1. \A y : y \in Where(d, made, lost, r) <=> y = <<"buffer", 0, 0>>
  BY WhereIs
<1> QED
  BY <1>1, Single

LEMMA WhereSame ==
  ASSUME NEW c, NEW made, NEW lost, NEW r, NEW d, d.periods = c.periods, r \in d.samples <=> r \in c.samples
  PROVE  Where(d, made, lost, r) = Where(c, made, lost, r)
<1>1. \A y : y \in Where(d, made, lost, r) <=> y \in Where(c, made, lost, r)
  BY WhereIs
<1> QED
  BY <1>1

LEMMA PlacesWhere ==
  ASSUME NEW j, NEW r
  PROVE  Places(j, r) = Where(collected[j], FilesOf(j), dropped[j], r)
  BY DEF Places, Where

\* What is published is in hand, and only then is something.
LEMMA Idle ==
  ASSUME publishing = NoFile, NEW j \in Job
  PROVE  FilesOf(j) = {f \in files : f.job = j}
<1>1. NoFile.job = Locked /\ Locked \notin Job
  BY PmAssumption DEF NoFile
<1>2. \A f \in {publishing} : f.job # j
  BY <1>1
<1>3. \A f : f \in FilesOf(j) <=> f \in {g \in files : g.job = j}
  BY <1>2 DEF FilesOf
<1> QED
  BY <1>3

-----------------------------------------------------------------------------
(* The steps that move no report *)

LEMMA Unmoved ==
  ASSUME Core, UNCHANGED <<tracked, collected, now, at, accepted, dropped>>,
         \A j \in Job : FilesOf(j)' \subseteq FilesOf(j),
         phase' # "ended" => phase # "ended" /\ \A j \in Job : FilesOf(j)' = FilesOf(j)
  PROVE  Core'
<1>1. Typed' /\ Collecting' /\ Made' /\ Came'
  BY DEF Core, Typed, Collecting, Made, Came, Sampled, InGrid, Held, Collection, Period
<1>2. FilesTile' /\ NotBeforeItsPeriod'
  BY DEF Core, FilesTile, NotBeforeItsPeriod
<1>3. OnePlace'
  <2> SUFFICES ASSUME phase' # "ended", NEW j \in Job, NEW r \in accepted'[j]
               PROVE  \E x : Places(j, r)' = {x}
    BY DEF OnePlace
  <2>1. PICK x : Places(j, r) = {x}
    BY DEF Core, OnePlace
  <2>2. Places(j, r)' = Where(collected'[j], FilesOf(j)', dropped'[j], r)
    BY DEF Places, Where
  <2>3. Places(j, r)' = Places(j, r)
    BY <2>2, PlacesWhere
  <2> QED
    BY <2>1, <2>3
<1> QED
  BY <1>1, <1>2, <1>3 DEF Core

LEMMA Quiet ==
  ASSUME FilesTypeOK, Core,
         Tick \/ EndRound \/ Published \/ PublishFails \/ \E j \in Job, periods \in Periods \cup {Locked} : Change(j, periods)
  PROVE  FilesTypeOK' /\ Core'
<1>1. CASE Tick
  <2>1. FilesTypeOK'
    BY <1>1, PmAssumption DEF FilesTypeOK, Tick, round
  <2>2. \A j \in Job : FilesOf(j)' = FilesOf(j)
    BY <1>1 DEF Tick, FilesOf
  <2> QED
    BY <1>1, <2>1, <2>2, Unmoved DEF Tick, round
<1>2. CASE \E j \in Job, periods \in Periods \cup {Locked} : Change(j, periods)
  <2>1. PICK j \in Job, periods \in Periods \cup {Locked} : Change(j, periods)
    BY <1>2
  <2>2. FilesTypeOK'
    BY <2>1 DEF FilesTypeOK, Change, round
  <2>3. \A i \in Job : FilesOf(i)' = FilesOf(i)
    BY <2>1 DEF Change, FilesOf
  <2> QED
    BY <2>1, <2>2, <2>3, Unmoved DEF Change, round
<1>3. CASE EndRound
  <2>1. FilesTypeOK'
    BY <1>3 DEF FilesTypeOK, EndRound, round
  <2>2. \A j \in Job : FilesOf(j)' = FilesOf(j)
    BY <1>3 DEF EndRound, FilesOf
  <2> QED
    BY <1>3, <2>1, <2>2, Unmoved DEF EndRound, round
<1>4. CASE Published
  <2>1. FilesTypeOK'
    BY <1>4 DEF FilesTypeOK, Published, round
  <2>2. ASSUME NEW j \in Job PROVE FilesOf(j)' = FilesOf(j)
    <3>1. NoFile.job # j
      BY PmAssumption DEF NoFile
    <3>2. files' \cup {publishing'} = files \cup {publishing} \cup {NoFile}
      BY <1>4 DEF Published
    <3> QED
      BY <3>1, <3>2 DEF FilesOf
  <2> QED
    BY <1>4, <2>1, <2>2, Unmoved DEF Published, round
<1>5. CASE PublishFails
  <2>1. FilesTypeOK'
    BY <1>5 DEF FilesTypeOK, PublishFails, round
  <2>2. ASSUME NEW j \in Job PROVE FilesOf(j)' \subseteq FilesOf(j)
    <3>1. NoFile.job # j
      BY PmAssumption DEF NoFile
    <3> QED
      BY <1>5, <3>1 DEF FilesOf, PublishFails
  <2> QED
    BY <1>5, <2>1, <2>2, Unmoved DEF PublishFails, round
<1> QED
  BY <1>1, <1>2, <1>3, <1>4, <1>5

-----------------------------------------------------------------------------
(* Arrive *)

LEMMA Arrival ==
  ASSUME FilesTypeOK, Core, Arrive
  PROVE  FilesTypeOK' /\ Core'
<1> DEFINE r == Len(at) + 1
<1>1. /\ r \in Report /\ r \notin DOMAIN at /\ DOMAIN at' = DOMAIN at \cup {r}
      /\ at' \in Seq(Nat) /\ Len(at') <= MaxReports
      /\ at'[r] = time /\ \A i \in DOMAIN at : at'[i] = at[i]
  <2>1. at \in Seq(Nat) /\ time \in Nat /\ at' = Append(at, time) /\ Len(at) < MaxReports /\ MaxReports \in Nat
    BY PmAssumption DEF FilesTypeOK, Core, Typed, Arrive
  <2>2. Len(at) \in Nat /\ DOMAIN at = 1 .. Len(at)
    BY <2>1
  <2>3. at' \in Seq(Nat) /\ Len(at') = r /\ at'[r] = time /\ \A i \in 1 .. Len(at) : at'[i] = at[i]
    BY <2>1, <2>2
  <2>4. DOMAIN at' = 1 .. r
    BY <2>3
  <2> QED
    BY <2>1, <2>2, <2>3, <2>4 DEF Report
<1>2. /\ UNCHANGED <<time, pmJobs, tracked, phase, round, publishing, files, dropped, changes>>
      /\ accepted' = [j \in Job |-> IF j \in Buffered THEN accepted[j] \cup {r} ELSE accepted[j]]
      /\ collected' = [j \in Job |->
           IF j \in Buffered THEN [collected[j] EXCEPT !.samples = @ \cup {r}] ELSE collected[j]]
  BY DEF Arrive
<1> HIDE DEF r
<1>3. ASSUME NEW j \in Job
      PROVE  /\ FilesOf(j)' = FilesOf(j)
             /\ j \notin Buffered => collected'[j] = collected[j] /\ accepted'[j] = accepted[j]
             /\ j \in Buffered =>
                  /\ j \in tracked /\ collected'[j] \in Collection /\ accepted'[j] = accepted[j] \cup {r}
                  /\ collected'[j].samples = collected[j].samples \cup {r}
                  /\ collected'[j].key = collected[j].key /\ collected'[j].periods = collected[j].periods
                  /\ collected'[j].begin = collected[j].begin /\ collected'[j].periodEnd = collected[j].periodEnd
                  /\ collected'[j].fileEnd = collected[j].fileEnd
  <2>1. FilesOf(j)' = FilesOf(j)
    BY <1>2 DEF FilesOf
  <2>2. CASE j \notin Buffered
    BY <1>2, <2>1, <2>2
  <2>3. CASE j \in Buffered
    <3>1. j \in tracked /\ collected[j] \in Collection
      BY <2>3 DEF Buffered, Core, Typed
    <3>2. collected'[j] = [collected[j] EXCEPT !.samples = @ \cup {r}]
      BY <1>2, <2>3
    <3>3. accepted'[j] = accepted[j] \cup {r}
      BY <1>2, <2>3
    <3> QED
      BY <1>1, <2>1, <2>3, <3>1, <3>2, <3>3 DEF Collection
  <2> QED
    BY <2>2, <2>3
<1>4. Typed'
  <2>1. ASSUME NEW j \in Job
        PROVE  IF j \in tracked' THEN collected'[j] \in Collection ELSE collected'[j] = Uncollected
    BY <1>2, <1>3 DEF Core, Typed
  <2>2. accepted' \in [Job -> SUBSET Report]
    BY <1>1, <1>2 DEF Core, Typed
  <2>3. collected' = [j \in Job |-> collected'[j]]
    BY <1>2
  <2> QED
    BY <1>1, <1>2, <2>1, <2>2, <2>3 DEF Core, Typed, round
<1>5. ASSUME NEW j \in Job
      PROVE  Held(collected[j]) \subseteq DOMAIN at /\ r \notin Held(collected[j])
  BY <1>1 DEF Core, Came
<1>6. Collecting'
  <2> SUFFICES ASSUME NEW j \in tracked PROVE InGrid(collected'[j], now) /\ Sampled(collected'[j], at')
    BY <1>2 DEF Collecting, round
  <2>1. /\ j \in Job /\ InGrid(collected[j], now) /\ Sampled(collected[j], at)
        /\ collected[j] \in Collection
    BY DEF Core, Typed, Collecting
  <2>2. InGrid(collected'[j], now)
    BY <1>3, <2>1 DEF InGrid
  <2>3. \A i \in Held(collected[j]) : at'[i] = at[i]
    BY <1>1, <1>5, <2>1
  <2>4. collected[j].periodEnd - collected[j].key.gran <= at'[r]
    <3>1. collected[j].periodEnd \in Nat /\ collected[j].key.gran \in Nat
      BY <2>1, Keys DEF Collection
    <3>2. now \in Int /\ time \in Nat /\ now <= time
      BY PmAssumption DEF FilesTypeOK
    <3> QED
      BY <1>1, <2>1, <3>1, <3>2 DEF InGrid
  <2>5. \A i \in collected'[j].samples : at'[i] >= collected[j].periodEnd - collected[j].key.gran
    <3>1. \A i \in collected[j].samples : i \in Held(collected[j])
      BY HeldIs
    <3>2. \A i \in collected[j].samples : at'[i] >= collected[j].periodEnd - collected[j].key.gran
      BY <2>1, <2>3, <3>1 DEF Sampled
    <3>3. collected[j].periodEnd \in Nat /\ collected[j].key.gran \in Nat /\ at'[r] \in Nat
      BY <1>1, <2>1, Keys, PmAssumption DEF Collection, FilesTypeOK
    <3>4. \A i \in collected'[j].samples : i \in collected[j].samples \/ i = r
      BY <1>3, <2>1
    <3>5. at'[r] >= collected[j].periodEnd - collected[j].key.gran
      BY <2>4, <3>3
    <3> QED
      BY <3>2, <3>4, <3>5
  <2>6. \A p \in collected[j].periods : \A i \in p.samples : at'[i] >= p.end - collected[j].key.gran
    <3>1. \A p \in collected[j].periods : \A i \in p.samples : i \in Held(collected[j])
      BY HeldIs
    <3> QED
      BY <2>1, <2>3, <3>1 DEF Sampled
  <2>7. Sampled(collected'[j], at')
    <3>1. collected'[j].key = collected[j].key /\ collected'[j].periods = collected[j].periods
          /\ collected'[j].periodEnd = collected[j].periodEnd
      BY <1>3, <2>1
    <3> QED
      BY <2>5, <2>6, <3>1 DEF Sampled
  <2> QED
    BY <2>2, <2>7
<1>7. Made'
  <2> SUFFICES ASSUME NEW j \in Job, NEW f \in FilesOf(j)
               PROVE  /\ f.begin \in Nat /\ f.end \in Nat /\ f.begin < f.end /\ f.end <= now
                      /\ j \in tracked => f.end <= collected'[j].begin
    BY <1>2, <1>3 DEF Made, round
  <2> QED
    BY <1>3 DEF Core, Made
<1>8. Came'
  <2> SUFFICES ASSUME NEW j \in Job
               PROVE  /\ Held(collected'[j]) \subseteq DOMAIN at'
                      /\ accepted'[j] \subseteq DOMAIN at' /\ dropped'[j] \subseteq DOMAIN at'
                      /\ \A f \in FilesOf(j)' : \A p \in f.periods : p.samples \subseteq DOMAIN at'
    BY DEF Came
  <2>1. Held(collected'[j]) \subseteq Held(collected[j]) \cup {r}
    <3> SUFFICES ASSUME NEW x \in Held(collected'[j]) PROVE x \in Held(collected[j]) \cup {r}
      OBVIOUS
    <3>1. x \in collected'[j].samples \/ \E p \in collected'[j].periods : x \in p.samples
      BY HeldIs
    <3> QED
      BY <1>3, <3>1, HeldIs
  <2>2. /\ Held(collected[j]) \subseteq DOMAIN at
        /\ accepted[j] \subseteq DOMAIN at /\ dropped[j] \subseteq DOMAIN at
        /\ \A f \in FilesOf(j) : \A p \in f.periods : p.samples \subseteq DOMAIN at
    BY DEF Core, Came
  <2>3. accepted'[j] \subseteq accepted[j] \cup {r} /\ dropped'[j] = dropped[j]
    BY <1>2, <1>3
  <2>4. \A f \in FilesOf(j)' : \A p \in f.periods : p.samples \subseteq DOMAIN at'
    BY <1>1, <1>3, <2>2
  <2> QED
    BY <1>1, <2>1, <2>2, <2>3, <2>4
<1>9. FilesTile'
  BY <1>3 DEF Core, FilesTile
<1>10. NotBeforeItsPeriod'
  <2> SUFFICES ASSUME NEW j \in Job, NEW f \in FilesOf(j), NEW p \in f.periods, NEW i \in p.samples
               PROVE  at'[i] >= p.end - f.gran
    BY <1>3 DEF NotBeforeItsPeriod
  <2>1. i \in DOMAIN at
    BY DEF Core, Came
  <2> QED
    BY <1>1, <2>1 DEF Core, NotBeforeItsPeriod
<1>11. OnePlace'
  <2> SUFFICES ASSUME phase # "ended", NEW j \in Job, NEW i \in accepted'[j]
               PROVE  \E x : Places(j, i)' = {x}
    BY <1>2 DEF OnePlace
  <2> DEFINE old == Where(collected[j], FilesOf(j), dropped[j], i)
             new == Where(collected'[j], FilesOf(j), dropped[j], i)
  <2>1. Places(j, i)' = new
    <3>1. Places(j, i)' = Where(collected'[j], FilesOf(j)', dropped'[j], i)
      BY DEF Places, Where
    <3> QED
      BY <1>2, <1>3, <3>1
  <2>2. CASE i \in accepted[j] /\ i # r
    <3>1. PICK x : old = {x}
      BY <2>2, PlacesWhere DEF Core, OnePlace
    <3>2. collected'[j].periods = collected[j].periods /\ (i \in collected'[j].samples <=> i \in collected[j].samples)
      BY <1>3, <2>2
    <3>3. new = old
      BY <3>2, WhereSame
    <3> QED
      BY <2>1, <3>1, <3>3
  <2>3. CASE i = r
    <3>1. r \notin accepted[j] /\ r \notin dropped[j] /\ \A f \in FilesOf(j) : \A p \in f.periods : r \notin p.samples
      BY <1>1 DEF Core, Came
    <3>2. r \in collected'[j].samples /\ collected'[j].periods = collected[j].periods
      BY <1>3, <2>3, <3>1
    <3>3. \E x : Where(collected'[j], FilesOf(j), dropped[j], r) = {x}
      <4>1. \A p \in collected'[j].periods : r \notin p.samples
        BY <1>5, <3>2, HeldIs
      <4>2. Where(collected'[j], FilesOf(j), dropped[j], r) = {<<"buffer", 0, 0>>}
        BY <3>1, <3>2, <4>1, WhereBuffered
      <4> QED
        BY <4>2
    <3> QED
      BY <2>1, <2>3, <3>3
  <2> QED
    BY <1>3, <2>2, <2>3
<1>12. FilesTypeOK'
  <2>1. ASSUME NEW j \in tracked
        PROVE  /\ collected'[j].samples \subseteq Report /\ (j \notin left => collected'[j].periodEnd > now)
               /\ collected'[j].begin < collected'[j].fileEnd /\ collected'[j].periodEnd <= collected'[j].fileEnd
    <3>1. j \in Job
      BY DEF Core, Typed
    <3> QED
      BY <1>1, <1>3, <3>1 DEF FilesTypeOK
  <2>2. \A j \in tracked' :
          /\ collected'[j].samples \subseteq Report /\ (j \notin left' => collected'[j].periodEnd > now')
          /\ collected'[j].begin < collected'[j].fileEnd /\ collected'[j].periodEnd <= collected'[j].fileEnd
    BY <1>2, <2>1 DEF round
  <2>3. UNCHANGED <<time, now, pmJobs, active, left, tracked, phase, publishing>>
    BY <1>2 DEF round
  <2>4. /\ time' \in 0 .. MaxTime /\ now' \in -1 .. time'
        /\ pmJobs' \in [Job -> Periods \cup {Locked}] /\ active' \in [Job -> Periods \cup {Locked}]
        /\ left' \subseteq tracked'
        /\ phase' \in {"asleep", "round", "publishing", "ended"}
        /\ publishing' # NoFile <=> phase' = "publishing"
    BY <2>3 DEF FilesTypeOK
  <2> QED
    BY <2>2, <2>4 DEF FilesTypeOK
<1> QED
  BY <1>4, <1>6, <1>7, <1>8, <1>9, <1>10, <1>11, <1>12 DEF Core

-----------------------------------------------------------------------------
(* StartRound *)

\* A job of the round is collected for as before, or starts over.
LEMMA Resync ==
  ASSUME FilesTypeOK, Core, StartRound, NEW j \in Job
  PROVE  \/ /\ j \in tracked /\ j \in tracked'
            /\ collected'[j] = collected[j] /\ dropped'[j] = dropped[j]
         \/ /\ j \in tracked' /\ collected'[j] = Fresh(pmJobs[j], time) /\ pmJobs[j] \in Periods
            /\ dropped'[j] = dropped[j] \cup Held(collected[j])
         \/ /\ j \notin tracked' /\ collected'[j] = Uncollected
            /\ dropped'[j] = dropped[j] \cup Held(collected[j])
<1>1. /\ tracked' = Unlocked
      /\ collected'[j] = IF j \in Unlocked THEN Resynced(j, time) ELSE Uncollected
      /\ dropped'[j] = dropped[j] \cup (Held(collected[j]) \ Held(collected'[j]))
  BY DEF StartRound
<1>2. time \in Nat /\ (j \in Unlocked => pmJobs[j] \in Periods)
  BY PmAssumption DEF FilesTypeOK, Unlocked
<1>3. CASE j \notin Unlocked
  <2>1. collected'[j] = Uncollected
    BY <1>1, <1>3
  <2>2. Held(collected'[j]) = {}
    BY <2>1 DEF Held, Uncollected
  <2> QED
    BY <1>1, <1>3, <2>1, <2>2
<1>4. CASE j \in Unlocked /\ j \in tracked /\ collected[j].key = pmJobs[j]
  <2>1. collected'[j] = collected[j]
    BY <1>1, <1>4 DEF Resynced
  <2> QED
    BY <1>1, <1>4, <2>1
<1>5. CASE j \in Unlocked /\ ~(j \in tracked /\ collected[j].key = pmJobs[j])
  <2>1. collected'[j] = Fresh(pmJobs[j], time)
    BY <1>1, <1>5 DEF Resynced
  <2>2. Held(collected'[j]) = {}
    BY <1>2, <1>5, <2>1, FreshCollection
  <2> QED
    BY <1>1, <1>2, <1>5, <2>1, <2>2
<1> QED
  BY <1>3, <1>4, <1>5

LEMMA GridLater ==
  ASSUME NEW c \in Collection, NEW t \in Int, NEW u \in Int, t <= u, InGrid(c, t)
  PROVE  InGrid(c, u)
<1>1. c.begin \in Nat /\ c.periodEnd \in Nat /\ c.key.gran \in Nat
  BY Keys DEF Collection
<1> QED
  BY <1>1 DEF InGrid

LEMMA Starting ==
  ASSUME FilesTypeOK, Core, StartRound
  PROVE  FilesTypeOK' /\ Core'
<1>1. /\ phase = "asleep" /\ phase' = "round" /\ now' = time /\ active' = pmJobs
      /\ tracked' = Unlocked /\ left' = tracked' /\ now \in -1 .. time /\ time \in Nat
      /\ UNCHANGED <<time, pmJobs, publishing, files, at, accepted>>
  BY PmAssumption DEF StartRound, FilesTypeOK
<1>2. ASSUME NEW j \in Job PROVE FilesOf(j)' = FilesOf(j)
  BY <1>1 DEF FilesOf
<1>3. Typed'
  <2>1. ASSUME NEW j \in Job
        PROVE  IF j \in tracked' THEN collected'[j] \in Collection ELSE collected'[j] = Uncollected
    <3>1. pmJobs[j] \in Periods => Fresh(pmJobs[j], time) \in Collection
      BY <1>1, FreshCollection
    <3>2. j \in tracked => collected[j] \in Collection
      BY DEF Core, Typed
    <3> QED
      BY <3>1, <3>2, Resync
  <2>2. collected' = [j \in Job |-> collected'[j]]
    BY DEF StartRound
  <2>3. dropped' \in [Job -> SUBSET Report]
    <3>1. ASSUME NEW j \in Job PROVE Held(collected[j]) \subseteq Report
      BY HeldIs DEF Core, Typed, Collection, Period, Uncollected
    <3>2. dropped' = [j \in Job |-> dropped[j] \cup (Held(collected[j]) \ Held(collected'[j]))]
      BY DEF StartRound
    <3> QED
      BY <3>1, <3>2 DEF Core, Typed
  <2>4. tracked' \subseteq Job
    BY <1>1 DEF Unlocked
  <2> QED
    BY <1>1, <2>1, <2>2, <2>3, <2>4 DEF Core, Typed
<1>4. Collecting'
  <2> SUFFICES ASSUME NEW j \in tracked' PROVE InGrid(collected'[j], time) /\ Sampled(collected'[j], at)
    BY <1>1 DEF Collecting
  <2>1. j \in Job
    BY <1>1 DEF Unlocked
  <2>2. CASE j \in tracked /\ collected'[j] = collected[j]
    <3>1. collected[j] \in Collection
      BY <2>1, <2>2 DEF Core, Typed
    <3>2. InGrid(collected[j], now) /\ Sampled(collected[j], at)
      BY <2>2 DEF Core, Collecting
    <3>3. now \in Int /\ time \in Int /\ now <= time
      BY <1>1
    <3>4. InGrid(collected[j], time)
      BY <3>1, <3>2, <3>3, GridLater
    <3> QED
      BY <2>2, <3>2, <3>4
  <2>3. CASE collected'[j] = Fresh(pmJobs[j], time) /\ pmJobs[j] \in Periods
    BY <1>1, <2>3, FreshCollection
  <2> QED
    BY <2>1, <2>2, <2>3, Resync
<1>5. Made'
  <2> SUFFICES ASSUME NEW j \in Job, NEW f \in FilesOf(j)
               PROVE  /\ f.begin \in Nat /\ f.end \in Nat /\ f.begin < f.end /\ f.end <= time
                      /\ j \in tracked' => f.end <= collected'[j].begin
    BY <1>1, <1>2 DEF Made
  <2>1. f.begin \in Nat /\ f.end \in Nat /\ f.begin < f.end /\ f.end <= now
    BY DEF Core, Made
  <2>2. f.end <= time
    BY <1>1, <2>1
  <2>3. CASE j \in tracked /\ collected'[j] = collected[j]
    BY <2>1, <2>2, <2>3 DEF Core, Made
  <2>4. CASE collected'[j] = Fresh(pmJobs[j], time) /\ pmJobs[j] \in Periods
    BY <1>1, <2>1, <2>2, <2>4, FreshCollection
  <2>5. CASE j \notin tracked'
    BY <2>1, <2>2, <2>5
  <2> QED
    BY <2>3, <2>4, <2>5, Resync
<1>6. Came'
  <2> SUFFICES ASSUME NEW j \in Job
               PROVE  /\ Held(collected'[j]) \subseteq DOMAIN at
                      /\ accepted[j] \subseteq DOMAIN at /\ dropped'[j] \subseteq DOMAIN at
                      /\ \A f \in FilesOf(j) : \A p \in f.periods : p.samples \subseteq DOMAIN at
    BY <1>1, <1>2 DEF Came
  <2>1. /\ Held(collected[j]) \subseteq DOMAIN at
        /\ accepted[j] \subseteq DOMAIN at /\ dropped[j] \subseteq DOMAIN at
        /\ \A f \in FilesOf(j) : \A p \in f.periods : p.samples \subseteq DOMAIN at
    BY DEF Core, Came
  <2>2. Held(Uncollected) = {} /\ (pmJobs[j] \in Periods => Held(Fresh(pmJobs[j], time)) = {})
    BY <1>1, FreshCollection DEF Held, Uncollected
  <2>3. Held(collected'[j]) \subseteq Held(collected[j]) /\ dropped'[j] \subseteq dropped[j] \cup Held(collected[j])
    BY <2>2, Resync
  <2> QED
    BY <2>1, <2>3
<1>7. FilesTile' /\ NotBeforeItsPeriod'
  BY <1>1, <1>2 DEF Core, FilesTile, NotBeforeItsPeriod
<1>8. OnePlace'
  <2> SUFFICES ASSUME NEW j \in Job, NEW r \in accepted[j]
               PROVE  \E x : Places(j, r)' = {x}
    BY <1>1 DEF OnePlace
  <2>1. Places(j, r)' = Where(collected'[j], FilesOf(j), dropped'[j], r)
    <3>1. Places(j, r)' = Where(collected'[j], FilesOf(j)', dropped'[j], r)
      BY DEF Places, Where
    <3> QED
      BY <1>2, <3>1
  <2>2. PICK x : Where(collected[j], FilesOf(j), dropped[j], r) = {x}
    BY <1>1, PlacesWhere DEF Core, OnePlace
  <2>3. CASE collected'[j] = collected[j] /\ dropped'[j] = dropped[j]
    BY <2>1, <2>2, <2>3
  <2>4. CASE dropped'[j] = dropped[j] \cup Held(collected[j]) /\ collected'[j].samples = {} /\ collected'[j].periods = {}
    <3>1. InOnePlace(collected[j], FilesOf(j), dropped[j], r)
      BY <2>2 DEF InOnePlace
    <3>2. InOnePlace(collected'[j], FilesOf(j), dropped[j] \cup Held(collected[j]), r)
      BY <2>4, <3>1, WhereDropped
    <3> QED
      BY <2>1, <2>4, <3>2 DEF InOnePlace
  <2>5. /\ Uncollected.samples = {} /\ Uncollected.periods = {}
        /\ pmJobs[j] \in Periods => Fresh(pmJobs[j], time).samples = {} /\ Fresh(pmJobs[j], time).periods = {}
    BY DEF Uncollected, Fresh
  <2> QED
    BY <2>3, <2>4, <2>5, Resync
<1>9. FilesTypeOK'
  <2>1. ASSUME NEW j \in tracked'
        PROVE  /\ collected'[j].samples \subseteq Report
               /\ collected'[j].begin < collected'[j].fileEnd /\ collected'[j].periodEnd <= collected'[j].fileEnd
    <3>1. j \in Job /\ collected'[j] \in Collection /\ InGrid(collected'[j], now')
      BY <1>3, <1>4 DEF Typed, Collecting
    <3> QED
      BY <3>1 DEF Collection, InGrid
  <2>2. /\ time' \in 0 .. MaxTime /\ now' \in -1 .. time'
        /\ pmJobs' \in [Job -> Periods \cup {Locked}] /\ active' \in [Job -> Periods \cup {Locked}]
        /\ left' \subseteq tracked'
        /\ phase' \in {"asleep", "round", "publishing", "ended"}
        /\ publishing' # NoFile <=> phase' = "publishing"
    BY <1>1 DEF FilesTypeOK
  <2> QED
    BY <1>1, <2>1, <2>2 DEF FilesTypeOK
<1> QED
  BY <1>3, <1>4, <1>5, <1>6, <1>7, <1>8, <1>9 DEF Core

-----------------------------------------------------------------------------
(* Close *)

LEMMA PeriodInOnePlace ==
  ASSUME now \in Nat, NEW c \in Collection, NEW made, NEW lost, NEW r, InOnePlace(c, made, lost, r)
  PROVE  InOnePlace(PeriodClosed(c), made, lost, r)
<1> DEFINE d == PeriodClosed(c)
           q == [end |-> c.periodEnd, samples |-> c.samples]
<1>0. c.periodEnd \in Nat
  BY DEF Collection
<1>1. CASE now < c.periodEnd
  <2>1. d = c
    BY <1>1 DEF PeriodClosed
  <2> QED
    BY <2>1
<1>2. CASE now >= c.periodEnd /\ c.samples = {}
  <2>1. d.samples = {} /\ d.periods = c.periods
    BY <1>2, PeriodFields
  <2> HIDE DEF d
  <2>2. Where(d, made, lost, r) = Where(c, made, lost, r)
    BY <1>2, <2>1, WhereSame
  <2> QED
    BY <2>2 DEF InOnePlace, d
<1>3. CASE now >= c.periodEnd /\ c.samples # {}
  <2>1. d.samples = {} /\ d.periods = c.periods \cup {q} /\ q.samples = c.samples
    BY <1>3, PeriodFields
  <2> HIDE DEF d, q
  <2> QED
    BY <2>1, WherePeriodClosed DEF d
<1> QED
  BY <1>0, <1>1, <1>2, <1>3

LEMMA Closing ==
  ASSUME FilesTypeOK, Core, NEW j \in Job, Close(j)
  PROVE  FilesTypeOK' /\ Core'
<1> DEFINE c == collected[j]
           d == PeriodClosed(c)
           e == collected'[j]
           due == FileDue(d)
           f == [job |-> j, begin |-> d.begin, end |-> d.fileEnd, gran |-> d.key.gran, periods |-> d.periods]
<1>1. /\ phase = "round" /\ j \in left /\ left' = left \ {j}
      /\ collected' = [collected EXCEPT ![j] = IF due THEN FileClosed(d) ELSE d]
      /\ IF due /\ d.periods # {} THEN publishing' = f /\ phase' = "publishing" ELSE UNCHANGED <<publishing, phase>>
      /\ UNCHANGED <<time, pmJobs, tracked, now, active, files, at, accepted, dropped, changes>>
  BY DEF Close
<1>2. j \in tracked /\ publishing = NoFile
  BY <1>1 DEF FilesTypeOK
<1>3. c \in Collection /\ InGrid(c, now) /\ Sampled(c, at)
  BY <1>2 DEF Core, Typed, Collecting
<1>4. now \in Nat /\ time \in Nat /\ now <= time
  BY <1>2, PmAssumption DEF FilesTypeOK, Core, Typed
<1>5. e = IF due THEN FileClosed(d) ELSE d
  BY <1>1 DEF Core, Typed
<1>6. \A i \in Job : i # j => collected'[i] = collected[i]
  BY <1>1 DEF Core, Typed
<1> HIDE DEF c, e
<1>7. /\ d \in Collection /\ d.key = c.key /\ d.begin = c.begin /\ d.fileEnd = c.fileEnd
      /\ d.begin < d.periodEnd /\ now < d.periodEnd /\ d.periodEnd - d.key.gran <= now
      /\ now < c.fileEnd => d.periodEnd <= d.fileEnd
      /\ now >= c.fileEnd => d.samples = {} /\ d.periodEnd = NextBoundary(now, c.key.gran)
      /\ \A p \in d.periods : c.begin < p.end /\ p.end <= c.fileEnd
      /\ Sampled(d, at) /\ Held(d) = Held(c)
  BY <1>3, <1>4, PeriodClosing
<1>8. /\ c.begin \in Nat /\ c.fileEnd \in Nat /\ c.begin < c.fileEnd /\ c.begin <= now /\ c.key \in Periods
      /\ c.key.gran \in Nat /\ c.periodEnd \in Nat
  BY <1>3, Keys DEF Collection, InGrid
<1>9. due <=> now >= c.fileEnd
  BY <1>7 DEF FileDue
<1> HIDE DEF due
\* What is collected for next.
<1>10. ASSUME due
       PROVE  /\ e \in Collection /\ InGrid(e, now) /\ Sampled(e, at) /\ now < e.periodEnd
              /\ e.begin = c.fileEnd /\ e.samples = {} /\ e.periods = {} /\ d.samples = {}
  <2>1. e = FileClosed(d)
    BY <1>5, <1>10
  <2>2. d.fileEnd <= now /\ d.samples = {} /\ d.periodEnd = NextBoundary(now, d.key.gran)
    BY <1>4, <1>7, <1>8, <1>9, <1>10
  <2> HIDE DEF d
  <2>3. /\ e \in Collection /\ InGrid(e, now) /\ Sampled(e, at) /\ e.begin = d.fileEnd
        /\ e.samples = {} /\ e.periods = {} /\ e.periodEnd = d.periodEnd
    BY <1>4, <1>7, <2>1, <2>2, FileClosing
  <2> QED
    BY <1>7, <2>2, <2>3
<1>11. ASSUME ~due
       PROVE  /\ e \in Collection /\ InGrid(e, now) /\ Sampled(e, at) /\ now < e.periodEnd
              /\ e = d /\ e.begin = c.begin
  <2>1. e = d /\ now < c.fileEnd
    BY <1>4, <1>5, <1>8, <1>9, <1>11
  <2> HIDE DEF d
  <2>2. \E k \in Nat : d.fileEnd = k * d.key.file
    BY <1>3, <1>7 DEF InGrid
  <2>3. InGrid(d, now)
    BY <1>7, <1>8, <2>1, <2>2 DEF InGrid
  <2> QED
    BY <1>7, <2>1, <2>3
<1> HIDE DEF d
<1>12. /\ e \in Collection /\ InGrid(e, now) /\ Sampled(e, at) /\ now < e.periodEnd
       /\ due => e.begin = c.fileEnd /\ e.samples = {} /\ e.periods = {} /\ d.samples = {}
       /\ ~due => e = d /\ e.begin = c.begin
  <2>1. CASE due
    BY <1>10, <2>1
  <2>2. CASE ~due
    BY <1>11, <2>2
  <2> QED
    BY <2>1, <2>2
<1>13. Held(e) \subseteq Held(c)
  <2>1. CASE due
    BY <1>12, <2>1, HeldIs
  <2>2. CASE ~due
    BY <1>7, <1>12, <2>2
  <2> QED
    BY <2>1, <2>2
\* The files there are then.
<1>14. ASSUME NEW i \in Job
       PROVE  FilesOf(i)' = IF due /\ d.periods # {} /\ i = j THEN FilesOf(i) \cup {f} ELSE FilesOf(i)
  <2>1. FilesOf(i) = {g \in files : g.job = i}
    BY <1>2, Idle
  <2>2. CASE due /\ d.periods # {}
    <3>1. \A g : g \in FilesOf(i)' <=> (g \in files \/ g = f) /\ g.job = i
      BY <1>1, <2>2 DEF FilesOf
    <3>2. f.job = j
      OBVIOUS
    <3> HIDE DEF f
    <3> QED
      BY <2>1, <2>2, <3>1, <3>2
  <2>3. CASE ~(due /\ d.periods # {})
    BY <1>1, <2>3 DEF FilesOf
  <2> QED
    BY <2>2, <2>3
<1>15. /\ f.begin = c.begin /\ f.end = c.fileEnd /\ f.gran = c.key.gran /\ f.periods = d.periods
  BY <1>7
<1> HIDE DEF f
<1>16. Typed'
  <2>1. ASSUME NEW i \in Job
        PROVE  IF i \in tracked' THEN collected'[i] \in Collection ELSE collected'[i] = Uncollected
    <3>1. CASE i = j
      BY <1>1, <1>2, <1>12, <3>1 DEF e
    <3>2. CASE i # j
      BY <1>1, <1>6, <3>2 DEF Core, Typed
    <3> QED
      BY <3>1, <3>2
  <2>2. collected' = [i \in Job |-> collected'[i]]
    BY <1>1 DEF Core, Typed
  <2> QED
    BY <1>1, <2>1, <2>2 DEF Core, Typed
<1>17. Collecting'
  <2> SUFFICES ASSUME NEW i \in tracked PROVE InGrid(collected'[i], now) /\ Sampled(collected'[i], at)
    BY <1>1 DEF Collecting
  <2>1. i \in Job
    BY DEF Core, Typed
  <2>2. CASE i = j
    BY <1>12, <2>2 DEF e
  <2>3. CASE i # j
    BY <1>6, <2>1, <2>3 DEF Core, Collecting
  <2> QED
    BY <2>2, <2>3
<1>18. Made'
  <2> SUFFICES ASSUME NEW i \in Job, NEW g \in FilesOf(i)'
               PROVE  /\ g.begin \in Nat /\ g.end \in Nat /\ g.begin < g.end /\ g.end <= now
                      /\ i \in tracked => g.end <= collected'[i].begin
    BY <1>1 DEF Made
  <2>1. CASE g \in FilesOf(i)
    <3>1. /\ g.begin \in Nat /\ g.end \in Nat /\ g.begin < g.end /\ g.end <= now
          /\ i \in tracked => g.end <= collected[i].begin
      BY <2>1 DEF Core, Made
    <3>2. CASE i # j
      BY <1>6, <3>1, <3>2
    <3>3. CASE i = j
      <4>1. g.end <= c.begin
        BY <1>2, <3>1, <3>3 DEF c
      <4>2. g.end <= e.begin
        BY <1>8, <1>12, <3>1, <4>1
      <4> QED
        BY <3>1, <3>3, <4>2 DEF e
    <3> QED
      BY <3>2, <3>3
  <2>2. CASE g \notin FilesOf(i)
    <3>1. due /\ i = j /\ g = f
      BY <1>14, <2>2
    <3>2. c.fileEnd <= now
      BY <1>4, <1>8, <1>9, <3>1
    <3> QED
      BY <1>8, <1>12, <1>15, <3>1, <3>2 DEF e
  <2> QED
    BY <2>1, <2>2
<1>19. Came'
  <2> SUFFICES ASSUME NEW i \in Job
               PROVE  /\ Held(collected'[i]) \subseteq DOMAIN at
                      /\ \A g \in FilesOf(i)' : \A p \in g.periods : p.samples \subseteq DOMAIN at
    BY <1>1 DEF Core, Came
  <2>1. Held(collected[i]) \subseteq DOMAIN at /\ \A g \in FilesOf(i) : \A p \in g.periods : p.samples \subseteq DOMAIN at
    BY DEF Core, Came
  <2>2. Held(collected'[i]) \subseteq DOMAIN at
    <3>1. CASE i = j
      BY <1>13, <2>1, <3>1 DEF c, e
    <3>2. CASE i # j
      BY <1>6, <2>1, <3>2
    <3> QED
      BY <3>1, <3>2
  <2>3. \A p \in f.periods : p.samples \subseteq DOMAIN at
    <3> SUFFICES ASSUME NEW p \in d.periods, NEW x \in p.samples PROVE x \in DOMAIN at
      BY <1>15
    <3>1. x \in Held(d)
      BY HeldIs
    <3>2. Held(c) \subseteq DOMAIN at
      BY DEF Core, Came, c
    <3> QED
      BY <1>7, <3>1, <3>2
  <2> QED
    BY <1>14, <2>1, <2>2, <2>3
<1>20. FilesTile'
  <2>1. ASSUME NEW g \in FilesOf(j) PROVE g.end <= f.begin
    BY <1>2, <1>15 DEF Core, Made, c
  <2>2. \A p \in f.periods : f.begin < p.end /\ p.end <= f.end
    BY <1>7, <1>15
  <2> SUFFICES ASSUME NEW i \in Job, NEW g \in FilesOf(i)'
               PROVE  /\ \A h \in FilesOf(i)' \ {g} : g.end <= h.begin \/ h.end <= g.begin
                      /\ \A p \in g.periods : g.begin < p.end /\ p.end <= g.end
    BY DEF FilesTile
  <2>3. ASSUME NEW h \in FilesOf(i)', h # g PROVE g.end <= h.begin \/ h.end <= g.begin
    <3>1. CASE g \in FilesOf(i) /\ h \in FilesOf(i)
      BY <2>3, <3>1 DEF Core, FilesTile
    <3>2. CASE g \in FilesOf(i) /\ h \notin FilesOf(i)
      BY <1>14, <2>1, <3>2
    <3>3. CASE g \notin FilesOf(i) /\ h \in FilesOf(i)
      BY <1>14, <2>1, <3>3
    <3>4. CASE g \notin FilesOf(i) /\ h \notin FilesOf(i)
      BY <1>14, <2>3, <3>4
    <3> QED
      BY <3>1, <3>2, <3>3, <3>4
  <2>4. ASSUME NEW p \in g.periods PROVE g.begin < p.end /\ p.end <= g.end
    <3>1. CASE g \in FilesOf(i)
      BY <3>1 DEF Core, FilesTile
    <3>2. CASE g \notin FilesOf(i)
      BY <1>14, <2>2, <3>2
    <3> QED
      BY <3>1, <3>2
  <2> QED
    BY <2>3, <2>4
<1>21. NotBeforeItsPeriod'
  <2> SUFFICES ASSUME NEW i \in Job, NEW g \in FilesOf(i)', NEW p \in g.periods, NEW r \in p.samples
               PROVE  at[r] >= p.end - g.gran
    BY <1>1 DEF NotBeforeItsPeriod
  <2>1. CASE g \in FilesOf(i)
    BY <2>1 DEF Core, NotBeforeItsPeriod
  <2>2. CASE g \notin FilesOf(i)
    <3>1. g.periods = d.periods /\ g.gran = d.key.gran
      BY <1>7, <1>14, <1>15, <2>2
    <3> QED
      BY <1>7, <3>1 DEF Sampled
  <2> QED
    BY <2>1, <2>2
<1>22. OnePlace'
  <2> SUFFICES ASSUME NEW i \in Job, NEW r \in accepted[i]
               PROVE  \E x : Places(i, r)' = {x}
    BY <1>1 DEF OnePlace
  <2>1. Places(i, r)' = Where(collected'[i], FilesOf(i)', dropped[i], r)
    <3>1. Places(i, r)' = Where(collected'[i], FilesOf(i)', dropped'[i], r)
      BY DEF Places, Where
    <3> QED
      BY <1>1, <3>1
  <2>2. InOnePlace(collected[i], FilesOf(i), dropped[i], r)
    BY <1>1, PlacesWhere DEF Core, OnePlace, InOnePlace
  <2>3. InOnePlace(collected'[i], FilesOf(i)', dropped[i], r)
    <3>1. CASE i # j
      BY <1>6, <1>14, <2>2, <3>1
    <3>2. CASE i = j
      <4>1. InOnePlace(d, FilesOf(j), dropped[j], r)
        BY <1>3, <1>4, <2>2, <3>2, PeriodInOnePlace DEF c, d
      <4>2. CASE ~due
        BY <1>12, <1>14, <3>2, <4>1, <4>2 DEF e
      <4>3. CASE due /\ d.periods = {}
        <5>1. Where(e, FilesOf(j), dropped[j], r) = Where(d, FilesOf(j), dropped[j], r)
          BY <1>12, <4>3, WhereSame
        <5>2. InOnePlace(e, FilesOf(j), dropped[j], r)
          BY <4>1, <5>1 DEF InOnePlace
        <5> QED
          BY <1>14, <3>2, <4>3, <5>2 DEF e
      <4>4. CASE due /\ d.periods # {}
        <5>1. InOnePlace(e, FilesOf(j) \cup {f}, dropped[j], r)
          BY <1>12, <1>15, <4>1, <4>4, WhereFileClosed
        <5> QED
          BY <1>14, <3>2, <4>4, <5>1 DEF e
      <4> QED
        BY <4>2, <4>3, <4>4
    <3> QED
      BY <3>1, <3>2
  <2> QED
    BY <2>1, <2>3 DEF InOnePlace
<1>23. FilesTypeOK'
  <2>1. ASSUME NEW i \in tracked'
        PROVE  /\ collected'[i].samples \subseteq Report
               /\ collected'[i].begin < collected'[i].fileEnd /\ collected'[i].periodEnd <= collected'[i].fileEnd
    <3>1. i \in Job /\ collected'[i] \in Collection /\ InGrid(collected'[i], now')
      BY <1>16, <1>17 DEF Typed, Collecting
    <3> QED
      BY <3>1 DEF Collection, InGrid
  <2>2. ASSUME NEW i \in tracked', i \notin left' PROVE collected'[i].periodEnd > now'
    <3>1. i \in tracked /\ i \in Job /\ collected'[i] \in Collection
      BY <1>1, <1>16 DEF Typed
    <3>2. CASE i = j
      BY <1>1, <1>4, <1>12, <3>1, <3>2 DEF Collection, e
    <3>3. CASE i # j
      BY <1>1, <1>6, <2>2, <3>1, <3>3 DEF FilesTypeOK
    <3> QED
      BY <3>2, <3>3
  <2>3. publishing' # NoFile <=> phase' = "publishing"
    <3>1. CASE due /\ d.periods # {}
      <4>1. f.job = j /\ NoFile.job # j
        BY PmAssumption DEF f, NoFile
      <4> QED
        BY <1>1, <3>1, <4>1
    <3>2. CASE ~(due /\ d.periods # {})
      BY <1>1, <3>2 DEF FilesTypeOK
    <3> QED
      BY <3>1, <3>2
  <2>4. /\ time' \in 0 .. MaxTime /\ now' \in -1 .. time'
        /\ pmJobs' \in [Job -> Periods \cup {Locked}] /\ active' \in [Job -> Periods \cup {Locked}]
        /\ left' \subseteq tracked'
        /\ phase' \in {"asleep", "round", "publishing", "ended"}
    BY <1>1 DEF FilesTypeOK
  <2> QED
    BY <2>1, <2>2, <2>3, <2>4 DEF FilesTypeOK
<1> QED
  BY <1>16, <1>17, <1>18, <1>19, <1>20, <1>21, <1>22, <1>23 DEF Core

-----------------------------------------------------------------------------
LEMMA FilesStart ==
  ASSUME FilesInit
  PROVE  FilesIInv
<1>1. FilesTypeOK
  BY PmAssumption DEF FilesInit, FilesTypeOK
<1>2. Typed
  <2>1. at \in Seq(Nat) /\ Len(at) <= MaxReports
    BY PmAssumption DEF FilesInit
  <2> QED
    BY <2>1 DEF FilesInit, Typed
<1>3. ASSUME NEW j \in Job PROVE FilesOf(j) = {}
  BY Idle DEF FilesInit
<1>4. ASSUME NEW j \in Job PROVE Held(collected[j]) = {}
  BY HeldIs DEF FilesInit, Uncollected
<1>5. Collecting /\ Made /\ Came
  <2>1. \A j \in Job : accepted[j] = {} /\ dropped[j] = {}
    BY DEF FilesInit
  <2>2. tracked = {}
    BY DEF FilesInit
  <2> QED
    BY <1>3, <1>4, <2>1, <2>2 DEF Collecting, Made, Came
<1>6. FilesTile /\ NotBeforeItsPeriod
  BY <1>3 DEF FilesTile, NotBeforeItsPeriod
<1>7. OnePlace
  BY DEF OnePlace, FilesInit
<1> QED
  BY <1>1, <1>2, <1>5, <1>6, <1>7 DEF FilesIInv, Core

LEMMA FilesStep ==
  ASSUME FilesIInv, [FilesNext]_filesVars
  PROVE  FilesIInv'
<1>1. CASE Arrive
  BY <1>1, Arrival DEF FilesIInv
<1>2. CASE StartRound
  BY <1>2, Starting DEF FilesIInv
<1>3. CASE \E j \in Job : Close(j)
  BY <1>3, Closing DEF FilesIInv
<1>4. CASE Tick \/ EndRound \/ Published \/ PublishFails \/ \E j \in Job, periods \in Periods \cup {Locked} : Change(j, periods)
  BY <1>4, Quiet DEF FilesIInv
<1>5. CASE UNCHANGED filesVars
  <2>1. \A j \in Job : FilesOf(j)' = FilesOf(j)
    BY <1>5 DEF filesVars, FilesOf
  <2>2. Core'
    BY <1>5, <2>1, Unmoved DEF FilesIInv, filesVars, round
  <2>3. FilesTypeOK'
    BY <1>5 DEF FilesIInv, FilesTypeOK, filesVars, round
  <2> QED
    BY <2>2, <2>3 DEF FilesIInv
<1> QED
  BY <1>1, <1>2, <1>3, <1>4, <1>5 DEF FilesNext, Run

LEMMA FilesCounted ==
  ASSUME FilesIInv
  PROVE  OneFile
<1> SUFFICES ASSUME phase # "ended", NEW j \in Job, NEW r \in accepted[j]
             PROVE  Cardinality(Places(j, r)) = 1
  BY DEF OneFile
<1>1. PICK x : Places(j, r) = {x}
  BY DEF FilesIInv, Core, OnePlace
<1> QED
  BY <1>1, FS_Singleton

LEMMA FilesInvariant == FilesSpec => []FilesIInv
<1>1. FilesInit => FilesIInv
  BY FilesStart
<1>2. FilesIInv /\ [FilesNext]_filesVars => FilesIInv'
  BY FilesStep
<1> QED
  BY <1>1, <1>2, PTL DEF FilesSpec

\* The types of the file loop's state, and that no boundary of a job is behind
\* the round that has looked at it (pm_files.run, _next_boundary).
THEOREM FilesTypeCorrect == FilesSpec => []FilesTypeOK
<1>1. FilesIInv => FilesTypeOK
  BY DEF FilesIInv
<1> QED
  BY <1>1, FilesInvariant, PTL

\* A report that a job has accepted is in its buffer, in one of its periods, in
\* one period of one of its files or discarded with the job's collection, never
\* in two of them and never in none (add_samples, _sync_jobs, run).
THEOREM OneFileCorrect == FilesSpec => []OneFile
<1>1. FilesIInv => OneFile
  BY FilesCounted
<1> QED
  BY <1>1, FilesInvariant, PTL

\* The files of a job do not overlap, and a file's periods end in it (run).
THEOREM FilesTileCorrect == FilesSpec => []FilesTile
<1>1. FilesIInv => FilesTile
  BY DEF FilesIInv, Core
<1> QED
  BY <1>1, FilesInvariant, PTL

\* No period reports a sample from before it began (_sync_jobs, run).
THEOREM NotBeforeCorrect == FilesSpec => []NotBeforeItsPeriod
<1>1. FilesIInv => NotBeforeItsPeriod
  BY DEF FilesIInv, Core
<1> QED
  BY <1>1, FilesInvariant, PTL

-----------------------------------------------------------------------------
(***************************************************************************)
(*                           The metrics alarms                            *)
(***************************************************************************)
USE WindowAssumption, SourceAssumption

\* The run of a condition c is its newest reports in w: all on the side of
\* shift, shift the closest of them, and, among the k reports since the last
\* change, ended by one that is not on that side.
RunOf(c, w, k) ==
  LET n == c.shifts
      level == c.severity
  IN /\ n <= k
     /\ n = 0 => (k > 0 => w[1] = level)
     /\ n > 0 /\ c.shift > level =>
          /\ n < RaiseN /\ AllAbove(w, n, level) /\ IsLeast(c.shift, w, n)
          /\ n < k => w[n + 1] <= level
     /\ n > 0 /\ ~(c.shift > level) =>
          /\ n < ClearN /\ AllBelow(w, n, level) /\ IsGreatest(c.shift, w, n)
          /\ n < k => w[n + 1] >= level

IInv ==
  /\ TypeOK
  /\ AlarmIsWorst
  /\ \A s \in Source : RunOf(cond[s], recent[s], since[s])

LEMMA Depths == Depth \in Nat \ {0} /\ RaiseN <= Depth /\ ClearN <= Depth
  BY DEF Depth

LEMMA Counted ==
  ASSUME NEW k \in 0 .. Depth
  PROVE  /\ Count(k) \in 0 .. Depth
         /\ Count(k) <= k + 1
         /\ \A n \in 0 .. Depth - 1 : n <= k => n + 1 <= Count(k)
         /\ \A n \in 0 .. Depth : n + 1 < Count(k) => n < k
  BY Depths DEF Count

LEMMA Pushed ==
  ASSUME NEW w \in Window, NEW r \in Severity
  PROVE  /\ Push(w, r) \in Window
         /\ Push(w, r)[1] = r
         /\ \A i \in 1 .. Depth - 1 : Push(w, r)[i + 1] = w[i]
<1>1. \A i \in 1 .. Depth : (IF i = 1 THEN r ELSE w[i - 1]) \in Severity
  BY Depths DEF Window
<1> QED
  BY <1>1, Depths DEF Push, Window

-----------------------------------------------------------------------------
\* What a report of another severity makes of the run: the newest Shifts(c, r)
\* reports lie on the report's side, Closest(c, r) is the closest of them, and
\* the one before them, if it counts, does not lie there.
Turned(c, r, w, k) ==
  LET n == Shifts(c, r)
      level == c.severity
  IN /\ n \in 1 .. k + 1 /\ n <= Needed(c, r)
     /\ Up(c, r) =>
          /\ AllAbove(w, n, level) /\ IsLeast(Closest(c, r), w, n)
          /\ n <= k /\ n < Depth => w[n + 1] <= level
     /\ ~Up(c, r) =>
          /\ AllBelow(w, n, level) /\ IsGreatest(Closest(c, r), w, n)
          /\ n <= k /\ n < Depth => w[n + 1] >= level

LEMMA RunTurns ==
  ASSUME NEW c \in Condition, NEW w \in Window, NEW k \in 0 .. Depth,
         NEW r \in Severity, RunOf(c, w, k), r # c.severity
  PROVE  Turned(c, r, Push(w, r), k) /\ Closest(c, r) \in Severity
<1> DEFINE v == Push(w, r)
<1>1. /\ c.severity \in Nat /\ c.severity \in Severity
      /\ c.shift \in Nat /\ c.shift \in Severity
      /\ c.shifts \in 0 .. Depth - 1
      /\ r \in Nat
  BY DEF Condition
<1>2. /\ v \in Window
      /\ v[1] = r
      /\ \A i \in 1 .. Depth - 1 : v[i + 1] = w[i]
  BY Pushed
<1>3. \A i \in 1 .. Depth : w[i] \in Nat /\ v[i] \in Nat
  BY <1>2 DEF Window
<1> HIDE DEF v
<1>4. CASE Runs(c, r) /\ Up(c, r)
  <2>1. /\ c.shifts > 0 /\ c.shift > c.severity
        /\ Shifts(c, r) = c.shifts + 1
        /\ Closest(c, r) = IF c.shift < r THEN c.shift ELSE r
        /\ Needed(c, r) = RaiseN
    BY <1>4, <1>1 DEF Runs, Shifts, Closest, Needed, Up
  <2>2. /\ c.shifts <= k /\ c.shifts < RaiseN
        /\ AllAbove(w, c.shifts, c.severity) /\ IsLeast(c.shift, w, c.shifts)
        /\ c.shifts < k => w[c.shifts + 1] <= c.severity
    BY <2>1 DEF RunOf
  <2>3. AllAbove(v, c.shifts + 1, c.severity)
    <3> SUFFICES ASSUME NEW i \in 1 .. c.shifts + 1 PROVE v[i] > c.severity
      BY DEF AllAbove
    <3>1. CASE i = 1
      BY <3>1, <1>1, <1>2, <1>4 DEF Up
    <3>2. CASE i # 1
      <4>1. i - 1 \in 1 .. c.shifts /\ i - 1 \in 1 .. Depth - 1
        BY <3>2, <1>1, Depths
      <4>2. v[(i - 1) + 1] = w[i - 1]
        BY <4>1, <1>2
      <4> QED
        BY <4>1, <4>2, <2>2, <1>1 DEF AllAbove
    <3> QED
      BY <3>1, <3>2
  <2>4. IsLeast(Closest(c, r), v, c.shifts + 1)
    <3>1. PICK j \in 1 .. c.shifts : c.shift = w[j]
      BY <2>2 DEF IsLeast
    <3>2. v[j + 1] = c.shift /\ j + 1 \in 1 .. c.shifts + 1 /\ 1 \in 1 .. c.shifts + 1
      BY <3>1, <1>1, <1>2, Depths
    <3>3. ASSUME NEW i \in 1 .. c.shifts + 1 PROVE Closest(c, r) <= v[i]
      <4>1. CASE i = 1
        BY <4>1, <1>1, <1>2, <2>1
      <4>2. CASE i # 1
        <5>1. i - 1 \in 1 .. c.shifts /\ i - 1 \in 1 .. Depth - 1
          BY <4>2, <1>1, Depths
        <5>2. v[(i - 1) + 1] = w[i - 1]
          BY <5>1, <1>2
        <5>3. w[i - 1] \in Nat
          BY <5>1, <1>1, <1>3, Depths
        <5>4. c.shift <= w[i - 1]
          BY <5>1, <2>2 DEF IsLeast
        <5> QED
          BY <5>1, <5>2, <5>3, <5>4, <2>1, <1>1
      <4> QED
        BY <4>1, <4>2
    <3>4. \E i \in 1 .. c.shifts + 1 : Closest(c, r) = v[i]
      BY <3>2, <1>2, <2>1
    <3> QED
      BY <3>3, <3>4 DEF IsLeast
  <2>5. c.shifts + 1 <= k /\ c.shifts + 1 < Depth => v[(c.shifts + 1) + 1] <= c.severity
    <3> SUFFICES ASSUME c.shifts + 1 <= k, c.shifts + 1 < Depth
                 PROVE  v[(c.shifts + 1) + 1] <= c.severity
      OBVIOUS
    <3>1. c.shifts + 1 \in 1 .. Depth - 1 /\ c.shifts < k
      BY <1>1, Depths
    <3>2. v[(c.shifts + 1) + 1] = w[c.shifts + 1]
      BY <3>1, <1>2
    <3> QED
      BY <3>1, <3>2, <2>2
  <2>6. Closest(c, r) \in Severity
    BY <2>1, <1>1
  <2> QED
    BY <2>1, <2>2, <2>3, <2>4, <2>5, <2>6, <1>1, <1>4 DEF Turned, v
<1>5. CASE Runs(c, r) /\ ~Up(c, r)
  <2>1. /\ c.shifts > 0 /\ ~(c.shift > c.severity)
        /\ Shifts(c, r) = c.shifts + 1
        /\ Closest(c, r) = IF c.shift < r THEN r ELSE c.shift
        /\ Needed(c, r) = ClearN
    BY <1>5, <1>1 DEF Runs, Shifts, Closest, Needed, Up
  <2>2. /\ c.shifts <= k /\ c.shifts < ClearN
        /\ AllBelow(w, c.shifts, c.severity) /\ IsGreatest(c.shift, w, c.shifts)
        /\ c.shifts < k => w[c.shifts + 1] >= c.severity
    BY <2>1 DEF RunOf
  <2>3. AllBelow(v, c.shifts + 1, c.severity)
    <3> SUFFICES ASSUME NEW i \in 1 .. c.shifts + 1 PROVE v[i] < c.severity
      BY DEF AllBelow
    <3>1. CASE i = 1
      BY <3>1, <1>1, <1>2, <1>5 DEF Up
    <3>2. CASE i # 1
      <4>1. i - 1 \in 1 .. c.shifts /\ i - 1 \in 1 .. Depth - 1
        BY <3>2, <1>1, Depths
      <4>2. v[(i - 1) + 1] = w[i - 1]
        BY <4>1, <1>2
      <4> QED
        BY <4>1, <4>2, <2>2, <1>1 DEF AllBelow
    <3> QED
      BY <3>1, <3>2
  <2>4. IsGreatest(Closest(c, r), v, c.shifts + 1)
    <3>1. PICK j \in 1 .. c.shifts : c.shift = w[j]
      BY <2>2 DEF IsGreatest
    <3>2. v[j + 1] = c.shift /\ j + 1 \in 1 .. c.shifts + 1 /\ 1 \in 1 .. c.shifts + 1
      BY <3>1, <1>1, <1>2, Depths
    <3>3. ASSUME NEW i \in 1 .. c.shifts + 1 PROVE v[i] <= Closest(c, r)
      <4>1. CASE i = 1
        BY <4>1, <1>1, <1>2, <2>1
      <4>2. CASE i # 1
        <5>1. i - 1 \in 1 .. c.shifts /\ i - 1 \in 1 .. Depth - 1
          BY <4>2, <1>1, Depths
        <5>2. v[(i - 1) + 1] = w[i - 1]
          BY <5>1, <1>2
        <5>3. w[i - 1] \in Nat
          BY <5>1, <1>1, <1>3, Depths
        <5>4. w[i - 1] <= c.shift
          BY <5>1, <2>2 DEF IsGreatest
        <5> QED
          BY <5>1, <5>2, <5>3, <5>4, <2>1, <1>1
      <4> QED
        BY <4>1, <4>2
    <3>4. \E i \in 1 .. c.shifts + 1 : Closest(c, r) = v[i]
      BY <3>2, <1>2, <2>1
    <3> QED
      BY <3>3, <3>4 DEF IsGreatest
  <2>5. c.shifts + 1 <= k /\ c.shifts + 1 < Depth => v[(c.shifts + 1) + 1] >= c.severity
    <3> SUFFICES ASSUME c.shifts + 1 <= k, c.shifts + 1 < Depth
                 PROVE  v[(c.shifts + 1) + 1] >= c.severity
      OBVIOUS
    <3>1. c.shifts + 1 \in 1 .. Depth - 1 /\ c.shifts < k
      BY <1>1, Depths
    <3>2. v[(c.shifts + 1) + 1] = w[c.shifts + 1]
      BY <3>1, <1>2
    <3> QED
      BY <3>1, <3>2, <2>2
  <2>6. Closest(c, r) \in Severity
    BY <2>1, <1>1
  <2> QED
    BY <2>1, <2>2, <2>3, <2>4, <2>5, <2>6, <1>1, <1>5 DEF Turned, v
<1>6. CASE ~Runs(c, r)
  <2>1. Shifts(c, r) = 1 /\ Closest(c, r) = r
    BY <1>6 DEF Shifts, Closest
  <2>2. /\ Up(c, r) => AllAbove(v, 1, c.severity) /\ IsLeast(r, v, 1)
        /\ ~Up(c, r) => AllBelow(v, 1, c.severity) /\ IsGreatest(r, v, 1)
    BY <1>1, <1>2 DEF Up, AllAbove, AllBelow, IsLeast, IsGreatest
  <2>3. 1 <= k /\ 1 < Depth =>
          (Up(c, r) => v[2] <= c.severity) /\ (~Up(c, r) => v[2] >= c.severity)
    <3> SUFFICES ASSUME 1 <= k, 1 < Depth
                 PROVE  (Up(c, r) => v[2] <= c.severity) /\ (~Up(c, r) => v[2] >= c.severity)
      OBVIOUS
    <3>1. v[2] = w[1] /\ w[1] \in Nat
      BY <1>2, <1>3, Depths
    <3>2. CASE c.shifts = 0
      BY <3>1, <3>2, <1>1 DEF RunOf
    <3>3. CASE c.shifts > 0 /\ c.shift > c.severity
      BY <3>1, <3>3, <1>1, <1>6 DEF RunOf, AllAbove, Runs, Up
    <3>4. CASE c.shifts > 0 /\ ~(c.shift > c.severity)
      BY <3>1, <3>4, <1>1, <1>6 DEF RunOf, AllBelow, Runs, Up
    <3> QED
      BY <3>2, <3>3, <3>4, <1>1
  <2> QED
    BY <2>1, <2>2, <2>3, <1>1 DEF Turned, Needed, v
<1> QED
  BY <1>4, <1>5, <1>6

-----------------------------------------------------------------------------
LEMMA InvInit == Init => IInv
<1> SUFFICES ASSUME Init PROVE IInv
  OBVIOUS
<1>1. [severity |-> 0, shifts |-> 0, shift |-> 0] \in Condition
  BY Depths DEF Condition
<1>2. TypeOK
  BY <1>1, Depths DEF Init, TypeOK, Window
<1>3. AlarmIsWorst
  BY DEF Init, AlarmIsWorst
<1>4. \A s \in Source : RunOf(cond[s], recent[s], since[s])
  BY DEF Init, RunOf
<1> QED
  BY <1>2, <1>3, <1>4 DEF IInv

\* The step of a run that goes on: what Turned says is what RunOf asks.
LEMMA RunShifts ==
  ASSUME NEW c \in Condition, NEW w \in Window, NEW k \in 0 .. Depth,
         NEW r \in Severity, RunOf(c, w, k), r # c.severity,
         Shifts(c, r) < Needed(c, r)
  PROVE  LET d == [severity |-> c.severity, shifts |-> Shifts(c, r), shift |-> Closest(c, r)]
         IN d \in Condition /\ RunOf(d, Push(w, r), Count(k))
<1> DEFINE d == [severity |-> c.severity, shifts |-> Shifts(c, r), shift |-> Closest(c, r)]
           v == Push(w, r)
           n == Shifts(c, r)
<1>1. Turned(c, r, v, k) /\ Closest(c, r) \in Severity
  BY RunTurns
<1>2. /\ v \in Window
      /\ c.severity \in Severity /\ c.severity \in Nat /\ r \in Nat
      /\ Closest(c, r) \in Nat
  <2>1. v \in Window
    BY Pushed
  <2> QED
    BY <1>1, <2>1 DEF Condition
<1>8. \A i \in 1 .. Depth : v[i] \in Nat
  <2> HIDE DEF v
  <2> QED
    BY <1>2 DEF Window
<1>3. n \in 1 .. k + 1 /\ n \in 1 .. Depth - 1 /\ n <= Count(k)
      /\ (n < Count(k) => n <= k)
  BY <1>1, Depths, Counted DEF Turned, Needed
<1>4. d \in Condition
  BY <1>1, <1>2, <1>3 DEF Condition
<1>5. d.shifts = n /\ d.severity = c.severity /\ d.shift = Closest(c, r)
  OBVIOUS
<1>6. CASE Up(c, r)
  <2>1. /\ AllAbove(v, n, c.severity) /\ IsLeast(Closest(c, r), v, n)
        /\ n <= k => v[n + 1] <= c.severity
        /\ n < RaiseN
    <3>1. AllAbove(v, n, c.severity) /\ IsLeast(Closest(c, r), v, n)
      BY <1>1, <1>6 DEF Turned
    <3>2. n <= k /\ n < Depth => v[n + 1] <= c.severity
      BY <1>1, <1>6 DEF Turned
    <3>3. n < RaiseN
      BY <1>6 DEF Needed
    <3> HIDE DEF v, n
    <3> QED
      BY <1>3, <3>1, <3>2, <3>3, Depths
  <2>2. Closest(c, r) > c.severity
    <3> HIDE DEF v, n
    <3> QED
      BY <2>1, <1>2, <1>3, <1>8, Depths DEF AllAbove, IsLeast
  <2> HIDE DEF d, v, n
  <2>3. RunOf(d, v, Count(k))
    BY <1>3, <1>5, <2>1, <2>2, Counted DEF RunOf
  <2> QED
    BY <1>4, <2>3 DEF d, v, n
<1>7. CASE ~Up(c, r)
  <2>1. /\ AllBelow(v, n, c.severity) /\ IsGreatest(Closest(c, r), v, n)
        /\ n <= k => v[n + 1] >= c.severity
        /\ n < ClearN
    <3>1. AllBelow(v, n, c.severity) /\ IsGreatest(Closest(c, r), v, n)
      BY <1>1, <1>7 DEF Turned
    <3>2. n <= k /\ n < Depth => v[n + 1] >= c.severity
      BY <1>1, <1>7 DEF Turned
    <3>3. n < ClearN
      BY <1>7 DEF Needed
    <3> HIDE DEF v, n
    <3> QED
      BY <1>3, <3>1, <3>2, <3>3, Depths
  <2>2. Closest(c, r) < c.severity
    <3> HIDE DEF v, n
    <3> QED
      BY <2>1, <1>2, <1>3, <1>8, Depths DEF AllBelow, IsGreatest
  <2> HIDE DEF d, v, n
  <2>3. RunOf(d, v, Count(k))
    BY <1>2, <1>3, <1>5, <2>1, <2>2, Counted DEF RunOf, v, n
  <2> QED
    BY <1>4, <2>3 DEF d, v, n
<1> QED
  BY <1>6, <1>7

-----------------------------------------------------------------------------
(***************************************************************************)
(* One step per outcome of a report; other sources keep their condition,   *)
(* their reports and so their run.                                         *)
(***************************************************************************)
LEMMA InvStep == IInv /\ [Next]_vars => IInv'
<1> SUFFICES ASSUME IInv, [Next]_vars PROVE IInv'
  OBVIOUS
<1>1. CASE UNCHANGED vars
  BY <1>1 DEF IInv, TypeOK, AlarmIsWorst, RunOf, vars
<1>2. ASSUME NEW s \in Source, NEW r \in Severity, Update(s, r) PROVE IInv'
  <2> DEFINE c == cond[s]
  <2>1. /\ cond \in [Source -> Condition] /\ recent \in [Source -> Window]
        /\ since \in [Source -> 0 .. Depth] /\ alarm \in Severity
        /\ RunOf(cond[s], recent[s], since[s])
    BY DEF IInv, TypeOK
  <2>2. /\ recent' = [recent EXCEPT ![s] = Push(recent[s], r)]
        /\ recent' \in [Source -> Window]
        /\ recent'[s] = Push(recent[s], r)
        /\ \A u \in Source \ {s} : recent'[u] = recent[u]
    BY <1>2, <2>1, Pushed DEF Update
  <2>3. c \in Condition /\ c.severity \in Severity /\ c.severity \in Nat
    BY <2>1 DEF Condition
  <2>4. CASE Confirm(s, r)
    <3> DEFINE d == [c EXCEPT !.shifts = 0]
    <3>1. d \in Condition /\ d.shifts = 0 /\ d.severity = c.severity
      BY <2>3, Depths DEF Condition
    <3>2. cond' = [cond EXCEPT ![s] = d] /\ since' = [since EXCEPT ![s] = Count(since[s])]
          /\ alarm' = alarm /\ r = c.severity
      BY <2>4 DEF Confirm
    <3>3. Count(since[s]) \in 0 .. Depth
      BY <2>1, Counted
    <3> HIDE DEF c, d
    <3>4. TypeOK'
      BY <2>1, <2>2, <3>1, <3>2, <3>3 DEF TypeOK
    <3>5. \A u \in Source : cond'[u].severity = cond[u].severity
      BY <2>1, <3>1, <3>2 DEF c
    <3>6. AlarmIsWorst'
      BY <3>2, <3>5 DEF AlarmIsWorst, IInv
    <3>10. recent[s] \in Window
      BY <2>1
    <3>7. cond'[s] = d /\ recent'[s][1] = r /\ since'[s] \in 0 .. Depth
      BY <2>1, <2>2, <3>2, <3>3, <3>10, Pushed, ZenonT(30)
    <3>8. RunOf(cond'[s], recent'[s], since'[s])
      BY <3>1, <3>2, <3>7 DEF RunOf
    <3>9. ASSUME NEW u \in Source \ {s} PROVE RunOf(cond'[u], recent'[u], since'[u])
      BY <2>1, <2>2, <3>2, <3>9 DEF IInv
    <3> QED
      BY <3>4, <3>6, <3>8, <3>9 DEF IInv
  <2>5. CASE Shift(s, r)
    <3> DEFINE d == [severity |-> c.severity, shifts |-> Shifts(c, r), shift |-> Closest(c, r)]
    <3>1. cond' = [cond EXCEPT ![s] = d] /\ since' = [since EXCEPT ![s] = Count(since[s])]
          /\ alarm' = alarm /\ r # c.severity /\ Shifts(c, r) < Needed(c, r)
      BY <2>5 DEF Shift
    <3>2. d \in Condition /\ RunOf(d, Push(recent[s], r), Count(since[s]))
      BY <2>1, <2>3, <3>1, RunShifts
    <3>3. Count(since[s]) \in 0 .. Depth /\ d.severity = c.severity
      BY <2>1, Counted
    <3> HIDE DEF c, d
    <3>4. TypeOK'
      BY <2>1, <2>2, <3>1, <3>2, <3>3 DEF TypeOK
    <3>5. \A u \in Source : cond'[u].severity = cond[u].severity
      BY <2>1, <3>1, <3>3 DEF c
    <3>6. AlarmIsWorst'
      BY <3>1, <3>5 DEF AlarmIsWorst, IInv
    <3>7. RunOf(cond'[s], recent'[s], since'[s])
      BY <2>1, <2>2, <3>1, <3>2
    <3>8. ASSUME NEW u \in Source \ {s} PROVE RunOf(cond'[u], recent'[u], since'[u])
      BY <2>1, <2>2, <3>1, <3>8 DEF IInv
    <3> QED
      BY <3>4, <3>6, <3>7, <3>8 DEF IInv
  <2>6. CASE Settle(s, r)
    <3> DEFINE d == [severity |-> Closest(c, r), shifts |-> 0, shift |-> Closest(c, r)]
    <3>1. cond' = [cond EXCEPT ![s] = d] /\ since' = [since EXCEPT ![s] = 0]
          /\ SyncAlarm(cond') /\ r # c.severity
      BY <2>6 DEF Settle
    <3>2. Closest(c, r) \in Severity
      BY <2>1, <2>3, <3>1, RunTurns
    <3>3. d \in Condition /\ d.shifts = 0
      BY <3>2, Depths DEF Condition
    <3> HIDE DEF c, d
    <3>4. cond' \in [Source -> Condition]
      BY <2>1, <3>1, <3>3
    <3>5. \A u \in Source : cond'[u].severity \in Severity
      BY <3>4 DEF Condition
    <3>6. alarm' \in Severity
      BY <3>1, <3>5 DEF SyncAlarm
    <3>7. TypeOK'
      BY <2>1, <2>2, <3>1, <3>4, <3>6, Depths DEF TypeOK
    <3>8. AlarmIsWorst'
      BY <3>1 DEF AlarmIsWorst, SyncAlarm
    <3>9. cond'[s].shifts = 0 /\ since'[s] = 0
      BY <2>1, <3>1, <3>3
    <3>10. RunOf(cond'[s], recent'[s], since'[s])
      BY <3>9 DEF RunOf
    <3>11. ASSUME NEW u \in Source \ {s} PROVE RunOf(cond'[u], recent'[u], since'[u])
      BY <2>1, <2>2, <3>1, <3>11 DEF IInv
    <3> QED
      BY <3>7, <3>8, <3>10, <3>11 DEF IInv
  <2> QED
    BY <1>2, <2>4, <2>5, <2>6 DEF Update
<1> QED
  BY <1>1, <1>2 DEF Next

LEMMA Invariance == Spec => []IInv
  BY InvInit, InvStep, PTL DEF Spec

\* Every condition and every window of reports keeps its type: no run
\* reaches the length that ends it.
THEOREM TypeCorrect == Spec => []TypeOK
  BY Invariance, PTL DEF IInv

\* The registry is always told the highest debounced severity.
THEOREM AlarmCorrect == Spec => []AlarmIsWorst
  BY Invariance, PTL DEF IInv

-----------------------------------------------------------------------------
\* Every report the counters handle is one the reference handles so.
LEMMA RefinementStep == IInv /\ [Next]_vars => [Reference!DebounceNext]_(Reference!debounce)
<1> SUFFICES ASSUME IInv, [Next]_vars
             PROVE [Reference!DebounceNext]_(Reference!debounce)
  OBVIOUS
<1>1. CASE UNCHANGED vars
  BY <1>1 DEF vars, Reference!debounce
<1>2. ASSUME NEW s \in Source, NEW r \in Severity, Update(s, r)
      PROVE Reference!DebounceNext
  <2> DEFINE c == cond[s]
             k == since[s]
             v == Push(recent[s], r)
             L == [u \in Source |-> cond[u].severity]
  <2>1. /\ cond \in [Source -> Condition] /\ recent \in [Source -> Window]
        /\ since \in [Source -> 0 .. Depth]
        /\ RunOf(c, recent[s], k)
    BY DEF IInv, TypeOK
  <2>2. /\ recent' = [recent EXCEPT ![s] = v]
        /\ recent'[s] = v
    BY <1>2, <2>1 DEF Update
  <2>3. c \in Condition /\ c.severity \in Severity /\ c.severity \in Nat
        /\ r \in Nat /\ k \in 0 .. Depth /\ recent[s] \in Window /\ L[s] = c.severity
    BY <2>1 DEF Condition
  <2>4. v \in Window /\ v[1] = r /\ \A i \in 1 .. Depth : v[i] \in Nat
    <3>1. v \in Window /\ v[1] = r
      BY <2>3, Pushed
    <3> HIDE DEF v
    <3> QED
      BY <3>1 DEF Window
  <2>5. CASE Confirm(s, r)
    <3>1. r = c.severity /\ since' = [since EXCEPT ![s] = Count(k)]
          /\ cond' = [cond EXCEPT ![s].shifts = 0]
      BY <2>5 DEF Confirm
    <3>2. [u \in Source |-> cond'[u].severity] = L
      BY <2>1, <3>1 DEF Condition
    <3>3. ~AllAbove(v, RaiseN, c.severity) /\ ~AllBelow(v, ClearN, c.severity)
      BY <2>3, <2>4, <3>1 DEF AllAbove, AllBelow
    <3>4. Reference!Stay(s)
      BY <2>2, <2>3, <3>3 DEF Reference!Stay, Reference!AllAbove, Reference!AllBelow, AllAbove, AllBelow
    <3>5. Reference!Report(s, r)
      BY <2>2, <3>1, <3>2, <3>4 DEF Reference!Report, Reference!Push, Push, Reference!Count, Count,
         Reference!Depth, Depth
    <3> QED
      BY <3>5 DEF Reference!DebounceNext
  <2>6. CASE Shift(s, r)
    <3>1. /\ r # c.severity /\ since' = [since EXCEPT ![s] = Count(k)]
          /\ Shifts(c, r) < Needed(c, r)
          /\ cond' = [cond EXCEPT ![s] =
               [severity |-> c.severity, shifts |-> Shifts(c, r), shift |-> Closest(c, r)]]
      BY <2>6 DEF Shift
    <3>2. [u \in Source |-> cond'[u].severity] = L
      BY <2>1, <3>1
    <3>3. Turned(c, r, v, k)
      BY <2>1, <2>3, <3>1, RunTurns
    <3>4. /\ k + 1 >= RaiseN => ~AllAbove(v, RaiseN, c.severity)
          /\ k + 1 >= ClearN => ~AllBelow(v, ClearN, c.severity)
      <4> HIDE DEF c, k, v, L
      <4>1. CASE Up(c, r)
        <5>1. Shifts(c, r) \in 1 .. k + 1 /\ Shifts(c, r) < RaiseN
              /\ (Shifts(c, r) <= k => v[Shifts(c, r) + 1] <= c.severity)
          BY <2>3, <3>1, <3>3, <4>1, Depths DEF Turned, Needed
        <5>2. ~AllBelow(v, ClearN, c.severity)
          BY <2>3, <2>4, <4>1 DEF AllBelow, Up
        <5>3. ASSUME k + 1 >= RaiseN PROVE ~AllAbove(v, RaiseN, c.severity)
          <6>1. Shifts(c, r) + 1 \in 1 .. RaiseN /\ Shifts(c, r) + 1 \in 1 .. Depth
                /\ v[Shifts(c, r) + 1] <= c.severity
            BY <2>3, <5>1, <5>3, Depths
          <6>2. v[Shifts(c, r) + 1] \in Nat
            BY <6>1, <2>4
          <6> QED
            BY <6>1, <6>2, <2>3 DEF AllAbove
        <5> QED
          BY <5>2, <5>3
      <4>2. CASE ~Up(c, r)
        <5>1. Shifts(c, r) \in 1 .. k + 1 /\ Shifts(c, r) < ClearN
              /\ (Shifts(c, r) <= k => v[Shifts(c, r) + 1] >= c.severity)
          BY <2>3, <3>1, <3>3, <4>2, Depths DEF Turned, Needed
        <5>2. ~AllAbove(v, RaiseN, c.severity)
          BY <2>3, <2>4, <4>2 DEF AllAbove, Up
        <5>3. ASSUME k + 1 >= ClearN PROVE ~AllBelow(v, ClearN, c.severity)
          <6>1. Shifts(c, r) + 1 \in 1 .. ClearN /\ Shifts(c, r) + 1 \in 1 .. Depth
                /\ v[Shifts(c, r) + 1] >= c.severity
            BY <2>3, <5>1, <5>3, Depths
          <6>2. v[Shifts(c, r) + 1] \in Nat
            BY <6>1, <2>4
          <6> QED
            BY <6>1, <6>2, <2>3 DEF AllBelow
        <5> QED
          BY <5>2, <5>3
      <4> QED
        BY <4>1, <4>2
    <3>5. Reference!Stay(s)
      BY <2>2, <2>3, <3>4 DEF Reference!Stay, Reference!AllAbove, Reference!AllBelow, AllAbove, AllBelow
    <3>6. Reference!Report(s, r)
      BY <2>2, <3>1, <3>2, <3>5 DEF Reference!Report, Reference!Push, Push, Reference!Count, Count,
         Reference!Depth, Depth
    <3> QED
      BY <3>6 DEF Reference!DebounceNext
  <2>7. CASE Settle(s, r)
    <3>1. /\ r # c.severity /\ since' = [since EXCEPT ![s] = 0]
          /\ Shifts(c, r) >= Needed(c, r)
          /\ cond' = [cond EXCEPT ![s] =
               [severity |-> Closest(c, r), shifts |-> 0, shift |-> Closest(c, r)]]
      BY <2>7 DEF Settle
    <3>2. [u \in Source |-> cond'[u].severity] = [L EXCEPT ![s] = Closest(c, r)]
      BY <2>1, <3>1
    <3>3. Turned(c, r, v, k) /\ Closest(c, r) \in Severity
      BY <2>1, <2>3, <3>1, RunTurns
    <3>4. \/ /\ k + 1 >= RaiseN
             /\ AllAbove(v, RaiseN, c.severity) /\ IsLeast(Closest(c, r), v, RaiseN)
          \/ /\ k + 1 >= ClearN
             /\ AllBelow(v, ClearN, c.severity) /\ IsGreatest(Closest(c, r), v, ClearN)
      <4> HIDE DEF c, k, v, L
      <4>1. Shifts(c, r) = Needed(c, r) /\ Shifts(c, r) <= k + 1
        BY <2>3, <3>1, <3>3 DEF Turned, Needed
      <4>2. CASE Up(c, r)
        BY <3>3, <4>1, <4>2 DEF Turned, Needed
      <4>3. CASE ~Up(c, r)
        BY <3>3, <4>1, <4>3 DEF Turned, Needed
      <4> QED
        BY <4>2, <4>3
    <3>5. Reference!Rise(s, Closest(c, r)) \/ Reference!Fall(s, Closest(c, r))
      BY <2>2, <2>3, <3>4
         DEF Reference!Rise, Reference!Fall, Reference!AllAbove, Reference!AllBelow,
             Reference!IsLeast, Reference!IsGreatest, AllAbove, AllBelow, IsLeast, IsGreatest
    <3>6. Reference!Report(s, r)
      BY <2>2, <3>1, <3>2, <3>3, <3>5 DEF Reference!Report, Reference!Push, Push,
         Reference!Depth, Depth
    <3> QED
      BY <3>6 DEF Reference!DebounceNext
  <2> QED
    BY <1>2, <2>5, <2>6, <2>7 DEF Update
<1> QED
  BY <1>1, <1>2 DEF Next

\* Counting runs debounces exactly as the reports themselves define it.
THEOREM DebounceCorrect == Spec => ImplementsDebounce
<1>1. Init => Reference!DebounceInit
  BY DEF Init, Reference!DebounceInit, Reference!Depth, Depth
<1> QED
  BY <1>1, RefinementStep, Invariance, PTL
     DEF Spec, ImplementsDebounce, Reference!DebounceSpec

-----------------------------------------------------------------------------
(* The failure ratio *)

USE RatioAssumption

\* What the failures of a cause that are judged stay below.
Real(c) == IF older THEN tried[c] ELSE fails[c]

\* What the next report can add to the window has happened, and is not in it
\* yet; until a restart the counts only grow, but for the failures an older gNB
\* comes to, and nothing is left out.
Ledger ==
  last # NoBaseline =>
    /\ judgedAtts + windowAttempted + Rise(attempted, last.attempted) <= atts
    /\ \A c \in Cause : judged[c] + windowFailed[c] + Rise(Told[c], last.failed[c]) <= Real(c)
    /\ restarts = 0 =>
         /\ last.attempted <= attempted
         /\ ~older => \A c \in Cause : last.failed[c] <= Told[c]

RatioIInv ==
  /\ RatioTypeOK
  /\ Ledger
  /\ LostReportsLoseNothing

\* What the properties need of types.
RatioTyped ==
  /\ older \in BOOLEAN /\ attempted \in Nat /\ atts \in Nat /\ judgedAtts \in Nat
  /\ windowAttempted \in Nat
  /\ last \in [attempted : Nat, failed : Counts] \cup {NoBaseline}
  /\ \A c \in Cause :
       /\ failed[c] \in Nat /\ pending[c] \in Nat /\ Told[c] \in Nat /\ windowFailed[c] \in Nat
       /\ tried[c] \in Nat /\ fails[c] \in Nat /\ inFlight[c] \in Nat /\ judged[c] \in Nat
       /\ Real(c) \in Nat
       /\ Told[c] = IF older THEN failed[c] + pending[c] ELSE failed[c]

\* A baseline is told from none by its attempts.
LEMMA Baselines ==
  ASSUME RatioTypeOK
  PROVE  /\ last # NoBaseline => last \in [attempted : Nat, failed : Counts] /\ last.attempted \in Nat
                                 /\ last.failed \in Counts
         /\ last = NoBaseline => last.attempted = -1
  BY DEF RatioTypeOK, NoBaseline

LEMMA Verdicts == ASSUME NEW n, NEW f PROVE Verdict(n, f) \in {0, 3, 4}
  BY DEF Verdict

LEMMA RatioInvInit == RatioInit => RatioIInv
<1> SUFFICES ASSUME RatioInit PROVE RatioIInv
  OBVIOUS
<1>1. Nothing \in Counts
  BY DEF Nothing, Counts
<1>2. RatioTypeOK
  BY <1>1 DEF RatioInit, RatioTypeOK
<1> QED
  BY <1>2 DEF RatioInit, RatioIInv, Ledger, LostReportsLoseNothing

LEMMA JudgeTypes ==
  ASSUME RatioTypeOK, NEW n \in Nat, NEW f \in Counts, Judge(n, f)
  PROVE  /\ windowAttempted' \in 0 .. (IF MinAttempts > 1 THEN MinAttempts ELSE 1) - 1
         /\ windowFailed' \in Counts /\ verdict' \in {0, 3, 4}
         /\ judgedAtts' \in Nat /\ judged' \in Counts
         /\ judgedAtts' + windowAttempted' = judgedAtts + n
         /\ \A c \in Cause : judged'[c] + windowFailed'[c] = judged[c] + f[c]
<1> DEFINE j == [c \in Cause |-> judged[c] + f[c]]
<1>1. judgedAtts \in Nat /\ judged \in Counts /\ verdict \in {0, 3, 4}
  BY DEF RatioTypeOK
<1>2. j \in Counts /\ Nothing \in Counts
  BY <1>1 DEF Counts, Nothing
<1>3. CASE Full(n)
  <2>1. /\ verdict' = Verdict(n, Sum(f)) /\ windowAttempted' = 0 /\ windowFailed' = Nothing
        /\ judgedAtts' = judgedAtts + n /\ judged' = j
    BY <1>3 DEF Judge
  <2>2. verdict' \in {0, 3, 4}
    BY <2>1, Verdicts
  <2>3. \A c \in Cause : judged'[c] + windowFailed'[c] = judged[c] + f[c]
    BY <1>1, <2>1 DEF Counts, Nothing
  <2> QED
    BY <1>1, <1>2, <2>1, <2>2, <2>3
<1>4. CASE ~Full(n)
  <2>1. /\ windowAttempted' = n /\ windowFailed' = f
        /\ verdict' = verdict /\ judgedAtts' = judgedAtts /\ judged' = judged
    BY <1>4 DEF Judge
  <2>2. n < (IF MinAttempts > 1 THEN MinAttempts ELSE 1)
    BY <1>4 DEF Full
  <2> QED
    BY <1>1, <2>1, <2>2
<1> QED
  BY <1>3, <1>4

LEMMA RatioTypes == RatioTypeOK => RatioTyped /\ Told \in Counts
<1> SUFFICES ASSUME RatioTypeOK PROVE RatioTyped /\ Told \in Counts
  OBVIOUS
<1>1. /\ older \in BOOLEAN /\ attempted \in Nat /\ atts \in Nat /\ judgedAtts \in Nat
      /\ windowAttempted \in Nat
      /\ last \in [attempted : Nat, failed : Counts] \cup {NoBaseline}
  BY DEF RatioTypeOK
<1>2. ASSUME NEW c \in Cause
      PROVE  /\ failed[c] \in Nat /\ pending[c] \in Nat /\ windowFailed[c] \in Nat
             /\ tried[c] \in Nat /\ fails[c] \in Nat /\ inFlight[c] \in Nat /\ judged[c] \in Nat
  BY DEF RatioTypeOK, Counts
<1>3. \A c \in Cause : Real(c) \in Nat
  BY <1>1, <1>2 DEF Real
<1>4. \A c \in Cause : Told[c] = IF older THEN failed[c] + pending[c] ELSE failed[c]
  BY DEF Told
<1>5. \A c \in Cause : Told[c] \in Nat
  BY <1>1, <1>2, <1>4
<1>6. Told \in Counts
  BY <1>2 DEF Told, Counts, RatioTypeOK
<1> QED
  BY <1>1, <1>2, <1>3, <1>4, <1>5, <1>6 DEF RatioTyped

\* What an attempt, or the end of one, does to the counts.
LEMMA Counting ==
  ASSUME RatioIInv, NEW c \in Cause, Attempt(c) \/ Fail(c) \/ Succeed(c)
  PROVE  /\ UNCHANGED <<older, last, windowAttempted, windowFailed, judgedAtts, judged, inFlight, restarts>>
         /\ RatioTypeOK'
         /\ (attempted' = attempted /\ atts' = atts) \/ (attempted' = attempted + 1 /\ atts' = atts + 1)
         /\ \A d \in Cause :
              /\ Real(d)' - Real(d) >= 0 /\ Told'[d] - Told[d] <= Real(d)' - Real(d)
              /\ ~older => Told'[d] - Told[d] = fails'[d] - fails[d] /\ Told'[d] >= Told[d]
              /\ older => Told'[d] - Told[d] = fails'[d] + pending'[d] - fails[d] - pending[d]
<1> USE DEF Plus, Minus
<1>t. /\ RatioTypeOK /\ RatioTyped
      /\ failed \in Counts /\ pending \in Counts /\ tried \in Counts /\ fails \in Counts
  BY RatioTypes DEF RatioIInv, RatioTypeOK
<1>1. /\ UNCHANGED <<older, last, windowAttempted, windowFailed, verdict, judgedAtts, judged, inFlight, restarts>>
      /\ (attempted' = attempted /\ atts' = atts) \/ (attempted' = attempted + 1 /\ atts' = atts + 1)
  BY DEF Attempt, Fail, Succeed, window, record, since0
<1>2. /\ failed' \in {failed, Plus(failed, c)} /\ fails' \in {fails, Plus(fails, c)}
      /\ tried' \in {tried, Plus(tried, c)}
      /\ pending' = Plus(pending, c) \/ (pending[c] > 0 /\ pending' = Minus(pending, c))
  BY DEF Attempt, Fail, Succeed, record, since0
<1>3. failed' \in Counts /\ fails' \in Counts /\ tried' \in Counts /\ pending' \in Counts
  BY <1>t, <1>2 DEF Counts
<1>4. RatioTypeOK'
  BY <1>t, <1>1, <1>3 DEF RatioTypeOK
<1>5. RatioTyped'
  BY <1>4, RatioTypes, PTL
<1>6. ASSUME NEW d \in Cause
      PROVE  /\ Real(d)' - Real(d) >= 0 /\ Told'[d] - Told[d] <= Real(d)' - Real(d)
             /\ ~older => Told'[d] - Told[d] = fails'[d] - fails[d] /\ Told'[d] >= Told[d]
             /\ older => Told'[d] - Told[d] = fails'[d] + pending'[d] - fails[d] - pending[d]
  <2>1. /\ Told[d] = IF older THEN failed[d] + pending[d] ELSE failed[d]
        /\ failed[d] \in Nat /\ pending[d] \in Nat /\ tried[d] \in Nat /\ fails[d] \in Nat
    BY <1>t DEF RatioTyped
  <2>2. Told'[d] = IF older THEN failed'[d] + pending'[d] ELSE failed'[d]
    BY <1>1, <1>5 DEF RatioTyped
  <2>3. Real(d) = (IF older THEN tried[d] ELSE fails[d]) /\ Real(d)' = (IF older THEN tried'[d] ELSE fails'[d])
    BY <1>1 DEF Real
  <2>4. CASE Attempt(c)
    <3>1. /\ failed'[d] = failed[d] /\ fails'[d] = fails[d]
          /\ pending'[d] = (IF d = c THEN pending[d] + 1 ELSE pending[d])
          /\ tried'[d] = (IF d = c THEN tried[d] + 1 ELSE tried[d])
      BY <1>t, <2>4 DEF Attempt, Counts
    <3> QED
      BY <2>1, <2>2, <2>3, <3>1
  <2>5. CASE Fail(c)
    <3>1. /\ failed'[d] = (IF d = c THEN failed[d] + 1 ELSE failed[d])
          /\ fails'[d] = (IF d = c THEN fails[d] + 1 ELSE fails[d])
          /\ pending'[d] = (IF d = c THEN pending[d] - 1 ELSE pending[d])
          /\ tried'[d] = tried[d]
      BY <1>t, <2>5 DEF Fail, Counts
    <3> QED
      BY <2>1, <2>2, <2>3, <3>1
  <2>6. CASE Succeed(c)
    <3>1. /\ failed'[d] = failed[d] /\ fails'[d] = fails[d] /\ older
          /\ pending'[d] = (IF d = c THEN pending[d] - 1 ELSE pending[d])
          /\ tried'[d] = tried[d]
      BY <1>t, <2>6 DEF Succeed, record, since0, Counts
    <3> QED
      BY <2>1, <2>2, <2>3, <3>1
  <2> QED
    BY <2>4, <2>5, <2>6
<1> QED
  BY <1>1, <1>4, <1>6

LEMMA RatioInvStep == RatioIInv /\ [RatioNext]_ratioVars => RatioIInv'
<1> SUFFICES ASSUME RatioIInv, [RatioNext]_ratioVars PROVE RatioIInv'
  OBVIOUS
<1>t. /\ attempted \in Nat /\ failed \in Counts /\ pending \in Counts /\ Told \in Counts
      /\ last \in [attempted : Nat, failed : Counts] \cup {NoBaseline}
      /\ windowAttempted \in Nat /\ windowFailed \in Counts
      /\ atts \in Nat /\ fails \in Counts /\ judgedAtts \in Nat /\ judged \in Counts
      /\ restarts \in Nat /\ older \in BOOLEAN
      /\ RatioTypeOK /\ RatioTyped
  BY RatioTypes DEF RatioIInv, RatioTypeOK
<1>0. CASE UNCHANGED ratioVars
  BY <1>0 DEF ratioVars, gnb, window, record, since0, RatioIInv, RatioTypeOK, Ledger, Real, Told,
               LostReportsLoseNothing
<1>1. ASSUME NEW c \in Cause, Attempt(c) \/ Fail(c) \/ Succeed(c) PROVE RatioIInv'
  <2>1. /\ UNCHANGED <<older, last, windowAttempted, windowFailed, judgedAtts, judged, inFlight, restarts>>
        /\ RatioTypeOK'
        /\ (attempted' = attempted /\ atts' = atts) \/ (attempted' = attempted + 1 /\ atts' = atts + 1)
    BY <1>1, Counting
  <2>2. \A d \in Cause :
          /\ Real(d)' - Real(d) >= 0 /\ Told'[d] - Told[d] <= Real(d)' - Real(d)
          /\ ~older => Told'[d] - Told[d] = fails'[d] - fails[d] /\ Told'[d] >= Told[d]
          /\ older => Told'[d] - Told[d] = fails'[d] + pending'[d] - fails[d] - pending[d]
    BY <1>1, Counting
  <2>3. RatioTyped'
    BY <2>1, RatioTypes, PTL
  <2>4. CASE last = NoBaseline
    BY <2>1, <2>4 DEF RatioIInv, Ledger, LostReportsLoseNothing
  <2>5. CASE last # NoBaseline
    <3>1. last.attempted \in Nat /\ last.failed \in Counts
      BY <1>t, <2>5, Baselines
    <3>2. judgedAtts' + windowAttempted' + Rise(attempted', last'.attempted) <= atts'
      BY <1>t, <2>1, <2>5, <3>1 DEF RatioIInv, Ledger, Rise
    <3>3. ASSUME NEW d \in Cause
          PROVE  judged'[d] + windowFailed'[d] + Rise(Told'[d], last'.failed[d]) <= Real(d)'
      <4>1. judged[d] + windowFailed[d] + Rise(Told[d], last.failed[d]) <= Real(d)
        BY <2>5 DEF RatioIInv, Ledger
      <4>2. /\ Told[d] \in Nat /\ Told'[d] \in Nat /\ Real(d) \in Nat /\ Real(d)' \in Nat
            /\ judged[d] \in Nat /\ windowFailed[d] \in Nat /\ last.failed[d] \in Nat
        BY <1>t, <2>3, <3>1 DEF RatioTyped, Counts
      <4>3. Rise(Told'[d], last.failed[d]) <= Rise(Told[d], last.failed[d]) + (Real(d)' - Real(d))
        BY <2>2, <4>2 DEF Rise
      <4>4. Rise(Told[d], last.failed[d]) \in Nat /\ Rise(Told'[d], last.failed[d]) \in Nat
        BY <4>2 DEF Rise
      <4> QED
        BY <2>1, <4>1, <4>2, <4>3, <4>4
    <3>4. restarts' = 0 => last'.attempted <= attempted'
      BY <1>t, <2>1, <2>5, <3>1 DEF RatioIInv, Ledger
    <3>5. ASSUME restarts' = 0, ~older', NEW d \in Cause PROVE last'.failed[d] <= Told'[d]
      <4>1. last.failed[d] <= Told[d] /\ Told[d] <= Told'[d]
        BY <2>1, <2>2, <2>5, <3>5 DEF RatioIInv, Ledger
      <4>2. last.failed[d] \in Nat /\ Told[d] \in Nat /\ Told'[d] \in Nat
        BY <1>t, <2>3, <3>1 DEF RatioTyped, Counts
      <4> QED
        BY <2>1, <4>1, <4>2
    <3>6. Ledger'
      BY <3>2, <3>3, <3>4, <3>5 DEF Ledger
    <3>7. ASSUME restarts' = 0 PROVE judgedAtts' + windowAttempted' + (attempted' - last'.attempted) = atts'
      BY <1>t, <2>1, <2>5, <3>1, <3>7 DEF RatioIInv, LostReportsLoseNothing
    <3>8. ASSUME restarts' = 0, NEW d \in Cause
          PROVE  LET seen == judged'[d] + windowFailed'[d] + (Told'[d] - last'.failed[d])
                 IN IF older' THEN seen >= fails'[d] + pending'[d] - inFlight'[d] ELSE seen = fails'[d]
      <4>1. /\ older => judged[d] + windowFailed[d] + (Told[d] - last.failed[d])
                        >= fails[d] + pending[d] - inFlight[d]
            /\ ~older => judged[d] + windowFailed[d] + (Told[d] - last.failed[d]) = fails[d]
        BY <2>1, <2>5, <3>8 DEF RatioIInv, LostReportsLoseNothing
      <4>2. /\ Told[d] \in Nat /\ Told'[d] \in Nat /\ fails[d] \in Nat /\ fails'[d] \in Nat
            /\ pending[d] \in Nat /\ pending'[d] \in Nat /\ inFlight[d] \in Nat
            /\ judged[d] \in Nat /\ windowFailed[d] \in Nat /\ last.failed[d] \in Nat
        BY <1>t, <2>3, <3>1 DEF RatioTyped, Counts
      <4> QED
        BY <2>1, <2>2, <4>1, <4>2
    <3>9. LostReportsLoseNothing'
      BY <3>7, <3>8 DEF LostReportsLoseNothing
    <3> QED
      BY <2>1, <3>6, <3>9 DEF RatioIInv
  <2> QED
    BY <2>4, <2>5
<1>3. CASE Restart
  <2>1. /\ attempted' = 0 /\ failed' = Nothing /\ pending' = Nothing /\ restarts' = restarts + 1
        /\ UNCHANGED <<older, last, windowAttempted, windowFailed, verdict, atts, tried, fails, inFlight,
                       judgedAtts, judged>>
    BY <1>3 DEF Restart, window
  <2>2. Nothing \in Counts
    BY DEF Nothing, Counts
  <2>3. RatioTypeOK'
    BY <1>t, <2>1, <2>2 DEF RatioTypeOK
  <2>4. \A d \in Cause : Told'[d] = 0 /\ Real(d)' = Real(d)
    BY <1>t, <2>1 DEF Told, Real, Nothing
  <2>5. ASSUME last # NoBaseline
        PROVE /\ Rise(attempted', last.attempted) <= Rise(attempted, last.attempted)
              /\ Rise(attempted, last.attempted) \in Nat /\ Rise(attempted', last.attempted) \in Nat
    BY <1>t, <2>1, <2>5, Baselines DEF Rise
  <2>6. ASSUME last # NoBaseline, NEW d \in Cause
        PROVE judged'[d] + windowFailed'[d] + Rise(Told'[d], last'.failed[d]) <= Real(d)'
    <3>1. /\ last.failed[d] \in Nat /\ Told[d] \in Nat
          /\ judged[d] \in Nat /\ windowFailed[d] \in Nat /\ Real(d) \in Nat
      BY <1>t, <2>6, Baselines DEF RatioTyped, Counts
    <3>2. judged[d] + windowFailed[d] + Rise(Told[d], last.failed[d]) <= Real(d)
      BY <2>6 DEF RatioIInv, Ledger
    <3>3. Rise(Told'[d], last.failed[d]) = 0 /\ Rise(Told[d], last.failed[d]) \in Nat
      BY <2>4, <3>1 DEF Rise
    <3> QED
      BY <2>1, <2>4, <3>1, <3>2, <3>3
  <2>7. Ledger'
    BY <1>t, <2>1, <2>5, <2>6 DEF Ledger, RatioIInv
  <2>8. LostReportsLoseNothing'
    BY <1>t, <2>1 DEF LostReportsLoseNothing
  <2> QED
    BY <2>3, <2>7, <2>8 DEF RatioIInv
<1>4. CASE Baseline
  <2>1. /\ last' = [attempted |-> attempted, failed |-> Told]
        /\ windowAttempted' = 0 /\ windowFailed' = Nothing
        /\ atts' = 0 /\ tried' = Nothing /\ fails' = Nothing /\ inFlight' = pending
        /\ judgedAtts' = 0 /\ judged' = Nothing
        /\ restarts' = 0 /\ UNCHANGED <<older, attempted, failed, pending, verdict>>
    BY <1>4 DEF Baseline, gnb
  <2>2. Nothing \in Counts /\ \A c \in Cause : Nothing[c] = 0
    BY DEF Nothing, Counts
  <2>3. RatioTypeOK'
    BY <1>t, <2>1, <2>2 DEF RatioTypeOK
  <2>4. Told' = Told /\ \A c \in Cause : Real(c)' = 0
    BY <2>1, <2>2 DEF Told, Real
  <2>5. /\ last'.attempted = attempted /\ Rise(attempted, attempted) = 0
        /\ \A c \in Cause : /\ last'.failed[c] = Told[c] /\ Told[c] \in Nat /\ pending[c] \in Nat
                            /\ Rise(Told[c], Told[c]) = 0
    BY <1>t, <2>1 DEF RatioTyped, Rise
  <2>6. Ledger'
    BY <1>t, <2>1, <2>2, <2>4, <2>5 DEF Ledger
  <2>7. LostReportsLoseNothing'
    BY <1>t, <2>1, <2>2, <2>4, <2>5 DEF LostReportsLoseNothing
  <2> QED
    BY <2>3, <2>6, <2>7 DEF RatioIInv
<1>5. CASE Gather
  <2> DEFINE n == windowAttempted + attempted - last.attempted
             f == [c \in Cause |-> windowFailed[c] + Rise(Told[c], last.failed[c])]
  <2>1. /\ last # NoBaseline /\ attempted >= last.attempted /\ Judge(n, f)
        /\ last' = [attempted |-> attempted, failed |-> Told]
        /\ UNCHANGED <<older, attempted, failed, pending, atts, tried, fails, inFlight, restarts>>
    BY <1>5 DEF Gather, gnb, since0
  <2>2. last.attempted \in Nat /\ last.failed \in Counts
    BY <1>t, <2>1, Baselines
  <2>3. \A c \in Cause : /\ Rise(Told[c], last.failed[c]) \in Nat /\ windowFailed[c] \in Nat
                        /\ Told[c] \in Nat /\ last.failed[c] \in Nat
    BY <1>t, <2>2 DEF Counts, Rise
  <2>4. n \in Nat /\ f \in Counts
    BY <1>t, <2>1, <2>2, <2>3 DEF Counts
  <2>5. n = windowAttempted + Rise(attempted, last.attempted)
        /\ \A c \in Cause : f[c] = windowFailed[c] + Rise(Told[c], last.failed[c])
    BY <1>t, <2>1, <2>2 DEF Rise
  <2> HIDE DEF n, f
  <2>6. /\ windowAttempted' \in 0 .. (IF MinAttempts > 1 THEN MinAttempts ELSE 1) - 1
        /\ windowFailed' \in Counts /\ verdict' \in {0, 3, 4}
        /\ judgedAtts' \in Nat /\ judged' \in Counts
        /\ judgedAtts' + windowAttempted' = judgedAtts + n
        /\ \A c \in Cause : judged'[c] + windowFailed'[c] = judged[c] + f[c]
    BY <1>t, <2>1, <2>4, JudgeTypes
  <2>7. RatioTypeOK'
    BY <1>t, <2>1, <2>6 DEF RatioTypeOK
  <2>t. Told' = Told /\ \A c \in Cause : Real(c)' = Real(c) /\ Real(c) \in Nat
    BY <1>t, <2>1 DEF Told, Real, RatioTyped
  <2>8. /\ last' # NoBaseline /\ last'.attempted = attempted /\ last'.failed = Told
        /\ Rise(attempted, attempted) = 0
        /\ \A c \in Cause : Rise(Told[c], Told[c]) = 0
    BY <1>t, <2>1, <2>3 DEF NoBaseline, Rise
  <2>9. windowAttempted' \in Nat /\ \A c \in Cause : judged'[c] \in Nat /\ windowFailed'[c] \in Nat
    BY <2>6 DEF Counts
  <2>10. Ledger'
    <3>1. judgedAtts' + windowAttempted' + Rise(attempted', last'.attempted) <= atts'
      <4>1. judgedAtts + windowAttempted + Rise(attempted, last.attempted) <= atts
        BY <2>1 DEF Ledger, RatioIInv
      <4>2. Rise(attempted, last.attempted) \in Nat
        BY <1>t, <2>2 DEF Rise
      <4>3. judgedAtts + n <= atts
        BY <1>t, <2>5, <4>1, <4>2
      <4> QED
        BY <2>1, <2>6, <2>8, <2>9, <4>3
    <3>2. ASSUME NEW c \in Cause
          PROVE judged'[c] + windowFailed'[c] + Rise(Told'[c], last'.failed[c]) <= Real(c)'
      <4>1. judged[c] + (windowFailed[c] + Rise(Told[c], last.failed[c])) <= Real(c)
        BY <1>t, <2>1, <2>3 DEF Ledger, RatioIInv, RatioTyped
      <4> QED
        BY <2>1, <2>5, <2>6, <2>8, <2>9, <2>t, <4>1
    <3> QED
      BY <1>t, <2>1, <2>3, <2>8, <2>t, <3>1, <3>2 DEF Ledger
  <2>11. LostReportsLoseNothing'
    <3> SUFFICES ASSUME restarts = 0 PROVE LostReportsLoseNothing'
      BY <2>1 DEF LostReportsLoseNothing
    <3>1. judgedAtts + n = atts
      BY <1>t, <2>1, <2>2 DEF LostReportsLoseNothing, RatioIInv, n
    <3>2. ASSUME NEW c \in Cause
          PROVE  IF older THEN judged[c] + f[c] >= fails[c] + pending[c] - inFlight[c]
                          ELSE judged[c] + f[c] = fails[c]
      <4>1. /\ ~older => last.failed[c] <= Told[c]
            /\ older => judged[c] + windowFailed[c] + (Told[c] - last.failed[c])
                        >= fails[c] + pending[c] - inFlight[c]
            /\ ~older => judged[c] + windowFailed[c] + (Told[c] - last.failed[c]) = fails[c]
        BY <2>1 DEF LostReportsLoseNothing, Ledger, RatioIInv
      <4>2. /\ judged[c] \in Nat /\ fails[c] \in Nat /\ pending[c] \in Nat /\ inFlight[c] \in Nat
            /\ Told[c] \in Nat /\ last.failed[c] \in Nat /\ windowFailed[c] \in Nat
        BY <1>t, <2>3 DEF RatioTyped
      <4>3. /\ Rise(Told[c], last.failed[c]) >= Told[c] - last.failed[c]
            /\ last.failed[c] <= Told[c] => Rise(Told[c], last.failed[c]) = Told[c] - last.failed[c]
            /\ Rise(Told[c], last.failed[c]) \in Nat
        BY <4>2 DEF Rise
      <4>4. f[c] = windowFailed[c] + Rise(Told[c], last.failed[c])
        BY <2>5
      <4> QED
        BY <4>1, <4>2, <4>3, <4>4
    <3>3. judgedAtts' + windowAttempted' + (attempted' - last'.attempted) = atts'
      BY <1>t, <2>1, <2>6, <2>8, <2>9, <3>1
    <3>4. ASSUME NEW c \in Cause
          PROVE LET seen == judged'[c] + windowFailed'[c] + (Told'[c] - last'.failed[c])
                IN IF older' THEN seen >= fails'[c] + pending'[c] - inFlight'[c] ELSE seen = fails'[c]
      <4>1. judged'[c] + windowFailed'[c] + (Told'[c] - last'.failed[c]) = judged[c] + f[c]
        BY <2>3, <2>6, <2>8, <2>9, <2>t
      <4> QED
        BY <2>1, <3>2, <4>1
    <3> QED
      BY <3>3, <3>4 DEF LostReportsLoseNothing
  <2> QED
    BY <2>7, <2>10, <2>11 DEF RatioIInv
<1> QED
  BY <1>0, <1>1, <1>3, <1>4, <1>5 DEF RatioNext

LEMMA RatioInvariance == RatioSpec => []RatioIInv
  BY RatioInvInit, RatioInvStep, PTL DEF RatioSpec

\* What a report can still add is never negative.
LEMMA LedgerBounds == RatioIInv => NoPhantomFailures
<1> SUFFICES ASSUME RatioIInv, last # NoBaseline
             PROVE  /\ judgedAtts + windowAttempted <= atts
                    /\ \A c \in Cause : judged[c] + windowFailed[c] <= Real(c)
  BY DEF NoPhantomFailures, Real
<1>1. RatioTyped /\ last.attempted \in Nat /\ last.failed \in Counts
  BY Baselines, RatioTypes DEF RatioIInv
<1>2. judgedAtts + windowAttempted + Rise(attempted, last.attempted) <= atts
      /\ Rise(attempted, last.attempted) \in Nat
  BY <1>1 DEF RatioIInv, Ledger, Rise, RatioTyped
<1>3. ASSUME NEW c \in Cause PROVE judged[c] + windowFailed[c] <= Real(c)
  <2>1. /\ Told[c] \in Nat /\ last.failed[c] \in Nat /\ judged[c] \in Nat
        /\ windowFailed[c] \in Nat /\ Real(c) \in Nat
    BY <1>1 DEF Counts, RatioTyped
  <2>2. Rise(Told[c], last.failed[c]) \in Nat
    BY <2>1 DEF Rise
  <2>3. judged[c] + windowFailed[c] + Rise(Told[c], last.failed[c]) <= Real(c)
    BY DEF RatioIInv, Ledger
  <2> QED
    BY <2>1, <2>2, <2>3
<1>4. judgedAtts + windowAttempted <= atts
  BY <1>1, <1>2 DEF RatioTyped
<1> QED
  BY <1>3, <1>4

-----------------------------------------------------------------------------
(* The composition *)

\* The ratio goes its own way, whatever the monitor and the other sources do.
LEMMA RatioOfAlarm == AlarmSpec => RatioSpec
<1>1. AlarmInit => RatioInit
  BY DEF AlarmInit
<1>2. [AlarmNext]_alarmVars => [RatioNext]_ratioVars
  BY DEF AlarmNext, alarmVars, Gnb, Other, RatioNext
<1> QED
  BY <1>1, <1>2, PTL DEF AlarmSpec, RatioSpec

\* What a window is judged is a severity the monitor knows, so every step is a
\* report of one source to the monitor, or none.
LEMMA MonitorOfAlarm == AlarmSpec => Spec
<1>1. AlarmInit => Init
  BY DEF AlarmInit
<1>2. RatioIInv' /\ [AlarmNext]_alarmVars => [Next]_vars
  <2> SUFFICES ASSUME RatioIInv', [AlarmNext]_alarmVars PROVE [Next]_vars
    OBVIOUS
  <2>1. verdict' \in Severity
    BY FailureAlarmAssumption DEF RatioIInv, RatioTypeOK
  <2>2. CASE UNCHANGED alarmVars
    BY <2>2 DEF alarmVars
  <2>3. CASE (Gnb \/ Baseline) /\ UNCHANGED vars
    BY <2>3
  <2>4. CASE Gather /\ Feed
    BY <2>1, <2>4, FailureAlarmAssumption DEF Feed, Next
  <2>5. ASSUME NEW s \in Source \ {Ratio}, NEW r \in Severity, Other(s, r) PROVE [Next]_vars
    BY <2>5 DEF Other, Next
  <2> QED
    BY <2>2, <2>3, <2>4, <2>5 DEF AlarmNext
<1> QED
  BY <1>1, <1>2, RatioOfAlarm, RatioInvariance, PTL DEF AlarmSpec, Spec

\* The counters, the window and the verdicts keep their types, and no window
\* that is full stays unjudged.
THEOREM RatioTypeCorrect == AlarmSpec => []RatioTypeOK
  BY RatioOfAlarm, RatioInvariance, PTL DEF RatioIInv

\* No failure is judged that did not happen, and none twice, with any number
\* of causes, lost reports and unnoticed restarts; of an older gNB, no attempt
\* twice and none made before the baseline.
THEOREM FailuresCorrect == AlarmSpec => []NoPhantomFailures
  BY RatioOfAlarm, RatioInvariance, LedgerBounds, PTL

\* As long as the gNB does not restart, lost reports lose nothing; of an older
\* gNB's failures no more than it had attempts in flight at the baseline.
THEOREM LossesCorrect == AlarmSpec => []LostReportsLoseNothing
  BY RatioOfAlarm, RatioInvariance, PTL DEF RatioIInv

\* Fed with judged windows, the alarm is still the worst of its debounced
\* conditions.
THEOREM ComposedAlarmCorrect == AlarmSpec => []AlarmIsWorst
  BY MonitorOfAlarm, AlarmCorrect, PTL

\* Fed with judged windows, the conditions are still debounced as the reports
\* themselves define it.
THEOREM ComposedDebounceCorrect == AlarmSpec => ImplementsDebounce
  BY MonitorOfAlarm, DebounceCorrect, PTL
=============================================================================
