-------------------------- MODULE Scheduling_proofs --------------------------
(***************************************************************************)
(* Rescheduling, and the check for cycles from the search it runs to the   *)
(* table it guards.                                                        *)
(*                                                                         *)
(* For every set of tasks, every dates and every set of dependencies:      *)
(* Normalize takes exactly the tasks that are neither on a cycle nor       *)
(* behind one, only moves them later and as a whole, leaves every          *)
(* dependency among them satisfied, and moves none further than that asks. *)
(*                                                                         *)
(* The depth-first search of schedule.Reaches answers, for every set of    *)
(* tasks and every finite set of dependencies, whether the target is in    *)
(* every set that contains its start and the successors of its members.    *)
(*                                                                         *)
(* The two loops of Normalize return what the function Normalize is.       *)
(*                                                                         *)
(* For every set of tasks and of handlers and every number of requests:    *)
(* the tables keep their constraints, and the dependency graph has a cycle *)
(* only after a dependency was inserted on a stale check; a reschedule     *)
(* that nobody else's writes overlap moves tasks only later, as a whole,   *)
(* and leaves the whole schedule valid.                                    *)
(***************************************************************************)
EXTENDS Scheduling, NormalizeLoop, ReachesLoop, FiniteSetTheorems, SequenceTheorems, TLAPS

-----------------------------------------------------------------------------
(* What Normalize computes.                                                *)

(* What moving a dated row by whole days does to its two ends.             *)
LEMMA ShiftedRow ==
  ASSUME NEW r \in Row, HasDates(r), NEW k \in Nat, NEW d \in Dep
  PROVE  /\ r.start \in Int /\ r.due \in Int
         /\ Shifted(r, k) \in Row /\ HasDates(Shifted(r, k))
         /\ Anchor(d, r) \in Int /\ Bound(d, r) \in Int
         /\ Anchor(d, Shifted(r, k)) = Anchor(d, r) + k
<1>1. r.start \in Int /\ r.due \in Int
  BY DEF Row, Date, HasDates
<1>2. r.start + k # NoDate /\ r.due + k # NoDate
  BY <1>1, ScheduleAssumption
<1> QED
  BY <1>1, <1>2 DEF Row, Date, HasDates, Shifted, Anchor, Bound

(* The need of a dependency is a natural number; when Time.Sub does not    *)
(* saturate, moving the successor by it or by more satisfies the           *)
(* dependency, and a positive need is the exact gap.                       *)
LEMMA NeedFacts ==
  ASSUME NEW p \in Row, HasDates(p), NEW t \in Row, HasDates(t), NEW d \in Dep
  PROVE  /\ Need(d, p, t) \in Nat
         /\ Bound(d, p) - Anchor(d, t) <= MaxSpan =>
              /\ \A k \in Nat : k >= Need(d, p, t) => Satisfied(d, p, Shifted(t, k))
              /\ Need(d, p, t) > 0 => Need(d, p, t) = Bound(d, p) - Anchor(d, t)
<1>1. /\ Anchor(d, t) \in Int /\ Bound(d, p) \in Int
      /\ \A k \in Nat : Anchor(d, Shifted(t, k)) = Anchor(d, t) + k
  BY ShiftedRow
<1> QED
  BY <1>1, ScheduleAssumption DEF Need, Satisfied, Sub

(***************************************************************************)
(* The rounds of Normalize are a recursive function, which has to be shown *)
(* to exist; induction on their number is over sets of numbers.            *)
(***************************************************************************)

(* A set of natural numbers that is not empty has a least member: of the   *)
(* intervals below its members, which inclusion orders, one is minimal.    *)
LEMMA LeastMember ==
  ASSUME NEW S \in SUBSET Nat, S # {}
  PROVE  \E m \in S : \A x \in S : m <= x
<1> DEFINE below(n) == 0 .. n - 1
           B == {below(n) : n \in S}
<1>1. \A n \in Nat : below(n) \subseteq Nat /\ IsFiniteSet(below(n))
  BY FS_Interval
<1>2. B \subseteq FiniteSubsetsOf(Nat) /\ B # {}
  BY <1>1 DEF FiniteSubsetsOf
<1>3. PICK X \in B : \A Y \in B : <<Y, X>> \notin StrictSubsetOrdering(Nat)
  BY <1>2, FS_StrictSubsetOrderingWellFounded, WFMin
<1>4. PICK m \in S : X = below(m)
  OBVIOUS
<1>5. ASSUME NEW n \in S, n < m
      PROVE  FALSE
  <2>1. below(n) \subseteq below(m) /\ n \in below(m) /\ n \notin below(n)
    BY <1>5
  <2>2. <<below(n), below(m)>> \in StrictSubsetOrdering(Nat)
    BY <2>1, <1>1 DEF StrictSubsetOrdering
  <2> QED
    BY <2>2, <1>3, <1>4
<1> QED
  BY <1>5

LEMMA SetInduction ==
  ASSUME NEW S, 0 \in S, \A n \in Nat : n \in S => n + 1 \in S
  PROVE  \A n \in Nat : n \in S
<1> SUFFICES ASSUME Nat \ S # {} PROVE FALSE
  OBVIOUS
<1>1. PICK m \in Nat \ S : \A x \in Nat \ S : m <= x
  BY LeastMember
<1>2. m - 1 \in Nat /\ m - 1 < m
  BY <1>1
<1>3. m - 1 \in S
  BY <1>1, <1>2
<1> QED
  BY <1>2, <1>3, <1>1

(* A bounded set of natural numbers has a maximum.                         *)
LEMMA GreatestMember ==
  ASSUME NEW K \in Nat, NEW S \in SUBSET (0 .. K), S # {}
  PROVE  Max(S) \in S /\ \A x \in S : x <= Max(S)
<1>1. {K - x : x \in S} \in SUBSET Nat /\ {K - x : x \in S} # {}
  <2>1. \A x \in S : K - x \in Nat
    OBVIOUS
  <2> QED
    BY <2>1
<1>2. PICK m \in {K - x : x \in S} : \A y \in {K - x : x \in S} : m <= y
  BY <1>1, LeastMember
<1>3. PICK g \in S : m = K - g
  BY <1>2
<1>4. ASSUME NEW x \in S
      PROVE  x <= g
  <2>1. m <= K - x
    BY <1>2
  <2> QED
    BY <2>1, <1>3
<1>5. \A x \in S : g >= x
  BY <1>4
<1> QED
  BY <1>5 DEF Max

(* The sequence of what a function makes of A, and makes of that again: it *)
(* exists, since its beginnings do, and agree.                             *)
Iterates(F, D, A, G) ==
  F \in [Nat -> D] /\ F[0] = A /\ \A n \in Nat : F[n + 1] = G[F[n]]

LEMMA IterationExists ==
  ASSUME NEW D, NEW A, A \in D, NEW G, G \in [D -> D]
  PROVE  \E F : Iterates(F, D, A, G)
<1> DEFINE Begins(g, n) == g \in [0 .. n -> D] /\ g[0] = A /\ \A i \in 0 .. n - 1 : g[i + 1] = G[g[i]]
           S == {n \in Nat : \E g : Begins(g, n)}
<1>1. \A n \in Nat : \E g : Begins(g, n)
  <2>1. 0 \in S
    <3>1. Begins([i \in 0 .. 0 |-> A], 0)
      OBVIOUS
    <3> QED
      BY <3>1
  <2>2. ASSUME NEW n \in Nat, n \in S
        PROVE  n + 1 \in S
    <3>1. PICK g : Begins(g, n)
      BY <2>2
    <3> DEFINE h == [i \in 0 .. n + 1 |-> IF i = n + 1 THEN G[g[n]] ELSE g[i]]
    <3>2. g[n] \in D /\ \A i \in 0 .. n : h[i] = g[i]
      BY <3>1
    <3>3. h \in [0 .. n + 1 -> D]
      BY <3>1, <3>2
    <3>4. \A i \in 0 .. n : h[i + 1] = G[h[i]]
      BY <3>1, <3>2
    <3>5. h[0] = A /\ n + 1 - 1 = n
      BY <3>1, <3>2
    <3>6. Begins(h, n + 1)
      <4> HIDE DEF h
      <4> QED
        BY <3>3, <3>4, <3>5
    <3> HIDE DEF Begins, h
    <3> QED
      BY <3>6
  <2>3. \A n \in Nat : n \in S
    <3> HIDE DEF S
    <3> QED
      BY <2>1, <2>2, SetInduction
  <2> QED
    BY <2>3
<1>2. ASSUME NEW n \in Nat, NEW m \in Nat, n <= m, NEW g, Begins(g, n), NEW h, Begins(h, m)
      PROVE  \A i \in 0 .. n : g[i] = h[i]
  <2> DEFINE U == {i \in Nat : i <= n => g[i] = h[i]}
  <2>1. 0 \in U
    BY <1>2
  <2>2. \A i \in Nat : i \in U => i + 1 \in U
    BY <1>2
  <2>3. \A i \in Nat : i \in U
    <3> HIDE DEF U
    <3> QED
      BY <2>1, <2>2, SetInduction
  <2> QED
    BY <2>3
<1> DEFINE f(n) == CHOOSE g : Begins(g, n)
           F == [n \in Nat |-> f(n)[n]]
<1>3. \A n \in Nat : Begins(f(n), n)
  BY <1>1
<1> HIDE DEF f
<1>4. F \in [Nat -> D] /\ F[0] = A
  BY <1>3
<1>5. ASSUME NEW n \in Nat
      PROVE  F[n + 1] = G[F[n]]
  <2>1. Begins(f(n), n) /\ Begins(f(n + 1), n + 1)
    <3> HIDE DEF Begins
    <3> QED
      BY <1>3
  <2>2. f(n)[n] = f(n + 1)[n]
    <3>1. n + 1 \in Nat /\ n <= n + 1 /\ n \in 0 .. n
      OBVIOUS
    <3> HIDE DEF Begins
    <3> QED
      BY <2>1, <1>2, <3>1
  <2>3. f(n + 1)[n + 1] = G[f(n + 1)[n]]
    BY <2>1
  <2> QED
    BY <2>2, <2>3
<1> QED
  BY <1>4, <1>5 DEF Iterates

(* The tasks T, their rows, and dependencies E among them.                 *)
Among(E, T) == E \in SUBSET Dep /\ \A d \in E : d.pred \in T /\ d.succ \in T

LEMMA PushFacts ==
  ASSUME NEW T, NEW c \in [T -> Row], NEW E, Among(E, T), NEW t \in T
  PROVE  /\ Push(t, c, E) \in Row
         /\ ~HasDates(c[t]) => Push(t, c, E) = c[t]
         /\ HasDates(c[t]) => \E k \in 0 .. MaxSpan :
              /\ Push(t, c, E) = Shifted(c[t], k)
              /\ k \in {0} \cup Needs(t, c, E) /\ \A x \in Needs(t, c, E) : x <= k
<1>1. CASE HasDates(c[t])
  <2>1. Needs(t, c, E) \subseteq 0 .. MaxSpan
    <3> SUFFICES ASSUME NEW d \in Incoming(E, t), HasDates(c[d.pred])
                 PROVE  Need(d, c[d.pred], c[t]) \in 0 .. MaxSpan
      BY DEF Needs
    <3>1. d \in Dep /\ c[d.pred] \in Row /\ c[t] \in Row
      BY DEF Incoming, Among
    <3>2. Need(d, c[d.pred], c[t]) \in Nat
      BY <1>1, <3>1, NeedFacts
    <3>3. Bound(d, c[d.pred]) \in Int /\ Anchor(d, c[t]) \in Int
      BY <1>1, <3>1, ShiftedRow
    <3> QED
      BY <3>2, <3>3, ScheduleAssumption DEF Need, Sub
  <2>2. {0} \cup Needs(t, c, E) \in SUBSET (0 .. MaxSpan) /\ {0} \cup Needs(t, c, E) # {} /\ MaxSpan \in Nat
    BY <2>1, ScheduleAssumption
  <2> DEFINE k == Max({0} \cup Needs(t, c, E))
  <2>3. k \in {0} \cup Needs(t, c, E) /\ \A x \in {0} \cup Needs(t, c, E) : x <= k
    BY <2>2, GreatestMember
  <2>4. k \in 0 .. MaxSpan /\ Push(t, c, E) = Shifted(c[t], k)
    BY <2>2, <2>3, <1>1 DEF Push
  <2>5. Shifted(c[t], k) \in Row
    BY <2>4, <1>1, ScheduleAssumption DEF Row, Date, HasDates, Shifted
  <2> HIDE DEF k
  <2> QED
    BY <2>3, <2>4, <2>5, <1>1
<1>2. CASE ~HasDates(c[t])
  BY <1>2 DEF Push
<1> QED
  BY <1>1, <1>2

(* A push reads the row of its task and those of its predecessors.         *)
LEMMA PushReads ==
  ASSUME NEW E, NEW t, NEW a, NEW b, a[t] = b[t], \A d \in Incoming(E, t) : a[d.pred] = b[d.pred]
  PROVE  Push(t, a, E) = Push(t, b, E)
<1>1. Needs(t, a, E) = Needs(t, b, E)
  BY DEF Needs
<1> QED
  BY <1>1 DEF Push

(* The rounds are what their recursive definition says.                    *)
LEMMA RoundsAre ==
  ASSUME NEW T, NEW old \in [T -> Row], NEW E, Among(E, T)
  PROVE  LET R == Rounds(old, T, E)
         IN  /\ R[0] = [taken |-> {}, cur |-> old]
             /\ \A n \in Nat : /\ R[n] \in [taken : SUBSET T, cur : [T -> Row]]
                               /\ R[n + 1] = Round(R[n], T, E)
<1> DEFINE D == [taken : SUBSET T, cur : [T -> Row]]
           A == [taken |-> {}, cur |-> old]
           G == [p \in D |-> Round(p, T, E)]
           R == Rounds(old, T, E)
<1>1. ASSUME NEW p \in D
      PROVE  Round(p, T, E) \in D
  <2>1. p.taken \cup Takeable(p.taken, T, E) \in SUBSET T
    BY DEF Takeable
  <2>2. \A t \in T : Push(t, p.cur, E) \in Row /\ p.cur[t] \in Row
    BY PushFacts
  <2> QED
    BY <2>1, <2>2 DEF Round
<1>2. A \in D /\ G \in [D -> D]
  BY <1>1
<1>3. PICK F : Iterates(F, D, A, G)
  <2> HIDE DEF A, D, G
  <2> QED
    BY <1>2, IterationExists
<1> USE DEF Iterates
<1>4. F = [n \in Nat |-> IF n = 0 THEN A ELSE Round(F[n - 1], T, E)]
  <2>1. ASSUME NEW n \in Nat, n # 0
        PROVE  F[n] = Round(F[n - 1], T, E)
    <3>1. n - 1 \in Nat /\ n - 1 + 1 = n
      BY <2>1
    <3>2. F[n] = G[F[n - 1]] /\ F[n - 1] \in D
      BY <3>1, <1>3
    <3> QED
      BY <3>2
  <2> HIDE DEF A, D, G
  <2> QED
    BY <2>1, <1>3
<1>5. R = [n \in Nat |-> IF n = 0 THEN A ELSE Round(R[n - 1], T, E)]
  BY <1>4, Zenon DEF Rounds
<1> HIDE DEF R, D
<1>6. R[0] = A
  BY <1>5
<1>7. \A n \in Nat : R[n + 1] = Round(R[n], T, E)
  <2> TAKE n \in Nat
  <2>1. n + 1 \in Nat /\ n + 1 # 0 /\ n + 1 - 1 = n
    OBVIOUS
  <2>2. R[n + 1] = Round(R[n + 1 - 1], T, E)
    BY <2>1, <1>5
  <2> QED
    BY <2>1, <2>2
<1>8. \A n \in Nat : R[n] \in D
  <2> DEFINE S == {n \in Nat : R[n] \in D}
  <2>1. 0 \in S
    BY <1>2, <1>6
  <2>2. \A n \in Nat : n \in S => n + 1 \in S
    BY <1>1, <1>7
  <2>3. \A n \in Nat : n \in S
    <3> HIDE DEF S
    <3> QED
      BY <2>1, <2>2, SetInduction
  <2> QED
    BY <2>3
<1> QED
  BY <1>6, <1>7, <1>8 DEF D, R

(* A task is where its predecessors ask it to be, and no later.            *)
Settled(t, old, new, E) == new[t] = Push(t, [new EXCEPT ![t] = old[t]], E)

Rescheduled(new, old, T, E) ==
  /\ new \in [T -> Row]
  /\ \A t \in Stuck(T, E) : new[t] = old[t]
  /\ \A t \in T \ Stuck(T, E) : Settled(t, old, new, E)

(* After n rounds: the tasks taken are closed under predecessors, no two   *)
(* of which wait for each other, and settled; the others are as they were. *)
(* A round takes a task, or else nothing is left but what is stuck.        *)
RoundOK(p, n, old, T, E) ==
  /\ p \in [taken : SUBSET T, cur : [T -> Row]]
  /\ \A t \in T \ p.taken : p.cur[t] = old[t]
  /\ \A d \in E : d.succ \in p.taken => d.pred \in p.taken /\ d.pred # d.succ
  /\ \A t \in p.taken : Settled(t, old, p.cur, E)
  /\ \A C \in SUBSET T : Knotted(C, E) => C \cap p.taken = {}
  /\ Knotted(T \ p.taken, E) \/ Cardinality(p.taken) >= n

LEMMA RoundStep ==
  ASSUME NEW T, IsFiniteSet(T), NEW E, Among(E, T), NEW old \in [T -> Row],
         NEW n \in Nat, NEW p, RoundOK(p, n, old, T, E),
         Round(p, T, E) \in [taken : SUBSET T, cur : [T -> Row]]
  PROVE  RoundOK(Round(p, T, E), n + 1, old, T, E)
<1> DEFINE news == Takeable(p.taken, T, E)
           q == Round(p, T, E)
<1>1. /\ q.taken = p.taken \cup news /\ news \cap p.taken = {} /\ news \subseteq T
      /\ \A t \in news : q.cur[t] = Push(t, p.cur, E)
      /\ \A t \in T \ news : q.cur[t] = p.cur[t]
  BY DEF Round, Takeable
<1>2. \A t \in news : \A d \in Incoming(E, t) : d.pred \in p.taken
  BY DEF Takeable
<1>3. /\ p.taken \in SUBSET T /\ p.cur \in [T -> Row]
      /\ \A t \in T \ p.taken : p.cur[t] = old[t]
      /\ \A d \in E : d.succ \in p.taken => d.pred \in p.taken /\ d.pred # d.succ
      /\ \A t \in p.taken : Settled(t, old, p.cur, E)
      /\ \A C \in SUBSET T : Knotted(C, E) => C \cap p.taken = {}
      /\ Knotted(T \ p.taken, E) \/ Cardinality(p.taken) >= n
  BY DEF RoundOK
<1>4. q.cur \in [T -> Row] /\ q.taken \in SUBSET T
  OBVIOUS
<1> HIDE DEF q, news
<1>5. \A t \in T \ q.taken : q.cur[t] = old[t]
  BY <1>1, <1>3
<1>6. \A d \in E : d.succ \in q.taken => d.pred \in q.taken /\ d.pred # d.succ
  BY <1>1, <1>2, <1>3 DEF Incoming
<1>7. ASSUME NEW t \in q.taken
      PROVE  Settled(t, old, q.cur, E)
  <2> DEFINE a == [p.cur EXCEPT ![t] = old[t]]
             b == [q.cur EXCEPT ![t] = old[t]]
  <2>1. t \in T /\ a[t] = old[t] /\ b[t] = old[t]
    BY <1>3, <1>4
  <2>2. ASSUME NEW d \in Incoming(E, t)
        PROVE  d.pred \in p.taken /\ d.pred # t /\ d.pred \in T
    BY <1>1, <1>2, <1>3, <1>6 DEF Incoming
  <2>3. \A d \in Incoming(E, t) : a[d.pred] = p.cur[d.pred] /\ b[d.pred] = p.cur[d.pred]
    BY <2>2, <1>1, <1>3, <1>4
  <2>4. Push(t, a, E) = Push(t, b, E)
    <3> HIDE DEF a, b
    <3> QED
      BY <2>1, <2>3, PushReads
  <2>5. CASE t \in p.taken
    <3>1. p.cur[t] = Push(t, a, E)
      BY <2>5, <1>3 DEF Settled
    <3>2. q.cur[t] = p.cur[t]
      BY <2>5, <2>1, <1>1
    <3> QED
      BY <3>1, <3>2, <2>4 DEF Settled
  <2>6. CASE t \in news
    <3>1. p.cur[t] = old[t]
      BY <2>6, <2>1, <1>1, <1>3
    <3>2. Push(t, a, E) = Push(t, p.cur, E)
      <4> HIDE DEF a, b
      <4> QED
        BY <3>1, <2>1, <2>3, PushReads
    <3>3. q.cur[t] = Push(t, p.cur, E)
      BY <2>6, <1>1
    <3> QED
      BY <3>2, <3>3, <2>4 DEF Settled
  <2> QED
    BY <2>5, <2>6, <1>1
<1>8. \A C \in SUBSET T : Knotted(C, E) => C \cap q.taken = {}
  BY <1>1, <1>2, <1>3 DEF Knotted, Incoming
<1>9. Knotted(T \ q.taken, E) \/ Cardinality(q.taken) >= n + 1
  <2>1. CASE news = {}
    <3>1. \A t \in T \ p.taken : \E d \in Incoming(E, t) : d.pred \notin p.taken
      BY <2>1 DEF news, Takeable
    <3>2. Knotted(T \ p.taken, E)
      BY <3>1 DEF Knotted, Incoming, Among
    <3> QED
      BY <3>2, <2>1, <1>1
  <2>2. CASE news # {}
    <3>1. PICK t \in news : TRUE
      BY <2>2
    <3>2. ~Knotted(T \ p.taken, E)
      BY <3>1, <1>1, <1>2 DEF Knotted, Incoming
    <3>3. IsFiniteSet(p.taken) /\ IsFiniteSet(q.taken)
      BY <1>3, <1>4, FS_Subset
    <3>4. /\ IsFiniteSet(p.taken \cup {t}) /\ Cardinality(p.taken \cup {t}) = Cardinality(p.taken) + 1
          /\ Cardinality(p.taken) \in Nat
      BY <3>1, <3>3, <1>1, FS_AddElement, FS_CardinalityType
    <3>5. Cardinality(p.taken \cup {t}) <= Cardinality(q.taken) /\ Cardinality(q.taken) \in Nat
      BY <3>1, <3>3, <1>1, FS_Subset, FS_CardinalityType
    <3> QED
      BY <3>2, <3>4, <3>5, <1>3
  <2> QED
    BY <2>1, <2>2
<1>10. q \in [taken : SUBSET T, cur : [T -> Row]]
  BY DEF q
<1> QED
  BY <1>5, <1>6, <1>7, <1>8, <1>9, <1>10 DEF RoundOK, q

(* Normalize settles what is not stuck, and leaves alone what is.          *)
LEMMA NormalizeReschedules ==
  ASSUME NEW T, IsFiniteSet(T), NEW old \in [T -> Row], NEW D \in SUBSET Dep
  PROVE  Rescheduled(Normalize(old, D), old, T, KnownDeps(D, T))
<1> DEFINE E == KnownDeps(D, T)
           R == Rounds(old, T, E)
           S == {n \in Nat : RoundOK(R[n], n, old, T, E)}
           N == Cardinality(T)
<1>1. Among(E, T) /\ N \in Nat
  BY FS_CardinalityType DEF Among, KnownDeps
<1> HIDE DEF E
<1>2. /\ R[0] = [taken |-> {}, cur |-> old]
      /\ \A n \in Nat : /\ R[n] \in [taken : SUBSET T, cur : [T -> Row]]
                        /\ R[n + 1] = Round(R[n], T, E)
  BY <1>1, RoundsAre
<1> HIDE DEF R
<1>3. \A n \in Nat : RoundOK(R[n], n, old, T, E)
  <2>1. 0 \in S
    <3>1. R[0].taken = {} /\ R[0].cur = old /\ Cardinality({}) = 0
      BY <1>2, FS_EmptySet
    <3>2. R[0] \in [taken : SUBSET T, cur : [T -> Row]]
      BY <1>2
    <3>3. RoundOK(R[0], 0, old, T, E)
      BY <3>1, <3>2 DEF RoundOK
    <3> QED
      BY <3>3
  <2>2. ASSUME NEW n \in Nat, n \in S
        PROVE  n + 1 \in S
    <3>1. RoundOK(R[n], n, old, T, E) /\ R[n + 1] = Round(R[n], T, E) /\ n + 1 \in Nat
      BY <2>2, <1>2
    <3>2. Round(R[n], T, E) \in [taken : SUBSET T, cur : [T -> Row]]
      BY <3>1, <1>2
    <3>3. RoundOK(Round(R[n], T, E), n + 1, old, T, E)
      BY <3>1, <3>2, <1>1, RoundStep
    <3> QED
      BY <3>1, <3>3
  <2>3. \A n \in Nat : n \in S
    <3> HIDE DEF S
    <3> QED
      BY <2>1, <2>2, SetInduction
  <2> QED
    BY <2>3
<1> DEFINE new == R[N].cur
           taken == R[N].taken
<1>4. /\ taken \in SUBSET T /\ new \in [T -> Row]
      /\ \A t \in T \ taken : new[t] = old[t]
      /\ \A t \in taken : Settled(t, old, new, E)
      /\ \A C \in SUBSET T : Knotted(C, E) => C \cap taken = {}
      /\ Knotted(T \ taken, E) \/ Cardinality(taken) >= N
  BY <1>1, <1>3 DEF RoundOK
<1>5. new = Normalize(old, D)
  BY DEF Normalize, R, E
<1> HIDE DEF new, taken
<1>6. Knotted(T \ taken, E)
  <2>1. CASE Cardinality(taken) >= N
    <3>1. Cardinality(taken) \in Nat /\ Cardinality(taken) <= N
      BY <1>4, FS_Subset, FS_CardinalityType
    <3>2. taken = T
      BY <3>1, <2>1, <1>1, <1>4, FS_Subset
    <3> QED
      BY <3>2 DEF Knotted
  <2> QED
    BY <2>1, <1>4
<1>7. Stuck(T, E) = T \ taken
  BY <1>4, <1>6 DEF Stuck
<1> QED
  BY <1>4, <1>5, <1>7 DEF Rescheduled, E

(* There is one way to settle: where two differ, so they do at a           *)
(* predecessor, and the tasks at which they do are a knot.                 *)
LEMMA RescheduledIsOne ==
  ASSUME NEW T, NEW E, Among(E, T), NEW old,
         NEW a, NEW b, Rescheduled(a, old, T, E), Rescheduled(b, old, T, E)
  PROVE  a = b
<1> DEFINE C == {t \in T : a[t] # b[t]}
<1>1. a \in [T -> Row] /\ b \in [T -> Row]
  BY DEF Rescheduled
<1>2. ASSUME NEW t \in C
      PROVE  t \notin Stuck(T, E) /\ \E d \in E : d.succ = t /\ d.pred \in C
  <2>1. t \in T /\ t \notin Stuck(T, E)
    BY DEF Rescheduled
  <2>2. a[t] = Push(t, [a EXCEPT ![t] = old[t]], E) /\ b[t] = Push(t, [b EXCEPT ![t] = old[t]], E)
    BY <2>1 DEF Rescheduled, Settled
  <2>3. PICK d \in Incoming(E, t) : [a EXCEPT ![t] = old[t]][d.pred] # [b EXCEPT ![t] = old[t]][d.pred]
    <3> DEFINE x == [a EXCEPT ![t] = old[t]]
               y == [b EXCEPT ![t] = old[t]]
    <3>1. x[t] = old[t] /\ y[t] = old[t]
      BY <2>1, <1>1
    <3>2. Push(t, x, E) # Push(t, y, E)
      BY <2>2
    <3>3. SUFFICES ASSUME \A d \in Incoming(E, t) : x[d.pred] = y[d.pred] PROVE FALSE
      OBVIOUS
    <3> HIDE DEF x, y
    <3> QED
      BY <3>1, <3>2, <3>3, PushReads
  <2>4. d \in E /\ d.succ = t /\ d.pred \in T
    BY DEF Incoming, Among
  <2>5. a[d.pred] # b[d.pred]
    BY <2>1, <2>3, <2>4, <1>1
  <2> QED
    BY <2>1, <2>4, <2>5
<1>3. C \in SUBSET T /\ Knotted(C, E)
  BY <1>2 DEF Knotted
<1>4. C = {}
  BY <1>2, <1>3 DEF Stuck
<1> QED
  BY <1>1, <1>4

(* What Normalize makes of a row.                                          *)
LEMMA RescheduledMoves ==
  ASSUME NEW T, NEW E, Among(E, T), NEW old \in [T -> Row], NEW new, Rescheduled(new, old, T, E),
         NEW t \in T, new[t] # old[t]
  PROVE  /\ t \notin Stuck(T, E) /\ HasDates(old[t])
         /\ \E k \in Nat \ {0} : new[t] = Shifted(old[t], k)
<1> DEFINE c == [new EXCEPT ![t] = old[t]]
<1>1. c \in [T -> Row] /\ c[t] = old[t] /\ new[t] = Push(t, c, E) /\ t \notin Stuck(T, E)
  BY DEF Rescheduled, Settled
<1> HIDE DEF c
<1>2. HasDates(c[t])
  BY <1>1, PushFacts
<1>3. PICK k \in 0 .. MaxSpan : Push(t, c, E) = Shifted(c[t], k)
  BY <1>1, <1>2, PushFacts
<1>4. k # 0
  <2>1. old[t] = [start |-> old[t].start, due |-> old[t].due] /\ old[t].start \in Int /\ old[t].due \in Int
    BY <1>1, <1>2 DEF Row, Date, HasDates
  <2>2. k = 0 => Shifted(old[t], k) = old[t]
    BY <2>1 DEF Shifted
  <2> QED
    BY <2>2, <1>1, <1>3
<1> QED
  BY <1>1, <1>2, <1>3, <1>4, ScheduleAssumption

(* No dependency asks for more than time.Duration can hold.                *)
Within(new, old, E) ==
  \A d \in E : HasDates(new[d.pred]) /\ HasDates(old[d.succ])
                 => Bound(d, new[d.pred]) - Anchor(d, old[d.succ]) <= MaxSpan

LEMMA RescheduledIsValid ==
  ASSUME NEW T, NEW E, Among(E, T), NEW old \in [T -> Row], NEW new, Rescheduled(new, old, T, E),
         Within(new, old, E)
  PROVE  \A d \in E : d.succ \notin Stuck(T, E) /\ HasDates(new[d.pred]) /\ HasDates(new[d.succ])
                        => Satisfied(d, new[d.pred], new[d.succ])
<1> SUFFICES ASSUME NEW d \in E, d.succ \notin Stuck(T, E), HasDates(new[d.pred]), HasDates(new[d.succ])
             PROVE  Satisfied(d, new[d.pred], new[d.succ])
  OBVIOUS
<1> DEFINE t == d.succ
           c == [new EXCEPT ![t] = old[t]]
<1>1. /\ t \in T /\ d.pred \in T /\ d \in Dep /\ d \in Incoming(E, t) /\ d.pred # t
      /\ new \in [T -> Row] /\ new[t] = Push(t, c, E)
  <2>1. d.pred # d.succ
    <3>1. d.pred = d.succ => Knotted({d.succ}, E)
      BY DEF Knotted
    <3> QED
      BY <3>1 DEF Stuck, Among
  <2> QED
    BY <2>1 DEF Among, Incoming, Rescheduled, Settled
<1>2. c \in [T -> Row] /\ c[t] = old[t] /\ c[d.pred] = new[d.pred]
  BY <1>1
<1> HIDE DEF c
<1>3. HasDates(c[t])
  BY <1>1, <1>2, PushFacts
<1>4. PICK k \in 0 .. MaxSpan : new[t] = Shifted(c[t], k) /\ \A x \in Needs(t, c, E) : x <= k
  BY <1>1, <1>2, <1>3, PushFacts
<1>5. Need(d, c[d.pred], c[t]) <= k
  BY <1>1, <1>2, <1>4 DEF Needs
<1>6. k \in Nat /\ Bound(d, c[d.pred]) - Anchor(d, c[t]) <= MaxSpan
  BY <1>2, <1>3, ScheduleAssumption DEF Within
<1>7. c[d.pred] \in Row /\ c[t] \in Row /\ HasDates(c[d.pred])
  BY <1>1, <1>2
<1>8. \A j \in Nat : j >= Need(d, c[d.pred], c[t]) => Satisfied(d, c[d.pred], Shifted(c[t], j))
  BY <1>1, <1>3, <1>6, <1>7, NeedFacts
<1>9. Need(d, c[d.pred], c[t]) \in Nat
  BY <1>1, <1>3, <1>7, NeedFacts
<1>10. Satisfied(d, c[d.pred], Shifted(c[t], k))
  BY <1>5, <1>6, <1>8, <1>9
<1> QED
  BY <1>2, <1>4, <1>10

LEMMA NormalizeIsValid ==
  ASSUME NEW T, IsFiniteSet(T), NEW old \in [T -> Row], NEW D \in SUBSET Dep,
         Within(Normalize(old, D), old, KnownDeps(D, T))
  PROVE  Valid(Normalize(old, D), D)
<1> DEFINE E == KnownDeps(D, T)
           new == Normalize(old, D)
<1>1. Among(E, T) /\ Rescheduled(new, old, T, E)
  BY NormalizeReschedules DEF Among, KnownDeps
<1>2. DOMAIN new = T
  BY <1>1 DEF Rescheduled
<1>3. \A d \in E : d.succ \notin Stuck(T, E) /\ HasDates(new[d.pred]) /\ HasDates(new[d.succ])
                     => Satisfied(d, new[d.pred], new[d.succ])
  <2> HIDE DEF E, new
  <2>1. Within(new, old, E)
    BY DEF E, new
  <2> QED
    BY <1>1, <2>1, RescheduledIsValid
<1> HIDE DEF new
<1> QED
  BY <1>2, <1>3 DEF Valid, new

-----------------------------------------------------------------------------
(* The loops of Normalize.                                                 *)

(* The arguments of the call never change.                                 *)
LEMMA Arguments ==
  ASSUME [LoopNext]_loopVars
  PROVE  rows' = rows /\ arcs' = arcs /\ ids' = ids /\ edges' = edges
BY DEF LoopNext, loopVars, Pop, StopOrdering, StartTask, Consider, Move, Return, ids, edges

-----------------------------------------------------------------------------
LoopTypeInv ==
  /\ LoopTypeOK
  /\ next \in 1 .. Len(order) + 1
  /\ at = "scan" => /\ next <= Len(order)
                    /\ HasDates(cur[order[next]])
                    /\ left \in SUBSET Incoming(edges, order[next])
  /\ at = "order" => \A t \in ready \cup ordered : waiting[t] = {}
  /\ ready \cap ordered = {}

LEMMA InitTypeInv == LoopInit => LoopTypeInv
<1> SUFFICES ASSUME LoopInit PROVE LoopTypeInv
  OBVIOUS
<1>1. PICK S \in SUBSET Tasks : rows \in [S -> LoopRows]
  BY DEF LoopInit
<1>2. ids = S /\ rows \in [ids -> Row] /\ arcs \in SUBSET Dep /\ edges \subseteq Dep
  BY <1>1, LoopAssumption DEF LoopInit, ids, edges, KnownDeps
<1>3. waiting \in [ids -> SUBSET edges]
  BY DEF LoopInit, Incoming
<1>4. order = <<>> /\ order \in Seq(ids) /\ Len(order) = 0 /\ ordered = {}
  BY DEF LoopInit, ordered
<1>5. /\ at = "order" /\ next = 1 /\ left = {} /\ shift = 0 /\ cur = rows
      /\ saturated = {} /\ ready = {t \in ids : waiting[t] = {}}
  BY DEF LoopInit
<1>6. ids \subseteq Tasks
  BY <1>2
<1>7. LoopTypeOK
  BY <1>2, <1>3, <1>4, <1>5, <1>6 DEF LoopTypeOK
<1> QED
  BY <1>4, <1>5, <1>7 DEF LoopTypeInv

(* A task that leaves the queue is appended to the order once.             *)
LEMMA PopTypeInv ==
  ASSUME LoopTypeInv, NEW t \in ids, Pop(t)
  PROVE  LoopTypeInv'
<1>1. ids' = ids /\ edges' = edges
  BY DEF Pop, ids, edges
<1>2. waiting' \in [ids -> SUBSET edges]
  BY DEF Pop, Released, LoopTypeInv, LoopTypeOK
<1>3. NewlyReady(t) \subseteq ids /\ ready' \in SUBSET ids
  BY DEF Pop, NewlyReady, LoopTypeInv, LoopTypeOK
<1>4. /\ order' \in Seq(ids) /\ Len(order') = Len(order) + 1
      /\ order'[Len(order) + 1] = t
      /\ \A k \in 1 .. Len(order) : order'[k] = order[k]
      /\ DOMAIN order' = 1 .. Len(order) + 1 /\ DOMAIN order = 1 .. Len(order)
  BY DEF Pop, LoopTypeInv, LoopTypeOK
<1>5. ordered' = ordered \cup {t} /\ t \notin ordered
  BY <1>4 DEF ordered, Pop, LoopTypeInv, LoopTypeOK
<1>6. \A i, j \in DOMAIN order' : order'[i] = order'[j] => i = j
  BY <1>4, <1>5 DEF ordered, LoopTypeInv, LoopTypeOK
<1>7. \A s \in ready' \cup ordered' : waiting'[s] = {}
  <2>1. ASSUME NEW s \in ready \cup ordered PROVE s \in ids /\ waiting[s] = {}
    BY <2>1, <1>4 DEF Pop, LoopTypeInv, LoopTypeOK, ordered
  <2>2. \A s \in ids : waiting'[s] = {d \in waiting[s] : d.pred # t}
    BY DEF Pop, Released
  <2>3. \A s \in NewlyReady(t) : waiting'[s] = {}
    BY DEF Pop, NewlyReady
  <2>4. ready' \cup ordered' \subseteq ready \cup ordered \cup NewlyReady(t)
    BY <1>5 DEF Pop
  <2> QED
    BY <2>1, <2>2, <2>3, <2>4
<1>8. ready' \cap ordered' = {}
  BY <1>5 DEF Pop, NewlyReady, LoopTypeInv
<1>9. next' = next /\ next \in 1 .. Len(order') + 1
  BY <1>4 DEF Pop, LoopTypeInv, LoopTypeOK
<1> QED
  BY <1>1, <1>2, <1>3, <1>4, <1>6, <1>7, <1>8, <1>9 DEF Pop, LoopTypeInv, LoopTypeOK

LEMMA StartTypeInv ==
  ASSUME LoopTypeInv, StartTask
  PROVE  LoopTypeInv'
<1>1. ids' = ids /\ edges' = edges /\ ordered' = ordered
  BY DEF StartTask, ids, edges, ordered
<1>2. next \in DOMAIN order /\ order[next] \in ids
  BY DEF StartTask, LoopTypeInv, LoopTypeOK
<1>3. left' \in SUBSET edges /\ shift' \in Nat
  BY <1>1 DEF StartTask, LoopTypeInv, LoopTypeOK, Incoming
<1>4. next' \in 1 .. Len(order) + 1
  BY DEF StartTask, PassOver, LoopTypeInv, LoopTypeOK
<1>5. at' = "scan" => /\ next' <= Len(order) /\ HasDates(cur[order[next']])
                      /\ left' \in SUBSET Incoming(edges, order[next'])
  BY DEF StartTask
<1>6. at' \in {"push", "scan"}
  BY DEF StartTask
<1> QED
  BY <1>1, <1>3, <1>4, <1>5, <1>6 DEF StartTask, LoopTypeInv, LoopTypeOK

LEMMA ConsiderTypeInv ==
  ASSUME LoopTypeInv, NEW d \in left, Consider(d)
  PROVE  LoopTypeInv'
<1>1. ids' = ids /\ edges' = edges /\ ordered' = ordered
  BY DEF Consider, ids, edges, ordered
<1>2. d \in edges /\ d \in Dep /\ d.succ = order[next] /\ d.pred \in ids /\ d.succ \in ids
  BY DEF Consider, LoopTypeInv, LoopTypeOK, Incoming, edges, KnownDeps
<1>3. cur[d.pred] \in Row /\ cur[d.succ] \in Row /\ HasDates(cur[d.succ])
  BY <1>2 DEF Consider, LoopTypeInv, LoopTypeOK, edges, KnownDeps
<1>4. shift' \in Nat
  BY <1>2, <1>3, NeedFacts DEF Consider, Larger, LoopTypeInv, LoopTypeOK
<1>5. saturated' \in SUBSET edges /\ left' \in SUBSET left
  BY <1>2 DEF Consider, LoopTypeInv, LoopTypeOK
<1> QED
  BY <1>1, <1>4, <1>5 DEF Consider, LoopTypeInv, LoopTypeOK

LEMMA MoveTypeInv ==
  ASSUME LoopTypeInv, NEW t \in ids, Move(t)
  PROVE  LoopTypeInv'
<1>1. ids' = ids /\ edges' = edges /\ ordered' = ordered
  BY DEF Move, ids, edges, ordered
<1>2. t = order[next] /\ cur[t] \in Row /\ HasDates(cur[t]) /\ shift \in Nat
  BY DEF Move, LoopTypeInv, LoopTypeOK
<1>3. Shifted(cur[t], shift) \in Row
  BY <1>2, ScheduleAssumption DEF Row, Date, HasDates, Shifted
<1>4. cur' \in [ids -> Row]
  BY <1>3 DEF Move, Moved, LoopTypeInv, LoopTypeOK
<1>5. next' \in 1 .. Len(order) + 1
  BY DEF Move, LoopTypeInv, LoopTypeOK
<1>6. at' = "push"
  BY DEF Move
<1> QED
  BY <1>1, <1>4, <1>5, <1>6 DEF Move, LoopTypeInv, LoopTypeOK

LEMMA NextTypeInv == LoopTypeInv /\ [LoopNext]_loopVars => LoopTypeInv'
<1> SUFFICES ASSUME LoopTypeInv, [LoopNext]_loopVars PROVE LoopTypeInv'
  OBVIOUS
<1>1. CASE \E t \in ids : Pop(t)
  BY <1>1, PopTypeInv
<1>2. CASE StopOrdering
  BY <1>2 DEF StopOrdering, LoopTypeInv, LoopTypeOK, ids, edges, ordered
<1>3. CASE StartTask
  BY <1>3, StartTypeInv
<1>4. CASE \E d \in left : Consider(d)
  BY <1>4, ConsiderTypeInv
<1>5. CASE \E t \in ids : Move(t)
  BY <1>5, MoveTypeInv
<1>6. CASE Return
  BY <1>6 DEF Return, LoopTypeInv, LoopTypeOK, ids, edges, ordered
<1>7. CASE UNCHANGED loopVars
  BY <1>7 DEF loopVars, LoopTypeInv, LoopTypeOK, ids, edges, ordered
<1> QED
  BY <1>1, <1>2, <1>3, <1>4, <1>5, <1>6, <1>7 DEF LoopNext

(* Each variable keeps its type, and no task is in the order twice.        *)
THEOREM LoopTypeCorrect == LoopSpec => []LoopTypeOK
<1>1. LoopTypeInv => LoopTypeOK
  BY DEF LoopTypeInv
<1> QED
  BY InitTypeInv, NextTypeInv, <1>1, PTL DEF LoopSpec

-----------------------------------------------------------------------------
(***************************************************************************)
(* The first loop.  A task waits for its predecessors that are not in the  *)
(* order; predecessors come before their successors; and a set in which    *)
(* every task has a predecessor never gets a task into the order.          *)
(***************************************************************************)
OrderInv ==
  /\ \A t \in ids : waiting[t] = {d \in Incoming(edges, t) : d.pred \notin ordered}
  /\ at = "order" => \A t \in ids \ ordered : waiting[t] = {} => t \in ready
  /\ \A k \in DOMAIN order, d \in edges :
       d.succ = order[k] => \E j \in 1 .. k - 1 : order[j] = d.pred
  /\ \A C \in SUBSET ids : Knotted(C, edges) => C \cap ordered = {}
  /\ OrderSkipsOnlyCycles

LEMMA InitOrderInv == LoopInit => OrderInv
<1> SUFFICES ASSUME LoopInit PROVE OrderInv
  OBVIOUS
<1>1. ordered = {} /\ DOMAIN order = {}
  BY DEF LoopInit, ordered
<1>2. \A t \in ids : waiting[t] = Incoming(edges, t)
  BY DEF LoopInit
<1> QED
  BY <1>1, <1>2 DEF OrderInv, LoopInit, Incoming, OrderSkipsOnlyCycles

LEMMA PopOrderInv ==
  ASSUME LoopTypeInv, OrderInv, NEW t \in ids, Pop(t)
  PROVE  OrderInv'
<1>1. ids' = ids /\ edges' = edges /\ at = "order" /\ at' = "order"
  BY DEF Pop, ids, edges
<1>2. /\ order'[Len(order) + 1] = t
      /\ \A k \in 1 .. Len(order) : order'[k] = order[k]
      /\ DOMAIN order' = 1 .. Len(order) + 1 /\ DOMAIN order = 1 .. Len(order)
      /\ Len(order) \in Nat
  BY DEF Pop, LoopTypeInv, LoopTypeOK
<1>3. ordered' = ordered \cup {t} /\ t \notin ordered
  <2>1. 1 .. Len(order) + 1 = (1 .. Len(order)) \cup {Len(order) + 1}
    BY <1>2
  <2>2. ordered' = {order[k] : k \in 1 .. Len(order)} \cup {t}
    BY <1>2, <2>1 DEF ordered
  <2>3. t \in ready /\ ready \cap ordered = {}
    BY DEF Pop, LoopTypeInv
  <2> QED
    BY <1>2, <2>2, <2>3 DEF ordered
<1>4. waiting[t] = {}
  BY DEF Pop, LoopTypeInv
<1>5. \A d \in Incoming(edges, t) : d.pred \in ordered
  BY <1>4 DEF OrderInv
<1>6. \A s \in ids : waiting'[s] = {d \in waiting[s] : d.pred # t}
  BY DEF Pop, Released
<1>7. \A s \in ids : waiting'[s] = {d \in Incoming(edges, s) : d.pred \notin ordered'}
  BY <1>6, <1>3 DEF OrderInv
<1>8. \A s \in ids \ ordered' : waiting'[s] = {} => s \in ready'
  <2> SUFFICES ASSUME NEW s \in ids, s \notin ordered, s # t, waiting'[s] = {}
               PROVE  s \in ready'
    BY <1>3
  <2>1. CASE waiting[s] = {}
    BY <2>1, <1>1 DEF OrderInv, Pop
  <2>2. CASE waiting[s] # {}
    BY <2>2 DEF Pop, NewlyReady
  <2> QED
    BY <2>1, <2>2
<1>9. \A k \in DOMAIN order', d \in edges :
        d.succ = order'[k] => \E j \in 1 .. k - 1 : order'[j] = d.pred
  <2> SUFFICES ASSUME NEW k \in DOMAIN order', NEW d \in edges, d.succ = order'[k]
               PROVE  \E j \in 1 .. k - 1 : order'[j] = d.pred
    OBVIOUS
  <2>1. CASE k \in 1 .. Len(order)
    <3>1. PICK j \in 1 .. k - 1 : order[j] = d.pred
      BY <2>1, <1>2 DEF OrderInv
    <3> QED
      BY <3>1, <2>1, <1>2
  <2>2. CASE k = Len(order) + 1
    <3>1. d.pred \in ordered
      BY <2>2, <1>2, <1>5 DEF Incoming
    <3>2. PICK j \in DOMAIN order : order[j] = d.pred
      BY <3>1 DEF ordered
    <3> QED
      BY <3>2, <2>2, <1>2
  <2> QED
    BY <2>1, <2>2, <1>2
<1>10. \A C \in SUBSET ids : Knotted(C, edges) => C \cap ordered' = {}
  BY <1>3, <1>5 DEF OrderInv, Knotted, Incoming
<1>11. OrderSkipsOnlyCycles'
  BY <1>1 DEF OrderSkipsOnlyCycles
<1> QED
  BY <1>1, <1>7, <1>8, <1>9, <1>10, <1>11 DEF OrderInv

LEMMA StopOrderInv ==
  ASSUME LoopTypeInv, OrderInv, StopOrdering
  PROVE  OrderInv'
<1>1. /\ ids' = ids /\ edges' = edges /\ ordered' = ordered /\ order' = order
      /\ waiting' = waiting /\ at = "order" /\ at' = "push" /\ ready = {}
  BY DEF StopOrdering, ids, edges, ordered
<1>2. ordered \subseteq ids
  BY DEF ordered, LoopTypeInv, LoopTypeOK
<1>3. ordered \cap Stuck(ids, edges) = {}
  BY <1>2 DEF OrderInv, Stuck
<1>4. Knotted(ids \ ordered, edges)
  BY <1>1 DEF OrderInv, Knotted, Incoming, edges, KnownDeps
<1>5. ids \ ordered \subseteq Stuck(ids, edges)
  BY <1>4 DEF Stuck
<1>6. ordered = ids \ Stuck(ids, edges)
  BY <1>2, <1>3, <1>5
<1> QED
  BY <1>1, <1>6 DEF OrderInv, OrderSkipsOnlyCycles

(* Past the first loop its variables stay as they are.                     *)
LEMMA KeepOrderInv ==
  ASSUME OrderInv, UNCHANGED <<rows, arcs, ready, waiting, order>>,
         at = "order" <=> at' = "order"
  PROVE  OrderInv'
BY DEF OrderInv, OrderSkipsOnlyCycles, ids, edges, ordered

LEMMA NextOrderInv == LoopTypeInv /\ OrderInv /\ [LoopNext]_loopVars => OrderInv'
<1> SUFFICES ASSUME LoopTypeInv, OrderInv, [LoopNext]_loopVars PROVE OrderInv'
  OBVIOUS
<1>1. CASE \E t \in ids : Pop(t)
  BY <1>1, PopOrderInv
<1>2. CASE StopOrdering
  BY <1>2, StopOrderInv
<1>3. CASE StartTask
  BY <1>3, KeepOrderInv DEF StartTask
<1>4. CASE \E d \in left : Consider(d)
  BY <1>4, KeepOrderInv DEF Consider
<1>5. CASE \E t \in ids : Move(t)
  BY <1>5, KeepOrderInv DEF Move
<1>6. CASE Return
  BY <1>6, KeepOrderInv DEF Return
<1>7. CASE UNCHANGED loopVars
  BY <1>7, KeepOrderInv DEF loopVars
<1> QED
  BY <1>1, <1>2, <1>3, <1>4, <1>5, <1>6, <1>7 DEF LoopNext

(* A task is rescheduled exactly when it is neither on a cycle nor behind  *)
(* one: schedule.go:62-80, "any cycle is skipped".                         *)
THEOREM OrderSound == LoopSpec => []OrderSkipsOnlyCycles
<1>1. LoopInit => LoopTypeInv /\ OrderInv
  BY InitTypeInv, InitOrderInv
<1>2. LoopTypeInv /\ OrderInv /\ [LoopNext]_loopVars => (LoopTypeInv /\ OrderInv)'
  BY NextTypeInv, NextOrderInv
<1>3. OrderInv => OrderSkipsOnlyCycles
  BY DEF OrderInv
<1> QED
  BY <1>1, <1>2, <1>3, PTL DEF LoopSpec

-----------------------------------------------------------------------------
(***************************************************************************)
(* The second loop.  The tasks pushed so far satisfy their incoming        *)
(* dependencies; a push disturbs none of them, because predecessors come   *)
(* earlier in the order.                                                   *)
(***************************************************************************)
Pushed == {order[k] : k \in 1 .. next - 1}

BoundBy(t, d) ==
  /\ HasDates(cur[d.pred])
  /\ \/ Anchor(d, cur[t]) = Bound(d, cur[d.pred])
     \/ d \in saturated

ScanInv ==
  LET t == order[next]
  IN  /\ \A d \in Incoming(edges, t) \ (left \cup saturated) :
           HasDates(cur[d.pred]) => Satisfied(d, cur[d.pred], Shifted(cur[t], shift))
      /\ shift > 0 => \E d \in Incoming(edges, t) \ left :
           /\ HasDates(cur[d.pred])
           /\ \/ Anchor(d, cur[t]) + shift = Bound(d, cur[d.pred])
              \/ d \in saturated

PushInv ==
  /\ at = "order" => next = 1
  /\ at = "done" => next = Len(order) + 1
  /\ \A t \in ids \ Pushed : cur[t] = rows[t]
  /\ OnlyMovesLater
  /\ \A d \in edges \ saturated :
       d.succ \in Pushed /\ HasDates(cur[d.pred]) /\ HasDates(cur[d.succ])
         => Satisfied(d, cur[d.pred], cur[d.succ])
  /\ \A t \in Pushed : cur[t] # rows[t] => \E d \in Incoming(edges, t) : BoundBy(t, d)
  /\ at = "scan" => ScanInv

LEMMA InitPushInv == LoopInit => PushInv
<1> SUFFICES ASSUME LoopInit PROVE PushInv
  OBVIOUS
<1>1. Pushed = {} /\ cur = rows /\ next = 1 /\ at = "order"
  BY DEF LoopInit, Pushed
<1>2. LoopTypeOK
  BY InitTypeInv DEF LoopTypeInv
<1>3. OnlyMovesLater
  <2> SUFFICES ASSUME NEW t \in ids, HasDates(rows[t])
               PROVE  /\ cur[t].start >= rows[t].start
                      /\ cur[t] = Shifted(rows[t], cur[t].start - rows[t].start)
    BY <1>1 DEF OnlyMovesLater
  <2>1. rows[t] \in Row /\ rows[t].start \in Int /\ rows[t].due \in Int
    BY <1>2 DEF LoopTypeOK, Row, Date, HasDates
  <2>2. rows[t] = [start |-> rows[t].start, due |-> rows[t].due]
    BY <2>1 DEF Row
  <2> QED
    BY <1>1, <2>1, <2>2 DEF Shifted
<1> QED
  BY <1>1, <1>3 DEF PushInv

(* A dependency into one of the first tasks of the order comes out of an   *)
(* earlier one: neither of its ends is a task further on.                  *)
LEMMA PredecessorsFirst ==
  ASSUME LoopTypeInv, OrderInv, NEW k \in DOMAIN order, NEW d \in edges, d.succ = order[k],
         NEW n \in DOMAIN order, k <= n
  PROVE  d.pred # order[n] /\ (k < n => d.succ # order[n]) /\ d.pred \in ids
BY DEF LoopTypeInv, LoopTypeOK, OrderInv, edges, KnownDeps

LEMMA StartPushInv ==
  ASSUME LoopTypeInv, OrderInv, PushInv, StartTask
  PROVE  PushInv'
<1>1. /\ ids' = ids /\ edges' = edges /\ rows' = rows /\ order' = order
      /\ cur' = cur /\ saturated' = saturated /\ at = "push"
      /\ next \in DOMAIN order /\ next \in Nat /\ order[next] \in ids
  BY DEF StartTask, ids, edges, LoopTypeInv, LoopTypeOK
<1>2. OnlyMovesLater'
  BY <1>1 DEF PushInv, OnlyMovesLater
<1>3. CASE HasDates(cur[order[next]])
  <2>1. next' = next /\ at' = "scan" /\ left' = Incoming(edges, order[next]) /\ shift' = 0
    BY <1>3 DEF StartTask
  <2>2. Pushed' = Pushed
    BY <1>1, <2>1 DEF Pushed
  <2>3. ScanInv'
    BY <1>1, <2>1 DEF ScanInv
  <2> QED
    BY <1>1, <1>2, <2>1, <2>2, <2>3 DEF PushInv, BoundBy
<1>4. CASE ~HasDates(cur[order[next]])
  <2>1. next' = next + 1 /\ at' = "push"
    BY <1>4, <1>1 DEF StartTask, PassOver
  <2>2. Pushed' = Pushed \cup {order[next]}
    BY <1>1, <2>1 DEF Pushed, LoopTypeInv, LoopTypeOK
  <2>3. order[next] \notin Pushed
    BY <1>1 DEF Pushed, LoopTypeInv, LoopTypeOK
  <2>4. cur[order[next]] = rows[order[next]]
    BY <1>1, <2>3 DEF PushInv
  <2>5. \A d \in edges' \ saturated' :
          d.succ \in Pushed' /\ HasDates(cur'[d.pred]) /\ HasDates(cur'[d.succ])
            => Satisfied(d, cur'[d.pred], cur'[d.succ])
    BY <1>1, <1>4, <2>2 DEF PushInv
  <2>6. \A t \in Pushed' : cur'[t] # rows'[t] => \E d \in Incoming(edges', t) : BoundBy(t, d)'
    BY <1>1, <2>2, <2>4 DEF PushInv, BoundBy
  <2> QED
    BY <1>1, <1>2, <2>1, <2>2, <2>5, <2>6 DEF PushInv
<1> QED
  BY <1>3, <1>4

LEMMA ConsiderPushInv ==
  ASSUME LoopTypeInv, OrderInv, PushInv, NEW d \in left, Consider(d)
  PROVE  PushInv'
<1> DEFINE t == order[next]
           p == cur[d.pred]
<1>1. /\ ids' = ids /\ edges' = edges /\ rows' = rows /\ order' = order
      /\ cur' = cur /\ next' = next /\ at' = at /\ at = "scan" /\ left' = left \ {d}
      /\ Pushed' = Pushed
  BY DEF Consider, ids, edges, Pushed
<1>2. d \in edges /\ d \in Dep /\ d.succ = t /\ d.pred \in ids /\ t \in ids
  BY <1>1 DEF LoopTypeInv, LoopTypeOK, Incoming, edges, KnownDeps
<1>3. p \in Row /\ cur[t] \in Row /\ HasDates(cur[t]) /\ shift \in Nat
  BY <1>1, <1>2 DEF LoopTypeInv, LoopTypeOK
<1>4. saturated \subseteq saturated' /\ saturated' \subseteq saturated \cup {d}
  BY DEF Consider
<1>5. OnlyMovesLater'
  BY <1>1 DEF PushInv, OnlyMovesLater
<1>6. HasDates(p) => /\ Anchor(d, cur[t]) \in Int /\ Bound(d, p) \in Int
                     /\ Need(d, p, cur[t]) \in Nat
  BY <1>2, <1>3, ShiftedRow, NeedFacts
<1>7. shift' \in Nat /\ shift' >= shift
  BY <1>1, <1>2, <1>3, <1>6 DEF Consider, Larger
<1>8. ASSUME NEW e \in Incoming(edges, t) \ (left' \cup saturated'), HasDates(cur[e.pred])
      PROVE  Satisfied(e, cur[e.pred], Shifted(cur[t], shift'))
  <2>1. e \in Dep /\ e.pred \in ids /\ e.succ = t /\ cur[e.pred] \in Row
    BY <1>8 DEF Incoming, edges, KnownDeps, LoopTypeInv, LoopTypeOK
  <2>2. CASE e = d
    <3>1. Bound(d, p) - Anchor(d, cur[t]) <= MaxSpan
      BY <2>2, <1>2, <1>6, <1>8, ScheduleAssumption DEF Consider
    <3>2. shift' >= Need(d, p, cur[t])
      BY <2>2, <1>2, <1>3, <1>6, <1>8 DEF Consider, Larger
    <3> QED
      BY <3>1, <3>2, <2>2, <1>2, <1>3, <1>7, <1>8, NeedFacts
  <2>3. CASE e # d
    <3>1. Satisfied(e, cur[e.pred], Shifted(cur[t], shift))
      BY <2>3, <1>1, <1>4, <1>8 DEF PushInv, ScanInv
    <3>2. /\ Anchor(e, Shifted(cur[t], shift)) = Anchor(e, cur[t]) + shift
          /\ Anchor(e, Shifted(cur[t], shift')) = Anchor(e, cur[t]) + shift'
          /\ Anchor(e, cur[t]) \in Int
      BY <2>1, <1>3, <1>7, ShiftedRow
    <3>3. Bound(e, cur[e.pred]) \in Int
      BY <2>1, <1>8, ShiftedRow
    <3> QED
      BY <3>1, <3>2, <3>3, <1>3, <1>7 DEF Satisfied
  <2> QED
    BY <2>2, <2>3
<1>9. ASSUME shift' > 0
      PROVE  \E e \in Incoming(edges, t) \ left' :
               /\ HasDates(cur[e.pred])
               /\ \/ Anchor(e, cur[t]) + shift' = Bound(e, cur[e.pred])
                  \/ e \in saturated'
  <2>1. CASE shift' = shift
    <3>1. PICK e \in Incoming(edges, t) \ left :
               /\ HasDates(cur[e.pred])
               /\ \/ Anchor(e, cur[t]) + shift = Bound(e, cur[e.pred])
                  \/ e \in saturated
      BY <2>1, <1>1, <1>9 DEF PushInv, ScanInv
    <3> QED
      BY <3>1, <2>1, <1>1, <1>4
  <2>2. CASE shift' # shift
    <3>1. HasDates(p) /\ shift' = Need(d, p, cur[t])
      BY <2>2, <1>2 DEF Consider, Larger
    <3>2. d \in Incoming(edges, t) \ left'
      BY <1>1, <1>2 DEF Incoming
    <3>3. CASE Bound(d, p) - Anchor(d, cur[t]) <= MaxSpan
      <4>1. Need(d, p, cur[t]) = Bound(d, p) - Anchor(d, cur[t])
        BY <3>1, <3>3, <1>2, <1>3, <1>9, NeedFacts
      <4> QED
        BY <4>1, <3>1, <3>2, <1>6
    <3>4. CASE ~(Bound(d, p) - Anchor(d, cur[t]) <= MaxSpan)
      <4>1. d \in saturated'
        BY <3>1, <3>4, <1>2, <1>6, ScheduleAssumption DEF Consider
      <4> QED
        BY <4>1, <3>1, <3>2
    <3> QED
      BY <3>3, <3>4
  <2> QED
    BY <2>1, <2>2
<1>10. ScanInv'
  BY <1>1, <1>8, <1>9 DEF ScanInv
<1>11. \A u \in Pushed : cur[u] # rows[u] =>
         \E e \in Incoming(edges, u) : BoundBy(u, e)'
  BY <1>1, <1>4 DEF PushInv, BoundBy
<1> QED
  BY <1>1, <1>4, <1>5, <1>10, <1>11 DEF PushInv

LEMMA MovePushInv ==
  ASSUME LoopTypeInv, OrderInv, PushInv, NEW t \in ids, Move(t)
  PROVE  PushInv'
<1>1. /\ ids' = ids /\ edges' = edges /\ rows' = rows /\ order' = order
      /\ saturated' = saturated /\ next' = next + 1 /\ at = "scan" /\ at' = "push"
      /\ left = {} /\ t = order[next] /\ next \in DOMAIN order /\ next \in Nat
  BY DEF Move, ids, edges, LoopTypeInv, LoopTypeOK
<1>2. cur' = [cur EXCEPT ![t] = Shifted(cur[t], shift)] /\ cur \in [ids -> Row] /\ shift \in Nat
  BY DEF Move, Moved, LoopTypeInv, LoopTypeOK
<1>3. cur[t] \in Row /\ HasDates(cur[t])
  BY <1>1, <1>2 DEF LoopTypeInv
<1>4. Pushed' = Pushed \cup {t} /\ t \notin Pushed /\ Pushed \subseteq ids
  BY <1>1 DEF Pushed, LoopTypeInv, LoopTypeOK
<1>5. cur'[t] = Shifted(cur[t], shift) /\ HasDates(cur'[t])
  BY <1>2, <1>3, ScheduleAssumption DEF Row, Date, HasDates, Shifted
<1>6. \A u \in ids : u # t => cur'[u] = cur[u]
  BY <1>2
<1>7. cur[t] = rows[t]
  BY <1>4 DEF PushInv
<1>8. OnlyMovesLater'
  <2>1. /\ cur[t].start \in Int /\ cur[t].due \in Int
        /\ cur'[t].start = cur[t].start + shift
    BY <1>3, <1>5 DEF Row, Date, HasDates, Shifted
  <2>2. HasDates(rows[t]) /\ cur'[t].start - rows[t].start = shift
    BY <2>1, <1>2, <1>3, <1>7
  <2> QED
    BY <2>1, <2>2, <1>1, <1>2, <1>5, <1>6, <1>7 DEF PushInv, OnlyMovesLater
<1>9. ASSUME NEW d \in edges, d.succ \in Pushed'
      PROVE  /\ d.pred \in ids /\ d.pred # t
             /\ d.succ \in Pushed => d.succ # t
  <2>1. PICK k \in DOMAIN order : k <= next /\ d.succ = order[k]
    BY <1>1, <1>4, <1>9 DEF Pushed, LoopTypeInv, LoopTypeOK
  <2> QED
    BY <2>1, <1>1, <1>4, PredecessorsFirst
<1>10. ASSUME NEW d \in edges \ saturated, d.succ \in Pushed',
              HasDates(cur'[d.pred]), HasDates(cur'[d.succ])
       PROVE  Satisfied(d, cur'[d.pred], cur'[d.succ])
  <2>1. d.pred \in ids /\ cur'[d.pred] = cur[d.pred] /\ d.succ \in ids
    BY <1>6, <1>9, <1>10, <1>4
  <2>2. CASE d.succ = t
    BY <2>1, <2>2, <1>1, <1>5, <1>10 DEF PushInv, ScanInv, Incoming
  <2>3. CASE d.succ # t
    BY <2>1, <2>3, <1>4, <1>6, <1>10 DEF PushInv
  <2> QED
    BY <2>2, <2>3
<1>11. ASSUME NEW u \in Pushed', cur'[u] # rows[u]
       PROVE  \E d \in Incoming(edges, u) : BoundBy(u, d)'
  <2>1. CASE u = t
    <3>1. shift > 0
      <4>1. CASE shift = 0
        <5>1. cur[t] = [start |-> cur[t].start, due |-> cur[t].due]
              /\ cur[t].start \in Int /\ cur[t].due \in Int
          BY <1>3 DEF Row, Date, HasDates
        <5>2. Shifted(cur[t], shift) = cur[t]
          BY <4>1, <5>1 DEF Shifted
        <5> QED
          BY <5>2, <2>1, <1>5, <1>7, <1>11
      <4> QED
        BY <4>1, <1>2
    <3>2. PICK d \in Incoming(edges, t) :
             /\ HasDates(cur[d.pred])
             /\ \/ Anchor(d, cur[t]) + shift = Bound(d, cur[d.pred])
                \/ d \in saturated
      BY <3>1, <1>1 DEF PushInv, ScanInv
    <3>3. d \in Dep /\ d \in edges /\ d.succ \in Pushed'
      BY <1>4 DEF Incoming, edges, KnownDeps, LoopTypeInv, LoopTypeOK
    <3>4. cur'[d.pred] = cur[d.pred]
      BY <3>3, <1>6, <1>9
    <3>5. Anchor(d, cur'[t]) = Anchor(d, cur[t]) + shift
      BY <3>3, <1>2, <1>3, <1>5, ShiftedRow
    <3> QED
      BY <3>2, <3>4, <3>5, <2>1, <1>1 DEF BoundBy
  <2>2. CASE u # t
    <3>1. u \in Pushed /\ u \in ids /\ cur'[u] = cur[u]
      BY <2>2, <1>4, <1>6
    <3>2. PICK d \in Incoming(edges, u) : BoundBy(u, d)
      BY <3>1, <1>11 DEF PushInv
    <3>3. cur'[d.pred] = cur[d.pred]
      BY <3>1, <1>4, <1>6, <1>9 DEF Incoming
    <3> QED
      BY <3>1, <3>2, <3>3, <1>1 DEF BoundBy
  <2> QED
    BY <2>1, <2>2
<1>12. \A u \in ids \ Pushed' : cur'[u] = rows[u]
  BY <1>4, <1>6 DEF PushInv
<1> QED
  BY <1>1, <1>8, <1>10, <1>11, <1>12 DEF PushInv

(* The first loop and the returns touch none of this.                      *)
LEMMA OtherPushInv ==
  ASSUME LoopTypeInv, PushInv,
         (\E t \in ids : Pop(t)) \/ StopOrdering \/ Return \/ UNCHANGED loopVars
  PROVE  PushInv'
<1>1. /\ ids' = ids /\ edges' = edges /\ rows' = rows /\ cur' = cur /\ next' = next
      /\ saturated' = saturated /\ left' = left /\ shift' = shift
  BY DEF Pop, StopOrdering, Return, loopVars, ids, edges
<1>2. OnlyMovesLater'
  BY <1>1 DEF PushInv, OnlyMovesLater
<1>3. CASE at = "order"
  <2>1. Pushed = {} /\ Pushed' = {} /\ next = 1
    BY <1>1, <1>3 DEF PushInv, Pushed
  <2>2. at' \in {"order", "push"}
    BY <1>3 DEF Pop, StopOrdering, Return, loopVars
  <2> QED
    BY <1>1, <1>2, <2>1, <2>2 DEF PushInv
<1>4. CASE at # "order"
  <2>1. order' = order /\ Pushed' = Pushed
    BY <1>1, <1>4 DEF Pop, StopOrdering, Return, loopVars, Pushed
  <2>2. at' = at \/ (at' = "done" /\ next = Len(order) + 1)
    BY <1>4 DEF Pop, StopOrdering, Return, loopVars, LoopTypeInv, LoopTypeOK
  <2>3. ScanInv => ScanInv'
    BY <1>1, <2>1 DEF ScanInv
  <2>4. \A u, d : BoundBy(u, d)' <=> BoundBy(u, d)
    BY <1>1 DEF BoundBy
  <2> QED
    BY <1>1, <1>2, <1>4, <2>1, <2>2, <2>3, <2>4 DEF PushInv
<1> QED
  BY <1>3, <1>4

-----------------------------------------------------------------------------
LoopInv == LoopTypeInv /\ OrderInv /\ PushInv

LEMMA LoopInductive == LoopSpec => []LoopInv
<1>1. LoopInit => LoopInv
  BY InitTypeInv, InitOrderInv, InitPushInv DEF LoopInv
<1>2. LoopInv /\ [LoopNext]_loopVars => LoopInv'
  <2> SUFFICES ASSUME LoopInv, [LoopNext]_loopVars PROVE LoopInv'
    OBVIOUS
  <2>1. LoopTypeInv' /\ OrderInv'
    BY NextTypeInv, NextOrderInv DEF LoopInv
  <2>2. PushInv'
    BY StartPushInv, ConsiderPushInv, MovePushInv, OtherPushInv DEF LoopInv, LoopNext
  <2> QED
    BY <2>1, <2>2 DEF LoopInv
<1> QED
  BY <1>1, <1>2, PTL DEF LoopSpec

(* Whatever the dates and the dependencies, on return every dependency     *)
(* between two dated tasks that were ordered holds, unless the days        *)
(* between them exceed the longest time.Duration (schedule.go:32-35).      *)
THEOREM ConstraintsHoldOnReturn == LoopSpec => []ConstraintsHold
<1>1. LoopInv => ConstraintsHold
  <2> SUFFICES ASSUME LoopInv, at = "done" PROVE ConstraintsHold
    BY DEF ConstraintsHold
  <2>1. Pushed = ordered
    BY DEF LoopInv, PushInv, LoopTypeInv, LoopTypeOK, Pushed, ordered
  <2> QED
    BY <2>1 DEF LoopInv, PushInv, ConstraintsHold
<1> QED
  BY <1>1, LoopInductive, PTL

(* No task is ever pulled earlier and none changes its duration            *)
(* (schedule.go:33-34).                                                    *)
THEOREM NeverEarlier == LoopSpec => []OnlyMovesLater
<1>1. LoopInv => OnlyMovesLater
  BY DEF LoopInv, PushInv
<1> QED
  BY <1>1, LoopInductive, PTL

(* A task that moved meets one of its own dependencies exactly: it was not *)
(* pushed further than it had to be (schedule.go:90-117).                  *)
THEOREM MovesAreNeeded == LoopSpec => []MovedOnlyAsNeeded
<1>1. LoopInv => MovedOnlyAsNeeded
  <2> SUFFICES ASSUME LoopInv, at = "done", NEW t \in ids, cur[t] # rows[t]
               PROVE  \E d \in Incoming(edges, t) : BoundBy(t, d)
    BY DEF MovedOnlyAsNeeded, BoundBy
  <2>1. t \in Pushed
    BY DEF LoopInv, PushInv
  <2> QED
    BY <2>1 DEF LoopInv, PushInv
<1> QED
  BY <1>1, LoopInductive, PTL

(* Together: the schedule returned is the least that satisfies the         *)
(* dependencies.                                                           *)
THEOREM EarliestSchedule == LoopSpec => []LeastFeasible
<1>1. ConstraintsHold /\ MovedOnlyAsNeeded => LeastFeasible
  BY DEF LeastFeasible
<1> QED
  BY <1>1, ConstraintsHoldOnReturn, MovesAreNeeded, PTL

-----------------------------------------------------------------------------
(***************************************************************************)
(* The loops compute the function: what the pass has left behind is        *)
(* settled, and the task it works on has the largest of the needs it has   *)
(* looked at.                                                              *)
(***************************************************************************)
Considered == {Need(d, cur[d.pred], cur[order[next]]) :
                 d \in {e \in Incoming(edges, order[next]) \ left : HasDates(cur[e.pred])}}

ExactInv ==
  /\ at = "scan" => shift \in {0} \cup Considered /\ \A x \in Considered : x <= shift
  /\ \A t \in Pushed : Settled(t, rows, cur, edges)

LEMMA EdgesAmong ==
  ASSUME LoopTypeInv
  PROVE  Among(edges, ids)
BY DEF Among, edges, KnownDeps, LoopTypeInv, LoopTypeOK

LEMMA StartExactInv ==
  ASSUME LoopTypeInv, PushInv, ExactInv, StartTask
  PROVE  ExactInv'
<1> DEFINE t == order[next]
<1>1. /\ edges' = edges /\ rows' = rows /\ order' = order /\ cur' = cur
      /\ next \in DOMAIN order /\ next \in Nat /\ t \in ids
  BY DEF StartTask, ids, edges, LoopTypeInv, LoopTypeOK
<1>2. \A u : Settled(u, rows, cur, edges)' <=> Settled(u, rows, cur, edges)
  BY <1>1 DEF Settled
<1>3. CASE HasDates(cur[t])
  <2>1. next' = next /\ left' = Incoming(edges, t) /\ shift' = 0
    BY <1>3 DEF StartTask
  <2>2. Considered' = {} /\ Pushed' = Pushed
    BY <1>1, <2>1 DEF Considered, Pushed
  <2> QED
    BY <1>2, <2>1, <2>2 DEF ExactInv
<1>4. CASE ~HasDates(cur[t])
  <2>1. next' = next + 1 /\ at' = "push"
    BY <1>4 DEF StartTask, PassOver
  <2>2. Pushed' = Pushed \cup {t} /\ t \notin Pushed
    BY <1>1, <2>1 DEF Pushed, LoopTypeInv, LoopTypeOK
  <2>3. cur[t] = rows[t] /\ cur \in [ids -> Row]
    BY <1>1, <2>2 DEF PushInv, LoopTypeInv, LoopTypeOK
  <2>4. [cur EXCEPT ![t] = rows[t]] = cur
    BY <1>1, <2>3
  <2>5. Settled(t, rows, cur, edges)
    BY <1>4, <2>4 DEF Settled, Push
  <2> QED
    BY <1>2, <2>1, <2>2, <2>5 DEF ExactInv
<1> QED
  BY <1>3, <1>4

LEMMA ConsiderExactInv ==
  ASSUME LoopTypeInv, ExactInv, NEW d \in left, Consider(d)
  PROVE  ExactInv'
<1> DEFINE t == order[next]
           p == cur[d.pred]
           need == Need(d, p, cur[t])
<1>1. /\ edges' = edges /\ rows' = rows /\ order' = order /\ cur' = cur /\ next' = next
      /\ at = "scan" /\ left' = left \ {d} /\ Pushed' = Pushed
  BY DEF Consider, edges, ids, Pushed
<1>2. d \in Incoming(edges, t) /\ d \in Dep /\ d.succ = t /\ d.pred \in ids /\ t \in ids
  BY <1>1 DEF LoopTypeInv, LoopTypeOK, Incoming, edges, KnownDeps
<1>3. p \in Row /\ cur[t] \in Row /\ HasDates(cur[t]) /\ shift \in Nat
  BY <1>1, <1>2 DEF LoopTypeInv, LoopTypeOK
<1>4. HasDates(p) => need \in Nat
  BY <1>2, <1>3, NeedFacts
<1>5. Considered' = Considered \cup (IF HasDates(p) THEN {need} ELSE {})
  BY <1>1, <1>2 DEF Considered
<1>6. shift' = IF HasDates(p) /\ need > shift THEN need ELSE shift
  BY <1>2 DEF Consider, Larger
<1>7. \A x \in Considered : x \in Nat
  <2> SUFFICES ASSUME NEW e \in Incoming(edges, t), HasDates(cur[e.pred])
               PROVE  Need(e, cur[e.pred], cur[t]) \in Nat
    BY DEF Considered
  <2>1. e \in Dep /\ cur[e.pred] \in Row
    BY DEF Incoming, edges, KnownDeps, LoopTypeInv, LoopTypeOK
  <2> QED
    BY <2>1, <1>3, NeedFacts
<1>8. shift \in {0} \cup Considered /\ \A x \in Considered : x <= shift
  BY <1>1 DEF ExactInv
<1> HIDE DEF need
<1>9. shift' \in {0} \cup Considered' /\ \A x \in Considered' : x <= shift'
  BY <1>3, <1>4, <1>5, <1>6, <1>7, <1>8
<1>10. \A u : Settled(u, rows, cur, edges)' <=> Settled(u, rows, cur, edges)
  BY <1>1 DEF Settled
<1> QED
  BY <1>1, <1>9, <1>10 DEF ExactInv

LEMMA MoveExactInv ==
  ASSUME LoopTypeInv, OrderInv, PushInv, ExactInv, NEW t \in ids, Move(t)
  PROVE  ExactInv'
<1>1. /\ edges' = edges /\ rows' = rows /\ order' = order /\ next' = next + 1
      /\ at = "scan" /\ at' = "push" /\ left = {} /\ t = order[next] /\ next \in DOMAIN order /\ next \in Nat
  BY DEF Move, ids, edges, LoopTypeInv, LoopTypeOK
<1>2. /\ cur' = [cur EXCEPT ![t] = Shifted(cur[t], shift)] /\ cur \in [ids -> Row] /\ shift \in Nat
      /\ HasDates(cur[t])
  BY <1>1 DEF Move, Moved, LoopTypeInv, LoopTypeOK
<1>3. Pushed' = Pushed \cup {t} /\ t \notin Pushed /\ Pushed \subseteq ids
  <2>1. /\ next \in 1 .. Len(order) /\ Len(order) \in Nat /\ DOMAIN order = 1 .. Len(order)
        /\ \A k \in 1 .. Len(order) : order[k] \in ids
        /\ \A i, j \in DOMAIN order : order[i] = order[j] => i = j
    BY <1>1 DEF LoopTypeInv, LoopTypeOK
  <2>2. Pushed' = {order[k] : k \in 1 .. next}
    BY <1>1 DEF Pushed
  <2>3. 1 .. next = (1 .. next - 1) \cup {next}
    BY <2>1
  <2>4. \A k \in 1 .. next - 1 : k \in DOMAIN order /\ k # next
    BY <2>1
  <2>5. Pushed' = Pushed \cup {order[next]}
    BY <2>2, <2>3 DEF Pushed
  <2>6. order[next] \notin Pushed
    <3> SUFFICES ASSUME NEW k \in 1 .. next - 1 PROVE order[k] # order[next]
      BY DEF Pushed
    <3> QED
      BY <1>1, <2>1, <2>4
  <2>7. Pushed \subseteq ids
    <3> SUFFICES ASSUME NEW k \in 1 .. next - 1 PROVE order[k] \in ids
      BY DEF Pushed
    <3> QED
      BY <2>1, <2>4
  <2> QED
    BY <1>1, <2>5, <2>6, <2>7
<1>4. cur[t] = rows[t] /\ rows \in [ids -> Row]
  BY <1>3 DEF PushInv, LoopTypeInv, LoopTypeOK
<1>5. Considered = Needs(t, cur, edges)
  BY <1>1 DEF Considered, Needs
<1>6. PICK k \in 0 .. MaxSpan :
        /\ Push(t, cur, edges) = Shifted(cur[t], k)
        /\ k \in {0} \cup Considered /\ \A x \in Considered : x <= k
  BY <1>2, <1>5, EdgesAmong, PushFacts
<1>7. k = shift
  <2>1. shift \in {0} \cup Considered /\ \A x \in Considered : x <= shift
    BY <1>1 DEF ExactInv
  <2>2. k \in Nat
    BY <1>6, ScheduleAssumption
  <2>3. k <= shift
    BY <1>6, <2>1, <1>2
  <2>4. shift <= k
    BY <1>6, <2>1, <2>2
  <2> QED
    BY <2>2, <2>3, <2>4, <1>2
<1>8. [cur' EXCEPT ![t] = rows[t]] = cur /\ cur'[t] = Shifted(cur[t], shift)
  BY <1>2, <1>4
<1>9. Settled(t, rows, cur', edges)
  BY <1>6, <1>7, <1>8 DEF Settled
<1>10. ASSUME NEW u \in Pushed
       PROVE  Settled(u, rows, cur', edges)
  <2> DEFINE a == [cur EXCEPT ![u] = rows[u]]
             b == [cur' EXCEPT ![u] = rows[u]]
  <2>1. u \in ids /\ u # t /\ a[u] = rows[u] /\ b[u] = rows[u] /\ cur'[u] = cur[u]
    BY <1>2, <1>3
  <2>2. ASSUME NEW d \in Incoming(edges, u)
        PROVE  a[d.pred] = b[d.pred]
    <3>1. PICK j \in DOMAIN order : j <= next /\ u = order[j]
      BY <1>1 DEF Pushed, LoopTypeInv, LoopTypeOK
    <3>2. d \in edges /\ d.succ = order[j]
      BY <3>1 DEF Incoming
    <3>3. d.pred # t /\ d.pred \in ids
      BY <3>1, <3>2, <1>1, PredecessorsFirst
    <3> QED
      BY <3>3, <1>2, <2>1
  <2>3. cur[u] = Push(u, a, edges)
    BY DEF ExactInv, Settled
  <2>4. Push(u, a, edges) = Push(u, b, edges)
    <3> HIDE DEF a, b
    <3> QED
      BY <2>1, <2>2, PushReads
  <2> QED
    BY <2>1, <2>3, <2>4 DEF Settled
<1> QED
  BY <1>1, <1>3, <1>9, <1>10 DEF ExactInv

LEMMA OtherExactInv ==
  ASSUME LoopTypeInv, PushInv, ExactInv,
         (\E t \in ids : Pop(t)) \/ StopOrdering \/ Return \/ UNCHANGED loopVars
  PROVE  ExactInv'
<1>1. /\ edges' = edges /\ rows' = rows /\ cur' = cur /\ next' = next
      /\ left' = left /\ shift' = shift
  BY DEF Pop, StopOrdering, Return, loopVars, ids, edges
<1>2. \A u : Settled(u, rows, cur, edges)' <=> Settled(u, rows, cur, edges)
  BY <1>1 DEF Settled
<1>3. CASE at = "order"
  <2>1. Pushed' = {} /\ at' # "scan"
    BY <1>1, <1>3 DEF PushInv, Pushed, Pop, StopOrdering, Return, loopVars
  <2> QED
    BY <2>1 DEF ExactInv
<1>4. CASE at # "order"
  <2>1. order' = order /\ (at' = "scan" => at = "scan")
    BY <1>4 DEF Pop, StopOrdering, Return, loopVars
  <2>2. Pushed' = Pushed /\ Considered' = Considered
    BY <1>1, <2>1 DEF Pushed, Considered
  <2> QED
    BY <1>1, <1>2, <2>1, <2>2 DEF ExactInv
<1> QED
  BY <1>3, <1>4

(* Whatever order the map hands out the tasks in, the two loops return     *)
(* what the function Normalize is (schedule.go:36-131).                    *)
THEOREM LoopsAgree ==
  ASSUME IsFiniteSet(Tasks)
  PROVE  LoopSpec => []LoopsComputeNormalize
<1>1. LoopInit => ExactInv
  BY DEF LoopInit, ExactInv, Pushed
<1>2. LoopInv /\ ExactInv /\ [LoopNext]_loopVars => ExactInv'
  BY StartExactInv, ConsiderExactInv, MoveExactInv, OtherExactInv DEF LoopInv, LoopNext
<1>3. LoopInv /\ ExactInv => LoopsComputeNormalize
  <2> SUFFICES ASSUME LoopInv, ExactInv, at = "done"
               PROVE  cur = Normalize(rows, arcs)
    BY DEF LoopsComputeNormalize
  <2>1. LoopTypeInv /\ PushInv /\ ordered = ids \ Stuck(ids, edges)
    BY DEF LoopInv, OrderInv, OrderSkipsOnlyCycles
  <2>2. Pushed = ordered
    BY <2>1 DEF PushInv, LoopTypeInv, LoopTypeOK, Pushed, ordered
  <2>3. cur \in [ids -> Row] /\ rows \in [ids -> Row] /\ ids \subseteq Tasks /\ arcs \in SUBSET Dep
    BY <2>1 DEF LoopTypeInv, LoopTypeOK
  <2>4. Rescheduled(cur, rows, ids, edges)
    BY <2>1, <2>2, <2>3 DEF Rescheduled, PushInv, ExactInv, Stuck
  <2>5. IsFiniteSet(ids)
    BY <2>3, FS_Subset
  <2>6. Rescheduled(Normalize(rows, arcs), rows, ids, edges)
    BY <2>3, <2>5, NormalizeReschedules DEF edges
  <2> QED
    BY <2>1, <2>4, <2>6, EdgesAmong, RescheduledIsOne
<1> QED
  BY <1>1, <1>2, <1>3, LoopInductive, PTL DEF LoopSpec

-----------------------------------------------------------------------------
(* The search.                                                             *)

LEMMA SuccessorsFinite ==
  ASSUME IsFiniteSet(graph), NEW n
  PROVE  IsFiniteSet(Successors(n))
<1> DEFINE E == {e \in graph : e.pred = n}
           f == [d \in E |-> d.succ]
<1>1. IsFiniteSet(E)
  BY FS_Subset
<1>2. f \in Surjection(E, Successors(n))
  BY DEF Successors, Surjection
<1> QED
  BY <1>1, <1>2, FS_Surjection

(* A sequence of SetToSeqs(S) has the members of S and nothing else.       *)
LEMMA SeqsOfSet ==
  ASSUME NEW S, IsFiniteSet(S), NEW s \in SetToSeqs(S)
  PROVE  /\ s \in Seq(S)
         /\ \A x \in S : \E k \in DOMAIN s : s[k] = x
<1> DEFINE n == Cardinality(S)
<1>1. n \in Nat
  BY FS_CardinalityType
<1>2. s \in [1 .. n -> S] /\ \A i, j \in 1 .. n : i # j => s[i] # s[j]
  BY DEF SetToSeqs
<1>3. ASSUME NEW x \in S, ~\E k \in 1 .. n : s[k] = x
      PROVE  FALSE
  <2>1. IsFiniteSet(1 .. n) /\ Cardinality(1 .. n) = n
    BY <1>1, FS_Interval
  <2>2. IsFiniteSet(S \ {x}) /\ Cardinality(S \ {x}) = n - 1
    BY FS_RemoveElement
  <2>3. s \in [1 .. n -> S \ {x}]
    BY <1>2, <1>3
  <2>4. \E i, j \in 1 .. n : i # j /\ s[i] = s[j]
    BY <1>1, <2>1, <2>2, <2>3, FS_PigeonHole
  <2> QED
    BY <2>4, <1>2
<1> QED
  BY <1>1, <1>2, <1>3

-----------------------------------------------------------------------------
OnStack == {stack[k] : k \in DOMAIN stack}

(***************************************************************************)
(* The tasks seen and those on the stack are all reachable; together they  *)
(* have the start and the successors of every task seen; the target is not *)
(* seen.  Once the stack is empty, the tasks seen are a closed set without *)
(* the target.                                                             *)
(***************************************************************************)
SearchInv ==
  /\ SearchTypeOK
  /\ \A n \in seen \cup OnStack : Reaches(graph, from, n)
  /\ answer = "searching" => /\ from \in seen \cup OnStack
                             /\ \A n \in seen : Successors(n) \subseteq seen \cup OnStack
                             /\ target \notin seen
  /\ answer = "yes" => Reaches(graph, from, target)
  /\ answer = "no" => ~Reaches(graph, from, target)

LEMMA InitSearchInv == SearchInit => SearchInv
<1> SUFFICES ASSUME SearchInit PROVE SearchInv
  OBVIOUS
<1>1. SearchTypeOK
  BY GraphAssumption DEF SearchInit, SearchTypeOK
<1>2. OnStack = {from}
  BY DEF SearchInit, OnStack
<1>3. Reaches(graph, from, from)
  BY DEF Reaches
<1> QED
  BY <1>1, <1>2, <1>3 DEF SearchInit, SearchInv

(* The top of the stack and the rest of it.                                *)
LEMMA TopAndRest ==
  ASSUME SearchInv, NEW n \in Tasks, OnTop(n)
  PROVE  /\ n \in OnStack
         /\ Front(stack) \in Seq(Tasks)
         /\ OnStack = {n} \cup {Front(stack)[k] : k \in DOMAIN Front(stack)}
<1>0. stack \in Seq(Tasks) /\ stack # <<>> /\ n = stack[Len(stack)]
  BY DEF SearchInv, SearchTypeOK, OnTop, Last
<1>1. stack \in Seq(Tasks) /\ Len(stack) \in Nat \ {0} /\ n = stack[Len(stack)]
  BY <1>0, EmptySeq, LenProperties
<1> DEFINE last == Len(stack)
           front == Front(stack)
<1>2. last \in Nat \ {0} /\ DOMAIN stack = 1 .. last /\ front = SubSeq(stack, 1, last - 1)
  BY <1>1, LenProperties DEF Front
<1>3. /\ front \in Seq(Tasks) /\ DOMAIN front = 1 .. last - 1
      /\ \A k \in 1 .. last - 1 : front[k] = stack[k]
  BY <1>1, <1>2, SubSeqProperties
<1>4. \A k : k \in 1 .. last <=> k \in 1 .. last - 1 \/ k = last
  BY <1>2
<1> QED
  BY <1>1, <1>2, <1>3, <1>4 DEF OnStack

LEMMA FoundKeeps ==
  ASSUME SearchInv, NEW n \in Tasks, Found(n)
  PROVE  SearchInv'
<1>1. OnTop(n) /\ n = target /\ answer' = "yes" /\ stack' = Front(stack)
      /\ UNCHANGED <<graph, from, target, seen>>
  BY DEF Found
<1>2. n \in OnStack /\ stack' \in Seq(Tasks) /\ OnStack' \subseteq OnStack
  BY <1>1, TopAndRest DEF OnStack
<1>3. Reaches(graph, from, target)
  BY <1>1, <1>2 DEF SearchInv
<1>4. SearchTypeOK'
  BY <1>1, <1>2 DEF SearchInv, SearchTypeOK
<1> QED
  BY <1>1, <1>2, <1>3, <1>4 DEF SearchInv, Reaches

LEMMA SkipKeeps ==
  ASSUME SearchInv, NEW n \in Tasks, SkipSeen(n)
  PROVE  SearchInv'
<1>1. OnTop(n) /\ n \in seen /\ stack' = Front(stack)
      /\ UNCHANGED <<graph, from, target, seen, answer>>
  BY DEF SkipSeen
<1>2. stack' \in Seq(Tasks) /\ seen' \cup OnStack' = seen \cup OnStack
  BY <1>1, TopAndRest DEF OnStack
<1>3. SearchTypeOK'
  BY <1>1, <1>2 DEF SearchInv, SearchTypeOK
<1>4. \A m : Successors(m)' = Successors(m)
  BY <1>1 DEF Successors
<1> QED
  BY <1>1, <1>2, <1>3, <1>4 DEF SearchInv, Reaches

LEMMA VisitKeeps ==
  ASSUME SearchInv, NEW n \in Tasks, Visit(n)
  PROVE  SearchInv'
<1>1. OnTop(n) /\ n # target /\ n \notin seen /\ seen' = seen \cup {n}
      /\ answer = "searching" /\ UNCHANGED <<graph, from, target, answer>>
  BY DEF Visit, OnTop
<1>2. PICK s \in SetToSeqs(Successors(n)) : stack' = Front(stack) \o s
  BY DEF Visit
<1>3. Successors(n) \subseteq Tasks
  BY DEF Successors, SearchInv, SearchTypeOK, Dep
<1>4. s \in Seq(Successors(n)) /\ \A x \in Successors(n) : \E k \in DOMAIN s : s[k] = x
  BY SuccessorsFinite, SeqsOfSet DEF SearchInv, SearchTypeOK
<1>5. {s[k] : k \in DOMAIN s} = Successors(n) /\ s \in Seq(Tasks)
  BY <1>3, <1>4
<1>6. Front(stack) \in Seq(Tasks) /\ stack' \in Seq(Tasks)
  BY <1>1, <1>2, <1>5, TopAndRest
<1>7. OnStack' = {Front(stack)[k] : k \in DOMAIN Front(stack)} \cup Successors(n)
  <2> DEFINE a == Front(stack)
  <2>1. a \in Seq(Tasks) /\ s \in Seq(Tasks) /\ stack' = a \o s
    BY <1>2, <1>5, <1>6
  <2>2. /\ DOMAIN stack' = 1 .. Len(a) + Len(s)
        /\ DOMAIN a = 1 .. Len(a) /\ DOMAIN s = 1 .. Len(s)
        /\ Len(a) \in Nat /\ Len(s) \in Nat
        /\ \A k \in 1 .. Len(a) : stack'[k] = a[k]
        /\ \A k \in 1 .. Len(s) : stack'[Len(a) + k] = s[k]
    BY <2>1
  <2>3. \A k \in 1 .. Len(a) + Len(s) :
          k \in 1 .. Len(a) \/ (k - Len(a) \in 1 .. Len(s) /\ stack'[k] = s[k - Len(a)])
    BY <2>2
  <2>4. OnStack' = {a[k] : k \in DOMAIN a} \cup {s[k] : k \in DOMAIN s}
    <3> HIDE DEF a
    <3>1. ASSUME NEW x \in OnStack'
          PROVE  x \in {a[k] : k \in DOMAIN a} \cup {s[k] : k \in DOMAIN s}
      <4>1. PICK k \in 1 .. Len(a) + Len(s) : x = stack'[k]
        BY <2>2 DEF OnStack
      <4> QED
        BY <4>1, <2>2, <2>3
    <3>2. ASSUME NEW k \in 1 .. Len(a)
          PROVE  a[k] \in OnStack'
      <4>1. k \in DOMAIN stack' /\ a[k] = stack'[k]
        BY <2>2
      <4> QED
        BY <4>1 DEF OnStack
    <3>3. ASSUME NEW k \in 1 .. Len(s)
          PROVE  s[k] \in OnStack'
      <4>1. Len(a) + k \in DOMAIN stack' /\ s[k] = stack'[Len(a) + k]
        BY <2>2
      <4> QED
        BY <4>1 DEF OnStack
    <3> QED
      BY <2>2, <3>1, <3>2, <3>3
  <2> QED
    BY <2>4, <1>5
<1>8. seen' \cup OnStack' = seen \cup OnStack \cup Successors(n)
  BY <1>1, <1>7, TopAndRest
<1>9. n \in OnStack
  BY <1>1, TopAndRest
<1>10. \A x \in Successors(n) : Reaches(graph, from, x)
  BY <1>9 DEF SearchInv, Reaches, Closed, Successors
<1>11. SearchTypeOK'
  BY <1>1, <1>6 DEF SearchInv, SearchTypeOK
<1>12. \A m : Successors(m)' = Successors(m)
  BY <1>1 DEF Successors
<1>13. \A m \in seen' \cup OnStack' : Reaches(graph, from, m)'
  BY <1>1, <1>8, <1>10 DEF SearchInv, Reaches
<1>14. from \in seen' \cup OnStack' /\ target \notin seen'
  BY <1>1, <1>8 DEF SearchInv
<1>15. \A m \in seen' : Successors(m) \subseteq seen' \cup OnStack'
  BY <1>1, <1>8 DEF SearchInv
<1> QED
  BY <1>1, <1>11, <1>12, <1>13, <1>14, <1>15 DEF SearchInv

LEMMA ExhaustedKeeps ==
  ASSUME SearchInv, Exhausted
  PROVE  SearchInv'
<1>1. answer = "searching" /\ stack = <<>> /\ answer' = "no"
      /\ UNCHANGED <<graph, from, target, stack, seen>>
  BY DEF Exhausted
<1>2. OnStack = {} /\ OnStack' = OnStack
  BY <1>1 DEF OnStack
<1>3. from \in seen /\ target \notin seen /\ seen \in SUBSET Tasks
  BY <1>1, <1>2 DEF SearchInv, SearchTypeOK
<1>4. Closed(seen, graph)
  BY <1>1, <1>2 DEF SearchInv, Closed, Successors
<1>5. ~Reaches(graph, from, target)
  BY <1>3, <1>4 DEF Reaches
<1>6. SearchTypeOK'
  BY <1>1 DEF SearchInv, SearchTypeOK
<1> QED
  BY <1>1, <1>2, <1>5, <1>6 DEF SearchInv, Reaches

(* dependencies.go:92 rejects a dependency exactly when the search from    *)
(* its successor reaches its predecessor: the answer is right both ways,   *)
(* for graphs of any size, cyclic ones included.                           *)
THEOREM SearchCorrect == SearchSpec => []SearchIsReaches
<1>1. SearchInv /\ [SearchNext]_searchVars => SearchInv'
  <2> SUFFICES ASSUME SearchInv, [SearchNext]_searchVars PROVE SearchInv'
    OBVIOUS
  <2>1. CASE UNCHANGED searchVars
    <3>1. UNCHANGED <<graph, from, target, stack, seen, answer>>
      BY <2>1 DEF searchVars
    <3>2. OnStack' = OnStack /\ \A n : Successors(n)' = Successors(n)
      BY <3>1 DEF OnStack, Successors
    <3>3. SearchTypeOK'
      BY <3>1 DEF SearchInv, SearchTypeOK
    <3> QED
      BY <3>1, <3>2, <3>3 DEF SearchInv, Reaches
  <2> QED
    BY <2>1, FoundKeeps, SkipKeeps, VisitKeeps, ExhaustedKeeps DEF SearchNext
<1>2. SearchInv => SearchIsReaches
  BY DEF SearchInv, SearchTypeOK, SearchIsReaches
<1> QED
  BY InitSearchInv, <1>1, <1>2, PTL DEF SearchSpec

-----------------------------------------------------------------------------
(* The handlers.                                                           *)

(***************************************************************************)
(* What the cycle check is for.  If the successor of d does not reach its  *)
(* predecessor, a closed set K has the one and not the other; a knot of    *)
(* the larger graph would have a knot outside K, so it lies inside K, and  *)
(* there d plays no part.                                                  *)
(***************************************************************************)
LEMMA AddEdge ==
  ASSUME NEW D, NEW d \in Dep, Acyclic(D), ~Reaches(D, d.succ, d.pred)
  PROVE  Acyclic(D \cup {d})
<1>1. PICK K \in SUBSET Tasks : d.succ \in K /\ Closed(K, D) /\ d.pred \notin K
  BY DEF Reaches
<1> SUFFICES ASSUME NEW C \in SUBSET Tasks, Knotted(C, D \cup {d})
             PROVE  C = {}
  BY DEF Acyclic
<1>2. Knotted(C \ K, D)
  <2> SUFFICES ASSUME NEW t \in C, t \notin K
               PROVE  \E e \in D : e.succ = t /\ e.pred \in C \ K
    BY DEF Knotted
  <2>1. PICK e \in D \cup {d} : e.succ = t /\ e.pred \in C
    BY DEF Knotted
  <2> QED
    BY <2>1, <1>1 DEF Closed
<1>3. C \subseteq K
  BY <1>2 DEF Acyclic
<1>4. Knotted(C, D)
  BY <1>1, <1>3 DEF Knotted
<1> QED
  BY <1>4 DEF Acyclic

(* Fewer dependencies have no more cycles and reach no further.            *)
LEMMA FewerEdges ==
  ASSUME NEW D, NEW E, E \subseteq D
  PROVE  /\ Acyclic(D) => Acyclic(E)
         /\ \A s, t : ~Reaches(D, s, t) => ~Reaches(E, s, t)
BY DEF Acyclic, Knotted, Reaches, Closed

-----------------------------------------------------------------------------
LEMMA InitTablesOK == Init => TablesOK
<1> SUFFICES ASSUME Init PROVE TablesOK
  OBVIOUS
<1>1. live \in SUBSET used /\ used \in SUBSET Tasks /\ requests \in 0 .. MaxRequests
  BY SchedulingAssumption DEF Init
<1>2. OnePerPair(deps) /\ deps \in SUBSET Dep
  BY DEF Init, OnePerPair
<1> QED
  BY <1>1, <1>2 DEF Init, TablesOK, Steps

LEMMA NextTablesOK == TablesOK /\ [Next]_vars => TablesOK'
<1> SUFFICES ASSUME TablesOK, [Next]_vars PROVE TablesOK'
  OBVIOUS
<1> USE SchedulingAssumption DEF TablesOK, Steps, Goto, Answer, Disturb, DisturbAll,
          tables, locals, history
<1>1. ASSUME NEW h \in Handlers, NEW d \in [pred : Tasks, succ : Tasks, type : InputTypes],
             CheckDependency(h, d)
      PROVE  TablesOK'
  <2>1. d \in Dep
    BY DEF Dep
  <2> QED
    BY <2>1, <1>1 DEF CheckDependency, Request
<1>2. ASSUME NEW h \in Handlers, InsertDependency(h)
      PROVE  TablesOK'
  <2>1. edge[h] \in Dep /\ edge' = [edge EXCEPT ![h] = NoDep]
    BY <1>2 DEF InsertDependency
  <2>2. CASE deps' = deps
    BY <1>2, <2>1, <2>2 DEF InsertDependency
  <2>3. CASE deps' # deps
    <3>1. /\ deps' = deps \cup {edge[h]}
          /\ edge[h].pred \in live /\ edge[h].succ \in live
          /\ \A e \in deps : ~(e.pred = edge[h].pred /\ e.succ = edge[h].succ)
      BY <1>2, <2>3 DEF InsertDependency
    <3>2. OnePerPair(deps')
      BY <3>1 DEF OnePerPair
    <3>3. deps' \in SUBSET Dep /\ live' = live
          /\ \A d \in deps' : d.pred \in live /\ d.succ \in live
      BY <3>1, <2>1, <1>2 DEF InsertDependency
    <3>4. /\ pc' = [pc EXCEPT ![h] = "list_tasks"]
          /\ fresh' = [g \in Handlers |-> FALSE]
          /\ quiet' = [g \in Handlers |-> g = h /\ quiet[g]]
          /\ overlapped' = (overlapped \/ ~fresh[h])
          /\ UNCHANGED <<live, used, reply, requests, incident>>
      BY <1>2, <2>3 DEF InsertDependency
    <3>5. pc' \in [Handlers -> Steps] /\ edge' \in [Handlers -> Dep \cup {NoDep}]
          /\ \A g \in Handlers : pc'[g] = "insert" => edge'[g] \in Dep
      BY <3>4, <2>1
    <3>6. quiet' \in [Handlers -> BOOLEAN] /\ fresh' \in [Handlers -> BOOLEAN]
      BY <3>4, Zenon
    <3>7. overlapped' \in BOOLEAN
      BY <3>4
    <3> QED
      BY <3>2, <3>3, <3>4, <3>5, <3>6, <3>7
  <2> QED
    BY <2>2, <2>3
<1>3. ASSUME NEW h \in Handlers, NEW t \in Tasks, NEW row \in InputRows, UpdateTask(h, t, row)
      PROVE  TablesOK'
  BY <1>3 DEF UpdateTask, Request
<1>4. ASSUME NEW h \in Handlers, NEW S \in SUBSET live, Bulk(h, S)
      PROVE  TablesOK'
  BY <1>4 DEF Bulk, Request, Cascade, OnePerPair
<1>5. ASSUME NEW h \in Handlers, ListTasks(h)
      PROVE  TablesOK'
  BY <1>5 DEF ListTasks
<1>6. ASSUME NEW h \in Handlers, ListDeps(h)
      PROVE  TablesOK'
  BY <1>6 DEF ListDeps
<1>7. ASSUME NEW h \in Handlers, NEW t \in Tasks, WriteDates(h, t)
      PROVE  TablesOK'
  BY <1>7 DEF WriteDates
<1>8. ASSUME NEW h \in Handlers, Fail(h)
      PROVE  TablesOK'
  BY <1>8 DEF Fail
<1>9. ASSUME NEW t \in Tasks, NEW row \in InputRows, CreateTask(t, row)
      PROVE  TablesOK'
  BY <1>9 DEF CreateTask, Request
<1>10. ASSUME NEW S \in SUBSET live, DeleteTask(S)
       PROVE  TablesOK'
  BY <1>10 DEF DeleteTask, Request, Cascade, OnePerPair
<1>11. ASSUME NEW d \in deps, DeleteDependency(d)
       PROVE  TablesOK'
  BY <1>11 DEF DeleteDependency, Request, OnePerPair
<1>12. ASSUME NEW t \in Tasks, NEW day \in InputDays, AutomationSetsDue(t, day)
       PROVE  TablesOK'
  BY <1>12 DEF AutomationSetsDue, Request, Row, Date
<1>13. CASE UNCHANGED vars
  BY <1>13 DEF vars
<1> QED
  BY <1>1, <1>2, <1>3, <1>4, <1>5, <1>6, <1>7, <1>8, <1>9, <1>10, <1>11, <1>12, <1>13
     DEF Next

(* The UNIQUE constraint, the foreign keys and the handlers' control hold  *)
(* in every interleaving.                                                  *)
THEOREM TablesCorrect == Spec => []TablesOK
BY InitTablesOK, NextTablesOK, PTL DEF Spec

-----------------------------------------------------------------------------
(***************************************************************************)
(* As long as no dependency was inserted on a stale check the graph is     *)
(* acyclic, and a check that is not stale still holds.                     *)
(***************************************************************************)
ChecksHold ==
  \A h \in Handlers :
    pc[h] = "insert" /\ fresh[h] => ~Reaches(deps, edge[h].succ, edge[h].pred)

CycleInv == TablesOK /\ ChecksHold /\ CyclesNeedOverlap

LEMMA InitCycleInv == Init => CycleInv
<1> SUFFICES ASSUME Init PROVE CycleInv
  OBVIOUS
<1>1. Acyclic(deps)
  BY DEF Init, Acyclic, Knotted
<1> QED
  BY <1>1, InitTablesOK DEF Init, CycleInv, ChecksHold, CyclesNeedOverlap

(* Every other step inserts no dependency, checks none, and takes no       *)
(* handler to an insert.                                                   *)
OtherStep ==
  \/ \E h \in Handlers : \/ \E t \in Tasks, row \in InputRows : UpdateTask(h, t, row)
                         \/ \E S \in SUBSET live : Bulk(h, S)
                         \/ ListTasks(h) \/ ListDeps(h) \/ Fail(h)
                         \/ \E t \in Tasks : WriteDates(h, t)
  \/ \E t \in Tasks, row \in InputRows : CreateTask(t, row)
  \/ \E S \in SUBSET live : DeleteTask(S)
  \/ \E d \in deps : DeleteDependency(d)
  \/ \E t \in Tasks, day \in InputDays : AutomationSetsDue(t, day)
  \/ UNCHANGED vars

Harmless ==
  /\ deps' \subseteq deps /\ overlapped' = overlapped /\ fresh' = fresh
  /\ \A g \in Handlers : pc'[g] = "insert" => pc[g] = "insert" /\ edge'[g] = edge[g]

LEMMA OtherStepHarmless ==
  ASSUME TablesOK, OtherStep
  PROVE  Harmless
<1> USE DEF Goto, Answer, tables, locals, history
<1>1. ASSUME NEW h \in Handlers, NEW t \in Tasks, NEW row \in InputRows, UpdateTask(h, t, row)
      PROVE  Harmless
  BY <1>1 DEF UpdateTask, TablesOK, Harmless
<1>2. ASSUME NEW h \in Handlers, NEW S \in SUBSET live, Bulk(h, S)
      PROVE  Harmless
  BY <1>2 DEF Bulk, Cascade, TablesOK, Harmless
<1>3. ASSUME NEW h \in Handlers, ListTasks(h)
      PROVE  Harmless
  BY <1>3 DEF ListTasks, TablesOK, Harmless
<1>4. ASSUME NEW h \in Handlers, ListDeps(h)
      PROVE  Harmless
  BY <1>4 DEF ListDeps, TablesOK, Harmless
<1>5. ASSUME NEW h \in Handlers, Fail(h)
      PROVE  Harmless
  BY <1>5 DEF Fail, TablesOK, Harmless
<1>6. ASSUME NEW h \in Handlers, NEW t \in Tasks, WriteDates(h, t)
      PROVE  Harmless
  <2>1. /\ UNCHANGED <<deps, edge, fresh, overlapped>>
        /\ pc' = [pc EXCEPT ![h] = "idle"] \/ pc' = pc
    BY <1>6 DEF WriteDates
  <2> QED
    BY <2>1 DEF TablesOK, Harmless
<1>7. ASSUME NEW t \in Tasks, NEW row \in InputRows, CreateTask(t, row)
      PROVE  Harmless
  BY <1>7 DEF CreateTask, Harmless
<1>8. ASSUME NEW S \in SUBSET live, DeleteTask(S)
      PROVE  Harmless
  BY <1>8 DEF DeleteTask, Cascade, Harmless
<1>9. ASSUME NEW d \in deps, DeleteDependency(d)
      PROVE  Harmless
  BY <1>9 DEF DeleteDependency, Harmless
<1>10. ASSUME NEW t \in Tasks, NEW day \in InputDays, AutomationSetsDue(t, day)
       PROVE  Harmless
  BY <1>10 DEF AutomationSetsDue, Harmless
<1>11. CASE UNCHANGED vars
  BY <1>11 DEF vars, Harmless
<1> QED
  BY <1>1, <1>2, <1>3, <1>4, <1>5, <1>6, <1>7, <1>8, <1>9, <1>10, <1>11 DEF OtherStep

LEMMA OtherCycleInv ==
  ASSUME CycleInv, TablesOK', Harmless
  PROVE  CycleInv'
BY FewerEdges DEF CycleInv, ChecksHold, CyclesNeedOverlap, Harmless

LEMMA NextCycleInv == CycleInv /\ [Next]_vars => CycleInv'
<1> SUFFICES ASSUME CycleInv, [Next]_vars PROVE CycleInv'
  OBVIOUS
<1>0. TablesOK /\ TablesOK'
  BY NextTablesOK DEF CycleInv
<1> USE DEF Goto, Answer, tables, locals, history
<1>1. ASSUME NEW h \in Handlers, NEW d \in [pred : Tasks, succ : Tasks, type : InputTypes],
             CheckDependency(h, d)
      PROVE  CycleInv'
  <2>1. /\ deps' = deps /\ overlapped' = overlapped
        /\ pc' = [pc EXCEPT ![h] = "insert"]
        /\ edge' = [edge EXCEPT ![h] = d]
        /\ fresh' = [fresh EXCEPT ![h] = TRUE]
        /\ ~Reaches(deps, d.succ, d.pred)
    BY <1>1 DEF CheckDependency, WouldCycle
  <2> QED
    BY <1>0, <2>1 DEF CycleInv, ChecksHold, CyclesNeedOverlap, TablesOK
<1>2. ASSUME NEW h \in Handlers, InsertDependency(h)
      PROVE  CycleInv'
  <2>1. CASE deps' = deps \cup {edge[h]} /\ fresh' = [g \in Handlers |-> FALSE]
             /\ overlapped' = (overlapped \/ ~fresh[h])
    <3>1. ChecksHold'
      BY <2>1 DEF ChecksHold
    <3>2. CyclesNeedOverlap'
      <4> SUFFICES ASSUME ~overlapped, fresh[h] PROVE Acyclic(deps \cup {edge[h]})
        BY <2>1 DEF CyclesNeedOverlap
      <4>1. pc[h] = "insert" /\ edge[h] \in Dep
        BY <1>2, <1>0 DEF InsertDependency, TablesOK
      <4> QED
        BY <4>1, AddEdge DEF CycleInv, ChecksHold, CyclesNeedOverlap
    <3> QED
      BY <1>0, <3>1, <3>2 DEF CycleInv
  <2>2. CASE deps' = deps /\ fresh' = fresh /\ overlapped' = overlapped
    <3>1. pc' = [pc EXCEPT ![h] = "idle"] \/ pc' = [pc EXCEPT ![h] = "list_tasks"]
      BY <1>2 DEF InsertDependency
    <3>2. edge' = [edge EXCEPT ![h] = NoDep]
      BY <1>2 DEF InsertDependency
    <3> QED
      BY <1>0, <2>2, <3>1, <3>2, OtherCycleInv DEF TablesOK, Harmless
  <2> QED
    BY <1>2, <2>1, <2>2 DEF InsertDependency
<1>3. CASE OtherStep
  BY <1>0, <1>3, OtherStepHarmless, OtherCycleInv
<1> QED
  BY <1>1, <1>2, <1>3 DEF Next, OtherStep

(* A cycle can enter task_dependencies only through an INSERT made on a    *)
(* check another INSERT has made stale (dependencies.go:78-98).            *)
THEOREM CyclesOnlyByOverlap == Spec => []CyclesNeedOverlap
<1>1. CycleInv => CyclesNeedOverlap
  BY DEF CycleInv
<1> QED
  BY InitCycleInv, NextCycleInv, <1>1, PTL DEF Spec

(* With requests served one at a time, "the API prevents cycles"           *)
(* (schedule.go:35) is true.                                               *)
AloneInv == ~overlapped /\ \A h \in Handlers : pc[h] = "insert" => fresh[h]

THEOREM SequentialAcyclic ==
  ASSUME \A g, h \in Handlers : g = h
  PROVE  Spec => []DependenciesAcyclic
<1>1. Init => AloneInv
  BY DEF Init, AloneInv
<1>2. TablesOK /\ AloneInv /\ [Next]_vars => AloneInv'
  <2> SUFFICES ASSUME TablesOK, AloneInv, [Next]_vars PROVE AloneInv'
    OBVIOUS
  <2> USE DEF TablesOK, AloneInv, Goto, Answer, tables, locals, history
  <2>1. ASSUME NEW h \in Handlers, InsertDependency(h)
        PROVE  AloneInv'
    <3>1. fresh[h] /\ ~overlapped'
      BY <2>1 DEF InsertDependency
    <3>2. pc'[h] # "insert"
      BY <2>1 DEF InsertDependency
    <3> QED
      BY <3>1, <3>2
  <2>2. ASSUME NEW h \in Handlers, NEW d \in [pred : Tasks, succ : Tasks, type : InputTypes],
               CheckDependency(h, d)
        PROVE  AloneInv'
    BY <2>2 DEF CheckDependency
  <2>3. CASE OtherStep
    BY <2>3, OtherStepHarmless DEF Harmless
  <2> QED
    BY <2>1, <2>2, <2>3 DEF Next, OtherStep
<1>3. AloneInv /\ CyclesNeedOverlap => DependenciesAcyclic
  BY DEF AloneInv, CyclesNeedOverlap, DependenciesAcyclic
<1> QED
  BY <1>1, <1>2, <1>3, TablesCorrect, CyclesOnlyByOverlap, PTL DEF Spec

-----------------------------------------------------------------------------
(***************************************************************************)
(* What a reschedule does when nobody else writes.  The rows a handler has *)
(* listed are the table's until it writes, and what it has yet to write    *)
(* moves rows that are still as Normalize saw them.  The rows are a finite *)
(* set: Normalize counts them.                                             *)
(***************************************************************************)
RowsOf(f, S) == f \in [DOMAIN f -> Row] /\ DOMAIN f \subseteq S

DataOK ==
  /\ dates \in [Tasks -> Row]
  /\ snap = [h \in Handlers |-> snap[h]] /\ goal = [h \in Handlers |-> goal[h]]
  /\ \A h \in Handlers : RowsOf(snap[h], used) /\ RowsOf(goal[h], used)

LEMMA EmptyRows == \A S : RowsOf(EmptyFcn, S)
BY DEF RowsOf, EmptyFcn

LEMMA RestrictRows ==
  ASSUME NEW f, NEW S, NEW C
  PROVE  /\ RowsOf(f, S) /\ C \subseteq DOMAIN f => RowsOf(Restrict(f, C), S)
         /\ DOMAIN Restrict(f, C) = C /\ \A t \in C : Restrict(f, C)[t] = f[t]
BY DEF RowsOf, Restrict

LEMMA NormalizeRows ==
  ASSUME IsFiniteSet(Tasks), TablesOK, NEW f, RowsOf(f, used)
  PROVE  /\ RowsOf(Normalize(f, deps), used) /\ DOMAIN Normalize(f, deps) = DOMAIN f
         /\ IsFiniteSet(DOMAIN f)
         /\ Rescheduled(Normalize(f, deps), f, DOMAIN f, KnownDeps(deps, DOMAIN f))
<1>1. DOMAIN f \subseteq Tasks /\ f \in [DOMAIN f -> Row] /\ deps \in SUBSET Dep
  BY DEF RowsOf, TablesOK
<1>2. IsFiniteSet(DOMAIN f)
  BY <1>1, FS_Subset
<1>3. Rescheduled(Normalize(f, deps), f, DOMAIN f, KnownDeps(deps, DOMAIN f))
  BY <1>1, <1>2, NormalizeReschedules
<1>4. Normalize(f, deps) \in [DOMAIN f -> Row]
  BY <1>3 DEF Rescheduled
<1> QED
  BY <1>2, <1>3, <1>4 DEF RowsOf

LEMMA InitDataOK == Init => DataOK
<1> SUFFICES ASSUME Init PROVE DataOK
  OBVIOUS
<1>1. dates \in [Tasks -> Row]
  BY SchedulingAssumption DEF Init
<1> QED
  BY <1>1, EmptyRows DEF Init, DataOK

(* The steps that leave what the handlers hold alone.                      *)
LEMMA KeepsDataOK ==
  ASSUME DataOK, used \subseteq used', dates' \in [Tasks -> Row], snap' = snap, goal' = goal
  PROVE  DataOK'
BY DEF DataOK, RowsOf

(* The steps of a handler that replace what it holds.                      *)
LEMMA SetsDataOK ==
  ASSUME DataOK, NEW h \in Handlers, used' = used, dates' \in [Tasks -> Row],
         NEW f, NEW g, RowsOf(f, used), RowsOf(g, used),
         snap' = [snap EXCEPT ![h] = f], goal' = [goal EXCEPT ![h] = g]
  PROVE  DataOK'
<1>1. /\ snap' = [i \in Handlers |-> snap'[i]] /\ goal' = [i \in Handlers |-> goal'[i]]
      /\ snap'[h] = f /\ goal'[h] = g
      /\ \A i \in Handlers \ {h} : snap'[i] = snap[i] /\ goal'[i] = goal[i]
  BY DEF DataOK
<1>2. \A i \in Handlers : RowsOf(snap'[i], used) /\ RowsOf(goal'[i], used)
  BY <1>1 DEF DataOK
<1> QED
  BY <1>1, <1>2 DEF DataOK

LEMMA NextDataOK ==
  ASSUME IsFiniteSet(Tasks), TablesOK, DataOK, [Next]_vars
  PROVE  DataOK'
<1>0. /\ dates \in [Tasks -> Row] /\ used \subseteq Tasks /\ live \subseteq used
      /\ snap = [h \in Handlers |-> snap[h]] /\ goal = [h \in Handlers |-> goal[h]]
      /\ \A h \in Handlers : RowsOf(snap[h], used) /\ RowsOf(goal[h], used)
  BY DEF DataOK, TablesOK
<1> USE DEF tables, locals
<1>1. ASSUME NEW h \in Handlers, NEW d \in [pred : Tasks, succ : Tasks, type : InputTypes],
             CheckDependency(h, d)
      PROVE  DataOK'
  BY <1>0, <1>1, KeepsDataOK DEF CheckDependency
<1>2. ASSUME NEW h \in Handlers, InsertDependency(h)
      PROVE  DataOK'
  BY <1>0, <1>2, KeepsDataOK DEF InsertDependency
<1>3. ASSUME NEW h \in Handlers, NEW t \in Tasks, NEW row \in InputRows, UpdateTask(h, t, row)
      PROVE  DataOK'
  BY <1>0, <1>3, KeepsDataOK, SchedulingAssumption DEF UpdateTask
<1>4. ASSUME NEW h \in Handlers, NEW S \in SUBSET live, Bulk(h, S)
      PROVE  DataOK'
  BY <1>0, <1>4, KeepsDataOK DEF Bulk
<1>5. ASSUME NEW h \in Handlers, ListTasks(h)
      PROVE  DataOK'
  <2>1. RowsOf(Restrict(dates, live), used)
    BY <1>0 DEF RowsOf, Restrict
  <2>2. /\ used' = used /\ dates' = dates /\ snap' = [snap EXCEPT ![h] = Restrict(dates, live)]
        /\ goal' = [goal EXCEPT ![h] = goal[h]]
    BY <1>0, <1>5 DEF ListTasks
  <2> QED
    BY <2>1, <2>2, <1>0, SetsDataOK
<1>6. ASSUME NEW h \in Handlers, ListDeps(h)
      PROVE  DataOK'
  <2> DEFINE new == Normalize(snap[h], deps)
             changed == {t \in DOMAIN snap[h] : new[t] # snap[h][t]}
  <2>1. /\ used' = used /\ dates' = dates /\ snap' = [snap EXCEPT ![h] = EmptyFcn]
        /\ goal' = [goal EXCEPT ![h] = Restrict(new, changed)]
    BY <1>6 DEF ListDeps
  <2>2. RowsOf(new, used) /\ DOMAIN new = DOMAIN snap[h]
    BY <1>0, NormalizeRows
  <2> HIDE DEF new
  <2>3. RowsOf(Restrict(new, changed), used)
    BY <2>2, RestrictRows
  <2> HIDE DEF changed
  <2> QED
    BY <2>1, <2>3, <1>0, EmptyRows, SetsDataOK
<1>7. ASSUME NEW h \in Handlers, NEW t \in Tasks, WriteDates(h, t)
      PROVE  DataOK'
  <2> DEFINE rest == DOMAIN goal[h] \ {t}
  <2>1. /\ used' = used /\ snap' = [snap EXCEPT ![h] = snap[h]]
        /\ goal' = [goal EXCEPT ![h] = Restrict(goal[h], rest)] /\ t \in DOMAIN goal[h]
        /\ dates' = IF t \in live THEN [dates EXCEPT ![t] = goal[h][t]] ELSE dates
    BY <1>0, <1>7 DEF WriteDates, DatesWritten
  <2>2. RowsOf(goal[h], used) /\ RowsOf(snap[h], used)
    BY <1>0
  <2>3. dates' \in [Tasks -> Row]
    BY <2>1, <2>2, <1>0 DEF RowsOf
  <2>4. RowsOf(Restrict(goal[h], rest), used)
    BY <2>2, RestrictRows
  <2> HIDE DEF rest
  <2> QED
    BY <2>1, <2>2, <2>3, <2>4, SetsDataOK
<1>8. ASSUME NEW h \in Handlers, Fail(h)
      PROVE  DataOK'
  <2>1. /\ used' = used /\ dates' = dates
        /\ snap' = [snap EXCEPT ![h] = EmptyFcn] /\ goal' = [goal EXCEPT ![h] = EmptyFcn]
    BY <1>8 DEF Fail
  <2> QED
    BY <2>1, <1>0, EmptyRows, SetsDataOK
<1>9. ASSUME NEW t \in Tasks, NEW row \in InputRows, CreateTask(t, row)
      PROVE  DataOK'
  BY <1>0, <1>9, KeepsDataOK, SchedulingAssumption DEF CreateTask
<1>10. ASSUME NEW S \in SUBSET live, DeleteTask(S)
       PROVE  DataOK'
  BY <1>0, <1>10, KeepsDataOK DEF DeleteTask
<1>11. ASSUME NEW d \in deps, DeleteDependency(d)
       PROVE  DataOK'
  BY <1>0, <1>11, KeepsDataOK DEF DeleteDependency
<1>12. ASSUME NEW t \in Tasks, NEW day \in InputDays, AutomationSetsDue(t, day)
       PROVE  DataOK'
  <2>1. [dates[t] EXCEPT !.due = day] \in Row
    BY <1>0, SchedulingAssumption DEF Row, Date
  <2>2. dates' = [dates EXCEPT ![t] = [dates[t] EXCEPT !.due = day]] /\ used' = used /\ snap' = snap /\ goal' = goal
    BY <1>12 DEF AutomationSetsDue
  <2> QED
    BY <2>1, <2>2, <1>0, KeepsDataOK
<1>13. CASE UNCHANGED vars
  BY <1>0, <1>13, KeepsDataOK DEF vars
<1> QED
  BY <1>1, <1>2, <1>3, <1>4, <1>5, <1>6, <1>7, <1>8, <1>9, <1>10, <1>11, <1>12, <1>13
     DEF Next

(* The dates and what the handlers hold of them, in every interleaving.    *)
THEOREM TypeCorrect ==
  ASSUME IsFiniteSet(Tasks)
  PROVE  Spec => []TypeOK
<1>1. TablesOK /\ DataOK /\ [Next]_vars => DataOK'
  BY NextDataOK
<1>2. TablesOK /\ DataOK => TypeOK
  BY DEF DataOK, RowsOf, TypeOK
<1> QED
  BY InitDataOK, <1>1, <1>2, TablesCorrect, PTL DEF Spec

-----------------------------------------------------------------------------
(* A step after which handler g is quiet touched neither the tables nor    *)
(* what g holds, is a step of g in rescheduleAll, or leaves g outside it.  *)
OwnStep(g) ==
  \/ ListTasks(g)
  \/ ListDeps(g)
  \/ \E t \in Tasks : WriteDates(g, t) /\ quiet[g]

Spared(g) == /\ UNCHANGED tables /\ quiet[g]
             /\ pc'[g] = pc[g] /\ snap'[g] = snap[g] /\ goal'[g] = goal[g]

LEMMA QuietStep ==
  ASSUME TablesOK, DataOK, [Next]_vars, NEW g \in Handlers, quiet'[g]
  PROVE  \/ OwnStep(g) \/ Spared(g)
         \/ pc'[g] \notin {"list_deps", "write"}
<1> USE DEF Goto, Answer, Disturb, DisturbAll, tables, locals, history, TablesOK, DataOK
<1>1. ASSUME NEW h \in Handlers, NEW d \in [pred : Tasks, succ : Tasks, type : InputTypes],
             CheckDependency(h, d)
      PROVE  Spared(g) \/ pc'[g] = "insert"
  BY <1>1 DEF CheckDependency, Spared
<1>2. ASSUME NEW h \in Handlers, InsertDependency(h)
      PROVE  Spared(g) \/ pc'[g] \in {"list_tasks", "idle"}
  BY <1>2 DEF InsertDependency, Spared
<1>3. ASSUME NEW h \in Handlers, NEW t \in Tasks, NEW row \in InputRows, UpdateTask(h, t, row)
      PROVE  pc'[g] = "list_tasks"
  BY <1>3 DEF UpdateTask
<1>4. ASSUME NEW h \in Handlers, NEW S \in SUBSET live, Bulk(h, S)
      PROVE  pc'[g] = "list_tasks"
  BY <1>4 DEF Bulk
<1>5. ASSUME NEW h \in Handlers, ListTasks(h)
      PROVE  OwnStep(g) \/ Spared(g)
  BY <1>5 DEF ListTasks, OwnStep, Spared
<1>6. ASSUME NEW h \in Handlers, ListDeps(h)
      PROVE  OwnStep(g) \/ Spared(g)
  <2>1. h # g => /\ UNCHANGED tables /\ quiet' = quiet
                 /\ snap'[g] = snap[g] /\ goal'[g] = goal[g] /\ pc'[g] = pc[g]
    BY <1>6 DEF ListDeps
  <2> QED
    BY <2>1, <1>6 DEF OwnStep, Spared
<1>7. ASSUME NEW h \in Handlers, NEW t \in Tasks, WriteDates(h, t)
      PROVE  OwnStep(g)
  <2>1. h = g /\ quiet[g]
    BY <1>7 DEF WriteDates
  <2> QED
    BY <2>1, <1>7 DEF OwnStep
<1>8. ASSUME NEW h \in Handlers, Fail(h)
      PROVE  Spared(g) \/ pc'[g] = "idle"
  BY <1>8 DEF Fail, Spared
<1>9. ASSUME NEW t \in Tasks, NEW row \in InputRows, CreateTask(t, row)
      PROVE  FALSE
  BY <1>9 DEF CreateTask
<1>10. ASSUME NEW S \in SUBSET live, DeleteTask(S)
       PROVE  FALSE
  BY <1>10 DEF DeleteTask
<1>11. ASSUME NEW d \in deps, DeleteDependency(d)
       PROVE  FALSE
  BY <1>11 DEF DeleteDependency
<1>12. ASSUME NEW t \in Tasks, NEW day \in InputDays, AutomationSetsDue(t, day)
       PROVE  FALSE
  BY <1>12 DEF AutomationSetsDue
<1>13. CASE UNCHANGED vars
  BY <1>13 DEF vars, Spared
<1> QED
  BY <1>1, <1>2, <1>3, <1>4, <1>5, <1>6, <1>7, <1>8, <1>9, <1>10, <1>11, <1>12, <1>13
     DEF Next

(* Only its own steps take a handler on in rescheduleAll.                  *)
LEMMA RescheduleStep ==
  ASSUME TablesOK, DataOK, [Next]_vars, NEW h \in Handlers, pc[h] \in {"list_deps", "write"}
  PROVE  \/ ListDeps(h)
         \/ \E t \in Tasks : WriteDates(h, t)
         \/ Fail(h)
         \/ pc'[h] = pc[h] /\ goal'[h] = goal[h]
<1> USE DEF Goto, Answer, locals, TablesOK, DataOK
<1>1. ASSUME NEW g \in Handlers, NEW d \in [pred : Tasks, succ : Tasks, type : InputTypes],
             CheckDependency(g, d)
      PROVE  pc'[h] = pc[h] /\ goal'[h] = goal[h]
  BY <1>1 DEF CheckDependency
<1>2. ASSUME NEW g \in Handlers, InsertDependency(g)
      PROVE  pc'[h] = pc[h] /\ goal'[h] = goal[h]
  BY <1>2 DEF InsertDependency
<1>3. ASSUME NEW g \in Handlers, NEW t \in Tasks, NEW row \in InputRows, UpdateTask(g, t, row)
      PROVE  pc'[h] = pc[h] /\ goal'[h] = goal[h]
  BY <1>3 DEF UpdateTask
<1>4. ASSUME NEW g \in Handlers, NEW S \in SUBSET live, Bulk(g, S)
      PROVE  pc'[h] = pc[h] /\ goal'[h] = goal[h]
  BY <1>4 DEF Bulk
<1>5. ASSUME NEW g \in Handlers, ListTasks(g)
      PROVE  pc'[h] = pc[h] /\ goal'[h] = goal[h]
  BY <1>5 DEF ListTasks
<1>6. ASSUME NEW g \in Handlers, ListDeps(g), g # h
      PROVE  pc'[h] = pc[h] /\ goal'[h] = goal[h]
  BY <1>6 DEF ListDeps
<1>7. ASSUME NEW g \in Handlers, NEW t \in Tasks, WriteDates(g, t), g # h
      PROVE  pc'[h] = pc[h] /\ goal'[h] = goal[h]
  BY <1>7 DEF WriteDates
<1>8. ASSUME NEW g \in Handlers, Fail(g), g # h
      PROVE  pc'[h] = pc[h] /\ goal'[h] = goal[h]
  BY <1>8 DEF Fail
<1>9. ASSUME NEW t \in Tasks, NEW row \in InputRows, CreateTask(t, row)
      PROVE  pc'[h] = pc[h] /\ goal'[h] = goal[h]
  BY <1>9 DEF CreateTask
<1>10. ASSUME NEW S \in SUBSET live, DeleteTask(S)
       PROVE  pc'[h] = pc[h] /\ goal'[h] = goal[h]
  BY <1>10 DEF DeleteTask
<1>11. ASSUME NEW d \in deps, DeleteDependency(d)
       PROVE  pc'[h] = pc[h] /\ goal'[h] = goal[h]
  BY <1>11 DEF DeleteDependency
<1>12. ASSUME NEW t \in Tasks, NEW day \in InputDays, AutomationSetsDue(t, day)
       PROVE  pc'[h] = pc[h] /\ goal'[h] = goal[h]
  BY <1>12 DEF AutomationSetsDue
<1>13. CASE UNCHANGED vars
  BY <1>13 DEF vars
<1> QED
  BY <1>1, <1>2, <1>3, <1>4, <1>5, <1>6, <1>7, <1>8, <1>9, <1>10, <1>11, <1>12, <1>13
     DEF Next

-----------------------------------------------------------------------------
Later(new, old) == HasDates(old) /\ \E k \in Nat \ {0} : new = Shifted(old, k)

Untouched(h) ==
  /\ pc[h] = "list_deps" => snap[h] = rowsNow
  /\ pc[h] = "write" => \A t \in DOMAIN goal[h] : t \in live /\ Later(goal[h][t], dates[t])

QuietInv == \A h \in Handlers : quiet[h] => Untouched(h)

LEMMA NextQuietInv ==
  ASSUME IsFiniteSet(Tasks), TablesOK, DataOK, QuietInv, [Next]_vars
  PROVE  QuietInv'
<1> SUFFICES ASSUME NEW h \in Handlers, quiet'[h] PROVE Untouched(h)'
  BY DEF QuietInv
<1>0. /\ dates \in [Tasks -> Row] /\ live \subseteq used /\ used \subseteq Tasks
      /\ pc \in [Handlers -> Steps] /\ quiet \in [Handlers -> BOOLEAN]
      /\ snap = [g \in Handlers |-> snap[g]] /\ goal = [g \in Handlers |-> goal[g]]
      /\ RowsOf(snap[h], used) /\ RowsOf(goal[h], used)
      /\ quiet[h] => Untouched(h)
  BY DEF TablesOK, DataOK, QuietInv
<1>1. CASE pc'[h] \notin {"list_deps", "write"}
  BY <1>1 DEF Untouched
<1>2. CASE Spared(h)
  BY <1>2, <1>0 DEF Spared, Untouched, tables, rowsNow
<1>3. CASE ListTasks(h)
  <2>1. pc'[h] = "list_deps" /\ snap'[h] = rowsNow /\ rowsNow' = rowsNow
    BY <1>3, <1>0 DEF ListTasks, Goto, tables, rowsNow
  <2> QED
    BY <2>1 DEF Untouched
<1>4. CASE ListDeps(h)
  <2> DEFINE old == snap[h]
             new == Normalize(old, deps)
             changed == {t \in DOMAIN old : new[t] # old[t]}
  <2>1. /\ pc[h] = "list_deps" /\ goal'[h] = Restrict(new, changed)
        /\ pc'[h] \in {"write", "idle"} /\ quiet[h] /\ live' = live /\ dates' = dates
    BY <1>4, <1>0 DEF ListDeps, Goto, Answer, tables, history
  <2>2. old = rowsNow /\ DOMAIN old = live /\ \A t \in live : old[t] = dates[t]
    BY <2>1, <1>0 DEF Untouched, rowsNow, Restrict
  <2>3. /\ Rescheduled(new, old, DOMAIN old, KnownDeps(deps, DOMAIN old))
        /\ Among(KnownDeps(deps, DOMAIN old), DOMAIN old) /\ old \in [DOMAIN old -> Row]
    BY <1>0, NormalizeRows DEF Among, KnownDeps, TablesOK, RowsOf
  <2> HIDE DEF new
  <2>4. ASSUME NEW t \in changed
        PROVE  Later(new[t], old[t])
    BY <2>3, RescheduledMoves DEF Later
  <2>5. DOMAIN goal'[h] = changed /\ \A t \in changed : goal'[h][t] = new[t]
    <3> HIDE DEF changed
    <3> QED
      BY <2>1 DEF Restrict
  <2>6. \A t \in DOMAIN goal'[h] : t \in live' /\ Later(goal'[h][t], dates'[t])
    BY <2>1, <2>2, <2>4, <2>5
  <2> QED
    BY <2>1, <2>6 DEF Untouched
<1>5. ASSUME NEW t \in Tasks, WriteDates(h, t), quiet[h]
      PROVE  Untouched(h)'
  <2> DEFINE rest == DOMAIN goal[h] \ {t}
  <2>1. /\ pc[h] = "write" /\ live' = live /\ goal'[h] = Restrict(goal[h], rest)
        /\ dates' = dates \/ dates' = [dates EXCEPT ![t] = goal[h][t]]
    BY <1>5, <1>0 DEF WriteDates, DatesWritten
  <2>2. pc'[h] \in {"write", "idle"}
    BY <1>5, <1>0 DEF WriteDates, Answer, Goto
  <2>3. \A s \in DOMAIN goal[h] : s \in live /\ Later(goal[h][s], dates[s])
    BY <2>1, <1>0, <1>5 DEF Untouched
  <2>4. DOMAIN goal'[h] = rest /\ \A s \in rest : goal'[h][s] = goal[h][s] /\ dates'[s] = dates[s]
    <3>1. \A s \in rest : dates'[s] = dates[s]
      BY <2>1, <1>0 DEF RowsOf
    <3> HIDE DEF rest
    <3> QED
      BY <3>1, <2>1 DEF Restrict
  <2>5. \A s \in DOMAIN goal'[h] : s \in live' /\ Later(goal'[h][s], dates'[s])
    BY <2>1, <2>3, <2>4
  <2> QED
    BY <2>2, <2>5 DEF Untouched
<1> QED
  BY <1>1, <1>2, <1>3, <1>4, <1>5, QuietStep DEF OwnStep

(* However many tasks a reschedule moves, and wherever it fails: when      *)
(* nobody else writes, what it writes of a task moves it later and keeps   *)
(* its duration (tasks.go:559-592, schedule.go:88-121).                    *)
THEOREM MovesLater ==
  ASSUME IsFiniteSet(Tasks)
  PROVE  Spec => UndisturbedWritesMoveLater
<1>1. Init => QuietInv
  BY DEF Init, QuietInv
<1>2. TablesOK /\ DataOK /\ [Next]_vars => DataOK'
  BY NextDataOK
<1>3. TablesOK /\ DataOK /\ QuietInv /\ [Next]_vars => QuietInv'
  BY NextQuietInv
<1>4. TablesOK /\ DataOK /\ QuietInv /\ [Next]_vars
        => [\A h \in Handlers, t \in Tasks :
              pc[h] = "write" /\ quiet[h] /\ t \in DOMAIN goal[h] /\ t \notin DOMAIN goal'[h]
                /\ t \in live /\ dates'[t] # dates[t]
              => /\ dates'[t].start > dates[t].start
                 /\ dates'[t].due - dates'[t].start = dates[t].due - dates[t].start]_vars
  <2> SUFFICES ASSUME TablesOK, DataOK, QuietInv, [Next]_vars, NEW h \in Handlers, NEW t \in Tasks,
                      pc[h] = "write", quiet[h], t \in DOMAIN goal[h], t \notin DOMAIN goal'[h],
                      t \in live, dates'[t] # dates[t]
               PROVE  /\ dates'[t].start > dates[t].start
                      /\ dates'[t].due - dates'[t].start = dates[t].due - dates[t].start
    OBVIOUS
  <2>1. PICK s \in Tasks : WriteDates(h, s)
    BY RescheduleStep DEF Fail, ListDeps, tables
  <2>2. dates \in [Tasks -> Row] /\ (dates' = dates \/ dates' = [dates EXCEPT ![s] = goal[h][s]])
    BY <2>1 DEF WriteDates, DatesWritten, DataOK
  <2>3. t = s /\ dates'[t] = goal[h][t] /\ dates[t] \in Row
    BY <2>2
  <2>4. PICK k \in Nat \ {0} : dates'[t] = Shifted(dates[t], k) /\ HasDates(dates[t])
    BY <2>3 DEF QuietInv, Untouched, Later
  <2>5. dates[t].start \in Int /\ dates[t].due \in Int
    BY <2>3, <2>4 DEF Row, Date, HasDates
  <2> QED
    BY <2>4, <2>5 DEF Shifted
<1> QED
  BY InitDataOK, <1>1, <1>2, <1>3, <1>4, TablesCorrect, PTL DEF Spec, UndisturbedWritesMoveLater

(***************************************************************************)
(* The rows as they are when h is done, and the assumption under which     *)
(* they are valid: no gap between two dates is longer than a time.Duration *)
(* can hold, some 292 years, where Time.Sub would cut it short.            *)
(***************************************************************************)
Planned(h) == [t \in live |-> IF t \in DOMAIN goal[h] THEN goal[h][t] ELSE dates[t]]

PlanInv == \A h \in Handlers : quiet[h] /\ pc[h] = "write" => Valid(Planned(h), deps)

NothingSaturates ==
  \A h \in Handlers :
    pc[h] = "list_deps" =>
      Within(Normalize(snap[h], deps), snap[h], KnownDeps(deps, DOMAIN snap[h]))

LEMMA ListedIsValid ==
  ASSUME IsFiniteSet(Tasks), TablesOK, DataOK, QuietInv, NothingSaturates,
         NEW h \in Handlers, quiet[h], ListDeps(h)
  PROVE  /\ Valid(Normalize(snap[h], deps), deps) /\ snap[h] = rowsNow
         /\ Normalize(snap[h], deps) = [t \in live |-> Normalize(snap[h], deps)[t]]
<1>1. pc[h] = "list_deps" /\ snap[h] = rowsNow
  BY DEF ListDeps, QuietInv, Untouched
<1>2. RowsOf(snap[h], used) /\ deps \in SUBSET Dep
  BY DEF DataOK, TablesOK
<1>3. IsFiniteSet(DOMAIN snap[h]) /\ snap[h] \in [DOMAIN snap[h] -> Row]
  BY <1>2, NormalizeRows DEF RowsOf
<1>4. Within(Normalize(snap[h], deps), snap[h], KnownDeps(deps, DOMAIN snap[h]))
  BY <1>1 DEF NothingSaturates
<1>5. Valid(Normalize(snap[h], deps), deps)
  BY <1>2, <1>3, <1>4, NormalizeIsValid
<1>6. DOMAIN snap[h] = live
  BY <1>1 DEF rowsNow, Restrict
<1>7. Normalize(snap[h], deps) \in [live -> Row]
  BY <1>2, <1>6, NormalizeRows DEF RowsOf
<1> QED
  BY <1>1, <1>5, <1>7

LEMMA NextPlanInv ==
  ASSUME IsFiniteSet(Tasks), TablesOK, DataOK, QuietInv, PlanInv, NothingSaturates, [Next]_vars
  PROVE  PlanInv'
<1> SUFFICES ASSUME NEW h \in Handlers, quiet'[h], pc'[h] = "write"
             PROVE  Valid(Planned(h), deps)'
  BY DEF PlanInv
<1>0. /\ dates \in [Tasks -> Row] /\ live \subseteq Tasks /\ pc \in [Handlers -> Steps]
      /\ goal = [g \in Handlers |-> goal[g]] /\ RowsOf(goal[h], used)
  BY DEF TablesOK, DataOK
<1>1. CASE Spared(h)
  BY <1>1 DEF Spared, tables, PlanInv, Planned
<1>2. CASE ListTasks(h)
  BY <1>2, <1>0 DEF ListTasks, Goto
<1>3. CASE ListDeps(h)
  <2> DEFINE old == snap[h]
             new == Normalize(old, deps)
             changed == {t \in DOMAIN old : new[t] # old[t]}
  <2>1. /\ goal'[h] = Restrict(new, changed) /\ quiet[h]
        /\ live' = live /\ dates' = dates /\ deps' = deps
    BY <1>3, <1>0 DEF ListDeps, tables, history
  <2>2. Valid(new, deps) /\ old = rowsNow /\ new = [t \in live |-> new[t]]
    BY <1>3, <2>1, ListedIsValid
  <2>3. DOMAIN old = live /\ \A t \in live : old[t] = dates[t]
    BY <2>2 DEF rowsNow, Restrict
  <2> HIDE DEF new, old
  <2>4. DOMAIN goal'[h] = changed /\ \A t \in changed : goal'[h][t] = new[t]
    <3> HIDE DEF changed
    <3> QED
      BY <2>1 DEF Restrict
  <2>5. Planned(h)' = [t \in live |-> new[t]]
    BY <2>1, <2>3, <2>4 DEF Planned
  <2> QED
    BY <2>1, <2>2, <2>5
<1>4. ASSUME NEW t \in Tasks, WriteDates(h, t), quiet[h]
      PROVE  Valid(Planned(h), deps)'
  <2> DEFINE rest == DOMAIN goal[h] \ {t}
  <2>1. /\ pc[h] = "write" /\ t \in DOMAIN goal[h] /\ live' = live /\ deps' = deps
        /\ goal'[h] = Restrict(goal[h], rest)
        /\ dates' = IF t \in live THEN [dates EXCEPT ![t] = goal[h][t]] ELSE dates
    BY <1>4, <1>0 DEF WriteDates, DatesWritten
  <2>2. t \in live /\ Valid(Planned(h), deps)
    BY <1>4, <2>1 DEF QuietInv, Untouched, PlanInv
  <2>3. DOMAIN goal'[h] = rest /\ \A s \in rest : goal'[h][s] = goal[h][s]
    <3> HIDE DEF rest
    <3> QED
      BY <2>1 DEF Restrict
  <2>4. \A s \in live : dates'[s] = IF s = t THEN goal[h][t] ELSE dates[s]
    BY <2>1, <2>2, <1>0
  <2>5. Planned(h)' = Planned(h)
    BY <2>1, <2>3, <2>4 DEF Planned
  <2> QED
    BY <2>1, <2>2, <2>5
<1> QED
  BY <1>1, <1>2, <1>3, <1>4, QuietStep DEF OwnStep

(* A reschedule that answers with success, and during which nobody else    *)
(* wrote, leaves every dependency it can order satisfied, whatever the     *)
(* dates, the dependencies and the order of its writes (tasks.go:559-592). *)
THEOREM QuietRescheduleIsValid ==
  ASSUME IsFiniteSet(Tasks)
  PROVE  Spec /\ []NothingSaturates => UndisturbedRescheduleIsValid
<1>1. Init => QuietInv /\ PlanInv
  BY DEF Init, QuietInv, PlanInv
<1>2. TablesOK /\ DataOK /\ [Next]_vars => DataOK'
  BY NextDataOK
<1>3. TablesOK /\ DataOK /\ QuietInv /\ [Next]_vars => QuietInv'
  BY NextQuietInv
<1>4. TablesOK /\ DataOK /\ QuietInv /\ PlanInv /\ NothingSaturates /\ [Next]_vars => PlanInv'
  BY NextPlanInv
<1>5. TablesOK /\ DataOK /\ QuietInv /\ PlanInv /\ NothingSaturates /\ [Next]_vars
        => [\A h \in Handlers : Completes(h) /\ quiet[h] => Valid(rowsNow', deps')]_vars
  <2> SUFFICES ASSUME TablesOK, DataOK, QuietInv, PlanInv, NothingSaturates, [Next]_vars,
                      NEW h \in Handlers, Completes(h), quiet[h]
               PROVE  Valid(rowsNow', deps')
    OBVIOUS
  <2>0. /\ dates \in [Tasks -> Row] /\ live \subseteq Tasks /\ pc \in [Handlers -> Steps]
        /\ reply \in [Handlers -> {"none", "ok", "error"}]
    BY DEF TablesOK, DataOK
  <2>1. pc[h] \in {"list_deps", "write"} /\ pc'[h] = "idle" /\ reply'[h] = "ok"
    BY DEF Completes
  <2>2. CASE ListDeps(h)
    <3> DEFINE old == snap[h]
               new == Normalize(old, deps)
               changed == {t \in DOMAIN old : new[t] # old[t]}
    <3>1. Valid(new, deps) /\ old = rowsNow /\ new = [t \in live |-> new[t]]
      BY <2>2, ListedIsValid
    <3>2. changed = {} /\ live' = live /\ dates' = dates /\ deps' = deps
      BY <2>0, <2>1, <2>2 DEF ListDeps, Goto, tables
    <3>3. old = [t \in live |-> old[t]] /\ DOMAIN old = live
      BY <3>1 DEF rowsNow, Restrict
    <3>4. rowsNow' = rowsNow
      BY <3>2 DEF rowsNow
    <3> HIDE DEF old, new
    <3>5. new = old
      BY <3>1, <3>2, <3>3
    <3> QED
      BY <3>1, <3>2, <3>4, <3>5
  <2>3. ASSUME NEW t \in Tasks, WriteDates(h, t)
        PROVE  Valid(rowsNow', deps')
    <3>1. /\ pc[h] = "write" /\ t \in DOMAIN goal[h] /\ DOMAIN goal[h] \ {t} = {}
          /\ live' = live /\ deps' = deps
          /\ dates' = IF t \in live THEN [dates EXCEPT ![t] = goal[h][t]] ELSE dates
      BY <2>0, <2>1, <2>3 DEF WriteDates, DatesWritten
    <3>2. t \in live /\ Valid(Planned(h), deps) /\ DOMAIN goal[h] = {t}
      BY <3>1 DEF QuietInv, Untouched, PlanInv
    <3>3. \A s \in live : dates'[s] = IF s = t THEN goal[h][t] ELSE dates[s]
      BY <3>1, <3>2, <2>0
    <3>4. rowsNow' = Planned(h)
      BY <3>1, <3>2, <3>3 DEF rowsNow, Planned, Restrict
    <3> QED
      BY <3>1, <3>2, <3>4
  <2>4. ~Fail(h) /\ pc'[h] # pc[h]
    BY <2>0, <2>1 DEF Fail, Answer
  <2> QED
    BY <2>1, <2>2, <2>3, <2>4, RescheduleStep
<1> QED
  BY InitDataOK, <1>1, <1>2, <1>3, <1>4, <1>5, TablesCorrect, PTL DEF Spec, UndisturbedRescheduleIsValid
=============================================================================
