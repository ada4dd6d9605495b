--------------------------- MODULE Reminders_proofs ---------------------------
(***************************************************************************)
(* For every calendar, every set of rows and of users and any number of    *)
(* days, requests and failures: nobody is told twice but for what failed,  *)
(* was rolled across midnight or was changed in the sweep's hands; what is *)
(* flagged as told was; and a repeating event stands at the first          *)
(* occurrence its own calendar has ahead.                                  *)
(***************************************************************************)
EXTENDS Reminders, FiniteSetTheorems, TLAPS

-----------------------------------------------------------------------------
(* The calendars.                                                          *)

(* A set of natural numbers that is not empty has a least member: of the   *)
(* intervals below its members, which inclusion orders, one is minimal.    *)
LEMMA LeastMember ==
  ASSUME NEW S \in SUBSET Nat, S # {}
  PROVE  Min(S) \in S /\ \A x \in S : Min(S) <= x
<1> DEFINE below(n) == 0 .. n - 1
           B == {below(n) : n \in S}
<1>1. \A n \in Nat : below(n) \subseteq Nat /\ IsFiniteSet(below(n))
  BY FS_Interval
<1>2. B \subseteq FiniteSubsetsOf(Nat) /\ B # {}
  BY <1>1 DEF FiniteSubsetsOf
<1>3. PICK X \in B : \A Y \in B : <<Y, X>> \notin StrictSubsetOrdering(Nat)
  BY <1>2, FS_StrictSubsetOrderingWellFounded, WFMin
<1>4. PICK m \in S : X = below(m)
  OBVIOUS
<1>5. ASSUME NEW n \in S, n < m
      PROVE  FALSE
  <2>1. below(n) \subseteq below(m) /\ n \in below(m) /\ n \notin below(n)
    BY <1>5
  <2>2. <<below(n), below(m)>> \in StrictSubsetOrdering(Nat)
    BY <2>1, <1>1 DEF StrictSubsetOrdering
  <2> QED
    BY <2>2, <1>3, <1>4
<1>6. \A x \in S : m <= x
  BY <1>5
<1> QED
  BY <1>6 DEF Min

(* A date of a table is of one of its years and months, and within it.     *)
LEMMA DatedFacts ==
  ASSUME NEW mode \in {"ad", "bs"}
  PROVE  /\ IsFiniteSet(Dated(mode)) /\ FirstDay(mode) \in Nat
         /\ \A y \in DOMAIN Table(mode) : \A m \in DOMAIN Table(mode)[y] :
              /\ y \in Nat /\ m \in Nat /\ MonthLength(mode, y, m) \in Nat \ {0}
              /\ \A z \in DOMAIN Table(mode) : m \in DOMAIN Table(mode)[z]
         /\ \A date \in Dated(mode) :
              /\ date = [year |-> date.year, month |-> date.month, day |-> date.day]
              /\ date.year \in DOMAIN Table(mode) /\ date.month \in DOMAIN Table(mode)[date.year]
              /\ date.day \in 1 .. MonthLength(mode, date.year, date.month)
              /\ date.year \in Nat /\ date.month \in Nat /\ date.day \in Nat
         /\ \A y \in DOMAIN Table(mode) : \A m, d :
              m \in DOMAIN Table(mode)[y] /\ d \in 1 .. MonthLength(mode, y, m)
                => [year |-> y, month |-> m, day |-> d] \in Dated(mode)
<1>1. /\ IsFiniteSet(Dated(mode)) /\ FirstDay(mode) \in Nat /\ Table(mode) \in Seq(Seq(Nat \ {0}))
      /\ \A y, z \in DOMAIN Table(mode) : DOMAIN Table(mode)[y] = DOMAIN Table(mode)[z]
  BY NepaliDateAssumption DEF FirstDay
<1>2. \A y \in DOMAIN Table(mode) : y \in Nat /\ Table(mode)[y] \in Seq(Nat \ {0})
  BY <1>1
<1>3. \A y \in DOMAIN Table(mode) : \A m \in DOMAIN Table(mode)[y] :
        m \in Nat /\ MonthLength(mode, y, m) \in Nat \ {0}
  BY <1>2 DEF MonthLength
<1>4. \A date \in Dated(mode) :
        \E y \in DOMAIN Table(mode) : \E m \in DOMAIN Table(mode)[y] :
          \E d \in 1 .. MonthLength(mode, y, m) : date = [year |-> y, month |-> m, day |-> d]
  BY DEF Dated
<1>5. \A y \in DOMAIN Table(mode) : \A m, d :
        m \in DOMAIN Table(mode)[y] /\ d \in 1 .. MonthLength(mode, y, m)
          => [year |-> y, month |-> m, day |-> d] \in Dated(mode)
  BY DEF Dated
<1>6. ASSUME NEW date \in Dated(mode)
      PROVE  /\ date = [year |-> date.year, month |-> date.month, day |-> date.day]
             /\ date.year \in DOMAIN Table(mode) /\ date.month \in DOMAIN Table(mode)[date.year]
             /\ date.day \in 1 .. MonthLength(mode, date.year, date.month)
             /\ date.year \in Nat /\ date.month \in Nat /\ date.day \in Nat
  <2>1. PICK y \in DOMAIN Table(mode) : \E m \in DOMAIN Table(mode)[y] :
          \E d \in 1 .. MonthLength(mode, y, m) : date = [year |-> y, month |-> m, day |-> d]
    BY <1>4
  <2>3. PICK m \in DOMAIN Table(mode)[y] :
          \E d \in 1 .. MonthLength(mode, y, m) : date = [year |-> y, month |-> m, day |-> d]
    BY <2>1
  <2>4. PICK d \in 1 .. MonthLength(mode, y, m) : date = [year |-> y, month |-> m, day |-> d]
    BY <2>3
  <2>5. y \in Nat /\ m \in Nat /\ d \in Nat
    BY <1>2, <1>3
  <2> QED
    BY <2>4, <2>5
<1> QED
  BY <1>1, <1>2, <1>3, <1>5, <1>6

(* The day of a date is later than that of each date before it.            *)
LEMMA DaysGrow ==
  ASSUME NEW mode \in {"ad", "bs"}, NEW a \in Dated(mode), NEW b \in Dated(mode)
  PROVE  /\ ToAD(mode, a.year, a.month, a.day) \in Nat
         /\ Precedes(a, b) =>
              ToAD(mode, a.year, a.month, a.day) < ToAD(mode, b.year, b.month, b.day)
         /\ a = b \/ Precedes(a, b) \/ Precedes(b, a)
<1> DEFINE before(x) == {date \in Dated(mode) : Precedes(date, x)}
<1>1. /\ IsFiniteSet(Dated(mode)) /\ FirstDay(mode) \in Nat
      /\ \A date \in Dated(mode) :
           /\ date = [year |-> date.year, month |-> date.month, day |-> date.day]
           /\ date.year \in Nat /\ date.month \in Nat /\ date.day \in Nat
  BY DatedFacts
<1>2. IsFiniteSet(before(a)) /\ IsFiniteSet(before(b))
  BY <1>1, FS_Subset
<1>3. Cardinality(before(a)) \in Nat /\ Cardinality(before(b)) \in Nat
  BY <1>2, FS_CardinalityType
<1>4. /\ ToAD(mode, a.year, a.month, a.day) = FirstDay(mode) + Cardinality(before(a))
      /\ ToAD(mode, b.year, b.month, b.day) = FirstDay(mode) + Cardinality(before(b))
  BY <1>1 DEF ToAD
<1>5. ASSUME Precedes(a, b)
      PROVE  Cardinality(before(a)) < Cardinality(before(b))
  <2>1. a \in before(b) /\ a \notin before(a)
    BY <1>1, <1>5 DEF Precedes
  <2>2. before(a) \subseteq before(b)
    BY <1>1, <1>5 DEF Precedes
  <2>3. before(a) # before(b)
    BY <2>1
  <2>4. /\ Cardinality(before(a)) <= Cardinality(before(b))
        /\ Cardinality(before(b)) = Cardinality(before(a)) => before(b) = before(a)
    BY <2>2, <1>2, FS_Subset
  <2> QED
    BY <2>3, <2>4, <1>3
<1>6. a = b \/ Precedes(a, b) \/ Precedes(b, a)
  BY <1>1 DEF Precedes
<1> HIDE DEF before
<1> QED
  BY <1>1, <1>3, <1>4, <1>5, <1>6

(* A day has one date.                                                     *)
LEMMA CalendarFacts ==
  ASSUME NEW mode \in {"ad", "bs"}
  PROVE  /\ \A date \in Calendars[mode] :
              /\ [year |-> date.year, month |-> date.month, day |-> date.day] \in Dated(mode)
              /\ date.at = ToAD(mode, date.year, date.month, date.day) /\ date.at \in Nat
         /\ \A a, b \in Calendars[mode] :
              /\ a.at = b.at => a.year = b.year /\ a.month = b.month /\ a.day = b.day
              /\ a.at >= b.at => a.year >= b.year
         /\ \A date \in Dated(mode) :
              [year |-> date.year, month |-> date.month, day |-> date.day,
               at |-> ToAD(mode, date.year, date.month, date.day)] \in Calendars[mode]
<1>1. Calendars[mode] = {[year |-> date.year, month |-> date.month, day |-> date.day,
                          at |-> ToAD(mode, date.year, date.month, date.day)] : date \in Dated(mode)}
  BY DEF Calendars
<1>2. \A date \in Dated(mode) :
        /\ date = [year |-> date.year, month |-> date.month, day |-> date.day]
        /\ date.year \in Nat /\ date.month \in Nat /\ date.day \in Nat
        /\ ToAD(mode, date.year, date.month, date.day) \in Nat
  BY DatedFacts, DaysGrow
<1>3. ASSUME NEW date \in Calendars[mode]
      PROVE  \E x \in Dated(mode) :
               /\ x = [year |-> date.year, month |-> date.month, day |-> date.day]
               /\ x.year = date.year /\ x.month = date.month /\ x.day = date.day
               /\ date.at = ToAD(mode, x.year, x.month, x.day) /\ date.at \in Nat
  <2>1. PICK x \in Dated(mode) :
          date = [year |-> x.year, month |-> x.month, day |-> x.day, at |-> ToAD(mode, x.year, x.month, x.day)]
    BY <1>1
  <2>2. /\ date.year = x.year /\ date.month = x.month /\ date.day = x.day
        /\ date.at = ToAD(mode, x.year, x.month, x.day)
    BY <2>1
  <2> QED
    BY <2>2, <1>2
<1>4. ASSUME NEW a \in Calendars[mode], NEW b \in Calendars[mode]
      PROVE  /\ a.at = b.at => a.year = b.year /\ a.month = b.month /\ a.day = b.day
             /\ a.at >= b.at => a.year >= b.year
  <2>1. PICK x \in Dated(mode) :
          /\ x.year = a.year /\ x.month = a.month /\ x.day = a.day
          /\ a.at = ToAD(mode, x.year, x.month, x.day) /\ a.at \in Nat
    BY <1>3
  <2>2. PICK y \in Dated(mode) :
          /\ y.year = b.year /\ y.month = b.month /\ y.day = b.day
          /\ b.at = ToAD(mode, y.year, y.month, y.day) /\ b.at \in Nat
    BY <1>3
  <2>3. /\ Precedes(x, y) => a.at < b.at
        /\ Precedes(y, x) => b.at < a.at
        /\ x = y \/ Precedes(x, y) \/ Precedes(y, x)
    BY <2>1, <2>2, DaysGrow
  <2>4. x.year \in Nat /\ y.year \in Nat /\ (x.year < y.year => Precedes(x, y))
    BY <1>2 DEF Precedes
  <2>5. a.at = b.at => x = y
    BY <2>1, <2>2, <2>3
  <2>6. a.at >= b.at => ~(x.year < y.year)
    BY <2>1, <2>2, <2>3, <2>4
  <2> QED
    BY <2>1, <2>2, <2>4, <2>5, <2>6
<1> QED
  BY <1>1, <1>3, <1>4

LEMMA ClampedFacts ==
  ASSUME NEW mode \in {"ad", "bs"}, NEW of \in Calendars[mode], NEW y \in DOMAIN Table(mode)
  PROVE  /\ of.month \in DOMAIN Table(mode)[y]
         /\ Clamped(mode, of, y) \in 1 .. MonthLength(mode, y, of.month)
         /\ \A d \in Nat :
              Clamped(mode, of, y) = d <=>
                \/ d = of.day /\ d <= MonthLength(mode, y, of.month)
                \/ d < of.day /\ d = MonthLength(mode, y, of.month)
<1>1. [year |-> of.year, month |-> of.month, day |-> of.day] \in Dated(mode)
  BY CalendarFacts
<1>2. /\ of.year \in DOMAIN Table(mode) /\ of.month \in DOMAIN Table(mode)[of.year]
      /\ of.day \in 1 .. MonthLength(mode, of.year, of.month) /\ of.day \in Nat
  BY <1>1, DatedFacts
<1>3. of.month \in DOMAIN Table(mode)[y] /\ MonthLength(mode, y, of.month) \in Nat \ {0}
      /\ MonthLength(mode, of.year, of.month) \in Nat
  BY <1>2, DatedFacts
<1> QED
  BY <1>2, <1>3 DEF Clamped

(* The next anniversary recurs, and none from the day on does before it.   *)
LEMMA NextIsFirst ==
  ASSUME NEW mode \in {"ad", "bs"}, NEW of \in Calendars[mode], NEW from \in Nat,
         NextAnniversary(mode, of, from) # NoDay
  PROVE  LET w == NextAnniversary(mode, of, from)
         IN  /\ w \in Nat /\ w >= from
             /\ Recurs(mode, of.at, w)
             /\ \A d \in from .. w - 1 : ~Recurs(mode, of.at, d)
<1> DEFINE years == {y \in DOMAIN Table(mode) : \E start \in FromAD(mode, from) : y >= start.year}
           on(y) == ToAD(mode, y, of.month, Clamped(mode, of, y))
           ahead == {d \in {on(y) : y \in years} : d >= from}
           w     == NextAnniversary(mode, of, from)
<1>1. ASSUME NEW y \in DOMAIN Table(mode)
      PROVE  /\ y \in Nat /\ on(y) \in Nat
             /\ [year |-> y, month |-> of.month, day |-> Clamped(mode, of, y), at |-> on(y)] \in Calendars[mode]
  <2>1. of.month \in DOMAIN Table(mode)[y] /\ Clamped(mode, of, y) \in 1 .. MonthLength(mode, y, of.month)
    BY ClampedFacts
  <2> DEFINE x == [year |-> y, month |-> of.month, day |-> Clamped(mode, of, y)]
  <2>2. x \in Dated(mode) /\ x.year = y /\ x.month = of.month /\ x.day = Clamped(mode, of, y)
    BY <2>1, DatedFacts
  <2> HIDE DEF x
  <2>3. /\ [year |-> x.year, month |-> x.month, day |-> x.day,
            at |-> ToAD(mode, x.year, x.month, x.day)] \in Calendars[mode]
        /\ ToAD(mode, x.year, x.month, x.day) \in Nat /\ y \in Nat
    BY <2>1, <2>2, CalendarFacts, DaysGrow, DatedFacts
  <2> QED
    BY <2>2, <2>3
<1>2. ahead \subseteq Nat /\ ahead # {} /\ w = Min(ahead)
  BY <1>1 DEF NextAnniversary
<1>3. w \in ahead /\ \A d \in ahead : w <= d
  BY <1>2, LeastMember
<1>4. PICK y \in years : w = on(y)
  BY <1>3
<1>5. PICK start \in FromAD(mode, from) : y >= start.year
  BY <1>4
<1>6. start \in Calendars[mode] /\ start.at = from
  BY <1>5 DEF FromAD
<1>7. Recurs(mode, of.at, w)
  <2> DEFINE x == [year |-> y, month |-> of.month, day |-> Clamped(mode, of, y), at |-> on(y)]
  <2>1. x \in Calendars[mode] /\ x.at = w /\ x.year = y /\ x.month = of.month /\ x.day = Clamped(mode, of, y)
    BY <1>1, <1>4
  <2>2. x.day = of.day \/ (x.day < of.day /\ x.day = Table(mode)[y][of.month])
    <3>1. /\ Clamped(mode, of, y) \in 1 .. MonthLength(mode, y, of.month)
          /\ \A d \in Nat :
              Clamped(mode, of, y) = d =>
                \/ d = of.day
                \/ d < of.day /\ d = MonthLength(mode, y, of.month)
      BY ClampedFacts
    <3>2. Clamped(mode, of, y) \in Nat
      BY <3>1
    <3> QED
      BY <3>1, <3>2, <2>1 DEF MonthLength
  <2> HIDE DEF x
  <2> QED
    BY <2>1, <2>2 DEF Recurs
<1>8. ASSUME NEW d \in from .. w - 1, Recurs(mode, of.at, d)
      PROVE  FALSE
  <2>1. PICK a \in Calendars[mode], b \in Calendars[mode] :
          /\ a.at = of.at /\ b.at = d /\ a.month = b.month
          /\ b.day = a.day \/ (b.day < a.day /\ b.day = Table(mode)[b.year][b.month])
    BY <1>8 DEF Recurs
  <2>2. a.month = of.month /\ a.day = of.day
    BY <2>1, CalendarFacts
  <2>3. [year |-> b.year, month |-> b.month, day |-> b.day] \in Dated(mode)
    BY <2>1, CalendarFacts
  <2>4. b.year \in DOMAIN Table(mode) /\ b.day \in 1 .. MonthLength(mode, b.year, b.month) /\ b.day \in Nat
    BY <2>3, DatedFacts
  <2>5. Clamped(mode, of, b.year) = b.day
    <3>1. \A k \in Nat :
            (\/ k = of.day /\ k <= MonthLength(mode, b.year, of.month)
             \/ k < of.day /\ k = MonthLength(mode, b.year, of.month))
              => Clamped(mode, of, b.year) = k
      BY <2>4, ClampedFacts
    <3>2. MonthLength(mode, b.year, of.month) \in Nat
      BY <2>4, ClampedFacts, DatedFacts
    <3> QED
      BY <3>1, <3>2, <2>1, <2>2, <2>4 DEF MonthLength
  <2>6. d = on(b.year)
    <3>1. b.at = ToAD(mode, b.year, b.month, b.day)
      BY <2>1, CalendarFacts
    <3> QED
      BY <3>1, <2>1, <2>2, <2>5
  <2>7. b.year >= start.year
    BY <1>6, <1>8, <2>1, CalendarFacts
  <2>8. b.year \in years
    BY <2>4, <2>7, <1>5
  <2>9. d \in {on(z) : z \in years}
    BY <2>6, <2>8
  <2>10. w \in Nat /\ d \in Int /\ d >= from /\ d < w
    BY <1>2, <1>3, <1>8
  <2>11. d \in ahead
    BY <2>9, <2>10
  <2>12. w <= d
    BY <2>11, <1>3
  <2> QED
    BY <2>10, <2>12
<1>9. w \in Nat /\ w >= from
  BY <1>2, <1>3
<1> HIDE DEF years, on, ahead, w
<1>10. w \in Nat /\ w >= from /\ Recurs(mode, of.at, w) /\ \A d \in from .. w - 1 : ~Recurs(mode, of.at, d)
  BY <1>7, <1>8, <1>9
<1> QED
  BY <1>10 DEF w

(* The occurrence a repeating event is given: the first its own calendar   *)
(* has, from the day on.                                                   *)
LEMMA OccurrenceFacts ==
  ASSUME NEW mode \in Modes, NEW date \in Nat, NEW from \in Nat
  PROVE  LET w == NextOccurrence(mode, date, from)
         IN  /\ w \in Nat \cup {NoDay}
             /\ mode # "none" /\ w # NoDay =>
                  /\ w >= from /\ Recurs(mode, date, w)
                  /\ \A d \in from .. w - 1 : ~Recurs(mode, date, d)
<1>1. CASE mode = "none"
  BY <1>1 DEF NextOccurrence
<1>2. CASE mode # "none" /\ FromAD(mode, date) = {}
  BY <1>2 DEF NextOccurrence
<1>3. CASE mode # "none" /\ FromAD(mode, date) # {}
  <2> DEFINE of == CHOOSE o \in FromAD(mode, date) : TRUE
  <2>1. mode \in {"ad", "bs"}
    BY <1>3 DEF Modes
  <2>2. of \in Calendars[mode] /\ of.at = date
    BY <1>3 DEF FromAD
  <2>3. NextOccurrence(mode, date, from) = NextAnniversary(mode, of, from)
    BY <1>3 DEF NextOccurrence
  <2> HIDE DEF of
  <2> DEFINE w == NextAnniversary(mode, of, from)
  <2>4. w # NoDay => /\ w \in Nat /\ w >= from /\ Recurs(mode, date, w)
                     /\ \A d \in from .. w - 1 : ~Recurs(mode, date, d)
    BY <2>1, <2>2, NextIsFirst
  <2> HIDE DEF w
  <2>5. NextOccurrence(mode, date, from) = w
    BY <2>3 DEF w
  <2> QED
    BY <2>4, <2>5
<1> QED
  BY <1>1, <1>2, <1>3

-----------------------------------------------------------------------------
(* What the queries find.                                                  *)

LEMMA ListedTasks ==
  ASSUME TypeOK, NEW n \in DueReminders
  PROVE  /\ n \in Notice
         /\ \E t \in Tasks : n.item = <<"task", t>> /\ task[t].is = "row" /\ ~task[t].sent
<1>1. PICK t \in Tasks : /\ n = [item |-> <<"task", t>>, when |-> task[t].due]
                         /\ task[t].is = "row" /\ task[t].due # NoDay /\ ~task[t].sent
  BY DEF DueReminders
<1>2. task[t] \in TaskRow
  BY <1>1 DEF TypeOK, Free, Gone
<1>3. task[t].due \in Nat
  BY <1>1, <1>2, RemindersAssumption DEF TaskRow
<1> QED
  BY <1>1, <1>3 DEF Notice, Item

LEMMA ListedAlarms ==
  ASSUME TypeOK, NEW n \in DueUserReminders
  PROVE  /\ n \in Notice
         /\ \E a \in Alarms : n.item = <<"alarm", a>> /\ alarm[a].is = "row" /\ ~alarm[a].sent
<1>1. PICK a \in Alarms : /\ n = [item |-> <<"alarm", a>>, when |-> alarm[a].at]
                          /\ alarm[a].is = "row" /\ ~alarm[a].sent
  BY DEF DueUserReminders
<1>2. alarm[a] \in AlarmRow
  BY <1>1 DEF TypeOK, Free, Gone
<1>3. alarm[a].at \in Nat
  BY <1>1, <1>2, RemindersAssumption DEF AlarmRow
<1> QED
  BY <1>1, <1>3 DEF Notice, Item

LEMMA ListedStale ==
  ASSUME TypeOK, NEW n \in StaleRepeatingEvents
  PROVE  /\ n \in Stale
         /\ \E e \in Events :
              /\ n.item = <<"event", e>> /\ event[e].is = "row"
              /\ n = [item |-> <<"event", e>>, when |-> event[e].next,
                      repeat |-> event[e].repeat, date |-> event[e].date]
<1>1. PICK e \in Events : /\ n = [item |-> <<"event", e>>, when |-> event[e].next,
                                  repeat |-> event[e].repeat, date |-> event[e].date]
                          /\ event[e].is = "row" /\ event[e].repeat # "none" /\ event[e].next < day
  BY DEF StaleRepeatingEvents
<1>2. event[e] \in EventRow
  BY <1>1 DEF TypeOK, Free, Gone
<1>3. event[e].next \in Nat /\ event[e].repeat \in Modes /\ event[e].date \in Dates
  BY <1>2 DEF EventRow
<1> QED
  BY <1>1, <1>3 DEF Stale

LEMMA ListedEvents ==
  ASSUME TypeOK, NEW n \in DueCalendarReminders
  PROVE  /\ n \in Notice
         /\ \E e \in Events : /\ n.item = <<"event", e>> /\ event[e].is = "row" /\ ~event[e].reminded
                              /\ n = [item |-> <<"event", e>>, when |-> event[e].next]
<1>1. PICK e \in Events : /\ n = [item |-> <<"event", e>>, when |-> event[e].next]
                          /\ event[e].is = "row" /\ ~event[e].reminded
  BY DEF DueCalendarReminders
<1>2. event[e] \in EventRow
  BY <1>1 DEF TypeOK, Free, Gone
<1>3. event[e].next \in Nat
  BY <1>2 DEF EventRow
<1> QED
  BY <1>1, <1>3 DEF Notice, Item

LEMMA ListedHolidays ==
  ASSUME TypeOK, NEW n \in DueHolidayReminders
  PROVE  /\ n \in Notice
         /\ \E uh \in Users \X Holidays :
              n.item = <<"holiday", uh>> /\ holiday[uh[2]].is = "row" /\ uh \notin heard
<1>1. PICK uh \in (active \X Holidays) \ heard :
        n = [item |-> <<"holiday", uh>>, when |-> holiday[uh[2]].date] /\ holiday[uh[2]].is = "row"
  BY DEF DueHolidayReminders
<1>2. uh \in Users \X Holidays /\ uh[2] \in Holidays
  BY DEF TypeOK
<1>3. holiday[uh[2]] \in HolidayRow
  BY <1>1, <1>2 DEF TypeOK, Free, Gone
<1>4. holiday[uh[2]].date \in Nat
  BY <1>3, RemindersAssumption DEF HolidayRow
<1> QED
  BY <1>1, <1>2, <1>4 DEF Notice, Item

(* A phase lists notices of its own kind.                                  *)
LEMMA ListedTypes ==
  ASSUME TypeOK, NEW at
  PROVE  /\ Listed(at) \subseteq Notice \cup Stale
         /\ at # "roll" => Listed(at) \subseteq Notice
         /\ at = "roll" => Listed(at) \subseteq Stale
<1>1. /\ DueReminders \subseteq Notice /\ DueUserReminders \subseteq Notice
      /\ DueCalendarReminders \subseteq Notice /\ DueHolidayReminders \subseteq Notice
      /\ StaleRepeatingEvents \subseteq Stale
  BY ListedTasks, ListedAlarms, ListedEvents, ListedHolidays, ListedStale
<1> QED
  BY <1>1 DEF Listed

-----------------------------------------------------------------------------
(* What the requests do.                                                   *)

TaskRequest(t) ==
  CreateTask(t) \/ UpdateTask(t) \/ SetTaskDates(t) \/ SetTaskDone(t) \/ SetTaskStatus(t) \/ DeleteTask(t)

(* A request changes one task; its history begins anew, with the flag      *)
(* cleared, or both stay.                                                  *)
LEMMA TaskRequestEffect ==
  ASSUME TypeOK, NEW t \in Tasks, TaskRequest(t)
  PROVE  /\ UNCHANGED <<alarm, event, holiday, notice, active, heard>>
         /\ \E row \in TaskRow \cup {Gone} :
              /\ task' = [task EXCEPT ![t] = row]
              /\ \/ UNCHANGED hist /\ row.is = "row" /\ task[t].is = "free" /\ ~row.sent
                 \/ UNCHANGED hist /\ row.is = "row" /\ task[t].is = "row" /\ row.sent = task[t].sent
                 \/ Reset(<<"task", t>>) /\ (row = Gone \/ (row.is = "row" /\ ~row.sent))
<1>1. task[t].is = "row" => task[t] \in TaskRow
  BY DEF TypeOK, Free, Gone
<1>2. CASE CreateTask(t)
  <2>1. PICK due \in Dates \cup {NoDay} :
          SetTask(t, [is |-> "row", due |-> due, done |-> FALSE, assigned |-> TRUE, sent |-> FALSE])
    BY <1>2 DEF CreateTask
  <2> DEFINE row == [is |-> "row", due |-> due, done |-> FALSE, assigned |-> TRUE, sent |-> FALSE]
  <2>2. row \in TaskRow /\ row.is = "row" /\ ~row.sent
    BY DEF TaskRow
  <2>3. SetTask(t, row)
    BY <2>1
  <2> HIDE DEF row
  <2> QED
    BY <2>2, <2>3, <1>2 DEF CreateTask, SetTask
<1>3. CASE UpdateTask(t)
  <2>1. PICK due \in Dates \cup {NoDay}, done \in BOOLEAN, assigned \in BOOLEAN :
          SetTask(t, [is |-> "row", due |-> due, done |-> done, assigned |-> assigned, sent |-> FALSE])
    BY <1>3 DEF UpdateTask
  <2>2. [is |-> "row", due |-> due, done |-> done, assigned |-> assigned, sent |-> FALSE] \in TaskRow
    BY DEF TaskRow
  <2> QED
    BY <2>1, <2>2, <1>3 DEF UpdateTask, SetTask
<1>4. CASE SetTaskDates(t)
  <2>1. PICK due \in Dates : SetTask(t, [task[t] EXCEPT !.due = due, !.sent = FALSE])
    BY <1>4 DEF SetTaskDates
  <2> DEFINE row == [task[t] EXCEPT !.due = due, !.sent = FALSE]
  <2>2. row \in TaskRow /\ row.is = "row" /\ ~row.sent
    BY <1>1, <1>4 DEF TaskRow, SetTaskDates
  <2> HIDE DEF row
  <2> QED
    BY <2>1, <2>2, <1>4 DEF SetTaskDates, SetTask, row
<1>5. CASE SetTaskDone(t)
  <2>1. /\ task[t].is = "row" /\ task[t] \in TaskRow
        /\ \/ SetTask(t, [task[t] EXCEPT !.done = TRUE]) /\ UNCHANGED hist
           \/ SetTask(t, [task[t] EXCEPT !.done = FALSE, !.sent = FALSE]) /\ Reset(<<"task", t>>)
    BY <1>1, <1>5 DEF SetTaskDone
  <2> DEFINE done == [task[t] EXCEPT !.done = TRUE]
             open == [task[t] EXCEPT !.done = FALSE, !.sent = FALSE]
  <2>2. /\ done \in TaskRow /\ done.is = "row" /\ done.sent = task[t].sent
        /\ open \in TaskRow /\ open.is = "row" /\ ~open.sent
    BY <2>1 DEF TaskRow
  <2>3. (SetTask(t, done) /\ UNCHANGED hist) \/ (SetTask(t, open) /\ Reset(<<"task", t>>))
    BY <2>1
  <2> HIDE DEF done, open
  <2> QED
    BY <2>1, <2>2, <2>3 DEF SetTask
<1>6. CASE SetTaskStatus(t)
  <2>1. task[t].is = "row" /\ task[t] \in TaskRow /\ UNCHANGED hist
    BY <1>1, <1>6 DEF SetTaskStatus
  <2>2. CASE \E done \in BOOLEAN : SetTask(t, [task[t] EXCEPT !.done = done])
    <3>1. PICK done \in BOOLEAN : SetTask(t, [task[t] EXCEPT !.done = done])
      BY <2>2
    <3> DEFINE row == [task[t] EXCEPT !.done = done]
    <3>2. row \in TaskRow /\ row.is = "row" /\ row.sent = task[t].sent
      BY <2>1 DEF TaskRow
    <3> HIDE DEF row
    <3> QED
      BY <3>1, <3>2, <2>1 DEF SetTask, row
  <2>3. CASE \E due \in Dates : SetTask(t, [task[t] EXCEPT !.due = due])
    <3>1. PICK due \in Dates : SetTask(t, [task[t] EXCEPT !.due = due])
      BY <2>3
    <3> DEFINE row == [task[t] EXCEPT !.due = due]
    <3>2. row \in TaskRow /\ row.is = "row" /\ row.sent = task[t].sent
      BY <2>1 DEF TaskRow
    <3> HIDE DEF row
    <3> QED
      BY <3>1, <3>2, <2>1 DEF SetTask, row
  <2> QED
    BY <1>6, <2>2, <2>3 DEF SetTaskStatus
<1>7. CASE DeleteTask(t)
  BY <1>7 DEF DeleteTask, SetTask, Gone
<1> QED
  BY <1>2, <1>3, <1>4, <1>5, <1>6, <1>7 DEF TaskRequest

LEMMA AlarmRequestEffect ==
  ASSUME TypeOK, NEW a \in Alarms, createReminder(a) \/ deleteReminder(a)
  PROVE  /\ UNCHANGED <<task, event, holiday, notice, active, heard>>
         /\ \E row \in AlarmRow \cup {Gone} :
              /\ alarm' = [alarm EXCEPT ![a] = row]
              /\ \/ UNCHANGED hist /\ row.is = "row" /\ alarm[a].is = "free" /\ ~row.sent
                 \/ Reset(<<"alarm", a>>) /\ row = Gone
<1>1. CASE createReminder(a)
  <2>1. PICK at \in Dates : CreateReminder(a, at)
    BY <1>1 DEF createReminder
  <2> DEFINE row == [is |-> "row", at |-> at, sent |-> FALSE]
  <2>2. row \in AlarmRow /\ row.is = "row" /\ ~row.sent
    BY DEF AlarmRow
  <2>3. alarm' = [alarm EXCEPT ![a] = row]
    BY <2>1 DEF CreateReminder
  <2> HIDE DEF row
  <2> QED
    BY <2>2, <2>3, <1>1 DEF createReminder
<1>2. CASE deleteReminder(a)
  BY <1>2 DEF deleteReminder, DeleteReminder
<1> QED
  BY <1>1, <1>2

(* A saved event stands at the first occurrence from today on.             *)
LEMMA EventRequestEffect ==
  ASSUME TypeOK, NEW e \in Events, SaveEvent(e) \/ DropEvent(e)
  PROVE  /\ UNCHANGED <<task, alarm, holiday, notice, active, heard>>
         /\ Reset(<<"event", e>>)
         /\ \E row \in EventRow \cup {Gone} :
              /\ event' = [event EXCEPT ![e] = row]
              /\ row = Gone \/ (/\ row.is = "row" /\ ~row.reminded
                                /\ row.next = NextOccurrence(row.repeat, row.date, day) /\ row.next # NoDay)
<1>1. CASE SaveEvent(e)
  <2>1. PICK body \in decodeEvent : CreateCalendarEvent(e, body) \/ UpdateCalendarEvent(e, body)
    BY <1>1 DEF SaveEvent
  <2>2. PICK repeat \in Modes, date \in Dates, days \in RemindDays \cup {NoDay} :
          /\ body = [date |-> date, repeat |-> repeat, days |-> days, next |-> NextOccurrence(repeat, date, day)]
          /\ body.next # NoDay
    BY DEF decodeEvent
  <2>3. body.next \in Nat /\ body.next = NextOccurrence(body.repeat, body.date, day)
    BY <2>2, OccurrenceFacts, RemindersAssumption DEF TypeOK
  <2>4. EventOf(body) \in EventRow
    BY <2>2, <2>3 DEF EventOf, EventRow
  <2>5. /\ EventOf(body).is = "row" /\ ~EventOf(body).reminded /\ EventOf(body).next = body.next
        /\ EventOf(body).repeat = body.repeat /\ EventOf(body).date = body.date
    BY DEF EventOf
  <2>6. event' = [event EXCEPT ![e] = EventOf(body)]
    BY <2>1 DEF CreateCalendarEvent, UpdateCalendarEvent
  <2> QED
    BY <2>2, <2>3, <2>4, <2>5, <2>6, <1>1 DEF SaveEvent
<1>2. CASE DropEvent(e)
  BY <1>2 DEF DropEvent, DeleteCalendarEvent
<1> QED
  BY <1>1, <1>2

LEMMA HolidayRequestEffect ==
  ASSUME TypeOK, NEW h \in Holidays, SaveHoliday(h) \/ DropHoliday(h)
  PROVE  /\ UNCHANGED <<task, alarm, event, notice, active, hist>>
         /\ holiday[h].is \in {"free", "row"}
         /\ \E row \in HolidayRow \cup {Gone} :
              /\ holiday' = [holiday EXCEPT ![h] = row]
              /\ \/ row.is = "row" /\ heard' = heard
                 \/ row = Gone /\ heard' = {uh \in heard : uh[2] # h}
<1>1. CASE SaveHoliday(h)
  <2>1. PICK body \in decodeHoliday : CreateHoliday(h, body) \/ UpdateHoliday(h, body)
    BY <1>1 DEF SaveHoliday
  <2>2. body \in HolidayRow /\ body.is = "row"
    BY DEF decodeHoliday, HolidayRow
  <2> QED
    BY <2>1, <2>2, <1>1 DEF SaveHoliday, CreateHoliday, UpdateHoliday
<1>2. CASE DropHoliday(h)
  BY <1>2 DEF DropHoliday, DeleteHoliday
<1> QED
  BY <1>1, <1>2

LEMMA UserRequestEffect ==
  ASSUME TypeOK, NEW u \in Users, setReminder(u) \/ setMyStatus(u)
  PROVE  /\ UNCHANGED <<task, alarm, event, holiday, heard, hist>>
         /\ notice' \in [Users -> RemindDays \cup {NoDay}] /\ active' \subseteq Users
<1>1. CASE setReminder(u)
  BY <1>1 DEF setReminder, SetHolidayRemindDays, TypeOK
<1>2. CASE setMyStatus(u)
  BY <1>2 DEF setMyStatus, SetUserStatus, TypeOK
<1> QED
  BY <1>1, <1>2

(* What a reset forgets, and what it notes.                                *)
LEMMA ResetEffect ==
  ASSUME NEW item, Reset(item)
  PROVE  /\ \A n : n \in told'  <=> n \in told /\ n.item # item
         /\ \A n : n \in twice' <=> n \in twice /\ n.item # item
         /\ \A n : n \in lost'  <=> n \in lost /\ n.item # item
         /\ \A n : n \in crossed'   <=> n \in crossed /\ n.item # item
         /\ \A n : n \in overtaken' <=> \/ n \in overtaken /\ n.item # item
                                        \/ n \in sweep.todo \cup sweep.telling /\ n.item = item
BY DEF Reset, Without

(* A request resets one row, of one kind, or none.                         *)
Resets(kind) == \E item : item[1] = kind /\ Reset(item)

LEMMA RequestKinds ==
  ASSUME TypeOK, Requests
  PROVE  /\ UNCHANGED <<day, sweep>>
         /\ work.requests < MaxRequests /\ work' = [work EXCEPT !.requests = @ + 1]
         /\ \/ \E t \in Tasks : TaskRequest(t)
            \/ \E a \in Alarms : createReminder(a) \/ deleteReminder(a)
            \/ \E e \in Events : SaveEvent(e) \/ DropEvent(e)
            \/ \E h \in Holidays : SaveHoliday(h) \/ DropHoliday(h)
            \/ \E u \in Users : setReminder(u) \/ setMyStatus(u)
BY DEF Requests, Request, TaskRequest

-----------------------------------------------------------------------------
(* What the sweep holds: notices of the kind of its phase, and at most one *)
(* that it is telling.                                                     *)

Held == sweep.todo \cup sweep.telling

SweepOK ==
  /\ sweep.at \in {"down", "wait"} => Held = {}
  /\ sweep.at = "roll" => sweep.todo \subseteq Stale /\ sweep.telling = {}
  /\ sweep.at # "roll" => sweep.todo \subseteq Notice
  /\ \A n, m \in sweep.telling : n = m
  /\ \A n \in Held :
       /\ sweep.at = "tasks"  => n.item \in {"task"} \X Tasks
       /\ sweep.at = "alarms" => n.item \in {"alarm"} \X Alarms
       /\ sweep.at \in {"roll", "events"} => n.item \in {"event"} \X Events
       /\ sweep.at = "holidays" => n.item \in {"holiday"} \X (Users \X Holidays)

TypeInv == TypeOK /\ SweepOK

Sweeps == [at : {"down", "wait"} \cup Phases, today : Nat,
           todo : SUBSET (Notice \cup Stale), telling : SUBSET Notice]

(* The notices of a phase are of its kind.                                 *)
LEMMA ListedKinds ==
  ASSUME TypeOK, NEW at, NEW n \in Listed(at)
  PROVE  /\ at = "tasks"  => n.item \in {"task"} \X Tasks
         /\ at = "alarms" => n.item \in {"alarm"} \X Alarms
         /\ at \in {"roll", "events"} => n.item \in {"event"} \X Events
         /\ at = "holidays" => n.item \in {"holiday"} \X (Users \X Holidays)
<1>1. at = "tasks" => n \in DueReminders
  BY DEF Listed
<1>2. at = "alarms" => n \in DueUserReminders
  BY DEF Listed
<1>3. at = "roll" => n \in StaleRepeatingEvents
  BY DEF Listed
<1>4. at = "events" => n \in DueCalendarReminders
  BY DEF Listed
<1>5. at = "holidays" => n \in DueHolidayReminders
  BY DEF Listed
<1>6. ASSUME n \in DueReminders PROVE n.item \in {"task"} \X Tasks
  <2>1. \E x \in Tasks : n.item = <<"task", x>>
    BY <1>6, ListedTasks
  <2> QED
    BY <2>1
<1>7. ASSUME n \in DueUserReminders PROVE n.item \in {"alarm"} \X Alarms
  <2>1. \E x \in Alarms : n.item = <<"alarm", x>>
    BY <1>7, ListedAlarms
  <2> QED
    BY <2>1
<1>8. ASSUME n \in StaleRepeatingEvents PROVE n.item \in {"event"} \X Events
  <2>1. \E x \in Events : n.item = <<"event", x>>
    BY <1>8, ListedStale
  <2> QED
    BY <2>1
<1>9. ASSUME n \in DueCalendarReminders PROVE n.item \in {"event"} \X Events
  <2>1. \E x \in Events : n.item = <<"event", x>>
    BY <1>9, ListedEvents
  <2> QED
    BY <2>1
<1>10. ASSUME n \in DueHolidayReminders PROVE n.item \in {"holiday"} \X (Users \X Holidays)
  <2>1. \E x \in Users \X Holidays : n.item = <<"holiday", x>>
    BY <1>10, ListedHolidays
  <2> QED
    BY <2>1
<1> QED
  BY <1>1, <1>2, <1>3, <1>4, <1>5, <1>6, <1>7, <1>8, <1>9, <1>10

(* A new list: the sweep held nothing, and holds what its next query found *)
(* - nothing if that failed.  What it rolls across midnight is noted.      *)
LEMMA ListingEffect ==
  ASSUME TypeInv, Run \/ NextPhase
  PROVE  /\ UNCHANGED <<day, rows, heard, told, twice, lost, overtaken>> /\ Held = {}
         /\ sweep' \in Sweeps /\ sweep'.today <= day /\ sweep'.telling = {}
         /\ sweep'.todo \subseteq Listed(sweep'.at)
         /\ sweep'.at = "tasks" => sweep'.today = day
         /\ sweep'.at \in {"alarms", "roll"} =>
              sweep'.today = sweep.today /\ sweep.at \in {"tasks", "alarms"}
         /\ crossed \subseteq crossed' /\ crossed' \subseteq Notice
         /\ \A n \in sweep'.todo : sweep'.at = "roll" =>
              n.when < sweep.today \/ [item |-> n.item, when |-> n.when] \in crossed'
         /\ work' = work \/ Fail
<1>1. /\ sweep \in Sweeps /\ sweep.today \in Nat /\ sweep.today <= day /\ day \in Nat
      /\ crossed \subseteq Notice
  BY RemindersAssumption DEF TypeInv, TypeOK, Sweeps
<1>2. \A at : Listed(at) \subseteq Notice \cup Stale
  BY ListedTypes DEF TypeInv
<1>3. CASE Run
  <2>1. Held = {}
    BY <1>3 DEF Run, TypeInv, SweepOK
  <2>2. CASE sweep' = [at |-> "tasks", today |-> day, todo |-> Listed("tasks"), telling |-> {}] /\ UNCHANGED work
    BY <2>1, <2>2, <1>1, <1>2, <1>3 DEF Run, Sweeps, Phases, hist
  <2>3. CASE sweep' = [Idle EXCEPT !.at = "wait"] /\ Fail
    BY <2>1, <2>3, <1>1, <1>3 DEF Run, Sweeps, Idle, hist
  <2> QED
    BY <2>2, <2>3, <1>3 DEF Run
<1>4. CASE NextPhase
  <2> DEFINE at == After(sweep.at)
             rolled == {[item |-> n.item, when |-> n.when] : n \in {m \in Listed(at) : m.when >= sweep.today}}
  <2>1. /\ sweep.at \in Phases /\ Held = {} /\ sweep.todo = {} /\ sweep.telling = {}
        /\ UNCHANGED <<day, rows, heard, told, twice, lost, overtaken>>
    BY <1>4 DEF NextPhase, Held
  <2>2. /\ at \in {"wait"} \cup Phases /\ at # "tasks"
        /\ at = "alarms" => sweep.at = "tasks"
        /\ at = "roll" => sweep.at = "alarms"
    BY <2>1 DEF After, Phases
  <2>3. rolled \subseteq Notice \/ at # "roll"
    <3>1. CASE at = "roll"
      <4>1. \A n \in Listed(at) : n \in Stale
        BY <3>1, ListedTypes DEF TypeInv
      <4> QED
        BY <4>1 DEF Stale, Notice, Item
    <3> QED
      BY <3>1
  <2>4. CASE /\ sweep' = IF at = "wait" THEN [Idle EXCEPT !.at = at]
                         ELSE [sweep EXCEPT !.at = at, !.todo = Listed(at)]
             /\ crossed' = crossed \cup IF at # "roll" THEN {} ELSE rolled
             /\ UNCHANGED work
    <3>1. crossed' \subseteq Notice /\ crossed \subseteq crossed'
      BY <2>3, <2>4, <1>1
    <3>2. CASE at = "wait"
      <4>1. sweep' = [at |-> "wait", today |-> 0, todo |-> {}, telling |-> {}]
        BY <2>4, <3>2 DEF Idle
      <4> QED
        BY <4>1, <3>1, <2>1, <2>4, <1>1 DEF Sweeps
    <3>3. CASE at # "wait"
      <4>1. sweep' = [at |-> at, today |-> sweep.today, todo |-> Listed(at), telling |-> {}]
        BY <3>3, <2>1, <2>4, <1>1 DEF Sweeps
      <4>2. sweep' \in Sweeps
        BY <4>1, <2>2, <1>1, <1>2 DEF Sweeps
      <4>3. ASSUME NEW n \in Listed(at), at = "roll"
            PROVE  n.when < sweep.today \/ [item |-> n.item, when |-> n.when] \in crossed'
        <5>1. n.when \in Nat
          BY <4>3, ListedTypes DEF TypeInv, Stale
        <5>2. n.when >= sweep.today => [item |-> n.item, when |-> n.when] \in rolled
          OBVIOUS
        <5> QED
          BY <5>1, <5>2, <4>3, <2>4, <1>1
      <4> HIDE DEF at, rolled
      <4> QED
        BY <4>1, <4>2, <4>3, <3>1, <2>1, <2>2, <2>4, <1>1
    <3> QED
      BY <3>2, <3>3
  <2>5. CASE at # "wait" /\ sweep' = [sweep EXCEPT !.at = at] /\ Fail /\ UNCHANGED crossed
    <3>1. sweep' = [at |-> at, today |-> sweep.today, todo |-> {}, telling |-> {}]
      BY <2>1, <2>5, <1>1 DEF Sweeps
    <3> HIDE DEF at, rolled
    <3> QED
      BY <3>1, <2>1, <2>2, <2>5, <1>1 DEF Sweeps
  <2> QED
    BY <2>4, <2>5, <1>4 DEF NextPhase
<1> QED
  BY <1>3, <1>4

LEMMA InitTypeInv == Init => TypeInv
<1> SUFFICES ASSUME Init PROVE TypeInv
  OBVIOUS
<1>1. TypeOK
  BY RemindersAssumption DEF Init, TypeOK, Idle, TaskRow
<1>2. SweepOK
  BY DEF Init, SweepOK, Held, Idle
<1> QED
  BY <1>1, <1>2 DEF TypeInv

LEMMA RequestTypes ==
  ASSUME TypeInv, Requests
  PROVE  TypeInv'
<1>1. /\ UNCHANGED <<day, sweep>>
      /\ work.requests < MaxRequests /\ work' = [work EXCEPT !.requests = @ + 1]
      /\ \/ \E t \in Tasks : TaskRequest(t)
         \/ \E a \in Alarms : createReminder(a) \/ deleteReminder(a)
         \/ \E e \in Events : SaveEvent(e) \/ DropEvent(e)
         \/ \E h \in Holidays : SaveHoliday(h) \/ DropHoliday(h)
         \/ \E u \in Users : setReminder(u) \/ setMyStatus(u)
  BY RequestKinds DEF TypeInv
<1>2. work' \in [requests : 0 .. MaxRequests, failures : 0 .. MaxFailures]
  BY <1>1, RemindersAssumption DEF TypeInv, TypeOK
<1>3. TypeOK /\ SweepOK' /\ sweep' \in [at : {"down", "wait"} \cup Phases, today : 0 .. day',
                todo : SUBSET (Notice \cup Stale), telling : SUBSET Notice] /\ day' \in 0 .. LastDay
  BY <1>1 DEF TypeInv, TypeOK, SweepOK, Held
<1>4. UNCHANGED hist \/ (\E item : Reset(item)) =>
        /\ told' \cup lost' \cup crossed' \subseteq Notice /\ twice' \subseteq told'
        /\ overtaken' \subseteq Notice \cup Stale
  <2>1. CASE UNCHANGED hist
    BY <2>1 DEF TypeInv, TypeOK, hist
  <2>2. CASE \E item : Reset(item)
    <3>1. PICK item : Reset(item)
      BY <2>2
    <3>2. \A n : /\ n \in told'  <=> n \in told /\ n.item # item
                 /\ n \in twice' <=> n \in twice /\ n.item # item
                 /\ n \in lost'  <=> n \in lost /\ n.item # item
                 /\ n \in crossed'   <=> n \in crossed /\ n.item # item
                 /\ n \in overtaken' <=> \/ n \in overtaken /\ n.item # item
                                         \/ n \in sweep.todo \cup sweep.telling /\ n.item = item
      BY <3>1, ResetEffect
    <3> QED
      BY <3>2 DEF TypeInv, TypeOK
  <2> QED
    BY <2>1, <2>2
<1>5. CASE \E t \in Tasks : TaskRequest(t)
  <2>1. PICK t \in Tasks : TaskRequest(t)
    BY <1>5
  <2>2. /\ UNCHANGED <<alarm, event, holiday, notice, active, heard>>
        /\ \E row \in TaskRow \cup {Gone} : task' = [task EXCEPT ![t] = row]
        /\ UNCHANGED hist \/ \E item : Reset(item)
    BY <2>1, <1>3, TaskRequestEffect
  <2> QED
    BY <2>2, <1>2, <1>3, <1>4 DEF TypeInv, TypeOK
<1>6. CASE \E a \in Alarms : createReminder(a) \/ deleteReminder(a)
  <2>1. PICK a \in Alarms : createReminder(a) \/ deleteReminder(a)
    BY <1>6
  <2>2. /\ UNCHANGED <<task, event, holiday, notice, active, heard>>
        /\ \E row \in AlarmRow \cup {Gone} : alarm' = [alarm EXCEPT ![a] = row]
        /\ UNCHANGED hist \/ \E item : Reset(item)
    BY <2>1, <1>3, AlarmRequestEffect
  <2> QED
    BY <2>2, <1>2, <1>3, <1>4 DEF TypeInv, TypeOK
<1>7. CASE \E e \in Events : SaveEvent(e) \/ DropEvent(e)
  <2>1. PICK e \in Events : SaveEvent(e) \/ DropEvent(e)
    BY <1>7
  <2>2. /\ UNCHANGED <<task, alarm, holiday, notice, active, heard>>
        /\ \E row \in EventRow \cup {Gone} : event' = [event EXCEPT ![e] = row]
        /\ \E item : Reset(item)
    BY <2>1, <1>3, EventRequestEffect
  <2> QED
    BY <2>2, <1>2, <1>3, <1>4 DEF TypeInv, TypeOK
<1>8. CASE \E h \in Holidays : SaveHoliday(h) \/ DropHoliday(h)
  <2>1. PICK h \in Holidays : SaveHoliday(h) \/ DropHoliday(h)
    BY <1>8
  <2>2. /\ UNCHANGED <<task, alarm, event, notice, active, hist>>
        /\ \E row \in HolidayRow \cup {Gone} : holiday' = [holiday EXCEPT ![h] = row]
        /\ heard' \subseteq heard
    BY <2>1, <1>3, HolidayRequestEffect
  <2>3. UNCHANGED hist
    BY <2>2
  <2> QED
    BY <2>2, <2>3, <1>2, <1>3, <1>4 DEF TypeInv, TypeOK
<1>9. CASE \E u \in Users : setReminder(u) \/ setMyStatus(u)
  <2>1. /\ UNCHANGED <<task, alarm, event, holiday, heard, hist>>
        /\ notice' \in [Users -> RemindDays \cup {NoDay}] /\ active' \subseteq Users
    BY <1>9, <1>3, UserRequestEffect
  <2>2. UNCHANGED hist
    BY <2>1
  <2> QED
    BY <2>1, <2>2, <1>2, <1>3, <1>4 DEF TypeInv, TypeOK
<1> QED
  BY <1>1, <1>5, <1>6, <1>7, <1>8, <1>9

LEMMA TellTypes ==
  ASSUME TypeInv, NEW n \in sweep.todo, Tell(n)
  PROVE  TypeInv'
<1>1. /\ sweep.at # "roll" /\ sweep.telling = {} /\ sweep' = [sweep EXCEPT !.todo = @ \ {n}, !.telling = {n}]
      /\ UNCHANGED <<day, rows, heard, crossed, overtaken>>
      /\ \/ told' = told \cup {n} /\ twice' = twice \cup ({n} \cap told) /\ UNCHANGED <<lost, work>>
         \/ lost' = lost \cup {n} /\ Fail /\ UNCHANGED <<told, twice>>
  BY DEF Tell
<1>2. n \in Notice
  BY <1>1 DEF TypeInv, SweepOK
<1>3. sweep \in [at : {"down", "wait"} \cup Phases, today : 0 .. day,
                todo : SUBSET (Notice \cup Stale), telling : SUBSET Notice]
  BY DEF TypeInv, TypeOK
<1>4. /\ sweep' = [at |-> sweep.at, today |-> sweep.today, todo |-> sweep.todo \ {n}, telling |-> {n}]
      /\ sweep' \in [at : {"down", "wait"} \cup Phases, today : 0 .. day,
                     todo : SUBSET (Notice \cup Stale), telling : SUBSET Notice]
  BY <1>1, <1>2, <1>3
<1>5. SweepOK' /\ Held' \subseteq Held
  BY <1>1, <1>4 DEF TypeInv, SweepOK, Held
<1>6. work' \in [requests : 0 .. MaxRequests, failures : 0 .. MaxFailures]
  BY <1>1, RemindersAssumption DEF Fail, TypeInv, TypeOK
<1>7. /\ told' \cup lost' \cup crossed' \subseteq Notice /\ twice' \subseteq told'
      /\ overtaken' \subseteq Notice \cup Stale
  BY <1>1, <1>2 DEF TypeInv, TypeOK
<1>8. UNCHANGED <<day, task, alarm, event, holiday, notice, active, heard>>
  BY <1>1 DEF rows
<1> QED
  BY <1>4, <1>5, <1>6, <1>7, <1>8 DEF TypeInv, TypeOK

(* The notice that is told is marked, or lost.                             *)
LEMMA MarkEffect ==
  ASSUME TypeInv, NEW n \in sweep.telling, Mark(n)
  PROVE  /\ sweep' = [at |-> sweep.at, today |-> sweep.today, todo |-> sweep.todo, telling |-> {}]
         /\ sweep' \in Sweeps /\ n \in Notice /\ sweep.telling = {n} /\ Held = sweep.todo \cup {n}
         /\ UNCHANGED <<day, holiday, notice, active, told, twice, crossed, overtaken>>
         /\ \/ /\ MarkReminded(n) /\ MarkReminderSent(n)
               /\ MarkCalendarEventReminded(n) /\ MarkHolidayReminded(n)
               /\ UNCHANGED <<lost, work>>
            \/ lost' = lost \cup {n} /\ Fail /\ UNCHANGED <<task, alarm, event, heard>>
<1>1. sweep \in Sweeps
  BY RemindersAssumption DEF TypeInv, TypeOK, Sweeps
<1>2. sweep' = [sweep EXCEPT !.telling = {}] /\ n \in sweep.telling
  BY DEF Mark
<1>3. sweep' = [at |-> sweep.at, today |-> sweep.today, todo |-> sweep.todo, telling |-> {}]
  BY <1>1, <1>2 DEF Sweeps
<1>4. sweep' \in Sweeps /\ n \in Notice
  BY <1>1, <1>2, <1>3 DEF Sweeps
<1>5. sweep.telling = {n}
  BY <1>2 DEF TypeInv, SweepOK
<1> QED
  BY <1>3, <1>4, <1>5 DEF Mark, Held

LEMMA MarkedRows ==
  ASSUME TypeInv, NEW n \in sweep.telling, Mark(n)
  PROVE  /\ task' \in [Tasks -> TaskRow \cup {Free, Gone}]
         /\ alarm' \in [Alarms -> AlarmRow \cup {Free, Gone}]
         /\ event' \in [Events -> EventRow \cup {Free, Gone}]
         /\ heard' \subseteq Users \X Holidays
<1>1. n \in Notice
  BY MarkEffect
<1>2. CASE lost' = lost \cup {n} /\ Fail /\ UNCHANGED <<task, alarm, event, heard>>
  BY <1>2 DEF TypeInv, TypeOK
<1>3. CASE MarkReminded(n) /\ MarkReminderSent(n) /\ MarkCalendarEventReminded(n) /\ MarkHolidayReminded(n)
  <2>1. task' \in [Tasks -> TaskRow \cup {Free, Gone}]
    <3>1. CASE Has(task, "task", n)
      <4>1. n.item[2] \in Tasks /\ task[n.item[2]].is = "row"
        BY <3>1, <1>1 DEF Has, Notice, Item
      <4>2. task[n.item[2]] \in TaskRow
        BY <4>1 DEF TypeInv, TypeOK, Free, Gone
      <4>3. [task[n.item[2]] EXCEPT !.sent = TRUE] \in TaskRow
        BY <4>2 DEF TaskRow
      <4>4. task' = [task EXCEPT ![n.item[2]] = [task[n.item[2]] EXCEPT !.sent = TRUE]]
        BY <3>1, <1>3 DEF MarkReminded
      <4> QED
        BY <4>1, <4>3, <4>4 DEF TypeInv, TypeOK
    <3>2. CASE ~Has(task, "task", n)
      BY <3>2, <1>3 DEF MarkReminded, TypeInv, TypeOK
    <3> QED
      BY <3>1, <3>2
  <2>2. alarm' \in [Alarms -> AlarmRow \cup {Free, Gone}]
    <3>1. CASE Has(alarm, "alarm", n)
      <4>1. n.item[2] \in Alarms /\ alarm[n.item[2]].is = "row"
        BY <3>1, <1>1 DEF Has, Notice, Item
      <4>2. alarm[n.item[2]] \in AlarmRow
        BY <4>1 DEF TypeInv, TypeOK, Free, Gone
      <4>3. [alarm[n.item[2]] EXCEPT !.sent = TRUE] \in AlarmRow
        BY <4>2 DEF AlarmRow
      <4>4. alarm' = [alarm EXCEPT ![n.item[2]] = [alarm[n.item[2]] EXCEPT !.sent = TRUE]]
        BY <3>1, <1>3 DEF MarkReminderSent
      <4> QED
        BY <4>1, <4>3, <4>4 DEF TypeInv, TypeOK
    <3>2. CASE ~Has(alarm, "alarm", n)
      BY <3>2, <1>3 DEF MarkReminderSent, TypeInv, TypeOK
    <3> QED
      BY <3>1, <3>2
  <2>3. event' \in [Events -> EventRow \cup {Free, Gone}]
    <3>1. CASE Has(event, "event", n)
      <4>1. n.item[2] \in Events /\ event[n.item[2]].is = "row"
        BY <3>1, <1>1 DEF Has, Notice, Item
      <4>2. event[n.item[2]] \in EventRow
        BY <4>1 DEF TypeInv, TypeOK, Free, Gone
      <4>3. [event[n.item[2]] EXCEPT !.reminded = TRUE] \in EventRow
        BY <4>2 DEF EventRow
      <4>4. event' = [event EXCEPT ![n.item[2]] = [event[n.item[2]] EXCEPT !.reminded = TRUE]]
        BY <3>1, <1>3 DEF MarkCalendarEventReminded
      <4> QED
        BY <4>1, <4>3, <4>4 DEF TypeInv, TypeOK
    <3>2. CASE ~Has(event, "event", n)
      BY <3>2, <1>3 DEF MarkCalendarEventReminded, TypeInv, TypeOK
    <3> QED
      BY <3>1, <3>2
  <2>4. heard' \subseteq Users \X Holidays
    BY <1>3 DEF MarkHolidayReminded, TypeInv, TypeOK
  <2> QED
    BY <2>1, <2>2, <2>3, <2>4
<1> QED
  BY <1>2, <1>3, MarkEffect

LEMMA MarkTypes ==
  ASSUME TypeInv, NEW n \in sweep.telling, Mark(n)
  PROVE  TypeInv'
<1>1. /\ sweep' = [at |-> sweep.at, today |-> sweep.today, todo |-> sweep.todo, telling |-> {}]
      /\ sweep' \in Sweeps /\ n \in Notice /\ Held = sweep.todo \cup {n}
      /\ UNCHANGED <<day, holiday, notice, active, told, twice, crossed, overtaken>>
      /\ lost' \in {lost, lost \cup {n}} /\ (UNCHANGED work \/ Fail)
  BY MarkEffect
<1>2. SweepOK'
  BY <1>1 DEF TypeInv, SweepOK, Held
<1>3. work' \in [requests : 0 .. MaxRequests, failures : 0 .. MaxFailures]
  BY <1>1, RemindersAssumption DEF Fail, TypeInv, TypeOK
<1>4. sweep' \in [at : {"down", "wait"} \cup Phases, today : 0 .. day',
                 todo : SUBSET (Notice \cup Stale), telling : SUBSET Notice]
  BY <1>1 DEF TypeInv, TypeOK, Sweeps
<1>5. told' \cup lost' \cup crossed' \subseteq Notice /\ twice' \subseteq told'
  BY <1>1 DEF TypeInv, TypeOK
<1> QED
  BY <1>1, <1>2, <1>3, <1>4, <1>5, MarkedRows DEF TypeInv, TypeOK

(* The row listed gives the occurrence; a failure leaves the event alone.  *)
LEMMA RollEffect ==
  ASSUME TypeInv, NEW n \in sweep.todo, Roll(n)
  PROVE  /\ sweep' = [at |-> "roll", today |-> sweep.today, todo |-> sweep.todo \ {n}, telling |-> {}]
         /\ sweep' \in Sweeps /\ sweep.at = "roll" /\ n \in Stale /\ n.item[2] \in Events
         /\ sweep.telling = {} /\ n.item = <<"event", n.item[2]>>
         /\ UNCHANGED <<day, task, alarm, holiday, notice, active, heard, hist>>
         /\ LET w == NextOccurrence(n.repeat, n.date, sweep.today)
            IN  \/ event' = event
                \/ /\ w # NoDay /\ w \in Nat /\ event[n.item[2]].is = "row"
                   /\ event[n.item[2]] \in EventRow
                   /\ event' = [event EXCEPT ![n.item[2]] = [event[n.item[2]] EXCEPT !.next = w, !.reminded = FALSE]]
         /\ UNCHANGED work \/ Fail
<1> DEFINE e == n.item[2]
           w == NextOccurrence(n.repeat, n.date, sweep.today)
<1>1. sweep \in Sweeps /\ sweep.today \in Nat
  BY RemindersAssumption DEF TypeInv, TypeOK, Sweeps
<1>2. /\ sweep.at = "roll" /\ sweep' = [sweep EXCEPT !.todo = @ \ {n}]
      /\ UNCHANGED <<day, task, alarm, holiday, notice, active, heard, hist>>
      /\ \/ event' = (IF w = NoDay \/ event[e].is # "row" THEN event ELSE RollCalendarEvent(e, w)) /\ UNCHANGED work
         \/ w # NoDay /\ Fail /\ UNCHANGED event
  BY DEF Roll
<1>3. n \in Stale /\ sweep.telling = {}
  BY <1>2 DEF TypeInv, SweepOK
<1>4. e \in Events /\ n.item = <<"event", e>> /\ n.repeat \in Modes /\ n.date \in Nat
  BY <1>3, RemindersAssumption DEF Stale
<1>5. w \in Nat \cup {NoDay}
  BY <1>1, <1>4, OccurrenceFacts
<1>6. /\ sweep' = [at |-> "roll", today |-> sweep.today, todo |-> sweep.todo \ {n}, telling |-> {}]
      /\ sweep' \in Sweeps
  BY <1>1, <1>2, <1>3 DEF Sweeps, Phases
<1> HIDE DEF w
<1>7. CASE event' = (IF w = NoDay \/ event[e].is # "row" THEN event ELSE RollCalendarEvent(e, w)) /\ UNCHANGED work
  <2>1. event[e].is = "row" => event[e] \in EventRow
    BY <1>4 DEF TypeInv, TypeOK, Free, Gone
  <2>2. CASE w = NoDay \/ event[e].is # "row"
    BY <2>2, <1>7, <1>2, <1>3, <1>4, <1>6
  <2>3. CASE ~(w = NoDay \/ event[e].is # "row")
    <3>1. RollCalendarEvent(e, w) = [event EXCEPT ![e] = [event[e] EXCEPT !.next = w, !.reminded = FALSE]]
      <4>1. e \in DOMAIN event
        BY <1>4 DEF TypeInv, TypeOK
      <4> QED
        BY <4>1 DEF RollCalendarEvent
    <3> QED
      BY <3>1, <2>1, <2>3, <1>7, <1>2, <1>3, <1>4, <1>5, <1>6 DEF w
  <2> QED
    BY <2>2, <2>3
<1>8. CASE w # NoDay /\ Fail /\ UNCHANGED event
  BY <1>8, <1>2, <1>3, <1>4, <1>6
<1> QED
  BY <1>2, <1>7, <1>8

(* Roll changes events and nothing else.                                   *)
LEMMA RollFrame ==
  ASSUME TypeInv, NEW n \in sweep.todo, Roll(n)
  PROVE  /\ sweep.at = "roll" /\ sweep.telling = {}
         /\ sweep'.at = "roll" /\ sweep'.telling = {} /\ sweep'.todo = sweep.todo \ {n}
         /\ sweep'.today = sweep.today
         /\ UNCHANGED <<day, task, alarm, holiday, heard, told, twice, lost, crossed, overtaken>>
<1>1. sweep \in Sweeps
  BY RemindersAssumption DEF TypeInv, TypeOK, Sweeps
<1>2. sweep.at = "roll" /\ sweep' = [sweep EXCEPT !.todo = @ \ {n}]
  BY DEF Roll
<1>3. UNCHANGED <<day, task, alarm, holiday, notice, active, heard, hist>>
  BY DEF Roll
<1>4. sweep.telling = {}
  BY <1>2 DEF TypeInv, SweepOK
<1> QED
  BY <1>1, <1>2, <1>3, <1>4 DEF Sweeps, hist

LEMMA RollTypes ==
  ASSUME TypeInv, NEW n \in sweep.todo, Roll(n)
  PROVE  TypeInv'
<1> DEFINE e == n.item[2]
<1>1. /\ sweep' = [at |-> "roll", today |-> sweep.today, todo |-> sweep.todo \ {n}, telling |-> {}]
      /\ sweep' \in Sweeps /\ sweep.at = "roll" /\ n \in Stale /\ e \in Events
      /\ UNCHANGED <<day, task, alarm, holiday, notice, active, heard>> /\ UNCHANGED hist
      /\ UNCHANGED work \/ Fail
      /\ \/ event' = event
         \/ /\ event[e] \in EventRow
            /\ \E w \in Nat : event' = [event EXCEPT ![e] = [event[e] EXCEPT !.next = w, !.reminded = FALSE]]
  BY RollEffect
<1>2. SweepOK'
  BY <1>1 DEF TypeInv, SweepOK, Held
<1>3. work' \in [requests : 0 .. MaxRequests, failures : 0 .. MaxFailures]
  <2>1. UNCHANGED work \/ Fail
    BY <1>1
  <2> QED
    BY <2>1, RemindersAssumption DEF Fail, TypeInv, TypeOK
<1>4. sweep' \in [at : {"down", "wait"} \cup Phases, today : 0 .. day',
                 todo : SUBSET (Notice \cup Stale), telling : SUBSET Notice]
  BY <1>1 DEF TypeInv, TypeOK, Sweeps
<1>5. event' \in [Events -> EventRow \cup {Free, Gone}]
  <2>1. CASE event' = event
    BY <2>1 DEF TypeInv, TypeOK
  <2>2. CASE event' # event
    <3>1. PICK w \in Nat : event' = [event EXCEPT ![e] = [event[e] EXCEPT !.next = w, !.reminded = FALSE]]
      BY <1>1, <2>2
    <3>2. [event[e] EXCEPT !.next = w, !.reminded = FALSE] \in EventRow
      BY <1>1, <2>2 DEF EventRow
    <3> QED
      BY <3>1, <3>2, <1>1 DEF TypeInv, TypeOK
  <2> QED
    BY <2>1, <2>2
<1>6. /\ told' \cup lost' \cup crossed' \subseteq Notice /\ twice' \subseteq told'
      /\ overtaken' \subseteq Notice \cup Stale
  BY <1>1 DEF TypeInv, TypeOK, hist
<1> QED
  BY <1>1, <1>2, <1>3, <1>4, <1>5, <1>6 DEF TypeInv, TypeOK

LEMMA ListingTypes ==
  ASSUME TypeInv, Run \/ NextPhase
  PROVE  TypeInv'
<1>1. /\ UNCHANGED <<day, rows, heard, told, twice, lost, overtaken>>
      /\ sweep' \in Sweeps /\ sweep'.today <= day /\ sweep'.telling = {}
      /\ sweep'.todo \subseteq Listed(sweep'.at)
      /\ crossed' \subseteq Notice /\ (work' = work \/ Fail)
  BY ListingEffect
<1>2. Held' = sweep'.todo
  BY <1>1 DEF Held
<1>3. sweep'.at \in {"down", "wait"} => sweep'.todo = {}
  BY <1>1 DEF Listed
<1>4. /\ sweep'.at # "roll" => sweep'.todo \subseteq Notice
      /\ sweep'.at = "roll" => sweep'.todo \subseteq Stale
  BY <1>1, ListedTypes DEF TypeInv
<1>5. \A n \in Held' :
        /\ sweep'.at = "tasks"  => n.item \in {"task"} \X Tasks
        /\ sweep'.at = "alarms" => n.item \in {"alarm"} \X Alarms
        /\ sweep'.at \in {"roll", "events"} => n.item \in {"event"} \X Events
        /\ sweep'.at = "holidays" => n.item \in {"holiday"} \X (Users \X Holidays)
  BY <1>1, <1>2, ListedKinds DEF TypeInv
<1>6. SweepOK'
  BY <1>1, <1>2, <1>3, <1>4, <1>5 DEF SweepOK
<1>7. work' \in [requests : 0 .. MaxRequests, failures : 0 .. MaxFailures]
  BY <1>1, RemindersAssumption DEF Fail, TypeInv, TypeOK
<1>8. sweep' \in [at : {"down", "wait"} \cup Phases, today : 0 .. day',
                 todo : SUBSET (Notice \cup Stale), telling : SUBSET Notice]
  BY <1>1 DEF TypeInv, TypeOK, Sweeps
<1>9. UNCHANGED <<task, alarm, event, holiday, notice, active>>
  BY <1>1 DEF rows
<1> QED
  BY <1>1, <1>6, <1>7, <1>8, <1>9 DEF TypeInv, TypeOK

LEMMA CrashTypes ==
  ASSUME TypeInv, Crash
  PROVE  TypeInv'
<1>1. /\ sweep' = Idle /\ lost' = lost \cup sweep.telling /\ Fail
      /\ UNCHANGED <<day, rows, heard, told, twice, crossed, overtaken>>
  BY DEF Crash
<1>2. SweepOK'
  BY <1>1 DEF SweepOK, Held, Idle
<1>3. sweep' \in [at : {"down", "wait"} \cup Phases, today : 0 .. day',
                 todo : SUBSET (Notice \cup Stale), telling : SUBSET Notice]
  BY <1>1, RemindersAssumption DEF TypeInv, TypeOK, Idle
<1>4. work' \in [requests : 0 .. MaxRequests, failures : 0 .. MaxFailures]
  BY <1>1, RemindersAssumption DEF Fail, TypeInv, TypeOK
<1>5. lost' \subseteq Notice
  BY <1>1 DEF TypeInv, TypeOK
<1> QED
  BY <1>1, <1>2, <1>3, <1>4, <1>5 DEF TypeInv, TypeOK, rows

LEMMA NewDayTypes ==
  ASSUME TypeInv, NewDay
  PROVE  TypeInv'
<1>1. day' = day + 1 /\ day' \in 0 .. LastDay /\ UNCHANGED <<rows, heard, sweep, hist, work>>
  BY RemindersAssumption DEF NewDay, TypeInv, TypeOK
<1>2. SweepOK'
  BY <1>1 DEF TypeInv, SweepOK, Held
<1>3. sweep' \in [at : {"down", "wait"} \cup Phases, today : 0 .. day',
                 todo : SUBSET (Notice \cup Stale), telling : SUBSET Notice]
  <2>1. 0 .. day \subseteq 0 .. day'
    BY <1>1 DEF TypeInv, TypeOK
  <2> QED
    BY <2>1, <1>1 DEF TypeInv, TypeOK
<1>4. UNCHANGED <<task, alarm, event, holiday, notice, active, heard>>
  BY <1>1 DEF rows
<1>5. /\ told' \cup lost' \cup crossed' \subseteq Notice /\ twice' \subseteq told'
      /\ overtaken' \subseteq Notice \cup Stale
  BY <1>1 DEF hist, TypeInv, TypeOK
<1>6. work' \in [requests : 0 .. MaxRequests, failures : 0 .. MaxFailures]
  BY <1>1 DEF TypeInv, TypeOK
<1> QED
  BY <1>1, <1>2, <1>3, <1>4, <1>5, <1>6 DEF TypeInv, TypeOK

LEMMA NextTypeInv == TypeInv /\ [Next]_vars => TypeInv'
<1> SUFFICES ASSUME TypeInv, [Next]_vars PROVE TypeInv'
  OBVIOUS
<1>1. CASE Sweeping
  BY <1>1, ListingTypes, TellTypes, RollTypes, MarkTypes DEF Sweeping
<1>2. CASE Requests
  BY <1>2, RequestTypes
<1>3. CASE Crash
  BY <1>3, CrashTypes
<1>4. CASE NewDay
  BY <1>4, NewDayTypes
<1>5. CASE UNCHANGED vars
  BY <1>5 DEF vars, rows, hist, TypeInv, TypeOK, SweepOK, Held
<1> QED
  BY <1>1, <1>2, <1>3, <1>4, <1>5 DEF Next

(* The rows, what the sweep holds and the histories keep their types       *)
(* whatever the requests, the failures and the midnights; every occurrence *)
(* an event is given is a day of the calendars.                            *)
THEOREM TypeCorrect == Spec => []TypeOK
<1>1. TypeInv => TypeOK
  BY DEF TypeInv
<1> QED
  BY <1>1, InitTypeInv, NextTypeInv, PTL DEF Spec

-----------------------------------------------------------------------------
(* What each row has been told, step by step.  A notice told before is     *)
(* excused, or its row says so.                                            *)

Excused == lost \cup crossed \cup overtaken

(* Of what is on the sweep's list, only what is excused was told; what it  *)
(* is telling was told, lost or overtaken.                                 *)
ListInv ==
  /\ sweep.at # "roll" => \A n \in sweep.todo \cap told : n \in Excused
  /\ \A n \in sweep.telling : n \in told \cup lost \cup overtaken
  /\ twice \subseteq Excused

(* The history of an item stays as it was.                                 *)
SameHistory(item) ==
  \A n : n.item = item =>
    /\ n \in told' <=> n \in told
    /\ n \in lost' <=> n \in lost
    /\ n \in crossed' <=> n \in crossed
    /\ n \in overtaken' <=> n \in overtaken

LEMMA OtherHistory ==
  ASSUME NEW item, UNCHANGED hist \/ \E other : other # item /\ Reset(other)
  PROVE  SameHistory(item)
<1>1. CASE UNCHANGED hist
  BY <1>1 DEF hist, SameHistory
<1>2. CASE \E other : other # item /\ Reset(other)
  BY <1>2, ResetEffect DEF SameHistory
<1> QED
  BY <1>1, <1>2

LEMMA RequestListInv ==
  ASSUME TypeInv, ListInv, sweep' = sweep, UNCHANGED hist \/ \E item : Reset(item)
  PROVE  ListInv'
<1>1. CASE UNCHANGED hist
  BY <1>1 DEF hist, ListInv, Excused
<1>2. CASE \E item : Reset(item)
  <2>1. PICK item : Reset(item)
    BY <1>2
  <2>2. \A n : /\ n \in told'  <=> n \in told /\ n.item # item
               /\ n \in twice' <=> n \in twice /\ n.item # item
               /\ n \in Excused' <=> \/ n \in Excused /\ n.item # item
                                     \/ n \in Held /\ n.item = item
               /\ n \in lost' <=> n \in lost /\ n.item # item
               /\ n \in overtaken' <=> \/ n \in overtaken /\ n.item # item
                                       \/ n \in Held /\ n.item = item
    BY <2>1, ResetEffect DEF Excused, Held
  <2> QED
    BY <2>2 DEF ListInv, Held
<1> QED
  BY <1>1, <1>2

LEMMA TellListInv ==
  ASSUME TypeInv, ListInv, NEW n \in sweep.todo, Tell(n)
  PROVE  ListInv'
<1>1. /\ sweep.at # "roll" /\ sweep'.at = sweep.at /\ sweep'.todo = sweep.todo \ {n} /\ sweep'.telling = {n}
      /\ UNCHANGED <<crossed, overtaken>>
      /\ \/ told' = told \cup {n} /\ twice' = twice \cup ({n} \cap told) /\ UNCHANGED lost
         \/ lost' = lost \cup {n} /\ UNCHANGED <<told, twice>>
  BY DEF Tell, TypeInv, TypeOK
<1> QED
  BY <1>1 DEF ListInv, Excused

LEMMA MarkListInv ==
  ASSUME TypeInv, ListInv, NEW n \in sweep.telling, Mark(n)
  PROVE  ListInv'
<1>1. /\ sweep'.at = sweep.at /\ sweep'.todo = sweep.todo /\ sweep'.telling = {}
      /\ UNCHANGED <<told, twice, crossed, overtaken>> /\ lost \subseteq lost'
  BY MarkEffect
<1> QED
  BY <1>1 DEF ListInv, Excused

LEMMA RollListInv ==
  ASSUME TypeInv, ListInv, NEW n \in sweep.todo, Roll(n)
  PROVE  ListInv'
<1>1. sweep'.at = "roll" /\ sweep'.telling = {} /\ UNCHANGED <<told, twice, lost, crossed, overtaken>>
  BY RollFrame
<1> QED
  BY <1>1 DEF ListInv, Excused

LEMMA CrashListInv ==
  ASSUME TypeInv, ListInv, Crash
  PROVE  ListInv'
<1>1. sweep'.todo = {} /\ sweep'.telling = {} /\ lost \subseteq lost' /\ UNCHANGED <<told, twice, crossed, overtaken>>
  BY DEF Crash, Idle
<1> QED
  BY <1>1 DEF ListInv, Excused

-----------------------------------------------------------------------------
(* Tasks: the one the sweep holds is there, unless it was overtaken; one   *)
(* told of is flagged; and the flag means that it was.                     *)

Flagged(table, id) == table[id].is = "row" /\ table[id].sent

TaskSound(t) ==
  /\ \A n \in Held : n.item = <<"task", t>> /\ n \notin overtaken => task[t].is = "row"
  /\ \A n \in told : n.item = <<"task", t>> => n \in Excused \cup sweep.telling \/ Flagged(task, t)
  /\ Flagged(task, t) => \E n \in told \cup lost \cup overtaken : n.item = <<"task", t>>

LEMMA TaskFrame ==
  ASSUME NEW t \in Tasks, TaskSound(t), sweep' = sweep, task'[t] = task[t], SameHistory(<<"task", t>>)
  PROVE  TaskSound(t)'
BY DEF TaskSound, Flagged, SameHistory, Held, Excused

LEMMA TaskRequestSound ==
  ASSUME TypeInv, NEW t \in Tasks, TaskSound(t), sweep' = sweep, NEW r \in Tasks, TaskRequest(r)
  PROVE  TaskSound(t)'
<1> DEFINE item == <<"task", t>>
<1>1. PICK row \in TaskRow \cup {Gone} :
        /\ task' = [task EXCEPT ![r] = row]
        /\ \/ UNCHANGED hist /\ row.is = "row" /\ task[r].is = "free" /\ ~row.sent
           \/ UNCHANGED hist /\ row.is = "row" /\ task[r].is = "row" /\ row.sent = task[r].sent
           \/ Reset(<<"task", r>>) /\ (row = Gone \/ (row.is = "row" /\ ~row.sent))
  BY TaskRequestEffect DEF TypeInv
<1>2. task \in [Tasks -> TaskRow \cup {Free, Gone}]
  BY DEF TypeInv, TypeOK
<1>3. CASE r # t
  <2>1. task'[t] = task[t]
    BY <1>1, <1>2, <1>3
  <2>2. SameHistory(item)
    <3>1. UNCHANGED hist \/ Reset(<<"task", r>>)
      BY <1>1
    <3>2. <<"task", r>> # item
      BY <1>3
    <3> QED
      BY <3>1, <3>2, OtherHistory
  <2> QED
    BY <2>1, <2>2, TaskFrame
<1>4. CASE r = t
  <2>1. task'[t] = row
    BY <1>1, <1>2, <1>4
  <2>2. CASE UNCHANGED hist
    <3>1. SameHistory(item)
      BY <2>2, OtherHistory
    <3>2. CASE row.is = "row" /\ task[t].is = "row" /\ row.sent = task[t].sent
      BY <3>1, <3>2, <2>1 DEF TaskSound, Flagged, SameHistory, Held, Excused
    <3>3. CASE row.is = "row" /\ task[t].is = "free" /\ ~row.sent
      BY <3>1, <3>3, <2>1 DEF TaskSound, Flagged, SameHistory, Held, Excused
    <3>4. CASE Reset(<<"task", r>>) /\ (row = Gone \/ (row.is = "row" /\ ~row.sent))
      <4>1. ~Flagged(task, t)'
        BY <3>4, <2>1 DEF Flagged, Gone
      <4>2. \A n \in told' : n.item # item
        BY <3>4, <1>4, ResetEffect
      <4>3. \A n \in Held' : n.item = item => n \in overtaken'
        BY <3>4, <1>4, ResetEffect DEF Held
      <4> QED
        BY <4>1, <4>2, <4>3 DEF TaskSound
    <3> QED
      BY <3>2, <3>3, <3>4, <1>1, <1>4
  <2>3. CASE Reset(<<"task", r>>) /\ (row = Gone \/ (row.is = "row" /\ ~row.sent))
    <3>1. ~Flagged(task, t)'
      BY <2>3, <2>1 DEF Flagged, Gone
    <3>2. \A n \in told' : n.item # item
      BY <2>3, <1>4, ResetEffect
    <3>3. \A n \in Held' : n.item = item => n \in overtaken'
      BY <2>3, <1>4, ResetEffect DEF Held
    <3> QED
      BY <3>1, <3>2, <3>3 DEF TaskSound
  <2> QED
    BY <2>2, <2>3, <1>1, <1>4
<1> QED
  BY <1>3, <1>4

(* What is listed is there, and is not flagged.                            *)
LEMMA ListingTaskSound ==
  ASSUME TypeInv, NEW t \in Tasks, TaskSound(t), Run \/ NextPhase
  PROVE  /\ TaskSound(t)'
         /\ \A n \in told \cap sweep'.todo : n.item = <<"task", t>> => n \in Excused
<1>1. /\ UNCHANGED <<rows, told, lost, overtaken>> /\ Held = {} /\ sweep'.telling = {}
      /\ sweep'.todo \subseteq Listed(sweep'.at) /\ crossed \subseteq crossed' /\ sweep' \in Sweeps
  BY ListingEffect
<1>2. TypeInv'
  BY ListingTypes
<1>3. task' = task /\ sweep.telling = {} /\ Held' = sweep'.todo
  BY <1>1 DEF rows, Held
<1>4. ASSUME NEW n \in sweep'.todo, n.item = <<"task", t>>
      PROVE  task[t].is = "row" /\ ~task[t].sent
  <2>1. sweep'.at = "tasks"
    <3>1. /\ sweep'.at \notin {"down", "wait"}
          /\ sweep'.at = "alarms" => n.item \in {"alarm"} \X Alarms
          /\ sweep'.at \in {"roll", "events"} => n.item \in {"event"} \X Events
          /\ sweep'.at = "holidays" => n.item \in {"holiday"} \X (Users \X Holidays)
      BY <1>2, <1>3 DEF TypeInv, SweepOK
    <3>2. sweep'.at \in {"down", "wait", "tasks", "alarms", "roll", "events", "holidays"}
      BY <1>1 DEF Sweeps, Phases
    <3> QED
      BY <3>1, <3>2, <1>4
  <2>2. n \in DueReminders
    BY <2>1, <1>1 DEF Listed
  <2>3. PICK r \in Tasks : n.item = <<"task", r>> /\ task[r].is = "row" /\ ~task[r].sent
    BY <2>2, ListedTasks DEF TypeInv
  <2>4. r = t
    BY <2>3, <1>4
  <2> QED
    BY <2>3, <2>4
<1>5. \A n \in told \cap sweep'.todo : n.item = <<"task", t>> => n \in Excused
  BY <1>3, <1>4 DEF TaskSound, Flagged
<1> QED
  BY <1>1, <1>3, <1>4, <1>5 DEF TaskSound, Flagged, Excused

LEMMA TellTaskSound ==
  ASSUME TypeInv, NEW t \in Tasks, TaskSound(t), NEW n \in sweep.todo, Tell(n)
  PROVE  TaskSound(t)'
<1>1. /\ sweep'.todo = sweep.todo \ {n} /\ sweep'.telling = {n} /\ sweep.telling = {}
      /\ UNCHANGED <<task, crossed, overtaken>>
      /\ \/ told' = told \cup {n} /\ UNCHANGED lost
         \/ lost' = lost \cup {n} /\ UNCHANGED told
  BY DEF Tell, TypeInv, TypeOK, rows
<1> QED
  BY <1>1 DEF TaskSound, Flagged, Held, Excused

LEMMA MarkTaskSound ==
  ASSUME TypeInv, ListInv, NEW t \in Tasks, TaskSound(t), NEW n \in sweep.telling, Mark(n)
  PROVE  TaskSound(t)'
<1>1. /\ sweep'.todo = sweep.todo /\ sweep'.telling = {} /\ sweep.telling = {n} /\ n \in Notice
      /\ UNCHANGED <<told, crossed, overtaken>> /\ Held = sweep.todo \cup {n}
  BY MarkEffect
<1>2. n \in told \cup lost \cup overtaken
  BY DEF ListInv
<1>3. CASE lost' = lost \cup {n} /\ UNCHANGED task
  BY <1>1, <1>3 DEF TaskSound, Flagged, Held, Excused
<1>4. CASE MarkReminded(n) /\ UNCHANGED lost
  <2>1. CASE n.item = <<"task", t>> /\ task[t].is = "row"
    <3>1. task' = [task EXCEPT ![t].sent = TRUE]
      BY <2>1, <1>4 DEF MarkReminded, Has
    <3>2. task[t] \in TaskRow /\ task \in [Tasks -> TaskRow \cup {Free, Gone}]
      BY <2>1 DEF TypeInv, TypeOK, Free, Gone
    <3>3. task'[t].is = "row" /\ task'[t].sent
      BY <3>1, <3>2 DEF TaskRow
    <3> QED
      BY <3>3, <2>1, <1>1, <1>2, <1>4 DEF TaskSound, Flagged, Held, Excused
  <2>2. CASE ~(n.item = <<"task", t>> /\ task[t].is = "row")
    <3>1. task'[t] = task[t]
      <4>1. CASE Has(task, "task", n)
        <5>1. n.item[1] = "task" /\ n.item[2] \in Tasks /\ n.item = <<"task", n.item[2]>> /\ task[n.item[2]].is = "row"
          BY <4>1, <1>1 DEF Has, Notice, Item
        <5>2. n.item[2] # t
          BY <5>1, <2>2
        <5> QED
          BY <5>1, <5>2, <4>1, <1>4 DEF MarkReminded, TypeInv, TypeOK
      <4>2. CASE ~Has(task, "task", n)
        BY <4>2, <1>4 DEF MarkReminded
      <4> QED
        BY <4>1, <4>2
    <3>2. n.item = <<"task", t>> => n \in overtaken
      BY <2>2, <1>1 DEF TaskSound
    <3> QED
      BY <3>1, <3>2, <1>1, <1>4 DEF TaskSound, Flagged, Held, Excused
  <2> QED
    BY <2>1, <2>2
<1> QED
  BY <1>3, <1>4, MarkEffect

LEMMA OtherTaskSound ==
  ASSUME TypeInv, NEW t \in Tasks, TaskSound(t),
         (\E n \in sweep.todo : Roll(n)) \/ Crash \/ NewDay
  PROVE  TaskSound(t)'
<1>1. ASSUME NEW n \in sweep.todo, Roll(n)
      PROVE  TaskSound(t)'
  <2>1. /\ sweep'.todo = sweep.todo \ {n} /\ sweep'.telling = {} /\ sweep.telling = {}
        /\ UNCHANGED <<task, told, lost, crossed, overtaken>>
    BY <1>1, RollFrame
  <2> QED
    BY <2>1 DEF TaskSound, Flagged, Held, Excused
<1>2. CASE Crash
  <2>1. /\ Held' = {} /\ lost' = lost \cup sweep.telling /\ sweep'.telling = {}
        /\ UNCHANGED <<task, told, crossed, overtaken>>
    BY <1>2 DEF Crash, Idle, Held, rows
  <2> QED
    BY <2>1 DEF TaskSound, Flagged, Excused
<1>3. CASE NewDay
  BY <1>3 DEF NewDay, rows, hist, TaskSound, Flagged, Held, Excused
<1> QED
  BY <1>1, <1>2, <1>3

-----------------------------------------------------------------------------
(* Reminders: as tasks; one that was overtaken was deleted.                *)

AlarmSound(a) ==
  /\ \A n \in Held : n.item = <<"alarm", a>> /\ n \notin overtaken => alarm[a].is = "row"
  /\ \A n \in told : n.item = <<"alarm", a>> => n \in Excused \cup sweep.telling \/ Flagged(alarm, a)
  /\ Flagged(alarm, a) => \E n \in told \cup lost : n.item = <<"alarm", a>>
  /\ \A n \in overtaken : n.item = <<"alarm", a>> => alarm[a].is = "deleted"

LEMMA AlarmFrame ==
  ASSUME NEW a \in Alarms, AlarmSound(a), sweep' = sweep, alarm'[a] = alarm[a], SameHistory(<<"alarm", a>>)
  PROVE  AlarmSound(a)'
BY DEF AlarmSound, Flagged, SameHistory, Held, Excused

LEMMA AlarmRequestSound ==
  ASSUME TypeInv, NEW a \in Alarms, AlarmSound(a), sweep' = sweep,
         NEW r \in Alarms, createReminder(r) \/ deleteReminder(r)
  PROVE  AlarmSound(a)'
<1> DEFINE item == <<"alarm", a>>
<1>1. PICK row \in AlarmRow \cup {Gone} :
        /\ alarm' = [alarm EXCEPT ![r] = row]
        /\ \/ UNCHANGED hist /\ row.is = "row" /\ alarm[r].is = "free" /\ ~row.sent
           \/ Reset(<<"alarm", r>>) /\ row = Gone
  BY AlarmRequestEffect DEF TypeInv
<1>2. alarm \in [Alarms -> AlarmRow \cup {Free, Gone}]
  BY DEF TypeInv, TypeOK
<1>3. CASE r # a
  <2>1. alarm'[a] = alarm[a]
    BY <1>1, <1>2, <1>3
  <2>2. SameHistory(item)
    <3>1. UNCHANGED hist \/ Reset(<<"alarm", r>>)
      BY <1>1
    <3>2. <<"alarm", r>> # item
      BY <1>3
    <3> QED
      BY <3>1, <3>2, OtherHistory
  <2> QED
    BY <2>1, <2>2, AlarmFrame
<1>4. CASE r = a
  <2>1. alarm'[a] = row
    BY <1>1, <1>2, <1>4
  <2>2. CASE UNCHANGED hist /\ row.is = "row" /\ alarm[a].is = "free" /\ ~row.sent
    <3>1. SameHistory(item)
      BY <2>2, OtherHistory
    <3> QED
      BY <3>1, <2>1, <2>2 DEF AlarmSound, Flagged, SameHistory, Held, Excused
  <2>3. CASE Reset(<<"alarm", r>>) /\ row = Gone
    <3>1. ~Flagged(alarm, a)' /\ alarm'[a].is = "deleted"
      BY <2>3, <2>1 DEF Flagged, Gone
    <3>2. \A n \in told' : n.item # item
      BY <2>3, <1>4, ResetEffect
    <3>3. \A n \in Held' : n.item = item => n \in overtaken'
      BY <2>3, <1>4, ResetEffect DEF Held
    <3> QED
      BY <3>1, <3>2, <3>3 DEF AlarmSound
  <2> QED
    BY <2>2, <2>3, <1>1, <1>4
<1> QED
  BY <1>3, <1>4

LEMMA ListingAlarmSound ==
  ASSUME TypeInv, NEW a \in Alarms, AlarmSound(a), Run \/ NextPhase
  PROVE  /\ AlarmSound(a)'
         /\ \A n \in told \cap sweep'.todo : n.item = <<"alarm", a>> => n \in Excused
<1>1. /\ UNCHANGED <<rows, told, lost, overtaken>> /\ Held = {} /\ sweep'.telling = {}
      /\ sweep'.todo \subseteq Listed(sweep'.at) /\ crossed \subseteq crossed' /\ sweep' \in Sweeps
  BY ListingEffect
<1>2. TypeInv'
  BY ListingTypes
<1>3. alarm' = alarm /\ sweep.telling = {} /\ Held' = sweep'.todo
  BY <1>1 DEF rows, Held
<1>4. ASSUME NEW n \in sweep'.todo, n.item = <<"alarm", a>>
      PROVE  alarm[a].is = "row" /\ ~alarm[a].sent
  <2>1. sweep'.at = "alarms"
    <3>1. /\ sweep'.at \notin {"down", "wait"}
          /\ sweep'.at = "tasks" => n.item \in {"task"} \X Tasks
          /\ sweep'.at \in {"roll", "events"} => n.item \in {"event"} \X Events
          /\ sweep'.at = "holidays" => n.item \in {"holiday"} \X (Users \X Holidays)
      BY <1>2, <1>3 DEF TypeInv, SweepOK
    <3>2. sweep'.at \in {"down", "wait", "tasks", "alarms", "roll", "events", "holidays"}
      BY <1>1 DEF Sweeps, Phases
    <3> QED
      BY <3>1, <3>2, <1>4
  <2>2. n \in DueUserReminders
    BY <2>1, <1>1 DEF Listed
  <2>3. PICK r \in Alarms : n.item = <<"alarm", r>> /\ alarm[r].is = "row" /\ ~alarm[r].sent
    BY <2>2, ListedAlarms DEF TypeInv
  <2>4. r = a
    BY <2>3, <1>4
  <2> QED
    BY <2>3, <2>4
<1>5. \A n \in told \cap sweep'.todo : n.item = <<"alarm", a>> => n \in Excused
  BY <1>3, <1>4 DEF AlarmSound, Flagged
<1> QED
  BY <1>1, <1>3, <1>4, <1>5 DEF AlarmSound, Flagged, Excused

LEMMA TellAlarmSound ==
  ASSUME TypeInv, NEW a \in Alarms, AlarmSound(a), NEW n \in sweep.todo, Tell(n)
  PROVE  AlarmSound(a)'
<1>1. /\ sweep'.todo = sweep.todo \ {n} /\ sweep'.telling = {n} /\ sweep.telling = {}
      /\ UNCHANGED <<alarm, crossed, overtaken>>
      /\ \/ told' = told \cup {n} /\ UNCHANGED lost
         \/ lost' = lost \cup {n} /\ UNCHANGED told
  BY DEF Tell, TypeInv, TypeOK, rows
<1> QED
  BY <1>1 DEF AlarmSound, Flagged, Held, Excused

LEMMA MarkAlarmSound ==
  ASSUME TypeInv, ListInv, NEW a \in Alarms, AlarmSound(a), NEW n \in sweep.telling, Mark(n)
  PROVE  AlarmSound(a)'
<1>1. /\ sweep'.todo = sweep.todo /\ sweep'.telling = {} /\ sweep.telling = {n} /\ n \in Notice
      /\ UNCHANGED <<told, crossed, overtaken>> /\ Held = sweep.todo \cup {n}
  BY MarkEffect
<1>2. n \in told \cup lost \cup overtaken
  BY DEF ListInv
<1>3. CASE lost' = lost \cup {n} /\ UNCHANGED alarm
  BY <1>1, <1>3 DEF AlarmSound, Flagged, Held, Excused
<1>4. CASE MarkReminderSent(n) /\ UNCHANGED lost
  <2>1. CASE n.item = <<"alarm", a>> /\ alarm[a].is = "row"
    <3>1. alarm' = [alarm EXCEPT ![a].sent = TRUE]
      BY <2>1, <1>4 DEF MarkReminderSent, Has
    <3>2. alarm[a] \in AlarmRow /\ alarm \in [Alarms -> AlarmRow \cup {Free, Gone}]
      BY <2>1 DEF TypeInv, TypeOK, Free, Gone
    <3>3. alarm'[a].is = "row" /\ alarm'[a].sent
      BY <3>1, <3>2 DEF AlarmRow
    <3> QED
      BY <3>3, <2>1, <1>1, <1>2, <1>4 DEF AlarmSound, Flagged, Held, Excused
  <2>2. CASE ~(n.item = <<"alarm", a>> /\ alarm[a].is = "row")
    <3>1. alarm'[a] = alarm[a]
      <4>1. CASE Has(alarm, "alarm", n)
        <5>1. n.item[1] = "alarm" /\ n.item[2] \in Alarms /\ n.item = <<"alarm", n.item[2]>> /\ alarm[n.item[2]].is = "row"
          BY <4>1, <1>1 DEF Has, Notice, Item
        <5>2. n.item[2] # a
          BY <5>1, <2>2
        <5> QED
          BY <5>1, <5>2, <4>1, <1>4 DEF MarkReminderSent, TypeInv, TypeOK
      <4>2. CASE ~Has(alarm, "alarm", n)
        BY <4>2, <1>4 DEF MarkReminderSent
      <4> QED
        BY <4>1, <4>2
    <3>2. n.item = <<"alarm", a>> => n \in overtaken
      BY <2>2, <1>1 DEF AlarmSound
    <3> QED
      BY <3>1, <3>2, <1>1, <1>4 DEF AlarmSound, Flagged, Held, Excused
  <2> QED
    BY <2>1, <2>2
<1> QED
  BY <1>3, <1>4, MarkEffect

LEMMA OtherAlarmSound ==
  ASSUME TypeInv, NEW a \in Alarms, AlarmSound(a),
         (\E n \in sweep.todo : Roll(n)) \/ Crash \/ NewDay
  PROVE  AlarmSound(a)'
<1>1. ASSUME NEW n \in sweep.todo, Roll(n)
      PROVE  AlarmSound(a)'
  <2>1. /\ sweep'.todo = sweep.todo \ {n} /\ sweep'.telling = {} /\ sweep.telling = {}
        /\ UNCHANGED <<alarm, told, lost, crossed, overtaken>>
    BY <1>1, RollFrame
  <2> QED
    BY <2>1 DEF AlarmSound, Flagged, Held, Excused
<1>2. CASE Crash
  <2>1. /\ Held' = {} /\ lost' = lost \cup sweep.telling /\ sweep'.telling = {}
        /\ UNCHANGED <<alarm, told, crossed, overtaken>>
    BY <1>2 DEF Crash, Idle, Held, rows
  <2> QED
    BY <2>1 DEF AlarmSound, Flagged, Excused
<1>3. CASE NewDay
  BY <1>3 DEF NewDay, rows, hist, AlarmSound, Flagged, Held, Excused
<1> QED
  BY <1>1, <1>2, <1>3

-----------------------------------------------------------------------------
(* Holidays: no request resets what was told of one; who was told has      *)
(* heard, for as long as there is the holiday.                             *)

HolidaySound(uh) ==
  /\ \A n \in Held : n.item = <<"holiday", uh>> => holiday[uh[2]].is \in {"row", "deleted"}
  /\ \A n \in told : n.item = <<"holiday", uh>> =>
       n \in Excused \cup sweep.telling \/ uh \in heard \/ holiday[uh[2]].is = "deleted"
  /\ uh \in heard => \E n \in told \cup lost : n.item = <<"holiday", uh>>
  /\ \A n \in overtaken : n.item # <<"holiday", uh>>

LEMMA HolidayFrame ==
  ASSUME NEW uh \in Users \X Holidays, HolidaySound(uh), sweep' = sweep,
         holiday' = holiday, heard' = heard, SameHistory(<<"holiday", uh>>)
  PROVE  HolidaySound(uh)'
BY DEF HolidaySound, SameHistory, Held, Excused

LEMMA HolidayRequestSound ==
  ASSUME TypeInv, NEW uh \in Users \X Holidays, HolidaySound(uh), sweep' = sweep,
         NEW h \in Holidays, SaveHoliday(h) \/ DropHoliday(h)
  PROVE  HolidaySound(uh)'
<1>1. UNCHANGED hist /\ holiday[h].is \in {"free", "row"}
  BY HolidayRequestEffect DEF TypeInv
<1>2. PICK row \in HolidayRow \cup {Gone} :
        /\ holiday' = [holiday EXCEPT ![h] = row]
        /\ \/ row.is = "row" /\ heard' = heard
           \/ row = Gone /\ heard' = {x \in heard : x[2] # h}
  BY HolidayRequestEffect DEF TypeInv
<1>3. uh[2] \in Holidays /\ holiday \in [Holidays -> HolidayRow \cup {Free, Gone}]
  BY DEF TypeInv, TypeOK
<1>4. /\ uh[2] # h => holiday'[uh[2]] = holiday[uh[2]] /\ (uh \in heard' <=> uh \in heard)
      /\ uh[2] = h => holiday'[uh[2]].is \in {"row", "deleted"} /\ holiday[uh[2]].is \in {"free", "row"}
  BY <1>1, <1>2, <1>3 DEF Gone
<1>5. uh \in heard' => uh \in heard
  BY <1>2
<1>6. uh[2] = h /\ uh \in heard /\ uh \notin heard' => holiday'[uh[2]].is = "deleted"
  BY <1>2, <1>3 DEF Gone
<1>7. SameHistory(<<"holiday", uh>>)
  BY <1>1, OtherHistory
<1> QED
  BY <1>4, <1>5, <1>6, <1>7 DEF HolidaySound, SameHistory, Held, Excused

LEMMA ListingHolidaySound ==
  ASSUME TypeInv, NEW uh \in Users \X Holidays, HolidaySound(uh), Run \/ NextPhase
  PROVE  /\ HolidaySound(uh)'
         /\ \A n \in told \cap sweep'.todo : n.item = <<"holiday", uh>> => n \in Excused
<1>1. /\ UNCHANGED <<rows, heard, told, lost, overtaken>> /\ Held = {} /\ sweep'.telling = {}
      /\ sweep'.todo \subseteq Listed(sweep'.at) /\ crossed \subseteq crossed' /\ sweep' \in Sweeps
  BY ListingEffect
<1>2. TypeInv'
  BY ListingTypes
<1>3. holiday' = holiday /\ sweep.telling = {} /\ Held' = sweep'.todo
  BY <1>1 DEF rows, Held
<1>4. ASSUME NEW n \in sweep'.todo, n.item = <<"holiday", uh>>
      PROVE  holiday[uh[2]].is = "row" /\ uh \notin heard
  <2>1. sweep'.at = "holidays"
    <3>1. /\ sweep'.at \notin {"down", "wait"}
          /\ sweep'.at = "tasks" => n.item \in {"task"} \X Tasks
          /\ sweep'.at = "alarms" => n.item \in {"alarm"} \X Alarms
          /\ sweep'.at \in {"roll", "events"} => n.item \in {"event"} \X Events
      BY <1>2, <1>3 DEF TypeInv, SweepOK
    <3>2. sweep'.at \in {"down", "wait", "tasks", "alarms", "roll", "events", "holidays"}
      BY <1>1 DEF Sweeps, Phases
    <3> QED
      BY <3>1, <3>2, <1>4
  <2>2. n \in DueHolidayReminders
    BY <2>1, <1>1 DEF Listed
  <2>3. PICK x \in Users \X Holidays : n.item = <<"holiday", x>> /\ holiday[x[2]].is = "row" /\ x \notin heard
    BY <2>2, ListedHolidays DEF TypeInv
  <2>4. x = uh
    BY <2>3, <1>4
  <2> QED
    BY <2>3, <2>4
<1>5. \A n \in told \cap sweep'.todo : n.item = <<"holiday", uh>> => n \in Excused
  BY <1>3, <1>4 DEF HolidaySound
<1> QED
  BY <1>1, <1>3, <1>4, <1>5 DEF HolidaySound, Excused

LEMMA TellHolidaySound ==
  ASSUME TypeInv, NEW uh \in Users \X Holidays, HolidaySound(uh), NEW n \in sweep.todo, Tell(n)
  PROVE  HolidaySound(uh)'
<1>1. /\ sweep'.todo = sweep.todo \ {n} /\ sweep'.telling = {n} /\ sweep.telling = {}
      /\ UNCHANGED <<holiday, heard, crossed, overtaken>>
      /\ \/ told' = told \cup {n} /\ UNCHANGED lost
         \/ lost' = lost \cup {n} /\ UNCHANGED told
  BY DEF Tell, TypeInv, TypeOK, rows
<1> QED
  BY <1>1 DEF HolidaySound, Held, Excused

LEMMA MarkHolidaySound ==
  ASSUME TypeInv, ListInv, NEW uh \in Users \X Holidays, HolidaySound(uh), NEW n \in sweep.telling, Mark(n)
  PROVE  HolidaySound(uh)'
<1>1. /\ sweep'.todo = sweep.todo /\ sweep'.telling = {} /\ sweep.telling = {n}
      /\ UNCHANGED <<holiday, told, crossed, overtaken>> /\ Held = sweep.todo \cup {n}
  BY MarkEffect
<1>2. n \in told \cup lost \cup overtaken
  BY DEF ListInv
<1>3. CASE lost' = lost \cup {n} /\ UNCHANGED heard
  BY <1>1, <1>3 DEF HolidaySound, Held, Excused
<1>4. CASE MarkHolidayReminded(n) /\ UNCHANGED lost
  <2>1. \A x \in Users \X Holidays :
          x \in heard' <=> x \in heard \/ (n.item = <<"holiday", x>> /\ holiday[x[2]].is = "row")
    BY <1>4 DEF MarkHolidayReminded
  <2> QED
    BY <2>1, <1>1, <1>2, <1>4 DEF HolidaySound, Held, Excused
<1> QED
  BY <1>3, <1>4, MarkEffect

LEMMA OtherHolidaySound ==
  ASSUME TypeInv, NEW uh \in Users \X Holidays, HolidaySound(uh),
         (\E n \in sweep.todo : Roll(n)) \/ Crash \/ NewDay
  PROVE  HolidaySound(uh)'
<1>1. ASSUME NEW n \in sweep.todo, Roll(n)
      PROVE  HolidaySound(uh)'
  <2>1. /\ sweep'.todo = sweep.todo \ {n} /\ sweep'.telling = {} /\ sweep.telling = {}
        /\ UNCHANGED <<holiday, heard, told, lost, crossed, overtaken>>
    BY <1>1, RollFrame
  <2> QED
    BY <2>1 DEF HolidaySound, Held, Excused
<1>2. CASE Crash
  <2>1. /\ Held' = {} /\ lost' = lost \cup sweep.telling /\ sweep'.telling = {}
        /\ UNCHANGED <<holiday, heard, told, crossed, overtaken>>
    BY <1>2 DEF Crash, Idle, Held, rows
  <2> QED
    BY <2>1 DEF HolidaySound, Excused
<1>3. CASE NewDay
  BY <1>3 DEF NewDay, rows, hist, HolidaySound, Held, Excused
<1> QED
  BY <1>1, <1>2, <1>3

-----------------------------------------------------------------------------
(* Events.  What the sweep holds of one is the row as it is, or was        *)
(* overtaken; what it rolls is past for it, or was crossed.                *)

Match(n, e) ==
  /\ event[e].is = "row" /\ n.when = event[e].next
  /\ sweep.at = "roll" =>
       /\ n.repeat = event[e].repeat /\ n.date = event[e].date
       /\ n.when < sweep.today \/ [item |-> n.item, when |-> n.when] \in crossed

(* The day before which an occurrence is past, for the sweep as for the    *)
(* rolls it has yet to make.                                               *)
Boundary == IF sweep.at \in {"tasks", "alarms", "roll"} THEN sweep.today ELSE day

(* An occurrence told is excused, or the one the event stands at, flagged, *)
(* or past.                                                                *)
ToldInTime(n, e) ==
  /\ event[e].is = "row"
  /\ IF n.when = event[e].next THEN event[e].reminded ELSE n.when < Boundary

FirstAhead(e) ==
  /\ Recurs(event[e].repeat, event[e].date, event[e].next)
  /\ \A d \in day .. event[e].next - 1 : ~Recurs(event[e].repeat, event[e].date, d)

EventSound(e) ==
  /\ \A n, m \in Held : n.item = <<"event", e>> /\ m.item = <<"event", e>> => n = m
  /\ \A n \in Held : n.item = <<"event", e>> =>
       Match(n, e) \/ (n \in overtaken /\ (sweep.at = "roll" => \A m \in told : m.item # <<"event", e>>))
  /\ \A n \in told : n.item = <<"event", e>> => n \in Excused \cup sweep.telling \/ ToldInTime(n, e)
  /\ event[e].is = "row" /\ event[e].reminded =>
       \/ \E n \in overtaken : n.item = <<"event", e>>
       \/ \E n \in told \cup lost : n.item = <<"event", e>> /\ n.when = event[e].next
  /\ event[e].is = "row" /\ event[e].repeat # "none" /\ (\A n \in overtaken : n.item # <<"event", e>>)
       => FirstAhead(e)

LEMMA EventFrame ==
  ASSUME NEW e \in Events, EventSound(e), event'[e] = event[e], SameHistory(<<"event", e>>), day' = day,
         sweep'.at = sweep.at, sweep'.today = sweep.today, sweep'.telling = sweep.telling, Held' \subseteq Held
  PROVE  EventSound(e)'
<1>1. ASSUME NEW n, n.item = <<"event", e>>, Match(n, e)
      PROVE  Match(n, e)'
  <2>1. [item |-> n.item, when |-> n.when] \in crossed' <=> [item |-> n.item, when |-> n.when] \in crossed
    BY <1>1 DEF SameHistory
  <2> QED
    BY <2>1, <1>1 DEF Match
<1>2. Boundary' = Boundary /\ FirstAhead(e)' = FirstAhead(e)
  BY DEF Boundary, FirstAhead
<1>3. \A n : ToldInTime(n, e)' <=> ToldInTime(n, e)
  BY <1>2 DEF ToldInTime
<1> QED
  BY <1>1, <1>2, <1>3 DEF EventSound, SameHistory, Excused

LEMMA EventRequestSound ==
  ASSUME TypeInv, NEW e \in Events, EventSound(e), sweep' = sweep, day' = day,
         NEW r \in Events, SaveEvent(r) \/ DropEvent(r)
  PROVE  EventSound(e)'
<1> DEFINE item == <<"event", e>>
<1>1. Reset(<<"event", r>>)
  BY EventRequestEffect DEF TypeInv
<1>2. PICK row \in EventRow \cup {Gone} :
        /\ event' = [event EXCEPT ![r] = row]
        /\ row = Gone \/ (/\ row.is = "row" /\ ~row.reminded
                          /\ row.next = NextOccurrence(row.repeat, row.date, day) /\ row.next # NoDay)
  BY EventRequestEffect DEF TypeInv
<1>3. event \in [Events -> EventRow \cup {Free, Gone}]
  BY DEF TypeInv, TypeOK
<1>4. CASE r # e
  <2>1. event'[e] = event[e]
    BY <1>2, <1>3, <1>4
  <2>2. <<"event", r>> # item
    BY <1>4
  <2>3. SameHistory(item)
    BY <2>2, <1>1, OtherHistory
  <2>4. Held' = Held
    BY DEF Held
  <2> QED
    BY <2>1, <2>3, <2>4, EventFrame
<1>5. CASE r = e
  <2>1. event'[e] = row
    BY <1>2, <1>3, <1>5
  <2>2. \A n \in told' : n.item # item
    BY <1>1, <1>5, ResetEffect
  <2>3. \A n \in Held' : n.item = item => n \in overtaken'
    BY <1>1, <1>5, ResetEffect DEF Held
  <2>4. ASSUME row.is = "row", row.repeat # "none"
        PROVE  FirstAhead(e)'
    <3>1. row \in EventRow /\ row.next = NextOccurrence(row.repeat, row.date, day) /\ row.next # NoDay
      BY <2>4, <1>2 DEF Gone
    <3>2. row.repeat \in Modes /\ row.date \in Nat /\ day \in Nat
      BY <3>1, RemindersAssumption DEF EventRow, TypeInv, TypeOK
    <3>3. /\ Recurs(row.repeat, row.date, row.next)
          /\ \A d \in day .. row.next - 1 : ~Recurs(row.repeat, row.date, d)
      BY <3>1, <3>2, <2>4, OccurrenceFacts
    <3> QED
      BY <3>3, <2>1 DEF FirstAhead
  <2>5. ~(row.is = "row" /\ row.reminded)
    BY <1>2 DEF Gone
  <2>6. \A n, m \in Held' : n.item = item /\ m.item = item => n = m
    BY DEF EventSound, Held
  <2> QED
    BY <2>1, <2>2, <2>3, <2>4, <2>5, <2>6 DEF EventSound
<1> QED
  BY <1>4, <1>5

(* What is past stays so as the sweep goes on.                             *)
LEMMA BoundaryGrows ==
  ASSUME TypeInv, (Run \/ NextPhase) \/ Crash \/ NewDay
  PROVE  Boundary \in Nat /\ Boundary' \in Nat /\ Boundary <= Boundary'
<1>1. day \in Nat /\ sweep.today \in Nat /\ sweep.today <= day
  BY RemindersAssumption DEF TypeInv, TypeOK
<1>2. CASE Run \/ NextPhase
  <2>1. /\ day' = day
        /\ sweep'.at = "tasks" => sweep'.today = day
        /\ sweep'.at \in {"alarms", "roll"} => sweep'.today = sweep.today /\ sweep.at \in {"tasks", "alarms"}
    BY <1>2, ListingEffect
  <2> QED
    BY <2>1, <1>1 DEF Boundary
<1>3. CASE Crash
  BY <1>1, <1>3 DEF Crash, Idle, Boundary
<1>4. CASE NewDay
  BY <1>1, <1>4 DEF NewDay, Boundary
<1> QED
  BY <1>2, <1>3, <1>4

LEMMA ListingEventSound ==
  ASSUME TypeInv, NEW e \in Events, EventSound(e), Run \/ NextPhase
  PROVE  /\ EventSound(e)'
         /\ sweep'.at # "roll" =>
              \A n \in told \cap sweep'.todo : n.item = <<"event", e>> => n \in Excused
<1> DEFINE item == <<"event", e>>
<1>1. /\ UNCHANGED <<day, rows, told, lost, overtaken>> /\ Held = {} /\ sweep'.telling = {}
      /\ sweep'.todo \subseteq Listed(sweep'.at) /\ crossed \subseteq crossed' /\ sweep' \in Sweeps
      /\ sweep'.at \in {"alarms", "roll"} => sweep'.today = sweep.today
      /\ \A n \in sweep'.todo : sweep'.at = "roll" =>
           n.when < sweep.today \/ [item |-> n.item, when |-> n.when] \in crossed'
  BY ListingEffect
<1>2. TypeInv'
  BY ListingTypes
<1>3. event' = event /\ sweep.telling = {} /\ Held' = sweep'.todo
  BY <1>1 DEF rows, Held
<1>4. ASSUME NEW n \in sweep'.todo, n.item = item
      PROVE  sweep'.at \in {"roll", "events"}
  <2>1. /\ sweep'.at \notin {"down", "wait"}
        /\ sweep'.at = "tasks" => n.item \in {"task"} \X Tasks
        /\ sweep'.at = "alarms" => n.item \in {"alarm"} \X Alarms
        /\ sweep'.at = "holidays" => n.item \in {"holiday"} \X (Users \X Holidays)
    BY <1>2, <1>3 DEF TypeInv, SweepOK
  <2>2. sweep'.at \in {"down", "wait", "tasks", "alarms", "roll", "events", "holidays"}
    BY <1>1 DEF Sweeps, Phases
  <2> QED
    BY <2>1, <2>2, <1>4
<1>5. ASSUME NEW n \in sweep'.todo, n.item = item, sweep'.at = "events"
      PROVE  /\ n = [item |-> item, when |-> event[e].next]
             /\ event[e].is = "row" /\ ~event[e].reminded
  <2>1. n \in DueCalendarReminders
    BY <1>1, <1>5 DEF Listed
  <2>2. PICK x \in Events : /\ n.item = <<"event", x>> /\ event[x].is = "row" /\ ~event[x].reminded
                            /\ n = [item |-> <<"event", x>>, when |-> event[x].next]
    BY <2>1, ListedEvents DEF TypeInv
  <2>3. x = e
    BY <2>2, <1>5
  <2> QED
    BY <2>2, <2>3
<1>6. ASSUME NEW n \in sweep'.todo, n.item = item, sweep'.at = "roll"
      PROVE  /\ n = [item |-> item, when |-> event[e].next, repeat |-> event[e].repeat, date |-> event[e].date]
             /\ event[e].is = "row"
  <2>1. n \in StaleRepeatingEvents
    BY <1>1, <1>6 DEF Listed
  <2>2. PICK x \in Events : /\ n.item = <<"event", x>> /\ event[x].is = "row"
                            /\ n = [item |-> <<"event", x>>, when |-> event[x].next,
                                    repeat |-> event[x].repeat, date |-> event[x].date]
    BY <2>1, ListedStale DEF TypeInv
  <2>3. x = e
    BY <2>2, <1>6
  <2> QED
    BY <2>2, <2>3
<1>7. \A n \in sweep'.todo : n.item = item => Match(n, e)'
  <2> SUFFICES ASSUME NEW n \in sweep'.todo, n.item = item PROVE Match(n, e)'
    OBVIOUS
  <2>1. CASE sweep'.at = "events"
    BY <2>1, <1>3, <1>5 DEF Match
  <2>2. CASE sweep'.at = "roll"
    <3>1. /\ n.when = event[e].next /\ n.repeat = event[e].repeat /\ n.date = event[e].date /\ event[e].is = "row"
      BY <2>2, <1>6
    <3>2. n.when < sweep'.today \/ [item |-> n.item, when |-> n.when] \in crossed'
      BY <2>2, <1>1
    <3> QED
      BY <3>1, <3>2, <1>3 DEF Match
  <2> QED
    BY <2>1, <2>2, <1>4
<1>8. \A n, m \in sweep'.todo : n.item = item /\ m.item = item => n = m
  BY <1>4, <1>5, <1>6
<1>9. sweep'.at # "roll" => \A n \in told \cap sweep'.todo : n.item = item => n \in Excused
  BY <1>3, <1>4, <1>5 DEF EventSound, ToldInTime
<1>10. ASSUME NEW n \in told, n.item = item
       PROVE  n \in Excused' \cup sweep'.telling \/ ToldInTime(n, e)'
  <2>1. Excused \subseteq Excused'
    BY <1>1 DEF Excused
  <2>2. n.when \in Nat
    BY <1>10 DEF TypeInv, TypeOK, Notice
  <2>3. ToldInTime(n, e) => ToldInTime(n, e)'
    BY <2>2, <1>3, BoundaryGrows DEF ToldInTime
  <2> QED
    BY <2>1, <2>3, <1>3, <1>10 DEF EventSound
<1>11. FirstAhead(e)' = FirstAhead(e)
  BY <1>1, <1>3 DEF FirstAhead
<1> QED
  BY <1>1, <1>3, <1>7, <1>8, <1>9, <1>10, <1>11 DEF EventSound

LEMMA TellEventSound ==
  ASSUME TypeInv, NEW e \in Events, EventSound(e), NEW n \in sweep.todo, Tell(n)
  PROVE  EventSound(e)'
<1>1. /\ sweep'.todo = sweep.todo \ {n} /\ sweep'.telling = {n} /\ sweep.telling = {}
      /\ sweep.at # "roll" /\ sweep'.at = sweep.at /\ sweep'.today = sweep.today
      /\ UNCHANGED <<day, event, crossed, overtaken>>
      /\ \/ told' = told \cup {n} /\ UNCHANGED lost
         \/ lost' = lost \cup {n} /\ UNCHANGED told
  BY DEF Tell, TypeInv, TypeOK, rows
<1>2. Held' = Held
  BY <1>1 DEF Held
<1>3. \A m : /\ Match(m, e)' <=> Match(m, e)
             /\ ToldInTime(m, e)' <=> ToldInTime(m, e)
  BY <1>1 DEF Match, ToldInTime, Boundary
<1>4. FirstAhead(e)' = FirstAhead(e)
  BY <1>1 DEF FirstAhead
<1> QED
  BY <1>1, <1>2, <1>3, <1>4 DEF EventSound, Excused

LEMMA MarkEventSound ==
  ASSUME TypeInv, ListInv, NEW e \in Events, EventSound(e), NEW n \in sweep.telling, Mark(n)
  PROVE  EventSound(e)'
<1> DEFINE item == <<"event", e>>
<1>1. /\ sweep'.todo = sweep.todo /\ sweep'.telling = {} /\ sweep.telling = {n} /\ n \in Notice
      /\ sweep'.at = sweep.at /\ sweep'.today = sweep.today
      /\ UNCHANGED <<day, told, crossed, overtaken>> /\ Held = sweep.todo \cup {n}
  BY MarkEffect
<1>2. Held' \subseteq Held /\ sweep.at # "roll" /\ n \in told \cup lost \cup overtaken
  BY <1>1 DEF Held, TypeInv, SweepOK, ListInv
<1>3. CASE lost' = lost \cup {n} /\ UNCHANGED event
  <2>1. \A m : /\ Match(m, e)' <=> Match(m, e)
               /\ ToldInTime(m, e)' <=> ToldInTime(m, e)
    BY <1>1, <1>3 DEF Match, ToldInTime, Boundary
  <2>2. FirstAhead(e)' = FirstAhead(e)
    BY <1>1, <1>3 DEF FirstAhead
  <2> QED
    BY <2>1, <2>2, <1>1, <1>2, <1>3 DEF EventSound, Excused
<1>4. CASE MarkCalendarEventReminded(n) /\ UNCHANGED lost
  <2>1. CASE n.item = item /\ event[e].is = "row"
    <3>1. event' = [event EXCEPT ![e].reminded = TRUE]
      BY <2>1, <1>4 DEF MarkCalendarEventReminded, Has
    <3>2. event[e] \in EventRow /\ event \in [Events -> EventRow \cup {Free, Gone}]
      BY <2>1 DEF TypeInv, TypeOK, Free, Gone
    <3>3. /\ event'[e].is = "row" /\ event'[e].reminded /\ event'[e].next = event[e].next
          /\ event'[e].repeat = event[e].repeat /\ event'[e].date = event[e].date
      BY <3>1, <3>2 DEF EventRow
    <3>4. \A m : /\ Match(m, e)' <=> Match(m, e)
                 /\ ToldInTime(m, e) => ToldInTime(m, e)'
      BY <3>3, <2>1, <1>1 DEF Match, ToldInTime, Boundary
    <3>5. FirstAhead(e)' = FirstAhead(e)
      BY <3>3, <1>1 DEF FirstAhead
    <3>6. n \in overtaken \/ (n \in told \cup lost /\ n.when = event[e].next)
      BY <2>1, <1>1, <1>2 DEF EventSound, Match
    <3>7. n \in overtaken \/ ToldInTime(n, e)'
      BY <3>3, <3>6 DEF ToldInTime
    <3>8. \A m \in told : m.item = item => m \in Excused' \/ ToldInTime(m, e)'
      BY <3>4, <3>7, <1>1, <1>4 DEF EventSound, Excused
    <3> QED
      BY <3>3, <3>4, <3>5, <3>6, <3>8, <2>1, <1>1, <1>2, <1>4 DEF EventSound
  <2>2. CASE ~(n.item = item /\ event[e].is = "row")
    <3>1. event'[e] = event[e]
      <4>1. CASE Has(event, "event", n)
        <5>1. n.item[1] = "event" /\ n.item[2] \in Events /\ n.item = <<"event", n.item[2]>> /\ event[n.item[2]].is = "row"
          BY <4>1, <1>1 DEF Has, Notice, Item
        <5>2. n.item[2] # e
          BY <5>1, <2>2
        <5> QED
          BY <5>1, <5>2, <4>1, <1>4 DEF MarkCalendarEventReminded, TypeInv, TypeOK
      <4>2. CASE ~Has(event, "event", n)
        BY <4>2, <1>4 DEF MarkCalendarEventReminded
      <4> QED
        BY <4>1, <4>2
    <3>2. n.item = item => n \in overtaken
      BY <2>2, <1>1 DEF EventSound, Match
    <3>3. \A m : /\ Match(m, e)' <=> Match(m, e)
                 /\ ToldInTime(m, e)' <=> ToldInTime(m, e)
      BY <3>1, <1>1 DEF Match, ToldInTime, Boundary
    <3>4. FirstAhead(e)' = FirstAhead(e)
      BY <3>1, <1>1 DEF FirstAhead
    <3> QED
      BY <3>1, <3>2, <3>3, <3>4, <1>1, <1>2, <1>4 DEF EventSound, Excused
  <2> QED
    BY <2>1, <2>2
<1> QED
  BY <1>3, <1>4, MarkEffect

(* A roll moves an event on, past what was told of it: what it was told at *)
(* the day it stood at is past on the sweep's day, or was crossed.         *)
LEMMA RollEventSound ==
  ASSUME TypeInv, NEW e \in Events, EventSound(e), NEW n \in sweep.todo, Roll(n)
  PROVE  EventSound(e)'
<1> DEFINE item == <<"event", e>>
           w == NextOccurrence(n.repeat, n.date, sweep.today)
<1>1. /\ sweep.at = "roll" /\ sweep.telling = {}
      /\ sweep'.at = "roll" /\ sweep'.telling = {} /\ sweep'.todo = sweep.todo \ {n}
      /\ sweep'.today = sweep.today
      /\ UNCHANGED <<day, told, twice, lost, crossed, overtaken>>
  BY RollFrame
<1>2. SameHistory(item)
  BY <1>1 DEF SameHistory
<1>3. Held' = Held \ {n} /\ n \in Held /\ n \in Stale
  BY <1>1 DEF Held, TypeInv, SweepOK
<1>4. n.item[2] \in Events /\ n.item = <<"event", n.item[2]>> /\ n.repeat \in Modes \ {"none"} /\ n.date \in Nat
  BY <1>3, RemindersAssumption DEF Stale
<1>5. \/ event' = event
      \/ /\ w # NoDay /\ event[n.item[2]].is = "row" /\ event[n.item[2]] \in EventRow
         /\ event' = [event EXCEPT ![n.item[2]] = [event[n.item[2]] EXCEPT !.next = w, !.reminded = FALSE]]
  BY RollEffect
<1>6. event \in [Events -> EventRow \cup {Free, Gone}] /\ sweep.today \in Nat /\ sweep.today <= day /\ day \in Nat
  BY RemindersAssumption DEF TypeInv, TypeOK
<1>7. w # NoDay => /\ w \in Nat /\ w >= sweep.today /\ Recurs(n.repeat, n.date, w)
                   /\ \A d \in sweep.today .. w - 1 : ~Recurs(n.repeat, n.date, d)
  BY <1>4, <1>6, OccurrenceFacts
<1> HIDE DEF w
<1>8. CASE event'[e] = event[e]
  BY <1>1, <1>2, <1>3, <1>8, EventFrame
<1>9. CASE event'[e] # event[e]
  <2>1. /\ n.item = item /\ w # NoDay /\ event[e].is = "row" /\ event[e] \in EventRow
        /\ event'[e] = [event[e] EXCEPT !.next = w, !.reminded = FALSE]
    BY <1>4, <1>5, <1>6, <1>9
  <2>2. /\ event'[e].is = "row" /\ ~event'[e].reminded /\ event'[e].next = w
        /\ event'[e].repeat = event[e].repeat /\ event'[e].date = event[e].date /\ event[e].next \in Nat
    BY <2>1 DEF EventRow
  <2>3. \A m \in Held' : m.item # item
    BY <2>1, <1>3 DEF EventSound
  <2>4. Match(n, e) \/ (n \in overtaken /\ \A m \in told : m.item # item)
    BY <2>1, <1>1, <1>3 DEF EventSound
  <2>5. ASSUME NEW m \in told, m.item = item
        PROVE  m \in Excused' \cup sweep'.telling \/ ToldInTime(m, e)'
    <3>1. Match(n, e)
      BY <2>4, <2>5
    <3>2. /\ n.when = event[e].next
          /\ n.when < sweep.today \/ [item |-> n.item, when |-> n.when] \in crossed
      BY <3>1, <1>1 DEF Match
    <3>3. m.when \in Nat /\ m = [item |-> m.item, when |-> m.when]
      BY <2>5 DEF TypeInv, TypeOK, Notice
    <3>4. m \in Excused \/ ToldInTime(m, e)
      BY <2>5, <1>1 DEF EventSound
    <3>5. m \in Excused => m \in Excused'
      BY <1>1 DEF Excused
    <3>6. CASE m \notin Excused /\ m.when = event[e].next
      <4>1. m.when < sweep.today
        <5>1. [item |-> n.item, when |-> n.when] = m
          BY <3>2, <3>3, <3>6, <2>1, <2>5
        <5>2. m \notin crossed
          BY <3>6 DEF Excused
        <5> QED
          BY <5>1, <5>2, <3>2, <3>6
      <4>2. m.when # w /\ m.when < Boundary'
        BY <4>1, <3>3, <2>1, <1>1, <1>6, <1>7 DEF Boundary
      <4> QED
        BY <4>2, <2>2 DEF ToldInTime
    <3>7. CASE m \notin Excused /\ m.when # event[e].next
      <4>1. m.when < sweep.today
        BY <3>4, <3>7, <1>1 DEF ToldInTime, Boundary
      <4>2. m.when # w /\ m.when < Boundary'
        BY <4>1, <3>3, <2>1, <1>1, <1>6, <1>7 DEF Boundary
      <4> QED
        BY <4>2, <2>2 DEF ToldInTime
    <3> QED
      BY <3>5, <3>6, <3>7
  <2>6. ASSUME \A m \in overtaken : m.item # item
        PROVE  FirstAhead(e)'
    <3>1. n.repeat = event[e].repeat /\ n.date = event[e].date
      BY <2>1, <2>4, <2>6, <1>1 DEF Match
    <3>2. \A d \in day .. w - 1 : d \in sweep.today .. w - 1
      BY <2>1, <1>6, <1>7
    <3> QED
      BY <3>1, <3>2, <2>1, <2>2, <1>1, <1>7 DEF FirstAhead
  <2> QED
    BY <2>2, <2>3, <2>5, <2>6, <1>1 DEF EventSound
<1> QED
  BY <1>8, <1>9

LEMMA OtherEventSound ==
  ASSUME TypeInv, NEW e \in Events, EventSound(e), Crash \/ NewDay
  PROVE  EventSound(e)'
<1>1. Boundary \in Nat /\ Boundary' \in Nat /\ Boundary <= Boundary'
  BY BoundaryGrows
<1>2. event' = event
  BY DEF Crash, NewDay, rows
<1>3. ASSUME NEW n \in told, ToldInTime(n, e)
      PROVE  ToldInTime(n, e)'
  <2>1. n.when \in Nat
    BY DEF TypeInv, TypeOK, Notice
  <2> QED
    BY <2>1, <1>1, <1>2, <1>3 DEF ToldInTime
<1>4. CASE Crash
  <2>1. /\ Held' = {} /\ lost' = lost \cup sweep.telling /\ sweep'.telling = {}
        /\ UNCHANGED <<day, told, crossed, overtaken>>
    BY <1>4 DEF Crash, Idle, Held
  <2>2. FirstAhead(e)' = FirstAhead(e)
    BY <2>1, <1>2 DEF FirstAhead
  <2> QED
    BY <2>1, <2>2, <1>2, <1>3 DEF EventSound, Excused
<1>5. CASE NewDay
  <2>1. day' = day + 1 /\ sweep' = sweep /\ Held' = Held /\ UNCHANGED <<told, lost, crossed, overtaken>> /\ day \in Nat
    BY <1>5 DEF NewDay, hist, Held, TypeInv, TypeOK
  <2>2. \A n : Match(n, e)' <=> Match(n, e)
    BY <2>1, <1>2 DEF Match
  <2>3. event[e].is = "row" => (FirstAhead(e) => FirstAhead(e)')
    <3>1. event[e].is = "row" => event[e].next \in Nat
      BY DEF TypeInv, TypeOK, Free, Gone, EventRow
    <3> QED
      BY <3>1, <2>1, <1>2 DEF FirstAhead
  <2> QED
    BY <2>1, <2>2, <2>3, <1>2, <1>3 DEF EventSound, Excused
<1> QED
  BY <1>4, <1>5

-----------------------------------------------------------------------------
RowsSound ==
  /\ \A t \in Tasks : TaskSound(t)
  /\ \A a \in Alarms : AlarmSound(a)
  /\ \A e \in Events : EventSound(e)
  /\ \A uh \in Users \X Holidays : HolidaySound(uh)

IInv == TypeInv /\ ListInv /\ RowsSound

LEMMA InitIInv == Init => IInv
<1> SUFFICES ASSUME Init PROVE IInv
  OBVIOUS
<1>1. TypeInv
  BY InitTypeInv
<1>2. /\ Held = {} /\ told = {} /\ twice = {} /\ overtaken = {} /\ heard = {}
      /\ sweep.todo = {} /\ sweep.telling = {}
  BY DEF Init, Idle, Held
<1>3. ListInv
  BY <1>2 DEF ListInv
<1>4. /\ \A t \in Tasks : task[t].is \in {"free", "deleted"}
      /\ \A a \in Alarms : alarm[a].is \in {"free", "deleted"}
      /\ \A e \in Events : event[e].is \in {"free", "deleted"}
  BY DEF Init, Free, Gone
<1>5. \A t \in Tasks : TaskSound(t)
  BY <1>2, <1>4 DEF TaskSound, Flagged
<1>6. \A a \in Alarms : AlarmSound(a)
  BY <1>2, <1>4 DEF AlarmSound, Flagged
<1>7. \A e \in Events : EventSound(e)
  BY <1>2, <1>4 DEF EventSound
<1>8. \A uh \in Users \X Holidays : HolidaySound(uh)
  BY <1>2 DEF HolidaySound
<1> QED
  BY <1>1, <1>3, <1>5, <1>6, <1>7, <1>8 DEF IInv, RowsSound

(* What a new list was told of before is excused, whatever its kind.       *)
LEMMA ListingListInv ==
  ASSUME TypeInv, ListInv, RowsSound, Run \/ NextPhase
  PROVE  ListInv'
<1>1. /\ UNCHANGED <<told, twice, lost, overtaken>> /\ sweep'.telling = {} /\ crossed \subseteq crossed'
      /\ sweep' \in Sweeps
  BY ListingEffect
<1>2. TypeInv' /\ Held' = sweep'.todo
  BY <1>1, ListingTypes DEF Held
<1>3. ASSUME NEW n \in sweep'.todo \cap told, sweep'.at # "roll"
      PROVE  n \in Excused
  <2>1. sweep'.at \in {"tasks", "alarms", "events", "holidays"}
    <3>1. sweep'.at \in {"down", "wait", "tasks", "alarms", "roll", "events", "holidays"}
      BY <1>1 DEF Sweeps, Phases
    <3> QED
      BY <3>1, <1>2, <1>3 DEF TypeInv, SweepOK
  <2>2. /\ sweep'.at = "tasks"  => n.item \in {"task"} \X Tasks
        /\ sweep'.at = "alarms" => n.item \in {"alarm"} \X Alarms
        /\ sweep'.at = "events" => n.item \in {"event"} \X Events
        /\ sweep'.at = "holidays" => n.item \in {"holiday"} \X (Users \X Holidays)
    BY <1>2, <1>3 DEF TypeInv, SweepOK
  <2>3. CASE sweep'.at = "tasks"
    <3>1. PICK t \in Tasks : n.item = <<"task", t>>
      BY <2>2, <2>3
    <3> QED
      BY <3>1, <1>3, ListingTaskSound DEF RowsSound
  <2>4. CASE sweep'.at = "alarms"
    <3>1. PICK a \in Alarms : n.item = <<"alarm", a>>
      BY <2>2, <2>4
    <3> QED
      BY <3>1, <1>3, ListingAlarmSound DEF RowsSound
  <2>5. CASE sweep'.at = "events"
    <3>1. PICK e \in Events : n.item = <<"event", e>>
      BY <2>2, <2>5
    <3> QED
      BY <3>1, <1>3, ListingEventSound DEF RowsSound
  <2>6. CASE sweep'.at = "holidays"
    <3>1. PICK uh \in Users \X Holidays : n.item = <<"holiday", uh>>
      BY <2>2, <2>6
    <3> QED
      BY <3>1, <1>3, ListingHolidaySound DEF RowsSound
  <2> QED
    BY <2>1, <2>3, <2>4, <2>5, <2>6
<1>4. Excused \subseteq Excused'
  BY <1>1 DEF Excused
<1> QED
  BY <1>1, <1>3, <1>4 DEF ListInv

(* A request changes rows of one kind and the history of one row at most.  *)
LEMMA RequestSound ==
  ASSUME TypeInv, ListInv, RowsSound, Requests
  PROVE  ListInv' /\ RowsSound'
<1>1. /\ day' = day /\ sweep' = sweep
      /\ \/ \E t \in Tasks : TaskRequest(t)
         \/ \E a \in Alarms : createReminder(a) \/ deleteReminder(a)
         \/ \E e \in Events : SaveEvent(e) \/ DropEvent(e)
         \/ \E h \in Holidays : SaveHoliday(h) \/ DropHoliday(h)
         \/ \E u \in Users : setReminder(u) \/ setMyStatus(u)
  BY RequestKinds DEF TypeInv
<1>2. Held' = Held /\ TypeOK
  BY <1>1 DEF Held, TypeInv
<1>3. ASSUME UNCHANGED task, \A t \in Tasks : SameHistory(<<"task", t>>)
      PROVE  \A t \in Tasks : TaskSound(t)'
  BY <1>1, <1>3, TaskFrame DEF RowsSound
<1>4. ASSUME UNCHANGED alarm, \A a \in Alarms : SameHistory(<<"alarm", a>>)
      PROVE  \A a \in Alarms : AlarmSound(a)'
  BY <1>1, <1>4, AlarmFrame DEF RowsSound
<1>5. ASSUME UNCHANGED event, \A e \in Events : SameHistory(<<"event", e>>)
      PROVE  \A e \in Events : EventSound(e)'
  BY <1>1, <1>2, <1>5, EventFrame DEF RowsSound
<1>6. ASSUME UNCHANGED <<holiday, heard>>, \A uh \in Users \X Holidays : SameHistory(<<"holiday", uh>>)
      PROVE  \A uh \in Users \X Holidays : HolidaySound(uh)'
  BY <1>1, <1>6, HolidayFrame DEF RowsSound
<1>7. CASE \E t \in Tasks : TaskRequest(t)
  <2>1. PICK r \in Tasks : TaskRequest(r)
    BY <1>7
  <2>2. UNCHANGED <<alarm, event, holiday, heard>> /\ (UNCHANGED hist \/ Reset(<<"task", r>>))
    BY <2>1, <1>2, TaskRequestEffect
  <2>3. \A x : /\ SameHistory(<<"alarm", x>>) /\ SameHistory(<<"event", x>>)
               /\ SameHistory(<<"holiday", x>>)
    BY <2>2, OtherHistory
  <2>4. \A t \in Tasks : TaskSound(t)'
    BY <2>1, <1>1, TaskRequestSound DEF RowsSound
  <2>5. ListInv'
    BY <2>2, <1>1, RequestListInv
  <2> QED
    BY <2>2, <2>3, <2>4, <2>5, <1>4, <1>5, <1>6 DEF RowsSound
<1>8. CASE \E a \in Alarms : createReminder(a) \/ deleteReminder(a)
  <2>1. PICK r \in Alarms : createReminder(r) \/ deleteReminder(r)
    BY <1>8
  <2>2. UNCHANGED <<task, event, holiday, heard>> /\ (UNCHANGED hist \/ Reset(<<"alarm", r>>))
    BY <2>1, <1>2, AlarmRequestEffect
  <2>3. \A x : /\ SameHistory(<<"task", x>>) /\ SameHistory(<<"event", x>>)
               /\ SameHistory(<<"holiday", x>>)
    BY <2>2, OtherHistory
  <2>4. \A a \in Alarms : AlarmSound(a)'
    BY <2>1, <1>1, AlarmRequestSound DEF RowsSound
  <2>5. ListInv'
    BY <2>2, <1>1, RequestListInv
  <2> QED
    BY <2>2, <2>3, <2>4, <2>5, <1>3, <1>5, <1>6 DEF RowsSound
<1>9. CASE \E e \in Events : SaveEvent(e) \/ DropEvent(e)
  <2>1. PICK r \in Events : SaveEvent(r) \/ DropEvent(r)
    BY <1>9
  <2>2. UNCHANGED <<task, alarm, holiday, heard>> /\ Reset(<<"event", r>>)
    BY <2>1, <1>2, EventRequestEffect
  <2>3. \A x : /\ SameHistory(<<"task", x>>) /\ SameHistory(<<"alarm", x>>)
               /\ SameHistory(<<"holiday", x>>)
    BY <2>2, OtherHistory
  <2>4. \A e \in Events : EventSound(e)'
    BY <2>1, <1>1, EventRequestSound DEF RowsSound
  <2>5. ListInv'
    BY <2>2, <1>1, RequestListInv
  <2> QED
    BY <2>2, <2>3, <2>4, <2>5, <1>3, <1>4, <1>6 DEF RowsSound
<1>10. CASE \E h \in Holidays : SaveHoliday(h) \/ DropHoliday(h)
  <2>1. PICK h \in Holidays : SaveHoliday(h) \/ DropHoliday(h)
    BY <1>10
  <2>2. UNCHANGED <<task, alarm, event>> /\ UNCHANGED hist
    BY <2>1, <1>2, HolidayRequestEffect
  <2>3. \A item : SameHistory(item)
    BY <2>2, OtherHistory
  <2>4. \A uh \in Users \X Holidays : HolidaySound(uh)'
    BY <2>1, <1>1, HolidayRequestSound DEF RowsSound
  <2>5. ListInv'
    BY <2>2, <1>1, RequestListInv
  <2> QED
    BY <2>2, <2>3, <2>4, <2>5, <1>3, <1>4, <1>5 DEF RowsSound
<1>11. CASE \E u \in Users : setReminder(u) \/ setMyStatus(u)
  <2>1. UNCHANGED <<task, alarm, event, holiday, heard>> /\ UNCHANGED hist
    BY <1>11, <1>2, UserRequestEffect
  <2>2. \A item : SameHistory(item)
    BY <2>1, OtherHistory
  <2>3. ListInv'
    BY <2>1, <1>1, RequestListInv
  <2> QED
    BY <2>1, <2>2, <2>3, <1>3, <1>4, <1>5, <1>6 DEF RowsSound
<1> QED
  BY <1>1, <1>7, <1>8, <1>9, <1>10, <1>11

LEMMA Inductive == Spec => []IInv
<1>1. IInv /\ [Next]_vars => IInv'
  <2> SUFFICES ASSUME IInv, [Next]_vars PROVE IInv'
    OBVIOUS
  <2>1. TypeInv /\ ListInv /\ RowsSound
    BY DEF IInv
  <2>2. TypeInv'
    BY <2>1, NextTypeInv
  <2>3. CASE Run \/ NextPhase
    <3>1. RowsSound'
      BY <2>1, <2>3, ListingTaskSound, ListingAlarmSound, ListingEventSound, ListingHolidaySound DEF RowsSound
    <3> QED
      BY <3>1, <2>1, <2>2, <2>3, ListingListInv DEF IInv
  <2>4. ASSUME NEW n \in sweep.todo, Tell(n)
        PROVE  IInv'
    <3>1. RowsSound'
      BY <2>1, <2>4, TellTaskSound, TellAlarmSound, TellEventSound, TellHolidaySound DEF RowsSound
    <3> QED
      BY <3>1, <2>1, <2>2, <2>4, TellListInv DEF IInv
  <2>5. ASSUME NEW n \in sweep.telling, Mark(n)
        PROVE  IInv'
    <3>1. RowsSound'
      BY <2>1, <2>5, MarkTaskSound, MarkAlarmSound, MarkEventSound, MarkHolidaySound DEF RowsSound
    <3> QED
      BY <3>1, <2>1, <2>2, <2>5, MarkListInv DEF IInv
  <2>6. ASSUME NEW n \in sweep.todo, Roll(n)
        PROVE  IInv'
    <3>1. RowsSound'
      BY <2>1, <2>6, OtherTaskSound, OtherAlarmSound, RollEventSound, OtherHolidaySound DEF RowsSound
    <3> QED
      BY <3>1, <2>1, <2>2, <2>6, RollListInv DEF IInv
  <2>7. CASE Requests
    BY <2>1, <2>2, <2>7, RequestSound DEF IInv
  <2>8. CASE Crash \/ NewDay
    <3>1. RowsSound'
      BY <2>1, <2>8, OtherTaskSound, OtherAlarmSound, OtherEventSound, OtherHolidaySound DEF RowsSound
    <3>2. ListInv'
      <4>1. CASE Crash
        BY <4>1, <2>1, CrashListInv
      <4>2. CASE NewDay
        BY <4>2, <2>1 DEF NewDay, hist, ListInv, Excused
      <4> QED
        BY <4>1, <4>2, <2>8
    <3> QED
      BY <3>1, <3>2, <2>2 DEF IInv
  <2>9. CASE UNCHANGED vars
    <3>1. /\ UNCHANGED <<day, task, alarm, event, holiday, heard, sweep>>
          /\ UNCHANGED <<told, twice, lost, crossed, overtaken>>
      BY <2>9 DEF vars, rows, hist
    <3>2. ListInv' /\ Held' = Held
      BY <3>1, <2>1 DEF ListInv, Excused, Held
    <3>3. \A item : SameHistory(item)
      BY <3>1 DEF SameHistory
    <3>4. RowsSound'
      BY <3>1, <3>2, <3>3, <2>1, TaskFrame, AlarmFrame, EventFrame, HolidayFrame DEF RowsSound
    <3> QED
      BY <3>2, <3>4, <2>2 DEF IInv
  <2> QED
    BY <2>3, <2>4, <2>5, <2>6, <2>7, <2>8, <2>9 DEF Next, Sweeping
<1> QED
  BY <1>1, InitIInv, PTL DEF Spec

-----------------------------------------------------------------------------
(* "The sweep can run every half hour without telling anyone twice"        *)
(* (reminder.go:1-8): whatever the requests, the crashes, the midnights and *)
(* the number of rows, what is told twice is excused.                      *)
THEOREM NobodyToldTwice == Spec => []ToldOnce
<1>1. IInv => ToldOnce
  BY DEF IInv, ListInv, Excused, ToldOnce
<1> QED
  BY <1>1, Inductive, PTL

(* A row that is flagged was told, or its notification failed: the flag is *)
(* never set on what was not tried (reminder.go:60-217).                   *)
THEOREM FlaggedWasTold == Spec => []FlagMeansTold
<1>1. IInv => FlagMeansTold
  <2> SUFFICES ASSUME IInv PROVE FlagMeansTold
    OBVIOUS
  <2> DEFINE tried(item) == {n \in told \cup lost : n.item = item}
  <2>1. /\ \A t \in Tasks : TaskSound(t)
        /\ \A a \in Alarms : AlarmSound(a)
        /\ \A e \in Events : EventSound(e)
        /\ \A uh \in Users \X Holidays : HolidaySound(uh)
    BY DEF IInv, RowsSound
  <2>2. ASSUME NEW t \in Tasks, task[t].is = "row", task[t].sent, <<"task", t>> \notin Items(overtaken)
        PROVE  tried(<<"task", t>>) # {}
    <3>1. \A n \in overtaken : n.item # <<"task", t>>
      BY <2>2 DEF Items
    <3>2. PICK n \in told \cup lost : n.item = <<"task", t>>
      BY <3>1, <2>1, <2>2 DEF TaskSound, Flagged
    <3> QED
      BY <3>2
  <2>3. ASSUME NEW a \in Alarms, alarm[a].is = "row", alarm[a].sent
        PROVE  tried(<<"alarm", a>>) # {}
    <3>1. PICK n \in told \cup lost : n.item = <<"alarm", a>>
      BY <2>1, <2>3 DEF AlarmSound, Flagged
    <3> QED
      BY <3>1
  <2>4. ASSUME NEW e \in Events, event[e].is = "row", event[e].reminded, <<"event", e>> \notin Items(overtaken)
        PROVE  \E n \in tried(<<"event", e>>) : n.when = event[e].next
    <3>1. \A n \in overtaken : n.item # <<"event", e>>
      BY <2>4 DEF Items
    <3>2. PICK n \in told \cup lost : n.item = <<"event", e>> /\ n.when = event[e].next
      BY <3>1, <2>1, <2>4 DEF EventSound
    <3> QED
      BY <3>2
  <2>5. ASSUME NEW uh \in heard
        PROVE  tried(<<"holiday", uh>>) # {}
    <3>1. uh \in Users \X Holidays
      BY DEF IInv, TypeInv, TypeOK
    <3>2. PICK n \in told \cup lost : n.item = <<"holiday", uh>>
      BY <3>1, <2>1, <2>5 DEF HolidaySound
    <3> QED
      BY <3>2
  <2> QED
    BY <2>2, <2>3, <2>4, <2>5 DEF FlagMeansTold
<1> QED
  BY <1>1, Inductive, PTL

(* Whatever the two calendars make of a month, and however often the sweep *)
(* moved it on, an event stands at the first occurrence its own calendar   *)
(* has ahead (nepdate.go:430-517, reminder.go:107-136).                    *)
THEOREM StandsAtNext == Spec => []OccurrenceRight
<1>1. IInv => OccurrenceRight
  <2> SUFFICES ASSUME IInv, NEW e \in Events, event[e].is = "row", event[e].repeat # "none",
                      <<"event", e>> \notin Items(overtaken)
               PROVE  FirstAhead(e)
    BY DEF OccurrenceRight, FirstAhead
  <2>1. \A n \in overtaken : n.item # <<"event", e>>
    BY DEF Items
  <2> QED
    BY <2>1 DEF IInv, RowsSound, EventSound
<1> QED
  BY <1>1, Inductive, PTL
=============================================================================
