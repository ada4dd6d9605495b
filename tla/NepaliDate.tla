------------------------------ MODULE NepaliDate ------------------------------
(***************************************************************************)
(* The calendars of internal/nepdate.  A calendar is its table of month    *)
(* lengths, year by year; a day is the number of days since the first day  *)
(* of the Gregorian table, the Bikram Sambat one beginning Epoch days      *)
(* later.  What time.Date and AddDate do is what the Gregorian table says. *)
(* Sums of month lengths are the number of the dates counted, a            *)
(* cardinality, which can be proved about where a recursive sum cannot.    *)
(***************************************************************************)
EXTENDS Integers, Sequences, FiniteSets, FiniteSetsExt

CONSTANTS
  ADMonths,   \* Gregorian years, each the sequence of its month lengths
  BSMonths,   \* monthDays
  Epoch       \* the day the Bikram Sambat table begins

(* No day: the error of the functions below, and NULL in the database.     *)
NoDay == -1

Table(mode) == IF mode = "bs" THEN BSMonths ELSE ADMonths

FirstDay(mode) == IF mode = "bs" THEN Epoch ELSE 0

MonthLength(mode, y, m) == Table(mode)[y][m]

(* The dates of a table, and which comes first.                            *)
Dated(mode) ==
  UNION {UNION {{[year |-> y, month |-> m, day |-> d] : d \in 1 .. MonthLength(mode, y, m)} :
                m \in DOMAIN Table(mode)[y]} :
         y \in DOMAIN Table(mode)}

Precedes(a, b) ==
  \/ a.year < b.year
  \/ a.year = b.year /\ (a.month < b.month \/ (a.month = b.month /\ a.day < b.day))

(* Each year of a table has the same months, each of a day or more.        *)
ASSUME NepaliDateAssumption ==
  /\ \A mode \in {"ad", "bs"} :
       /\ Table(mode) \in Seq(Seq(Nat \ {0})) /\ IsFiniteSet(Dated(mode))
       /\ \A y, z \in DOMAIN Table(mode) : DOMAIN Table(mode)[y] = DOMAIN Table(mode)[z]
  /\ Epoch \in Nat

(* The day of a date: the days of whole years, those of whole months, and  *)
(* the rest.                                                               *)
ToAD(mode, y, m, d) ==
  FirstDay(mode)
    + Cardinality({date \in Dated(mode) : Precedes(date, [year |-> y, month |-> m, day |-> d])})

(* Every date of the two tables, with its day.                             *)
Calendars ==
  [mode \in {"ad", "bs"} |->
     {[year |-> date.year, month |-> date.month, day |-> date.day,
       at |-> ToAD(mode, date.year, date.month, date.day)] : date \in Dated(mode)}]

(* The date of a day; none when the day is outside the table.              *)
FromAD(mode, day) == {date \in Calendars[mode] : date.at = day}

(* Variant: the day is left as it is, and runs over into the next month.   *)
RolledOver(mode, of, y) == of.day

(* "A day that does not exist in the target year falls back to the last    *)
(* day of that month."                                                     *)
Clamped(mode, of, y) ==
  IF of.day > MonthLength(mode, y, of.month) THEN MonthLength(mode, y, of.month) ELSE of.day

(* The first day, from `from` on, on which the month and the day of the    *)
(* date recur, in the year of `from` or a later one of the table.          *)
NextAnniversary(mode, of, from) ==
  LET years == {y \in DOMAIN Table(mode) : \E start \in FromAD(mode, from) : y >= start.year}
      ahead == {d \in {ToAD(mode, y, of.month, Clamped(mode, of, y)) : y \in years} : d >= from}
  IN  IF ahead = {} THEN NoDay ELSE Min(ahead)

(* A one-off is on its own day, past or not.                               *)
NextOccurrence(mode, date, from) ==
  IF mode = "none" THEN date
  ELSE LET of == FromAD(mode, date)
       IN  IF of = {} THEN NoDay ELSE NextAnniversary(mode, CHOOSE o \in of : TRUE, from)
=============================================================================
