------------------------------ MODULE Deadlines ------------------------------
(***************************************************************************)
(* normalise_deadline of services/extraction.py: the date a task gets from *)
(* the words of the meeting, on the proleptic Gregorian calendar of        *)
(* Python's datetime.  Constant definitions only.  What was said is the    *)
(* case of the function it falls into; the matching of its words is not    *)
(* modelled.                                                               *)
(***************************************************************************)
EXTENDS Integers

Leap(y) == y % 4 = 0 /\ (y % 100 # 0 \/ y % 400 = 0)

DaysIn(y, m) ==
  CASE m = 2 -> IF Leap(y) THEN 29 ELSE 28
    [] m \in {4, 6, 9, 11} -> 30
    [] OTHER -> 31

Date(y, m, d) == [year |-> y, month |-> m, day |-> d]

IsDate(t) == t.month \in 1 .. 12 /\ t.day \in 1 .. DaysIn(t.year, t.month)

\* date.toordinal: 1 is the first of January of the year 1, a Monday.
Ordinal(t) ==
  LET y == t.year - 1
      before == << 0, 31, 59, 90, 120, 151, 181, 212, 243, 273, 304, 334 >>[t.month]
  IN 365 * y + y \div 4 - y \div 100 + y \div 400
     + before + (IF t.month > 2 /\ Leap(t.year) THEN 1 ELSE 0) + t.day

Weekday(t) == (Ordinal(t) + 6) % 7

\* A date and a timedelta of at most four weeks.
Plus(t, days) ==
  LET d == t.day + days
      length == DaysIn(t.year, t.month)
  IN IF d <= length THEN Date(t.year, t.month, d)
     ELSE IF t.month = 12 THEN Date(t.year + 1, 1, d - length)
     ELSE Date(t.year, t.month + 1, d - length)

\* Null: no date was computed.
None == Date(0, 0, 0)

Said ==
  {<< "days", n >> : n \in 0 .. 2}           \* aujourd'hui, demain, apres-demain
    \cup {<< "number", n >> : n \in 0 .. 99} \* le 15, avant le 15, by the 15th
    \cup {<< "weekday", w >> : w \in 0 .. 6} \* vendredi, vendredi prochain
    \cup {<< "next week", 0 >>, << "end of the month", 0 >>, << "anything else", 0 >>}

\* Mutant of NextDayOfMonth: the day of the meeting counts as still to come.
NextDayOfMonthFromToday(day, reference) ==
  LET next == IF day >= reference.day
              THEN Date(reference.year, reference.month, day)
              ELSE IF reference.month = 12 THEN Date(reference.year + 1, 1, day)
              ELSE Date(reference.year, reference.month + 1, day)
  IN IF IsDate(next) THEN next ELSE None

\* _next_day_of_month: this month's or the next one's, and nothing when that
\* month has no such day, though a later one may.
NextDayOfMonth(day, reference) ==
  LET next == IF day > reference.day
              THEN Date(reference.year, reference.month, day)
              ELSE IF reference.month = 12 THEN Date(reference.year + 1, 1, day)
              ELSE Date(reference.year, reference.month + 1, day)
  IN IF IsDate(next) THEN next ELSE None

EndOfMonth(reference) ==
  Date(reference.year, reference.month, DaysIn(reference.year, reference.month))

\* A weekday is the one after the meeting's day, a week later if it is the same.
Ahead(w, reference) ==
  LET days == (w - Weekday(reference)) % 7 IN IF days = 0 THEN 7 ELSE days

NormaliseDeadline(said, reference) ==
  CASE said[1] = "days"             -> Plus(reference, said[2])
    [] said[1] = "number"           -> NextDayOfMonth(said[2], reference)
    [] said[1] = "weekday"          -> Plus(reference, Ahead(said[2], reference))
    [] said[1] = "next week"        -> Plus(reference, 7 - Weekday(reference) + 4)
    [] said[1] = "end of the month" -> EndOfMonth(reference)
    [] OTHER                        -> None

-----------------------------------------------------------------------------
\* The days on which the property is checked: two turns of the year, one into
\* a leap year, with the end of its February.
Days ==
  {Date(y, m, d) : y \in {2027, 2028}, m \in {1, 2, 3, 4, 12}, d \in 1 .. 31}

\* The dates after a day and before another, at most two months apart.
Between(from, to) ==
  {t \in {Date(y, m, d) : y \in {from.year, to.year}, m \in {from.month, to.month},
                          d \in 1 .. 31} :
     IsDate(t) /\ Ordinal(from) < Ordinal(t) /\ Ordinal(t) < Ordinal(to)}

\* What the words ask of a date.
Fits(said, t) ==
  CASE said[1] = "number"           -> t.day = said[2]
    [] said[1] = "weekday"          -> Weekday(t) = said[2]
    [] said[1] = "next week"        -> Weekday(t) = 4
    [] said[1] = "end of the month" -> t.day = DaysIn(t.year, t.month)
    [] OTHER                        -> TRUE

\* A real date, not behind the meeting, that fits the words; and when they name
\* a day of the week or of the month, the first one after the meeting that does.
Coming(said, reference) ==
  LET t == NormaliseDeadline(said, reference) IN
  t # None =>
    /\ IsDate(t) /\ Fits(said, t)
    /\ Ordinal(t) >= Ordinal(reference)
    /\ said[1] \in {"number", "weekday"} =>
         /\ Ordinal(t) > Ordinal(reference)
         /\ \A between \in Between(reference, t) : ~ Fits(said, between)
    /\ said[1] = "next week" =>
         Ordinal(t) - Ordinal(reference) + Weekday(reference) \in 7 .. 13

DatesAreComing ==
  \A reference \in {t \in Days : IsDate(t)}, said \in Said : Coming(said, reference)
=============================================================================
