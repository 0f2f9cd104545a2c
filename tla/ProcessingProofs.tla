-------------------------- MODULE ProcessingProofs ---------------------------
(***************************************************************************)
(* Theorems about Processing for every chain of suppliers, every number of *)
(* retries and attempts and any recording; and about Deadlines for every   *)
(* day of the calendar: the model checker tries the days around two new    *)
(* years, these hold in any year.                                          *)
(***************************************************************************)
EXTENDS Processing, NaturalsInduction, WellFoundedInduction, SequenceTheorems, TLAPS

-----------------------------------------------------------------------------
(* The calendar.                                                           *)

Year == Nat \ {0}

Calendar == {t \in [year : Year, month : 1 .. 12, day : 1 .. 31] : IsDate(t)}

LEMMA MonthType ==
  ASSUME NEW y \in Year, NEW m \in 1 .. 12
  PROVE  DaysIn(y, m) \in 28 .. 31
  BY DEF DaysIn, Year

LEMMA OrdinalType ==
  ASSUME NEW y \in Year, NEW m \in 1 .. 12, NEW d \in Int
  PROVE  Ordinal(Date(y, m, d)) \in Int
  BY DEF Ordinal, Date, Leap, Year

\* Two dates of one month are as far apart as their days.
LEMMA SameMonth ==
  ASSUME NEW y \in Year, NEW m \in 1 .. 12, NEW d \in Int, NEW e \in Int
  PROVE  Ordinal(Date(y, m, e)) = Ordinal(Date(y, m, d)) + e - d
  BY DEF Ordinal, Date, Leap, Year

\* The first of a month follows the last of the month before.
LEMMA NextMonth ==
  ASSUME NEW y \in Year, NEW m \in 1 .. 11, NEW d \in Int
  PROVE  Ordinal(Date(y, m + 1, d)) = Ordinal(Date(y, m, d)) + DaysIn(y, m)
  BY DEF Ordinal, Date, DaysIn, Leap, Year

\* And the first of a year the last of the year before.
LEMMA NextYear ==
  ASSUME NEW y \in Year, NEW d \in Int
  PROVE  Ordinal(Date(y + 1, 1, d)) = Ordinal(Date(y, 12, d)) + 31
  BY DEF Ordinal, Date, Leap, Year

\* A year is long enough to keep January before December.
LEMMA WithinYear ==
  ASSUME NEW y \in Year, NEW d \in Int
  PROVE  Ordinal(Date(y, 12, d)) >= Ordinal(Date(y, 1, d)) + 334
  BY DEF Ordinal, Date, Leap, Year

LEMMA CalendarType ==
  ASSUME NEW t \in Calendar
  PROVE  /\ t = Date(t.year, t.month, t.day)
         /\ t.year \in Year /\ t.month \in 1 .. 12
         /\ t.day \in 1 .. DaysIn(t.year, t.month) /\ DaysIn(t.year, t.month) \in 28 .. 31
         /\ Ordinal(t) \in Int
<1>1. t.year \in Year /\ t.month \in 1 .. 12 /\ t.day \in 1 .. 31
  BY DEF Calendar
<1>2. t = Date(t.year, t.month, t.day)
  BY DEF Calendar, Date
<1>3. t.day \in 1 .. DaysIn(t.year, t.month)
  BY DEF Calendar, IsDate
<1>4. DaysIn(t.year, t.month) \in 28 .. 31
  BY <1>1, MonthType
<1>5. Ordinal(t) \in Int
  <2> t.day \in Int
    BY <1>1
  <2>1. Ordinal(Date(t.year, t.month, t.day)) \in Int
    BY <1>1, OrdinalType
  <2> QED
    BY <1>2, <2>1
<1> QED
  BY <1>1, <1>2, <1>3, <1>4, <1>5

\* What is in the calendar is written as a date in one way.
LEMMA InCalendar ==
  ASSUME NEW y \in Year, NEW m \in 1 .. 12, NEW d \in 1 .. DaysIn(y, m)
  PROVE  /\ Date(y, m, d) \in Calendar
         /\ Date(y, m, d).year = y /\ Date(y, m, d).month = m /\ Date(y, m, d).day = d
<1>1. DaysIn(y, m) \in 28 .. 31
  BY MonthType
<1> QED
  BY <1>1 DEF Calendar, IsDate, Date

\* Adding days to a date, up to four weeks of them, gives the date that many
\* days later, across the end of a month and of a year.
LEMMA PlusIsLater ==
  ASSUME NEW t \in Calendar, NEW n \in 0 .. 28
  PROVE  Plus(t, n) \in Calendar /\ Ordinal(Plus(t, n)) = Ordinal(t) + n
<1> DEFINE y == t.year
           m == t.month
           d == t.day + n
           length == DaysIn(t.year, t.month)
<1>1. /\ y \in Year /\ m \in 1 .. 12 /\ t = Date(y, m, t.day)
      /\ t.day \in 1 .. length /\ length \in 28 .. 31
  BY CalendarType
<1>2. Ordinal(Date(y, m, d)) = Ordinal(t) + n /\ Ordinal(t) \in Int
  <2>1. t.day \in Int /\ d \in Int
    BY <1>1
  <2>2. Ordinal(Date(y, m, d)) = Ordinal(Date(y, m, t.day)) + d - t.day
    BY <1>1, <2>1, SameMonth
  <2>3. Ordinal(Date(y, m, t.day)) = Ordinal(t) /\ Ordinal(t) \in Int
    BY <1>1, CalendarType
  <2> QED
    BY <2>1, <2>2, <2>3
<1>3. CASE d <= length
  <2>1. Plus(t, n) = Date(y, m, d)
    BY <1>3 DEF Plus
  <2>2. d \in 1 .. length
    BY <1>1, <1>3
  <2>3. Date(y, m, d) \in Calendar
    BY <1>1, <2>2, InCalendar
  <2> QED
    BY <1>2, <2>1, <2>3
<1>4. CASE d > length /\ m = 12
  <2>1. Plus(t, n) = Date(y + 1, 1, d - length)
    BY <1>1, <1>4 DEF Plus
  <2>2. length = 31
    BY <1>4 DEF DaysIn
  <2>3. y + 1 \in Year /\ d - length \in 1 .. 28
    <3>1. t.day \in Nat /\ t.day <= length /\ length \in Nat
      BY <1>1
    <3> HIDE DEF length, y
    <3> QED
      BY <1>1, <1>4, <3>1 DEF Year
  <2>4. DaysIn(y + 1, 1) = 31
    BY DEF DaysIn
  <2>5. Date(y + 1, 1, d - length) \in Calendar
    BY <2>3, <2>4, InCalendar
  <2>6. Ordinal(Date(y + 1, 1, d - length)) = Ordinal(Date(y, 12, d - length)) + 31
    BY <1>1, <2>3, NextYear
  <2>7. Ordinal(Date(y, 12, d)) = Ordinal(Date(y, 12, d - length)) + length
    <3>0. d - length \in Int /\ d \in Int /\ length \in Int
      BY <1>1, <2>3
    <3> HIDE DEF d, length
    <3>1. Ordinal(Date(y, 12, d - length)) \in Int
      BY <1>1, <3>0, OrdinalType
    <3>2. Ordinal(Date(y, 12, d)) = Ordinal(Date(y, 12, d - length)) + d - (d - length)
      BY <1>1, <3>0, SameMonth
    <3> QED
      BY <3>0, <3>1, <3>2
  <2> QED
    BY <1>2, <1>4, <2>1, <2>2, <2>5, <2>6, <2>7
<1>5. CASE d > length /\ m # 12
  <2>1. Plus(t, n) = Date(y, m + 1, d - length)
    BY <1>1, <1>5 DEF Plus
  <2>2. m \in 1 .. 11 /\ m + 1 \in 1 .. 12 /\ d - length \in 1 .. 28
    <3>1. t.day \in Nat /\ t.day <= length /\ length \in Nat
      BY <1>1
    <3>2. d - length \in 1 .. 28
      <4> HIDE DEF length
      <4> QED
        BY <1>5, <3>1
    <3>3. m \in 1 .. 11 /\ m + 1 \in 1 .. 12
      <4> HIDE DEF m
      <4> QED
        BY <1>1, <1>5
    <3> QED
      BY <3>2, <3>3
  <2>3. DaysIn(y, m + 1) \in 28 .. 31
    BY <1>1, <2>2, MonthType
  <2>4. Date(y, m + 1, d - length) \in Calendar
    BY <1>1, <2>2, <2>3, InCalendar
  <2>5. Ordinal(Date(y, m + 1, d - length)) = Ordinal(Date(y, m, d - length)) + length
    <3>1. PICK e \in Int : e = d - length
      BY <2>2
    <3>2. Ordinal(Date(y, m + 1, e)) = Ordinal(Date(y, m, e)) + DaysIn(y, m)
      BY <1>1, <2>2, NextMonth
    <3> QED
      BY <3>1, <3>2
  <2>6. Ordinal(Date(y, m, d)) = Ordinal(Date(y, m, d - length)) + length
    <3>0. d - length \in Int /\ d \in Int /\ length \in Int
      BY <1>1, <2>2
    <3> HIDE DEF d, length
    <3>1. Ordinal(Date(y, m, d - length)) \in Int
      BY <1>1, <3>0, OrdinalType
    <3>2. Ordinal(Date(y, m, d)) = Ordinal(Date(y, m, d - length)) + d - (d - length)
      BY <1>1, <3>0, SameMonth
    <3> QED
      BY <3>0, <3>1, <3>2
  <2> QED
    BY <1>2, <2>1, <2>4, <2>5, <2>6
<1>6. d \in Int /\ length \in Int
  BY <1>1
<1> QED
  BY <1>3, <1>4, <1>5, <1>6

-----------------------------------------------------------------------------
(* What was said.                                                          *)

\* A day number is the first such day after the meeting, or no date.
LEMMA NextDayIsNext ==
  ASSUME NEW r \in Calendar, NEW n \in 0 .. 99, NextDayOfMonth(n, r) # None
  PROVE  LET t == NextDayOfMonth(n, r) IN
         /\ t \in Calendar /\ t.day = n /\ Ordinal(t) > Ordinal(r)
         /\ \A b \in Between(r, t) : b.day # n
<1> DEFINE y == r.year
           m == r.month
           t == NextDayOfMonth(n, r)
<1>1. /\ y \in Year /\ m \in 1 .. 12 /\ r = Date(y, m, r.day)
      /\ r.day \in 1 .. DaysIn(y, m) /\ DaysIn(y, m) \in 28 .. 31 /\ Ordinal(r) \in Int
  BY CalendarType
<1>2. /\ Ordinal(Date(y, m, n)) = Ordinal(r) + n - r.day
      /\ Ordinal(Date(y, m, n)) \in Int
  <2>1. n \in Int /\ r.day \in Int
    BY <1>1
  <2>2. Ordinal(Date(y, m, n)) = Ordinal(Date(y, m, r.day)) + n - r.day
    BY <1>1, <2>1, SameMonth
  <2>3. Ordinal(Date(y, m, n)) \in Int
    BY <1>1, <2>1, OrdinalType
  <2> QED
    BY <1>1, <2>2, <2>3
<1>3. ASSUME NEW b \in Between(r, t), b.day = n
      PROVE  /\ Ordinal(r) < Ordinal(b) /\ Ordinal(b) < Ordinal(t)
             /\ \E by \in {y, t.year}, bm \in {m, t.month} : b = Date(by, bm, n)
  BY <1>3 DEF Between, Date
<1>4. CASE n > r.day
  <2>1. t = Date(y, m, n) /\ IsDate(t)
    BY <1>4 DEF NextDayOfMonth
  <2>2. n \in 1 .. DaysIn(y, m)
    BY <2>1 DEF IsDate, Date
  <2>3. t \in Calendar /\ t.year = y /\ t.month = m /\ t.day = n
    BY <1>1, <2>1, <2>2, InCalendar
  <2>4. Ordinal(t) > Ordinal(r)
    BY <1>1, <1>2, <1>4, <2>1
  <2>5. \A b \in Between(r, t) : b.day # n
    BY <1>2, <1>3, <2>1, <2>3
  <2> QED
    BY <2>3, <2>4, <2>5
<1>5. CASE n <= r.day /\ m # 12
  <2>1. t = Date(y, m + 1, n) /\ IsDate(t)
    BY <1>1, <1>5 DEF NextDayOfMonth
  <2>2. n \in 1 .. DaysIn(y, m + 1) /\ m \in 1 .. 11 /\ m + 1 \in 1 .. 12
    BY <1>1, <1>5, <2>1 DEF IsDate, Date
  <2>3. t \in Calendar /\ t.year = y /\ t.month = m + 1 /\ t.day = n
    BY <1>1, <2>1, <2>2, InCalendar
  <2>4. Ordinal(t) = Ordinal(Date(y, m, n)) + DaysIn(y, m)
    BY <1>1, <2>1, <2>2, NextMonth
  <2>5. Ordinal(t) > Ordinal(r)
    BY <1>1, <1>2, <2>2, <2>4
  <2>6. \A b \in Between(r, t) : b.day # n
    <3> SUFFICES ASSUME NEW b \in Between(r, t), b.day = n
                 PROVE  FALSE
      OBVIOUS
    <3>1. b = Date(y, m, n) \/ b = t
      BY <1>3, <2>1, <2>3
    <3>2. Ordinal(Date(y, m, n)) <= Ordinal(r)
      BY <1>1, <1>2, <1>5
    <3> QED
      BY <1>1, <1>2, <1>3, <2>4, <3>1, <3>2
  <2> QED
    BY <2>3, <2>5, <2>6
<1>6. CASE n <= r.day /\ m = 12
  <2>1. t = Date(y + 1, 1, n) /\ IsDate(t)
    BY <1>1, <1>6 DEF NextDayOfMonth
  <2>2. n \in 1 .. DaysIn(y + 1, 1) /\ y + 1 \in Year /\ n \in Int
    BY <1>1, <2>1 DEF IsDate, Date, Year
  <2>3. t \in Calendar /\ t.year = y + 1 /\ t.month = 1 /\ t.day = n
    BY <2>1, <2>2, InCalendar
  <2>4. Ordinal(t) = Ordinal(Date(y, 12, n)) + 31
    BY <1>1, <2>1, <2>2, NextYear
  <2>5. Ordinal(t) > Ordinal(r)
    BY <1>1, <1>2, <1>6, <2>2, <2>4
  <2>6. \A b \in Between(r, t) : b.day # n
    <3> SUFFICES ASSUME NEW b \in Between(r, t), b.day = n
                 PROVE  FALSE
      OBVIOUS
    <3>1. \/ b = Date(y, 12, n) \/ b = t
          \/ b = Date(y, 1, n) \/ b = Date(y + 1, 12, n)
      BY <1>3, <1>6, <2>1, <2>3
    <3>2. Ordinal(Date(y, 12, n)) <= Ordinal(r)
      BY <1>1, <1>2, <1>6
    <3>3. Ordinal(Date(y, 1, n)) <= Ordinal(r)
      <4>1. Ordinal(Date(y, 1, n)) \in Int
        BY <1>1, <2>2, OrdinalType
      <4>2. Ordinal(Date(y, 12, n)) >= Ordinal(Date(y, 1, n)) + 334
        BY <1>1, <2>2, WithinYear
      <4> QED
        BY <1>1, <1>2, <1>6, <3>2, <4>1, <4>2
    <3>4. Ordinal(Date(y + 1, 12, n)) >= Ordinal(t)
      <4>1. Ordinal(Date(y + 1, 1, n)) \in Int /\ Ordinal(Date(y + 1, 12, n)) \in Int
        BY <2>2, OrdinalType
      <4>2. Ordinal(Date(y + 1, 12, n)) >= Ordinal(Date(y + 1, 1, n)) + 334
        BY <2>2, WithinYear
      <4> QED
        BY <2>1, <4>1, <4>2
    <3>5. /\ Ordinal(r) < Ordinal(b) /\ Ordinal(b) < Ordinal(t) /\ Ordinal(t) \in Int
      BY <1>3, <2>3, CalendarType
    <3>6. Ordinal(Date(y + 1, 12, n)) \in Int /\ Ordinal(Date(y, 1, n)) \in Int
      BY <1>1, <2>2, OrdinalType
    <3> HIDE DEF y, m, t
    <3> QED
      BY <1>1, <1>2, <1>6, <3>1, <3>2, <3>3, <3>4, <3>5, <3>6
  <2> QED
    BY <2>3, <2>5, <2>6
<1>7. n \in Int /\ r.day \in Int
  BY <1>1
<1> QED
  BY <1>4, <1>5, <1>6, <1>7

\* The last day of the month of the meeting is not behind it.
LEMMA EndOfMonthIsLast ==
  ASSUME NEW r \in Calendar
  PROVE  LET t == EndOfMonth(r) IN
         /\ t \in Calendar /\ t.day = DaysIn(t.year, t.month)
         /\ Ordinal(t) >= Ordinal(r)
<1> DEFINE length == DaysIn(r.year, r.month)
<1>1. /\ r.year \in Year /\ r.month \in 1 .. 12 /\ r = Date(r.year, r.month, r.day)
      /\ r.day \in 1 .. length /\ length \in 28 .. 31 /\ Ordinal(r) \in Int
  BY CalendarType
<1>2. length \in 1 .. length /\ length \in Int /\ r.day \in Int
  BY <1>1
<1>3. EndOfMonth(r) = Date(r.year, r.month, length)
  BY DEF EndOfMonth
<1>4. /\ Date(r.year, r.month, length) \in Calendar
      /\ Date(r.year, r.month, length).year = r.year
      /\ Date(r.year, r.month, length).month = r.month
      /\ Date(r.year, r.month, length).day = length
  BY <1>1, <1>2, InCalendar
<1>5. Ordinal(Date(r.year, r.month, length))
        = Ordinal(Date(r.year, r.month, r.day)) + length - r.day
  BY <1>1, <1>2, SameMonth
<1>6. Ordinal(Date(r.year, r.month, length)) >= Ordinal(r)
  BY <1>1, <1>2, <1>5
<1> QED
  BY <1>3, <1>4, <1>6

\* A weekday is the first one after the meeting's day.
LEMMA WeekdayIsNext ==
  ASSUME NEW r \in Calendar, NEW w \in 0 .. 6
  PROVE  LET t == Plus(r, Ahead(w, r)) IN
         /\ t \in Calendar /\ Weekday(t) = w /\ Ordinal(t) > Ordinal(r)
         /\ \A b \in Between(r, t) : Ordinal(b) \in Int => Weekday(b) # w
<1> DEFINE o == Ordinal(r)
           n == Ahead(w, r)
<1>1. o \in Int
  BY CalendarType
<1>2. n \in 1 .. 7 /\ (o + n + 6) % 7 = w
  BY <1>1 DEF Ahead, Weekday
<1>3. \A p \in Int : o < p /\ p < o + n => (p + 6) % 7 # w
  BY <1>1, <1>2
<1>4. Plus(r, n) \in Calendar /\ Ordinal(Plus(r, n)) = o + n
  <2>1. n \in 0 .. 28
    BY <1>2
  <2> QED
    BY <2>1, PlusIsLater
<1>5. Weekday(Plus(r, n)) = w
  BY <1>2, <1>4 DEF Weekday
<1>6. Ordinal(Plus(r, n)) > o
  BY <1>1, <1>2, <1>4
<1>7. \A b \in Between(r, Plus(r, n)) : Ordinal(b) \in Int => Weekday(b) # w
  BY <1>3, <1>4 DEF Between, Weekday
<1> QED
  BY <1>4, <1>5, <1>6, <1>7

LEMMA BetweenType ==
  ASSUME NEW r \in Calendar, NEW t \in Calendar, NEW b \in Between(r, t)
  PROVE  Ordinal(b) \in Int
<1>1. PICK y \in {r.year, t.year}, m \in {r.month, t.month}, d \in 1 .. 31 : b = Date(y, m, d)
  BY DEF Between
<1>2. y \in Year /\ m \in 1 .. 12 /\ d \in Int
  BY <1>1, CalendarType
<1> QED
  BY <1>1, <1>2, OrdinalType

\* Friday of the week after the meeting's.
LEMMA NextWeekIsNext ==
  ASSUME NEW r \in Calendar
  PROVE  LET t == Plus(r, 7 - Weekday(r) + 4) IN
         /\ t \in Calendar /\ Weekday(t) = 4 /\ Ordinal(t) >= Ordinal(r)
         /\ Ordinal(t) - Ordinal(r) + Weekday(r) \in 7 .. 13
<1> DEFINE o == Ordinal(r)
           n == 7 - Weekday(r) + 4
<1>1. o \in Int
  BY CalendarType
<1>2. /\ Weekday(r) \in 0 .. 6 /\ n \in 5 .. 11 /\ n + Weekday(r) = 11
      /\ (o + n + 6) % 7 = 4
  BY <1>1 DEF Weekday
<1>3. Plus(r, n) \in Calendar /\ Ordinal(Plus(r, n)) = o + n
  <2>1. n \in 0 .. 28
    BY <1>2
  <2> QED
    BY <2>1, PlusIsLater
<1>4. Weekday(Plus(r, n)) = 4
  BY <1>2, <1>3 DEF Weekday
<1>5. Ordinal(Plus(r, n)) >= o /\ Ordinal(Plus(r, n)) - o + Weekday(r) \in 7 .. 13
  BY <1>1, <1>2, <1>3
<1> QED
  BY <1>3, <1>4, <1>5

\* On whatever day of whatever year the meeting is held, a date made of what
\* was said is a day that exists, is not behind the meeting, is what was said,
\* and is the first such day when a weekday or a day of the month was named
\* (normalise_deadline).
THEOREM AlwaysComing == \A r \in Calendar, said \in Said : Coming(said, r)
<1> SUFFICES ASSUME NEW r \in Calendar, NEW said \in Said,
                    NormaliseDeadline(said, r) # None
             PROVE  Coming(said, r)
  BY DEF Coming
<1>1. ASSUME NEW n \in 0 .. 2, said = << "days", n >>
      PROVE  Coming(said, r)
  <2>1. NormaliseDeadline(said, r) = Plus(r, n)
    BY <1>1 DEF NormaliseDeadline
  <2>2. Plus(r, n) \in Calendar /\ Ordinal(Plus(r, n)) >= Ordinal(r)
    <3>1. n \in 0 .. 28 /\ Ordinal(r) \in Int
      BY CalendarType
    <3>2. Plus(r, n) \in Calendar /\ Ordinal(Plus(r, n)) = Ordinal(r) + n
      BY <3>1, PlusIsLater
    <3> QED
      BY <3>1, <3>2
  <2> QED
    BY <1>1, <2>1, <2>2 DEF Coming, Fits, Calendar
<1>2. ASSUME NEW n \in 0 .. 99, said = << "number", n >>
      PROVE  Coming(said, r)
  <2> DEFINE t == NextDayOfMonth(n, r)
  <2>1. NormaliseDeadline(said, r) = t
    BY <1>2 DEF NormaliseDeadline
  <2>2. /\ t \in Calendar /\ t.day = n /\ Ordinal(t) > Ordinal(r)
        /\ \A b \in Between(r, t) : b.day # n
    BY <2>1, NextDayIsNext
  <2>3. Ordinal(t) >= Ordinal(r)
    BY <2>2, CalendarType
  <2> HIDE DEF t
  <2> QED
    BY <1>2, <2>1, <2>2, <2>3 DEF Coming, Fits, Calendar
<1>3. ASSUME NEW w \in 0 .. 6, said = << "weekday", w >>
      PROVE  Coming(said, r)
  <2> DEFINE t == Plus(r, Ahead(w, r))
  <2>1. NormaliseDeadline(said, r) = t
    BY <1>3 DEF NormaliseDeadline
  <2>2. /\ t \in Calendar /\ Weekday(t) = w /\ Ordinal(t) > Ordinal(r)
        /\ \A b \in Between(r, t) : Weekday(b) # w
    BY WeekdayIsNext, BetweenType
  <2>3. Ordinal(t) >= Ordinal(r)
    BY <2>2, CalendarType
  <2> HIDE DEF t
  <2> QED
    BY <1>3, <2>1, <2>2, <2>3 DEF Coming, Fits, Calendar
<1>4. CASE said = << "next week", 0 >>
  <2> DEFINE t == Plus(r, 7 - Weekday(r) + 4)
  <2>1. NormaliseDeadline(said, r) = t
    BY <1>4 DEF NormaliseDeadline
  <2>2. /\ t \in Calendar /\ Weekday(t) = 4 /\ Ordinal(t) >= Ordinal(r)
        /\ Ordinal(t) - Ordinal(r) + Weekday(r) \in 7 .. 13
    BY NextWeekIsNext
  <2> HIDE DEF t
  <2> QED
    BY <1>4, <2>1, <2>2 DEF Coming, Fits, Calendar
<1>5. CASE said = << "end of the month", 0 >>
  <2> DEFINE t == EndOfMonth(r)
  <2>1. NormaliseDeadline(said, r) = t
    BY <1>5 DEF NormaliseDeadline
  <2>2. t \in Calendar /\ t.day = DaysIn(t.year, t.month) /\ Ordinal(t) >= Ordinal(r)
    BY EndOfMonthIsLast
  <2> HIDE DEF t
  <2> QED
    BY <1>5, <2>1, <2>2 DEF Coming, Fits, Calendar
<1>6. CASE said = << "anything else", 0 >>
  BY <1>6 DEF NormaliseDeadline
<1> QED
  BY <1>1, <1>2, <1>3, <1>4, <1>5, <1>6 DEF Said

\* In particular on the days the run tries.
COROLLARY OnTheDaysTried == DatesAreComing
<1>1. \A t \in Days : IsDate(t) => t \in Calendar
  BY DEF Days, Date, Calendar, Year
<1> QED
  BY <1>1, AlwaysComing DEF DatesAreComing

-----------------------------------------------------------------------------
(* Dates.                                                                  *)

\* Whatever a report that is published was said to be due, on the days tried,
\* its dates are coming.
THEOREM Dates == Spec => []DeadlineIsComing
<1>1. DeadlineIsComing
  BY OnTheDaysTried DEF DeadlineIsComing
<1> QED
  BY <1>1, PTL

-----------------------------------------------------------------------------
(* Who is asked.                                                           *)

Step == {"queued", "transcribe", "dispatch", "analysing", "analyse", "published",
         "failed", "stranded"}

Raised == {"nothing", "other", "TranscriptionError", "AllProvidersFailedError"}

Task == [step : Step, tries : 0 .. MaxRetries, raised : Raised,
         stored : BOOLEAN, fallback : BOOLEAN]

Chain == [next : 1 .. Len(Order) + 1, failures : [DOMAIN Order -> Nat],
          asked : [DOMAIN Order -> {"no", "failed", "open", "refused", "answered"}]]

Typed == task \in Task /\ chain \in Chain

\* A try that is under way has raised nothing; everybody before the next
\* supplier was passed over and nobody from the next on was asked.
Walking ==
  At("transcribe") =>
    /\ task.raised = "nothing"
    /\ \A i \in DOMAIN Order : IF i < chain.next THEN Passed(i) ELSE chain.asked[i] = "no"

Inv == Typed /\ Walking /\ AskedInTurn

LEMMA Suppliers ==
  ASSUME ProcessingConstants
  PROVE  Len(Order) \in Nat /\ DOMAIN Order = 1 .. Len(Order) /\ MaxRetries \in Nat
  BY DEF ProcessingConstants

LEMMA InitInv ==
  ASSUME ProcessingConstants, Init
  PROVE  Inv
<1>1. task = [step |-> "queued", tries |-> 0, raised |-> "nothing",
              stored |-> FALSE, fallback |-> FALSE]
      /\ chain = NewRouter
  BY DEF Init
<1>2. Typed
  BY <1>1, Suppliers DEF Typed, Task, Step, Raised, Chain, NewRouter
<1> QED
  BY <1>1, <1>2 DEF Inv, Walking, AskedInTurn, NewRouter, At

\* A task that changes its stage is still a task.
LEMMA Stepped ==
  ASSUME task \in Task, NEW step \in Step, NEW tries \in 0 .. MaxRetries, NEW what \in Raised,
         task' = [task EXCEPT !.step = step, !.tries = tries, !.raised = what]
  PROVE  /\ task' \in Task /\ task'.step = step /\ task'.raised = what
         /\ task'.stored = task.stored /\ task'.fallback = task.fallback
<1>1. PICK t \in Task : t = task
  OBVIOUS
<1>2. PICK w : w = [t EXCEPT !.step = step, !.tries = tries, !.raised = what]
  OBVIOUS
<1>3. /\ w \in Task /\ w.step = step /\ w.raised = what
      /\ w.stored = t.stored /\ w.fallback = t.fallback
  BY <1>2 DEF Task
<1> QED
  BY <1>1, <1>2, <1>3

\* Fields a step does not name keep their values.
LEMMA SameTries ==
  ASSUME NEW t \in Task, NEW step \in Step, NEW what \in Raised
  PROVE  /\ [t EXCEPT !.step = step, !.raised = what]
              = [t EXCEPT !.step = step, !.tries = t.tries, !.raised = what]
         /\ [t EXCEPT !.step = step]
              = [t EXCEPT !.step = step, !.tries = t.tries, !.raised = t.raised]
         /\ t.tries \in 0 .. MaxRetries /\ t.raised \in Raised
  BY DEF Task

\* A try that raises goes back to where it began or is the last one.
LEMMA GivenUp ==
  ASSUME ProcessingConstants, Inv, NEW from \in Step, NEW what \in Raised,
         Raises(from, what)
  PROVE  /\ task' \in Task /\ task'.step \in {from, "stranded"} /\ task'.raised = what
         /\ task'.stored = task.stored /\ task'.fallback = task.fallback
<1>1. task \in Task /\ MaxRetries \in Nat /\ task.tries \in 0 .. MaxRetries
  BY Suppliers DEF Inv, Typed, Task
<1>2. CASE task.tries < MaxRetries
  <2>1. PICK k \in 0 .. MaxRetries : k = task.tries + 1
    BY <1>1, <1>2
  <2>2. task' = [task EXCEPT !.step = from, !.tries = k, !.raised = what]
    BY <1>2, <2>1 DEF Raises
  <2> QED
    BY <1>1, <2>2, Stepped
<1>3. CASE ~ (task.tries < MaxRetries)
  <2>1. task' = [task EXCEPT !.step = "stranded", !.raised = what]
    BY <1>3 DEF Raises
  <2>2. "stranded" \in Step
    BY DEF Step
  <2>3. task' = [task EXCEPT !.step = "stranded", !.tries = task.tries, !.raised = what]
    BY <1>1, <2>1, <2>2, SameTries
  <2> QED
    BY <1>1, <2>2, <2>3, Stepped
<1> QED
  BY <1>2, <1>3

\* What leaves the chain and what is stored as they are keeps the invariant,
\* unless it goes back to the suppliers or says that all of them failed.
LEMMA ChainStands ==
  ASSUME ProcessingConstants, Inv, chain' = chain,
         task' \in Task, task'.stored = task.stored, task'.fallback = task.fallback,
         task'.step # "transcribe", task'.step = "queued" => ~ task.stored,
         task'.raised \in {task.raised, "nothing", "other"}
  PROVE  Inv'
<1>1. Typed'
  BY DEF Inv, Typed
<1>2. \A i \in DOMAIN Order : Passed(i)' = Passed(i)
  BY DEF Passed
<1>3. Walking'
  BY DEF Walking, At
<1>4. \A i, j \in DOMAIN Order : i < j /\ chain'.asked[j] # "no" => Passed(i)'
  BY <1>2 DEF Inv, AskedInTurn
<1>5. task'.raised = "AllProvidersFailedError" => \A i \in DOMAIN Order : Passed(i)'
  BY <1>2 DEF Inv, AskedInTurn
<1>6. task'.stored =>
        /\ task'.step \notin {"queued", "transcribe"}
        /\ \E i \in DOMAIN Order : chain'.asked[i] = "answered" /\ (task'.fallback <=> i > 1)
  BY DEF Inv, AskedInTurn
<1>7. AskedInTurn'
  BY <1>4, <1>5, <1>6 DEF AskedInTurn
<1> QED
  BY <1>1, <1>3, <1>7 DEF Inv

LEMMA TakeKeeps ==
  ASSUME ProcessingConstants, Inv, TakeTranscribe
  PROVE  Inv'
<1>1. task \in Task /\ NewRouter \in Chain /\ chain' = NewRouter /\ ~ task.stored
  BY Suppliers DEF Inv, Typed, Chain, NewRouter, TakeTranscribe, AskedInTurn, At
<1>2. /\ task' \in Task /\ task'.step = "transcribe" /\ task'.raised = "nothing"
      /\ task'.stored = task.stored
  <2>1. "transcribe" \in Step /\ "nothing" \in Raised
    BY DEF Step, Raised
  <2>2. task' = [task EXCEPT !.step = "transcribe", !.raised = "nothing"]
    BY DEF TakeTranscribe
  <2>3. task' = [task EXCEPT !.step = "transcribe", !.tries = task.tries,
                             !.raised = "nothing"]
        /\ task.tries \in 0 .. MaxRetries
    BY <1>1, <2>1, <2>2, SameTries
  <2> QED
    BY <1>1, <2>1, <2>3, Stepped
<1>3. chain'.next = 1 /\ \A i \in DOMAIN Order : chain'.asked[i] = "no"
  BY <1>1 DEF NewRouter
<1>4. \A i \in DOMAIN Order : ~ (i < 1)
  BY Suppliers
<1> QED
  BY <1>1, <1>2, <1>3, <1>4 DEF Inv, Typed, Walking, AskedInTurn

\* One more supplier was passed over, and everybody after it is still to be
\* asked.
LEMMA NoAnswerKeeps ==
  ASSUME ProcessingConstants, Inv, NoAnswer
  PROVE  Inv'
<1>1. PICK n \in DOMAIN Order : n = chain.next
  BY DEF NoAnswer, Asking
<1>2. /\ At("transcribe") /\ chain \in Chain /\ task \in Task /\ task' = task
      /\ DOMAIN Order = 1 .. Len(Order) /\ Len(Order) \in Nat
      /\ chain.asked \in [DOMAIN Order -> {"no", "failed", "open", "refused", "answered"}]
      /\ chain.failures \in [DOMAIN Order -> Nat]
  BY Suppliers DEF NoAnswer, Asking, Inv, Typed, Chain
<1>3. PICK what \in {"failed", "open"}, F \in [DOMAIN Order -> Nat] :
        chain' = [next |-> n + 1, failures |-> F, asked |-> [chain.asked EXCEPT ![n] = what]]
  <2>1. PICK c \in Chain : c = chain
    BY <1>2
  <2>2. c = [next |-> c.next, failures |-> c.failures, asked |-> c.asked]
    BY DEF Chain
  <2>3. CASE IsOpen
    <3>1. chain' = [c EXCEPT !.next = n + 1, !.asked[n] = "open"]
      BY <1>1, <2>1, <2>3 DEF NoAnswer
    <3>2. chain' = [next |-> n + 1, failures |-> c.failures,
                    asked |-> [c.asked EXCEPT ![n] = "open"]]
      BY <2>2, <3>1
    <3> QED
      BY <1>2, <2>1, <3>2
  <2>4. CASE ~ IsOpen
    <3>1. chain' = [c EXCEPT !.next = n + 1, !.failures[n] = @ + 1, !.asked[n] = "failed"]
      BY <1>1, <2>1, <2>4 DEF NoAnswer
    <3>2. PICK G \in [DOMAIN Order -> Nat] : G = c.failures
      BY <1>2, <2>1
    <3>3. PICK F : F = [G EXCEPT ![n] = G[n] + 1]
      OBVIOUS
    <3>4. F \in [DOMAIN Order -> Nat]
      BY <3>3
    <3>5. chain' = [next |-> n + 1, failures |-> F, asked |-> [c.asked EXCEPT ![n] = "failed"]]
      BY <2>2, <3>1, <3>2, <3>3
    <3> QED
      BY <1>2, <2>1, <3>4, <3>5
  <2> QED
    BY <2>3, <2>4
<1>4. PICK A : A = [chain.asked EXCEPT ![n] = what]
  OBVIOUS
<1>5. /\ A \in [DOMAIN Order -> {"no", "failed", "open", "refused", "answered"}]
      /\ A[n] = what /\ \A i \in DOMAIN Order : i # n => A[i] = chain.asked[i]
  BY <1>2, <1>4
<1>6. chain' \in Chain /\ chain'.next = n + 1 /\ chain'.asked = A
  <2>1. n + 1 \in 1 .. Len(Order) + 1
    BY <1>2
  <2> QED
    BY <1>3, <1>4, <1>5, <2>1 DEF Chain
<1>7. \A i \in DOMAIN Order : IF i < n + 1 THEN Passed(i)' ELSE A[i] = "no"
  <2> SUFFICES ASSUME NEW i \in DOMAIN Order
               PROVE  IF i < n + 1 THEN Passed(i)' ELSE A[i] = "no"
    OBVIOUS
  <2>1. IF i < n THEN Passed(i) ELSE chain.asked[i] = "no"
    BY <1>1, <1>2 DEF Inv, Walking
  <2>2. i \in Nat /\ n \in Nat
    BY <1>2
  <2>3. CASE i = n
    BY <1>5, <1>6, <2>2, <2>3 DEF Passed
  <2>4. CASE i # n
    <3>1. i < n + 1 <=> i < n
      BY <2>2, <2>4
    <3>2. Passed(i)' = Passed(i) /\ A[i] = chain.asked[i]
      BY <1>5, <1>6, <2>4 DEF Passed
    <3> QED
      BY <2>1, <3>1, <3>2
  <2> QED
    BY <2>3, <2>4
<1>8. Walking'
  BY <1>2, <1>6, <1>7 DEF Inv, Walking, At
<1>9. \A i, j \in DOMAIN Order : i < j /\ A[j] # "no" => Passed(i)'
  <2> SUFFICES ASSUME NEW i \in DOMAIN Order, NEW j \in DOMAIN Order, i < j, A[j] # "no"
               PROVE  Passed(i)'
    OBVIOUS
  <2>1. j < n + 1 /\ i \in Nat /\ j \in Nat /\ n \in Nat
    BY <1>2, <1>7
  <2>2. i < n + 1
    BY <2>1
  <2> QED
    BY <1>7, <2>2
<1>10. task.raised = "nothing" /\ ~ task.stored
  BY <1>2 DEF Inv, Walking, AskedInTurn, At
<1> QED
  BY <1>2, <1>6, <1>8, <1>9, <1>10 DEF Inv, Typed, AskedInTurn

\* The one whose turn it was has answered or refused; nobody after it is asked.
LEMMA LastAsked ==
  ASSUME ProcessingConstants, Inv, Asking, NEW what \in {"refused", "answered"},
         NEW F \in [DOMAIN Order -> Nat],
         chain' = [chain EXCEPT !.failures = F, !.asked[chain.next] = what]
  PROVE  /\ chain' \in Chain /\ chain'.asked[chain.next] = what
         /\ \A i, j \in DOMAIN Order : i < j /\ chain'.asked[j] # "no" => Passed(i)'
<1>1. PICK n \in DOMAIN Order : n = chain.next
  BY DEF Asking
<1>2. /\ At("transcribe") /\ chain \in Chain
      /\ DOMAIN Order = 1 .. Len(Order) /\ Len(Order) \in Nat
      /\ chain.asked \in [DOMAIN Order -> {"no", "failed", "open", "refused", "answered"}]
  BY Suppliers DEF Asking, Inv, Typed, Chain
<1>3. PICK A : A = [chain.asked EXCEPT ![n] = what]
  OBVIOUS
<1>4. /\ A \in [DOMAIN Order -> {"no", "failed", "open", "refused", "answered"}]
      /\ A[n] = what /\ \A i \in DOMAIN Order : i # n => A[i] = chain.asked[i]
  BY <1>2, <1>3
<1>5. chain' \in Chain /\ chain'.asked = A
  <2>1. PICK c \in Chain : c = chain
    BY <1>2
  <2>2. c = [next |-> c.next, failures |-> c.failures, asked |-> c.asked]
        /\ c.next \in 1 .. Len(Order) + 1
    BY DEF Chain
  <2>3. chain' = [c EXCEPT !.failures = F, !.asked[n] = what]
    BY <1>1, <2>1
  <2>4. chain' = [next |-> c.next, failures |-> F, asked |-> A]
    BY <1>3, <2>1, <2>2, <2>3
  <2>5. [next |-> c.next, failures |-> F, asked |-> A] \in Chain
    BY <1>4, <2>2 DEF Chain
  <2>6. [next |-> c.next, failures |-> F, asked |-> A].asked = A
    OBVIOUS
  <2> QED
    BY <2>4, <2>5, <2>6
<1>6. \A i, j \in DOMAIN Order : i < j /\ A[j] # "no" => Passed(i)'
  <2> SUFFICES ASSUME NEW i \in DOMAIN Order, NEW j \in DOMAIN Order, i < j, A[j] # "no"
               PROVE  Passed(i)'
    OBVIOUS
  <2>1. i \in Nat /\ j \in Nat /\ n \in Nat
    BY <1>2
  <2>2. \A k \in DOMAIN Order : IF k < n THEN Passed(k) ELSE chain.asked[k] = "no"
    BY <1>1, <1>2 DEF Inv, Walking
  <2>3. j = n \/ j < n
    BY <1>4, <2>1, <2>2
  <2>4. i < n
    BY <2>1, <2>3
  <2>5. Passed(i) /\ i # n
    BY <2>1, <2>2, <2>4
  <2> QED
    BY <1>4, <1>5, <2>5 DEF Passed
<1> QED
  BY <1>1, <1>4, <1>5, <1>6

LEMMA AskedKeeps ==
  ASSUME ProcessingConstants, Inv, SupplierRefuses \/ AnswerLost
  PROVE  Inv'
<1>1. Asking /\ chain \in Chain /\ ~ task.stored /\ chain.failures \in [DOMAIN Order -> Nat]
  BY DEF SupplierRefuses, AnswerLost, Answering, Asking, Inv, Typed, Chain, AskedInTurn, At
<1>2. PICK what \in {"refused", "answered"}, F \in [DOMAIN Order -> Nat] :
        chain' = [chain EXCEPT !.failures = F, !.asked[chain.next] = what]
  <2>1. CASE SupplierRefuses
    <3>1. chain' = [chain EXCEPT !.asked[chain.next] = "refused"]
      BY <2>1 DEF SupplierRefuses
    <3>2. chain' = [chain EXCEPT !.failures = chain.failures,
                                 !.asked[chain.next] = "refused"]
      BY <1>1, <3>1 DEF Chain
    <3> QED
      BY <1>1, <3>2
  <2>2. CASE AnswerLost
    <3>1. chain' = [chain EXCEPT !.failures[chain.next] = 0,
                                 !.asked[chain.next] = "answered"]
      BY <2>2 DEF AnswerLost, Answering
    <3>2. PICK F : F = [chain.failures EXCEPT ![chain.next] = 0]
      OBVIOUS
    <3>3. F \in [DOMAIN Order -> Nat]
      BY <1>1, <3>2
    <3>4. chain' = [chain EXCEPT !.failures = F, !.asked[chain.next] = "answered"]
      BY <3>1, <3>2
    <3> QED
      BY <3>3, <3>4
  <2> QED
    BY <2>1, <2>2
<1>3. /\ chain' \in Chain
      /\ \A i, j \in DOMAIN Order : i < j /\ chain'.asked[j] # "no" => Passed(i)'
  BY <1>1, <1>2, LastAsked
<1>4. PICK raised \in {"TranscriptionError", "other"} : Raises("queued", raised)
  BY DEF SupplierRefuses, AnswerLost
<1>5. "queued" \in Step /\ raised \in Raised
  BY DEF Step, Raised
<1>6. /\ task' \in Task /\ task'.step \in {"queued", "stranded"}
      /\ task'.raised = raised /\ task'.stored = task.stored
  BY <1>4, <1>5, GivenUp
<1> QED
  BY <1>1, <1>3, <1>6 DEF Inv, Typed, Walking, AskedInTurn, At

LEMMA NobodyLeftKeeps ==
  ASSUME ProcessingConstants, Inv, NobodyLeft
  PROVE  Inv'
<1>1. /\ At("transcribe") /\ chain.next \notin DOMAIN Order /\ chain \in Chain
      /\ DOMAIN Order = 1 .. Len(Order) /\ Len(Order) \in Nat
      /\ chain' = chain /\ ~ task.stored
  BY Suppliers DEF NobodyLeft, Inv, Typed, AskedInTurn, At
<1>2. \A i \in DOMAIN Order : Passed(i)
  <2>1. chain.next = Len(Order) + 1
    BY <1>1 DEF Chain
  <2>2. \A i \in DOMAIN Order : i < chain.next
    BY <1>1, <2>1
  <2> QED
    BY <1>1, <2>2 DEF Inv, Walking
<1>3. \A i \in DOMAIN Order : Passed(i)'
  BY <1>1, <1>2 DEF Passed
<1>4. /\ task' \in Task /\ task'.step \in {"queued", "stranded"} /\ task'.stored = task.stored
  <2>1. "queued" \in Step /\ "AllProvidersFailedError" \in Raised
        /\ Raises("queued", "AllProvidersFailedError")
    BY DEF Step, Raised, NobodyLeft
  <2> QED
    BY <2>1, GivenUp
<1> QED
  BY <1>1, <1>3, <1>4 DEF Inv, Typed, Walking, AskedInTurn, At

LEMMA SupplierAnswersKeeps ==
  ASSUME ProcessingConstants, Inv, NEW s, SupplierAnswers(s)
  PROVE  Inv'
<1>1. /\ Asking /\ chain \in Chain /\ task \in Task /\ task.raised = "nothing"
      /\ chain.failures \in [DOMAIN Order -> Nat] /\ chain.next \in DOMAIN Order
  BY DEF SupplierAnswers, Answering, Asking, Inv, Typed, Chain, Walking
<1>2. PICK F \in [DOMAIN Order -> Nat] :
        chain' = [chain EXCEPT !.failures = F, !.asked[chain.next] = "answered"]
  <2>1. chain' = [chain EXCEPT !.failures[chain.next] = 0,
                               !.asked[chain.next] = "answered"]
    BY DEF SupplierAnswers, Answering
  <2>2. PICK F : F = [chain.failures EXCEPT ![chain.next] = 0]
    OBVIOUS
  <2>3. F \in [DOMAIN Order -> Nat]
    BY <1>1, <2>2
  <2>4. chain' = [chain EXCEPT !.failures = F, !.asked[chain.next] = "answered"]
    BY <2>1, <2>2
  <2> QED
    BY <2>3, <2>4
<1>3. /\ chain' \in Chain /\ chain'.asked[chain.next] = "answered"
      /\ \A i, j \in DOMAIN Order : i < j /\ chain'.asked[j] # "no" => Passed(i)'
  BY <1>1, <1>2, LastAsked
<1>4. PICK b \in BOOLEAN : b = (chain.next > 1)
  <2>1. (chain.next > 1) \in BOOLEAN
    OBVIOUS
  <2> QED
    BY <2>1
<1>5. /\ task' \in Task /\ task'.step = "dispatch" /\ task'.raised = "nothing"
      /\ task'.fallback = b
  <2>1. task' = [task EXCEPT !.step = "dispatch", !.stored = TRUE, !.fallback = b]
    BY <1>4 DEF SupplierAnswers
  <2> QED
    BY <1>1, <2>1 DEF Task, Step
<1>6. \E i \in DOMAIN Order : chain'.asked[i] = "answered" /\ (task'.fallback <=> i > 1)
  BY <1>1, <1>3, <1>4, <1>5
<1> QED
  BY <1>3, <1>5, <1>6 DEF Inv, Typed, Walking, AskedInTurn, At

LEMMA RaisesKeeps ==
  ASSUME ProcessingConstants, Inv, TranscriptionRaises \/ AnalysisRaises
  PROVE  Inv'
<1>1. PICK from \in {"queued", "analysing"} :
        Raises(from, "other") /\ (from = "queued" => ~ task.stored)
  BY DEF TranscriptionRaises, AnalysisRaises, Inv, AskedInTurn, At
<1>2. from \in Step /\ "other" \in Raised /\ chain' = chain
  BY DEF Step, Raised, TranscriptionRaises, AnalysisRaises
<1>3. /\ task' \in Task /\ task'.step \in {from, "stranded"} /\ task'.raised = "other"
      /\ task'.stored = task.stored /\ task'.fallback = task.fallback
  BY <1>1, <1>2, GivenUp
<1> QED
  BY <1>1, <1>2, <1>3, ChainStands

\* The other steps leave the chain as it is; a task of the analysis and a retry
\* do not go back to the suppliers with a transcript stored.
LEMMA OthersKeep ==
  ASSUME ProcessingConstants, Inv,
         \/ AudioRefused \/ Dispatch \/ TakeAnalyse \/ ModelFails \/ ModelRefuses
         \/ NoValidReport \/ (\E sources \in Pointing : Unsourced(sources) \/ Published(sources))
         \/ Retry
  PROVE  Inv'
<1>1. /\ chain' = chain /\ task \in Task /\ 0 \in 0 .. MaxRetries
      /\ "nothing" \in Raised /\ "other" \in Raised
  BY Suppliers DEF AudioRefused, Dispatch, TakeAnalyse, ModelFails, ModelRefuses,
     NoValidReport, Unsourced, Published, Retry, Inv, Typed, Raised
<1>2. CASE AudioRefused \/ TakeAnalyse \/ ModelRefuses \/ NoValidReport
           \/ \E sources \in Pointing : Published(sources)
  <2>1. PICK step \in {"analyse", "published", "failed"} : task' = [task EXCEPT !.step = step]
    BY <1>2 DEF AudioRefused, TakeAnalyse, ModelRefuses, NoValidReport, Published
  <2>2. step \in Step
    BY DEF Step
  <2>3. /\ task' = [task EXCEPT !.step = step, !.tries = task.tries, !.raised = task.raised]
        /\ task.tries \in 0 .. MaxRetries /\ task.raised \in Raised
    BY <1>1, <2>1, <2>2, SameTries
  <2>4. /\ task' \in Task /\ task'.step = step /\ task'.raised = task.raised
        /\ task'.stored = task.stored /\ task'.fallback = task.fallback
    BY <1>1, <2>2, <2>3, Stepped
  <2> QED
    BY <1>1, <2>4, ChainStands
<1>3. CASE ModelFails \/ \E sources \in Pointing : Unsourced(sources)
  <2>1. task' = task /\ task.step = "analyse"
    BY <1>3 DEF ModelFails, Unsourced, Trying, At
  <2> QED
    BY <1>1, <2>1, ChainStands
<1>4. CASE Retry
  <2>1. PICK step \in {"queued", "analysing"} :
          /\ task' = [task EXCEPT !.step = step, !.tries = 0, !.raised = "nothing"]
          /\ step = "queued" => ~ task.stored
    BY <1>4 DEF Retry
  <2>2. step \in Step
    BY DEF Step
  <2>3. /\ task' \in Task /\ task'.step = step /\ task'.raised = "nothing"
        /\ task'.stored = task.stored /\ task'.fallback = task.fallback
    BY <1>1, <2>1, <2>2, Stepped
  <2> QED
    BY <1>1, <2>1, <2>3, ChainStands
<1>5. CASE Dispatch
  <2>1. "dispatch" \in Step /\ "analysing" \in Step
    BY DEF Step
  <2>2. CASE task' = [task EXCEPT !.step = "analysing", !.tries = 0, !.raised = "nothing"]
    <3>1. /\ task' \in Task /\ task'.step = "analysing" /\ task'.raised = "nothing"
          /\ task'.stored = task.stored /\ task'.fallback = task.fallback
      BY <1>1, <2>1, <2>2, Stepped
    <3> QED
      BY <1>1, <3>1, ChainStands
  <2>3. CASE Raises("dispatch", "other")
    <3>1. /\ task' \in Task /\ task'.step \in {"dispatch", "stranded"}
          /\ task'.raised = "other"
          /\ task'.stored = task.stored /\ task'.fallback = task.fallback
      BY <1>1, <2>1, <2>3, GivenUp
    <3> QED
      BY <1>1, <3>1, ChainStands
  <2> QED
    BY <1>5, <2>2, <2>3 DEF Dispatch
<1> QED
  BY <1>2, <1>3, <1>4, <1>5

LEMMA InvKeeps ==
  ASSUME Inv, [Next]_vars
  PROVE  Inv'
<1>1. CASE UNCHANGED vars
  BY <1>1 DEF vars, Inv, Typed, Walking, AskedInTurn, Passed, At
<1>2. CASE Next
  BY <1>2, ProcessingConstants, TakeKeeps, NoAnswerKeeps, AskedKeeps, NobodyLeftKeeps,
     SupplierAnswersKeeps, RaisesKeeps, OthersKeep DEF Next
<1> QED
  BY <1>1, <1>2

\* For every chain of suppliers, none included, every threshold and number of
\* retries, and whatever raises: nobody is asked out of turn or after an answer
\* or a refusal, a stored transcript is never asked for again, and a fallback is
\* marked as one.
THEOREM Turns == Spec => []AskedInTurn
<1>1. Init => Inv
  BY InitInv, ProcessingConstants
<1>2. Inv /\ [Next]_vars => Inv'
  BY InvKeeps
<1>3. Inv => AskedInTurn
  BY DEF Inv
<1> QED
  BY <1>1, <1>2, <1>3, PTL DEF Spec

-----------------------------------------------------------------------------
(* What the merging of fragments keeps.  MergeMicroSegments is a fold, and  *)
(* a fold is a function recursive over the sets of places: it is shown to   *)
(* exist, to give what its unfolding says, and what it says to be so, each  *)
(* time by the least number of which that is not so.                        *)

\* A set of numbers with an element has a least one.
LEMMA LeastOf ==
  ASSUME NEW X \in SUBSET Nat, X # {}
  PROVE  \E n \in X : \A m \in X : m >= n
<1>1. PICK n \in X : \A m \in X : <<m, n>> \notin OpToRel(<, Nat)
  BY NatLessThanWellFounded, WFMin
<1>2. \A m \in X : ~ (m < n)
  BY <1>1 DEF OpToRel
<1> QED
  BY <1>2

\* f is what the utterances of s at any of its first n places come to.
Folds(f, s, n) ==
  f = [S \in SUBSET (1 .. n) |->
         IF S = {} THEN << >> ELSE Merged(s[Max(S)], f[S \ {Max(S)}])]

LEMMA FoldDef ==
  ASSUME NEW n \in Nat, NEW s, DOMAIN s = 1 .. n
  PROVE  MergeMicroSegments(s) = (CHOOSE f : Folds(f, s, n))[1 .. n]
  BY DEF MergeMicroSegments, FoldLeft, MapThenFoldSet, Folds

LEMMA GreatestOf ==
  ASSUME NEW n \in Nat, NEW S \in SUBSET (1 .. n), n \in S
  PROVE  Max(S) = n
<1>1. \A x \in S : n >= x
  OBVIOUS
<1>2. Max(S) \in S /\ \A x \in S : Max(S) >= x
  <2>1. \E y \in S : \A x \in S : y >= x
    BY <1>1
  <2> QED
    BY <2>1, Zenon DEF Max
<1>3. PICK m : m = Max(S)
  OBVIOUS
<1>4. m \in 1 .. n /\ m >= n
  BY <1>2, <1>3
<1> QED
  BY <1>3, <1>4

\* One place more.
LEMMA OneMore ==
  ASSUME NEW n \in Nat, NEW s, NEW f, Folds(f, s, n)
  PROVE  Folds([S \in SUBSET (1 .. n + 1) |->
                  IF n + 1 \in S THEN Merged(s[n + 1], f[S \ {n + 1}]) ELSE f[S]], s, n + 1)
<1>1. PICK g : g = [S \in SUBSET (1 .. n + 1) |->
                      IF n + 1 \in S THEN Merged(s[n + 1], f[S \ {n + 1}]) ELSE f[S]]
  OBVIOUS
<1>2. f = [S \in SUBSET (1 .. n) |->
             IF S = {} THEN << >> ELSE Merged(s[Max(S)], f[S \ {Max(S)}])]
  BY DEF Folds
<1>3. ASSUME NEW S \in SUBSET (1 .. n + 1)
      PROVE  g[S] = IF S = {} THEN << >> ELSE Merged(s[Max(S)], g[S \ {Max(S)}])
  <2>1. CASE n + 1 \in S
    <3>1. Max(S) = n + 1 /\ S # {}
      BY <2>1, GreatestOf
    <3>2. S \ {n + 1} \in SUBSET (1 .. n + 1) /\ n + 1 \notin S \ {n + 1}
      OBVIOUS
    <3>3. g[S \ {n + 1}] = f[S \ {n + 1}]
      BY <1>1, <3>2
    <3>4. g[S] = Merged(s[n + 1], f[S \ {n + 1}])
      BY <1>1, <2>1
    <3> QED
      BY <3>1, <3>3, <3>4
  <2>2. CASE n + 1 \notin S
    <3>1. S \in SUBSET (1 .. n) /\ S \ {Max(S)} \in SUBSET (1 .. n + 1)
      <4>1. \A x \in 1 .. n + 1 : x = n + 1 \/ x \in 1 .. n
        OBVIOUS
      <4> QED
        BY <2>2, <4>1
    <3>2. g[S] = f[S] /\ g[S \ {Max(S)}] = f[S \ {Max(S)}]
      BY <1>1, <2>2, <3>1
    <3>3. f[S] = IF S = {} THEN << >> ELSE Merged(s[Max(S)], f[S \ {Max(S)}])
      BY <1>2, <3>1, Zenon
    <3> QED
      BY <3>2, <3>3
  <2> QED
    BY <2>1, <2>2
<1>4. g = [S \in SUBSET (1 .. n + 1) |->
             IF S = {} THEN << >> ELSE Merged(s[Max(S)], g[S \ {Max(S)}])]
  BY <1>1, <1>3, Zenon
<1> QED
  BY <1>1, <1>4 DEF Folds

LEMMA SomeFold ==
  ASSUME NEW s, NEW N \in Nat
  PROVE  \E f : Folds(f, s, N)
<1> DEFINE X == {n \in Nat : ~ \E f : Folds(f, s, n)}
<1>1. X = {}
  <2> SUFFICES ASSUME X # {} PROVE FALSE
    OBVIOUS
  <2>1. PICK n \in X : \A m \in X : m >= n
    BY LeastOf
  <2>2. n \in Nat /\ ~ \E f : Folds(f, s, n)
    OBVIOUS
  <2>3. CASE n = 0
    <3>1. PICK f : f = [S \in {{}} |-> << >>]
      OBVIOUS
    <3>2. SUBSET (1 .. n) = {{}}
      BY <2>3
    <3>3. f = [S \in SUBSET (1 .. n) |->
                 IF S = {} THEN << >> ELSE Merged(s[Max(S)], f[S \ {Max(S)}])]
      BY <3>1, <3>2
    <3> QED
      BY <2>2, <3>3 DEF Folds
  <2>4. CASE n # 0
    <3>1. PICK k \in Nat : n = k + 1
      <4>1. n - 1 \in Nat /\ n = (n - 1) + 1
        BY <2>2, <2>4
      <4> QED
        BY <4>1
    <3>2. k \notin X
      <4> HIDE DEF X
      <4> QED
        BY <2>1, <3>1
    <3>3. \E f : Folds(f, s, k)
      BY <3>2
    <3> QED
      BY <2>2, <3>1, <3>3, OneMore
  <2> QED
    BY <2>3, <2>4
<1> QED
  BY <1>1

\* A segment that covers an utterance, and one that spans a turn.
Covers(w, u) == w.tag = u.tag /\ w.start <= u.start /\ u.end <= w.end

Turn(s, i, j) == i <= j /\ \A k \in i .. j : s[k].tag = s[i].tag

Spans(w, s, i, j) ==
  Turn(s, i, j) /\ w.tag = s[i].tag /\ w.start = s[i].start /\ w.end = s[j].end

Segment == [tag : Speaker, start : Moment, end : Moment]

\* What the segments t keep of the first k utterances of s.
Keeps(s, k, t) ==
  /\ t \in Seq(Segment)
  /\ \A n \in 1 .. Len(t) : \E i, j \in 1 .. k : Spans(t[n], s, i, j)
  /\ k # 0 => t # << >> /\ \E i \in 1 .. k : Spans(t[Len(t)], s, i, k)
  /\ \A i \in 1 .. k : \E n \in 1 .. Len(t) : Covers(t[n], s[i])

LEMMA ResultType ==
  ASSUME ProcessingConstants, NEW s \in Result
  PROVE  /\ s \in Seq(Utterance) /\ Diarised(s) /\ DOMAIN s = 1 .. Len(s) /\ Len(s) \in Nat
         /\ \A i \in 1 .. Len(s) : /\ s[i] \in Segment
                                   /\ s[i].start \in Int /\ s[i].end \in Int
                                   /\ s[i].start < s[i].end
<1>1. s \in SeqOf(Utterance, MaxUtterances) /\ Diarised(s)
  BY DEF Result
<1>2. PICK m \in 0 .. MaxUtterances : s \in [1 .. m -> Utterance]
  BY <1>1 DEF SeqOf
<1>3. m \in Nat
  BY <1>2 DEF ProcessingConstants
<1>4. s \in Seq(Utterance) /\ Len(s) = m /\ DOMAIN s = 1 .. m
  BY <1>2, <1>3, SeqDef, LenProperties
<1>5. ASSUME NEW u \in Utterance
      PROVE  u \in Segment /\ u.start \in Int /\ u.end \in Int /\ u.start < u.end
  BY DEF ProcessingConstants, Utterance, Segment, Moment
<1> QED
  BY <1>1, <1>2, <1>3, <1>4, <1>5

\* A fragment of the speaker who spoke last.
LEMMA FragmentKeeps ==
  ASSUME ProcessingConstants, NEW s \in Result, NEW k \in Nat, k + 1 \in 1 .. Len(s),
         NEW t, Keeps(s, k, t), t # << >>, t[Len(t)].tag = s[k + 1].tag
  PROVE  Keeps(s, k + 1, [t EXCEPT ![Len(t)].end = s[k + 1].end])
<1>1. PICK N : N = Len(t)
  OBVIOUS
<1>2. PICK u : u = s[k + 1]
  OBVIOUS
<1>3. /\ t \in Seq(Segment) /\ N \in Nat \ {0} /\ DOMAIN t = 1 .. N
      /\ \A n \in 1 .. N : t[n] \in Segment
      /\ t \in [1 .. N -> Segment]
  BY <1>1, EmptySeq, LenProperties DEF Keeps
<1>4. /\ u \in Segment /\ u.start \in Int /\ u.end \in Int /\ u.start < u.end
      /\ Len(s) \in Nat /\ DOMAIN s = 1 .. Len(s) /\ Diarised(s)
  BY <1>2, ResultType
<1>5. PICK w : w = [t[N] EXCEPT !.end = u.end]
  OBVIOUS
<1>6. /\ w \in Segment /\ w.tag = t[N].tag /\ w.start = t[N].start /\ w.end = u.end
  <2>1. N \in 1 .. N
    BY <1>3
  <2>2. PICK x \in Segment : x = t[N]
    BY <1>3, <2>1
  <2>3. w = [x EXCEPT !.end = u.end]
    BY <1>5, <2>2
  <2>4. w \in Segment /\ w.tag = x.tag /\ w.start = x.start /\ w.end = u.end
    BY <1>4, <2>3 DEF Segment
  <2> QED
    BY <2>2, <2>4
<1>7. PICK p : p = [t EXCEPT ![N] = w]
  OBVIOUS
<1>8. p = [t EXCEPT ![Len(t)].end = s[k + 1].end]
  BY <1>1, <1>2, <1>5, <1>7
<1>9. p \in [1 .. N -> Segment] /\ p[N] = w /\ \A n \in 1 .. N : n # N => p[n] = t[n]
  BY <1>3, <1>6, <1>7
<1>10. p \in Seq(Segment) /\ Len(p) = N /\ p # << >>
  BY <1>3, <1>9, SeqDef, LenProperties, EmptySeq
<1>11. k # 0
  <2>1. 1 \in 1 .. N
    BY <1>3
  <2>2. PICK i \in 1 .. k : TRUE
    BY <1>1, <2>1 DEF Keeps
  <2> QED
    BY <2>2
<1>12. PICK first \in 1 .. k : Spans(t[N], s, first, k)
  BY <1>1, <1>11 DEF Keeps
<1>13. Spans(w, s, first, k + 1)
  <2>1. Turn(s, first, k) /\ t[N].tag = s[first].tag /\ t[N].start = s[first].start
    BY <1>12 DEF Spans
  <2>2. u.tag = s[first].tag
    BY <1>1, <1>2, <2>1
  <2>3. first <= k + 1 /\ \A x \in first .. k + 1 : x \in first .. k \/ x = k + 1
    BY <1>12
  <2>4. Turn(s, first, k + 1)
    BY <1>2, <2>1, <2>2, <2>3 DEF Turn
  <2> QED
    BY <1>2, <1>6, <2>1, <2>4 DEF Spans
<1>14. ASSUME NEW n \in 1 .. N
       PROVE  \E i, j \in 1 .. k + 1 : Spans(p[n], s, i, j)
  <2>1. CASE n = N
    <3>1. first \in 1 .. k + 1 /\ k + 1 \in 1 .. k + 1
      OBVIOUS
    <3> QED
      BY <1>9, <1>13, <2>1, <3>1
  <2>2. CASE n # N
    <3>1. PICK i \in 1 .. k, j \in 1 .. k : Spans(t[n], s, i, j)
      BY <1>1 DEF Keeps
    <3>2. i \in 1 .. k + 1 /\ j \in 1 .. k + 1 /\ p[n] = t[n]
      BY <1>9, <2>2
    <3> QED
      BY <3>1, <3>2
  <2> QED
    BY <2>1, <2>2
<1>15. k \in 1 .. Len(s) /\ s[k].tag = u.tag /\ t[N].end = s[k].end
  <2>1. k \in 1 .. Len(s) /\ k \in first .. k
    BY <1>4, <1>11, <1>12
  <2>2. s[k].tag = s[first].tag /\ t[N].tag = s[first].tag /\ t[N].end = s[k].end
    BY <1>12, <2>1 DEF Spans, Turn
  <2> QED
    BY <1>1, <1>2, <2>1, <2>2
<1>16. s[k].end <= u.start /\ s[k].end \in Int
  BY <1>2, <1>4, <1>15, ResultType DEF Diarised
<1>17. Covers(w, u)
  <2>1. first \in 1 .. Len(s) /\ first < k + 1
    BY <1>4, <1>12
  <2>2. s[first].start <= u.start
    BY <1>2, <1>4, <2>1 DEF Diarised
  <2>3. w.start = s[first].start /\ w.tag = u.tag
    BY <1>1, <1>2, <1>6, <1>12 DEF Spans
  <2> QED
    BY <1>4, <1>6, <2>2, <2>3 DEF Covers
<1>18. ASSUME NEW i \in 1 .. k + 1
       PROVE  \E n \in 1 .. N : Covers(p[n], s[i])
  <2>1. CASE i = k + 1
    BY <1>2, <1>3, <1>9, <1>17, <2>1
  <2>2. CASE i # k + 1
    <3>1. i \in 1 .. k /\ i \in 1 .. Len(s)
      BY <1>4, <2>2
    <3>2. PICK n \in 1 .. N : Covers(t[n], s[i])
      BY <1>1, <3>1 DEF Keeps
    <3>3. CASE n # N
      BY <1>9, <3>2, <3>3
    <3>4. CASE n = N
      <4>1. s[i].tag = t[N].tag /\ t[N].start <= s[i].start /\ s[i].end <= s[k].end
        BY <1>15, <3>2, <3>4 DEF Covers
      <4>2. s[i].end \in Int
        BY <3>1, ResultType
      <4>3. s[i].end <= u.end
        <5>1. \A a, b, c, d \in Int : a <= b /\ b <= c /\ c < d => a <= d
          OBVIOUS
        <5> QED
          BY <1>4, <1>16, <4>1, <4>2, <5>1
      <4>4. Covers(w, s[i])
        BY <1>6, <4>1, <4>3 DEF Covers
      <4> QED
        BY <1>3, <1>9, <4>4
    <3> QED
      BY <3>3, <3>4
  <2> QED
    BY <2>1, <2>2
<1>19. Keeps(s, k + 1, p)
  <2>1. first \in 1 .. k + 1
    OBVIOUS
  <2> QED
    BY <1>9, <1>10, <1>13, <1>14, <1>18, <2>1 DEF Keeps
<1> QED
  BY <1>8, <1>19

\* Anything else is a segment of its own.
LEMMA UtteranceKeeps ==
  ASSUME ProcessingConstants, NEW s \in Result, NEW k \in Nat, k + 1 \in 1 .. Len(s),
         NEW t, Keeps(s, k, t)
  PROVE  Keeps(s, k + 1, Append(t, s[k + 1]))
<1>1. PICK N : N = Len(t)
  OBVIOUS
<1>2. PICK u : u = s[k + 1]
  OBVIOUS
<1>3. t \in Seq(Segment) /\ N \in Nat
  BY <1>1, LenProperties DEF Keeps
<1>4. u \in Segment /\ u.start \in Int /\ u.end \in Int
  BY <1>2, ResultType
<1>5. PICK p : p = Append(t, u)
  OBVIOUS
<1>6. /\ p \in Seq(Segment) /\ Len(p) = N + 1 /\ p[N + 1] = u
      /\ \A n \in 1 .. N : p[n] = t[n]
  BY <1>1, <1>3, <1>4, <1>5, AppendProperties
<1>7. Spans(u, s, k + 1, k + 1)
  <2>1. \A x \in k + 1 .. k + 1 : x = k + 1
    OBVIOUS
  <2> QED
    BY <1>2, <2>1 DEF Spans, Turn
<1>8. Covers(u, u)
  BY <1>4 DEF Covers
<1>9. k + 1 \in 1 .. k + 1 /\ N + 1 \in 1 .. N + 1
  BY <1>3
<1>10. ASSUME NEW n \in 1 .. N + 1
       PROVE  \E i, j \in 1 .. k + 1 : Spans(p[n], s, i, j)
  <2>1. CASE n = N + 1
    BY <1>6, <1>7, <1>9, <2>1
  <2>2. CASE n # N + 1
    <3>1. n \in 1 .. N
      BY <1>3, <2>2
    <3>2. PICK i \in 1 .. k, j \in 1 .. k : Spans(t[n], s, i, j)
      BY <1>1, <3>1 DEF Keeps
    <3>3. i \in 1 .. k + 1 /\ j \in 1 .. k + 1 /\ p[n] = t[n]
      BY <1>6, <3>1
    <3> QED
      BY <3>2, <3>3
  <2> QED
    BY <2>1, <2>2
<1>11. ASSUME NEW i \in 1 .. k + 1
       PROVE  \E n \in 1 .. N + 1 : Covers(p[n], s[i])
  <2>1. CASE i = k + 1
    BY <1>2, <1>6, <1>8, <1>9, <2>1
  <2>2. CASE i # k + 1
    <3>1. i \in 1 .. k
      BY <2>2
    <3>2. PICK n \in 1 .. N : Covers(t[n], s[i])
      BY <1>1, <3>1 DEF Keeps
    <3>3. n \in 1 .. N + 1 /\ p[n] = t[n]
      BY <1>3, <1>6
    <3> QED
      BY <3>2, <3>3
  <2> QED
    BY <2>1, <2>2
<1>12. p # << >>
  BY <1>3, <1>6, EmptySeq
<1>13. Keeps(s, k + 1, p)
  BY <1>6, <1>7, <1>9, <1>10, <1>11, <1>12 DEF Keeps
<1> QED
  BY <1>2, <1>5, <1>13

LEMMA MergedKeeps ==
  ASSUME ProcessingConstants, NEW s \in Result, NEW k \in Nat, k + 1 \in 1 .. Len(s),
         NEW t, Keeps(s, k, t)
  PROVE  Keeps(s, k + 1, Merged(s[k + 1], t))
<1>1. CASE /\ t # << >> /\ s[k + 1].end - s[k + 1].start < MinSegment
           /\ Last(t).tag = s[k + 1].tag
  <2>1. Last(t) = t[Len(t)]
    BY DEF Last
  <2>2. Merged(s[k + 1], t) = [t EXCEPT ![Len(t)].end = s[k + 1].end]
    BY <1>1 DEF Merged
  <2>3. t[Len(t)].tag = s[k + 1].tag
    BY <1>1, <2>1
  <2>4. Keeps(s, k + 1, [t EXCEPT ![Len(t)].end = s[k + 1].end])
    BY <1>1, <2>3, FragmentKeeps
  <2> QED
    BY <2>2, <2>4
<1>2. CASE ~ /\ t # << >> /\ s[k + 1].end - s[k + 1].start < MinSegment
             /\ Last(t).tag = s[k + 1].tag
  <2>1. Merged(s[k + 1], t) = Append(t, s[k + 1])
    BY <1>2 DEF Merged
  <2> QED
    BY <2>1, UtteranceKeeps
<1> QED
  BY <1>1, <1>2

\* So the whole of what a supplier heard is kept.
LEMMA MergeKeeps ==
  ASSUME ProcessingConstants, NEW s \in Result
  PROVE  Keeps(s, Len(s), MergeMicroSegments(s))
<1>1. PICK N : N = Len(s)
  OBVIOUS
<1>2. N \in Nat /\ DOMAIN s = 1 .. N
  BY <1>1, ResultType
<1>3. PICK f : f = CHOOSE g : Folds(g, s, N)
  OBVIOUS
<1>4. Folds(f, s, N)
  BY <1>2, <1>3, SomeFold, Zenon
<1>5. MergeMicroSegments(s) = f[1 .. N]
  BY <1>2, <1>3, FoldDef
<1>6. \A S \in SUBSET (1 .. N) :
        f[S] = IF S = {} THEN << >> ELSE Merged(s[Max(S)], f[S \ {Max(S)}])
  <2>1. f = [S \in SUBSET (1 .. N) |->
               IF S = {} THEN << >> ELSE Merged(s[Max(S)], f[S \ {Max(S)}])]
    BY <1>4 DEF Folds
  <2> QED
    BY <2>1, Zenon
<1>7. Keeps(s, 0, f[1 .. 0])
  <2>1. f[1 .. 0] = << >>
    <3>1. 1 .. 0 = {} /\ 1 .. 0 \in SUBSET (1 .. N)
      OBVIOUS
    <3> QED
      BY <1>6, <3>1, Zenon
  <2>2. Keeps(s, 0, << >>)
    <3>1. << >> \in Seq(Segment) /\ Len(<< >>) = 0
      OBVIOUS
    <3>2. 1 .. 0 = {}
      OBVIOUS
    <3> QED
      BY <3>1, <3>2 DEF Keeps
  <2> QED
    BY <2>1, <2>2
<1>8. ASSUME NEW k \in Nat, k + 1 <= N, Keeps(s, k, f[1 .. k])
      PROVE  Keeps(s, k + 1, f[1 .. k + 1])
  <2>1. PICK S : S = 1 .. k + 1
    OBVIOUS
  <2>2. S \in SUBSET (1 .. N) /\ k + 1 \in S /\ S # {} /\ k + 1 \in 1 .. N
    BY <1>2, <1>8, <2>1
  <2>3. Max(S) = k + 1
    BY <2>1, <2>2, GreatestOf
  <2>4. S \ {k + 1} = 1 .. k
    BY <2>1
  <2>5. f[S] = Merged(s[Max(S)], f[S \ {Max(S)}])
    BY <1>6, <2>2
  <2>6. f[S] = Merged(s[k + 1], f[1 .. k])
    BY <2>3, <2>4, <2>5
  <2>7. Keeps(s, k + 1, Merged(s[k + 1], f[1 .. k]))
    BY <1>1, <1>8, <2>2, MergedKeeps
  <2> QED
    BY <2>1, <2>6, <2>7
<1> DEFINE X == {k \in Nat : k <= N /\ ~ Keeps(s, k, f[1 .. k])}
<1>9. X = {}
  <2> SUFFICES ASSUME X # {} PROVE FALSE
    OBVIOUS
  <2>1. PICK n \in X : \A m \in X : m >= n
    BY LeastOf
  <2>2. n \in Nat /\ n <= N /\ ~ Keeps(s, n, f[1 .. n])
    OBVIOUS
  <2>3. n # 0
    BY <1>7, <2>2
  <2>4. PICK k \in Nat : n = k + 1
    <3>1. n - 1 \in Nat /\ n = (n - 1) + 1
      BY <2>2, <2>3
    <3> QED
      BY <3>1
  <2>5. k \notin X
    <3> HIDE DEF X
    <3> QED
      BY <2>1, <2>4
  <2>6. k <= N /\ k + 1 <= N
    BY <1>2, <2>2, <2>4
  <2>7. Keeps(s, k, f[1 .. k])
    BY <2>5, <2>6
  <2> QED
    BY <1>8, <2>2, <2>4, <2>6, <2>7
<1>10. Keeps(s, N, f[1 .. N])
  BY <1>2, <1>9
<1> QED
  BY <1>1, <1>5, <1>10

-----------------------------------------------------------------------------
(* Citations.                                                              *)

\* What is in the tables keeps all that was heard, and what is published
\* points into it.
Kept ==
  /\ heard = << >> \/ heard \in Result
  /\ Keeps(heard, Len(heard), transcript)
  /\ At("published") => \A moment \in report : Sourced(moment)

LEMMA InitKept ==
  ASSUME Init
  PROVE  Kept
<1>1. heard = << >> /\ transcript = << >> /\ ~ At("published")
  BY DEF Init, At
<1>2. Len(<< >>) = 0 /\ << >> \in Seq(Segment) /\ 1 .. 0 = {}
  OBVIOUS
<1>3. Keeps(heard, Len(heard), transcript)
  BY <1>1, <1>2 DEF Keeps
<1> QED
  BY <1>1, <1>3 DEF Kept

LEMMA AnswerKept ==
  ASSUME ProcessingConstants, Inv, NEW s \in Result, SupplierAnswers(s)
  PROVE  Kept'
<1>1. heard' = s /\ transcript' = MergeMicroSegments(s) /\ ~ At("published")'
  <2>1. PICK t \in Task : t = task
    BY DEF Inv, Typed
  <2> QED
    BY <2>1 DEF SupplierAnswers, At, Task
<1>2. Keeps(s, Len(s), MergeMicroSegments(s))
  BY MergeKeeps
<1>3. Keeps(heard', Len(heard'), transcript')
  BY <1>1, <1>2
<1> QED
  BY <1>1, <1>3 DEF Kept

LEMMA PublishedKept ==
  ASSUME Kept, NEW sources, Published(sources)
  PROVE  Kept'
<1>1. /\ heard' = heard /\ transcript' = transcript /\ report' = sources
      /\ \A moment \in sources : Sourced(moment)
  BY DEF Published
<1>2. \A moment \in report' : Sourced(moment)'
  BY <1>1 DEF Sourced
<1> QED
  BY <1>1, <1>2 DEF Kept

\* A step that neither hears nor publishes.
Aside ==
  \/ TakeTranscribe \/ AudioRefused \/ NoAnswer \/ SupplierRefuses \/ NobodyLeft
  \/ TranscriptionRaises \/ AnswerLost \/ Dispatch
  \/ TakeAnalyse \/ ModelFails \/ ModelRefuses \/ NoValidReport \/ AnalysisRaises
  \/ (\E sources \in Pointing : Unsourced(sources))
  \/ Retry

LEMMA AsideKept ==
  ASSUME ProcessingConstants, Inv, Kept, Aside
  PROVE  Kept'
<1>1. UNCHANGED << heard, transcript >>
  BY DEF Aside, TakeTranscribe, AudioRefused, NoAnswer, SupplierRefuses, NobodyLeft,
     TranscriptionRaises, AnswerLost, Dispatch,
     TakeAnalyse, ModelFails, ModelRefuses, NoValidReport, AnalysisRaises, Unsourced, Retry
<1>2. PICK t \in Task : t = task
  BY DEF Inv, Typed
<1>3. ~ At("published")'
  <2>1. CASE TakeTranscribe \/ AudioRefused \/ TakeAnalyse \/ ModelRefuses \/ NoValidReport
             \/ Retry
    <3>1. CASE TakeTranscribe
      BY <1>2, <3>1 DEF TakeTranscribe, At, Task
    <3>2. CASE AudioRefused \/ TakeAnalyse \/ ModelRefuses \/ NoValidReport
      BY <1>2, <3>2 DEF AudioRefused, TakeAnalyse, ModelRefuses, NoValidReport, At, Task
    <3>3. CASE Retry
      BY <1>2, <3>3 DEF Retry, At, Task
    <3> QED
      BY <2>1, <3>1, <3>2, <3>3
  <2>2. CASE NoAnswer \/ ModelFails \/ \E sources \in Pointing : Unsourced(sources)
    BY <2>2 DEF NoAnswer, Asking, ModelFails, Unsourced, Trying, At
  <2>3. ASSUME NEW from \in {"queued", "dispatch", "analysing"},
               NEW what \in Raised, Raises(from, what)
        PROVE  ~ At("published")'
    <3>1. from \in Step
      BY DEF Step
    <3>2. task'.step \in {from, "stranded"}
      BY <2>3, <3>1, GivenUp
    <3> QED
      BY <3>2 DEF At
  <2>4. CASE SupplierRefuses \/ NobodyLeft \/ TranscriptionRaises \/ AnswerLost
             \/ AnalysisRaises
    BY <2>3, <2>4 DEF SupplierRefuses, NobodyLeft, TranscriptionRaises, AnswerLost,
       AnalysisRaises, Raised
  <2>5. CASE Dispatch
    <3>1. CASE task' = [task EXCEPT !.step = "analysing", !.tries = 0, !.raised = "nothing"]
      BY <1>2, <3>1 DEF At, Task
    <3>2. CASE Raises("dispatch", "other")
      BY <2>3, <3>2 DEF Raised
    <3> QED
      BY <2>5, <3>1, <3>2 DEF Dispatch
  <2> QED
    BY <2>1, <2>2, <2>4, <2>5 DEF Aside
<1> QED
  BY <1>1, <1>3 DEF Kept

\* A moment that is in a segment, give or take a second, is in a turn.
LEMMA KeptCites ==
  ASSUME ProcessingConstants, Kept
  PROVE  CitesWhatWasHeard
<1>1. PICK N : N = Len(heard)
  OBVIOUS
<1>2. DOMAIN heard = 1 .. N /\ transcript \in Seq(Segment)
  <2>1. CASE heard = << >>
    BY <1>1, <2>1 DEF Kept, Keeps
  <2>2. CASE heard \in Result
    BY <1>1, <2>2, ResultType DEF Kept, Keeps
  <2> QED
    BY <2>1, <2>2 DEF Kept
<1>3. DOMAIN transcript = 1 .. Len(transcript)
  BY <1>2, LenProperties
<1>4. ASSUME NEW moment, Sourced(moment)
      PROVE  \E i, j \in DOMAIN heard :
               /\ OneTurn(i, j)
               /\ heard[i].start - Tolerance <= moment /\ moment <= heard[j].end + Tolerance
  <2>1. PICK n \in DOMAIN transcript :
          /\ transcript[n].start - Tolerance <= moment
          /\ moment <= transcript[n].end + Tolerance
    BY <1>4 DEF Sourced
  <2>2. PICK i \in 1 .. N, j \in 1 .. N : Spans(transcript[n], heard, i, j)
    BY <1>1, <1>3, <2>1 DEF Kept, Keeps
  <2>3. OneTurn(i, j) /\ heard[i].start = transcript[n].start /\ heard[j].end = transcript[n].end
    BY <2>2 DEF Spans, Turn, OneTurn
  <2>4. /\ OneTurn(i, j)
        /\ heard[i].start - Tolerance <= moment /\ moment <= heard[j].end + Tolerance
    BY <2>1, <2>3
  <2> QED
    BY <1>2, <2>2, <2>4
<1>5. ASSUME NEW i \in DOMAIN heard
      PROVE  \E n \in DOMAIN transcript : Covers(transcript[n], heard[i])
  BY <1>1, <1>2, <1>3, <1>5 DEF Kept, Keeps
<1> QED
  BY <1>4, <1>5 DEF Kept, CitesWhatWasHeard, Covers

LEMMA KeptKeeps ==
  ASSUME Inv, Kept, [Next]_vars
  PROVE  Kept'
<1>1. CASE UNCHANGED vars
  BY <1>1 DEF vars, Kept, At, Sourced
<1>2. CASE Aside
  BY <1>2, ProcessingConstants, AsideKept
<1>3. CASE \E s \in Result : SupplierAnswers(s)
  BY <1>3, ProcessingConstants, AnswerKept
<1>4. CASE \E sources \in Pointing : Published(sources)
  BY <1>4, PublishedKept
<1> QED
  BY <1>1, <1>2, <1>3, <1>4 DEF Next, Aside

\* Whatever the suppliers hear, in whatever order and with whatever fragments,
\* and whatever the model answers over any number of attempts, the items of a
\* published report point into the turn of somebody who spoke, and nothing that
\* was heard is out of their reach.
THEOREM Citations == Spec => []CitesWhatWasHeard
<1>1. Init => Inv /\ Kept
  BY InitInv, InitKept, ProcessingConstants
<1>2. Inv /\ Kept /\ [Next]_vars => Inv' /\ Kept'
  BY InvKeeps, KeptKeeps
<1>3. Inv /\ Kept => CitesWhatWasHeard
  BY ProcessingConstants, KeptCites
<1> QED
  BY <1>1, <1>2, <1>3, PTL DEF Spec
=============================================================================
