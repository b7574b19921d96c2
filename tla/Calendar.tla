------------------------------ MODULE Calendar -------------------------------
(***************************************************************************)
(* Days, instants and plans: the calendar and ISO-8601 texts of            *)
(* time_utils.cpp, and the plans of the job service (jobsvc.cpp), which    *)
(* say when a job is next due.  Days, months and years are real; a day has *)
(* three hours of two minutes of two seconds of four parts, so that        *)
(* instants keep within TLC's integers, and a fraction of a second has two *)
(* binary digits.  The local time is at a fixed distance from UTC.         *)
(***************************************************************************)
EXTENDS Integers, Sequences, SequencesExt, FiniteSets, FiniteSetsExt

CONSTANTS
  MaxShift,    \* bound on the months a day is shifted by
  ScanDays     \* cron_next_after(): 366, the days it looks ahead

ASSUME CalendarAssumption == MaxShift \in Nat /\ ScanDays \in Nat \ {0}

VARIABLES
  almanac,   \* "month", "write", "read" or "plan"
  leaf,      \* what it is asked
  entry      \* <<>>, or <<its answer>>

calendarVars == <<almanac, leaf, entry>>

-----------------------------------------------------------------------------
(* Days, counted from the first of January 1970. *)

\* Division and remainder of C++, towards zero.
Quotient(a, b)  == IF a >= 0 THEN a \div b ELSE -((-a) \div b)
Remainder(a, b) == a - b * Quotient(a, b)

IsLeapYear(y) == (y % 4 = 0 /\ y % 100 # 0) \/ y % 400 = 0
DaysInMonth(y, m) ==
  IF m \notin 1..12 THEN 0
  ELSE IF m = 2 /\ IsLeapYear(y) THEN 29
  ELSE <<31, 28, 31, 30, 31, 30, 31, 31, 30, 31, 30, 31>>[m]

DaysOfDate(y0, m, d) ==       \* days_from_civil_impl()
  LET y   == IF m <= 2 THEN y0 - 1 ELSE y0
      era == Quotient(IF y >= 0 THEN y ELSE y - 399, 400)
      yoe == y - era * 400
      doy == (153 * (IF m > 2 THEN m - 3 ELSE m + 9) + 2) \div 5 + d - 1
      doe == yoe * 365 + yoe \div 4 - yoe \div 100 + doy
  IN era * 146097 + doe - 719468

DaysFromCivil(y, m, d) == IF d \in 1..DaysInMonth(y, m) THEN DaysOfDate(y, m, d) ELSE -1

DateOfDoe(era, doe) ==
  LET yoe == (doe - doe \div 1460 + doe \div 36524 - doe \div 146096) \div 365
      doy == doe - (365 * yoe + yoe \div 4 - yoe \div 100)
      mp  == (5 * doy + 2) \div 153
      m   == IF mp < 10 THEN mp + 3 ELSE mp - 9
  IN [year |-> yoe + era * 400 + (IF m <= 2 THEN 1 ELSE 0), month |-> m,
      day |-> doy - (153 * mp + 2) \div 5 + 1]

\* Mutant: the era of a negative day is rounded towards zero.
CivilFromDaysTruncated(days) ==
  LET z == days + 719468  era == Quotient(z, 146097) IN DateOfDoe(era, z - era * 146097)

CivilFromDays(days) ==
  LET z == days + 719468
      era == Quotient(IF z >= 0 THEN z ELSE z - 146096, 146097)
  IN DateOfDoe(era, z - era * 146097)

WeekdayOf(days) == Remainder(Remainder(days, 7) + 7 + 4, 7)
NextWeekday(days, weekday) ==
  LET delta == weekday - WeekdayOf(days) IN days + (IF delta <= 0 THEN delta + 7 ELSE delta)
MonthStart(days) == days - (CivilFromDays(days).day - 1)
MonthEnd(days) ==
  LET c == CivilFromDays(days) IN days + (DaysInMonth(c.year, c.month) - c.day)
AddMonths(days, months) ==
  LET c  == CivilFromDays(days)
      moved == c.year * 12 + (c.month - 1) + months
      ny == Quotient(IF moved >= 0 THEN moved ELSE moved - 11, 12)
      nm == moved - ny * 12 + 1
  IN DaysOfDate(ny, nm, Min({c.day, DaysInMonth(ny, nm)}))

\* The reference: years and months laid end to end.
YearBegins(y) ==
  IF y >= 1970 THEN 365 * (y - 1970) + Cardinality({k \in 1970..y - 1 : IsLeapYear(k)})
  ELSE 365 * (y - 1970) - Cardinality({k \in y..1969 : IsLeapYear(k)})
MonthBegins(y, m) ==
  YearBegins(y) + FoldLeft(LAMBDA n, k : n + DaysInMonth(y, k), 0, [k \in 1..m - 1 |-> k])

YearsTurned == {-400, -1, 0, 1, 1600, 1899, 1900, 1969, 1970, 1999, 2000, 2024, 2100, 2399, 2400}

TurnPage ==
  /\ almanac = "month" /\ entry = <<>>
  /\ LET first == DaysFromCivil(leaf.year, leaf.month, 1)
         days == first..first + 27 \cup {MonthEnd(first)} IN
     entry' = <<[date |-> [n \in days |-> CivilFromDays(n)],
                 next |-> [n \in days |-> [w \in 0..6 |-> NextWeekday(n, w)]],
                 shifted |-> [n \in days |-> [s \in -MaxShift..MaxShift |-> AddMonths(n, s)]],
                 starts |-> {MonthStart(n) : n \in days}, ends |-> {MonthEnd(n) : n \in days}]>>
  /\ UNCHANGED <<almanac, leaf>>

\* Every day has its date and its weekday, in every era; a month begins and ends
\* where the ones before it add up to; the next of a weekday is the first after; and
\* a day shifted by months keeps its number unless the month is too short.
DaysInv ==
  almanac = "month" /\ entry # <<>> =>
    LET r == entry[1]  y == leaf.year  m == leaf.month
        begins == MonthBegins(y, m)  length == DaysInMonth(y, m) IN
    /\ DOMAIN r.date = begins..begins + 27 \cup {begins + length - 1}
    /\ r.starts = {begins} /\ r.ends = {begins + length - 1}
    /\ \A n \in DOMAIN r.date :
         /\ r.date[n] = [year |-> y, month |-> m, day |-> n - begins + 1]
         /\ DaysFromCivil(y, m, n - begins + 1) = n
         /\ WeekdayOf(n) = (4 + n) % 7
         /\ \A w \in 0..6 : r.next[n][w] \in n + 1..n + 7 /\ (4 + r.next[n][w]) % 7 = w
         /\ \A s \in DOMAIN r.shifted[n] :
              LET c == CivilFromDays(r.shifted[n][s]) IN
              /\ c.year * 12 + c.month = y * 12 + m + s
              /\ c.day = Min({n - begins + 1, DaysInMonth(c.year, c.month)})

-----------------------------------------------------------------------------
(* Instants, in parts of a second, and the texts that say them: a text is    *)
(* its date, its hour, minute and perhaps second, the digits of a fraction   *)
(* and a zone.                                                               *)

OneSecond == 4
OneMinute == 2 * OneSecond
OneHour   == 2 * OneMinute
OneDay    == 3 * OneHour

\* Mutant: days and rest of an instant before 1970 as C++ divides them.
FieldsTruncated(parts) == [days |-> Quotient(parts, OneDay), rest |-> Remainder(parts, OneDay)]

FieldsOf(parts) ==
  LET rest == Remainder(parts, OneDay)  days == Quotient(parts, OneDay) IN
  IF rest < 0 THEN [days |-> days - 1, rest |-> rest + OneDay] ELSE [days |-> days, rest |-> rest]

\* format_iso8601(); east is the local time's distance from UTC.  The code takes it
\* with the other sign (local_offset_seconds: t - as_utc), for the clock it prints
\* as for the zone.
FormatIso(parts, utc, fraction, east) ==
  LET off == IF utc THEN 0 ELSE -east
      f == FieldsOf(parts + off)  date == CivilFromDays(f.days) IN
  [date |-> date, clock |-> <<f.rest \div OneHour, (f.rest % OneHour) \div OneMinute,
                              (f.rest % OneMinute) \div OneSecond>>,
   digits |-> IF fraction THEN <<(f.rest % OneSecond) \div 2, f.rest % 2>> ELSE <<>>,
   zone |-> IF utc THEN [form |-> "utc"]
            ELSE LET a == IF off < 0 THEN -off ELSE off IN
                 [form |-> "offset", west |-> off < 0, hours |-> a \div OneHour,
                  minutes |-> (a % OneHour) \div OneMinute]]

Unread == [ok |-> FALSE, parts |-> 0]
ZoneParts(zone) ==
  CASE zone.form \in {"utc", "none"} -> 0
    [] zone.form = "offset" -> (IF zone.west THEN -1 ELSE 1)
                               * (zone.hours * OneHour + zone.minutes * OneMinute)
FractionOf(digits) ==     \* the first two, zeros for those that are missing
  LET digit(i) == IF i <= Len(digits) THEN digits[i] ELSE 0 IN 2 * digit(1) + digit(2)

\* parse_iso8601(): a year has four digits; the second may be left out, and may be
\* the one that is leapt.
ParseIso(t) ==
  LET second == IF Len(t.clock) = 3 THEN t.clock[3] ELSE 0 IN
  IF \/ t.date.year \notin 0..9999 \/ t.date.month \notin 1..12
     \/ t.date.day \notin 1..DaysInMonth(t.date.year, t.date.month)
     \/ t.clock[1] > 2 \/ t.clock[2] > 1 \/ second > 2
     \/ t.zone.form = "junk" \/ (t.zone.form = "offset" /\ (t.zone.hours > 2 \/ t.zone.minutes > 1))
    THEN Unread
  ELSE [ok |-> TRUE,
        parts |-> DaysFromCivil(t.date.year, t.date.month, t.date.day) * OneDay
                  + t.clock[1] * OneHour + t.clock[2] * OneMinute + second * OneSecond
                  - ZoneParts(t.zone) + FractionOf(t.digits)]

Easts == {-2 * OneHour, -OneMinute, 0, OneHour + OneMinute}
Instants ==
  {d * OneDay + r : d \in {-719529, -719528, -11017, -1, 0, 59, 11016, 2932896},
                    r \in {0, 1, 4, 23, OneDay - 1}}
Zones == {[form |-> "utc"], [form |-> "none"], [form |-> "junk"]}
         \cup [form: {"offset"}, west: BOOLEAN, hours: 0..3, minutes: 0..2]
DatesRead == [year: {0, 1900, 2000, 9999}, month: {0, 2, 12, 13}, day: {0, 1, 28, 29, 30}]
TextsRead ==
  [date: DatesRead, clock: {<<2, 1, 1>>}, digits: {<<>>}, zone: {[form |-> "utc"]}]
  \cup [date: {[year |-> 2000, month |-> 2, day |-> 29]}, zone: Zones,
        clock: ((0..3) \X (0..2)) \cup ((0..3) \X (0..2) \X (0..3)),
        digits: {<<>>, <<1>>, <<0, 1>>, <<1, 0, 1>>}]

WriteInstant ==
  /\ almanac = "write" /\ entry = <<>>
  /\ LET t == FormatIso(leaf.parts, leaf.utc, leaf.fraction, leaf.east) IN
     entry' = <<[text |-> t, again |-> ParseIso(t)]>>
  /\ UNCHANGED <<almanac, leaf>>

ReadInstant ==
  /\ almanac = "read" /\ entry = <<>>
  /\ entry' = <<ParseIso(leaf)>>
  /\ UNCHANGED <<almanac, leaf>>

\* An instant is read again from its text, to the second where it has no fraction,
\* if its year has four digits, though the local clock goes the wrong way; and what
\* is read is the time of that day, whatever is left out, and none but real dates.
InstantsInv ==
  /\ almanac = "write" /\ entry # <<>> =>
       LET t == entry[1].text  again == entry[1].again
           shown == leaf.parts + (IF leaf.utc THEN 0 ELSE -leaf.east) IN
       /\ again.ok = (/\ shown >= YearBegins(0) * OneDay
                      /\ shown < YearBegins(10000) * OneDay)
       /\ again.ok =>
            again.parts = IF leaf.fraction THEN leaf.parts
                          ELSE leaf.parts - (leaf.parts % OneSecond)
       /\ t.clock \in (0..2) \X (0..1) \X (0..1)
  /\ almanac = "read" /\ entry # <<>> =>
       LET r == entry[1]  d == leaf.date
           real == d.month \in 1..12 /\ d.day \in 1..DaysInMonth(d.year, d.month) IN
       /\ r.ok => real
       /\ r.ok => LET begins == (MonthBegins(d.year, d.month) + d.day - 1) * OneDay
                                - ZoneParts(leaf.zone) IN
                  r.parts \in begins..begins + OneDay + OneSecond - 1
       /\ real /\ leaf.zone.form \in {"utc", "none"} /\ leaf.clock[1] < 3 /\ leaf.clock[2] < 2 =>
            r.ok \/ (Len(leaf.clock) = 3 /\ leaf.clock[3] = 3)

-----------------------------------------------------------------------------
(* Plans.  The smallest time a plan knows is the minute; its numbers have    *)
(* LargestNumber for a bound, as the code's have 2^31 - 1.                    *)

LargestNumber == 100

\* A field is its items; an item goes from first to last, or is "*", in steps.
ItemValues(item, lo, hi) ==
  LET first == IF item.all THEN lo ELSE item.first  until == IF item.all THEN hi ELSE item.last IN
  IF item.step <= 0 \/ first < lo \/ until > hi \/ first > until THEN {}
  ELSE {v \in first..until : (v - first) % item.step = 0}
FieldValues(field, lo, hi) ==      \* parse_cron_field(): {} if it fails
  IF \E i \in DOMAIN field : ItemValues(field[i], lo, hi) = {} THEN {}
  ELSE UNION {ItemValues(field[i], lo, hi) : i \in DOMAIN field}

EveryItem  == [all |-> TRUE, first |-> 0, last |-> 0, step |-> 1]
EveryField == <<EveryItem>>
CronSpec(c) ==
  [minutes |-> FieldValues(c.minute, 0, 1), hours |-> FieldValues(c.hour, 0, 2),
   doms |-> FieldValues(c.dom, 1, 31), months |-> FieldValues(c.month, 1, 12),
   dows |-> FieldValues(c.dow, 0, 6),
   dom_restricted |-> c.dom # EveryField, dow_restricted |-> c.dow # EveryField]
CronParses(c) ==
  LET spec == CronSpec(c) IN
  {} \notin {spec.minutes, spec.hours, spec.doms, spec.months, spec.dows}

\* Mutant: a day must be both when both are restricted.
CronDayMatchesBoth(spec, days) ==
  CivilFromDays(days).day \in spec.doms /\ WeekdayOf(days) \in spec.dows

CronDayMatches(spec, days) ==
  LET dom_ok == CivilFromDays(days).day \in spec.doms  dow_ok == WeekdayOf(days) \in spec.dows IN
  IF spec.dom_restricted /\ spec.dow_restricted THEN dom_ok \/ dow_ok ELSE dom_ok /\ dow_ok

CronMatches(spec, t) ==
  LET f == FieldsOf(t) IN
  /\ CivilFromDays(f.days).month \in spec.months
  /\ f.rest \div OneHour \in spec.hours
  /\ (f.rest % OneHour) \div OneMinute \in spec.minutes
  /\ CronDayMatches(spec, f.days)

\* cron_next_after(): minute by minute from the next on, 0 if there is none.
CronNextAfter(spec, from) ==
  LET begin == from - (from % OneMinute) + OneMinute
      turns == ScanDays * (OneDay \div OneMinute)
      hits == {i \in 0..turns - 1 : CronMatches(spec, begin + i * OneMinute)}
  IN IF hits = {} THEN 0 ELSE begin + Min(hits) * OneMinute

\* parse_duration_ms(): -1 if it fails.
UnitFactor == [ms |-> 1, s |-> OneSecond, m |-> OneMinute, h |-> OneHour, d |-> OneDay]
DurationOf(amount, unit) ==
  IF amount \in 1..LargestNumber /\ amount * UnitFactor[unit] <= LargestNumber
    THEN amount * UnitFactor[unit] ELSE -1

\* mktime(): what is too much of a day or a month goes over into the next.
MakeTime(at) ==
  LET months == at.year * 12 + at.month - 1 IN
  (DaysOfDate(months \div 12, (months % 12) + 1, 1) + at.day - 1) * OneDay + at.rest

PlanParses(plan) ==
  CASE plan.kind = "every" -> DurationOf(plan.value, plan.unit) > 0
    [] plan.kind = "cron" -> CronParses(plan.cron)
    [] plan.kind = "once" -> MakeTime(plan.at) > 0

ScheduleNext(plan, from) ==
  CASE plan.kind = "every" -> from + DurationOf(plan.value, plan.unit)
    [] plan.kind = "cron" -> CronNextAfter(CronSpec(plan.cron), from)
    [] plan.kind = "once" -> IF MakeTime(plan.at) > from THEN MakeTime(plan.at) ELSE 0

Span(first, until, step) == [all |-> FALSE, first |-> first, last |-> until, step |-> step]
StarEvery(step) == [all |-> TRUE, first |-> 0, last |-> 0, step |-> step]
SomeMinutes == {EveryField, <<Span(1, 1, 1)>>, <<Span(0, 2, 1)>>}
SomeHours   == {EveryField, <<StarEvery(2)>>, <<Span(1, 1, 1), Span(0, 0, 1)>>}
SomeDoms    == {EveryField, <<Span(29, 29, 1)>>, <<Span(30, 31, 1)>>, <<Span(1, 10, 3)>>, <<Span(0, 1, 1)>>}
SomeMonths  == {EveryField, <<Span(2, 2, 1)>>, <<Span(2, 1, 1)>>}
SomeDows    == {EveryField, <<Span(1, 1, 1)>>, <<StarEvery(0)>>}
CronsAsked ==
  [minute: {<<Span(1, 1, 1)>>}, hour: SomeHours, dom: SomeDoms, month: SomeMonths, dow: SomeDows]
  \cup [minute: SomeMinutes, hour: {<<StarEvery(2)>>}, dom: {EveryField}, month: {EveryField},
        dow: SomeDows]
PlansAsked ==
  [kind: {"cron"}, cron: CronsAsked]
  \cup [kind: {"every"}, value: {0, 1, 2, 3, 12, 100, 101}, unit: DOMAIN UnitFactor]
  \cup [kind: {"once"}, at: [year: {1969, 1970, 2001}, month: {1, 2, 13}, day: {1, 31}, rest: {0, 5}]]
Froms == {MonthBegins(1970, 2) * OneDay, MonthBegins(2000, 2) * OneDay + 28 * OneDay + 13,
          MonthBegins(2001, 3) * OneDay - 1}

Plan ==
  /\ almanac = "plan" /\ entry = <<>>
  /\ PlanParses(leaf.plan)
  /\ LET next == ScheduleNext(leaf.plan, leaf.from) IN
     entry' = <<[next |-> next,
                 then |-> IF next = 0 THEN 0 ELSE ScheduleNext(leaf.plan, next)]>>
  /\ UNCHANGED <<almanac, leaf>>

\* What a plan names, after what cron's manual says of its fields: a day is named by
\* its number or its weekday if both are restricted.
NamedBy(field, v, lo) ==
  \E i \in DOMAIN field : \/ field[i].all /\ (v - lo) % field[i].step = 0
                          \/ /\ ~field[i].all /\ field[i].first <= v /\ v <= field[i].last
                             /\ (v - field[i].first) % field[i].step = 0
NamedDay(c, d) ==
  LET date == CivilFromDays(d)
      dom == NamedBy(c.dom, date.day, 1)  dow == NamedBy(c.dow, (4 + d) % 7, 0) IN
  /\ NamedBy(c.month, date.month, 1)
  /\ CASE c.dom = EveryField -> dow [] c.dow = EveryField /\ c.dom # EveryField -> dom
       [] OTHER -> dom \/ dow
\* In a day of three hours of two minutes, the minutes that are named.
NamedMinutes(c) ==
  {h * OneHour + m * OneMinute : h \in {x \in 0..2 : NamedBy(c.hour, x, 0)},
                                 m \in {x \in 0..1 : NamedBy(c.minute, x, 0)}}

\* A plan is next due at the first moment it names, later than now and within the
\* year it looks ahead, and never if there is none; one that repeats comes again
\* after that, and what is due once is not due again.
PlansInv ==
  almanac = "plan" /\ entry # <<>> =>
    LET r == entry[1]  from == leaf.from IN
    /\ r.next = 0 \/ r.next > from
    /\ r.then = 0 \/ r.then > r.next
    /\ leaf.plan.kind = "every" => r.next - from \in 1..LargestNumber /\ r.then - r.next = r.next - from
    /\ leaf.plan.kind = "once" => r.then = 0 /\ (r.next = 0 => MakeTime(leaf.plan.at) <= from)
    /\ leaf.plan.kind = "cron" =>
         LET c == leaf.plan.cron  today == from \div OneDay
             latest == from - (from % OneMinute) + ScanDays * OneDay
             named_times == {d * OneDay + t : d \in {x \in today..today + ScanDays : NamedDay(c, x)},
                                      t \in NamedMinutes(c)}
             after == {t \in named_times : t > from /\ t <= latest}
         IN r.next = IF after = {} THEN 0 ELSE Min(after)

-----------------------------------------------------------------------------
CalendarInit ==
  /\ entry = <<>>
  /\ \/ almanac = "month" /\ leaf \in [year: YearsTurned, month: 1..12]
     \/ almanac = "write" /\ leaf \in [parts: Instants, utc: BOOLEAN, fraction: BOOLEAN, east: Easts]
     \/ almanac = "read" /\ leaf \in TextsRead
     \/ almanac = "plan" /\ leaf \in [plan: PlansAsked, from: Froms]

\* Where another tool is used.
CalendarIdle == almanac = "month" /\ leaf = [year |-> 1970, month |-> 1] /\ entry = <<>>

CalendarNext == TurnPage \/ WriteInstant \/ ReadInstant \/ Plan
CalendarSpec == CalendarInit /\ [][CalendarNext]_calendarVars

CalendarInv == DaysInv /\ InstantsInv /\ PlansInv

=============================================================================
