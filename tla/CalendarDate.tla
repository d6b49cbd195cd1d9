----------------------------- MODULE CalendarDate -----------------------------
(***************************************************************************)
(* Days since 1970 as dates (core/src/date.rs), and the heat map of when   *)
(* rules fired (core/src/analyze/heat.rs).  The formulas are those of the  *)
(* code; the calendar they are held against knows only how long a month    *)
(* is and which year is a leap year.                                       *)
(***************************************************************************)
EXTENDS Selections, FiniteSetsExt

DaysPer400Y == 146097
DaysPer100Y == 36524
DaysPer4Y == 1461
DaysPerYear == 365
EpochOffset == 719468       \* RATA_DIE_EPOCH_OFFSET

\* Mutation of YearOfEra: a century year is no exception.
YearOfEraJulian(z) == (z - z \div (DaysPer4Y - 1)) \div DaysPerYear

\* The year that a day of an era of 400 years falls in: leap days of four years,
\* of centuries and of the era are taken off.
YearOfEra(z) ==
    ((z - z \div (DaysPer4Y - 1)) + z \div DaysPer100Y - z \div (DaysPer400Y - 1))
        \div DaysPerYear

\* unix_secs_to_ymd, of a day: years start in March, months follow from a line.
Ymd(days) ==
    LET z == days + EpochOffset
        era == z \div DaysPer400Y
        day == z % DaysPer400Y
        yoe == YearOfEra(day)
        doy == day - ((DaysPerYear * yoe + yoe \div 4) - yoe \div 100)
        mp == (5 * doy + 2) \div 153
        m == IF mp < 10 THEN mp + 3 ELSE mp - 9
    IN [year |-> yoe + era * 400 + (IF m <= 2 THEN 1 ELSE 0),
        month |-> m,
        day |-> (doy - (153 * mp + 2) \div 5) + 1]

\* day_hour: 1970 began on a Thursday; Monday is 0.
Weekday(days) == (days + 3) % 7

-----------------------------------------------------------------------------
(* A heat map: how many firings at each <<weekday, hour>>                  *)

NoHeat == [cell \in {} |-> 0]
HeatAt(heat, cell) == IF cell \in DOMAIN heat THEN heat[cell] ELSE 0
RecordFiring(heat, days, hour) ==
    LET cell == <<Weekday(days), hour>>
    IN [c \in DOMAIN heat \cup {cell} |-> IF c = cell THEN HeatAt(heat, cell) + 1 ELSE heat[c]]
MaxCell(heat) == Max({heat[cell] : cell \in DOMAIN heat} \cup {0})

\* How dark a cell is drawn, of the levels 0..4.
Intensity(heat, cell) == (HeatAt(heat, cell) * 4) \div Max({1, MaxCell(heat)})

\* render: the counts of the cells that are drawn, Monday's hours first.
Grid(heat) == [k \in 1..7 * 24 |-> HeatAt(heat, <<(k - 1) \div 24, (k - 1) % 24>>)]

-----------------------------------------------------------------------------
(* Properties *)

IsLeap(year) == year % 4 = 0 /\ (year % 100 # 0 \/ year % 400 = 0)
MonthDays(year, month) ==
    CASE month \in {4, 6, 9, 11} -> 30
      [] month = 2 -> IF IsLeap(year) THEN 29 ELSE 28
      [] OTHER -> 31

\* The date after another one.
NextDate(date) ==
    CASE date.day < MonthDays(date.year, date.month) -> [date EXCEPT !.day = @ + 1]
      [] date.day >= MonthDays(date.year, date.month) /\ date.month < 12 ->
            [year |-> date.year, month |-> date.month + 1, day |-> 1]
      [] OTHER -> [year |-> date.year + 1, month |-> 1, day |-> 1]

\* unix_secs_to_ymd: one day later is the next day of the calendar, over the
\* ends of months, leap days, centuries and eras.
DatesFollowTheCalendar(days) == Ymd(days + 1) = NextDate(Ymd(days))

\* HeatMap: every firing is in one of the cells that are drawn, and only a cell
\* that has the most is drawn darkest.
HeatAddsUp(heat, firings) ==
    /\ Summed(Grid(heat)) = firings
    /\ \A cell \in DOMAIN heat :
          /\ Intensity(heat, cell) <= 4
          /\ Intensity(heat, cell) = 4 => heat[cell] = MaxCell(heat)

=============================================================================
