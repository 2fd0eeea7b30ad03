--------------------------- MODULE CronExpression ---------------------------
(***************************************************************************)
(* One schedule between the widget in which a user chooses it (jquery-cron *)
(* in the Share client), the expression that is stored and the hourly job  *)
(* that evaluates it against java.util.Calendar in the repository.         *)
(*                                                                         *)
(* Minutes are left out: the job runs on the hour and ignores them.  The   *)
(* calendar's sizes are parameters, so that a short year can be checked.   *)
(***************************************************************************)
EXTENDS Naturals, Sequences

CONSTANTS
  HoursPerDay,
  DaysPerWeek,
  MonthLength,  \* a sequence: the days of each month
  MaxDay,       \* the last option of the day select, whatever the month
  Any           \* the "*" of an expression

ASSUME CalendarAssumption ==
  /\ HoursPerDay \in Nat \ {0}
  /\ DaysPerWeek \in Nat \ {0}
  /\ MonthLength \in Seq(Nat \ {0})
  /\ Len(MonthLength) > 0
  /\ MaxDay \in Nat
  /\ \A m \in 1 .. Len(MonthLength) : MonthLength[m] <= MaxDay
  /\ Any \notin Nat

VARIABLES
  widget,   \* what the selects and the check box show
  stored,   \* the entries of the user's array: none, or the one expression
  clock,    \* the hour that is current
  asked     \* history: what the user chose when the entry was stored

cronVars == <<widget, stored, clock, asked>>

Field  == {"hour", "day", "month", "dow"}
Period == {"hour", "day", "week", "month", "year"}

\* The options of each select: hours from 0, days and months from 1, days
\* of the week from 0 for Sunday.
Option == [f \in Field |->
             IF f = "hour" THEN 0 .. HoursPerDay - 1
             ELSE IF f = "day" THEN 1 .. MaxDay
             ELSE IF f = "month" THEN 1 .. Len(MonthLength)
             ELSE 0 .. DaysPerWeek - 1]

\* The selects a period displays, which are the columns that are digits in
\* the expressions of that period.
Pinned == [p \in Period |->
             IF p = "hour" THEN {}
             ELSE IF p = "day" THEN {"hour"}
             ELSE IF p = "week" THEN {"hour", "dow"}
             ELSE IF p = "month" THEN {"hour", "day"}
             ELSE {"hour", "day", "month"}]

Widget == {w \in [period : Period, at : [Field -> Nat], repeat : BOOLEAN] :
             \A f \in Field : w.at[f] \in Option[f]}
Expression == [at : [Field -> Nat \cup {Any}], repeat : BOOLEAN]
Moment == {m \in [Field -> Nat] : \A f \in Field : m[f] \in Option[f]}

\* What a person reading the widget chose, by the names it shows.
Chosen(w) == [f \in Pinned[w.period] |-> w.at[f]]

First == [f \in Field |-> IF f \in {"day", "month"} THEN 1 ELSE 0]
Fresh == [period |-> "hour", at |-> First, repeat |-> FALSE]

-----------------------------------------------------------------------------
(* The widget.                                                             *)

getCurrentValue(w) ==
  [at |-> [f \in Field |-> IF f \in Pinned[w.period] THEN w.at[f] ELSE Any],
   repeat |-> w.repeat]

getCronType(e) == CHOOSE p \in Period : Pinned[p] = {f \in Field : e.at[f] # Any}

\* Forms of "value" that would leave the check box alone, and that would set
\* the selects that are not displayed, too.
valueUnticked(e) ==
  [period |-> getCronType(e),
   at |-> [f \in Field |-> IF f \in Pinned[getCronType(e)] THEN e.at[f] ELSE First[f]],
   repeat |-> FALSE]

valueEverywhere(e) ==
  [period |-> getCronType(e), at |-> e.at, repeat |-> e.repeat]

\* A new widget, then cron("value", e): the selects that the period of e
\* displays are set, the others show their first option.
value(e) ==
  [period |-> getCronType(e),
   at |-> [f \in Field |-> IF f \in Pinned[getCronType(e)] THEN e.at[f] ELSE First[f]],
   repeat |-> e.repeat]

-----------------------------------------------------------------------------
(* The job.                                                                *)

\* java.util.Calendar counts months from 0 and days of the week from 1.
Calendar(m) == [HOUR_OF_DAY |-> m["hour"], DAY_OF_MONTH |-> m["day"],
                MONTH |-> m["month"] - 1, DAY_OF_WEEK |-> m["dow"] + 1]

equalsOrUnevirsal(current, val) == val = current \/ val = Any

\* A form that would compare the day of the week without the correction.
isSatisfiedByRaw(cal, e) ==
  /\ equalsOrUnevirsal(cal.HOUR_OF_DAY, e.at["hour"])
  /\ equalsOrUnevirsal(cal.DAY_OF_MONTH, e.at["day"])
  /\ equalsOrUnevirsal(cal.MONTH, e.at["month"])
  /\ equalsOrUnevirsal(cal.DAY_OF_WEEK, e.at["dow"])

isSatisfiedBy(cal, e) ==
  /\ equalsOrUnevirsal(cal.HOUR_OF_DAY, e.at["hour"])
  /\ equalsOrUnevirsal(cal.DAY_OF_MONTH, e.at["day"])
  /\ equalsOrUnevirsal(cal.MONTH, e.at["month"])
  /\ equalsOrUnevirsal(cal.DAY_OF_WEEK - 1, e.at["dow"])

-----------------------------------------------------------------------------
CronInit ==
  /\ widget = Fresh
  /\ stored = {}
  /\ clock = First
  /\ asked = Chosen(Fresh)

\* The user picks a period, picks an option of a displayed select or ticks
\* the box.
ChoosePeriod(p) ==
  /\ widget' = [widget EXCEPT !.period = p]
  /\ UNCHANGED <<stored, clock, asked>>

Choose(f, v) ==
  /\ f \in Pinned[widget.period]
  /\ widget' = [widget EXCEPT !.at[f] = v]
  /\ UNCHANGED <<stored, clock, asked>>

changeRepeater ==
  /\ widget' = [widget EXCEPT !.repeat = ~@]
  /\ UNCHANGED <<stored, clock, asked>>

\* The entry is stored, or its edited form is saved.
Store ==
  /\ stored' = {getCurrentValue(widget)}
  /\ asked' = Chosen(widget)
  /\ UNCHANGED <<widget, clock>>

\* The page of schedules is opened.
Reload ==
  /\ \E e \in stored : widget' = value(e)
  /\ UNCHANGED <<stored, clock, asked>>

\* The next hour of the calendar, after which another year begins.
NextHour(m) ==
  LET midnight == m["hour"] = HoursPerDay - 1
      newMonth == midnight /\ m["day"] = MonthLength[m["month"]]
  IN [m EXCEPT !["hour"]  = (@ + 1) % HoursPerDay,
               !["dow"]   = IF midnight THEN (@ + 1) % DaysPerWeek ELSE @,
               !["day"]   = IF newMonth THEN 1 ELSE IF midnight THEN @ + 1 ELSE @,
               !["month"] = IF newMonth THEN (@ % Len(MonthLength)) + 1 ELSE @]

DueAt(m) == {e \in stored : isSatisfiedBy(Calendar(m), e)}

\* The hour strikes and the job takes its pass over the array.
HourStrikes ==
  /\ clock' = NextHour(clock)
  /\ stored' = {e \in stored : e.repeat \/ e \notin DueAt(clock')}
  /\ UNCHANGED <<widget, asked>>

CronNext ==
  \/ \E p \in Period : ChoosePeriod(p)
  \/ \E f \in Field : \E v \in Option[f] : Choose(f, v)
  \/ changeRepeater
  \/ Store
  \/ Reload
  \/ HourStrikes

CronSpec == CronInit /\ [][CronNext]_cronVars

-----------------------------------------------------------------------------
(* Properties.                                                             *)

CronTypeOK ==
  /\ widget \in Widget
  /\ stored \subseteq Expression
  /\ \A d, e \in stored : d = e
  /\ clock \in Moment
  /\ clock["day"] <= MonthLength[clock["month"]]
  /\ \E D \in SUBSET Field : asked \in [D -> Nat]

\* The hour m is one the user asked for.
Asked(m) == \A f \in DOMAIN asked : m[f] = asked[f]

Yearly(e) == getCronType(e) = "year"

\* In every hour the job starts the entry exactly when the user who chose its
\* period, day and hour expects it, unless it is a yearly one: what the
\* widget writes is what the job reads.
StartsWhenChosen ==
  [][\A e \in stored : ~Yearly(e) /\ clock' # clock =>
       (e \in DueAt(clock') <=> Asked(clock'))]_cronVars

\* The same of the yearly entries.
StartsInChosenMonth ==
  [][\A e \in stored : Yearly(e) /\ clock' # clock =>
       (e \in DueAt(clock') <=> Asked(clock'))]_cronVars

\* Saving a page on which nothing was touched leaves every entry as it was:
\* what the widget shows of an expression stands for that expression.
ReloadKeepsEntry == \A e \in stored : getCurrentValue(value(e)) = e
=============================================================================
