------------------------------ MODULE TimeUtil ------------------------------
(***************************************************************************)
(* The times of coro_apps/util/time_util.h: get_timestamp() parses a date  *)
(* in the http format or in one of two formats that differ in punctuation, *)
(* get_gmt_time_str() writes one in the http format and keeps the last     *)
(* string in a buffer.                                                     *)
(*                                                                         *)
(* A text is a sequence of components, each a letter code or a number of   *)
(* the width that the format gives it; punctuation is always in its place  *)
(* and left out.  A time_t is a pair of days and seconds.  The code counts *)
(* days from the year -292277022399; a year congruent to it modulo 400     *)
(* gives the same differences, and the integers stay small.                *)
(***************************************************************************)
EXTENDS Integers, Sequences, FiniteSets

CONSTANTS Years, Months, Days,  \* the dates that are tried, those that do not exist too
          Clocks                \* the times of day, as triples

(* Years, days and times are read from digits; a sign is not one. *)
TimeAssumption ==
  /\ Years \subseteq Nat /\ Months \subseteq Nat /\ Days \subseteq Nat
  /\ Clocks \subseteq Nat \X Nat \X Nat

AbsoluteZeroYear == -399
Failed == [ok |-> FALSE]

-----------------------------------------------------------------------------
(* The tables.  A name is the triple of its character codes. *)

days_before == <<0, 31, 59, 90, 120, 151, 181, 212, 243, 273, 304, 334, 365>>
month_table == <<11, 4, -1, 7, -1, -1, -1, 0, 6, 3, 5, 2, 10, 8, -1, 9, 1>>
week_table  == <<2, 4, 3, 1, -1, -1, -1, 6, -1, -1, -1, -1, 0, -1, -1, 5, -1>>

WDAY == << <<83, 117, 110>>, <<77, 111, 110>>, <<84, 117, 101>>, <<87, 101, 100>>,
           <<84, 104, 117>>, <<70, 114, 105>>, <<83, 97, 116>> >>
YMON == << <<74, 97, 110>>, <<70, 101, 98>>, <<77, 97, 114>>, <<65, 112, 114>>,
           <<77, 97, 121>>, <<74, 117, 110>>, <<74, 117, 108>>, <<65, 117, 103>>,
           <<83, 101, 112>>, <<79, 99, 116>>, <<78, 111, 118>>, <<68, 101, 99>> >>

Upper(c) == IF (c \div 32) % 2 = 1 THEN c - 32 ELSE c

(* The exclusive or of two characters, bit by bit. *)
Bit(c, b) == (c \div b) % 2
Differ(c, d, b) == IF Bit(c, b) # Bit(d, b) THEN b ELSE 0
Xor(c, d) == Differ(c, d, 1) + Differ(c, d, 2) + Differ(c, d, 4) + Differ(c, d, 8)
             + Differ(c, d, 16) + Differ(c, d, 32) + Differ(c, d, 64) + Differ(c, d, 128)

get_day_index(name) == week_table[(Xor(Upper(name[1]), Upper(name[3])) % 17) + 1]
get_month_index(name) == month_table[((Upper(name[2]) + Upper(name[3])) % 17) + 1]

is_leap(year) == year % 4 = 0 /\ (year % 100 # 0 \/ year % 400 = 0)

days_in(m, year) ==
  IF m = get_month_index(YMON[2]) /\ is_leap(year)
    THEN 29 ELSE days_before[m + 2] - days_before[m + 1]

-----------------------------------------------------------------------------
(* The day count *)

days_since_epoch(year) ==
  LET y == year - AbsoluteZeroYear
      in400 == y % 400
      in100 == in400 % 100
  IN  (146097 * (y \div 400)) + (36524 * (in400 \div 100)) + (1461 * (in100 \div 4)) + (365 * (in100 % 4))

(* absolute_to_internal + internal_to_unix, in days. *)
absolute_to_unix ==
  146097 * ((AbsoluteZeroYear - 1) \div 400)
    - (1969 * 365 + (1969 \div 4) - (1969 \div 100) + (1969 \div 400))

(* Mutant: the leap day of a year counts from its first month on. *)
faster_mktime_early(f) ==
  LET d == days_since_epoch(f.year) + days_before[f.month + 1]
             + (IF is_leap(f.year) THEN 1 ELSE 0) + f.day - 1
  IN  IF f.day_of_week # -1 /\ (d + get_day_index(WDAY[2])) % 7 # f.day_of_week
        THEN Failed
        ELSE [ok |-> TRUE, days |-> d + absolute_to_unix, seconds |-> f.hour * 3600 + f.minute * 60 + f.second]

(* The weekday has to fit, if there is one. *)
faster_mktime(f) ==
  LET leapDay == is_leap(f.year) /\ f.month >= get_month_index(YMON[3])
      d == days_since_epoch(f.year) + days_before[f.month + 1]
             + (IF leapDay THEN 1 ELSE 0) + f.day - 1
  IN  IF f.day_of_week # -1 /\ (d + get_day_index(WDAY[2])) % 7 # f.day_of_week
        THEN Failed
        ELSE [ok |-> TRUE, days |-> d + absolute_to_unix, seconds |-> f.hour * 3600 + f.minute * 60 + f.second]

-----------------------------------------------------------------------------
(* Parsing *)

Format(name) ==
  IF name = "http" THEN <<"day_name", "day", "month_name", "year", "hour", "minute", "second">>
                   ELSE <<"year", "month", "day", "hour", "minute", "second", "second_decimal_part">>

(* What the switch makes of a component; -1 is a refusal.                    *)
Component(comp, v) ==
  CASE comp = "day_name"            -> get_day_index(v)
    [] comp = "month_name"          -> get_month_index(v)
    [] comp = "month"               -> IF v \in 1..12 THEN v - 1 ELSE -1
    [] comp = "hour"                -> IF v < 24 THEN v ELSE -1
    [] comp \in {"minute", "second"} -> IF v < 60 THEN v ELSE -1
    [] OTHER                        -> v

Has(format, comp) == \E i \in DOMAIN Format(format) : Format(format)[i] = comp
Value(format, text, comp) ==
  LET i == CHOOSE i \in DOMAIN Format(format) : Format(format)[i] = comp
  IN  Component(comp, text[i])
One(format, text, comp, other) == IF Has(format, comp) THEN Value(format, text, comp) ELSE other

(* The fields of a time_t, as far as the format has them. *)
Fields(format, text) ==
  [year |-> Value(format, text, "year"),
   month |-> One(format, text, "month_name", One(format, text, "month", -1)),
   day |-> Value(format, text, "day"), hour |-> Value(format, text, "hour"),
   minute |-> Value(format, text, "minute"), second |-> Value(format, text, "second"),
   day_of_week |-> One(format, text, "day_name", -1)]

get_timestamp(format, text) ==
  LET comps == Format(format)
      f == Fields(format, text)
  IN  IF \/ Len(text) # Len(comps)
         \/ \E i \in DOMAIN comps : Component(comps[i], text[i]) = -1
         \/ f.day < 1 \/ f.day > days_in(f.month, f.year)
        THEN Failed
        ELSE faster_mktime(f)

-----------------------------------------------------------------------------
(* The calendar, by counting: what gmtime() of the C library answers.        *)

Exists(y, m, d) ==
  /\ m \in 1..12 /\ d \in 1..31
  /\ m \in {4, 6, 9, 11} => d <= 30
  /\ m = 2 => d <= (IF y % 400 = 0 \/ (y % 4 = 0 /\ y % 100 # 0) THEN 29 ELSE 28)
LeapYears(first, last) == Cardinality({y \in first..last : Exists(y, 2, 29)})
DayNumber(y, m, d) ==
  365 * (y - 1970) + LeapYears(1970, y - 1) - LeapYears(y, 1969)
    + Cardinality({md \in (1..(m - 1)) \X (1..31) : Exists(y, md[1], md[2])}) + d - 1
Weekday(y, m, d) == (DayNumber(y, m, d) + 4) % 7   \* 1 January 1970 was a Thursday

-----------------------------------------------------------------------------
VARIABLES asked,     \* the date and time of the last call
          result,    \* what became of it
          last_sec,  \* last_sec and buf of get_gmt_time_str()
          buf

vars == <<asked, result, last_sec, buf>>

Dates == [year : Years, month : Months, day : Days, clock : Clocks]
IsDate(a) == Exists(a.year, a.month, a.day) /\ a.clock \in (0..23) \X (0..59) \X (0..59)
Seconds(a) == 3600 * a.clock[1] + 60 * a.clock[2] + a.clock[3]
TimeOf(a) == [ok |-> TRUE, days |-> DayNumber(a.year, a.month, a.day), seconds |-> Seconds(a)]
Epoch == [ok |-> TRUE, days |-> 0, seconds |-> 0]

Init == asked = <<>> /\ result = Failed /\ last_sec = Epoch /\ buf = <<>>

(* A text in one of the formats, with a weekday in the http format.          *)
Parse ==
  \E a \in Dates, format \in {"http", "utc"}, name \in DOMAIN WDAY :
    /\ asked = <<>>
    /\ format = "utc" => name = 1
    /\ format = "http" => a.month \in DOMAIN YMON
    /\ asked' = [date |-> a, weekday |-> IF format = "http" THEN name - 1 ELSE -1]
    /\ result' = get_timestamp(format,
                   IF format = "http"
                     THEN <<WDAY[name], a.day, YMON[a.month], a.year, a.clock[1], a.clock[2], a.clock[3]>>
                     ELSE <<a.year, a.month, a.day, a.clock[1], a.clock[2], a.clock[3], 0>>)
    /\ UNCHANGED <<last_sec, buf>>

(* get_gmt_time_str() of a time, which it takes apart with gmtime(), and of  *)
(* others on the same day.  The very first second is taken for the one in    *)
(* the buffer.                                                               *)
GmtString ==
  \E a \in Dates :
    /\ asked # <<>> => a = [asked.date EXCEPT !.clock = a.clock]
    /\ IsDate(a) /\ TimeOf(a) # Epoch
    /\ asked' = [date |-> a, weekday |-> -1]
    /\ last_sec' = TimeOf(a)
    /\ buf' = IF TimeOf(a) = last_sec THEN buf
              ELSE <<WDAY[Weekday(a.year, a.month, a.day) + 1], a.day, YMON[a.month], a.year,
                     a.clock[1], a.clock[2], a.clock[3]>>
    /\ result' = get_timestamp("http", buf')

Next == Parse \/ GmtString
Spec == Init /\ [][Next]_vars
-----------------------------------------------------------------------------
(* A date that exists, with its own weekday or none, is parsed to its time,  *)
(* and no other is; and what get_gmt_time_str() writes is parsed to the time *)
(* it was given.                                                             *)
DatesAreExact ==
  asked # <<>> =>
    result = IF /\ IsDate(asked.date)
                /\ asked.weekday \in {-1, Weekday(asked.date.year, asked.date.month, asked.date.day)}
               THEN TimeOf(asked.date) ELSE Failed
=============================================================================
