----------------------------- MODULE CronFields -----------------------------
(***************************************************************************)
(* Cron expressions: which fields schedule_job accepts and which days an   *)
(* accepted expression fires on.  A field is "*" or a list of items: the   *)
(* text between commas, already split and read as numbers.                 *)
(***************************************************************************)
EXTENDS Integers, Sequences

CONSTANTS
    MaxDay,       \* days of the month are 1..MaxDay
    MaxWeekday,   \* weekdays are 0..MaxWeekday, 0 also written MaxWeekday + 1
    MaxItems      \* bound on the items of the day field; the other has one

ASSUME FieldsAssumption ==
    /\ {MaxDay, MaxWeekday, MaxItems} \subseteq Nat \ {0}
    /\ MaxWeekday <= MaxDay

VARIABLE cronInput   \* the expression submitted, and whether it is accepted

Star == <<>>
Number == 0..MaxDay + 1

\* "*/s", "lo-hi/s", "lo/s" and "v"; a range without a step has step 1.
Item ==
    [kind : {"every"}, lo : {0}, hi : {0}, step : 0..MaxDay]
    \cup {r \in [kind : {"range"}, lo : Number, hi : Number, step : {1, 2}] :
              r.lo <= r.hi + 1}
    \cup [kind : {"from"}, lo : Number, hi : {0}, step : {2}]
    \cup [kind : {"value"}, lo : Number, hi : {0}, step : {1}]

Fields(most) == UNION {[1..n -> Item] : n \in 0..most}

\* _validate_cron_field: the start of "*/s" is not looked at, nor is there
\* an upper bound for a step.
ValidItem(item, least, most) ==
    /\ item.step >= 1
    /\ item.kind = "range" =>
           least <= item.lo /\ item.hi <= most /\ item.lo <= item.hi
    /\ item.kind \in {"from", "value"} => item.lo \in least..most

Valid(field, least, most) ==
    \A i \in DOMAIN field : ValidItem(field[i], least, most)

ItemMatches(item, v) ==
    CASE item.kind = "every" -> v % item.step = 0
      [] item.kind = "range" ->
           v \in item.lo..item.hi /\ (v - item.lo) % item.step = 0
      [] item.kind = "from" -> v >= item.lo /\ (v - item.lo) % item.step = 0
      [] item.kind = "value" -> v = item.lo

\* _cron_field_matches: the items are tried in order, and "*/s" decides for
\* those after it.
FieldMatches(field, v) ==
    \/ field = Star
    \/ \E i \in DOMAIN field :
         /\ ItemMatches(field[i], v)
         /\ \A k \in 1..(i - 1) : field[k].kind # "every"

\* Sunday is 0 and 7.
WeekdayMatches_Zero(field, weekday) == FieldMatches(field, weekday)
WeekdayMatches(field, weekday) ==
    \/ FieldMatches(field, weekday)
    \/ weekday = 0 /\ FieldMatches(field, MaxWeekday + 1)

\* cron_matches: both fields restricted, either is enough.
DayMatches(dom, dow, day, weekday) ==
    IF dom = Star \/ dow = Star
    THEN FieldMatches(dom, day) /\ WeekdayMatches(dow, weekday)
    ELSE FieldMatches(dom, day) \/ WeekdayMatches(dow, weekday)

-----------------------------------------------------------------------------

fieldVars == cronInput
NoInput == [dom |-> Star, dow |-> Star, accepted |-> FALSE]

FieldsInit == cronInput = NoInput

\* An expression is submitted and validated.
SubmitsCron(dom, dow) ==
    cronInput' = [dom |-> dom, dow |-> dow,
                  accepted |-> /\ Valid(dom, 1, MaxDay)
                               /\ Valid(dow, 0, MaxWeekday + 1)]

FieldsNext ==
    /\ cronInput = NoInput
    /\ \E dom \in Fields(MaxItems), dow \in Fields(1) : SubmitsCron(dom, dow)

FieldsSpec == FieldsInit /\ [][FieldsNext]_fieldVars

-----------------------------------------------------------------------------

\* crontab(5), not the code.  An item counts by its step from its start - "*"
\* from the first value of the field - to its end, or the field's.
ItemValues(item, least, most) ==
    LET from == IF item.kind = "every" THEN least ELSE item.lo
        to == CASE item.kind = "range" -> item.hi
                [] item.kind = "value" -> item.lo
                [] OTHER -> most
    IN  {v \in least..to : \E n \in 0..most : v = from + n * item.step}

FieldValues(field, least, most) ==
    IF field = Star THEN least..most
    ELSE UNION {ItemValues(field[i], least, most) : i \in DOMAIN field}

\* A field with a "*" in it does not restrict the day.
Starred(field) == field = Star \/ \E i \in DOMAIN field : field[i].kind = "every"

\* Is it the day, by the values of the fields?  Sunday has two numbers.
MeantDay(dom, dow, day, weekday) ==
    LET inDom == day \in FieldValues(dom, 1, MaxDay)
        sunday == IF weekday = 0 THEN {0, MaxWeekday + 1} ELSE {weekday}
        inDow == sunday \cap FieldValues(dow, 0, MaxWeekday + 1) # {}
    IN  IF Starred(dom) \/ Starred(dow) THEN inDom /\ inDow ELSE inDom \/ inDow

\* Does the input fire on the days it means?
AsMeant ==
    \A day \in 1..MaxDay, weekday \in 0..MaxWeekday :
        DayMatches(cronInput.dom, cronInput.dow, day, weekday)
          = MeantDay(cronInput.dom, cronInput.dow, day, weekday)

\* "*/s" decides for the items after it, so here it is the last one.
Plain(field) == \A i \in 1..(Len(field) - 1) : field[i].kind # "every"
Stepped(field) == field # Star /\ Starred(field)

\* An accepted expression fires on the days crontab(5) gives it: ranges,
\* steps and lists, Sunday under both its numbers, either field when both are
\* restricted, and no item divides by zero.  "*/s" is as meant as a weekday
\* when every day of the month will do; nowhere else.
FiresOnTheDaysMeant ==
    LET agreed == /\ cronInput.accepted
                  /\ Plain(cronInput.dow)
                  /\ ~Stepped(cronInput.dom)
                  /\ Stepped(cronInput.dow) => cronInput.dom = Star
    IN  agreed => AsMeant

\* cron.py:89: "Standard cron uses OR when both day-of-month and day-of-week
\* are restricted."  A field with a "*" in it, as "*/2", is not restricted in
\* standard cron; the code takes it for restricted, and fires on either.
EitherOnlyIfBothRestricted ==
    LET dom == cronInput.dom
        dow == cronInput.dow
    IN  cronInput.accepted /\ (Starred(dom) \/ Starred(dow)) =>
            \A day \in 1..MaxDay, weekday \in 0..MaxWeekday :
                DayMatches(dom, dow, day, weekday) =>
                    FieldMatches(dom, day) /\ WeekdayMatches(dow, weekday)
=============================================================================
