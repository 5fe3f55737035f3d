------------------------------- MODULE Schedule -------------------------------
(***************************************************************************)
(* When a scheduled notification is due: notifications/domain/due_         *)
(* notification.py, schedule_rule.py and the queries that page through the *)
(* users and receipts it is due to.                                        *)
(*                                                                         *)
(* An instant is a number of hours, a date a number of days.  Names, texts *)
(* and templates are left out.                                             *)
(***************************************************************************)
EXTENDS Integers, Sequences, FiniteSets

CONSTANT None  \* no value

\* No value is neither a number nor a cursor.
ASSUME NoneAssumption == None \notin Int \cup [registered : Int, user : Int]

-----------------------------------------------------------------------------
(* Local time *)

DayHours == 24
SystemTimezone == 9  \* hours ahead of UTC
LocalDate(t) == (t + SystemTimezone) \div DayHours
LocalHour(t) == (t + SystemTimezone) % DayHours
Instant(date, hour) == date * DayHours + hour - SystemTimezone

-----------------------------------------------------------------------------
(* Rules *)

EngagementKinds == {"unregistered_receipt", "inactive_receipt", "all_user"}
TargetKinds == EngagementKinds \cup {"warranty_receipt"}

Days(n) == n = None \/ n \in Nat

\* NotificationScheduleRule.create: an inactive-receipt rule without a
\* lookback is accepted.
ValidRule(rule) ==
    /\ rule.kind \in TargetKinds
    /\ \A n \in {rule.day_offset, rule.first_delay, rule.interval, rule.lookback} : Days(n)
    /\ rule.kind = "warranty_receipt" =>
           /\ rule.day_offset # None
           /\ {rule.first_delay, rule.interval, rule.lookback} = {None}
    /\ rule.kind \in EngagementKinds => rule.interval # None /\ rule.needs_consent

Warranty(key, offset) ==
    [key |-> key, enabled |-> TRUE, kind |-> "warranty_receipt", day_offset |-> offset,
     first_delay |-> None, interval |-> None, lookback |-> None, send_hour |-> 9,
     needs_consent |-> FALSE]
Engagement(key, kind, first, interval, lookback) ==
    [key |-> key, enabled |-> TRUE, kind |-> kind, day_offset |-> None,
     first_delay |-> first, interval |-> interval, lookback |-> lookback, send_hour |-> 9,
     needs_consent |-> TRUE]

\* The rules every database starts with, as list_all orders them.
SeededRules == <<
    Engagement("engagement_all_users_14d", "all_user", 14, 14, None),
    Engagement("engagement_inactive_receipt_7d", "inactive_receipt", None, 7, 7),
    Engagement("engagement_unregistered_receipt_after_7d", "unregistered_receipt", 7, 7, None),
    Warranty("warranty_expired_d0", 0),
    Warranty("warranty_notice_d30", 30),
    Warranty("warranty_risk_d7", 7),
    Warranty("warranty_warning_d14", 14)>>

IsMarketing(rule) == rule.kind # "warranty_receipt"

-----------------------------------------------------------------------------
(* What is due.  A command carries now, target_date, key, dry_run, batch.  *)

TargetDate(command) ==
    IF command.target_date = None THEN LocalDate(command.now) ELSE command.target_date

\* Neither switched off, nor in the future, nor before its hour of the day.
IsDue(rule, command) ==
    /\ rule.enabled
    /\ TargetDate(command) <= LocalDate(command.now)
    /\ TargetDate(command) = LocalDate(command.now) => LocalHour(command.now) >= rule.send_hour

ObservationCutoff(rule, command) == Instant(TargetDate(command), rule.send_hour)

FirstDueDay(rule) ==
    IF rule.first_delay # None THEN rule.first_delay
    ELSE IF rule.lookback # None THEN rule.lookback ELSE 0

MatchesJoinCadence(rule, days) ==
    /\ days >= FirstDueDay(rule)
    /\ IF rule.interval \in {None, 0} THEN days = FirstDueDay(rule)
       ELSE (days - FirstDueDay(rule)) % rule.interval = 0

RegistrationAge(registered, date) == date - LocalDate(registered)

MatchesReceiptActivity(rule, count) ==
    CASE rule.kind = "unregistered_receipt" -> count = 0
      [] rule.kind = "inactive_receipt" -> count > 0
      [] OTHER -> FALSE

\* The rule cannot be run: receipt_activity_since_for raises.
LacksLookback(rule) == rule.kind = "inactive_receipt" /\ rule.lookback = None

\* From when on a receipt counts as recent activity, None when it never does.
ReceiptActivitySince(rule, command) ==
    IF rule.kind = "inactive_receipt"
    THEN Instant(TargetDate(command), 0) - rule.lookback * DayHours
    ELSE None

-----------------------------------------------------------------------------
(* Pages.  A page is read with LIMIT limit + 1: the row past the limit only *)
(* says that there is a next page, whose cursor is the last row of this one.*)

\* The orders of the queries, as sets of pairs.
ById == {p \in Int \X Int : p[1] < p[2]}
ByRegistration(registered) ==
    {p \in (DOMAIN registered) \X (DOMAIN registered) :
        \/ registered[p[1]] < registered[p[2]]
        \/ registered[p[1]] = registered[p[2]] /\ p[1] < p[2]}

\* ORDER BY
Sorted(rows, order) ==
    CHOOSE s \in [1..Cardinality(rows) -> rows] :
        \A k, l \in DOMAIN s : k < l => <<s[k], s[l]>> \in order

Page(rows, order, limit) ==
    LET sorted == Sorted(rows, order)
        more == Cardinality(rows) > limit IN
    [items |-> {sorted[k] : k \in {l \in DOMAIN sorted : l <= limit}},
     next |-> IF more THEN sorted[limit] ELSE None]

\* list_receipts_expiring_on: receipts maps ids, which are numbers, to receipts.
ExpiringPage(receipts, rule, command, cursor) ==
    Page({i \in DOMAIN receipts :
             /\ receipts[i].expires_on = TargetDate(command) + rule.day_offset
             /\ receipts[i].created < ObservationCutoff(rule, command)
             /\ cursor # None => i > cursor},
         ById, command.batch)

\* Mutant: the page after a cursor begins with the next instant.
AfterInstant(registered, cursor, u) ==
    cursor # None => registered[u] > cursor.registered

\* Mutant: the page after a cursor begins with the row of the cursor.
FromFact(registered, cursor, u) ==
    cursor # None =>
        \/ registered[u] > cursor.registered
        \/ registered[u] = cursor.registered /\ u >= cursor.user

\* The rows behind a cursor, in the order of <<created_at, id>>.
AfterFact(registered, cursor, u) ==
    cursor # None =>
        \/ registered[u] > cursor.registered
        \/ registered[u] = cursor.registered /\ u > cursor.user

\* list_registration_facts: registered maps the ids of users to instants.
FactsPage(registered, rule, command, cursor) ==
    Page({u \in DOMAIN registered :
             /\ registered[u] < ObservationCutoff(rule, command)
             /\ AfterFact(registered, cursor, u)},
         ByRegistration(registered), command.batch)

\* get_receipt_activity_for_users: users in the order of their ids, those with
\* recent activity left out.
ReceiptsOf(receipts, u, before) ==
    {i \in DOMAIN receipts : receipts[i].user = u /\ receipts[i].created < before}
RecentlyActive(receipts, u, rule, command) ==
    LET since == ReceiptActivitySince(rule, command) IN
    since # None /\ \E i \in ReceiptsOf(receipts, u, ObservationCutoff(rule, command)) :
                        receipts[i].created >= since
ActivityPage(receipts, users, rule, command, cursor) ==
    Page({u \in users :
             /\ cursor # None => u > cursor
             /\ ~RecentlyActive(receipts, u, rule, command)},
         ById, command.batch)

=============================================================================
