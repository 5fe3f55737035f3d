---------------------------- MODULE Notifications ----------------------------
(***************************************************************************)
(* The notifications module: jobs that create the notifications that are   *)
(* due (schedule_push_notifications), the requests of users about their    *)
(* notifications, settings and devices, and the push messages sent for     *)
(* notifications from the outbox.                                          *)
(*                                                                         *)
(* An action is one statement or call between two awaits, with the commit  *)
(* or rollback that follows it.  A row lock is held by the process whose   *)
(* record says so.  The outbox is reduced to what Outbox shows of it: the  *)
(* event of a committed notification is handled until a handler returns.   *)
(***************************************************************************)
EXTENDS Schedule

CONSTANTS Runs,     \* runs of the scheduling job
          Workers,  \* concurrent dispatches of events
          MaxChanges, MaxFaults  \* bounds on what users do and on what fails

VARIABLES
    rules, command,  \* the rules of the database, the command line of a run
    registered,      \* users, and when they registered
    receipts,        \* receipts: user, created, expires_on, named
    consent, push_enabled,             \* notification_settings, of every user there was
    occurrences,                       \* committed rows that reserve an occurrence
    notices, deleted, read,            \* user_notifications in the order of creation
    outbox,                            \* notices whose event is still to be handled
    devices, tokens, dead,             \* registration tokens, user_push_tokens, what FCM
                                       \* no longer knows
    run, push, reader,                 \* runs, dispatches, a request to mark as read
    changes, faults,
    steady,  \* of a run: what was due all the time since it began
    seen     \* of a dispatch: what was true at some time since it began

fixed == <<rules, command, devices>>
facts == <<registered, receipts>>
settings == <<consent, push_enabled>>
rows == <<occurrences, notices, deleted, read, outbox>>
registrations == <<tokens, dead>>
budgets == <<changes, faults>>
vars == <<fixed, facts, settings, rows, registrations, run, push, reader, budgets, steady, seen>>

-----------------------------------------------------------------------------
IdleRun == [pc |-> "idle", rule |-> 0, cursor |-> None, facts |-> {}, next |-> None,
            activity |-> None, todo |-> <<>>, agreed |-> FALSE]
\* A worker may not be running at all.
IdlePush == [pc |-> "idle", notice |-> 0, tokens |-> {}, invalid |-> {}]

Rule(r) == rules[run[r].rule]
Due(r) == run[r].todo[1]

\* Row locks: an uncommitted occurrence, settings FOR UPDATE, a notification FOR UPDATE.
Reserved(occ) == \E r \in Runs : run[r].pc \in {"held", "locked"} /\ Due(r).occ = occ

\* Mutant: the settings are read without FOR UPDATE.
SettingsNeverLocked(u) == FALSE

SettingsLocked(u) ==
    \/ \E r \in Runs : run[r].pc = "locked" /\ Due(r).user = u
    \/ reader.pc \in {"settings", "row"} /\ notices[reader.notice].user = u
RowLocked(n) == reader.pc = "row" /\ reader.notice = n

\* What the settings of a user say; without a row the defaults apply.
Consents(u) == u \in DOMAIN consent /\ consent[u]
WantsPush(u) == u \in DOMAIN push_enabled => push_enabled[u]

\* A notification a user may see: marketing is hidden without consent.
Visible(n) == n \notin deleted /\ (notices[n].marketing => Consents(notices[n].user))

-----------------------------------------------------------------------------
(* CreateDueNotifications: a run *)

Begin(r) ==
    /\ run[r].pc = "idle"
    /\ run' = [run EXCEPT ![r].pc = "rule", ![r].rule = 1]
    /\ UNCHANGED <<fixed, facts, settings, rows, registrations, push, reader, budgets>>

SkipRule(r) ==
    /\ run[r].pc = "rule" /\ run[r].rule <= Len(rules)
    /\ \/ command[r].key \notin {None, Rule(r).key}
       \/ ~IsDue(Rule(r), command[r])
    /\ run' = [run EXCEPT ![r].rule = @ + 1]
    /\ UNCHANGED <<fixed, facts, settings, rows, registrations, push, reader, budgets>>

TakeRule(r) ==
    /\ run[r].pc = "rule" /\ run[r].rule <= Len(rules)
    /\ command[r].key \in {None, Rule(r).key}
    /\ IsDue(Rule(r), command[r])
    /\ run' = [run EXCEPT ![r].pc = "page", ![r].cursor = None]
    /\ UNCHANGED <<fixed, facts, settings, rows, registrations, push, reader, budgets>>

Finish(r) ==
    /\ run[r].pc = "rule" /\ run[r].rule > Len(rules)
    /\ run' = [run EXCEPT ![r].pc = "done"]
    /\ UNCHANGED <<fixed, facts, settings, rows, registrations, push, reader, budgets>>

\* A notification that is due, with the key of its occurrence.
DueNotification(r, subject, user, valid) ==
    [occ |-> <<Rule(r).key, subject, TargetDate(command[r])>>, user |-> user, valid |-> valid]

\* A page of receipts, of which those of withdrawn users are left out.
ReadExpiring(r) ==
    /\ run[r].pc = "page" /\ Rule(r).kind = "warranty_receipt"
    /\ LET page == ExpiringPage(receipts, Rule(r), command[r], run[r].cursor)
           owned == Sorted({i \in page.items : receipts[i].user \in DOMAIN registered}, ById) IN
       run' = [run EXCEPT
           ![r].pc = "item", ![r].next = page.next, ![r].activity = None,
           ![r].todo = [k \in DOMAIN owned |->
               DueNotification(r, owned[k], receipts[owned[k]].user, receipts[owned[k]].named)]]
    /\ UNCHANGED <<fixed, facts, settings, rows, registrations, push, reader, budgets>>

\* A page of users, of which the rule's cadence picks some.
ReadFacts(r) ==
    /\ run[r].pc = "page" /\ Rule(r).kind # "warranty_receipt"
    /\ LET page == FactsPage(registered, Rule(r), command[r], run[r].cursor)
           matching == {u \in page.items : MatchesJoinCadence(
               Rule(r), RegistrationAge(registered[u], TargetDate(command[r])))}
           due == Sorted(matching, ByRegistration(registered))
           cursor == IF page.next = None THEN None
                     ELSE [registered |-> registered[page.next], user |-> page.next] IN
       run' = IF Rule(r).kind = "all_user"
           THEN [run EXCEPT ![r].pc = "item", ![r].next = cursor, ![r].activity = None,
                            ![r].todo = [k \in DOMAIN due |->
                                DueNotification(r, due[k], due[k], TRUE)]]
           ELSE IF LacksLookback(Rule(r)) THEN [run EXCEPT ![r] = [IdleRun EXCEPT !.pc = "failed"]]
           ELSE IF matching = {}
           THEN [run EXCEPT ![r].pc = "item", ![r].next = cursor, ![r].activity = None]
           ELSE [run EXCEPT ![r].pc = "activity", ![r].next = cursor, ![r].activity = None,
                            ![r].facts = matching]
    /\ UNCHANGED <<fixed, facts, settings, rows, registrations, push, reader, budgets>>

\* A page of the receipt activity of those users.
ReadActivity(r) ==
    /\ run[r].pc = "activity"
    /\ LET page == ActivityPage(receipts, run[r].facts, Rule(r), command[r], run[r].activity)
           count(u) == Cardinality(
               ReceiptsOf(receipts, u, ObservationCutoff(Rule(r), command[r])))
           due == Sorted({u \in page.items : MatchesReceiptActivity(Rule(r), count(u))}, ById) IN
       run' = [run EXCEPT
           ![r].pc = "item", ![r].activity = page.next,
           ![r].todo = [k \in DOMAIN due |-> DueNotification(r, due[k], due[k], TRUE)]]
    /\ UNCHANGED <<fixed, facts, settings, rows, registrations, push, reader, budgets>>

\* The page is used up: the next one of the activity, of the facts, or the next rule.
NextPage(r) ==
    /\ run[r].pc = "item" /\ run[r].todo = <<>>
    /\ run' =
        IF run[r].activity # None THEN [run EXCEPT ![r].pc = "activity"]
        ELSE IF run[r].next # None
        THEN [run EXCEPT ![r].pc = "page", ![r].cursor = run[r].next, ![r].facts = {}]
        ELSE [run EXCEPT ![r] = [IdleRun EXCEPT !.pc = "rule", !.rule = run[r].rule + 1]]
    /\ UNCHANGED <<fixed, facts, settings, rows, registrations, push, reader, budgets>>

\* The run is done with the first notification that was due.
Dropped(r) == [run EXCEPT ![r].pc = "item", ![r].todo = Tail(@), ![r].agreed = FALSE]

DryRun(r) ==
    /\ run[r].pc = "item" /\ run[r].todo # <<>> /\ command[r].dry_run
    /\ run' = Dropped(r)
    /\ UNCHANGED <<fixed, facts, settings, rows, registrations, push, reader, budgets>>

\* Mutant: whoever finds the occurrence reserved creates the notification again.
ReserveAgain(r) ==
    /\ run[r].pc = "item" /\ run[r].todo # <<>> /\ ~command[r].dry_run
    /\ ~Reserved(Due(r).occ)
    /\ run' = [run EXCEPT ![r].pc = "held"]
    /\ UNCHANGED <<fixed, facts, settings, rows, registrations, push, reader, budgets>>

\* INSERT .. ON CONFLICT DO NOTHING waits for an uncommitted row of the same key.
Reserve(r) ==
    /\ run[r].pc = "item" /\ run[r].todo # <<>> /\ ~command[r].dry_run
    /\ ~Reserved(Due(r).occ)
    /\ run' = IF Due(r).occ \in occurrences THEN Dropped(r)
              ELSE [run EXCEPT ![r].pc = "held"]
    /\ UNCHANGED <<fixed, facts, settings, rows, registrations, push, reader, budgets>>

\* UserNotification.create rejects the text: the reservation is rolled back.
Reject(r) ==
    /\ run[r].pc = "held" /\ ~Due(r).valid
    /\ run' = Dropped(r)
    /\ UNCHANGED <<fixed, facts, settings, rows, registrations, push, reader, budgets>>

\* Marketing: the settings are locked and read.
LockSettings(r) ==
    /\ run[r].pc = "held" /\ Due(r).valid /\ IsMarketing(Rule(r))
    /\ ~SettingsLocked(Due(r).user)
    /\ run' = [run EXCEPT ![r].pc = "locked", ![r].agreed = Consents(Due(r).user)]
    /\ UNCHANGED <<fixed, facts, settings, rows, registrations, push, reader, budgets>>

SkipUnconsented(r) ==
    /\ run[r].pc = "locked" /\ ~run[r].agreed
    /\ run' = Dropped(r)
    /\ UNCHANGED <<fixed, facts, settings, rows, registrations, push, reader, budgets>>

\* The notification, its event and its occurrence are committed together.
Create(r) ==
    /\ \/ run[r].pc = "held" /\ Due(r).valid /\ ~IsMarketing(Rule(r))
       \/ run[r].pc = "locked" /\ run[r].agreed
    /\ notices' = Append(notices, [occ |-> Due(r).occ, user |-> Due(r).user,
                                   marketing |-> IsMarketing(Rule(r))])
    /\ outbox' = outbox \cup {Len(notices')}
    /\ occurrences' = occurrences \cup {Due(r).occ}
    /\ run' = Dropped(r)
    /\ UNCHANGED <<fixed, facts, settings, deleted, read, registrations, push, reader, budgets>>

\* An error, or the end of the process: the transaction is rolled back.
Abort(r) ==
    /\ run[r].pc \notin {"idle", "done", "failed"}
    /\ faults < MaxFaults
    /\ faults' = faults + 1
    /\ run' = [run EXCEPT ![r] = [IdleRun EXCEPT !.pc = "failed"]]
    /\ UNCHANGED <<fixed, facts, settings, rows, registrations, push, reader, changes>>

RunStep(r) ==
    \/ Begin(r) \/ SkipRule(r) \/ TakeRule(r) \/ Finish(r)
    \/ ReadExpiring(r) \/ ReadFacts(r) \/ ReadActivity(r) \/ NextPage(r)
    \/ DryRun(r) \/ Reserve(r) \/ Reject(r) \/ LockSettings(r)
    \/ SkipUnconsented(r) \/ Create(r)

-----------------------------------------------------------------------------
(* SendNotificationPush: a dispatch of an event *)

Deliver(w) ==
    /\ push[w].pc = "idle"
    /\ \E n \in outbox : push' = [push EXCEPT ![w] = [IdlePush EXCEPT !.pc = "find", !.notice = n]]
    /\ UNCHANGED <<fixed, facts, settings, rows, registrations, run, reader, budgets>>

\* The handler returns, whatever happened in it, and the event is deleted.
Returns(w) ==
    /\ push' = [push EXCEPT ![w] = IdlePush]
    /\ outbox' = outbox \ {push[w].notice}

\* Mutant: the event is believed, the notification is not looked up.
FindBlindly(w) ==
    /\ push[w].pc = "find"
    /\ push' = [push EXCEPT ![w].pc = "settings"]
    /\ UNCHANGED outbox
    /\ UNCHANGED <<fixed, facts, settings, occurrences, notices, deleted, read, registrations, run,
                   reader, budgets>>

Find(w) ==
    /\ push[w].pc = "find"
    /\ \/ /\ Visible(push[w].notice)
          /\ push' = [push EXCEPT ![w].pc = "settings"]
          /\ UNCHANGED outbox
       \/ /\ ~Visible(push[w].notice)
          /\ Returns(w)
    /\ UNCHANGED <<fixed, facts, settings, occurrences, notices, deleted, read, registrations, run,
                   reader, budgets>>

ReadSettings(w) ==
    /\ push[w].pc = "settings"
    /\ LET n == notices[push[w].notice]
           wanted == WantsPush(n.user) /\ (n.marketing => Consents(n.user)) IN
       \/ /\ wanted
          /\ push' = [push EXCEPT ![w].pc = "tokens"]
          /\ UNCHANGED outbox
       \/ ~wanted /\ Returns(w)
    /\ UNCHANGED <<fixed, facts, settings, occurrences, notices, deleted, read, registrations, run,
                   reader, budgets>>

\* The transaction ends here: nothing is locked while FCM is called.
ListTokens(w) ==
    /\ push[w].pc = "tokens"
    /\ LET mine == {d \in DOMAIN tokens : tokens[d].user = notices[push[w].notice].user} IN
       \/ /\ mine # {}
          /\ push' = [push EXCEPT ![w].pc = "send", ![w].tokens = mine]
          /\ UNCHANGED outbox
       \/ mine = {} /\ Returns(w)
    /\ UNCHANGED <<fixed, facts, settings, occurrences, notices, deleted, read, registrations, run,
                   reader, budgets>>

\* FCM takes the messages and reports the registrations that are gone.
Send(w) ==
    /\ push[w].pc = "send"
    /\ push' = [push EXCEPT ![w].pc = "report", ![w].invalid = push[w].tokens \cap dead]
    /\ UNCHANGED <<fixed, facts, settings, rows, registrations, run, reader, budgets>>

\* Mutant: every token the message was sent to is deleted.
CleanUpAll(w) ==
    /\ push[w].pc = "report"
    /\ tokens' = [d \in DOMAIN tokens \ push[w].tokens |-> tokens[d]]
    /\ Returns(w)
    /\ UNCHANGED <<fixed, facts, settings, occurrences, notices, deleted, read, dead, run,
                   reader, budgets>>

\* Tokens are deleted by value, whoever has registered them by now.
CleanUp(w) ==
    /\ push[w].pc = "report"
    /\ tokens' = [d \in DOMAIN tokens \ push[w].invalid |-> tokens[d]]
    /\ Returns(w)
    /\ UNCHANGED <<fixed, facts, settings, occurrences, notices, deleted, read, dead, run,
                   reader, budgets>>

\* A failing query or FCM call is logged, and the event counts as handled.
Swallow(w) ==
    /\ push[w].pc \notin {"idle", "stopped"}
    /\ faults < MaxFaults
    /\ faults' = faults + 1
    /\ Returns(w)
    /\ UNCHANGED <<fixed, facts, settings, occurrences, notices, deleted, read, registrations, run,
                   reader, changes>>

\* The process ends: the event is delivered again.
Crash(w) ==
    /\ push[w].pc \notin {"idle", "stopped"}
    /\ faults < MaxFaults
    /\ faults' = faults + 1
    /\ push' = [push EXCEPT ![w] = IdlePush]
    /\ UNCHANGED <<fixed, facts, settings, rows, registrations, run, reader, changes>>

PushStep(w) ==
    Deliver(w) \/ Find(w) \/ ReadSettings(w) \/ ListTokens(w) \/ Send(w) \/ CleanUp(w)

-----------------------------------------------------------------------------
(* The requests of users *)

\* MarkNotificationRead: the settings are locked, then the notification.
ReadLock ==
    /\ reader.pc = "idle" /\ reader.notice \in DOMAIN notices
    /\ ~SettingsLocked(notices[reader.notice].user)
    /\ reader' = [reader EXCEPT !.pc = "settings"]
    /\ UNCHANGED <<fixed, facts, settings, rows, registrations, run, push, budgets>>

ReadSelect ==
    /\ reader.pc = "settings"
    /\ reader' = [reader EXCEPT !.pc = IF Visible(reader.notice) THEN "row" ELSE "not_found"]
    /\ UNCHANGED <<fixed, facts, settings, rows, registrations, run, push, budgets>>

ReadCommit ==
    /\ reader.pc = "row"
    /\ read' = read \cup {reader.notice}
    /\ reader' = [reader EXCEPT !.pc = "done"]
    /\ UNCHANGED <<fixed, facts, settings, occurrences, notices, deleted, outbox, registrations, run,
                   push, budgets>>

ReadStep == ReadLock \/ ReadSelect \/ ReadCommit

Delete(n) ==
    /\ n \notin deleted /\ ~RowLocked(n)
    /\ deleted' = deleted \cup {n}
    /\ UNCHANGED <<facts, settings, occurrences, notices, read, outbox, registrations>>

\* Only the settings given are written: those already so are left out here.
UpdateSettings(u) ==
    /\ ~SettingsLocked(u)
    /\ \/ consent' = [consent EXCEPT ![u] = ~@] /\ UNCHANGED push_enabled
       \/ push_enabled' = [push_enabled EXCEPT ![u] = ~@] /\ UNCHANGED consent
    /\ UNCHANGED <<facts, rows, registrations>>

\* A device belongs to the user who registered it last.
Register(u, d) ==
    /\ tokens' = [e \in DOMAIN tokens \cup {d} |->
                      IF e = d THEN [user |-> u, stale |-> FALSE] ELSE tokens[e]]
    /\ UNCHANGED <<facts, settings, rows, dead>>

Unregister(u, d) ==
    /\ d \in DOMAIN tokens /\ tokens[d].user = u
    /\ tokens' = [e \in DOMAIN tokens \ {d} |-> tokens[e]]
    /\ UNCHANGED <<facts, settings, rows, dead>>

\* The user's row and devices go; notifications, settings and receipts stay.
Withdraw(u) ==
    /\ u \in DOMAIN registered
    /\ registered' = [v \in DOMAIN registered \ {u} |-> registered[v]]
    /\ tokens' = [d \in {e \in DOMAIN tokens : tokens[e].user # u} |-> tokens[d]]
    /\ UNCHANGED <<receipts, settings, rows, dead>>

DeleteReceipt(i) ==
    /\ receipts' = [j \in DOMAIN receipts \ {i} |-> receipts[j]]
    /\ UNCHANGED <<registered, settings, rows, registrations>>

Change ==
    /\ changes < MaxChanges
    /\ changes' = changes + 1
    /\ \/ \E n \in DOMAIN notices : Delete(n)
       \/ \E u \in DOMAIN consent : UpdateSettings(u) \/ Withdraw(u)
       \/ \E u \in DOMAIN consent, d \in devices : Register(u, d) \/ Unregister(u, d)
       \/ \E i \in DOMAIN receipts : DeleteReceipt(i)
    /\ UNCHANGED <<fixed, run, push, reader, faults>>

\* The job that deletes registrations no device has renewed for long.
CleanUpStale ==
    /\ \E d \in DOMAIN tokens : tokens[d].stale
    /\ tokens' = [d \in {e \in DOMAIN tokens : ~tokens[e].stale} |-> tokens[d]]
    /\ UNCHANGED <<fixed, facts, settings, rows, dead, run, push, reader, budgets>>

\* An application is removed from its device: its token is dead for good.
Expire(d) ==
    /\ changes < MaxChanges /\ d \notin dead
    /\ changes' = changes + 1
    /\ dead' = dead \cup {d}
    /\ UNCHANGED <<fixed, facts, settings, rows, tokens, run, push, reader, faults>>

-----------------------------------------------------------------------------
(* What the properties observe *)

\* Who is owed a notification of a rule, by the wording of the rule: no pages.
OwedReceipts(rule, c) ==
    {i \in DOMAIN receipts :
        /\ receipts[i].expires_on = TargetDate(c) + rule.day_offset
        /\ receipts[i].created < ObservationCutoff(rule, c)
        /\ receipts[i].user \in DOMAIN registered /\ receipts[i].named}
OwedUsers(rule, c) ==
    {u \in DOMAIN registered :
        LET before == ReceiptsOf(receipts, u, ObservationCutoff(rule, c))
            first == FirstDueDay(rule)
            age == RegistrationAge(registered[u], TargetDate(c))
            due == {first + k * rule.interval : k \in 0..age} IN
        /\ Consents(u)
        /\ registered[u] < ObservationCutoff(rule, c)
        /\ age \in due
        /\ rule.kind = "unregistered_receipt" => before = {}
        /\ rule.kind = "inactive_receipt" =>
               /\ before # {}
               /\ \A i \in before :
                      receipts[i].created < Instant(TargetDate(c) - rule.lookback, 0)}
Owed(r) ==
    IF command[r].dry_run THEN {}
    ELSE UNION {
        LET rule == rules[k] IN
        IF command[r].key \notin {None, rule.key} \/ ~IsDue(rule, command[r]) \/ LacksLookback(rule)
        THEN {}
        ELSE {<<rule.key, s, TargetDate(command[r])>> :
                  s \in IF IsMarketing(rule) THEN OwedUsers(rule, command[r])
                        ELSE OwedReceipts(rule, command[r])} :
        k \in DOMAIN rules}

\* What holds of a dispatch's notification now.
Holding(w) ==
    IF push[w].pc \in {"idle", "stopped"} THEN {}
    ELSE LET u == notices[push[w].notice].user IN
        {d \in DOMAIN tokens : tokens[d].user = u}
        \cup (IF push[w].notice \in deleted THEN {} ELSE {"notification"})
        \cup (IF Consents(u) THEN {"consent"} ELSE {})
        \cup (IF WantsPush(u) THEN {"push_enabled"} ELSE {})

Observe ==
    /\ steady' = [r \in Runs |->
           IF run[r].pc = "idle" /\ run'[r].pc # "idle" THEN Owed(r)'
           ELSE IF run'[r].pc \in {"idle", "done", "failed"} \/ UNCHANGED <<facts, settings>>
           THEN steady[r]
           ELSE steady[r] \cap Owed(r)']
    /\ seen' = [w \in Workers |->
           IF push[w].pc # "idle" /\ push'[w].pc # "idle" THEN seen[w] \cup Holding(w)'
           ELSE Holding(w)']

Next ==
    /\ \/ \E r \in Runs : RunStep(r) \/ Abort(r)
       \/ \E w \in Workers : PushStep(w) \/ Swallow(w) \/ Crash(w)
       \/ ReadStep
       \/ Change
       \/ CleanUpStale
       \/ \E d \in devices : Expire(d)
    /\ Observe

Fairness ==
    /\ \A r \in Runs : WF_vars(RunStep(r) /\ Observe)
    /\ \A w \in Workers : WF_vars(PushStep(w) /\ Observe)
    /\ WF_vars(ReadStep /\ Observe)

-----------------------------------------------------------------------------
(* Properties *)

\* However many runs there are, together or one after another, and wherever
\* they stop: an occurrence has one notification, and a reserved occurrence
\* has one (create_due_notifications/use_case.py:178, one transaction).
OccurrenceNotifiedOnce ==
    /\ \A m, n \in DOMAIN notices : notices[m].occ = notices[n].occ => m = n
    /\ occurrences = {notices[n].occ : n \in DOMAIN notices}

\* A run that reaches its end has notified everyone who was owed it all the
\* time: paging skips nobody, and nothing another run rolled back is lost
\* (receipt_reminder_notifications.py:63, ON CONFLICT in reserve).
CompletedRunMissesNobody ==
    \A r \in Runs : run[r].pc = "done" => steady[r] \subseteq occurrences

\* Marketing is created, and marked as read, only under the user's consent at
\* that moment (get_settings_for_update, repository.py:204).
ConsentGuardsMarketing ==
    [][/\ \A n \in DOMAIN notices' \ DOMAIN notices :
              notices'[n].marketing => Consents(notices'[n].user)
       /\ \A n \in read' \ read :
              notices[n].marketing => Consents(notices[n].user) /\ n \notin deleted]_vars

\* A message is sent for a notification, to a device, only if at some moment
\* since its dispatch began the notification existed, its user wanted it and
\* had that device (send_notification_push/use_case.py:49).
PushOnlyWhileWanted ==
    [][\A w \in Workers : push[w].pc = "send" /\ push'[w].pc = "report" =>
           /\ push[w].tokens \cup {"notification", "push_enabled"} \subseteq seen[w]
           /\ notices[push[w].notice].marketing => "consent" \in seen[w]]_vars

\* A message has been sent to d, and FCM's report on it is being dealt with.
Reported(d) == \E w \in Workers : push[w].pc = "report" /\ d \in push[w].tokens

\* A registration goes only when a message was sent to its token and the token is
\* dead, for the one who has it now as well; when it is stale; or when the user
\* who has it now gives it up (delete_by_tokens, delete_stale, unregister).
RegistrationKept ==
    [][\A d \in DOMAIN tokens \ DOMAIN tokens' :
           \/ d \in dead /\ Reported(d)
           \/ tokens[d].stale
           \/ Unregister(tokens[d].user, d)
           \/ Withdraw(tokens[d].user)]_vars

\* Every run ends and every event is handled: nobody waits for ever.
EverythingEnds ==
    <>[](/\ \A r \in Runs : run[r].pc \in {"done", "failed"}
         /\ \A w \in Workers : push[w].pc \in {"idle", "stopped"}
         /\ outbox = {} \/ \A w \in Workers : push[w].pc = "stopped")

-----------------------------------------------------------------------------
(* Why: the states the processes begin in, and the inductive invariants of  *)
(* the proofs                                                               *)

\* What commands, rules, users and receipts are: a batch has a row
\* (command.py:29) and a rule a key of its own (schedule_rule_orm.py:57).
TypedWorld ==
    /\ rules \in Seq({rules[k] : k \in DOMAIN rules})
    /\ \A k \in DOMAIN rules : ValidRule(rules[k]) /\ rules[k].send_hour \in 0..23
    /\ \A k, l \in DOMAIN rules : rules[k].key = rules[l].key => k = l
    /\ \A r \in Runs : command[r].batch \in Nat \ {0} /\ TargetDate(command[r]) \in Int
    /\ IsFiniteSet(DOMAIN registered) /\ DOMAIN registered \subseteq Int
    /\ \A u \in DOMAIN registered : registered[u] \in Int
    /\ IsFiniteSet(DOMAIN receipts) /\ DOMAIN receipts \subseteq Int
    /\ \A i \in DOMAIN receipts : receipts[i].created \in Int

\* Any database without an occurrence that is notified twice, and processes
\* that have not begun.
AtRest ==
    /\ TypedWorld
    /\ notices \in Seq({notices[n] : n \in DOMAIN notices})
    /\ OccurrenceNotifiedOnce
    /\ deleted \subseteq DOMAIN notices /\ read \subseteq DOMAIN notices
    /\ outbox \subseteq DOMAIN notices
    /\ consent \in [DOMAIN consent -> BOOLEAN]
    /\ run \in [Runs -> {IdleRun, [IdleRun EXCEPT !.pc = "done"]}]
    /\ push \in [Workers -> {IdlePush, [IdlePush EXCEPT !.pc = "stopped"]}]
    /\ DOMAIN reader = {"pc", "notice"} /\ reader.pc \in {"idle", "done"}
    /\ steady = [r \in Runs |-> {}] /\ seen = [w \in Workers |-> {}]

NotificationSpec == AtRest /\ [][Next]_vars

Reserving(r) == run[r].pc \in {"held", "locked"}

RunTypes ==
    /\ notices \in Seq({notices[n] : n \in DOMAIN notices})
    /\ consent \in [DOMAIN consent -> BOOLEAN]
    /\ DOMAIN run = Runs /\ \A r \in Runs : DOMAIN run[r] = DOMAIN IdleRun
    /\ DOMAIN reader = {"pc", "notice"}
    /\ reader.pc \in {"settings", "row"} => reader.notice \in DOMAIN notices

\* A reservation is of one run and of an occurrence that has no row yet.
ReservationsExclude ==
    /\ \A r \in Runs : Reserving(r) => Due(r).occ \notin occurrences
    /\ \A q, r \in Runs : Reserving(q) /\ Reserving(r) /\ Due(q).occ = Due(r).occ => q = r

\* What was read under a lock is so until the lock is given up.
LockedIsCurrent ==
    /\ \A r \in Runs : run[r].pc = "locked" /\ run[r].agreed => Consents(Due(r).user)
    /\ reader.pc = "row" => Visible(reader.notice)

\* Why one occurrence has one notification, and marketing needs consent.
RunInvariant ==
    RunTypes /\ OccurrenceNotifiedOnce /\ ReservationsExclude /\ LockedIsCurrent

\* Where a run is: between rules, in front of a page, or in the middle of one.
Working(r) == run[r].pc \in {"page", "activity", "item", "held", "locked"}

\* What a run has to do is of its rule, and in order.
RightToDo(r) ==
    LET todo == run[r].todo IN
    /\ todo \in Seq({todo[j] : j \in DOMAIN todo})
    /\ run[r].pc \in {"idle", "rule", "page", "activity"} => todo = <<>>
    /\ Reserving(r) => todo # <<>>
    /\ \A j \in DOMAIN todo :
          LET s == todo[j].occ[2] IN
          /\ todo[j].occ = <<Rule(r).key, s, TargetDate(command[r])>>
          /\ IsMarketing(Rule(r)) => todo[j].user = s /\ todo[j].valid
          /\ ~IsMarketing(Rule(r)) =>
                 (s \in DOMAIN receipts /\ receipts[s].named => todo[j].valid)

Cursors(r) == {None} \cup (IF IsMarketing(Rule(r)) THEN [registered : Int, user : Int] ELSE Int)

RightPosition(r) ==
    /\ run[r].pc \in {"idle", "rule"} =>
          run[r].next = None /\ run[r].activity = None /\ run[r].facts = {}
    /\ run[r].pc = "rule" => run[r].rule \in Nat \ {0}
    /\ Working(r) =>
          /\ run[r].rule \in DOMAIN rules
          /\ run[r].cursor \in Cursors(r) /\ run[r].next \in Cursors(r)
          /\ run[r].activity \in Int \cup {None}
          /\ run[r].pc = "page" => run[r].activity = None
          /\ IsFiniteSet(run[r].facts) /\ run[r].facts \subseteq Int
          /\ run[r].activity # None \/ run[r].pc = "activity" =>
                 Rule(r).kind \in {"unregistered_receipt", "inactive_receipt"}

\* The pages of a rule that are still to be read have a subject.
Follows(r, cursor, s) ==
    IF IsMarketing(Rule(r)) THEN AfterFact(registered, cursor, s)
    ELSE cursor # None => s > cursor
InLaterPage(r, s) ==
    \/ run[r].pc = "page" /\ Follows(r, run[r].cursor, s)
    \/ run[r].pc # "page" /\ run[r].next # None /\ Follows(r, run[r].next, s)
    \/ /\ run[r].pc = "activity" \/ run[r].activity # None
       /\ s \in run[r].facts
       /\ run[r].activity # None => s > run[r].activity

\* A run has yet to come to an occurrence.
Ahead(r, occ) ==
    \/ \E k \in DOMAIN rules :
          /\ rules[k].key = occ[1]
          /\ k > run[r].rule \/ (k = run[r].rule /\ run[r].pc = "rule")
    \/ Working(r) /\ Rule(r).key = occ[1] /\ InLaterPage(r, occ[2])
    \/ Working(r) /\ \E j \in DOMAIN run[r].todo : run[r].todo[j].occ = occ

MissesNobody(r) ==
    /\ run[r].pc = "rule" \/ Working(r) =>
          \A occ \in steady[r] : occ \in Owed(r) /\ (occ \in occurrences \/ Ahead(r, occ))
    /\ run[r].pc = "locked" /\ Due(r).occ \in steady[r] => run[r].agreed
    /\ run[r].pc = "done" => steady[r] \subseteq occurrences

\* Why a run that is completed has missed nobody.
ScanInvariant ==
    TypedWorld /\ \A r \in Runs : RightToDo(r) /\ RightPosition(r) /\ MissesNobody(r)

DispatchTypes ==
    /\ outbox \subseteq DOMAIN notices
    /\ DOMAIN push = Workers
    /\ \A w \in Workers :
          /\ DOMAIN push[w] = DOMAIN IdlePush
          /\ push[w].pc \notin {"idle", "stopped"} => push[w].notice \in DOMAIN notices

\* A dispatch has seen what its decisions rest on, and reports only
\* registrations that are gone for good.
Saw(w) ==
    LET pc == push[w].pc IN
    /\ pc \in {"settings", "tokens", "send"} => "notification" \in seen[w]
    /\ pc \in {"tokens", "send"} =>
          /\ "push_enabled" \in seen[w]
          /\ notices[push[w].notice].marketing => "consent" \in seen[w]
    /\ pc = "send" => push[w].tokens \subseteq seen[w]
    /\ pc = "report" => push[w].invalid \subseteq push[w].tokens /\ push[w].invalid \subseteq dead

\* Why pushes are wanted, and registrations are kept.
DispatchInvariant == DispatchTypes /\ \A w \in Workers : Saw(w)

=============================================================================
