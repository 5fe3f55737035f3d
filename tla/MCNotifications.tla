--------------------------- MODULE MCNotifications ---------------------------
(* Five worlds: two runs over the users a rule is due to, two runs over     *)
(* receipts, dispatches of two notifications, the dispatch of one with two  *)
(* changes, and a little of everything.                                     *)
EXTENDS Notifications, TLC

CONSTANTS d1, d2

MCRuns == 1..2
MCWorkers == 1..2

Today == 100
Command(key, batch) ==
    [now |-> Instant(Today, 9), target_date |-> None, key |-> key, dry_run |-> FALSE,
     batch |-> batch]
Receipt(u, created, expires_on) ==
    [user |-> u, created |-> created, expires_on |-> expires_on, named |-> TRUE]
NoReceipts == <<>>
Nobody == <<>>
Joined(days) == Instant(Today - days, 0)

Stopped == [w \in Workers |-> [IdlePush EXCEPT !.pc = "stopped"]]

\* Everything not said: no notifications, no devices, consent of all, nothing to do.
Blank ==
    /\ occurrences = {} /\ notices = <<>> /\ deleted = {} /\ read = {} /\ outbox = {}
    /\ dead = {}
    /\ changes = MaxChanges - 1 /\ faults = 0
    /\ steady = [r \in Runs |-> {}] /\ seen = [w \in Workers |-> {}]
    /\ push_enabled = [u \in DOMAIN consent |-> TRUE]

\* Users of whom two registered at the same instant; one has old receipts, one
\* a receipt of yesterday; a page holds one row.  The rules come one at a time
\* or with one that lacks its lookback.
Reminders ==
    /\ rules \in {<<SeededRules[1]>>, <<SeededRules[2], SeededRules[3]>>,
                  <<SeededRules[3], Engagement("without_lookback", "inactive_receipt", None, 7, None)>>}
    /\ registered = (1 :> Joined(14)) @@ (2 :> Joined(14)) @@ (3 :> Joined(28))
    /\ receipts \in {NoReceipts,
                     (1 :> Receipt(1, Instant(Today - 9, 0), 500))
                     @@ (2 :> Receipt(2, Instant(Today - 1, 0), 500))
                     @@ (3 :> Receipt(1, Instant(Today - 8, 0), 500))}
    /\ consent \in {[u \in 1..3 |-> u # 3], [u \in 1..3 |-> TRUE]}
    /\ devices = {} /\ tokens = Nobody
    /\ push = Stopped
    /\ command \in {(1 :> Command(None, 1)) @@ (2 :> Command(rules[1].key, 2))}
    /\ run = [r \in Runs |-> IdleRun]
    /\ reader = [pc |-> "done", notice |-> 0]

Warranties ==
    /\ rules = <<SeededRules[4], SeededRules[6]>>
    /\ registered = (1 :> Joined(50)) @@ (2 :> Joined(50))
    /\ receipts = (1 :> Receipt(1, Joined(20), Today)) @@ (2 :> Receipt(2, Joined(20), Today))
                  @@ (3 :> [Receipt(1, Joined(20), Today) EXCEPT !.named = FALSE])
                  @@ (4 :> Receipt(2, Joined(20), Today + 7))
                  @@ (5 :> Receipt(3, Joined(20), Today))
    /\ consent = [u \in 1..3 |-> FALSE]
    /\ devices = {} /\ tokens = Nobody
    /\ push = Stopped
    /\ command = (1 :> Command(None, 1))
                 @@ (2 :> [Command(None, 2) EXCEPT !.target_date = Today,
                                                   !.now = Instant(Today + 1, 0)])
    /\ run = [r \in Runs |-> IdleRun]
    /\ reader = [pc |-> "done", notice |-> 0]

\* Two notifications of one user, one of them marketing; each user has a device.
\* Both are dispatched while there is one change, or the first while there are two.
Dispatches ==
    /\ rules = <<>>
    /\ registered = (1 :> Joined(14)) @@ (2 :> Joined(14))
    /\ receipts = NoReceipts
    /\ consent = [u \in 1..2 |-> TRUE]
    /\ devices = {d1, d2}
    /\ tokens = (d1 :> [user |-> 1, stale |-> FALSE]) @@ (d2 :> [user |-> 2, stale |-> TRUE])
    /\ command = [r \in Runs |-> Command(None, 1)]
    /\ run = [r \in Runs |-> [IdleRun EXCEPT !.pc = "done"]]
    /\ reader = [pc |-> "idle", notice |-> 1]

Announced ==
    /\ notices = <<[occ |-> <<"a", 1, Today>>, user |-> 1, marketing |-> TRUE],
                   [occ |-> <<"b", 1, Today>>, user |-> 1, marketing |-> FALSE]>>
    /\ occurrences = {notices[n].occ : n \in 1..2}
    /\ deleted = {} /\ read = {} /\ dead = {}
    /\ \/ /\ outbox = {1, 2} /\ changes = MaxChanges - 1
          /\ push = [w \in Workers |-> IdlePush]
       \/ /\ outbox = {1} /\ changes = 0
          /\ push = [Stopped EXCEPT ![1] = IdlePush]
    /\ faults = 0
    /\ steady = [r \in Runs |-> {}] /\ seen = [w \in Workers |-> {}]
    /\ push_enabled = [u \in DOMAIN consent |-> TRUE]

\* One run, of which the other is a rehearsal; the user may read what it creates.
Together ==
    /\ rules = <<SeededRules[1]>>
    /\ registered = (1 :> Joined(14))
    /\ receipts = NoReceipts
    /\ consent = [u \in 1..1 |-> TRUE]
    /\ devices = {d1}
    /\ tokens = (d1 :> [user |-> 1, stale |-> FALSE])
    /\ push = [Stopped EXCEPT ![1] = IdlePush]
    /\ command = (1 :> Command(None, 1)) @@ (2 :> [Command(None, 1) EXCEPT !.dry_run = TRUE])
    /\ run = [r \in Runs |-> IdleRun]
    /\ reader = [pc |-> "idle", notice |-> 1]

Init ==
    /\ \/ (Reminders \/ Warranties \/ Together) /\ Blank
       \/ Dispatches /\ Announced
    /\ AtRest

Spec == Init /\ [][Next]_vars /\ Fairness
=============================================================================
