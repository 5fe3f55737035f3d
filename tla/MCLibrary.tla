------------------------------ MODULE MCLibrary ------------------------------
(* Worlds: two or three requests about one receipt; a client that pages      *)
(* through the receipts of a user while requests change them; three calls    *)
(* about the files and the profile image of a user.                          *)
EXTENDS Library

CONSTANTS u1, u2, f1, f2, f3, f4, f5, f6

MCRequests == 1..3
MCCalls == 1..4

\* 15 June of the second year.
MCToday == 17 * 32 + 15

Given == [f \in Columns \cup {"files"} |-> Keep]
Update(i, given) == [op |-> "update", receipt |-> i, user |-> 1, given |-> given, now |-> 0]
DeleteOf(i) == [op |-> "delete", receipt |-> i, user |-> 1, given |-> Given, now |-> 0]
\* No request: one that finds nothing.
Nothing == DeleteOf(99)

\* Bought on 31 January, for 13 months; an old row with what is not allowed today.
Bought == DateOf(12, 31)
Row == [item_name |-> 1, payment_date |-> Bought, total_amount |-> Null, period_months |-> 1,
        expires_on |-> DateOf(13, 28)]
OldRow == [Row EXCEPT !.total_amount = MaxAmount + 1, !.period_months = 72,
                      !.expires_on = DateOf(84, 31)]
Stored(row, created) == [row |-> row, user |-> 1, created |-> created]
Attached(i, images) == [receipt : {i}, file : images, by : {0}]

Updates == {
    [Given EXCEPT !.item_name = 2],
    [Given EXCEPT !.total_amount = Null],
    [Given EXCEPT !.payment_date = Bought - 1],
    [Given EXCEPT !.payment_date = Bought, !.item_name = 3],
    [Given EXCEPT !.period_months = 13],
    [Given EXCEPT !.expires_on = DateOf(13, 1)],
    [Given EXCEPT !.expires_on = Null, !.period_months = 2],
    [Given EXCEPT !.files = {f1, f3}],
    [Given EXCEPT !.files = {f2}],
    [Given EXCEPT !.payment_date = MCToday + 1],
    [Given EXCEPT !.files = Null]}
Creation(i) == [op |-> "create", receipt |-> i, user |-> 1, now |-> 5, given |->
    [Row EXCEPT !.expires_on = Null, !.period_months = Null] @@ ("files" :> {f1})]

NoPager == [pc |-> "end", user |-> 1, status |-> "all", sort |-> "title", limit |-> 1,
            cursor |-> Null, got |-> <<>>]

\* Any two updates, or an update and deletions, of one receipt.
Races ==
    /\ receipts \in {1 :> Stored(Row, 1), 1 :> Stored(OldRow, 1)}
    /\ attachments = Attached(1, {f1, f2})
    /\ command \in
           {[r \in Requests |-> IF r = 3 THEN Nothing ELSE Update(1, u[r])] :
                u \in [1..2 -> Updates]}
           \cup {<<Update(1, u), DeleteOf(1), DeleteOf(1)>> : u \in Updates}
           \cup {<<Update(1, [Given EXCEPT !.files = {f1, f2, f3}]),
                   Update(1, [Given EXCEPT !.files = {f4, f5, f6}]),
                   Update(1, [Given EXCEPT !.item_name = 2])>>}
           \cup {<<Update(1, u), [Creation(2) EXCEPT !.given.files = {}], Nothing>> :
                      u \in Updates}
           \cup {<<Update(1, [Given EXCEPT !.files = {f3, f4}]),
                   Update(1, [Given EXCEPT !.files = {f3, f5}]),
                   Update(1, [Given EXCEPT !.files = {f6}])>>}
           \cup {<<Update(1, [Given EXCEPT !.files = {f2}]), DeleteOf(1),
                   Update(1, [Given EXCEPT !.item_name = 2])>>}
    /\ pager = NoPager
    /\ steady = {}

\* Five receipts, some with equal keys, one of another user.
Lists ==
    /\ receipts = (1 :> Stored(Row, 1)) @@ (2 :> Stored([Row EXCEPT !.item_name = 2], 1))
                  @@ (3 :> Stored([Row EXCEPT !.expires_on = MCToday + 3], 2))
                  @@ (4 :> [Stored(Row, 2) EXCEPT !.user = 2])
                  @@ (5 :> Stored([Row EXCEPT !.payment_date = Bought - 9,
                                              !.expires_on = MCToday + 96], 3))
    /\ attachments = UNION {Attached(i, {f1}) : i \in 1..5}
    /\ command = <<Creation(6),
                   Update(2, [Given EXCEPT !.item_name = 0, !.payment_date = Bought - 2]),
                   DeleteOf(3)>>
    /\ pager \in [pc : {"page"}, user : {1}, status : {"all", "active", "expiring", "expired"},
                  sort : {"recent", "expiresOn", "purchaseDate", "title"}, limit : {1, 2},
                  cursor : {Null}, got : {<<>>}]
    /\ steady = {i \in DOMAIN receipts : Listed(i)}

ReceiptWorlds ==
    /\ Races \/ Lists
    /\ request = [r \in Requests |-> Fresh]
    /\ alone = [r \in Requests |-> TRUE]
    /\ files = <<>> /\ objects = {} /\ profile_image = <<>>
    /\ asks = [c \in Calls |-> [kind |-> "clear", user |-> u1, file |-> None]]
    /\ call = [c \in Calls |-> [Started EXCEPT !.pc = "not_found"]]
    /\ faults = 0
    /\ in_use = [c \in Calls |-> FALSE]

\* Call 1 has uploaded two files; its user may have one of
\* them as profile image; three calls follow.
Ask(kind, user, file) == [kind |-> kind, user |-> user, file |-> file]
Upload(valid) == [kind |-> "upload", user |-> u1, file |-> None, valid |-> valid]
Picture == <<1, 1>>
FollowUps ==
    {Ask(kind, u1, Picture) : kind \in {"delete", "download", "set"}}
    \cup {Ask("set", u1, <<1, 2>>), Ask("clear", u1, None), Ask("delete", u2, Picture),
          Ask("withdraw", u1, None), Upload(<<TRUE, TRUE>>), Upload(<<TRUE, FALSE>>)}

FileWorlds ==
    /\ asks \in {<<Upload(<<TRUE, TRUE>>)>> \o s : s \in [1..3 -> FollowUps]}
    /\ call = [c \in Calls |->
           IF c = 1 THEN [Started EXCEPT !.pc = "created", !.stored = 2] ELSE Started]
    /\ files = [f \in {<<1, 1>>, <<1, 2>>} |-> u1]
    /\ objects = DOMAIN files
    /\ profile_image \in [{u1} -> {None, Picture}]
    /\ faults = 0
    /\ in_use = [c \in Calls |-> Pictured(c)]
    /\ receipts = <<>> /\ attachments = {}
    /\ command = [r \in Requests |-> Nothing]
    /\ request = [r \in Requests |-> [Fresh EXCEPT !.pc = "not_found"]]
    /\ pager = NoPager
    /\ alone = [r \in Requests |-> TRUE] /\ steady = {}

Init == (ReceiptWorlds \/ FileWorlds) /\ FilesAtRest /\ ReceiptsAtRest

Spec == Init /\ [][Next]_vars /\ Fairness
=============================================================================
