------------------------------- MODULE Receipts -------------------------------
(***************************************************************************)
(* The receipts module: requests that create, change, delete and list      *)
(* receipts, each a transaction at READ COMMITTED that locks no row before *)
(* it writes it.                                                           *)
(*                                                                         *)
(* An action is one statement, with the computation and the end of the     *)
(* transaction that follow it.  item_name stands for the columns that no   *)
(* rule relates to another one.  A date is a number: month * 32 + day.     *)
(***************************************************************************)
EXTENDS Integers, Sequences, FiniteSets, SequencesExt

CONSTANTS
    Null,       \* null
    Keep,       \* a field that a request leaves out
    Requests,
    today

VARIABLES
    receipts,     \* committed rows
    attachments,  \* committed rows of receipt_attachments: receipt, file, by
    command,      \* what each request asks for
    request,      \* how far it has come
    pager,        \* a client that lists receipts page by page
    alone,        \* of a request: nobody else changed its receipt meanwhile
    steady        \* receipts that were listed under one key since the pager began

rvars == <<receipts, attachments, command, request, pager, alone, steady>>

-----------------------------------------------------------------------------
(* Receipt.create *)

MonthDays == <<31, 28, 31, 30, 31, 30, 31, 31, 30, 31, 30, 31>>  \* no leap years
DateOf(month, day) == month * 32 + day
Dates == {d \in Int : d % 32 \in 1..MonthDays[((d \div 32) % 12) + 1]}

\* Neither null nor a field left out is a number, and null is no cursor.
ASSUME FieldsAssumption ==
    /\ Null \notin Int \cup [key : Int, id : Int]
    /\ Keep \notin Int /\ Keep # Null
    /\ today \in Dates

\* The same day some months later, or the last one of that month.
AddMonths(date, months) ==
    LET month == date \div 32 + months
        last == MonthDays[(month % 12) + 1]
        day == date % 32 IN
    DateOf(month, IF day > last THEN last ELSE day)

\* Days of the calendar.
DaysBefore == <<0, 31, 59, 90, 120, 151, 181, 212, 243, 273, 304, 334>>
DayNumber(date) ==
    LET month == date \div 32 IN
    365 * (month \div 12) + DaysBefore[(month % 12) + 1] + (date % 32)
DaysUntil(date) == DayNumber(date) - DayNumber(today)

MaxMonths == 60
DefaultMonths == 12
MaxAmount == 999999999
MaxFiles == 5

Columns == {"item_name", "payment_date", "total_amount", "period_months", "expires_on"}

\* legacy: the columns whose stored value may stay above today's limit.
Accepted(new, images, legacy) ==
    /\ Null \notin {new.item_name, new.payment_date, new.period_months}
    /\ new.payment_date <= today
    /\ new.total_amount # Null =>
           /\ new.total_amount >= 0
           /\ new.total_amount <= MaxAmount \/ "total_amount" \in legacy
    /\ new.period_months >= 1
    /\ new.period_months <= MaxMonths \/ "period_months" \in legacy
    /\ images # Null /\ Cardinality(images) \in 1..MaxFiles
    /\ new.expires_on # Null => new.expires_on >= new.payment_date

\* Only an expiry that is not given is computed.
Completed(new) ==
    IF new.expires_on # Null THEN new
    ELSE [new EXCEPT !.expires_on = AddMonths(new.payment_date, new.period_months)]

-----------------------------------------------------------------------------
(* UpdateReceipt: the fields given over the receipt that was read *)

\* Mutant: an expiry is kept although the dates it was computed from change.
ExpiryKept(c, current) ==
    IF c.expires_on # Keep THEN c.expires_on ELSE current.expires_on

ResolvedExpiry(c, current) ==
    IF c.expires_on # Keep THEN c.expires_on
    ELSE IF \E f \in {"payment_date", "period_months"} : c[f] # Keep /\ c[f] # current[f]
    THEN Null
    ELSE current.expires_on

Merged(c, current) ==
    [f \in Columns |->
        IF f = "expires_on" THEN ResolvedExpiry(c, current)
        ELSE IF c[f] # Keep THEN c[f] ELSE current[f]]

MergedFiles(c, images) == IF c.files # Keep THEN c.files ELSE images

Grandfathered(c, current) ==
    {f \in {"total_amount"} : c[f] = Keep /\ current[f] # Null /\ current[f] > MaxAmount}
    \cup {f \in {"period_months"} : c[f] = Keep /\ current[f] > MaxMonths}

-----------------------------------------------------------------------------
(* Rows and locks *)

Target(r) == command[r].receipt
FilesOf(i) == {a.file : a \in {b \in attachments : b.receipt = i}}
RowsOf(i) == {a \in attachments : a.receipt = i}

\* The columns the unit of work finds changed: only they are written.
Dirty(r) == {f \in Columns : request[r].new[f] # request[r].base[f]}

Deleting(r) == request[r].pc \in {"cascade", "deleted"}
Writing(r) == request[r].pc \in {"clear", "clearing", "attach", "commit"} /\ Dirty(r) # {}
\* FOR KEY SHARE, by the foreign key of the rows just inserted.
Sharing(r) == request[r].pc = "commit"

\* Whom the next statement of a request waits for.
Blockers(r) ==
    {s \in Requests \ {r} :
        /\ Target(s) = Target(r)
        /\ CASE request[r].pc = "flush" -> Dirty(r) # {} /\ (Writing(s) \/ Deleting(s))
             [] request[r].pc \in {"clearing", "cascade"} ->
                    request[s].gone \cap request[r].seen # {}
             [] request[r].pc = "attach" ->
                    \/ Deleting(s)
                    \/ Sharing(s) /\ request[s].files \cap request[r].files # {}
                    \/ \E a \in request[s].gone \ request[r].gone : a.file \in request[r].files
             [] request[r].pc = "remove" -> Writing(s) \/ Deleting(s) \/ Sharing(s)
             [] OTHER -> FALSE}

\* PostgreSQL ends one of the transactions that wait for each other.
Deadlocked(r) ==
    \E S \in SUBSET Requests : r \in S /\ \A s \in S : Blockers(s) \cap S # {}

Fresh == [pc |-> "start", read |-> Null, new |-> Null, base |-> Null, files |-> {},
          seen |-> {}, gone |-> {}]

Ended(r) == request[r].pc \in {"created", "updated", "gone", "not_found", "invalid", "failed"}
Began(r) == request[r].pc # "start" /\ ~Ended(r)

Ends(r, answer) == request' = [request EXCEPT ![r] = [Fresh EXCEPT !.pc = answer]]

Unwritten == UNCHANGED <<receipts, attachments, command, pager>>

-----------------------------------------------------------------------------
(* Requests *)

\* CreateReceipt: nobody sees the rows before they are committed.
Create(r) ==
    /\ command[r].op = "create" /\ request[r].pc = "start"
    /\ LET c == command[r].given
           period == IF c.period_months = Null THEN DefaultMonths ELSE c.period_months
           new == [f \in Columns |-> IF f = "period_months" THEN period ELSE c[f]] IN
       \/ /\ Accepted(new, c.files, {})
          /\ receipts' = [i \in DOMAIN receipts \cup {Target(r)} |->
                 IF i = Target(r)
                     THEN [row |-> Completed(new), user |-> command[r].user,
                           created |-> command[r].now]
                 ELSE receipts[i]]
          /\ attachments' = attachments \cup
                 [receipt : {Target(r)}, file : c.files, by : {r}]
          /\ Ends(r, "created")
       \/ /\ ~Accepted(new, c.files, {})
          /\ Ends(r, "invalid")
          /\ UNCHANGED <<receipts, attachments>>
    /\ UNCHANGED <<command, pager>>

Find(r) ==
    /\ command[r].op \in {"update", "delete"} /\ request[r].pc = "start"
    /\ \/ Target(r) \notin DOMAIN receipts /\ Ends(r, "not_found")
       \/ /\ Target(r) \in DOMAIN receipts
          /\ request' = [request EXCEPT
                 ![r].pc = IF command[r].op = "update" THEN "files" ELSE "remove",
                 ![r].read = receipts[Target(r)].row]
    /\ Unwritten

\* The attachments are read; then the receipt is built from what is stored
\* and what is given, and validated as a whole.
ReadFiles(r) ==
    /\ request[r].pc = "files"
    /\ LET c == command[r].given
           new == Merged(c, request[r].read)
           images == MergedFiles(c, FilesOf(Target(r))) IN
       \/ /\ Accepted(new, images, Grandfathered(c, request[r].read))
          /\ request' = [request EXCEPT ![r].pc = "load", ![r].new = Completed(new),
                                        ![r].files = images]
       \/ /\ ~Accepted(new, images, Grandfathered(c, request[r].read))
          /\ Ends(r, "invalid")
    /\ Unwritten

\* The row is read once more, to be written to.
Load(r) ==
    /\ request[r].pc = "load"
    /\ \/ Target(r) \notin DOMAIN receipts /\ Ends(r, "not_found")
       \/ /\ Target(r) \in DOMAIN receipts
          /\ request' = [request EXCEPT ![r].pc = "flush", ![r].base = receipts[Target(r)].row]
    /\ Unwritten

\* UPDATE, when there is something to write; a row that is gone is an error.
Flush(r) ==
    /\ request[r].pc = "flush" /\ Blockers(r) = {}
    /\ \/ /\ Dirty(r) # {} /\ Target(r) \notin DOMAIN receipts
          /\ Ends(r, "failed")
       \/ /\ Dirty(r) = {} \/ Target(r) \in DOMAIN receipts
          /\ request' = [request EXCEPT ![r].pc = "clear"]
    /\ Unwritten

\* DELETE FROM receipt_attachments: it sees the rows committed when it starts.
Clear(r) ==
    /\ request[r].pc = "clear"
    /\ request' = [request EXCEPT ![r].pc = "clearing", ![r].seen = RowsOf(Target(r))]
    /\ Unwritten

\* ... and deletes those of them that are still there when it gets to them.
Cleared(r) ==
    /\ request[r].pc = "clearing" /\ Blockers(r) = {}
    /\ request' = [request EXCEPT ![r].pc = "attach",
                                  ![r].gone = request[r].seen \cap attachments]
    /\ Unwritten

\* Mutant: no foreign key.
AttachUnchecked(r) ==
    /\ request[r].pc = "attach" /\ Blockers(r) = {}
    /\ LET taken == {a.file : a \in RowsOf(Target(r)) \ request[r].gone} IN
       IF taken \cap request[r].files # {} THEN Ends(r, "failed")
       ELSE request' = [request EXCEPT ![r].pc = "commit"]
    /\ Unwritten

\* INSERT: the foreign key and the unique pair of receipt and file.
Attach(r) ==
    /\ request[r].pc = "attach" /\ Blockers(r) = {}
    /\ LET taken == {a.file : a \in RowsOf(Target(r)) \ request[r].gone} IN
       \/ /\ Target(r) \notin DOMAIN receipts \/ taken \cap request[r].files # {}
          /\ Ends(r, "failed")
       \/ /\ Target(r) \in DOMAIN receipts /\ taken \cap request[r].files = {}
          /\ request' = [request EXCEPT ![r].pc = "commit"]
    /\ Unwritten

CommitUpdate(r) ==
    /\ request[r].pc = "commit"
    /\ receipts' = [receipts EXCEPT ![Target(r)].row =
           [f \in Columns |-> IF f \in Dirty(r) THEN request[r].new[f] ELSE @[f]]]
    /\ attachments' = (attachments \ request[r].gone)
           \cup [receipt : {Target(r)}, file : request[r].files, by : {r}]
    /\ Ends(r, "updated")
    /\ UNCHANGED <<command, pager>>

\* DELETE FROM receipts; a row that is gone already is no error.
DeleteRow(r) ==
    /\ request[r].pc = "remove" /\ Blockers(r) = {}
    /\ request' = [request EXCEPT ![r].pc = "cascade", ![r].seen = RowsOf(Target(r))]
    /\ Unwritten

Cascade(r) ==
    /\ request[r].pc = "cascade" /\ Blockers(r) = {}
    /\ request' = [request EXCEPT ![r].pc = "deleted", ![r].gone = RowsOf(Target(r))]
    /\ Unwritten

CommitDelete(r) ==
    /\ request[r].pc = "deleted"
    /\ receipts' = [i \in DOMAIN receipts \ {Target(r)} |-> receipts[i]]
    /\ attachments' = attachments \ request[r].gone
    /\ Ends(r, "gone")
    /\ UNCHANGED <<command, pager>>

\* A deadlock, and the rollback that ends it.
Abort(r) ==
    /\ Blockers(r) # {} /\ Deadlocked(r)
    /\ Ends(r, "failed")
    /\ Unwritten

\* The connection or the process is lost: the transaction is rolled back.
Lose(r) ==
    /\ Began(r)
    /\ Ends(r, "failed")
    /\ Unwritten

RequestStep(r) ==
    \/ Create(r) \/ Find(r) \/ ReadFiles(r) \/ Load(r) \/ Flush(r) \/ Clear(r) \/ Cleared(r)
    \/ Attach(r) \/ CommitUpdate(r) \/ DeleteRow(r) \/ Cascade(r) \/ CommitDelete(r) \/ Abort(r)

-----------------------------------------------------------------------------
(* ListReceipts: a client follows the cursors *)

\* warranty_status, of a row.
WarrantyStatus(row) ==
    IF row.expires_on < today THEN "expired"
    ELSE IF DaysUntil(row.expires_on) <= 30 THEN "expiring" ELSE "active"

\* list_conditions
Listed(i) ==
    LET days == DaysUntil(receipts[i].row.expires_on) IN
    /\ receipts[i].user = pager.user
    /\ CASE pager.status = "all" -> TRUE
         [] pager.status = "active" -> days > 30
         [] pager.status = "expiring" -> days \in 0..30
         [] pager.status = "expired" -> days < 0

Key(i) ==
    CASE pager.sort = "recent" -> receipts[i].created
      [] pager.sort = "expiresOn" -> receipts[i].row.expires_on
      [] pager.sort = "purchaseDate" -> receipts[i].row.payment_date
      [] pager.sort = "title" -> receipts[i].row.item_name

Descending == pager.sort \in {"recent", "purchaseDate"}

\* The order of the list: by the key, then by the id, both in its direction.
Precedes(k, i, l, j) ==
    IF Descending THEN k > l \/ (k = l /\ i > j) ELSE k < l \/ (k = l /\ i < j)

\* Mutant: rows of the cursor's own key are taken to be on its page.
AfterCursorsKey(i) ==
    pager.cursor # Null =>
        IF Descending THEN pager.cursor.key > Key(i) ELSE pager.cursor.key < Key(i)

\* cursor_condition
AfterCursor(i) ==
    pager.cursor # Null => Precedes(pager.cursor.key, pager.cursor.id, Key(i), i)

\* ORDER BY
Ordered(rows) ==
    CHOOSE s \in [1..Cardinality(rows) -> rows] :
        \A k, l \in DOMAIN s : k < l => Precedes(Key(s[k]), s[k], Key(s[l]), s[l])

ReadPage ==
    /\ pager.pc = "page"
    /\ LET sorted == Ordered({i \in DOMAIN receipts : Listed(i) /\ AfterCursor(i)})
           more == Len(sorted) > pager.limit
           page == IF more THEN SubSeq(sorted, 1, pager.limit) ELSE sorted IN
       pager' = [pager EXCEPT
           !.pc = IF more THEN "page" ELSE "end",
           !.cursor = IF more THEN [key |-> Key(Last(page)), id |-> Last(page)] ELSE Null,
           !.got = @ \o page]
    /\ UNCHANGED <<receipts, attachments, command, request>>

-----------------------------------------------------------------------------
(* What the properties observe *)

ObserveReceipts ==
    /\ alone' = [r \in Requests |->
           /\ alone[r]
           /\ Began(r) /\ Began(r)' /\ Target(r) \in DOMAIN receipts =>
                  /\ Target(r) \in DOMAIN receipts'
                  /\ receipts'[Target(r)] = receipts[Target(r)]
                  /\ RowsOf(Target(r))' = RowsOf(Target(r))]
    /\ steady' = {i \in steady :
           \/ pager.pc = "end"
           \/ /\ i \in DOMAIN receipts'
              /\ pager.status \in {"all", WarrantyStatus(receipts'[i].row)}
              /\ Key(i)' = Key(i)}

ReceiptsNext ==
    /\ (\E r \in Requests : RequestStep(r) \/ Lose(r)) \/ ReadPage
    /\ ObserveReceipts

ReceiptsFairness ==
    /\ \A r \in Requests : WF_rvars(RequestStep(r) /\ ObserveReceipts)
    /\ WF_rvars(ReadPage /\ ObserveReceipts)

-----------------------------------------------------------------------------
(* Properties *)

\* What a partial update makes of a receipt, field by field.
Patch(row, c) ==
    LET given(f) == IF c[f] = Keep THEN row[f] ELSE c[f]
        dates(x) == <<x.payment_date, x.period_months>>
        new == [f \in Columns |-> given(f)] IN
    [new EXCEPT !.expires_on =
        CASE c.expires_on \notin {Keep, Null} -> c.expires_on
          [] c.expires_on = Keep /\ dates(new) = dates(row) -> row.expires_on
          [] OTHER -> AddMonths(new.payment_date, new.period_months)]

\* A stored receipt that breaks no rule, but for the limits that receipts
\* stored before them need not keep.
Lawful(i) == Accepted(receipts[i].row, FilesOf(i), {"total_amount", "period_months"})

\* Unless another request changes the receipt meanwhile, an update changes
\* what it was given and the expiry that follows from it, nothing else; and a
\* new name alone is never refused, whatever older rules have let in, unless
\* updates that raced before left the receipt against the rules
\* (update_receipt/use_case.py:33, grandfathered amounts and periods).
LoneUpdateIsPatch ==
    [][\A r \in Requests :
           LET i == Target(r)
               c == command[r].given
               only_name == \A f \in DOMAIN c \ {"item_name"} : c[f] = Keep IN
           /\ request[r].pc = "commit" /\ request'[r].pc = "updated" /\ alone[r] =>
                  /\ receipts'[i] = [receipts[i] EXCEPT !.row = Patch(@, c)]
                  /\ FilesOf(i)' = IF c.files = Keep THEN FilesOf(i) ELSE c.files
           /\ request[r].pc = "files" /\ request'[r].pc = "invalid" /\ alone[r] /\ Lawful(i) =>
                  ~only_name \/ c.item_name = Null]_rvars

\* Following the cursors shows every receipt that is listed under one key all
\* the time, and shows it once, whatever is written between two pages
\* (listing.py:63).
PagesShowEachOnce ==
    pager.pc = "end" =>
        \A i \in steady : Cardinality({k \in DOMAIN pager.got : pager.got[k] = i}) = 1

\* No attachment outlives its receipt, whoever deletes and attaches at once
\* (receipts/infrastructure/persistence/orm.py:110).
AttachmentsHaveReceipts == \A a \in attachments : a.receipt \in DOMAIN receipts

\* A stored receipt always has one to five images (receipts/api/schemas.py:149).
AttachmentLimit == \A i \in DOMAIN receipts : Cardinality(RowsOf(i)) \in 1..MaxFiles

-----------------------------------------------------------------------------
(* Why: the states requests begin in, and the inductive invariant of the     *)
(* proofs                                                                    *)

\* A title is its place in the order of titles.
TypedRow(row) ==
    /\ DOMAIN row = Columns
    /\ row.item_name \in Int
    /\ {row.payment_date, row.expires_on} \subseteq Dates
    /\ row.period_months \in Int
    /\ row.total_amount \in Int \cup {Null}

TypedReceipts ==
    /\ DOMAIN receipts \subseteq Int /\ IsFiniteSet(DOMAIN receipts)
    /\ \A i \in DOMAIN receipts :
          /\ DOMAIN receipts[i] = {"row", "user", "created"}
          /\ TypedRow(receipts[i].row)
          /\ receipts[i].created \in Int

TypedFields(c) ==
    /\ DOMAIN c = Columns \cup {"files"}
    /\ {c.payment_date, c.expires_on} \subseteq Dates \cup {Null, Keep}
    /\ {c.item_name, c.period_months, c.total_amount} \subseteq Int \cup {Null, Keep}

\* The id of a new receipt is new.
TypedCommands ==
    \A r \in Requests :
        /\ TypedFields(command[r].given)
        /\ command[r].op = "create" =>
              /\ \A f \in Columns : command[r].given[f] # Keep
              /\ command[r].now \in Int /\ Target(r) \in Int
              /\ \A s \in Requests \ {r} : Target(s) # Target(r)
              /\ request[r].pc = "start" => Target(r) \notin DOMAIN receipts

TypedPager ==
    /\ DOMAIN pager = {"pc", "user", "status", "sort", "limit", "cursor", "got"}
    /\ pager.pc \in {"page", "end"}
    /\ pager.status \in {"all", "active", "expiring", "expired"}
    /\ pager.sort \in {"recent", "expiresOn", "purchaseDate", "title"}
    /\ pager.limit \in Nat \ {0}
    /\ pager.got \in Seq(Int)
    /\ pager.cursor # Null => pager.cursor \in [key : Int, id : Int]

\* Any receipts, of which no request under way has read one, and a client
\* that begins to list some of them, or does not.
ReceiptsAtRest ==
    /\ TypedReceipts /\ TypedCommands /\ AttachmentsHaveReceipts
    /\ request \in [Requests -> {Fresh, [Fresh EXCEPT !.pc = "not_found"]}]
    /\ TypedPager
    /\ \/ pager.pc = "end" /\ steady = {}
       \/ /\ pager.pc = "page" /\ pager.cursor = Null /\ pager.got = <<>>
          /\ steady \subseteq {i \in DOMAIN receipts : Listed(i)}

ReceiptsSpec == ReceiptsAtRest /\ [][ReceiptsNext]_rvars

Merging(r) == request[r].pc \in {"load", "flush", "clear", "clearing", "attach", "commit"}

RequestTypes ==
    /\ DOMAIN request = Requests
    /\ \A r \in Requests :
          /\ DOMAIN request[r] = DOMAIN Fresh
          /\ Began(r) => TypedRow(request[r].read)
          /\ Merging(r) => TypedRow(request[r].new)

\* A row just attached keeps its receipt, and a deletion sees every row there is.
LocksHold ==
    \A r, s \in Requests :
        /\ Sharing(r) => Target(r) \in DOMAIN receipts
        /\ Sharing(r) /\ Deleting(s) => Target(s) # Target(r)
        /\ request[s].pc = "deleted" => RowsOf(Target(s)) \subseteq request[s].gone

\* What a request that is alone has read is what is stored.
Undisturbed(r) ==
    LET i == Target(r)
        c == command[r].given
        now == request[r] IN
    Began(r) /\ alone[r] =>
        /\ i \in DOMAIN receipts /\ now.read = receipts[i].row
        /\ Merging(r) => /\ now.new = Completed(Merged(c, receipts[i].row))
                         /\ now.files = MergedFiles(c, FilesOf(i))
        /\ Merging(r) /\ now.pc # "load" => now.base = receipts[i].row
        /\ now.pc = "clearing" => now.seen = RowsOf(i)
        /\ now.pc \in {"attach", "commit"} => now.gone = RowsOf(i)

\* Why attachments have their receipts, and lone updates change what they should.
ReceiptsInvariant ==
    /\ TypedReceipts /\ TypedCommands /\ RequestTypes
    /\ AttachmentsHaveReceipts /\ LocksHold
    /\ \A r \in Requests : Undisturbed(r)

Shown(i) == \E k \in DOMAIN pager.got : pager.got[k] = i

\* Pages have shown a steady receipt if it is not after the cursor, and not twice.
PagesInvariant ==
    /\ TypedPager
    /\ pager.pc = "page" => steady \subseteq {i \in DOMAIN receipts : Listed(i)}
    /\ pager.pc = "page" => \A i \in steady : Shown(i) <=> pager.cursor # Null /\ ~AfterCursor(i)
    /\ pager.pc = "end" => \A i \in steady : Shown(i)
    /\ \A i \in steady : \A k, l \in DOMAIN pager.got :
          pager.got[k] = i /\ pager.got[l] = i => k = l

=============================================================================
