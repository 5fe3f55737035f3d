---------------------------- MODULE ReceiptsProofs ----------------------------
(***************************************************************************)
(* Safety of Receipts for any requests and receipts: locks keep every      *)
(* attachment with its receipt, and an update that is alone changes what   *)
(* it was given.  At the end, of files and receipts over one database.     *)
(***************************************************************************)
EXTENDS Library, FilesProofs, SetFacts, SequenceTheorems, TLAPS

-----------------------------------------------------------------------------
(* Receipts and what an update makes of them *)

LEMMA MonthsHaveDays ==
    /\ \A k \in 1..12 : MonthDays[k] \in 28..31
    /\ \A month \in Int : (month % 12) + 1 \in 1..12
BY DEF MonthDays

LEMMA AddMonthsIsDate ==
    ASSUME NEW date \in Dates, NEW months \in Int
    PROVE  AddMonths(date, months) \in Dates
<1> DEFINE month == date \div 32 + months
           last == MonthDays[(month % 12) + 1]
           day == IF date % 32 > last THEN last ELSE date % 32
<1>1. month \in Int /\ last \in 28..31 /\ date % 32 \in 1..31
  BY MonthsHaveDays DEF Dates
<1>2. AddMonths(date, months) = month * 32 + day
  BY DEF AddMonths, DateOf
<1> HIDE DEF month, last
<1>3. day \in 1..last /\ day \in 1..31
  BY <1>1
<1> HIDE DEF day
<1>4. /\ month * 32 + day \in Int
      /\ (month * 32 + day) \div 32 = month /\ (month * 32 + day) % 32 = day
  BY <1>1, <1>3
<1> QED  BY <1>2, <1>3, <1>4 DEF Dates, last

LEMMA CompletedIsTyped ==
    ASSUME NEW new, DOMAIN new = Columns, new.item_name \in Int,
           new.payment_date \in Dates, new.period_months \in Int,
           new.expires_on \in Dates \cup {Null}, new.total_amount \in Int \cup {Null}
    PROVE  TypedRow(Completed(new))
<1>1. AddMonths(new.payment_date, new.period_months) \in Dates
  BY AddMonthsIsDate
<1> QED  BY <1>1 DEF TypedRow, Completed, Columns

LEMMA MergedIsTyped ==
    ASSUME NEW c, TypedFields(c), NEW row, TypedRow(row), NEW images, NEW legacy,
           Accepted(Merged(c, row), images, legacy)
    PROVE  TypedRow(Completed(Merged(c, row)))
<1> DEFINE new == Merged(c, row)
<1>1. /\ DOMAIN new = Columns
      /\ new.payment_date = IF c.payment_date # Keep THEN c.payment_date ELSE row.payment_date
      /\ new.period_months = IF c.period_months # Keep THEN c.period_months ELSE row.period_months
      /\ new.total_amount = IF c.total_amount # Keep THEN c.total_amount ELSE row.total_amount
      /\ new.expires_on = ResolvedExpiry(c, row)
      /\ new.item_name = IF c.item_name # Keep THEN c.item_name ELSE row.item_name
  BY DEF Merged, Columns
<1>2. new.payment_date # Null /\ new.period_months # Null /\ new.item_name # Null
  BY DEF Accepted
<1>3. ResolvedExpiry(c, row) \in Dates \cup {Null}
  BY DEF ResolvedExpiry, TypedFields, TypedRow
<1> HIDE DEF new
<1>4. /\ new.payment_date \in Dates /\ new.period_months \in Int /\ new.item_name \in Int
      /\ new.total_amount \in Int \cup {Null} /\ new.expires_on \in Dates \cup {Null}
  BY <1>1, <1>2, <1>3 DEF TypedFields, TypedRow
<1>5. TypedRow(Completed(new))
  BY <1>1, <1>4, CompletedIsTyped
<1> QED  BY <1>5 DEF new

\* The receipt that an update builds is the one its fields say.
LEMMA MergedIsPatch ==
    ASSUME NEW c, TypedFields(c), NEW row, TypedRow(row)
    PROVE  Completed(Merged(c, row)) = Patch(row, c)
<1> DEFINE new == Merged(c, row)
           given == [f \in Columns |-> IF c[f] = Keep THEN row[f] ELSE c[f]]
           computed == AddMonths(given.payment_date, given.period_months)
<1>1. /\ new = [f \in Columns |-> IF f = "expires_on" THEN ResolvedExpiry(c, row) ELSE given[f]]
      /\ DOMAIN new = Columns /\ new.expires_on = ResolvedExpiry(c, row)
      /\ new.payment_date = given.payment_date /\ new.period_months = given.period_months
  BY DEF Merged, Columns
<1>2. Completed(new) = [f \in Columns |-> IF f # "expires_on" THEN given[f]
                           ELSE IF ResolvedExpiry(c, row) # Null THEN ResolvedExpiry(c, row)
                           ELSE computed]
  BY <1>1 DEF Completed, Columns
<1> DEFINE dates(x) == <<x.payment_date, x.period_months>>
           patched == CASE c.expires_on \notin {Keep, Null} -> c.expires_on
                        [] c.expires_on = Keep /\ dates(given) = dates(row) -> row.expires_on
                        [] OTHER -> computed
<1>3. Patch(row, c) = [given EXCEPT !.expires_on = patched]
  BY DEF Patch
<1>4. /\ given.payment_date = IF c.payment_date = Keep THEN row.payment_date ELSE c.payment_date
      /\ given.period_months = IF c.period_months = Keep THEN row.period_months ELSE c.period_months
  BY DEF Columns
<1> HIDE DEF given, computed
<1>5. patched = IF ResolvedExpiry(c, row) # Null THEN ResolvedExpiry(c, row) ELSE computed
  <2>1. row.expires_on # Null
    BY FieldsAssumption DEF TypedRow, Dates
  <2>2. CASE c.expires_on = Null
    BY <2>2, FieldsAssumption DEF ResolvedExpiry
  <2>3. CASE c.expires_on \notin {Keep, Null}
    BY <2>3 DEF ResolvedExpiry
  <2>4. CASE c.expires_on = Keep /\ dates(given) = dates(row)
    <3>1. ResolvedExpiry(c, row) = row.expires_on
      BY <1>4, <2>4 DEF ResolvedExpiry
    <3> QED  BY <2>1, <2>4, <3>1
  <2>5. CASE c.expires_on = Keep /\ dates(given) # dates(row)
    <3>1. ResolvedExpiry(c, row) = Null
      BY <1>4, <2>5 DEF ResolvedExpiry
    <3> QED  BY <2>5, <3>1
  <2> QED  BY <2>2, <2>3, <2>4, <2>5
<1> HIDE DEF patched
<1>6. [given EXCEPT !.expires_on = patched] =
        [f \in Columns |-> IF f = "expires_on" THEN patched ELSE given[f]]
  BY DEF given, Columns
<1> QED  BY <1>2, <1>3, <1>5, <1>6

-----------------------------------------------------------------------------
(* Steps *)

\* A request that is alone and waits finds what it has read.
LEMMA StaysUndisturbed ==
    ASSUME ReceiptsInvariant, ObserveReceipts, command' = command,
           NEW s \in Requests, request'[s] = request[s]
    PROVE  Undisturbed(s)'
<1> SUFFICES ASSUME Began(s)', alone'[s] PROVE Undisturbed(s)'
  BY DEF Undisturbed
<1> DEFINE i == Target(s)
<1>1. Began(s) /\ alone[s] /\ Undisturbed(s) /\ i' = i
  BY DEF Began, Ended, ObserveReceipts, ReceiptsInvariant, Target
<1>2. i \in DOMAIN receipts
  BY <1>1 DEF Undisturbed
<1>3. i \in DOMAIN receipts' /\ receipts'[i] = receipts[i] /\ RowsOf(i)' = RowsOf(i)
  BY <1>1, <1>2 DEF ObserveReceipts
<1>4. FilesOf(i)' = FilesOf(i)
  BY <1>3 DEF FilesOf, RowsOf
<1>5. Merging(s)' = Merging(s)
  BY DEF Merging
<1> HIDE DEF i
<1> QED  BY <1>1, <1>3, <1>4, <1>5 DEF Undisturbed, i

\* Steps that change no committed row.
LEMMA QuietRequest ==
    ASSUME ReceiptsInvariant, ObserveReceipts, NEW q \in Requests,
           UNCHANGED <<receipts, attachments, command>>,
           DOMAIN request' = Requests, \A r \in Requests : r # q => request'[r] = request[r],
           DOMAIN request'[q] = DOMAIN Fresh, request'[q].pc # "start",
           Began(q)' => TypedRow(request'[q].read),
           Merging(q)' => TypedRow(request'[q].new),
           Sharing(q)' => /\ Target(q) \in DOMAIN receipts
                          /\ \A s \in Requests \ {q} : Deleting(s) => Target(s) # Target(q),
           Deleting(q)' => \A s \in Requests \ {q} : Sharing(s) => Target(s) # Target(q),
           request'[q].pc = "deleted" => RowsOf(Target(q)) \subseteq request'[q].gone,
           Undisturbed(q)'
    PROVE  ReceiptsInvariant'
<1>0. /\ TypedReceipts /\ TypedCommands /\ RequestTypes /\ AttachmentsHaveReceipts /\ LocksHold
      /\ \A r \in Requests : Target(r)' = Target(r)
  BY DEF ReceiptsInvariant, Target
<1>1. TypedReceipts' /\ TypedCommands' /\ AttachmentsHaveReceipts'
  BY <1>0 DEF TypedReceipts, TypedCommands, AttachmentsHaveReceipts
<1>2. RequestTypes'
  BY <1>0 DEF RequestTypes, Began, Ended, Merging
<1>3. LocksHold'
  <2> SUFFICES ASSUME NEW r \in Requests, NEW s \in Requests
               PROVE  /\ Sharing(r)' => Target(r) \in DOMAIN receipts
                      /\ Sharing(r)' /\ Deleting(s)' => Target(s) # Target(r)
                      /\ request'[s].pc = "deleted" => RowsOf(Target(s)) \subseteq request'[s].gone
    BY <1>0 DEF LocksHold, RowsOf
  <2>1. \A b \in Requests \ {q} : (Sharing(b)' <=> Sharing(b)) /\ (Deleting(b)' <=> Deleting(b))
    BY DEF Sharing, Deleting
  <2>2. ~(Sharing(q)' /\ Deleting(q)')
    BY DEF Sharing, Deleting
  <2> QED  BY <1>0, <2>1, <2>2 DEF LocksHold
<1>4. \A r \in Requests : Undisturbed(r)'
  BY StaysUndisturbed
<1> QED  BY <1>1, <1>2, <1>3, <1>4 DEF ReceiptsInvariant

LEMMA StepEnds ==
    ASSUME ReceiptsInvariant, ObserveReceipts, NEW q \in Requests, Unwritten,
           Ends(q, "not_found") \/ Ends(q, "invalid") \/ Ends(q, "failed")
    PROVE  ReceiptsInvariant'
<1>1. DOMAIN request = Requests /\ UNCHANGED <<receipts, attachments, command>>
  BY DEF ReceiptsInvariant, RequestTypes, Unwritten
<1>2. /\ DOMAIN request' = Requests /\ \A r \in Requests : r # q => request'[r] = request[r]
      /\ DOMAIN request'[q] = DOMAIN Fresh
      /\ request'[q].pc \in {"not_found", "invalid", "failed"}
  BY <1>1 DEF Ends, Fresh
<1>3. ~Began(q)' /\ ~Merging(q)' /\ ~Sharing(q)' /\ ~Deleting(q)' /\ request'[q].pc # "deleted"
  BY <1>2 DEF Began, Ended, Merging, Sharing, Deleting
<1>4. Undisturbed(q)'
  BY <1>3 DEF Undisturbed
<1> QED  BY <1>1, <1>2, <1>3, <1>4, QuietRequest

LEMMA StepOfFind ==
    ASSUME ReceiptsInvariant, ObserveReceipts, NEW q \in Requests, Find(q)
    PROVE  ReceiptsInvariant'
<1>1. CASE Ends(q, "not_found")
  BY <1>1, StepEnds DEF Find
<1>2. CASE ~Ends(q, "not_found")
  <2>1. /\ DOMAIN request = Requests /\ DOMAIN request[q] = DOMAIN Fresh
        /\ DOMAIN Fresh = {"pc", "read", "new", "base", "files", "seen", "gone"}
        /\ UNCHANGED <<receipts, attachments, command>>
        /\ Target(q) \in DOMAIN receipts /\ Target(q)' = Target(q)
        /\ TypedReceipts
    BY <1>2 DEF ReceiptsInvariant, RequestTypes, Find, Unwritten, Fresh, Target
  <2>2. /\ DOMAIN request' = Requests /\ \A r \in Requests : r # q => request'[r] = request[r]
        /\ DOMAIN request'[q] = DOMAIN Fresh /\ request'[q].pc \in {"files", "remove"}
        /\ request'[q].read = receipts[Target(q)].row
    BY <1>2, <2>1 DEF Find
  <2>3. ~Merging(q)' /\ ~Sharing(q)' /\ ~Deleting(q)' /\ request'[q].pc # "deleted"
    BY <2>2 DEF Merging, Sharing, Deleting
  <2>4. TypedRow(request'[q].read)
    BY <2>1, <2>2 DEF TypedReceipts
  <2>5. Undisturbed(q)'
    BY <2>1, <2>2, <2>3 DEF Undisturbed
  <2> QED  BY <2>1, <2>2, <2>3, <2>4, <2>5, QuietRequest
<1> QED  BY <1>1, <1>2

LEMMA StepOfReadFiles ==
    ASSUME ReceiptsInvariant, ObserveReceipts, NEW q \in Requests, ReadFiles(q)
    PROVE  ReceiptsInvariant'
<1>1. CASE Ends(q, "invalid")
  BY <1>1, StepEnds DEF ReadFiles
<1>2. CASE ~Ends(q, "invalid")
  <2> DEFINE c == command[q].given
             i == Target(q)
             new == Merged(c, request[q].read)
             images == MergedFiles(c, FilesOf(i))
  <2>1. /\ DOMAIN request = Requests /\ DOMAIN request[q] = DOMAIN Fresh
        /\ DOMAIN Fresh = {"pc", "read", "new", "base", "files", "seen", "gone"}
        /\ UNCHANGED <<receipts, attachments, command>> /\ request[q].pc = "files"
        /\ Accepted(new, images, Grandfathered(c, request[q].read))
        /\ request' = [request EXCEPT ![q].pc = "load", ![q].new = Completed(new),
                                      ![q].files = images]
        /\ Target(q)' = Target(q)
    BY <1>2 DEF ReceiptsInvariant, RequestTypes, ReadFiles, Unwritten, Fresh, Target
  <2>2. /\ DOMAIN request' = Requests /\ \A r \in Requests : r # q => request'[r] = request[r]
        /\ DOMAIN request'[q] = DOMAIN Fresh /\ request'[q].pc = "load"
        /\ request'[q].new = Completed(new) /\ request'[q].files = images
        /\ request'[q].read = request[q].read
    BY <2>1
  <2>3. /\ ~Sharing(q)' /\ ~Deleting(q)' /\ request'[q].pc # "deleted"
        /\ Began(q)' /\ Merging(q)' /\ Began(q)
    BY <2>1, <2>2 DEF Merging, Sharing, Deleting, Began, Ended
  <2>4. TypedRow(request[q].read) /\ TypedFields(c)
    BY <2>3 DEF ReceiptsInvariant, RequestTypes, TypedCommands, TypedFields
  <2>5. TypedRow(Completed(new))
    BY <2>1, <2>4, MergedIsTyped
  <2>6. Undisturbed(q)'
    <3>1. alone'[q] => alone[q]
      BY DEF ObserveReceipts
    <3>2. Undisturbed(q) /\ FilesOf(i)' = FilesOf(i)
      BY <2>1 DEF ReceiptsInvariant, FilesOf
    <3> HIDE DEF new, images
    <3>3. alone'[q] =>
            /\ i \in DOMAIN receipts /\ request[q].read = receipts[i].row
            /\ Completed(new) = Completed(Merged(c, receipts[i].row))
            /\ images = MergedFiles(c, FilesOf(i))
      BY <2>3, <3>1, <3>2 DEF Undisturbed, new, images
    <3> QED  BY <2>1, <2>2, <3>2, <3>3 DEF Undisturbed
  <2> QED  BY <2>1, <2>2, <2>3, <2>4, <2>5, <2>6, QuietRequest
<1> QED  BY <1>1, <1>2

\* A request goes on with what it has read and built.
LEMMA GoesOn ==
    ASSUME ReceiptsInvariant, ObserveReceipts, NEW q \in Requests, Unwritten, Began(q),
           DOMAIN request' = Requests, \A r \in Requests : r # q => request'[r] = request[r],
           DOMAIN request'[q] = DOMAIN Fresh, request'[q].pc # "start",
           request'[q].read = request[q].read, request'[q].new = request[q].new,
           request'[q].files = request[q].files,
           Merging(q)' => Merging(q),
           Sharing(q)' => /\ Target(q) \in DOMAIN receipts
                          /\ \A s \in Requests \ {q} : Deleting(s) => Target(s) # Target(q),
           Deleting(q)' => \A s \in Requests \ {q} : Sharing(s) => Target(s) # Target(q),
           request'[q].pc = "deleted" => RowsOf(Target(q)) \subseteq request'[q].gone,
           alone[q] =>
              /\ Merging(q)' /\ request'[q].pc # "load" =>
                    request'[q].base = receipts[Target(q)].row
              /\ request'[q].pc = "clearing" => request'[q].seen = RowsOf(Target(q))
              /\ request'[q].pc \in {"attach", "commit"} => request'[q].gone = RowsOf(Target(q))
    PROVE  ReceiptsInvariant'
<1>1. /\ UNCHANGED <<receipts, attachments, command>> /\ Target(q)' = Target(q)
      /\ FilesOf(Target(q))' = FilesOf(Target(q)) /\ RowsOf(Target(q))' = RowsOf(Target(q))
      /\ alone'[q] => alone[q]
      /\ Undisturbed(q)
  BY DEF Unwritten, Target, FilesOf, RowsOf, ObserveReceipts, ReceiptsInvariant
<1>2. TypedRow(request'[q].read) /\ (Merging(q)' => TypedRow(request'[q].new))
  BY DEF ReceiptsInvariant, RequestTypes
<1>3. Undisturbed(q)'
  BY <1>1 DEF Undisturbed
<1> QED  BY <1>1, <1>2, <1>3, QuietRequest

LEMMA StepOfUpdate ==
    ASSUME ReceiptsInvariant, ObserveReceipts, NEW q \in Requests,
           Load(q) \/ Flush(q) \/ Clear(q) \/ Cleared(q) \/ Attach(q)
    PROVE  ReceiptsInvariant'
<1>0. /\ DOMAIN request = Requests /\ DOMAIN request[q] = DOMAIN Fresh
      /\ DOMAIN Fresh = {"pc", "read", "new", "base", "files", "seen", "gone"}
      /\ Unwritten /\ Undisturbed(q)
  BY DEF ReceiptsInvariant, RequestTypes, Fresh, Load, Flush, Clear, Cleared, Attach
<1>1. CASE Ends(q, "not_found") \/ Ends(q, "failed")
  BY <1>0, <1>1, StepEnds
<1>2. CASE Load(q) /\ ~Ends(q, "not_found")
  <2>1. /\ request[q].pc = "load"
        /\ request' = [request EXCEPT ![q].pc = "flush", ![q].base = receipts[Target(q)].row]
    BY <1>2 DEF Load
  <2>2. /\ DOMAIN request' = Requests /\ \A r \in Requests : r # q => request'[r] = request[r]
        /\ DOMAIN request'[q] = DOMAIN Fresh /\ request'[q].pc = "flush"
        /\ request'[q].read = request[q].read /\ request'[q].new = request[q].new
        /\ request'[q].files = request[q].files /\ request'[q].base = receipts[Target(q)].row
    BY <1>0, <2>1
  <2>3. Began(q) /\ Merging(q) /\ ~Sharing(q)' /\ ~Deleting(q)'
    BY <2>1, <2>2 DEF Began, Ended, Merging, Sharing, Deleting
  <2> QED  BY <1>0, <2>2, <2>3, GoesOn
<1>3. CASE Flush(q) /\ ~Ends(q, "failed")
  <2>1. request[q].pc = "flush" /\ request' = [request EXCEPT ![q].pc = "clear"]
    BY <1>3 DEF Flush
  <2>2. /\ DOMAIN request' = Requests /\ \A r \in Requests : r # q => request'[r] = request[r]
        /\ DOMAIN request'[q] = DOMAIN Fresh /\ request'[q].pc = "clear"
        /\ request'[q].read = request[q].read /\ request'[q].new = request[q].new
        /\ request'[q].files = request[q].files /\ request'[q].base = request[q].base
    BY <1>0, <2>1
  <2>3. Began(q) /\ Merging(q) /\ ~Sharing(q)' /\ ~Deleting(q)'
    BY <2>1, <2>2 DEF Began, Ended, Merging, Sharing, Deleting
  <2>4. alone[q] => request[q].base = receipts[Target(q)].row
    BY <1>0, <2>1, <2>3 DEF Undisturbed
  <2> QED  BY <1>0, <2>2, <2>3, <2>4, GoesOn
<1>4. CASE Clear(q)
  <2>1. /\ request[q].pc = "clear"
        /\ request' = [request EXCEPT ![q].pc = "clearing", ![q].seen = RowsOf(Target(q))]
    BY <1>4 DEF Clear
  <2>2. /\ DOMAIN request' = Requests /\ \A r \in Requests : r # q => request'[r] = request[r]
        /\ DOMAIN request'[q] = DOMAIN Fresh /\ request'[q].pc = "clearing"
        /\ request'[q].read = request[q].read /\ request'[q].new = request[q].new
        /\ request'[q].files = request[q].files /\ request'[q].base = request[q].base
        /\ request'[q].seen = RowsOf(Target(q))
    BY <1>0, <2>1
  <2>3. Began(q) /\ Merging(q) /\ ~Sharing(q)' /\ ~Deleting(q)'
    BY <2>1, <2>2 DEF Began, Ended, Merging, Sharing, Deleting
  <2>4. alone[q] => request[q].base = receipts[Target(q)].row
    BY <1>0, <2>1, <2>3 DEF Undisturbed
  <2> QED  BY <1>0, <2>2, <2>3, <2>4, GoesOn
<1>5. CASE Cleared(q)
  <2>1. /\ request[q].pc = "clearing"
        /\ request' = [request EXCEPT ![q].pc = "attach",
                                      ![q].gone = request[q].seen \cap attachments]
    BY <1>5 DEF Cleared
  <2>2. /\ DOMAIN request' = Requests /\ \A r \in Requests : r # q => request'[r] = request[r]
        /\ DOMAIN request'[q] = DOMAIN Fresh /\ request'[q].pc = "attach"
        /\ request'[q].read = request[q].read /\ request'[q].new = request[q].new
        /\ request'[q].files = request[q].files /\ request'[q].base = request[q].base
        /\ request'[q].gone = request[q].seen \cap attachments
    BY <1>0, <2>1
  <2>3. Began(q) /\ Merging(q) /\ ~Sharing(q)' /\ ~Deleting(q)'
    BY <2>1, <2>2 DEF Began, Ended, Merging, Sharing, Deleting
  <2>4. alone[q] => request[q].base = receipts[Target(q)].row /\ request[q].seen = RowsOf(Target(q))
    BY <1>0, <2>1, <2>3 DEF Undisturbed
  <2>5. RowsOf(Target(q)) \cap attachments = RowsOf(Target(q))
    BY DEF RowsOf
  <2> QED  BY <1>0, <2>2, <2>3, <2>4, <2>5, GoesOn
<1>6. CASE Attach(q) /\ ~Ends(q, "failed")
  <2>1. /\ request[q].pc = "attach" /\ Blockers(q) = {} /\ Target(q) \in DOMAIN receipts
        /\ request' = [request EXCEPT ![q].pc = "commit"]
    BY <1>6 DEF Attach
  <2>2. /\ DOMAIN request' = Requests /\ \A r \in Requests : r # q => request'[r] = request[r]
        /\ DOMAIN request'[q] = DOMAIN Fresh /\ request'[q].pc = "commit"
        /\ request'[q].read = request[q].read /\ request'[q].new = request[q].new
        /\ request'[q].files = request[q].files /\ request'[q].base = request[q].base
        /\ request'[q].gone = request[q].gone
    BY <1>0, <2>1
  <2>3. Began(q) /\ Merging(q) /\ ~Deleting(q)'
    BY <2>1, <2>2 DEF Began, Ended, Merging, Deleting
  <2>4. alone[q] => request[q].base = receipts[Target(q)].row /\ request[q].gone = RowsOf(Target(q))
    BY <1>0, <2>1, <2>3 DEF Undisturbed
  <2>5. \A s \in Requests \ {q} : Deleting(s) => Target(s) # Target(q)
    BY <2>1 DEF Blockers
  <2> QED  BY <1>0, <2>1, <2>2, <2>3, <2>4, <2>5, GoesOn
<1> QED  BY <1>1, <1>2, <1>3, <1>4, <1>5, <1>6

LEMMA StepOfDelete ==
    ASSUME ReceiptsInvariant, ObserveReceipts, NEW q \in Requests, DeleteRow(q) \/ Cascade(q)
    PROVE  ReceiptsInvariant'
<1>0. /\ DOMAIN request = Requests /\ DOMAIN request[q] = DOMAIN Fresh
      /\ DOMAIN Fresh = {"pc", "read", "new", "base", "files", "seen", "gone"}
      /\ Unwritten /\ LocksHold
  BY DEF ReceiptsInvariant, RequestTypes, Fresh, DeleteRow, Cascade
<1>1. /\ request[q].pc \in {"remove", "cascade"} /\ request'[q].pc \in {"cascade", "deleted"}
      /\ DOMAIN request' = Requests /\ \A r \in Requests : r # q => request'[r] = request[r]
      /\ DOMAIN request'[q] = DOMAIN Fresh
      /\ request'[q].read = request[q].read /\ request'[q].new = request[q].new
      /\ request'[q].files = request[q].files
      /\ request'[q].pc = "deleted" => request'[q].gone = RowsOf(Target(q))
  BY <1>0 DEF DeleteRow, Cascade
<1>2. Began(q) /\ ~Merging(q)' /\ ~Sharing(q)'
  BY <1>1 DEF Began, Ended, Merging, Sharing
<1>3. \A s \in Requests \ {q} : Sharing(s) => Target(s) # Target(q)
  <2>1. CASE DeleteRow(q)
    BY <2>1 DEF DeleteRow, Blockers
  <2>2. CASE Cascade(q)
    BY <1>0, <2>2 DEF Cascade, LocksHold, Deleting
  <2> QED  BY <2>1, <2>2
<1> QED  BY <1>0, <1>1, <1>2, <1>3, GoesOn

\* A request that commits is over; the others find their receipts typed, their
\* attachments held and their locks kept.
LEMMA Commits ==
    ASSUME ReceiptsInvariant, ObserveReceipts, NEW q \in Requests, command' = command,
           DOMAIN request' = Requests, \A r \in Requests : r # q => request'[r] = request[r],
           DOMAIN request'[q] = DOMAIN Fresh, Ended(q)',
           TypedReceipts', AttachmentsHaveReceipts',
           DOMAIN receipts' \subseteq DOMAIN receipts \cup {Target(q)},
           \A r \in Requests \ {q} : Sharing(r) => Target(r) \in DOMAIN receipts',
           \A s \in Requests \ {q} : request[s].pc = "deleted" =>
              RowsOf(Target(s))' \subseteq RowsOf(Target(s))
    PROVE  ReceiptsInvariant'
<1>0. TypedCommands /\ RequestTypes /\ LocksHold /\ \A r \in Requests : Target(r)' = Target(r)
  BY DEF ReceiptsInvariant, Target
<1>1. TypedCommands'
  BY <1>0 DEF TypedCommands, Ended
<1>2. ~Began(q)' /\ ~Merging(q)' /\ ~Sharing(q)' /\ ~Deleting(q)' /\ request'[q].pc # "deleted"
  BY DEF Ended, Began, Merging, Sharing, Deleting
<1>3. RequestTypes'
  BY <1>0, <1>2 DEF RequestTypes, Began, Ended, Merging
<1>4. LocksHold'
  <2>1. \A b \in Requests \ {q} : (Sharing(b)' <=> Sharing(b)) /\ (Deleting(b)' <=> Deleting(b))
    BY DEF Sharing, Deleting
  <2>2. \A s \in Requests : request'[s].pc = "deleted" =>
          RowsOf(Target(s))' \subseteq request'[s].gone
    BY <1>0, <1>2 DEF LocksHold
  <2> QED  BY <1>0, <1>2, <2>1, <2>2 DEF LocksHold
<1>5. \A r \in Requests : Undisturbed(r)'
  BY <1>2, StaysUndisturbed DEF Undisturbed
<1> QED  BY <1>1, <1>3, <1>4, <1>5 DEF ReceiptsInvariant

LEMMA StepOfCreate ==
    ASSUME ReceiptsInvariant, ObserveReceipts, NEW q \in Requests, Create(q)
    PROVE  ReceiptsInvariant'
<1> DEFINE c == command[q].given
           period == IF c.period_months = Null THEN DefaultMonths ELSE c.period_months
           new == [f \in Columns |-> IF f = "period_months" THEN period ELSE c[f]]
           rows == [receipt : {Target(q)}, file : c.files, by : {q}]
<1>0. /\ TypedReceipts /\ TypedCommands /\ AttachmentsHaveReceipts /\ LocksHold
      /\ DOMAIN request = Requests /\ command' = command
      /\ command[q].op = "create"
  BY DEF ReceiptsInvariant, RequestTypes, Create
<1>1. CASE ~Accepted(new, c.files, {})
  BY <1>1, StepEnds DEF Create, Unwritten
<1>2. CASE Accepted(new, c.files, {})
  <2>1. /\ receipts' = [i \in DOMAIN receipts \cup {Target(q)} |->
                           IF i = Target(q)
                           THEN [row |-> Completed(new), user |-> command[q].user,
                                 created |-> command[q].now]
                           ELSE receipts[i]]
        /\ attachments' = attachments \cup rows /\ Ends(q, "created")
    BY <1>2 DEF Create
  <2>2. /\ DOMAIN request' = Requests /\ \A r \in Requests : r # q => request'[r] = request[r]
        /\ DOMAIN request'[q] = DOMAIN Fresh /\ Ended(q)'
    BY <1>0, <2>1 DEF Ends, Fresh, Ended
  <2>3. TypedRow(Completed(new))
    <3>1. /\ DOMAIN new = Columns /\ new.item_name = c.item_name
          /\ new.payment_date = c.payment_date /\ new.period_months = period
          /\ new.total_amount = c.total_amount /\ new.expires_on = c.expires_on
      BY DEF Columns
    <3>2. TypedFields(c) /\ \A f \in Columns : c[f] # Keep
      BY <1>0 DEF TypedCommands
    <3>3. new.payment_date # Null /\ new.item_name # Null /\ DefaultMonths \in Int
      BY <1>2 DEF Accepted, DefaultMonths
    <3>4. /\ {c.payment_date, c.expires_on} \subseteq Dates \cup {Null}
          /\ {c.item_name, c.period_months, c.total_amount} \subseteq Int \cup {Null}
      BY <3>2 DEF TypedFields, Columns
    <3> HIDE DEF new
    <3> QED  BY <3>1, <3>3, <3>4, CompletedIsTyped
  <2> HIDE DEF new
  <2>4. /\ DOMAIN receipts' = DOMAIN receipts \cup {Target(q)}
        /\ receipts'[Target(q)] = [row |-> Completed(new), user |-> command[q].user,
                                   created |-> command[q].now]
        /\ \A i \in DOMAIN receipts : i # Target(q) => receipts'[i] = receipts[i]
    BY <2>1
  <2>5. TypedReceipts'
    <3>1. Target(q) \in Int /\ command[q].now \in Int
      BY <1>0 DEF TypedCommands
    <3>2. IsFiniteSet(DOMAIN receipts')
      BY <1>0, <2>4, FS_AddElement DEF TypedReceipts
    <3> QED  BY <1>0, <2>3, <2>4, <3>1, <3>2 DEF TypedReceipts
  <2>6. \A a \in rows : a.receipt = Target(q)
    OBVIOUS
  <2> HIDE DEF rows
  <2>7. AttachmentsHaveReceipts'
    BY <1>0, <2>1, <2>4, <2>6 DEF AttachmentsHaveReceipts
  <2>8. \A r \in Requests \ {q} : Sharing(r) => Target(r) \in DOMAIN receipts'
    BY <1>0, <2>4 DEF LocksHold
  <2>9. \A s \in Requests \ {q} : RowsOf(Target(s))' \subseteq RowsOf(Target(s))
    <3>1. \A s \in Requests \ {q} : Target(s) # Target(q) /\ Target(s)' = Target(s)
      BY <1>0 DEF TypedCommands, Target
    <3> QED  BY <2>1, <2>6, <3>1 DEF RowsOf
  <2> QED  BY <1>0, <2>2, <2>4, <2>5, <2>7, <2>8, <2>9, Commits
<1> QED  BY <1>1, <1>2

LEMMA StepOfCommitUpdate ==
    ASSUME ReceiptsInvariant, ObserveReceipts, NEW q \in Requests, CommitUpdate(q)
    PROVE  ReceiptsInvariant'
<1> DEFINE i == Target(q)
           added == [receipt : {i}, file : request[q].files, by : {q}]
           row == [f \in Columns |-> IF f \in Dirty(q) THEN request[q].new[f]
                                     ELSE receipts[i].row[f]]
<1>0. /\ TypedReceipts /\ AttachmentsHaveReceipts /\ LocksHold
      /\ DOMAIN request = Requests /\ command' = command
      /\ Sharing(q) /\ Merging(q) /\ TypedRow(request[q].new)
      /\ receipts' = [receipts EXCEPT ![i].row = row]
      /\ attachments' = (attachments \ request[q].gone) \cup added
      /\ Ends(q, "updated")
  BY DEF ReceiptsInvariant, RequestTypes, CommitUpdate, Sharing, Merging
<1>1. /\ DOMAIN request' = Requests /\ \A r \in Requests : r # q => request'[r] = request[r]
      /\ DOMAIN request'[q] = DOMAIN Fresh /\ Ended(q)'
  BY <1>0 DEF Ends, Fresh, Ended
<1>2. /\ i \in DOMAIN receipts /\ TypedRow(receipts[i].row)
      /\ DOMAIN receipts[i] = {"row", "user", "created"} /\ receipts[i].created \in Int
  BY <1>0 DEF LocksHold, TypedReceipts
<1>3. TypedRow(row)
  BY <1>0, <1>2 DEF TypedRow, Columns
<1> HIDE DEF row
<1>4. /\ DOMAIN receipts' = DOMAIN receipts /\ receipts'[i] = [receipts[i] EXCEPT !.row = row]
      /\ \A j \in DOMAIN receipts : j # i => receipts'[j] = receipts[j]
  BY <1>0, <1>2
<1>5. /\ receipts'[i].row = row /\ DOMAIN receipts'[i] = {"row", "user", "created"}
      /\ receipts'[i].created \in Int
  BY <1>2, <1>4
<1>6. TypedReceipts'
  BY <1>0, <1>3, <1>4, <1>5 DEF TypedReceipts
<1>7. \A a \in added : a.receipt = i
  OBVIOUS
<1> HIDE DEF added
<1>8. AttachmentsHaveReceipts'
  BY <1>0, <1>2, <1>4, <1>7 DEF AttachmentsHaveReceipts
<1>9. \A r \in Requests \ {q} : Sharing(r) => Target(r) \in DOMAIN receipts'
  BY <1>0, <1>4 DEF LocksHold
<1>10. ASSUME NEW s \in Requests \ {q}, request[s].pc = "deleted"
       PROVE  RowsOf(Target(s))' \subseteq RowsOf(Target(s))
  <2>1. Target(s) # i /\ Target(s)' = Target(s)
    BY <1>0, <1>10 DEF LocksHold, Deleting, Target
  <2> QED  BY <1>0, <1>7, <2>1 DEF RowsOf
<1> QED  BY <1>0, <1>1, <1>4, <1>6, <1>8, <1>9, <1>10, Commits

LEMMA StepOfCommitDelete ==
    ASSUME ReceiptsInvariant, ObserveReceipts, NEW q \in Requests, CommitDelete(q)
    PROVE  ReceiptsInvariant'
<1> DEFINE i == Target(q)
<1>0. /\ TypedReceipts /\ AttachmentsHaveReceipts /\ LocksHold
      /\ DOMAIN request = Requests /\ command' = command
      /\ Deleting(q) /\ RowsOf(i) \subseteq request[q].gone
      /\ receipts' = [j \in DOMAIN receipts \ {i} |-> receipts[j]]
      /\ attachments' = attachments \ request[q].gone /\ Ends(q, "gone")
  BY DEF ReceiptsInvariant, RequestTypes, CommitDelete, Deleting, LocksHold
<1>1. /\ DOMAIN request' = Requests /\ \A r \in Requests : r # q => request'[r] = request[r]
      /\ DOMAIN request'[q] = DOMAIN Fresh /\ Ended(q)'
  BY <1>0 DEF Ends, Fresh, Ended
<1>2. /\ DOMAIN receipts' = DOMAIN receipts \ {i}
      /\ \A j \in DOMAIN receipts' : receipts'[j] = receipts[j]
  BY <1>0
<1>3. TypedReceipts'
  <2>1. IsFiniteSet(DOMAIN receipts')
    BY <1>0, <1>2, FS_RemoveElement DEF TypedReceipts
  <2> QED  BY <1>0, <1>2, <2>1 DEF TypedReceipts
<1>4. AttachmentsHaveReceipts'
  BY <1>0, <1>2 DEF AttachmentsHaveReceipts, RowsOf
<1>5. \A r \in Requests \ {q} : Sharing(r) => Target(r) \in DOMAIN receipts'
  BY <1>0, <1>2 DEF LocksHold
<1>6. \A s \in Requests : RowsOf(Target(s))' \subseteq RowsOf(Target(s))
  BY <1>0 DEF RowsOf, Target
<1> QED  BY <1>0, <1>1, <1>2, <1>3, <1>4, <1>5, <1>6, Commits

LEMMA ReceiptsStep ==
    ASSUME ReceiptsInvariant, [ReceiptsNext]_rvars
    PROVE  ReceiptsInvariant'
<1>1. ASSUME NEW q \in Requests, RequestStep(q) \/ Lose(q), ObserveReceipts
      PROVE  ReceiptsInvariant'
  <2>1. CASE Abort(q) \/ Lose(q)
    BY <1>1, <2>1, StepEnds DEF Abort, Lose
  <2> QED
    BY <1>1, <2>1, StepOfCreate, StepOfFind, StepOfReadFiles, StepOfUpdate, StepOfDelete,
       StepOfCommitUpdate, StepOfCommitDelete DEF RequestStep
<1>2. ASSUME UNCHANGED <<receipts, attachments, command, request>>,
             \A r \in Requests : alone'[r] => alone[r]
      PROVE  ReceiptsInvariant'
  <2>1. /\ \A i : RowsOf(i)' = RowsOf(i) /\ FilesOf(i)' = FilesOf(i)
        /\ \A r \in Requests : Target(r)' = Target(r)
    BY <1>2 DEF RowsOf, FilesOf, Target
  <2>2. \A r \in Requests :
          /\ Began(r)' = Began(r) /\ Merging(r)' = Merging(r)
          /\ Sharing(r)' = Sharing(r) /\ Deleting(r)' = Deleting(r)
    BY <1>2 DEF Began, Ended, Merging, Sharing, Deleting
  <2>3. TypedReceipts' /\ TypedCommands' /\ AttachmentsHaveReceipts'
    BY <1>2, <2>1 DEF ReceiptsInvariant, TypedReceipts, TypedCommands, AttachmentsHaveReceipts
  <2>4. RequestTypes' /\ LocksHold'
    BY <1>2, <2>1, <2>2 DEF ReceiptsInvariant, RequestTypes, LocksHold
  <2>5. ASSUME NEW r \in Requests
        PROVE  Undisturbed(r)'
    <3>1. Undisturbed(r)
      BY DEF ReceiptsInvariant
    <3>2. FilesOf(Target(r))' = FilesOf(Target(r)) /\ RowsOf(Target(r))' = RowsOf(Target(r))
      BY <2>1
    <3> QED  BY <1>2, <2>1, <2>2, <3>1, <3>2 DEF Undisturbed
  <2> QED  BY <2>3, <2>4, <2>5 DEF ReceiptsInvariant
<1>3. CASE ReadPage /\ ObserveReceipts
  BY <1>2, <1>3 DEF ReadPage, ObserveReceipts
<1>4. CASE UNCHANGED rvars
  BY <1>2, <1>4 DEF rvars
<1> QED  BY <1>1, <1>3, <1>4 DEF ReceiptsNext

-----------------------------------------------------------------------------
(* Theorems *)

\* Key-share locks, cascades and what requests read hold together
\* (receipts/infrastructure/persistence/repository.py:83-121).
THEOREM ReceiptsInvariantHolds == ReceiptsSpec => []ReceiptsInvariant
<1>1. ReceiptsAtRest => ReceiptsInvariant
  <2> SUFFICES ASSUME ReceiptsAtRest PROVE ReceiptsInvariant
    OBVIOUS
  <2>1. \A r \in Requests : DOMAIN request[r] = DOMAIN Fresh /\ request[r].pc \in {"start", "not_found"}
    BY DEF ReceiptsAtRest, Fresh
  <2>2. \A r \in Requests :
          ~Began(r) /\ ~Merging(r) /\ ~Sharing(r) /\ ~Deleting(r) /\ request[r].pc # "deleted"
    BY <2>1 DEF Began, Ended, Merging, Sharing, Deleting
  <2>3. RequestTypes /\ LocksHold /\ \A r \in Requests : Undisturbed(r)
    BY <2>1, <2>2 DEF ReceiptsAtRest, RequestTypes, LocksHold, Undisturbed
  <2> QED  BY <2>3 DEF ReceiptsAtRest, ReceiptsInvariant
<1>2. ReceiptsInvariant /\ [ReceiptsNext]_rvars => ReceiptsInvariant'
  BY ReceiptsStep
<1> QED  BY <1>1, <1>2, PTL DEF ReceiptsSpec

\* No attachment outlives its receipt (orm.py:110, ON DELETE CASCADE).
THEOREM AttachmentsKeepReceipts == ReceiptsSpec => []AttachmentsHaveReceipts
<1>1. ReceiptsInvariant => AttachmentsHaveReceipts
  BY DEF ReceiptsInvariant
<1> QED  BY <1>1, ReceiptsInvariantHolds, PTL

-----------------------------------------------------------------------------
(* Updates that are alone *)

LEMMA OneMoves ==
    ASSUME ReceiptsInvariant, ReceiptsNext, NEW q \in Requests, request'[q] # request[q]
    PROVE  RequestStep(q) \/ Lose(q)
<1>1. DOMAIN request = Requests
  BY DEF ReceiptsInvariant, RequestTypes
<1>2. ASSUME NEW r \in Requests, r # q, RequestStep(r) \/ Lose(r)
      PROVE  request'[q] = request[q]
  BY <1>1, <1>2 DEF RequestStep, Create, Find, ReadFiles, Load, Flush, Clear, Cleared, Attach,
     CommitUpdate, DeleteRow, Cascade, CommitDelete, Abort, Lose, Ends
<1>3. ReadPage => request' = request
  BY DEF ReadPage
<1> QED  BY <1>2, <1>3 DEF ReceiptsNext

\* Who answers a request how.
LEMMA Answered ==
    ASSUME ReceiptsInvariant, NEW q \in Requests, RequestStep(q) \/ Lose(q)
    PROVE  /\ request'[q].pc = "updated" => CommitUpdate(q)
           /\ request[q].pc = "files" /\ request'[q].pc = "invalid" => ReadFiles(q)
<1>1. DOMAIN request = Requests /\ DOMAIN request[q] = DOMAIN Fresh
      /\ DOMAIN Fresh = {"pc", "read", "new", "base", "files", "seen", "gone"}
  BY DEF ReceiptsInvariant, RequestTypes, Fresh
<1>2. \A a : Ends(q, a) => request'[q].pc = a
  BY <1>1 DEF Ends, Fresh
<1>3. Abort(q) \/ Lose(q) => request'[q].pc = "failed"
  BY <1>2 DEF Abort, Lose
<1>4. Create(q) => request'[q].pc \in {"created", "invalid"} /\ request[q].pc = "start"
  BY <1>2 DEF Create
<1>5. CommitDelete(q) => request'[q].pc = "gone"
  BY <1>2 DEF CommitDelete
<1>6. Find(q) => request'[q].pc \in {"not_found", "files", "remove"}
  BY <1>1, <1>2 DEF Find
<1>7. Load(q) \/ Flush(q) \/ Attach(q) =>
        request'[q].pc \in {"not_found", "failed", "flush", "clear", "commit"}
  BY <1>1, <1>2 DEF Load, Flush, Attach
<1>8. Clear(q) \/ Cleared(q) \/ DeleteRow(q) \/ Cascade(q) =>
        request'[q].pc \in {"clearing", "attach", "cascade", "deleted"}
  BY <1>1 DEF Clear, Cleared, DeleteRow, Cascade
<1>9. ReadFiles(q) => request'[q].pc \in {"load", "invalid"}
  BY <1>1, <1>2 DEF ReadFiles
<1>10. CommitUpdate(q) => request'[q].pc = "updated"
  BY <1>2 DEF CommitUpdate
<1> QED  BY <1>3, <1>4, <1>5, <1>6, <1>7, <1>8, <1>9, <1>10 DEF RequestStep

LEMMA CommitIsPatch ==
    ASSUME ReceiptsInvariant, NEW q \in Requests, CommitUpdate(q), alone[q]
    PROVE  LET i == Target(q)
               c == command[q].given IN
           /\ receipts'[i] = [receipts[i] EXCEPT !.row = Patch(@, c)]
           /\ FilesOf(i)' = IF c.files = Keep THEN FilesOf(i) ELSE c.files
<1> DEFINE i == Target(q)
           c == command[q].given
           old == receipts[i].row
           new == request[q].new
<1>1. /\ Began(q) /\ Merging(q) /\ Undisturbed(q) /\ Sharing(q)
      /\ TypedFields(c) /\ TypedReceipts /\ request[q].pc = "commit"
  BY DEF CommitUpdate, Began, Ended, Merging, Sharing, ReceiptsInvariant, TypedCommands, TypedFields
<1>2. /\ i \in DOMAIN receipts /\ new = Completed(Merged(c, old))
      /\ request[q].files = MergedFiles(c, FilesOf(i))
      /\ request[q].base = old /\ request[q].gone = RowsOf(i)
  BY <1>1 DEF Undisturbed
<1>3. new = Patch(old, c) /\ TypedRow(old)
  BY <1>1, <1>2, MergedIsPatch DEF TypedReceipts
<1>4. receipts' = [receipts EXCEPT ![i].row =
                      [f \in Columns |-> IF f \in Dirty(q) THEN new[f] ELSE old[f]]]
  BY <1>2 DEF CommitUpdate
<1>5. [f \in Columns |-> IF f \in Dirty(q) THEN new[f] ELSE old[f]] = new
  <2>1. \A f \in Columns : f \notin Dirty(q) => new[f] = old[f]
    BY <1>2 DEF Dirty
  <2>2. new = [f \in Columns |-> new[f]]
    <3>1. Merged(c, old) = [f \in Columns |-> Merged(c, old)[f]]
      BY DEF Merged
    <3>2. new = [f \in Columns |-> IF f = "expires_on" /\ Merged(c, old).expires_on = Null
                    THEN AddMonths(Merged(c, old).payment_date, Merged(c, old).period_months)
                    ELSE Merged(c, old)[f]]
      BY <1>2, <3>1 DEF Completed, Columns
    <3> QED  BY <3>2
  <2> HIDE DEF new, old
  <2> QED  BY <2>1, <2>2
<1>6. receipts'[i] = [receipts[i] EXCEPT !.row = Patch(@, c)]
  <2> HIDE DEF i, c, new
  <2>1. receipts'[i] = [receipts[i] EXCEPT !.row = new]
    BY <1>2, <1>4, <1>5
  <2> QED  BY <1>3, <2>1
<1>7. FilesOf(i)' = request[q].files
  <2> DEFINE F == request[q].files
             added == [receipt : {i}, file : F, by : {q}]
  <2>1. attachments' = (attachments \ RowsOf(i)) \cup added /\ i' = i
    BY <1>2 DEF CommitUpdate, Target
  <2>2. \A a \in added : a.receipt = i /\ a.file \in F
    OBVIOUS
  <2>3. \A f \in F : [receipt |-> i, file |-> f, by |-> q] \in added
    OBVIOUS
  <2>4. \A f \in F : \E a \in added : a.file = f
    BY <2>3
  <2> HIDE DEF added, F
  <2>5. {b \in attachments' : b.receipt = i} = added
    BY <2>1, <2>2 DEF RowsOf
  <2>6. {a.file : a \in added} = F
    BY <2>2, <2>4
  <2> QED  BY <2>1, <2>5, <2>6 DEF FilesOf, F
<1>8. request[q].files = IF c.files = Keep THEN FilesOf(i) ELSE c.files
  BY <1>2 DEF MergedFiles
<1> QED  BY <1>6, <1>7, <1>8

LEMMA RenameIsAccepted ==
    ASSUME ReceiptsInvariant, NEW q \in Requests, ReadFiles(q), request'[q].pc = "invalid",
           alone[q], Lawful(Target(q)),
           \A f \in DOMAIN command[q].given \ {"item_name"} : command[q].given[f] = Keep
    PROVE  command[q].given.item_name = Null
<1> DEFINE i == Target(q)
           c == command[q].given
           old == receipts[i].row
           new == Merged(c, old)
<1>1. Began(q) /\ Undisturbed(q) /\ TypedFields(c) /\ TypedReceipts
  BY DEF ReadFiles, Began, Ended, ReceiptsInvariant, TypedCommands, TypedFields
<1>2. i \in DOMAIN receipts /\ request[q].read = old /\ TypedRow(old)
  BY <1>1 DEF Undisturbed, TypedReceipts
<1>3. ~Accepted(new, FilesOf(i), Grandfathered(c, old))
  <2>1. MergedFiles(c, FilesOf(i)) = FilesOf(i)
    BY <1>1 DEF MergedFiles, TypedFields
  <2>2. Accepted(new, FilesOf(i), Grandfathered(c, old)) =>
          request' = [request EXCEPT ![q].pc = "load", ![q].new = Completed(new),
                                     ![q].files = FilesOf(i)] \/ Ends(q, "invalid")
    BY <1>2, <2>1 DEF ReadFiles
  <2>3. ASSUME Accepted(new, FilesOf(i), Grandfathered(c, old))
        PROVE  FALSE
    <3>1. request' = [request EXCEPT ![q].pc = "load", ![q].new = Completed(new),
                                     ![q].files = FilesOf(i)]
      BY <1>2, <2>1, <2>3 DEF ReadFiles
    <3>2. DOMAIN request = Requests /\ "pc" \in DOMAIN request[q]
      BY DEF ReceiptsInvariant, RequestTypes, Fresh
    <3> HIDE DEF new
    <3> QED  BY <3>1, <3>2
  <2> QED  BY <2>3
<1>4. /\ \A f \in Columns \ {"item_name"} : c[f] = Keep
      /\ c.payment_date = Keep /\ c.total_amount = Keep /\ c.period_months = Keep
      /\ c.expires_on = Keep
  BY <1>1 DEF TypedFields, Columns
<1>5. /\ new.item_name = IF c.item_name # Keep THEN c.item_name ELSE old.item_name
      /\ new.payment_date = old.payment_date /\ new.total_amount = old.total_amount
      /\ new.period_months = old.period_months /\ new.expires_on = old.expires_on
  BY <1>4 DEF Merged, ResolvedExpiry, Columns
<1> HIDE DEF new, c, old
<1>6. Accepted(old, FilesOf(i), {"total_amount", "period_months"})
  BY DEF Lawful, old
<1>7. /\ old.total_amount # Null /\ ~(old.total_amount <= MaxAmount) =>
            "total_amount" \in Grandfathered(c, old)
      /\ ~(old.period_months <= MaxMonths) => "period_months" \in Grandfathered(c, old)
  BY <1>2, <1>4 DEF Grandfathered, TypedRow, MaxAmount, MaxMonths
<1>8. CASE new.item_name # Null
  BY <1>3, <1>5, <1>6, <1>7, <1>8 DEF Accepted
<1>9. CASE new.item_name = Null
  BY <1>5, <1>6, <1>9 DEF Accepted, c
<1> QED  BY <1>8, <1>9

\* An update that nobody interferes with changes what it was given, and a new
\* name is never refused for what the receipt was allowed before
\* (update_receipt/use_case.py:33).
THEOREM LoneUpdatesPatch == ReceiptsSpec => LoneUpdateIsPatch
<1>1. ASSUME ReceiptsInvariant, ReceiptsNext, NEW r \in Requests
      PROVE  LET i == Target(r)
                 c == command[r].given
                 only_name == \A f \in DOMAIN c \ {"item_name"} : c[f] = Keep IN
             /\ request[r].pc = "commit" /\ request'[r].pc = "updated" /\ alone[r] =>
                    /\ receipts'[i] = [receipts[i] EXCEPT !.row = Patch(@, c)]
                    /\ FilesOf(i)' = IF c.files = Keep THEN FilesOf(i) ELSE c.files
             /\ request[r].pc = "files" /\ request'[r].pc = "invalid" /\ alone[r] /\ Lawful(i) =>
                    ~only_name \/ c.item_name = Null
  <2>1. CASE request'[r] = request[r]
    BY <2>1
  <2>2. CASE request'[r] # request[r]
    <3>1. /\ request'[r].pc = "updated" => CommitUpdate(r)
          /\ request[r].pc = "files" /\ request'[r].pc = "invalid" => ReadFiles(r)
      BY <1>1, <2>2, OneMoves, Answered
    <3> QED  BY <1>1, <3>1, CommitIsPatch, RenameIsAccepted
  <2> QED  BY <2>1, <2>2
<1>2. ReceiptsInvariant /\ [ReceiptsNext]_rvars =>
        [\A r \in Requests :
             LET i == Target(r)
                 c == command[r].given
                 only_name == \A f \in DOMAIN c \ {"item_name"} : c[f] = Keep IN
             /\ request[r].pc = "commit" /\ request'[r].pc = "updated" /\ alone[r] =>
                    /\ receipts'[i] = [receipts[i] EXCEPT !.row = Patch(@, c)]
                    /\ FilesOf(i)' = IF c.files = Keep THEN FilesOf(i) ELSE c.files
             /\ request[r].pc = "files" /\ request'[r].pc = "invalid" /\ alone[r] /\ Lawful(i) =>
                    ~only_name \/ c.item_name = Null]_rvars
  BY <1>1
<1> QED  BY <1>2, ReceiptsInvariantHolds, PTL DEF ReceiptsSpec, LoneUpdateIsPatch

-----------------------------------------------------------------------------
(* Lists *)

\* The calendar counts months in their order.
LEMMA MonthsFollow ==
    ASSUME NEW m \in Int, NEW n \in Int, m < n
    PROVE  365 * (m \div 12) + DaysBefore[(m % 12) + 1] + MonthDays[(m % 12) + 1]
             <= 365 * (n \div 12) + DaysBefore[(n % 12) + 1]
<1>1. /\ \A k \in 1..12 : DaysBefore[k] \in 0..334 /\ DaysBefore[k] + MonthDays[k] <= 365
      /\ \A k, l \in 1..12 : k < l => DaysBefore[k] + MonthDays[k] <= DaysBefore[l]
  BY DEF DaysBefore, MonthDays
<1>2. \A k \in 1..12 : MonthDays[k] \in Int
  BY MonthsHaveDays
<1>3. /\ (m % 12) + 1 \in 1..12 /\ (n % 12) + 1 \in 1..12
      /\ m \div 12 \in Int /\ n \div 12 \in Int
      /\ m \div 12 < n \div 12 \/ (m \div 12 = n \div 12 /\ m % 12 < n % 12)
  OBVIOUS
<1> DEFINE i == (m % 12) + 1
           j == (n % 12) + 1
           a == m \div 12
           b == n \div 12
<1>4. /\ i \in 1..12 /\ j \in 1..12 /\ a \in Int /\ b \in Int
      /\ a < b \/ (a = b /\ i < j)
  BY <1>3
<1> HIDE DEF i, j, a, b
<1>5. /\ DaysBefore[i] \in Int /\ DaysBefore[j] \in Int /\ MonthDays[i] \in Int
      /\ DaysBefore[j] >= 0 /\ DaysBefore[i] + MonthDays[i] <= 365
      /\ i < j => DaysBefore[i] + MonthDays[i] <= DaysBefore[j]
  <2>1. \A k \in 0..334 : k \in Int /\ k >= 0
    OBVIOUS
  <2> QED  BY <1>1, <1>2, <1>4, <2>1
<1>6. 365 * a + DaysBefore[i] + MonthDays[i] <= 365 * b + DaysBefore[j]
  BY <1>4, <1>5
<1> QED  BY <1>6 DEF i, j, a, b

LEMMA DayNumberType == \A d \in Int : DayNumber(d) \in Int
<1>1. \A k \in 1..12 : DaysBefore[k] \in Int
  BY DEF DaysBefore
<1> SUFFICES ASSUME NEW d \in Int PROVE DayNumber(d) \in Int
  OBVIOUS
<1> DEFINE m == d \div 32
<1>2. m \in Int /\ d % 32 \in Int
  OBVIOUS
<1>3. DayNumber(d) = 365 * (m \div 12) + DaysBefore[(m % 12) + 1] + (d % 32)
  BY DEF DayNumber
<1> HIDE DEF m
<1>4. (m % 12) + 1 \in 1..12 /\ m \div 12 \in Int
  BY <1>2
<1>5. DaysBefore[(m % 12) + 1] \in Int
  BY <1>1, <1>4
<1> QED  BY <1>2, <1>3, <1>4, <1>5

LEMMA DaysFollow ==
    ASSUME NEW d \in Dates, NEW e \in Dates, d < e
    PROVE  DayNumber(d) \in Int /\ DayNumber(e) \in Int /\ DayNumber(d) < DayNumber(e)
<1> DEFINE m == d \div 32
           n == e \div 32
           dm == DaysBefore[(m % 12) + 1]
           dn == DaysBefore[(n % 12) + 1]
<1>1. /\ m \in Int /\ n \in Int /\ m <= n
      /\ (m % 12) + 1 \in 1..12 /\ (n % 12) + 1 \in 1..12
      /\ m = n => d % 32 < e % 32
  BY DEF Dates
<1>2. /\ dm \in Int /\ dn \in Int
      /\ MonthDays[(m % 12) + 1] \in Int /\ MonthDays[(n % 12) + 1] \in Int
  <2>1. \A k \in 1..12 : DaysBefore[k] \in Int
    BY DEF DaysBefore
  <2> QED  BY <1>1, <2>1, MonthsHaveDays
<1>3. d % 32 \in 1..MonthDays[(m % 12) + 1] /\ e % 32 \in 1..MonthDays[(n % 12) + 1]
  BY DEF Dates
<1>4. /\ DayNumber(d) = 365 * (m \div 12) + dm + (d % 32)
      /\ DayNumber(e) = 365 * (n \div 12) + dn + (e % 32)
  BY DEF DayNumber
<1>5. m \div 12 \in Int /\ n \div 12 \in Int
  BY <1>1
<1>6. m < n => 365 * (m \div 12) + dm + MonthDays[(m % 12) + 1] <= 365 * (n \div 12) + dn
  BY <1>1, MonthsFollow
<1> HIDE DEF m, n, dm, dn
<1>7. CASE m = n
  BY <1>1, <1>2, <1>3, <1>4, <1>5, <1>7 DEF dm, dn
<1>8. CASE m < n
  BY <1>2, <1>3, <1>4, <1>5, <1>6, <1>8
<1> QED  BY <1>1, <1>2, <1>3, <1>4, <1>5, <1>7, <1>8

\* What the list's filter asks of a row.
Passes(status, row) ==
    LET days == DaysUntil(row.expires_on) IN
    CASE status = "all" -> TRUE
      [] status = "active" -> days > 30
      [] status = "expiring" -> days \in 0..30
      [] status = "expired" -> days < 0

\* The filter of the list agrees with the status of the receipt.
LEMMA FilterIsStatus ==
    ASSUME NEW row, TypedRow(row),
           NEW status \in {"all", "active", "expiring", "expired"}
    PROVE  Passes(status, row) <=> status \in {"all", WarrantyStatus(row)}
<1> DEFINE e == row.expires_on
<1>1. e \in Dates /\ today \in Dates /\ e \in Int /\ today \in Int
  BY FieldsAssumption DEF TypedRow, Dates
<1>2. DaysUntil(e) \in Int
  BY <1>1, DayNumberType DEF DaysUntil
<1>3. e < today <=> DaysUntil(e) < 0
  <2>1. CASE e < today
    BY <1>1, <2>1, DaysFollow DEF DaysUntil
  <2>2. CASE e = today
    BY <1>1, <2>2, DayNumberType DEF DaysUntil
  <2>3. CASE today < e
    BY <1>1, <2>3, DaysFollow DEF DaysUntil
  <2> QED  BY <1>1, <2>1, <2>2, <2>3
<1> DEFINE days == DaysUntil(e)
<1>4. WarrantyStatus(row) =
        IF days < 0 THEN "expired" ELSE IF days <= 30 THEN "expiring" ELSE "active"
  BY <1>3 DEF WarrantyStatus
<1>5. Passes(status, row) <=>
        CASE status = "all" -> TRUE
          [] status = "active" -> days > 30
          [] status = "expiring" -> days \in 0..30
          [] status = "expired" -> days < 0
  BY DEF Passes
<1>6. days \in Int
  BY <1>2
<1> HIDE DEF days
<1>7. CASE status = "all"
  BY <1>5, <1>7
<1>8. CASE status = "active"
  BY <1>4, <1>5, <1>6, <1>8
<1>9. CASE status = "expiring"
  BY <1>4, <1>5, <1>6, <1>9
<1>10. CASE status = "expired"
  BY <1>4, <1>5, <1>6, <1>10
<1> QED  BY <1>7, <1>8, <1>9, <1>10

LEMMA ListedPasses ==
    \A i : Listed(i) <=> receipts[i].user = pager.user /\ Passes(pager.status, receipts[i].row)
BY DEF Listed, Passes

\* Rows have keys that are numbers.
Keyed(rows) == rows \subseteq Int /\ \A i \in rows : Key(i) \in Int

LEMMA OrderedRows ==
    ASSUME NEW rows, IsFiniteSet(rows), Keyed(rows)
    PROVE  LET s == Ordered(rows) IN
           /\ s \in [1..Cardinality(rows) -> rows] /\ Cardinality(rows) \in Nat
           /\ \A k, l \in DOMAIN s : k < l => Precedes(Key(s[k]), s[k], Key(s[l]), s[l])
           /\ \A k, l \in DOMAIN s : s[k] = s[l] => k = l
           /\ \A i \in rows : \E k \in DOMAIN s : s[k] = i
<1> DEFINE R == {p \in rows \X rows : Precedes(Key(p[1]), p[1], Key(p[2]), p[2])}
           s == Ordered(rows)
<1>1. \A i, j \in rows : <<i, j>> \in R <=> Precedes(Key(i), i, Key(j), j)
  OBVIOUS
<1>2. Orders(R, rows)
  <2>1. \A i, j \in rows : i # j => Precedes(Key(i), i, Key(j), j) \/ Precedes(Key(j), j, Key(i), i)
    BY DEF Keyed, Precedes
  <2>2. \A i \in rows : ~Precedes(Key(i), i, Key(i), i)
    BY DEF Keyed, Precedes
  <2>3. \A i, j, k \in rows :
          Precedes(Key(i), i, Key(j), j) /\ Precedes(Key(j), j, Key(k), k) =>
             Precedes(Key(i), i, Key(k), k)
    BY DEF Keyed, Precedes
  <2> HIDE DEF R
  <2> QED  BY <1>1, <2>1, <2>2, <2>3 DEF Orders
<1> HIDE DEF R
<1>3. \A f \in [1..Cardinality(rows) -> rows] :
        Ascending(R, f) <=>
           \A k, l \in DOMAIN f : k < l => Precedes(Key(f[k]), f[k], Key(f[l]), f[l])
  BY <1>1 DEF Ascending
<1>4. /\ s \in [1..Cardinality(rows) -> rows]
      /\ \A k, l \in DOMAIN s : k < l => Precedes(Key(s[k]), s[k], Key(s[l]), s[l])
  <2>1. \E f \in [1..Cardinality(rows) -> rows] :
          \A k, l \in DOMAIN f : k < l => Precedes(Key(f[k]), f[k], Key(f[l]), f[l])
    BY <1>2, <1>3, AscendingExists
  <2> QED  BY <2>1 DEF Ordered
<1> HIDE DEF s
<1>5. Ascending(R, s)
  BY <1>3, <1>4
<1>6. /\ \A k, l \in DOMAIN s : s[k] = s[l] => k = l
      /\ \A i \in rows : \E k \in DOMAIN s : s[k] = i
  <2>1. \A f \in [1..Cardinality(rows) -> rows] : Ascending(R, f) => Enumerates(f, rows)
    BY <1>2, AscendingIsComplete
  <2> QED  BY <2>1, <1>4, <1>5 DEF Enumerates
<1>7. Cardinality(rows) \in Nat
  BY FS_CardinalityType
<1> QED  BY <1>4, <1>6, <1>7 DEF s

\* A receipt keeps its owner as long as it is there.
LEMMA OwnersStay ==
    ASSUME ReceiptsInvariant, NEW q \in Requests, RequestStep(q) \/ Lose(q),
           NEW i \in DOMAIN receipts, i \in DOMAIN receipts'
    PROVE  receipts'[i].user = receipts[i].user
<1>1. TypedReceipts /\ TypedCommands
  BY DEF ReceiptsInvariant
<1>2. CASE Create(q)
  <2>1. Target(q) \notin DOMAIN receipts
    BY <1>1, <1>2 DEF Create, TypedCommands
  <2> QED  BY <1>2, <2>1 DEF Create
<1>3. CASE CommitUpdate(q)
  <2>1. DOMAIN receipts[i] = {"row", "user", "created"}
    BY <1>1 DEF TypedReceipts
  <2> QED  BY <1>3, <2>1 DEF CommitUpdate
<1>4. CASE CommitDelete(q)
  BY <1>4 DEF CommitDelete
<1>5. CASE Unwritten
  BY <1>5 DEF Unwritten
<1> QED
  BY <1>2, <1>3, <1>4, <1>5 DEF RequestStep, Find, ReadFiles, Load, Flush, Clear, Cleared,
     Attach, DeleteRow, Cascade, Abort, Lose

LEMMA RowsAreKeyed ==
    ASSUME TypedReceipts, TypedPager
    PROVE  \A i \in DOMAIN receipts : i \in Int /\ Key(i) \in Int
<1> SUFFICES ASSUME NEW i \in DOMAIN receipts PROVE i \in Int /\ Key(i) \in Int
  OBVIOUS
<1>1. /\ i \in Int /\ receipts[i].created \in Int
      /\ receipts[i].row.item_name \in Int
      /\ receipts[i].row.payment_date \in Int /\ receipts[i].row.expires_on \in Int
  BY DEF TypedReceipts, TypedRow, Dates
<1>2. pager.sort \in {"recent", "expiresOn", "purchaseDate", "title"}
  BY DEF TypedPager
<1> QED  BY <1>1, <1>2 DEF Key

\* A write leaves what the pages have shown of the receipts that stay listed.
LEMMA RequestsKeepPages ==
    ASSUME ReceiptsInvariant, TypedReceipts', PagesInvariant, ObserveReceipts,
           NEW q \in Requests, RequestStep(q) \/ Lose(q)
    PROVE  PagesInvariant'
<1>1. pager' = pager
  BY DEF RequestStep, Create, Find, ReadFiles, Load, Flush, Clear, Cleared, Attach,
     CommitUpdate, DeleteRow, Cascade, CommitDelete, Abort, Lose, Unwritten
<1>2. TypedPager /\ TypedPager'
  BY <1>1 DEF PagesInvariant, TypedPager
<1>3. steady' \subseteq steady /\ \A i : Shown(i)' <=> Shown(i)
  BY <1>1 DEF ObserveReceipts, Shown
<1>4. ASSUME NEW i \in steady', pager.pc = "page"
      PROVE  /\ i \in DOMAIN receipts' /\ Listed(i)'
             /\ AfterCursor(i)' <=> AfterCursor(i)
  <2>1. /\ i \in steady /\ i \in DOMAIN receipts'
        /\ pager.status \in {"all", WarrantyStatus(receipts'[i].row)}
        /\ Key(i)' = Key(i)
    BY <1>4 DEF ObserveReceipts
  <2>2. i \in DOMAIN receipts /\ Listed(i)
    BY <1>4, <2>1 DEF PagesInvariant
  <2>3. receipts'[i].user = pager.user
    BY <2>1, <2>2, OwnersStay, ListedPasses
  <2>4. TypedRow(receipts'[i].row)
    BY <2>1 DEF TypedReceipts
  <2>5. Passes(pager.status, receipts'[i].row)
    BY <1>2, <2>1, <2>4, FilterIsStatus DEF TypedPager
  <2>6. Listed(i)'
    BY <1>1, <2>3, <2>5 DEF Listed, Passes
  <2>7. AfterCursor(i)' <=> AfterCursor(i)
    BY <1>1, <2>1 DEF AfterCursor, Precedes, Descending
  <2> QED  BY <2>1, <2>6, <2>7
<1> QED  BY <1>1, <1>2, <1>3, <1>4 DEF PagesInvariant

LEMMA PrecedesIsOrder ==
    ASSUME NEW k \in Int, NEW i \in Int, NEW l \in Int, NEW j \in Int, NEW m \in Int, NEW h \in Int
    PROVE  /\ Precedes(k, i, l, j) => ~Precedes(l, j, k, i)
           /\ Precedes(k, i, l, j) /\ Precedes(l, j, m, h) => Precedes(k, i, m, h)
BY DEF Precedes

\* A page shows the first rows after the cursor, each once.
LEMMA PageKeepsPages ==
    ASSUME ReceiptsInvariant, PagesInvariant, ObserveReceipts, ReadPage
    PROVE  PagesInvariant'
<1> DEFINE rows == {i \in DOMAIN receipts : Listed(i) /\ AfterCursor(i)}
           n == Cardinality(rows)
           s == Ordered(rows)
           more == Len(s) > pager.limit
           page == IF more THEN SubSeq(s, 1, pager.limit) ELSE s
           size == IF more THEN pager.limit ELSE n
           last == s[pager.limit]
<1>1. /\ TypedReceipts /\ TypedPager /\ pager.pc = "page"
      /\ steady \subseteq {i \in DOMAIN receipts : Listed(i)}
      /\ receipts' = receipts /\ steady' \subseteq steady
      /\ pager' = [pager EXCEPT
            !.pc = IF more THEN "page" ELSE "end",
            !.cursor = IF more THEN [key |-> Key(Last(page)), id |-> Last(page)] ELSE Null,
            !.got = @ \o page]
  BY DEF ReceiptsInvariant, PagesInvariant, ReadPage, ObserveReceipts
<1>2. /\ \A i \in DOMAIN receipts : i \in Int /\ Key(i) \in Int
      /\ IsFiniteSet(rows) /\ Keyed(rows) /\ rows \subseteq DOMAIN receipts
  <2>1. rows \in SUBSET DOMAIN receipts /\ IsFiniteSet(DOMAIN receipts)
    BY <1>1 DEF TypedReceipts
  <2>2. IsFiniteSet(rows)
    BY <2>1, FS_Subset
  <2> HIDE DEF rows
  <2> QED  BY <1>1, <2>1, <2>2, RowsAreKeyed DEF Keyed
<1>3. \A i \in steady : i \in rows <=> AfterCursor(i)
  BY <1>1
<1> HIDE DEF rows
<1>4. /\ s \in [1..n -> rows] /\ n \in Nat
      /\ \A k, l \in 1..n : k < l => Precedes(Key(s[k]), s[k], Key(s[l]), s[l])
      /\ \A k, l \in 1..n : s[k] = s[l] => k = l
      /\ \A i \in rows : \E k \in 1..n : s[k] = i
  BY <1>2, OrderedRows
<1> HIDE DEF n, s
<1>5. s \in Seq(rows) /\ Len(s) = n /\ pager.limit \in Nat \ {0}
  BY <1>1, <1>4 DEF TypedPager
<1>6. /\ page \in Seq(rows) /\ Len(page) = size /\ size \in 0..n
      /\ \A k \in 1..size : page[k] = s[k] /\ s[k] \in rows
  BY <1>4, <1>5
<1>7. more => size = pager.limit /\ pager.limit \in 1..n /\ Last(page) = last /\ last \in rows
  BY <1>4, <1>5, <1>6 DEF Last
<1> HIDE DEF page, last
<1>8. /\ pager'.pc = IF more THEN "page" ELSE "end"
      /\ pager'.cursor = IF more THEN [key |-> Key(last), id |-> last] ELSE Null
      /\ pager'.got = pager.got \o page
      /\ pager'.user = pager.user /\ pager'.status = pager.status /\ pager'.sort = pager.sort
      /\ pager'.limit = pager.limit /\ DOMAIN pager' = DOMAIN pager
  BY <1>1, <1>7 DEF TypedPager
<1> DEFINE got == pager.got
           g == Len(got)
<1>9. /\ got \in Seq(Int) /\ page \in Seq(Int) /\ g \in Nat
      /\ pager'.got \in Seq(Int) /\ DOMAIN pager'.got = 1..(g + size) /\ DOMAIN got = 1..g
      /\ \A k \in 1..g : pager'.got[k] = got[k]
      /\ \A k \in 1..size : pager'.got[g + k] = s[k]
      /\ \A k \in (g + 1)..(g + size) : pager'.got[k] = s[k - g]
  <2>1. got \in Seq(Int) /\ page \in Seq(Int) /\ size \in Nat
    BY <1>1, <1>2, <1>4, <1>6 DEF TypedPager, Keyed
  <2>2. g \in Nat /\ DOMAIN got = 1..g /\ Len(page) = size
    BY <1>6, <2>1
  <2>3. /\ got \o page \in Seq(Int) /\ Len(got \o page) = g + Len(page)
        /\ \A k \in 1..(g + Len(page)) : (got \o page)[k] = IF k <= g THEN got[k] ELSE page[k - g]
    BY <2>1, ConcatProperties
  <2>4. pager'.got = got \o page
    BY <1>8
  <2> HIDE DEF got, g, size
  <2>5. pager'.got \in Seq(Int) /\ DOMAIN pager'.got = 1..(g + size)
    BY <2>1, <2>2, <2>3, <2>4
  <2>6. \A k \in 1..g : pager'.got[k] = got[k]
    BY <2>1, <2>2, <2>3, <2>4
  <2>7. \A k \in (g + 1)..(g + size) : pager'.got[k] = s[k - g]
    <3> SUFFICES ASSUME NEW k \in (g + 1)..(g + size) PROVE pager'.got[k] = s[k - g]
      OBVIOUS
    <3>1. k \in 1..(g + size) /\ ~(k <= g) /\ k - g \in 1..size
      BY <2>1, <2>2
    <3> QED  BY <1>6, <2>2, <2>3, <2>4, <3>1
  <2>8. \A k \in 1..size : g + k \in (g + 1)..(g + size) /\ (g + k) - g = k
    BY <2>1, <2>2
  <2>9. \A k \in 1..size : pager'.got[g + k] = s[k]
    BY <2>7, <2>8
  <2> QED  BY <2>1, <2>2, <2>5, <2>6, <2>7, <2>9
<1> HIDE DEF got, g, size
<1>10. TypedPager'
  <2>1. more => [key |-> Key(last), id |-> last] \in [key : Int, id : Int]
    BY <1>2, <1>7
  <2> HIDE DEF more
  <2> QED  BY <1>1, <1>8, <1>9, <2>1 DEF TypedPager
\* What the page adds to what has been shown.
<1>11. ASSUME NEW i
       PROVE  Shown(i)' <=> Shown(i) \/ \E k \in 1..size : s[k] = i
  <2>1. Shown(i) <=> \E k \in 1..g : got[k] = i
    BY <1>9 DEF Shown, got
  <2>2. Shown(i)' <=> \E k \in 1..(g + size) : pager'.got[k] = i
    BY <1>9 DEF Shown
  <2>3. \A k \in 1..(g + size) : k \in 1..g \/ (k \in (g + 1)..(g + size) /\ k - g \in 1..size)
    BY <1>6, <1>9
  <2>4. /\ \A k \in 1..g : k \in 1..(g + size)
        /\ \A k \in 1..size : g + k \in 1..(g + size)
    BY <1>6, <1>9
  <2> QED  BY <1>9, <2>1, <2>2, <2>3, <2>4
<1>12. ASSUME NEW i \in steady
       PROVE  /\ i \in Int /\ Key(i) \in Int /\ i \in DOMAIN receipts /\ Listed(i)
              /\ i \in rows => ~Shown(i)
              /\ i \notin rows => /\ pager.cursor # Null /\ ~AfterCursor(i) /\ Shown(i)
                                  /\ \A k \in 1..size : s[k] # i
  <2>1. Shown(i) <=> pager.cursor # Null /\ ~AfterCursor(i)
    BY <1>1 DEF PagesInvariant
  <2>2. ~AfterCursor(i) => pager.cursor # Null
    BY DEF AfterCursor
  <2>3. \A k \in 1..size : s[k] \in rows
    BY <1>6
  <2>4. i \in DOMAIN receipts /\ Listed(i)
    BY <1>1
  <2> QED  BY <1>2, <1>3, <2>1, <2>2, <2>3, <2>4
\* No receipt is shown twice.
<1>13. ASSUME NEW i \in steady, NEW k \in 1..(g + size), NEW l \in 1..(g + size),
              pager'.got[k] = i, pager'.got[l] = i
       PROVE  k = l
  <2>1. \A j \in 1..(g + size) : j \in 1..g \/ (j \in (g + 1)..(g + size) /\ j - g \in 1..size)
    BY <1>6, <1>9
  <2>2. CASE i \in rows
    <3>1. \A j \in 1..g : pager'.got[j] # i
      BY <1>9, <1>12, <2>2 DEF Shown, got
    <3>2. k - g \in 1..size /\ l - g \in 1..size /\ s[k - g] = i /\ s[l - g] = i
      BY <1>9, <1>13, <2>1, <3>1
    <3>3. k - g \in 1..n /\ l - g \in 1..n
      BY <1>4, <1>6, <3>2
    <3>4. k - g = l - g
      BY <1>4, <3>2, <3>3
    <3> QED  BY <1>9, <3>4
  <2>3. CASE i \notin rows
    <3>1. k \in 1..g /\ l \in 1..g
      BY <1>9, <1>12, <1>13, <2>1, <2>3
    <3>2. got[k] = i /\ got[l] = i
      BY <1>9, <1>13, <3>1
    <3> QED  BY <1>9, <3>1, <3>2 DEF PagesInvariant, got
  <2> QED  BY <2>2, <2>3
\* What the new cursor leaves behind.
<1>14. ASSUME more, NEW i \in steady
       PROVE  AfterCursor(i)' <=> ~Shown(i)'
  <2>1. AfterCursor(i)' <=> Precedes(Key(last), last, Key(i), i)
    <3>1. /\ pager'.cursor = [key |-> Key(last), id |-> last] /\ pager'.sort = pager.sort
          /\ Key(last) \in Int /\ last \in Int
      BY <1>2, <1>7, <1>8, <1>14
    <3>2. pager'.cursor # Null
      BY <3>1, FieldsAssumption
    <3>3. Key(i)' = Key(i)
      BY <1>1, <3>1 DEF Key
    <3>4. Descending' <=> Descending
      BY <3>1 DEF Descending
    <3>5. AfterCursor(i)' <=>
            IF Descending THEN Key(last) > Key(i) \/ (Key(last) = Key(i) /\ last > i)
            ELSE Key(last) < Key(i) \/ (Key(last) = Key(i) /\ last < i)
      BY <3>1, <3>2, <3>3, <3>4 DEF AfterCursor, Precedes
    <3> QED  BY <3>5 DEF Precedes
  <2>2. /\ i \in Int /\ Key(i) \in Int /\ last \in Int /\ Key(last) \in Int
        /\ last = s[pager.limit] /\ pager.limit \in 1..n /\ size = pager.limit
    BY <1>2, <1>7, <1>12, <1>14 DEF last
  <2>3. CASE i \in rows
    <3>1. PICK k \in 1..n : s[k] = i
      BY <1>4, <2>3
    <3>2. CASE k > pager.limit
      <4>1. Precedes(Key(last), last, Key(i), i)
        BY <1>4, <2>2, <3>1, <3>2
      <4>2. \A j \in 1..size : s[j] # i
        BY <1>4, <2>2, <3>1, <3>2
      <4> QED  BY <1>11, <1>12, <2>1, <2>3, <4>1, <4>2
    <3>3. CASE k = pager.limit
      <4>1. i = last /\ ~Precedes(Key(last), last, Key(i), i)
        BY <2>2, <3>1, <3>3, PrecedesIsOrder
      <4>2. k \in 1..size
        BY <2>2, <3>3
      <4> QED  BY <1>11, <2>1, <3>1, <4>1, <4>2
    <3>4. CASE k < pager.limit
      <4>1. Precedes(Key(i), i, Key(last), last)
        BY <1>4, <2>2, <3>1, <3>4
      <4>2. ~Precedes(Key(last), last, Key(i), i)
        BY <2>2, <4>1, PrecedesIsOrder
      <4>3. k \in 1..size
        BY <2>2, <3>4
      <4> QED  BY <1>11, <2>1, <3>1, <4>2, <4>3
    <3> QED  BY <2>2, <3>2, <3>3, <3>4
  <2>4. CASE i \notin rows
    <3>1. /\ pager.cursor # Null /\ pager.cursor.key \in Int /\ pager.cursor.id \in Int
          /\ ~Precedes(pager.cursor.key, pager.cursor.id, Key(i), i) /\ Shown(i)
      BY <1>1, <1>12, <2>4 DEF AfterCursor, TypedPager
    <3>2. Precedes(pager.cursor.key, pager.cursor.id, Key(last), last)
      <4>1. AfterCursor(last)
        BY <1>7, <1>14 DEF rows
      <4> QED  BY <3>1, <4>1 DEF AfterCursor
    <3>3. ~Precedes(Key(last), last, Key(i), i)
      BY <2>2, <3>1, <3>2, PrecedesIsOrder
    <3> QED  BY <1>11, <2>1, <3>1, <3>3
  <2> QED  BY <2>3, <2>4
\* A last page leaves nothing behind.
<1>15. ASSUME ~more, NEW i \in steady
       PROVE  Shown(i)'
  <2>1. size = n
    BY <1>15 DEF size
  <2> QED  BY <1>4, <1>11, <1>12, <2>1
<1>16. \A i \in steady : Listed(i)' /\ i \in DOMAIN receipts'
  BY <1>1, <1>8, <1>12 DEF Listed
<1>17. more => pager'.cursor # Null
  <2>1. Key(last) \in Int /\ last \in Int /\ more =>
          pager'.cursor \in [key : Int, id : Int]
    BY <1>8
  <2> QED  BY <1>2, <1>7, <2>1, FieldsAssumption
<1> HIDE DEF more
<1>18. pager'.pc = "page" <=> more
  BY <1>8
<1>19. pager'.pc = "end" <=> ~more
  BY <1>8
<1>20. more => \A i \in steady' : Shown(i)' <=> pager'.cursor # Null /\ ~AfterCursor(i)'
  BY <1>1, <1>14, <1>17
<1>21. \A i \in steady' : \A k, l \in DOMAIN pager'.got :
          pager'.got[k] = i /\ pager'.got[l] = i => k = l
  <2> SUFFICES ASSUME NEW i \in steady', NEW k \in DOMAIN pager'.got, NEW l \in DOMAIN pager'.got,
                      pager'.got[k] = i, pager'.got[l] = i
               PROVE  k = l
    OBVIOUS
  <2>1. i \in steady /\ k \in 1..(g + size) /\ l \in 1..(g + size)
    BY <1>1, <1>9
  <2> QED  BY <2>1, <1>13
<1>22. more => steady' \subseteq {i \in DOMAIN receipts : Listed(i)}'
  BY <1>1, <1>16
<1>23. ~more => \A i \in steady' : Shown(i)'
  BY <1>1, <1>15
<1> QED  BY <1>10, <1>18, <1>19, <1>20, <1>21, <1>22, <1>23 DEF PagesInvariant

LEMMA PagesStep ==
    ASSUME ReceiptsInvariant, ReceiptsInvariant', PagesInvariant, [ReceiptsNext]_rvars
    PROVE  PagesInvariant'
<1>1. CASE UNCHANGED rvars
  <2>1. receipts' = receipts /\ pager' = pager /\ steady' = steady
    BY <1>1 DEF rvars
  <2>2. /\ \A i : (Shown(i)' <=> Shown(i)) /\ (Listed(i)' <=> Listed(i)) /\ Key(i)' = Key(i)
        /\ Descending' <=> Descending
    BY <2>1 DEF Shown, Listed, Key, Descending
  <2>3. \A i : AfterCursor(i)' <=> AfterCursor(i)
    BY <2>1, <2>2 DEF AfterCursor, Precedes
  <2>4. TypedPager'
    BY <2>1 DEF PagesInvariant, TypedPager
  <2> QED  BY <2>1, <2>2, <2>3, <2>4 DEF PagesInvariant
<1>2. CASE ReceiptsNext
  BY <1>2, RequestsKeepPages, PageKeepsPages DEF ReceiptsNext, ReceiptsInvariant
<1> QED  BY <1>1, <1>2

\* Following the cursors shows every receipt that stays listed under one key,
\* and shows it once, whatever is written between two pages (listing.py:63).
THEOREM PagesShowAll == ReceiptsSpec => []PagesShowEachOnce
<1>1. ReceiptsAtRest => PagesInvariant
  <2>1. ASSUME ReceiptsAtRest, pager.got = <<>> PROVE \A i : ~Shown(i)
    BY <2>1 DEF Shown
  <2> QED  BY <2>1 DEF ReceiptsAtRest, PagesInvariant, AfterCursor
<1>2. ReceiptsInvariant /\ ReceiptsInvariant' /\ PagesInvariant /\ [ReceiptsNext]_rvars =>
        PagesInvariant'
  BY PagesStep
<1>3. PagesInvariant => PagesShowEachOnce
  <2> SUFFICES ASSUME PagesInvariant, pager.pc = "end", NEW i \in steady
               PROVE  Cardinality({k \in DOMAIN pager.got : pager.got[k] = i}) = 1
    BY DEF PagesShowEachOnce
  <2>1. PICK k \in DOMAIN pager.got : pager.got[k] = i
    BY DEF PagesInvariant, Shown
  <2>2. {l \in DOMAIN pager.got : pager.got[l] = i} = {k}
    BY <2>1 DEF PagesInvariant
  <2> QED  BY <2>2, FS_Singleton
<1> QED  BY <1>1, <1>2, <1>3, ReceiptsInvariantHolds, PTL DEF ReceiptsSpec

-----------------------------------------------------------------------------
(* Files and receipts together *)

\* Neither module's steps touch the rows of the other (an attachment's file_id is
\* no foreign key, receipts/infrastructure/persistence/orm.py:117): what either
\* of them does, it could do alone.
LEMMA LibraryRunsBoth == LibrarySpec => FilesSpec /\ ReceiptsSpec
<1>1. [Next]_vars => [FilesNext]_fvars
  BY DEF Next, vars
<1>2. [Next]_vars => [ReceiptsNext]_rvars
  BY DEF Next, vars
<1> QED  BY <1>1, <1>2, PTL DEF LibrarySpec, FilesSpec, ReceiptsSpec

\* So none of their properties depends on the other being idle.
THEOREM LibraryIsSafe ==
    LibrarySpec => /\ []RowsAndObjectsAgree /\ ImageInUseKept
                   /\ []AttachmentsHaveReceipts /\ LoneUpdateIsPatch /\ []PagesShowEachOnce
BY LibraryRunsBoth, RowsAgreeWithObjects, ImagesInUseKept,
   AttachmentsKeepReceipts, LoneUpdatesPatch, PagesShowAll, PTL

=============================================================================
