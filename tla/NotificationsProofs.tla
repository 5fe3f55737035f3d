-------------------------- MODULE NotificationsProofs -------------------------
(***************************************************************************)
(* Safety of Notifications for any runs, dispatches, rules, users and      *)
(* receipts, and any database at rest: what runs and requests decide under *)
(* their locks (RunInvariant), what dispatches have seen and what they     *)
(* clean up (DispatchInvariant), and what runs have yet to come to         *)
(* (ScanInvariant).                                                        *)
(***************************************************************************)
EXTENDS Notifications, SetFacts, SequenceTheorems, TLAPS

-----------------------------------------------------------------------------
(* Notifications are only appended *)

LEMMA Appended ==
    ASSUME NEW s, s \in Seq({s[n] : n \in DOMAIN s}), NEW e
    PROVE  LET t == Append(s, e) IN
           /\ t \in Seq({t[n] : n \in DOMAIN t})
           /\ Len(t) \notin DOMAIN s /\ DOMAIN t = DOMAIN s \cup {Len(t)}
           /\ t[Len(t)] = e
           /\ \A n \in DOMAIN s : t[n] = s[n]
<1> DEFINE S == {s[n] : n \in DOMAIN s}
           T == S \cup {e}
           t == Append(s, e)
<1>1. s \in Seq(T) /\ e \in T
  BY SeqDef
<1>2. /\ t \in Seq(T) /\ Len(t) = Len(s) + 1 /\ t[Len(t)] = e
      /\ \A n \in 1..Len(s) : t[n] = s[n]
  BY <1>1, AppendProperties
<1>3. /\ Len(s) \in Nat /\ DOMAIN s = 1..Len(s) /\ DOMAIN t = 1..Len(t)
      /\ t = [n \in 1..Len(t) |-> t[n]]
  <2>1. Len(s) \in Nat /\ DOMAIN s = 1..Len(s)
    BY <1>1
  <2> HIDE DEF t
  <2>2. DOMAIN t = 1..Len(t) /\ t = [n \in 1..Len(t) |-> t[n]]
    BY <1>2
  <2> QED  BY <2>1, <2>2
<1>4. Len(t) \notin DOMAIN s /\ DOMAIN t = DOMAIN s \cup {Len(t)}
  BY <1>2, <1>3
<1>5. t \in Seq({t[n] : n \in DOMAIN t})
  BY <1>2, <1>3
<1> QED  BY <1>2, <1>3, <1>4, <1>5

-----------------------------------------------------------------------------
(* A run that reserves nothing, or goes on with what it has reserved *)

LEMMA RunMoves ==
    ASSUME RunInvariant, NEW q \in Runs, UNCHANGED <<settings, rows, reader>>,
           DOMAIN run' = Runs, \A r \in Runs : r # q => run'[r] = run[r],
           DOMAIN run'[q] = DOMAIN IdleRun,
           Reserving(q)' =>
              /\ Due(q).occ' \notin occurrences
              /\ \A r \in Runs : Reserving(r) /\ Due(r).occ = Due(q).occ' => r = q,
           run'[q].pc = "locked" /\ run'[q].agreed => Consents(Due(q).user')
    PROVE  RunInvariant'
<1> USE DEF settings, rows
<1>0. RunTypes /\ OccurrenceNotifiedOnce /\ ReservationsExclude /\ LockedIsCurrent
  BY DEF RunInvariant
<1>2. RunTypes'
  BY <1>0 DEF RunTypes, IdleRun
<1>3. OccurrenceNotifiedOnce'
  BY <1>0 DEF OccurrenceNotifiedOnce
<1>4. ReservationsExclude'
  BY <1>0 DEF ReservationsExclude, Reserving, Due
<1>5. LockedIsCurrent'
  BY <1>0 DEF LockedIsCurrent, Due, Consents, Visible
<1> QED  BY <1>2, <1>3, <1>4, <1>5 DEF RunInvariant

LEMMA QuietRun ==
    ASSUME RunInvariant, NEW q \in Runs,
           \/ Begin(q) \/ SkipRule(q) \/ TakeRule(q) \/ Finish(q)
           \/ ReadExpiring(q) \/ ReadFacts(q) \/ ReadActivity(q) \/ NextPage(q)
           \/ DryRun(q) \/ Reject(q) \/ SkipUnconsented(q) \/ Abort(q)
    PROVE  RunInvariant'
<1>0. /\ DOMAIN run = Runs /\ DOMAIN run[q] = DOMAIN IdleRun
      /\ DOMAIN IdleRun = {"pc", "rule", "cursor", "facts", "next", "activity", "todo", "agreed"}
  BY DEF RunInvariant, RunTypes, IdleRun
<1>1. UNCHANGED <<settings, rows, reader>>
  BY DEF Begin, SkipRule, TakeRule, Finish, ReadExpiring, ReadFacts, ReadActivity, NextPage,
     DryRun, Reject, SkipUnconsented, Abort
<1>2. /\ DOMAIN run' = Runs /\ \A r \in Runs : r # q => run'[r] = run[r]
      /\ DOMAIN run'[q] = DOMAIN IdleRun /\ run'[q].pc \notin {"held", "locked"}
  <2>1. CASE Begin(q)
    BY <1>0, <2>1 DEF Begin
  <2>2. CASE SkipRule(q)
    BY <1>0, <2>2 DEF SkipRule
  <2>3. CASE TakeRule(q)
    BY <1>0, <2>3 DEF TakeRule
  <2>4. CASE Finish(q)
    BY <1>0, <2>4 DEF Finish
  <2>5. CASE ReadExpiring(q)
    BY <1>0, <2>5 DEF ReadExpiring
  <2>6. CASE ReadFacts(q)
    BY <1>0, <2>6 DEF ReadFacts
  <2>7. CASE ReadActivity(q)
    BY <1>0, <2>7 DEF ReadActivity
  <2>8. CASE NextPage(q)
    BY <1>0, <2>8 DEF NextPage, IdleRun
  <2>9. CASE DryRun(q)
    BY <1>0, <2>9 DEF DryRun, Dropped
  <2>10. CASE Reject(q)
    BY <1>0, <2>10 DEF Reject, Dropped
  <2>11. CASE SkipUnconsented(q)
    BY <1>0, <2>11 DEF SkipUnconsented, Dropped
  <2>12. CASE Abort(q)
    BY <1>0, <2>12 DEF Abort, IdleRun
  <2> QED  BY <2>1, <2>2, <2>3, <2>4, <2>5, <2>6, <2>7, <2>8, <2>9, <2>10, <2>11, <2>12
<1> QED  BY <1>1, <1>2, RunMoves DEF Reserving

LEMMA StepOfReserve ==
    ASSUME RunInvariant, NEW q \in Runs, Reserve(q)
    PROVE  RunInvariant'
<1>0. /\ DOMAIN run = Runs /\ DOMAIN run[q] = DOMAIN IdleRun
      /\ DOMAIN IdleRun = {"pc", "rule", "cursor", "facts", "next", "activity", "todo", "agreed"}
      /\ UNCHANGED <<settings, rows, reader>>
      /\ \A r \in Runs : Reserving(r) => Due(r).occ # Due(q).occ
  BY DEF RunInvariant, RunTypes, IdleRun, Reserve, Reserving, Reserved
<1>1. /\ DOMAIN run' = Runs /\ \A r \in Runs : r # q => run'[r] = run[r]
      /\ DOMAIN run'[q] = DOMAIN IdleRun /\ run'[q].pc # "locked"
  BY <1>0 DEF Reserve, Dropped
<1>2. Reserving(q)' => Due(q)' = Due(q) /\ Due(q).occ \notin occurrences
  BY <1>0 DEF Reserve, Dropped, Reserving, Due
<1> QED  BY <1>0, <1>1, <1>2, RunMoves

LEMMA StepOfLockSettings ==
    ASSUME RunInvariant, NEW q \in Runs, LockSettings(q)
    PROVE  RunInvariant'
<1>0. /\ DOMAIN run = Runs /\ DOMAIN run[q] = DOMAIN IdleRun /\ Reserving(q)
      /\ DOMAIN IdleRun = {"pc", "rule", "cursor", "facts", "next", "activity", "todo", "agreed"}
      /\ UNCHANGED <<settings, rows, reader>>
  BY DEF RunInvariant, RunTypes, IdleRun, LockSettings, Reserving
<1>1. /\ DOMAIN run' = Runs /\ \A r \in Runs : r # q => run'[r] = run[r]
      /\ DOMAIN run'[q] = DOMAIN IdleRun
      /\ Due(q)' = Due(q) /\ run'[q].agreed = Consents(Due(q).user)
  BY <1>0 DEF LockSettings, Due
<1>2. /\ Due(q).occ \notin occurrences
      /\ \A r \in Runs : Reserving(r) /\ Due(r).occ = Due(q).occ => r = q
  BY <1>0 DEF RunInvariant, ReservationsExclude
<1>3. Consents(Due(q).user)' = Consents(Due(q).user)
  BY <1>0, <1>1 DEF Consents, settings
<1> QED  BY <1>0, <1>1, <1>2, <1>3, RunMoves

LEMMA StepOfCreate ==
    ASSUME RunInvariant, NEW q \in Runs, Create(q)
    PROVE  RunInvariant'
<1> DEFINE n == Len(notices')
           occ == Due(q).occ
<1>0. /\ RunTypes /\ OccurrenceNotifiedOnce /\ ReservationsExclude /\ LockedIsCurrent
      /\ DOMAIN run = Runs /\ DOMAIN run[q] = DOMAIN IdleRun /\ Reserving(q)
      /\ DOMAIN IdleRun = {"pc", "rule", "cursor", "facts", "next", "activity", "todo", "agreed"}
      /\ occurrences' = occurrences \cup {occ}
      /\ UNCHANGED <<consent, deleted, reader>>
  BY DEF RunInvariant, RunTypes, IdleRun, Create, Reserving, settings
<1>1. /\ notices' \in Seq({notices'[m] : m \in DOMAIN notices'})
      /\ n \notin DOMAIN notices /\ DOMAIN notices' = DOMAIN notices \cup {n}
      /\ notices'[n] = [occ |-> occ, user |-> Due(q).user, marketing |-> IsMarketing(Rule(q))]
      /\ \A m \in DOMAIN notices : notices'[m] = notices[m]
  <2>1. /\ notices \in Seq({notices[m] : m \in DOMAIN notices})
        /\ notices' = Append(notices, [occ |-> occ, user |-> Due(q).user,
                                       marketing |-> IsMarketing(Rule(q))])
    BY <1>0 DEF Create, RunTypes
  <2> QED  BY <2>1, Appended
<1>2. /\ DOMAIN run' = Runs /\ \A r \in Runs : r # q => run'[r] = run[r]
      /\ DOMAIN run'[q] = DOMAIN IdleRun /\ ~Reserving(q)'
  BY <1>0 DEF Create, Dropped, Reserving
<1>3. /\ occ \notin occurrences
      /\ \A r \in Runs : r # q /\ Reserving(r) => Due(r).occ # occ
  BY <1>0 DEF ReservationsExclude
<1> HIDE DEF n, occ
<1>4. RunTypes'
  BY <1>0, <1>1, <1>2 DEF RunTypes, IdleRun
<1>5. OccurrenceNotifiedOnce'
  <2>1. notices'[n].occ = occ
    BY <1>1
  <2>2. \A m \in DOMAIN notices : notices'[m].occ = notices[m].occ /\ notices[m].occ \in occurrences
    BY <1>0, <1>1 DEF OccurrenceNotifiedOnce
  <2>3. occurrences' = {notices'[m].occ : m \in DOMAIN notices'}
    BY <1>0, <1>1, <2>1, <2>2 DEF OccurrenceNotifiedOnce
  <2>4. \A l, m \in DOMAIN notices' : notices'[l].occ = notices'[m].occ => l = m
    BY <1>0, <1>1, <1>3, <2>1, <2>2 DEF OccurrenceNotifiedOnce
  <2> QED  BY <2>3, <2>4 DEF OccurrenceNotifiedOnce
<1>6. ReservationsExclude'
  <2>1. \A r \in Runs : Reserving(r)' => r # q /\ Reserving(r) /\ Due(r)' = Due(r)
    BY <1>2 DEF Reserving, Due
  <2> QED  BY <1>0, <1>3, <2>1 DEF ReservationsExclude
<1>7. LockedIsCurrent'
  <2>1. \A r \in Runs : run'[r].pc = "locked" => run'[r] = run[r]
    BY <1>2 DEF Reserving
  <2>2. reader.pc = "row" => Visible(reader.notice)'
    BY <1>0, <1>1 DEF LockedIsCurrent, Visible, Consents, RunTypes
  <2> QED  BY <1>0, <2>1, <2>2 DEF LockedIsCurrent, Due, Consents
<1> QED  BY <1>4, <1>5, <1>6, <1>7 DEF RunInvariant

-----------------------------------------------------------------------------
(* What runs do not take part in *)

\* Neither a notification nor a run changes; settings and deletions only where
\* they are not locked.
LEMMA OthersMove ==
    ASSUME RunInvariant, UNCHANGED <<run, notices, occurrences>>,
           DOMAIN consent' = DOMAIN consent, consent' \in [DOMAIN consent' -> BOOLEAN],
           \A u \in DOMAIN consent : SettingsLocked(u) => consent'[u] = consent[u],
           DOMAIN reader' = {"pc", "notice"},
           reader'.pc \in {"settings", "row"} => reader'.notice \in DOMAIN notices,
           (reader.pc = "row" => Visible(reader.notice))'
    PROVE  RunInvariant'
<1>0. RunTypes /\ OccurrenceNotifiedOnce /\ ReservationsExclude /\ LockedIsCurrent
  BY DEF RunInvariant
<1>1. RunTypes'
  BY <1>0 DEF RunTypes
<1>2. OccurrenceNotifiedOnce'
  BY <1>0 DEF OccurrenceNotifiedOnce
<1>3. ReservationsExclude'
  BY <1>0 DEF ReservationsExclude, Reserving, Due
<1>4. ASSUME NEW r \in Runs, run'[r].pc = "locked", run'[r].agreed
      PROVE  Consents(Due(r).user)'
  <2>1. Consents(Due(r).user) /\ SettingsLocked(Due(r).user) /\ Due(r)' = Due(r)
    BY <1>0, <1>4 DEF LockedIsCurrent, SettingsLocked, Due
  <2> QED  BY <2>1 DEF Consents
<1>5. LockedIsCurrent'
  BY <1>4 DEF LockedIsCurrent
<1> QED  BY <1>1, <1>2, <1>3, <1>5 DEF RunInvariant

LEMMA StepOfReader ==
    ASSUME RunInvariant, ReadStep
    PROVE  RunInvariant'
<1>0. /\ consent \in [DOMAIN consent -> BOOLEAN] /\ DOMAIN reader = {"pc", "notice"}
      /\ reader.pc \in {"settings", "row"} => reader.notice \in DOMAIN notices
  BY DEF RunInvariant, RunTypes
<1>1. UNCHANGED <<run, notices, occurrences, consent, deleted>>
  BY DEF ReadStep, ReadLock, ReadSelect, ReadCommit, settings, rows
<1>2. /\ DOMAIN reader' = {"pc", "notice"} /\ reader'.notice = reader.notice
      /\ reader'.pc \in {"settings", "row"} => reader'.notice \in DOMAIN notices
      /\ reader'.pc = "row" => Visible(reader.notice)
  BY <1>0 DEF ReadStep, ReadLock, ReadSelect, ReadCommit
<1>3. (reader.pc = "row" => Visible(reader.notice))'
  BY <1>1, <1>2 DEF Visible, Consents
<1> QED  BY <1>0, <1>1, <1>2, <1>3, OthersMove

LEMMA StepOfChange ==
    ASSUME RunInvariant, Change
    PROVE  RunInvariant'
<1>0. /\ consent \in [DOMAIN consent -> BOOLEAN] /\ DOMAIN reader = {"pc", "notice"}
      /\ reader.pc \in {"settings", "row"} => reader.notice \in DOMAIN notices
      /\ reader.pc = "row" => Visible(reader.notice)
      /\ UNCHANGED <<run, reader>>
  BY DEF RunInvariant, RunTypes, LockedIsCurrent, Change
<1>1. CASE UNCHANGED <<settings, rows>>
  <2>1. (reader.pc = "row" => Visible(reader.notice))'
    BY <1>0, <1>1 DEF Visible, Consents, settings, rows
  <2> QED  BY <1>0, <1>1, <2>1, OthersMove DEF settings, rows
<1>2. CASE \E m \in DOMAIN notices : Delete(m)
  <2>1. PICK m \in DOMAIN notices : Delete(m)
    BY <1>2
  <2>2. UNCHANGED <<notices, occurrences, consent>> /\ deleted' = deleted \cup {m}
    BY <2>1 DEF Delete, settings
  <2>3. (reader.pc = "row" => Visible(reader.notice))'
    BY <1>0, <2>1, <2>2 DEF Delete, RowLocked, Visible, Consents
  <2> QED  BY <1>0, <2>2, <2>3, OthersMove
<1>3. CASE \E u \in DOMAIN consent : UpdateSettings(u)
  <2>1. PICK u \in DOMAIN consent : UpdateSettings(u)
    BY <1>3
  <2>2. UNCHANGED <<notices, occurrences, deleted>> /\ ~SettingsLocked(u)
    BY <2>1 DEF UpdateSettings, rows
  <2>3. consent' = consent \/ consent' = [consent EXCEPT ![u] = ~consent[u]]
    BY <2>1 DEF UpdateSettings
  <2>4. /\ DOMAIN consent' = DOMAIN consent /\ consent' \in [DOMAIN consent' -> BOOLEAN]
        /\ \A v \in DOMAIN consent : v # u => consent'[v] = consent[v]
    BY <1>0, <2>3
  <2>5. reader.pc = "row" => SettingsLocked(notices[reader.notice].user)
    BY DEF SettingsLocked
  <2>6. (reader.pc = "row" => Visible(reader.notice))'
    BY <1>0, <2>2, <2>4, <2>5 DEF Visible, Consents
  <2> QED  BY <1>0, <2>2, <2>4, <2>6, OthersMove
<1> QED  BY <1>1, <1>2, <1>3 DEF Change, Withdraw, Register, Unregister, DeleteReceipt

LEMMA Elsewhere ==
    ASSUME RunInvariant, UNCHANGED <<run, notices, occurrences, consent, deleted, reader>>
    PROVE  RunInvariant'
<1>0. /\ consent \in [DOMAIN consent -> BOOLEAN] /\ DOMAIN reader = {"pc", "notice"}
      /\ reader.pc \in {"settings", "row"} => reader.notice \in DOMAIN notices
      /\ reader.pc = "row" => Visible(reader.notice)
  BY DEF RunInvariant, RunTypes, LockedIsCurrent
<1>1. (reader.pc = "row" => Visible(reader.notice))'
  BY <1>0 DEF Visible, Consents
<1> QED  BY <1>0, <1>1, OthersMove

LEMMA AtRestIsGood ==
    ASSUME AtRest
    PROVE  RunInvariant
<1>0. DOMAIN IdleRun = {"pc", "rule", "cursor", "facts", "next", "activity", "todo", "agreed"}
  BY DEF IdleRun
<1>1. \A r \in Runs : DOMAIN run[r] = DOMAIN IdleRun /\ run[r].pc \in {"idle", "done"}
  BY <1>0 DEF AtRest, IdleRun
<1>2. RunTypes
  BY <1>1 DEF AtRest, RunTypes
<1>3. ReservationsExclude /\ LockedIsCurrent
  BY <1>1 DEF AtRest, ReservationsExclude, LockedIsCurrent, Reserving
<1> QED  BY <1>2, <1>3 DEF AtRest, RunInvariant

LEMMA EveryStep ==
    ASSUME RunInvariant, [Next]_vars
    PROVE  RunInvariant'
<1>1. ASSUME NEW r \in Runs, RunStep(r) \/ Abort(r)
      PROVE  RunInvariant'
  BY <1>1, QuietRun, StepOfReserve, StepOfLockSettings, StepOfCreate DEF RunStep
<1>2. ASSUME NEW w \in Workers, PushStep(w) \/ Swallow(w) \/ Crash(w)
      PROVE  RunInvariant'
  <2>1. UNCHANGED <<run, notices, occurrences, consent, deleted, reader>>
    BY <1>2 DEF PushStep, Deliver, Find, ReadSettings, ListTokens, Send, CleanUp, Swallow, Crash,
       settings, rows
  <2> QED  BY <2>1, Elsewhere
<1>3. CASE CleanUpStale \/ \E d \in devices : Expire(d)
  <2>1. UNCHANGED <<run, notices, occurrences, consent, deleted, reader>>
    BY <1>3 DEF CleanUpStale, Expire, settings, rows
  <2> QED  BY <2>1, Elsewhere
<1>4. CASE UNCHANGED vars
  <2>1. UNCHANGED <<run, notices, occurrences, consent, deleted, reader>>
    BY <1>4 DEF vars, settings, rows
  <2> QED  BY <2>1, Elsewhere
<1> QED  BY <1>1, <1>2, <1>3, <1>4, StepOfReader, StepOfChange DEF Next

\* Locks keep what was decided under them (create_due_notifications/use_case.py:178).
THEOREM RunInvariantHolds == NotificationSpec => []RunInvariant
<1>1. AtRest => RunInvariant
  BY AtRestIsGood
<1>2. RunInvariant /\ [Next]_vars => RunInvariant'
  BY EveryStep
<1> QED  BY <1>1, <1>2, PTL DEF NotificationSpec

\* An occurrence has one notification, whatever runs race, stop or are repeated
\* (INSERT .. ON CONFLICT DO NOTHING in the transaction that creates it).
THEOREM OccurrencesNotifiedOnce == NotificationSpec => []OccurrenceNotifiedOnce
<1>1. RunInvariant => OccurrenceNotifiedOnce
  BY DEF RunInvariant
<1> QED  BY <1>1, RunInvariantHolds, PTL

-----------------------------------------------------------------------------
(* Consent *)

\* What ConsentGuardsMarketing says of a step.
Consented ==
    /\ \A n \in DOMAIN notices' \ DOMAIN notices :
          notices'[n].marketing => Consents(notices'[n].user)
    /\ \A n \in read' \ read :
          notices[n].marketing => Consents(notices[n].user) /\ n \notin deleted

LEMMA CreateIsConsented ==
    ASSUME RunInvariant, NEW q \in Runs, Create(q)
    PROVE  Consented
<1>1. read' = read
  BY DEF Create
<1>2. IsMarketing(Rule(q)) => Consents(Due(q).user)
  BY DEF Create, RunInvariant, LockedIsCurrent
<1>3. /\ notices \in Seq({notices[m] : m \in DOMAIN notices})
      /\ notices' = Append(notices, [occ |-> Due(q).occ, user |-> Due(q).user,
                                     marketing |-> IsMarketing(Rule(q))])
  BY DEF Create, RunInvariant, RunTypes
<1>4. /\ DOMAIN notices' = DOMAIN notices \cup {Len(notices')}
      /\ notices'[Len(notices')] = [occ |-> Due(q).occ, user |-> Due(q).user,
                                    marketing |-> IsMarketing(Rule(q))]
  BY <1>3, Appended
<1>5. notices'[Len(notices')].marketing => Consents(notices'[Len(notices')].user)
  <2>1. /\ notices'[Len(notices')].marketing = IsMarketing(Rule(q))
        /\ notices'[Len(notices')].user = Due(q).user
    BY <1>4
  <2> QED  BY <1>2, <2>1
<1> QED  BY <1>1, <1>4, <1>5 DEF Consented

LEMMA StepIsConsented ==
    ASSUME RunInvariant, Next
    PROVE  Consented
<1>1. ASSUME NEW r \in Runs, RunStep(r) \/ Abort(r)
      PROVE  Consented
  <2>1. CASE Create(r)
    BY <2>1, CreateIsConsented
  <2>2. CASE UNCHANGED rows
    BY <2>2 DEF rows, Consented
  <2> QED
    BY <1>1, <2>1, <2>2 DEF RunStep, Begin, SkipRule, TakeRule, Finish, ReadExpiring, ReadFacts,
       ReadActivity, NextPage, DryRun, Reserve, Reject, LockSettings, SkipUnconsented, Abort
<1>2. CASE UNCHANGED <<notices, read>>
  BY <1>2 DEF Consented
<1>3. ASSUME NEW w \in Workers, PushStep(w) \/ Swallow(w) \/ Crash(w)
      PROVE  UNCHANGED <<notices, read>>
  BY <1>3 DEF PushStep, Deliver, Find, ReadSettings, ListTokens, Send, CleanUp, Swallow, Crash, rows
<1>4. CASE ReadStep
  <2>1. CASE ReadCommit
    <3>1. Visible(reader.notice)
      BY <2>1 DEF ReadCommit, RunInvariant, LockedIsCurrent
    <3>2. notices' = notices /\ read' = read \cup {reader.notice}
      BY <2>1 DEF ReadCommit
    <3> QED  BY <3>1, <3>2 DEF Consented, Visible
  <2> QED  BY <1>2, <1>4, <2>1 DEF ReadStep, ReadLock, ReadSelect, rows
<1>5. CASE Change
  <2>1. UNCHANGED <<notices, read>>
    BY <1>5 DEF Change, Delete, UpdateSettings, Register, Unregister, Withdraw, DeleteReceipt, rows
  <2> QED  BY <1>2, <2>1
<1>6. CASE CleanUpStale \/ \E d \in devices : Expire(d)
  BY <1>2, <1>6 DEF CleanUpStale, Expire, rows
<1> QED  BY <1>1, <1>2, <1>3, <1>4, <1>5, <1>6 DEF Next

\* Consent that was given and withdrawn while a run or a request was under way
\* does not count (get_settings_for_update, repository.py:204).
THEOREM MarketingNeedsConsent == NotificationSpec => ConsentGuardsMarketing
<1>1. RunInvariant /\ [Next]_vars => [Consented]_vars
  BY StepIsConsented
<1>2. [Consented]_vars =>
        [/\ \A n \in DOMAIN notices' \ DOMAIN notices :
               notices'[n].marketing => Consents(notices'[n].user)
         /\ \A n \in read' \ read :
               notices[n].marketing => Consents(notices[n].user) /\ n \notin deleted]_vars
  BY DEF Consented
<1> QED  BY <1>1, <1>2, RunInvariantHolds, PTL DEF NotificationSpec, ConsentGuardsMarketing

-----------------------------------------------------------------------------
(* What dispatches have seen *)

\* Of notifications and dead registrations, a step only adds.
Growing ==
    /\ DOMAIN notices \subseteq DOMAIN notices'
    /\ \A n \in DOMAIN notices : notices'[n] = notices[n]
    /\ dead \subseteq dead'

LEMMA Grows ==
    ASSUME RunInvariant, [Next]_vars
    PROVE  Growing
<1>1. ASSUME NEW r \in Runs, RunStep(r) \/ Abort(r)
      PROVE  Growing
  <2>1. CASE Create(r)
    <3>1. /\ notices \in Seq({notices[m] : m \in DOMAIN notices})
          /\ notices' = Append(notices, [occ |-> Due(r).occ, user |-> Due(r).user,
                                         marketing |-> IsMarketing(Rule(r))])
          /\ dead' = dead
      BY <2>1 DEF Create, RunInvariant, RunTypes, registrations
    <3> QED  BY <3>1, Appended DEF Growing
  <2>2. CASE UNCHANGED <<rows, registrations>>
    BY <2>2 DEF rows, registrations, Growing
  <2> QED
    BY <1>1, <2>1, <2>2 DEF RunStep, Begin, SkipRule, TakeRule, Finish, ReadExpiring, ReadFacts,
       ReadActivity, NextPage, DryRun, Reserve, Reject, LockSettings, SkipUnconsented, Abort
<1>2. CASE UNCHANGED <<notices, dead>>
  BY <1>2 DEF Growing
<1>3. ASSUME NEW w \in Workers, PushStep(w) \/ Swallow(w) \/ Crash(w)
      PROVE  UNCHANGED <<notices, dead>>
  BY <1>3 DEF PushStep, Deliver, Find, ReadSettings, ListTokens, Send, CleanUp, Swallow, Crash,
     rows, registrations
<1>4. ReadStep => UNCHANGED <<notices, dead>>
  BY DEF ReadStep, ReadLock, ReadSelect, ReadCommit, rows, registrations
<1>5. Change => UNCHANGED <<notices, dead>>
  BY DEF Change, Delete, UpdateSettings, Register, Unregister, Withdraw, DeleteReceipt, rows,
     registrations
<1>6. CleanUpStale => UNCHANGED <<notices, dead>>
  BY DEF CleanUpStale, rows
<1>7. ASSUME NEW d \in devices, Expire(d)
      PROVE  Growing
  BY <1>7 DEF Expire, rows, Growing
<1>8. UNCHANGED vars => UNCHANGED <<notices, dead>>
  BY DEF vars, rows, registrations
<1> QED  BY <1>1, <1>2, <1>3, <1>4, <1>5, <1>6, <1>7, <1>8 DEF Next

\* A dispatch that does not move keeps what it has seen.
LEMMA Waits ==
    ASSUME DispatchInvariant, Growing, NEW w \in Workers, push'[w] = push[w],
           seen' = seen \/ Observe
    PROVE  Saw(w)'
<1>1. CASE push[w].pc \in {"idle", "stopped"}
  BY <1>1 DEF Saw
<1>2. CASE push[w].pc \notin {"idle", "stopped"}
  <2>1. seen[w] \subseteq seen'[w]
    BY <1>2 DEF Observe
  <2>2. /\ Saw(w) /\ push[w].notice \in DOMAIN notices
        /\ notices'[push[w].notice] = notices[push[w].notice] /\ dead \subseteq dead'
    BY <1>2 DEF DispatchInvariant, DispatchTypes, Growing
  <2> QED  BY <2>1, <2>2 DEF Saw
<1> QED  BY <1>1, <1>2

LEMMA AllWait ==
    ASSUME DispatchInvariant, Growing, push' = push, outbox' \subseteq DOMAIN notices',
           seen' = seen \/ Observe
    PROVE  DispatchInvariant'
<1>1. \A w \in Workers : Saw(w)'
  BY Waits
<1>2. DispatchTypes'
  BY DEF DispatchInvariant, DispatchTypes, Growing
<1> QED  BY <1>1, <1>2 DEF DispatchInvariant

LEMMA StepOfDispatch ==
    ASSUME DispatchInvariant, NEW w \in Workers, PushStep(w) \/ Swallow(w) \/ Crash(w), Observe
    PROVE  DispatchInvariant'
<1>0. /\ outbox \subseteq DOMAIN notices /\ DOMAIN push = Workers
      /\ DOMAIN push[w] = DOMAIN IdlePush /\ DOMAIN IdlePush = {"pc", "notice", "tokens", "invalid"}
      /\ push[w].pc \notin {"idle", "stopped"} => push[w].notice \in DOMAIN notices
      /\ Saw(w)
  BY DEF DispatchInvariant, DispatchTypes, IdlePush
<1>1. /\ UNCHANGED <<notices, deleted, consent, push_enabled, dead>>
      /\ DOMAIN push' = Workers /\ \A v \in Workers : v # w => push'[v] = push[v]
      /\ outbox' \subseteq outbox
  BY <1>0 DEF PushStep, Deliver, Find, ReadSettings, ListTokens, Send, CleanUp, Swallow, Crash,
     Returns, settings, rows, registrations
<1>2. push[w].pc # "idle" /\ push'[w].pc # "idle" => seen'[w] = seen[w] \cup Holding(w)'
  BY DEF Observe
<1>3. /\ DOMAIN push'[w] = DOMAIN IdlePush
      /\ push'[w].pc \notin {"idle", "stopped"} => push'[w].notice \in DOMAIN notices
      /\ Saw(w)'
  <2>1. CASE push'[w] = IdlePush
    BY <1>0, <2>1 DEF IdlePush, Saw
  <2>2. CASE Deliver(w)
    <3>1. PICK n \in outbox : push' = [push EXCEPT ![w] = [IdlePush EXCEPT !.pc = "find",
                                                                          !.notice = n]]
      BY <2>2 DEF Deliver
    <3>2. push'[w] = [IdlePush EXCEPT !.pc = "find", !.notice = n]
      BY <1>0, <3>1
    <3> QED  BY <1>0, <3>2 DEF IdlePush, Saw
  <2>3. CASE Find(w) /\ push'[w] # IdlePush
    <3>1. /\ push[w].pc = "find" /\ push[w].notice \notin deleted
          /\ push'[w] = [push[w] EXCEPT !.pc = "settings"]
      BY <1>0, <2>3 DEF Find, Returns, Visible
    <3>2. "notification" \in Holding(w)'
      BY <1>0, <1>1, <3>1 DEF Holding
    <3> QED  BY <1>0, <1>2, <3>1, <3>2 DEF Saw
  <2>4. CASE ReadSettings(w) /\ push'[w] # IdlePush
    <3> DEFINE n == notices[push[w].notice]
    <3>1. /\ push[w].pc = "settings" /\ push'[w] = [push[w] EXCEPT !.pc = "tokens"]
          /\ WantsPush(n.user) /\ (n.marketing => Consents(n.user))
      BY <1>0, <2>4 DEF ReadSettings, Returns
    <3>2. /\ notices'[push'[w].notice] = n
          /\ WantsPush(n.user)' /\ (n.marketing => Consents(n.user)')
      BY <1>0, <1>1, <3>1 DEF WantsPush, Consents
    <3>3. /\ "push_enabled" \in Holding(w)'
          /\ n.marketing => "consent" \in Holding(w)'
      BY <1>0, <1>1, <3>1, <3>2 DEF Holding, WantsPush, Consents
    <3> QED  BY <1>0, <1>1, <1>2, <3>1, <3>2, <3>3 DEF Saw
  <2>5. CASE ListTokens(w) /\ push'[w] # IdlePush
    <3> DEFINE mine == {d \in DOMAIN tokens : tokens[d].user = notices[push[w].notice].user}
    <3>1. /\ push[w].pc = "tokens" /\ tokens' = tokens
          /\ push'[w] = [push[w] EXCEPT !.pc = "send", !.tokens = mine]
      BY <1>0, <2>5 DEF ListTokens, Returns, registrations
    <3>2. mine \subseteq Holding(w)'
      BY <1>0, <1>1, <3>1 DEF Holding
    <3>3. /\ push'[w].pc = "send" /\ push'[w].notice = push[w].notice /\ push'[w].tokens = mine
          /\ DOMAIN push'[w] = DOMAIN push[w]
      BY <1>0, <3>1
    <3> HIDE DEF mine
    <3> QED  BY <1>0, <1>1, <1>2, <3>1, <3>2, <3>3 DEF Saw
  <2>6. CASE Send(w)
    <3>1. push'[w] = [push[w] EXCEPT !.pc = "report", !.invalid = push[w].tokens \cap dead]
      BY <1>0, <2>6 DEF Send
    <3>2. /\ push[w].pc = "send" /\ push'[w].pc = "report" /\ push'[w].notice = push[w].notice
          /\ push'[w].invalid \subseteq push'[w].tokens /\ push'[w].invalid \subseteq dead
          /\ DOMAIN push'[w] = DOMAIN push[w]
      BY <1>0, <2>6, <3>1 DEF Send
    <3> QED  BY <1>0, <1>1, <3>2 DEF Saw
  <2>7. CASE CleanUp(w) \/ Swallow(w) \/ Crash(w)
    <3>1. push'[w] = IdlePush
      BY <1>0, <2>7 DEF CleanUp, Swallow, Crash, Returns
    <3> QED  BY <2>1, <3>1
  <2> QED  BY <2>1, <2>2, <2>3, <2>4, <2>5, <2>6, <2>7 DEF PushStep
<1>4. \A v \in Workers : v # w => Saw(v)'
  <2>1. Growing
    BY <1>1 DEF Growing
  <2> QED  BY <1>1, <2>1, Waits
<1>5. DispatchTypes'
  BY <1>0, <1>1, <1>3 DEF DispatchInvariant, DispatchTypes
<1> QED  BY <1>3, <1>4, <1>5 DEF DispatchInvariant

LEMMA EveryStepOfAll ==
    ASSUME RunInvariant, DispatchInvariant, [Next]_vars
    PROVE  DispatchInvariant'
<1>0. Growing /\ outbox \subseteq DOMAIN notices
  BY Grows DEF DispatchInvariant, DispatchTypes
<1>1. ASSUME NEW w \in Workers, PushStep(w) \/ Swallow(w) \/ Crash(w), Observe
      PROVE  DispatchInvariant'
  BY <1>1, StepOfDispatch
<1>2. ASSUME push' = push, outbox' \subseteq DOMAIN notices', seen' = seen \/ Observe
      PROVE  DispatchInvariant'
  BY <1>0, <1>2, AllWait
<1>3. ASSUME NEW r \in Runs, RunStep(r) \/ Abort(r), Observe
      PROVE  DispatchInvariant'
  <2>1. CASE Create(r)
    <3>1. /\ notices \in Seq({notices[m] : m \in DOMAIN notices})
          /\ notices' = Append(notices, [occ |-> Due(r).occ, user |-> Due(r).user,
                                         marketing |-> IsMarketing(Rule(r))])
          /\ push' = push /\ outbox' = outbox \cup {Len(notices')}
      BY <2>1 DEF Create, RunInvariant, RunTypes
    <3>2. outbox' \subseteq DOMAIN notices'
      BY <1>0, <3>1, Appended
    <3> QED  BY <1>2, <1>3, <3>1, <3>2
  <2>2. CASE UNCHANGED <<push, rows>>
    BY <1>0, <1>2, <1>3, <2>2 DEF rows
  <2> QED
    BY <1>3, <2>1, <2>2 DEF RunStep, Begin, SkipRule, TakeRule, Finish, ReadExpiring, ReadFacts,
       ReadActivity, NextPage, DryRun, Reserve, Reject, LockSettings, SkipUnconsented, Abort
<1>4. ReadStep => UNCHANGED <<push, outbox, notices>>
  BY DEF ReadStep, ReadLock, ReadSelect, ReadCommit, rows
<1>5. Change => UNCHANGED <<push, outbox, notices>>
  BY DEF Change, Delete, UpdateSettings, Register, Unregister, Withdraw, DeleteReceipt, rows
<1>6. CleanUpStale \/ (\E d \in devices : Expire(d)) => UNCHANGED <<push, outbox, notices>>
  BY DEF CleanUpStale, Expire, rows
<1>7. UNCHANGED vars => UNCHANGED <<push, outbox, notices, seen>>
  BY DEF vars, rows
<1> QED  BY <1>0, <1>1, <1>2, <1>3, <1>4, <1>5, <1>6, <1>7 DEF Next

\* What a dispatch decided is what it has seen, however the facts changed since
\* (send_notification_push/use_case.py:49 reads them one after another).
THEOREM DispatchInvariantHolds == NotificationSpec => []DispatchInvariant
<1>1. AtRest => DispatchInvariant
  <2>1. ASSUME AtRest, NEW w \in Workers
        PROVE  DOMAIN push[w] = DOMAIN IdlePush /\ push[w].pc \in {"idle", "stopped"}
    BY <2>1 DEF AtRest, IdlePush
  <2> QED  BY <2>1 DEF AtRest, DispatchInvariant, DispatchTypes, Saw
<1>2. RunInvariant /\ DispatchInvariant /\ [Next]_vars => DispatchInvariant'
  BY EveryStepOfAll
<1> QED  BY <1>1, <1>2, RunInvariantHolds, PTL DEF NotificationSpec

\* No message is sent for what was never wanted while it was dispatched.
THEOREM PushesAreWanted == NotificationSpec => PushOnlyWhileWanted
<1>1. DispatchInvariant /\ [Next]_vars =>
        [\A w \in Workers : push[w].pc = "send" /\ push'[w].pc = "report" =>
           /\ push[w].tokens \cup {"notification", "push_enabled"} \subseteq seen[w]
           /\ notices[push[w].notice].marketing => "consent" \in seen[w]]_vars
  BY DEF DispatchInvariant, Saw
<1> QED  BY <1>1, DispatchInvariantHolds, PTL DEF NotificationSpec, PushOnlyWhileWanted

-----------------------------------------------------------------------------
(* Registrations *)

\* What RegistrationKept says of a step.
Kept ==
    \A d \in DOMAIN tokens \ DOMAIN tokens' :
        \/ d \in dead /\ Reported(d)
        \/ tokens[d].stale
        \/ Unregister(tokens[d].user, d)
        \/ Withdraw(tokens[d].user)

LEMMA StepKeepsRegistrations ==
    ASSUME DispatchInvariant, Next
    PROVE  Kept
<1>1. CASE UNCHANGED tokens
  BY <1>1 DEF Kept
<1>2. ASSUME NEW r \in Runs, RunStep(r) \/ Abort(r)
      PROVE  UNCHANGED tokens
  BY <1>2 DEF RunStep, Begin, SkipRule, TakeRule, Finish, ReadExpiring, ReadFacts, ReadActivity,
     NextPage, DryRun, Reserve, Reject, LockSettings, SkipUnconsented, Create, Abort, registrations
<1>3. ASSUME NEW w \in Workers, PushStep(w) \/ Swallow(w) \/ Crash(w)
      PROVE  Kept
  <2>1. CASE CleanUp(w)
    <3>1. \A d \in push[w].invalid : d \in dead /\ Reported(d)
      BY <2>1 DEF CleanUp, DispatchInvariant, Saw, Reported
    <3>2. DOMAIN tokens' = DOMAIN tokens \ push[w].invalid
      BY <2>1 DEF CleanUp
    <3> QED  BY <3>1, <3>2 DEF Kept
  <2> QED
    BY <1>1, <1>3, <2>1 DEF PushStep, Deliver, Find, ReadSettings, ListTokens, Send, Swallow, Crash,
       registrations
<1>4. CASE ReadStep
  BY <1>1, <1>4 DEF ReadStep, ReadLock, ReadSelect, ReadCommit, registrations
<1>5. CASE Change
  <2>1. ASSUME NEW u \in DOMAIN consent, Withdraw(u)
        PROVE  Kept
    <3>1. DOMAIN tokens' = {d \in DOMAIN tokens : tokens[d].user # u}
      BY <2>1 DEF Withdraw
    <3> QED  BY <2>1, <3>1 DEF Kept
  <2>2. ASSUME NEW u \in DOMAIN consent, NEW d \in devices, Unregister(u, d)
        PROVE  Kept
    <3>1. DOMAIN tokens' = DOMAIN tokens \ {d} /\ tokens[d].user = u
      BY <2>2 DEF Unregister
    <3> QED  BY <2>2, <3>1 DEF Kept
  <2>3. ASSUME NEW u \in DOMAIN consent, NEW d \in devices, Register(u, d)
        PROVE  Kept
    <3>1. DOMAIN tokens' = DOMAIN tokens \cup {d}
      BY <2>3 DEF Register
    <3> QED  BY <3>1 DEF Kept
  <2>4. ASSUME NEW n \in DOMAIN notices, Delete(n)
        PROVE  Kept
    BY <1>1, <2>4 DEF Delete, registrations
  <2>5. ASSUME NEW u \in DOMAIN consent, UpdateSettings(u)
        PROVE  Kept
    BY <1>1, <2>5 DEF UpdateSettings, registrations
  <2>6. ASSUME NEW i \in DOMAIN receipts, DeleteReceipt(i)
        PROVE  Kept
    BY <1>1, <2>6 DEF DeleteReceipt, registrations
  <2> QED  BY <1>5, <2>1, <2>2, <2>3, <2>4, <2>5, <2>6 DEF Change
<1>6. CASE CleanUpStale
  <2>1. DOMAIN tokens' = {d \in DOMAIN tokens : ~tokens[d].stale}
    BY <1>6 DEF CleanUpStale
  <2> QED  BY <2>1 DEF Kept
<1>7. ASSUME NEW d \in devices, Expire(d)
      PROVE  Kept
  BY <1>1, <1>7 DEF Expire
<1> QED  BY <1>2, <1>1, <1>3, <1>4, <1>5, <1>6, <1>7 DEF Next

\* FCM's report, taken without a lock, deletes no registration that works: one
\* whose token is dead stays dead, whoever registered it meanwhile.
THEOREM RegistrationsKept == NotificationSpec => RegistrationKept
<1>1. DispatchInvariant /\ [Next]_vars => [Kept]_vars
  BY StepKeepsRegistrations
<1>2. [Kept]_vars =>
        [\A d \in DOMAIN tokens \ DOMAIN tokens' :
           \/ d \in dead /\ Reported(d)
           \/ tokens[d].stale
           \/ Unregister(tokens[d].user, d)
           \/ Withdraw(tokens[d].user)]_vars
  BY DEF Kept
<1> QED  BY <1>1, <1>2, DispatchInvariantHolds, PTL DEF NotificationSpec, RegistrationKept

-----------------------------------------------------------------------------
(* Pages *)

LEMMA IdsAreOrdered ==
    ASSUME NEW S, S \subseteq Int
    PROVE  Orders(ById, S)
BY DEF Orders, ById

LEMMA RegistrationsAreOrdered ==
    ASSUME NEW of, DOMAIN of \subseteq Int, \A u \in DOMAIN of : of[u] \in Int,
           NEW S, S \subseteq DOMAIN of
    PROVE  Orders(ByRegistration(of), S)
<1> DEFINE R == ByRegistration(of)
<1>0. /\ \A x \in S : x \in DOMAIN of /\ x \in Int /\ of[x] \in Int
      /\ \A x, y \in S : <<x, y>> \in R <=> of[x] < of[y] \/ (of[x] = of[y] /\ x < y)
  BY DEF ByRegistration
<1> HIDE DEF R
<1>1. \A x, y \in S : x # y => <<x, y>> \in R \/ <<y, x>> \in R
  BY <1>0
<1>2. \A x \in S : <<x, x>> \notin R
  BY <1>0
<1>3. \A x, y, z \in S : <<x, y>> \in R /\ <<y, z>> \in R => <<x, z>> \in R
  BY <1>0
<1>4. Orders(R, S)
  BY <1>1, <1>2, <1>3 DEF Orders
<1> QED  BY <1>4 DEF R

\* ORDER BY returns every row once, in order.
LEMMA SortedIsComplete ==
    ASSUME NEW rowsRead, IsFiniteSet(rowsRead), NEW order, Orders(order, rowsRead)
    PROVE  LET s == Sorted(rowsRead, order) IN
           /\ s \in [1..Cardinality(rowsRead) -> rowsRead]
           /\ s \in Seq(rowsRead)
           /\ Ascending(order, s) /\ Enumerates(s, rowsRead)
<1> DEFINE s == Sorted(rowsRead, order)
<1>1. \E t \in [1..Cardinality(rowsRead) -> rowsRead] : Ascending(order, t)
  BY AscendingExists
<1>2. s \in [1..Cardinality(rowsRead) -> rowsRead] /\ Ascending(order, s)
  BY <1>1 DEF Sorted, Ascending
<1>3. Enumerates(s, rowsRead)
  BY <1>2, AscendingIsComplete
<1>4. Cardinality(rowsRead) \in Nat
  BY FS_CardinalityType
<1> HIDE DEF s
<1>5. s \in Seq(rowsRead)
  BY <1>2, <1>4
<1> QED  BY <1>2, <1>3, <1>5 DEF s

\* Every row is of the page or behind its cursor, which is a row of the page.
LEMMA PageIsComplete ==
    ASSUME NEW rowsRead, IsFiniteSet(rowsRead), NEW order, Orders(order, rowsRead),
           NEW limit \in Nat \ {0}, None \notin rowsRead
    PROVE  LET page == Page(rowsRead, order, limit) IN
           /\ page.items \subseteq rowsRead
           /\ page.next = None \/ page.next \in rowsRead
           /\ \A x \in rowsRead :
                 x \in page.items \/ (page.next # None /\ <<page.next, x>> \in order)
<1> DEFINE s == Sorted(rowsRead, order)
           page == Page(rowsRead, order, limit)
           n == Cardinality(rowsRead)
<1>1. s \in [1..n -> rowsRead] /\ Ascending(order, s) /\ Enumerates(s, rowsRead) /\ n \in Nat
  BY SortedIsComplete, FS_CardinalityType
<1>2. /\ page.items = {s[k] : k \in {l \in DOMAIN s : l <= limit}}
      /\ page.next = IF n > limit THEN s[limit] ELSE None
  BY DEF Page
<1> HIDE DEF s, page, n
<1>3. page.items \subseteq rowsRead
  BY <1>1, <1>2
<1>4. n > limit => limit \in DOMAIN s /\ s[limit] \in rowsRead
  BY <1>1
<1>5. ASSUME NEW x \in rowsRead, x \notin page.items
      PROVE  page.next # None /\ <<page.next, x>> \in order
  <2>1. PICK k \in DOMAIN s : s[k] = x
    BY <1>1 DEF Enumerates
  <2>2. k \in 1..n /\ k > limit
    BY <1>1, <1>2, <1>5, <2>1
  <2>3. n > limit
    BY <1>1, <2>2
  <2>4. <<s[limit], s[k]>> \in order
    BY <1>1, <1>4, <2>2, <2>3 DEF Ascending
  <2> QED  BY <1>2, <1>4, <2>1, <2>3, <2>4
<1>6. page.next = None \/ page.next \in rowsRead
  BY <1>2, <1>4
<1> QED  BY <1>3, <1>5, <1>6 DEF page

-----------------------------------------------------------------------------
(* What is owed *)

LEMMA MultiplesHaveNoRemainder ==
    ASSUME NEW k \in Int, NEW n \in Nat \ {0}
    PROVE  (k * n) % n = 0
<1> DEFINE m == (k * n) \div n
           e == (k * n) % n
<1>1. k * n \in Int
  OBVIOUS
<1>2. m \in Int /\ e \in 0..(n - 1) /\ k * n = n * m + e
  BY <1>1, Z3
<1> QED  BY <1>2

LEMMA OwedIsOfRule ==
    ASSUME TypedWorld, NEW r \in Runs, NEW occ \in Owed(r)
    PROVE  /\ ~command[r].dry_run
           /\ \E k \in DOMAIN rules :
                 LET rule == rules[k]
                     c == command[r] IN
                 /\ occ = <<rule.key, occ[2], TargetDate(c)>>
                 /\ c.key \in {None, rule.key} /\ IsDue(rule, c) /\ ~LacksLookback(rule)
                 /\ occ[2] \in IF IsMarketing(rule) THEN OwedUsers(rule, c)
                               ELSE OwedReceipts(rule, c)
<1> DEFINE c == command[r]
           Subjects(rule) == IF IsMarketing(rule) THEN OwedUsers(rule, c) ELSE OwedReceipts(rule, c)
           Skipped(rule) == c.key \notin {None, rule.key} \/ ~IsDue(rule, c) \/ LacksLookback(rule)
           Of(k) == IF Skipped(rules[k]) THEN {}
                    ELSE {<<rules[k].key, s, TargetDate(c)>> : s \in Subjects(rules[k])}
<1>1. ~c.dry_run /\ \E k \in DOMAIN rules : occ \in Of(k)
  BY DEF Owed
<1>2. PICK k \in DOMAIN rules : occ \in Of(k)
  BY <1>1
<1>3. ~Skipped(rules[k]) /\ \E s \in Subjects(rules[k]) : occ = <<rules[k].key, s, TargetDate(c)>>
  <2> HIDE DEF Skipped, Subjects
  <2> QED  BY <1>2
<1> HIDE DEF Subjects
<1>4. occ = <<rules[k].key, occ[2], TargetDate(c)>> /\ occ[2] \in Subjects(rules[k])
  BY <1>3
<1> QED  BY <1>1, <1>3, <1>4 DEF Subjects

\* Rules have keys of their own: an occurrence is of one rule.
LEMMA OwedIsOfThisRule ==
    ASSUME TypedWorld, NEW r \in Runs, NEW occ \in Owed(r),
           NEW k \in DOMAIN rules, rules[k].key = occ[1]
    PROVE  LET rule == rules[k]
               c == command[r] IN
           /\ occ = <<rule.key, occ[2], TargetDate(c)>>
           /\ c.key \in {None, rule.key} /\ IsDue(rule, c) /\ ~LacksLookback(rule)
           /\ occ[2] \in IF IsMarketing(rule) THEN OwedUsers(rule, c) ELSE OwedReceipts(rule, c)
<1>1. PICK l \in DOMAIN rules :
         /\ occ = <<rules[l].key, occ[2], TargetDate(command[r])>>
         /\ command[r].key \in {None, rules[l].key}
         /\ IsDue(rules[l], command[r]) /\ ~LacksLookback(rules[l])
         /\ occ[2] \in IF IsMarketing(rules[l]) THEN OwedUsers(rules[l], command[r])
                       ELSE OwedReceipts(rules[l], command[r])
  BY OwedIsOfRule
<1>2. occ[1] = rules[l].key
  <2>1. occ = <<rules[l].key, occ[2], TargetDate(command[r])>>
    BY <1>1
  <2> QED  BY <2>1
<1>3. l = k
  BY <1>2 DEF TypedWorld
<1> QED  BY <1>1, <1>3

OwedUsersExist ==
    \A r \in Runs : \A occ \in Owed(r) : \A k \in DOMAIN rules :
        rules[k].key = occ[1] /\ IsMarketing(rules[k]) => occ[2] \in DOMAIN registered

LEMMA OwedAreRegistered ==
    /\ TypedWorld => OwedUsersExist
    /\ TypedWorld' => OwedUsersExist'
<1>1. TypedWorld => OwedUsersExist
  <2> SUFFICES ASSUME TypedWorld, NEW r \in Runs, NEW occ \in Owed(r), NEW k \in DOMAIN rules,
                      rules[k].key = occ[1], IsMarketing(rules[k])
               PROVE  occ[2] \in DOMAIN registered
    BY DEF OwedUsersExist
  <2>1. occ[2] \in OwedUsers(rules[k], command[r])
    BY OwedIsOfThisRule
  <2> QED  BY <2>1 DEF OwedUsers
<1> QED  BY <1>1, PTL

\* The days an owed user has been registered match the rule's cadence.
LEMMA OwedMatchCadence ==
    ASSUME TypedWorld, NEW r \in Runs, NEW k \in DOMAIN rules, IsMarketing(rules[k]),
           NEW u \in OwedUsers(rules[k], command[r])
    PROVE  MatchesJoinCadence(rules[k], RegistrationAge(registered[u], TargetDate(command[r])))
<1> DEFINE rule == rules[k]
           first == FirstDueDay(rule)
           age == RegistrationAge(registered[u], TargetDate(command[r]))
<1>1. ValidRule(rule) /\ rule.kind \in EngagementKinds
  BY DEF TypedWorld, ValidRule, IsMarketing, TargetKinds
<1>2. rule.interval \in Nat /\ first \in Nat /\ rule.interval # None
  <2>1. /\ rule.interval # None
        /\ rule.interval = None \/ rule.interval \in Nat
        /\ rule.first_delay = None \/ rule.first_delay \in Nat
        /\ rule.lookback = None \/ rule.lookback \in Nat
    BY <1>1 DEF ValidRule, Days
  <2> QED  BY <2>1 DEF FirstDueDay
<1>3. PICK n \in 0..age : age = first + n * rule.interval
  BY DEF OwedUsers
<1>4. age \in Int
  <2>1. registered[u] \in Int /\ TargetDate(command[r]) \in Int
    BY DEF TypedWorld, OwedUsers
  <2> QED  BY <2>1 DEF RegistrationAge, LocalDate, SystemTimezone, DayHours
<1> HIDE DEF rule, first, age
<1>5. n \in Nat /\ n * rule.interval \in Nat /\ age >= first /\ age - first = n * rule.interval
  <2>1. n \in Nat
    BY <1>4
  <2>2. n * rule.interval \in Nat
    BY <1>2, <2>1
  <2> QED  BY <1>2, <1>3, <1>4, <2>1, <2>2
<1>6. CASE rule.interval = 0
  <2>1. age = first
    BY <1>2, <1>4, <1>5, <1>6
  <2> QED  BY <1>5, <1>6, <2>1 DEF MatchesJoinCadence, rule, first, age
<1>7. CASE rule.interval # 0
  <2>1. (age - first) % rule.interval = 0
    BY <1>2, <1>5, <1>7, MultiplesHaveNoRemainder
  <2> QED  BY <1>2, <1>5, <1>7, <2>1 DEF MatchesJoinCadence, rule, first, age
<1> QED  BY <1>6, <1>7

\* An owed user is not left out of the activity, and has what the rule looks for.
LEMMA OwedShowInActivity ==
    ASSUME TypedWorld, NEW r \in Runs, NEW k \in DOMAIN rules, ~LacksLookback(rules[k]),
           rules[k].kind \in {"unregistered_receipt", "inactive_receipt"},
           NEW u \in OwedUsers(rules[k], command[r])
    PROVE  LET before == ReceiptsOf(receipts, u, ObservationCutoff(rules[k], command[r])) IN
           /\ ~RecentlyActive(receipts, u, rules[k], command[r])
           /\ MatchesReceiptActivity(rules[k], Cardinality(before))
<1> DEFINE rule == rules[k]
           c == command[r]
           before == ReceiptsOf(receipts, u, ObservationCutoff(rule, c))
<1>1. /\ rule.kind = "unregistered_receipt" => before = {}
      /\ rule.kind = "inactive_receipt" =>
            /\ before # {}
            /\ \A i \in before : receipts[i].created < Instant(TargetDate(c) - rule.lookback, 0)
  BY DEF OwedUsers
<1>2. IsFiniteSet(before) /\ Cardinality(before) \in Nat /\ (Cardinality(before) = 0 <=> before = {})
  <2>1. before \subseteq DOMAIN receipts
    BY DEF ReceiptsOf
  <2> HIDE DEF before
  <2> QED  BY <2>1, FS_Subset, FS_EmptySet, FS_CardinalityType DEF TypedWorld
<1>3. MatchesReceiptActivity(rule, Cardinality(before))
  <2> HIDE DEF before, rule
  <2>1. CASE rule.kind = "unregistered_receipt"
    BY <1>1, <1>2, <2>1 DEF MatchesReceiptActivity
  <2>2. CASE rule.kind = "inactive_receipt"
    BY <1>1, <1>2, <2>2 DEF MatchesReceiptActivity
  <2> QED  BY <2>1, <2>2 DEF rule
<1>4. ASSUME rule.kind = "inactive_receipt", NEW i \in before
      PROVE  ~(receipts[i].created >= ReceiptActivitySince(rule, c))
  <2>1. /\ receipts[i].created \in Int /\ TargetDate(c) \in Int
        /\ rule.lookback \in Nat
    BY <1>4 DEF TypedWorld, ReceiptsOf, ValidRule, Days, LacksLookback
  <2>2. receipts[i].created < Instant(TargetDate(c) - rule.lookback, 0)
    BY <1>1, <1>4
  <2>3. ReceiptActivitySince(rule, c) = Instant(TargetDate(c), 0) - rule.lookback * DayHours
    BY <1>4 DEF ReceiptActivitySince
  <2> HIDE DEF rule, c
  <2> QED  BY <2>1, <2>2, <2>3 DEF Instant, DayHours, SystemTimezone
<1>5. rule.kind # "inactive_receipt" => ReceiptActivitySince(rule, c) = None
  BY DEF ReceiptActivitySince
<1>6. ~RecentlyActive(receipts, u, rule, c)
  BY <1>4, <1>5 DEF RecentlyActive
<1> QED  BY <1>3, <1>6

-----------------------------------------------------------------------------
(* Runs that a step does not touch *)

\* Of users and receipts, there are no new ones.
Shrinking ==
    /\ DOMAIN registered' \subseteq DOMAIN registered
    /\ \A u \in DOMAIN registered' : registered'[u] = registered[u]
    /\ DOMAIN receipts' \subseteq DOMAIN receipts
    /\ \A i \in DOMAIN receipts' : receipts'[i] = receipts[i]

LEMMA WorldStaysTyped ==
    ASSUME TypedWorld, UNCHANGED fixed, Shrinking
    PROVE  TypedWorld'
<1>1. IsFiniteSet(DOMAIN registered') /\ IsFiniteSet(DOMAIN receipts')
  BY FS_Subset DEF TypedWorld, Shrinking
<1>2. \A r \in Runs : TargetDate(command[r])' = TargetDate(command[r])
  BY DEF fixed, TargetDate, LocalDate
<1> QED  BY <1>1, <1>2 DEF TypedWorld, Shrinking, fixed, ValidRule, Days

\* What is owed depends on nothing but these.
LEMMA OwedStays ==
    ASSUME UNCHANGED <<fixed, facts, settings>>, NEW r
    PROVE  Owed(r)' = Owed(r)
BY DEF Owed, OwedUsers, OwedReceipts, Consents, fixed, facts, settings

\* What is owed all the time is no more than it was, and owed now.
LEMMA SteadyOnlyShrinks ==
    ASSUME Observe \/ UNCHANGED <<steady, facts, settings>>,
           NEW r \in Runs, run[r].pc = "idle" => run'[r].pc = "idle"
    PROVE  /\ steady'[r] \subseteq steady[r]
           /\ \/ run'[r].pc \in {"idle", "done", "failed"}
              \/ UNCHANGED <<facts, settings>>
              \/ steady'[r] \subseteq Owed(r)'
BY DEF Observe

LEMMA UntouchedRun ==
    ASSUME TypedWorld, NEW r \in Runs, RightToDo(r), RightPosition(r), MissesNobody(r),
           UNCHANGED fixed, Shrinking, run'[r] = run[r], occurrences \subseteq occurrences',
           Observe \/ UNCHANGED <<steady, facts, settings>>
    PROVE  (RightToDo(r) /\ RightPosition(r) /\ MissesNobody(r))'
<1>0. /\ UNCHANGED <<rules, command>>
      /\ Rule(r)' = Rule(r) /\ Due(r)' = Due(r) /\ (Reserving(r)' <=> Reserving(r))
      /\ (Working(r)' <=> Working(r)) /\ Cursors(r)' = Cursors(r)
      /\ TargetDate(command[r])' = TargetDate(command[r])
  BY DEF fixed, Rule, Due, Reserving, Working, Cursors, TargetDate, LocalDate
<1>1. RightToDo(r)'
  BY <1>0 DEF RightToDo, Shrinking
<1>2. RightPosition(r)'
  BY <1>0 DEF RightPosition
<1>3. steady'[r] \subseteq steady[r]
  BY SteadyOnlyShrinks
<1>4. ASSUME run[r].pc = "rule" \/ Working(r), NEW occ \in steady'[r]
      PROVE  occ \in Owed(r)' /\ (occ \in occurrences' \/ Ahead(r, occ)')
  <2>1. occ \in Owed(r) /\ (occ \in occurrences \/ Ahead(r, occ))
    BY <1>3, <1>4 DEF MissesNobody
  <2>2. occ \in Owed(r)'
    <3>1. UNCHANGED <<facts, settings>> => Owed(r)' = Owed(r)
      BY OwedStays
    <3>2. run'[r].pc \notin {"idle", "done", "failed"}
      BY <1>4 DEF Working
    <3> QED  BY <1>4, <2>1, <3>1, <3>2, SteadyOnlyShrinks
  <2>3. ASSUME Working(r), Rule(r).key = occ[1], NEW cursor, Follows(r, cursor, occ[2])
        PROVE  Follows(r, cursor, occ[2])'
    <3>1. run[r].rule \in DOMAIN rules
      BY <2>3 DEF RightPosition
    <3>2. CASE IsMarketing(Rule(r))
      <4>1. TypedWorld'
        BY WorldStaysTyped
      <4>2. OwedUsersExist'
        BY <4>1, OwedAreRegistered
      <4>3. occ[2] \in DOMAIN registered'
        BY <1>0, <2>2, <2>3, <3>1, <3>2, <4>2 DEF OwedUsersExist, Rule, IsMarketing
      <4> QED  BY <1>0, <2>3, <3>2, <4>3 DEF Follows, AfterFact, Shrinking, IsMarketing
    <3>3. CASE ~IsMarketing(Rule(r))
      BY <1>0, <2>3, <3>3 DEF Follows, IsMarketing
    <3> QED  BY <3>2, <3>3
  <2>4. Ahead(r, occ) => Ahead(r, occ)'
    <3>1. Working(r) /\ Rule(r).key = occ[1] /\ InLaterPage(r, occ[2]) => InLaterPage(r, occ[2])'
      BY <2>3 DEF InLaterPage
    <3> QED  BY <1>0, <3>1 DEF Ahead
  <2> QED  BY <2>1, <2>2, <2>4
<1>5. MissesNobody(r)'
  BY <1>0, <1>3, <1>4 DEF MissesNobody
<1> QED  BY <1>1, <1>2, <1>5

-----------------------------------------------------------------------------
(* The steps of a run *)

Scanning(r) == RightToDo(r) /\ RightPosition(r) /\ MissesNobody(r)

\* What a run's steps have in common: nothing they read changes.
StepsAlone(q) ==
    /\ TypedWorld /\ DOMAIN run = Runs /\ DOMAIN run[q] = DOMAIN IdleRun
    /\ UNCHANGED <<fixed, facts, settings>>
    /\ occurrences \subseteq occurrences' /\ Observe

LEMMA RunFields ==
    /\ DOMAIN IdleRun = {"pc", "rule", "cursor", "facts", "next", "activity", "todo", "agreed"}
    /\ IdleRun.rule = 0 /\ IdleRun.cursor = None /\ IdleRun.facts = {} /\ IdleRun.next = None
    /\ IdleRun.activity = None /\ IdleRun.todo = <<>> /\ IdleRun.agreed = FALSE
BY DEF IdleRun

\* It is enough to look at what the run was ahead of.
LEMMA GoesOn ==
    ASSUME NEW q \in Runs, StepsAlone(q), MissesNobody(q),
           run[q].pc = "rule" \/ Working(q), run'[q].pc \in {"rule", "page", "activity", "item", "held"},
           \A occ \in steady[q] :
              occ \in Owed(q) /\ Ahead(q, occ) => occ \in occurrences' \/ Ahead(q, occ)'
    PROVE  MissesNobody(q)'
<1>1. steady'[q] \subseteq steady[q] /\ Owed(q)' = Owed(q)
  BY SteadyOnlyShrinks, OwedStays DEF StepsAlone, Working
<1>2. \A occ \in steady'[q] : occ \in Owed(q)' /\ (occ \in occurrences' \/ Ahead(q, occ)')
  BY <1>1 DEF MissesNobody, StepsAlone
<1> QED  BY <1>2 DEF MissesNobody

\* The rules that are still to come stay ahead.
LEMMA LaterRulesStayAhead ==
    ASSUME NEW q \in Runs, UNCHANGED fixed, run'[q].rule = run[q].rule, NEW occ,
           \E k \in DOMAIN rules : rules[k].key = occ[1] /\ k > run[q].rule
    PROVE  Ahead(q, occ)'
BY DEF Ahead, fixed

LEMMA OneOfTheRules ==
    ASSUME TypedWorld
    PROVE  Len(rules) \in Nat /\ DOMAIN rules = 1..Len(rules)
BY DEF TypedWorld

LEMMA NothingToDo ==
    ASSUME NEW q \in Runs, run'[q].todo = <<>>, run'[q].pc \notin {"held", "locked"}
    PROVE  RightToDo(q)'
<1>1. DOMAIN run'[q].todo = {} /\ run'[q].todo \in Seq({run'[q].todo[j] : j \in DOMAIN run'[q].todo})
  BY EmptySeq
<1> QED  BY <1>1 DEF RightToDo, Reserving

\* In front of a rule, and before and after all of them.
LEMMA BetweenRules ==
    ASSUME NEW q \in Runs, run'[q].pc \in {"rule", "done", "failed"}, run'[q].todo = <<>>,
           run'[q].pc = "rule" =>
              /\ run'[q].rule \in Nat \ {0} /\ run'[q].next = None
              /\ run'[q].activity = None /\ run'[q].facts = {}
    PROVE  RightToDo(q)' /\ RightPosition(q)'
<1>1. RightPosition(q)'
  BY DEF RightPosition, Working
<1> QED  BY <1>1, NothingToDo

LEMMA ScanOfBegin ==
    ASSUME NEW q \in Runs, StepsAlone(q), Scanning(q), Begin(q)
    PROVE  Scanning(q)'
<1>1. /\ run' = [run EXCEPT ![q].pc = "rule", ![q].rule = 1] /\ run[q].todo = <<>>
      /\ run[q].next = None /\ run[q].activity = None /\ run[q].facts = {}
  BY DEF Begin, Scanning, RightPosition, RightToDo
<1>2. /\ run'[q].pc = "rule" /\ run'[q].rule = 1 /\ run'[q].todo = <<>>
      /\ run'[q].next = None /\ run'[q].activity = None /\ run'[q].facts = {}
  BY <1>1, RunFields DEF StepsAlone
<1>3. ~Working(q)'
  BY <1>2 DEF Working
<1>4. RightToDo(q)' /\ RightPosition(q)'
  BY <1>2, BetweenRules
<1>5. steady'[q] = Owed(q)'
  BY <1>2 DEF StepsAlone, Observe, Begin
<1>6. ASSUME NEW occ \in Owed(q)
      PROVE  Ahead(q, occ)'
  <2>1. PICK k \in DOMAIN rules : occ = <<rules[k].key, occ[2], TargetDate(command[q])>>
    BY OwedIsOfRule DEF StepsAlone
  <2>2. rules[k].key = occ[1] /\ k >= 1
    BY <2>1, OneOfTheRules DEF StepsAlone
  <2>3. UNCHANGED rules
    BY DEF StepsAlone, fixed
  <2>4. (k > run[q].rule \/ (k = run[q].rule /\ run[q].pc = "rule"))'
    BY <1>2, <2>2, <2>3, OneOfTheRules DEF StepsAlone
  <2> QED  BY <2>2, <2>3, <2>4 DEF Ahead
<1>7. MissesNobody(q)'
  BY <1>2, <1>3, <1>5, <1>6, OwedStays DEF MissesNobody, StepsAlone
<1> QED  BY <1>4, <1>7 DEF Scanning

LEMMA ScanOfSkipRule ==
    ASSUME NEW q \in Runs, StepsAlone(q), Scanning(q), SkipRule(q)
    PROVE  Scanning(q)'
<1> DEFINE i == run[q].rule
<1>1. /\ run[q].pc = "rule" /\ i \in DOMAIN rules /\ i \in Nat
      /\ run' = [run EXCEPT ![q].rule = i + 1] /\ run[q].todo = <<>>
      /\ run[q].next = None /\ run[q].activity = None /\ run[q].facts = {}
  BY OneOfTheRules DEF SkipRule, Scanning, RightPosition, RightToDo, StepsAlone
<1>3. /\ run'[q].pc = "rule" /\ run'[q].rule = i + 1 /\ run'[q].todo = <<>>
      /\ run'[q].next = None /\ run'[q].activity = None /\ run'[q].facts = {}
  BY <1>1, RunFields DEF StepsAlone
<1>4. RightToDo(q)' /\ RightPosition(q)'
  BY <1>1, <1>3, BetweenRules
<1>5. ASSUME NEW occ \in Owed(q), Ahead(q, occ)
      PROVE  Ahead(q, occ)'
  <2>1. PICK k \in DOMAIN rules : rules[k].key = occ[1] /\ k >= i
    BY <1>1, <1>5, OneOfTheRules DEF Ahead, Working, StepsAlone
  <2>2. k # i
    BY <2>1, OwedIsOfThisRule DEF SkipRule, Rule, StepsAlone
  <2>3. k >= i + 1 /\ UNCHANGED rules
    BY <1>1, <2>1, <2>2, OneOfTheRules DEF StepsAlone, fixed
  <2>4. (k > run[q].rule \/ (k = run[q].rule /\ run[q].pc = "rule"))'
    BY <1>1, <1>3, <2>3, OneOfTheRules DEF StepsAlone
  <2> QED  BY <2>1, <2>3, <2>4 DEF Ahead
<1>6. MissesNobody(q)'
  BY <1>1, <1>3, <1>5, GoesOn DEF Scanning
<1> QED  BY <1>4, <1>6 DEF Scanning

LEMMA ScanOfTakeRule ==
    ASSUME NEW q \in Runs, StepsAlone(q), Scanning(q), TakeRule(q)
    PROVE  Scanning(q)'
<1> DEFINE i == run[q].rule
<1>1. /\ run[q].pc = "rule" /\ i \in DOMAIN rules /\ i \in Nat /\ run[q].todo = <<>>
      /\ run[q].next = None /\ run[q].activity = None /\ run[q].facts = {}
      /\ run' = [run EXCEPT ![q].pc = "page", ![q].cursor = None]
  BY OneOfTheRules DEF TakeRule, Scanning, RightPosition, RightToDo, StepsAlone
<1>2. /\ run'[q].pc = "page" /\ run'[q].rule = i /\ run'[q].todo = <<>> /\ run'[q].cursor = None
      /\ run'[q].next = None /\ run'[q].activity = None /\ run'[q].facts = {}
  BY <1>1, RunFields DEF StepsAlone
<1>3. Rule(q)' = Rule(q) /\ UNCHANGED rules /\ Working(q)'
  BY <1>2 DEF Rule, StepsAlone, fixed, Working
<1>4. RightPosition(q)'
  BY <1>1, <1>2, <1>3, FS_EmptySet DEF RightPosition, Cursors
<1>5. RightToDo(q)'
  BY <1>2, NothingToDo
<1>6. ASSUME NEW occ \in Owed(q), Ahead(q, occ)
      PROVE  Ahead(q, occ)'
  <2>1. PICK k \in DOMAIN rules : rules[k].key = occ[1] /\ k >= i
    BY <1>1, <1>6, OneOfTheRules DEF Ahead, Working, StepsAlone
  <2>2. CASE k > i
    BY <1>2, <2>1, <2>2, LaterRulesStayAhead DEF StepsAlone
  <2>3. CASE k = i
    <3>1. InLaterPage(q, occ[2])'
      BY <1>2 DEF InLaterPage, Follows, AfterFact
    <3> QED  BY <1>3, <2>1, <2>3, <3>1 DEF Ahead, Rule
  <2> QED  BY <1>1, <2>1, <2>2, <2>3, OneOfTheRules DEF StepsAlone
<1>7. MissesNobody(q)'
  BY <1>1, <1>2, <1>6, GoesOn DEF Scanning
<1> QED  BY <1>4, <1>5, <1>7 DEF Scanning

LEMMA ScanOfFinish ==
    ASSUME NEW q \in Runs, StepsAlone(q), Scanning(q), Finish(q)
    PROVE  Scanning(q)'
<1>1. /\ run[q].pc = "rule" /\ run[q].rule > Len(rules) /\ run[q].todo = <<>>
      /\ run' = [run EXCEPT ![q].pc = "done"]
  BY DEF Finish, Scanning, RightToDo
<1>2. run'[q].pc = "done" /\ run'[q].todo = <<>> /\ ~Working(q) /\ ~Working(q)'
  BY <1>1, RunFields DEF StepsAlone, Working
<1>3. RightToDo(q)' /\ RightPosition(q)'
  BY <1>2, BetweenRules
<1>4. \A occ : ~ Ahead(q, occ)
  <2>1. \A k \in DOMAIN rules : k < run[q].rule
    BY <1>1, OneOfTheRules DEF StepsAlone, Scanning, RightPosition
  <2>2. \A k \in DOMAIN rules : ~(k > run[q].rule) /\ k # run[q].rule
    BY <1>1, <2>1, OneOfTheRules DEF StepsAlone, Scanning, RightPosition
  <2> QED  BY <1>2, <2>2 DEF Ahead
<1>5. steady[q] \subseteq occurrences
  BY <1>1, <1>4 DEF Scanning, MissesNobody
<1>6. steady'[q] \subseteq steady[q]
  BY <1>1, SteadyOnlyShrinks DEF StepsAlone
<1>7. MissesNobody(q)'
  BY <1>2, <1>5, <1>6 DEF MissesNobody, StepsAlone
<1> QED  BY <1>3, <1>7 DEF Scanning

\* The cursor of the last page is the one of the next, or the rule is through.
LEMMA ScanOfNextPage ==
    ASSUME NEW q \in Runs, StepsAlone(q), Scanning(q), NextPage(q)
    PROVE  Scanning(q)'
<1> DEFINE i == run[q].rule
<1>1. /\ run[q].pc = "item" /\ run[q].todo = <<>> /\ Working(q) /\ UNCHANGED rules
      /\ i \in DOMAIN rules /\ i \in Nat /\ RightPosition(q)
  BY OneOfTheRules DEF NextPage, StepsAlone, Scanning, RightPosition, Working, fixed
<1>2. ASSUME NEW occ \in Owed(q), Ahead(q, occ)
      PROVE  \/ \E k \in DOMAIN rules : rules[k].key = occ[1] /\ k > i
             \/ Rule(q).key = occ[1] /\ InLaterPage(q, occ[2])
  BY <1>1, <1>2 DEF Ahead
<1>3. CASE run[q].activity # None
  <2>1. /\ run'[q].pc = "activity" /\ run'[q].rule = i /\ run'[q].todo = <<>>
        /\ run'[q].cursor = run[q].cursor /\ run'[q].next = run[q].next
        /\ run'[q].activity = run[q].activity /\ run'[q].facts = run[q].facts
    BY <1>1, <1>3, RunFields DEF NextPage, StepsAlone
  <2>2. Rule(q)' = Rule(q) /\ Working(q)'
    BY <1>1, <2>1 DEF Rule, Working
  <2>3. RightPosition(q)'
    BY <1>1, <1>3, <2>1, <2>2 DEF RightPosition, Cursors
  <2>4. RightToDo(q)'
    BY <2>1, NothingToDo
  <2>5. \A s : InLaterPage(q, s) => InLaterPage(q, s)'
    BY <1>1, <1>3, <2>1, <2>2 DEF InLaterPage, Follows, AfterFact, StepsAlone, facts
  <2>6. \A occ \in Owed(q) : Ahead(q, occ) => Ahead(q, occ)'
    BY <1>1, <1>2, <2>1, <2>2, <2>5 DEF Ahead
  <2>7. MissesNobody(q)'
    BY <1>1, <2>1, <2>6, GoesOn DEF Scanning
  <2> QED  BY <2>3, <2>4, <2>7 DEF Scanning
<1>4. CASE run[q].activity = None /\ run[q].next # None
  <2>1. /\ run'[q].pc = "page" /\ run'[q].rule = i /\ run'[q].todo = <<>>
        /\ run'[q].cursor = run[q].next /\ run'[q].next = run[q].next
        /\ run'[q].activity = None /\ run'[q].facts = {}
    BY <1>1, <1>4, RunFields DEF NextPage, StepsAlone
  <2>2. Rule(q)' = Rule(q) /\ Working(q)'
    BY <1>1, <2>1 DEF Rule, Working
  <2>3. RightPosition(q)'
    BY <1>1, <2>1, <2>2, FS_EmptySet DEF RightPosition, Cursors
  <2>4. RightToDo(q)'
    BY <2>1, NothingToDo
  <2>5. \A s : InLaterPage(q, s) => InLaterPage(q, s)'
    BY <1>1, <1>4, <2>1, <2>2 DEF InLaterPage, Follows, AfterFact, StepsAlone, facts
  <2>6. \A occ \in Owed(q) : Ahead(q, occ) => Ahead(q, occ)'
    BY <1>1, <1>2, <2>1, <2>2, <2>5 DEF Ahead
  <2>7. MissesNobody(q)'
    BY <1>1, <2>1, <2>6, GoesOn DEF Scanning
  <2> QED  BY <2>3, <2>4, <2>7 DEF Scanning
<1>5. CASE run[q].activity = None /\ run[q].next = None
  <2>1. /\ run'[q].pc = "rule" /\ run'[q].rule = i + 1 /\ run'[q].todo = <<>>
        /\ run'[q].next = None /\ run'[q].activity = None /\ run'[q].facts = {}
    <3>1. run'[q] = [IdleRun EXCEPT !.pc = "rule", !.rule = i + 1]
      BY <1>5 DEF NextPage, StepsAlone
    <3> QED  BY <3>1, RunFields
  <2>2. RightToDo(q)' /\ RightPosition(q)'
    BY <1>1, <2>1, BetweenRules
  <2>3. ASSUME NEW occ \in Owed(q), Ahead(q, occ)
        PROVE  Ahead(q, occ)'
    <3>1. ~InLaterPage(q, occ[2])
      BY <1>1, <1>5 DEF InLaterPage
    <3>2. PICK k \in DOMAIN rules : rules[k].key = occ[1] /\ k > i
      BY <1>2, <2>3, <3>1
    <3>3. k > i + 1 \/ k = i + 1
      BY <1>1, <3>2, OneOfTheRules DEF StepsAlone
    <3> QED  BY <1>1, <2>1, <3>2, <3>3 DEF Ahead
  <2>4. MissesNobody(q)'
    BY <1>1, <2>1, <2>3, GoesOn DEF Scanning
  <2> QED  BY <2>2, <2>4 DEF Scanning
<1> QED  BY <1>3, <1>4, <1>5

-----------------------------------------------------------------------------
(* The pages a run reads *)

\* What a run has to do is a list of notifications of its rule, one for each of
\* the rows it picked.
LEMMA PickedIsToDo ==
    ASSUME NEW q \in Runs, StepsAlone(q), Rule(q)' = Rule(q), run'[q].pc = "item",
           NEW due, NEW picked, Enumerates(due, picked), NEW n \in Nat, due \in [1..n -> picked],
           run'[q].todo \in [1..n -> {run'[q].todo[k] : k \in 1..n}],
           \A k \in 1..n :
              LET todo == run'[q].todo[k] IN
              /\ todo.occ = <<Rule(q).key, due[k], TargetDate(command[q])>>
              /\ IsMarketing(Rule(q)) => todo.user = due[k] /\ todo.valid
              /\ ~IsMarketing(Rule(q)) =>
                    (due[k] \in DOMAIN receipts /\ receipts[due[k]].named => todo.valid)
    PROVE  /\ RightToDo(q)'
           /\ \A s \in picked : \E j \in DOMAIN run'[q].todo :
                 run'[q].todo[j].occ = <<Rule(q).key, s, TargetDate(command[q])>>
<1> DEFINE todo == run'[q].todo
<1>0. /\ todo \in [1..n -> {todo[k] : k \in 1..n}] /\ DOMAIN due = 1..n
      /\ \A k \in 1..n :
            /\ todo[k].occ = <<Rule(q).key, due[k], TargetDate(command[q])>>
            /\ IsMarketing(Rule(q)) => todo[k].user = due[k] /\ todo[k].valid
            /\ ~IsMarketing(Rule(q)) =>
                  (due[k] \in DOMAIN receipts /\ receipts[due[k]].named => todo[k].valid)
  OBVIOUS
<1> HIDE DEF todo
<1>1. DOMAIN todo = 1..n /\ todo \in Seq({todo[j] : j \in DOMAIN todo})
  <2> DEFINE S == {todo[k] : k \in 1..n}
  <2>1. DOMAIN todo = 1..n /\ S = {todo[j] : j \in DOMAIN todo}
    BY <1>0
  <2>2. todo \in Seq(S)
    <3>1. todo \in [1..n -> S]
      BY <1>0
    <3> HIDE DEF S
    <3> QED  BY <3>1
  <2> QED  BY <2>1, <2>2
<1>2. ASSUME NEW j \in DOMAIN todo
      PROVE  LET s == todo[j].occ[2] IN
             /\ todo[j].occ = <<Rule(q).key, s, TargetDate(command[q])>>
             /\ IsMarketing(Rule(q)) => todo[j].user = s /\ todo[j].valid
             /\ ~IsMarketing(Rule(q)) =>
                   (s \in DOMAIN receipts /\ receipts[s].named => todo[j].valid)
  <2>1. j \in 1..n /\ todo[j].occ = <<Rule(q).key, due[j], TargetDate(command[q])>>
    BY <1>0, <1>1
  <2>2. todo[j].occ[2] = due[j]
    BY <2>1
  <2> QED  BY <1>0, <2>1, <2>2
<1>3. /\ Rule(q)' = Rule(q) /\ UNCHANGED <<receipts, command>>
      /\ TargetDate(command[q])' = TargetDate(command[q])
      /\ (IsMarketing(Rule(q)) <=> IsMarketing(Rule(q))')
  BY DEF StepsAlone, facts, fixed, TargetDate, LocalDate, IsMarketing
<1>4. RightToDo(q)'
  BY <1>1, <1>2, <1>3 DEF RightToDo, Reserving, todo
<1>5. ASSUME NEW s \in picked
      PROVE  \E j \in DOMAIN todo : todo[j].occ = <<Rule(q).key, s, TargetDate(command[q])>>
  <2>1. PICK k \in DOMAIN due : due[k] = s
    BY DEF Enumerates
  <2>2. k \in DOMAIN todo
    BY <1>0, <1>1, <2>1
  <2> QED  BY <1>0, <1>1, <2>1, <2>2
<1> QED  BY <1>4, <1>5 DEF todo

LEMMA ScanOfReadExpiring ==
    ASSUME NEW q \in Runs, StepsAlone(q), Scanning(q), ReadExpiring(q)
    PROVE  Scanning(q)'
<1> DEFINE i == run[q].rule
           K == {j \in DOMAIN receipts :
                   /\ receipts[j].expires_on = TargetDate(command[q]) + Rule(q).day_offset
                   /\ receipts[j].created < ObservationCutoff(Rule(q), command[q])
                   /\ run[q].cursor # None => j > run[q].cursor}
           page == Page(K, ById, command[q].batch)
           picked == {j \in page.items : receipts[j].user \in DOMAIN registered}
           owned == Sorted(picked, ById)
<1>0. /\ run[q].pc = "page" /\ run[q].todo = <<>> /\ run[q].activity = None
      /\ i \in DOMAIN rules /\ Working(q) /\ RightPosition(q) /\ ~IsMarketing(Rule(q))
  BY DEF ReadExpiring, Scanning, RightPosition, RightToDo, Working, IsMarketing
<1>1. run' = [run EXCEPT
         ![q].pc = "item", ![q].next = page.next, ![q].activity = None,
         ![q].todo = [k \in DOMAIN owned |->
             DueNotification(q, owned[k], receipts[owned[k]].user, receipts[owned[k]].named)]]
  BY DEF ReadExpiring, ExpiringPage
<1>2. IsFiniteSet(K) /\ K \subseteq Int /\ K \subseteq DOMAIN receipts /\ None \notin K
  <2>1. K \subseteq DOMAIN receipts /\ IsFiniteSet(DOMAIN receipts) /\ DOMAIN receipts \subseteq Int
    BY DEF StepsAlone, TypedWorld
  <2> HIDE DEF K
  <2> QED  BY <2>1, FS_Subset, NoneAssumption
<1> HIDE DEF K
<1>3. /\ page.items \subseteq K /\ (page.next = None \/ page.next \in K)
      /\ \A x \in K : x \in page.items \/ (page.next # None /\ <<page.next, x>> \in ById)
  <2>1. command[q].batch \in Nat \ {0}
    BY DEF StepsAlone, TypedWorld
  <2> QED  BY <1>2, <2>1, IdsAreOrdered, PageIsComplete
<1> HIDE DEF page
<1>4. /\ run'[q].pc = "item" /\ run'[q].next = page.next /\ run'[q].activity = None
      /\ run'[q].rule = i /\ run'[q].cursor = run[q].cursor /\ run'[q].facts = run[q].facts
      /\ run'[q].todo = [k \in DOMAIN owned |->
             DueNotification(q, owned[k], receipts[owned[k]].user, receipts[owned[k]].named)]
  BY <1>1, RunFields DEF StepsAlone
<1>5. Rule(q)' = Rule(q) /\ Working(q)' /\ UNCHANGED rules /\ Cursors(q)' = Cursors(q)
  BY <1>4 DEF Rule, Working, Cursors, StepsAlone, fixed
<1>6. RightPosition(q)'
  BY <1>0, <1>2, <1>3, <1>4, <1>5 DEF RightPosition, Cursors
<1>7. /\ RightToDo(q)'
      /\ \A s \in picked : \E j \in DOMAIN run'[q].todo :
            run'[q].todo[j].occ = <<Rule(q).key, s, TargetDate(command[q])>>
  <2>1. IsFiniteSet(picked) /\ Orders(ById, picked) /\ picked \subseteq DOMAIN receipts
    <3>1. picked \subseteq K
      BY <1>3
    <3> HIDE DEF picked
    <3> QED  BY <1>2, <3>1, FS_Subset, IdsAreOrdered
  <2> DEFINE n == Cardinality(picked)
  <2>2. owned \in [1..n -> picked] /\ Enumerates(owned, picked) /\ n \in Nat
    <3> HIDE DEF picked
    <3> QED  BY <2>1, SortedIsComplete, FS_CardinalityType
  <2> HIDE DEF n, owned, picked
  <2>3. run'[q].todo \in [1..n -> {run'[q].todo[k] : k \in 1..n}]
    BY <1>4, <2>2
  <2>4. \A k \in 1..n :
           /\ run'[q].todo[k].occ = <<Rule(q).key, owned[k], TargetDate(command[q])>>
           /\ run'[q].todo[k].valid = receipts[owned[k]].named
    BY <1>4, <2>2 DEF DueNotification
  <2>5. \A k \in 1..n :
           LET todo == run'[q].todo[k] IN
           /\ todo.occ = <<Rule(q).key, owned[k], TargetDate(command[q])>>
           /\ IsMarketing(Rule(q)) => todo.user = owned[k] /\ todo.valid
           /\ ~IsMarketing(Rule(q)) =>
                 (owned[k] \in DOMAIN receipts /\ receipts[owned[k]].named => todo.valid)
    BY <1>0, <2>4
  <2>6. Rule(q)' = Rule(q) /\ run'[q].pc = "item"
    BY <1>4, <1>5
  <2> QED  BY <2>2, <2>3, <2>5, <2>6, PickedIsToDo
<1>8. ASSUME NEW occ \in Owed(q), Ahead(q, occ)
      PROVE  Ahead(q, occ)'
  <2>1. CASE \E k \in DOMAIN rules : rules[k].key = occ[1] /\ k > i
    BY <1>4, <2>1, LaterRulesStayAhead DEF StepsAlone
  <2>2. CASE Rule(q).key = occ[1] /\ InLaterPage(q, occ[2])
    <3>1. /\ occ = <<Rule(q).key, occ[2], TargetDate(command[q])>>
          /\ occ[2] \in OwedReceipts(Rule(q), command[q])
      BY <1>0, <2>2, OwedIsOfThisRule DEF Rule, StepsAlone
    <3>2. occ[2] \in K /\ receipts[occ[2]].user \in DOMAIN registered
      BY <1>0, <2>2, <3>1 DEF K, OwedReceipts, InLaterPage, Follows
    <3>3. CASE occ[2] \in page.items
      <4>1. \E j \in DOMAIN run'[q].todo : run'[q].todo[j].occ = occ
        BY <1>7, <3>1, <3>2, <3>3
      <4> QED  BY <1>5, <4>1 DEF Ahead
    <3>4. CASE page.next # None /\ <<page.next, occ[2]>> \in ById
      <4>1. InLaterPage(q, occ[2])'
        BY <1>0, <1>4, <1>5, <3>4 DEF InLaterPage, Follows, ById, IsMarketing
      <4> QED  BY <1>5, <2>2, <4>1 DEF Ahead
    <3> QED  BY <1>3, <3>2, <3>3, <3>4
  <2> QED  BY <1>0, <1>8, <2>1, <2>2 DEF Ahead
<1>9. MissesNobody(q)'
  BY <1>0, <1>4, <1>8, GoesOn DEF Scanning
<1> QED  BY <1>6, <1>7, <1>9 DEF Scanning

\* What is created for users.
ForUsers(q, due) == [k \in DOMAIN due |-> DueNotification(q, due[k], due[k], TRUE)]

LEMMA UsersToDo ==
    ASSUME NEW q \in Runs, StepsAlone(q), Rule(q)' = Rule(q), run'[q].pc = "item",
           NEW due, NEW picked, Enumerates(due, picked), NEW n \in Nat, due \in [1..n -> picked]
    PROVE  IsMarketing(Rule(q)) /\ run'[q].todo = ForUsers(q, due) =>
               /\ RightToDo(q)'
               /\ \A s \in picked : \E j \in DOMAIN run'[q].todo :
                     run'[q].todo[j].occ = <<Rule(q).key, s, TargetDate(command[q])>>
<1> DEFINE Listed == run'[q].todo \in [1..n -> {run'[q].todo[k] : k \in 1..n}]
           Right == \A k \in 1..n :
              LET todo == run'[q].todo[k] IN
              /\ todo.occ = <<Rule(q).key, due[k], TargetDate(command[q])>>
              /\ IsMarketing(Rule(q)) => todo.user = due[k] /\ todo.valid
              /\ ~IsMarketing(Rule(q)) =>
                    (due[k] \in DOMAIN receipts /\ receipts[due[k]].named => todo.valid)
<1>1. ASSUME IsMarketing(Rule(q)), run'[q].todo = ForUsers(q, due)
      PROVE  Listed /\ Right
  <2>1. Listed
    BY <1>1 DEF ForUsers
  <2>2. \A k \in 1..n :
           /\ run'[q].todo[k].occ = <<Rule(q).key, due[k], TargetDate(command[q])>>
           /\ run'[q].todo[k].user = due[k] /\ run'[q].todo[k].valid
    BY <1>1 DEF DueNotification, ForUsers
  <2> QED  BY <1>1, <2>1, <2>2
<1>2. Listed /\ Right =>
         /\ RightToDo(q)'
         /\ \A s \in picked : \E j \in DOMAIN run'[q].todo :
               run'[q].todo[j].occ = <<Rule(q).key, s, TargetDate(command[q])>>
  BY PickedIsToDo
<1> HIDE DEF Listed, Right
<1> QED  BY <1>1, <1>2

LEMMA ScanOfReadFacts ==
    ASSUME NEW q \in Runs, StepsAlone(q), Scanning(q), ReadFacts(q)
    PROVE  Scanning(q)'
<1> DEFINE i == run[q].rule
           date == TargetDate(command[q])
           Matches(u) == MatchesJoinCadence(Rule(q), RegistrationAge(registered[u], date))
           order == ByRegistration(registered)
           K == {u \in DOMAIN registered :
                   /\ registered[u] < ObservationCutoff(Rule(q), command[q])
                   /\ AfterFact(registered, run[q].cursor, u)}
           page == Page(K, order, command[q].batch)
           matching == {u \in page.items : Matches(u)}
           due == Sorted(matching, order)
           next == IF page.next = None THEN None
                   ELSE [registered |-> registered[page.next], user |-> page.next]
<1>0. /\ run[q].pc = "page" /\ run[q].todo = <<>> /\ run[q].activity = None
      /\ i \in DOMAIN rules /\ Working(q) /\ RightPosition(q) /\ IsMarketing(Rule(q))
  BY DEF ReadFacts, Scanning, RightPosition, RightToDo, Working, IsMarketing
<1>1. \/ /\ Rule(q).kind = "all_user"
         /\ run' = [run EXCEPT ![q].pc = "item", ![q].next = next, ![q].activity = None,
                            ![q].todo = [k \in DOMAIN due |->
                                DueNotification(q, due[k], due[k], TRUE)]]
      \/ /\ Rule(q).kind # "all_user" /\ LacksLookback(Rule(q))
         /\ run' = [run EXCEPT ![q] = [IdleRun EXCEPT !.pc = "failed"]]
      \/ /\ Rule(q).kind # "all_user" /\ matching = {}
         /\ run' = [run EXCEPT ![q].pc = "item", ![q].next = next, ![q].activity = None]
      \/ /\ Rule(q).kind # "all_user"
         /\ run' = [run EXCEPT ![q].pc = "activity", ![q].next = next, ![q].activity = None,
                            ![q].facts = matching]
  BY DEF ReadFacts, FactsPage
<1>2. /\ IsFiniteSet(K) /\ K \subseteq Int /\ K \subseteq DOMAIN registered /\ None \notin K
      /\ Orders(order, K) /\ \A u \in K : registered[u] \in Int
  <2>1. /\ K \subseteq DOMAIN registered /\ IsFiniteSet(DOMAIN registered)
        /\ DOMAIN registered \subseteq Int /\ \A u \in DOMAIN registered : registered[u] \in Int
    BY DEF StepsAlone, TypedWorld
  <2> HIDE DEF K
  <2> QED  BY <2>1, FS_Subset, NoneAssumption, RegistrationsAreOrdered
<1> HIDE DEF K
<1>3. /\ page.items \subseteq K /\ (page.next = None \/ page.next \in K)
      /\ \A x \in K : x \in page.items \/ (page.next # None /\ <<page.next, x>> \in order)
  <2>1. command[q].batch \in Nat \ {0}
    BY DEF StepsAlone, TypedWorld
  <2> HIDE DEF order
  <2> QED  BY <1>2, <2>1, PageIsComplete
<1> HIDE DEF page
<1>4. /\ next \in {None} \cup [registered : Int, user : Int]
      /\ \A u \in K : u \in page.items \/ (next # None /\ AfterFact(registered, next, u))
  <2>1. CASE page.next = None
    BY <1>3, <2>1
  <2>2. CASE page.next # None
    <3>1. next = [registered |-> registered[page.next], user |-> page.next]
      BY <2>2
    <3>2. next \in [registered : Int, user : Int] /\ next # None
      <4>1. registered[page.next] \in Int /\ page.next \in Int
        BY <1>2, <1>3, <2>2
      <4>2. next \in [registered : Int, user : Int]
        BY <3>1, <4>1
      <4> HIDE DEF next
      <4> QED  BY <4>2, NoneAssumption
    <3>3. next.registered = registered[page.next] /\ next.user = page.next
      BY <3>1
    <3> HIDE DEF next
    <3>4. \A u \in K : u \in page.items \/ AfterFact(registered, next, u)
      BY <1>3, <3>3 DEF AfterFact, ByRegistration
    <3> QED  BY <3>2, <3>4
  <2> QED  BY <2>1, <2>2
<1> HIDE DEF next
<1>5. matching \subseteq K /\ matching \subseteq Int /\ IsFiniteSet(matching) /\ Orders(order, matching)
  <2>1. matching \subseteq K
    BY <1>3
  <2> HIDE DEF matching
  <2>2. IsFiniteSet(matching) /\ matching \subseteq DOMAIN registered
    BY <1>2, <2>1, FS_Subset
  <2> QED  BY <1>2, <2>1, <2>2, RegistrationsAreOrdered DEF StepsAlone, TypedWorld
\* Who is owed a notification of this rule is of this page, or of a later one.
<1>6. ASSUME NEW occ \in Owed(q), Ahead(q, occ)
      PROVE  \/ \E k \in DOMAIN rules : rules[k].key = occ[1] /\ k > i
             \/ /\ Rule(q).key = occ[1] /\ occ = <<Rule(q).key, occ[2], date>>
                /\ ~LacksLookback(Rule(q))
                /\ occ[2] \in matching \/ (next # None /\ AfterFact(registered, next, occ[2]))
  <2>1. CASE \E k \in DOMAIN rules : rules[k].key = occ[1] /\ k > i
    BY <2>1
  <2>2. CASE Rule(q).key = occ[1] /\ InLaterPage(q, occ[2])
    <3>1. /\ occ = <<Rule(q).key, occ[2], date>> /\ ~LacksLookback(Rule(q))
          /\ occ[2] \in OwedUsers(Rule(q), command[q])
      BY <1>0, <2>2, OwedIsOfThisRule DEF Rule, StepsAlone
    <3>2. Matches(occ[2])
      BY <1>0, <3>1, OwedMatchCadence DEF Rule, StepsAlone
    <3>3. occ[2] \in K
      BY <1>0, <2>2, <3>1 DEF K, OwedUsers, InLaterPage, Follows
    <3> QED  BY <1>4, <2>2, <3>1, <3>2, <3>3
  <2> QED  BY <1>0, <1>6, <2>1, <2>2 DEF Ahead
\* Unless the run fails, it goes on with this page and the cursor behind it.
<1>7. ASSUME run'[q].pc \in {"item", "activity"}, run'[q].next = next, run'[q].activity = None,
             run'[q].rule = i, run'[q].cursor = run[q].cursor, RightToDo(q)',
             \/ run'[q].facts = run[q].facts /\ run'[q].pc = "item"
             \/ run'[q].facts = matching /\ Rule(q).kind # "all_user",
             \A s \in matching :
                \/ run'[q].pc = "activity" /\ s \in run'[q].facts
                \/ \E j \in DOMAIN run'[q].todo :
                      run'[q].todo[j].occ = <<Rule(q).key, s, date>>
      PROVE  Scanning(q)'
  <2>1. Rule(q)' = Rule(q) /\ Working(q)' /\ UNCHANGED <<rules, registered>> /\ Cursors(q)' = Cursors(q)
    BY <1>7 DEF Rule, Working, Cursors, StepsAlone, fixed, facts
  <2>2. run'[q].pc = "activity" => Rule(q).kind \in {"unregistered_receipt", "inactive_receipt"}
    <3>1. Rule(q).kind \in TargetKinds
      BY <1>0 DEF StepsAlone, TypedWorld, ValidRule, Rule
    <3> QED  BY <1>0, <1>7, <3>1 DEF TargetKinds, EngagementKinds, IsMarketing
  <2>3. RightPosition(q)'
    <3> HIDE DEF matching
    <3> QED  BY <1>0, <1>4, <1>5, <1>7, <2>1, <2>2 DEF RightPosition, Cursors
  <2>4. ASSUME NEW occ \in Owed(q), Ahead(q, occ)
        PROVE  Ahead(q, occ)'
    <3>1. CASE \E k \in DOMAIN rules : rules[k].key = occ[1] /\ k > i
      BY <1>7, <3>1, LaterRulesStayAhead DEF StepsAlone
    <3>2. CASE /\ Rule(q).key = occ[1] /\ occ = <<Rule(q).key, occ[2], date>>
               /\ occ[2] \in matching
      <4>1. CASE run'[q].pc = "activity" /\ occ[2] \in run'[q].facts
        <5>1. InLaterPage(q, occ[2])'
          BY <1>7, <4>1 DEF InLaterPage
        <5> QED  BY <2>1, <3>2, <5>1 DEF Ahead
      <4>2. CASE \E j \in DOMAIN run'[q].todo :
                    run'[q].todo[j].occ = <<Rule(q).key, occ[2], date>>
        BY <2>1, <3>2, <4>2 DEF Ahead
      <4> QED  BY <1>7, <3>2, <4>1, <4>2
    <3>3. CASE Rule(q).key = occ[1] /\ next # None /\ AfterFact(registered, next, occ[2])
      <4>1. InLaterPage(q, occ[2])'
        BY <1>0, <1>7, <2>1, <3>3 DEF InLaterPage, Follows, AfterFact, IsMarketing
      <4> QED  BY <2>1, <3>3, <4>1 DEF Ahead
    <3> QED  BY <1>6, <2>4, <3>1, <3>2, <3>3
  <2>5. MissesNobody(q)'
    BY <1>0, <1>7, <2>4, GoesOn DEF Scanning
  <2> QED  BY <1>7, <2>3, <2>5 DEF Scanning
<1>8. CASE LacksLookback(Rule(q)) /\ run' = [run EXCEPT ![q] = [IdleRun EXCEPT !.pc = "failed"]]
  <2>1. run'[q].pc = "failed" /\ run'[q].todo = <<>>
    <3>1. run'[q] = [IdleRun EXCEPT !.pc = "failed"]
      BY <1>8 DEF StepsAlone
    <3> QED  BY <3>1, RunFields
  <2> QED  BY <2>1, BetweenRules DEF Scanning, MissesNobody, Working
<1>9. CASE run' = [run EXCEPT ![q].pc = "item", ![q].next = next, ![q].activity = None,
                             ![q].todo = [k \in DOMAIN due |->
                                 DueNotification(q, due[k], due[k], TRUE)]]
  <2> HIDE DEF due
  <2>1. /\ run'[q].pc = "item" /\ run'[q].next = next /\ run'[q].activity = None
        /\ run'[q].rule = i /\ run'[q].cursor = run[q].cursor /\ run'[q].facts = run[q].facts
        /\ run'[q].todo = ForUsers(q, due)
    BY <1>9, RunFields DEF StepsAlone, ForUsers
  <2>2. Rule(q)' = Rule(q)
    BY <2>1 DEF Rule, StepsAlone, fixed
  <2>3. /\ RightToDo(q)'
        /\ \A s \in matching : \E j \in DOMAIN run'[q].todo :
              run'[q].todo[j].occ = <<Rule(q).key, s, date>>
    <3> HIDE DEF matching, order
    <3> DEFINE n == Cardinality(matching)
    <3>1. due \in [1..n -> matching] /\ Enumerates(due, matching) /\ n \in Nat
      BY <1>5, SortedIsComplete, FS_CardinalityType DEF due
    <3> HIDE DEF n
    <3> QED  BY <1>0, <2>1, <2>2, <3>1, UsersToDo
  <2> HIDE DEF matching
  <2> QED  BY <1>7, <2>1, <2>3
<1>10. CASE /\ matching = {}
            /\ run' = [run EXCEPT ![q].pc = "item", ![q].next = next, ![q].activity = None]
  <2>1. /\ run'[q].pc = "item" /\ run'[q].next = next /\ run'[q].activity = None
        /\ run'[q].rule = i /\ run'[q].cursor = run[q].cursor /\ run'[q].facts = run[q].facts
        /\ run'[q].todo = <<>>
    BY <1>0, <1>10, RunFields DEF StepsAlone
  <2>2. RightToDo(q)'
    BY <2>1, NothingToDo
  <2> HIDE DEF matching
  <2> QED  BY <1>7, <1>10, <2>1, <2>2
<1>11. CASE /\ Rule(q).kind # "all_user"
            /\ run' = [run EXCEPT ![q].pc = "activity", ![q].next = next, ![q].activity = None,
                                  ![q].facts = matching]
  <2> HIDE DEF matching
  <2>1. /\ run'[q].pc = "activity" /\ run'[q].next = next /\ run'[q].activity = None
        /\ run'[q].rule = i /\ run'[q].cursor = run[q].cursor /\ run'[q].facts = matching
        /\ run'[q].todo = <<>>
    BY <1>0, <1>11, RunFields DEF StepsAlone
  <2>2. RightToDo(q)'
    BY <2>1, NothingToDo
  <2> QED  BY <1>7, <1>11, <2>1, <2>2
<1> QED  BY <1>1, <1>8, <1>9, <1>10, <1>11

LEMMA ScanOfReadActivity ==
    ASSUME NEW q \in Runs, StepsAlone(q), Scanning(q), ReadActivity(q)
    PROVE  Scanning(q)'
<1> DEFINE i == run[q].rule
           cutoff == ObservationCutoff(Rule(q), command[q])
           Looks(u) == MatchesReceiptActivity(Rule(q), Cardinality(ReceiptsOf(receipts, u, cutoff)))
           K == {u \in run[q].facts :
                   /\ run[q].activity # None => u > run[q].activity
                   /\ ~RecentlyActive(receipts, u, Rule(q), command[q])}
           page == Page(K, ById, command[q].batch)
           picked == {u \in page.items : Looks(u)}
           due == Sorted(picked, ById)
           n == Cardinality(picked)
<1>0. /\ run[q].pc = "activity" /\ run[q].todo = <<>> /\ i \in DOMAIN rules /\ Working(q)
      /\ RightPosition(q) /\ IsFiniteSet(run[q].facts) /\ run[q].facts \subseteq Int
      /\ Rule(q).kind \in {"unregistered_receipt", "inactive_receipt"} /\ IsMarketing(Rule(q))
  BY DEF ReadActivity, Scanning, RightPosition, RightToDo, Working, IsMarketing
<1>1. run' = [run EXCEPT
         ![q].pc = "item", ![q].activity = page.next,
         ![q].todo = [k \in DOMAIN due |-> DueNotification(q, due[k], due[k], TRUE)]]
  BY DEF ReadActivity, ActivityPage
<1>2. IsFiniteSet(K) /\ K \subseteq Int /\ None \notin K
  <2>1. K \subseteq run[q].facts
    OBVIOUS
  <2> HIDE DEF K
  <2> QED  BY <1>0, <2>1, FS_Subset, NoneAssumption
<1> HIDE DEF K
<1>3. /\ page.items \subseteq K /\ (page.next = None \/ page.next \in K)
      /\ \A x \in K : x \in page.items \/ (page.next # None /\ <<page.next, x>> \in ById)
  <2>1. command[q].batch \in Nat \ {0}
    BY DEF StepsAlone, TypedWorld
  <2> QED  BY <1>2, <2>1, IdsAreOrdered, PageIsComplete
<1> HIDE DEF page
<1>4. due \in [1..n -> picked] /\ Enumerates(due, picked) /\ n \in Nat
  <2>1. picked \subseteq K
    BY <1>3
  <2> HIDE DEF picked
  <2>2. IsFiniteSet(picked) /\ Orders(ById, picked)
    BY <1>2, <2>1, FS_Subset, IdsAreOrdered
  <2> QED  BY <2>2, SortedIsComplete, FS_CardinalityType
<1> HIDE DEF due, n
<1>5. /\ run'[q].pc = "item" /\ run'[q].next = run[q].next /\ run'[q].activity = page.next
      /\ run'[q].rule = i /\ run'[q].cursor = run[q].cursor /\ run'[q].facts = run[q].facts
      /\ run'[q].todo = ForUsers(q, due)
  BY <1>1, RunFields DEF StepsAlone, ForUsers
<1>6. Rule(q)' = Rule(q) /\ Working(q)' /\ UNCHANGED <<rules, registered>> /\ Cursors(q)' = Cursors(q)
  BY <1>5 DEF Rule, Working, Cursors, StepsAlone, fixed, facts
<1>7. RightPosition(q)'
  BY <1>0, <1>2, <1>3, <1>5, <1>6 DEF RightPosition
<1>8. /\ RightToDo(q)'
      /\ \A s \in picked : \E j \in DOMAIN run'[q].todo :
            run'[q].todo[j].occ = <<Rule(q).key, s, TargetDate(command[q])>>
  <2> HIDE DEF picked
  <2> QED  BY <1>0, <1>4, <1>5, <1>6, UsersToDo
<1>9. ASSUME NEW occ \in Owed(q), Ahead(q, occ)
      PROVE  Ahead(q, occ)'
  <2>1. CASE \E k \in DOMAIN rules : rules[k].key = occ[1] /\ k > i
    BY <1>5, <2>1, LaterRulesStayAhead DEF StepsAlone
  <2>2. CASE Rule(q).key = occ[1] /\ run[q].next # None /\ Follows(q, run[q].next, occ[2])
    <3>1. Follows(q, run[q].next, occ[2])'
      BY <1>5, <1>6, <2>2 DEF Follows, AfterFact, IsMarketing
    <3>2. InLaterPage(q, occ[2])'
      BY <1>5, <1>6, <2>2, <3>1 DEF InLaterPage, Follows, AfterFact, IsMarketing
    <3> QED  BY <1>6, <2>2, <3>2 DEF Ahead
  <2>3. CASE /\ Rule(q).key = occ[1] /\ occ[2] \in run[q].facts
             /\ run[q].activity # None => occ[2] > run[q].activity
    <3>1. /\ occ = <<Rule(q).key, occ[2], TargetDate(command[q])>> /\ ~LacksLookback(Rule(q))
          /\ occ[2] \in OwedUsers(Rule(q), command[q])
      BY <1>0, <2>3, OwedIsOfThisRule DEF Rule, StepsAlone
    <3>2. ~RecentlyActive(receipts, occ[2], Rule(q), command[q]) /\ Looks(occ[2])
      BY <1>0, <3>1, OwedShowInActivity DEF Rule, StepsAlone
    <3>3. occ[2] \in K
      BY <2>3, <3>2 DEF K
    <3>4. CASE occ[2] \in page.items
      <4>1. \E j \in DOMAIN run'[q].todo : run'[q].todo[j].occ = occ
        BY <1>8, <3>1, <3>2, <3>4
      <4> QED  BY <1>6, <4>1 DEF Ahead
    <3>5. CASE page.next # None /\ <<page.next, occ[2]>> \in ById
      <4>1. InLaterPage(q, occ[2])'
        BY <1>5, <2>3, <3>5 DEF InLaterPage, ById
      <4> QED  BY <1>6, <2>3, <4>1 DEF Ahead
    <3> QED  BY <1>3, <3>3, <3>4, <3>5
  <2> QED  BY <1>0, <1>9, <2>1, <2>2, <2>3 DEF Ahead, InLaterPage
<1>10. MissesNobody(q)'
  BY <1>0, <1>5, <1>9, GoesOn DEF Scanning
<1> QED  BY <1>7, <1>8, <1>10 DEF Scanning

-----------------------------------------------------------------------------
(* A run and the first notification it has to create *)

LEMMA FirstToDo ==
    ASSUME NEW q \in Runs, StepsAlone(q), Scanning(q), Working(q), run[q].todo # <<>>
    PROVE  /\ 1 \in DOMAIN run[q].todo /\ Due(q) = run[q].todo[1]
           /\ run[q].rule \in DOMAIN rules
           /\ Due(q).occ[1] = Rule(q).key
           /\ Due(q).occ \in Owed(q) /\ IsMarketing(Rule(q)) =>
                 Due(q).valid /\ Consents(Due(q).user)
           /\ Due(q).occ \in Owed(q) /\ ~IsMarketing(Rule(q)) => Due(q).valid
<1> DEFINE todo == run[q].todo
           s == Due(q).occ[2]
<1>1. todo \in Seq({todo[j] : j \in DOMAIN todo}) /\ todo # <<>>
  BY DEF Scanning, RightToDo
<1> HIDE DEF todo
<1>2. 1 \in DOMAIN todo
  BY <1>1
<1>3. /\ Due(q) = todo[1] /\ run[q].rule \in DOMAIN rules
      /\ Due(q).occ = <<Rule(q).key, s, TargetDate(command[q])>>
      /\ IsMarketing(Rule(q)) => Due(q).user = s /\ Due(q).valid
      /\ ~IsMarketing(Rule(q)) => (s \in DOMAIN receipts /\ receipts[s].named => Due(q).valid)
  BY <1>2 DEF Due, Scanning, RightToDo, RightPosition, todo
<1> HIDE DEF s
<1>4. Due(q).occ[1] = Rule(q).key
  BY <1>3
<1>5. Due(q).occ \in Owed(q) =>
         s \in IF IsMarketing(Rule(q)) THEN OwedUsers(Rule(q), command[q])
               ELSE OwedReceipts(Rule(q), command[q])
  BY <1>3, <1>4, OwedIsOfThisRule DEF Rule, StepsAlone, s
<1> QED  BY <1>2, <1>3, <1>4, <1>5 DEF todo, OwedUsers, OwedReceipts

\* The run is done with the first notification: it is there, or not owed.
LEMMA ScanOfDrop ==
    ASSUME NEW q \in Runs, StepsAlone(q), Scanning(q), run[q].pc \in {"item", "held", "locked"},
           run[q].todo # <<>>, run' = Dropped(q),
           Due(q).occ \in occurrences' \/ Due(q).occ \notin steady[q]
    PROVE  Scanning(q)'
<1> DEFINE i == run[q].rule
           todo == run[q].todo
<1>0. Working(q) /\ RightPosition(q) /\ RightToDo(q) /\ Due(q) = todo[1]
  BY FirstToDo DEF Working, Scanning
<1>1. /\ run'[q].pc = "item" /\ run'[q].todo = Tail(todo) /\ run'[q].rule = i
      /\ run'[q].cursor = run[q].cursor /\ run'[q].facts = run[q].facts
      /\ run'[q].next = run[q].next /\ run'[q].activity = run[q].activity
  BY RunFields DEF StepsAlone, Dropped
<1>2. /\ Rule(q)' = Rule(q) /\ Working(q)' /\ Cursors(q)' = Cursors(q)
      /\ UNCHANGED <<rules, command, receipts, registered>>
      /\ TargetDate(command[q])' = TargetDate(command[q])
  BY <1>1 DEF Rule, Working, Cursors, StepsAlone, fixed, facts, TargetDate, LocalDate
<1>3. RightPosition(q)'
  BY <1>0, <1>1, <1>2 DEF RightPosition
<1> DEFINE rest == Tail(todo)
<1>4. /\ rest \in Seq({rest[j] : j \in DOMAIN rest})
      /\ \A j \in DOMAIN rest : j + 1 \in DOMAIN todo /\ rest[j] = todo[j + 1]
      /\ \A j \in DOMAIN todo : j # 1 => \E k \in DOMAIN rest : rest[k] = todo[j]
  <2>1. todo \in Seq({todo[j] : j \in DOMAIN todo}) /\ todo # <<>>
    BY <1>0 DEF RightToDo
  <2> HIDE DEF todo
  <2>2. Len(todo) \in Nat \ {0} /\ DOMAIN todo = 1..Len(todo)
    BY <2>1
  <2> DEFINE S == {todo[j] : j \in DOMAIN todo}
  <2>3. /\ rest \in Seq(S) /\ DOMAIN rest = 1..(Len(todo) - 1)
        /\ \A j \in DOMAIN rest : rest[j] = todo[j + 1]
    <3> HIDE DEF S
    <3>1. /\ rest \in Seq(S) /\ Len(rest) = Len(todo) - 1
          /\ \A j \in 1..Len(rest) : rest[j] = todo[j + 1]
      BY <2>1, HeadTailProperties DEF S
    <3> HIDE DEF rest
    <3> QED  BY <3>1
  <2> HIDE DEF rest, S
  <2>4. rest \in Seq({rest[j] : j \in DOMAIN rest})
    <3> DEFINE R == {rest[j] : j \in DOMAIN rest}
    <3>1. rest \in [1..(Len(todo) - 1) -> R] /\ Len(todo) - 1 \in Nat
      BY <2>2, <2>3
    <3> HIDE DEF R
    <3> QED  BY <3>1
  <2>5. \A j \in DOMAIN rest : j + 1 \in DOMAIN todo /\ rest[j] = todo[j + 1]
    BY <2>2, <2>3
  <2>6. ASSUME NEW j \in DOMAIN todo, j # 1
        PROVE  \E k \in DOMAIN rest : rest[k] = todo[j]
    <3>1. j - 1 \in 1..(Len(todo) - 1) /\ (j - 1) + 1 = j
      BY <2>2, <2>6
    <3> QED  BY <2>3, <3>1
  <2> QED  BY <2>4, <2>5, <2>6
<1> HIDE DEF rest, todo
<1>5. RightToDo(q)'
  <2> DEFINE Right(item) ==
               /\ item.occ = <<Rule(q).key, item.occ[2], TargetDate(command[q])>>
               /\ IsMarketing(Rule(q)) => item.user = item.occ[2] /\ item.valid
               /\ ~IsMarketing(Rule(q)) =>
                     (item.occ[2] \in DOMAIN receipts /\ receipts[item.occ[2]].named => item.valid)
  <2>1. \A j \in DOMAIN todo : Right(todo[j])
    BY <1>0 DEF RightToDo, todo
  <2>2. \A j \in DOMAIN rest : Right(rest[j])
    <3> HIDE DEF Right
    <3> QED  BY <1>4, <2>1
  <2>3. run'[q].todo = rest
    BY <1>1 DEF rest
  <2>4. \A j \in DOMAIN run'[q].todo : Right(run'[q].todo[j])
    <3> HIDE DEF Right
    <3> QED  BY <2>2, <2>3
  <2>5. run'[q].todo \in Seq({run'[q].todo[j] : j \in DOMAIN run'[q].todo})
    BY <1>4, <2>3
  <2> QED  BY <1>1, <1>2, <2>4, <2>5 DEF RightToDo, Reserving, IsMarketing
<1>6. ASSUME NEW occ \in steady[q], Ahead(q, occ)
      PROVE  occ \in occurrences' \/ Ahead(q, occ)'
  <2>1. CASE \E k \in DOMAIN rules : rules[k].key = occ[1] /\ k > i
    BY <1>1, <2>1, LaterRulesStayAhead DEF StepsAlone
  <2>2. CASE Rule(q).key = occ[1] /\ InLaterPage(q, occ[2])
    <3>1. \A cursor, s : Follows(q, cursor, s) => Follows(q, cursor, s)'
      BY <1>2 DEF Follows, AfterFact, IsMarketing
    <3>2. InLaterPage(q, occ[2])'
      BY <1>1, <2>2, <3>1 DEF InLaterPage
    <3> QED  BY <1>2, <2>2, <3>2 DEF Ahead
  <2>3. CASE \E j \in DOMAIN todo : todo[j].occ = occ
    <3>1. PICK j \in DOMAIN todo : todo[j].occ = occ
      BY <2>3
    <3>2. CASE j = 1
      BY <1>0, <3>1, <3>2
    <3>3. CASE j # 1
      <4>1. PICK k \in DOMAIN rest : rest[k] = todo[j]
        BY <1>4, <3>1, <3>3
      <4>2. \E l \in DOMAIN run'[q].todo : run'[q].todo[l].occ = occ
        BY <1>1, <3>1, <4>1 DEF rest
      <4> QED  BY <1>2, <4>2 DEF Ahead
    <3> QED  BY <3>2, <3>3
  <2> QED  BY <1>6, <2>1, <2>2, <2>3 DEF Ahead, todo
<1>7. MissesNobody(q)'
  BY <1>0, <1>1, <1>6, GoesOn DEF Scanning
<1> QED  BY <1>3, <1>5, <1>7 DEF Scanning

\* The run holds the reservation: it is ahead of what it was ahead of.
LEMMA ScanOfHold ==
    ASSUME NEW q \in Runs, StepsAlone(q), Scanning(q), run[q].pc \in {"item", "held"},
           run[q].todo # <<>>, run'[q].pc \in {"held", "locked"},
           run'[q].todo = run[q].todo, run'[q].rule = run[q].rule,
           run'[q].cursor = run[q].cursor, run'[q].facts = run[q].facts,
           run'[q].next = run[q].next, run'[q].activity = run[q].activity,
           run'[q].pc = "locked" /\ Due(q).occ \in steady[q] => run'[q].agreed
    PROVE  Scanning(q)'
<1>0. Working(q) /\ RightPosition(q) /\ RightToDo(q) /\ MissesNobody(q)
  BY DEF Working, Scanning
<1>1. /\ Rule(q)' = Rule(q) /\ Working(q)' /\ Cursors(q)' = Cursors(q) /\ Due(q)' = Due(q)
      /\ UNCHANGED <<rules, command, receipts, registered>>
      /\ TargetDate(command[q])' = TargetDate(command[q])
  BY DEF Rule, Working, Cursors, Due, StepsAlone, fixed, facts, TargetDate, LocalDate
<1>2. RightPosition(q)'
  BY <1>0, <1>1 DEF RightPosition
<1>3. RightToDo(q)'
  BY <1>0, <1>1 DEF RightToDo, Reserving, IsMarketing
<1>4. ASSUME NEW occ, Ahead(q, occ)
      PROVE  Ahead(q, occ)'
  <2>1. \A cursor, s : Follows(q, cursor, s) => Follows(q, cursor, s)'
    BY <1>1 DEF Follows, AfterFact, IsMarketing
  <2>2. InLaterPage(q, occ[2]) => InLaterPage(q, occ[2])'
    BY <2>1 DEF InLaterPage
  <2> QED  BY <1>0, <1>1, <1>4, <2>2 DEF Ahead
<1>5. steady'[q] \subseteq steady[q] /\ Owed(q)' = Owed(q)
  BY <1>0, SteadyOnlyShrinks, OwedStays DEF StepsAlone
<1>6. MissesNobody(q)'
  BY <1>0, <1>1, <1>4, <1>5 DEF MissesNobody, StepsAlone
<1> QED  BY <1>2, <1>3, <1>6 DEF Scanning

LEMMA ScanOfDecisions ==
    ASSUME NEW q \in Runs, StepsAlone(q), Scanning(q),
           \/ DryRun(q) \/ Reserve(q) \/ Reject(q) \/ LockSettings(q)
           \/ SkipUnconsented(q) \/ Create(q)
    PROVE  Scanning(q)'
<1>0. Working(q) /\ run[q].todo # <<>> /\ \A occ \in steady[q] : occ \in Owed(q)
  BY DEF DryRun, Reserve, Reject, LockSettings, SkipUnconsented, Create, Working, Scanning,
     RightToDo, Reserving, MissesNobody
<1>1. CASE DryRun(q)
  <2>1. Due(q).occ \notin steady[q]
    BY <1>0, <1>1 DEF DryRun, Owed
  <2> QED  BY <1>1, <2>1, ScanOfDrop DEF DryRun
<1>2. CASE Reserve(q) /\ Due(q).occ \in occurrences
  <2>1. Due(q).occ \in occurrences'
    BY <1>2 DEF StepsAlone
  <2> QED  BY <1>2, <2>1, ScanOfDrop DEF Reserve
<1>3. CASE Reserve(q) /\ Due(q).occ \notin occurrences
  <2>1. /\ run[q].pc = "item" /\ run'[q].pc = "held"
        /\ run'[q].todo = run[q].todo /\ run'[q].rule = run[q].rule
        /\ run'[q].cursor = run[q].cursor /\ run'[q].facts = run[q].facts
        /\ run'[q].next = run[q].next /\ run'[q].activity = run[q].activity
    BY <1>3, RunFields DEF Reserve, StepsAlone
  <2> QED  BY <1>0, <2>1, ScanOfHold
<1>4. CASE Reject(q)
  <2>1. Due(q).occ \notin steady[q]
    BY <1>0, <1>4, FirstToDo DEF Reject
  <2> QED  BY <1>0, <1>4, <2>1, ScanOfDrop DEF Reject
<1>5. CASE LockSettings(q)
  <2>1. /\ run[q].pc = "held" /\ run'[q].pc = "locked" /\ run'[q].agreed = Consents(Due(q).user)
        /\ run'[q].todo = run[q].todo /\ run'[q].rule = run[q].rule
        /\ run'[q].cursor = run[q].cursor /\ run'[q].facts = run[q].facts
        /\ run'[q].next = run[q].next /\ run'[q].activity = run[q].activity
    BY <1>5, RunFields DEF LockSettings, StepsAlone
  <2>2. Due(q).occ \in steady[q] => Consents(Due(q).user)
    BY <1>0, <1>5, FirstToDo DEF LockSettings
  <2> QED  BY <1>0, <2>1, <2>2, ScanOfHold
<1>6. CASE SkipUnconsented(q)
  <2>1. Due(q).occ \notin steady[q]
    BY <1>6 DEF SkipUnconsented, Scanning, MissesNobody
  <2> QED  BY <1>0, <1>6, <2>1, ScanOfDrop DEF SkipUnconsented
<1>7. CASE Create(q)
  <2>1. Due(q).occ \in occurrences' /\ run[q].pc \in {"held", "locked"} /\ run' = Dropped(q)
    BY <1>7 DEF Create
  <2> QED  BY <1>0, <2>1, ScanOfDrop
<1> QED  BY <1>1, <1>2, <1>3, <1>4, <1>5, <1>6, <1>7

LEMMA ScanOfAbort ==
    ASSUME NEW q \in Runs, StepsAlone(q), Abort(q)
    PROVE  Scanning(q)'
<1>1. run'[q] = [IdleRun EXCEPT !.pc = "failed"]
  BY DEF Abort, StepsAlone
<1>2. run'[q].pc = "failed" /\ run'[q].todo = <<>>
  BY <1>1, RunFields
<1> QED  BY <1>2, BetweenRules DEF Scanning, MissesNobody, Working

-----------------------------------------------------------------------------
(* Every step *)

LEMMA RunsTouchThemselves ==
    ASSUME NEW q \in Runs, RunStep(q) \/ Abort(q), DOMAIN run = Runs, DOMAIN run[q] = DOMAIN IdleRun,
           TypedWorld, Observe
    PROVE  /\ StepsAlone(q) /\ Shrinking /\ UNCHANGED fixed
           /\ \A r \in Runs : r # q => run'[r] = run[r]
<1>1. UNCHANGED <<fixed, facts, settings>> /\ occurrences \subseteq occurrences'
  BY DEF RunStep, Begin, SkipRule, TakeRule, Finish, ReadExpiring, ReadFacts, ReadActivity,
     NextPage, DryRun, Reserve, Reject, LockSettings, SkipUnconsented, Create, Abort, rows
<1>2. \A r \in Runs : r # q => run'[r] = run[r]
  <2>1. CASE Begin(q) \/ SkipRule(q) \/ TakeRule(q) \/ Finish(q)
    BY <2>1 DEF Begin, SkipRule, TakeRule, Finish
  <2>2. CASE ReadExpiring(q) \/ ReadActivity(q)
    BY <2>2 DEF ReadExpiring, ReadActivity
  <2>3. CASE ReadFacts(q)
    BY <2>3 DEF ReadFacts
  <2>4. CASE NextPage(q)
    BY <2>4 DEF NextPage
  <2>5. CASE \/ DryRun(q) \/ Reserve(q) \/ Reject(q) \/ LockSettings(q)
             \/ SkipUnconsented(q) \/ Create(q)
    BY <2>5 DEF DryRun, Reserve, Reject, LockSettings, SkipUnconsented, Create, Dropped
  <2>6. CASE Abort(q)
    BY <2>6 DEF Abort
  <2> QED  BY <2>1, <2>2, <2>3, <2>4, <2>5, <2>6 DEF RunStep
<1> QED  BY <1>1, <1>2 DEF StepsAlone, Shrinking, facts

LEMMA OthersOnlyTakeAway ==
    ASSUME Next, ~ \E r \in Runs : RunStep(r) \/ Abort(r)
    PROVE  Shrinking /\ UNCHANGED <<fixed, run, occurrences>>
<1>1. ASSUME NEW w \in Workers, PushStep(w) \/ Swallow(w) \/ Crash(w)
      PROVE  UNCHANGED <<fixed, facts, run, occurrences>>
  BY <1>1 DEF PushStep, Deliver, Find, ReadSettings, ListTokens, Send, CleanUp, Swallow, Crash, rows
<1>2. CASE ReadStep
  BY <1>2 DEF ReadStep, ReadLock, ReadSelect, ReadCommit, rows, Shrinking, facts
<1>3. CASE Change
  <2>1. UNCHANGED <<fixed, run, occurrences>>
    BY <1>3 DEF Change, Delete, UpdateSettings, Withdraw, Register, Unregister, DeleteReceipt, rows
  <2>2. CASE UNCHANGED facts
    BY <2>1, <2>2 DEF Shrinking, facts
  <2>3. CASE \E u : Withdraw(u)
    BY <2>1, <2>3 DEF Withdraw, Shrinking
  <2>4. CASE \E i : DeleteReceipt(i)
    BY <2>1, <2>4 DEF DeleteReceipt, Shrinking
  <2> QED  BY <1>3, <2>2, <2>3, <2>4 DEF Change, Delete, UpdateSettings, Register, Unregister
<1>4. CASE CleanUpStale \/ \E d \in devices : Expire(d)
  BY <1>4 DEF CleanUpStale, Expire, rows, Shrinking, facts
<1> QED  BY <1>1, <1>2, <1>3, <1>4 DEF Next, Shrinking, facts

LEMMA ScanOfEveryStep ==
    ASSUME ScanInvariant, RunInvariant, [Next]_vars
    PROVE  ScanInvariant'
<1>0. /\ TypedWorld /\ \A r \in Runs : Scanning(r)
      /\ DOMAIN run = Runs /\ \A r \in Runs : DOMAIN run[r] = DOMAIN IdleRun
  BY DEF ScanInvariant, Scanning, RunInvariant, RunTypes
<1>1. ASSUME NEW q \in Runs, RunStep(q) \/ Abort(q), Observe
      PROVE  ScanInvariant'
  <2>1. /\ StepsAlone(q) /\ Scanning(q) /\ Shrinking /\ UNCHANGED fixed
        /\ occurrences \subseteq occurrences' /\ \A r \in Runs : r # q => run'[r] = run[r]
    BY <1>0, <1>1, RunsTouchThemselves DEF StepsAlone
  <2>2. Scanning(q)'
    BY <1>1, <2>1, ScanOfBegin, ScanOfSkipRule, ScanOfTakeRule, ScanOfFinish, ScanOfReadExpiring,
       ScanOfReadFacts, ScanOfReadActivity, ScanOfNextPage, ScanOfDecisions, ScanOfAbort DEF RunStep
  <2>3. \A r \in Runs : r # q => Scanning(r)'
    BY <1>0, <1>1, <2>1, UntouchedRun DEF Scanning
  <2>4. TypedWorld'
    BY <1>0, <2>1, WorldStaysTyped
  <2> QED  BY <2>2, <2>3, <2>4 DEF ScanInvariant, Scanning
<1>2. CASE Next /\ ~ \E r \in Runs : RunStep(r) \/ Abort(r)
  <2>1. Shrinking /\ UNCHANGED <<fixed, run, occurrences>> /\ Observe
    BY <1>2, OthersOnlyTakeAway DEF Next
  <2>2. \A r \in Runs : Scanning(r)'
    BY <1>0, <2>1, UntouchedRun DEF Scanning
  <2>3. TypedWorld'
    BY <1>0, <2>1, WorldStaysTyped
  <2> QED  BY <2>2, <2>3 DEF ScanInvariant, Scanning
<1>3. CASE UNCHANGED vars
  <2>1. Shrinking /\ UNCHANGED <<fixed, run, occurrences, steady, facts, settings>>
    BY <1>3 DEF vars, rows, facts, Shrinking
  <2>2. \A r \in Runs : Scanning(r)'
    BY <1>0, <2>1, UntouchedRun DEF Scanning
  <2>3. TypedWorld'
    BY <1>0, <2>1, WorldStaysTyped
  <2> QED  BY <2>2, <2>3 DEF ScanInvariant, Scanning
<1> QED  BY <1>1, <1>2, <1>3 DEF Next

\* What a run that is under way still has to notify, it has yet to come to: it is
\* on its list, behind a cursor, or of a later rule (create_due_notifications/
\* use_case.py:92).
THEOREM ScanInvariantHolds == NotificationSpec => []ScanInvariant
<1>1. AtRest => ScanInvariant
  <2> SUFFICES ASSUME AtRest PROVE ScanInvariant
    OBVIOUS
  <2>1. ASSUME NEW r \in Runs
        PROVE  /\ run[r].pc \in {"idle", "done"} /\ run[r].todo = <<>>
               /\ run[r].next = None /\ run[r].activity = None /\ run[r].facts = {}
               /\ steady[r] = {}
    <3>1. run[r] = IdleRun \/ run[r] = [IdleRun EXCEPT !.pc = "done"]
      BY DEF AtRest
    <3>2. IdleRun.pc = "idle" /\ steady[r] = {}
      BY DEF AtRest, IdleRun
    <3> QED  BY <3>1, <3>2, RunFields
  <2>2. ASSUME NEW r \in Runs
        PROVE  RightToDo(r)
    <3>0. run[r].todo = <<>>
      BY <2>1
    <3>1. DOMAIN run[r].todo = {} /\ run[r].todo \in Seq({run[r].todo[j] : j \in DOMAIN run[r].todo})
      BY <3>0, EmptySeq
    <3> QED  BY <2>1, <3>1 DEF RightToDo, Reserving
  <2>3. \A r \in Runs : RightPosition(r) /\ MissesNobody(r)
    BY <2>1 DEF RightPosition, MissesNobody, Working
  <2> QED  BY <2>2, <2>3 DEF AtRest, ScanInvariant
<1>2. ScanInvariant /\ RunInvariant /\ [Next]_vars => ScanInvariant'
  BY ScanOfEveryStep
<1> QED  BY <1>1, <1>2, RunInvariantHolds, PTL DEF NotificationSpec

\* A completed run has notified everyone who was owed it all the time, whatever
\* other runs reserved, users withdrew or deleted, and whatever the size of the
\* pages (receipt_reminder_notifications.py:63, user_registration_facts_reader.py:35).
THEOREM CompletedRunsMissNobody == NotificationSpec => []CompletedRunMissesNobody
<1>1. ScanInvariant => CompletedRunMissesNobody
  BY DEF ScanInvariant, MissesNobody, CompletedRunMissesNobody
<1> QED  BY <1>1, ScanInvariantHolds, PTL

=============================================================================
