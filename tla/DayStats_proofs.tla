---------------------------- MODULE DayStats_proofs ----------------------------
(***************************************************************************)
(* The day files are a book, for any number of concurrent completions, any *)
(* calendar and any time zone at or east of UTC; the stats page shows all  *)
(* of it, and old files go but for failing purges, in every time zone.     *)
(***************************************************************************)
EXTENDS DayStats, TLAPS

USE DEF Days, NoFile, Corrupt, Counts, Never, Holding, NoDays, NoTmp, purging

LEMMA Calendar ==
  /\ LastDay \in Nat /\ HoursPerDay \in Nat \ {0} /\ RetainDays \in Nat \ {0}
  /\ MaxPerDay \in Nat \ {0} /\ MaxFaults \in Nat
  /\ \A z \in Offsets : z \in Int /\ -HoursPerDay < z /\ z < HoursPerDay
BY CalendarAssumption, BoundsAssumption

-----------------------------------------------------------------------------
(* Types.                                                                  *)

LEMMA TypeInit == Init => TypeOK
<1> SUFFICES ASSUME Init PROVE TypeOK
  OBVIOUS
<1>1. 0 \in Days /\ 0 \in 0..MaxFaults
  BY Calendar
<1>2. /\ tmp \in [day : Days, doc : {NoFile, Corrupt} \union Counts]
      /\ file \in [Days -> {NoFile, Corrupt} \union Counts]
  BY <1>1 DEF Init
<1>3. QED
  BY <1>1, <1>2 DEF Init, TypeOK

\* A purge takes only expired files, and remembers those it could not take.
LEMMA Purged ==
  ASSUME TypeOK, PurgeFiles
  PROVE  /\ file' \in [Days -> {NoFile, Corrupt} \union Counts]
         /\ \A d \in Days : file'[d] = file[d] \/ (Expired(d) /\ file'[d] = NoFile)
         /\ \A d \in Days : Expired(d) /\ file'[d] # NoFile => d \in left'
         /\ left' \subseteq Days /\ lastPurge' = today
         /\ faults' \in 0..MaxFaults /\ (faults' = 0 => faults = 0)
<1>1. PICK kept \in SUBSET {d \in Days : Expired(d) /\ file[d] # NoFile} :
        /\ kept # {} => faults < MaxFaults
        /\ faults' = IF kept = {} THEN faults ELSE faults + 1
        /\ file' = [d \in Days |-> IF Expired(d) /\ d \notin kept THEN NoFile ELSE file[d]]
        /\ left' = kept
  BY DEF PurgeFiles
<1>2. faults' \in 0..MaxFaults /\ (faults' = 0 => faults = 0)
  <2>1. faults \in 0..MaxFaults /\ MaxFaults \in Nat
    BY Calendar DEF TypeOK
  <2>2. QED
    BY <1>1, <2>1
<1>3. QED
  BY <1>1, <1>2 DEF PurgeFiles, TypeOK

LEMMA TypeStep == TypeOK /\ [Next]_vars => TypeOK'
<1> SUFFICES ASSUME TypeOK, [Next]_vars PROVE TypeOK'
  OBVIOUS
<1> USE Calendar DEF TypeOK, clock, recording, reader
<1>1. CASE UNCHANGED vars
  BY <1>1 DEF vars
<1>2. ASSUME NEW r \in Recorders, OnCompletion(r) PROVE TypeOK'
  BY <1>2 DEF OnCompletion, Goto
<1>3. ASSUME NEW r \in Recorders, Merge(r) \/ MergeBlind(r) PROVE TypeOK'
  <2>1. Merge(r) => Merged(date[r]) \in Counts
    BY DEF Merge, Merged
  <2>2. ASSUME NEW n \in Counts, doc' = [doc EXCEPT ![r] = n]
        PROVE  doc' \in [Recorders -> {NoFile} \union Counts]
    BY <2>2
  <2>3. doc' \in [Recorders -> {NoFile} \union Counts]
    <3>1. CASE Merge(r)
      BY <3>1, <2>1, <2>2 DEF Merge
    <3>2. CASE MergeBlind(r)
      <4>1. 1 \in Counts /\ doc' = [doc EXCEPT ![r] = 1]
        BY <3>2 DEF MergeBlind
      <4>2. QED
        BY <4>1, <2>2
    <3>3. QED
      BY <1>3, <3>1, <3>2
  <2>4. pc' \in [Recorders -> {"idle", "queued"} \union Holding]
    BY <1>3 DEF Merge, MergeBlind, Goto
  <2>5. faults' \in 0..MaxFaults /\ blind' \in BOOLEAN
    <3>1. CASE Merge(r)
      BY <3>1 DEF Merge
    <3>2. CASE MergeBlind(r)
      BY <3>2 DEF MergeBlind
    <3>3. QED
      BY <1>3, <3>1, <3>2
  <2>6. QED
    BY <1>3, <2>3, <2>4, <2>5 DEF Merge, MergeBlind
<1>4. ASSUME NEW r \in Recorders, WriteFile(r) PROVE TypeOK'
  BY <1>4 DEF WriteFile, Goto
<1>5. ASSUME NEW r \in Recorders, WriteFails(r) \/ RenameFails(r) \/ Rename(r) PROVE TypeOK'
  <2>1. pc' \in [Recorders -> {"idle", "queued"} \union Holding]
    BY <1>5 DEF WriteFails, RenameFails, Rename, Goto, AfterSave
  <2>2. doc' \in [Recorders -> {NoFile} \union Counts] /\ blind' \in BOOLEAN
    BY <1>5 DEF WriteFails, RenameFails, Rename, Discard
  <2>3. tmp' \in [day : Days, doc : {NoFile, Corrupt} \union Counts]
    BY <1>5 DEF WriteFails, RenameFails, Rename
  <2>4. file' \in [Days -> {NoFile, Corrupt} \union Counts]
    BY <1>5 DEF WriteFails, RenameFails, Rename
  <2>5. QED
    BY <1>5, <2>1, <2>2, <2>3, <2>4 DEF WriteFails, RenameFails, Rename
<1>7. ASSUME NEW r \in Recorders, Purge(r) PROVE TypeOK'
  BY <1>7, Purged DEF Purge, Goto
<1>8. CASE ReadDir
  BY <1>8 DEF ReadDir
<1>9. CASE ReadDay
  BY <1>9 DEF ReadDay
<1>10. CASE ShowDays
  BY <1>10 DEF ShowDays
<1>11. CASE Crash
  BY <1>11 DEF Crash
<1>12. CASE Restart
  BY <1>12, Purged DEF Restart
<1>13. CASE ClockTicks
  BY <1>13 DEF ClockTicks
<1>14. ASSUME NEW d \in Days, Damage(d) PROVE TypeOK'
  BY <1>14 DEF Damage
<1> QED
  BY <1>1, <1>2, <1>3, <1>4, <1>5, <1>7, <1>8, <1>9, <1>10, <1>11, <1>12, <1>13, <1>14
     DEF Next, Record

-----------------------------------------------------------------------------
(* One completion at a time holds p.mu, and its document is the file plus  *)
(* itself unless the day is damaged.                                       *)

LockInv == \A q, r \in Recorders : pc[q] \in Holding /\ pc[r] \in Holding => q = r

DocInv ==
  \A r \in Recorders :
    /\ pc[r] \in {"write", "rename"} =>
         doc[r] \in Counts /\ (doc[r] = Merged(date[r]) \/ blind \/ file[date[r]] = Corrupt)
    /\ pc[r] = "rename" => tmp = [day |-> date[r], doc |-> doc[r]]

DownInv == ~up => \A r \in Recorders : pc[r] = "idle"

DateInv == /\ \A r \in Recorders : date[r] <= today
           /\ lastPurge <= today

WriterInv == TypeOK /\ LockInv /\ DocInv /\ DownInv /\ DateInv

\* The actions that leave the recorders, the directory and the process alone.
Quiet == \/ ReadDir \/ ReadDay \/ ShowDays \/ ClockTicks \/ UNCHANGED vars

LEMMA QuietSteps ==
  ASSUME TypeOK, Quiet
  PROVE  /\ UNCHANGED <<pc, date, doc, blind, file, tmp, lastPurge, left, up, faults, offset>>
         /\ today' \in {today, today + 1}
<1> USE DEF clock, recording, reader, vars, TypeOK
<1>1. CASE ClockTicks
  BY <1>1, Calendar DEF ClockTicks
<1>2. CASE ~ClockTicks
  BY <1>2 DEF Quiet, ReadDir, ReadDay, ShowDays
<1> QED
  BY <1>1, <1>2

LEMMA LockStep == TypeOK /\ LockInv /\ [Next]_vars => LockInv'
<1> SUFFICES ASSUME TypeOK, LockInv, [Next]_vars PROVE LockInv'
  OBVIOUS
<1> USE DEF LockInv, TypeOK
<1>1. CASE Quiet
  BY <1>1, QuietSteps
<1>2. ASSUME NEW r \in Recorders, OnCompletion(r) PROVE LockInv'
  BY <1>2 DEF OnCompletion, Goto
<1>3. ASSUME NEW r \in Recorders, Merge(r) \/ MergeBlind(r) PROVE LockInv'
  BY <1>3 DEF Merge, MergeBlind, Goto
<1>4. ASSUME NEW r \in Recorders, WriteFile(r) PROVE LockInv'
  BY <1>4 DEF WriteFile, Goto
<1>5. ASSUME NEW r \in Recorders, WriteFails(r) \/ Rename(r) \/ RenameFails(r) \/ Purge(r)
      PROVE  LockInv'
  <2>1. /\ pc[r] \in Holding
        /\ \E to \in {"purge", "idle"} : pc' = [pc EXCEPT ![r] = to]
    BY <1>5 DEF WriteFails, Rename, RenameFails, Purge, Goto, AfterSave
  <2>2. QED
    BY <2>1
<1>6. CASE Crash
  BY <1>6 DEF Crash
<1>7. CASE Restart \/ \E d \in Days : Damage(d)
  BY <1>7 DEF Restart, Damage, recording
<1> QED
  BY <1>1, <1>2, <1>3, <1>4, <1>5, <1>6, <1>7 DEF Next, Record, Quiet

LEMMA DocStep == WriterInv /\ [Next]_vars => DocInv'
<1> SUFFICES ASSUME WriterInv, [Next]_vars PROVE DocInv'
  OBVIOUS
<1> USE DEF WriterInv, DocInv, TypeOK
<1>1. CASE Quiet
  BY <1>1, QuietSteps DEF Merged
<1>2. ASSUME NEW r \in Recorders, OnCompletion(r) PROVE DocInv'
  BY <1>2 DEF OnCompletion, Goto, Merged
<1>3. ASSUME NEW r \in Recorders, Merge(r) PROVE DocInv'
  <2>1. \A q \in Recorders : pc'[q] \in {"write", "rename"} => q = r
    BY <1>3 DEF Merge, Goto
  <2>2. /\ pc'[r] = "write" /\ file' = file /\ date' = date
        /\ doc'[r] = Merged(date[r]) /\ doc'[r] \in Counts
    BY <1>3, Calendar DEF Merge, Goto, Merged
  <2>3. QED
    BY <2>1, <2>2 DEF Merged
<1>4. ASSUME NEW r \in Recorders, MergeBlind(r) PROVE DocInv'
  <2>1. \A q \in Recorders : pc'[q] \in {"write", "rename"} => q = r
    BY <1>4 DEF MergeBlind, Goto
  <2>2. pc'[r] = "write" /\ blind' /\ doc'[r] \in Counts
    BY <1>4, Calendar DEF MergeBlind, Goto
  <2>3. QED
    BY <2>1, <2>2
<1>5. ASSUME NEW r \in Recorders, WriteFile(r) PROVE DocInv'
  BY <1>5 DEF WriteFile, Goto, LockInv, Merged
<1>6. ASSUME NEW r \in Recorders, WriteFails(r) \/ Rename(r) \/ RenameFails(r) \/ Purge(r)
      PROVE  DocInv'
  <2>1. /\ pc[r] \in Holding
        /\ \E to \in {"purge", "idle"} : pc' = [pc EXCEPT ![r] = to]
    BY <1>6 DEF WriteFails, Rename, RenameFails, Purge, Goto, AfterSave
  <2>2. \A q \in Recorders : pc'[q] \notin {"write", "rename"}
    BY <2>1 DEF LockInv
  <2>3. QED
    BY <2>2
<1>7. CASE Crash
  BY <1>7 DEF Crash
<1>8. CASE Restart
  BY <1>8 DEF Restart, DownInv, recording
<1>9. ASSUME NEW d \in Days, Damage(d) PROVE DocInv'
  BY <1>9 DEF Damage, recording, Merged
<1> QED
  BY <1>1, <1>2, <1>3, <1>4, <1>5, <1>6, <1>7, <1>8, <1>9 DEF Next, Record, Quiet

LEMMA DownStep == TypeOK /\ DownInv /\ [Next]_vars => DownInv'
<1> SUFFICES ASSUME TypeOK, DownInv, [Next]_vars PROVE DownInv'
  OBVIOUS
<1> USE DEF DownInv, TypeOK
<1>1. CASE Quiet
  BY <1>1, QuietSteps
<1>2. ASSUME NEW r \in Recorders, Record(r) PROVE DownInv'
  BY <1>2 DEF Record, OnCompletion, Merge, MergeBlind, WriteFile, WriteFails, Rename,
              RenameFails, Purge, Goto
<1>3. CASE Crash \/ Restart \/ \E d \in Days : Damage(d)
  BY <1>3 DEF Crash, Restart, Damage, recording
<1> QED
  BY <1>1, <1>2, <1>3 DEF Next, Quiet

LEMMA DateStep == TypeOK /\ DateInv /\ [Next]_vars => DateInv'
<1> SUFFICES ASSUME TypeOK, DateInv, [Next]_vars PROVE DateInv'
  OBVIOUS
<1> USE DEF DateInv, TypeOK
<1>1. CASE Quiet
  BY <1>1, QuietSteps
<1>2. ASSUME NEW r \in Recorders, Record(r) PROVE DateInv'
  <2>1. CASE OnCompletion(r)
    BY <2>1 DEF OnCompletion, clock
  <2>2. CASE Purge(r)
    BY <2>2 DEF Purge, PurgeFiles, clock
  <2>3. CASE ~OnCompletion(r) /\ ~Purge(r)
    <3>1. UNCHANGED <<today, date, lastPurge>>
      BY <1>2, <2>3 DEF Record, Merge, MergeBlind, WriteFile, WriteFails, Rename,
                        RenameFails, clock
    <3>2. QED
      BY <3>1
  <2>4. QED
    BY <2>1, <2>2, <2>3
<1>3. CASE Crash \/ Restart \/ \E d \in Days : Damage(d)
  BY <1>3 DEF Crash, Restart, Damage, PurgeFiles, recording, clock
<1> QED
  BY <1>1, <1>2, <1>3 DEF Next, Quiet

LEMMA WriterInvariant == Spec => []WriterInv
<1>1. Init => WriterInv
  <2>1. Init => LockInv /\ DocInv /\ DownInv /\ DateInv
    BY DEF Init, LockInv, DocInv, DownInv, DateInv
  <2>2. QED
    BY <2>1, TypeInit DEF WriterInv
<1>2. WriterInv /\ [Next]_vars => WriterInv'
  BY TypeStep, LockStep, DocStep, DownStep, DateStep DEF WriterInv
<1>3. QED
  BY <1>1, <1>2, PTL DEF Spec

THEOREM TypeCorrect == Spec => []TypeOK
BY WriterInvariant, PTL DEF WriterInv

-----------------------------------------------------------------------------
(* The refinement.                                                         *)

\* East of UTC, or at it, a purge takes only files outside the window.
LEMMA ExpiredOutside ==
  ASSUME TypeOK, offset >= 0, NEW d \in Days, Expired(d)
  PROVE  today - d >= RetainDays
BY Calendar DEF TypeOK, Expired, BeforeCutoff

\* What a step does to the book, in terms of the files and the holder.
LEMMA BookPurge ==
  ASSUME TypeOK, offset >= 0, PurgeFiles, today' = today, Doubtful' \subseteq Doubtful
  PROVE  Book!Expire
<1>1. ASSUME NEW d \in Days
      PROVE  Accounted'[d] = Accounted[d] \/ (today - d >= RetainDays /\ Accounted'[d] = 0)
  BY ExpiredOutside, Purged DEF Accounted
<1>2. Accounted' = [d \in Days |-> Accounted'[d]]
  BY DEF Accounted
<1>3. QED
  BY <1>1, <1>2 DEF Book!Expire

LEMMA BookSteps ==
  ASSUME WriterInv, offset >= 0, [Next]_vars
  PROVE  [Book!Next]_(Book!vars)
<1> USE DEF WriterInv, TypeOK
<1>1. CASE Quiet
  <2>1. UNCHANGED <<Accounted, Doubtful>>
    <3>1. UNCHANGED <<pc, date, blind, file>>
      BY <1>1, QuietSteps
    <3>2. QED
      BY <3>1 DEF Accounted, Doubtful
  <2>2. CASE today' = today
    BY <2>1, <2>2 DEF Book!vars
  <2>3. CASE today' = today + 1
    BY <2>1, <2>3 DEF Book!Next, Book!NextDay
  <2>4. QED
    BY <1>1, <2>2, <2>3, QuietSteps
<1>2. ASSUME NEW r \in Recorders, OnCompletion(r) \/ Merge(r) \/ WriteFile(r)
      PROVE  UNCHANGED Book!vars
  <2>1. UNCHANGED <<today, file>>
    BY <1>2 DEF OnCompletion, Merge, WriteFile, clock
  <2>2. Doubtful' = Doubtful
    <3>1. CASE OnCompletion(r)
      BY <3>1 DEF OnCompletion, Goto, Doubtful
    <3>2. CASE Merge(r)
      BY <3>2 DEF Merge, Goto, Doubtful
    <3>3. CASE WriteFile(r)
      BY <3>3 DEF WriteFile, Goto, Doubtful
    <3>4. QED
      BY <1>2, <3>1, <3>2, <3>3
  <2>3. QED
    BY <2>1, <2>2 DEF Book!vars, Accounted
<1>3. ASSUME NEW r \in Recorders, MergeBlind(r) PROVE Book!Damage(date[r])
  <2>1. UNCHANGED <<today, file, Accounted>>
    BY <1>3 DEF MergeBlind, clock, Accounted
  <2>2. Doubtful' = Doubtful \union {date[r]}
    BY <1>3 DEF MergeBlind, Goto, Doubtful
  <2>3. QED
    BY <2>1, <2>2 DEF Book!Damage
<1>4. ASSUME NEW r \in Recorders, WriteFails(r) \/ RenameFails(r) PROVE Book!GiveUp
  <2>1. UNCHANGED <<today, file, Accounted>> /\ ~blind'
    BY <1>4 DEF WriteFails, RenameFails, Discard, clock, Accounted
  <2>2. Doubtful' \subseteq Doubtful
    BY <2>1 DEF Doubtful
  <2>3. QED
    BY <2>1, <2>2 DEF Book!GiveUp
<1>5. ASSUME NEW r \in Recorders, Rename(r)
      PROVE  Book!Account(date[r]) \/ Book!Rebuild(date[r])
  <2> DEFINE d == date[r]
  <2>1. /\ pc[r] = "rename" /\ d \in Days /\ doc[r] \in Counts
        /\ doc[r] = Merged(d) \/ blind \/ file[d] = Corrupt
        /\ file' = [file EXCEPT ![d] = doc[r]] /\ today' = today /\ ~blind'
    <3>1. pc[r] = "rename"
      BY <1>5 DEF Rename, Goto
    <3>2. /\ doc[r] \in Counts /\ tmp = [day |-> d, doc |-> doc[r]]
          /\ doc[r] = Merged(d) \/ blind \/ file[d] = Corrupt
      BY <3>1 DEF DocInv
    <3>3. file' = [file EXCEPT ![tmp.day] = tmp.doc] /\ today' = today /\ ~blind'
      BY <1>5 DEF Rename, Discard, clock
    <3>4. QED
      BY <3>1, <3>2, <3>3
  <2>2. Accounted' = [Accounted EXCEPT ![d] = doc[r]]
    <3>1. \A x \in Days : Accounted'[x] = IF x = d THEN doc[r] ELSE Accounted[x]
      BY <2>1 DEF Accounted
    <3>2. Accounted' = [x \in Days |-> IF x = d THEN doc[r] ELSE Accounted[x]]
      BY <3>1 DEF Accounted
    <3>3. QED
      BY <3>2 DEF Accounted
  <2>3. \A q \in Recorders : pc[q] \in {"write", "rename"} => q = r
    BY <2>1 DEF LockInv
  <2>4. Doubtful' = Doubtful \ {d}
    BY <2>1, <2>3 DEF Doubtful
  <2>5. CASE d \in Doubtful
    <3>1. Accounted'[d] = doc[r] /\ doc[r] > 0
      BY <2>1, <2>2 DEF Accounted
    <3>2. QED
      BY <2>1, <2>2, <2>4, <2>5, <3>1 DEF Book!Rebuild
  <2>6. CASE d \notin Doubtful
    <3>1. doc[r] = Accounted[d] + 1
      BY <2>1, <2>6 DEF Doubtful, Merged, Accounted
    <3>2. QED
      BY <2>1, <2>2, <2>4, <2>6, <3>1 DEF Book!Account
  <2>7. QED
    BY <2>5, <2>6
<1>6. ASSUME NEW r \in Recorders, Purge(r) PROVE Book!Expire
  <2>1. Doubtful' \subseteq Doubtful
    BY <1>6, Purged DEF Purge, Goto, Doubtful
  <2>2. QED
    BY <1>6, <2>1, BookPurge DEF Purge, clock
<1>7. CASE Crash
  <2>1. UNCHANGED <<today, file, Accounted>> /\ ~blind'
    BY <1>7 DEF Crash, clock, Accounted
  <2>2. Doubtful' \subseteq Doubtful
    BY <2>1 DEF Doubtful
  <2>3. QED
    BY <2>1, <2>2 DEF Book!GiveUp, Book!Next
<1>8. CASE Restart
  <2>1. Doubtful' \subseteq Doubtful
    BY <1>8, Purged DEF Restart, DownInv, Doubtful, recording
  <2>2. QED
    BY <1>8, <2>1, BookPurge DEF Restart, clock, Book!Next
<1>9. ASSUME NEW d \in Days, Damage(d) PROVE Book!Damage(d)
  <2>1. Accounted' = [Accounted EXCEPT ![d] = 0]
    BY <1>9 DEF Damage, Accounted
  <2>2. Doubtful' = Doubtful \union {d}
    BY <1>9 DEF Damage, Doubtful, recording
  <2>3. QED
    BY <1>9, <2>1, <2>2 DEF Damage, Book!Damage, clock
<1> QED
  BY <1>1, <1>2, <1>3, <1>4, <1>5, <1>6, <1>7, <1>8, <1>9
     DEF Next, Record, Quiet, Book!Next

\* DayStats implements Ledger at and east of UTC: concurrent completions,
\* crashes, restarts, failing writes and purges lose or repeat no completion of
\* an undamaged day in the window (stats.go:138).
THEOREM KeepsTheBook ==
  ASSUME \A z \in Offsets : z >= 0
  PROVE  Spec => BookKept
<1>1. Init => Book!Init
  BY Calendar DEF Init, Book!Init, Accounted, Doubtful
<1>2. WriterInv /\ [Next]_vars => [Book!Next]_(Book!vars)
  BY BookSteps DEF WriterInv, TypeOK
<1>3. QED
  BY <1>1, <1>2, WriterInvariant, PTL DEF Spec, BookKept, Book!Spec

-----------------------------------------------------------------------------
(* Old files go.                                                           *)

\* A file older than the window at the last purge is one it failed to remove,
\* or was written after it, by a completion that is about to purge.
OldInv ==
  up => \A d \in Days : file[d] # NoFile =>
          \/ lastPurge - d <= RetainDays
          \/ d \in left
          \/ \E r \in Recorders : pc[r] = "purge" /\ date[r] = d

LEMMA PurgeTakesOld ==
  ASSUME TypeOK, PurgeFiles, NEW d \in Days, today - d > RetainDays
  PROVE  file'[d] = NoFile \/ d \in left'
<1>1. Expired(d)
  BY Calendar DEF TypeOK, Expired, BeforeCutoff
<1>2. QED
  BY <1>1, Purged

\* The document of an undamaged day is renamed into place.
LEMMA Renamed ==
  ASSUME WriterInv, NEW r \in Recorders, Rename(r)
  PROVE  /\ date[r] \in Days /\ doc[r] \in Counts
         /\ doc[r] = Merged(date[r]) \/ blind \/ file[date[r]] = Corrupt
         /\ file' = [file EXCEPT ![date[r]] = doc[r]]
         /\ pc[r] = "rename" /\ pc' = [pc EXCEPT ![r] = AfterSave(r)]
<1>1. pc[r] = "rename" /\ pc' = [pc EXCEPT ![r] = AfterSave(r)]
  BY DEF Rename, Goto
<1>2. /\ date[r] \in Days /\ doc[r] \in Counts
      /\ doc[r] = Merged(date[r]) \/ blind \/ file[date[r]] = Corrupt
      /\ tmp = [day |-> date[r], doc |-> doc[r]]
  BY <1>1 DEF WriterInv, TypeOK, DocInv
<1>3. file' = [file EXCEPT ![tmp.day] = tmp.doc]
  BY DEF Rename
<1>4. QED
  BY <1>1, <1>2, <1>3

LEMMA OldStep == WriterInv /\ OldInv /\ [Next]_vars => OldInv'
<1> SUFFICES ASSUME WriterInv, OldInv, [Next]_vars PROVE OldInv'
  OBVIOUS
<1> USE DEF WriterInv, TypeOK, OldInv
<1>1. CASE Quiet
  BY <1>1, QuietSteps
<1>2. ASSUME NEW r \in Recorders,
             OnCompletion(r) \/ Merge(r) \/ MergeBlind(r) \/ WriteFile(r)
      PROVE  OldInv'
  <2>1. UNCHANGED <<file, lastPurge, left, up>>
    BY <1>2 DEF OnCompletion, Merge, MergeBlind, WriteFile
  <2>2. \A q \in Recorders : pc[q] = "purge" => pc'[q] = "purge" /\ date'[q] = date[q]
    BY <1>2 DEF OnCompletion, Merge, MergeBlind, WriteFile, Goto
  <2>3. QED
    BY <2>1, <2>2
<1>3. ASSUME NEW r \in Recorders, WriteFails(r) \/ RenameFails(r) PROVE OldInv'
  <2>1. UNCHANGED <<file, lastPurge, left, up, date>> /\ pc[r] \in Holding /\ pc[r] # "purge"
    BY <1>3 DEF WriteFails, RenameFails, Goto
  <2>2. \A q \in Recorders : pc[q] # "purge"
    BY <2>1 DEF LockInv
  <2>3. QED
    BY <2>1, <2>2
<1>4. ASSUME NEW r \in Recorders, Rename(r) PROVE OldInv'
  <2>1. UNCHANGED <<lastPurge, left, up, date>>
    BY <1>4 DEF Rename
  <2>2. \A q \in Recorders : pc[q] # "purge"
    BY <1>4, Renamed DEF LockInv
  <2>3. ASSUME NEW d \in Days, up, file'[d] # NoFile
        PROVE  \/ lastPurge - d <= RetainDays
               \/ d \in left
               \/ \E q \in Recorders : pc'[q] = "purge" /\ date[q] = d
    <3>1. CASE d = date[r]
      BY <1>4, <3>1, Renamed, Calendar DEF AfterSave
    <3>2. CASE d # date[r]
      <4>1. file'[d] = file[d]
        BY <1>4, <3>2, Renamed
      <4>2. QED
        BY <2>2, <2>3, <4>1
    <3>3. QED
      BY <3>1, <3>2
  <2>4. QED
    BY <2>1, <2>3
<1>5. ASSUME NEW r \in Recorders, Purge(r) PROVE OldInv'
  <2>1. PurgeFiles /\ lastPurge' = today
    BY <1>5 DEF Purge, PurgeFiles
  <2>2. QED
    BY <2>1, PurgeTakesOld, Calendar
<1>6. CASE Crash
  BY <1>6 DEF Crash
<1>7. CASE Restart
  <2>1. PurgeFiles /\ lastPurge' = today
    BY <1>7 DEF Restart, PurgeFiles
  <2>2. QED
    BY <2>1, PurgeTakesOld, Calendar
<1>8. ASSUME NEW d \in Days, Damage(d) PROVE OldInv'
  BY <1>8 DEF Damage, recording
<1> QED
  BY <1>1, <1>2, <1>3, <1>4, <1>5, <1>6, <1>7, <1>8 DEF Next, Record, Quiet

LEMMA OldFilesStep ==
  ASSUME WriterInv, OldInv, [Next]_vars, NEW r \in Recorders, NEW d \in Days,
         pc[r] \in Holding, pc'[r] = "idle", up', date[r] - d > RetainDays,
         file'[d] # NoFile
  PROVE  d \in left' /\ lastPurge' >= date[r]
<1> USE DEF WriterInv, TypeOK
<1>1. \A q \in Recorders : pc[q] \in Holding => q = r
  BY DEF LockInv
<1>2. up /\ ~Crash /\ ~Restart /\ ~Quiet /\ \A x \in Days : ~Damage(x)
  <2>1. ~Quiet
    BY QuietSteps
  <2>2. QED
    BY <2>1 DEF DownInv, Crash, Restart, Damage, recording
<1>3. PICK q \in Recorders : Record(q)
  BY <1>2 DEF Next, Quiet
<1>4. q = r
  BY <1>3 DEF Record, OnCompletion, Merge, MergeBlind, WriteFile, WriteFails, Rename,
              RenameFails, Purge, Goto
<1>5. CASE Purge(r)
  <2>1. PurgeFiles /\ today - d > RetainDays /\ lastPurge' >= date[r]
    BY <1>5, Calendar DEF Purge, PurgeFiles, DateInv
  <2>2. QED
    BY <2>1, PurgeTakesOld
<1>6. CASE Rename(r)
  <2>1. date[r] = lastPurge /\ pc[r] = "rename"
    BY <1>6, Renamed DEF AfterSave
  <2>2. \A x \in Recorders : pc[x] # "purge"
    BY <1>1, <2>1
  <2>3. file[d] = NoFile \/ d \in left
    BY <1>2, <2>1, <2>2, Calendar DEF OldInv
  <2>4. QED
    <3>1. d # date[r]
      BY Calendar
    <3>2. file'[d] = file[d]
      BY <1>6, <3>1, Renamed
    <3>3. left' = left /\ lastPurge' = lastPurge
      BY <1>6 DEF Rename
    <3>4. lastPurge \in Int
      BY <2>1, Calendar
    <3>5. QED
      BY <2>1, <2>3, <3>2, <3>3, <3>4
<1>7. CASE WriteFails(r) \/ RenameFails(r)
  <2>1. /\ date[r] = lastPurge /\ pc[r] # "purge"
        /\ UNCHANGED <<file, lastPurge, left>>
    BY <1>7 DEF WriteFails, RenameFails, AfterSave, Goto
  <2>2. \A x \in Recorders : pc[x] # "purge"
    BY <1>1, <2>1
  <2>3. QED
    BY <1>2, <2>1, <2>2, Calendar DEF OldInv
<1>8. CASE OnCompletion(r) \/ Merge(r) \/ MergeBlind(r) \/ WriteFile(r)
  BY <1>8 DEF OnCompletion, Merge, MergeBlind, WriteFile, Goto
<1> QED
  BY <1>3, <1>4, <1>5, <1>6, <1>7, <1>8 DEF Record

\* Once a completion of a day is recorded, only files that a purge of that day
\* or a later one failed to remove are older than the window, in every time
\* zone and after belated completions (README.md:233).
THEOREM OldFilesGone == Spec => OldFilesGo
<1>1. Init => OldInv
  BY Calendar DEF Init, OldInv
<1>2. WriterInv /\ OldInv /\ [Next]_vars =>
        \A r \in Recorders : pc[r] \in Holding /\ pc'[r] = "idle" /\ up' =>
          \A d \in Days : date[r] - d > RetainDays /\ file'[d] # NoFile =>
                             d \in left' /\ lastPurge' >= date[r]
  BY OldFilesStep
<1>3. QED
  BY <1>1, <1>2, OldStep, WriterInvariant, PTL DEF Spec, OldFilesGo

-----------------------------------------------------------------------------
(* The page.                                                               *)

\* Undamaged files only grow inside the window; the page has read the files
\* it does not have on its list any more.
PageInv ==
  faults = 0 =>
    /\ ~blind /\ \A d \in Days : file[d] # Corrupt
    /\ page = "ok" => listed = {}
    /\ page \in {"reading", "ok"} =>
         \A d \in Days : \/ Expired(d)
                         \/ /\ file[d] >= floor[d]
                            /\ d \in listed => file[d] # NoFile
                            /\ d \notin listed => shown[d] >= floor[d]

LEMMA ExpiredStays ==
  ASSUME TypeOK, [Next]_vars, NEW d \in Days, Expired(d)
  PROVE  Expired(d)'
<1>1. CASE ClockTicks
  <2>1. ASSUME NEW day \in Int, NEW h \in Int, BeforeCutoff(day, h)
        PROVE  BeforeCutoff(day, h)'
    <3>1. /\ today \in Nat /\ hour \in Nat
          /\ \/ today' = today /\ hour' = hour + 1
             \/ today' = today + 1
      BY <1>1, Calendar DEF TypeOK, ClockTicks
    <3>2. QED
      BY <2>1, <3>1, Calendar DEF BeforeCutoff
  <2>2. offset' = offset /\ offset \in Int /\ HoursPerDay \in Int
    BY <1>1, Calendar DEF TypeOK, ClockTicks
  <2>3. CASE offset >= 0
    BY <2>1, <2>2, <2>3 DEF Expired
  <2>4. CASE ~(offset >= 0)
    <3>1. d - 1 \in Int /\ HoursPerDay + offset \in Int
      BY <2>2
    <3>2. QED
      BY <2>1, <2>2, <2>4, <3>1 DEF Expired
  <2>5. QED
    BY <2>3, <2>4
<1>2. CASE ~ClockTicks
  <2>1. UNCHANGED <<today, hour, offset>>
    BY <1>2 DEF Next, vars, clock, Record, OnCompletion, Merge, MergeBlind, WriteFile,
         WriteFails, Rename, RenameFails, Purge, ReadDir, ReadDay, ShowDays, Crash, Restart, Damage
  <2>2. QED
    BY <2>1 DEF Expired, BeforeCutoff
<1> QED
  BY <1>1, <1>2

LEMMA PageStep == WriterInv /\ PageInv /\ [Next]_vars => PageInv'
<1> SUFFICES ASSUME WriterInv, PageInv, [Next]_vars, faults' = 0 PROVE PageInv'
  BY DEF PageInv
<1> USE DEF WriterInv, TypeOK
<1>0. faults = 0
  BY Purged DEF Next, vars, clock, Record, OnCompletion, Merge, MergeBlind, WriteFile, WriteFails,
         Rename, RenameFails, Purge, ReadDir, ReadDay, ShowDays, Crash, Restart, Damage, ClockTicks
<1>1. ASSUME UNCHANGED <<page, listed, shown, floor>>, ~blind',
             \A d \in Days : file'[d] # Corrupt,
             \A d \in Days : \/ Expired(d)'
                             \/ file'[d] >= file[d] /\ (file[d] # NoFile => file'[d] # NoFile)
      PROVE  PageInv'
  <2>1. ASSUME NEW d \in Days, page \in {"reading", "ok"}
        PROVE  \/ Expired(d)'
               \/ /\ file'[d] >= floor[d]
                  /\ d \in listed => file'[d] # NoFile
                  /\ d \notin listed => shown[d] >= floor[d]
    <3>1. CASE Expired(d)
      BY <3>1, ExpiredStays
    <3>2. CASE ~Expired(d)
      <4>1. /\ file[d] \in Int /\ file'[d] \in Int /\ floor[d] \in Int
        <5>1. TypeOK'
          BY TypeStep
        <5>2. \A n \in {NoFile, Corrupt} \union Counts : n \in Int
          BY Calendar
        <5>3. /\ file[d] \in {NoFile, Corrupt} \union Counts
              /\ file'[d] \in {NoFile, Corrupt} \union Counts
              /\ floor[d] \in {NoFile, Corrupt} \union Counts
          BY <5>1
        <5>4. QED
          BY <5>2, <5>3
      <4>2. QED
        BY <1>0, <1>1, <2>1, <3>2, <4>1 DEF PageInv
    <3>3. QED
      BY <3>1, <3>2
  <2>2. QED
    BY <1>0, <1>1, <2>1 DEF PageInv
<1>2. ASSUME UNCHANGED <<file, blind, page, listed, shown, floor>>
      PROVE  PageInv'
  <2>1. ~blind' /\ \A d \in Days : file'[d] # Corrupt
    BY <1>0, <1>2 DEF PageInv
  <2>2. \A d \in Days : file'[d] >= file[d] /\ (file[d] # NoFile => file'[d] # NoFile)
    BY <1>2
  <2>3. QED
    BY <1>1, <1>2, <2>1, <2>2
<1>3. ASSUME NEW r \in Recorders, Rename(r) PROVE PageInv'
  <2>1. UNCHANGED <<page, listed, shown, floor>> /\ ~blind'
    BY <1>3 DEF Rename, Discard, reader
  <2>2. /\ file' = [file EXCEPT ![date[r]] = doc[r]]
        /\ doc[r] = Merged(date[r]) /\ doc[r] \in Counts
    BY <1>0, <1>3, Renamed DEF PageInv
  <2>3. doc[r] >= file[date[r]]
    BY <2>2, Calendar DEF Merged
  <2>4. QED
    BY <1>0, <1>1, <2>1, <2>2, <2>3 DEF PageInv
<1>4. ASSUME PurgeFiles, UNCHANGED <<today, hour, offset, blind, page, listed, shown, floor>>
      PROVE  PageInv'
  <2>1. \A d \in Days : Expired(d)' = Expired(d)
    BY <1>4 DEF Expired, BeforeCutoff
  <2>2. QED
    BY <1>0, <1>1, <1>4, <2>1, Purged DEF PageInv
<1>5. ASSUME NEW r \in Recorders, Record(r) PROVE PageInv'
  <2>1. CASE OnCompletion(r) \/ WriteFile(r)
    BY <1>2, <2>1 DEF OnCompletion, WriteFile, reader
  <2>2. CASE Merge(r) \/ WriteFails(r) \/ RenameFails(r)
    <3>1. UNCHANGED <<file, page, listed, shown, floor>> /\ ~blind'
      BY <2>2 DEF Merge, WriteFails, RenameFails, Discard, reader
    <3>2. QED
      <4>1. \A d \in Days : /\ file'[d] # Corrupt /\ file'[d] >= file[d]
                            /\ file[d] # NoFile => file'[d] # NoFile
        <5>1. \A d \in Days : file[d] # Corrupt /\ file[d] \in Int
          BY <1>0, Calendar DEF PageInv
        <5>2. QED
          BY <3>1, <5>1
      <4>2. QED
        BY <1>1, <3>1, <4>1
  <2>3. CASE Purge(r)
    BY <1>4, <2>3 DEF Purge, clock, reader
  <2>4. ~MergeBlind(r)
    BY <1>0 DEF MergeBlind
  <2>5. QED
    BY <1>3, <1>5, <2>1, <2>2, <2>3, <2>4 DEF Record
<1>6. CASE ReadDir
  <2>1. /\ page' = "reading" /\ listed' = {d \in Days : file[d] # NoFile}
        /\ shown' = NoDays /\ floor' = file /\ UNCHANGED <<file, blind>>
    BY <1>6 DEF ReadDir, recording
  <2>2. ~blind /\ \A d \in Days : file[d] # Corrupt
    BY <1>0 DEF PageInv
  <2>3. ASSUME NEW d \in Days
        PROVE  /\ file'[d] >= floor'[d]
               /\ d \in listed' => file'[d] # NoFile
               /\ d \notin listed' => shown'[d] >= floor'[d]
    <3>1. file[d] \in Int
      BY Calendar
    <3>2. QED
      BY <2>1, <3>1
  <2>4. QED
    BY <2>1, <2>2, <2>3 DEF PageInv
<1>7. CASE ReadDay
  <2>1. UNCHANGED <<file, blind, floor>> /\ page = "reading"
    BY <1>7 DEF ReadDay, recording
  <2>2. \A d \in Days : Expired(d)' = Expired(d)
    BY <1>7 DEF ReadDay, clock, Expired, BeforeCutoff
  <2>3. CASE page' = "failed"
    BY <1>0, <2>1, <2>3 DEF PageInv
  <2>4. CASE page' # "failed"
    <3>1. PICK d \in listed : /\ shown' = [shown EXCEPT ![d] = file[d]]
                             /\ listed' = listed \ {d} /\ page' = page
      BY <1>7, <2>4 DEF ReadDay
    <3>2. QED
      BY <1>0, <2>1, <2>2, <3>1 DEF PageInv
  <2>5. QED
    BY <2>3, <2>4
<1>8. CASE ShowDays
  BY <1>0, <1>8 DEF ShowDays, PageInv, recording, clock, Expired, BeforeCutoff
<1>9. CASE Crash
  BY <1>0, <1>9 DEF Crash, PageInv
<1>10. CASE Restart
  BY <1>4, <1>10 DEF Restart, clock, reader, recording
<1>11. CASE ClockTicks \/ UNCHANGED vars
  BY <1>2, <1>11 DEF ClockTicks, vars, recording, reader
<1>12. \A d \in Days : ~Damage(d)
  BY <1>0 DEF Damage
<1> QED
  BY <1>5, <1>6, <1>7, <1>8, <1>9, <1>10, <1>11, <1>12 DEF Next

LEMMA PageInvariant == Spec => []PageInv
<1>1. Init => PageInv
  BY DEF Init, PageInv
<1>2. QED
  BY <1>1, PageStep, WriterInvariant, PTL DEF Spec

\* The page shows at least what was on disk when it was asked for.
THEOREM PageComplete == Spec => []PageShowsAll
<1>1. PageInv => PageShowsAll
  BY DEF PageInv, PageShowsAll
<1>2. QED
  BY <1>1, PageInvariant, PTL

\* A page fails only because a purge took a file it had listed.
THEOREM PageFailures == Spec => PageFailsOnlyAtPurge
<1>1. ASSUME WriterInv, PageInv, [Next]_vars, page = "reading", page' = "failed", faults = 0
      PROVE  \E d \in listed : file[d] = NoFile /\ Expired(d)
  <2> USE DEF WriterInv, TypeOK
  <2>1. ReadDay
    BY <1>1 DEF Next, vars, reader, Record, OnCompletion, Merge, MergeBlind, WriteFile, WriteFails,
         Rename, RenameFails, Purge, ReadDir, ShowDays, Crash, Restart, Damage, ClockTicks
  <2>2. PICK d \in Days : d \in listed /\ file[d] \notin Counts
    BY <1>1, <2>1 DEF ReadDay
  <2>3. QED
    BY <1>1, <2>2 DEF PageInv
<1>2. QED
  BY <1>1, PageInvariant, WriterInvariant, PTL DEF Spec, PageFailsOnlyAtPurge
===============================================================================
