------------------------------- MODULE DayStats -------------------------------
(***************************************************************************)
(* The statistics on disk (src/internal/stats/stats.go): one file per day, *)
(* read, merged, written to a temporary file and renamed under p.mu by     *)
(* every observed completion; purged at start-up and once a day; read by   *)
(* the stats page without the lock.  The process may die at any point.     *)
(*                                                                         *)
(* A file is the number of completions it accounts (the token counters,    *)
(* the hour buckets and the cloud counters are sums over the same          *)
(* completions).  The local clock runs in days and hours.                  *)
(***************************************************************************)
EXTENDS Integers, FiniteSets

CONSTANTS
  Recorders,    \* completions observed at the same time
  LastDay,      \* bound: the days are 0..LastDay
  HoursPerDay,
  RetainDays,   \* stats.retainDays
  Offsets,      \* local time minus UTC, in hours, the zone may have
  MaxPerDay,    \* bound: completions accounted in one day
  MaxFaults     \* bound: damaged files, failing reads and failing purges

ASSUME RecordersAssumption == IsFiniteSet(Recorders)
ASSUME CalendarAssumption ==
  /\ LastDay \in Nat /\ HoursPerDay \in Nat \ {0} /\ RetainDays \in Nat \ {0}
  /\ \A z \in Offsets : z \in Int /\ -HoursPerDay < z /\ z < HoursPerDay
ASSUME BoundsAssumption == MaxPerDay \in Nat \ {0} /\ MaxFaults \in Nat

VARIABLES
  today, hour, offset,
  up,          \* the process runs
  file,        \* the day files
  tmp,         \* the temporary file written last
  pc, date,    \* where a recorder is, and the date it took
  doc,         \* the document it is about to write
  blind,       \* the holder of p.mu could not read the file
  lastPurge,
  left,        \* history: the old files the last purge failed to remove
  page,        \* the stats page: what Days() is doing
  listed,      \* the files it has still to read
  shown,       \* the days it has read
  floor,       \* history: the files when it began
  faults

clock == <<today, hour, offset>>
recording == <<pc, date, doc, blind>>
purging == <<lastPurge, left>>
reader == <<page, listed, shown, floor>>
vars == <<clock, up, file, tmp, recording, purging, reader, faults>>

Days == 0..LastDay
NoFile == 0
Corrupt == -1
Counts == 1..MaxPerDay
Never == -1

Holding == {"write", "rename", "purge"}

TypeOK ==
  /\ today \in Days /\ hour \in 0..HoursPerDay - 1 /\ offset \in Offsets
  /\ up \in BOOLEAN
  /\ file \in [Days -> {NoFile, Corrupt} \union Counts]
  /\ tmp \in [day : Days, doc : {NoFile, Corrupt} \union Counts]
  /\ pc \in [Recorders -> {"idle", "queued"} \union Holding]
  /\ date \in [Recorders -> Days]
  /\ doc \in [Recorders -> {NoFile} \union Counts]
  /\ blind \in BOOLEAN
  /\ lastPurge \in Days \union {Never} /\ left \subseteq Days
  /\ page \in {"idle", "reading", "ok", "failed"}
  /\ listed \subseteq Days
  /\ shown \in [Days -> {NoFile} \union Counts]
  /\ floor \in [Days -> {NoFile, Corrupt} \union Counts]
  /\ faults \in 0..MaxFaults

NoDays == [d \in Days |-> NoFile]
NoTmp == [day |-> 0, doc |-> NoFile]

\* New in an empty directory.
Init ==
  /\ today = 0 /\ hour \in 0..HoursPerDay - 1 /\ offset \in Offsets
  /\ up = TRUE
  /\ file = NoDays
  /\ tmp = NoTmp
  /\ pc = [r \in Recorders |-> "idle"] /\ date = [r \in Recorders |-> 0]
  /\ doc = [r \in Recorders |-> NoFile] /\ blind = FALSE
  /\ lastPurge = 0 /\ left = {}
  /\ page = "idle" /\ listed = {} /\ shown = NoDays /\ floor = NoDays
  /\ faults = 0

-----------------------------------------------------------------------------
(* purge.                                                                  *)

\* The cutoff is the same local hour, RetainDays ago; an instant of an hour is
\* after its beginning.
BeforeCutoff(day, h) ==
  day < today - RetainDays \/ (day = today - RetainDays /\ h <= hour)

\* The name of a file is read as midnight UTC, which is "offset" on the local
\* clock.
Expired(d) ==
  IF offset >= 0 THEN BeforeCutoff(d, offset) ELSE BeforeCutoff(d - 1, HoursPerDay + offset)

\* A directory that cannot be read, and a file that cannot be removed, leave
\* old files behind; lastPurge was set before.
PurgeFiles ==
  /\ \E kept \in SUBSET {d \in Days : Expired(d) /\ file[d] # NoFile} :
       /\ kept # {} => faults < MaxFaults
       /\ faults' = IF kept = {} THEN faults ELSE faults + 1
       /\ file' = [d \in Days |-> IF Expired(d) /\ d \notin kept THEN NoFile ELSE file[d]]
       /\ left' = kept
  /\ lastPurge' = today

-----------------------------------------------------------------------------
(* record.                                                                 *)

Goto(r, from, to) == pc[r] = from /\ pc' = [pc EXCEPT ![r] = to]

\* The date is taken before the lock.
OnCompletion(r) ==
  /\ up
  /\ Goto(r, "idle", "queued")
  /\ date' = [date EXCEPT ![r] = today]
  /\ UNCHANGED <<clock, up, file, tmp, doc, blind, purging, reader, faults>>

\* A corrupt file is rebuilt from this completion on.
Merged(d) == IF file[d] \in Counts THEN file[d] + 1 ELSE 1

\* Mutant: the read-merge-write is not serialised.
MergeUnlocked(r) ==
  /\ file[date[r]] < MaxPerDay
  /\ Goto(r, "queued", "write")
  /\ doc' = [doc EXCEPT ![r] = Merged(date[r])]
  /\ blind' = FALSE
  /\ UNCHANGED <<clock, up, file, tmp, date, purging, reader, faults>>

\* Under p.mu from here to the return.
Merge(r) ==
  /\ \A q \in Recorders : pc[q] \notin Holding
  /\ file[date[r]] < MaxPerDay
  /\ Goto(r, "queued", "write")
  /\ doc' = [doc EXCEPT ![r] = Merged(date[r])]
  /\ blind' = FALSE
  /\ UNCHANGED <<clock, up, file, tmp, date, purging, reader, faults>>

\* A read that fails for any other reason than a missing file: it is logged,
\* and the file is rebuilt all the same.
MergeBlind(r) ==
  /\ \A q \in Recorders : pc[q] \notin Holding
  /\ file[date[r]] # NoFile /\ faults < MaxFaults
  /\ Goto(r, "queued", "write")
  /\ doc' = [doc EXCEPT ![r] = 1]
  /\ blind' = TRUE
  /\ faults' = faults + 1
  /\ UNCHANGED <<clock, up, file, tmp, date, purging, reader>>

\* Mutant: only the first record after a start purges.
AfterSaveOnce(r) == IF lastPurge = Never THEN "purge" ELSE "idle"

AfterSave(r) == IF lastPurge # date[r] THEN "purge" ELSE "idle"

\* The document is gone with the call.
Discard(r) == doc' = [doc EXCEPT ![r] = NoFile] /\ blind' = FALSE

\* Mutant: the day file itself is written.
WriteFileInPlace(r) ==
  /\ Goto(r, "write", "rename")
  /\ tmp' = [day |-> date[r], doc |-> doc[r]]
  /\ file' = [file EXCEPT ![date[r]] = Corrupt]
  /\ UNCHANGED <<clock, up, date, doc, blind, purging, reader, faults>>

WriteFile(r) ==
  /\ Goto(r, "write", "rename")
  /\ tmp' = [day |-> date[r], doc |-> doc[r]]
  /\ UNCHANGED <<clock, up, file, date, doc, blind, purging, reader, faults>>

\* The completion is lost, the day file is not.
WriteFails(r) ==
  /\ Goto(r, "write", AfterSave(r))
  /\ tmp' = [day |-> date[r], doc |-> Corrupt]
  /\ Discard(r)
  /\ UNCHANGED <<clock, up, file, date, purging, reader, faults>>

Rename(r) ==
  /\ Goto(r, "rename", AfterSave(r))
  /\ file' = [file EXCEPT ![tmp.day] = tmp.doc]
  /\ tmp' = NoTmp
  /\ Discard(r)
  /\ UNCHANGED <<clock, up, date, purging, reader, faults>>

RenameFails(r) ==
  /\ Goto(r, "rename", AfterSave(r))
  /\ tmp' = NoTmp
  /\ Discard(r)
  /\ UNCHANGED <<clock, up, file, date, purging, reader, faults>>

Purge(r) ==
  /\ Goto(r, "purge", "idle")
  /\ PurgeFiles
  /\ UNCHANGED <<clock, up, tmp, date, doc, blind, reader>>

Record(r) ==
  \/ OnCompletion(r) \/ Merge(r) \/ MergeBlind(r)
  \/ WriteFile(r) \/ WriteFails(r) \/ Rename(r) \/ RenameFails(r) \/ Purge(r)

-----------------------------------------------------------------------------
(* Days, for one page request.                                             *)

ReadDir ==
  /\ up /\ page # "reading"
  /\ page' = "reading"
  /\ listed' = {d \in Days : file[d] # NoFile}
  /\ shown' = NoDays
  /\ floor' = file
  /\ UNCHANGED <<clock, up, file, tmp, recording, purging, faults>>

\* A file that vanished or does not parse fails the page.
ReadDay ==
  /\ page = "reading"
  /\ \E d \in listed :
       /\ \A x \in listed : d <= x
       /\ IF file[d] \in Counts
            THEN /\ shown' = [shown EXCEPT ![d] = file[d]]
                 /\ listed' = listed \ {d}
                 /\ UNCHANGED page
            ELSE /\ page' = "failed"
                 /\ UNCHANGED <<shown, listed>>
  /\ UNCHANGED <<clock, up, file, tmp, recording, purging, floor, faults>>

ShowDays ==
  /\ page = "reading" /\ listed = {}
  /\ page' = "ok"
  /\ UNCHANGED <<clock, up, file, tmp, recording, purging, listed, shown, floor, faults>>

-----------------------------------------------------------------------------
(* The environment.                                                        *)

\* The process dies, in the middle of a write too.
Crash ==
  /\ up
  /\ up' = FALSE
  /\ pc' = [r \in Recorders |-> "idle"]
  /\ tmp' \in {tmp, [tmp EXCEPT !.doc = Corrupt]}
  /\ doc' = [r \in Recorders |-> NoFile] /\ blind' = FALSE
  /\ lastPurge' = Never /\ left' = {}
  /\ page' = "idle" /\ listed' = {} /\ shown' = NoDays /\ floor' = NoDays
  /\ UNCHANGED <<clock, file, date, faults>>

\* New purges before the first request is served.
Restart ==
  /\ ~up
  /\ up' = TRUE
  /\ PurgeFiles
  /\ UNCHANGED <<clock, tmp, recording, reader>>

\* Power loss or a hand on the directory.
Damage(d) ==
  /\ file[d] \in Counts /\ faults < MaxFaults
  /\ file' = [file EXCEPT ![d] = Corrupt]
  /\ faults' = faults + 1
  /\ UNCHANGED <<clock, up, tmp, recording, purging, reader>>

ClockTicks ==
  /\ IF hour + 1 < HoursPerDay
       THEN hour' = hour + 1 /\ UNCHANGED today
       ELSE today < LastDay /\ today' = today + 1 /\ hour' = 0
  /\ UNCHANGED <<offset, up, file, tmp, recording, purging, reader, faults>>

Next ==
  \/ \E r \in Recorders : Record(r)
  \/ ReadDir \/ ReadDay \/ ShowDays
  \/ Crash \/ Restart \/ ClockTicks
  \/ \E d \in Days : Damage(d)

Spec == Init /\ [][Next]_vars

-----------------------------------------------------------------------------
(* Properties.                                                             *)

\* The refinement mapping.
Accounted == [d \in Days |-> IF file[d] = Corrupt THEN 0 ELSE file[d]]
Doubtful == {d \in Days : \/ file[d] = Corrupt
                          \/ blind /\ \E r \in Recorders :
                                        pc[r] \in {"write", "rename"} /\ date[r] = d}

Book == INSTANCE Ledger WITH Keep <- RetainDays, ledger <- Accounted, doubt <- Doubtful

\* The day files are a book: through concurrent completions, crashes,
\* restarts, failing writes and purges each file changes by exactly one
\* completion at a time, and a count is lost only with a damaged file or
\* outside the retention window ("read-merge-atomic write", stats.go:138).
BookKept == Book!Spec

\* The page never shows less than what was on disk when it was asked for,
\* whatever is recorded, written and purged while it reads.
PageShowsAll ==
  page = "ok" /\ faults = 0 => \A d \in Days : Expired(d) \/ shown[d] >= floor[d]

\* The page fails only because of damage or because a purge took a file it had
\* listed; never because it met a file that was being written, whatever
\* crashed before.
PageFailsOnlyAtPurge ==
  [][page = "reading" /\ page' = "failed" /\ faults = 0 =>
       \E d \in listed : file[d] = NoFile /\ Expired(d)]_vars

\* When a completion of a day was recorded, a file older than the window is
\* left only if a purge of that day, or of a later one, failed to remove it: no
\* day goes by on the purge of an earlier one, and a file that a belated
\* completion of an old day wrote again goes too (README.md:233).
OldFilesGo ==
  [][\A r \in Recorders : pc[r] \in Holding /\ pc'[r] = "idle" /\ up' =>
       \A d \in Days : date[r] - d > RetainDays /\ file'[d] # NoFile =>
                          d \in left' /\ lastPurge' >= date[r]]_vars
===============================================================================
