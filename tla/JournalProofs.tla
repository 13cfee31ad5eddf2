--------------------------- MODULE JournalProofs ---------------------------
(***************************************************************************)
(* Theorems about Journal, for any number of processes and of pages: the   *)
(* safety properties, and that the pagers implement AtomicFile.            *)
(*                                                                         *)
(* The inductive invariant says of every process what it relies on in the  *)
(* file and the journal.  A step of p leaves that alone for the others,    *)
(* because they hold locks that do not go with those of p.                 *)
(***************************************************************************)
EXTENDS Journal, TLAPS

\* Only one process holds RESERVED or more, and EXCLUSIVE goes with nothing.
Exclusion ==
    \A p, q \in Procs : p # q =>
        /\ lock[p] \in Reserving => lock[q] \notin Reserving
        /\ lock[p] = "exclusive" => lock[q] = "none"

\* The file and the journal: what is not in the journal on the disk is in the
\* file as it was, synced and whole.  A page that is missing from the file was
\* missing before, so the journal of an empty file restores an empty file.
JournalFits ==
    /\ exists \/ recs = NoRecs
    /\ safe = {} \/ ghost = NoRecs
    /\ loose \subseteq safe
    /\ \A pg \in DOMAIN recs \ safe : file[pg] = recs[pg]
    /\ \A pg \in Pages : file[pg] = Torn => pg \in safe
    /\ \A pg \in DOMAIN recs : file[pg] = Absent => recs[pg] = Absent
    /\ \A pg \in DOMAIN ghost : file[pg] = Absent => ghost[pg] = Absent

\* The lock that p holds in each state of its pager.
LockFits(p) ==
    /\ st[p] = "open" <=> lock[p] = "none"
    /\ st[p] \in Probing \cup {"reader"} => lock[p] = "shared"
    /\ st[p] \in {"locked", "cachemod", "playback", "synced"} => lock[p] \in Reserving
    /\ st[p] \in {"syncing", "dbmod", "finished"} => lock[p] = "exclusive"

\* While p reads, or could let others read beside its RESERVED lock, there is
\* nothing to restore.
Calm(p) ==
    st[p] \in {"reader", "locked", "cachemod"} \/ lock[p] \in {"reserved", "pending"}
        => counted = {}

\* The states with a write transaction.
Drafting == {"locked"} \cup Writing

\* The draft of p differs from the file in the pages p has yet to write.
DraftFits(p) ==
    IF st[p] \in Drafting
    THEN /\ cache[p] \in [Pages -> Content]
         /\ \A pg \in Pages \ dirty[p] : file[pg] = cache[p][pg]
         /\ \A pg \in dirty[p] : cache[p][pg] # Absent
    ELSE cache[p] = NoCache

\* How far a commit or a rollback of p has come: the records that are written,
\* counted and synced, the pages that are back in the file.
WriterFits(p) ==
    /\ st[p] \in Writing => dirty[p] \subseteq DOMAIN recs /\ DOMAIN recs # {}
    /\ st[p] = "syncing" => counted = DOMAIN recs
    /\ st[p] = "dbmod" => safe # {}
    /\ st[p] = "finished" => safe = DOMAIN recs
    /\ st[p] \in {"finished", "synced"} => loose = {}
    /\ st[p] \in {"playback", "synced"} =>
            /\ dirty[p] \subseteq counted
            /\ \A pg \in counted \ dirty[p] : file[pg] = recs[pg]
    /\ st[p] \notin {"cachemod", "syncing", "dbmod", "playback"} => dirty[p] = {}

\* The inductive invariant.
JournalInv ==
    /\ JournalTypeOK
    /\ Exclusion
    /\ JournalFits
    /\ \A p \in Procs : LockFits(p) /\ Calm(p) /\ DraftFits(p) /\ WriterFits(p)
-----------------------------------------------------------------------------
(* What the proofs of all the actions need                                 *)

\* The records of a journal are a function on some of the pages.
LEMMA RecordsType ==
    ASSUME NEW r
    PROVE  r \in UNION {[S -> Content] : S \in SUBSET Pages}
              <=> DOMAIN r \subseteq Pages /\ r \in [DOMAIN r -> Content]
OBVIOUS

\* What p relies on, apart from its lock.
Local(p) == Calm(p) /\ DraftFits(p) /\ WriterFits(p)

\* The pager of q takes no part in a step.
Rests(q) ==
    st'[q] = st[q] /\ lock'[q] = lock[q] /\ cache'[q] = cache[q] /\ dirty'[q] = dirty[q]

\* Nothing changes for a process at rest if the file and the journal stay.
LEMMA RestsLocal ==
    ASSUME NEW q \in Procs, Local(q), Rests(q), UNCHANGED <<db, jrnl>>
    PROVE  Local(q)'
BY DEF Local, Calm, DraftFits, WriterFits, Rests, db, jrnl

\* One that holds no RESERVED lock does not care about the file, and about the
\* journal only while it reads.
LEMMA BystanderLocal ==
    ASSUME NEW q \in Procs, Local(q), LockFits(q), Rests(q), lock[q] \notin Reserving,
           counted' \subseteq counted \/ st[q] # "reader"
    PROVE  Local(q)'
BY DEF Local, Calm, DraftFits, WriterFits, LockFits, Rests, Drafting, Writing, Reserving

\* Steps of one process that leave the file and the journal alone.
LEMMA QuietStep ==
    ASSUME JournalInv, NEW p \in Procs, UNCHANGED <<db, jrnl>>,
           \A q \in Procs \ {p} : Rests(q),
           st' \in [Procs -> States], lock' \in [Procs -> Locks],
           cache' \in [Procs -> [Pages -> Content] \cup {NoCache}],
           dirty' \in [Procs -> SUBSET Pages],
           Exclusion', \A q \in Procs : LockFits(q)', Local(p)'
    PROVE  JournalInv'
<1>1. JournalTypeOK'
  BY DEF JournalInv, JournalTypeOK, db, jrnl
<1>2. JournalFits'
  BY DEF JournalInv, JournalFits, db, jrnl
<1>3. \A q \in Procs : Local(q)'
  BY RestsLocal DEF JournalInv, Local
<1>4. QED
  BY <1>1, <1>2, <1>3 DEF JournalInv, Local

-----------------------------------------------------------------------------
(* Locks                                                                   *)

\* The part of the invariant that the locks need to exclude each other.
LocksInv ==
    /\ st \in [Procs -> States] /\ lock \in [Procs -> Locks]
    /\ Exclusion
    /\ \A p \in Procs : LockFits(p)

\* A process that gives its locks up, or takes one that the others allow.
LEMMA OneLock ==
    ASSUME LocksInv, NEW p \in Procs, NEW s \in States, NEW l \in Locks,
           st' = [st EXCEPT ![p] = s], lock' = [lock EXCEPT ![p] = l],
           l \in Reserving => Unreserved(p) \/ lock[p] \in Reserving,
           l = "exclusive" => MayExclude(p) \/ lock[p] = "exclusive",
           l # "none" => MayShare(p) \/ lock[p] # "none",
           LockFits(p)'
    PROVE  LocksInv'
<1>1. Exclusion'
  BY DEF LocksInv, Exclusion, Unreserved, MayExclude, MayShare, Reserving, Locks
<1>2. \A q \in Procs \ {p} : LockFits(q)'
  BY DEF LocksInv, LockFits
<1>3. QED
  BY <1>1, <1>2 DEF LocksInv

\* Locks and pager states fit, and exclude each other, after every step.
LEMMA LocksStep ==
    ASSUME LocksInv, Next PROVE LocksInv'
<1> USE DEF LocksInv, LockFits, Probing, Reserving, Locks, States, Writing
<1>1. ASSUME NEW p \in Procs, GetShared(p) PROVE LocksInv'
  BY <1>1, OneLock DEF GetShared, Leave
<1>2. ASSUME NEW p \in Procs, NEW s \in Probing \cup {"reader"}, st[p] \in Probing, Go(p, s)
      PROVE  LocksInv'
  BY <1>2, OneLock DEF Go
<1>3. ASSUME NEW p \in Procs,
             \/ AccessJournal(p) \/ CheckReservedLock(p)
             \/ DeleteObsolete(p) \/ ReadFirstByte(p)
      PROVE  LocksInv'
  BY <1>2, <1>3 DEF AccessJournal, CheckReservedLock, DeleteObsolete, ReadFirstByte
<1>4. ASSUME NEW p \in Procs, LockHot(p) PROVE LocksInv'
  <2>1. CASE exists
    BY <1>4, <2>1, OneLock DEF LockHot, MayExclude, Unreserved
  <2>2. CASE ~exists
    BY <1>2, <1>4, <2>2 DEF LockHot
  <2>3. QED BY <2>1, <2>2
<1>5. ASSUME NEW p \in Procs, Leave(p, "open", "none") PROVE LocksInv'
  BY <1>5, OneLock DEF Leave
<1>6. ASSUME NEW p \in Procs, Leave(p, "reader", "shared"), lock[p] # "none" PROVE LocksInv'
  BY <1>6, OneLock DEF Leave
<1>7. ASSUME NEW p \in Procs, NEW l \in Locks \ {"none"}, Leave(p, "error", l),
             l = "shared" \/ l = lock[p], lock[p] # "none"
      PROVE  LocksInv'
  BY <1>7, OneLock DEF Leave
<1>8. ASSUME NEW p \in Procs, Begin(p) PROVE LocksInv'
  BY <1>8, OneLock DEF Begin
<1>9. ASSUME NEW p \in Procs, ExclusiveLock(p) PROVE LocksInv'
  <2>1. st' = [st EXCEPT ![p] = st[p]] /\ st[p] \in States
    BY <1>9 DEF ExclusiveLock
  <2>2. QED BY <1>9, <2>1, OneLock DEF ExclusiveLock
<1>10. ASSUME NEW p \in Procs, NEW s \in Writing \cup {"playback", "synced"},
              st' = [st EXCEPT ![p] = s], UNCHANGED lock,
              lock[p] \in Reserving,
              s \in {"syncing", "dbmod", "finished"} => lock[p] = "exclusive"
       PROVE  LocksInv'
  <2>1. lock' = [lock EXCEPT ![p] = lock[p]] /\ lock[p] \in Locks
    BY <1>10
  <2>2. QED BY <1>10, <2>1, OneLock
<1>11. ASSUME NEW p \in Procs,
              WriteHeader(p) \/ SyncJournal(p) \/ SyncFile(p) \/ Rollback(p)
       PROVE  LocksInv'
  BY <1>10, <1>11 DEF WriteHeader, SyncJournal, SyncFile, Rollback, Undo, Go
<1>12. ASSUME NEW p \in Procs, NEW pg \in Pages, NEW v \in Values, Write(p, pg, v)
       PROVE  LocksInv'
  <2>1. st' = [st EXCEPT ![p] = IF st[p] = "locked" THEN "cachemod" ELSE st[p]]
        /\ st[p] \in {"locked", "cachemod", "dbmod"} /\ UNCHANGED lock
    BY <1>12 DEF Write
  <2>2. CASE st[p] = "dbmod"
    BY <1>10, <2>1, <2>2
  <2>3. CASE st[p] # "dbmod"
    BY <1>10, <2>1, <2>3
  <2>4. QED BY <2>2, <2>3
<1>13. ASSUME NEW p \in Procs, NEW pg \in Pages, WriteFails(p, pg) PROVE LocksInv'
  BY <1>7, <1>10, <1>13 DEF WriteFails, MayWrite, Undo
<1>14. ASSUME NEW p \in Procs, NEW pg \in Pages, WritePage(p, pg) PROVE LocksInv'
  BY <1>14 DEF WritePage, Exclusion
<1>15. ASSUME NEW p \in Procs,
              \/ LockHotBusy(p) \/ Unlock(p) \/ EndTransaction(p)
              \/ EndTransactionFails(p) \/ EndUnmodified(p) \/ IoError(p) \/ Crash(p)
       PROVE  LocksInv'
  BY <1>5, <1>6, <1>7, <1>15
  DEF LockHotBusy, Unlock, EndTransaction, EndTransactionFails, EndUnmodified,
      IoError, Crash
<1>16. ASSUME PowerLoss PROVE LocksInv'
  BY <1>16 DEF PowerLoss, Exclusion
<1>17. QED
  BY <1>1, <1>3, <1>4, <1>8, <1>9, <1>11, <1>12, <1>13, <1>14, <1>15, <1>16 DEF Next

-----------------------------------------------------------------------------
(* Steps that leave the file and the journal alone                         *)

\* The invariant contains that of the locks.
LEMMA InvHasLocks ==
    ASSUME JournalInv PROVE LocksInv
BY DEF JournalInv, JournalTypeOK, LocksInv

\* Nothing is counted while p reads or while somebody holds RESERVED or PENDING
\* with p reading beside it.
LEMMA ReservedCalm ==
    ASSUME JournalInv, NEW p \in Procs, lock[p] # "none", ~Unreserved(p)
    PROVE  counted = {}
<1>1. PICK q \in Procs \ {p} : lock[q] \in Reserving
  BY DEF Unreserved
<1>2. lock[q] \in {"reserved", "pending"}
  BY <1>1 DEF JournalInv, Exclusion, Reserving
<1>3. QED
  BY <1>2 DEF JournalInv, Calm

\* A file that no journal on the disk can restore is whole and synced.
LEMMA CleanFile ==
    ASSUME JournalInv, safe = {}
    PROVE  file \in [Pages -> Content] /\ loose = {}
BY DEF JournalInv, JournalTypeOK, JournalFits, Content

\* p goes on with its locks, without a write transaction, before and after.
LEMMA GoStep ==
    ASSUME JournalInv, Next, NEW p \in Procs, NEW s \in Probing \cup {"reader"},
           st[p] \in Probing, Go(p, s), UNCHANGED <<db, jrnl>>,
           s = "reader" => counted = {}
    PROVE  JournalInv'
<1>1. Local(p)'
  BY DEF JournalInv, JournalTypeOK, LockFits, Go, Local, Calm, DraftFits, WriterFits,
         Drafting, Writing, Probing, db, jrnl
<1>2. st' \in [Procs -> States]
  BY DEF JournalInv, JournalTypeOK, Go, States, Probing
<1>3. \A q \in Procs \ {p} : Rests(q)
  BY DEF JournalInv, JournalTypeOK, Go, Rests
<1>4. QED
  BY <1>1, <1>2, <1>3, QuietStep, LocksStep, InvHasLocks
  DEF LocksInv, JournalInv, JournalTypeOK, Go

\* p gives up its write transaction and perhaps its locks.
LEMMA LeaveStep ==
    ASSUME JournalInv, Next, NEW p \in Procs, NEW s \in {"open", "shared", "reader", "error"},
           NEW l \in Locks, Leave(p, s, l), UNCHANGED <<db, jrnl>>,
           s = "reader" \/ l \in {"reserved", "pending"} => counted = {}
    PROVE  JournalInv'
<1>1. Local(p)'
  BY DEF JournalInv, JournalTypeOK, Leave, Local, Calm, DraftFits, WriterFits,
         Drafting, Writing, db, jrnl
<1>2. /\ st' \in [Procs -> States] /\ lock' \in [Procs -> Locks]
      /\ cache' \in [Procs -> [Pages -> Content] \cup {NoCache}]
      /\ dirty' \in [Procs -> SUBSET Pages]
  BY DEF JournalInv, JournalTypeOK, Leave, States, Probing
<1>3. \A q \in Procs \ {p} : Rests(q)
  BY DEF JournalInv, JournalTypeOK, Leave, Rests
<1>4. QED
  BY <1>1, <1>2, <1>3, QuietStep, LocksStep, InvHasLocks DEF LocksInv

\* sqlite3PagerSharedLock, up to the decision that a journal is hot.
LEMMA ProbingStep ==
    ASSUME JournalInv, Next, NEW p \in Procs,
           \/ GetShared(p) \/ AccessJournal(p) \/ CheckReservedLock(p)
           \/ ReadFirstByte(p) \/ LockHotBusy(p)
    PROVE  JournalInv'
<1>1. CASE GetShared(p)
  BY <1>1, LeaveStep DEF GetShared, Locks
<1>2. CASE AccessJournal(p)
  <2>1. ~exists => counted = {}
    BY DEF JournalInv, JournalFits, JournalTypeOK, NoRecs
  <2>2. QED
    BY <1>2, <2>1, GoStep DEF AccessJournal, Probing
<1>3. CASE CheckReservedLock(p)
  <2>1. lock[p] # "none"
    BY <1>3 DEF JournalInv, LockFits, CheckReservedLock
  <2>2. QED
    BY <1>3, <2>1, ReservedCalm, GoStep DEF CheckReservedLock, Probing
<1>4. CASE ReadFirstByte(p)
  BY <1>4, GoStep DEF ReadFirstByte, Probing
<1>5. CASE LockHotBusy(p)
  BY <1>5, LeaveStep DEF LockHotBusy, Locks
<1>6. QED
  BY <1>1, <1>2, <1>3, <1>4, <1>5

\* The end of a transaction without the end of its journal.
LEMMA LeavingStep ==
    ASSUME JournalInv, Next, NEW p \in Procs,
           \/ Unlock(p) \/ EndTransactionFails(p) \/ EndUnmodified(p)
           \/ IoError(p) \/ Crash(p)
    PROVE  JournalInv'
<1>1. CASE Unlock(p) \/ Crash(p)
  BY <1>1, LeaveStep DEF Unlock, Crash, Locks
<1>2. CASE EndTransactionFails(p)
  BY <1>2, LeaveStep DEF EndTransactionFails, Locks
<1>3. CASE EndUnmodified(p)
  BY <1>3, LeaveStep DEF EndUnmodified, Locks, JournalInv, Calm
<1>4. CASE IoError(p)
  BY <1>4, LeaveStep DEF IoError, JournalInv, JournalTypeOK, Calm
<1>5. QED
  BY <1>1, <1>2, <1>3, <1>4

\* A write transaction begins with the committed pages.
LEMMA BeginStep ==
    ASSUME JournalInv, Next, NEW p \in Procs, Begin(p) PROVE JournalInv'
<1>1. counted = {} /\ safe = {} /\ dirty[p] = {}
  BY DEF Begin, JournalInv, JournalTypeOK, Calm, WriterFits
<1>2. file \in [Pages -> Content]
  BY <1>1, CleanFile
<1>3. Local(p)'
  BY <1>1, <1>2
  DEF Begin, JournalInv, JournalTypeOK, Local, Calm, DraftFits, WriterFits,
      Drafting, Writing, db, jrnl
<1>4. /\ st' \in [Procs -> States] /\ lock' \in [Procs -> Locks]
      /\ cache' \in [Procs -> [Pages -> Content] \cup {NoCache}]
      /\ dirty' \in [Procs -> SUBSET Pages]
  BY <1>2 DEF Begin, JournalInv, JournalTypeOK, States, Locks
<1>5. \A q \in Procs \ {p} : Rests(q)
  BY DEF Begin, JournalInv, JournalTypeOK, Rests
<1>6. QED
  BY <1>3, <1>4, <1>5, QuietStep, LocksStep, InvHasLocks DEF LocksInv, Begin

\* A lock that grows disturbs nobody whose lock goes with it.
LEMMA ExclusiveLockStep ==
    ASSUME JournalInv, Next, NEW p \in Procs, ExclusiveLock(p) PROVE JournalInv'
<1>1. Local(p)'
  BY DEF ExclusiveLock, JournalInv, JournalTypeOK, Local, Calm, DraftFits, WriterFits,
         db, jrnl
<1>2. lock' \in [Procs -> Locks]
  BY DEF ExclusiveLock, JournalInv, JournalTypeOK, Locks
<1>3. \A q \in Procs \ {p} : Rests(q)
  BY DEF ExclusiveLock, JournalInv, JournalTypeOK, Rests
<1>4. QED
  BY <1>1, <1>2, <1>3, QuietStep, LocksStep, InvHasLocks
  DEF LocksInv, ExclusiveLock, JournalInv, JournalTypeOK

\* A rollback starts from the synced records: no other page was changed.
LEMMA UndoLocal ==
    ASSUME JournalInv, NEW p \in Procs, st[p] \in Writing, Undo(p),
           UNCHANGED <<recs, counted, safe>>,
           \A pg \in Pages \ safe : file'[pg] = file[pg]
    PROVE  Local(p)'
BY DEF Undo, JournalInv, JournalTypeOK, JournalFits, Local, Calm, LockFits, DraftFits,
       WriterFits, Drafting, Writing

\* A rollback that begins keeps the types and disturbs no other process.
LEMMA UndoTypes ==
    ASSUME JournalInv, NEW p \in Procs, Undo(p)
    PROVE  /\ st' \in [Procs -> States] /\ lock' \in [Procs -> Locks]
           /\ cache' \in [Procs -> [Pages -> Content] \cup {NoCache}]
           /\ dirty' \in [Procs -> SUBSET Pages]
           /\ \A q \in Procs \ {p} : Rests(q)
<1>1. safe \subseteq Pages
  BY RecordsType DEF JournalInv, JournalTypeOK
<1>2. QED
  BY <1>1 DEF Undo, JournalInv, JournalTypeOK, States, Rests

\* The rollback of a process that still has its journal.
LEMMA RollbackStep ==
    ASSUME JournalInv, Next, NEW p \in Procs, Rollback(p) PROVE JournalInv'
<1>1. Local(p)'
  BY UndoLocal DEF Rollback, db, jrnl
<1>2. QED
  BY <1>1, UndoTypes, QuietStep, LocksStep, InvHasLocks DEF LocksInv, Rollback

-----------------------------------------------------------------------------
(* Steps that change the file or the journal                               *)

\* p works on the file or the journal, and nobody else holds RESERVED or more.
LEMMA JournalStep ==
    ASSUME JournalInv, Next, NEW p \in Procs, JournalTypeOK', JournalFits', Local(p)',
           \A q \in Procs \ {p} :
               /\ Rests(q)
               /\ lock[q] \notin Reserving
               /\ counted' \subseteq counted \/ st[q] # "reader"
    PROVE  JournalInv'
<1>1. \A q \in Procs : Local(q)'
  BY BystanderLocal DEF JournalInv, Local
<1>2. QED
  BY <1>1, LocksStep, InvHasLocks DEF JournalInv, LocksInv, Local

\* Who else is there while p has the journal.
LEMMA Alone ==
    ASSUME JournalInv, NEW p \in Procs, NEW q \in Procs \ {p}
    PROVE  /\ lock[p] \in Reserving => lock[q] \notin Reserving
           /\ lock[p] = "exclusive" => st[q] = "open"
BY DEF JournalInv, Exclusion, LockFits

\* The journal of an empty file restores an empty file.
LEMMA DeleteObsoleteStep ==
    ASSUME JournalInv, Next, NEW p \in Procs, DeleteObsolete(p) PROVE JournalInv'
<1>1. CASE ~Unreserved(p)
  <2>1. lock[p] # "none"
    BY DEF JournalInv, LockFits, DeleteObsolete
  <2>2. QED
    BY <1>1, <2>1, ReservedCalm, GoStep DEF DeleteObsolete, Probing
<1>2. CASE Unreserved(p)
  <2>1. JournalTypeOK'
    BY <1>2, RecordsType
    DEF DeleteObsolete, Go, JournalInv, JournalTypeOK, NoRecs, States
  <2>2. JournalFits'
    BY <1>2, JournalAssumption DEF DeleteObsolete, JournalFits, NoRecs, EmptyFile
  <2>3. Local(p)'
    BY <1>2
    DEF DeleteObsolete, Go, JournalInv, JournalTypeOK, LockFits, Local, Calm, DraftFits,
        WriterFits, Drafting, Writing
  <2>4. \A q \in Procs \ {p} : Rests(q) /\ lock[q] \notin Reserving
    BY <1>2 DEF DeleteObsolete, Go, JournalInv, JournalTypeOK, Rests, Unreserved
  <2>5. QED
    BY <1>2, <2>1, <2>2, <2>3, <2>4, JournalStep DEF DeleteObsolete
<1>3. QED
  BY <1>1, <1>2

\* The rollback of a journal that another process left.
LEMMA LockHotStep ==
    ASSUME JournalInv, Next, NEW p \in Procs, LockHot(p) PROVE JournalInv'
<1>1. CASE ~exists
  <2>1. counted = {}
    BY <1>1 DEF JournalInv, JournalFits, JournalTypeOK, NoRecs
  <2>2. QED
    BY <1>1, <2>1, GoStep DEF LockHot, Probing
<1>2. CASE exists
  <2>1. JournalTypeOK'
    BY <1>2, RecordsType
    DEF LockHot, JournalInv, JournalTypeOK, States, Locks, db
  <2>2. JournalFits'
    BY <1>2 DEF LockHot, JournalInv, JournalFits, JournalTypeOK, db
  <2>3. Local(p)'
    BY <1>2
    DEF LockHot, JournalInv, JournalTypeOK, LockFits, Local, Calm, DraftFits,
        WriterFits, Drafting, Writing, db
  <2>4. \A q \in Procs \ {p} : Rests(q) /\ lock[q] = "none"
    BY <1>2 DEF LockHot, JournalInv, JournalTypeOK, Rests, MayExclude
  <2>5. QED
    BY <1>2, <2>1, <2>2, <2>3, <2>4, JournalStep DEF LockHot, Reserving
<1>3. QED
  BY <1>1, <1>2

\* What pager_write puts in the journal is the page as it is in the file.
LEMMA WriteRecords ==
    ASSUME JournalInv, NEW p \in Procs, NEW pg \in Pages, NEW v \in Values,
           Write(p, pg, v)
    PROVE  /\ Journaled(p) \in [DOMAIN Journaled(p) -> Content]
           /\ DOMAIN Journaled(p) \subseteq Pages
           /\ DOMAIN recs' = {pg} \cup DOMAIN Journaled(p)
           /\ \A q \in DOMAIN Journaled(p) : recs'[q] = recs[q]
           /\ pg \notin DOMAIN Journaled(p) =>
                recs'[pg] = cache[p][pg] /\ cache[p][pg] = file[pg]
           /\ cache[p] \in [Pages -> Content]
           /\ dirty[p] \subseteq DOMAIN Journaled(p)
<1>1. st[p] = "locked" \/ st[p] \in Writing
  BY DEF Write, Writing
<1>2. cache[p] \in [Pages -> Content]
  BY <1>1 DEF JournalInv, DraftFits, Drafting
<1>3. /\ DOMAIN Journaled(p) \subseteq Pages
      /\ Journaled(p) \in [DOMAIN Journaled(p) -> Content]
      /\ st[p] # "locked" => Journaled(p) = recs
  BY RecordsType DEF JournalInv, JournalTypeOK, Journaled, NoRecs
<1>4. dirty[p] \subseteq DOMAIN Journaled(p)
  BY <1>1, <1>3 DEF JournalInv, WriterFits, Writing
<1>5. pg \notin DOMAIN Journaled(p) => cache[p][pg] = file[pg]
  BY <1>1, <1>4 DEF JournalInv, DraftFits, Drafting
<1>6. QED
  BY <1>2, <1>3, <1>4, <1>5 DEF Write

\* A page is journaled before it is changed.
LEMMA WriteStep ==
    ASSUME JournalInv, Next, NEW p \in Procs, NEW pg \in Pages, NEW v \in Values,
           Write(p, pg, v)
    PROVE  JournalInv'
<1> DEFINE old == Journaled(p)
<1>1. /\ old \in [DOMAIN old -> Content] /\ DOMAIN old \subseteq Pages
      /\ DOMAIN recs' = {pg} \cup DOMAIN old
      /\ \A q \in DOMAIN old : recs'[q] = recs[q]
      /\ pg \notin DOMAIN old => recs'[pg] = cache[p][pg] /\ cache[p][pg] = file[pg]
      /\ cache[p] \in [Pages -> Content]
      /\ dirty[p] \subseteq DOMAIN old
  BY WriteRecords
<1>2. IF st[p] = "locked" THEN old = NoRecs /\ DOMAIN old = {} ELSE old = recs
  BY DEF Journaled, NoRecs
<1>3. st[p] \in {"locked", "cachemod", "dbmod"} /\ lock[p] \in Reserving
  BY DEF Write, JournalInv, LockFits, Reserving
<1>4. counted' \in {{}, counted, counted \cup {pg}} /\ safe' \in {{}, safe, safe \cup {pg}}
  BY DEF Write
<1>5. JournalTypeOK'
  <2>1. recs' \in [DOMAIN recs' -> Content] /\ DOMAIN recs' \subseteq Pages
    <3>1. \A q \in DOMAIN recs' : recs'[q] \in Content
      BY <1>1, <1>2
    <3>2. recs' = [q \in DOMAIN recs' |-> recs'[q]]
      BY DEF Write
    <3>3. QED
      BY <1>1, <3>1, <3>2
  <2>2. recs' \in UNION {[S -> Content] : S \in SUBSET Pages}
    BY <2>1, RecordsType
  <2>3. counted' \subseteq DOMAIN recs' /\ safe' \subseteq counted'
    BY <1>1, <1>2 DEF Write, JournalInv, JournalTypeOK
  <2>4. st' \in [Procs -> States]
    BY <1>3 DEF Write, JournalInv, JournalTypeOK, States, Writing
  <2>5. cache' \in [Procs -> [Pages -> Content] \cup {NoCache}]
    BY <1>1 DEF Write, JournalInv, JournalTypeOK, Content
  <2>6. dirty' \in [Procs -> SUBSET Pages]
    BY DEF Write, JournalInv, JournalTypeOK
  <2>7. QED
    BY <2>2, <2>3, <2>4, <2>5, <2>6 DEF Write, JournalInv, JournalTypeOK, db
<1>6. JournalFits'
  <2>1. CASE st[p] = "locked"
    <3>1. counted = {} /\ safe = {} /\ loose = {}
      BY <2>1 DEF JournalInv, Calm, JournalTypeOK, JournalFits
    <3>2. QED
      BY <1>1, <1>2, <2>1, <3>1 DEF Write, JournalInv, JournalFits, db
  <2>2. CASE st[p] # "locked"
    <3>1. \A q \in DOMAIN recs' \ safe' : file[q] = recs'[q]
      BY <1>1, <1>2, <2>2 DEF Write, JournalInv, JournalFits
    <3>2. safe \subseteq safe'
      BY <2>2 DEF Write
    <3>3. safe' = {} \/ ghost = NoRecs
      BY <1>3, <2>2 DEF Write, JournalInv, JournalFits, WriterFits
    <3>4. \A q \in DOMAIN recs' : file[q] = Absent => recs'[q] = Absent
      BY <1>1, <1>2, <2>2 DEF JournalInv, JournalFits
    <3>5. QED
      BY <3>1, <3>2, <3>3, <3>4 DEF Write, JournalInv, JournalFits, db
  <2>3. QED
    BY <2>1, <2>2
<1>7. Local(p)'
  <2>1. st'[p] = IF st[p] = "locked" THEN "cachemod" ELSE st[p]
    BY DEF Write, JournalInv, JournalTypeOK
  <2>2. dirty'[p] = dirty[p] \cup {pg} /\ cache'[p] = [cache[p] EXCEPT ![pg] = v]
    BY DEF Write, JournalInv, JournalTypeOK
  <2>3. Calm(p)'
    BY <1>3, <2>1 DEF Write, JournalInv, Calm, LockFits
  <2>4. DraftFits(p)'
    BY <1>1, <1>3, <2>1, <2>2, JournalAssumption
    DEF Write, JournalInv, DraftFits, Drafting, Writing, Content, db
  <2>5. WriterFits(p)'
    BY <1>1, <1>2, <1>3, <2>1, <2>2 DEF Write, JournalInv, WriterFits
  <2>6. QED
    BY <2>3, <2>4, <2>5 DEF Local
<1>8. \A q \in Procs \ {p} : /\ Rests(q) /\ lock[q] \notin Reserving
                             /\ counted' \subseteq counted \/ st[q] # "reader"
  <2>1. ASSUME NEW q \in Procs \ {p}
        PROVE  counted' \subseteq counted \/ st[q] # "reader"
    <3>1. CASE st[p] = "dbmod"
      BY <3>1, Alone DEF JournalInv, LockFits
    <3>2. CASE st[p] # "dbmod"
      BY <3>2 DEF Write
    <3>3. QED BY <3>1, <3>2
  <2>2. QED
    BY <1>3, <2>1, Alone DEF Write, JournalInv, JournalTypeOK, Rests
<1>9. QED
  BY <1>5, <1>6, <1>7, <1>8, JournalStep

\* A header that counts all records counts nothing that is not written.
LEMMA WriteHeaderStep ==
    ASSUME JournalInv, Next, NEW p \in Procs, WriteHeader(p) PROVE JournalInv'
<1>1. JournalTypeOK'
  BY DEF WriteHeader, JournalInv, JournalTypeOK, States, Writing, db
<1>2. JournalFits'
  BY DEF WriteHeader, JournalInv, JournalFits, db
<1>3. Local(p)'
  BY DEF WriteHeader, JournalInv, JournalTypeOK, Local, Calm, LockFits, DraftFits,
         WriterFits, Drafting, Writing, db
<1>4. \A q \in Procs \ {p} : Rests(q)
  BY DEF WriteHeader, JournalInv, JournalTypeOK, Rests
<1>5. QED
  BY <1>1, <1>2, <1>3, <1>4, Alone, JournalStep DEF WriteHeader, Reserving

\* A synced journal makes an older one obsolete.
LEMMA SyncJournalStep ==
    ASSUME JournalInv, Next, NEW p \in Procs, SyncJournal(p) PROVE JournalInv'
<1>1. JournalTypeOK'
  BY RecordsType
  DEF SyncJournal, JournalInv, JournalTypeOK, States, Writing, db, NoRecs
<1>2. JournalFits'
  BY DEF SyncJournal, JournalInv, JournalTypeOK, JournalFits, db, NoRecs
<1>3. Local(p)'
  BY DEF SyncJournal, JournalInv, JournalTypeOK, Local, Calm, LockFits, DraftFits,
         WriterFits, Drafting, Writing, db
<1>4. \A q \in Procs \ {p} : Rests(q) /\ lock[q] \notin Reserving
  BY Alone DEF SyncJournal, JournalInv, JournalTypeOK, Rests, LockFits, Reserving
<1>5. QED
  BY <1>1, <1>2, <1>3, <1>4, JournalStep DEF SyncJournal

\* A synced file is the draft, or is restored, on the disk as well.
LEMMA SyncFileStep ==
    ASSUME JournalInv, Next, NEW p \in Procs, SyncFile(p) PROVE JournalInv'
<1>1. JournalTypeOK'
  BY DEF SyncFile, Go, JournalInv, JournalTypeOK, States, Writing, jrnl
<1>2. JournalFits'
  BY DEF SyncFile, JournalInv, JournalFits, jrnl
<1>3. Local(p)'
  BY DEF SyncFile, Go, JournalInv, JournalTypeOK, Local, Calm, LockFits, DraftFits,
         WriterFits, Drafting, Writing, jrnl
<1>4. \A q \in Procs \ {p} : Rests(q) /\ lock[q] \notin Reserving
  BY Alone DEF SyncFile, Go, JournalInv, JournalTypeOK, Rests, LockFits, Reserving
<1>5. QED
  BY <1>1, <1>2, <1>3, <1>4, JournalStep DEF SyncFile, jrnl

\* When the journal is deleted the file is whole, synced, and what the journal
\* or the write transaction says.
LEMMA EndFacts ==
    ASSUME JournalInv, NEW p \in Procs, st[p] \in {"finished", "synced"}
    PROVE  /\ file \in [Pages -> Content] /\ loose = {} /\ lock[p] \in Reserving
           /\ st[p] = "finished" => file = cache[p] /\ safe = DOMAIN recs /\ safe # {}
           /\ st[p] = "synced" => \A pg \in counted : file[pg] = recs[pg]
<1>1. loose = {} /\ dirty[p] = {} /\ lock[p] \in Reserving
  BY DEF JournalInv, WriterFits, LockFits, Reserving
<1>2. CASE st[p] = "finished"
  <2>1. cache[p] \in [Pages -> Content] /\ \A pg \in Pages : file[pg] = cache[p][pg]
    BY <1>1, <1>2 DEF JournalInv, DraftFits, Drafting, Writing
  <2>2. file \in [Pages -> Content] /\ file = cache[p]
    BY <2>1 DEF JournalInv, JournalTypeOK
  <2>3. QED
    BY <1>1, <1>2, <2>2 DEF JournalInv, WriterFits, Writing
<1>3. CASE st[p] = "synced"
  <2>1. \A pg \in counted : file[pg] = recs[pg]
    BY <1>1, <1>3 DEF JournalInv, WriterFits
  <2>2. \A pg \in counted : recs[pg] \in Content
    BY RecordsType DEF JournalInv, JournalTypeOK
  <2>3. \A pg \in Pages : file[pg] # Torn
    BY <2>1, <2>2, JournalAssumption DEF JournalInv, JournalTypeOK, JournalFits, Content
  <2>4. QED
    BY <1>1, <1>3, <2>1, <2>3 DEF JournalInv, JournalTypeOK
<1>4. QED
  BY <1>2, <1>3

\* Nothing is lost with a journal that has done its work.
LEMMA EndTransactionStep ==
    ASSUME JournalInv, Next, NEW p \in Procs, EndTransaction(p) PROVE JournalInv'
<1>1. file \in [Pages -> Content] /\ loose = {} /\ lock[p] \in Reserving
  BY EndFacts DEF EndTransaction
<1>2. DOMAIN recs \subseteq Pages /\ recs \in [DOMAIN recs -> Content]
      /\ safe \subseteq DOMAIN recs
  BY RecordsType DEF JournalInv, JournalTypeOK
<1>3. JournalTypeOK'
  <2>1. Restrict(recs, safe) \in [safe -> Content] /\ safe \in SUBSET Pages
    BY <1>2 DEF Restrict
  <2>2. Restrict(recs, safe) \in UNION {[S -> Content] : S \in SUBSET Pages}
    BY <2>1
  <2>3. NoRecs \in UNION {[S -> Content] : S \in SUBSET Pages}
    BY RecordsType DEF NoRecs
  <2>4. QED
    BY <2>2, <2>3
    DEF EndTransaction, Leave, DeleteJournal, JournalInv, JournalTypeOK, States, Locks, db
<1>4. JournalFits'
  BY <1>1, <1>2, JournalAssumption
  DEF EndTransaction, DeleteJournal, JournalInv, JournalTypeOK, JournalFits, NoRecs, Restrict,
      Content, db
<1>5. Local(p)'
  BY DEF EndTransaction, Leave, DeleteJournal, JournalInv, JournalTypeOK, Local, Calm,
         DraftFits, WriterFits, Drafting, Writing
<1>6. \A q \in Procs \ {p} : Rests(q) /\ lock[q] \notin Reserving
  BY <1>1, Alone DEF EndTransaction, Leave, JournalInv, JournalTypeOK, Rests
<1>7. QED
  BY <1>3, <1>4, <1>5, <1>6, JournalStep DEF EndTransaction, DeleteJournal

\* The pages that p may write have synced records, or are written to hold what
\* they hold already.
LEMMA MayWriteFacts ==
    ASSUME JournalInv, NEW p \in Procs, NEW pg \in Pages, MayWrite(p, pg)
    PROVE  /\ st[p] \in {"dbmod", "playback"} /\ lock[p] \in Reserving
           /\ pg \in DOMAIN recs
           /\ NewPage(p, pg) \in Content
           /\ file[pg] # NewPage(p, pg) => pg \in safe
           /\ NewPage(p, pg) = Absent => recs[pg] = Absent
<1>1. st[p] \in {"dbmod", "playback"} /\ lock[p] \in Reserving
  BY DEF MayWrite, JournalInv, LockFits, Reserving
<1>2. pg \in counted /\ pg \in DOMAIN recs /\ recs[pg] \in Content
  BY <1>1, RecordsType DEF MayWrite, JournalInv, JournalTypeOK, WriterFits
<1>3. CASE st[p] = "dbmod"
  <2>1. cache[p] \in [Pages -> Content] /\ cache[p][pg] # Absent
    BY <1>3 DEF MayWrite, JournalInv, DraftFits, Drafting, Writing
  <2>2. QED
    BY <1>1, <1>2, <1>3, <2>1 DEF MayWrite, NewPage
<1>4. CASE st[p] = "playback"
  <2>1. file[pg] # recs[pg] => pg \in safe
    BY <1>2 DEF JournalInv, JournalFits
  <2>2. QED
    BY <1>1, <1>2, <1>4, <2>1 DEF NewPage
<1>5. QED
  BY <1>1, <1>3, <1>4

\* A page goes to the file, or half of it.
LEMMA PutFits ==
    ASSUME JournalInv, UNCHANGED jrnl, NEW pg \in safe, NEW v \in Content \cup {Torn},
           v = Absent => recs[pg] = Absent, Put(pg, v)
    PROVE  /\ JournalFits'
           /\ file' \in [Pages -> Content \cup {Torn}] /\ loose' \subseteq Pages
           /\ \A q \in Pages \ {pg} : file'[q] = file[q]
<1>1. pg \in Pages /\ pg \in DOMAIN recs /\ ghost = NoRecs
  BY RecordsType DEF JournalInv, JournalTypeOK, JournalFits
<1>2. file' = [file EXCEPT ![pg] = v] /\ loose' = loose \cup {pg}
  BY DEF Put
<1>3. JournalFits'
  BY <1>1, <1>2 DEF JournalInv, JournalTypeOK, JournalFits, jrnl, NoRecs
<1>4. QED
  BY <1>1, <1>2, <1>3 DEF JournalInv, JournalTypeOK

\* A page is written in full.
LEMMA WritePageStep ==
    ASSUME JournalInv, Next, NEW p \in Procs, NEW pg \in Pages, WritePage(p, pg)
    PROVE  JournalInv'
<1>1. /\ st[p] \in {"dbmod", "playback"} /\ lock[p] \in Reserving
      /\ NewPage(p, pg) \in Content
      /\ file[pg] # NewPage(p, pg) => pg \in safe
      /\ NewPage(p, pg) = Absent => recs[pg] = Absent
  BY MayWriteFacts DEF WritePage
<1>2. /\ JournalFits'
      /\ file' \in [Pages -> Content \cup {Torn}] /\ loose' \subseteq Pages
      /\ file'[pg] = NewPage(p, pg)
      /\ \A q \in Pages \ {pg} : file'[q] = file[q]
  <2>1. CASE file[pg] = NewPage(p, pg)
    BY <2>1 DEF WritePage, JournalInv, JournalTypeOK, JournalFits, db, jrnl
  <2>2. CASE file[pg] # NewPage(p, pg)
    <3>1. file'[pg] = NewPage(p, pg)
      BY <2>2 DEF WritePage, Put, JournalInv, JournalTypeOK
    <3>2. QED
      BY <1>1, <2>2, <3>1, PutFits DEF WritePage
  <2>3. QED
    BY <2>1, <2>2
<1>3. JournalTypeOK'
  BY <1>2 DEF WritePage, JournalInv, JournalTypeOK, jrnl
<1>4. Local(p)'
  <2>1. dirty'[p] = dirty[p] \ {pg}
    BY DEF WritePage, JournalInv, JournalTypeOK
  <2>2. DraftFits(p)'
    BY <1>1, <1>2, <2>1
    DEF WritePage, NewPage, JournalInv, DraftFits, Drafting, Writing
  <2>3. counted \subseteq Pages
    BY RecordsType DEF JournalInv, JournalTypeOK
  <2>4. WriterFits(p)'
    BY <1>1, <1>2, <2>1, <2>3
    DEF WritePage, NewPage, JournalInv, WriterFits, Writing, jrnl
  <2>5. Calm(p)'
    BY DEF WritePage, JournalInv, Calm, jrnl
  <2>6. QED
    BY <2>2, <2>4, <2>5 DEF Local
<1>5. \A q \in Procs \ {p} : Rests(q) /\ lock[q] \notin Reserving
  BY <1>1, Alone DEF WritePage, JournalInv, JournalTypeOK, Rests
<1>6. QED
  BY <1>2, <1>3, <1>4, <1>5, JournalStep DEF WritePage, jrnl

\* A page is written in part: its record is on the disk.
LEMMA WriteFailsStep ==
    ASSUME JournalInv, Next, NEW p \in Procs, NEW pg \in Pages, WriteFails(p, pg)
    PROVE  JournalInv'
<1>1. /\ st[p] \in {"dbmod", "playback"} /\ lock[p] \in Reserving
      /\ file[pg] # NewPage(p, pg) => pg \in safe
  BY MayWriteFacts DEF WriteFails
<1>2. /\ JournalFits'
      /\ file' \in [Pages -> Content \cup {Torn}] /\ loose' \subseteq Pages
      /\ \A q \in Pages \ safe : file'[q] = file[q]
  <2>1. CASE file[pg] = NewPage(p, pg)
    BY <2>1 DEF WriteFails, JournalInv, JournalTypeOK, JournalFits, db, jrnl
  <2>2. CASE file[pg] # NewPage(p, pg)
    BY <1>1, <2>2, PutFits, JournalAssumption DEF WriteFails
  <2>3. QED
    BY <2>1, <2>2
<1>3. /\ st' \in [Procs -> States] /\ lock' \in [Procs -> Locks]
      /\ cache' \in [Procs -> [Pages -> Content] \cup {NoCache}]
      /\ dirty' \in [Procs -> SUBSET Pages]
      /\ \A q \in Procs \ {p} : Rests(q)
  <2>1. CASE Leave(p, "error", lock[p])
    BY <2>1 DEF Leave, JournalInv, JournalTypeOK, States, Rests
  <2>2. CASE Undo(p)
    BY <2>2, UndoTypes
  <2>3. QED
    BY <2>1, <2>2 DEF WriteFails
<1>4. JournalTypeOK'
  BY <1>2, <1>3 DEF WriteFails, JournalInv, JournalTypeOK, jrnl
<1>5. Local(p)'
  <2>1. CASE Leave(p, "error", lock[p])
    BY <2>1
    DEF WriteFails, Leave, JournalInv, JournalTypeOK, Local, Calm, DraftFits, WriterFits,
        Drafting, Writing, jrnl
  <2>2. CASE st[p] = "dbmod" /\ Undo(p)
    BY <1>2, <2>2, UndoLocal DEF WriteFails, Writing, jrnl
  <2>3. QED
    BY <2>1, <2>2 DEF WriteFails
<1>6. QED
  BY <1>1, <1>2, <1>3, <1>4, <1>5, Alone, JournalStep DEF WriteFails, jrnl

\* What survives a power failure.
LEMMA PowerLossStep ==
    ASSUME JournalInv, Next, PowerLoss PROVE JournalInv'
<1>1. \A p \in Procs : Local(p)'
  BY DEF PowerLoss, Local, Calm, DraftFits, WriterFits, Drafting, Writing
<1>2. /\ DOMAIN recs \subseteq Pages /\ recs \in [DOMAIN recs -> Content]
      /\ DOMAIN ghost \subseteq Pages /\ ghost \in [DOMAIN ghost -> Content]
      /\ safe \subseteq counted /\ counted \subseteq DOMAIN recs
  BY RecordsType DEF JournalInv, JournalTypeOK
<1>3. /\ file' \in [Pages -> Content \cup {Torn}] /\ loose' = {} /\ ghost' = NoRecs
      /\ \A pg \in Pages \ loose : file'[pg] = file[pg]
      /\ \A pg \in loose : file'[pg] = Absent => pg \in DOMAIN recs /\ recs[pg] = Absent
  BY JournalAssumption DEF PowerLoss, Surviving, JournalInv, JournalTypeOK
<1> DEFINE Good == /\ recs' \in UNION {[S -> Content] : S \in SUBSET Pages}
                   /\ counted' = DOMAIN recs' /\ safe' = DOMAIN recs'
                   /\ exists' \in BOOLEAN /\ (exists' \/ recs' = NoRecs)
                   /\ \A pg \in Pages : file'[pg] = Torn => pg \in DOMAIN recs'
                   /\ \A pg \in DOMAIN recs' : file'[pg] = Absent => recs'[pg] = Absent
<1>4. ASSUME NEW S \in SUBSET counted, safe \subseteq S, exists, UNCHANGED exists,
             recs' = Restrict(recs, S), counted' = S, safe' = S
      PROVE  Good
  <2>1. recs' \in [S -> Content] /\ S \subseteq Pages
    BY <1>2, <1>4 DEF Restrict
  <2>2. \A pg \in Pages : file'[pg] = Torn => pg \in S
    BY <1>2, <1>3, <1>4 DEF JournalInv, JournalFits
  <2>3. \A pg \in S : file'[pg] = Absent => recs'[pg] = Absent
    BY <1>2, <1>3, <1>4 DEF JournalInv, JournalFits, Restrict
  <2>4. QED
    BY <1>4, <2>1, <2>2, <2>3
<1>5. ASSUME safe = {}, exists' = FALSE, recs' = NoRecs, counted' = {}, safe' = {}
      PROVE  Good
  <2>1. recs' \in UNION {[S -> Content] : S \in SUBSET Pages} /\ DOMAIN recs' = {}
    BY <1>5, RecordsType DEF NoRecs
  <2>2. \A pg \in Pages : file'[pg] # Torn
    BY <1>3, <1>5 DEF JournalInv, JournalFits
  <2>3. QED
    BY <1>5, <2>1, <2>2
<1>6. ASSUME ghost # NoRecs, exists' = TRUE, recs' = ghost, counted' = DOMAIN ghost,
             safe' = DOMAIN ghost
      PROVE  Good
  <2>1. safe = {} /\ \A pg \in Pages : file'[pg] = file[pg]
    BY <1>3, <1>6 DEF JournalInv, JournalFits
  <2>2. \A pg \in Pages : file'[pg] # Torn
    BY <2>1 DEF JournalInv, JournalFits
  <2>3. QED
    BY <1>2, <1>6, <2>1, <2>2 DEF JournalInv, JournalTypeOK, JournalFits
<1>7. Good
  BY <1>4, <1>5, <1>6 DEF PowerLoss
<1>8. JournalTypeOK'
  <2>1. NoRecs \in UNION {[S -> Content] : S \in SUBSET Pages}
    BY RecordsType DEF NoRecs
  <2>2. QED
    BY <1>3, <1>7, <2>1 DEF PowerLoss, JournalTypeOK, States, Locks
<1>9. JournalFits'
  BY <1>3, <1>7 DEF JournalFits, NoRecs
<1>10. QED
  BY <1>1, <1>8, <1>9, LocksStep, InvHasLocks DEF JournalInv, LocksInv, Local

-----------------------------------------------------------------------------
(* Safety                                                                  *)

\* The invariant holds at the start, with an empty file.
LEMMA InvInit == Init => JournalInv
<1> SUFFICES ASSUME Init PROVE JournalInv
  OBVIOUS
<1>1. NoRecs \in UNION {[S -> Content] : S \in SUBSET Pages} /\ DOMAIN NoRecs = {}
  BY RecordsType DEF NoRecs
<1>2. JournalTypeOK
  BY <1>1 DEF Init, JournalTypeOK, States, Locks, Content
<1>3. Exclusion
  BY DEF Init, Exclusion, Reserving
<1>4. JournalFits
  BY <1>1, JournalAssumption DEF Init, JournalFits
<1>5. ASSUME NEW p \in Procs
      PROVE  LockFits(p) /\ Calm(p) /\ DraftFits(p) /\ WriterFits(p)
  BY DEF Init, LockFits, Calm, DraftFits, WriterFits, Probing, Drafting, Writing
<1>6. QED
  BY <1>2, <1>3, <1>4, <1>5 DEF JournalInv

\* Every step of a process and every failure keeps the invariant.
LEMMA InvStep == JournalInv /\ [Next]_vars => JournalInv'
<1> SUFFICES ASSUME JournalInv, [Next]_vars PROVE JournalInv'
  OBVIOUS
<1>1. CASE UNCHANGED vars
  BY <1>1
  DEF vars, JournalInv, JournalTypeOK, Exclusion, JournalFits, LockFits, Calm, DraftFits,
      WriterFits
<1>2. CASE Next
  <2>1. CASE PowerLoss
    BY <1>2, <2>1, PowerLossStep
  <2>2. ASSUME NEW p \in Procs, NEW pg \in Pages,
               \/ WritePage(p, pg) \/ WriteFails(p, pg)
               \/ \E v \in Values : Write(p, pg, v)
        PROVE  JournalInv'
    BY <1>2, <2>2, WritePageStep, WriteFailsStep, WriteStep
  <2>3. ASSUME NEW p \in Procs,
               \/ GetShared(p) \/ AccessJournal(p) \/ CheckReservedLock(p)
               \/ DeleteObsolete(p) \/ ReadFirstByte(p) \/ LockHot(p) \/ LockHotBusy(p)
        PROVE  JournalInv'
    BY <1>2, <2>3, ProbingStep, DeleteObsoleteStep, LockHotStep
  <2>4. ASSUME NEW p \in Procs,
               \/ Unlock(p) \/ EndTransactionFails(p) \/ EndUnmodified(p) \/ IoError(p)
               \/ Crash(p) \/ Rollback(p) \/ EndTransaction(p)
        PROVE  JournalInv'
    BY <1>2, <2>4, LeavingStep, RollbackStep, EndTransactionStep
  <2>5. ASSUME NEW p \in Procs,
               \/ Begin(p) \/ ExclusiveLock(p) \/ WriteHeader(p) \/ SyncJournal(p)
               \/ SyncFile(p)
        PROVE  JournalInv'
    BY <1>2, <2>5, BeginStep, ExclusiveLockStep, WriteHeaderStep, SyncJournalStep,
       SyncFileStep
  <2>6. QED
    BY <1>2, <2>1, <2>2, <2>3, <2>4, <2>5 DEF Next
<1>3. QED
  BY <1>1, <1>2

\* The invariant holds in every reachable state.
THEOREM InvHolds == JournalSpec => []JournalInv
BY InvInit, InvStep, PTL DEF JournalSpec

\* Pager states, locks, pages and records have their types: no header counts a
\* record that was not written, and no draft holds a torn page (writeJournalHdr,
\* sqlite3PagerBegin).
THEOREM JournalTypes == JournalSpec => []JournalTypeOK
<1>1. JournalInv => JournalTypeOK
  BY DEF JournalInv
<1>2. QED
  BY <1>1, InvHolds, PTL

\* A database without counted records is what recovery makes of it.
LEMMA RestoredIs ==
    ASSUME JournalInv
    PROVE  /\ Restored = [pg \in Pages |-> IF pg \in counted THEN recs[pg] ELSE file[pg]]
           /\ counted = {} => Restored = file
BY DEF JournalInv, JournalTypeOK, Restored, Restore, Restrict

\* The original of every page that is changed in the file is on the disk in the
\* journal before, whatever fails, so recovery never finds a torn page
\* (syncJournal, pager_write_pagelist).
THEOREM JournalFirst == JournalSpec => []WriteAhead
<1>1. ASSUME JournalInv PROVE WriteAhead
  <2>1. \A pg \in counted : recs[pg] # Torn
    BY <1>1, RecordsType, JournalAssumption DEF JournalInv, JournalTypeOK, Content
  <2>2. \A pg \in Pages : Restored[pg] # Torn
    BY <1>1, <2>1, RestoredIs DEF JournalInv, JournalTypeOK, JournalFits
  <2>3. QED
    BY <1>1, <2>2 DEF JournalInv, JournalFits, WriteAhead
<1>2. QED
  BY <1>1, InvHolds, PTL

\* What a reader or a new writer finds in the file is what recovery would make
\* of it, through every race for the locks of a hot journal (hasHotJournal).
THEOREM NobodyReadsHot == JournalSpec => []ReadersSeeCommitted
<1>1. ASSUME JournalInv PROVE ReadersSeeCommitted
  BY <1>1, RestoredIs DEF JournalInv, Calm, ReadersSeeCommitted
<1>2. QED
  BY <1>1, InvHolds, PTL

\* Only a process with the journal changes the file, and not beside a reader.
LEMMA ReadersKeepFile ==
    ASSUME JournalInv, Next, NEW p \in Procs, st[p] = "reader", st'[p] = "reader"
    PROVE  file' = file
<1>1. lock[p] # "none" /\ counted = {} /\ safe = {}
  BY DEF JournalInv, LockFits, Calm, JournalTypeOK
<1>2. ASSUME NEW q \in Procs, NEW pg \in Pages, WritePage(q, pg) \/ WriteFails(q, pg)
      PROVE  file' = file
  <2>1. MayWrite(q, pg)
    BY <1>2 DEF WritePage, WriteFails
  <2>2. file[pg] = NewPage(q, pg)
    BY <1>1, <2>1, MayWriteFacts
  <2>3. QED
    BY <1>2, <2>2 DEF WritePage, WriteFails, db
<1>3. ~PowerLoss
  BY DEF PowerLoss
<1>4. QED
  BY <1>2, <1>3
  DEF Next, GetShared, AccessJournal, CheckReservedLock, DeleteObsolete, ReadFirstByte,
      LockHot, LockHotBusy, Unlock, Begin, ExclusiveLock, WriteHeader, SyncJournal,
      SyncFile, EndTransaction, EndTransactionFails, EndUnmodified, Rollback, IoError,
      Crash, Write, db

\* The file does not change under a reader (winLock, pager_write_pagelist).
THEOREM ReadsRepeat == JournalSpec => RepeatableRead
<1>1. ASSUME JournalInv, [Next]_vars
      PROVE  [\A p \in Procs : st[p] = "reader" /\ st'[p] = "reader" => file' = file]_vars
  BY <1>1, ReadersKeepFile DEF vars
<1>2. QED
  BY <1>1, InvHolds, PTL DEF JournalSpec, RepeatableRead

-----------------------------------------------------------------------------
(* Refinement                                                              *)

\* What a power failure may bring back.
Previous == IF ghost = NoRecs THEN Restored ELSE Restore(ghost, file)

\* The pages that a set of records restores.
LEMMA RestoreRestrict ==
    ASSUME NEW r, NEW S, NEW f
    PROVE  Restore(Restrict(r, S), f) =
               [pg \in Pages |-> IF pg \in S THEN r[pg] ELSE f[pg]]
BY DEF Restore, Restrict

\* Neither the committed pages nor what a power failure may bring back change.
Same == Restored' = Restored /\ Previous' = Previous

\* Syncs and locks change no page.
LEMMA SameIfQuiet ==
    ASSUME UNCHANGED <<file, recs, counted, ghost>> PROVE Same
BY DEF Same, Restored, Previous

\* The file may change where a counted record stands for it, and the journal may
\* count a record of what the file holds.
LEMMA SameIfRestored ==
    ASSUME \A pg \in Pages :
               (IF pg \in counted' THEN recs'[pg] ELSE file'[pg]) =
               (IF pg \in counted THEN recs[pg] ELSE file[pg]),
           UNCHANGED ghost, ghost = NoRecs \/ UNCHANGED file
    PROVE  Same
<1>1. Restored' = Restored
  BY RestoreRestrict DEF Restored
<1>2. QED
  BY <1>1 DEF Same, Previous

\* The journal of an empty file, and a deleted one that may come back for it,
\* restore nothing but an empty file.
LEMMA DeleteObsoleteKeeps ==
    ASSUME JournalInv, NEW p \in Procs, DeleteObsolete(p) PROVE Same
<1>1. CASE ~Unreserved(p)
  BY <1>1, SameIfQuiet DEF DeleteObsolete, db, jrnl
<1>2. CASE Unreserved(p)
  <2>1. \A pg \in counted : recs[pg] = Absent
    BY DEF DeleteObsolete, EmptyFile, JournalInv, JournalTypeOK, JournalFits
  <2>2. Restored = [pg \in Pages |-> Absent]
    BY <2>1, RestoreRestrict DEF DeleteObsolete, EmptyFile, Restored
  <2>3. Previous = [pg \in Pages |-> Absent]
    BY <2>2 DEF DeleteObsolete, EmptyFile, JournalInv, JournalFits, Previous, Restore
  <2>4. Restored' = [pg \in Pages |-> Absent]
    BY <1>2, RestoreRestrict DEF DeleteObsolete, EmptyFile, Restored
  <2>5. Previous' = Restored'
    BY <1>2 DEF DeleteObsolete, Previous
  <2>6. QED
    BY <2>2, <2>3, <2>4, <2>5 DEF Same
<1>3. QED
  BY <1>1, <1>2

\* A page that is journaled changes in the draft alone.
LEMMA WriteKeeps ==
    ASSUME JournalInv, NEW p \in Procs, NEW pg \in Pages, NEW v \in Values,
           Write(p, pg, v)
    PROVE  Same /\ cache[p] # NoCache /\ cache' = [cache EXCEPT ![p][pg] = v]
<1>1. /\ \A q \in DOMAIN Journaled(p) : recs'[q] = recs[q]
      /\ pg \notin DOMAIN Journaled(p) => recs'[pg] = file[pg]
      /\ cache[p] # NoCache
  BY WriteRecords, JournalAssumption DEF Pages, Content
<1>2. CASE st[p] = "locked"
  <2>1. counted = {} /\ counted' = {}
    BY <1>2 DEF Write, JournalInv, Calm
  <2>2. QED
    BY <1>1, <2>1, SameIfRestored DEF Write, db
<1>3. CASE st[p] # "locked"
  <2>1. counted \subseteq DOMAIN Journaled(p) /\ counted' \in {counted, counted \cup {pg}}
    BY <1>3 DEF Write, Journaled, JournalInv, JournalTypeOK
  <2>2. counted' = counted \/ pg \notin DOMAIN recs
    BY <1>3 DEF Write
  <2>3. QED
    BY <1>1, <1>3, <2>1, <2>2, SameIfRestored DEF Write, Journaled, db
<1>4. QED
  BY <1>1, <1>2, <1>3 DEF Write

\* The records that a header begins to count are what the file holds.
LEMMA WriteHeaderKeeps ==
    ASSUME JournalInv, NEW p \in Procs, WriteHeader(p) PROVE Same
BY SameIfRestored DEF WriteHeader, JournalInv, JournalTypeOK, JournalFits, db

\* Pages change in the file only where a synced record stands for them.
LEMMA PageWriteKeeps ==
    ASSUME JournalInv, NEW p \in Procs, NEW pg \in Pages,
           WritePage(p, pg) \/ WriteFails(p, pg)
    PROVE  Same
<1>1. MayWrite(p, pg) /\ UNCHANGED jrnl
  BY DEF WritePage, WriteFails
<1>2. CASE file[pg] = NewPage(p, pg)
  BY <1>1, <1>2, SameIfQuiet DEF WritePage, WriteFails, db, jrnl
<1>3. CASE file[pg] # NewPage(p, pg)
  <2>1. pg \in safe
    BY <1>1, <1>3, MayWriteFacts
  <2>2. ghost = NoRecs /\ pg \in counted
    BY <2>1 DEF JournalInv, JournalTypeOK, JournalFits
  <2>3. \A q \in Pages \ {pg} : file'[q] = file[q]
    BY <1>3 DEF WritePage, WriteFails, Put, JournalInv, JournalTypeOK
  <2>4. QED
    BY <1>1, <2>2, <2>3, SameIfRestored DEF jrnl
<1>4. QED
  BY <1>2, <1>3

\* The commit point: what was the draft is the content, and what was the content
\* may come back.
LEMMA CommitPoint ==
    ASSUME JournalInv, NEW p \in Procs, EndTransaction(p), st[p] = "finished"
    PROVE  /\ cache[p] # NoCache
           /\ Restored' = cache[p] /\ Previous' = Restored
<1>1. file = cache[p] /\ safe = DOMAIN recs /\ safe # {} /\ counted = safe
      /\ file \in [Pages -> Content]
  BY EndFacts DEF EndTransaction, JournalInv, JournalTypeOK
<1>2. cache[p] # NoCache
  BY <1>1, JournalAssumption DEF Pages, Content
<1>3. Restored' = file
  BY <1>1, RestoreRestrict DEF EndTransaction, DeleteJournal, Restored, db
<1>4. ghost' = Restrict(recs, counted) /\ ghost' # NoRecs
  BY <1>1 DEF EndTransaction, DeleteJournal, Restrict, NoRecs
<1>5. Previous' = Restored
  BY <1>4 DEF EndTransaction, Previous, Restored, Restore, NoRecs, db
<1>6. QED
  BY <1>1, <1>2, <1>3, <1>5

\* The end of a rollback is none for the content.
LEMMA RollbackEnds ==
    ASSUME JournalInv, NEW p \in Procs, EndTransaction(p), st[p] = "synced"
    PROVE  Same
<1>1. file \in [Pages -> Content] /\ \A pg \in counted : file[pg] = recs[pg]
  BY EndFacts DEF EndTransaction
<1>2. Restored = file /\ Restored' = file
  BY <1>1, RestoreRestrict DEF EndTransaction, DeleteJournal, Restored, db
<1>3. CASE safe = {}
  BY <1>2, <1>3 DEF EndTransaction, DeleteJournal, Same, Previous, db
<1>4. CASE safe # {}
  <2>1. ghost = NoRecs /\ ghost' = Restrict(recs, safe) /\ safe \subseteq counted
    BY <1>4 DEF EndTransaction, DeleteJournal, JournalInv, JournalTypeOK, JournalFits
  <2>2. Restore(ghost', file') = file
    BY <1>1, <2>1, RestoreRestrict DEF EndTransaction, db
  <2>3. QED
    BY <1>2, <2>1, <2>2 DEF Same, Previous
<1>5. QED
  BY <1>3, <1>4

\* After a power failure the content is what it was, or what it was before the
\* last commit.
LEMMA PowerLossRestores ==
    ASSUME JournalInv, PowerLoss
    PROVE  Restored' \in {Restored, Previous} /\ Previous' = Restored'
<1>1. Previous' = Restored'
  BY DEF PowerLoss, Previous
<1>2. \A pg \in Pages \ safe : file'[pg] = file[pg]
  BY DEF PowerLoss, Surviving, JournalInv, JournalFits
<1>3. /\ safe \subseteq counted /\ counted \subseteq DOMAIN recs
      /\ \A pg \in counted \ safe : file[pg] = recs[pg]
  BY DEF JournalInv, JournalTypeOK, JournalFits
<1>4. ASSUME NEW S \in SUBSET counted, safe \subseteq S, recs' = Restrict(recs, S), counted' = S
      PROVE  Restored' = Restored
  <2>1. \A pg \in S : recs'[pg] = recs[pg]
    BY <1>4 DEF Restrict
  <2>2. \A pg \in Pages : (IF pg \in counted' THEN recs'[pg] ELSE file'[pg]) =
                          (IF pg \in counted THEN recs[pg] ELSE file[pg])
    BY <1>2, <1>3, <1>4, <2>1
  <2>3. QED
    BY <2>2, RestoreRestrict DEF Restored
<1>5. ASSUME safe = {}, counted' = {} PROVE Restored' = Restored
  BY <1>2, <1>3, <1>5, RestoreRestrict DEF Restored
<1>6. ASSUME ghost # NoRecs, recs' = ghost, counted' = DOMAIN ghost
      PROVE  Restored' = Previous
  <2>1. \A pg \in Pages : file'[pg] = file[pg]
    BY <1>2, <1>6 DEF JournalInv, JournalFits
  <2>2. Restored' = [pg \in Pages |-> IF pg \in DOMAIN ghost THEN ghost[pg] ELSE file'[pg]]
    BY <1>6, RestoreRestrict DEF Restored
  <2>3. Previous = [pg \in Pages |-> IF pg \in DOMAIN ghost THEN ghost[pg] ELSE file[pg]]
    BY <1>6 DEF Previous, Restore
  <2>4. QED
    BY <2>1, <2>2, <2>3
<1>7. QED
  BY <1>1, <1>4, <1>5, <1>6 DEF PowerLoss

\* At the start nothing is committed and nothing can be restored.
LEMMA AtomicInit == Init => Atomic!Init
BY RestoreRestrict DEF Init, Atomic!Init, Restored, NoRecs

\* Every step of the pagers is a step of the file or none.
LEMMA AtomicStep ==
    ASSUME JournalInv, Next PROVE [Atomic!Next]_Atomic!vars
<1> USE DEF Previous, Same
<1>1. ASSUME NEW p \in Procs, NEW s, NEW l, Leave(p, s, l), Same
      PROVE  Atomic!Discard(p)
  BY <1>1 DEF Leave, Atomic!Discard
<1>2. ASSUME NEW p \in Procs, Undo(p), Same PROVE Atomic!Discard(p)
  BY <1>2 DEF Undo, Atomic!Discard
<1>3. ASSUME UNCHANGED cache, Same PROVE UNCHANGED Atomic!vars
  BY <1>3 DEF Atomic!vars
<1>4. ASSUME NEW p \in Procs,
             \/ GetShared(p) \/ LockHotBusy(p) \/ Unlock(p) \/ EndTransactionFails(p)
             \/ EndUnmodified(p) \/ IoError(p) \/ Crash(p)
      PROVE  Atomic!Discard(p)
  <2>1. Same
    BY <1>4, SameIfQuiet
    DEF GetShared, LockHotBusy, Unlock, EndTransactionFails, EndUnmodified, IoError, Crash,
        db, jrnl
  <2>2. QED
    BY <1>1, <1>4, <2>1
    DEF GetShared, LockHotBusy, Unlock, EndTransactionFails, EndUnmodified, IoError, Crash
<1>5. ASSUME NEW p \in Procs, Rollback(p) PROVE Atomic!Discard(p)
  BY <1>2, <1>5, SameIfQuiet DEF Rollback, db, jrnl
<1>6. ASSUME NEW p \in Procs,
             \/ AccessJournal(p) \/ CheckReservedLock(p) \/ ReadFirstByte(p)
             \/ LockHot(p) \/ ExclusiveLock(p) \/ SyncFile(p)
      PROVE  UNCHANGED Atomic!vars
  <2>1. Same
    BY <1>6, SameIfQuiet
    DEF AccessJournal, CheckReservedLock, ReadFirstByte, LockHot, ExclusiveLock, SyncFile,
        db, jrnl
  <2>2. UNCHANGED cache
    BY <1>6
    DEF AccessJournal, CheckReservedLock, ReadFirstByte, LockHot, ExclusiveLock, SyncFile, Go
  <2>3. QED
    BY <1>3, <2>1, <2>2
<1>7. ASSUME NEW p \in Procs, DeleteObsolete(p) PROVE UNCHANGED Atomic!vars
  BY <1>3, <1>7, DeleteObsoleteKeeps DEF DeleteObsolete, Go
<1>8. ASSUME NEW p \in Procs, WriteHeader(p) PROVE UNCHANGED Atomic!vars
  BY <1>3, <1>8, WriteHeaderKeeps DEF WriteHeader
<1>9. ASSUME NEW p \in Procs, NEW pg \in Pages, WritePage(p, pg)
      PROVE  UNCHANGED Atomic!vars
  BY <1>3, <1>9, PageWriteKeeps DEF WritePage
<1>10. ASSUME NEW p \in Procs, NEW pg \in Pages, WriteFails(p, pg)
       PROVE  Atomic!Discard(p)
  BY <1>1, <1>2, <1>10, PageWriteKeeps DEF WriteFails
<1>11. ASSUME NEW p \in Procs, NEW pg \in Pages, NEW v \in Values, Write(p, pg, v)
       PROVE  Atomic!Edit(p, pg, v)
  BY <1>11, WriteKeeps DEF Atomic!Edit
<1>12. ASSUME NEW p \in Procs, Begin(p) PROVE Atomic!Begin(p)
  <2>1. \A q \in Procs : cache[q] = NoCache
    <3>1. \A q \in Procs : lock[q] \notin Reserving
      BY <1>12 DEF Begin, Unreserved, JournalInv, LockFits, Reserving
    <3>2. QED
      BY <3>1 DEF JournalInv, LockFits, DraftFits, Drafting, Writing, Reserving
  <2>2. file = Restored
    BY <1>12, RestoredIs DEF Begin, JournalInv, Calm
  <2>3. Same
    BY <1>12, SameIfQuiet DEF Begin, db, jrnl
  <2>4. QED
    BY <1>12, <2>1, <2>2, <2>3 DEF Begin, Atomic!Begin
<1>13. ASSUME NEW p \in Procs, SyncJournal(p) PROVE Atomic!Settle
  BY <1>13 DEF SyncJournal, Restored, Atomic!Settle, db
<1>14. ASSUME NEW p \in Procs, EndTransaction(p)
       PROVE  Atomic!Commit(p) \/ Atomic!Discard(p)
  <2>1. CASE st[p] = "finished"
    BY <1>14, <2>1, CommitPoint DEF EndTransaction, Leave, Atomic!Commit
  <2>2. CASE st[p] = "synced"
    BY <1>1, <1>14, <2>2, RollbackEnds DEF EndTransaction
  <2>3. QED
    BY <1>14, <2>1, <2>2 DEF EndTransaction
<1>15. ASSUME PowerLoss PROVE Atomic!PowerLoss
  BY <1>15, PowerLossRestores DEF PowerLoss, Atomic!PowerLoss
<1>16. QED
  BY <1>4, <1>5, <1>6, <1>7, <1>8, <1>9, <1>10, <1>11, <1>12, <1>13, <1>14, <1>15
  DEF Next, Atomic!Next

\* The pagers implement a file whose transactions are atomic: under every
\* interleaving, crash, I/O error and power failure the committed pages are those
\* of one last commit, and only a power failure may take back one, the last.
THEOREM Atomicity == JournalSpec => AtomicCommit
<1>1. JournalInv /\ [Next]_vars => [Atomic!Next]_Atomic!vars
  <2>1. UNCHANGED vars => UNCHANGED Atomic!vars
    BY DEF vars, Atomic!vars, Restored
  <2>2. QED
    BY <2>1, AtomicStep
<1>2. QED
  BY <1>1, AtomicInit, InvHolds, PTL DEF JournalSpec, AtomicCommit, Atomic!AtomicSpec

=============================================================================
