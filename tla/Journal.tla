------------------------------ MODULE Journal -------------------------------
(***************************************************************************)
(* The pagers of several processes on one database file with a rollback    *)
(* journal (journal_mode=DELETE, locking_mode=NORMAL, synchronous not      *)
(* OFF), down to single page writes, with process crashes, I/O errors and  *)
(* power failures between any two of them.  Connection takes a commit as   *)
(* one step; this module is why it may.                                    *)
(***************************************************************************)
EXTENDS Naturals, FiniteSets, Functions

CONSTANTS
    Procs,      \* the connections, one pager each
    NumPages,   \* bound: the number of pages the file may grow to
    Values,     \* what a page may hold
    Absent,     \* the page is beyond the end of the file
    Torn,       \* a page that was only partly written
    NoCache     \* the pager has no write transaction

ASSUME JournalAssumption ==
    /\ NumPages \in Nat
    /\ Absent \notin Values /\ Torn \notin Values /\ Absent # Torn
    /\ NoCache \notin [1..NumPages -> Values \cup {Absent}]

Pages   == 1..NumPages
Content == Values \cup {Absent}

VARIABLES
    st,         \* st[p]: Pager.eState, and where p is inside a call
    lock,       \* lock[p]: Pager.eLock
    cache,      \* cache[p]: the pages as the write transaction of p sees them
    dirty,      \* dirty[p]: the pages p still has to write to the file
    file,       \* the database file as the operating system shows it
    loose,      \* pages of it written since the last sync
    exists,     \* whether the journal file exists
    recs,       \* the original page of each journaled page number; Absent for
                \* an appended page, which the header's page count stands for
    counted,    \* the records that a written header counts (with its magic)
    safe,       \* those of them that are on the disk under the journal's name
    ghost       \* the records of a deleted journal whose deletion is not yet
                \* on the disk

jrnl == <<exists, recs, counted, safe, ghost>>
db   == <<file, loose>>
vars == <<st, lock, cache, dirty, file, loose, exists, recs, counted, safe, ghost>>

NoRecs    == [pg \in {} |-> Absent]
Locks     == {"none", "shared", "reserved", "pending", "exclusive"}
Reserving == {"reserved", "pending", "exclusive"}
Probing   == {"shared", "found", "unreserved", "hot"}
Writing   == {"cachemod", "syncing", "dbmod", "finished"}
States    == {"open", "reader", "locked", "playback", "synced", "error"}
                 \cup Probing \cup Writing

\* The database that r restores when it is rolled back over f.
Restore(r, f) == [pg \in Pages |-> IF pg \in DOMAIN r THEN r[pg] ELSE f[pg]]
\* What recovery makes of the file and the journal as they are now.
Restored == Restore(Restrict(recs, counted), file)

Init ==
    /\ st = [p \in Procs |-> "open"]
    /\ lock = [p \in Procs |-> "none"]
    /\ cache = [p \in Procs |-> NoCache]
    /\ dirty = [p \in Procs |-> {}]
    /\ file = [pg \in Pages |-> Absent]
    /\ loose = {}
    /\ exists = FALSE
    /\ recs = NoRecs
    /\ counted = {} /\ safe = {}
    /\ ghost = NoRecs

-----------------------------------------------------------------------------
(* winLock: which locks p can get, given what the other processes hold.    *)

MayShare(p)   == \A q \in Procs \ {p} : lock[q] \notin {"pending", "exclusive"}
Unreserved(p) == \A q \in Procs \ {p} : lock[q] \notin Reserving
\* Mutant: readers do not hold up EXCLUSIVE.
MayExcludeBug(p) == Unreserved(p)

MayExclude(p) == \A q \in Procs \ {p} : lock[q] = "none"

\* p goes to state s with lock l and without a write transaction.
Leave(p, s, l) ==
    /\ st' = [st EXCEPT ![p] = s]
    /\ lock' = [lock EXCEPT ![p] = l]
    /\ cache' = [cache EXCEPT ![p] = NoCache]
    /\ dirty' = [dirty EXCEPT ![p] = {}]

Go(p, s) == st' = [st EXCEPT ![p] = s] /\ UNCHANGED <<lock, cache, dirty>>

(***************************************************************************)
(* sqlite3OsDelete of the journal.  The directory is not synced: if the    *)
(* records were on the disk they may come back after a power failure.      *)
(***************************************************************************)
DeleteJournal ==
    /\ exists' = FALSE
    /\ recs' = NoRecs
    /\ counted' = {} /\ safe' = {}
    /\ ghost' = IF safe = {} THEN ghost ELSE Restrict(recs, safe)

-----------------------------------------------------------------------------
(* sqlite3PagerSharedLock with hasHotJournal.  Between any two of these    *)
(* calls of the operating system other processes may run.                  *)

GetShared(p) ==
    /\ st[p] = "open"
    /\ MayShare(p)
    /\ Leave(p, "shared", "shared")
    /\ UNCHANGED <<db, jrnl>>

AccessJournal(p) ==
    /\ st[p] = "shared"
    /\ Go(p, IF exists THEN "found" ELSE "reader")
    /\ UNCHANGED <<db, jrnl>>

CheckReservedLock(p) ==
    /\ st[p] = "found"
    /\ Go(p, IF Unreserved(p) THEN "unreserved" ELSE "reader")
    /\ UNCHANGED <<db, jrnl>>

EmptyFile == \A pg \in Pages : file[pg] = Absent

(***************************************************************************)
(* The journal of an empty file is deleted under a RESERVED lock.  File    *)
(* systems are taken to write meta data in order: once the deletion is on  *)
(* the disk, so is the truncation that made the file empty; and a power    *)
(* failure that loses both is one that came before this step.              *)
(***************************************************************************)
DeleteObsolete(p) ==
    /\ st[p] = "unreserved"
    /\ EmptyFile
    /\ Go(p, "reader")
    /\ IF Unreserved(p)
       THEN /\ exists' = FALSE
            /\ recs' = NoRecs
            /\ counted' = {} /\ safe' = {}
            /\ ghost' = NoRecs
            /\ loose' = {}
            /\ UNCHANGED file
       ELSE UNCHANGED <<db, jrnl>>

\* A journal that cannot be opened any more counts as hot.
ReadFirstByte(p) ==
    /\ st[p] = "unreserved"
    /\ ~EmptyFile
    /\ Go(p, IF exists /\ counted = {} THEN "reader" ELSE "hot")
    /\ UNCHANGED <<db, jrnl>>

(***************************************************************************)
(* EXCLUSIVE without RESERVED on the way, then a second look for the       *)
(* journal and pagerSyncHotJournal.  That sync makes the records durable,  *)
(* but not the name of a journal whose first sync never happened.          *)
(***************************************************************************)
LockHot(p) ==
    /\ st[p] = "hot"
    /\ MayExclude(p)
    /\ IF exists
       THEN /\ st' = [st EXCEPT ![p] = "playback"]
            /\ lock' = [lock EXCEPT ![p] = "exclusive"]
            /\ dirty' = [dirty EXCEPT ![p] = counted]
            /\ safe' = IF safe = {} THEN {} ELSE counted
            /\ UNCHANGED <<cache, exists, recs, counted, ghost>>
       ELSE Go(p, "reader") /\ UNCHANGED jrnl
    /\ UNCHANGED db

\* Mutant: somebody else will roll the journal back, read on.
LockHotBusyBug(p) ==
    /\ st[p] = "hot"
    /\ ~MayExclude(p)
    /\ Go(p, "reader")
    /\ UNCHANGED <<db, jrnl>>

LockHotBusy(p) ==
    /\ st[p] = "hot"
    /\ ~MayExclude(p)
    /\ Leave(p, "open", "none")
    /\ UNCHANGED <<db, jrnl>>

\* pager_unlock: the end of a read transaction, after an I/O error in the
\* probing above, and the way out of the error state.
Unlock(p) ==
    /\ st[p] \in {"reader", "error", "shared", "found", "unreserved"}
    /\ Leave(p, "open", "none")
    /\ UNCHANGED <<db, jrnl>>

-----------------------------------------------------------------------------
(* Write transactions.                                                     *)

\* sqlite3PagerBegin
Begin(p) ==
    /\ st[p] = "reader"
    /\ Unreserved(p)
    /\ st' = [st EXCEPT ![p] = "locked"]
    /\ lock' = [lock EXCEPT ![p] = "reserved"]
    /\ cache' = [cache EXCEPT ![p] = file]
    /\ UNCHANGED <<dirty, db, jrnl>>

\* sqlite3PagerExclusiveLock: a failed attempt leaves PENDING.
ExclusiveLock(p) ==
    /\ st[p] \in {"locked", "cachemod"}
    /\ lock[p] # "exclusive"
    /\ lock' = [lock EXCEPT ![p] = IF MayExclude(p) THEN "exclusive" ELSE "pending"]
    /\ UNCHANGED <<st, cache, dirty, db, jrnl>>

(***************************************************************************)
(* pager_write and the change of the page that it announces.  The first    *)
(* one opens the journal and writes a header that counts nothing.  A page  *)
(* appended once the file is being changed needs no sync: the header that  *)
(* holds the original size is on the disk.                                 *)
(***************************************************************************)
Journaled(p) == IF st[p] = "locked" THEN NoRecs ELSE recs

Write(p, pg, v) ==
    LET appended == st[p] = "dbmod" /\ cache[p][pg] = Absent
                        /\ pg \notin DOMAIN recs
    IN  /\ st[p] \in {"locked", "cachemod", "dbmod"}
        /\ \A low \in 1..pg-1 : cache[p][low] # Absent
        /\ st' = [st EXCEPT ![p] = IF @ = "locked" THEN "cachemod" ELSE @]
        /\ cache' = [cache EXCEPT ![p][pg] = v]
        /\ dirty' = [dirty EXCEPT ![p] = @ \cup {pg}]
        /\ exists' = TRUE
        /\ recs' = [q \in {pg} \cup DOMAIN Journaled(p) |->
                        IF q \in DOMAIN Journaled(p) THEN recs[q] ELSE cache[p][q]]
        /\ counted' = IF st[p] = "locked" THEN {}
                      ELSE IF appended THEN counted \cup {pg} ELSE counted
        /\ safe' = IF st[p] = "locked" THEN {}
                   ELSE IF appended THEN safe \cup {pg} ELSE safe
        /\ UNCHANGED <<lock, db, ghost>>

\* Mutant: the header counts records that were never written.
WriteHeaderBug(p) ==
    /\ st[p] \in {"cachemod", "dbmod"}
    /\ lock[p] = "exclusive"
    /\ st' = [st EXCEPT ![p] = "syncing"]
    /\ counted' = Pages
    /\ UNCHANGED <<lock, cache, dirty, db, exists, recs, safe, ghost>>

\* syncJournal, first half: the header now counts every record.
WriteHeader(p) ==
    /\ st[p] \in {"cachemod", "dbmod"}
    /\ lock[p] = "exclusive"
    /\ st' = [st EXCEPT ![p] = "syncing"]
    /\ counted' = DOMAIN recs
    /\ UNCHANGED <<lock, cache, dirty, db, exists, recs, safe, ghost>>

\* syncJournal, second half.  The first sync of a journal also syncs the
\* directory.
SyncJournal(p) ==
    /\ st[p] = "syncing"
    /\ st' = [st EXCEPT ![p] = "dbmod"]
    /\ safe' = counted
    /\ ghost' = NoRecs
    /\ UNCHANGED <<lock, cache, dirty, db, exists, recs, counted>>

(***************************************************************************)
(* One page goes to the file: pager_write_pagelist for a commit or a cache *)
(* spill (a page whose record is synced), pager_playback_one_page and      *)
(* pager_truncate for a rollback.  Writing what is there already changes   *)
(* nothing, in the file or on the disk, even if it fails half way.         *)
(***************************************************************************)
\* Mutant: a spill does not look at PGHDR_NEED_SYNC.
MayWriteBug(p, pg) == pg \in dirty[p] /\ st[p] \in {"dbmod", "playback"}

MayWrite(p, pg) ==
    /\ pg \in dirty[p]
    /\ \/ st[p] = "dbmod" /\ pg \in safe
       \/ st[p] = "playback"

NewPage(p, pg) == IF st[p] = "dbmod" THEN cache[p][pg] ELSE recs[pg]

Put(pg, v) ==
    /\ file' = [file EXCEPT ![pg] = v]
    /\ loose' = loose \cup {pg}

WritePage(p, pg) ==
    /\ MayWrite(p, pg)
    /\ IF file[pg] = NewPage(p, pg) THEN UNCHANGED db ELSE Put(pg, NewPage(p, pg))
    /\ dirty' = [dirty EXCEPT ![p] = @ \ {pg}]
    /\ UNCHANGED <<st, lock, cache, jrnl>>

\* Mutant: the journal is given up before the file is synced.
SyncFileBug(p) ==
    /\ dirty[p] = {}
    /\ \/ st[p] = "dbmod" /\ safe = DOMAIN recs /\ Go(p, "finished")
       \/ st[p] = "playback" /\ Go(p, "synced")
    /\ UNCHANGED <<db, jrnl>>

\* sqlite3PagerSync at the end of a commit's first phase or of a playback.
SyncFile(p) ==
    /\ dirty[p] = {}
    /\ \/ st[p] = "dbmod" /\ safe = DOMAIN recs /\ Go(p, "finished")
       \/ st[p] = "playback" /\ Go(p, "synced")
    /\ loose' = {}
    /\ UNCHANGED <<file, jrnl>>

\* pager_end_transaction, called by sqlite3PagerCommitPhaseTwo and by
\* pager_playback: deleting the journal is the commit point.
EndTransaction(p) ==
    /\ st[p] \in {"finished", "synced"}
    /\ Leave(p, "reader", "shared")
    /\ DeleteJournal
    /\ UNCHANGED db

\* The journal cannot be deleted: it stays, hot, and p is in the error state.
EndTransactionFails(p) ==
    /\ st[p] \in {"finished", "synced"}
    /\ Leave(p, "error", "shared")
    /\ UNCHANGED <<db, jrnl>>

\* Commit or rollback of a transaction that wrote nothing.
EndUnmodified(p) ==
    /\ st[p] = "locked"
    /\ Leave(p, "reader", "shared")
    /\ UNCHANGED <<db, jrnl>>

\* pager_playback of the transaction's own journal, after a failed commit or
\* for ROLLBACK: only synced records are written to the file, because no
\* other page was changed there.
Undo(p) ==
    /\ st' = [st EXCEPT ![p] = "playback"]
    /\ cache' = [cache EXCEPT ![p] = NoCache]
    /\ dirty' = [dirty EXCEPT ![p] = safe]
    /\ UNCHANGED lock

Rollback(p) ==
    /\ st[p] \in Writing
    /\ Undo(p)
    /\ UNCHANGED <<db, jrnl>>

\* An I/O error in a spill or in a playback: pager_error.
IoError(p) ==
    /\ st[p] \in {"cachemod", "syncing", "dbmod", "playback"}
    /\ Leave(p, "error", lock[p])
    /\ UNCHANGED <<db, jrnl>>

\* The write of a page fails half way, in a spill or a playback, or in a
\* commit, which is then rolled back.
WriteFails(p, pg) ==
    /\ MayWrite(p, pg)
    /\ IF file[pg] = NewPage(p, pg) THEN UNCHANGED db ELSE Put(pg, Torn)
    /\ \/ Leave(p, "error", lock[p])
       \/ st[p] = "dbmod" /\ Undo(p)
    /\ UNCHANGED jrnl

-----------------------------------------------------------------------------
(* Failures.                                                               *)

\* The process ends; what it wrote stays with the operating system.
Crash(p) ==
    /\ st[p] # "open"
    /\ Leave(p, "open", "none")
    /\ UNCHANGED <<db, jrnl>>

\* What a page may hold after a power failure: one that was not synced
\* anything, but the file does not lose pages that it had.
Surviving(pg) ==
    IF pg \notin loose THEN {file[pg]}
    ELSE Values \cup {Torn} \cup {recs[q] : q \in {pg} \cap DOMAIN recs}

PowerLoss ==
    /\ st' = [p \in Procs |-> "open"]
    /\ lock' = [p \in Procs |-> "none"]
    /\ cache' = [p \in Procs |-> NoCache]
    /\ dirty' = [p \in Procs |-> {}]
    /\ \E f \in [Pages -> Content \cup {Torn}] :
        (\A pg \in Pages : f[pg] \in Surviving(pg)) /\ file' = f
    /\ loose' = {}
    /\ ghost' = NoRecs
    /\ \/ \E S \in SUBSET counted :         \* the journal, with these records
            /\ safe \subseteq S
            /\ exists /\ UNCHANGED exists
            /\ recs' = Restrict(recs, S)
            /\ counted' = S /\ safe' = S
       \/ /\ safe = {}                       \* no journal
          /\ exists' = FALSE
          /\ recs' = NoRecs
          /\ counted' = {} /\ safe' = {}
       \/ /\ ghost # NoRecs                  \* the deleted one is back
          /\ exists' = TRUE
          /\ recs' = ghost
          /\ counted' = DOMAIN ghost /\ safe' = DOMAIN ghost

Next ==
    \/ \E p \in Procs :
        \/ GetShared(p) \/ AccessJournal(p) \/ CheckReservedLock(p)
        \/ DeleteObsolete(p) \/ ReadFirstByte(p) \/ LockHot(p) \/ LockHotBusy(p)
        \/ Unlock(p)
        \/ Begin(p) \/ ExclusiveLock(p) \/ WriteHeader(p) \/ SyncJournal(p)
        \/ SyncFile(p) \/ EndTransaction(p) \/ EndTransactionFails(p)
        \/ EndUnmodified(p) \/ Rollback(p) \/ IoError(p) \/ Crash(p)
        \/ \E pg \in Pages :
            \/ WritePage(p, pg) \/ WriteFails(p, pg)
            \/ \E v \in Values : Write(p, pg, v)
    \/ PowerLoss

JournalSpec == Init /\ [][Next]_vars

-----------------------------------------------------------------------------
(* Properties.                                                             *)

\* Pager states, locks and pages have their types, a header counts only records
\* that were written, and only what it counts is on the disk (writeJournalHdr,
\* syncJournal).
JournalTypeOK ==
    /\ st \in [Procs -> States]
    /\ lock \in [Procs -> Locks]
    /\ cache \in [Procs -> [Pages -> Content] \cup {NoCache}]
    /\ dirty \in [Procs -> SUBSET Pages]
    /\ file \in [Pages -> Content \cup {Torn}]
    /\ loose \subseteq Pages
    /\ exists \in BOOLEAN
    /\ recs \in UNION {[S -> Content] : S \in SUBSET Pages}
    /\ ghost \in UNION {[S -> Content] : S \in SUBSET Pages}
    /\ counted \subseteq DOMAIN recs
    /\ safe \subseteq counted

\* Write-ahead logging: a page whose original is not on the disk in the
\* journal is in the file, for good, as the last commit left it (so what
\* recovery produces never holds a torn page).
WriteAhead ==
    /\ loose \subseteq safe
    /\ \A pg \in DOMAIN recs \ safe : file[pg] = recs[pg]
    /\ \A pg \in Pages : Restored[pg] # Torn

\* What a reader finds in the file is what recovery would restore: no reader
\* gets past a hot journal, or past a transaction that is changing the file.
ReadersSeeCommitted ==
    (\E p \in Procs : st[p] \in {"reader", "locked", "cachemod"}) => file = Restored

\* While a process reads, nobody changes the file under it.
RepeatableRead ==
    [][\A p \in Procs : st[p] = "reader" /\ st'[p] = "reader" => file' = file]_vars

\* The pagers, the locks and the journal implement a file whose transactions
\* are atomic under crashes and power failures.
Atomic == INSTANCE AtomicFile WITH
    content <- Restored,
    previous <- IF ghost = NoRecs THEN Restored ELSE Restore(ghost, file),
    draft <- cache,
    NoDraft <- NoCache

AtomicCommit == Atomic!AtomicSpec
=============================================================================
