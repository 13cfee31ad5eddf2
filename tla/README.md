# A specification of eggs-sqlite

eggs-sqlite is a header-only C++ wrapper of SQLite (`src/include/eggs/sqlite/`)
with the SQLite amalgamation beside it. The wrapper itself is sequential and
small. What is hard about it is the state that lives *behind* it: each object
keeps a field or two (`_pending`, `_status`, a handle) that stand for state of
the engine (autocommit flag, file locks, running virtual machines), which
changes in ways the wrapper does not see when calls fail, when statements are
left running, and when other connections use the file. These modules model both
sides and check that they agree, or say where they do not.

## Inventory

| Component | State | Operations | What is hard | What makes it correct |
|---|---|---|---|---|
| `transaction` (transaction.hpp) | `_db`, `_mode`, `_pending` | constructor (BEGIN), move, `commit`, `rollback`, destructor | exceptions half-way, moves, `_pending` is never cleared, the engine ends transactions by itself | each open transaction has exactly one object that ends it; every transaction ends |
| `execute` (statement.hpp) and the connection in the engine | `autoCommit`, `Btree.inTrans`, file lock, active VMs, uncommitted rows | BEGIN, COMMIT, ROLLBACK, read and write steps, reset/finalize | interleaving of connections, SQLITE_BUSY, special errors, VMs that are never finalized | locks exclude each other, transactions are atomic, readers see a stable file |
| pager, rollback journal and file locks in the engine | `eState`, `eLock`, page cache, journal records and header, the file | shared lock with hot-journal check, begin, page write, journal sync, commit, rollback, playback | crashes, power failures and I/O errors between any two calls; several processes find the same journal | a commit is atomic and durable but for the last one; nobody reads past a hot journal |
| `istatement`, `operator >>`, `istatement_iterator` | `_status`, `_value` beside VM state | `step`, `get`, `type`, `reset`, extract, increment | `get` steps by itself, failing steps keep `_status`, failing resets, ways of reading that disagree on the current row | one way reads each row once and in order, a change of way costs one row at most; assertions hold; reading ends |
| `ostatement`, `operator <<`, `ostatement_iterator` | bindings beside VM state | `put`, `step`, `reset`, insert, increment | binds are refused without notice after a failure; bindings survive a step | what is stored is what was bound |
| `statement_base` (handles, parameters) | `_handle`, `_params` | prepare, copy, move, finalize, `bind`, `[]` | aliasing of parameters after a copy, leaks | one owner per handle, parameters of the own handle |
| `database` | `_handle` | open, move, close | `sqlite3_close` may fail with SQLITE_BUSY, ignored | closed once, by its owner, not under a statement |
| `mutex`, `database_mutex` | `_handle` | lock, try_lock, unlock, move | the connection's mutex is owned twice | freed once, not in use |
| `row`, `sequence`, `blob`, `raw_traits`, `conversion_traits` | values | extract, insert, conversions | widths, NULL, short rows | round trips |
| `pragma` | none | `invoke_pragma` | the loop over a list pragma never runs | the whole list is read |
| `error`, sample `main.cpp` | none | | | |

Components call each other downwards only: `transaction` uses `execute`,
iterators and operators use statements, statements and `execute` use the
connection, the connection uses the pager. There are no threads in the library.
Concurrency is that of several connections of one file (in one process or more),
which meet in the file locks and in the journal.

## Modules

    TransactionalStore  <--implements--  Connection  <--EXTENDS--  Transaction
                                         IStatement, OStatement (one statement each)
                                         Values (one field and its copies)
    AtomicFile          <--implements--  Journal (what makes a commit one step)
                                         Lifetime  <--EXTENDS--  Mutex

* **Connection** - the connections of one file, one action per call of
  `sqlite3_step`, `sqlite3_reset` or `sqlite3_finalize`. `inTxn[c]` is the
  autocommit flag together with the identity of the explicit transaction,
  `trans[c]` is `Btree.inTrans`, `lock[c]` the lock level, `active[c]` the kinds
  of VM counted in `activeVdbeCnt`, `dirty[c]` the rows written and not
  committed (as the transaction that wrote them), `stored` those in the file;
  `fate` and `wrote` are history. `MayShare/MayReserve/MayExclude` are `winLock`,
  `CanBegin` and the `...AfterBegin`, `...AfterBusy` operators are
  `sqlite3BtreeBeginTrans` with `sqlite3PagerBegin`, `End` is
  `btreeEndTransaction`, `HaltWithoutChange`, `Write...` and `SpecialError` are
  the branches of `sqlite3VdbeHalt`, `Begin...`, `Commit...`, `Rollback` and
  `NothingToEnd` those of `OP_AutoCommit`. `execute` never finalizes its
  statement: a ROLLBACK (which leaves the VM without halting it), a busy COMMIT
  and a SELECT leave a `leakedReader`, a busy BEGIN IMMEDIATE and a busy INSERT a
  `leakedWriter`, for ever.
* **TransactionalStore** - what a user expects of it: serial writers, all or
  nothing, nothing else changes what is durable. No locks and no VMs.
* **Transaction** - `transaction` objects over these connections: constructor in
  three modes and the exceptions of it, both moves with the exception of
  assignment, `commit`, `rollback`, destructor. Every operation includes what it
  makes the connection do. `tag` is history: which transaction an object began.
* **IStatement** - one `istatement` over a result of `rows` rows. A "reader" mixes
  `step()` with `get()` (`CoreStep`), `>>` (`AutoStep`, `ExtractRow`) and any number
  of iterators (`Iterator...(i)`, with `iter[i]` and `val[i]` for `_statement` and
  `_value`) as it likes, all on the one statement; a "list" client is the loop of
  `invoke_pragma`, with its condition as C++ reads it. The history `taken` is what
  the client was handed in this pass, `way` which way read last, and `switches`
  counts the changes of way: all but the one from `>>` to a new iterator, which
  agree on where they are. `asserted` records a failing `BOOST_ASSERT`; the model
  goes on as a release build does.
* **OStatement** - one `ostatement` with `Columns` parameters: what is bound
  beside what the client asked for.
* **Lifetime** - `database` and `statement_base` objects and the handles they own.
  `conn[c]` and `vm[h]` say whether a connection is open and a prepared statement
  live, `on[h]` where it was prepared; `dbHandle`, `db`, `handle` and `params` are
  the fields `database::_handle` and `_db`, `_handle`, `_params` of a statement
  (a parameter map is the one handle all its parameters hold). One action per
  constructor, assignment and destructor, with its failures; `Close` is
  `sqlite3_close`, which refuses while statements are not finalized. `dropped` is
  history: the handles `execute` and copy assignment forget.
* **Mutex** - `mutex` objects in the same program: `mtx[x]` says whether a native
  mutex is live, `mxHandle` is `mutex::_handle`. Each step of Lifetime also enters
  the mutex of the connections it touches, `sqlite3_close` frees it. What uses a
  mutex that was freed is recorded in `misused`, and the model ends there.
* **Journal** - the pagers of several processes on one file. `st[p]` is
  `Pager.eState` refined by the place inside a call (looking for a hot journal,
  syncing, playing back), `lock[p]` is `eLock`, `cache[p]` the database as the
  write transaction sees it, `dirty[p]` what is still to be written. `file` is what
  the operating system shows, `loose` the part of it that is not synced; `recs` are
  the journal's records, `counted` those in the header's count, `safe` those on the
  disk. One action per call of the operating system. `Crash` ends a process,
  `PowerLoss` all of them and keeps any part of what was not synced.
* **AtomicFile** - what Journal promises: drafts that become the content as a whole
  or not at all. The mapping is not the identity: the content is what recovery
  would make of file and journal (`Restored`), the draft is the page cache.
* **Values** - one field on its way from an object to a column, to a row object
  and back: `Bind` and `Get` are `raw_traits` with `conversion_traits`, `GetValue`,
  `PutValue` and `RowGet` are `row.hpp`. The widths of the integers are constants.
* **MCConnection, MCTransaction, MCOStatement, MCLifetime, MCJournal, MCValues** -
  symmetry sets and the bytes of texts for TLC.
* **ConnectionProofs, StoreProofs, TransactionProofs, IStatementProofs,
  OStatementProofs, LifetimeProofs** (which covers Mutex), **JournalProofs,
  ValuesProofs** - the proofs.

Operators named `...Bug` or `...Stays` are mutants: one plausible mistake each,
used to show that a property notices it. No specification uses them.

### Abstractions and their limits

* One call of the engine is atomic, except in Journal. A lock taken and given back inside one call
  is not visible to others, so a busy answer caused by such a moment is left out.
* The file uses a rollback journal, one main database, no shared cache; no busy
  handler is installed (the library never does); the schema is loaded; foreign
  keys are off; conflicts are resolved by ABORT, the default. WAL, savepoints,
  attached and temporary databases are not modelled.
* Journal: `journal_mode=DELETE`, `locking_mode=NORMAL`, `synchronous` not OFF (the
  defaults). Left out are WAL, the other journal modes, master journals, savepoints
  and sub-journals, files that shrink (auto-vacuum), and the page cache kept from
  one transaction to the next with its change counter. A record that is on the disk
  in part fails its checksum and counts as absent. Writing a page that the file
  already holds changes nothing. The lock that an attempt at EXCLUSIVE gives up and
  takes back inside `winLock` is not visible to others.
* Journal takes it that meta data reach the disk in order. `hasHotJournal` deletes
  the journal of an empty file without syncing the truncation that made it empty;
  on a file system that reorders the two, crashes at the wrong places followed by a
  power failure would leave uncommitted pages in the file. The deletion of a journal
  is not synced either: a power failure may take back the last commit, and
  AtomicFile says so.
* Values: doubles are 0, 1 or NaN, `float` is left out; the column has no affinity;
  reads of a column of another storage class, which SQLite converts, are left out.
  `row::put` and `write_blob` do not compile when they are instantiated, nor does
  `row::get` of a blob, `none` or a 64-bit integer (so `RowTypes` has none of them), and neither
  does putting an engaged `boost::optional` of most types, so they have no action.
* Mutex: who waits for whom is not modelled, and a connection always has a mutex
  (the default, serialized build).
* Each connection has at most one running istatement and at most one ostatement
  stuck in SQLITE_BUSY; leaked VMs count as present or absent, which is all that
  `activeVdbeCnt > 1` and `writeVdbeCnt` tell apart.
* Clients respect the assertions they can see: `commit()` and `rollback()` are
  called on pending objects, `step()` on a statement whose `status()` is not
  done. None of them begins or ends a transaction by SQL text of its own.
* Rows are the transaction they were written in (Connection), their number
  (IStatement) or model values per column (OStatement). All rows of a transaction
  are one tag in Connection: that some of them are lost and others kept cannot be
  expressed there. Inside a commit Journal tells pages apart; the statement journal,
  which undoes one statement of a transaction, is not modelled.
* IStatement: a client reads each row of an iterator once before it increments it.
  A copy of an iterator is one more iterator made on the same row. The iterator
  `istatement_iterator<istatement>`, which keeps no row and reads as `get()` does,
  is not modelled apart.
* In Lifetime, handles are not reused after they are closed or finalized (as a
  pointer might be); a program copies statements that have a handle and a
  database, anything else dereferences null; `boost::move` of a map may empty the
  source or not; every statement has text, so a prepared handle is never null; a
  failed open that reports an `error_code` goes on as a release build does. An
  `iprepare` or `oprepare` that reports an `error_code` returns an object with a null
  handle; such an object can do what a moved-from one can, and is not a separate
  action. `ConstructThrows` is a constructor that runs out of memory after `prepare`;
  the same inside the parameter map of a copy assignment is left out.
* A destructor that throws goes on to destroy the object (C++03; in C++11 the
  program would terminate).

## Runs

| Run | What it shows | Instance |
|---|---|---|
| `connection` | locks exclude each other (`LockExclusion`) and fit the transactions (`LockFitsTrans`); nothing idle holds a lock (`IdleHoldsNoLock`); a transaction is open on one connection (`OpenOnOneConn`), keeps its rows (`WroteIsKept`) and is atomic (`Atomicity`); the file is stable under locks (`StoredIsStable`); refinement of the store (`StoreSpec`) | 2 connections, 2 transactions, 117,680 states |
| `transaction` | every open transaction has a live pending owner (`OpenHasOwner`) and only one (`UniqueOwner`) | 2 objects, 2 connections, 2 transactions, about 757,000 states |
| `transaction_live` | every transaction ends (`TransactionsEnd`) under `FairSpec` | 2 objects, 2 connections, 1 transaction, about 415,000 states |
| `istatement` | `_status` agrees with the VM (`StatusTracksVm`); who keeps to one way of reading gets each row once and in order (`ReadsAllInOrder`), each change of way repeats at most one row and leaves out at most one (`OneRowPerSwitch`); assertions fail on an empty result or after a change of way only (`AssertsOnEmptyOnly`); reading ends (`Drains`) | up to 3 rows, 2 iterators, 1 failure, 2 resets, 2 changes of way per pass, about 953,000 states |
| `ostatement` | a statement whose last call returned is ready (`ReadyUnlessThrown`); rows are stored as asked by a client that resets after exceptions (`StoredAsAsked`) | 2 columns, 2 values, 925 states |
| `lifetime` | a connection is closed once and by its only owner (`DbsOwnOpen`), a prepared statement likewise (`StmtsOwnLive`); no live statement is on a closed connection (`LiveOnOpen`); only `execute`, copy assignment and constructors that throw leak (`LeaksAreKnown`); a mutex is used after it was freed, or freed twice, only if `database_mutex` gave it out (`OnlyWrappedMisused`), and none is lost (`MutexesAreKept`) | 2 databases, 2 statements, 2 mutex objects, 2 connections, 3 handles, about 1,540,000 states |
| `journal` | a page changes only when its original is safe (`WriteAhead`); what a reader finds is what recovery would restore (`ReadersSeeCommitted`) and stays so (`RepeatableRead`); refinement of the atomic file (`AtomicCommit`) | 3 processes, 2 pages, 2 values, 66,000 states up to symmetry, any number of crashes |
| `values` | what is put comes back (`RoundTrip`), as none only where SQLite has no value (`NoneOnlyForNull`), as the same number with other types (`CrossRead`); a row object agrees with its statement (`RowAgrees`) and copies without further loss (`CopyIsStable`) | integers of 2, 3, 4 and 5 bits, all texts and blobs of up to 2 bytes, 64,000 states |

Why the bounds suffice: two connections meet every pair of locks, two
transactions let one end while another begins on the same connection, two objects
allow every move and an object that outlives its transaction. One transaction is
enough for `TransactionsEnd`, a statement about one at a time. Three rows have a
first, a middle and a last one; two iterators and two changes of way let a client
leave a way for another and come back to it, and the bounds of `OneRowPerSwitch` are
reached on both sides. Two statement objects with three handles reach a
copy, an assignment over it and a leak at once; one allocated mutex beside those of
two connections meets every kind of handle in two mutex objects. Three processes
let one crash, one recover and one look on; two pages tell a transaction that is
half written from a whole one, and one page from the size of the file. Each integer
type is wider than the one before, which is all the conversions depend on. The
theorems below remove the bounds for all safety properties and both refinements;
only liveness and the counterexamples rest on the instances.

Four more runs end in a counterexample; each is a disagreement of the code with
an assertion, a document or itself:

* `transaction_pending` - construct, `commit()`: `_pending` is still true. The
  destructor rolls back once more; that throws, or hits the transaction another
  object has begun since. (`EndsOwn` below says when it cannot.)
* `transaction_idle` - a leaked VM keeps the SHARED lock of an idle connection:
  what `sqlite3.h` warns of when statements are not finalized.
* `istatement_list` - `get_pragma` of a list returns an empty vector: in
  `!status() == done` the negation binds first, and the loop never runs.
* `lifetime_params` - the parameters of a copied statement belong to the original
  and outlive it.

Known behaviour that the passing runs state as the exception in a property, or
that the models contain without a run of its own: the `>>` of an empty result trips
the assertion of `get()` (`AssertsOnEmptyOnly`); a client that changes between
`step()`, `>>` and iterators on a running statement may be handed a row twice (`>>`
beside an iterator, a second iterator, either after `step()` and `get()`) or miss one
(`step()` after `>>`, an iterator after another way has stepped on), and an iterator
whose statement another way has finished trips the assertion of `step()`, or begins
the result again in a release build (`OneRowPerSwitch`, `AssertsOnEmptyOnly`); after a failed step `put()` passes
its assertion and is dropped (the `dubious` of `StoredAsAsked`); `open` with an
`error_code` forgets the handle of a connection that failed to open
(`OpenReports`); `database_mutex` makes a second owner of the connection's mutex
(`OnlyWrappedMisused`); a row object cuts integers to 32 bits (`RoundTrip`,
`RowAgrees`), `uint32` values of 2^31 and more are stored as negative numbers
(`CrossRead`), an empty blob and a NaN become NULL (`NoneOnlyForNull`) and texts
end at their first zero byte (`RoundTrip`).

**Fairness.** `Transaction!FairSpec`: weak fairness of `Leave(c)`, the destruction
of some pending object of connection `c`. C++ scopes justify it: an object with
automatic storage is destroyed, whatever throws. Nothing is assumed of
statements, commits or locks. `IStatement!FairSpec`: the client reads on;
failures, resets and changes of way are bounded, because a statement that always
fails, and a client that makes one iterator after another on the same row, never
end. `CHECK_DEADLOCK` is off for IStatement, where a client that has read
everything and made its last reset stops, and for Lifetime, where the bounded
supply of handles ends. Journal has no liveness property: two processes that find
a hot journal at the same time may keep each other from EXCLUSIVE for ever.

## Proofs

All for arbitrary constants: any number of connections, transactions, objects,
rows, columns, mutexes, processes and pages, any widths of the integers, any texts
and blobs. Assumptions: `NoTxn` is no transaction, `NoConn` no connection, `Null`
no value and no handle, a connection's own mutex is none of those that programs
allocate, `Absent`, `Torn` and `NoCache` are no contents, each integer type has at
least twice as many values as the one before, and the bounds are naturals. Every
safety property of a passing run is a theorem.

* `ConnTypeCorrect`, `LocksExclude`, `LocksFit`, `IdleReleases`. `LockExclusion` is
  not inductive: that a new RESERVED lock is legal depends on which lock a
  transaction state implies. `LockInv` joins it with the types and `LockFitsTrans`,
  and neither holds without the other. Each action moves the lock of one connection; `LegalMove` states what such a move
  must respect, and lemmas show it for beginning, busy and ending once instead of
  per action.
* `ImplementsStore`: with `LockInv`, each action is a step of the store or a
  stutter; the variables of the store are variables of Connection, so the mapping
  is the identity. Serial writers follow because rows wait under RESERVED only.
* `TransactionsAtomic`, `OpenKeepsRows`, `OneConnPerTxn` rest on one invariant,
  `RowInv`: a committed transaction's rows are stored *because* they were still
  uncommitted on its connection when it ended. `FileIsStable` is the action
  property.
* `Ownership` and `OneOwner` need `TagWasBegun` (an object's transaction is not a fresh one),
  so that a constructor's new transaction has no other owner. `EndsOwn`: with one
  object per connection, an object ends only what it began.
  `ImplementsConnection`: all operations of objects are calls a connection may
  meet, so `ObjectsAtomic` and the rest carry over.
* `OpenIsOwned` and `ScopeEndsIt` are the steps behind `TransactionsEnd`: a transaction
  that has not ended has a pending object, and `Leave` ends it at once, whatever
  locks others hold. Only that the scope ends is left to fairness.
* `StatusIsTrue`, `AssertionsHold`, `ReadsEveryRow`, `SwitchCostsOneRow`: `CountInv`
  compares the rows handed out with those the client has passed (`Passed`), which
  are the rows behind the statement, and the current one unless the way that reads
  is ahead of the client (`Ahead`: `>>` and fresh iterators have not handed it out).
  `Account` says that rows passed and rows handed out differ from the distinct rows
  handed out by at most the number of switches, and that without a switch they are
  the same in order; it is kept by a row more, a row repeated and a row left out,
  each a lemma. The two properties are its two ends. `AssertInv` says that an
  iterator the pass keeps to is on a row until it is the end iterator, even after
  failures. `ReadingProgresses` is the step behind `Drains`: each call is one of the
  counted failures or changes of way, ends the result, goes one row further, or reads
  the row of an iterator.
  `ListReadsNothing` proves what the run `istatement_list` finds, for every list.
* `StoresWhatWasAsked`, `ReadyAfterReturn`: readiness and agreement of the bindings
  support each other.
* `ConnectionsOwned`, `StatementsOwned`, `StatementsOnOpen`, `NothingElseLeaks`
  rest on one inductive invariant, `OwnInv`. It adds that destroyed objects hold
  nothing, so that a fresh handle has no owner, and needs both kinds of ownership
  at once: a new statement is on an open connection because its database owns an
  open one, and closing is safe because `sqlite3_close` looks for live statements.

* `MutexesFreedOnce`, `NoMutexLost`: the program with mutexes is one of those of
  Lifetime (`MutexImpliesSpec`), so `OwnInv` holds of it. That a live mutex has an
  owner is not enough: that its owner is the only one, and that objects hold live
  ones, is what makes freeing safe (`ObjectsOwnMutexes`). It speaks of the mutexes that
  programs allocate; those of connections are owned through `conn`, and
  `database_mutex` is the one operation that breaks this, on record in `wrapped`.
* `JournalTypes`, `JournalFirst`, `NobodyReadsHot`, `ReadsRepeat` and the refinement
  `Atomicity` rest on `JournalInv`. It says of each process what it relies on:
  `LockFits` ties the state of the pager to its lock; `Calm`, that nothing on record
  waits to be restored while it reads or holds RESERVED; `DraftFits`, that its page
  cache and the file differ only in the pages still to be written; `WriterFits`, how
  far its commit or rollback has come. `JournalFits` relates file, records and what
  is synced. A step of one process keeps this for the others because their locks
  do not go with its own: one that changes file or journal has RESERVED or more,
  so the others do not, and what they rely on then is little (`BystanderLocal`).
  Crashes and power failures take away processes and unsynced pages, both of
  which the invariant allows for. One part came from a proof that failed:
  `DeleteObsolete` deletes the journal of an empty file, which loses nothing only
  because a page missing from the file was missing before the transaction, too.
  For `Atomicity` the content is what recovery would make of the file, and each
  action leaves that alone but the deletion of the journal at the end of a commit
  (the one step that commits), the begin and writes of a draft, and a power failure
  that brings a deleted journal back (`ghost`).
* `ValuesComeBack`, `NothingLost`, `NumbersAgree`, `RowsAgree`, `RowsAreStable`:
  `SignedIs` and `UnsignedIs` say what a cast does to a number in range and to one a
  turn beyond it, `HalfFits` that a type is as wide as its raw type or at most
  half as wide, and from these `ReadsBack` and `ReadsAcross` follow for all pairs of
  types at once. `CStringEnds`, that cutting a text at its first zero is done after
  once, uses that a set of positions has a least one. `ValuesInv` then says that
  field and row object stand for what was put: exactly, unless it went through a
  row object as a large integer, and with its storage class even then.

Model-checked only: `TransactionsEnd` and `Drains`, because liveness under fairness is
out of the prover's reach (the steps they consist of are theorems), and the four
counterexamples, which are single behaviours. No recursive definition is used, so no proof stops at one.

## Plan

Done: all modules above with their runs, and theorems for every safety property and
both refinements. What would add most from here:

1. What a client may do to stay clear of the counterexamples `transaction_pending`,
   `transaction_idle` and `lifetime_params`, as theorems about disciplined clients in
   the manner of `EndsOwn`.
2. How the composed system inherits from its parts: Values and Journal under the
   rows of Connection.

## Not modelled

* The error tables (`error.hpp`) and the sample program, which have no state.
* Binding the parameters of a query by name or index (`bind`, `operator []`): for
  the bindings of a VM see OStatement, for the handle behind a name see Lifetime.
* Edits of a blob in memory.
* SQLite beyond the functions in the map. The amalgamation and its header are 98% of
  the repository's lines: parser, code generator, B-tree, pager, WAL and VFS of a
  third party. The models take from it what the library depends on, and a map that
  covers a large share of it would be a specification of SQLite.
