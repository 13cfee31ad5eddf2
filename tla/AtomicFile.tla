----------------------------- MODULE AtomicFile -----------------------------
(***************************************************************************)
(* What the pager promises of one database file: the drafts of writers     *)
(* become the content of the file as a whole or not at all, whatever       *)
(* crashes.  There are no locks, no journal and no partly written pages    *)
(* here.  A power failure may take back the last commit, because the       *)
(* deletion of its journal is not forced to the disk, and no other one.    *)
(***************************************************************************)
CONSTANTS
    Procs,      \* the connections (one pager each)
    Pages,      \* page numbers
    Values,     \* what a page may hold
    Absent,     \* the page is beyond the end of the file
    NoDraft     \* the connection is not writing

VARIABLES
    content,    \* the committed pages
    previous,   \* what a power failure may bring back
    draft       \* draft[p]: the pages as the write transaction of p sees them

vars == <<content, previous, draft>>

Init ==
    /\ content = [pg \in Pages |-> Absent]
    /\ previous = content
    /\ draft = [p \in Procs |-> NoDraft]

Begin(p) ==
    /\ \A q \in Procs : draft[q] = NoDraft
    /\ draft' = [draft EXCEPT ![p] = content]
    /\ UNCHANGED <<content, previous>>

Edit(p, pg, v) ==
    /\ draft[p] # NoDraft
    /\ draft' = [draft EXCEPT ![p][pg] = v]
    /\ UNCHANGED <<content, previous>>

\* The draft becomes the content; until something later is forced to the
\* disk a power failure may take this back.
Commit(p) ==
    /\ draft[p] # NoDraft
    /\ content' = draft[p]
    /\ previous' = content
    /\ draft' = [draft EXCEPT ![p] = NoDraft]

\* Rollback, I/O error or crash of p.
Discard(p) ==
    /\ draft' = [draft EXCEPT ![p] = NoDraft]
    /\ UNCHANGED <<content, previous>>

\* The last commit is on the disk for good.
Settle ==
    /\ previous' = content
    /\ UNCHANGED <<content, draft>>

PowerLoss ==
    /\ content' \in {content, previous}
    /\ previous' = content'
    /\ draft' = [p \in Procs |-> NoDraft]

Next ==
    \/ \E p \in Procs :
        \/ Begin(p)
        \/ Commit(p)
        \/ Discard(p)
        \/ \E pg \in Pages, v \in Values : Edit(p, pg, v)
    \/ Settle
    \/ PowerLoss

AtomicSpec == Init /\ [][Next]_vars
=============================================================================
