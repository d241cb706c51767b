----------------------------- MODULE AuditChain -----------------------------
(***************************************************************************)
(* The hash-chained audit log that PostgreSQL keeps for the backend         *)
(* (backend/db/migrations/004_audit_log.sql and 005_audit_chain.sql).       *)
(*                                                                          *)
(* Every service of the system appends to this one table, each from its own *)
(* pooled connection: one autocommit INSERT per event.  An INSERT is not    *)
(* one step.  The column defaults are evaluated first (seq comes from a     *)
(* sequence, occurred_at is the transaction's start), the row is routed to  *)
(* its monthly partition, the BEFORE INSERT trigger then waits for an       *)
(* advisory lock, reads the head of the chain and computes the hashes, and  *)
(* the row becomes visible, and the lock free, at the commit.  Each of      *)
(* these is an action here, so connections interleave as they do in the     *)
(* database.                                                                *)
(*                                                                          *)
(* SHA-256 is modelled as collision free: a digest IS the pair it digests.  *)
(***************************************************************************)
EXTENDS Integers, FiniteSets, FiniteSetsExt

CONSTANTS
    Writers,    \* database connections that insert audit rows
    Bodies,     \* what a row says, apart from its seq and its time
    NoBody,     \* a connection with no insert under way
    NoWriter,   \* the advisory lock is free
    MaxSeq,     \* bound: last value drawn from the sequence
    MaxMonth    \* bound: last calendar month

ASSUME NoWriterAssumption == NoWriter \notin Writers
ASSUME BoundsAssumption == MaxSeq \in Nat /\ MaxMonth \in Nat \ {0}

VARIABLES
    log,         \* attached rows of acs.audit_log, a function from seq to row
    nextSeq,     \* acs.audit_seq: nextval is never rolled back
    lock,        \* holder of the transaction-level advisory lock
    pc,          \* how far each connection's insert has come
    new,         \* the row each connection is inserting
    head,        \* the predecessor hash its trigger has read
    month,       \* the month the database clock is in
    partitions,  \* months whose partition is attached
    lost,        \* seqs drawn by inserts that no partition would take
    inverted,    \* history: a row committed after one of a higher seq or month
    pruned       \* history: some partition that held rows was detached

vars == <<log, nextSeq, lock, pc, new, head, month, partitions, lost, inverted,
          pruned>>

-----------------------------------------------------------------------------
(* The chain *)

\* audit_genesis_hash(): 32 zero bytes, which no row hashes to.
Genesis == << >>

\* sha256(payload || prev): injective in both.
Hash(payload, prev) == <<payload, prev>>

\* audit_payload(): the canonical bytes of a row, its seq and its time included.
Payload(seq, row) == <<seq, row.month, row.body>>

\* row_hash of the row with the highest seq below n, genesis if there is none.
HashBelow(rows, n) ==
    LET below == {s \in DOMAIN rows : s < n}
    IN  IF below = {} THEN Genesis ELSE rows[Max(below)].hash

\* The predecessor the trigger reads: ORDER BY seq DESC LIMIT 1.
MutantHeadOldest(rows) ==
    IF DOMAIN rows = {} THEN Genesis ELSE rows[Min(DOMAIN rows)].hash

HeadHash(rows) ==
    IF DOMAIN rows = {} THEN Genesis ELSE rows[Max(DOMAIN rows)].hash

\* verify_audit_chain() accepts row s when it is walked: its prev_hash is the
\* row_hash of the row walked before it, and its row_hash is recomputed from
\* its contents.  The walk starts from the row below p_from_seq.
MutantContentsOnly(rows, s) ==
    rows[s].hash = Hash(Payload(s, rows[s]), rows[s].prev)

MutantLinksOnly(rows, s) == rows[s].prev = HashBelow(rows, s)

RowOk(rows, s) ==
    /\ rows[s].prev = HashBelow(rows, s)
    /\ rows[s].hash = Hash(Payload(s, rows[s]), rows[s].prev)

\* The rows verify_audit_chain(from) would stop at, the first one being
\* first_bad_seq; chain_ok when there are none.
BadRows(rows, from) == {s \in DOMAIN rows : s >= from /\ ~RowOk(rows, s)}

\* chain_ok for a walk over rows that starts at from.
ChainOk(rows, from) == BadRows(rows, from) = {}

-----------------------------------------------------------------------------
(* An INSERT, connection by connection *)

\* No row under construction.
NoRow == [seq |-> 0, month |-> 0, body |-> NoBody]

\* Each connection still to draw a seq will draw one more.
Undrawn == {w \in Writers : pc[w] = "begun"}

MutantInitSeqZero ==
    /\ log = [s \in {} |-> NoRow]
    /\ nextSeq = 0
    /\ lock = NoWriter
    /\ pc = [w \in Writers |-> "idle"]
    /\ new = [w \in Writers |-> NoRow]
    /\ head = [w \in Writers |-> Genesis]
    /\ month = 1
    /\ partitions = {1, 2}
    /\ lost = {}
    /\ inverted = FALSE
    /\ pruned = FALSE

Init ==
    /\ log = [s \in {} |-> NoRow]
    /\ nextSeq = 1
    /\ lock = NoWriter
    /\ pc = [w \in Writers |-> "idle"]
    /\ new = [w \in Writers |-> NoRow]
    /\ head = [w \in Writers |-> Genesis]
    /\ month = 1
    /\ partitions = {1, 2}
    /\ lost = {}
    /\ inverted = FALSE
    /\ pruned = FALSE

\* AuditRepository.append: one autocommit statement. now() is the start of the
\* transaction, and stays that for the whole insert.
Begin(w, body) ==
    /\ pc[w] = "idle"
    /\ nextSeq + Cardinality(Undrawn) <= MaxSeq
    /\ pc' = [pc EXCEPT ![w] = "begun"]
    /\ new' = [new EXCEPT ![w] = [seq |-> 0, month |-> month, body |-> body]]
    /\ UNCHANGED <<log, nextSeq, lock, head, month, partitions, lost, inverted, pruned>>

\* DEFAULT nextval('acs.audit_seq'), then the row is routed to the partition of
\* its month. Both come before any BEFORE ROW trigger runs.
Draw(w) ==
    /\ pc[w] = "begun"
    /\ new[w].month \in partitions
    /\ pc' = [pc EXCEPT ![w] = "routed"]
    /\ new' = [new EXCEPT ![w].seq = nextSeq]
    /\ nextSeq' = nextSeq + 1
    /\ UNCHANGED <<log, lock, head, month, partitions, lost, inverted, pruned>>

\* No partition takes the row: the statement fails before the trigger that
\* would have created one, and the value drawn from the sequence is gone.
Refuse(w) ==
    /\ pc[w] = "begun"
    /\ new[w].month \notin partitions
    /\ pc' = [pc EXCEPT ![w] = "idle"]
    /\ new' = [new EXCEPT ![w] = NoRow]
    /\ lost' = lost \cup {nextSeq}
    /\ nextSeq' = nextSeq + 1
    /\ UNCHANGED <<log, lock, head, month, partitions, inverted, pruned>>

\* The trigger: ensure_audit_partition() finds the partition the row was routed
\* to, then pg_advisory_xact_lock waits.
MutantNoLock(w) ==
    /\ pc[w] = "routed"
    /\ pc' = [pc EXCEPT ![w] = "locked"]
    /\ UNCHANGED <<log, nextSeq, lock, new, head, month, partitions, lost, inverted, pruned>>

AcquireLock(w) ==
    /\ pc[w] = "routed"
    /\ lock = NoWriter
    /\ lock' = w
    /\ pc' = [pc EXCEPT ![w] = "locked"]
    /\ UNCHANGED <<log, nextSeq, new, head, month, partitions, lost, inverted, pruned>>

\* SELECT row_hash ... ORDER BY seq DESC LIMIT 1, on a snapshot taken after the
\* lock was granted; NEW.prev_hash and NEW.row_hash follow from it.
ReadHead(w) ==
    /\ pc[w] = "locked"
    /\ pc' = [pc EXCEPT ![w] = "chained"]
    /\ head' = [head EXCEPT ![w] = HeadHash(log)]
    /\ UNCHANGED <<log, nextSeq, lock, new, month, partitions, lost, inverted, pruned>>

\* The row as the trigger returns it.
Chained(row, prev) ==
    [month |-> row.month, body |-> row.body, prev |-> prev,
     hash |-> Hash(Payload(row.seq, row), prev)]

\* The row is visible and the lock is free in one step.
Commit(w) ==
    /\ pc[w] = "chained"
    /\ log' = [s \in DOMAIN log \cup {new[w].seq} |->
                 IF s = new[w].seq THEN Chained(new[w], head[w]) ELSE log[s]]
    /\ inverted' = (inverted \/ \E s \in DOMAIN log :
                                  s > new[w].seq \/ log[s].month > new[w].month)
    /\ pc' = [pc EXCEPT ![w] = "idle"]
    /\ new' = [new EXCEPT ![w] = NoRow]
    /\ head' = [head EXCEPT ![w] = Genesis]
    /\ lock' = NoWriter
    /\ UNCHANGED <<nextSeq, month, partitions, lost, pruned>>

\* The connection is lost, the backend dies or the statement is cancelled: the
\* transaction rolls back and the advisory lock goes with it, the seq does not
\* come back.
MutantAbortKeepsLock(w) ==
    /\ pc[w] # "idle"
    /\ pc' = [pc EXCEPT ![w] = "idle"]
    /\ new' = [new EXCEPT ![w] = NoRow]
    /\ head' = [head EXCEPT ![w] = Genesis]
    /\ UNCHANGED <<log, nextSeq, lock, month, partitions, lost, inverted, pruned>>

Abort(w) ==
    /\ pc[w] # "idle"
    /\ pc' = [pc EXCEPT ![w] = "idle"]
    /\ new' = [new EXCEPT ![w] = NoRow]
    /\ head' = [head EXCEPT ![w] = Genesis]
    /\ lock' = IF lock = w THEN NoWriter ELSE lock
    /\ UNCHANGED <<log, nextSeq, month, partitions, lost, inverted, pruned>>

-----------------------------------------------------------------------------
(* Months and partitions *)

NextMonth ==
    /\ month < MaxMonth
    /\ month' = month + 1
    /\ UNCHANGED <<log, nextSeq, lock, pc, new, head, partitions, lost, inverted, pruned>>

\* ensure_audit_partitions_ahead(2), from cron: this month and the next.
EnsurePartitionsAhead ==
    /\ partitions' = partitions \cup {month, month + 1}
    /\ UNCHANGED <<log, nextSeq, lock, pc, new, head, month, lost, inverted, pruned>>

\* Retention: the oldest partition is detached. DETACH waits for every insert
\* under way, each of which holds a lock on the table.
DetachOldest ==
    /\ partitions # {}
    /\ Min(partitions) < month
    /\ \A w \in Writers : pc[w] = "idle"
    /\ LET gone == {s \in DOMAIN log : log[s].month = Min(partitions)}
       IN  /\ log' = [s \in DOMAIN log \ gone |-> log[s]]
           /\ pruned' = (pruned \/ gone # {})
    /\ partitions' = partitions \ {Min(partitions)}
    /\ UNCHANGED <<nextSeq, lock, pc, new, head, month, lost, inverted>>

-----------------------------------------------------------------------------

\* One step of the insert that connection w has under way.
Step(w) == Draw(w) \/ Refuse(w) \/ AcquireLock(w) \/ ReadHead(w) \/ Commit(w)

Next ==
    \/ \E w \in Writers :
          \/ \E body \in Bodies : Begin(w, body)
          \/ Step(w)
          \/ Abort(w)
    \/ NextMonth
    \/ EnsurePartitionsAhead
    \/ DetachOldest

Spec == Init /\ [][Next]_vars

\* PostgreSQL runs every statement it has accepted, and queues the waiters of
\* an advisory lock, so that a waiter is not passed over for ever. Nothing makes
\* an application insert, an operator detach or a month end.
Fairness ==
    \A w \in Writers :
        /\ WF_vars(Draw(w) \/ Refuse(w) \/ ReadHead(w) \/ Commit(w))
        /\ SF_vars(AcquireLock(w))

FairSpec == Spec /\ Fairness

-----------------------------------------------------------------------------
(* Properties *)

Seqs == Nat \ {0}

RowType(r) ==
    /\ r = [month |-> r.month, body |-> r.body, prev |-> r.prev, hash |-> r.hash]
    /\ r.month \in Seqs
    /\ r.body \in Bodies

\* The state of the table, the sequence, the lock and the inserts under way has
\* the shape that 004_audit_log.sql declares.
TypeOK ==
    /\ DOMAIN log \subseteq Seqs
    /\ \A s \in DOMAIN log : RowType(log[s])
    /\ nextSeq \in Seqs
    /\ lock \in Writers \cup {NoWriter}
    /\ pc \in [Writers -> {"idle", "begun", "routed", "locked", "chained"}]
    /\ new \in [Writers -> [seq : Nat, month : Nat, body : Bodies \cup {NoBody}]]
    /\ head = [w \in Writers |-> head[w]]
    /\ month \in Seqs
    /\ partitions \subseteq Seqs
    /\ lost \subseteq Seqs
    /\ inverted \in BOOLEAN
    /\ pruned \in BOOLEAN

\* What the advisory lock of audit_hash_chain() is for: the head that a
\* connection has read is still the head of the table when it commits, whatever
\* the other connections, the abort of any of them and a detach do in between.
HeadStillHead ==
    \A w \in Writers : pc[w] = "chained" => head[w] = HeadHash(log)

\* While rows commit in the order of their seq and their time, verify_audit_chain() accepts the
\* table: from 0 as long as every row is attached, and from any seq that has an
\* attached row below it once partitions have been detached.
OrderedChainVerifies ==
    ~inverted =>
        /\ ~pruned => ChainOk(log, 0)
        /\ \A from \in DOMAIN log :
              (\E s \in DOMAIN log : s < from) => ChainOk(log, from)

\* "Detects edits, deletions and reordering anywhere except at the very end of
\* the chain - truncating the tail is caught by comparing audit_chain_head()":
\* when the table verifies, every other selection of its rows that verifies too
\* has a different head.
RemovalEvident ==
    ChainOk(log, 0) =>
        \A kept \in SUBSET DOMAIN log :
            LET rows == [s \in kept |-> log[s]]
            IN  ChainOk(rows, 0) /\ HeadHash(rows) = HeadHash(log) => kept = DOMAIN log

\* When the table verifies and one row's contents are changed in place, the walk
\* stops at exactly that row: verify_audit_chain() names the edited row.
EditNamed ==
    ChainOk(log, 0) =>
        \A s \in DOMAIN log : \A body \in Bodies \ {log[s].body} :
            BadRows([log EXCEPT ![s].body = body], 0) = {s}

\* An insert that was begun ends, committed or refused or rolled back: nobody
\* waits for ever for the advisory lock, even when its holder dies.
InsertsEnd == \A w \in Writers : pc[w] # "idle" ~> pc[w] = "idle"

\* "Two concurrent inserts would otherwise both read the same predecessor and
\* produce a fork" (005_audit_chain.sql): no two rows name one predecessor.
NoFork == \A s, t \in DOMAIN log : log[s].prev = log[t].prev => s = t

\* "the insert path also calls it lazily so a missed cron run cannot lose an
\* event" (004_audit_log.sql): no insert is refused for want of a partition.
NoEventLost == lost = {}

=============================================================================
