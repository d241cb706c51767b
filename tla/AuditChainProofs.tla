-------------------------- MODULE AuditChainProofs --------------------------
(***************************************************************************)
(* What the audit chain guarantees for any number of connections, rows,    *)
(* months and kinds of event: proofs of the invariants of AuditChain.      *)
(***************************************************************************)
EXTENDS AuditChain, WellFoundedInduction, TLAPS

-----------------------------------------------------------------------------
(* Largest and smallest elements *)

\* The order of the naturals as a relation.
LessThan == {p \in Nat \X Nat : p[1] < p[2]}

\* A set of naturals that is not empty has a least element.
LEMMA MinExists ==
    ASSUME NEW S \in SUBSET Nat, S # {}
    PROVE  Min(S) \in S /\ \A y \in S : Min(S) <= y
<1>1. OpToRel(<, Nat) = LessThan
  BY Zenon DEF OpToRel, LessThan
<1>2. IsWellFoundedOn(LessThan, Nat)
  BY <1>1, NatLessThanWellFounded, Zenon
<1>3. PICK x \in S : \A y \in S : ~(<<y, x>> \in LessThan)
  BY <1>2, WFMin
<1>4. \A a, b \in Nat : a < b => <<a, b>> \in LessThan
  BY DEF LessThan
<1>5. \A y \in S : y \in Nat /\ x \in Nat /\ ~(y < x)
  BY <1>3, <1>4
<1>6. \A y \in S : x <= y
  BY <1>5
<1>. QED BY <1>6 DEF Min

\* A set of naturals that is bounded and not empty has a greatest element.
LEMMA MaxExists ==
    ASSUME NEW S \in SUBSET Nat, S # {}, NEW n \in Nat, \A y \in S : y <= n
    PROVE  Max(S) \in S /\ \A y \in S : y <= Max(S)
<1>. DEFINE T == {n - y : y \in S}
<1>0. \A y \in S : n - y \in Nat
  OBVIOUS
<1>1. T \in SUBSET Nat /\ T # {}
  BY <1>0
<1>2. Min(T) \in T /\ \A z \in T : Min(T) <= z
  BY <1>1, MinExists
<1>3. PICK x \in S : Min(T) = n - x
  BY <1>2
<1>4. \A y \in S : n - x <= n - y
  BY <1>2, <1>3
<1>5. \A y \in S : x >= y
  BY <1>4
<1>. QED BY <1>5 DEF Max

\* The row below n: the greatest of the smaller seqs.
LEMMA BelowIsRow ==
    ASSUME NEW rows, DOMAIN rows \subseteq Nat, NEW n \in Nat,
           \E s \in DOMAIN rows : s < n
    PROVE  \E m \in DOMAIN rows :
              /\ m < n
              /\ \A s \in DOMAIN rows : s < n => s <= m
              /\ HashBelow(rows, n) = rows[m].hash
<1>. DEFINE S == {s \in DOMAIN rows : s < n}
<1>1. S \in SUBSET Nat /\ S # {} /\ \A y \in S : y <= n
  OBVIOUS
<1>2. Max(S) \in S /\ \A y \in S : y <= Max(S)
  BY <1>1, MaxExists
<1>3. HashBelow(rows, n) = rows[Max(S)].hash
  BY <1>1 DEF HashBelow
<1>. QED BY <1>2, <1>3

\* No row below n: the walk starts from the genesis hash.
LEMMA BelowIsGenesis ==
    ASSUME NEW rows, NEW n, ~\E s \in DOMAIN rows : s < n
    PROVE  HashBelow(rows, n) = Genesis
BY DEF HashBelow

\* The head: the greatest of the seqs, all of which are below n.
LEMMA HeadIsRow ==
    ASSUME NEW rows, DOMAIN rows \subseteq Nat, DOMAIN rows # {},
           NEW n \in Nat, \A s \in DOMAIN rows : s < n
    PROVE  \E m \in DOMAIN rows :
              /\ \A s \in DOMAIN rows : s <= m
              /\ HeadHash(rows) = rows[m].hash
<1>1. \A y \in DOMAIN rows : y <= n
  OBVIOUS
<1>2. Max(DOMAIN rows) \in DOMAIN rows /\ \A y \in DOMAIN rows : y <= Max(DOMAIN rows)
  BY <1>1, MaxExists
<1>. QED BY <1>2 DEF HeadHash

-----------------------------------------------------------------------------
(* The inductive invariant *)

Drawn(w) == pc[w] \in {"routed", "locked", "chained"}

\* Every seq in use was drawn from the sequence, and by one insert only.
SeqInv ==
    /\ \A s \in DOMAIN log : s < nextSeq
    /\ \A w \in Writers : Drawn(w) =>
          /\ new[w].seq \in Seqs
          /\ new[w].seq < nextSeq
          /\ new[w].seq \notin DOMAIN log
    /\ \A v, w \in Writers : Drawn(v) /\ Drawn(w) /\ v # w => new[v].seq # new[w].seq

\* The lock is held by the insert that is between its grant and its commit.
LockInv == \A w \in Writers : pc[w] \in {"locked", "chained"} <=> lock = w

\* A row that is stored, or routed, has its partition attached.
PartitionInv ==
    /\ \A s \in DOMAIN log : log[s].month \in partitions
    /\ \A w \in Writers : Drawn(w) => new[w].month \in partitions
    /\ \A w \in Writers : pc[w] # "idle" => new[w].month \in Seqs /\ new[w].body \in Bodies

\* The hash of every row is the one its contents call for.
HashInv == \A s \in DOMAIN log : log[s].hash = Hash(Payload(s, log[s]), log[s].prev)

\* While commits are in order: months rise with seq, and each row that has a row
\* below it, or that has every earlier row attached, is linked to the row below.
OrderInv ==
    ~inverted =>
        /\ \A s, t \in DOMAIN log : s < t => log[s].month <= log[t].month
        /\ \A s \in DOMAIN log :
              (~pruned \/ \E t \in DOMAIN log : t < s) => log[s].prev = HashBelow(log, s)

IInv ==
    /\ TypeOK
    /\ SeqInv
    /\ LockInv
    /\ PartitionInv
    /\ HashInv
    /\ HeadStillHead
    /\ OrderInv

-----------------------------------------------------------------------------
(* The invariant holds initially and is preserved by every step *)

LEMMA InitInv == Init => IInv
<1>. SUFFICES ASSUME Init PROVE IInv
  OBVIOUS
<1>1. TypeOK
  <2>1. DOMAIN log = {}
    BY DEF Init
  <2>2. head = [w \in Writers |-> head[w]]
    BY DEF Init
  <2>3. new \in [Writers -> [seq : Nat, month : Nat, body : Bodies \cup {NoBody}]]
    BY DEF Init, NoRow
  <2>4. pc \in [Writers -> {"idle", "begun", "routed", "locked", "chained"}]
    BY DEF Init
  <2>5. nextSeq \in Seqs /\ lock \in Writers \cup {NoWriter}
    BY DEF Init, Seqs
  <2>6. month \in Seqs /\ partitions \subseteq Seqs /\ lost \subseteq Seqs
    BY DEF Init, Seqs
  <2>7. inverted \in BOOLEAN /\ pruned \in BOOLEAN
    BY DEF Init
  <2>. QED BY <2>1, <2>2, <2>3, <2>4, <2>5, <2>6, <2>7 DEF TypeOK
<1>2. SeqInv /\ LockInv /\ PartitionInv
  BY NoWriterAssumption DEF Init, SeqInv, LockInv, PartitionInv, Drawn, NoRow
<1>3. HashInv /\ HeadStillHead /\ OrderInv
  BY DEF Init, HashInv, HeadStillHead, OrderInv
<1>. QED BY <1>1, <1>2, <1>3 DEF IInv

\* A step that leaves the table as it is keeps what only the table decides.
LEMMA TableUnchanged ==
    ASSUME IInv, UNCHANGED <<log, inverted, pruned>>
    PROVE  HashInv' /\ OrderInv'
BY DEF IInv, HashInv, OrderInv

LEMMA BeginInv ==
    ASSUME IInv, NEW w \in Writers, NEW body \in Bodies, Begin(w, body)
    PROVE  IInv'
<1>1. HashInv' /\ OrderInv'
  BY TableUnchanged DEF Begin
<1>2. TypeOK'
  BY DEF IInv, TypeOK, Begin, Seqs
<1>3. SeqInv' /\ LockInv' /\ PartitionInv'
  BY DEF IInv, TypeOK, Begin, Seqs, SeqInv, LockInv, PartitionInv, Drawn
<1>4. HeadStillHead'
  BY DEF IInv, TypeOK, Begin, HeadStillHead
<1>. QED BY <1>1, <1>2, <1>3, <1>4 DEF IInv

LEMMA DrawInv ==
    ASSUME IInv, NEW w \in Writers, Draw(w)
    PROVE  IInv'
<1>1. HashInv' /\ OrderInv'
  BY TableUnchanged DEF Draw
<1>2. TypeOK'
  BY DEF IInv, TypeOK, Draw, Seqs
<1>3. SeqInv'
  BY DEF IInv, TypeOK, Draw, Seqs, SeqInv, Drawn
<1>4. LockInv' /\ PartitionInv'
  BY DEF IInv, TypeOK, Draw, Seqs, LockInv, PartitionInv, Drawn
<1>5. HeadStillHead'
  BY DEF IInv, TypeOK, Draw, HeadStillHead
<1>. QED BY <1>1, <1>2, <1>3, <1>4, <1>5 DEF IInv

LEMMA RefuseInv ==
    ASSUME IInv, NEW w \in Writers, Refuse(w)
    PROVE  IInv'
<1>1. HashInv' /\ OrderInv'
  BY TableUnchanged DEF Refuse
<1>2. TypeOK'
  BY DEF IInv, TypeOK, Refuse, Seqs, NoRow
<1>3. SeqInv' /\ LockInv' /\ PartitionInv'
  BY DEF IInv, TypeOK, Refuse, Seqs, SeqInv, LockInv, PartitionInv, Drawn, NoRow
<1>4. HeadStillHead'
  BY DEF IInv, TypeOK, Refuse, HeadStillHead
<1>. QED BY <1>1, <1>2, <1>3, <1>4 DEF IInv

LEMMA AcquireLockInv ==
    ASSUME IInv, NEW w \in Writers, AcquireLock(w)
    PROVE  IInv'
<1>1. HashInv' /\ OrderInv'
  BY TableUnchanged DEF AcquireLock
<1>2. TypeOK'
  BY DEF IInv, TypeOK, AcquireLock
<1>3. SeqInv' /\ PartitionInv'
  BY DEF IInv, TypeOK, AcquireLock, SeqInv, PartitionInv, Drawn
<1>4. LockInv'
  BY NoWriterAssumption DEF IInv, TypeOK, AcquireLock, LockInv
<1>5. HeadStillHead'
  BY DEF IInv, TypeOK, AcquireLock, HeadStillHead
<1>. QED BY <1>1, <1>2, <1>3, <1>4, <1>5 DEF IInv

LEMMA ReadHeadInv ==
    ASSUME IInv, NEW w \in Writers, ReadHead(w)
    PROVE  IInv'
<1>1. HashInv' /\ OrderInv'
  BY TableUnchanged DEF ReadHead
<1>2. TypeOK'
  BY DEF IInv, TypeOK, ReadHead
<1>3. SeqInv' /\ PartitionInv'
  BY DEF IInv, TypeOK, ReadHead, SeqInv, PartitionInv, Drawn
<1>4. LockInv'
  BY DEF IInv, TypeOK, ReadHead, LockInv
<1>5. HeadStillHead'
  BY DEF IInv, TypeOK, ReadHead, HeadStillHead
<1>. QED BY <1>1, <1>2, <1>3, <1>4, <1>5 DEF IInv

LEMMA AbortInv ==
    ASSUME IInv, NEW w \in Writers, Abort(w)
    PROVE  IInv'
<1>1. HashInv' /\ OrderInv'
  BY TableUnchanged DEF Abort
<1>2. TypeOK'
  BY DEF IInv, TypeOK, Abort, NoRow
<1>3. SeqInv' /\ PartitionInv'
  BY DEF IInv, TypeOK, Abort, SeqInv, PartitionInv, Drawn, NoRow
<1>4. LockInv'
  BY NoWriterAssumption DEF IInv, TypeOK, Abort, LockInv
<1>5. HeadStillHead'
  BY DEF IInv, TypeOK, Abort, HeadStillHead
<1>. QED BY <1>1, <1>2, <1>3, <1>4, <1>5 DEF IInv

LEMMA CalendarInv ==
    ASSUME IInv, NextMonth \/ EnsurePartitionsAhead
    PROVE  IInv'
<1>1. HashInv' /\ OrderInv'
  BY TableUnchanged DEF NextMonth, EnsurePartitionsAhead
<1>2. TypeOK'
  BY DEF IInv, TypeOK, NextMonth, EnsurePartitionsAhead, Seqs
<1>3. SeqInv' /\ LockInv' /\ PartitionInv' /\ HeadStillHead'
  BY DEF IInv, NextMonth, EnsurePartitionsAhead, SeqInv, LockInv, PartitionInv,
         HeadStillHead, Drawn
<1>. QED BY <1>1, <1>2, <1>3 DEF IInv

\* A commit in order puts its row above every other one, and below the row it
\* is linked to; a commit out of order leaves nothing to show.
LEMMA CommitInv ==
    ASSUME IInv, NEW w \in Writers, Commit(w)
    PROVE  IInv'
<1>. DEFINE n == new[w].seq
            row == Chained(new[w], head[w])
<1>1. /\ n \in Seqs /\ n < nextSeq /\ n \notin DOMAIN log
      /\ new[w].month \in partitions /\ new[w].month \in Seqs /\ new[w].body \in Bodies
      /\ head[w] = HeadHash(log)
      /\ lock = w
  BY DEF IInv, TypeOK, SeqInv, LockInv, PartitionInv, HeadStillHead, Drawn, Commit
<1>2. /\ DOMAIN log' = DOMAIN log \cup {n}
      /\ log'[n] = row
      /\ \A s \in DOMAIN log : log'[s] = log[s]
  BY <1>1 DEF Commit
<1>3. /\ row = [month |-> row.month, body |-> row.body, prev |-> row.prev, hash |-> row.hash]
      /\ row.month = new[w].month /\ row.body = new[w].body /\ row.prev = head[w]
      /\ row.hash = Hash(Payload(n, row), row.prev)
  BY DEF Chained, Payload
<1>4. TypeOK'
  <2>1. \A s \in DOMAIN log' : RowType(log'[s])
    BY <1>1, <1>2, <1>3 DEF IInv, TypeOK, RowType
  <2>2. DOMAIN log' \subseteq Seqs
    BY <1>1, <1>2 DEF IInv, TypeOK
  <2>. QED BY <2>1, <2>2 DEF IInv, TypeOK, Commit, NoRow
<1>5. SeqInv'
  BY <1>1, <1>2 DEF IInv, TypeOK, SeqInv, Drawn, Commit, NoRow
<1>6. LockInv'
  BY <1>1, NoWriterAssumption DEF IInv, TypeOK, LockInv, Commit
<1>7. PartitionInv'
  BY <1>1, <1>2, <1>3 DEF IInv, TypeOK, PartitionInv, Drawn, Commit
<1>8. HashInv'
  BY <1>2, <1>3 DEF IInv, HashInv
<1>9. HeadStillHead'
  BY <1>1 DEF IInv, TypeOK, LockInv, HeadStillHead, Commit
<1>10. OrderInv'
  <2>. SUFFICES ASSUME ~inverted' PROVE OrderInv'
    BY DEF OrderInv
  <2>1. ~inverted /\ pruned' = pruned
    BY DEF Commit
  <2>2. \A s \in DOMAIN log : s < n /\ log[s].month <= new[w].month
    <3>1. \A s \in DOMAIN log : ~(s > n) /\ ~(log[s].month > new[w].month)
      BY DEF Commit
    <3>2. \A s \in DOMAIN log : s \in Nat /\ s # n /\ log[s].month \in Nat
      BY <1>1 DEF IInv, TypeOK, RowType, Seqs
    <3>. QED BY <1>1, <3>1, <3>2 DEF Seqs, IInv, TypeOK
  <2>3. \A s, t \in DOMAIN log' : s < t => log'[s].month <= log'[t].month
    BY <1>1, <1>2, <1>3, <2>1, <2>2 DEF IInv, TypeOK, OrderInv, RowType, Seqs
  <2>4. ASSUME NEW s \in DOMAIN log PROVE HashBelow(log', s) = HashBelow(log, s)
    <3>1. {t \in DOMAIN log' : t < s} = {t \in DOMAIN log : t < s}
      BY <1>1, <1>2, <2>2, <2>4 DEF IInv, TypeOK, Seqs
    <3>2. CASE \E t \in DOMAIN log : t < s
      <4>1. DOMAIN log \subseteq Nat /\ s \in Nat
        BY <2>4 DEF IInv, TypeOK, Seqs
      <4>2. Max({t \in DOMAIN log : t < s}) \in DOMAIN log
        <5>. DEFINE S == {t \in DOMAIN log : t < s}
        <5>1. S \in SUBSET Nat /\ S # {} /\ \A y \in S : y <= s
          BY <3>2, <4>1
        <5>. QED BY <4>1, <5>1, MaxExists
      <4>. QED BY <1>2, <3>1, <4>2 DEF HashBelow
    <3>3. CASE ~\E t \in DOMAIN log : t < s
      BY <3>1, <3>3 DEF HashBelow
    <3>. QED BY <3>2, <3>3
  <2>5. HashBelow(log', n) = HeadHash(log)
    <3>1. {t \in DOMAIN log' : t < n} = DOMAIN log
      BY <1>1, <1>2, <2>2 DEF Seqs
    <3>2. DOMAIN log # {} => Max(DOMAIN log) \in DOMAIN log
      <4>1. DOMAIN log \in SUBSET Nat /\ nextSeq \in Nat /\ \A y \in DOMAIN log : y <= nextSeq
        BY DEF IInv, TypeOK, SeqInv, Seqs
      <4>. QED BY <4>1, MaxExists
    <3>. QED BY <1>2, <3>1, <3>2 DEF HashBelow, HeadHash
  <2>6. ASSUME NEW s \in DOMAIN log', ~pruned' \/ \E t \in DOMAIN log' : t < s
        PROVE  log'[s].prev = HashBelow(log', s)
    <3>1. CASE s = n
      BY <1>1, <1>2, <1>3, <2>5, <3>1
    <3>2. CASE s \in DOMAIN log
      <4>1. ~pruned \/ \E t \in DOMAIN log : t < s
        BY <1>1, <1>2, <2>1, <2>2, <2>6, <3>2 DEF IInv, TypeOK, Seqs
      <4>. QED BY <1>2, <2>1, <2>4, <3>2, <4>1 DEF IInv, OrderInv
    <3>. QED BY <1>2, <3>1, <3>2
  <2>. QED BY <2>3, <2>6 DEF OrderInv
<1>. QED BY <1>4, <1>5, <1>6, <1>7, <1>8, <1>9, <1>10 DEF IInv

\* Months rise with seq while commits are in order, so a detach takes rows from
\* the low end: a row that keeps a row below it keeps the one it is linked to.
LEMMA DetachInv ==
    ASSUME IInv, DetachOldest
    PROVE  IInv'
<1>. DEFINE oldest == Min(partitions)
            gone == {s \in DOMAIN log : log[s].month = oldest}
<1>1. /\ DOMAIN log' = DOMAIN log \ gone
      /\ \A s \in DOMAIN log' : s \in DOMAIN log /\ log'[s] = log[s]
  BY DEF DetachOldest
<1>2. oldest \in partitions /\ \A m \in partitions : oldest <= m
  BY MinExists DEF DetachOldest, IInv, TypeOK, Seqs
<1>3. TypeOK'
  BY <1>1 DEF IInv, TypeOK, DetachOldest
<1>4. SeqInv' /\ LockInv'
  BY <1>1 DEF IInv, SeqInv, LockInv, Drawn, DetachOldest
<1>5. PartitionInv'
  BY <1>1 DEF IInv, TypeOK, PartitionInv, Drawn, DetachOldest
<1>6. HashInv'
  BY <1>1 DEF IInv, HashInv
<1>7. HeadStillHead'
  BY DEF HeadStillHead, DetachOldest
<1>8. OrderInv'
  <2>. SUFFICES ASSUME ~inverted' PROVE OrderInv'
    BY DEF OrderInv
  <2>1. ~inverted
    BY DEF DetachOldest
  <2>2. \A s, t \in DOMAIN log' : s < t => log'[s].month <= log'[t].month
    BY <1>1, <2>1 DEF IInv, OrderInv
  <2>3. ASSUME NEW s \in DOMAIN log', \E t \in DOMAIN log' : t < s
        PROVE  log'[s].prev = HashBelow(log', s)
    <3>1. DOMAIN log \subseteq Nat /\ s \in Nat /\ s \in DOMAIN log
      BY <1>1, <2>3 DEF IInv, TypeOK, Seqs
    <3>2. PICK m \in DOMAIN log :
             m < s /\ (\A t \in DOMAIN log : t < s => t <= m)
             /\ HashBelow(log, s) = log[m].hash
      BY <1>1, <2>3, <3>1, BelowIsRow
    <3>3. PICK t \in DOMAIN log' : t < s
      BY <2>3
    <3>4. log[t].month # oldest /\ log[t].month \in partitions /\ t <= m
      BY <1>1, <3>2, <3>3 DEF IInv, PartitionInv
    <3>5. log[t].month <= log[m].month
      <4>1. CASE t = m
        BY <1>1, <3>4, <4>1, <1>2 DEF IInv, TypeOK, Seqs
      <4>2. CASE t < m
        BY <1>1, <2>1, <3>3, <4>2 DEF IInv, OrderInv
      <4>. QED BY <1>1, <3>1, <3>4, <4>1, <4>2
    <3>6. m \in DOMAIN log'
      <4>1. log[t].month \in Nat /\ log[m].month \in Nat /\ oldest \in Nat
        BY <1>1, <1>2, <3>3 DEF IInv, TypeOK, RowType, Seqs
      <4>2. log[m].month # oldest
        <5>1. oldest <= log[t].month
          BY <1>2, <3>4
        <5>. QED BY <3>4, <3>5, <4>1, <5>1
      <4>. QED BY <1>1, <4>2
    <3>7. HashBelow(log', s) = log'[m].hash
      <4>1. DOMAIN log' \subseteq Nat
        BY <1>1, <3>1
      <4>2. PICK k \in DOMAIN log' :
               k < s /\ (\A u \in DOMAIN log' : u < s => u <= k)
               /\ HashBelow(log', s) = log'[k].hash
        BY <2>3, <3>1, <4>1, BelowIsRow
      <4>3. k <= m /\ m <= k /\ k \in Nat /\ m \in Nat
        BY <1>1, <3>1, <3>2, <3>6, <4>2
      <4>4. k = m
        BY <4>3
      <4>. QED BY <4>2, <4>4
    <3>8. log[s].prev = HashBelow(log, s)
      BY <1>1, <2>1, <2>3, <3>1 DEF IInv, OrderInv
    <3>. QED BY <1>1, <3>2, <3>6, <3>7, <3>8
  <2>4. ASSUME NEW s \in DOMAIN log', ~pruned' PROVE log'[s].prev = HashBelow(log', s)
    <3>1. ~pruned /\ gone = {}
      BY <2>4 DEF DetachOldest
    <3>2. CASE \E t \in DOMAIN log' : t < s
      BY <2>3, <3>2
    <3>3. CASE ~\E t \in DOMAIN log' : t < s
      <4>1. s \in DOMAIN log /\ ~\E t \in DOMAIN log : t < s
        BY <1>1, <3>1, <3>3
      <4>2. HashBelow(log', s) = Genesis /\ HashBelow(log, s) = Genesis
        BY <3>3, <4>1, BelowIsGenesis
      <4>. QED BY <1>1, <2>1, <3>1, <4>1, <4>2 DEF IInv, OrderInv
    <3>. QED BY <3>2, <3>3
  <2>. QED BY <2>2, <2>3, <2>4 DEF OrderInv
<1>. QED BY <1>3, <1>4, <1>5, <1>6, <1>7, <1>8 DEF IInv

LEMMA NextInv == IInv /\ [Next]_vars => IInv'
<1>. SUFFICES ASSUME IInv, [Next]_vars PROVE IInv'
  OBVIOUS
<1>1. ASSUME NEW w \in Writers, NEW body \in Bodies, Begin(w, body) PROVE IInv'
  BY <1>1, BeginInv
<1>2. ASSUME NEW w \in Writers, Step(w) PROVE IInv'
  BY <1>2, DrawInv, RefuseInv, AcquireLockInv, ReadHeadInv, CommitInv DEF Step
<1>3. ASSUME NEW w \in Writers, Abort(w) PROVE IInv'
  BY <1>3, AbortInv
<1>4. CASE NextMonth \/ EnsurePartitionsAhead
  BY <1>4, CalendarInv
<1>5. CASE DetachOldest
  BY <1>5, DetachInv
<1>6. CASE UNCHANGED vars
  BY <1>6 DEF vars, IInv, TypeOK, SeqInv, LockInv, PartitionInv, HashInv,
              HeadStillHead, OrderInv, Drawn
<1>. QED BY <1>1, <1>2, <1>3, <1>4, <1>5, <1>6 DEF Next

\* In every state of every behaviour the inductive invariant holds.
THEOREM Invariance == Spec => []IInv
BY InitInv, NextInv, PTL DEF Spec

\* The table, the sequence, the lock and the inserts keep their types.
THEOREM TypeCorrect == Spec => []TypeOK
<1>1. IInv => TypeOK
  BY DEF IInv
<1>. QED BY Invariance, <1>1, PTL

\* The advisory lock of audit_hash_chain() does its work: what a trigger has
\* read as the head is the head when its row commits.
THEOREM HeadIsStable == Spec => []HeadStillHead
<1>1. IInv => HeadStillHead
  BY DEF IInv
<1>. QED BY Invariance, <1>1, PTL

-----------------------------------------------------------------------------
(* What the verifier says of the table *)

LEMMA OrderedStep == IInv => OrderedChainVerifies
<1>. SUFFICES ASSUME IInv, ~inverted
              PROVE  /\ ~pruned => ChainOk(log, 0)
                     /\ \A from \in DOMAIN log :
                           (\E s \in DOMAIN log : s < from) => ChainOk(log, from)
  BY DEF OrderedChainVerifies
<1>1. ~pruned => ChainOk(log, 0)
  BY DEF IInv, OrderInv, HashInv, ChainOk, BadRows, RowOk
<1>2. ASSUME NEW from \in DOMAIN log, NEW low \in DOMAIN log, low < from
      PROVE  ChainOk(log, from)
  <2>1. \A s \in DOMAIN log : s >= from => \E t \in DOMAIN log : t < s
    BY <1>2 DEF IInv, TypeOK, Seqs
  <2>. QED BY <2>1 DEF IInv, OrderInv, HashInv, ChainOk, BadRows, RowOk
<1>. QED BY <1>1, <1>2

\* verify_audit_chain() accepts every table whose rows committed in order, in
\* full or above its first retained row.
THEOREM OrderedVerifies == Spec => []OrderedChainVerifies
BY Invariance, OrderedStep, PTL

\* Two rows have different hashes: the seq is part of what is hashed.
LEMMA HashesDiffer ==
    ASSUME IInv, NEW s \in DOMAIN log, NEW t \in DOMAIN log, s # t
    PROVE  log[s].hash # log[t].hash /\ log[s].hash # Genesis
<1>1. /\ log[s].hash = <<<<s, log[s].month, log[s].body>>, log[s].prev>>
      /\ log[t].hash = <<<<t, log[t].month, log[t].body>>, log[t].prev>>
  BY DEF IInv, HashInv, Hash, Payload
<1>2. log[s].hash[1][1] = s /\ log[t].hash[1][1] = t
  BY <1>1
<1>. QED BY <1>1, <1>2 DEF Genesis

LEMMA HashNotGenesis ==
    ASSUME IInv, NEW s \in DOMAIN log
    PROVE  log[s].hash # Genesis
BY DEF IInv, HashInv, Hash, Payload, Genesis

\* The lowest row above the greatest missing one would be linked to two
\* different rows.
LEMMA RemovalStep == IInv => RemovalEvident
<1>. SUFFICES ASSUME IInv, ChainOk(log, 0), NEW kept \in SUBSET DOMAIN log,
                     ChainOk([s \in kept |-> log[s]], 0),
                     HeadHash([s \in kept |-> log[s]]) = HeadHash(log),
                     kept # DOMAIN log
              PROVE  FALSE
  BY DEF RemovalEvident
<1>. DEFINE rows == [s \in kept |-> log[s]]
            missing == DOMAIN log \ kept
<1>0. /\ DOMAIN log \subseteq Nat /\ nextSeq \in Nat
      /\ \A s \in DOMAIN log : s < nextSeq /\ s <= nextSeq /\ s >= 0
      /\ DOMAIN rows = kept /\ DOMAIN rows \subseteq Nat
      /\ \A s \in kept : rows[s] = log[s]
  BY DEF IInv, TypeOK, SeqInv, Seqs
<1>1. PICK m \in missing : \A s \in missing : s <= m
  <2>1. missing \in SUBSET Nat /\ missing # {}
    BY <1>0
  <2>2. Max(missing) \in missing /\ \A s \in missing : s <= Max(missing)
    BY <1>0, <2>1, MaxExists
  <2>. QED BY <2>2
<1>2. PICK h \in DOMAIN log : (\A s \in DOMAIN log : s <= h) /\ HeadHash(log) = log[h].hash
  BY <1>0, <1>1, HeadIsRow
<1>3. h \in kept
  <2>1. CASE kept = {}
    <3>1. HeadHash(rows) = Genesis
      BY <1>0, <2>1 DEF HeadHash
    <3>. QED BY <1>2, <3>1, HashNotGenesis
  <2>2. CASE kept # {}
    <3>1. PICK k \in kept : HeadHash(rows) = rows[k].hash
      BY <1>0, <2>2, HeadIsRow
    <3>2. log[k].hash = log[h].hash
      BY <1>0, <1>2, <3>1
    <3>3. k = h
      BY <1>0, <3>2, HashesDiffer
    <3>. QED BY <3>3
  <2>. QED BY <2>1, <2>2
<1>4. PICK t \in DOMAIN log : m < t /\ \A s \in DOMAIN log : m < s => t <= s
  <2>. DEFINE above == {s \in DOMAIN log : m < s}
  <2>1. above \in SUBSET Nat /\ h \in above
    BY <1>0, <1>1, <1>2, <1>3
  <2>2. Min(above) \in above /\ \A s \in above : Min(above) <= s
    BY <2>1, MinExists
  <2>. QED BY <2>2
<1>5. t \in kept
  BY <1>0, <1>1, <1>4
<1>6. log[t].prev = log[m].hash
  <2>1. PICK p \in DOMAIN log :
           p < t /\ (\A s \in DOMAIN log : s < t => s <= p)
           /\ HashBelow(log, t) = log[p].hash
    BY <1>0, <1>1, <1>4, BelowIsRow
  <2>2. p = m
    BY <1>0, <1>1, <1>4, <2>1
  <2>3. log[t].prev = HashBelow(log, t)
    BY <1>0 DEF ChainOk, BadRows, RowOk
  <2>. QED BY <2>1, <2>2, <2>3
<1>7. log[t].prev = HashBelow(rows, t)
  BY <1>0, <1>5 DEF ChainOk, BadRows, RowOk
<1>8. HashBelow(rows, t) # log[m].hash
  <2>1. CASE \E s \in DOMAIN rows : s < t
    <3>1. PICK p \in DOMAIN rows : HashBelow(rows, t) = rows[p].hash
      BY <1>0, <1>4, <2>1, BelowIsRow
    <3>2. p # m /\ p \in DOMAIN log /\ m \in DOMAIN log /\ rows[p] = log[p]
      BY <1>0, <1>1, <3>1
    <3>. QED BY <3>1, <3>2, HashesDiffer
  <2>2. CASE ~\E s \in DOMAIN rows : s < t
    <3>1. HashBelow(rows, t) = Genesis
      BY <2>2, BelowIsGenesis
    <3>. QED BY <1>1, <3>1, HashNotGenesis
  <2>. QED BY <2>1, <2>2
<1>. QED BY <1>6, <1>7, <1>8

\* With the head anchored elsewhere, no selection of rows can be taken out of a
\* table that verifies without verify_audit_chain() or the anchor showing it.
THEOREM RemovalIsEvident == Spec => []RemovalEvident
BY Invariance, RemovalStep, PTL

LEMMA EditStep == IInv => EditNamed
<1>. SUFFICES ASSUME IInv, ChainOk(log, 0), NEW s \in DOMAIN log,
                     NEW body \in Bodies, body # log[s].body
              PROVE  BadRows([log EXCEPT ![s].body = body], 0) = {s}
  BY DEF EditNamed
<1>. DEFINE rows == [log EXCEPT ![s].body = body]
<1>0. /\ DOMAIN log \subseteq Nat /\ DOMAIN rows = DOMAIN log
      /\ \A t \in DOMAIN log : t >= 0 /\ RowOk(log, t)
  BY DEF IInv, TypeOK, Seqs, ChainOk, BadRows
<1>1. /\ rows[s].body = body /\ rows[s].month = log[s].month
      /\ rows[s].prev = log[s].prev /\ rows[s].hash = log[s].hash
  BY DEF IInv, TypeOK, RowType
<1>2. \A t \in DOMAIN log : t # s => rows[t] = log[t]
  OBVIOUS
<1>3. \A t \in DOMAIN log : rows[t].hash = log[t].hash /\ rows[t].prev = log[t].prev
  BY <1>1, <1>2
<1>4. ~RowOk(rows, s)
  <2>1. log[s].hash = <<<<s, log[s].month, log[s].body>>, log[s].prev>>
    BY DEF IInv, HashInv, Hash, Payload
  <2>2. Hash(Payload(s, rows[s]), rows[s].prev) = <<<<s, log[s].month, body>>, log[s].prev>>
    BY <1>1 DEF Hash, Payload
  <2>3. log[s].hash # Hash(Payload(s, rows[s]), rows[s].prev)
    BY <2>1, <2>2
  <2>. QED BY <1>1, <2>3 DEF RowOk
<1>5. ASSUME NEW t \in DOMAIN log, t # s PROVE RowOk(rows, t)
  <2>1. HashBelow(rows, t) = HashBelow(log, t)
    <3>1. CASE \E u \in DOMAIN log : u < t
      <4>. DEFINE S == {u \in DOMAIN log : u < t}
      <4>1. S \in SUBSET Nat /\ S # {} /\ t \in Nat /\ \A y \in S : y <= t
        BY <1>0, <3>1
      <4>2. Max(S) \in DOMAIN log
        BY <4>1, MaxExists
      <4>. QED BY <1>0, <1>3, <4>2 DEF HashBelow
    <3>2. CASE ~\E u \in DOMAIN log : u < t
      BY <1>0, <3>2, BelowIsGenesis
    <3>. QED BY <3>1, <3>2
  <2>. QED BY <1>0, <1>2, <1>5, <2>1 DEF RowOk
<1>. QED BY <1>0, <1>4, <1>5 DEF BadRows

\* An edit of one row in a table that verifies is found, and at that row.
THEOREM EditIsNamed == Spec => []EditNamed
BY Invariance, EditStep, PTL

=============================================================================
