--------------------------- MODULE RateLimitProofs ---------------------------
(***************************************************************************)
(* Proofs for RateLimit: types, how far failed logins overshoot their limit   *)
(* and that unlocks do not, for every number of handlers, users, addresses,   *)
(* rows and ticks and for all limits and windows.                             *)
(***************************************************************************)
EXTENDS RateLimit, FiniteSetTheorems, TLAPS

-----------------------------------------------------------------------------
(* The inductive invariant *)

\* The second row of a failed login is for a known address, and what an unlock
\* about to be checked calls its own is its user's row.
HandlerInv ==
    \A h \in Handlers :
        /\ call[h].step = "half" => call[h].peer \in Peers
        /\ call[h].step = "budget" =>
              call[h].own \in 1 .. written /\ subject[call[h].own] = ByActor(call[h].user)

RInv ==
    /\ TypeOK /\ HandlerInv /\ passed \subseteq 1 .. written
    /\ OvershootBounded /\ UnlocksBounded

-----------------------------------------------------------------------------
(* Counting *)

LEMMA RecentCounts ==
    ASSUME TypeOK, NEW s, NEW window
    PROVE  /\ Recent(s, window) \subseteq 1 .. written
           /\ IsFiniteSet(Recent(s, window))
           /\ Cardinality(Recent(s, window)) \in 0 .. written
<1>1. Recent(s, window) \subseteq 1 .. written
  BY DEF Recent
<1>2. written \in Nat /\ IsFiniteSet(1 .. written) /\ Cardinality(1 .. written) = written
  BY LimitAssumption, FS_Interval DEF TypeOK
<1>. QED BY <1>1, <1>2, FS_Subset, FS_CardinalityType

\* Time only takes rows out of a window.
LEMMA RecentShrinks ==
    ASSUME TypeOK, NEW s, NEW window \in Nat, Tick
    PROVE  Recent(s, window)' \subseteq Recent(s, window)
BY LimitAssumption DEF Recent, Tick, tableVars, TypeOK, Rows

\* A row that is written now is in the window of its subject, and of no other.
LEMMA RecentGrows ==
    ASSUME TypeOK, NEW s, NEW t, NEW window \in Nat \ {0}, Write(t), clock' = clock
    PROVE  Recent(s, window)' = IF s = t THEN Recent(s, window) \cup {written + 1}
                                         ELSE Recent(s, window)
<1>1. /\ written \in Nat /\ written + 1 \in Rows /\ clock \in Nat
      /\ written' = written + 1
      /\ \A r \in Rows : /\ subject'[r] = IF r = written + 1 THEN t ELSE subject[r]
                         /\ at'[r] = IF r = written + 1 THEN clock ELSE at[r]
  BY LimitAssumption DEF TypeOK, Write, Rows
<1>2. 1 .. written' = (1 .. written) \cup {written + 1} /\ 1 .. written' \subseteq Rows
  BY <1>1, LimitAssumption DEF Rows
<1>3. written + 1 \notin 1 .. written
  BY <1>1
<1>4. clock > clock - window
  BY <1>1
<1>. QED BY <1>1, <1>2, <1>3, <1>4 DEF Recent

LEMMA RecentSame ==
    ASSUME NEW s, NEW window, UNCHANGED <<clock, tableVars>>
    PROVE  Recent(s, window)' = Recent(s, window)
BY DEF Recent, tableVars

LEMMA CountGrows ==
    ASSUME TypeOK, NEW s, NEW t, NEW window \in Nat \ {0}, Write(t), clock' = clock
    PROVE  Cardinality(Recent(s, window)') =
               IF s = t THEN Cardinality(Recent(s, window)) + 1
                        ELSE Cardinality(Recent(s, window))
<1>1. written \in Nat /\ written + 1 \notin 1 .. written
  BY LimitAssumption DEF TypeOK
<1>2. written + 1 \notin Recent(s, window) /\ IsFiniteSet(Recent(s, window))
  BY <1>1, RecentCounts
<1>3. Cardinality(Recent(s, window) \cup {written + 1}) = Cardinality(Recent(s, window)) + 1
  BY <1>2, FS_AddElement
<1>. QED BY <1>3, RecentGrows

\* The ways in which a count and the requests that may add to it stay below
\* the limit and one for each handler.
LEMMA StaysBelow ==
    ASSUME NEW f \in Nat, NEW g \in Nat, NEW S \in SUBSET Handlers, NEW T \in SUBSET Handlers,
           f + Cardinality(S) < LoginLimit + Cardinality(Handlers),
           \/ g <= f /\ T \subseteq S
           \/ g <= f + 1 /\ \E h \in S : T \subseteq S \ {h}
           \/ g < LoginLimit
    PROVE  g + Cardinality(T) < LoginLimit + Cardinality(Handlers)
<1>1. /\ IsFiniteSet(S) /\ IsFiniteSet(T)
      /\ Cardinality(S) \in Nat /\ Cardinality(T) \in Nat /\ Cardinality(Handlers) \in Nat
      /\ Cardinality(T) <= Cardinality(Handlers)
  BY HandlersFinite, FS_Subset, FS_CardinalityType
<1>2. LoginLimit \in Nat
  BY LimitAssumption
<1>3. CASE g <= f /\ T \subseteq S
  <2>1. Cardinality(T) <= Cardinality(S)
    BY <1>1, <1>3, FS_Subset
  <2>. QED BY <1>1, <1>2, <1>3, <2>1
<1>4. CASE g <= f + 1 /\ \E h \in S : T \subseteq S \ {h}
  <2>1. PICK h \in S : T \subseteq S \ {h}
    BY <1>4
  <2>2. IsFiniteSet(S \ {h}) /\ Cardinality(S \ {h}) = Cardinality(S) - 1
    BY <1>1, FS_RemoveElement
  <2>3. Cardinality(T) <= Cardinality(S) - 1
    BY <2>1, <2>2, FS_Subset
  <2>. QED BY <1>1, <1>2, <1>4, <2>3
<1>5. CASE g < LoginLimit
  BY <1>1, <1>2, <1>5
<1>. QED BY <1>3, <1>4, <1>5

-----------------------------------------------------------------------------
(* What a handler changes *)

\* A handler at work.
Busy == [step : Steps, user : Users, peer : Peers \cup {NoPeer},
         seen : 0 .. MaxRow, own : 0 .. MaxRow]

LEMMA IdleIsIdle ==
    ASSUME TypeOK, NEW h \in Handlers
    PROVE  /\ call[h] = Idle <=> call[h].step = "idle"
           /\ call[h] # Idle => call[h] \in Busy
BY DEF TypeOK, Idle, Busy, Steps

\* It moves on to another step of the same request.
LEMMA GoMoves ==
    ASSUME TypeOK, NEW h \in Handlers, NEW from \in Steps, NEW to \in Steps, Go(h, from, to)
    PROVE  /\ call' \in [Handlers -> {Idle} \cup Busy]
           /\ call[h] \in Busy /\ call[h].step = from
           /\ call'[h].step = to
           /\ call'[h].user = call[h].user /\ call'[h].peer = call[h].peer
           /\ call'[h].seen = call[h].seen /\ call'[h].own = call[h].own
           /\ \A g \in Handlers : g # h => call'[g] = call[g]
<1>1. call[h] \in Busy /\ call[h].step = from
  BY IdleIsIdle DEF Go, Steps
<1>2. call \in [Handlers -> {Idle} \cup Busy]
  BY DEF TypeOK, Busy
<1>3. call' = [call EXCEPT ![h] = [call[h] EXCEPT !.step = to]]
  BY DEF Go
<1>4. [call[h] EXCEPT !.step = to] \in Busy
  BY <1>1 DEF Busy
<1>. QED BY <1>1, <1>2, <1>3, <1>4 DEF Busy

\* It answers.
LEMMA LeaveMoves ==
    ASSUME TypeOK, NEW h \in Handlers, NEW from \in Steps, Leave(h, from)
    PROVE  /\ call' \in [Handlers -> {Idle} \cup Busy]
           /\ call[h] \in Busy /\ call[h].step = from
           /\ call'[h] = Idle
           /\ \A g \in Handlers : g # h => call'[g] = call[g]
<1>1. call[h] \in Busy /\ call[h].step = from
  BY IdleIsIdle DEF Leave, Steps
<1>2. call \in [Handlers -> {Idle} \cup Busy]
  BY DEF TypeOK, Busy
<1>. QED BY <1>1, <1>2 DEF Leave

\* The three ways a row gets written, and who writes it.
LEMMA WriteTypes ==
    ASSUME TypeOK, NEW s, Write(s), clock' = clock,
           s \in {"user"} \X Users \cup {"ip"} \X Peers \cup {"actor"} \X Users
    PROVE  /\ written' \in 0 .. MaxRow /\ written \in Nat /\ written' = written + 1
           /\ subject' \in [Rows -> {"user"} \X Users \cup {"ip"} \X Peers
                                    \cup {"actor"} \X Users \cup {<<>>}]
           /\ at' \in [Rows -> 0 .. MaxClock + 1]
           /\ \A r \in 1 .. written : subject'[r] = subject[r]
           /\ subject'[written + 1] = s
           /\ 1 .. written \subseteq 1 .. written'
BY LimitAssumption DEF TypeOK, Write, Rows

LEMMA InitRInv == Init => RInv
<1>. SUFFICES ASSUME Init PROVE RInv
  OBVIOUS
<1>1. TypeOK
  BY LimitAssumption DEF Init, TypeOK, Rows
<1>2. HandlerInv
  BY DEF Init, HandlerInv, Idle
<1>3. \A s, window : Recent(s, window) = {}
  BY DEF Init, Recent
<1>4. \A u : Trying(u) = {}
  BY DEF Init, Trying, Idle
<1>5. \A i : TryingFrom(i) = {}
  BY DEF Init, TryingFrom, Idle
<1>6. Cardinality({}) = 0 /\ Cardinality(Handlers) \in Nat
  BY FS_EmptySet, HandlersFinite, FS_CardinalityType
<1>7. OvershootBounded
  <2>1. 0 + 0 < LoginLimit + Cardinality(Handlers)
    BY <1>6, LimitAssumption
  <2>2. \A u \in Users : FailureCount(ByUser(u)) = 0 /\ Cardinality(Trying(u)) = 0
    BY <1>3, <1>4, <1>6 DEF FailureCount
  <2>3. \A i \in Peers : FailureCount(ByPeer(i)) = 0 /\ Cardinality(TryingFrom(i)) = 0
    BY <1>3, <1>5, <1>6 DEF FailureCount
  <2>. QED BY <2>1, <2>2, <2>3 DEF OvershootBounded
<1>8. UnlocksBounded
  <2>1. \A u \in Users : passed \cap Recent(ByActor(u), UnlockWindow) = {}
    BY <1>3
  <2>. QED BY <1>6, <2>1, LimitAssumption DEF UnlocksBounded
<1>. QED BY <1>1, <1>2, <1>7, <1>8 DEF RInv, Init

-----------------------------------------------------------------------------
(* Types, and what handlers have in hand *)

LEMMA CountByUserType ==
    ASSUME RInv, NEW h \in Handlers, NEW u \in Users, NEW i \in Peers \cup {NoPeer},
           CountByUser(h, u, i)
    PROVE  /\ TypeOK' /\ HandlerInv'
           /\ call'[h] \in Busy /\ call'[h].step = "login" /\ call'[h].user = u
           /\ call'[h].peer = i /\ call'[h].seen = FailureCount(ByUser(u))
           /\ \A g \in Handlers : g # h => call'[g] = call[g]
<1>. DEFINE new == [step |-> "login", user |-> u, peer |-> i,
                    seen |-> FailureCount(ByUser(u)), own |-> None]
<1>1. FailureCount(ByUser(u)) \in 0 .. MaxRow
  <2>1. Cardinality(Recent(ByUser(u), LoginWindow)) \in 0 .. written
    BY RecentCounts DEF RInv
  <2>. QED BY <2>1, LimitAssumption DEF RInv, TypeOK, FailureCount
<1>2. new \in Busy
  BY <1>1, LimitAssumption DEF Busy, Steps, None
<1>3. call' = [call EXCEPT ![h] = new] /\ UNCHANGED <<clock, tableVars, passed>>
  BY DEF CountByUser
<1>4. call \in [Handlers -> {Idle} \cup Busy]
  BY DEF RInv, TypeOK, Busy
<1>5. /\ new.step = "login" /\ new.user = u /\ new.peer = i
      /\ new.seen = FailureCount(ByUser(u))
  OBVIOUS
<1>. HIDE DEF new
<1>6. \A g \in Handlers : call'[g] = IF g = h THEN new ELSE call[g]
  BY <1>3, <1>4
<1>7. call' \in [Handlers -> {Idle} \cup Busy]
  BY <1>2, <1>3, <1>4
<1>8. TypeOK'
  BY <1>3, <1>7 DEF RInv, TypeOK, Busy, tableVars
<1>9. HandlerInv'
  BY <1>3, <1>5, <1>6 DEF RInv, HandlerInv, tableVars
<1>. QED BY <1>2, <1>5, <1>6, <1>8, <1>9

Subjects == {"user"} \X Users \cup {"ip"} \X Peers \cup {"actor"} \X Users

\* A request that goes on or ends, and may write a row as it does.
LEMMA MoveType ==
    ASSUME RInv, NEW h \in Handlers,
           \/ \E from \in Steps : Leave(h, from)
           \/ \E from \in Steps, to \in Steps \ {"budget"} :
                 Go(h, from, to) /\ (to = "half" => call[h].peer \in Peers),
           clock' = clock, UNCHANGED tableVars \/ \E s \in Subjects : Write(s),
           passed' \subseteq 1 .. written
    PROVE  TypeOK' /\ HandlerInv' /\ passed' \subseteq 1 .. written'
<1>1. TypeOK
  BY DEF RInv
<1>2. /\ call' \in [Handlers -> {Idle} \cup Busy]
      /\ \A g \in Handlers : g # h => call'[g] = call[g]
      /\ call'[h].step # "budget"
      /\ call'[h].step = "half" => call'[h].peer \in Peers
  <2>1. CASE \E from \in Steps : Leave(h, from)
    BY <1>1, <2>1, LeaveMoves DEF Idle
  <2>2. CASE \E from \in Steps, to \in Steps \ {"budget"} :
                 Go(h, from, to) /\ (to = "half" => call[h].peer \in Peers)
    BY <1>1, <2>2, GoMoves
  <2>. QED BY <2>1, <2>2
<1>3. /\ written' \in 0 .. MaxRow
      /\ subject' \in [Rows -> {"user"} \X Users \cup {"ip"} \X Peers
                               \cup {"actor"} \X Users \cup {<<>>}]
      /\ at' \in [Rows -> 0 .. MaxClock + 1]
      /\ \A r \in 1 .. written : subject'[r] = subject[r]
      /\ 1 .. written \subseteq 1 .. written'
  <2>1. CASE UNCHANGED tableVars
    BY <1>1, <2>1 DEF TypeOK, tableVars
  <2>2. CASE \E s \in Subjects : Write(s)
    BY <1>1, <2>2, WriteTypes DEF Subjects
  <2>. QED BY <2>1, <2>2
<1>4. 1 .. written \subseteq Rows
  BY <1>1, LimitAssumption DEF TypeOK, Rows
<1>5. TypeOK'
  BY <1>1, <1>2, <1>3, <1>4 DEF TypeOK, Busy
<1>6. HandlerInv'
  BY <1>2, <1>3 DEF RInv, HandlerInv
<1>. QED BY <1>3, <1>5, <1>6

\* The row an unlock starts with is its own, and not among those that passed.
LEMMA RequestedType ==
    ASSUME RInv, NEW h \in Handlers, NEW u \in Users, Requested(h, u)
    PROVE  /\ TypeOK' /\ HandlerInv' /\ passed' \subseteq 1 .. written'
           /\ call'[h] \in Busy /\ call'[h].step = "budget"
           /\ \A g \in Handlers : g # h => call'[g] = call[g]
<1>. DEFINE new == [step |-> "budget", user |-> u, peer |-> NoPeer,
                    seen |-> 0, own |-> written + 1]
<1>1. TypeOK /\ ByActor(u) \in Subjects
  BY DEF RInv, ByActor, Subjects
<1>2. /\ call' = [call EXCEPT ![h] = new] /\ UNCHANGED <<clock, passed>>
      /\ Write(ByActor(u))
  BY DEF Requested
<1>3. /\ written' \in 0 .. MaxRow /\ written \in Nat /\ written' = written + 1
      /\ subject' \in [Rows -> {"user"} \X Users \cup {"ip"} \X Peers
                               \cup {"actor"} \X Users \cup {<<>>}]
      /\ at' \in [Rows -> 0 .. MaxClock + 1]
      /\ \A r \in 1 .. written : subject'[r] = subject[r]
      /\ subject'[written + 1] = ByActor(u)
      /\ 1 .. written \subseteq 1 .. written'
  BY <1>1, <1>2, WriteTypes DEF Subjects
<1>4. new \in Busy /\ new.step = "budget" /\ new.own = written + 1 /\ new.user = u
  BY <1>3, LimitAssumption DEF Busy, Steps
<1>. HIDE DEF new
<1>5. call \in [Handlers -> {Idle} \cup Busy]
  BY <1>1 DEF TypeOK, Busy
<1>6. /\ \A g \in Handlers : call'[g] = IF g = h THEN new ELSE call[g]
      /\ call' \in [Handlers -> {Idle} \cup Busy]
  BY <1>2, <1>4, <1>5
<1>7. passed' \subseteq 1 .. written' /\ passed' \subseteq Rows
  BY <1>2, <1>3 DEF RInv, TypeOK
<1>8. TypeOK'
  BY <1>1, <1>2, <1>3, <1>6, <1>7 DEF TypeOK, Busy
<1>9. written + 1 \in 1 .. written'
  BY <1>3
<1>10. HandlerInv'
  BY <1>3, <1>4, <1>6, <1>9 DEF RInv, HandlerInv
<1>. QED BY <1>4, <1>6, <1>7, <1>8, <1>10

\* What a step of a request that is under way comes down to.
LEMMA MoveKinds ==
    ASSUME RInv, NEW h \in Handlers,
           \/ Allow(h) \/ Trip(h) \/ Attempt(h) \/ RecordUser(h) \/ RecordPeer(h)
           \/ WithinBudget(h) \/ OverBudget(h) \/ Outcome(h) \/ CutOff(h)
    PROVE  /\ \/ \E from \in Steps : Leave(h, from)
              \/ \E from \in Steps, to \in Steps \ {"budget"} :
                    Go(h, from, to) /\ (to = "half" => call[h].peer \in Peers)
           /\ clock' = clock
           /\ UNCHANGED tableVars \/ \E s \in Subjects : Write(s)
           /\ passed' \subseteq 1 .. written
<1>1. TypeOK /\ passed \subseteq 1 .. written
  BY DEF RInv
<1>2. CASE Allow(h) \/ Trip(h) \/ Attempt(h) \/ OverBudget(h)
  <2>1. \/ Leave(h, "login") \/ Leave(h, "attempt") \/ Leave(h, "budget")
        \/ Go(h, "login", "attempt") \/ Go(h, "attempt", "failed")
    BY <1>2 DEF Allow, Trip, Attempt, OverBudget
  <2>2. UNCHANGED <<clock, tableVars, passed>>
    BY <1>2 DEF Allow, Trip, Attempt, OverBudget
  <2>3. /\ "login" \in Steps /\ "attempt" \in Steps /\ "budget" \in Steps
        /\ "attempt" \in Steps \ {"budget"} /\ "failed" \in Steps \ {"budget"}
        /\ "attempt" # "half" /\ "failed" # "half"
    BY DEF Steps
  <2>4. UNCHANGED tableVars /\ passed' \subseteq 1 .. written
    BY <1>1, <2>2
  <2>. QED BY <2>1, <2>2, <2>3, <2>4
<1>3. CASE RecordUser(h)
  <2>1. call[h] \in Busy /\ call[h].step = "failed"
    BY <1>1, <1>3, IdleIsIdle DEF RecordUser, Leave, Go
  <2>2. ByUser(call[h].user) \in Subjects /\ call[h].peer \in Peers \cup {NoPeer}
    BY <2>1 DEF Busy, ByUser, Subjects
  <2>. QED BY <1>1, <1>3, <2>2 DEF RecordUser, Steps
<1>4. CASE RecordPeer(h)
  <2>1. call[h].peer \in Peers
    BY <1>4 DEF RInv, HandlerInv, RecordPeer, Leave
  <2>2. ByPeer(call[h].peer) \in Subjects
    BY <2>1 DEF ByPeer, Subjects
  <2>. QED BY <1>1, <1>4, <2>2 DEF RecordPeer, Steps
<1>5. CASE WithinBudget(h)
  <2>1. Go(h, "budget", "within") /\ passed' = passed \cup {call[h].own}
        /\ UNCHANGED <<clock, tableVars>>
    BY <1>5 DEF WithinBudget
  <2>2. call[h].own \in 1 .. written
    BY <2>1 DEF RInv, HandlerInv, Go
  <2>3. passed' \subseteq 1 .. written
    BY <1>1, <2>1, <2>2
  <2>4. "budget" \in Steps /\ "within" \in Steps \ {"budget"} /\ "within" # "half"
    BY DEF Steps
  <2>. QED BY <2>1, <2>3, <2>4
<1>6. CASE Outcome(h)
  <2>1. call[h] \in Busy
    BY <1>1, <1>6, IdleIsIdle DEF Outcome, Leave, Go
  <2>2. ByActor(call[h].user) \in Subjects
    BY <2>1 DEF Busy, ByActor, Subjects
  <2>. QED BY <1>1, <1>6, <2>2 DEF Outcome, Steps
<1>7. CASE CutOff(h)
  <2>1. call[h].step \in Steps
    BY <1>1, <1>7, IdleIsIdle DEF CutOff, Busy
  <2>2. Leave(h, call[h].step)
    BY <1>7 DEF CutOff, Leave
  <2>. QED BY <1>1, <1>7, <2>1, <2>2 DEF CutOff
<1>. QED BY <1>2, <1>3, <1>4, <1>5, <1>6, <1>7

-----------------------------------------------------------------------------
(* Failed logins *)

LEMMA FailureCountWrites ==
    ASSUME TypeOK, NEW s, NEW t, Write(t), clock' = clock
    PROVE  /\ FailureCount(s) \in Nat
           /\ FailureCount(s)' = IF s = t THEN FailureCount(s) + 1 ELSE FailureCount(s)
<1>1. LoginWindow \in Nat \ {0}
  BY LimitAssumption
<1>2. FailureCount(s) \in Nat
  <2>1. Cardinality(Recent(s, LoginWindow)) \in 0 .. written
    BY RecentCounts
  <2>. QED BY <2>1, LimitAssumption DEF FailureCount, TypeOK
<1>3. Cardinality(Recent(s, LoginWindow)') =
          IF s = t THEN Cardinality(Recent(s, LoginWindow)) + 1
                   ELSE Cardinality(Recent(s, LoginWindow))
  BY <1>1, CountGrows
<1>. QED BY <1>2, <1>3 DEF FailureCount

LEMMA FailureCountStays ==
    ASSUME TypeOK, NEW s, UNCHANGED <<clock, tableVars>>
    PROVE  FailureCount(s) \in Nat /\ FailureCount(s)' = FailureCount(s)
<1>1. Cardinality(Recent(s, LoginWindow)) \in 0 .. written
  BY RecentCounts
<1>2. Recent(s, LoginWindow)' = Recent(s, LoginWindow)
  BY RecentSame
<1>. QED BY <1>1, <1>2, LimitAssumption DEF FailureCount, TypeOK

LEMMA FailureCountTicks ==
    ASSUME TypeOK, NEW s, Tick
    PROVE  /\ FailureCount(s) \in Nat /\ FailureCount(s)' \in Nat
           /\ FailureCount(s)' <= FailureCount(s)
<1>1. /\ IsFiniteSet(Recent(s, LoginWindow))
      /\ Cardinality(Recent(s, LoginWindow)) \in 0 .. written
  BY RecentCounts
<1>2. Recent(s, LoginWindow)' \subseteq Recent(s, LoginWindow)
  BY RecentShrinks, LimitAssumption
<1>3. /\ Cardinality(Recent(s, LoginWindow)') <= Cardinality(Recent(s, LoginWindow))
      /\ Cardinality(Recent(s, LoginWindow)') \in Nat
  BY <1>1, <1>2, FS_Subset, FS_CardinalityType
<1>. QED BY <1>1, <1>3, LimitAssumption DEF FailureCount, TypeOK

\* A login is admitted on counts below the limit.
LEMMA AllowedBelow ==
    ASSUME RInv, NEW h \in Handlers, Allow(h)
    PROVE  /\ call[h].seen < LoginLimit
           /\ \A i \in Peers : call[h].peer = i => FailureCount(ByPeer(i)) < LoginLimit
<1>1. call[h] \in Busy
  BY IdleIsIdle DEF RInv, Allow, Go
<1>2. call[h].seen \in Nat /\ LoginLimit \in Nat
  BY <1>1, LimitAssumption DEF Busy
<1>3. Failures(h) < LoginLimit
  BY DEF Allow
<1>4. UNCHANGED <<clock, tableVars>>
  BY DEF Allow
<1>5. \A i \in Peers : FailureCount(ByPeer(i)) \in Nat
  BY <1>4, FailureCountStays DEF RInv
<1>6. CASE call[h].peer = NoPeer
  BY <1>2, <1>3, <1>6, SubjectAssumption DEF Failures
<1>7. CASE call[h].peer # NoPeer
  <2>1. call[h].peer \in Peers
    BY <1>1, <1>7 DEF Busy
  <2>. QED BY <1>2, <1>3, <1>5, <1>7, <2>1 DEF Failures
<1>. QED BY <1>6, <1>7

\* The bound for one user, from what a step does to its count and its logins.
LEMMA UserBelow ==
    ASSUME RInv, NEW u \in Users,
           FailureCount(ByUser(u)) \in Nat, FailureCount(ByUser(u))' \in Nat,
           \/ FailureCount(ByUser(u))' <= FailureCount(ByUser(u)) /\ Trying(u)' \subseteq Trying(u)
           \/ /\ FailureCount(ByUser(u))' = FailureCount(ByUser(u)) + 1
              /\ \E h \in Trying(u) : Trying(u)' \subseteq Trying(u) \ {h}
           \/ FailureCount(ByUser(u))' < LoginLimit
    PROVE  FailureCount(ByUser(u))' + Cardinality(Trying(u)')
               < LoginLimit + Cardinality(Handlers)
<1>1. Trying(u) \in SUBSET Handlers /\ Trying(u)' \in SUBSET Handlers
  BY DEF Trying
<1>2. FailureCount(ByUser(u)) + Cardinality(Trying(u)) < LoginLimit + Cardinality(Handlers)
  BY DEF RInv, OvershootBounded
<1>. QED BY <1>1, <1>2, StaysBelow

LEMMA PeerBelow ==
    ASSUME RInv, NEW i \in Peers,
           FailureCount(ByPeer(i)) \in Nat, FailureCount(ByPeer(i))' \in Nat,
           \/ FailureCount(ByPeer(i))' <= FailureCount(ByPeer(i))
              /\ TryingFrom(i)' \subseteq TryingFrom(i)
           \/ /\ FailureCount(ByPeer(i))' = FailureCount(ByPeer(i)) + 1
              /\ \E h \in TryingFrom(i) : TryingFrom(i)' \subseteq TryingFrom(i) \ {h}
           \/ FailureCount(ByPeer(i))' < LoginLimit
    PROVE  FailureCount(ByPeer(i))' + Cardinality(TryingFrom(i)')
               < LoginLimit + Cardinality(Handlers)
<1>1. TryingFrom(i) \in SUBSET Handlers /\ TryingFrom(i)' \in SUBSET Handlers
  BY DEF TryingFrom
<1>2. FailureCount(ByPeer(i)) + Cardinality(TryingFrom(i)) < LoginLimit + Cardinality(Handlers)
  BY DEF RInv, OvershootBounded
<1>. QED BY <1>1, <1>2, StaysBelow

\* No count grows and nobody starts trying.
LEMMA QuietStep ==
    ASSUME RInv,
           \A u \in Users : /\ FailureCount(ByUser(u)) \in Nat /\ FailureCount(ByUser(u))' \in Nat
                            /\ FailureCount(ByUser(u))' <= FailureCount(ByUser(u))
                            /\ Trying(u)' \subseteq Trying(u),
           \A i \in Peers : /\ FailureCount(ByPeer(i)) \in Nat /\ FailureCount(ByPeer(i))' \in Nat
                            /\ FailureCount(ByPeer(i))' <= FailureCount(ByPeer(i))
                            /\ TryingFrom(i)' \subseteq TryingFrom(i)
    PROVE  OvershootBounded'
<1>1. \A u \in Users : FailureCount(ByUser(u))' + Cardinality(Trying(u)')
                           < LoginLimit + Cardinality(Handlers)
  BY UserBelow
<1>2. \A i \in Peers : FailureCount(ByPeer(i))' + Cardinality(TryingFrom(i)')
                           < LoginLimit + Cardinality(Handlers)
  BY PeerBelow
<1>. QED BY <1>1, <1>2 DEF OvershootBounded

\* A handler that is not trying afterwards, or was trying just as much before.
LEMMA NobodyStarts ==
    ASSUME NEW h \in Handlers, \A g \in Handlers : g # h => call'[g] = call[g],
           \/ call'[h].step \in {"idle", "budget", "within", "granted"}
           \/ /\ call[h].step = "attempt" /\ call'[h].step = "failed"
              /\ call'[h].user = call[h].user /\ call'[h].peer = call[h].peer
    PROVE  /\ \A u \in Users : Trying(u)' \subseteq Trying(u)
           /\ \A i \in Peers : TryingFrom(i)' \subseteq TryingFrom(i)
BY DEF Trying, TryingFrom

\* Steps that write no failure.
LEMMA QuietOvershoot ==
    ASSUME RInv, NEW h \in Handlers,
           \/ Trip(h) \/ Attempt(h) \/ WithinBudget(h) \/ OverBudget(h) \/ Outcome(h) \/ CutOff(h)
           \/ \E u \in Users : Requested(h, u)
    PROVE  OvershootBounded'
<1>1. TypeOK
  BY DEF RInv
<1>2. /\ \A g \in Handlers : g # h => call'[g] = call[g]
      /\ \/ call'[h].step \in {"idle", "budget", "within", "granted"}
         \/ /\ call[h].step = "attempt" /\ call'[h].step = "failed"
            /\ call'[h].user = call[h].user /\ call'[h].peer = call[h].peer
  <2>1. CASE \E u \in Users : Requested(h, u)
    BY <2>1, RequestedType
  <2>2. CASE \E from \in Steps : Leave(h, from)
    BY <1>1, <2>2, LeaveMoves DEF Idle
  <2>3. CASE Go(h, "attempt", "failed") \/ Go(h, "budget", "within") \/ Go(h, "within", "granted")
    BY <1>1, <2>3, GoMoves DEF Steps
  <2>4. CASE CutOff(h)
    BY <1>1, <2>4, IdleIsIdle DEF CutOff, TypeOK, Idle
  <2>5. {"login", "attempt", "budget", "within", "granted"} \subseteq Steps
    BY DEF Steps
  <2>. QED BY <2>1, <2>2, <2>3, <2>4, <2>5 DEF Trip, Attempt, WithinBudget, OverBudget, Outcome
<1>3. /\ clock' = clock
      /\ UNCHANGED tableVars \/ \E u : Write(ByActor(u))
  BY DEF Trip, Attempt, WithinBudget, OverBudget, Outcome, CutOff, Requested
<1>. DEFINE Same(s) == FailureCount(s) \in Nat /\ FailureCount(s)' = FailureCount(s)
<1>4. (\A u \in Users : Same(ByUser(u))) /\ (\A i \in Peers : Same(ByPeer(i)))
  <2>1. CASE UNCHANGED tableVars
    BY <1>1, <1>3, <2>1, FailureCountStays
  <2>2. ASSUME NEW v, Write(ByActor(v))
        PROVE  (\A u \in Users : Same(ByUser(u))) /\ (\A i \in Peers : Same(ByPeer(i)))
    <3>1. \A u : ByUser(u) # ByActor(v) /\ ByPeer(u) # ByActor(v)
      BY DEF ByUser, ByPeer, ByActor
    <3>. QED BY <1>1, <1>3, <2>2, <3>1, FailureCountWrites
  <2>. QED BY <1>3, <2>1, <2>2
<1>5. /\ \A u \in Users : Trying(u)' \subseteq Trying(u)
      /\ \A i \in Peers : TryingFrom(i)' \subseteq TryingFrom(i)
  BY <1>2, NobodyStarts
<1>6. \A n \in Nat : n <= n
  OBVIOUS
<1>. QED BY <1>4, <1>5, <1>6, QuietStep

LEMMA TickOvershoot ==
    ASSUME RInv, Tick
    PROVE  OvershootBounded'
<1>1. TypeOK /\ UNCHANGED call
  BY DEF RInv, Tick
<1>2. /\ \A u \in Users : Trying(u)' = Trying(u)
      /\ \A i \in Peers : TryingFrom(i)' = TryingFrom(i)
  BY <1>1 DEF Trying, TryingFrom
<1>. QED BY <1>1, <1>2, QuietStep, FailureCountTicks

\* check_login() reads a count below the limit, or the login is not trying.
LEMMA CountOvershoot ==
    ASSUME RInv, NEW h \in Handlers, NEW v \in Users, NEW p \in Peers \cup {NoPeer},
           CountByUser(h, v, p)
    PROVE  OvershootBounded'
<1>1. /\ TypeOK /\ UNCHANGED <<clock, tableVars>> /\ call[h].step = "idle"
      /\ call'[h].step = "login" /\ call'[h].user = v
      /\ call'[h].seen = FailureCount(ByUser(v))
      /\ \A g \in Handlers : g # h => call'[g] = call[g]
  <2>1. TypeOK /\ UNCHANGED <<clock, tableVars>> /\ call[h] = Idle
    BY DEF RInv, CountByUser
  <2>2. call[h].step = "idle"
    BY <2>1 DEF Idle
  <2>. QED BY <2>1, <2>2, CountByUserType
<1>2. \A s : FailureCount(s) \in Nat /\ FailureCount(s)' = FailureCount(s)
  BY <1>1, FailureCountStays
<1>3. \A i \in Peers : TryingFrom(i)' \subseteq TryingFrom(i)
  BY <1>1 DEF TryingFrom
<1>4. ASSUME NEW u \in Users
      PROVE  Trying(u)' \subseteq Trying(u) \/ FailureCount(ByUser(u))' < LoginLimit
  BY <1>1, <1>2 DEF Trying
<1>5. \A n \in Nat : n <= n
  OBVIOUS
<1>6. \A u \in Users : FailureCount(ByUser(u))' + Cardinality(Trying(u)')
                           < LoginLimit + Cardinality(Handlers)
  BY <1>2, <1>4, <1>5, UserBelow
<1>7. \A i \in Peers : FailureCount(ByPeer(i))' + Cardinality(TryingFrom(i)')
                           < LoginLimit + Cardinality(Handlers)
  BY <1>2, <1>3, <1>5, PeerBelow
<1>. QED BY <1>6, <1>7 DEF OvershootBounded

\* An admitted login was trying already, and its address has room.
LEMMA AllowOvershoot ==
    ASSUME RInv, NEW h \in Handlers, Allow(h)
    PROVE  OvershootBounded'
<1>1. /\ TypeOK /\ UNCHANGED <<clock, tableVars>> /\ Go(h, "login", "attempt")
  BY DEF RInv, Allow
<1>2. /\ call[h].step = "login" /\ call'[h].step = "attempt"
      /\ call'[h].user = call[h].user /\ call'[h].peer = call[h].peer
      /\ \A g \in Handlers : g # h => call'[g] = call[g]
  BY <1>1, GoMoves DEF Steps
<1>3. \A s : FailureCount(s) \in Nat /\ FailureCount(s)' = FailureCount(s)
  BY <1>1, FailureCountStays
<1>4. \A u \in Users : Trying(u)' \subseteq Trying(u)
  BY <1>2, AllowedBelow DEF Trying
<1>5. \A i \in Peers : TryingFrom(i)' \subseteq TryingFrom(i) \/ FailureCount(ByPeer(i)) < LoginLimit
  BY <1>2, AllowedBelow DEF TryingFrom
<1>6. \A n \in Nat : n <= n
  OBVIOUS
<1>7. \A u \in Users : FailureCount(ByUser(u))' + Cardinality(Trying(u)')
                           < LoginLimit + Cardinality(Handlers)
  BY <1>3, <1>4, <1>6, UserBelow
<1>8. \A i \in Peers : FailureCount(ByPeer(i))' + Cardinality(TryingFrom(i)')
                           < LoginLimit + Cardinality(Handlers)
  BY <1>3, <1>5, <1>6, PeerBelow
<1>. QED BY <1>7, <1>8 DEF OvershootBounded

\* A failure that is recorded was counted among those trying.
LEMMA RecordOvershoot ==
    ASSUME RInv, NEW h \in Handlers, RecordUser(h) \/ RecordPeer(h)
    PROVE  OvershootBounded'
<1>1. TypeOK /\ clock' = clock
  BY DEF RInv, RecordUser, RecordPeer
<1>2. \A n \in Nat : n <= n /\ n + 1 \in Nat
  OBVIOUS
<1>3. CASE RecordUser(h)
  <2>1. PICK v : v = call[h].user
    OBVIOUS
  <2>2. Write(ByUser(v)) /\ call[h].step = "failed"
    BY <1>3, <2>1 DEF RecordUser, Leave, Go
  <2>3. /\ \A g \in Handlers : g # h => call'[g] = call[g]
        /\ \/ call'[h].step = "idle"
           \/ call'[h].step = "half" /\ call'[h].user = v /\ call'[h].peer = call[h].peer
    <3>1. CASE Leave(h, "failed")
      BY <1>1, <3>1, LeaveMoves DEF Steps, Idle
    <3>2. CASE Go(h, "failed", "half")
      BY <1>1, <2>1, <3>2, GoMoves DEF Steps
    <3>. QED BY <1>3, <3>1, <3>2 DEF RecordUser
  <2>4. \A u \in Users : u = v => h \in Trying(u) /\ Trying(u)' \subseteq Trying(u) \ {h}
    BY <2>1, <2>2, <2>3 DEF Trying
  <2>5. \A u \in Users : Trying(u)' \subseteq Trying(u)
    BY <2>3 DEF Trying
  <2>6. \A i \in Peers : TryingFrom(i)' \subseteq TryingFrom(i)
    BY <2>2, <2>3 DEF TryingFrom
  <2>7. \A u : (ByUser(u) = ByUser(v) <=> u = v) /\ ByPeer(u) # ByUser(v)
    BY DEF ByUser, ByPeer
  <2>8. \A s : /\ FailureCount(s) \in Nat
               /\ FailureCount(s)' = IF s = ByUser(v) THEN FailureCount(s) + 1 ELSE FailureCount(s)
    BY <1>1, <2>2, FailureCountWrites
  <2>9. \A u \in Users : FailureCount(ByUser(u))' + Cardinality(Trying(u)')
                             < LoginLimit + Cardinality(Handlers)
    BY <1>2, <2>4, <2>5, <2>7, <2>8, UserBelow
  <2>10. \A i \in Peers : FailureCount(ByPeer(i))' + Cardinality(TryingFrom(i)')
                              < LoginLimit + Cardinality(Handlers)
    BY <1>2, <2>6, <2>7, <2>8, PeerBelow
  <2>. QED BY <2>9, <2>10 DEF OvershootBounded
<1>4. CASE RecordPeer(h)
  <2>1. PICK p : p = call[h].peer
    OBVIOUS
  <2>2. Write(ByPeer(p)) /\ call[h].step = "half" /\ Leave(h, "half")
    BY <1>4, <2>1 DEF RecordPeer, Leave
  <2>3. call'[h].step = "idle" /\ \A g \in Handlers : g # h => call'[g] = call[g]
    BY <1>1, <2>2, LeaveMoves DEF Steps, Idle
  <2>4. \A i \in Peers : i = p => h \in TryingFrom(i) /\ TryingFrom(i)' \subseteq TryingFrom(i) \ {h}
    BY <2>1, <2>2, <2>3 DEF TryingFrom
  <2>5. \A i \in Peers : TryingFrom(i)' \subseteq TryingFrom(i)
    BY <2>3 DEF TryingFrom
  <2>6. \A u \in Users : Trying(u)' \subseteq Trying(u)
    BY <2>3 DEF Trying
  <2>7. \A i : (ByPeer(i) = ByPeer(p) <=> i = p) /\ ByUser(i) # ByPeer(p)
    BY DEF ByUser, ByPeer
  <2>8. \A s : /\ FailureCount(s) \in Nat
               /\ FailureCount(s)' = IF s = ByPeer(p) THEN FailureCount(s) + 1 ELSE FailureCount(s)
    BY <1>1, <2>2, FailureCountWrites
  <2>9. \A u \in Users : FailureCount(ByUser(u))' + Cardinality(Trying(u)')
                             < LoginLimit + Cardinality(Handlers)
    BY <1>2, <2>6, <2>7, <2>8, UserBelow
  <2>10. \A i \in Peers : FailureCount(ByPeer(i))' + Cardinality(TryingFrom(i)')
                              < LoginLimit + Cardinality(Handlers)
    BY <1>2, <2>4, <2>5, <2>7, <2>8, PeerBelow
  <2>. QED BY <2>9, <2>10 DEF OvershootBounded
<1>. QED BY <1>3, <1>4

-----------------------------------------------------------------------------
(* Unlocks *)

\* Rows that are added later have not passed, and time only takes rows away.
LEMMA NonePasses ==
    ASSUME RInv, passed' = passed,
           \A u \in Users : Recent(ByActor(u), UnlockWindow)'
                                \subseteq Recent(ByActor(u), UnlockWindow) \cup {written + 1}
    PROVE  UnlocksBounded'
<1>. DEFINE X(u) == passed \cap Recent(ByActor(u), UnlockWindow)
<1>1. written \in Nat /\ passed \subseteq 1 .. written
  BY LimitAssumption DEF RInv, TypeOK
<1>2. ASSUME NEW u \in Users
      PROVE  Cardinality(passed' \cap Recent(ByActor(u), UnlockWindow)') < UnlockLimit
  <2>1. passed' \cap Recent(ByActor(u), UnlockWindow)' \subseteq X(u)
    BY <1>1
  <2>2. IsFiniteSet(X(u))
    BY RecentCounts, FS_Intersection DEF RInv
  <2>3. Cardinality(X(u)) < UnlockLimit /\ Cardinality(X(u)) \in Nat
    BY <2>2, FS_CardinalityType DEF RInv, UnlocksBounded
  <2>. HIDE DEF X
  <2>4. /\ Cardinality(passed' \cap Recent(ByActor(u), UnlockWindow)') <= Cardinality(X(u))
        /\ Cardinality(passed' \cap Recent(ByActor(u), UnlockWindow)') \in Nat
    BY <2>1, <2>2, FS_Subset, FS_CardinalityType
  <2>. QED BY <2>3, <2>4, LimitAssumption
<1>. QED BY <1>2 DEF UnlocksBounded

LEMMA RecentAddsOne ==
    ASSUME TypeOK, clock' = clock, UNCHANGED tableVars \/ \E t : Write(t), NEW s
    PROVE  Recent(s, UnlockWindow)' \subseteq Recent(s, UnlockWindow) \cup {written + 1}
<1>1. UnlockWindow \in Nat \ {0}
  BY LimitAssumption
<1>2. CASE UNCHANGED tableVars
  BY <1>2, RecentSame
<1>3. CASE \E t : Write(t)
  BY <1>1, <1>3, RecentGrows
<1>. QED BY <1>2, <1>3

\* The unlock that passes has counted its own row, so all rows of its user that
\* have passed, its own included, are fewer than the limit.
LEMMA PassesBounded ==
    ASSUME RInv, NEW h \in Handlers, WithinBudget(h)
    PROVE  UnlocksBounded'
<1>1. PICK v : v = call[h].user
  OBVIOUS
<1>2. PICK r : r = call[h].own
  OBVIOUS
<1>3. /\ TypeOK /\ UNCHANGED <<clock, tableVars>> /\ call[h].step = "budget"
      /\ Cardinality(Recent(ByActor(v), UnlockWindow)) < UnlockLimit
      /\ passed' = passed \cup {r}
  BY <1>1, <1>2 DEF RInv, WithinBudget, Go, UnlockCount
<1>4. subject[r] = ByActor(v)
  BY <1>1, <1>2, <1>3 DEF RInv, HandlerInv
<1>5. ASSUME NEW u \in Users
      PROVE  Cardinality(passed' \cap Recent(ByActor(u), UnlockWindow)') < UnlockLimit
  <2>. DEFINE R == Recent(ByActor(u), UnlockWindow)
  <2>1. R' = R /\ IsFiniteSet(R) /\ Cardinality(R) \in Nat
    BY <1>3, RecentSame, RecentCounts, FS_CardinalityType
  <2>2. CASE u = v
    <3>1. passed' \cap R \subseteq R
      OBVIOUS
    <3>. HIDE DEF R
    <3>2. Cardinality(passed' \cap R) <= Cardinality(R) /\ Cardinality(passed' \cap R) \in Nat
      BY <2>1, <3>1, FS_Subset, FS_CardinalityType
    <3>. QED BY <1>3, <2>1, <2>2, <3>2, LimitAssumption DEF R
  <2>3. CASE u # v
    <3>1. r \notin R
      BY <1>4, <2>3 DEF Recent, ByActor
    <3>2. passed' \cap R = passed \cap R
      BY <1>3, <3>1
    <3>. QED BY <2>1, <3>2 DEF RInv, UnlocksBounded
  <2>. QED BY <2>2, <2>3
<1>. QED BY <1>5 DEF UnlocksBounded

-----------------------------------------------------------------------------

LEMMA StepRInv == RInv /\ [Next]_vars => RInv'
<1>. SUFFICES ASSUME RInv, [Next]_vars PROVE RInv'
  OBVIOUS
<1>1. TypeOK
  BY DEF RInv
<1>2. ASSUME NEW h \in Handlers,
             \/ Allow(h) \/ Trip(h) \/ Attempt(h) \/ RecordUser(h) \/ RecordPeer(h)
             \/ WithinBudget(h) \/ OverBudget(h) \/ Outcome(h) \/ CutOff(h)
      PROVE  RInv'
  <2>1. TypeOK' /\ HandlerInv' /\ passed' \subseteq 1 .. written'
    BY <1>2, MoveKinds, MoveType
  <2>2. OvershootBounded'
    BY <1>2, AllowOvershoot, RecordOvershoot, QuietOvershoot
  <2>3. UnlocksBounded'
    <3>1. CASE WithinBudget(h)
      BY <3>1, PassesBounded
    <3>2. CASE ~WithinBudget(h)
      <4>1. passed' = passed
        BY <1>2, <3>2 DEF Allow, Trip, Attempt, RecordUser, RecordPeer, OverBudget, Outcome, CutOff
      <4>2. clock' = clock /\ (UNCHANGED tableVars \/ \E t : Write(t))
        BY <1>2, MoveKinds
      <4>. QED BY <1>1, <4>1, <4>2, RecentAddsOne, NonePasses
    <3>. QED BY <3>1, <3>2
  <2>. QED BY <2>1, <2>2, <2>3 DEF RInv
<1>3. ASSUME NEW h \in Handlers, NEW u \in Users, NEW i \in Peers \cup {NoPeer}, CountByUser(h, u, i)
      PROVE  RInv'
  <2>1. UNCHANGED <<clock, tableVars, passed>>
    BY <1>3 DEF CountByUser
  <2>2. TypeOK' /\ HandlerInv' /\ OvershootBounded'
    BY <1>3, CountByUserType, CountOvershoot
  <2>3. UnlocksBounded'
    BY <1>1, <2>1, RecentAddsOne, NonePasses
  <2>. QED BY <2>1, <2>2, <2>3 DEF RInv, tableVars
<1>4. ASSUME NEW h \in Handlers, NEW u \in Users, Requested(h, u)
      PROVE  RInv'
  <2>1. TypeOK' /\ HandlerInv' /\ passed' \subseteq 1 .. written' /\ OvershootBounded'
    BY <1>4, RequestedType, QuietOvershoot
  <2>2. clock' = clock /\ passed' = passed /\ Write(ByActor(u))
    BY <1>4 DEF Requested
  <2>3. UnlocksBounded'
    BY <1>1, <2>2, RecentAddsOne, NonePasses
  <2>. QED BY <2>1, <2>3 DEF RInv
<1>5. CASE Tick
  <2>1. TypeOK' /\ HandlerInv' /\ passed' \subseteq 1 .. written'
    BY <1>5, LimitAssumption DEF RInv, TypeOK, HandlerInv, Tick, tableVars
  <2>2. UnlocksBounded'
    <3>1. passed' = passed
      BY <1>5 DEF Tick
    <3>2. \A s : Recent(s, UnlockWindow)' \subseteq Recent(s, UnlockWindow)
      BY <1>1, <1>5, RecentShrinks, LimitAssumption
    <3>. QED BY <3>1, <3>2, NonePasses
  <2>. QED BY <1>5, <2>1, <2>2, TickOvershoot DEF RInv
<1>6. CASE UNCHANGED vars
  <2>1. UNCHANGED <<clock, tableVars, call, passed>>
    BY <1>6 DEF vars
  <2>2. TypeOK' /\ HandlerInv' /\ passed' \subseteq 1 .. written'
    BY <2>1 DEF RInv, TypeOK, HandlerInv, tableVars
  <2>3. OvershootBounded' /\ UnlocksBounded'
    BY <2>1 DEF RInv, OvershootBounded, UnlocksBounded, FailureCount, Recent, Trying, TryingFrom,
       tableVars
  <2>. QED BY <2>2, <2>3 DEF RInv
<1>. QED BY <1>2, <1>3, <1>4, <1>5, <1>6 DEF Next, Login, Unlock

LEMMA Invariance == Spec => []RInv
BY InitRInv, StepRInv, PTL DEF Spec

-----------------------------------------------------------------------------
(* The results *)

\* Rows and handlers keep their types.
THEOREM TypeCorrect == Spec => []TypeOK
<1>1. RInv => TypeOK
  BY DEF RInv
<1>. QED BY <1>1, Invariance, PTL

\* Logins that overlap exceed the limit of check_login() by less than their
\* number, per user and per address, whatever the limit and the window.
THEOREM OvershootIsBounded == Spec => []OvershootBounded
<1>1. RInv => OvershootBounded
  BY DEF RInv
<1>. QED BY <1>1, Invariance, PTL

\* Unlocks that overlap never exceed the limit of check_unlock().
THEOREM UnlocksAreBounded == Spec => []UnlocksBounded
<1>1. RInv => UnlocksBounded
  BY DEF RInv
<1>. QED BY <1>1, Invariance, PTL

=============================================================================
