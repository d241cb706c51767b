--------------------------- MODULE ControllerProofs ---------------------------
(***************************************************************************)
(* Proofs for Controller: types, how long the relay may stay on and that a    *)
(* pulse is not cut short, across the wrap of millis(), what the replay ring  *)
(* remembers, how long after its first use a command can be replayed, and how *)
(* long a beacon is accepted, for all commands, durations, clocks and limits. *)
(***************************************************************************)
EXTENDS Controller, TLAPS

-----------------------------------------------------------------------------
(* Arithmetic *)

LEMMA ModRange ==
    ASSUME NEW a \in Int, NEW n \in Nat \ {0}
    PROVE  a % n \in 0 .. n - 1
OBVIOUS

\* One turn of a counter modulo n, either way.
LEMMA ModOnce ==
    ASSUME NEW n \in Nat \ {0}, NEW a \in Int, -n <= a, a < 2 * n
    PROVE  a % n = IF a < 0 THEN a + n ELSE IF a < n THEN a ELSE a - n
OBVIOUS

\* static_cast<int32_t>(a - b) >= 0 compares two readings of millis() as long as
\* they are less than half its range apart, whichever of them has wrapped.
LEMMA HalfRange ==
    ASSUME NEW n \in Nat \ {0}, NEW a \in 0 .. n - 1, NEW b \in 0 .. n - 1, NEW x \in Int,
           a - b - x \in {-n, 0, n}, 2 * x < n - 1, -n < 2 * x
    PROVE  (a - b) % n < n \div 2 <=> x >= 0
OBVIOUS

LEMMA Quotient ==
    ASSUME NEW a \in Int, NEW n \in Nat \ {0}
    PROVE  a \div n \in Int /\ n * (a \div n) <= a /\ a < n * (a \div n) + n
OBVIOUS

LEMMA CancelFactor ==
    ASSUME NEW a \in Int, NEW b \in Int, NEW n \in Nat \ {0}, n * a < n * b
    PROVE  a < b
OBVIOUS

-----------------------------------------------------------------------------
(* The inductive invariant *)

\* The signer's limits hold for whatever it has signed.
SignedInv ==
    \A c \in Commands : signed[c] # Unsigned =>
        0 < signed[c].duration /\ signed[c].expires <= signed[c].issued + MaxTtl

\* A command honoured before was signed, and was fresh when it was honoured first.
FirstInv ==
    \A c \in Commands : firstAt[c] # Never =>
        /\ signed[c] # Unsigned
        /\ signed[c].issued <= firstAt[c] + MaxSkew
        /\ firstAt[c] <= signed[c].expires + MaxSkew

\* The end of a pulse is where it should be, up to one turn of millis().
PulseInv ==
    energised =>
        /\ granted \in 1 .. RelayMax
        /\ lit < granted + unfed
        /\ millis - offAt - (lit - granted) \in {-Wrap, 0, Wrap}

\* The slot written k commands before the last one.
Back(k) == IF k < seenNext THEN seenNext - 1 - k ELSE seenNext - 1 - k + Capacity

\* The ring holds the last Capacity commands honoured, each in its place.
RingInv ==
    \A k \in 0 .. Capacity - 1 :
        k < Len(honoured) => seen[Back(k)] = honoured[Len(honoured) - k]

\* What is advertised was computed when the loop ran last.
BeaconInv == advertising => synced /\ slot = SlotFor(Time - unfed)

CInv == TypeOK /\ SignedInv /\ FirstInv /\ PulseInv /\ RingInv /\ RingRemembers /\ BeaconInv

LEMMA Constants ==
    /\ Wrap \in Nat \ {0} /\ RelayMax \in Nat \ {0} /\ Watchdog \in Nat \ {0}
    /\ Capacity \in Nat \ {0} /\ Rotation \in Nat \ {0} /\ MaxAge \in Nat
    /\ MaxSkew \in Nat /\ MaxTtl \in Nat /\ MaxBoots \in Nat
    /\ 2 * (RelayMax + Watchdog) < Wrap
    /\ Drifts \subseteq Int /\ Ttls \subseteq Nat /\ Durations \subseteq Nat
    /\ Offsets \subseteq Int /\ Never \notin Int
BY ControllerAssumption, WrapAssumption, ProximityAssumption

LEMMA SlotType == \A t \in Int : SlotFor(t) \in Int
BY Constants, Quotient DEF SlotFor

LEMMA InitCInv == Init => CInv
<1>. SUFFICES ASSUME Init PROVE CInv
  OBVIOUS
<1>1. TypeOK
  <2>1. now \in Nat /\ millis \in 0 .. Wrap - 1 /\ unfed \in 0 .. Watchdog
    BY Constants, ControllerAssumption DEF Init
  <2>2. signed \in [Commands -> [issued : Int, expires : Int, duration : Nat, at : Nat]]
    BY DEF Init, Unsigned
  <2>3. 0 \in 0 .. Wrap - 1 /\ 0 \in Slots /\ 0 \in 0 .. MaxBoots
    BY Constants DEF Slots
  <2>4. seen \in [Slots -> Commands \cup {NoCommand}] /\ honoured \in Seq(Commands)
        /\ firstAt \in [Commands -> Int \cup {Never}]
    BY DEF Init
  <2>5. energised \in BOOLEAN /\ advertising \in BOOLEAN /\ updating \in BOOLEAN /\ synced \in BOOLEAN
    BY DEF Init
  <2>6. /\ drift \in Drifts /\ offAt \in 0 .. Wrap - 1 /\ lit \in Nat /\ granted \in Nat
        /\ seenNext \in Slots /\ slot \in Int /\ boots \in 0 .. MaxBoots
    BY <2>3 DEF Init
  <2>. QED BY <2>1, <2>2, <2>4, <2>5, <2>6 DEF TypeOK
<1>2. SignedInv /\ FirstInv /\ PulseInv /\ BeaconInv
  BY DEF Init, SignedInv, FirstInv, PulseInv, BeaconInv
<1>3. RingInv /\ RingRemembers
  BY Constants DEF Init, RingInv, RingRemembers
<1>. QED BY <1>1, <1>2, <1>3 DEF CInv

\* Conjuncts of the invariant that a step which leaves their variables alone
\* preserves.
LEMMA RingKept ==
    ASSUME CInv, UNCHANGED ringVars
    PROVE  RingInv' /\ RingRemembers'
BY DEF CInv, RingInv, RingRemembers, Back, ringVars

LEMMA FirstKept ==
    ASSUME CInv, UNCHANGED <<signed, firstAt>>
    PROVE  FirstInv'
BY DEF CInv, FirstInv

LEMMA PulseKept ==
    ASSUME CInv, UNCHANGED <<relayVars, millis, unfed>>
    PROVE  PulseInv'
BY DEF CInv, PulseInv, relayVars

LEMMA BeaconKept ==
    ASSUME CInv, UNCHANGED <<beaconVars, now, drift, unfed, synced>>
    PROVE  BeaconInv'
BY DEF CInv, BeaconInv, Time, beaconVars

LEMMA SignInv ==
    ASSUME CInv, NEW c \in Commands, NEW offset \in Offsets, NEW ttl \in Ttls,
           NEW duration \in Durations, Sign(c, offset, ttl, duration)
    PROVE  CInv'
<1>. DEFINE payload == [issued |-> now + offset, expires |-> now + offset + ttl,
                         duration |-> duration, at |-> now]
<1>1. /\ signed[c] = Unsigned
      /\ signed' = [signed EXCEPT ![c] = payload]
      /\ 0 < duration /\ ttl <= MaxTtl
      /\ UNCHANGED <<clockVars, synced, drift, relayVars, ringVars, beaconVars, updating, boots>>
  BY DEF Sign, ValidateCommand
<1>2. now \in Nat /\ offset \in Int /\ ttl \in Nat /\ duration \in Nat
  BY Constants DEF CInv, TypeOK
<1>3. TypeOK'
  BY <1>1, <1>2 DEF CInv, TypeOK, clockVars, relayVars, ringVars, beaconVars
<1>4. SignedInv'
  BY <1>1, <1>2, Constants DEF CInv, TypeOK, SignedInv
<1>5. FirstInv'
  <2>. SUFFICES ASSUME NEW d \in Commands, firstAt[d] # Never
                PROVE  /\ signed'[d] # Unsigned
                       /\ signed'[d].issued <= firstAt[d] + MaxSkew
                       /\ firstAt[d] <= signed'[d].expires + MaxSkew
    BY <1>1 DEF FirstInv, ringVars
  <2>1. signed[d] # Unsigned
    BY DEF CInv, FirstInv
  <2>2. signed'[d] = signed[d]
    BY <1>1, <2>1 DEF CInv, TypeOK
  <2>. QED BY <2>1, <2>2 DEF CInv, FirstInv
<1>. QED BY <1>1, <1>3, <1>4, <1>5, RingKept, PulseKept, BeaconKept DEF CInv, clockVars

LEMMA SyncInv ==
    ASSUME CInv, NEW d \in Drifts, Sync(d)
    PROVE  CInv'
<1>1. /\ ~synced /\ synced' = TRUE /\ drift' = d
      /\ UNCHANGED <<clockVars, signed, relayVars, ringVars, beaconVars, updating, boots>>
  BY DEF Sync
<1>2. TypeOK' /\ SignedInv'
  BY <1>1 DEF CInv, TypeOK, SignedInv, clockVars, relayVars, ringVars, beaconVars
<1>3. BeaconInv'
  BY <1>1 DEF CInv, BeaconInv, beaconVars
<1>. QED BY <1>1, <1>2, <1>3, RingKept, PulseKept, FirstKept DEF CInv, clockVars, ringVars

LEMMA StartUpdateInv ==
    ASSUME CInv, StartUpdate
    PROVE  CInv'
<1>1. /\ updating' = TRUE
      /\ UNCHANGED <<clockVars, signed, synced, drift, relayVars, ringVars, beaconVars, boots>>
  BY DEF StartUpdate
<1>2. TypeOK' /\ SignedInv'
  BY <1>1 DEF CInv, TypeOK, SignedInv, clockVars, relayVars, ringVars, beaconVars
<1>. QED BY <1>1, <1>2, RingKept, PulseKept, BeaconKept, FirstKept DEF CInv, clockVars, ringVars

LEMMA RebootInv ==
    ASSUME CInv, Reboot
    PROVE  CInv'
<1>1. TypeOK'
  <2>1. 0 \in 0 .. Wrap - 1 /\ 0 \in Slots /\ 0 \in 0 .. Watchdog
    BY Constants DEF Slots
  <2>2. seen' \in [Slots -> Commands \cup {NoCommand}] /\ honoured' \in Seq(Commands)
    BY DEF Reboot, Booted
  <2>3. boots' \in 0 .. MaxBoots
    BY Constants DEF CInv, TypeOK, Reboot
  <2>4. synced' \in BOOLEAN
    BY DEF CInv, TypeOK, Reboot
  <2>5. /\ energised' \in BOOLEAN /\ advertising' \in BOOLEAN /\ updating' \in BOOLEAN
    BY DEF Reboot, Booted
  <2>6. /\ offAt' \in 0 .. Wrap - 1 /\ millis' \in 0 .. Wrap - 1 /\ unfed' \in 0 .. Watchdog
        /\ lit' \in Nat /\ granted' \in Nat /\ seenNext' \in Slots /\ slot' \in Int
    BY <2>1 DEF Reboot, Booted
  <2>7. now' \in Nat /\ drift' \in Drifts
        /\ signed' \in [Commands -> [issued : Int, expires : Int, duration : Nat, at : Nat]]
        /\ firstAt' \in [Commands -> Int \cup {Never}]
    BY DEF CInv, TypeOK, Reboot
  <2>. QED BY <2>2, <2>3, <2>4, <2>5, <2>6, <2>7 DEF TypeOK
<1>2. SignedInv' /\ FirstInv' /\ PulseInv' /\ BeaconInv'
  BY DEF CInv, SignedInv, FirstInv, PulseInv, BeaconInv, Reboot, Booted
<1>3. RingInv' /\ RingRemembers'
  BY Constants DEF RingInv, RingRemembers, Reboot, Booted
<1>. QED BY <1>1, <1>2, <1>3 DEF CInv

-----------------------------------------------------------------------------
(* The relay *)

\* One more tick of millis() and of the pulse keeps the end where it should be.
LEMMA MillisAdvance ==
    ASSUME NEW n \in Nat \ {0}, NEW a \in 0 .. n - 1, NEW b \in 0 .. n - 1, NEW x \in Int,
           a - b - x \in {-n, 0, n}, 2 * (x + 1) < n, -n < 2 * x
    PROVE  ((a + 1) % n) - b - (x + 1) \in {-n, 0, n}
<1>1. (a + 1) % n = IF a + 1 < n THEN a + 1 ELSE a + 1 - n
  OBVIOUS
<1>. QED BY <1>1

\* Relay::tick(): a pulse that is not over goes on, one that is ends, and
\* nothing else happens to the relay.
LEMMA RelayTicks ==
    ASSUME TypeOK, NEW ms \in 0 .. Wrap - 1, NEW elapsed \in {0, 1}, RelayTick(ms, elapsed),
           energised => /\ granted \in 1 .. RelayMax
                        /\ lit + elapsed <= granted + Watchdog
                        /\ ms - offAt - (lit + elapsed - granted) \in {-Wrap, 0, Wrap}
    PROVE  /\ energised' \in BOOLEAN /\ lit' \in Nat /\ granted' \in Nat /\ offAt' = offAt
           /\ energised' => /\ energised /\ lit' = lit + elapsed /\ granted' = granted
                            /\ lit + elapsed < granted
           /\ energised /\ ~energised' => lit + elapsed >= granted
<1>1. /\ energised' = (energised /\ ~NotBefore(ms, offAt))
      /\ lit' = (IF energised' THEN lit + elapsed ELSE 0)
      /\ granted' = (IF energised' THEN granted ELSE 0)
      /\ offAt' = offAt
  BY DEF RelayTick
<1>2. lit \in Nat /\ granted \in Nat /\ offAt \in 0 .. Wrap - 1 /\ elapsed \in Nat
      /\ energised \in BOOLEAN
  BY DEF TypeOK
<1>3. ASSUME energised PROVE NotBefore(ms, offAt) <=> lit + elapsed - granted >= 0
  <2>1. PICK x : x = lit + elapsed - granted
    OBVIOUS
  <2>2. x \in Int /\ 2 * x < Wrap - 1 /\ -Wrap < 2 * x
    BY <1>2, <1>3, <2>1, Constants
  <2>3. ms - offAt - x \in {-Wrap, 0, Wrap}
    BY <1>3, <2>1
  <2>. QED BY <1>2, <2>1, <2>2, <2>3, Constants, HalfRange DEF NotBefore
<1>4. energised' \in BOOLEAN
  BY <1>1
<1>5. CASE energised'
  <2>1. energised /\ ~NotBefore(ms, offAt)
    BY <1>1, <1>5
  <2>2. lit + elapsed < granted
    BY <1>2, <1>3, <2>1
  <2>. QED BY <1>1, <1>2, <1>5, <2>1, <2>2
<1>6. CASE ~energised'
  <2>1. ASSUME energised PROVE lit + elapsed >= granted
    <3>1. NotBefore(ms, offAt)
      BY <1>1, <1>6, <2>1
    <3>. QED BY <1>2, <1>3, <2>1, <3>1
  <2>. QED BY <1>1, <1>4, <1>6, <2>1
<1>. QED BY <1>5, <1>6

LEMMA IterateRelay ==
    ASSUME CInv, Iterate
    PROVE  /\ millis' \in 0 .. Wrap - 1 /\ offAt' = offAt
           /\ energised' \in BOOLEAN /\ lit' \in Nat /\ granted' \in Nat
           /\ PulseInv'
           /\ energised /\ ~energised' => lit + (now' - now) >= granted
<1>1. /\ TypeOK /\ millis' = (millis + 1) % Wrap /\ unfed' = 0 /\ now' = now + 1
      /\ RelayTick(millis', 1)
  BY DEF CInv, Iterate
<1>2. /\ millis \in 0 .. Wrap - 1 /\ offAt \in 0 .. Wrap - 1 /\ lit \in Nat /\ granted \in Nat
      /\ unfed \in 0 .. Watchdog /\ now \in Nat
  BY <1>1 DEF TypeOK
<1>3. millis' \in 0 .. Wrap - 1
  BY <1>1, <1>2, Constants, ModRange
<1>4. ASSUME energised
      PROVE  /\ granted \in 1 .. RelayMax /\ lit + 1 <= granted + Watchdog
             /\ millis' - offAt - (lit + 1 - granted) \in {-Wrap, 0, Wrap}
  <2>1. PICK x : x = lit - granted
    OBVIOUS
  <2>2. /\ granted \in 1 .. RelayMax /\ lit < granted + unfed
        /\ millis - offAt - x \in {-Wrap, 0, Wrap}
    BY <1>4, <2>1 DEF CInv, PulseInv
  <2>3. x \in Int /\ 2 * (x + 1) < Wrap /\ -Wrap < 2 * x
    BY <1>2, <2>1, <2>2, Constants
  <2>4. millis' - offAt - (x + 1) \in {-Wrap, 0, Wrap}
    BY <1>1, <1>2, <2>2, <2>3, Constants, MillisAdvance
  <2>. QED BY <1>2, <2>1, <2>2, <2>4, Constants
<1>5. /\ energised' \in BOOLEAN /\ lit' \in Nat /\ granted' \in Nat /\ offAt' = offAt
      /\ energised' => /\ energised /\ lit' = lit + 1 /\ granted' = granted
                       /\ lit + 1 < granted
      /\ energised /\ ~energised' => lit + 1 >= granted
  BY <1>1, <1>3, <1>4, RelayTicks
<1>6. PulseInv'
  BY <1>1, <1>2, <1>4, <1>5 DEF PulseInv
<1>7. lit + (now' - now) = lit + 1
  BY <1>1, <1>2
<1>. QED BY <1>3, <1>5, <1>6, <1>7

LEMMA BeaconTicks ==
    ASSUME TypeOK, NEW t \in Int, BeaconTick(t)
    PROVE  /\ advertising' \in BOOLEAN /\ slot' \in Int
           /\ advertising' => synced /\ slot' = SlotFor(t)
<1>1. advertising' = synced /\ slot' = (IF synced THEN SlotFor(t) ELSE slot)
  BY DEF BeaconTick
<1>. QED BY <1>1, SlotType DEF TypeOK

LEMMA IterateInv ==
    ASSUME CInv, Iterate
    PROVE  CInv'
<1>1. /\ now' = now + 1 /\ unfed' = 0 /\ BeaconTick(Time + 1)
      /\ UNCHANGED <<signed, synced, drift, ringVars, updating, boots>>
  BY DEF Iterate
<1>2. now \in Int /\ drift \in Int /\ Time + 1 \in Int /\ Time' - unfed' = Time + 1
  BY <1>1, Constants DEF CInv, TypeOK, Time
<1>3. PICK t : t = Time + 1
  OBVIOUS
<1>4. /\ advertising' \in BOOLEAN /\ slot' \in Int
      /\ advertising' => synced /\ slot' = SlotFor(t)
  BY <1>1, <1>2, <1>3, BeaconTicks DEF CInv
<1>5. BeaconInv'
  BY <1>1, <1>2, <1>3, <1>4 DEF BeaconInv
<1>6. now' \in Nat /\ unfed' \in 0 .. Watchdog
  BY <1>1, Constants DEF CInv, TypeOK
<1>7. TypeOK'
  BY <1>1, <1>4, <1>6, IterateRelay DEF CInv, TypeOK, ringVars
<1>8. SignedInv'
  BY <1>1 DEF CInv, SignedInv
<1>. QED BY <1>1, <1>5, <1>7, <1>8, IterateRelay, RingKept, FirstKept DEF CInv, ringVars

\* A hang of the loop moves both clocks and the pulse, and leaves the beacon.
LEMMA DownloadingInv ==
    ASSUME CInv, Downloading
    PROVE  CInv'
<1>1. /\ now' = now + 1 /\ millis' = (millis + 1) % Wrap /\ unfed' = unfed + 1 /\ unfed < Watchdog
      /\ lit' = (IF energised THEN lit + 1 ELSE 0)
      /\ UNCHANGED <<signed, synced, drift, energised, offAt, granted, ringVars, beaconVars,
                     updating, boots>>
  BY DEF Downloading
<1>2. /\ millis \in 0 .. Wrap - 1 /\ offAt \in 0 .. Wrap - 1 /\ lit \in Nat /\ granted \in Nat
      /\ unfed \in 0 .. Watchdog /\ now \in Nat /\ drift \in Int
  BY Constants DEF CInv, TypeOK
<1>3. millis' \in 0 .. Wrap - 1
  BY <1>1, <1>2, Constants, ModRange
<1>4. now' \in Nat /\ unfed' \in 0 .. Watchdog /\ lit' \in Nat
  BY <1>1, <1>2, Constants
<1>5. TypeOK' /\ SignedInv'
  BY <1>1, <1>3, <1>4 DEF CInv, TypeOK, SignedInv, ringVars, beaconVars
<1>6. PulseInv'
  <2>. SUFFICES ASSUME energised
                PROVE  /\ granted' \in 1 .. RelayMax /\ lit' < granted' + unfed'
                       /\ millis' - offAt' - (lit' - granted') \in {-Wrap, 0, Wrap}
    BY <1>1 DEF PulseInv
  <2>1. PICK x : x = lit - granted
    OBVIOUS
  <2>2. /\ granted \in 1 .. RelayMax /\ lit < granted + unfed
        /\ millis - offAt - x \in {-Wrap, 0, Wrap}
    BY <2>1 DEF CInv, PulseInv
  <2>3. x \in Int /\ 2 * (x + 1) < Wrap /\ -Wrap < 2 * x
    BY <1>2, <2>1, <2>2, Constants
  <2>4. millis' - offAt - (x + 1) \in {-Wrap, 0, Wrap}
    BY <1>1, <1>2, <2>2, <2>3, Constants, MillisAdvance
  <2>5. lit' = lit + 1 /\ granted' = granted /\ offAt' = offAt
    BY <1>1
  <2>6. lit' - granted' = x + 1 /\ lit' < granted' + unfed'
    BY <1>1, <1>2, <2>1, <2>2, <2>5
  <2>. QED BY <2>2, <2>4, <2>5, <2>6
<1>7. BeaconInv'
  <2>1. Time' - unfed' = Time - unfed
    BY <1>1, <1>2 DEF Time
  <2>. QED BY <1>1, <2>1 DEF CInv, BeaconInv, beaconVars
<1>. QED BY <1>1, <1>5, <1>6, <1>7, RingKept, FirstKept DEF CInv, ringVars

LEMMA UpdateFailsRelay ==
    ASSUME CInv, UpdateFails
    PROVE  /\ offAt' = offAt
           /\ energised' \in BOOLEAN /\ lit' \in Nat /\ granted' \in Nat
           /\ PulseInv'
           /\ energised /\ ~energised' => lit + (now' - now) >= granted
<1>1. /\ TypeOK /\ unfed' = 0 /\ UNCHANGED <<now, millis>> /\ RelayTick(millis, 0)
  BY DEF CInv, UpdateFails
<1>2. /\ millis \in 0 .. Wrap - 1 /\ offAt \in 0 .. Wrap - 1 /\ lit \in Nat /\ granted \in Nat
      /\ unfed \in 0 .. Watchdog /\ now \in Nat
  BY <1>1 DEF TypeOK
<1>3. PICK ms : ms = millis
  OBVIOUS
<1>4. ASSUME energised
      PROVE  /\ granted \in 1 .. RelayMax /\ lit + 0 <= granted + Watchdog
             /\ ms - offAt - (lit + 0 - granted) \in {-Wrap, 0, Wrap}
  <2>1. /\ granted \in 1 .. RelayMax /\ lit < granted + unfed
        /\ millis - offAt - (lit - granted) \in {-Wrap, 0, Wrap}
    BY <1>4 DEF CInv, PulseInv
  <2>2. lit + 0 = lit
    BY <1>2
  <2>. QED BY <1>2, <1>3, <2>1, <2>2, Constants
<1>5. /\ energised' \in BOOLEAN /\ lit' \in Nat /\ granted' \in Nat /\ offAt' = offAt
      /\ energised' => /\ energised /\ lit' = lit + 0 /\ granted' = granted
                       /\ lit + 0 < granted
      /\ energised /\ ~energised' => lit + 0 >= granted
  BY <1>1, <1>2, <1>3, <1>4, RelayTicks
<1>6. PulseInv'
  <2>. SUFFICES ASSUME energised'
                PROVE  /\ granted' \in 1 .. RelayMax /\ lit' < granted' + unfed'
                       /\ millis' - offAt' - (lit' - granted') \in {-Wrap, 0, Wrap}
    BY DEF PulseInv
  <2>1. energised /\ lit' = lit + 0 /\ granted' = granted /\ lit + 0 < granted
    BY <1>5
  <2>2. lit' < granted' + unfed'
    BY <1>1, <1>2, <2>1
  <2>3. granted \in 1 .. RelayMax /\ ms - offAt - (lit + 0 - granted) \in {-Wrap, 0, Wrap}
    BY <1>4, <2>1
  <2>4. millis' = ms /\ offAt' = offAt
    BY <1>1, <1>3, <1>5
  <2>5. millis' - offAt' - (lit' - granted') = ms - offAt - (lit + 0 - granted)
    BY <1>2, <1>3, <2>1, <2>4
  <2>. QED BY <2>1, <2>2, <2>3, <2>5
<1>7. lit + (now' - now) = lit + 0
  BY <1>1, <1>2
<1>. QED BY <1>5, <1>6, <1>7

LEMMA UpdateFailsInv ==
    ASSUME CInv, UpdateFails
    PROVE  CInv'
<1>1. /\ updating' = FALSE /\ unfed' = 0 /\ BeaconTick(Time)
      /\ UNCHANGED <<now, millis, signed, synced, drift, ringVars, boots>>
  BY DEF UpdateFails
<1>2. Time \in Int /\ Time' - unfed' = Time
  BY <1>1, Constants DEF CInv, TypeOK, Time
<1>3. PICK t : t = Time
  OBVIOUS
<1>4. /\ advertising' \in BOOLEAN /\ slot' \in Int
      /\ advertising' => synced /\ slot' = SlotFor(t)
  BY <1>1, <1>2, <1>3, BeaconTicks DEF CInv
<1>5. BeaconInv'
  BY <1>1, <1>2, <1>3, <1>4 DEF BeaconInv
<1>6. unfed' \in 0 .. Watchdog
  BY <1>1, Constants
<1>7. TypeOK'
  BY <1>1, <1>4, <1>6, UpdateFailsRelay DEF CInv, TypeOK, ringVars
<1>8. SignedInv'
  BY <1>1 DEF CInv, SignedInv
<1>. QED BY <1>1, <1>5, <1>7, <1>8, UpdateFailsRelay, RingKept, FirstKept DEF CInv, ringVars

-----------------------------------------------------------------------------
(* The replay ring *)

LEMMA BackSlots ==
    ASSUME TypeOK, NEW k \in 0 .. Capacity - 1
    PROVE  Back(k) \in Slots /\ (k < Capacity - 1 => Back(k) # seenNext)
BY Constants DEF TypeOK, Back, Slots

\* Remembering a command moves every other one back by a place.
LEMMA RememberInv ==
    ASSUME CInv, NEW c \in Commands, ~CommandAlreadySeen(c), RememberCommand(c),
           honoured' = Append(honoured, c)
    PROVE  /\ seen' \in [Slots -> Commands \cup {NoCommand}] /\ seenNext' \in Slots
           /\ honoured' \in Seq(Commands)
           /\ RingInv' /\ RingRemembers'
<1>. DEFINE L == Len(honoured)
<1>1. /\ TypeOK /\ honoured \in Seq(Commands) /\ L \in Nat /\ DOMAIN honoured = 1 .. L
      /\ seenNext \in 0 .. Capacity - 1 /\ seen \in [Slots -> Commands \cup {NoCommand}]
  BY DEF CInv, TypeOK, Slots
<1>2. /\ seen' = [seen EXCEPT ![seenNext] = c]
      /\ seenNext' = IF seenNext + 1 < Capacity THEN seenNext + 1 ELSE 0
  <2>1. (seenNext + 1) % Capacity = IF seenNext + 1 < Capacity THEN seenNext + 1 ELSE 0
    BY <1>1, Constants
  <2>. QED BY <2>1 DEF RememberCommand
<1>3. seen' \in [Slots -> Commands \cup {NoCommand}] /\ seenNext' \in Slots
  BY <1>1, <1>2, Constants DEF Slots
<1>4. /\ honoured' \in Seq(Commands) /\ Len(honoured') = L + 1 /\ DOMAIN honoured' = 1 .. L + 1
      /\ honoured'[L + 1] = c /\ \A i \in 1 .. L : honoured'[i] = honoured[i]
  BY <1>1
<1>5. ASSUME NEW k \in 0 .. Capacity - 1, k < Len(honoured')
      PROVE  seen'[Back(k)'] = honoured'[Len(honoured') - k]
  <2>1. CASE k = 0
    <3>1. Back(k)' = seenNext
      BY <1>1, <1>2, <2>1, Constants DEF Back
    <3>. QED BY <1>1, <1>2, <1>4, <2>1, <3>1 DEF Slots
  <2>2. CASE k # 0
    <3>1. k - 1 \in 0 .. Capacity - 1 /\ k - 1 < Capacity - 1 /\ k - 1 < L
      BY <1>1, <1>4, <1>5, <2>2, Constants
    <3>2. Back(k)' = Back(k - 1)
      BY <1>1, <1>2, <2>2, Constants DEF Back
    <3>3. Back(k - 1) \in Slots /\ Back(k - 1) # seenNext
      BY <1>1, <3>1, BackSlots
    <3>4. seen[Back(k - 1)] = honoured[L - (k - 1)]
      BY <3>1 DEF CInv, RingInv
    <3>5. L - (k - 1) = L + 1 - k /\ L - (k - 1) \in 1 .. L
      BY <1>1, <3>1, Constants
    <3>6. seen'[Back(k)'] = seen[Back(k - 1)]
      BY <1>1, <1>2, <3>2, <3>3
    <3>. QED BY <1>4, <3>4, <3>5, <3>6
  <2>. QED BY <2>1, <2>2
<1>6. RingInv'
  BY <1>5 DEF RingInv
<1>7. ASSUME NEW i \in 1 .. L, L + 1 - i <= Capacity
      PROVE  honoured[i] # c
  <2>1. L - i \in 0 .. Capacity - 1 /\ L - i < L /\ L - (L - i) = i
    BY <1>1, <1>7, Constants
  <2>2. seen[Back(L - i)] = honoured[i] /\ Back(L - i) \in Slots
    BY <1>1, <2>1, BackSlots DEF CInv, RingInv
  <2>. QED BY <2>2 DEF CommandAlreadySeen
<1>8. ASSUME NEW i \in 1 .. L + 1, NEW j \in 1 .. L + 1, i < j, honoured'[i] = honoured'[j]
      PROVE  j - i > Capacity
  <2>1. CASE j = L + 1
    <3>1. i \in 1 .. L /\ honoured[i] = c
      BY <1>1, <1>4, <1>8, <2>1
    <3>2. ~(L + 1 - i <= Capacity)
      BY <1>7, <3>1
    <3>. QED BY <1>1, <2>1, <3>1, <3>2, Constants
  <2>2. CASE j # L + 1
    <3>1. i \in 1 .. L /\ j \in 1 .. L
      BY <1>1, <1>8, <2>2
    <3>. QED BY <1>1, <1>4, <1>8, <3>1 DEF CInv, RingRemembers
  <2>. QED BY <2>1, <2>2
<1>9. RingRemembers'
  BY <1>4, <1>8 DEF RingRemembers
<1>. QED BY <1>3, <1>4, <1>6, <1>9

\* What Fresh() says of a command, by the board's clock.
LEMMA FreshBounds ==
    ASSUME CInv, NEW c \in Commands, Fresh(c)
    PROVE  /\ Time \in Int /\ signed[c].issued \in Int /\ signed[c].expires \in Int
           /\ signed[c] # Unsigned
           /\ signed[c].issued <= Time + MaxSkew /\ Time <= signed[c].expires + MaxSkew
<1>1. Time \in Int /\ signed[c].issued \in Int /\ signed[c].expires \in Int
  BY Constants DEF CInv, TypeOK, Time
<1>2. signed[c] # Unsigned /\ signed[c].expires >= Time - MaxSkew
      /\ signed[c].issued <= Time + MaxSkew
  BY DEF Fresh
<1>. QED BY <1>1, <1>2, Constants

LEMMA FirstHandled ==
    ASSUME CInv, NEW c \in Commands, HandleCommand(c)
    PROVE  /\ firstAt' \in [Commands -> Int \cup {Never}] /\ FirstInv'
<1>1. /\ Fresh(c) /\ signed' = signed
      /\ firstAt' = [firstAt EXCEPT ![c] = IF firstAt[c] = Never THEN Time ELSE firstAt[c]]
  BY DEF HandleCommand
<1>2. firstAt \in [Commands -> Int \cup {Never}]
  BY DEF CInv, TypeOK
<1>3. PICK t : t = Time
  OBVIOUS
<1>4. /\ t \in Int /\ signed[c] # Unsigned
      /\ signed[c].issued <= t + MaxSkew /\ t <= signed[c].expires + MaxSkew
  BY <1>1, <1>3, FreshBounds
<1>5. firstAt' \in [Commands -> Int \cup {Never}]
  BY <1>1, <1>2, <1>3, <1>4
<1>6. ASSUME NEW d \in Commands, firstAt'[d] # Never
      PROVE  /\ signed[d] # Unsigned
             /\ signed[d].issued <= firstAt'[d] + MaxSkew
             /\ firstAt'[d] <= signed[d].expires + MaxSkew
  <2>1. CASE d = c /\ firstAt[c] = Never
    BY <1>1, <1>2, <1>3, <1>4, <2>1
  <2>2. CASE ~(d = c /\ firstAt[c] = Never)
    <3>1. firstAt'[d] = firstAt[d]
      BY <1>1, <1>2, <2>2
    <3>. QED BY <1>6, <3>1 DEF CInv, FirstInv
  <2>. QED BY <2>1, <2>2
<1>. QED BY <1>1, <1>5, <1>6 DEF FirstInv

LEMMA HandleCommandInv ==
    ASSUME CInv, NEW c \in Commands, HandleCommand(c)
    PROVE  CInv'
<1>1. /\ signed[c] # Unsigned /\ ~CommandAlreadySeen(c) /\ RememberCommand(c)
      /\ Pulse(signed[c].duration) /\ honoured' = Append(honoured, c)
      /\ UNCHANGED <<clockVars, signed, synced, drift, beaconVars, updating, boots>>
  BY DEF HandleCommand, Fresh
<1>2. PICK d : d = Clamp(signed[c].duration)
  OBVIOUS
<1>3. d \in 1 .. RelayMax
  <2>1. signed[c].duration \in Nat /\ 0 < signed[c].duration
    BY <1>1 DEF CInv, TypeOK, SignedInv
  <2>. QED BY <1>2, <2>1, Constants DEF Clamp
<1>4. /\ energised' = TRUE /\ offAt' = (millis + d) % Wrap /\ lit' = 0 /\ granted' = d
  BY <1>1, <1>2 DEF Pulse
<1>5. millis \in 0 .. Wrap - 1 /\ unfed \in 0 .. Watchdog /\ UNCHANGED <<now, millis, unfed>>
  BY <1>1 DEF CInv, TypeOK, clockVars
<1>6. /\ offAt' \in 0 .. Wrap - 1
      /\ millis - offAt' - (0 - d) \in {-Wrap, 0, Wrap}
  <2>1. offAt' = IF millis + d < Wrap THEN millis + d ELSE millis + d - Wrap
    BY <1>3, <1>4, <1>5, Constants
  <2>. QED BY <1>3, <1>5, <2>1, Constants
<1>7. PulseInv'
  <2>1. 0 < d + unfed /\ d \in Nat
    BY <1>3, <1>5, Constants
  <2>. QED BY <1>3, <1>4, <1>5, <1>6, <2>1 DEF PulseInv
<1>8. /\ seen' \in [Slots -> Commands \cup {NoCommand}] /\ seenNext' \in Slots
      /\ honoured' \in Seq(Commands) /\ RingInv' /\ RingRemembers'
  BY <1>1, RememberInv
<1>9. energised' \in BOOLEAN /\ lit' \in Nat /\ granted' \in Nat
  BY <1>3, <1>4, Constants
<1>10. /\ firstAt' \in [Commands -> Int \cup {Never}] /\ FirstInv'
  BY <1>1, FirstHandled
<1>11. TypeOK'
  BY <1>1, <1>5, <1>6, <1>8, <1>9, <1>10 DEF CInv, TypeOK, beaconVars
<1>12. SignedInv'
  BY <1>1 DEF CInv, SignedInv
<1>. QED BY <1>1, <1>5, <1>7, <1>8, <1>10, <1>11, <1>12, BeaconKept DEF CInv

LEMMA StutterInv ==
    ASSUME CInv, UNCHANGED vars
    PROVE  CInv'
<1>1. TypeOK' /\ SignedInv'
  BY DEF CInv, TypeOK, SignedInv, vars, clockVars, relayVars, ringVars, beaconVars
<1>. QED BY <1>1, RingKept, PulseKept, BeaconKept, FirstKept DEF CInv, vars, clockVars, ringVars

LEMMA StepCInv == CInv /\ [Next]_vars => CInv'
<1>. SUFFICES ASSUME CInv, [Next]_vars PROVE CInv'
  OBVIOUS
<1>1. ASSUME NEW c \in Commands, NEW offset \in Offsets, NEW ttl \in Ttls,
             NEW duration \in Durations, Sign(c, offset, ttl, duration)
      PROVE  CInv'
  BY <1>1, SignInv
<1>2. ASSUME NEW d \in Drifts, Sync(d) PROVE CInv'
  BY <1>2, SyncInv
<1>3. ASSUME NEW c \in Commands, HandleCommand(c) PROVE CInv'
  BY <1>3, HandleCommandInv
<1>4. CASE Iterate
  BY <1>4, IterateInv
<1>5. CASE StartUpdate
  BY <1>5, StartUpdateInv
<1>6. CASE Downloading
  BY <1>6, DownloadingInv
<1>7. CASE UpdateFails
  BY <1>7, UpdateFailsInv
<1>8. CASE Reboot
  BY <1>8, RebootInv
<1>9. CASE UNCHANGED vars
  BY <1>9, StutterInv
<1>. QED BY <1>1, <1>2, <1>3, <1>4, <1>5, <1>6, <1>7, <1>8, <1>9 DEF Next

LEMMA Invariance == Spec => []CInv
BY InitCInv, StepCInv, PTL DEF Spec

-----------------------------------------------------------------------------
(* The beacon *)

\* The slots a phone may be behind by cover the freshness window.
LEMMA SpanCovers == Span \in Nat \ {0} /\ MaxAge <= Rotation * Span
<1>. DEFINE q == (MaxAge + Rotation - 1) \div Rotation
<1>1. q \in Int /\ MaxAge + Rotation - 1 < Rotation * q + Rotation
  BY Constants, Quotient
<1>. HIDE DEF q
<1>2. MaxAge <= Rotation * q /\ Rotation * q \in Int
  BY <1>1, Constants
<1>3. CASE q < 1
  <2>1. Rotation * q <= 0
    BY <1>1, <1>3, Constants
  <2>2. Span = 1 /\ Rotation * 1 = Rotation
    BY <1>3, Constants DEF Span, q
  <2>. QED BY <1>2, <2>1, <2>2, Constants
<1>4. CASE ~(q < 1)
  <2>1. Span = q
    BY <1>4 DEF Span, q
  <2>. QED BY <1>1, <1>2, <1>4, <2>1
<1>. QED BY <1>3, <1>4

\* verify_proximity() of the slot of an earlier moment: accepted within MaxAge,
\* refused after the slots of the window and one more.
LEMMA WindowOfSlot ==
    ASSUME NEW heard \in Int, NEW t \in Int
    PROVE  /\ t >= heard /\ t - heard <= MaxAge => VerifyProximity(SlotFor(heard), t)
           /\ VerifyProximity(SlotFor(heard), t) => t - heard < (Span + 1) * Rotation
<1>1. PICK p \in Int : p = SlotFor(heard)
  BY SlotType
<1>2. PICK q \in Int : q = SlotFor(t)
  BY SlotType
<1>3. PICK span \in Nat : span = Span
  BY SpanCovers
<1>4. Rotation * p <= heard /\ heard < Rotation * p + Rotation
  BY <1>1, Constants, Quotient DEF SlotFor
<1>5. Rotation * q <= t /\ t < Rotation * q + Rotation
  BY <1>2, Constants, Quotient DEF SlotFor
<1>6. VerifyProximity(p, t) <=> q - p \in 0 .. span
  BY <1>2, <1>3 DEF VerifyProximity, AcceptableSlots
<1>7. ASSUME t >= heard, t - heard <= MaxAge
      PROVE  q - p \in 0 .. span
  <2>1. Rotation * p < Rotation * (q + 1)
    <3>1. Rotation * (q + 1) = Rotation * q + Rotation
      BY Constants
    <3>. QED BY <1>4, <1>5, <1>7, <3>1, Constants
  <2>2. Rotation * q < Rotation * (p + 1 + span)
    <3>1. Rotation * (p + 1 + span) = Rotation * p + Rotation + Rotation * span
      BY Constants
    <3>2. MaxAge <= Rotation * span
      BY <1>3, SpanCovers
    <3>. QED BY <1>4, <1>5, <1>7, <3>1, <3>2, Constants
  <2>3. p < q + 1 /\ q < p + 1 + span
    <3>1. q + 1 \in Int /\ p + 1 + span \in Int
      OBVIOUS
    <3>. QED BY <2>1, <2>2, <3>1, Constants, CancelFactor
  <2>. QED BY <2>3
<1>8. ASSUME q - p \in 0 .. span
      PROVE  t - heard < (span + 1) * Rotation
  <2>1. PICK o \in 0 .. span : q = p + o
    BY <1>8
  <2>2. Rotation * q = Rotation * p + Rotation * o
    BY <2>1, Constants
  <2>3. Rotation * o <= Rotation * span
    BY <2>1, Constants
  <2>4. (span + 1) * Rotation = Rotation * span + Rotation
    BY Constants
  <2>. QED BY <1>4, <1>5, <2>2, <2>3, <2>4, Constants
<1>. QED BY <1>1, <1>3, <1>6, <1>7, <1>8

-----------------------------------------------------------------------------
(* The results *)

\* The board's variables keep their types.
THEOREM TypeCorrect == Spec => []TypeOK
<1>1. CInv => TypeOK
  BY DEF CInv
<1>. QED BY <1>1, Invariance, PTL

\* The relay stays on for at most the clamped duration and a hang of the loop,
\* wherever in its range millis() is when the pulse begins.
THEOREM PulseIsBounded == Spec => []PulseCeiling
<1>1. CInv => PulseCeiling
  BY DEF CInv, PulseInv, PulseCeiling
<1>. QED BY <1>1, Invariance, PTL

\* Of Capacity + 1 commands honoured in a row between two reboots, no two are
\* the same.
THEOREM RingIsExact == Spec => []RingRemembers
<1>1. CInv => RingRemembers
  BY DEF CInv
<1>. QED BY <1>1, Invariance, PTL

\* An identifier is accepted for MaxAge after the board computed it, and refused
\* once the slots of the window and one more are over.
THEOREM BeaconIsTimely == Spec => []BeaconWindow
<1>1. ASSUME CInv, advertising,
             NEW t \in now .. now + (Span + 2) * Rotation
      PROVE  /\ t >= Time - unfed /\ t - (Time - unfed) <= MaxAge => VerifyProximity(slot, t)
             /\ VerifyProximity(slot, t) => t - (Time - unfed) < (Span + 1) * Rotation
  <2>1. PICK heard : heard = Time - unfed
    OBVIOUS
  <2>2. heard \in Int /\ slot = SlotFor(heard)
    BY <1>1, <2>1, Constants DEF CInv, TypeOK, Time, BeaconInv
  <2>3. t \in Int
    BY <1>1, Constants, SpanCovers DEF CInv, TypeOK
  <2>. QED BY <2>1, <2>2, <2>3, WindowOfSlot
<1>2. CInv => BeaconWindow
  BY <1>1 DEF BeaconWindow
<1>. QED BY <1>2, Invariance, PTL

\* Short of a reset, no pulse ends before its time.
THEOREM PulseIsNotCut == Spec => PulseNotCut
<1>. DEFINE A == energised /\ ~energised' /\ boots' = boots => lit + (now' - now) >= granted
<1>1. ASSUME CInv, [Next]_vars PROVE A
  <2>1. CASE Iterate
    BY <1>1, <2>1, IterateRelay
  <2>2. CASE UpdateFails
    BY <1>1, <2>2, UpdateFailsRelay
  <2>3. CASE Reboot
    <3>1. boots \in Nat /\ boots' = boots + 1
      BY <1>1, <2>3, Constants DEF CInv, TypeOK, Reboot
    <3>2. boots' # boots
      BY <3>1
    <3>. QED BY <3>2
  <2>4. ASSUME NEW c \in Commands, HandleCommand(c) PROVE A
    BY <2>4 DEF HandleCommand, Pulse
  <2>5. ASSUME UNCHANGED energised PROVE A
    BY <2>5
  <2>6. CASE \/ \E c \in Commands, offset \in Offsets, ttl \in Ttls, duration \in Durations :
                   Sign(c, offset, ttl, duration)
             \/ \E d \in Drifts : Sync(d)
             \/ StartUpdate \/ Downloading \/ UNCHANGED vars
    <3>1. UNCHANGED energised
      BY <2>6 DEF Sign, Sync, StartUpdate, Downloading, relayVars, vars
    <3>. QED BY <2>5, <3>1
  <2>. QED BY <1>1, <2>1, <2>2, <2>3, <2>4, <2>6 DEF Next
<1>. QED BY <1>1, Invariance, PTL DEF Spec, PulseNotCut

\* A command honoured again, by whatever the ring has forgotten, was honoured
\* first no longer ago than the signer's lifetime and the skew on either side.
THEOREM ReplayIsBounded == Spec => ReplayWindow
<1>. DEFINE W == MaxTtl + 2 * MaxSkew
            A == \A c \in Commands : honoured' = Append(honoured, c) /\ firstAt[c] # Never =>
                    Time - firstAt[c] \in -W .. W
<1>1. ASSUME CInv, [Next]_vars PROVE A
  <2>1. honoured \in Seq(Commands)
    BY <1>1 DEF CInv, TypeOK
  <2>2. \A c \in Commands : Append(honoured, c) # honoured /\ Append(honoured, c) # <<>>
    <3>. TAKE c \in Commands
    <3>1. Len(Append(honoured, c)) = Len(honoured) + 1 /\ Len(honoured) \in Nat
      BY <2>1
    <3>2. Len(Append(honoured, c)) # Len(honoured) /\ Len(Append(honoured, c)) # 0
      BY <3>1
    <3>. QED BY <3>2
  <2>3. ASSUME NEW c \in Commands, HandleCommand(c) PROVE A
    <3>1. honoured' = Append(honoured, c) /\ Fresh(c)
      BY <2>3 DEF HandleCommand
    <3>2. \A d \in Commands : honoured' = Append(honoured, d) => d = c
      <4>. TAKE d \in Commands
      <4>1. /\ Append(honoured, c)[Len(honoured) + 1] = c
            /\ Append(honoured, d)[Len(honoured) + 1] = d
        BY <2>1
      <4>. QED BY <3>1, <4>1
    <3>3. ASSUME firstAt[c] # Never PROVE Time - firstAt[c] \in -W .. W
      <4>1. PICK t : t = Time
        OBVIOUS
      <4>2. /\ t \in Int /\ signed[c].issued \in Int /\ signed[c].expires \in Int
            /\ signed[c] # Unsigned
            /\ signed[c].issued <= t + MaxSkew /\ t <= signed[c].expires + MaxSkew
        BY <1>1, <3>1, <4>1, FreshBounds
      <4>3. firstAt[c] \in Int
        BY <1>1, <3>3 DEF CInv, TypeOK
      <4>4. /\ signed[c].issued <= firstAt[c] + MaxSkew
            /\ firstAt[c] <= signed[c].expires + MaxSkew
        BY <1>1, <3>3 DEF CInv, FirstInv
      <4>5. signed[c].expires <= signed[c].issued + MaxTtl
        BY <1>1, <4>2 DEF CInv, SignedInv
      <4>6. t - firstAt[c] \in Int /\ t - firstAt[c] <= W /\ -W <= t - firstAt[c]
        BY <4>2, <4>3, <4>4, <4>5, Constants
      <4>. QED BY <4>1, <4>6, Constants
    <3>. QED BY <3>2, <3>3
  <2>4. CASE \/ \E c \in Commands, offset \in Offsets, ttl \in Ttls, duration \in Durations :
                   Sign(c, offset, ttl, duration)
             \/ \E d \in Drifts : Sync(d)
             \/ Iterate \/ StartUpdate \/ Downloading \/ UpdateFails \/ UNCHANGED vars
    <3>1. UNCHANGED honoured
      BY <2>4 DEF Sign, Sync, Iterate, StartUpdate, Downloading, UpdateFails, ringVars, vars
    <3>. QED BY <2>2, <3>1
  <2>5. CASE Reboot
    <3>1. honoured' = <<>>
      BY <2>5 DEF Reboot, Booted
    <3>. QED BY <2>2, <3>1
  <2>. QED BY <1>1, <2>3, <2>4, <2>5 DEF Next
<1>. QED BY <1>1, Invariance, PTL DEF Spec, ReplayWindow

=============================================================================
