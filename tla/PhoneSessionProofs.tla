-------------------------- MODULE PhoneSessionProofs --------------------------
(***************************************************************************)
(* Proofs for PhoneSession: types, that a phone which loses nothing never     *)
(* triggers reuse detection and holds the one token that stands, and that a   *)
(* session that is gone stays gone, for every number of threads, handlers,    *)
(* families, devices and tokens.                                              *)
(***************************************************************************)
EXTENDS PhoneSession, TLAPS

-----------------------------------------------------------------------------
(* The inductive invariant *)

\* The phone does not log in: its family comes from the enrolment.
Served == {"idle", "fresh", "marked", "retired", "half", "reuse", "session", "done"}

\* Handlers that are rotating a token.
Rotating == {"fresh", "marked", "retired", "half"}

\* Rows that are not drawn yet are blank; only refresh tokens are rotated, each
\* within its family; an answer with a token is the end of a handler.
HandlerInv ==
    /\ \A t \in Tokens : t > drawn => kind[t] = "none"
    /\ \A t \in Tokens : kind[t] = "refresh" => family[t] \in Families
    /\ \A t \in used : kind[t] = "refresh"
    /\ \A c \in Calls :
          /\ pc[c] \in Served
          /\ pc[c] \in {"fresh", "marked"} => held[c] \in Tokens /\ kind[held[c]] = "refresh"
          /\ pc[c] \in Rotating \cup {"reuse"} => fam[c] \in Families
          /\ reply[c] # NoToken => pc[c] = "done"

\* A thread with a handler is refreshing or signing out.
ThreadInv ==
    \A th \in Threads : call[th] # NoCall => step[th] \in {"asking", "leaving"}

Unrevoked == {t \in Tokens : kind[t] = "refresh" /\ t \notin revoked}

\* t is not spent, and no other refresh token stands.
Current(t) == t \notin used /\ Unrevoked \subseteq {t}

\* What is asked for, and how far its handler has come with it.
AskInv ==
    LET c == call[lock]
    IN  /\ c = NoCall => Current(asked)
        /\ c # NoCall =>
              /\ pc[c] \in Rotating \cup {"done"}
              /\ pc[c] = "fresh" => Current(asked)
              /\ pc[c] = "marked" => Unrevoked \subseteq {asked}
              /\ pc[c] \in {"retired", "half"} => Unrevoked = {}
              /\ pc[c] = "done" => Current(IF reply[c] = NoToken THEN asked ELSE reply[c])

\* Nothing was lost: the one handler that rotates serves the holder of the lock,
\* and what the phone holds or asks for is current.
Calm ==
    /\ burned = {} /\ raced = {}
    /\ \A c \in Calls : pc[c] # "reuse"
    /\ \A c \in Calls : pc[c] \in Rotating =>
          lock \in Threads /\ call[lock] = c /\ held[c] = asked
    /\ lock = NoThread /\ store # NoToken => Current(store)
    /\ lock # NoThread => store \in {asked, NoToken} /\ AskInv

PInv == PhoneTypeOK /\ HandlerInv /\ ThreadInv /\ (~lost => Calm)

-----------------------------------------------------------------------------

LEMMA InitPInv == PhoneInit => PInv
<1>. SUFFICES ASSUME PhoneInit PROVE PInv
  OBVIOUS
<1>1. 1 \in Tokens /\ 2 \in Tokens
  BY TokenBound, PhoneAssumption DEF Tokens
<1>2. kind \in [Tokens -> {"none", "access", "refresh"}]
  BY DEF PhoneInit
<1>3. \A t \in Tokens : t > 2 => kind[t] = "none"
  BY <1>1 DEF PhoneInit, Tokens
<1>4. PhoneTypeOK
  <2>1. drawn \in 0 .. MaxToken
    BY TokenBound, PhoneAssumption DEF PhoneInit
  <2>2. /\ family \in [Tokens -> Families \cup {NoFamily}]
        /\ owner \in [Families -> Devices \cup {NoDevice}]
    BY DEF PhoneInit
  <2>3. TypeOK
    BY <1>2, <2>1, <2>2 DEF PhoneInit, TypeOK, CallPhases
  <2>. QED BY <1>1, <2>3, PhoneAssumption DEF PhoneInit, PhoneTypeOK, Steps
<1>5. HandlerInv
  <2>1. \A t \in Tokens : kind[t] = "refresh" => family[t] \in Families
    BY <1>1, <1>3 DEF PhoneInit, Tokens
  <2>. QED BY <1>3, <2>1 DEF PhoneInit, HandlerInv, Served, Rotating
<1>6. ThreadInv
  BY DEF PhoneInit, ThreadInv
<1>7. Current(2)
  BY <1>1 DEF PhoneInit, Current, Unrevoked
<1>8. Calm
  BY <1>7 DEF PhoneInit, Calm, Rotating
<1>. QED BY <1>4, <1>5, <1>6, <1>8 DEF PInv

\* What the invariant says of rows and handlers depends on the server alone.
LEMMA ServerKept ==
    ASSUME PInv, UNCHANGED serverVars
    PROVE  /\ TypeOK' /\ HandlerInv'
           /\ reply' \in [Calls -> Tokens \cup {NoToken}]
           /\ Unrevoked' = Unrevoked
           /\ UNCHANGED <<used, pc, held, reply, burned, raced>>
<1>1. TypeOK'
  BY DEF PInv, PhoneTypeOK, TypeOK, serverVars, rowVars, userVars, histVars
<1>2. HandlerInv' /\ Unrevoked' = Unrevoked
  BY DEF PInv, HandlerInv, Unrevoked, serverVars, rowVars, userVars, histVars
<1>. QED BY <1>1, <1>2 DEF PInv, PhoneTypeOK, serverVars, histVars

\* A thread moves without touching lock, store or handlers.
LEMMA WalkInv ==
    ASSUME PInv, NEW th \in Threads, Unauthorized(th) \/ NothingToRefresh(th) \/ SignOut(th)
    PROVE  PInv'
<1>1. UNCHANGED serverVars /\ UNCHANGED <<store, disk, lock, asked, call, lost>>
  BY DEF Unauthorized, NothingToRefresh, SignOut
<1>2. \E to \in Steps \ {"asking"} : step' = [step EXCEPT ![th] = to]
  BY DEF Unauthorized, NothingToRefresh, SignOut, Moves, Steps
<1>3. step[th] \notin {"asking", "leaving"}
  BY DEF Unauthorized, NothingToRefresh, SignOut, Moves
<1>4. PhoneTypeOK'
  BY <1>1, <1>2, <1>3, ServerKept DEF PInv, PhoneTypeOK
<1>5. ThreadInv'
  BY <1>1, <1>2, <1>3 DEF PInv, PhoneTypeOK, ThreadInv
<1>6. ~lost' => Calm'
  BY <1>1, ServerKept DEF PInv, Calm, AskInv, Current
<1>. QED BY <1>1, <1>4, <1>5, <1>6, ServerKept DEF PInv

LEMMA EnterInv ==
    ASSUME PInv, NEW th \in Threads, EnterRefresh(th)
    PROVE  PInv'
<1>1. UNCHANGED serverVars /\ UNCHANGED <<store, disk, call, lost>>
  BY DEF EnterRefresh
<1>2. PhoneTypeOK'
  BY <1>1, ServerKept, PhoneAssumption
     DEF PInv, PhoneTypeOK, EnterRefresh, Moves, Steps
<1>3. ThreadInv'
  BY <1>1 DEF PInv, PhoneTypeOK, ThreadInv, EnterRefresh, Moves
<1>4. call[th] = NoCall
  BY DEF PInv, PhoneTypeOK, ThreadInv, EnterRefresh, Moves
<1>5. ASSUME ~lost' PROVE Calm'
  <2>1. Calm
    BY <1>1, <1>5 DEF PInv
  <2>2. Current(asked)'
    BY <1>1, <2>1, ServerKept DEF EnterRefresh, Calm, Current
  <2>3. AskInv'
    BY <1>1, <1>4, <2>2 DEF EnterRefresh, AskInv
  <2>4. \A c \in Calls : pc[c] \notin Rotating
    BY <2>1, PhoneAssumption DEF Calm, EnterRefresh
  <2>. QED BY <1>1, <2>1, <2>3, <2>4, ServerKept, PhoneAssumption DEF EnterRefresh, Calm
<1>. QED BY <1>1, <1>2, <1>3, <1>5, ServerKept DEF PInv

\* A handler looks the phone's token up: without a loss it is not spent, and no
\* other handler holds it.
LEMMA PresentInv ==
    ASSUME PInv, NEW th \in Threads, NEW c \in Calls, Present(th, c)
    PROVE  PInv'
<1>1. /\ step[th] = "asking" /\ call[th] = NoCall /\ lock = th
      /\ UNCHANGED <<rowVars, used, revoked, expired, owner, userVars, burned>>
      /\ UNCHANGED <<reply, store, disk, lock, step, asked, lost>>
      /\ call' = [call EXCEPT ![th] = c]
  BY DEF Present, Presents, RefreshFresh, RefreshReuse, RefreshNotLive, PInv, PhoneTypeOK
<1>2. /\ asked \in Tokens /\ kind[asked] = "refresh"
      /\ held' = [held EXCEPT ![c] = asked]
      /\ fam' = [fam EXCEPT ![c] = family[asked]]
      /\ pc[c] = "idle"
      /\ \E to \in {"fresh", "reuse", "done"} : pc' = [pc EXCEPT ![c] = to]
  BY DEF Present, Presents, RefreshFresh, RefreshReuse, RefreshNotLive, Go
<1>3. raced' \subseteq Families
  BY <1>2 DEF Present, RefreshFresh, RefreshReuse, RefreshNotLive, PInv, PhoneTypeOK,
     TypeOK, HandlerInv
<1>4. PhoneTypeOK'
  <2>1. TypeOK'
    BY <1>1, <1>2, <1>3
       DEF PInv, PhoneTypeOK, TypeOK, HandlerInv, CallPhases, rowVars, userVars
  <2>. QED BY <1>1, <2>1 DEF PInv, PhoneTypeOK
<1>5. HandlerInv'
  BY <1>1, <1>2 DEF PInv, PhoneTypeOK, TypeOK, HandlerInv, Served, Rotating, rowVars
<1>6. ThreadInv'
  BY <1>1 DEF PInv, PhoneTypeOK, ThreadInv
<1>7. ASSUME ~lost' PROVE Calm'
  <2>1. Calm
    BY <1>1, <1>7 DEF PInv
  <2>2. Current(asked) /\ store \in {asked, NoToken}
    BY <1>1, <2>1, PhoneAssumption DEF Calm, AskInv
  <2>3. \A o \in Calls : pc[o] \notin Rotating
    BY <1>1, <2>1, PhoneAssumption DEF Calm
  <2>4. Current(asked)'
    BY <1>1, <2>2 DEF Current, Unrevoked, rowVars
  <2>5. raced' = raced /\ pc'[c] # "reuse"
    BY <2>2, <2>3, <1>2
       DEF Present, RefreshFresh, RefreshReuse, RefreshNotLive, Current, Rotating, PInv,
           PhoneTypeOK, TypeOK, Go
  <2>6. pc'[c] \in {"fresh", "done"} /\ held'[c] = asked /\ call'[lock] = c
    BY <1>1, <1>2, <2>5 DEF PInv, PhoneTypeOK, TypeOK
  <2>7. \A o \in Calls : o # c => pc'[o] = pc[o]
    BY <1>2 DEF PInv, PhoneTypeOK, TypeOK
  <2>8. reply'[c] = NoToken
    BY <1>1, <1>2 DEF PInv, HandlerInv
  <2>9. AskInv'
    BY <1>1, <2>4, <2>6, <2>8 DEF AskInv, Rotating
  <2>. QED BY <1>1, <2>1, <2>2, <2>3, <2>5, <2>6, <2>7, <2>9, PhoneAssumption DEF Calm
<1>. QED BY <1>4, <1>5, <1>6, <1>7 DEF PInv

\* The holder of the lock saves its answer.
LEMMA SaveInv ==
    ASSUME PInv, NEW th \in Threads, SavePair(th)
    PROVE  PInv'
<1>1. /\ step[th] = "asking" /\ lock = th /\ call[th] \in Calls
      /\ pc[call[th]] = "done" /\ reply[call[th]] # NoToken
      /\ reply[call[th]] \in Tokens
      /\ UNCHANGED serverVars /\ UNCHANGED <<disk, lost>>
      /\ store' = reply[call[th]] /\ lock' = NoThread /\ asked' = NoToken
      /\ step' = [step EXCEPT ![th] = "idle"]
      /\ call' = [call EXCEPT ![th] = NoCall]
  BY DEF SavePair, Answered, Moves, PInv, PhoneTypeOK
<1>2. PhoneTypeOK'
  BY <1>1, ServerKept, PhoneAssumption DEF PInv, PhoneTypeOK, Steps
<1>3. ThreadInv'
  BY <1>1 DEF PInv, PhoneTypeOK, ThreadInv
<1>4. ASSUME ~lost' PROVE Calm'
  <2>1. Calm
    BY <1>1, <1>4 DEF PInv
  <2>2. Current(reply[call[th]])
    BY <1>1, <2>1, PhoneAssumption DEF Calm, AskInv
  <2>3. Current(store)'
    BY <1>1, <2>2, ServerKept DEF Current
  <2>4. \A c \in Calls : pc[c] \notin Rotating
    BY <1>1, <2>1 DEF Calm, Rotating
  <2>. QED BY <1>1, <2>1, <2>3, <2>4, ServerKept DEF Calm
<1>. QED BY <1>1, <1>2, <1>3, <1>4, ServerKept DEF PInv

\* A refresh ends without a pair: the token that was asked for is still the one
\* that stands, unless something was lost.
LEMMA FailsInv ==
    ASSUME PInv, NEW th \in Threads, Refused(th) \/ NoAnswer(th)
    PROVE  PInv'
<1>1. /\ step[th] = "asking" /\ lock = th
      /\ UNCHANGED serverVars /\ UNCHANGED <<store, disk>>
      /\ lock' = NoThread /\ asked' = NoToken
      /\ step' = [step EXCEPT ![th] = "failed"]
      /\ call' = [call EXCEPT ![th] = NoCall]
      /\ lost' \in {lost, TRUE}
  BY DEF Refused, NoAnswer, Fails, Moves, PInv, PhoneTypeOK
<1>2. PhoneTypeOK'
  BY <1>1, ServerKept, PhoneAssumption DEF PInv, PhoneTypeOK, Steps
<1>3. ThreadInv'
  BY <1>1 DEF PInv, PhoneTypeOK, ThreadInv
<1>4. ASSUME ~lost' PROVE Calm'
  <2>1. Calm
    BY <1>1, <1>4 DEF PInv
  <2>2. /\ call[th] # NoCall /\ pc[call[th]] = "done" /\ reply[call[th]] = NoToken
    BY <1>4 DEF Refused, NoAnswer, Answered
  <2>3. Current(asked) /\ store \in {asked, NoToken}
    BY <1>1, <2>1, <2>2, PhoneAssumption DEF Calm, AskInv
  <2>4. store # NoToken => Current(store)'
    BY <1>1, <2>3, ServerKept DEF Current
  <2>5. \A c \in Calls : pc[c] \notin Rotating
    BY <1>1, <2>1, <2>2 DEF Calm, Rotating
  <2>. QED BY <1>1, <2>1, <2>4, <2>5, ServerKept DEF Calm
<1>. QED BY <1>1, <1>2, <1>3, <1>4, ServerKept DEF PInv

LEMMA AgainInv ==
    ASSUME PInv, NEW th \in Threads, SendAgain(th)
    PROVE  PInv'
<1>1. /\ UNCHANGED serverVars /\ UNCHANGED <<store, disk, lock, step, asked>>
      /\ call' = [call EXCEPT ![th] = NoCall]
      /\ lost' = TRUE
  BY DEF SendAgain
<1>2. PhoneTypeOK' /\ ThreadInv'
  BY <1>1, ServerKept DEF PInv, PhoneTypeOK, ThreadInv
<1>. QED BY <1>1, <1>2, ServerKept DEF PInv

\* clearSession(), after a failed refresh or a sign-out, at any time.
LEMMA ClearInv ==
    ASSUME PInv, NEW th \in Threads, ClearFailed(th) \/ ClearSignedOut(th)
    PROVE  PInv'
<1>1. /\ step[th] \in {"failed", "leaving"} /\ lock # th
      /\ UNCHANGED serverVars /\ UNCHANGED <<disk, lock, asked, lost>>
      /\ store' = NoToken
      /\ step' = [step EXCEPT ![th] = "idle"]
      /\ call' \in {call, [call EXCEPT ![th] = NoCall]}
      /\ step[th] = "failed" => call[th] = NoCall
  BY DEF ClearFailed, ClearSignedOut, Moves, PInv, PhoneTypeOK, ThreadInv
<1>2. PhoneTypeOK'
  BY <1>1, ServerKept DEF PInv, PhoneTypeOK, Steps
<1>3. ThreadInv'
  BY <1>1 DEF PInv, PhoneTypeOK, ThreadInv, ClearFailed, ClearSignedOut, Moves
<1>4. ASSUME ~lost' PROVE Calm'
  <2>1. Calm
    BY <1>1, <1>4 DEF PInv
  <2>2. lock \in Threads => call'[lock] = call[lock]
    BY <1>1 DEF PInv, PhoneTypeOK
  <2>3. lock # NoThread => AskInv'
    BY <1>1, <2>1, <2>2, ServerKept DEF Calm, AskInv, Current, PInv, PhoneTypeOK
  <2>. QED BY <1>1, <2>1, <2>2, <2>3, ServerKept DEF Calm
<1>. QED BY <1>1, <1>2, <1>3, <1>4, ServerKept DEF PInv

\* The file is written, or the process dies with or without having written it.
LEMMA ProcessInv ==
    ASSUME PInv, Flush \/ Die
    PROVE  PInv'
<1>1. CASE Flush
  <2>1. UNCHANGED serverVars /\ UNCHANGED <<store, lock, step, asked, call, lost>>
        /\ disk' = store
    BY <1>1 DEF Flush
  <2>2. PhoneTypeOK' /\ ThreadInv'
    BY <2>1, ServerKept DEF PInv, PhoneTypeOK, ThreadInv
  <2>3. ~lost' => Calm'
    BY <2>1, ServerKept DEF PInv, Calm, AskInv, Current
  <2>. QED BY <2>1, <2>2, <2>3, ServerKept DEF PInv
<1>2. CASE Die
  <2>1. /\ UNCHANGED serverVars /\ UNCHANGED disk
        /\ store' = disk /\ lock' = NoThread /\ asked' = NoToken
        /\ step' = [th \in Threads |-> "idle"]
        /\ call' = [th \in Threads |-> NoCall]
    BY <1>2 DEF Die
  <2>2. lost' \in BOOLEAN /\ (~lost' => ~lost /\ disk = store /\ lock = NoThread)
    BY <1>2 DEF Die, PInv, PhoneTypeOK
  <2>3. PhoneTypeOK' /\ ThreadInv'
    BY <2>1, <2>2, ServerKept, PhoneAssumption DEF PInv, PhoneTypeOK, ThreadInv, Steps
  <2>4. ~lost' => Calm'
    BY <2>1, <2>2, ServerKept, PhoneAssumption DEF PInv, Calm, Current
  <2>. QED BY <2>1, <2>3, <2>4, ServerKept DEF PInv
<1>. QED BY <1>1, <1>2


-----------------------------------------------------------------------------
(* The server's steps *)

\* /auth/logout is looked up by a handler of its own.
LEMMA LogoutStartInv ==
    ASSUME PInv, NEW th \in Threads, NEW c \in Calls, PresentLogout(th, c)
    PROVE  PInv'
<1>1. PICK t \in Tokens : Resolve(c, t)
  BY DEF PresentLogout
<1>2. /\ step[th] = "leaving" /\ lock # th /\ call[th] = NoCall
      /\ UNCHANGED <<rowVars, used, revoked, expired, owner, userVars, histVars>>
      /\ UNCHANGED <<reply, store, disk, lock, step, asked, lost>>
      /\ call' = [call EXCEPT ![th] = c]
      /\ pc[c] = "idle" /\ pc' = [pc EXCEPT ![c] = "session"]
      /\ held' = [held EXCEPT ![c] = t]
      /\ fam' = [fam EXCEPT ![c] = family[t]]
  BY <1>1 DEF PresentLogout, Resolve, Go, PInv, PhoneTypeOK
<1>3. PhoneTypeOK'
  <2>1. TypeOK'
    BY <1>2 DEF PInv, PhoneTypeOK, TypeOK, CallPhases, rowVars, userVars, histVars
  <2>. QED BY <1>2, <2>1 DEF PInv, PhoneTypeOK
<1>4. HandlerInv' /\ ThreadInv'
  BY <1>2 DEF PInv, PhoneTypeOK, TypeOK, HandlerInv, ThreadInv, Served, Rotating, rowVars
<1>5. ASSUME ~lost' PROVE Calm'
  <2>1. Calm
    BY <1>2, <1>5 DEF PInv
  <2>2. /\ Unrevoked' = Unrevoked
        /\ lock \in Threads => call'[lock] = call[lock]
        /\ \A o \in Calls : o # c => pc'[o] = pc[o] /\ held'[o] = held[o]
        /\ pc'[c] = "session"
    BY <1>2 DEF Unrevoked, rowVars, PInv, PhoneTypeOK, TypeOK
  <2>3. ASSUME lock # NoThread PROVE AskInv'
    <3>1. lock \in Threads /\ AskInv
      BY <2>1, <2>3 DEF Calm, PInv, PhoneTypeOK
    <3>2. call[lock] # NoCall => call[lock] # c /\ call[lock] \in Calls
      BY <1>2, <3>1 DEF AskInv, Rotating, PInv, PhoneTypeOK
    <3>. QED BY <1>2, <2>2, <3>1, <3>2 DEF AskInv, Current
  <2>. QED BY <1>2, <2>1, <2>2, <2>3 DEF Calm, Current, Rotating, histVars
<1>. QED BY <1>3, <1>4, <1>5 DEF PInv

\* Time and the administrator touch no row that the argument is about.
LEMMA WithdrawInv ==
    ASSUME PInv, Withdraw
    PROVE  PInv'
<1>1. /\ UNCHANGED <<rowVars, used, revoked, owner, pc, held, fam, histVars>>
      /\ UNCHANGED <<reply, phoneVars>>
  BY DEF Withdraw, Expire, BlockDevice, SetActive
<1>2. expired' \subseteq Tokens /\ blocked' \subseteq Devices /\ active' \in BOOLEAN
  BY DEF Withdraw, Expire, BlockDevice, SetActive, userVars, PInv, PhoneTypeOK, TypeOK
<1>3. PhoneTypeOK'
  BY <1>1, <1>2 DEF PInv, PhoneTypeOK, TypeOK, rowVars, histVars, phoneVars
<1>4. HandlerInv' /\ ThreadInv'
  BY <1>1 DEF PInv, HandlerInv, ThreadInv, rowVars, phoneVars
<1>5. ~lost' => Calm'
  BY <1>1 DEF PInv, Calm, AskInv, Current, Unrevoked, rowVars, histVars, phoneVars
<1>. QED BY <1>3, <1>4, <1>5 DEF PInv

\* A handler dies: for a refresh that is a loss, for a logout it is not.
LEMMA BreakInv ==
    ASSUME PInv, NEW c \in Calls, Break(c)
    PROVE  PInv'
<1>1. /\ UNCHANGED <<rowVars, used, revoked, expired, owner, userVars, held, fam, histVars>>
      /\ UNCHANGED <<reply, store, disk, lock, step, asked, call>>
      /\ pc[c] \notin {"idle", "done"}
      /\ pc' = [pc EXCEPT ![c] = "done"]
  BY DEF Break, Crash
<1>2. lost' \in BOOLEAN /\ (~lost' => ~lost /\ pc[c] = "session")
  BY DEF Break, PInv, PhoneTypeOK
<1>3. PhoneTypeOK'
  <2>1. TypeOK'
    BY <1>1 DEF PInv, PhoneTypeOK, TypeOK, CallPhases, rowVars, userVars, histVars
  <2>. QED BY <1>1, <1>2, <2>1 DEF PInv, PhoneTypeOK
<1>4. HandlerInv' /\ ThreadInv'
  BY <1>1 DEF PInv, PhoneTypeOK, TypeOK, HandlerInv, ThreadInv, Served, Rotating, rowVars
<1>5. ASSUME ~lost' PROVE Calm'
  <2>1. Calm /\ pc[c] = "session"
    BY <1>2, <1>5 DEF PInv
  <2>2. /\ Unrevoked' = Unrevoked
        /\ \A o \in Calls : o # c => pc'[o] = pc[o]
        /\ pc'[c] = "done"
    BY <1>1 DEF Unrevoked, rowVars, PInv, PhoneTypeOK, TypeOK
  <2>3. ASSUME lock # NoThread PROVE AskInv'
    <3>1. lock \in Threads /\ AskInv
      BY <2>1, <2>3 DEF Calm, PInv, PhoneTypeOK
    <3>2. call[lock] # NoCall => call[lock] # c /\ call[lock] \in Calls
      BY <2>1, <3>1 DEF AskInv, Rotating, PInv, PhoneTypeOK
    <3>. QED BY <1>1, <2>2, <3>1, <3>2 DEF AskInv, Current
  <2>. QED BY <1>1, <2>1, <2>2, <2>3 DEF Calm, Current, Rotating, histVars
<1>. QED BY <1>3, <1>4, <1>5 DEF PInv


\* Reuse detection needs a spent token, which only a loss brings about.
LEMMA BurnInv ==
    ASSUME PInv, NEW c \in Calls, BurnFamily(c), UNCHANGED <<reply, phoneVars>>
    PROVE  PInv'
<1>1. /\ UNCHANGED <<rowVars, used, expired, owner, userVars, held, fam, raced>>
      /\ revoked \subseteq revoked' /\ revoked' \subseteq Tokens
      /\ burned' = burned \cup {fam[c]}
      /\ pc[c] = "reuse" /\ pc' = [pc EXCEPT ![c] = "done"]
  BY DEF BurnFamily, RevokeMembers, Members, Go, PInv, PhoneTypeOK, TypeOK
<1>2. fam[c] \in Families
  BY <1>1 DEF PInv, HandlerInv
<1>3. PhoneTypeOK'
  <2>1. TypeOK'
    BY <1>1, <1>2 DEF PInv, PhoneTypeOK, TypeOK, CallPhases, rowVars, userVars
  <2>. QED BY <2>1 DEF PInv, PhoneTypeOK, phoneVars
<1>4. HandlerInv' /\ ThreadInv'
  BY <1>1 DEF PInv, PhoneTypeOK, TypeOK, HandlerInv, ThreadInv, Served, Rotating,
     rowVars, phoneVars
<1>5. lost
  BY <1>1 DEF PInv, Calm
<1>. QED BY <1>3, <1>4, <1>5 DEF PInv, phoneVars

\* The token is spent while its handler goes on.
LEMMA MarkInv ==
    ASSUME PInv, NEW c \in Calls, MarkUsed(c), UNCHANGED <<reply, phoneVars>>
    PROVE  PInv'
<1>1. /\ UNCHANGED <<rowVars, revoked, expired, owner, userVars, held, fam, histVars>>
      /\ used' = used \cup {held[c]}
      /\ pc[c] = "fresh" /\ pc' = [pc EXCEPT ![c] = "marked"]
  BY DEF MarkUsed, Go
<1>2. held[c] \in Tokens /\ kind[held[c]] = "refresh"
  BY <1>1 DEF PInv, HandlerInv
<1>3. PhoneTypeOK'
  <2>1. TypeOK'
    BY <1>1, <1>2 DEF PInv, PhoneTypeOK, TypeOK, CallPhases, rowVars, userVars, histVars
  <2>. QED BY <2>1 DEF PInv, PhoneTypeOK, phoneVars
<1>4. HandlerInv' /\ ThreadInv'
  BY <1>1, <1>2 DEF PInv, PhoneTypeOK, TypeOK, HandlerInv, ThreadInv, Served, Rotating,
     rowVars, phoneVars
<1>5. ASSUME ~lost' PROVE Calm'
  <2>1. Calm
    BY <1>5 DEF PInv, phoneVars
  <2>2. lock \in Threads /\ call[lock] = c /\ AskInv /\ lock # NoThread /\ c # NoCall
    BY <1>1, <2>1, PhoneAssumption DEF Calm, Rotating
  <2>3. Unrevoked' = Unrevoked /\ Unrevoked \subseteq {asked}
    BY <1>1, <2>2 DEF Unrevoked, rowVars, AskInv, Current
  <2>4. pc'[c] = "marked" /\ \A o \in Calls : o # c => pc'[o] = pc[o]
    BY <1>1 DEF PInv, PhoneTypeOK, TypeOK
  <2>5. AskInv'
    BY <2>2, <2>3, <2>4 DEF AskInv, Rotating, phoneVars
  <2>. QED BY <1>1, <2>1, <2>2, <2>4, <2>5 DEF Calm, Rotating, phoneVars, histVars
<1>. QED BY <1>3, <1>4, <1>5 DEF PInv

\* The spent token is revoked: for a moment none stands.
LEMMA RetireInv ==
    ASSUME PInv, NEW c \in Calls, RevokeRotated(c), UNCHANGED <<reply, phoneVars>>
    PROVE  PInv'
<1>1. /\ UNCHANGED <<rowVars, used, expired, owner, userVars, held, fam, histVars>>
      /\ revoked' = revoked \cup {held[c]}
      /\ pc[c] = "marked" /\ pc' = [pc EXCEPT ![c] = "retired"]
  BY DEF RevokeRotated, Go
<1>2. held[c] \in Tokens
  BY <1>1 DEF PInv, HandlerInv
<1>3. PhoneTypeOK'
  <2>1. TypeOK'
    BY <1>1, <1>2 DEF PInv, PhoneTypeOK, TypeOK, CallPhases, rowVars, userVars, histVars
  <2>. QED BY <2>1 DEF PInv, PhoneTypeOK, phoneVars
<1>4. HandlerInv' /\ ThreadInv'
  BY <1>1, <1>2 DEF PInv, PhoneTypeOK, TypeOK, HandlerInv, ThreadInv, Served, Rotating,
     rowVars, phoneVars
<1>5. ASSUME ~lost' PROVE Calm'
  <2>1. Calm
    BY <1>5 DEF PInv, phoneVars
  <2>2. /\ lock \in Threads /\ call[lock] = c /\ AskInv /\ lock # NoThread /\ c # NoCall
        /\ held[c] = asked
    BY <1>1, <2>1, PhoneAssumption DEF Calm, Rotating
  <2>3. Unrevoked' = {}
    BY <1>1, <2>2 DEF Unrevoked, rowVars, AskInv
  <2>4. pc'[c] = "retired" /\ \A o \in Calls : o # c => pc'[o] = pc[o]
    BY <1>1 DEF PInv, PhoneTypeOK, TypeOK
  <2>5. AskInv'
    BY <2>2, <2>3, <2>4 DEF AskInv, Rotating, phoneVars
  <2>. QED BY <1>1, <2>1, <2>2, <2>4, <2>5 DEF Calm, Rotating, phoneVars, histVars
<1>. QED BY <1>3, <1>4, <1>5 DEF PInv

\* A logout revokes rows of the family and adds none.
LEMMA LogoutInv ==
    ASSUME PInv, NEW c \in Calls, LogoutFamily(c), UNCHANGED <<reply, phoneVars>>
    PROVE  PInv'
<1>1. /\ UNCHANGED <<rowVars, used, expired, owner, userVars, held, fam, histVars>>
      /\ revoked \subseteq revoked' /\ revoked' \subseteq Tokens
      /\ pc[c] = "session" /\ pc' = [pc EXCEPT ![c] = "done"]
  BY DEF LogoutFamily, RevokeMembers, Members, Go, PInv, PhoneTypeOK, TypeOK
<1>2. PhoneTypeOK'
  <2>1. TypeOK'
    BY <1>1 DEF PInv, PhoneTypeOK, TypeOK, CallPhases, rowVars, userVars, histVars
  <2>. QED BY <2>1 DEF PInv, PhoneTypeOK, phoneVars
<1>3. HandlerInv' /\ ThreadInv'
  BY <1>1 DEF PInv, PhoneTypeOK, TypeOK, HandlerInv, ThreadInv, Served, Rotating,
     rowVars, phoneVars
<1>4. ASSUME ~lost' PROVE Calm'
  <2>1. Calm
    BY <1>4 DEF PInv, phoneVars
  <2>2. /\ Unrevoked' \subseteq Unrevoked
        /\ \A o \in Calls : o # c => pc'[o] = pc[o]
        /\ pc'[c] = "done"
    BY <1>1 DEF Unrevoked, rowVars, PInv, PhoneTypeOK, TypeOK
  <2>3. ASSUME lock # NoThread PROVE AskInv'
    <3>1. lock \in Threads /\ AskInv
      BY <2>1, <2>3 DEF Calm, PInv, PhoneTypeOK
    <3>2. call[lock] # NoCall => call[lock] # c /\ call[lock] \in Calls
      BY <1>1, <3>1 DEF AskInv, Rotating, PInv, PhoneTypeOK
    <3>. QED BY <1>1, <2>2, <3>1, <3>2 DEF AskInv, Current, phoneVars
  <2>. QED BY <1>1, <2>1, <2>2, <2>3 DEF Calm, Current, Rotating, histVars, phoneVars
<1>. QED BY <1>2, <1>3, <1>4 DEF PInv

\* A handler draws a row: an access token, or the refresh token it answers with.
LEMMA DrawInv ==
    ASSUME PInv, NEW c \in Calls,
           \/ IssueAccess(c) /\ UNCHANGED <<reply, phoneVars>>
           \/ Reply(c)
    PROVE  PInv'
<1>. DEFINE n == drawn + 1
<1>1. /\ pc[c] \in {"retired", "half"} /\ n \in Tokens /\ drawn' = n
      /\ UNCHANGED <<used, revoked, expired, owner, userVars, held, fam, histVars>>
      /\ UNCHANGED phoneVars
  <2>1. pc[c] \in {"retired", "half"}
    BY DEF PInv, HandlerInv, Served, IssueAccess, Reply, IssueRefresh, Go
  <2>2. Insert(c, "access") \/ Insert(c, "refresh")
    BY DEF IssueAccess, Reply, IssueRefresh
  <2>3. n \in Tokens
    BY <2>2, TokenBound DEF PInv, PhoneTypeOK, TypeOK, Insert, Tokens
  <2>. QED BY <2>1, <2>2, <2>3 DEF Insert, Reply
<1>2. fam[c] \in Families /\ reply[c] = NoToken
  BY <1>1 DEF PInv, HandlerInv, Rotating
<1>3. family' = [family EXCEPT ![n] = fam[c]]
  BY DEF IssueAccess, Reply, IssueRefresh, Insert
<1>4. \/ /\ pc'= [pc EXCEPT ![c] = "half"] /\ kind' = [kind EXCEPT ![n] = "access"]
         /\ reply' = reply
      \/ /\ pc' = [pc EXCEPT ![c] = "done"] /\ kind' = [kind EXCEPT ![n] = "refresh"]
         /\ reply' = [reply EXCEPT ![c] = n]
  BY <1>1 DEF IssueAccess, Reply, IssueRefresh, Insert, Go, PInv, HandlerInv, Served
<1>5. kind[n] = "none" /\ n \notin used /\ n # NoToken
  BY <1>1, TokenBound DEF PInv, PhoneTypeOK, TypeOK, HandlerInv, Tokens, NoToken
<1>6. \A t \in Tokens : t > n => t > drawn /\ t # n
  BY DEF PInv, PhoneTypeOK, TypeOK, Tokens
<1>7. PhoneTypeOK'
  <2>1. drawn' \in 0 .. MaxToken
    BY <1>1, TokenBound DEF Tokens, PInv, PhoneTypeOK, TypeOK
  <2>2. TypeOK'
    BY <1>1, <1>2, <1>3, <1>4, <2>1
       DEF PInv, PhoneTypeOK, TypeOK, CallPhases, userVars, histVars
  <2>. QED BY <1>1, <1>4, <2>2 DEF PInv, PhoneTypeOK, phoneVars
<1>8. HandlerInv'
  <2>1. /\ \A t \in Tokens : t > drawn' => kind'[t] = "none"
        /\ \A t \in Tokens : kind'[t] = "refresh" => family'[t] \in Families
        /\ \A t \in used' : kind'[t] = "refresh"
    BY <1>1, <1>2, <1>3, <1>4, <1>5, <1>6 DEF PInv, PhoneTypeOK, TypeOK, HandlerInv
  <2>2. ASSUME NEW o \in Calls
        PROVE  /\ pc'[o] \in Served
               /\ pc'[o] \in {"fresh", "marked"} =>
                      held'[o] \in Tokens /\ kind'[held'[o]] = "refresh"
               /\ pc'[o] \in Rotating \cup {"reuse"} => fam'[o] \in Families
               /\ reply'[o] # NoToken => pc'[o] = "done"
    BY <1>1, <1>2, <1>4, <1>5
       DEF PInv, PhoneTypeOK, TypeOK, HandlerInv, Served, Rotating
  <2>. QED BY <2>1, <2>2 DEF HandlerInv
<1>9. ThreadInv'
  BY <1>1 DEF PInv, ThreadInv, phoneVars
<1>10. ASSUME ~lost' PROVE Calm'
  <2>1. Calm
    BY <1>1, <1>10 DEF PInv, phoneVars
  <2>2. lock \in Threads /\ call[lock] = c /\ AskInv /\ lock # NoThread /\ c # NoCall
    BY <1>1, <2>1, PhoneAssumption DEF Calm, Rotating
  <2>3. Unrevoked = {}
    BY <1>1, <2>2 DEF AskInv
  <2>4. \A o \in Calls : o # c => pc'[o] = pc[o]
    BY <1>4 DEF PInv, PhoneTypeOK, TypeOK
  <2>5. CASE pc' = [pc EXCEPT ![c] = "half"] /\ kind' = [kind EXCEPT ![n] = "access"]
    <3>1. Unrevoked' = {} /\ pc'[c] = "half"
      BY <1>1, <2>3, <2>5 DEF Unrevoked, PInv, PhoneTypeOK, TypeOK
    <3>2. AskInv'
      BY <1>1, <2>2, <3>1 DEF AskInv, Rotating, phoneVars
    <3>. QED BY <1>1, <2>1, <2>2, <2>4, <3>1, <3>2 DEF Calm, Rotating, phoneVars, histVars
  <2>6. CASE /\ pc' = [pc EXCEPT ![c] = "done"] /\ kind' = [kind EXCEPT ![n] = "refresh"]
             /\ reply' = [reply EXCEPT ![c] = n]
    <3>1. Unrevoked' \subseteq {n} /\ pc'[c] = "done" /\ reply'[c] = n
      BY <1>1, <2>3, <2>6 DEF Unrevoked, PInv, PhoneTypeOK, TypeOK
    <3>2. AskInv'
      BY <1>1, <1>5, <2>2, <3>1 DEF AskInv, Current, Rotating, phoneVars
    <3>. QED BY <1>1, <2>1, <2>2, <2>4, <3>1, <3>2 DEF Calm, Rotating, phoneVars, histVars
  <2>. QED BY <1>4, <2>5, <2>6
<1>. QED BY <1>7, <1>8, <1>9, <1>10 DEF PInv

LEMMA NextPInv == PInv /\ [PhoneNext]_systemVars => PInv'
<1>. SUFFICES ASSUME PInv, [PhoneNext]_systemVars PROVE PInv'
  OBVIOUS
<1>1. CASE UNCHANGED systemVars
  <2>1. UNCHANGED serverVars /\ UNCHANGED phoneVars
    BY <1>1 DEF systemVars
  <2>2. PhoneTypeOK' /\ ThreadInv'
    BY <2>1, ServerKept DEF PInv, PhoneTypeOK, ThreadInv, phoneVars
  <2>3. ~lost' => Calm'
    BY <2>1, ServerKept DEF PInv, Calm, AskInv, Current, phoneVars
  <2>. QED BY <2>1, <2>2, <2>3, ServerKept DEF PInv
<1>2. ASSUME NEW th \in Threads,
             \/ Unauthorized(th) \/ EnterRefresh(th) \/ NothingToRefresh(th)
             \/ SavePair(th) \/ Refused(th) \/ NoAnswer(th) \/ SendAgain(th)
             \/ ClearFailed(th) \/ SignOut(th) \/ ClearSignedOut(th)
             \/ \E c \in Calls : Present(th, c) \/ PresentLogout(th, c)
      PROVE  PInv'
  BY <1>2, WalkInv, EnterInv, SaveInv, FailsInv, AgainInv, ClearInv, PresentInv,
     LogoutStartInv
<1>3. ASSUME NEW c \in Calls, Reply(c) \/ Break(c) \/ Serve(c) PROVE PInv'
  BY <1>3, DrawInv, BreakInv, BurnInv, MarkInv, RetireInv, LogoutInv DEF Serve
<1>. QED BY <1>1, <1>2, <1>3, ProcessInv, WithdrawInv DEF PhoneNext

-----------------------------------------------------------------------------
(* The results *)

\* The invariant holds in every reachable state.
THEOREM PhoneInvariance == PhoneSpec => []PInv
BY InitPInv, NextPInv, PTL DEF PhoneSpec

\* Threads, store, lock and handlers keep their types, and a thread that is
\* refreshing is the one that holds the lock.
THEOREM PhoneTypeCorrect == PhoneSpec => []PhoneTypeOK
<1>1. PInv => PhoneTypeOK
  BY DEF PInv
<1>. QED BY PhoneInvariance, <1>1, PTL

\* The refresh lock does what its comment says, short of a loss: however many
\* threads refresh and sign out, the phone never looks like a thief.
THEOREM LockPreventsFalseTheft == PhoneSpec => []NoFalseTheft
<1>1. PInv => NoFalseTheft
  BY DEF PInv, Calm, NoFalseTheft
<1>. QED BY PhoneInvariance, <1>1, PTL

\* Short of a loss no refresh token stands that the phone does not hold.
THEOREM PhoneHoldsWhatStands == PhoneSpec => []HoldsWhatStands
<1>1. PInv => HoldsWhatStands
  BY DEF PInv, Calm, Current, Unrevoked, HoldsWhatStands, Standing, Members
<1>. QED BY PhoneInvariance, <1>1, PTL

\* No thread that is late brings back a session that is gone.
THEOREM SignedOutIsFinal == PhoneSpec => SignedOutStays
<1>1. ASSUME PInv, [PhoneNext]_systemVars, SignedOut PROVE SignedOut'
  <2>1. \A th \in Threads : step[th] # "asking"
    BY <1>1, PhoneAssumption DEF PInv, PhoneTypeOK, SignedOut
  <2>2. CASE UNCHANGED systemVars
    BY <1>1, <2>2 DEF systemVars, phoneVars, SignedOut
  <2>3. ASSUME NEW th \in Threads,
               \/ Unauthorized(th) \/ EnterRefresh(th) \/ NothingToRefresh(th)
               \/ SavePair(th) \/ Refused(th) \/ NoAnswer(th) \/ SendAgain(th)
               \/ ClearFailed(th) \/ SignOut(th) \/ ClearSignedOut(th)
               \/ \E c \in Calls : Present(th, c) \/ PresentLogout(th, c)
        PROVE  SignedOut'
    BY <1>1, <2>1, <2>3
       DEF SignedOut, Unauthorized, EnterRefresh, NothingToRefresh, SavePair, Refused,
           NoAnswer, Fails, SendAgain, ClearFailed, SignOut, ClearSignedOut, Present,
           PresentLogout, Moves
  <2>4. ASSUME NEW c \in Calls, Reply(c) \/ Break(c) \/ Serve(c) PROVE SignedOut'
    BY <1>1, <2>4 DEF SignedOut, Reply, Break, Serve, phoneVars
  <2>5. CASE Flush \/ Die \/ Withdraw
    BY <1>1, <2>5 DEF SignedOut, Flush, Die, Withdraw, phoneVars
  <2>. QED BY <1>1, <2>2, <2>3, <2>4, <2>5 DEF PhoneNext
<1>. QED BY <1>1, PhoneInvariance, PTL DEF PhoneSpec, SignedOutStays

=============================================================================
