------------------------ MODULE SecurityManagerProofs ------------------------
(***************************************************************************)
(* Theorems about SecurityManager, for every policy, every set of users    *)
(* and every finite set of session threads; and about the filter and the   *)
(* configuration it is made from, for every width of a byte, family,       *)
(* address and prefix, and for lists and files of any length.              *)
(***************************************************************************)
EXTENDS SecurityManager, ServerConfig, FiniteSetTheorems, SequenceTheorems, WellFoundedInduction, TLAPS

USE PolicyAssumption

\* What the entry operations make of an entry is an entry again.
LEMMA EntryOperationsType ==
    ASSUME NEW lk \in Lockout, NEW now \in Time
    PROVE  /\ AfterIsLocked(lk, now) \in Lockout
           /\ RecordFailure(lk, now) \in Lockout
  BY DEF AfterIsLocked, RecordFailure, IsLocked, WindowOver, Lockout, Time

\* NoCall is none of the calls: it has no clock value.
LEMMA NoCallIsNoCall == NoCall \notin Call
  BY DEF NoCall, Call

\* Every step of every session keeps the types.
LEMMA TypeStep ==
    ASSUME TypeOK, [Next]_vars
    PROVE  TypeOK'
<1> USE DEF TypeOK
<1>1. ASSUME NEW u \in Users, AddUser(u)
      PROVE  TypeOK'
  BY <1>1 DEF AddUser
<1>2. CASE Serve
  BY <1>2 DEF Serve
<1>3. ASSUME NEW s \in Sessions, NEW u \in Users, NEW passOk \in BOOLEAN,
             Enter(s, u, passOk)
      PROVE  TypeOK'
  BY <1>3 DEF Enter, Call
<1>4. ASSUME NEW s \in Sessions, Check(s)
      PROVE  TypeOK'
  <2>1. call[s] \in Call
    BY <1>4 DEF Check
  <2>2. call[s].user \in Users /\ call[s].now \in Time
    BY <2>1 DEF Call
  <2>3. AfterIsLocked(lockouts[call[s].user], call[s].now) \in Lockout
    BY <2>2, EntryOperationsType
  <2>4. lockouts' \in [Users -> Lockout]
    BY <1>4, <2>3 DEF Check
  <2>5. /\ pc' \in [Sessions -> {"new", "check", "verify"} \cup AuthStatus]
        /\ call' \in [Sessions -> Call \cup {NoCall}]
        /\ \A r \in Sessions : pc'[r] \in {"check", "verify"} => call'[r] \in Call
    BY <1>4, <2>1 DEF Check, AuthStatus
  <2> QED
    BY <1>4, <2>4, <2>5 DEF Check
<1>5. ASSUME NEW s \in Sessions, Succeed(s)
      PROVE  TypeOK'
  <2>1. call[s] \in Call
    BY <1>5 DEF Succeed
  <2>2. Fresh \in Lockout /\ call[s].user \in Users
    BY <2>1 DEF Fresh, Lockout, Time, Call
  <2>3. /\ lockouts' \in [Users -> Lockout]
        /\ failed' \in [Users -> Seq(Time)]
        /\ overrun' \in [Users -> Nat]
    BY <1>5, <2>2 DEF Succeed
  <2>4. /\ pc' \in [Sessions -> {"new", "check", "verify"} \cup AuthStatus]
        /\ call' \in [Sessions -> Call \cup {NoCall}]
        /\ \A r \in Sessions : pc'[r] \in {"check", "verify"} => call'[r] \in Call
    BY <1>5 DEF Succeed, AuthStatus
  <2> QED
    BY <1>5, <2>3, <2>4 DEF Succeed
<1>6. ASSUME NEW s \in Sessions, Fail(s)
      PROVE  TypeOK'
  <2>1. call[s] \in Call
    BY <1>6 DEF Fail
  <2>2. call[s].user \in Users /\ call[s].now \in Time
    BY <2>1 DEF Call
  <2>3. /\ RecordFailure(lockouts[call[s].user], call[s].now) \in Lockout
        /\ Append(failed[call[s].user], call[s].now) \in Seq(Time)
    BY <2>2, EntryOperationsType
  <2>4. /\ lockouts' \in [Users -> Lockout]
        /\ failed' \in [Users -> Seq(Time)]
        /\ overrun' \in [Users -> Nat]
    BY <1>6, <2>2, <2>3 DEF Fail
  <2>5. /\ pc' \in [Sessions -> {"new", "check", "verify"} \cup AuthStatus]
        /\ call' \in [Sessions -> Call \cup {NoCall}]
        /\ \A r \in Sessions : pc'[r] \in {"check", "verify"} => call'[r] \in Call
    BY <1>6 DEF Fail, AuthStatus
  <2> QED
    BY <1>6, <2>4, <2>5 DEF Fail
<1>7. CASE Tick
  BY <1>7 DEF Tick, Time
<1>8. CASE UNCHANGED vars
  BY <1>8 DEF vars
<1> QED
  BY <1>1, <1>2, <1>3, <1>4, <1>5, <1>6, <1>7, <1>8 DEF Next

\* The variables keep their types.
THEOREM TypeCorrect == Spec => []TypeOK
<1>1. Init => TypeOK
  <2>1. Fresh \in Lockout
    BY DEF Fresh, Lockout, Time
  <2>2. 0 \in Time /\ <<>> \in Seq(Time)
    BY DEF Time
  <2> SUFFICES ASSUME Init PROVE TypeOK
    OBVIOUS
  <2>3. /\ lockouts \in [Users -> Lockout]
        /\ failed \in [Users -> Seq(Time)]
        /\ overrun \in [Users -> Nat]
        /\ clock \in Time
    BY <2>1, <2>2 DEF Init
  <2>4. /\ pc \in [Sessions -> {"new", "check", "verify"} \cup AuthStatus]
        /\ call \in [Sessions -> Call \cup {NoCall}]
        /\ \A s \in Sessions : pc[s] \in {"check", "verify"} => call[s] \in Call
    BY DEF Init
  <2> QED
    BY <2>3, <2>4 DEF Init, TypeOK
<1>2. TypeOK /\ [Next]_vars => TypeOK'
  BY TypeStep
<1> QED
  BY <1>1, <1>2, PTL DEF Spec

-----------------------------------------------------------------------------
(* The guesses that get past a lock.  The bound is inductive together with  *)
(* ReadBefore: a session inside authenticate() read the clock in the past,  *)
(* so the test it makes under mu_ sees a lock that is set now.              *)
ReadBefore ==
    \A s \in Sessions : pc[s] \in {"check", "verify"} => call[s].now <= clock

\* No step moves the clock behind a value a session has read.
LEMMA ReadBeforeInductive ==
    ASSUME TypeOK, ReadBefore, [Next]_vars
    PROVE  ReadBefore'
<1> USE DEF TypeOK, ReadBefore
<1>1. ASSUME NEW u \in Users, AddUser(u)
      PROVE  ReadBefore'
  BY <1>1 DEF AddUser
<1>2. CASE Serve
  BY <1>2 DEF Serve
<1>3. ASSUME NEW s \in Sessions, NEW u \in Users, NEW passOk \in BOOLEAN,
             Enter(s, u, passOk)
      PROVE  ReadBefore'
  BY <1>3 DEF Enter, Call, Time
<1>4. ASSUME NEW s \in Sessions, Check(s)
      PROVE  ReadBefore'
  BY <1>4 DEF Check
<1>5. ASSUME NEW s \in Sessions, Succeed(s)
      PROVE  ReadBefore'
  BY <1>5 DEF Succeed
<1>6. ASSUME NEW s \in Sessions, Fail(s)
      PROVE  ReadBefore'
  BY <1>6 DEF Fail
<1>7. CASE Tick
  BY <1>7 DEF Tick, Time, Call
<1>8. CASE UNCHANGED vars
  BY <1>8 DEF vars
<1> QED
  BY <1>1, <1>2, <1>3, <1>4, <1>5, <1>6, <1>7, <1>8 DEF Next

\* Sets of sessions are finite, and a session that leaves one makes it smaller.
LEMMA VerifyingFinite ==
    ASSUME NEW u
    PROVE  /\ Cardinality(Sessions) \in Nat
           /\ IsFiniteSet(Verifying(u))
           /\ Cardinality(Verifying(u)) \in Nat
           /\ Cardinality(Verifying(u)) <= Cardinality(Sessions)
           /\ \A s \in Verifying(u) :
                 /\ Cardinality(Verifying(u) \ {s}) = Cardinality(Verifying(u)) - 1
                 /\ Cardinality(Verifying(u)) >= 1
<1>1. Verifying(u) \subseteq Sessions
  BY DEF Verifying
<1>2. /\ IsFiniteSet(Verifying(u))
      /\ Cardinality(Verifying(u)) <= Cardinality(Sessions)
  BY <1>1, SessionsFinite, FS_Subset
<1>3. Cardinality(Sessions) \in Nat /\ Cardinality(Verifying(u)) \in Nat
  BY <1>2, SessionsFinite, FS_CardinalityType
<1>4. ASSUME NEW s \in Verifying(u)
      PROVE  /\ Cardinality(Verifying(u) \ {s}) = Cardinality(Verifying(u)) - 1
             /\ Cardinality(Verifying(u)) >= 1
  <2>1. Cardinality(Verifying(u) \ {s}) = Cardinality(Verifying(u)) - 1
    BY <1>2, FS_RemoveElement
  <2>2. Cardinality(Verifying(u)) # 0
    BY <1>2, FS_EmptySet
  <2> QED
    BY <2>1, <2>2, <1>3
<1> QED
  BY <1>2, <1>3, <1>4

\* The set of sessions that verify for u, after each step that can change it.
LEMMA VerifyingAfterCheck ==
    ASSUME TypeOK, NEW s \in Sessions, Check(s), NEW u \in Users,
           IsLocked(lockouts[u], call[s].now)
    PROVE  Verifying(u)' = Verifying(u)
  BY DEF TypeOK, Check, Verifying

\* A session that records its outcome no longer verifies.
LEMMA VerifyingAfterRecord ==
    ASSUME TypeOK, NEW s \in Sessions, Succeed(s) \/ Fail(s), NEW u \in Users
    PROVE  Verifying(u)' = Verifying(u) \ {s}
  BY DEF TypeOK, Succeed, Fail, Verifying

\* Every step keeps the bound on the guesses past a lock.
LEMMA OverrunInductive ==
    ASSUME TypeOK, ReadBefore, OverrunBounded, [Next]_vars
    PROVE  OverrunBounded'
<1> SUFFICES ASSUME NEW u \in Users, Locked(u)'
             PROVE  overrun'[u] + Cardinality(Verifying(u)') < Cardinality(Sessions)
  BY DEF OverrunBounded
<1> USE DEF TypeOK, OverrunBounded, Locked
<1>0. overrun[u] \in Nat /\ lockouts[u] \in Lockout
  OBVIOUS
<1>1. ASSUME NEW v \in Users, AddUser(v)
      PROVE  overrun'[u] + Cardinality(Verifying(u)') < Cardinality(Sessions)
  BY <1>1 DEF AddUser, Verifying
<1>2. CASE Serve
  BY <1>2 DEF Serve, Verifying
<1>3. ASSUME NEW s \in Sessions, NEW v \in Users, NEW passOk \in BOOLEAN,
             Enter(s, v, passOk)
      PROVE  overrun'[u] + Cardinality(Verifying(u)') < Cardinality(Sessions)
  <2>1. Verifying(u)' = Verifying(u)
    BY <1>3 DEF Enter, Verifying, AuthStatus
  <2> QED
    BY <1>3, <2>1 DEF Enter
<1>4. ASSUME NEW s \in Sessions, Check(s)
      PROVE  overrun'[u] + Cardinality(Verifying(u)') < Cardinality(Sessions)
  <2>1. call[s] \in Call /\ call[s].now <= clock
    BY <1>4 DEF Check, ReadBefore
  <2>2. lockouts'[u].lockedUntil = lockouts[u].lockedUntil
    BY <1>4, <1>0, <2>1 DEF Check, AfterIsLocked, Lockout, Call
  <2>3. Locked(u)
    BY <1>4, <2>2 DEF Check
  <2>4. IsLocked(lockouts[u], call[s].now)
    BY <2>1, <2>3, <1>0 DEF IsLocked, Lockout, Call, Time
  <2>5. Verifying(u)' = Verifying(u)
    BY <1>4, <2>4, VerifyingAfterCheck
  <2> QED
    BY <1>4, <2>3, <2>5 DEF Check
<1>5. ASSUME NEW s \in Sessions, Succeed(s)
      PROVE  overrun'[u] + Cardinality(Verifying(u)') < Cardinality(Sessions)
  <2>1. call[s] \in Call
    BY <1>5 DEF Succeed
  <2>2. call[s].user # u
    BY <1>5, <2>1 DEF Succeed, Fresh, Call, Time
  <2>3. Verifying(u)' = Verifying(u)
    BY <1>5, <2>2, VerifyingAfterRecord DEF Verifying
  <2>4. Locked(u) /\ overrun'[u] = overrun[u]
    BY <1>5, <2>1, <2>2 DEF Succeed, Call
  <2> QED
    BY <2>3, <2>4
<1>6. ASSUME NEW s \in Sessions, Fail(s)
      PROVE  overrun'[u] + Cardinality(Verifying(u)') < Cardinality(Sessions)
  <2>1. call[s] \in Call
    BY <1>6 DEF Fail
  <2>2. Verifying(u)' = Verifying(u) \ {s}
    BY <1>6, VerifyingAfterRecord
  <2>3. CASE call[s].user # u
    <3>1. Verifying(u)' = Verifying(u)
      BY <2>2, <2>3 DEF Verifying
    <3>2. Locked(u) /\ overrun'[u] = overrun[u]
      BY <1>6, <2>1, <2>3 DEF Fail, Call
    <3> QED
      BY <3>1, <3>2
  <2>4. CASE call[s].user = u
    <3>1. s \in Verifying(u)
      BY <1>6, <2>4 DEF Fail, Verifying
    <3>2. /\ Cardinality(Verifying(u)') = Cardinality(Verifying(u)) - 1
          /\ Cardinality(Verifying(u)) \in Nat
          /\ Cardinality(Verifying(u)) <= Cardinality(Sessions)
          /\ Cardinality(Sessions) \in Nat
      BY <2>2, <3>1, VerifyingFinite
    <3>3. overrun'[u] = IF Locked(u) THEN overrun[u] + 1 ELSE 0
      BY <1>6, <2>4 DEF Fail
    <3> QED
      BY <3>2, <3>3, <1>0
  <2> QED
    BY <2>3, <2>4
<1>7. CASE Tick
  <2>1. Verifying(u)' = Verifying(u)
    BY <1>7 DEF Tick, Verifying
  <2>2. Locked(u)
    BY <1>7, <1>0 DEF Tick, Time, Lockout
  <2> QED
    BY <1>7, <2>1, <2>2 DEF Tick
<1>8. CASE UNCHANGED vars
  BY <1>8 DEF vars, Verifying
<1> QED
  BY <1>1, <1>2, <1>3, <1>4, <1>5, <1>6, <1>7, <1>8 DEF Next

\* Fewer than Cardinality(Sessions) guesses get past the lock of an account.
THEOREM OverrunSafe == Spec => []OverrunBounded
<1>1. Init => ReadBefore /\ OverrunBounded
  BY DEF Init, ReadBefore, OverrunBounded, Locked, Fresh
<1>2. TypeOK /\ ReadBefore /\ OverrunBounded /\ [Next]_vars
         => ReadBefore' /\ OverrunBounded'
  BY ReadBeforeInductive, OverrunInductive
<1> QED
  BY <1>1, <1>2, TypeCorrect, PTL DEF Spec

-----------------------------------------------------------------------------
(* The failure counter.  CountExact is inductive; LockJustified is a        *)
(* property of the steps from states that satisfy it.                       *)

\* An entry and the failures recorded for its user: CountExact, for one user.
Counts(lk, f) ==
    /\ lk.failures <= Len(f)
    /\ lk.failures > 0 =>
          /\ f[Len(f) - lk.failures + 1] = lk.firstFailure
          /\ \A i \in Len(f) - lk.failures + 1 .. Len(f) :
                f[i] - lk.firstFailure <= LockoutWindow

\* Recording a failure extends an exact counter to an exact counter.
LEMMA RecordKeepsCount ==
    ASSUME NEW lk \in Lockout, NEW f \in Seq(Time), NEW now \in Time, Counts(lk, f)
    PROVE  Counts(RecordFailure(lk, now), Append(f, now))
<1> DEFINE r == RecordFailure(lk, now)
           g == Append(f, now)
           n == Len(f)
<1>1. /\ n \in Nat
      /\ Len(g) = n + 1
      /\ g[n + 1] = now
      /\ \A i \in 1 .. n : g[i] = f[i]
  OBVIOUS
<1>2. lk.failures \in Nat /\ lk.firstFailure \in Int /\ now \in Int
  BY DEF Lockout, Time
<1>3. CASE lk.failures = 0 \/ WindowOver(lk, now)
  <2>1. r.failures = 1 /\ r.firstFailure = now
    BY <1>3 DEF RecordFailure
  <2> QED
    BY <1>1, <1>2, <2>1 DEF Counts
<1>4. CASE ~(lk.failures = 0 \/ WindowOver(lk, now))
  <2>1. r.failures = lk.failures + 1 /\ r.firstFailure = lk.firstFailure
    BY <1>4 DEF RecordFailure
  <2>2. /\ now - lk.firstFailure <= LockoutWindow
        /\ lk.failures > 0 /\ lk.failures <= n
    BY <1>4, <1>2 DEF WindowOver, Counts
  <2>3. Len(g) - r.failures + 1 = n - lk.failures + 1 /\ r.failures <= Len(g)
    BY <1>1, <1>2, <2>1, <2>2
  <2>4. g[n - lk.failures + 1] = lk.firstFailure
    BY <1>1, <1>2, <2>2 DEF Counts
  <2>5. ASSUME NEW i \in n - lk.failures + 1 .. n + 1
        PROVE  g[i] - lk.firstFailure <= LockoutWindow
    <3>1. CASE i = n + 1
      BY <3>1, <1>1, <2>2
    <3>2. CASE i # n + 1
      BY <3>2, <1>1, <1>2, <2>2 DEF Counts
    <3> QED
      BY <3>1, <3>2
  <2> HIDE DEF r, g, n
  <2>6. Counts(r, g)
    BY <1>1, <2>1, <2>3, <2>4, <2>5 DEF Counts
  <2> QED
    BY <2>6 DEF r, g
<1> HIDE DEF r, g
<1> QED
  BY <1>3, <1>4 DEF r, g

\* Every step keeps the counters exact.
LEMMA CountInductive ==
    ASSUME TypeOK, CountExact, [Next]_vars
    PROVE  CountExact'
<1> USE DEF TypeOK, CountExact
<1>1. ASSUME NEW u \in Users, AddUser(u)
      PROVE  CountExact'
  BY <1>1 DEF AddUser
<1>2. CASE Serve
  BY <1>2 DEF Serve
<1>3. ASSUME NEW s \in Sessions, NEW u \in Users, NEW passOk \in BOOLEAN,
             Enter(s, u, passOk)
      PROVE  CountExact'
  BY <1>3 DEF Enter
<1>4. ASSUME NEW s \in Sessions, Check(s)
      PROVE  CountExact'
  <2> SUFFICES ASSUME NEW u \in Users
               PROVE  CountExact!(u)'
    OBVIOUS
  <2>1. call[s] \in Call /\ call[s].user \in Users
    BY <1>4 DEF Check, Call
  <2>2. \/ lockouts'[u] = lockouts[u]
        \/ lockouts'[u].failures = 0
    BY <1>4, <2>1 DEF Check, AfterIsLocked, Lockout
  <2>3. failed' = failed /\ failed[u] \in Seq(Time)
    BY <1>4 DEF Check
  <2> QED
    BY <2>2, <2>3
<1>5. ASSUME NEW s \in Sessions, Succeed(s)
      PROVE  CountExact'
  <2> SUFFICES ASSUME NEW u \in Users
               PROVE  CountExact!(u)'
    OBVIOUS
  <2>1. CASE lockouts'[u] = lockouts[u] /\ failed'[u] = failed[u]
    BY <2>1
  <2>2. CASE lockouts'[u] = Fresh /\ failed'[u] = <<>>
    <3>1. lockouts'[u].failures = 0 /\ Len(failed'[u]) = 0
      BY <2>2 DEF Fresh
    <3> QED
      BY <3>1
  <2> QED
    BY <1>5, <2>1, <2>2 DEF Succeed
<1>6. ASSUME NEW s \in Sessions, Fail(s)
      PROVE  CountExact'
  <2> SUFFICES ASSUME NEW u \in Users
               PROVE  CountExact!(u)'
    OBVIOUS
  <2>1. call[s].user \in Users /\ call[s].now \in Time
    BY <1>6 DEF Fail, Call
  <2>2. CASE call[s].user # u
    <3>1. lockouts'[u] = lockouts[u] /\ failed'[u] = failed[u]
      BY <1>6, <2>1, <2>2 DEF Fail
    <3> QED
      BY <3>1
  <2>3. CASE call[s].user = u
    <3>1. /\ lockouts'[u] = RecordFailure(lockouts[u], call[s].now)
          /\ failed'[u] = Append(failed[u], call[s].now)
      BY <1>6, <2>1, <2>3 DEF Fail
    <3>2. lockouts[u] \in Lockout /\ failed[u] \in Seq(Time)
      OBVIOUS
    <3>3. Counts(lockouts[u], failed[u])
      BY DEF Counts
    <3> HIDE DEF TypeOK, CountExact
    <3>4. Counts(lockouts'[u], failed'[u])
      BY <3>1, <3>2, <3>3, <2>1, RecordKeepsCount
    <3> QED
      BY <3>4 DEF Counts
  <2> QED
    BY <2>2, <2>3
<1>7. CASE Tick
  BY <1>7 DEF Tick
<1>8. CASE UNCHANGED vars
  BY <1>8 DEF vars
<1> QED
  BY <1>1, <1>2, <1>3, <1>4, <1>5, <1>6, <1>7, <1>8 DEF Next

\* The failure counter counts the last recorded failures, all in one window.
THEOREM CountCorrect == Spec => []CountExact
<1>1. Init => CountExact
  BY DEF Init, CountExact, Fresh
<1>2. TypeOK /\ CountExact /\ [Next]_vars => CountExact'
  BY CountInductive
<1> QED
  BY <1>1, <1>2, TypeCorrect, PTL DEF Spec

\* A step sets or moves a lock only on MaxFailedAttempts failures of one window.
THEOREM LocksJustified == Spec => LockJustified
<1>1. ASSUME TypeOK, CountExact, [Next]_vars, NEW u \in Users,
             lockouts'[u].lockedUntil \notin {0, lockouts[u].lockedUntil}
      PROVE  OneWindowOfFailures(failed'[u])
  <2> USE <1>1 DEF TypeOK
  <2>1. PICK s \in Sessions : Fail(s) /\ call[s].user = u
    <3>1. ASSUME NEW s \in Sessions, Check(s)
          PROVE  FALSE
      BY <3>1 DEF Check, AfterIsLocked, Lockout, Call
    <3>2. ASSUME NEW s \in Sessions, Succeed(s)
          PROVE  FALSE
      BY <3>2 DEF Succeed, Fresh, Call
    <3>3. ASSUME NEW s \in Sessions, Fail(s)
          PROVE  call[s].user = u
      BY <3>3 DEF Fail, Call
    <3> QED
      BY <3>1, <3>2, <3>3
         DEF Next, vars, AddUser, Serve, Enter, Tick
  <2>2. CountExact'
    BY CountInductive
  <2>3. TypeOK'
    BY TypeStep
  <2> DEFINE f == failed'[u]
             k == Len(f) - lockouts'[u].failures + 1
  <2>4. lockouts'[u] = RecordFailure(lockouts[u], call[s].now)
    BY <2>1 DEF Fail, Call
  <2>5. lockouts'[u].failures >= MaxFailedAttempts
    BY <2>4 DEF RecordFailure
  <2>6. /\ lockouts'[u].failures \in Nat
        /\ f \in Seq(Time)
        /\ lockouts'[u].failures <= Len(f)
    BY <2>2, <2>3 DEF CountExact, Lockout
  <2>7. k \in 1 .. Len(f) /\ Len(f) - k + 1 >= MaxFailedAttempts
    BY <2>5, <2>6
  <2>8. \A i \in k .. Len(f) : f[i] - f[k] <= LockoutWindow
    <3>1. lockouts'[u].failures > 0
      BY <2>5, <2>6
    <3>2. /\ f[k] = lockouts'[u].firstFailure
          /\ \A i \in k .. Len(f) : f[i] - lockouts'[u].firstFailure <= LockoutWindow
      BY <2>2, <3>1 DEF CountExact
    <3> QED
      BY <3>2
  <2> QED
    BY <2>7, <2>8 DEF OneWindowOfFailures
<1>2. TypeOK /\ CountExact /\ [Next]_vars
         => [\A u \in Users :
               lockouts'[u].lockedUntil \notin {0, lockouts[u].lockedUntil}
                  => OneWindowOfFailures(failed'[u])]_vars
  BY <1>1
<1> QED
  BY <1>2, TypeCorrect, CountCorrect, PTL DEF Spec, LockJustified

HIDE PolicyAssumption

-----------------------------------------------------------------------------
(* Counting: induction without a predicate as a parameter.                 *)

\* A set of numbers that is not empty has a least one.
LEMMA LeastNumber ==
    ASSUME NEW T, T \subseteq Nat, T # {}
    PROVE  \E n \in T : \A m \in T : n <= m
<1>. DEFINE Less == {p \in Nat \X Nat : p[1] < p[2]}
<1>1. IsWellFoundedOn(Less, Nat)
    <2>1. OpToRel(<, Nat) = Less BY DEF OpToRel
    <2>2. IsWellFoundedOn(OpToRel(<, Nat), Nat) BY NatLessThanWellFounded
    <2>. QED BY <2>1, <2>2
<1>2. \A m, n \in Nat : m < n => <<m, n>> \in Less OBVIOUS
<1>. HIDE DEF Less
<1>3. PICK n \in T : \A m \in T : ~ (<<m, n>> \in Less) BY <1>1, WFMin
<1>4. ASSUME NEW m \in T PROVE n <= m
    <2>1. m \in Nat /\ n \in Nat OBVIOUS
    <2>2. ~ (<<m, n>> \in Less) BY <1>3
    <2>3. ~ (m < n) BY <1>2, <2>1, <2>2
    <2>. QED BY <2>1, <2>3
<1>. QED BY <1>4

\* What holds of 0, and of the next number whenever it holds of one, holds.
LEMMA Counting ==
    ASSUME NEW S, 0 \in S, \A n \in Nat : n \in S => n + 1 \in S
    PROVE  Nat \subseteq S
<1>. SUFFICES ASSUME Nat \ S # {} PROVE FALSE
    OBVIOUS
<1>1. PICK n \in Nat \ S : \A m \in Nat \ S : n <= m BY LeastNumber
<1>2. n # 0 /\ n - 1 \in Nat /\ n - 1 < n /\ (n - 1) + 1 = n BY <1>1
<1>3. n - 1 \in S BY <1>1, <1>2
<1>. QED BY <1>1, <1>2, <1>3

-----------------------------------------------------------------------------
(* Recursion over a sequence: what is made step by step exists, and is of    *)
(* the type the steps keep.                                                  *)

\* Every value made step by step is in a set the first is in and no step leaves.
LEMMA StepsStay ==
    ASSUME NEW S, NEW N \in Nat, NEW f, f[0] \in S,
           \A n \in 1 .. N : f[n - 1] \in S => f[n] \in S
    PROVE  \A n \in 0 .. N : f[n] \in S
<1>. DEFINE T == {n \in Nat : n <= N => f[n] \in S}
<1>1. 0 \in T OBVIOUS
<1>2. ASSUME NEW n \in Nat, n \in T PROVE n + 1 \in T
    <2>. SUFFICES ASSUME n + 1 <= N PROVE f[n + 1] \in S
        OBVIOUS
    <2>1. n + 1 \in 1 .. N /\ (n + 1) - 1 = n OBVIOUS
    <2>2. f[n] \in S BY <1>2
    <2>. QED BY <2>1, <2>2
<1>. HIDE DEF T
<1>3. Nat \subseteq T BY <1>1, <1>2, Counting
<1>. QED BY <1>3 DEF T

\* f holds what the steps g[1] .. g[N] make of a, one after the other.
MadeBy(f, a, N, g) == f[0] = a /\ \A n \in 1 .. N : f[n] = g[n][f[n - 1]]

\* There are values that are made by steps g[n] from a.
LEMMA StepsExist ==
    ASSUME NEW S, NEW a \in S, NEW N \in Nat, NEW g,
           \A n \in 1 .. N : \A x \in S : g[n][x] \in S
    PROVE  \E f \in [0 .. N -> S] : MadeBy(f, a, N, g)
<1>. DEFINE Upto(k, f) == f = [n \in 0 .. k |-> IF n = 0 THEN a ELSE g[n][f[n - 1]]]
            T == {k \in Nat : \E f : Upto(k, f)}
<1>1. 0 \in T
    <2>. DEFINE f == [n \in 0 .. 0 |-> a]
    <2>1. Upto(0, f) OBVIOUS
    <2>. QED BY <2>1
<1>2. ASSUME NEW k \in Nat, k \in T PROVE k + 1 \in T
    <2>1. PICK f : Upto(k, f) BY <1>2
    <2>. DEFINE h == [n \in 0 .. k + 1 |-> IF n = k + 1 THEN g[k + 1][f[k]] ELSE f[n]]
    <2>2. \A n \in 0 .. k : h[n] = f[n] OBVIOUS
    <2>3. h[k + 1] = g[k + 1][h[k]] OBVIOUS
    <2>4. \A n \in 0 .. k : f[n] = IF n = 0 THEN a ELSE g[n][f[n - 1]] BY <2>1
    <2>5. \A n \in 0 .. k + 1 : h[n] = IF n = 0 THEN a ELSE g[n][h[n - 1]]
        <3>1. TAKE n \in 0 .. k + 1
        <3>. HIDE DEF h
        <3>2. CASE n = k + 1
            <4>1. n # 0 /\ n - 1 = k BY <3>2
            <4>. QED BY <3>2, <4>1, <2>3
        <3>3. CASE n \in 0 .. k
            <4>1. n # 0 => n - 1 \in 0 .. k BY <3>3
            <4>. QED BY <3>3, <4>1, <2>2, <2>4
        <3>. QED BY <3>2, <3>3
    <2>6. h = [n \in 0 .. k + 1 |-> h[n]] OBVIOUS
    <2>. HIDE DEF h
    <2>7. Upto(k + 1, h) BY <2>5, <2>6
    <2>. QED BY <2>7
<1>. HIDE DEF T
<1>3. N \in T BY <1>1, <1>2, Counting
<1>4. PICK f : Upto(N, f) BY <1>3 DEF T
<1>5. \A n \in 0 .. N : f[n] = IF n = 0 THEN a ELSE g[n][f[n - 1]] BY <1>4
<1>6. f[0] = a /\ \A n \in 1 .. N : f[n] = g[n][f[n - 1]] BY <1>5
<1>7. \A n \in 0 .. N : f[n] \in S
    <2>1. \A n \in 1 .. N : f[n - 1] \in S => f[n] \in S BY <1>6
    <2>. QED BY <1>6, <2>1, StepsStay
<1>8. f = [n \in 0 .. N |-> f[n]] BY <1>4
<1>9. f \in [0 .. N -> S] BY <1>7, <1>8
<1>. QED BY <1>6, <1>9 DEF MadeBy

-----------------------------------------------------------------------------
(* What an entry of the allow-list lets in.                                *)

Ranges == [family : Families, net : UNION {Address(f) : f \in Families}, prefixBits : Nat]

\* Whole bytes of a prefix, and the bits in the byte it ends in.
LEMMA Division ==
    ASSUME NEW p \in Nat
    PROVE  /\ p \div ByteBits \in Nat /\ p % ByteBits \in 0 .. ByteBits - 1
           /\ p = ByteBits * (p \div ByteBits) + (p % ByteBits)
BY FilterAssumption, SMT DEF FilterAssumption

\* Two bytes that are masked alike agree on the bits the mask keeps.
LEMMA KeptEqual ==
    ASSUME NEW a \in Byte, NEW b \in Byte, NEW keep \in Int
    PROVE  Kept(a, keep) = Kept(b, keep) <=> \A j \in 0 .. ByteBits - 1 : j < keep => a[j] = b[j]
BY DEF Kept, Byte

\* A byte is its bits.
LEMMA ByteEqual ==
    ASSUME NEW a \in Byte, NEW b \in Byte, \A j \in 0 .. ByteBits - 1 : a[j] = b[j]
    PROVE  a = b
<1>1. a = [j \in 0 .. ByteBits - 1 |-> a[j]] /\ b = [j \in 0 .. ByteBits - 1 |-> b[j]] BY DEF Byte
<1>2. [j \in 0 .. ByteBits - 1 |-> a[j]] = [j \in 0 .. ByteBits - 1 |-> b[j]] OBVIOUS
<1>. QED BY <1>1, <1>2

\* A masked byte is a byte.
LEMMA KeptByte ==
    ASSUME NEW a \in Byte, NEW keep \in Int
    PROVE  Kept(a, keep) \in Byte
BY DEF Kept, Byte

\* A row ends before the next one starts.
LEMMA ByteRows ==
    ASSUME NEW x \in Nat, NEW y \in Nat, x < y
    PROVE  x * ByteBits + ByteBits <= y * ByteBits
<1>1. ByteBits \in Nat BY FilterAssumption DEF FilterAssumption
<1>2. (y - x - 1) * ByteBits >= 0 BY <1>1
<1>3. (y - x - 1) * ByteBits = y * ByteBits - x * ByteBits - ByteBits BY <1>1
<1>. QED BY <1>1, <1>2, <1>3

\* maskInPlace makes an address of an address and keeps its leading bits.
LEMMA MaskedAddress ==
    ASSUME NEW f \in Families, NEW net \in Address(f), NEW p \in Nat
    PROVE  /\ Mask(f, net, p) \in Address(f)
           /\ \A i \in 0 .. Bytes[f] - 1, j \in 0 .. ByteBits - 1 :
                 i * ByteBits + j < p => Mask(f, net, p)[i][j] = net[i][j]
<1>1. ByteBits \in Nat \ {0} /\ Bytes[f] \in Nat \ {0} BY FilterAssumption DEF FilterAssumption
<1>2. ASSUME NEW i \in 0 .. Bytes[f] - 1
      PROVE  /\ i \in Nat /\ i * ByteBits \in Nat /\ net[i] \in Byte
             /\ (i + 1) * ByteBits = i * ByteBits + ByteBits
    BY <1>1 DEF Address
<1>3. ASSUME NEW i \in 0 .. Bytes[f] - 1
      PROVE  Mask(f, net, p)[i] \in Byte
    BY <1>1, <1>2, KeptByte DEF Mask
<1>4. ASSUME NEW i \in 0 .. Bytes[f] - 1, NEW j \in 0 .. ByteBits - 1, i * ByteBits + j < p
      PROVE  Mask(f, net, p)[i][j] = net[i][j]
    <2>1. ~(i * ByteBits >= p) BY <1>1, <1>2, <1>4
    <2>2. CASE (i + 1) * ByteBits > p
        <3>1. Mask(f, net, p)[i] = Kept(net[i], p - i * ByteBits) BY <2>1, <2>2 DEF Mask
        <3>2. j < p - i * ByteBits BY <1>1, <1>2, <1>4
        <3>. QED BY <3>1, <3>2 DEF Kept
    <2>3. CASE ~((i + 1) * ByteBits > p)
        BY <2>1, <2>3 DEF Mask
    <2>. QED BY <2>2, <2>3
<1>. QED BY <1>3, <1>4 DEF Mask, Address

\* Comparing whole bytes and the leading bits of the next is comparing the
\* leading bits.
LEMMA PrefixExact ==
    ASSUME NEW f \in Families, NEW a \in Address(f), NEW net \in Address(f), NEW p \in 0 .. MaxPrefix(f)
    PROVE  MatchPrefix(a, net, p) <=>
               \A i \in 0 .. Bytes[f] - 1, j \in 0 .. ByteBits - 1 :
                  i * ByteBits + j < p => a[i][j] = net[i][j]
<1>. DEFINE q == p \div ByteBits
            r == p % ByteBits
            bytes == Bytes[f]
            max == MaxPrefix(f)
<1>1. ByteBits \in Nat \ {0} /\ bytes \in Nat \ {0} /\ max \in Nat /\ max = bytes * ByteBits
    BY FilterAssumption DEF FilterAssumption, MaxPrefix
<1>2. p \in Nat /\ p <= max BY <1>1
<1>3. q \in Nat /\ r \in 0 .. ByteBits - 1 /\ p = q * ByteBits + r BY <1>1, <1>2, Division
<1>4. \A i \in 0 .. bytes - 1 : i \in Nat /\ i * ByteBits \in Nat /\ a[i] \in Byte /\ net[i] \in Byte
    <2>1. TAKE i \in 0 .. bytes - 1
    <2>2. i \in Nat BY <1>1
    <2>3. a[i] \in Byte /\ net[i] \in Byte BY DEF Address
    <2>. QED BY <1>1, <2>2, <2>3
<1>5. q <= bytes /\ (r # 0 => q < bytes)
    <2>1. CASE q < bytes BY <2>1, <1>1, <1>3
    <2>2. CASE q = bytes BY <2>2, <1>1, <1>2, <1>3
    <2>3. CASE bytes < q
        <3>1. bytes * ByteBits + ByteBits <= q * ByteBits BY <2>3, <1>1, <1>3, ByteRows
        <3>. QED BY <3>1, <1>1, <1>2, <1>3
    <2>. QED BY <2>1, <2>2, <2>3, <1>1, <1>3
<1>6. MatchPrefix(a, net, p) <=>
          (\A i \in 0 .. q - 1 : a[i] = net[i]) /\ (r # 0 => Kept(a[q], r) = Kept(net[q], r))
    BY DEF MatchPrefix
<1>. HIDE DEF q, r, bytes, max
<1>7. ASSUME MatchPrefix(a, net, p),
             NEW i \in 0 .. bytes - 1, NEW j \in 0 .. ByteBits - 1, i * ByteBits + j < p
      PROVE  a[i][j] = net[i][j]
    <2>1. CASE i < q BY <2>1, <1>1, <1>3, <1>6, <1>7
    <2>2. CASE i = q
        <3>1. j < r /\ r # 0 BY <2>2, <1>1, <1>3, <1>4, <1>7
        <3>2. Kept(a[q], r) = Kept(net[q], r) BY <3>1, <1>6, <1>7
        <3>. QED BY <2>2, <3>1, <3>2, <1>3, <1>4, KeptEqual
    <2>3. CASE q < i
        <3>1. q * ByteBits + ByteBits <= i * ByteBits BY <2>3, <1>3, <1>4, ByteRows
        <3>. QED BY <3>1, <1>1, <1>3, <1>4, <1>7
    <2>. QED BY <2>1, <2>2, <2>3, <1>1, <1>3
<1>8. ASSUME \A i \in 0 .. bytes - 1, j \in 0 .. ByteBits - 1 : i * ByteBits + j < p => a[i][j] = net[i][j]
      PROVE  MatchPrefix(a, net, p)
    <2>1. ASSUME NEW i \in 0 .. q - 1 PROVE a[i] = net[i]
        <3>1. i \in 0 .. bytes - 1 /\ i < q BY <1>1, <1>3, <1>5
        <3>2. i * ByteBits + ByteBits <= q * ByteBits BY <3>1, <1>3, <1>4, ByteRows
        <3>3. \A j \in 0 .. ByteBits - 1 : i * ByteBits + j < p BY <3>1, <3>2, <1>1, <1>3, <1>4
        <3>4. \A j \in 0 .. ByteBits - 1 : a[i][j] = net[i][j] BY <3>1, <3>3, <1>8
        <3>. QED BY <3>1, <3>4, <1>4, ByteEqual
    <2>2. ASSUME r # 0 PROVE Kept(a[q], r) = Kept(net[q], r)
        <3>1. q \in 0 .. bytes - 1 BY <2>2, <1>1, <1>3, <1>5
        <3>2. \A j \in 0 .. ByteBits - 1 : j < r => q * ByteBits + j < p BY <3>1, <1>1, <1>3, <1>4
        <3>3. \A j \in 0 .. ByteBits - 1 : j < r => a[q][j] = net[q][j] BY <3>1, <3>2, <1>8
        <3>. QED BY <3>1, <3>3, <1>3, <1>4, KeptEqual
    <2>. QED BY <2>1, <2>2, <1>6
<1>. QED BY <1>7, <1>8 DEF bytes

\* SubnetFilter::addCidr and isAllowed: one more entry lets in exactly the
\* peers that have its leading bits, if it is well formed, and nobody if not;
\* whom the rules before it let in, they let in still.
THEOREM EntryLetsInItsRange ==
    ASSUME NEW rules, rules \in Seq(Ranges),
           NEW entry \in FilterEntries, NEW ip \in Addresses \cup {Unreadable}
    PROVE  IsAllowed(AddCidr(rules, entry), ip) <=>
               \/ IsAllowed(rules, ip)
               \/ ip # Unreadable /\ WellFormed(entry) /\ Covers(entry, ip)
<1>1. CASE ip = Unreadable BY <1>1 DEF IsAllowed
<1>2. CASE ~WellFormed(entry) BY <1>2 DEF AddCidr
<1>3. CASE ip # Unreadable /\ WellFormed(entry)
    <2>. DEFINE more == Append(rules, Rule(entry))
                f == entry.addr.family
                p == Prefix(entry)
                n == Len(rules)
    <2>1. AddCidr(rules, entry) = more BY <1>3 DEF AddCidr
    <2>2. /\ entry.addr \in Addresses /\ ip \in Addresses
          /\ entry.bits \in Nat \cup {NoSlash}
        BY <1>3 DEF WellFormed, FilterEntries
    <2>3. /\ f \in Families /\ entry.addr.bytes \in Address(f)
          /\ ip.family \in Families /\ ip.bytes \in Address(ip.family)
        BY <2>2 DEF Addresses
    <2>4. MaxPrefix(f) \in Nat BY <2>3, FilterAssumption DEF FilterAssumption, MaxPrefix
    <2>5. p \in 0 .. MaxPrefix(f) BY <1>3, <2>2, <2>4 DEF WellFormed, Prefix
    <2>6. /\ Rule(entry).family = f /\ Rule(entry).prefixBits = p
          /\ Rule(entry).net = Mask(f, entry.addr.bytes, p)
        BY DEF Rule
    <2>7. n \in Nat /\ Len(more) = n + 1 /\ more[n + 1] = Rule(entry)
        BY DEF Rule
    <2>8. \A k \in 1 .. n : more[k] = rules[k] OBVIOUS
    <2>. HIDE DEF more, f, p, n
    <2>9. f = ip.family => (MatchPrefix(ip.bytes, Rule(entry).net, p) <=> Covers(entry, ip))
        <3>. SUFFICES ASSUME f = ip.family
                      PROVE  MatchPrefix(ip.bytes, Rule(entry).net, p) <=> Covers(entry, ip)
            OBVIOUS
        <3>. DEFINE net == Mask(f, entry.addr.bytes, p)
        <3>1. /\ net \in Address(f)
              /\ \A i \in 0 .. Bytes[f] - 1, j \in 0 .. ByteBits - 1 :
                    i * ByteBits + j < p => net[i][j] = entry.addr.bytes[i][j]
            <4>1. p \in Nat BY <2>4, <2>5
            <4>. QED BY <4>1, <2>3, MaskedAddress DEF net
        <3>2. ip.bytes \in Address(f) BY <2>3
        <3>. HIDE DEF net
        <3>3. MatchPrefix(ip.bytes, net, p) <=>
                  \A i \in 0 .. Bytes[f] - 1, j \in 0 .. ByteBits - 1 :
                     i * ByteBits + j < p => ip.bytes[i][j] = net[i][j]
            BY <2>3, <2>5, <3>1, <3>2, PrefixExact
        <3>4. Covers(entry, ip) <=>
                  \A i \in 0 .. Bytes[f] - 1, j \in 0 .. ByteBits - 1 :
                     i * ByteBits + j < p => ip.bytes[i][j] = entry.addr.bytes[i][j]
            BY DEF Covers, f, p
        <3>5. Rule(entry).net = net BY <2>6 DEF net
        <3>. QED BY <3>1, <3>3, <3>4, <3>5
    <2>10. Covers(entry, ip) => f = ip.family BY DEF Covers, f
    <2>11. IsAllowed(more, ip) <=>
               \/ IsAllowed(rules, ip)
               \/ Rule(entry).family = ip.family /\ MatchPrefix(ip.bytes, Rule(entry).net, Rule(entry).prefixBits)
        <3>1. 1 .. n + 1 = 1 .. n \cup {n + 1} BY <2>7
        <3>. QED BY <1>3, <2>7, <2>8, <3>1 DEF IsAllowed, n
    <2>. QED BY <1>3, <2>1, <2>6, <2>9, <2>10, <2>11
<1>. QED BY <1>1, <1>2, <1>3

\* addCidr leaves rules.
LEMMA RulesStay ==
    ASSUME NEW rules \in Seq(Ranges), NEW entry \in FilterEntries
    PROVE  AddCidr(rules, entry) \in Seq(Ranges)
<1>1. CASE ~WellFormed(entry) BY <1>1 DEF AddCidr
<1>2. CASE WellFormed(entry)
    <2>. DEFINE f == entry.addr.family
                p == Prefix(entry)
                net == Mask(f, entry.addr.bytes, p)
    <2>1. entry.addr \in Addresses /\ entry.bits \in Nat \cup {NoSlash}
        BY <1>2 DEF WellFormed, FilterEntries
    <2>2. f \in Families /\ entry.addr.bytes \in Address(f) BY <2>1 DEF Addresses
    <2>3. MaxPrefix(f) \in Nat BY <2>2, FilterAssumption DEF FilterAssumption, MaxPrefix
    <2>4. p \in Nat BY <2>1, <2>3 DEF Prefix
    <2>5. net \in Address(f) BY <2>2, <2>4, MaskedAddress
    <2>. HIDE DEF net, p, f
    <2>6. [family |-> f, net |-> net, prefixBits |-> p] \in Ranges BY <2>2, <2>4, <2>5 DEF Ranges
    <2>7. Rule(entry) = [family |-> f, net |-> net, prefixBits |-> p] BY DEF Rule, f, net, p
    <2>. QED BY <1>2, <2>6, <2>7 DEF AddCidr
<1>. QED BY <1>1, <1>2

\* The rules after each entry of a list, as a function: there is one.
Steps(entries, g) ==
    g = [n \in 0 .. Len(entries) |-> IF n = 0 THEN <<>> ELSE AddCidr(g[n - 1], entries[n])]

\* There are the rules after each entry of a list.
LEMMA ListStepsExist ==
    ASSUME NEW entries \in Seq(FilterEntries)
    PROVE  \E f : Steps(entries, f)
<1>. DEFINE N == Len(entries)
            S == Seq(Ranges)
            g == [n \in 1 .. N |-> [rules \in S |-> AddCidr(rules, entries[n])]]
<1>1. N \in Nat /\ \A n \in 1 .. N : entries[n] \in FilterEntries OBVIOUS
<1>2. <<>> \in S OBVIOUS
<1>. HIDE DEF N
<1>3. \A n \in 1 .. N : \A rules \in S : AddCidr(rules, entries[n]) \in S BY <1>1, RulesStay
<1>. HIDE DEF S
<1>4. \A n \in 1 .. N : \A rules \in S : g[n][rules] = AddCidr(rules, entries[n]) OBVIOUS
<1>. HIDE DEF g
<1>5. \A n \in 1 .. N : \A rules \in S : g[n][rules] \in S BY <1>3, <1>4
<1>6. PICK f \in [0 .. N -> S] : MadeBy(f, <<>>, N, g) BY <1>1, <1>2, <1>5, StepsExist
<1>7. f[0] = <<>> /\ \A n \in 1 .. N : f[n] = g[n][f[n - 1]] BY <1>6 DEF MadeBy
<1>8. \A n \in 0 .. N : f[n] = IF n = 0 THEN <<>> ELSE AddCidr(f[n - 1], entries[n])
    <2>1. TAKE n \in 0 .. N
    <2>2. n # 0 => n \in 1 .. N /\ n - 1 \in 0 .. N BY <1>1
    <2>. QED BY <1>4, <1>7, <2>2
<1>. QED BY <1>8 DEF Steps, N

\* addList makes the rules after the last of them.
LEMMA ListSteps ==
    ASSUME NEW entries \in Seq(FilterEntries)
    PROVE  \E g : Steps(entries, g) /\ AddList(entries) = g[Len(entries)]
<1>. DEFINE g == CHOOSE h : Steps(entries, h)
<1>1. Steps(entries, g) BY ListStepsExist
<1>2. AddList(entries) = g[Len(entries)] BY DEF AddList, Steps
<1>. QED BY <1>1, <1>2

\* SubnetFilter::addList, then isAllowed: a peer gets past the filter exactly if
\* one entry of the list is well formed and the peer has its leading bits,
\* however long the list is and whatever else is in it.
THEOREM ListLetsInItsRanges ==
    ASSUME NEW entries \in Seq(FilterEntries), NEW ip \in Addresses \cup {Unreadable}
    PROVE  IsAllowed(AddList(entries), ip) <=>
               ip # Unreadable /\ \E k \in 1 .. Len(entries) : WellFormed(entries[k]) /\ Covers(entries[k], ip)
<1>1. PICK g : Steps(entries, g) /\ AddList(entries) = g[Len(entries)] BY ListSteps
<1>. DEFINE N == Len(entries)
            Lets(k) == WellFormed(entries[k]) /\ Covers(entries[k], ip)
            Fine(n) == /\ g[n] \in Seq(Ranges)
                       /\ IsAllowed(g[n], ip) <=> ip # Unreadable /\ \E k \in 1 .. n : Lets(k)
            S == {n \in Nat : n <= N => Fine(n)}
<1>2. N \in Nat OBVIOUS
<1>3. /\ g[0] = <<>>
      /\ \A n \in 1 .. N : g[n] = AddCidr(g[n - 1], entries[n])
    <2>1. \A n \in 0 .. N : g[n] = IF n = 0 THEN <<>> ELSE AddCidr(g[n - 1], entries[n]) BY <1>1 DEF Steps
    <2>. QED BY <1>2, <2>1
<1>4. \A k \in 1 .. N : entries[k] \in FilterEntries OBVIOUS
<1>. HIDE DEF N
<1>5. 0 \in S
    <2>1. <<>> \in Seq(Ranges) /\ Len(<<>>) = 0 OBVIOUS
    <2>2. ~IsAllowed(<<>>, ip) BY <2>1 DEF IsAllowed
    <2>3. ~ \E k \in 1 .. 0 : Lets(k) OBVIOUS
    <2>4. Fine(0)
        <3>. HIDE DEF Lets
        <3>. QED BY <1>3, <2>1, <2>2, <2>3
    <2>. QED BY <2>4
<1>6. ASSUME NEW n \in Nat, n \in S PROVE n + 1 \in S
    <2>. SUFFICES ASSUME n + 1 <= N PROVE Fine(n + 1)
        OBVIOUS
    <2>1. Fine(n) BY <1>2, <1>6
    <2>2. n + 1 \in 1 .. N /\ (n + 1) - 1 = n BY <1>2
    <2>3. PICK entry : entry = entries[n + 1] OBVIOUS
    <2>4. PICK rules : rules = g[n] OBVIOUS
    <2>5. entry \in FilterEntries /\ rules \in Seq(Ranges) /\ g[n + 1] = AddCidr(rules, entry)
        BY <1>3, <1>4, <2>1, <2>2, <2>3, <2>4
    <2>6. AddCidr(rules, entry) \in Seq(Ranges) BY <2>5, RulesStay
    <2>7. IsAllowed(AddCidr(rules, entry), ip) <=>
              IsAllowed(rules, ip) \/ (ip # Unreadable /\ WellFormed(entry) /\ Covers(entry, ip))
        BY <2>5, EntryLetsInItsRange
    <2>8. (\E k \in 1 .. n + 1 : Lets(k)) <=> (\E k \in 1 .. n : Lets(k)) \/ Lets(n + 1)
        <3>1. \A k \in 1 .. n + 1 : k \in 1 .. n \/ k = n + 1 OBVIOUS
        <3>2. n + 1 \in 1 .. n + 1 /\ \A k \in 1 .. n : k \in 1 .. n + 1 OBVIOUS
        <3>. HIDE DEF Lets
        <3>. QED BY <3>1, <3>2
    <2>9. Lets(n + 1) <=> WellFormed(entry) /\ Covers(entry, ip) BY <2>3
    <2>. QED BY <2>1, <2>4, <2>5, <2>6, <2>7, <2>8, <2>9
<1>. HIDE DEF S
<1>7. N \in S BY <1>2, <1>5, <1>6, Counting
<1>8. Fine(N) BY <1>2, <1>7 DEF S
<1>. QED BY <1>1, <1>8 DEF N

-----------------------------------------------------------------------------
(* ServerConfig's texts.                                                     *)

\* A set of numbers with a lower bound has a least one.
LEMMA LeastOf ==
    ASSUME NEW I, NEW low \in Int, \A i \in I : i \in Int /\ low <= i, I # {}
    PROVE  Min(I) \in I
<1>. DEFINE T == {i - low : i \in I}
<1>1. T \subseteq Nat /\ T # {} OBVIOUS
<1>2. PICK n \in T : \A m \in T : n <= m BY <1>1, LeastNumber
<1>3. PICK i \in I : n = i - low BY <1>2
<1>4. \A j \in I : i <= j
    <2>1. TAKE j \in I
    <2>2. n <= j - low BY <1>2
    <2>. QED BY <1>3, <2>2
<1>. QED BY <1>4 DEF Min

\* A set of numbers with an upper bound has a greatest one.
LEMMA GreatestOf ==
    ASSUME NEW I, NEW high \in Int, \A i \in I : i \in Int /\ i <= high, I # {}
    PROVE  Max(I) \in I
<1>. DEFINE T == {high - i : i \in I}
<1>1. T \subseteq Nat /\ T # {} OBVIOUS
<1>2. PICK n \in T : \A m \in T : n <= m BY <1>1, LeastNumber
<1>3. PICK i \in I : n = high - i BY <1>2
<1>4. \A j \in I : j <= i
    <2>1. TAKE j \in I
    <2>2. n <= high - j BY <1>2
    <2>. QED BY <1>3, <2>2
<1>. QED BY <1>4 DEF Max

\* The least of two numbers.
LEMMA LesserOf ==
    ASSUME NEW m \in Int, NEW n \in Int
    PROVE  Min({m, n}) = IF m <= n THEN m ELSE n
BY DEF Min

\* A part of a text is a text.
LEMMA PartOf ==
    ASSUME NEW S, NEW s \in Seq(S), NEW m \in Nat \ {0}, NEW n \in Int, n <= Len(s)
    PROVE  SubSeq(s, m, n) \in Seq(S)
<1>1. \A i \in m .. n : i \in 1 .. Len(s) OBVIOUS
<1>2. \A i \in m .. n : s[i] \in S BY <1>1
<1>. QED BY <1>2, SubSeqProperties

\* Trimming a text leaves a text.
LEMMA TrimOf ==
    ASSUME NEW S, NEW s \in Seq(S)
    PROVE  Trim(s) \in Seq(S)
<1>. DEFINE solid == {i \in DOMAIN s : s[i] # " "}
<1>1. Len(s) \in Nat /\ DOMAIN s = 1 .. Len(s) OBVIOUS
<1>2. \A i \in solid : i \in Int /\ 1 <= i /\ i <= Len(s)
    <2>1. solid \subseteq 1 .. Len(s) BY Zenon, <1>1
    <2>. HIDE DEF solid
    <2>. QED BY <1>1, <2>1
<1>3. Trim(s) = IF solid = {} THEN <<>> ELSE SubSeq(s, Min(solid), Max(solid)) BY DEF Trim
<1>. HIDE DEF solid
<1>4. CASE solid = {} BY <1>3, <1>4
<1>5. CASE solid # {}
    <2>1. Min(solid) \in solid BY <1>2, <1>5, LeastOf
    <2>2. Max(solid) \in solid BY <1>1, <1>2, <1>5, GreatestOf
    <2>3. Min(solid) \in Nat \ {0} /\ Max(solid) \in Int /\ Max(solid) <= Len(s) BY <1>2, <2>1, <2>2
    <2>4. SubSeq(s, Min(solid), Max(solid)) \in Seq(S) BY <2>3, PartOf
    <2>. QED BY <1>3, <1>5, <2>4
<1>. QED BY <1>4, <1>5

-----------------------------------------------------------------------------
(* What Split takes apart and Join puts together.                            *)

\* Two things made step by step, in the same way from the same, are the same.
LEMMA StepsAgree ==
    ASSUME NEW f, NEW g, NEW N \in Nat, f[0] = g[0],
           \A n \in 1 .. N : f[n - 1] = g[n - 1] => f[n] = g[n]
    PROVE  \A n \in 0 .. N : f[n] = g[n]
<1>. DEFINE T == {n \in Nat : n <= N => f[n] = g[n]}
<1>1. 0 \in T OBVIOUS
<1>2. ASSUME NEW n \in Nat, n \in T PROVE n + 1 \in T
    <2>. SUFFICES ASSUME n + 1 <= N PROVE f[n + 1] = g[n + 1]
        OBVIOUS
    <2>1. n + 1 \in 1 .. N /\ (n + 1) - 1 = n OBVIOUS
    <2>2. f[n] = g[n] BY <1>2
    <2>. QED BY <2>1, <2>2
<1>. HIDE DEF T
<1>3. Nat \subseteq T BY <1>1, <1>2, Counting
<1>. QED BY <1>3 DEF T

\* Where a loop over a text stands: the pieces so far, the piece it is in, and
\* what the next character makes of it.
CutsOf == [pieces : Seq(Text), token : Text]
Nothing == [pieces |-> <<>>, token |-> <<>>]
Flushed(x) == IF x.token = <<>> THEN x.pieces ELSE Append(x.pieces, x.token)
CutBy(a, seps, x) ==
    IF a \in seps THEN [pieces |-> Flushed(x), token |-> <<>>] ELSE [x EXCEPT !.token = Append(@, a)]
Cutting(s, seps, f) == f[0] = Nothing /\ \A n \in 1 .. Len(s) : f[n] = CutBy(s[n], seps, f[n - 1])

\* A loop stays in its set of places.
LEMMA CutStays ==
    ASSUME NEW x \in CutsOf, NEW a \in Atoms, NEW seps
    PROVE  CutBy(a, seps, x) \in CutsOf /\ Flushed(x) \in Seq(Text)
<1>1. x.token \in Text /\ x.pieces \in Seq(Text) BY DEF CutsOf
<1>2. Append(x.token, a) \in Text /\ <<>> \in Text BY <1>1 DEF Text
<1>3. Flushed(x) \in Seq(Text) BY <1>1 DEF Flushed
<1>. QED BY <1>2, <1>3 DEF CutBy, CutsOf

\* Split is that loop.
LEMMA SplitCuts ==
    ASSUME NEW s \in Text, NEW seps
    PROVE  \E f : /\ Cutting(s, seps, f) /\ Split(s, seps) = Flushed(f[Len(s)])
                  /\ \A n \in 0 .. Len(s) : f[n] \in CutsOf
<1>. DEFINE N == Len(s)
            Cuts(f) == f = [n \in 0 .. N |-> IF n = 0 THEN Nothing ELSE CutBy(s[n], seps, f[n - 1])]
            g == [n \in 1 .. N |-> [x \in CutsOf |-> CutBy(s[n], seps, x)]]
            cuts == CHOOSE h : Cuts(h)
<1>1. N \in Nat /\ \A n \in 1 .. N : s[n] \in Atoms BY DEF Text
<1>2. Nothing \in CutsOf
    <2>1. <<>> \in Text /\ <<>> \in Seq(Text) BY DEF Text
    <2>. QED BY <2>1 DEF Nothing, CutsOf
<1>3. Split(s, seps) = Flushed(cuts[N]) BY DEF Split, Nothing, CutBy, Flushed
<1>4. \A n \in 1 .. N : \A x \in CutsOf : g[n][x] = CutBy(s[n], seps, x) OBVIOUS
<1>. HIDE DEF N, g, cuts
<1>5. \A n \in 1 .. N : \A x \in CutsOf : CutBy(s[n], seps, x) \in CutsOf BY <1>1, CutStays
<1>6. \A n \in 1 .. N : \A x \in CutsOf : g[n][x] \in CutsOf BY <1>4, <1>5
<1>7. PICK f \in [0 .. N -> CutsOf] : MadeBy(f, Nothing, N, g) BY <1>1, <1>2, <1>6, StepsExist
<1>8. f[0] = Nothing /\ \A n \in 1 .. N : f[n] = g[n][f[n - 1]] BY <1>7 DEF MadeBy
<1>9. \A n \in 0 .. N : f[n] = IF n = 0 THEN Nothing ELSE CutBy(s[n], seps, f[n - 1])
    <2>1. TAKE n \in 0 .. N
    <2>2. n # 0 => n \in 1 .. N /\ n - 1 \in 0 .. N BY <1>1
    <2>. QED BY <1>4, <1>8, <2>2
<1>10. Cuts(cuts) BY <1>9 DEF cuts
<1>11. \A n \in 0 .. N : cuts[n] = IF n = 0 THEN Nothing ELSE CutBy(s[n], seps, cuts[n - 1]) BY <1>10
<1>12. cuts[0] = Nothing /\ \A n \in 1 .. N : cuts[n] = CutBy(s[n], seps, cuts[n - 1]) BY <1>1, <1>11
<1>13. \A n \in 0 .. N : cuts[n] \in CutsOf
    <2>1. \A n \in 1 .. N : cuts[n - 1] \in CutsOf => cuts[n] \in CutsOf BY <1>5, <1>12
    <2>. QED BY <1>1, <1>2, <1>12, <2>1, StepsStay
<1>. QED BY <1>3, <1>12, <1>13 DEF Cutting, N

\* The pieces of a text are texts, however long it is.
LEMMA SplitText ==
    ASSUME NEW s \in Text, NEW seps
    PROVE  Split(s, seps) \in Seq(Text)
<1>1. PICK f : /\ Split(s, seps) = Flushed(f[Len(s)])
               /\ \A n \in 0 .. Len(s) : f[n] \in CutsOf
    BY SplitCuts
<1>2. Len(s) \in 0 .. Len(s) BY DEF Text
<1>3. PICK x \in CutsOf : x = f[Len(s)] BY <1>1, <1>2
<1>4. PICK a : a \in Atoms BY TextAssumption DEF TextAssumption
<1>. QED BY <1>1, <1>3, <1>4, CutStays

\* A piece has no separator in it and is not empty.
Piece(s, seps) == s # <<>> /\ \A i \in 1 .. Len(s) : s[i] \notin seps
\* splitAny() returns only such pieces.
LEMMA SplitPieces ==
    ASSUME NEW s \in Text, NEW seps
    PROVE  \A i \in 1 .. Len(Split(s, seps)) : Piece(Split(s, seps)[i], seps)
<1>. DEFINE N == Len(s)
            Whole(t) == \A i \in 1 .. Len(t) : Piece(t[i], seps)
            S == {x \in CutsOf : Whole(x.pieces) /\ \A i \in 1 .. Len(x.token) : x.token[i] \notin seps}
<1>1. PICK f : /\ Cutting(s, seps, f) /\ Split(s, seps) = Flushed(f[N])
               /\ \A n \in 0 .. N : f[n] \in CutsOf
    BY SplitCuts
<1>2. N \in Nat /\ \A n \in 1 .. N : s[n] \in Atoms BY DEF Text
<1>3. f[0] = Nothing /\ \A n \in 1 .. N : f[n] = CutBy(s[n], seps, f[n - 1]) BY <1>1 DEF Cutting
<1>. HIDE DEF N
<1>4. f[0] \in S
    <2>1. Nothing.pieces = <<>> /\ Nothing.token = <<>> /\ Len(<<>>) = 0 BY DEF Nothing
    <2>2. f[0] \in CutsOf BY <1>1, <1>2
    <2>. QED BY <1>3, <2>1, <2>2
<1>5. ASSUME NEW x \in S PROVE Whole(Flushed(x))
    <2>. DEFINE p == x.pieces
                t == x.token
    <2>1. p \in Seq(Text) /\ t \in Text /\ Whole(p) /\ \A i \in 1 .. Len(t) : t[i] \notin seps BY <1>5 DEF CutsOf
    <2>2. Flushed(x) = IF t = <<>> THEN p ELSE Append(p, t) BY DEF Flushed
    <2>. HIDE DEF p, t
    <2>3. CASE t = <<>> BY <2>1, <2>2, <2>3
    <2>4. CASE t # <<>>
        <3>1. Piece(t, seps) BY <2>1, <2>4 DEF Piece
        <3>2. /\ Len(p) \in Nat /\ Len(Append(p, t)) = Len(p) + 1
              /\ \A i \in 1 .. Len(p) : Append(p, t)[i] = p[i]
              /\ Append(p, t)[Len(p) + 1] = t
            BY <2>1, AppendProperties
        <3>3. \A i \in 1 .. Len(p) + 1 : i \in 1 .. Len(p) \/ i = Len(p) + 1 BY <3>2
        <3>4. Whole(Append(p, t)) BY <2>1, <3>1, <3>2, <3>3
        <3>. QED BY <2>2, <2>4, <3>4
    <2>. QED BY <2>3, <2>4
<1>6. ASSUME NEW n \in 1 .. N, f[n - 1] \in S PROVE f[n] \in S
    <2>1. n \in 0 .. N /\ n - 1 \in 0 .. N BY <1>2
    <2>2. f[n] \in CutsOf BY <1>1, <2>1
    <2>3. PICK x \in S : x = f[n - 1] BY <1>6
    <2>4. f[n] = CutBy(s[n], seps, x) BY <1>3, <2>3
    <2>5. CASE s[n] \in seps
        <3>1. f[n].pieces = Flushed(x) /\ f[n].token = <<>> BY <2>4, <2>5 DEF CutBy
        <3>2. Whole(Flushed(x)) BY <1>5
        <3>3. Len(<<>>) = 0 OBVIOUS
        <3>. QED BY <2>2, <3>1, <3>2, <3>3
    <2>6. CASE s[n] \notin seps
        <3>. DEFINE t == x.token
        <3>1. x \in CutsOf /\ Whole(x.pieces) /\ \A i \in 1 .. Len(t) : t[i] \notin seps OBVIOUS
        <3>2. f[n].pieces = x.pieces /\ f[n].token = Append(t, s[n]) BY <2>4, <2>6, <3>1 DEF CutBy, CutsOf
        <3>3. t \in Seq(Atoms) BY <3>1 DEF CutsOf, Text
        <3>. HIDE DEF t
        <3>4. /\ Len(t) \in Nat /\ Len(Append(t, s[n])) = Len(t) + 1
              /\ \A i \in 1 .. Len(t) : Append(t, s[n])[i] = t[i]
              /\ Append(t, s[n])[Len(t) + 1] = s[n]
            BY <1>2, <3>3, AppendProperties
        <3>5. \A i \in 1 .. Len(t) + 1 : i \in 1 .. Len(t) \/ i = Len(t) + 1 BY <3>4
        <3>6. \A i \in 1 .. Len(f[n].token) : f[n].token[i] \notin seps BY <2>6, <3>1, <3>2, <3>4, <3>5
        <3>. QED BY <2>2, <3>1, <3>2, <3>6
    <2>. QED BY <2>5, <2>6
<1>7. \A n \in 0 .. N : f[n] \in S
    <2>. HIDE DEF S
    <2>1. \A n \in 1 .. N : f[n - 1] \in S => f[n] \in S BY <1>6
    <2>. QED BY <1>2, <1>4, <2>1, StepsStay
<1>8. N \in 0 .. N BY <1>2
<1>9. Whole(Flushed(f[N])) BY <1>5, <1>7, <1>8
<1>. QED BY <1>1, <1>9

\* A piece is not taken apart.
LEMMA SplitOne ==
    ASSUME NEW p \in Text, NEW seps, Piece(p, seps)
    PROVE  Split(p, seps) = <<p>>
<1>. DEFINE N == Len(p)
            g == [n \in 0 .. N |-> [pieces |-> <<>>, token |-> SubSeq(p, 1, n)]]
<1>1. PICK f : /\ Cutting(p, seps, f) /\ Split(p, seps) = Flushed(f[N])
               /\ \A n \in 0 .. N : f[n] \in CutsOf
    BY SplitCuts
<1>2. p \in Seq(Atoms) /\ N \in Nat /\ \A n \in 1 .. N : p[n] \in Atoms /\ p[n] \notin seps BY DEF Text, Piece
<1>3. f[0] = Nothing /\ \A n \in 1 .. N : f[n] = CutBy(p[n], seps, f[n - 1]) BY <1>1 DEF Cutting
<1>4. f[0] = g[0]
    <2>1. SubSeq(p, 1, 0) = <<>> BY SubSeqEmpty
    <2>. QED BY <1>2, <1>3, <2>1 DEF Nothing
<1>5. ASSUME NEW n \in 1 .. N, f[n - 1] = g[n - 1] PROVE f[n] = g[n]
    <2>1. n \in 0 .. N /\ n - 1 \in 0 .. N /\ 1 \in 1 .. N /\ n \in 1 .. N /\ n <= N BY <1>2
    <2>2. f[n] = CutBy(p[n], seps, [pieces |-> <<>>, token |-> SubSeq(p, 1, n - 1)]) BY <1>3, <1>5, <2>1
    <2>3. f[n] = [pieces |-> <<>>, token |-> Append(SubSeq(p, 1, n - 1), p[n])] BY <1>2, <2>2 DEF CutBy
    <2>4. SubSeq(p, 1, n) = SubSeq(p, 1, n - 1) \o <<p[n]>> BY <1>2, <2>1, SubSeqRecursiveSecond
    <2>5. SubSeq(p, 1, n - 1) \in Seq(Atoms)
        <3>1. \A i \in 1 .. n - 1 : p[i] \in Atoms BY <1>2
        <3>. QED BY <3>1, SubSeqProperties
    <2>6. Append(SubSeq(p, 1, n - 1), p[n]) = SubSeq(p, 1, n) BY <1>2, <2>4, <2>5, AppendIsConcat
    <2>. QED BY <2>1, <2>3, <2>6
<1>6. \A n \in 0 .. N : f[n] = g[n]
    <2>1. N \in Nat BY <1>2
    <2>. HIDE DEF g, N
    <2>. QED BY <2>1, <1>4, <1>5, StepsAgree
<1>7. f[N] = [pieces |-> <<>>, token |-> p]
    <2>1. SubSeq(p, 1, N) = p BY <1>2, SubSeqFull
    <2>. QED BY <1>2, <1>6, <2>1
<1>8. Flushed(f[N]) = Append(<<>>, p) BY <1>7 DEF Flushed, Piece
<1>. QED BY <1>1, <1>8

\* A word is a text.
LEMMA OneWord ==
    ASSUME NEW S, NEW x \in S
    PROVE  <<x>> \in Seq(S)
OBVIOUS

\* What was cut off one text, behind the pieces of another.
Behind(p, x) == [pieces |-> p \o x.pieces, token |-> x.token]
\* One more character is treated alike, whatever stands before it.
LEMMA BehindCut ==
    ASSUME NEW p \in Seq(Text), NEW x \in CutsOf, NEW a \in Atoms, NEW seps
    PROVE  /\ CutBy(a, seps, Behind(p, x)) = Behind(p, CutBy(a, seps, x))
           /\ Flushed(Behind(p, x)) = p \o Flushed(x)
<1>1. x.pieces \in Seq(Text) /\ x.token \in Text BY DEF CutsOf
<1>2. Behind(p, x).pieces = p \o x.pieces /\ Behind(p, x).token = x.token BY DEF Behind
<1>3. p \o Append(x.pieces, x.token) = Append(p \o x.pieces, x.token)
    <2>. DEFINE q == x.pieces
                t == x.token
    <2>1. q \in Seq(Text) /\ t \in Text BY <1>1
    <2>. HIDE DEF q, t
    <2>2. <<t>> \in Seq(Text) BY <2>1, OneWord
    <2>3. p \o q \in Seq(Text) BY <2>1, ConcatProperties
    <2>4. Append(p \o q, t) = (p \o q) \o <<t>> BY <2>1, <2>3, AppendIsConcat
    <2>5. Append(q, t) = q \o <<t>> BY <2>1, AppendIsConcat
    <2>6. (p \o q) \o <<t>> = p \o (q \o <<t>>) BY <2>1, <2>2, ConcatAssociative
    <2>7. p \o Append(q, t) = Append(p \o q, t) BY Zenon, <2>4, <2>5, <2>6
    <2>. QED BY <2>7 DEF q, t
<1>4. Flushed(Behind(p, x)) = p \o Flushed(x)
    <2>1. CASE x.token = <<>> BY <1>2, <2>1 DEF Flushed
    <2>2. CASE x.token # <<>> BY Zenon, <1>2, <1>3, <2>2 DEF Flushed
    <2>. QED BY <2>1, <2>2
<1>5. CASE a \in seps
    <2>1. CutBy(a, seps, Behind(p, x)) = [pieces |-> Flushed(Behind(p, x)), token |-> <<>>] BY <1>5 DEF CutBy
    <2>2. CutBy(a, seps, x) = [pieces |-> Flushed(x), token |-> <<>>] BY <1>5 DEF CutBy
    <2>. DEFINE y == [pieces |-> Flushed(x), token |-> <<>>]
    <2>3. y.pieces = Flushed(x) /\ y.token = <<>> OBVIOUS
    <2>. HIDE DEF y
    <2>4. Behind(p, y) = [pieces |-> p \o Flushed(x), token |-> <<>>] BY Zenon, <2>3 DEF Behind
    <2>5. CutBy(a, seps, x) = y BY Zenon, <2>2 DEF y
    <2>. QED BY Zenon, <1>4, <2>1, <2>4, <2>5
<1>6. CASE a \notin seps
    <2>1. CutBy(a, seps, Behind(p, x)) = [Behind(p, x) EXCEPT !.token = Append(@, a)] BY Zenon, <1>6 DEF CutBy
    <2>2. CutBy(a, seps, x) = [x EXCEPT !.token = Append(@, a)] BY Zenon, <1>6 DEF CutBy
    <2>. DEFINE y == [x EXCEPT !.token = Append(@, a)]
    <2>3. y.pieces = x.pieces /\ y.token = Append(x.token, a) BY DEF CutsOf
    <2>4. [Behind(p, x) EXCEPT !.token = Append(@, a)] = [pieces |-> p \o x.pieces, token |-> Append(x.token, a)]
        <3>1. PICK q : q = p \o x.pieces OBVIOUS
        <3>2. PICK t : t = x.token OBVIOUS
        <3>3. Behind(p, x) = [pieces |-> q, token |-> t] BY Zenon, <3>1, <3>2 DEF Behind
        <3>4. \A z : [[pieces |-> q, token |-> t] EXCEPT !.token = z] = [pieces |-> q, token |-> z]
            OBVIOUS
        <3>5. [Behind(p, x) EXCEPT !.token = Append(@, a)] = [pieces |-> q, token |-> Append(t, a)]
            <4>1. [Behind(p, x) EXCEPT !.token = Append(@, a)] = [Behind(p, x) EXCEPT !.token = Append(t, a)]
                BY Zenon, <1>2, <3>2
            <4>. QED BY Zenon, <3>3, <3>4, <4>1
        <3>. QED BY Zenon, <3>1, <3>2, <3>5
    <2>. HIDE DEF y
    <2>5. Behind(p, y) = [pieces |-> p \o x.pieces, token |-> Append(x.token, a)] BY Zenon, <2>3 DEF Behind
    <2>6. CutBy(a, seps, x) = y BY Zenon, <2>2 DEF y
    <2>. QED BY Zenon, <1>4, <2>1, <2>4, <2>5, <2>6
<1>. QED BY <1>4, <1>5, <1>6

\* A text with a separator in it has the pieces before it and those behind it.
LEMMA SplitAt ==
    ASSUME NEW seps, NEW sep \in Atoms, sep \in seps, NEW a \in Text, NEW b \in Text
    PROVE  Split(a \o <<sep>> \o b, seps) = Split(a, seps) \o Split(b, seps)
<1>. DEFINE s == a \o <<sep>> \o b
            A == Len(a)
            B == Len(b)
            p == Split(a, seps)
<1>1. a \in Seq(Atoms) /\ b \in Seq(Atoms) /\ <<sep>> \in Seq(Atoms) /\ A \in Nat /\ B \in Nat
    BY OneWord DEF Text
<1>2. /\ a \o <<sep>> \in Seq(Atoms) /\ Len(a \o <<sep>>) = A + 1
      /\ \A n \in 1 .. A : (a \o <<sep>>)[n] = a[n]
      /\ (a \o <<sep>>)[A + 1] = sep
    <2>1. Len(<<sep>>) = 1 /\ <<sep>>[1] = sep OBVIOUS
    <2>2. \A n \in 1 .. A + 1 : (a \o <<sep>>)[n] = IF n <= A THEN a[n] ELSE <<sep>>[n - A]
        BY <1>1, <2>1, ConcatProperties
    <2>3. \A n \in 1 .. A : n \in 1 .. A + 1 /\ n <= A BY <1>1
    <2>4. A + 1 \in 1 .. A + 1 /\ ~ (A + 1 <= A) /\ (A + 1) - A = 1 BY <1>1
    <2>. HIDE DEF A
    <2>5. \A n \in 1 .. A : (a \o <<sep>>)[n] = a[n] BY <2>2, <2>3
    <2>6. (a \o <<sep>>)[A + 1] = sep BY <2>1, <2>2, <2>4
    <2>7. a \o <<sep>> \in Seq(Atoms) /\ Len(a \o <<sep>>) = A + 1 BY <1>1, <2>1, ConcatProperties DEF A
    <2>. QED BY <2>5, <2>6, <2>7
<1>3. /\ s \in Seq(Atoms) /\ Len(s) = A + 1 + B
      /\ \A n \in 1 .. A + 1 : s[n] = (a \o <<sep>>)[n]
      /\ \A n \in 1 .. B : s[A + 1 + n] = b[n]
    <2>. DEFINE c == a \o <<sep>>
    <2>1. c \in Seq(Atoms) /\ Len(c) = A + 1 BY <1>2
    <2>2. s = c \o b OBVIOUS
    <2>. HIDE DEF c, s, A, B
    <2>3. /\ s \in Seq(Atoms) /\ Len(s) = Len(c) + Len(b)
          /\ \A i \in 1 .. Len(c) + Len(b) : s[i] = IF i <= Len(c) THEN c[i] ELSE b[i - Len(c)]
        BY <1>1, <2>1, <2>2, ConcatProperties
    <2>4. \A n \in 1 .. A + 1 : n \in 1 .. A + 1 + B /\ n <= A + 1 BY <1>1
    <2>5. \A n \in 1 .. B : A + 1 + n \in 1 .. A + 1 + B /\ ~ (A + 1 + n <= A + 1) /\ (A + 1 + n) - (A + 1) = n
        BY <1>1
    <2>6. Len(c) = A + 1 /\ Len(b) = B BY <2>1 DEF B
    <2>7. \A n \in 1 .. A + 1 : s[n] = c[n] BY <2>3, <2>4, <2>6
    <2>8. \A n \in 1 .. B : s[A + 1 + n] = b[n] BY <2>3, <2>5, <2>6
    <2>. QED BY <2>3, <2>6, <2>7, <2>8 DEF c
<1>4. s \in Text BY <1>3 DEF Text
<1>5. PICK f : /\ Cutting(a, seps, f) /\ p = Flushed(f[A])
               /\ \A n \in 0 .. A : f[n] \in CutsOf
    BY SplitCuts
<1>6. PICK g : /\ Cutting(b, seps, g) /\ Split(b, seps) = Flushed(g[B])
               /\ \A n \in 0 .. B : g[n] \in CutsOf
    BY SplitCuts
<1>7. PICK h : /\ Cutting(s, seps, h) /\ Split(s, seps) = Flushed(h[Len(s)])
    BY <1>4, SplitCuts
<1>8. f[0] = Nothing /\ \A n \in 1 .. A : f[n] = CutBy(a[n], seps, f[n - 1]) BY <1>5 DEF Cutting
<1>9. g[0] = Nothing /\ \A n \in 1 .. B : g[n] = CutBy(b[n], seps, g[n - 1]) BY <1>6 DEF Cutting
<1>10. h[0] = Nothing /\ \A n \in 1 .. Len(s) : h[n] = CutBy(s[n], seps, h[n - 1]) BY <1>7 DEF Cutting
<1>11. p \in Seq(Text) BY SplitText
<1>12. \A n \in 1 .. B : b[n] \in Atoms BY <1>1
<1>. HIDE DEF s, A, B, p
<1>13. \A n \in 0 .. A : h[n] = f[n]
    <2>1. ASSUME NEW n \in 1 .. A, h[n - 1] = f[n - 1] PROVE h[n] = f[n]
        <3>1. n \in 1 .. A + 1 /\ n \in 1 .. Len(s) BY <1>1, <1>3
        <3>2. s[n] = a[n] BY <1>2, <1>3, <3>1
        <3>3. h[n] = CutBy(a[n], seps, h[n - 1]) BY <1>10, <3>1, <3>2
        <3>4. f[n] = CutBy(a[n], seps, f[n - 1]) BY <1>8
        <3>. QED BY <2>1, <3>3, <3>4
    <2>2. h[0] = f[0] BY <1>8, <1>10
    <2>3. A \in Nat BY <1>1
    <2>. QED BY <2>1, <2>2, <2>3, StepsAgree
<1>14. h[A + 1] = [pieces |-> p, token |-> <<>>]
    <2>1. A + 1 \in 1 .. A + 1 /\ A + 1 \in 1 .. Len(s) /\ (A + 1) - 1 = A /\ A \in 0 .. A BY <1>1, <1>3
    <2>2. s[A + 1] = sep BY <1>2, <1>3, <2>1
    <2>3. h[A + 1] = CutBy(sep, seps, h[A]) BY <1>10, <2>1, <2>2
    <2>4. h[A + 1] = CutBy(sep, seps, f[A]) BY <1>13, <2>1, <2>3
    <2>. QED BY <1>5, <2>4 DEF CutBy
<1>. DEFINE u == [n \in 0 .. B |-> h[A + 1 + n]]
            v == [n \in 0 .. B |-> Behind(p, g[n])]
<1>15. u[0] = v[0]
    <2>1. 0 \in 0 .. B /\ A + 1 + 0 = A + 1 BY <1>1
    <2>2. p \o <<>> = p BY <1>11, ConcatEmptySeq
    <2>3. Behind(p, Nothing) = [pieces |-> p, token |-> <<>>] BY <2>2 DEF Behind, Nothing
    <2>. QED BY <1>9, <1>14, <2>1, <2>3
<1>16. ASSUME NEW n \in 1 .. B, u[n - 1] = v[n - 1] PROVE u[n] = v[n]
    <2>1. /\ n \in 0 .. B /\ n - 1 \in 0 .. B /\ A + 1 + n \in 1 .. Len(s)
          /\ (A + 1 + n) - 1 = A + 1 + (n - 1)
        BY <1>1, <1>3
    <2>2. h[A + 1 + (n - 1)] = Behind(p, g[n - 1]) BY <1>16, <2>1
    <2>3. h[A + 1 + n] = CutBy(b[n], seps, h[A + 1 + (n - 1)]) BY <1>3, <1>10, <2>1
    <2>4. PICK x \in CutsOf : x = g[n - 1] BY <1>6, <2>1
    <2>5. CutBy(b[n], seps, Behind(p, x)) = Behind(p, CutBy(b[n], seps, x)) BY <1>11, <1>12, BehindCut
    <2>6. g[n] = CutBy(b[n], seps, x) BY <1>9, <2>4
    <2>7. h[A + 1 + n] = Behind(p, g[n]) BY <2>2, <2>3, <2>4, <2>5, <2>6
    <2>. QED BY <2>1, <2>7
<1>17. \A n \in 0 .. B : u[n] = v[n]
    <2>. HIDE DEF u, v
    <2>1. B \in Nat BY <1>1
    <2>. QED BY <1>15, <1>16, <2>1, StepsAgree
<1>18. B \in 0 .. B /\ Len(s) = A + 1 + B BY <1>1, <1>3
<1>19. h[Len(s)] = Behind(p, g[B]) BY <1>17, <1>18
<1>20. PICK x \in CutsOf : x = g[B] BY <1>6, <1>18
<1>21. Flushed(Behind(p, x)) = p \o Flushed(x) BY <1>11, <1>20, BehindCut, TextAssumption DEF TextAssumption
<1>22. Split(s, seps) = p \o Split(b, seps) BY <1>6, <1>7, <1>19, <1>20, <1>21
<1>. QED BY <1>22 DEF s, p

\* A list written out, and one more piece of it, are a text.
LEMMA JoinedText ==
    ASSUME NEW s \in Text, NEW sep \in Atoms, NEW piece \in Text
    PROVE  Joined(s, sep, piece) \in Text
<1>1. s \in Seq(Atoms) /\ piece \in Seq(Atoms) /\ <<sep>> \in Seq(Atoms) BY OneWord DEF Text
<1>2. s \o <<sep>> \o piece \in Seq(Atoms) BY <1>1, ConcatProperties
<1>. QED BY <1>2 DEF Joined, Text

\* A function that joins piece after piece.
Joining(pieces, sep, f) == f[0] = <<>> /\ \A n \in 1 .. Len(pieces) : f[n] = Joined(f[n - 1], sep, pieces[n])
\* Join is a loop over the pieces.
LEMMA JoinSteps ==
    ASSUME NEW pieces \in Seq(Text), NEW sep \in Atoms
    PROVE  \E f : /\ Joining(pieces, sep, f) /\ Join(pieces, sep) = f[Len(pieces)]
                  /\ \A n \in 0 .. Len(pieces) : f[n] \in Text
<1>. DEFINE N == Len(pieces)
            Made(f) == f = [n \in 0 .. N |-> IF n = 0 THEN <<>> ELSE Joined(f[n - 1], sep, pieces[n])]
            g == [n \in 1 .. N |-> [x \in Text |-> Joined(x, sep, pieces[n])]]
            out == CHOOSE f : Made(f)
<1>1. N \in Nat /\ \A n \in 1 .. N : pieces[n] \in Text OBVIOUS
<1>2. <<>> \in Text BY DEF Text
<1>3. Join(pieces, sep) = out[N] BY DEF Join
<1>. HIDE DEF N
<1>4. \A n \in 1 .. N : \A x \in Text : g[n][x] = Joined(x, sep, pieces[n]) OBVIOUS
<1>. HIDE DEF g, out
<1>5. \A n \in 1 .. N : \A x \in Text : g[n][x] \in Text BY <1>1, <1>4, JoinedText
<1>6. PICK f \in [0 .. N -> Text] : MadeBy(f, <<>>, N, g) BY <1>1, <1>2, <1>5, StepsExist
<1>7. f[0] = <<>> /\ \A n \in 1 .. N : f[n] = g[n][f[n - 1]] BY <1>6 DEF MadeBy
<1>8. \A n \in 0 .. N : f[n] = IF n = 0 THEN <<>> ELSE Joined(f[n - 1], sep, pieces[n])
    <2>1. TAKE n \in 0 .. N
    <2>2. n # 0 => n \in 1 .. N /\ n - 1 \in 0 .. N BY <1>1
    <2>. QED BY <1>4, <1>7, <2>2
<1>9. Made(out) BY <1>8 DEF out
<1>10. \A n \in 0 .. N : out[n] = IF n = 0 THEN <<>> ELSE Joined(out[n - 1], sep, pieces[n]) BY <1>9
<1>11. out[0] = <<>> /\ \A n \in 1 .. N : out[n] = Joined(out[n - 1], sep, pieces[n]) BY <1>1, <1>10
<1>12. \A n \in 0 .. N : out[n] \in Text
    <2>1. \A n \in 1 .. N : out[n - 1] \in Text => out[n] \in Text BY <1>1, <1>2, <1>11, JoinedText
    <2>. QED BY <1>1, <1>2, <1>11, <2>1, StepsStay
<1>. QED BY <1>3, <1>11, <1>12 DEF Joining, N

\* Texts joined are a text, however many they are.
LEMMA JoinText ==
    ASSUME NEW pieces \in Seq(Text), NEW sep \in Atoms
    PROVE  Join(pieces, sep) \in Text
<1>1. PICK f : /\ Join(pieces, sep) = f[Len(pieces)]
               /\ \A n \in 0 .. Len(pieces) : f[n] \in Text
    BY JoinSteps
<1>2. Len(pieces) \in 0 .. Len(pieces) OBVIOUS
<1>. QED BY <1>1, <1>2

\* The pieces of two lists, of a longer and of a shorter one.
LEMMA SetOfConcat ==
    ASSUME NEW S, NEW s \in Seq(S), NEW t \in Seq(S)
    PROVE  ToSet(s \o t) = ToSet(s) \cup ToSet(t)
<1>. DEFINE M == Len(s)
            N == Len(t)
            r == s \o t
<1>1. M \in Nat /\ N \in Nat /\ DOMAIN s = 1 .. M /\ DOMAIN t = 1 .. N OBVIOUS
<1>2. /\ r \in Seq(S) /\ Len(r) = M + N
      /\ \A i \in 1 .. M + N : r[i] = IF i <= M THEN s[i] ELSE t[i - M]
    BY ConcatProperties
<1>. HIDE DEF r
<1>3. DOMAIN r = 1 .. M + N BY <1>2
<1>. HIDE DEF M, N
<1>4. \A i \in 1 .. M : i \in 1 .. M + N /\ r[i] = s[i] BY <1>1, <1>2
<1>5. \A i \in 1 .. N : i + M \in 1 .. M + N /\ r[i + M] = t[i]
    <2>1. TAKE i \in 1 .. N
    <2>2. i + M \in 1 .. M + N /\ ~ (i + M <= M) /\ (i + M) - M = i BY <1>1
    <2>. QED BY <1>2, <2>2
<1>6. ASSUME NEW i \in 1 .. M + N PROVE r[i] \in ToSet(s) \cup ToSet(t)
    <2>1. CASE i <= M
        <3>1. i \in 1 .. M BY <1>1, <2>1
        <3>. QED BY <1>1, <1>4, <3>1 DEF ToSet
    <2>2. CASE ~ (i <= M)
        <3>1. i - M \in 1 .. N BY <1>1, <2>2
        <3>2. r[i] = t[i - M] BY <1>2, <2>2
        <3>. QED BY <1>1, <3>1, <3>2 DEF ToSet
    <2>. QED BY <2>1, <2>2
<1>7. ToSet(r) \subseteq ToSet(s) \cup ToSet(t) BY <1>3, <1>6 DEF ToSet
<1>8. ToSet(s) \subseteq ToSet(r) BY <1>1, <1>3, <1>4 DEF ToSet
<1>9. ToSet(t) \subseteq ToSet(r) BY <1>1, <1>3, <1>5 DEF ToSet
<1>. QED BY <1>7, <1>8, <1>9 DEF r

\* A list written out has the pieces of what is on it.
LEMMA JoinPieces ==
    ASSUME NEW list \in Seq(Text), NEW seps, NEW sep \in Atoms, sep \in seps
    PROVE  ToSet(Split(Join(list, sep), seps)) = UNION {ToSet(Split(list[i], seps)) : i \in 1 .. Len(list)}
<1>. DEFINE N == Len(list)
            On(i) == ToSet(Split(list[i], seps))
<1>1. PICK f : /\ Joining(list, sep, f) /\ Join(list, sep) = f[N]
               /\ \A n \in 0 .. N : f[n] \in Text
    BY JoinSteps
<1>2. f[0] = <<>> /\ \A n \in 1 .. N : f[n] = Joined(f[n - 1], sep, list[n]) BY <1>1 DEF Joining
<1>3. N \in Nat /\ \A n \in 1 .. N : list[n] \in Text OBVIOUS
<1>4. Split(<<>>, seps) = <<>>
    <2>1. <<>> \in Text /\ Len(<<>>) = 0 BY DEF Text
    <2>2. PICK h : Cutting(<<>>, seps, h) /\ Split(<<>>, seps) = Flushed(h[0]) BY <2>1, SplitCuts
    <2>. QED BY <2>2 DEF Cutting, Nothing, Flushed
<1>5. ToSet(<<>>) = {} BY DEF ToSet
<1>. DEFINE T == {n \in Nat : n <= N => ToSet(Split(f[n], seps)) = UNION {On(i) : i \in 1 .. n}}
<1>6. 0 \in T
    <2>1. ToSet(Split(f[0], seps)) = {} BY <1>2, <1>4, <1>5
    <2>2. \A i \in 1 .. 0 : FALSE OBVIOUS
    <2>. HIDE DEF On
    <2>. QED BY <2>1, <2>2
<1>7. ASSUME NEW n \in Nat, n \in T PROVE n + 1 \in T
    <2>. SUFFICES ASSUME n + 1 <= N
                  PROVE  ToSet(Split(f[n + 1], seps)) = UNION {On(i) : i \in 1 .. n + 1}
        OBVIOUS
    <2>1. ToSet(Split(f[n], seps)) = UNION {On(i) : i \in 1 .. n} BY <1>3, <1>7
    <2>2. n \in 0 .. N /\ n + 1 \in 1 .. N /\ (n + 1) - 1 = n BY <1>3
    <2>. DEFINE p == list[n + 1]
    <2>3. p \in Text /\ f[n] \in Text BY <1>1, <1>3, <2>2
    <2>4. f[n + 1] = Joined(f[n], sep, p) BY <1>2, <2>2
    <2>5. ToSet(Split(f[n + 1], seps)) = ToSet(Split(f[n], seps)) \cup On(n + 1)
        <3>1. CASE f[n] = <<>>
            <4>1. f[n + 1] = p BY <2>4, <3>1 DEF Joined
            <4>2. ToSet(Split(f[n], seps)) = {} BY <1>4, <1>5, <3>1
            <4>. QED BY <4>1, <4>2
        <3>2. CASE f[n] # <<>>
            <4>1. f[n + 1] = f[n] \o <<sep>> \o p BY <2>4, <3>2 DEF Joined
            <4>2. \A a, b \in Text : Split(a \o <<sep>> \o b, seps) = Split(a, seps) \o Split(b, seps) BY SplitAt
            <4>. HIDE DEF p
            <4>3. Split(f[n + 1], seps) = Split(f[n], seps) \o Split(p, seps) BY Zenon, <2>3, <4>1, <4>2
            <4>4. Split(f[n], seps) \in Seq(Text) /\ Split(p, seps) \in Seq(Text) BY <2>3, SplitText
            <4>5. ToSet(Split(f[n], seps) \o Split(p, seps)) = ToSet(Split(f[n], seps)) \cup ToSet(Split(p, seps))
                <5>1. \A s, t \in Seq(Text) : ToSet(s \o t) = ToSet(s) \cup ToSet(t) BY SetOfConcat
                <5>. QED BY Zenon, <4>4, <5>1
            <4>6. On(n + 1) = ToSet(Split(p, seps)) BY DEF p
            <4>. QED BY Zenon, <4>3, <4>5, <4>6
        <3>. QED BY <3>1, <3>2
    <2>6. 1 .. n + 1 = (1 .. n) \cup {n + 1} OBVIOUS
    <2>. HIDE DEF p
    <2>7. \A x : x \in UNION {On(i) : i \in 1 .. n + 1} <=> x \in UNION {On(i) : i \in 1 .. n} \/ x \in On(n + 1)
        <3>. HIDE DEF On
        <3>. QED BY <2>6
    <2>8. \A x : x \in ToSet(Split(f[n + 1], seps)) <=> x \in UNION {On(i) : i \in 1 .. n + 1}
        <3>. HIDE DEF On
        <3>. QED BY Zenon, <2>1, <2>5, <2>7
    <2>. HIDE DEF On
    <2>. QED BY <2>8
<1>8. N \in T
    <2>. HIDE DEF T, N
    <2>. QED BY <1>3, <1>6, <1>7, Counting
<1>9. ToSet(Split(f[N], seps)) = UNION {On(i) : i \in 1 .. N} BY <1>3, <1>8
<1>. QED BY <1>1, <1>9

\* rightsToString writes a text.
LEMMA RightsWritten ==
    ASSUME NEW rights
    PROVE  RightsText(rights) \in Text
<1>. DEFINE N == Len(Rights)
            Name(n, x) == IF Rights[n] \notin rights THEN x ELSE Joined(x, "|", <<Rights[n]>>)
            Made(f) == f = [n \in 0 .. N |-> IF n = 0 THEN <<>> ELSE Name(n, f[n - 1])]
            g == [n \in 1 .. N |-> [x \in Text |-> Name(n, x)]]
            names == CHOOSE f : Made(f)
<1>1. N \in Nat /\ \A n \in 1 .. N : <<Rights[n]>> \in Text
    <2>1. Rights \in Seq(Atoms) BY TextAssumption DEF TextAssumption, Text
    <2>2. N \in Nat /\ \A n \in 1 .. N : Rights[n] \in Atoms BY <2>1
    <2>. QED BY <2>2, OneWord DEF Text
<1>2. <<>> \in Text /\ <<"None">> \in Text
    <2>1. <<>> \in Seq(Atoms) OBVIOUS
    <2>2. "None" \in Atoms BY TextAssumption DEF TextAssumption
    <2>3. <<"None">> \in Seq(Atoms) BY <2>2, OneWord
    <2>. QED BY <2>1, <2>3 DEF Text
<1>3. RightsText(rights) = IF names[N] = <<>> THEN <<"None">> ELSE names[N] BY DEF RightsText
<1>. HIDE DEF N
<1>4. \A n \in 1 .. N : \A x \in Text : Name(n, x) \in Text
    <2>1. "|" \in Atoms BY TextAssumption DEF TextAssumption
    <2>2. \A n \in 1 .. N : \A x \in Text : Joined(x, "|", <<Rights[n]>>) \in Text
        BY Zenon, <1>1, <2>1, JoinedText
    <2>. QED BY <2>2
<1>5. \A n \in 1 .. N : \A x \in Text : g[n][x] = Name(n, x) OBVIOUS
<1>. HIDE DEF g, names, Name
<1>6. \A n \in 1 .. N : \A x \in Text : g[n][x] \in Text BY <1>4, <1>5
<1>7. PICK f \in [0 .. N -> Text] : MadeBy(f, <<>>, N, g) BY <1>1, <1>2, <1>6, StepsExist
<1>8. f[0] = <<>> /\ \A n \in 1 .. N : f[n] = g[n][f[n - 1]] BY <1>7 DEF MadeBy
<1>9. \A n \in 0 .. N : f[n] = IF n = 0 THEN <<>> ELSE Name(n, f[n - 1])
    <2>1. TAKE n \in 0 .. N
    <2>2. n # 0 => n \in 1 .. N /\ n - 1 \in 0 .. N BY <1>1
    <2>. QED BY <1>5, <1>8, <2>2
<1>10. Made(names) BY <1>9 DEF names
<1>11. \A n \in 0 .. N : names[n] = IF n = 0 THEN <<>> ELSE Name(n, names[n - 1]) BY <1>10
<1>12. names[0] = <<>> /\ \A n \in 1 .. N : names[n] = Name(n, names[n - 1]) BY <1>1, <1>11
<1>13. \A n \in 0 .. N : names[n] \in Text
    <2>1. \A n \in 1 .. N : names[n - 1] \in Text => names[n] \in Text BY <1>1, <1>2, <1>4, <1>12
    <2>. QED BY <1>1, <1>2, <1>4, <1>12, <2>1, StepsStay
<1>. QED BY <1>1, <1>2, <1>3, <1>13

-----------------------------------------------------------------------------
(* Settings.                                                                 *)

\* atoi makes a number of anything.
LEMMA AtoiNumber ==
    ASSUME NEW s
    PROVE  Atoi(s) \in Int
<1>. DEFINE fits == {n \in DOMAIN Numerals : s # <<>> /\ Numerals[n] = s[1]}
            low == -IntMax - 2
<1>1. IntMax \in Int /\ IntMax >= -1 BY ConfigAssumption DEF ConfigAssumption, IntMax
<1>2. DOMAIN Numerals = -IntMax - 1 .. Ints - 1 BY NumeralsAssumption DEF NumeralsAssumption
<1>3. Ints \in Int BY ConfigAssumption DEF ConfigAssumption
<1>4. low \in Int /\ low <= IntMax BY <1>1
<1>5. fits \subseteq -IntMax - 1 .. Ints - 1 BY Zenon, <1>2
<1>6. Atoi(s) = IF fits = {} THEN 0 ELSE Min(fits \cup {IntMax}) BY DEF Atoi
<1>. HIDE DEF fits
<1>7. \A i \in fits \cup {IntMax} : i \in Int /\ low <= i BY <1>1, <1>3, <1>4, <1>5
<1>. HIDE DEF low
<1>8. Min(fits \cup {IntMax}) \in fits \cup {IntMax} BY <1>4, <1>7, LeastOf
<1>. QED BY <1>6, <1>7, <1>8

\* What is read for a setting fits into its field.
LEMMA ValueFits ==
    ASSUME NEW k, NEW s \in Text
    PROVE  Value(k, s) \in SettingValues(k)
<1>1. Width(k) \in Nat \ {0} BY ConfigAssumption DEF ConfigAssumption, Width
<1>2. Atoi(s) % Width(k) \in 0 .. Width(k) - 1
    <2>1. PICK n \in Int : n = Atoi(s) BY AtoiNumber
    <2>2. PICK w \in Nat \ {0} : w = Width(k) BY <1>1
    <2>3. n % w \in 0 .. w - 1 OBVIOUS
    <2>. QED BY <2>1, <2>2, <2>3
<1>. QED BY <1>2 DEF Value, SettingValues

\* What is written for a setting is a text.
LEMMA WrittenText ==
    ASSUME NEW k, NEW v \in SettingValues(k)
    PROVE  Written(k, v) \in Text
<1>1. CASE k \in Numbers
    <2>1. v \in 0 .. Width(k) - 1 BY <1>1 DEF SettingValues
    <2>2. v \in 0 .. Ints - 1 BY <2>1, ConfigAssumption DEF ConfigAssumption, Width
    <2>3. IntMax \in Int /\ Ints \in Int /\ IntMax >= 0 BY ConfigAssumption DEF ConfigAssumption, IntMax
    <2>4. v \in -IntMax - 1 .. Ints - 1 BY <2>2, <2>3
    <2>5. Numerals[v] \in Atoms BY <2>4, NumeralsAssumption DEF NumeralsAssumption
    <2>6. <<Numerals[v]>> \in Seq(Atoms) BY <2>5, OneWord
    <2>. QED BY <1>1, <2>6 DEF Written, Text
<1>2. CASE k \notin Numbers BY <1>2 DEF Written, SettingValues
<1>. QED BY <1>1, <1>2

-----------------------------------------------------------------------------
(* ServerConfig::parse and ServerApp::serialize.                             *)

AllSettings == {s \in [ToSet(Settings) -> UNION {SettingValues(k) : k \in ToSet(Settings)}] :
                    \A k \in ToSet(Settings) : s[k] \in SettingValues(k)}
Records == [username : Text, argon2Hash : Text, rights : SUBSET ToSet(Rights)]
Configurations == [settings : AllSettings, users : Seq(Records)]

\* What parse() has read so far: the users are still a map.
Maps == {known \in UNION {[D -> Records] : D \in SUBSET Text} : IsFiniteSet(DOMAIN known)}
Readings == [settings : AllSettings, users : Maps]

\* Settings stay settings when one of them is set.
LEMMA SettingsChange ==
    ASSUME NEW s \in AllSettings, NEW k \in ToSet(Settings), NEW v \in SettingValues(k)
    PROVE  [s EXCEPT ![k] = v] \in AllSettings
<1>1. [s EXCEPT ![k] = v] \in [ToSet(Settings) -> UNION {SettingValues(j) : j \in ToSet(Settings)}]
    BY DEF AllSettings
<1>2. \A j \in ToSet(Settings) : [s EXCEPT ![k] = v][j] \in SettingValues(j) BY DEF AllSettings
<1>. QED BY <1>1, <1>2 DEF AllSettings

\* A ServerConfig{} holds settings.
LEMMA DefaultSettings == Default \in AllSettings
BY SettingsAssumption DEF SettingsAssumption, AllSettings

\* The map of users stays one when a field of a user is set.
LEMMA FieldStays ==
    ASSUME NEW known \in Maps, NEW name \in Text, NEW field \in Text, NEW val \in Text
    PROVE  WithField(known, name, field, val) \in Maps
<1>. DEFINE u == IF name \in DOMAIN known THEN known[name]
                 ELSE [username |-> name, argon2Hash |-> <<>>, rights |-> {}]
            r == CASE field = <<"hash">> -> [u EXCEPT !.argon2Hash = val]
                   [] field = <<"rights">> -> [u EXCEPT !.rights = RightsFrom(Split(val, {"|", ","}))]
                   [] OTHER -> u
            D == {name} \cup DOMAIN known
            both == [x \in D |-> IF x = name THEN r ELSE known[x]]
<1>1. DOMAIN known \in SUBSET Text /\ known \in [DOMAIN known -> Records] /\ IsFiniteSet(DOMAIN known)
    BY DEF Maps
<1>2. u \in Records
    <2>1. <<>> \in Text BY DEF Text
    <2>. QED BY <1>1, <2>1 DEF Records
<1>3. RightsFrom(Split(val, {"|", ","})) \in SUBSET ToSet(Rights) BY DEF RightsFrom
<1>4. r \in Records
    <2>. HIDE DEF u
    <2>1. [u EXCEPT !.argon2Hash = val] \in Records BY <1>2 DEF Records
    <2>2. [u EXCEPT !.rights = RightsFrom(Split(val, {"|", ","}))] \in Records BY <1>2, <1>3 DEF Records
    <2>. QED BY <1>2, <2>1, <2>2
<1>5. WithField(known, name, field, val) = both BY DEF WithField
<1>. HIDE DEF r, u
<1>6. IsFiniteSet(D) BY <1>1, FS_AddElement
<1>7. D \in SUBSET Text /\ both \in [D -> Records] /\ DOMAIN both = D BY <1>1, <1>4
<1>. HIDE DEF D, both
<1>. QED BY <1>5, <1>6, <1>7 DEF Maps

\* Where parse() finds the "=", if there is one.
LEMMA EqualsSign ==
    ASSUME NEW S, NEW s \in Seq(S)
    PROVE  SelectInSeq(s, LAMBDA a : a = "=") \in 0 .. Len(s)
<1>. DEFINE I == {i \in 1 .. Len(s) : s[i] = "="}
<1>1. SelectInSeq(s, LAMBDA a : a = "=") = IF I # {} THEN Min(I) ELSE 0 BY DEF SelectInSeq
<1>2. Len(s) \in Nat OBVIOUS
<1>3. \A i \in I : i \in Int /\ 0 <= i /\ i <= Len(s) BY <1>2
<1>. HIDE DEF I
<1>4. I # {} => Min(I) \in I BY <1>3, LeastOf
<1>. QED BY <1>1, <1>2, <1>3, <1>4

\* Where parse() finds the dot before the field, if there is one.
LEMMA DotPlace ==
    ASSUME NEW S, NEW s \in Seq(S)
    PROVE  LastDot(s) \in 0 .. Len(s)
<1>. DEFINE I == {i \in 1 .. Len(s) : s[i] = "."}
<1>1. LastDot(s) = IF I # {} THEN Max(I) ELSE 0 BY DEF LastDot, SelectLastInSeq
<1>2. Len(s) \in Nat OBVIOUS
<1>3. \A i \in I : i \in Int /\ 0 <= i /\ i <= Len(s) BY <1>2
<1>. HIDE DEF I
<1>4. I # {} => Max(I) \in I BY <1>2, <1>3, GreatestOf
<1>. QED BY <1>1, <1>2, <1>3, <1>4

\* One line read leaves settings and a map of users.
LEMMA LineStays ==
    ASSUME NEW c \in Readings, NEW raw \in Text
    PROVE  ParseLine(c, raw) \in Readings
<1>. DEFINE line == Trim(raw)
            eq == SelectInSeq(line, LAMBDA a : a = "=")
            key == Trim(SubSeq(line, 1, eq - 1))
            val == Trim(SubSeq(line, eq + 1, Len(line)))
            rest == SubSeq(key, 3, Len(key))
            dot == LastDot(rest)
            name == SubSeq(rest, 1, dot - 1)
            field == SubSeq(rest, dot + 1, Len(rest))
            set == [c EXCEPT !.settings[key[1]] = Value(key[1], val)]
            user == [c EXCEPT !.users = WithField(@, name, field, val)]
<1>1. line \in Seq(Atoms) BY TrimOf DEF Text
<1>2. eq \in 0 .. Len(line) BY <1>1, EqualsSign
<1>3. ParseLine(c, raw) =
          IF line = <<>> \/ eq = 0 \/ Head(line) \in {"#", ";"} THEN c
          ELSE IF Len(key) = 1 /\ key[1] \in ToSet(Settings) THEN set
          ELSE IF IsPrefix(<<"user", ".">>, key) /\ dot # 0 THEN user
          ELSE c
    BY DEF ParseLine
<1>. HIDE DEF line, eq
<1>4. key \in Seq(Atoms) /\ val \in Seq(Atoms)
    <2>1. Len(line) \in Nat BY <1>1
    <2>2. eq - 1 \in Int /\ eq - 1 <= Len(line) /\ eq + 1 \in Nat \ {0} BY <1>2, <2>1
    <2>3. SubSeq(line, 1, eq - 1) \in Seq(Atoms) BY <1>1, <2>1, <2>2, PartOf
    <2>4. SubSeq(line, eq + 1, Len(line)) \in Seq(Atoms) BY <1>1, <2>1, <2>2, PartOf
    <2>. QED BY <2>3, <2>4, TrimOf
<1>. HIDE DEF key, val
<1>5. rest \in Seq(Atoms)
    <2>1. Len(key) \in Int BY <1>4
    <2>. QED BY <1>4, <2>1, PartOf
<1>6. dot \in 0 .. Len(rest) BY <1>5, DotPlace
<1>. HIDE DEF rest, dot
<1>7. name \in Seq(Atoms) /\ field \in Seq(Atoms)
    <2>1. Len(rest) \in Nat BY <1>5
    <2>2. dot - 1 \in Int /\ dot - 1 <= Len(rest) /\ dot + 1 \in Nat \ {0} BY <1>6, <2>1
    <2>. QED BY <1>5, <2>1, <2>2, PartOf
<1>. HIDE DEF name, field
<1>8. key[1] \in ToSet(Settings) => set \in Readings
    <2>. SUFFICES ASSUME key[1] \in ToSet(Settings) PROVE set \in Readings
        OBVIOUS
    <2>. DEFINE s == [c.settings EXCEPT ![key[1]] = Value(key[1], val)]
    <2>1. s \in AllSettings BY <1>4, ValueFits, SettingsChange DEF Text, Readings
    <2>2. set = [c EXCEPT !.settings = s] OBVIOUS
    <2>. HIDE DEF s, set
    <2>. QED BY <2>1, <2>2 DEF Readings
<1>9. user \in Readings
    <2>1. WithField(c.users, name, field, val) \in Maps BY <1>4, <1>7, FieldStays DEF Text, Readings
    <2>. QED BY <2>1 DEF Readings
<1>. HIDE DEF set, user
<1>. QED BY <1>3, <1>8, <1>9

\* The users of the map, one after the other.
LEMMA ListedUsers ==
    ASSUME NEW known \in Maps
    PROVE  SetToSeq({known[name] : name \in DOMAIN known}) \in Seq(Records)
<1>. DEFINE R == {known[name] : name \in DOMAIN known}
<1>1. R \subseteq Records /\ IsFiniteSet(DOMAIN known) BY DEF Maps
<1>2. IsFiniteSet(R)
    <2>. DEFINE h == [name \in DOMAIN known |-> known[name]]
    <2>1. h \in [DOMAIN known -> R] /\ \A r \in R : \E name \in DOMAIN known : h[name] = r OBVIOUS
    <2>2. h \in Surjection(DOMAIN known, R) BY <2>1 DEF Surjection
    <2>. QED BY <1>1, <2>2, FS_Surjection
<1>. HIDE DEF R
<1>3. Cardinality(R) \in Nat /\ ExistsBijection(1 .. Cardinality(R), R) BY <1>2, FS_CardinalityType
<1>4. PICK h \in [1 .. Cardinality(R) -> R] : IsInjective(h)
    BY <1>3 DEF ExistsBijection, Bijection, Injection, IsInjective
<1>5. SetToSeq(R) \in [1 .. Cardinality(R) -> R] BY <1>4 DEF SetToSeq
<1>6. SetToSeq(R) \in Seq(R) BY <1>3, <1>5
<1>7. SetToSeq(R) \in Seq(Records) BY <1>1, <1>6
<1>. QED BY <1>7 DEF R

\* A file of any length is read as a configuration.
LEMMA ParseType ==
    ASSUME NEW lines \in Seq(Text)
    PROVE  Parse(lines) \in Configurations
<1>. DEFINE N == Len(lines)
            a == [settings |-> Default, users |-> <<>>]
            Made(f) == f = [n \in 0 .. N |-> IF n = 0 THEN a ELSE ParseLine(f[n - 1], lines[n])]
            g == [n \in 1 .. N |-> [x \in Readings |-> ParseLine(x, lines[n])]]
            read == CHOOSE f : Made(f)
            c == read[N]
<1>1. N \in Nat /\ \A n \in 1 .. N : lines[n] \in Text OBVIOUS
<1>2. a \in Readings
    <2>1. <<>> \in [{} -> Records] /\ IsFiniteSet({}) /\ DOMAIN <<>> = {} BY FS_EmptySet
    <2>2. <<>> \in Maps BY <2>1 DEF Maps
    <2>. QED BY <2>2, DefaultSettings DEF Readings
<1>3. Parse(lines) = [c EXCEPT !.users = SetToSeq({c.users[name] : name \in DOMAIN c.users})] BY DEF Parse
<1>. HIDE DEF N, a
<1>4. \A n \in 1 .. N : \A x \in Readings : g[n][x] = ParseLine(x, lines[n]) OBVIOUS
<1>. HIDE DEF g, read
<1>5. \A n \in 1 .. N : \A x \in Readings : g[n][x] \in Readings BY <1>1, <1>4, LineStays
<1>6. PICK f \in [0 .. N -> Readings] : MadeBy(f, a, N, g) BY <1>1, <1>2, <1>5, StepsExist
<1>7. f[0] = a /\ \A n \in 1 .. N : f[n] = g[n][f[n - 1]] BY <1>6 DEF MadeBy
<1>8. \A n \in 0 .. N : f[n] = IF n = 0 THEN a ELSE ParseLine(f[n - 1], lines[n])
    <2>1. TAKE n \in 0 .. N
    <2>2. n # 0 => n \in 1 .. N /\ n - 1 \in 0 .. N BY <1>1
    <2>. QED BY <1>4, <1>7, <2>2
<1>9. Made(read) BY <1>8 DEF read
<1>10. \A n \in 0 .. N : read[n] = IF n = 0 THEN a ELSE ParseLine(read[n - 1], lines[n]) BY <1>9
<1>11. read[0] = a /\ \A n \in 1 .. N : read[n] = ParseLine(read[n - 1], lines[n]) BY <1>1, <1>10
<1>12. \A n \in 0 .. N : read[n] \in Readings
    <2>1. \A n \in 1 .. N : read[n - 1] \in Readings => read[n] \in Readings BY <1>1, <1>2, <1>11, LineStays
    <2>. QED BY <1>1, <1>2, <1>11, <2>1, StepsStay
<1>13. c \in Readings BY <1>1, <1>12
<1>. HIDE DEF c
<1>14. SetToSeq({c.users[name] : name \in DOMAIN c.users}) \in Seq(Records) BY <1>13, ListedUsers DEF Readings
<1>. QED BY <1>3, <1>13, <1>14 DEF Readings, Configurations

\* The words of the file's own format.
LEMMA Marks ==
    /\ <<"user", ".">> \in Text
    /\ <<".", "hash", "=">> \in Text /\ <<".", "rights", "=">> \in Text
    /\ \A n \in 1 .. Len(Settings) : <<Settings[n], "=">> \in Text
<1>1. "=" \in Atoms /\ "." \in Atoms /\ "user" \in Atoms /\ "hash" \in Atoms /\ "rights" \in Atoms
    BY TextAssumption DEF TextAssumption
<1>2. \A n \in 1 .. Len(Settings) : Settings[n] \in Atoms
    <2>1. DOMAIN Settings = 1 .. Len(Settings) BY DEF Settings
    <2>2. ToSet(Settings) \subseteq Atoms BY SettingsAssumption DEF SettingsAssumption
    <2>. QED BY <2>1, <2>2 DEF ToSet
<1>3. \A x, y \in Atoms : <<x, y>> \in Seq(Atoms) OBVIOUS
<1>4. \A x, y, z \in Atoms : <<x, y, z>> \in Seq(Atoms) OBVIOUS
<1>. QED BY <1>1, <1>2, <1>3, <1>4 DEF Text

\* The settings are written as lines.
LEMMA SettingLinesType ==
    ASSUME NEW c \in Configurations
    PROVE  SettingLines(c) \in Seq(Text)
<1>. DEFINE N == Len(Settings)
            L == Seq(Text)
            Line(n) == <<Settings[n], "=">> \o Written(Settings[n], c.settings[Settings[n]])
            Add(n, x) == IF Settings[n] = "client_ca" /\ c.settings["client_ca"] = <<>> THEN x
                         ELSE Append(x, Line(n))
            Made(h) == h = [n \in 0 .. N |-> IF n = 0 THEN <<>> ELSE Add(n, h[n - 1])]
            g == [n \in 1 .. N |-> [x \in L |-> Add(n, x)]]
            f == CHOOSE h : Made(h)
<1>1. SettingLines(c) = f[N] BY DEF SettingLines
<1>2. N \in Nat BY DEF Settings
<1>3. DOMAIN Settings = 1 .. N BY DEF Settings
<1>4. \A n \in 1 .. N : Line(n) \in Text
    <2>1. TAKE n \in 1 .. N
    <2>2. Settings[n] \in ToSet(Settings) BY <1>3 DEF ToSet
    <2>3. c.settings[Settings[n]] \in SettingValues(Settings[n]) BY <2>2 DEF Configurations, AllSettings
    <2>4. Written(Settings[n], c.settings[Settings[n]]) \in Seq(Atoms) BY <2>3, WrittenText DEF Text
    <2>5. <<Settings[n], "=">> \in Seq(Atoms) BY Marks DEF Text
    <2>. QED BY <2>4, <2>5, ConcatProperties DEF Text
<1>5. <<>> \in L OBVIOUS
<1>. HIDE DEF N, Line, f
<1>6. \A n \in 1 .. N : \A x \in L : Add(n, x) \in L BY <1>4
<1>. HIDE DEF Add, L
<1>7. \A n \in 1 .. N : \A x \in L : g[n][x] = Add(n, x) OBVIOUS
<1>. HIDE DEF g
<1>8. \A n \in 1 .. N : \A x \in L : g[n][x] \in L BY <1>6, <1>7
<1>9. PICK h \in [0 .. N -> L] : MadeBy(h, <<>>, N, g) BY <1>2, <1>5, <1>8, StepsExist
<1>10. h[0] = <<>> /\ \A n \in 1 .. N : h[n] = g[n][h[n - 1]] BY <1>9 DEF MadeBy
<1>11. \A n \in 0 .. N : h[n] = IF n = 0 THEN <<>> ELSE Add(n, h[n - 1])
    <2>1. TAKE n \in 0 .. N
    <2>2. n # 0 => n \in 1 .. N /\ n - 1 \in 0 .. N BY <1>2
    <2>. QED BY <1>7, <1>10, <2>2
<1>12. Made(f) BY <1>11 DEF f
<1>13. \A n \in 0 .. N : f[n] = IF n = 0 THEN <<>> ELSE Add(n, f[n - 1]) BY <1>12
<1>14. f[0] = <<>> /\ \A n \in 1 .. N : f[n] = Add(n, f[n - 1]) BY <1>2, <1>13
<1>15. \A n \in 0 .. N : f[n] \in L
    <2>1. \A n \in 1 .. N : f[n - 1] \in L => f[n] \in L BY <1>2, <1>5, <1>6, <1>14
    <2>. QED BY <1>2, <1>5, <1>6, <1>14, <2>1, StepsStay
<1>16. f[N] \in L BY <1>2, <1>15
<1>. QED BY <1>1, <1>16 DEF L

\* A user is written as lines.
LEMMA UserLinesType ==
    ASSUME NEW u \in Records
    PROVE  UserLines(u) \in Seq(Text)
<1>. DEFINE Field(marks, v) == <<"user", ".">> \o u.username \o marks \o v
<1>1. ASSUME NEW marks \in Text, NEW v \in Text PROVE Field(marks, v) \in Text
    <2>1. u.username \in Seq(Atoms) /\ <<"user", ".">> \in Seq(Atoms) BY Marks DEF Records, Text
    <2>2. <<"user", ".">> \o u.username \in Seq(Atoms) BY <2>1, ConcatProperties
    <2>3. <<"user", ".">> \o u.username \o marks \in Seq(Atoms) BY <2>2, ConcatProperties DEF Text
    <2>. QED BY <2>3, ConcatProperties DEF Text
<1>2. UserLines(u) = <<Field(<<".", "hash", "=">>, u.argon2Hash), Field(<<".", "rights", "=">>, RightsText(u.rights))>>
    BY DEF UserLines
<1>. HIDE DEF Field
<1>3. Field(<<".", "hash", "=">>, u.argon2Hash) \in Text BY <1>1, Marks DEF Records
<1>4. Field(<<".", "rights", "=">>, RightsText(u.rights)) \in Text BY <1>1, Marks, RightsWritten
<1>. QED BY <1>2, <1>3, <1>4

\* A configuration of any number of users is written as lines.
LEMMA SerializeType ==
    ASSUME NEW c \in Configurations
    PROVE  Serialize(c) \in Seq(Text)
<1>. DEFINE N == Len(c.users)
            L == Seq(Text)
            a == SettingLines(c)
            Add(n, x) == IF c.users[n].username = <<>> \/ c.users[n].argon2Hash = <<>> THEN x
                         ELSE x \o UserLines(c.users[n])
            Made(h) == h = [n \in 0 .. N |-> IF n = 0 THEN a ELSE Add(n, h[n - 1])]
            g == [n \in 1 .. N |-> [x \in L |-> Add(n, x)]]
            f == CHOOSE h : Made(h)
<1>1. Serialize(c) = f[N] BY DEF Serialize
<1>2. N \in Nat /\ \A n \in 1 .. N : c.users[n] \in Records BY DEF Configurations
<1>3. a \in L BY SettingLinesType
<1>. HIDE DEF N, a, f
<1>4. ASSUME NEW n \in 1 .. N, NEW x \in L PROVE Add(n, x) \in L
    <2>1. UserLines(c.users[n]) \in L BY <1>2, UserLinesType
    <2>2. x \o UserLines(c.users[n]) \in L BY <2>1, ConcatProperties
    <2>. QED BY <2>2
<1>. HIDE DEF Add, L
<1>5. \A n \in 1 .. N : \A x \in L : g[n][x] = Add(n, x) OBVIOUS
<1>. HIDE DEF g
<1>6. \A n \in 1 .. N : \A x \in L : g[n][x] \in L BY <1>4, <1>5
<1>7. PICK h \in [0 .. N -> L] : MadeBy(h, a, N, g) BY <1>2, <1>3, <1>6, StepsExist
<1>8. h[0] = a /\ \A n \in 1 .. N : h[n] = g[n][h[n - 1]] BY <1>7 DEF MadeBy
<1>9. \A n \in 0 .. N : h[n] = IF n = 0 THEN a ELSE Add(n, h[n - 1])
    <2>1. TAKE n \in 0 .. N
    <2>2. n # 0 => n \in 1 .. N /\ n - 1 \in 0 .. N BY <1>2
    <2>. QED BY <1>5, <1>8, <2>2
<1>10. Made(f) BY <1>9 DEF f
<1>11. \A n \in 0 .. N : f[n] = IF n = 0 THEN a ELSE Add(n, f[n - 1]) BY <1>10
<1>12. f[0] = a /\ \A n \in 1 .. N : f[n] = Add(n, f[n - 1]) BY <1>2, <1>11
<1>13. \A n \in 0 .. N : f[n] \in L
    <2>1. \A n \in 1 .. N : f[n - 1] \in L => f[n] \in L BY <1>2, <1>3, <1>4, <1>12
    <2>. QED BY <1>2, <1>3, <1>4, <1>12, <2>1, StepsStay
<1>14. f[N] \in L BY <1>2, <1>13
<1>. QED BY <1>1, <1>14 DEF L

-----------------------------------------------------------------------------
(* The configuration stays one, and the filter run() makes of it lets in     *)
(* whom its entries name.                                                    *)

\* The allow-list is a text.
LEMMA ListText ==
    ASSUME NEW c \in Configurations
    PROVE  c.settings["allow_subnets"] \in Text
<1>1. Settings[4] = "allow_subnets" /\ 4 \in DOMAIN Settings BY DEF Settings
<1>2. "allow_subnets" \in ToSet(Settings) BY <1>1 DEF ToSet
<1>3. "allow_subnets" \notin Numbers BY DEF Numbers
<1>. QED BY <1>2, <1>3 DEF Configurations, AllSettings, SettingValues

\* The entries of the allow-list, for addList.
LEMMA EntriesType ==
    ASSUME NEW c \in Configurations
    PROVE  Entries(c) \in Seq(FilterEntries)
<1>. DEFINE pieces == Pieces(c.settings["allow_subnets"])
<1>2. c.settings["allow_subnets"] \in Text BY ListText
<1>3. pieces \in Seq(Text) BY <1>2, SplitText DEF Pieces
<1>4. \A piece : Entry(piece) \in FilterEntries
    <2>1. [addr |-> Unreadable, bits |-> NoSlash] \in FilterEntries BY DEF FilterEntries
    <2>. QED BY <2>1, TextAssumption DEF Entry, TextAssumption
<1>5. Entries(c) = [i \in DOMAIN pieces |-> Entry(pieces[i])] BY DEF Entries
<1>. HIDE DEF pieces
<1>6. DOMAIN pieces = 1 .. Len(pieces) /\ Len(pieces) \in Nat BY <1>3
<1>. QED BY <1>4, <1>5, <1>6

ConfigTypeOK ==
    /\ text \in {NoFile} \cup Seq(Text)
    /\ cfg \in Configurations
    /\ ranges \in Seq(Text) /\ working \in Seq(Records)
    /\ touched \in [names : SUBSET Text, keys : SUBSET Controls, ranges : SUBSET Text]
    /\ dialog = "options" => controls \in [Controls -> Text]

\* The filter run() builds from a configuration lets in whom its entries name.
LEMMA FilterOf ==
    ASSUME NEW c \in Configurations, NEW f \in Families, NEW bytes \in Address(f)
    PROVE  LET ip == [family |-> f, bytes |-> bytes]
               entries == Entries(c)
           IN  IsAllowed(Rules(c), ip) <=>
                   \E n \in DOMAIN entries : WellFormed(entries[n]) /\ Covers(entries[n], ip)
<1>. DEFINE ip == [family |-> f, bytes |-> bytes]
            entries == Entries(c)
<1>1. ip \in Addresses BY DEF Addresses
<1>2. ip # Unreadable BY <1>1, UnreadableAssumption DEF UnreadableAssumption
<1>3. entries \in Seq(FilterEntries) BY EntriesType
<1>4. Rules(c) = AddList(entries) BY DEF Rules
<1>. HIDE DEF entries, ip
<1>5. DOMAIN entries = 1 .. Len(entries) BY <1>3
<1>6. IsAllowed(AddList(entries), ip) <=>
          ip # Unreadable /\ \E k \in 1 .. Len(entries) : WellFormed(entries[k]) /\ Covers(entries[k], ip)
    BY <1>1, <1>3, ListLetsInItsRanges
<1>7. IsAllowed(Rules(c), ip) <=>
          \E n \in DOMAIN entries : WellFormed(entries[n]) /\ Covers(entries[n], ip)
    BY <1>2, <1>4, <1>5, <1>6
<1>. QED BY <1>7 DEF entries, ip

\* saveConfig writes what is read again.
LEMMA SaveStays ==
    ASSUME ConfigTypeOK, NEW c \in Configurations, Save(c)
    PROVE  ConfigTypeOK'
<1>1. <<>> \in Seq(Text) /\ <<>> \in Seq(Records) OBVIOUS
<1>2. Serialize(c) \in Seq(Text) BY SerializeType
<1>3. touched' \in [names : SUBSET Text, keys : SUBSET Controls, ranges : SUBSET Text] /\ dialog' # "options"
    BY DEF Save, Close, Untouched
<1>. QED BY <1>1, <1>2, <1>3 DEF ConfigTypeOK, Save, Close

\* A list stays one when a piece is taken off it.
LEMMA RemovedFrom ==
    ASSUME NEW S, NEW s \in Seq(S), NEW i \in DOMAIN s
    PROVE  RemoveAt(s, i) \in Seq(S)
<1>1. Len(s) \in Nat /\ i \in 1 .. Len(s) OBVIOUS
<1>2. SubSeq(s, 1, i - 1) \in Seq(S) BY <1>1, PartOf
<1>3. SubSeq(s, i + 1, Len(s)) \in Seq(S) BY <1>1, PartOf
<1>. QED BY <1>2, <1>3, ConcatProperties DEF RemoveAt

\* What a list is made of when a piece is taken off it.
LEMMA RemovedIs ==
    ASSUME NEW S, NEW s \in Seq(S), NEW i \in DOMAIN s
    PROVE  /\ Len(RemoveAt(s, i)) = Len(s) - 1 /\ Len(s) \in Nat /\ i \in 1 .. Len(s)
           /\ \A n \in 1 .. Len(RemoveAt(s, i)) : RemoveAt(s, i)[n] = s[IF n < i THEN n ELSE n + 1]
<1>. DEFINE N == Len(s)
            a == SubSeq(s, 1, i - 1)
            b == SubSeq(s, i + 1, N)
<1>1. N \in Nat /\ i \in 1 .. N /\ \A n \in 1 .. N : s[n] \in S OBVIOUS
<1>2. RemoveAt(s, i) = a \o b BY DEF RemoveAt
<1>. HIDE DEF N
<1>3. /\ a \in Seq(S) /\ Len(a) = i - 1
      /\ \A n \in 1 .. i - 1 : a[n] = s[n]
    <2>1. \A n \in 1 .. i - 1 : s[n] \in S BY <1>1
    <2>2. /\ a \in Seq(S) /\ Len(a) = (IF 1 <= i - 1 THEN (i - 1) - 1 + 1 ELSE 0)
          /\ \A n \in 1 .. (i - 1) - 1 + 1 : a[n] = s[1 + n - 1]
        BY <1>1, <2>1, SubSeqProperties
    <2>. HIDE DEF a
    <2>. QED BY <1>1, <2>2
<1>4. /\ b \in Seq(S) /\ Len(b) = N - i
      /\ \A n \in 1 .. N - i : b[n] = s[i + n]
    <2>1. \A n \in i + 1 .. N : s[n] \in S BY <1>1
    <2>2. /\ b \in Seq(S) /\ Len(b) = (IF i + 1 <= N THEN N - (i + 1) + 1 ELSE 0)
          /\ \A n \in 1 .. N - (i + 1) + 1 : b[n] = s[(i + 1) + n - 1]
        BY <1>1, <2>1, SubSeqProperties
    <2>. HIDE DEF b
    <2>3. \A n \in 1 .. N - i : n \in 1 .. N - (i + 1) + 1 /\ (i + 1) + n - 1 = i + n BY <1>1
    <2>4. \A n \in 1 .. N - i : b[n] = s[i + n] BY <2>2, <2>3
    <2>5. Len(b) = N - i BY <1>1, <2>2
    <2>. QED BY <2>2, <2>4, <2>5
<1>. HIDE DEF a, b
<1>5. /\ Len(a \o b) = Len(a) + Len(b)
      /\ \A n \in 1 .. Len(a) + Len(b) : (a \o b)[n] = IF n <= Len(a) THEN a[n] ELSE b[n - Len(a)]
    BY <1>3, <1>4, ConcatProperties
<1>6. Len(a \o b) = N - 1 BY <1>1, <1>3, <1>4, <1>5
<1>7. ASSUME NEW n \in 1 .. N - 1 PROVE (a \o b)[n] = s[IF n < i THEN n ELSE n + 1]
    <2>1. CASE n < i
        <3>1. n \in 1 .. Len(a) + Len(b) /\ n <= Len(a) /\ n \in 1 .. i - 1 BY <1>1, <1>3, <1>4, <2>1
        <3>. QED BY <1>3, <1>5, <2>1, <3>1
    <2>2. CASE ~ (n < i)
        <3>1. /\ n \in 1 .. Len(a) + Len(b) /\ ~ (n <= Len(a)) /\ n - Len(a) \in 1 .. N - i
              /\ i + (n - Len(a)) = n + 1
            BY <1>1, <1>3, <1>4, <2>2
        <3>2. (a \o b)[n] = b[n - Len(a)] BY <1>5, <3>1
        <3>3. b[n - Len(a)] = s[n + 1] BY <1>4, <3>1
        <3>. QED BY <2>2, <3>2, <3>3
    <2>. QED BY <2>1, <2>2
<1>. QED BY <1>1, <1>2, <1>6, <1>7 DEF N

\* Whatever else was on the list is on it still.
LEMMA RestOf ==
    ASSUME NEW S, NEW s \in Seq(S), NEW i \in DOMAIN s
    PROVE  ToSet(s) \ {s[i]} \subseteq ToSet(RemoveAt(s, i))
<1>. DEFINE t == RemoveAt(s, i)
<1>1. /\ t \in Seq(S) /\ Len(t) = Len(s) - 1 /\ Len(s) \in Nat /\ i \in 1 .. Len(s)
      /\ \A n \in 1 .. Len(t) : t[n] = s[IF n < i THEN n ELSE n + 1]
    BY RemovedFrom, RemovedIs
<1>. HIDE DEF t
<1>2. DOMAIN t = 1 .. Len(t) /\ DOMAIN s = 1 .. Len(s) BY <1>1
<1>3. ASSUME NEW m \in 1 .. Len(s), s[m] # s[i] PROVE \E n \in 1 .. Len(t) : t[n] = s[m]
    <2>1. m < i \/ i < m
        <3>1. m \in Int /\ i \in Int /\ m # i BY <1>1, <1>3
        <3>. QED BY <3>1
    <2>2. CASE m < i
        <3>1. m \in 1 .. Len(t) BY <1>1, <2>2
        <3>2. t[m] = s[m] BY <1>1, <2>2, <3>1
        <3>. QED BY <3>1, <3>2
    <2>3. CASE i < m
        <3>1. m - 1 \in 1 .. Len(t) /\ ~ (m - 1 < i) /\ (m - 1) + 1 = m BY <1>1, <2>3
        <3>2. t[m - 1] = s[m] BY <1>1, <3>1
        <3>. QED BY <3>1, <3>2
    <2>. QED BY <2>1, <2>2, <2>3
<1>. QED BY <1>2, <1>3 DEF ToSet, t

\* OK in the Options dialog.
LEMMA OptionsStay ==
    ASSUME ConfigTypeOK, OptionsOk
    PROVE  /\ ConfigTypeOK'
           /\ cfg'.users = cfg.users /\ cfg'.settings["allow_subnets"] = Join(ranges, ",")
           /\ cfg'.settings["client_ca"] = cfg.settings["client_ca"]
           /\ \A k \in Controls : cfg'.settings[k] = Value(k, controls[k])
<1>1. cfg \in Configurations /\ ranges \in Seq(Text) /\ controls \in [Controls -> Text]
    BY DEF ConfigTypeOK, OptionsOk
<1>. DEFINE settings == cfg.settings
            Field(s) == CASE s = "allow_subnets" -> Join(ranges, ",")
                          [] s = "client_ca" -> settings[s]
                          [] OTHER -> Value(s, controls[s])
            left == [s \in DOMAIN settings |-> Field(s)]
<1>2. /\ settings \in AllSettings /\ DOMAIN settings = ToSet(Settings)
      /\ \A s \in ToSet(Settings) : settings[s] \in SettingValues(s)
    BY <1>1 DEF Configurations, AllSettings
<1>3. /\ "allow_subnets" \in ToSet(Settings) /\ "client_ca" \in ToSet(Settings)
      /\ "allow_subnets" \notin Numbers
    <2>1. /\ Settings[4] = "allow_subnets" /\ 4 \in DOMAIN Settings
          /\ Settings[7] = "client_ca" /\ 7 \in DOMAIN Settings
        BY DEF Settings
    <2>2. "allow_subnets" \notin Numbers BY DEF Numbers
    <2>. QED BY <2>1, <2>2 DEF ToSet
<1>4. Save([cfg EXCEPT !.settings = left])
    <2>1. OptionsOk => Save([cfg EXCEPT !.settings = [k \in DOMAIN @ |->
              CASE k = "allow_subnets" -> Join(ranges, ",")
                [] k = "client_ca" -> @[k]
                [] OTHER -> Value(k, controls[k])]]) BY DEF OptionsOk
    <2>. QED BY <2>1
<1>5. left \in AllSettings
    <2>1. ASSUME NEW s \in ToSet(Settings) PROVE Field(s) \in SettingValues(s)
        <3>1. CASE s = "allow_subnets"
            <4>1. "," \in Atoms BY TextAssumption DEF TextAssumption
            <4>2. Join(ranges, ",") \in Text BY <1>1, <4>1, JoinText
            <4>3. Join(ranges, ",") \in SettingValues(s) BY <1>3, <3>1, <4>2 DEF SettingValues
            <4>. QED BY <3>1, <4>3
        <3>2. CASE s = "client_ca"
            <4>1. s # "allow_subnets" BY <3>2
            <4>2. Field(s) = settings[s] BY <3>2, <4>1
            <4>. QED BY <1>2, <4>2
        <3>3. CASE s # "allow_subnets" /\ s # "client_ca"
            <4>1. s \in Controls BY <3>3 DEF Controls
            <4>2. controls[s] \in Text BY <1>1, <4>1
            <4>3. Field(s) = Value(s, controls[s]) BY <3>3
            <4>. HIDE DEF Field
            <4>. QED BY <4>2, <4>3, ValueFits
        <3>. HIDE DEF Field
        <3>. QED BY <3>1, <3>2, <3>3
    <2>. HIDE DEF Field, settings
    <2>2. DOMAIN left = ToSet(Settings) /\ \A s \in ToSet(Settings) : left[s] \in SettingValues(s)
        BY <1>2, <2>1
    <2>3. left \in [ToSet(Settings) -> UNION {SettingValues(s) : s \in ToSet(Settings)}] BY <1>2, <2>1
    <2>. HIDE DEF left
    <2>. QED BY <2>2, <2>3 DEF AllSettings
<1>6. /\ left["allow_subnets"] = Join(ranges, ",") /\ left["client_ca"] = settings["client_ca"]
      /\ \A k \in Controls : left[k] = Value(k, controls[k])
    <2>1. Field("allow_subnets") = Join(ranges, ",") OBVIOUS
    <2>2. Field("client_ca") = settings["client_ca"] OBVIOUS
    <2>3. \A k \in Controls : k \in ToSet(Settings) /\ Field(k) = Value(k, controls[k]) BY DEF Controls
    <2>. HIDE DEF Field, settings
    <2>4. \A s \in ToSet(Settings) : left[s] = Field(s) BY <1>2
    <2>. HIDE DEF left
    <2>. QED BY <1>3, <2>1, <2>2, <2>3, <2>4
<1>. HIDE DEF left
<1>7. cfg' = [cfg EXCEPT !.settings = left] BY <1>4 DEF Save
<1>8. cfg'.users = cfg.users /\ cfg'.settings = left BY <1>1, <1>7 DEF Configurations
<1>9. [cfg EXCEPT !.settings = left] \in Configurations BY <1>1, <1>5 DEF Configurations
<1>10. ConfigTypeOK' BY <1>4, <1>9, SaveStays
<1>. QED BY <1>6, <1>8, <1>10

\* An edit of the working copy of the users.
LEMMA WorkingStays ==
    ASSUME ConfigTypeOK, NEW known \in Seq(Records), NEW name \in Text, EditUser(known, name)
    PROVE  ConfigTypeOK'
BY DEF ConfigTypeOK, EditUser, Edit

\* What the Users dialog makes of its working copy.
LEMMA UserEdits ==
    ASSUME ConfigTypeOK
    PROVE  /\ \A name \in TypedNames, hash \in TypedHashes :
                 /\ name \in Text
                 /\ [username |-> name, argon2Hash |-> hash, rights |-> {}] \in Records
           /\ \A i \in DOMAIN working : working[i] \in Records /\ working[i].username \in Text
           /\ \A i \in DOMAIN working, r \in ToSet(Rights) :
                 LET u == [working[i] EXCEPT !.rights = (@ \ {r}) \cup ({r} \ @)]
                 IN  u \in Records /\ u.username = working[i].username
<1>1. working \in Seq(Records) BY DEF ConfigTypeOK
<1>2. ASSUME NEW i \in DOMAIN working PROVE working[i] \in Records BY <1>1
<1>3. \A u \in Records : u.username \in Text BY DEF Records
<1>4. ASSUME NEW u \in Records, NEW r \in ToSet(Rights)
      PROVE  LET v == [u EXCEPT !.rights = (@ \ {r}) \cup ({r} \ @)]
             IN  v \in Records /\ v.username = u.username
    BY DEF Records
<1>5. \A name \in TypedNames, hash \in TypedHashes :
          name \in Text /\ [username |-> name, argon2Hash |-> hash, rights |-> {}] \in Records
    BY TextAssumption DEF TextAssumption, Records
<1>. QED BY <1>2, <1>3, <1>4, <1>5

\* The file stays a file and cfg_ a configuration, and so do the working copies.
LEMMA ConfigInductive == ConfigSpec => []ConfigTypeOK
<1>. DEFINE Copies == [names : SUBSET Text, keys : SUBSET Controls, ranges : SUBSET Text]
<1>0. <<>> \in Seq(Records) /\ <<>> \in Seq(Text) /\ Untouched \in Copies BY DEF Untouched
<1>1. ConfigInit => ConfigTypeOK
    <2>. SUFFICES ASSUME ConfigInit PROVE ConfigTypeOK
        OBVIOUS
    <2>. QED BY <1>0, DefaultSettings DEF ConfigInit, ConfigTypeOK, Configurations
<1>2. ConfigTypeOK /\ [ConfigNext]_configVars => ConfigTypeOK'
    <2>. SUFFICES ASSUME ConfigTypeOK, [ConfigNext]_configVars PROVE ConfigTypeOK'
        OBVIOUS
    <2>2. CASE WriteLine
        <3>1. PICK line \in Lines : text' = Append(text, line) BY <2>2 DEF WriteLine
        <3>2. line \in Text BY TextAssumption DEF TextAssumption
        <3>3. text \in Seq(Text) BY <2>2 DEF WriteLine, ConfigTypeOK
        <3>4. text' \in Seq(Text) BY <3>1, <3>2, <3>3
        <3>. QED BY <2>2, <3>4 DEF WriteLine, ConfigTypeOK, dialogVars
    <2>3. CASE Load
        <3>1. Parse(text) \in Configurations BY <2>3, ParseType DEF Load, ConfigTypeOK
        <3>. QED BY <2>3, <3>1 DEF Load, ConfigTypeOK, dialogVars
    <2>4. CASE Propose
        <3>1. "allow_subnets" \in ToSet(Settings) /\ FirstRange \in SettingValues("allow_subnets")
            <4>1. Settings[4] = "allow_subnets" /\ 4 \in DOMAIN Settings BY DEF Settings
            <4>2. "allow_subnets" \notin Numbers BY DEF Numbers
            <4>. QED BY <4>1, <4>2, TextAssumption DEF ToSet, SettingValues, TextAssumption
        <3>2. [Default EXCEPT !["allow_subnets"] = FirstRange] \in AllSettings
            BY <3>1, DefaultSettings, SettingsChange
        <3>3. cfg' \in Configurations BY <1>0, <2>4, <3>2 DEF Propose, Configurations
        <3>. QED BY <2>4, <3>3 DEF Propose, ConfigTypeOK, dialogVars
    <2>5. CASE Exit
        <3>1. cfg' \in Configurations BY <1>0, <2>5, DefaultSettings DEF Exit, Configurations
        <3>. QED BY <1>0, <2>5, <3>1 DEF Exit, Close, ConfigTypeOK
    <2>6. CASE OpenOptions
        <3>1. controls' \in [Controls -> Text]
            <4>1. \A k \in Controls : cfg.settings[k] \in SettingValues(k)
                BY DEF Controls, ConfigTypeOK, Configurations, AllSettings
            <4>2. \A k \in Controls : Written(k, cfg.settings[k]) \in Text BY <4>1, WrittenText
            <4>. QED BY <2>6, <4>2 DEF OpenOptions
        <3>2. ranges' \in Seq(Text)
            <4>1. cfg.settings["allow_subnets"] \in Text BY ListText DEF ConfigTypeOK
            <4>. QED BY <2>6, <4>1, SplitText DEF OpenOptions, Pieces
        <3>. QED BY <2>6, <3>1, <3>2 DEF OpenOptions, ConfigTypeOK
    <2>7. CASE Type
        <3>1. PICK k \in DOMAIN Typed : \E s \in Typed[k] :
                  /\ controls' = [controls EXCEPT ![k] = s]
                  /\ touched' = [touched EXCEPT !.keys = @ \cup {k}]
            BY <2>7 DEF Type
        <3>2. PICK s \in Typed[k] : controls' = [controls EXCEPT ![k] = s] BY <3>1
        <3>3. k \in Controls /\ s \in Text BY TextAssumption DEF TextAssumption
        <3>4. controls \in [Controls -> Text] /\ touched \in Copies BY <2>7 DEF Type, Edit, ConfigTypeOK
        <3>5. controls' \in [Controls -> Text] BY <3>2, <3>3, <3>4
        <3>6. touched' \in Copies BY <3>1, <3>3, <3>4
        <3>. QED BY <2>7, <3>5, <3>6 DEF Type, Edit, ConfigTypeOK
    <2>8. CASE AddRange
        <3>1. PICK r \in TypedRanges : ranges' = Append(ranges, r) BY <2>8 DEF AddRange
        <3>2. r \in Text BY TextAssumption DEF TextAssumption
        <3>3. ranges' \in Seq(Text) BY <3>1, <3>2 DEF ConfigTypeOK
        <3>. QED BY <2>8, <3>3 DEF AddRange, Edit, ConfigTypeOK
    <2>9. CASE RemoveRange
        <3>1. PICK i \in DOMAIN ranges : /\ ranges' = RemoveAt(ranges, i)
                                         /\ touched' = [touched EXCEPT !.ranges = @ \cup {ranges[i]}]
            BY <2>9 DEF RemoveRange
        <3>2. ranges[i] \in Text /\ ranges' \in Seq(Text) BY <3>1, RemovedFrom DEF ConfigTypeOK
        <3>3. touched \in Copies BY DEF ConfigTypeOK
        <3>4. touched' \in Copies BY <3>1, <3>2, <3>3
        <3>. QED BY <2>9, <3>2, <3>4 DEF RemoveRange, Edit, ConfigTypeOK
    <2>10. CASE OptionsOk BY <2>10, OptionsStay
    <2>11. CASE OpenUsers BY <2>11 DEF OpenUsers, ConfigTypeOK, Configurations
    <2>12. CASE ClickAdd
        <3>1. PICK name \in TypedNames, hash \in TypedHashes :
                  EditUser(Append(working, [username |-> name, argon2Hash |-> hash, rights |-> {}]), name)
            BY <2>12 DEF ClickAdd
        <3>2. PICK u : u = [username |-> name, argon2Hash |-> hash, rights |-> {}] OBVIOUS
        <3>3. u \in Records /\ name \in Text BY <3>2, UserEdits
        <3>4. Append(working, u) \in Seq(Records) BY <3>3 DEF ConfigTypeOK
        <3>5. EditUser(Append(working, u), name) BY <3>1, <3>2
        <3>. QED BY <3>3, <3>4, <3>5, WorkingStays
    <2>13. CASE ClickRemove
        <3>1. PICK i \in DOMAIN working : EditUser(RemoveAt(working, i), working[i].username) BY <2>13 DEF ClickRemove
        <3>2. RemoveAt(working, i) \in Seq(Records) BY RemovedFrom DEF ConfigTypeOK
        <3>. QED BY <3>1, <3>2, UserEdits, WorkingStays
    <2>14. CASE ClickRight
        <3>1. PICK i \in DOMAIN working, r \in ToSet(Rights) :
                  EditUser([working EXCEPT ![i].rights = (@ \ {r}) \cup ({r} \ @)], working[i].username)
            BY <2>14 DEF ClickRight
        <3>2. PICK u : u = [working[i] EXCEPT !.rights = (@ \ {r}) \cup ({r} \ @)] OBVIOUS
        <3>3. EditUser([working EXCEPT ![i] = u], working[i].username) BY <3>1, <3>2
        <3>4. u \in Records BY <3>2, UserEdits
        <3>5. [working EXCEPT ![i] = u] \in Seq(Records) BY <3>4 DEF ConfigTypeOK
        <3>. QED BY <3>3, <3>5, UserEdits, WorkingStays
    <2>15. CASE UsersOk
        <3>1. [cfg EXCEPT !.users = working] \in Configurations BY DEF ConfigTypeOK, Configurations
        <3>. QED BY <2>15, <3>1, SaveStays DEF UsersOk
    <2>16. CASE Cancel BY <1>0, <2>16 DEF Cancel, Close, ConfigTypeOK
    <2>17. CASE UNCHANGED configVars BY <2>17 DEF configVars, ConfigTypeOK
    <2>. QED BY <2>2, <2>3, <2>4, <2>5, <2>6, <2>7, <2>8, <2>9, <2>10, <2>11, <2>12, <2>13, <2>14, <2>15,
                <2>16, <2>17 DEF ConfigNext
<1>. QED BY <1>1, <1>2, PTL DEF ConfigSpec

\* run() with SubnetFilter: whatever file was written by hand and whatever the
\* dialogs made of it, a peer gets past the filter exactly if one entry of the
\* configured list is well formed and the peer has its leading bits.
THEOREM FilterCorrect == ConfigSpec => []FilterExact
<1>1. ConfigTypeOK => FilterExact
    <2>. SUFFICES ASSUME ConfigTypeOK PROVE FilterExact
        OBVIOUS
    <2>1. cfg \in Configurations BY DEF ConfigTypeOK
    <2>. QED BY <2>1, FilterOf DEF FilterExact
<1>. QED BY <1>1, ConfigInductive, PTL

-----------------------------------------------------------------------------
(* What one OK changes.                                                      *)

\* The entries of a configuration are what the pieces of its list stand for.
LEMMA EntriesOf ==
    ASSUME NEW c \in Configurations
    PROVE  LET pieces == Pieces(c.settings["allow_subnets"])
           IN  /\ c.settings["allow_subnets"] \in Text
               /\ pieces \in Seq(Text)
               /\ Len(Entries(c)) = Len(pieces) /\ DOMAIN Entries(c) = 1 .. Len(pieces)
               /\ \A i \in 1 .. Len(pieces) : Entries(c)[i] = Entry(pieces[i])
<1>. DEFINE pieces == Pieces(c.settings["allow_subnets"])
<1>2. c.settings["allow_subnets"] \in Text BY ListText
<1>3. pieces \in Seq(Text) BY <1>2, SplitText DEF Pieces
<1>4. Entries(c) = [i \in DOMAIN pieces |-> Entry(pieces[i])] BY DEF Entries
<1>5. Entries(c) \in Seq(FilterEntries) BY EntriesType
<1>. HIDE DEF pieces
<1>6. DOMAIN pieces = 1 .. Len(pieces) /\ Len(pieces) \in Nat BY <1>3
<1>7. DOMAIN Entries(c) = 1 .. Len(Entries(c)) /\ Len(Entries(c)) \in Nat BY <1>5
<1>8. DOMAIN Entries(c) = 1 .. Len(pieces) /\ \A i \in 1 .. Len(pieces) : Entries(c)[i] = Entry(pieces[i])
    BY <1>4, <1>6
<1>9. Len(Entries(c)) = Len(pieces)
    <2>1. \A m, n \in Nat : 1 .. m = 1 .. n => m = n
        <3>1. ASSUME NEW m \in Nat, NEW n \in Nat, 1 .. m = 1 .. n, m < n PROVE FALSE
            <4>1. n \in 1 .. n /\ n \notin 1 .. m BY <3>1
            <4>. QED BY <3>1, <4>1
        <3>2. ASSUME NEW m \in Nat, NEW n \in Nat, 1 .. m = 1 .. n PROVE m = n
            <4>1. ~ (m < n) /\ ~ (n < m) BY <3>1, <3>2
            <4>. QED BY <4>1
        <3>. QED BY <3>2
    <2>2. 1 .. Len(Entries(c)) = 1 .. Len(pieces) BY <1>7, <1>8
    <2>. QED BY <1>6, <1>7, <2>1, <2>2
<1>. QED BY <1>2, <1>3, <1>8, <1>9 DEF pieces

\* Who has an account: SecurityManager::addUser for each user in turn.
AccountOf(u) == [hash |-> u.argon2Hash, rights |-> u.rights]
AccountMaps == UNION {[D -> {AccountOf(u) : u \in Records}] : D \in SUBSET Text}
Adding(m, u) == IF u.argon2Hash = <<>> THEN m ELSE WithAccount(m, u)
Listed(known, j, name) == known[j].argon2Hash # <<>> /\ known[j].username = name

\* One account more, or other, leaves the rest as it is.
LEMMA AddingOne ==
    ASSUME NEW m \in AccountMaps, NEW u \in Records
    PROVE  /\ Adding(m, u) \in AccountMaps
           /\ u.argon2Hash # <<>> =>
                 /\ DOMAIN Adding(m, u) = {u.username} \cup DOMAIN m
                 /\ Adding(m, u)[u.username] = AccountOf(u)
                 /\ \A name \in DOMAIN m : name # u.username => Adding(m, u)[name] = m[name]
<1>1. PICK D \in SUBSET Text : m \in [D -> {AccountOf(v) : v \in Records}] BY DEF AccountMaps
<1>2. u.username \in Text BY DEF Records
<1>3. AccountOf(u) \in {AccountOf(v) : v \in Records} OBVIOUS
<1>. DEFINE w == [name \in {u.username} \cup D |-> IF name = u.username THEN AccountOf(u) ELSE m[name]]
<1>4. WithAccount(m, u) = w BY <1>1 DEF WithAccount, AccountOf
<1>5. w \in [{u.username} \cup D -> {AccountOf(v) : v \in Records}] /\ {u.username} \cup D \in SUBSET Text
    BY <1>1, <1>2, <1>3
<1>6. w \in AccountMaps BY <1>5 DEF AccountMaps
<1>7. Adding(m, u) = IF u.argon2Hash = <<>> THEN m ELSE w BY <1>4 DEF Adding
<1>. QED BY <1>1, <1>6, <1>7

\* The accounts after each user, and that they are those of the last user of a
\* name who has a password.
LEMMA AccountsOf ==
    ASSUME NEW c \in Configurations
    PROVE  /\ Accounts(c) \in AccountMaps
           /\ \A name :
                /\ name \in DOMAIN Accounts(c) <=> \E j \in 1 .. Len(c.users) : Listed(c.users, j, name)
                /\ \A j \in 1 .. Len(c.users) :
                      Listed(c.users, j, name) /\ (\A k \in j + 1 .. Len(c.users) : ~Listed(c.users, k, name))
                          => Accounts(c)[name] = AccountOf(c.users[j])
<1>. DEFINE known == c.users
            N == Len(known)
            Made(f) == f = [n \in 0 .. N |-> IF n = 0 THEN <<>> ELSE Adding(f[n - 1], known[n])]
            g == [n \in 1 .. N |-> [m \in AccountMaps |-> Adding(m, known[n])]]
            made == CHOOSE f : Made(f)
<1>1. known \in Seq(Records) BY DEF Configurations
<1>2. Accounts(c) = made[N] BY DEF Accounts, Adding
<1>. HIDE DEF known, made
<1>3. N \in Nat /\ \A n \in 1 .. N : known[n] \in Records BY <1>1
<1>4. <<>> \in AccountMaps /\ DOMAIN <<>> = {}
    <2>1. {} \in SUBSET Text /\ DOMAIN <<>> = {} OBVIOUS
    <2>2. <<>> \in [{} -> {AccountOf(u) : u \in Records}] OBVIOUS
    <2>. QED BY <2>1, <2>2 DEF AccountMaps
<1>5. \A n \in 1 .. N : \A m \in AccountMaps : g[n][m] = Adding(m, known[n]) OBVIOUS
<1>. HIDE DEF N, g
<1>6. \A n \in 1 .. N : \A m \in AccountMaps : g[n][m] \in AccountMaps BY <1>3, <1>5, AddingOne
<1>7. PICK f \in [0 .. N -> AccountMaps] : MadeBy(f, <<>>, N, g) BY <1>3, <1>4, <1>6, StepsExist
<1>8. f[0] = <<>> /\ \A n \in 1 .. N : f[n] = g[n][f[n - 1]] BY <1>7 DEF MadeBy
<1>9. \A n \in 0 .. N : f[n] = IF n = 0 THEN <<>> ELSE Adding(f[n - 1], known[n])
    <2>1. TAKE n \in 0 .. N
    <2>2. n # 0 => n \in 1 .. N /\ n - 1 \in 0 .. N BY <1>3
    <2>. QED BY <1>5, <1>8, <2>2
<1>10. Made(made) BY <1>9 DEF made
<1>11. \A n \in 0 .. N : made[n] = IF n = 0 THEN <<>> ELSE Adding(made[n - 1], known[n]) BY <1>10
<1>12. made[0] = <<>> /\ \A n \in 1 .. N : made[n] = Adding(made[n - 1], known[n]) BY <1>3, <1>11
<1>13. \A n \in 0 .. N : made[n] \in AccountMaps
    <2>1. ASSUME NEW n \in 1 .. N, made[n - 1] \in AccountMaps PROVE made[n] \in AccountMaps
        BY <1>3, <1>12, <2>1, AddingOne
    <2>2. made[0] \in AccountMaps /\ N \in Nat BY <1>3, <1>4, <1>12
    <2>. QED BY <2>1, <2>2, StepsStay
<1>14. ASSUME NEW name
       PROVE  /\ name \in DOMAIN made[N] <=> \E j \in 1 .. N : Listed(known, j, name)
              /\ \A j \in 1 .. N :
                    Listed(known, j, name) /\ (\A k \in j + 1 .. N : ~Listed(known, k, name))
                        => made[N][name] = AccountOf(known[j])
    <2>. DEFINE Fine(n) ==
                    /\ name \in DOMAIN made[n] <=> \E j \in 1 .. n : Listed(known, j, name)
                    /\ \A j \in 1 .. n :
                          Listed(known, j, name) /\ (\A k \in j + 1 .. n : ~Listed(known, k, name))
                              => made[n][name] = AccountOf(known[j])
                T == {n \in Nat : n <= N => Fine(n)}
    <2>1. 0 \in T
        <3>1. \A j \in 1 .. 0 : FALSE OBVIOUS
        <3>2. DOMAIN made[0] = {} BY <1>4, <1>12
        <3>. QED BY <3>1, <3>2
    <2>2. ASSUME NEW n \in Nat, n \in T PROVE n + 1 \in T
        <3>. SUFFICES ASSUME n + 1 <= N PROVE Fine(n + 1)
            OBVIOUS
        <3>1. Fine(n) BY <1>3, <2>2
        <3>2. n \in 0 .. N /\ n + 1 \in 1 .. N /\ (n + 1) - 1 = n BY <1>3
        <3>3. PICK m \in AccountMaps : m = made[n] BY <1>13, <3>2
        <3>4. PICK u \in Records : u = known[n + 1] BY <1>3, <3>2
        <3>5. PICK w : w = made[n + 1] OBVIOUS
        <3>6. w = Adding(m, u) BY <1>12, <3>2, <3>3, <3>4, <3>5
        <3>7. \A j \in 1 .. n + 1 : j \in 1 .. n \/ j = n + 1 OBVIOUS
        <3>8. n + 1 \in 1 .. n + 1 /\ (\A j \in 1 .. n : j \in 1 .. n + 1 /\ n + 1 \in j + 1 .. n + 1)
            OBVIOUS
        <3>9. \A j \in 1 .. n : \A k \in j + 1 .. n : k \in j + 1 .. n + 1 OBVIOUS
        <3>10. Listed(known, n + 1, name) <=> u.argon2Hash # <<>> /\ u.username = name BY <3>4 DEF Listed
        <3>11. CASE Listed(known, n + 1, name)
            <4>1. DOMAIN w = {u.username} \cup DOMAIN m /\ w[name] = AccountOf(u) /\ u.username = name
                BY <3>6, <3>10, <3>11, AddingOne
            <4>2. name \in DOMAIN w /\ \E j \in 1 .. n + 1 : Listed(known, j, name) BY <3>8, <3>11, <4>1
            <4>3. \A j \in 1 .. n + 1 :
                      Listed(known, j, name) /\ (\A k \in j + 1 .. n + 1 : ~Listed(known, k, name))
                          => w[name] = AccountOf(known[j])
                BY <3>4, <3>7, <3>8, <3>11, <4>1
            <4>. QED BY <3>5, <4>2, <4>3
        <3>12. CASE ~Listed(known, n + 1, name)
            <4>1. (name \in DOMAIN w <=> name \in DOMAIN m) /\ (name \in DOMAIN m => w[name] = m[name])
                <5>1. CASE u.argon2Hash = <<>> BY <3>6, <5>1 DEF Adding
                <5>2. CASE u.argon2Hash # <<>>
                    <6>1. u.username # name BY <3>10, <3>12, <5>2
                    <6>2. /\ DOMAIN w = {u.username} \cup DOMAIN m
                          /\ \A x \in DOMAIN m : x # u.username => w[x] = m[x]
                        BY <3>6, <5>2, AddingOne
                    <6>. QED BY <6>1, <6>2
                <5>. QED BY <5>1, <5>2
            <4>2. name \in DOMAIN w <=> \E j \in 1 .. n + 1 : Listed(known, j, name)
                BY <3>1, <3>3, <3>7, <3>8, <3>12, <4>1
            <4>3. ASSUME NEW j \in 1 .. n + 1, Listed(known, j, name),
                         \A k \in j + 1 .. n + 1 : ~Listed(known, k, name)
                  PROVE  w[name] = AccountOf(known[j])
                <5>1. j \in 1 .. n BY <3>7, <3>12, <4>3
                <5>2. \A k \in j + 1 .. n : ~Listed(known, k, name) BY <3>9, <4>3, <5>1
                <5>3. m[name] = AccountOf(known[j]) /\ name \in DOMAIN m BY <3>1, <3>3, <4>3, <5>1, <5>2
                <5>. QED BY <4>1, <5>3
            <4>4. \A j \in 1 .. n + 1 :
                      Listed(known, j, name) /\ (\A k \in j + 1 .. n + 1 : ~Listed(known, k, name))
                          => w[name] = AccountOf(known[j])
                BY <4>3
            <4>. QED BY <3>5, <4>2, <4>4
        <3>. QED BY <3>11, <3>12
    <2>. HIDE DEF T
    <2>3. N \in T BY <1>3, <2>1, <2>2, Counting
    <2>4. Fine(N) BY <1>3, <2>3 DEF T
    <2>. QED BY <2>4
<1>15. N \in 0 .. N BY <1>3
<1>. QED BY <1>2, <1>13, <1>14, <1>15 DEF known, N

\* A name stands for the same account, or for none, in both configurations.
Agree(c, d, name) ==
    /\ name \in DOMAIN Accounts(c) <=> name \in DOMAIN Accounts(d)
    /\ name \in DOMAIN Accounts(c) => Accounts(c)[name] = Accounts(d)[name]

\* If the users of a name who have a password are the same and stand in the
\* same order in two lists, the name stands for the same in both.
LEMMA SameUsersAgree ==
    ASSUME NEW c \in Configurations, NEW d \in Configurations, NEW name, NEW place,
           \A j \in 1 .. Len(d.users) : Listed(d.users, j, name) =>
               /\ place[j] \in 1 .. Len(c.users) /\ Listed(c.users, place[j], name)
               /\ AccountOf(c.users[place[j]]) = AccountOf(d.users[j]),
           \A i \in 1 .. Len(c.users) : Listed(c.users, i, name) =>
               \E j \in 1 .. Len(d.users) : Listed(d.users, j, name) /\ place[j] = i,
           \A j, k \in 1 .. Len(d.users) : j < k => place[j] < place[k]
    PROVE  Agree(c, d, name)
<1>. DEFINE M == Len(c.users)
            N == Len(d.users)
            I == {j \in 1 .. N : Listed(d.users, j, name)}
<1>1. M \in Nat /\ N \in Nat BY DEF Configurations
<1>2. name \in DOMAIN Accounts(c) <=> \E i \in 1 .. M : Listed(c.users, i, name) BY AccountsOf
<1>3. name \in DOMAIN Accounts(d) <=> \E j \in 1 .. N : Listed(d.users, j, name) BY AccountsOf
<1>4. name \in DOMAIN Accounts(c) <=> name \in DOMAIN Accounts(d) BY <1>2, <1>3
<1>5. ASSUME name \in DOMAIN Accounts(c) PROVE Accounts(c)[name] = Accounts(d)[name]
    <2>1. I # {} /\ \A j \in I : j \in Int /\ j <= N BY <1>1, <1>3, <1>4, <1>5
    <2>. HIDE DEF I
    <2>2. PICK last \in I : \A j \in I : j <= last
        <3>. DEFINE back == {N - j : j \in I}
        <3>1. back \subseteq Nat /\ back # {} BY <1>1, <2>1
        <3>2. PICK n \in back : \A m \in back : n <= m BY <3>1, LeastNumber
        <3>3. PICK j \in I : n = N - j BY <3>2
        <3>4. \A k \in I : k <= j
            <4>1. TAKE k \in I
            <4>2. n <= N - k BY <3>2
            <4>. QED BY <1>1, <2>1, <3>3, <4>2
        <3>. QED BY <3>4
    <2>3. last \in 1 .. N /\ Listed(d.users, last, name) BY DEF I
    <2>4. \A k \in last + 1 .. N : ~Listed(d.users, k, name)
        <3>1. ASSUME NEW k \in last + 1 .. N, Listed(d.users, k, name) PROVE FALSE
            <4>1. k \in 1 .. N /\ ~ (k <= last) BY <1>1, <2>3
            <4>2. k \in I BY <3>1, <4>1 DEF I
            <4>. QED BY <2>2, <4>1, <4>2
        <3>. QED BY <3>1
    <2>5. Accounts(d)[name] = AccountOf(d.users[last]) BY <2>3, <2>4, AccountsOf
    <2>. DEFINE first == place[last]
    <2>6. /\ first \in 1 .. M /\ Listed(c.users, first, name)
          /\ AccountOf(c.users[first]) = AccountOf(d.users[last])
        BY <2>3
    <2>7. ASSUME NEW i \in first + 1 .. M, Listed(c.users, i, name) PROVE FALSE
        <3>1. i \in 1 .. M /\ first < i BY <1>1, <2>6
        <3>2. PICK j \in 1 .. N : Listed(d.users, j, name) /\ place[j] = i BY <2>7, <3>1
        <3>3. j <= last BY <2>2, <3>2 DEF I
        <3>4. j < last => place[j] < place[last] BY <2>3
        <3>5. j = last \/ j < last BY <1>1, <2>3, <3>3
        <3>6. CASE j = last BY <1>1, <2>6, <3>1, <3>2, <3>6
        <3>7. CASE j < last
            <4>1. i < first BY <3>2, <3>4, <3>7
            <4>. QED BY <1>1, <2>6, <3>1, <4>1
        <3>. QED BY <3>5, <3>6, <3>7
    <2>8. Accounts(c)[name] = AccountOf(c.users[first])
        <3>. HIDE DEF first
        <3>1. \A i \in first + 1 .. M : ~Listed(c.users, i, name) BY <2>7
        <3>. QED BY <2>6, <3>1, AccountsOf
    <2>. QED BY <2>5, <2>6, <2>8
<1>. QED BY <1>4, <1>5 DEF Agree

\* A user added to a list leaves all other names as they were.
LEMMA AddedAgrees ==
    ASSUME NEW other, NEW c \in Configurations, NEW d \in Configurations, NEW u \in Records,
           d.users = Append(c.users, u), other # u.username
    PROVE  Agree(c, d, other)
<1>. DEFINE M == Len(c.users)
            N == Len(d.users)
            place == [j \in 1 .. N |-> j]
<1>1. M \in Nat /\ c.users \in Seq(Records) BY DEF Configurations
<1>2. /\ N = M + 1 /\ d.users[N] = u
      /\ \A j \in 1 .. M : d.users[j] = c.users[j]
    BY <1>1, AppendProperties
<1>3. ~Listed(d.users, N, other) BY <1>2 DEF Listed
<1>4. \A j \in 1 .. N : j \in 1 .. M \/ j = N BY <1>1, <1>2
<1>5. \A j \in 1 .. M : Listed(d.users, j, other) <=> Listed(c.users, j, other) BY <1>2 DEF Listed
<1>. HIDE DEF M, N
<1>6. \A j \in 1 .. N : Listed(d.users, j, other) =>
          /\ place[j] \in 1 .. M /\ Listed(c.users, place[j], other)
          /\ AccountOf(c.users[place[j]]) = AccountOf(d.users[j])
    BY <1>2, <1>3, <1>4, <1>5
<1>7. \A i \in 1 .. M : Listed(c.users, i, other) => \E j \in 1 .. N : Listed(d.users, j, other) /\ place[j] = i
    BY <1>1, <1>2, <1>5
<1>8. \A j, k \in 1 .. N : j < k => place[j] < place[k] OBVIOUS
<1>. HIDE DEF place
<1>. QED BY <1>6, <1>7, <1>8, SameUsersAgree DEF M, N

\* And so does a user who is taken off it.
LEMMA RemovedAgrees ==
    ASSUME NEW other, NEW c \in Configurations, NEW d \in Configurations, NEW i \in DOMAIN c.users,
           d.users = RemoveAt(c.users, i), other # c.users[i].username
    PROVE  Agree(c, d, other)
<1>. DEFINE M == Len(c.users)
            N == Len(d.users)
            place == [j \in 1 .. N |-> IF j < i THEN j ELSE j + 1]
<1>1. M \in Nat /\ c.users \in Seq(Records) BY DEF Configurations
<1>2. /\ N = M - 1 /\ i \in 1 .. M
      /\ \A j \in 1 .. N : d.users[j] = c.users[IF j < i THEN j ELSE j + 1]
    BY <1>1, RemovedIs
<1>3. ~Listed(c.users, i, other) BY DEF Listed
<1>. HIDE DEF M, N
<1>4. \A j \in 1 .. N : place[j] = (IF j < i THEN j ELSE j + 1) /\ place[j] \in 1 .. M BY <1>1, <1>2
<1>5. \A j \in 1 .. N : d.users[j] = c.users[place[j]] BY <1>2
<1>6. \A j, k \in 1 .. N : j < k => place[j] < place[k] BY <1>1, <1>2
<1>7. \A m \in 1 .. M : m # i => \E j \in 1 .. N : place[j] = m
    <2>1. TAKE m \in 1 .. M
    <2>2. CASE m < i
        <3>1. m \in 1 .. N BY <1>1, <1>2, <2>2
        <3>. QED BY <2>2, <3>1
    <2>3. CASE i < m
        <3>1. m - 1 \in 1 .. N /\ ~ (m - 1 < i) /\ (m - 1) + 1 = m BY <1>1, <1>2, <2>3
        <3>2. place[m - 1] = m BY <1>4, <3>1
        <3>. QED BY <3>1, <3>2
    <2>4. m = i \/ m < i \/ i < m
        <3>1. m \in Int /\ i \in Int BY <1>1, <1>2
        <3>. QED BY <3>1
    <2>. HIDE DEF place
    <2>. QED BY <2>2, <2>3, <2>4
<1>. HIDE DEF place
<1>8. \A j \in 1 .. N : Listed(d.users, j, other) =>
          /\ place[j] \in 1 .. M /\ Listed(c.users, place[j], other)
          /\ AccountOf(c.users[place[j]]) = AccountOf(d.users[j])
    BY <1>4, <1>5 DEF Listed
<1>9. \A m \in 1 .. M : Listed(c.users, m, other) => \E j \in 1 .. N : Listed(d.users, j, other) /\ place[j] = m
    <2>1. ASSUME NEW m \in 1 .. M, Listed(c.users, m, other)
          PROVE  \E j \in 1 .. N : Listed(d.users, j, other) /\ place[j] = m
        <3>1. m # i BY <1>3, <2>1
        <3>2. PICK j \in 1 .. N : place[j] = m BY <1>7, <3>1
        <3>3. d.users[j] = c.users[m] BY <1>5, <3>2
        <3>4. Listed(d.users, j, other) BY <2>1, <3>3 DEF Listed
        <3>. QED BY <3>2, <3>4
    <2>. QED BY <2>1
<1>. QED BY <1>6, <1>8, <1>9, SameUsersAgree DEF M, N

\* And so does a user who is changed and keeps his name.
LEMMA ChangedAgrees ==
    ASSUME NEW other, NEW c \in Configurations, NEW d \in Configurations, NEW i \in DOMAIN c.users,
           NEW u \in Records, d.users = [c.users EXCEPT ![i] = u],
           u.username = c.users[i].username, other # u.username
    PROVE  Agree(c, d, other)
<1>. DEFINE M == Len(c.users)
            N == Len(d.users)
            place == [j \in 1 .. N |-> j]
<1>1. M \in Nat /\ c.users \in Seq(Records) /\ i \in 1 .. M BY DEF Configurations
<1>2. /\ N = M /\ d.users[i] = u
      /\ \A j \in 1 .. M : j # i => d.users[j] = c.users[j]
    BY <1>1
<1>3. ~Listed(d.users, i, other) /\ ~Listed(c.users, i, other) BY <1>2 DEF Listed
<1>4. \A j \in 1 .. M : Listed(d.users, j, other) <=> Listed(c.users, j, other) BY <1>2, <1>3 DEF Listed
<1>. HIDE DEF M, N
<1>5. \A j \in 1 .. N : Listed(d.users, j, other) =>
          /\ place[j] \in 1 .. M /\ Listed(c.users, place[j], other)
          /\ AccountOf(c.users[place[j]]) = AccountOf(d.users[j])
    BY <1>2, <1>3, <1>4
<1>6. \A m \in 1 .. M : Listed(c.users, m, other) => \E j \in 1 .. N : Listed(d.users, j, other) /\ place[j] = m
    BY <1>2, <1>4
<1>7. \A j, k \in 1 .. N : j < k => place[j] < place[k] OBVIOUS
<1>. HIDE DEF place
<1>. QED BY <1>5, <1>6, <1>7, SameUsersAgree DEF M, N

-----------------------------------------------------------------------------
(* The working copies of the dialogs.                                        *)

\* The configuration, if the Users dialog were left now.
Edited(list) == [cfg EXCEPT !.users = list]

\* What nobody touched since a dialog opened is in its working copy as it is in cfg_.
WorkingCopies ==
    /\ dialog # "none" => up
    /\ dialog = "none" => touched = Untouched
    /\ dialog = "options" =>
          /\ \A k \in Controls \ touched.keys : controls[k] = Written(k, cfg.settings[k])
          /\ ToSet(Pieces(cfg.settings["allow_subnets"])) \ touched.ranges \subseteq ToSet(ranges)
    /\ dialog = "users" => \A name : name \notin touched.names => Agree(cfg, Edited(working), name)

\* An edit of the users that leaves all names but one keeps it so.
LEMMA EditKeepsCopy ==
    ASSUME ConfigTypeOK, WorkingCopies, NEW known, NEW name, EditUser(known, name),
           \A other : other # name => Agree(Edited(working), Edited(known), other)
    PROVE  WorkingCopies'
<1>1. /\ dialog = "users" /\ dialog' = "users" /\ up' = up /\ cfg' = cfg /\ working' = known
      /\ touched' = [touched EXCEPT !.names = @ \cup {name}]
    BY DEF EditUser, Edit
<1>2. touched'.names = touched.names \cup {name} BY <1>1 DEF ConfigTypeOK
<1>3. ASSUME NEW other, other \notin touched'.names PROVE Agree(cfg, Edited(known), other)
    <2>1. other \notin touched.names /\ other # name BY <1>2, <1>3
    <2>2. Agree(cfg, Edited(working), other) /\ Agree(Edited(working), Edited(known), other)
        BY <1>1, <2>1 DEF WorkingCopies
    <2>. QED BY <2>2 DEF Agree
<1>4. Edited(known) = Edited(working)' BY <1>1 DEF Edited
<1>5. \A other : other \notin touched'.names => Agree(cfg, Edited(working), other)'
    <2>1. ASSUME NEW other, other \notin touched'.names PROVE Agree(cfg, Edited(working), other)'
        <3>1. Agree(cfg', Edited(working)', other) BY <1>1, <1>3, <1>4, <2>1
        <3>. QED BY <3>1 DEF Agree
    <2>. QED BY <2>1
<1>. QED BY <1>1, <1>5 DEF WorkingCopies

\* Every step keeps the working copies true.
LEMMA CopiesKept ==
    ASSUME ConfigTypeOK, WorkingCopies, [ConfigNext]_configVars
    PROVE  WorkingCopies'
<1>0. /\ cfg \in Configurations /\ ranges \in Seq(Text) /\ working \in Seq(Records)
      /\ touched \in [names : SUBSET Text, keys : SUBSET Controls, ranges : SUBSET Text]
    BY DEF ConfigTypeOK
<1>1. CASE dialog = "none" /\ dialog' = "none" /\ touched' = touched BY <1>1 DEF WorkingCopies
<1>2. CASE Close BY <1>2 DEF Close, WorkingCopies
<1>3. CASE OpenOptions
    <2>1. /\ dialog' = "options" /\ up' /\ cfg' = cfg
          /\ controls' = [k \in Controls |-> Written(k, cfg.settings[k])]
          /\ ranges' = Pieces(cfg.settings["allow_subnets"])
        BY <1>3 DEF OpenOptions
    <2>. QED BY <2>1 DEF WorkingCopies
<1>4. CASE Type
    <2>1. PICK k \in DOMAIN Typed : \E s \in Typed[k] :
              /\ controls' = [controls EXCEPT ![k] = s]
              /\ touched' = [touched EXCEPT !.keys = @ \cup {k}]
        BY <1>4 DEF Type
    <2>2. PICK s \in Typed[k] : controls' = [controls EXCEPT ![k] = s] BY <2>1
    <2>3. /\ dialog = "options" /\ dialog' = "options" /\ up' = up /\ cfg' = cfg /\ ranges' = ranges
          /\ controls \in [Controls -> Text]
        BY <1>4 DEF Type, Edit, ConfigTypeOK
    <2>4. touched'.keys = touched.keys \cup {k} /\ touched'.ranges = touched.ranges BY <1>0, <2>1
    <2>5. \A j \in Controls \ touched'.keys : controls'[j] = Written(j, cfg.settings[j])
        BY <2>2, <2>3, <2>4 DEF WorkingCopies
    <2>. QED BY <2>3, <2>4, <2>5 DEF WorkingCopies
<1>5. CASE AddRange
    <2>1. PICK r \in TypedRanges : ranges' = Append(ranges, r) BY <1>5 DEF AddRange
    <2>2. r \in Text BY TextAssumption DEF TextAssumption
    <2>3. /\ dialog = "options" /\ dialog' = "options" /\ up' = up /\ cfg' = cfg
          /\ controls' = controls /\ touched' = touched
        BY <1>5 DEF AddRange, Edit
    <2>4. ToSet(ranges) \subseteq ToSet(ranges')
        <3>1. <<r>> \in Seq(Text) BY <2>2, OneWord
        <3>2. Append(ranges, r) = ranges \o <<r>> BY <1>0, <2>2, AppendIsConcat
        <3>3. ToSet(ranges \o <<r>>) = ToSet(ranges) \cup ToSet(<<r>>)
            <4>1. \A s, t \in Seq(Text) : ToSet(s \o t) = ToSet(s) \cup ToSet(t) BY SetOfConcat
            <4>. QED BY Zenon, <1>0, <3>1, <4>1
        <3>. QED BY <2>1, <3>2, <3>3
    <2>. QED BY <2>3, <2>4 DEF WorkingCopies
<1>6. CASE RemoveRange
    <2>1. PICK i \in DOMAIN ranges : /\ ranges' = RemoveAt(ranges, i)
                                     /\ touched' = [touched EXCEPT !.ranges = @ \cup {ranges[i]}]
        BY <1>6 DEF RemoveRange
    <2>2. /\ dialog = "options" /\ dialog' = "options" /\ up' = up /\ cfg' = cfg /\ controls' = controls
        BY <1>6 DEF RemoveRange, Edit
    <2>3. touched'.keys = touched.keys /\ touched'.ranges = touched.ranges \cup {ranges[i]} BY <1>0, <2>1
    <2>4. ToSet(ranges) \ {ranges[i]} \subseteq ToSet(ranges') BY <1>0, <2>1, RestOf
    <2>5. ToSet(Pieces(cfg.settings["allow_subnets"])) \ touched'.ranges \subseteq ToSet(ranges')
        BY <2>2, <2>3, <2>4 DEF WorkingCopies
    <2>. QED BY <2>2, <2>3, <2>5 DEF WorkingCopies
<1>7. CASE OpenUsers
    <2>1. /\ dialog' = "users" /\ up' /\ cfg' = cfg /\ working' = cfg.users
        BY <1>7 DEF OpenUsers
    <2>2. Edited(working)' = cfg BY <1>0, <2>1 DEF Edited, Configurations
    <2>3. \A name : Agree(cfg, cfg, name) BY DEF Agree
    <2>4. \A name : Agree(cfg, Edited(working), name)' BY <2>1, <2>2, <2>3 DEF Agree
    <2>. QED BY <2>1, <2>4 DEF WorkingCopies
<1>. DEFINE c == Edited(working)
<1>8. \A known \in Seq(Records) : Edited(known) \in Configurations /\ Edited(known).users = known
    BY <1>0 DEF Edited, Configurations
<1>9. c \in Configurations /\ c.users = working BY <1>0, <1>8
<1>10. CASE ClickAdd
    <2>1. PICK name \in TypedNames, hash \in TypedHashes :
              EditUser(Append(working, [username |-> name, argon2Hash |-> hash, rights |-> {}]), name)
        BY <1>10 DEF ClickAdd
    <2>2. PICK u : u = [username |-> name, argon2Hash |-> hash, rights |-> {}] OBVIOUS
    <2>3. u \in Records /\ u.username = name BY <2>2, UserEdits
    <2>4. PICK known : known = Append(working, u) OBVIOUS
    <2>5. EditUser(known, name) BY <2>1, <2>2, <2>4
    <2>6. known \in Seq(Records) BY <1>0, <2>3, <2>4
    <2>. HIDE DEF c
    <2>7. \A other : other # name => Agree(c, Edited(known), other)
        BY <1>8, <1>9, <2>3, <2>4, <2>6, AddedAgrees
    <2>. QED BY <2>5, <2>7, EditKeepsCopy DEF c
<1>11. CASE ClickRemove
    <2>1. PICK i \in DOMAIN working : EditUser(RemoveAt(working, i), working[i].username) BY <1>11 DEF ClickRemove
    <2>2. PICK known : known = RemoveAt(working, i) OBVIOUS
    <2>3. known \in Seq(Records) BY <1>0, <2>2, RemovedFrom
    <2>4. EditUser(known, working[i].username) BY <2>1, <2>2
    <2>. HIDE DEF c
    <2>5. \A other : other # working[i].username => Agree(c, Edited(known), other)
        BY <1>8, <1>9, <2>2, <2>3, RemovedAgrees
    <2>. QED BY <2>4, <2>5, EditKeepsCopy DEF c
<1>12. CASE ClickRight
    <2>1. PICK i \in DOMAIN working, r \in ToSet(Rights) :
              EditUser([working EXCEPT ![i].rights = (@ \ {r}) \cup ({r} \ @)], working[i].username)
        BY <1>12 DEF ClickRight
    <2>2. PICK u : u = [working[i] EXCEPT !.rights = (@ \ {r}) \cup ({r} \ @)] OBVIOUS
    <2>3. u \in Records /\ u.username = working[i].username BY <2>2, UserEdits
    <2>4. PICK known : known = [working EXCEPT ![i] = u] OBVIOUS
    <2>5. EditUser(known, u.username) BY <2>1, <2>2, <2>3, <2>4
    <2>6. known \in Seq(Records) BY <1>0, <2>3, <2>4
    <2>. HIDE DEF c
    <2>7. \A other : other # u.username => Agree(c, Edited(known), other)
        BY <1>8, <1>9, <2>3, <2>4, <2>6, ChangedAgrees
    <2>. QED BY <2>5, <2>7, EditKeepsCopy DEF c
<1>13. CASE UNCHANGED configVars BY <1>13 DEF configVars, WorkingCopies, Agree, Edited
<1>14. WriteLine \/ Load \/ Propose => dialog = "none" /\ dialog' = "none" /\ touched' = touched
    BY DEF WriteLine, Load, Propose, dialogVars, WorkingCopies
<1>15. Exit \/ OptionsOk \/ UsersOk \/ Cancel => Close BY DEF Exit, OptionsOk, UsersOk, Cancel, Save
<1>. QED BY <1>1, <1>2, <1>3, <1>4, <1>5, <1>6, <1>7, <1>10, <1>11, <1>12, <1>13, <1>14, <1>15 DEF ConfigNext

-----------------------------------------------------------------------------
(* What one OK changes.                                                      *)

\* A setting nobody typed over is served as it was: it is read back from the
\* text its control was given.
LEMMA ReadBack ==
    ASSUME NEW k \in ToSet(Settings), NEW v \in SettingValues(k)
    PROVE  LET w == Value(k, Written(k, v))
           IN  IF k \in Numbers THEN Min({w, IntMax}) = Min({v, IntMax}) ELSE w = v
<1>1. CASE k \notin Numbers BY <1>1 DEF Value, Written
<1>2. CASE k \in Numbers
    <2>. DEFINE fits == {n \in DOMAIN Numerals : <<Numerals[v]>> # <<>> /\ Numerals[n] = <<Numerals[v]>>[1]}
                W == Width(k)
    <2>1. /\ IntMax \in Int /\ IntMax >= 0 /\ Ints \in Int /\ W \in Int /\ W <= Ints
        BY ConfigAssumption DEF ConfigAssumption, IntMax, Width
    <2>2. v \in 0 .. W - 1 BY <1>2 DEF SettingValues
    <2>. HIDE DEF W
    <2>3. v \in -IntMax - 1 .. Ints - 1 BY <2>1, <2>2
    <2>4. <<Numerals[v]>> # <<>> /\ <<Numerals[v]>>[1] = Numerals[v] OBVIOUS
    <2>5. fits = {v} BY <2>3, <2>4, NumeralsAssumption DEF NumeralsAssumption
    <2>6. Atoi(<<Numerals[v]>>) = IF fits = {} THEN 0 ELSE Min(fits \cup {IntMax}) BY DEF Atoi
    <2>. HIDE DEF fits
    <2>7. \A m, n \in Int : Min({m, n}) = IF m <= n THEN m ELSE n BY LesserOf
    <2>8. Atoi(<<Numerals[v]>>) = Min({v, IntMax})
        <3>1. fits # {} /\ fits \cup {IntMax} = {v, IntMax} BY <2>5
        <3>. QED BY Zenon, <2>6, <3>1
    <2>9. PICK m : m = Min({v, IntMax}) OBVIOUS
    <2>10. m \in 0 .. W - 1 /\ m <= IntMax BY <2>1, <2>2, <2>7, <2>9
    <2>11. m % W = m BY <2>1, <2>10
    <2>12. Value(k, Written(k, v)) = m BY Zenon, <1>2, <2>8, <2>9, <2>11 DEF Value, Written, W
    <2>13. Min({m, IntMax}) = m BY <2>1, <2>7, <2>10
    <2>. QED BY <1>2, <2>9, <2>12, <2>13
<1>. QED BY <1>1, <1>2

\* After the Options dialog those are let in whom the ranges on its list cover.
LEMMA ListServed ==
    ASSUME ConfigTypeOK, ConfigTypeOK', WorkingCopies, OptionsOk
    PROVE  FilterAsEdited(Rules(cfg'))
<1>. DEFINE old == Pieces(cfg.settings["allow_subnets"])
            new == Pieces(cfg'.settings["allow_subnets"])
            listed == UNION {ToSet(Pieces(ranges[i])) : i \in DOMAIN ranges}
<1>1. cfg \in Configurations /\ cfg' \in Configurations /\ ranges \in Seq(Text) BY DEF ConfigTypeOK
<1>2. old \in Seq(Text) /\ \A i \in 1 .. Len(old) : Piece(old[i], {",", " "})
    BY <1>1, ListText, SplitText, SplitPieces DEF Pieces
<1>3. /\ new \in Seq(Text) /\ DOMAIN Entries(cfg') = 1 .. Len(new)
      /\ \A i \in 1 .. Len(new) : Entries(cfg')[i] = Entry(new[i])
    BY <1>1, EntriesOf
<1>4. ToSet(new) = listed
    <2>1. "," \in Atoms BY TextAssumption DEF TextAssumption
    <2>2. cfg'.settings["allow_subnets"] = Join(ranges, ",") BY OptionsStay
    <2>3. ToSet(Split(Join(ranges, ","), {",", " "})) = UNION {ToSet(Split(ranges[i], {",", " "})) : i \in 1 .. Len(ranges)}
        BY <1>1, <2>1, JoinPieces
    <2>4. DOMAIN ranges = 1 .. Len(ranges) BY <1>1
    <2>. QED BY <2>2, <2>3, <2>4 DEF Pieces
<1>5. ToSet(old) \ touched.ranges \subseteq listed
    <2>1. ASSUME NEW r \in ToSet(old) \ touched.ranges PROVE r \in listed
        <3>1. r \in ToSet(ranges) BY <2>1 DEF WorkingCopies, OptionsOk, old
        <3>2. PICK n \in DOMAIN ranges : r = ranges[n] BY <3>1 DEF ToSet
        <3>3. r \in Text /\ Piece(r, {",", " "})
            <4>1. \A s \in Seq(Text) : \A x \in ToSet(s) : x \in Text /\ \E j \in 1 .. Len(s) : x = s[j] BY DEF ToSet
            <4>2. r \in Text /\ \E j \in 1 .. Len(old) : r = old[j] BY Zenon, <1>2, <2>1, <4>1
            <4>3. Piece(r, {",", " "}) BY Zenon, <1>2, <4>2
            <4>. QED BY <4>2, <4>3
        <3>4. Pieces(ranges[n]) = <<r>> BY <3>2, <3>3, SplitOne DEF Pieces
        <3>5. r \in ToSet(Pieces(ranges[n]))
            <4>1. <<r>>[1] = r /\ 1 \in DOMAIN <<r>> OBVIOUS
            <4>. QED BY <3>4, <4>1 DEF ToSet
        <3>. QED BY <3>5
    <2>. QED BY <2>1
<1>. HIDE DEF old, listed
<1>6. ASSUME NEW f \in Families, NEW bytes \in Address(f)
      PROVE  /\ Covered(ToSet(old) \ touched.ranges, [family |-> f, bytes |-> bytes])
                   => IsAllowed(Rules(cfg'), [family |-> f, bytes |-> bytes])
             /\ IsAllowed(Rules(cfg'), [family |-> f, bytes |-> bytes])
                   => Covered(listed, [family |-> f, bytes |-> bytes])
    <2>. DEFINE ip == [family |-> f, bytes |-> bytes]
    <2>1. IsAllowed(Rules(cfg'), ip) <=>
              \E n \in DOMAIN Entries(cfg') : WellFormed(Entries(cfg')[n]) /\ Covers(Entries(cfg')[n], ip)
        BY <1>1, FilterOf
    <2>. HIDE DEF ip, new
    <2>2. IsAllowed(Rules(cfg'), ip) <=> \E n \in 1 .. Len(new) : WellFormed(Entry(new[n])) /\ Covers(Entry(new[n]), ip)
        BY <1>3, <2>1
    <2>3. ToSet(new) = {new[n] : n \in 1 .. Len(new)}
        <3>1. DOMAIN new = 1 .. Len(new) BY <1>3
        <3>. QED BY <3>1 DEF ToSet
    <2>4. IsAllowed(Rules(cfg'), ip) <=> Covered(listed, ip) BY <1>4, <2>2, <2>3 DEF Covered
    <2>5. Covered(ToSet(old) \ touched.ranges, ip) => Covered(listed, ip) BY <1>5 DEF Covered
    <2>. QED BY <2>4, <2>5 DEF ip
<1>. QED BY <1>6 DEF FilterAsEdited, old, listed

\* OptionsDialog and UsersDialog: whatever is loaded, and however many edits are made
\* in a dialog before it is left with OK, what nobody touched is served as it was: the
\* accounts of all other names, the other settings and, after the Users dialog, the
\* filter; after the Options dialog the filter lets in whom the ranges on the list
\* cover, which are among them all that were there and were not taken off.
THEOREM DialogsCareful == ConfigSpec => OkChangesWhatWasEdited
<1>. DEFINE Careful ==
        saves' # saves =>
            \E old \in {Served(cfg)}, new \in {Served(cfg')} :
                /\ \A name \in (DOMAIN old.accounts \cup DOMAIN new.accounts) \ touched.names :
                      SameAccount(old.accounts, new.accounts, name)
                /\ \A k \in ToSet(Settings) \ touched.keys : new.settings[k] = old.settings[k]
                /\ IF dialog = "users" THEN new.rules = old.rules ELSE FilterAsEdited(new.rules)
<1>1. ASSUME ConfigTypeOK, ConfigTypeOK', WorkingCopies, [ConfigNext]_configVars PROVE Careful
    <2>. SUFFICES ASSUME saves' # saves
                  PROVE  /\ \A name \in (DOMAIN Served(cfg).accounts \cup DOMAIN Served(cfg').accounts) \ touched.names :
                               SameAccount(Served(cfg).accounts, Served(cfg').accounts, name)
                         /\ \A k \in ToSet(Settings) \ touched.keys : Served(cfg').settings[k] = Served(cfg).settings[k]
                         /\ IF dialog = "users" THEN Served(cfg').rules = Served(cfg).rules
                            ELSE FilterAsEdited(Served(cfg').rules)
        BY Zenon
    <2>1. cfg \in Configurations /\ cfg' \in Configurations BY <1>1 DEF ConfigTypeOK
    <2>2. OptionsOk \/ UsersOk
        BY <1>1 DEF ConfigNext, configVars, WriteLine, Load, Propose, Exit, OpenOptions, Type, AddRange, RemoveRange,
                    OpenUsers, ClickAdd, ClickRemove, ClickRight, EditUser, Cancel
    <2>3. /\ \A c : Served(c).accounts = Accounts(c) /\ Served(c).rules = Rules(c)
          /\ \A c \in Configurations : \A k \in ToSet(Settings) : Served(c).settings[k] =
                IF k \in Numbers THEN Min({c.settings[k], IntMax})
                ELSE IF k = "allow_subnets" THEN <<>> ELSE Trim(c.settings[k])
        BY DEF Served, Configurations, AllSettings
    <2>4. CASE OptionsOk
        <3>1. /\ cfg'.users = cfg.users /\ cfg'.settings["client_ca"] = cfg.settings["client_ca"]
              /\ \A k \in Controls : cfg'.settings[k] = Value(k, controls[k])
            BY <1>1, <2>4, OptionsStay
        <3>2. dialog = "options" BY <2>4 DEF OptionsOk
        <3>3. Accounts(cfg') = Accounts(cfg) BY <3>1 DEF Accounts
        <3>4. \A name : SameAccount(Served(cfg).accounts, Served(cfg').accounts, name)
            BY <2>3, <3>3 DEF SameAccount
        <3>5. ASSUME NEW k \in ToSet(Settings) \ touched.keys
              PROVE  Served(cfg').settings[k] = Served(cfg).settings[k]
            <4>1. CASE k = "allow_subnets" \/ k = "client_ca"
                <5>1. k \notin Numbers BY <4>1 DEF Numbers
                <5>2. CASE k = "allow_subnets" BY <2>1, <2>3, <5>1, <5>2
                <5>3. CASE k # "allow_subnets"
                    <6>1. cfg'.settings[k] = cfg.settings[k] BY <3>1, <4>1, <5>3
                    <6>. QED BY <2>1, <2>3, <5>1, <5>3, <6>1
                <5>. QED BY <5>2, <5>3
            <4>2. CASE k \in Controls
                <5>1. controls[k] = Written(k, cfg.settings[k]) BY <1>1, <3>2, <4>2 DEF WorkingCopies
                <5>2. cfg.settings[k] \in SettingValues(k) BY <2>1 DEF Configurations, AllSettings
                <5>3. cfg'.settings[k] = Value(k, Written(k, cfg.settings[k])) BY <3>1, <4>2, <5>1
                <5>4. IF k \in Numbers THEN Min({cfg'.settings[k], IntMax}) = Min({cfg.settings[k], IntMax})
                      ELSE cfg'.settings[k] = cfg.settings[k]
                    BY <5>2, <5>3, ReadBack
                <5>. QED BY <2>1, <2>3, <5>4
            <4>. QED BY <4>1, <4>2 DEF Controls
        <3>6. FilterAsEdited(Served(cfg').rules)
            <4>1. FilterAsEdited(Rules(cfg')) BY <1>1, <2>4, ListServed
            <4>2. Served(cfg').rules = Rules(cfg') BY <2>3
            <4>. QED BY <4>1, <4>2
        <3>. QED BY <3>2, <3>4, <3>5, <3>6
    <2>5. CASE UsersOk
        <3>1. dialog = "users" /\ cfg' = Edited(working) BY <2>5 DEF UsersOk, Save, Edited
        <3>2. cfg'.settings = cfg.settings BY <2>1, <3>1 DEF Edited, Configurations
        <3>3. Rules(cfg') = Rules(cfg) BY <3>2 DEF Rules, Entries
        <3>4. \A name : name \notin touched.names => Agree(cfg, cfg', name) BY <1>1, <3>1 DEF WorkingCopies
        <3>5. \A name : name \notin touched.names => SameAccount(Served(cfg).accounts, Served(cfg').accounts, name)
            BY <2>3, <3>4 DEF Agree, SameAccount
        <3>6. \A k \in ToSet(Settings) : Served(cfg').settings[k] = Served(cfg).settings[k] BY <2>1, <2>3, <3>2
        <3>7. Served(cfg').rules = Served(cfg).rules BY <2>3, <3>3
        <3>. QED BY <3>1, <3>5, <3>6, <3>7
    <2>. QED BY <2>2, <2>4, <2>5
<1>2. ConfigInit => WorkingCopies BY DEF ConfigInit, WorkingCopies
<1>3. ConfigTypeOK /\ WorkingCopies /\ [ConfigNext]_configVars => WorkingCopies' BY CopiesKept
<1>. QED BY <1>1, <1>2, <1>3, ConfigInductive, PTL DEF ConfigSpec, OkChangesWhatWasEdited
=============================================================================
