--------------------------- MODULE SecurityManager ---------------------------
(***************************************************************************)
(* security/SecurityManager.{h,cpp}: the per-username lockout and the      *)
(* authenticate() call every session thread makes on it.                   *)
(*                                                                         *)
(* authenticate() reads the clock once, holds mu_ to look at the lockout   *)
(* entry, RELEASES mu_ for the Argon2id verification, and takes mu_ again  *)
(* to record the outcome with the clock value it read at the start.  Each  *)
(* of these is a step here; other sessions run between any two of them.    *)
(*                                                                         *)
(* A missing lockouts_ entry and a zero entry are the same value, Fresh:   *)
(* operator[] value-initialises what find() does not see, and every test   *)
(* gives the same answer on both.                                          *)
(***************************************************************************)
EXTENDS Integers, Sequences, FiniteSets

CONSTANTS
    Users,              \* the usernames clients send
    Sessions,           \* the session threads that may call authenticate()
    MaxFailedAttempts,  \* Policy::maxFailedAttempts
    LockoutWindow,      \* Policy::lockoutWindow, in ticks
    LockoutDuration,    \* Policy::lockoutDuration, in ticks
    MaxTime             \* bound: the last tick of the steady clock

ASSUME SessionsFinite == IsFiniteSet(Sessions)
ASSUME PolicyAssumption == /\ MaxFailedAttempts \in Nat \ {0}
                           /\ LockoutWindow \in Nat
                           /\ LockoutDuration \in Nat \ {0}
                           /\ MaxTime \in Nat

VARIABLES
    users,       \* keys of users_
    serving,     \* ServerApp::run has loaded the users and listens
    clock,       \* steady_clock::now()
    lockouts,    \* lockouts_
    pc,          \* where each session is in authenticate(), then its AuthStatus
    call,        \* the call of each session that is inside authenticate()
    failed,      \* history: times of the failures recorded since the last success
    overrun      \* history: failures recorded since the account was locked

vars == <<users, serving, clock, lockouts, pc, call, failed, overrun>>

Time == 0 .. MaxTime
Lockout == [failures : Nat, firstFailure : Time, lockedUntil : Nat]
Fresh == [failures |-> 0, firstFailure |-> 0, lockedUntil |-> 0]

AuthStatus == {"Ok", "BadCredentials", "LockedOut"}
Call == [user : Users, now : Time, passOk : BOOLEAN]
NoCall == [user |-> "-"]

-----------------------------------------------------------------------------
(* The entry operations.  Each is called with mu_ held.                    *)

\* A mutant of WindowOver: the window lasts until the lock would be over.
WindowOverLate(lk, now) == now - lk.firstFailure > LockoutWindow + LockoutDuration

\* now - firstFailure > lockoutWindow.  A session that read the clock before
\* the one that opened the window makes the difference negative.
WindowOver(lk, now) == now - lk.firstFailure > LockoutWindow

\* A mutant of IsLocked: the last tick of the lock already admits.
IsLockedShort(lk, now) == lk.lockedUntil > now + 1

\* What isLocked() answers, and what it leaves in the entry.
IsLocked(lk, now) == lk.lockedUntil > now

\* A mutant of AfterIsLocked: an attempt on a locked account renews the lock.
AfterIsLockedRenews(lk, now) ==
    IF IsLocked(lk, now) THEN [lk EXCEPT !.lockedUntil = now + LockoutDuration]
    ELSE IF WindowOver(lk, now) THEN [lk EXCEPT !.failures = 0]
    ELSE lk

AfterIsLocked(lk, now) ==
    IF ~IsLocked(lk, now) /\ WindowOver(lk, now)
    THEN [lk EXCEPT !.failures = 0]
    ELSE lk

\* Mutants of RecordFailure: the window is not anchored again when it restarts;
\* the sign of the duration is lost.
RecordFailureKeepsAnchor(lk, now) ==
    LET opens == lk.failures = 0 \/ WindowOver(lk, now)
        count == IF opens THEN 1 ELSE lk.failures + 1
    IN  [lk EXCEPT !.failures = count,
                   !.lockedUntil = IF count >= MaxFailedAttempts
                                   THEN now + LockoutDuration ELSE @]
RecordFailureBackwards(lk, now) ==
    [failures |-> lk.failures + 1, firstFailure |-> now,
     lockedUntil |-> now - LockoutDuration]

RecordFailure(lk, now) ==
    LET opens == lk.failures = 0 \/ WindowOver(lk, now)
        count == IF opens THEN 1 ELSE lk.failures + 1
    IN  [failures     |-> count,
         firstFailure |-> IF opens THEN now ELSE lk.firstFailure,
         lockedUntil  |-> IF count >= MaxFailedAttempts
                          THEN now + LockoutDuration
                          ELSE lk.lockedUntil]

-----------------------------------------------------------------------------
Locked(u) == lockouts[u].lockedUntil > clock

\* The sessions whose password for u is being verified, without mu_.
Verifying(u) == {s \in Sessions : pc[s] = "verify" /\ call[s].user = u}

Init ==
    /\ users = {}
    /\ serving = FALSE
    /\ clock = 0
    /\ lockouts = [u \in Users |-> Fresh]
    /\ pc = [s \in Sessions |-> "new"]
    /\ call = [s \in Sessions |-> NoCall]
    /\ failed = [u \in Users |-> <<>>]
    /\ overrun = [u \in Users |-> 0]

\* ServerApp::run adds the configured users before it listens.
AddUser(u) ==
    /\ ~serving
    /\ users' = users \cup {u}
    /\ UNCHANGED <<serving, clock, lockouts, pc, call, failed, overrun>>

\* ServerApp::run refuses to start without users.
Serve ==
    /\ ~serving
    /\ users # {}
    /\ serving' = TRUE
    /\ UNCHANGED <<users, clock, lockouts, pc, call, failed, overrun>>

\* The call: `now` is read before mu_ is taken.  A session calls once; its
\* thread's place is then taken by a later session.
Enter(s, u, passOk) ==
    /\ serving
    /\ pc[s] \in {"new"} \cup AuthStatus
    /\ pc' = [pc EXCEPT ![s] = "check"]
    /\ call' = [call EXCEPT ![s] = [user |-> u, now |-> clock, passOk |-> passOk]]
    /\ UNCHANGED <<users, serving, clock, lockouts, failed, overrun>>

\* The first critical section: refuse a locked account, else go on to verify.
Check(s) ==
    /\ pc[s] = "check"
    /\ LET u  == call[s].user
           lk == lockouts[u]
       IN  /\ lockouts' = [lockouts EXCEPT ![u] = AfterIsLocked(lk, call[s].now)]
           /\ IF IsLocked(lk, call[s].now)
              THEN /\ pc' = [pc EXCEPT ![s] = "LockedOut"]
                   /\ call' = [call EXCEPT ![s] = NoCall]
              ELSE /\ pc' = [pc EXCEPT ![s] = "verify"]
                   /\ UNCHANGED call
    /\ UNCHANGED <<users, serving, clock, failed, overrun>>

\* The second critical section, after a verification that succeeded.
Succeed(s) ==
    /\ pc[s] = "verify"
    /\ LET u == call[s].user
       IN  /\ call[s].passOk /\ u \in users
           /\ lockouts' = [lockouts EXCEPT ![u] = Fresh]
           /\ failed' = [failed EXCEPT ![u] = <<>>]
           /\ overrun' = [overrun EXCEPT ![u] = 0]
    /\ pc' = [pc EXCEPT ![s] = "Ok"]
    /\ call' = [call EXCEPT ![s] = NoCall]
    /\ UNCHANGED <<users, serving, clock>>

\* The second critical section, after a verification that failed, or one made
\* against the decoy hash.
Fail(s) ==
    /\ pc[s] = "verify"
    /\ LET u == call[s].user
       IN  /\ ~(call[s].passOk /\ u \in users)
           /\ lockouts' = [lockouts EXCEPT ![u] = RecordFailure(@, call[s].now)]
           /\ failed' = [failed EXCEPT ![u] = Append(@, call[s].now)]
           /\ overrun' = [overrun EXCEPT ![u] = IF Locked(u) THEN @ + 1 ELSE 0]
    /\ pc' = [pc EXCEPT ![s] = "BadCredentials"]
    /\ call' = [call EXCEPT ![s] = NoCall]
    /\ UNCHANGED <<users, serving, clock>>

\* Time passes; MaxTime bounds it.
Tick ==
    /\ serving
    /\ clock < MaxTime
    /\ clock' = clock + 1
    /\ UNCHANGED <<users, serving, lockouts, pc, call, failed, overrun>>

Next ==
    \/ \E u \in Users : AddUser(u)
    \/ Serve
    \/ \E s \in Sessions :
          \/ \E u \in Users, passOk \in BOOLEAN : Enter(s, u, passOk)
          \/ Check(s)
          \/ Succeed(s)
          \/ Fail(s)
    \/ Tick

Spec == Init /\ [][Next]_vars

\* Time passes, and a thread inside authenticate() gets on with it: mu_ is
\* never held across anything that blocks.
Fairness ==
    /\ WF_vars(Tick)
    /\ \A s \in Sessions : WF_vars(Check(s) \/ Succeed(s) \/ Fail(s))

FairSpec == Spec /\ Fairness

-----------------------------------------------------------------------------
TypeOK ==
    /\ users \subseteq Users
    /\ serving \in BOOLEAN
    /\ clock \in Time
    /\ lockouts \in [Users -> Lockout]
    /\ pc \in [Sessions -> {"new", "check", "verify"} \cup AuthStatus]
    /\ call \in [Sessions -> Call \cup {NoCall}]
    /\ \A s \in Sessions : pc[s] \in {"check", "verify"} => call[s] \in Call
    /\ failed \in [Users -> Seq(Time)]
    /\ overrun \in [Users -> Nat]

\* The lock is looked at before the verification and the failure recorded
\* after it, so an account that is already locked still takes the failures of
\* the sessions that were verifying when it was locked - but of no other:
\* however many sessions there are and in whatever order they record, fewer
\* than Cardinality(Sessions) guesses get past a lock.
OverrunBounded ==
    \A u \in Users :
        Locked(u) => overrun[u] + Cardinality(Verifying(u)) < Cardinality(Sessions)

\* The counter of an entry is exact: it counts the last failures recorded for
\* the user, none lost and none from before the window, although the threads
\* that recorded them read the clock in another order.
CountExact ==
    \A u \in Users :
        LET n == Len(failed[u])
            k == lockouts[u].failures
        IN  /\ k <= n
            /\ k > 0 => /\ failed[u][n - k + 1] = lockouts[u].firstFailure
                        /\ \A i \in n - k + 1 .. n :
                              failed[u][i] - lockouts[u].firstFailure <= LockoutWindow

\* MaxFailedAttempts failures, each at most a window after the first of them.
OneWindowOfFailures(f) ==
    \E k \in 1 .. Len(f) :
        /\ Len(f) - k + 1 >= MaxFailedAttempts
        /\ \A i \in k .. Len(f) : f[i] - f[k] <= LockoutWindow

\* No step locks an account, or moves its lock, unless the failures since the
\* last success end in MaxFailedAttempts failures of one window.
LockJustified ==
    [][\A u \in Users :
          lockouts'[u].lockedUntil \notin {0, lockouts[u].lockedUntil}
              => OneWindowOfFailures(failed'[u])]_vars

\* A lock ends after at most LockoutDuration, whatever the clients do: an
\* attempt on a locked account does not renew the lock, and the verifications
\* still in flight read the clock before it was set.
LockExpires ==
    \A u \in Users : (Locked(u) /\ clock + LockoutDuration <= MaxTime) ~> ~Locked(u)
=============================================================================
