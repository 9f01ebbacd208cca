--------------------------- MODULE MaintenanceLock ---------------------------
(***************************************************************************)
(* The maintenance lock (utils/maintenanceLock.js): a lease in the memory  *)
(* of the API process.  withLock() acquires it, renews it from a timer     *)
(* while the operation runs, tells the operation through an abort signal   *)
(* when a renewal is refused, and releases it at the end.                  *)
(*                                                                         *)
(* Time is a counter of ticks.  The event loop may run a timer late, by at *)
(* most delay ticks: Tick waits for it.                                    *)
(***************************************************************************)
EXTENDS Naturals

CONSTANTS
    Holders,     \* calls of withLock()
    Hold,        \* maxHoldMs
    Divisor,     \* RENEW_INTERVAL_DIVISOR
    Delays,      \* how late the event loop may run a timer that is due
    MaxNow       \* bound: ticks

ASSUME LockConstants ==
    /\ Hold \in Nat \ {0} /\ Divisor \in Nat \ {0}
    /\ Delays \subseteq Nat /\ MaxNow \in Nat

\* The period of the renewal timer: max(1, floor(maxHoldMs / divisor)).
Period == IF Hold \div Divisor = 0 THEN 1 ELSE Hold \div Divisor

VARIABLES
    delay,   \* the delay of this process
    now,
    lock,    \* _lock: token (0 is null) and expiresAt
    issued,  \* _tokenSkaitiklis
    op       \* op[h]: where call h is, its token, its timer and its signal

lockVars == <<delay, now, lock, issued, op>>

Free == [token |-> 0, expiresAt |-> 0]
Waiting == [at |-> "idle", token |-> 0, due |-> 0, timer |-> FALSE, aborted |-> FALSE]

LockTypeOK ==
    /\ delay \in Delays /\ now \in 0 .. MaxNow
    /\ issued \in Nat
    /\ lock \in [token : 0 .. issued, expiresAt : Nat]
    /\ op \in [Holders -> [at : {"idle", "running", "refused", "done", "lost"}, token : 0 .. issued,
                           due : Nat, timer : BOOLEAN, aborted : BOOLEAN]]

LockInit ==
    /\ delay \in Delays
    /\ now = 0
    /\ lock = Free
    /\ issued = 0
    /\ op = [h \in Holders |-> Waiting]

-----------------------------------------------------------------------------
Expired == lock.token # 0 /\ lock.expiresAt <= now
isLocked == lock.token # 0 /\ ~ Expired

\* The operation of h may still write: it runs and its signal is silent.
Operating(h) == op[h].at = "running" /\ ~ op[h].aborted

-----------------------------------------------------------------------------
\* Mutant: the lock is not looked at.
Acquire_Unchecked(h) ==
    /\ op[h].at = "idle"
    /\ issued' = issued + 1
    /\ lock' = [token |-> issued + 1, expiresAt |-> now + Hold]
    /\ op' = [op EXCEPT ![h] = [at |-> "running", token |-> issued + 1, due |-> now + Period,
                                timer |-> TRUE, aborted |-> FALSE]]
    /\ UNCHANGED <<delay, now>>

Acquire(h) ==
    /\ op[h].at = "idle" /\ ~ isLocked
    /\ issued' = issued + 1
    /\ lock' = [token |-> issued + 1, expiresAt |-> now + Hold]
    /\ op' = [op EXCEPT ![h] = [at |-> "running", token |-> issued + 1, due |-> now + Period,
                                timer |-> TRUE, aborted |-> FALSE]]
    /\ UNCHANGED <<delay, now>>

Refuse(h) ==
    /\ op[h].at = "idle" /\ isLocked
    /\ op' = [op EXCEPT ![h].at = "refused"]
    /\ UNCHANGED <<delay, now, lock, issued>>

\* renew(): only the owner of a lease that has not expired.
renewable(token) == lock.token = token /\ ~ Expired

\* Mutant: the new term is not written.
Renew_NoExtend(h) ==
    /\ op[h].timer /\ op[h].due <= now
    /\ op' = [op EXCEPT ![h].due = now + Period]
    /\ UNCHANGED <<delay, now, lock, issued>>

Renew(h) ==
    /\ op[h].timer /\ op[h].due <= now
    /\ IF renewable(op[h].token)
       THEN /\ lock' = [lock EXCEPT !.expiresAt = now + Hold]
            /\ op' = [op EXCEPT ![h].due = now + Period]
       ELSE /\ op' = [op EXCEPT ![h].timer = FALSE, ![h].aborted = TRUE]
            /\ UNCHANGED lock
    /\ UNCHANGED <<delay, now, issued>>

\* release(): a lease of another owner stays.
released_Anyone(token) == Free   \* mutant: the token is not compared

released(token) == IF lock.token = token THEN Free ELSE lock

\* The end of withLock(): the timer is cleared and the own lease released.
EndOp(h) ==
    /\ op[h].at = "running"
    /\ lock' = released(op[h].token)
    /\ op' = [op EXCEPT ![h].at = IF op[h].aborted THEN "lost" ELSE "done", ![h].timer = FALSE]
    /\ UNCHANGED <<delay, now, issued>>

\* Time passes, but no timer stays due for longer than the event loop delays it.
OnTime == \A h \in Holders : op[h].timer => now < op[h].due + delay

Tick ==
    /\ now < MaxNow /\ OnTime
    /\ now' = now + 1
    /\ UNCHANGED <<delay, lock, issued, op>>

LockNext ==
    \/ \E h \in Holders : Acquire(h) \/ Refuse(h) \/ Renew(h) \/ EndOp(h)
    \/ Tick

LockSpec == LockInit /\ [][LockNext]_lockVars

-----------------------------------------------------------------------------
\* A timer that is late still renews the lease before it expires.
InTime == Period + delay < Hold

\* An operation whose signal is silent holds the lease: it has not expired and
\* nobody else took it (D1 of maintenanceLock.js:236-244).
LeaseHeld ==
    InTime => \A h \in Holders : Operating(h) => lock.token = op[h].token /\ ~ Expired

\* Two operations never write at once.
OneOperation ==
    InTime => \A g, h \in Holders : Operating(g) /\ Operating(h) => g = h

\* However late the timers are, a lease that has not expired is not taken from a
\* running operation: release() and renew() of a stranger are refused.
LeaseEndsByOwner ==
    [][ \A h \in Holders :
          lock.token = op[h].token /\ op[h].at = "running" /\ ~ Expired
          /\ op'[h].at = "running" => lock'.token = lock.token ]_lockVars
=============================================================================
