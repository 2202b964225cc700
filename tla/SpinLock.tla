------------------------------ MODULE SpinLock ------------------------------
(* src/base/threads/spinlock.h: a lock made of one atomic flag.  lock() is   *)
(* one test_and_set after another, the scheduler free to run any thread in   *)
(* between; the acquire and release orders are modelled by what they carry:  *)
(* clear() publishes what its thread has seen of the data under the lock,    *)
(* and the test_and_set that reads that clear() receives it.                 *)
EXTENDS Naturals, FiniteSets

CONSTANTS Thread,
          MaxUpdates       \* bound: updates of the data under the lock

ASSUME SpinLockAssumption == MaxUpdates \in Nat

VARIABLES
  flag,        \* flags_
  published,   \* the version of the data the last clear() released
  pc,          \* [thread -> outside, spinning in lock(), or inside]
  seen,        \* [thread -> version of the data it sees]
  version      \* updates made in all, wherever they are visible

lockVars == <<flag, published, pc, seen, version>>

LockInit ==
  /\ flag = FALSE /\ published = 0
  /\ pc = [t \in Thread |-> "outside"]
  /\ seen = [t \in Thread |-> 0]
  /\ version = 0

test_and_set_Relaxed(t) ==
  /\ ~flag /\ flag' = TRUE
  /\ pc' = [pc EXCEPT ![t] = "inside"]
  /\ UNCHANGED <<seen, published, version>>

test_and_set_TwoSteps(t) ==
  /\ ~flag /\ UNCHANGED flag
  /\ pc' = [pc EXCEPT ![t] = "inside"]
  /\ seen' = [seen EXCEPT ![t] = published]
  /\ UNCHANGED <<published, version>>

(* test_and_set(memory_order_acquire) that returns false: the lock is taken. *)
test_and_set(t) ==
  /\ ~flag /\ flag' = TRUE
  /\ pc' = [pc EXCEPT ![t] = "inside"]
  /\ seen' = [seen EXCEPT ![t] = published]
  /\ UNCHANGED <<published, version>>

(* lock() is called: the thread enters the loop, whose failing rounds only   *)
(* yield and leave no trace.                                                 *)
lock(t) ==
  /\ pc[t] = "outside"
  /\ pc' = [pc EXCEPT ![t] = "spinning"]
  /\ UNCHANGED <<flag, published, seen, version>>

Acquire(t) == pc[t] = "spinning" /\ test_and_set(t)

(* try_lock() tries once; the call that returns false changes nothing.       *)
try_lock(t) == pc[t] = "outside" /\ test_and_set(t)

(* The holder reads the data it sees and writes the next version.            *)
Update(t) ==
  /\ pc[t] = "inside" /\ version < MaxUpdates
  /\ seen' = [seen EXCEPT ![t] = @ + 1]
  /\ version' = version + 1
  /\ UNCHANGED <<flag, published, pc>>

unlock_NeverClears(t) ==
  /\ pc[t] = "inside"
  /\ pc' = [pc EXCEPT ![t] = "outside"]
  /\ UNCHANGED <<flag, published, seen, version>>

(* clear(memory_order_release).  Only a thread that holds the lock calls     *)
(* unlock: that is what BasicLockable asks of its caller.                    *)
unlock(t) ==
  /\ pc[t] = "inside"
  /\ flag' = FALSE
  /\ published' = seen[t]
  /\ pc' = [pc EXCEPT ![t] = "outside"]
  /\ UNCHANGED <<seen, version>>

LockNext == \E t \in Thread : lock(t) \/ Acquire(t) \/ try_lock(t) \/ Update(t) \/ unlock(t)

LockSpec == LockInit /\ [][LockNext]_lockVars

(* The scheduler keeps running every thread: one that spins tries again, and *)
(* one that holds the lock comes to its unlock.                              *)
Fairness == \A t \in Thread : WF_lockVars(Acquire(t)) /\ WF_lockVars(unlock(t))

FairSpec == LockSpec /\ Fairness

(*------------------------------- properties -------------------------------*)

TypeOK ==
  /\ flag \in BOOLEAN
  /\ published \in 0 .. MaxUpdates /\ version \in 0 .. MaxUpdates
  /\ pc \in [Thread -> {"outside", "spinning", "inside"}]
  /\ seen \in [Thread -> 0 .. MaxUpdates]

(* Two threads are never inside together.                                    *)
MutualExclusion ==
  \A t, u \in Thread : pc[t] = "inside" /\ pc[u] = "inside" => t = u

(* The thread inside sees every update made under the lock before it, so its *)
(* own cannot overwrite another's.                                           *)
HolderIsUpToDate == \A t \in Thread : pc[t] = "inside" => seen[t] = version

(* What holds the two together: the flag is up exactly while a thread is     *)
(* inside, and what waits to be received while it is down is everything.     *)
LockIInv ==
  /\ TypeOK /\ MutualExclusion /\ HolderIsUpToDate
  /\ flag <=> \E t \in Thread : pc[t] = "inside"
  /\ ~flag => published = version

(* A thread that spins on a lock nobody holds does not spin while the lock   *)
(* stays free: some thread gets in.  (Which one is up to the scheduler: the  *)
(* lock has no queue, and one thread may starve.)                            *)
SomeoneGetsIn ==
  (\E t \in Thread : pc[t] = "spinning") ~> (\E t \in Thread : pc[t] = "inside")
=============================================================================
