---------------------------- MODULE RustSemaphore ----------------------------
(***************************************************************************)
(* rust/semaphore.rs: a semaphore made of a Mutex<i32> and a Condvar.      *)
(* wait() takes 1 from the value first and sleeps if that made it          *)
(* negative; post() adds 1 and wakes one sleeper if it was negative.       *)
(*                                                                         *)
(* wait() does not look at the value again when Condvar::wait returns, so  *)
(* it relies on every return being the answer to one notify_one.  The      *)
(* standard library does not promise that: up to MaxSpurious returns come  *)
(* without a notify of their own.                                          *)
(***************************************************************************)
EXTENDS Integers, FiniteSets

CONSTANTS Clients,      \* the threads that use the semaphore
          Value0,       \* the argument of new()
          MaxValue,     \* bound on the size of the value
          Nobody,       \* the owner of a mutex that is not locked
          MaxSpurious   \* bound on returns of Condvar::wait without a notify

ASSUME ClientsAssumption == IsFiniteSet(Clients) /\ Nobody \notin Clients
ASSUME ValueAssumption   == MaxValue \in Nat /\ Value0 \in 0 .. MaxValue
ASSUME SpuriousAssumption == MaxSpurious \in Nat

VARIABLES value,   \* the i32 in the mutex
          owner,   \* who has locked the mutex
          call,    \* what each thread is doing inside the semaphore
          strays   \* how many returns of Condvar::wait had no notify

semVars == <<value, owner, call, strays>>

new ==
    /\ value = Value0
    /\ owner = Nobody
    /\ call = [t \in Clients |-> "none"]
    /\ strays = 0

Calls == {"none", "wait", "wait_locked", "asleep", "woken", "post", "post_locked"}

In(labels) == {t \in Clients : call[t] \in labels}

CallGoto(t, from, to) == call[t] = from /\ call' = [call EXCEPT ![t] = to]

\* self.mutex.lock()
Lock(t, from, to) ==
    /\ CallGoto(t, from, to)
    /\ owner = Nobody
    /\ owner' = t
    /\ UNCHANGED <<value, strays>>

-----------------------------------------------------------------------------
(* wait() *)

CallWait(t) ==
    /\ value - Cardinality(In({"wait", "wait_locked"})) > -MaxValue
    /\ CallGoto(t, "none", "wait")
    /\ UNCHANGED <<value, owner, strays>>

\* Slip: the value is tested before 1 is taken from it.
WaitLockedSlip(t) ==
    /\ CallGoto(t, "wait_locked", IF value < 0 THEN "asleep" ELSE "none")
    /\ value' = value - 1
    /\ owner' = Nobody
    /\ UNCHANGED strays

\* *lock -= 1; the mutex is released by Condvar::wait or by the return.
WaitLocked(t) ==
    /\ CallGoto(t, "wait_locked", IF value - 1 < 0 THEN "asleep" ELSE "none")
    /\ value' = value - 1
    /\ owner' = Nobody
    /\ UNCHANGED strays

\* Condvar::wait locks the mutex again before it returns; wait() drops the
\* guard at once and returns.
WaitReturn(t) ==
    /\ CallGoto(t, "woken", "none")
    /\ owner = Nobody
    /\ UNCHANGED <<value, owner, strays>>

\* Condvar::wait returns although nobody has notified this thread.
SpuriousWakeup(t) ==
    /\ strays < MaxSpurious
    /\ CallGoto(t, "asleep", "woken")
    /\ strays' = strays + 1
    /\ UNCHANGED <<value, owner>>

wait(t) ==
    \/ Lock(t, "wait", "wait_locked")
    \/ WaitLocked(t)
    \/ WaitReturn(t)

-----------------------------------------------------------------------------
(* post() *)

CallPost(t) ==
    /\ value + Cardinality(In({"post", "post_locked"})) < MaxValue
    /\ CallGoto(t, "none", "post")
    /\ UNCHANGED <<value, owner, strays>>

\* Slip: a sleeper is only woken when the value is still negative.
NeedsNotifySlip(v) == v < 0

\* if *lock <= 0
NeedsNotify(v) == v <= 0

\* *lock += 1 and notify_one, which wakes one sleeper if there is one.
PostLocked(t) ==
    /\ call[t] = "post_locked"
    /\ value' = value + 1
    /\ IF NeedsNotify(value + 1) /\ In({"asleep"}) # {}
       THEN \E u \in In({"asleep"}) : call' = [call EXCEPT ![t] = "none", ![u] = "woken"]
       ELSE call' = [call EXCEPT ![t] = "none"]
    /\ owner' = Nobody
    /\ UNCHANGED strays

post(t) == Lock(t, "post", "post_locked") \/ PostLocked(t)

-----------------------------------------------------------------------------
(* Threads that call wait() and post() in any order *)

Next == \E t \in Clients : CallWait(t) \/ CallPost(t) \/ wait(t) \/ post(t)
                            \/ SpuriousWakeup(t)

Spec == new /\ [][Next]_semVars

-----------------------------------------------------------------------------
(* Properties *)

\* The value never falls below minus the number of threads that may sleep or
\* have left without a notify, and whoever works on it has locked the mutex.
TypeOK ==
    /\ value \in -(Cardinality(Clients) + strays) .. MaxValue
    /\ owner \in Clients \cup {Nobody}
    /\ \A t \in Clients : call[t] \in {"wait_locked", "post_locked"} <=> owner = t
    /\ call \in [Clients -> Calls]
    /\ strays \in 0 .. MaxSpurious

Max0(v) == IF v > 0 THEN v ELSE 0

\* How many posts are still spent on threads that have left without them.
Debt == Max0(-value) - Cardinality(In({"asleep"}))

\* A negative value counts the threads that sleep: every sleeper is owed a
\* wakeup by a post to come, and no wakeup goes to nobody, except for one
\* per spurious return.
ValueCountsSleepers == Debt \in 0 .. strays

\* Whoever works on the value has locked the mutex, and the value counts the
\* sleepers.
SemaphoreInv == TypeOK /\ ValueCountsSleepers

\* A permit is free, or on its way to a thread that was woken for it.
Counting == INSTANCE CountingSemaphore WITH
    Permits0 <- Value0, MaxDebt <- MaxSpurious,
    permits  <- Max0(value) + Cardinality(In({"woken"})),
    debt     <- Debt,
    waiting  <- In({"wait", "wait_locked", "asleep", "woken"}),
    posting  <- In({"post", "post_locked"})

\* Every return from wait() uses up one permit and every post() yields one;
\* a spurious return takes its permit from a later post().
CountingRefinement == Counting!SemSpec

=============================================================================
