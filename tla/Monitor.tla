------------------------------- MODULE Monitor -------------------------------
(***************************************************************************)
(* c/include/simple_monitor.h: a thread that calls monitor_wait() sleeps   *)
(* until monitor_knock() has been called MAX_NUM times.  No program of the *)
(* repository uses the monitor, so its callers are an environment here:    *)
(* threads that wait and threads that knock, again and again.              *)
(***************************************************************************)
EXTENDS Integers

CONSTANTS Waiters, Knockers,   \* the calling threads
          Nobody,              \* the owner of a free mutex
          MAX_NUM,             \* 10
          MaxStrays            \* how often pthread_cond_wait returns unsignalled

ASSUME MonitorAssumption ==
    /\ Waiters \cap Knockers = {}
    /\ Nobody \notin Waiters \cup Knockers
    /\ MAX_NUM \in Nat \ {0}
    /\ MaxStrays \in Nat

VARIABLES cnt, somebody_waits,   \* the fields of monitor_tag
          mut,                   \* the thread that holds the mutex, or Nobody
          pc,                    \* where each thread is
          strays,                \* spurious returns so far
          destroyed              \* monitor_destroy() was called

vars == <<cnt, somebody_waits, mut, pc, strays, destroyed>>

Threads == Waiters \cup Knockers

monitor_init ==
    /\ cnt = 0
    /\ somebody_waits = 0
    /\ mut = Nobody
    /\ pc = [t \in Threads |-> "outside"]
    /\ strays = 0
    /\ destroyed = FALSE

Goto(t, from, to) == pc[t] = from /\ pc' = [pc EXCEPT ![t] = to]

\* pthread_mutex_lock, and the way back into the mutex out of pthread_cond_wait.
LockMutex(t, from, to) ==
    /\ Goto(t, from, to)
    /\ mut = Nobody /\ mut' = t
    /\ ~destroyed
    /\ UNCHANGED <<cnt, somebody_waits, strays, destroyed>>

UnlockMutex(t) ==
    /\ Goto(t, "leaving", "outside")
    /\ mut' = Nobody
    /\ UNCHANGED <<cnt, somebody_waits, strays, destroyed>>

\* pthread_cond_wait releases the mutex and falls asleep at once.
FallAsleep(w) ==
    /\ Goto(w, "wait", "asleep")
    /\ somebody_waits' = 1
    /\ mut' = Nobody
    /\ UNCHANGED <<cnt, strays, destroyed>>

SpuriousWakeup(w) ==
    /\ strays < MaxStrays
    /\ Goto(w, "asleep", "woken")
    /\ strays' = strays + 1
    /\ UNCHANGED <<cnt, somebody_waits, mut, destroyed>>

\* Whoever comes back declares that nobody waits, although others may sleep on.
Reset(w) ==
    /\ Goto(w, "back", "leaving")
    /\ somebody_waits' = 0
    /\ UNCHANGED <<cnt, mut, strays, destroyed>>

monitor_wait(w) ==
    \/ LockMutex(w, "outside", "wait")
    \/ FallAsleep(w)
    \/ LockMutex(w, "woken", "back")
    \/ Reset(w)
    \/ UnlockMutex(w)

Asleep == {w \in Waiters : pc[w] = "asleep"}

\* Slip: the count is reset before it is compared with MAX_NUM.
SignalAtSlip(k, n) == cnt' = n % MAX_NUM /\ Goto(k, "knock", "leaving")

\* At the last knock, pthread_cond_signal wakes one of the sleepers, if any.
SignalAt(k, n) ==
    /\ cnt' = IF n = MAX_NUM THEN 0 ELSE n
    /\ \/ n # MAX_NUM /\ Goto(k, "knock", "leaving")
       \/ n = MAX_NUM /\ Asleep = {} /\ Goto(k, "knock", "leaving")
       \/ n = MAX_NUM /\ \E w \in Asleep : pc' = [pc EXCEPT ![k] = "leaving", ![w] = "woken"]

Knock(k) ==
    /\ pc[k] = "knock"
    /\ \/ somebody_waits = 1 /\ SignalAt(k, cnt + 1)
       \/ somebody_waits # 1 /\ Goto(k, "knock", "leaving") /\ UNCHANGED cnt
    /\ UNCHANGED <<somebody_waits, mut, strays, destroyed>>

monitor_knock(k) ==
    \/ LockMutex(k, "outside", "knock")
    \/ Knock(k)
    \/ UnlockMutex(k)

\* The caller has to see to it that nobody uses the monitor any more.
monitor_destroy ==
    /\ \A t \in Threads : pc[t] = "outside"
    /\ ~destroyed /\ destroyed' = TRUE
    /\ UNCHANGED <<cnt, somebody_waits, mut, pc, strays>>

Next ==
    \/ \E w \in Waiters : monitor_wait(w) \/ SpuriousWakeup(w)
    \/ \E k \in Knockers : monitor_knock(k)
    \/ monitor_destroy
    \/ destroyed /\ UNCHANGED vars

\* A thread inside the monitor goes on, and the knocking goes on for as long as
\* the monitor is there.  A single thread may starve at the mutex: only the
\* knockers as a whole are treated fairly.
Spec ==
    /\ monitor_init /\ [][Next]_vars
    /\ \A w \in Waiters : WF_vars(monitor_wait(w) /\ pc[w] # "outside")
    /\ \A k \in Knockers : WF_vars(monitor_knock(k) /\ pc[k] # "outside")
    /\ WF_vars(\E k \in Knockers : monitor_knock(k))

-----------------------------------------------------------------------------
(* Properties *)

\* Who falls asleep in monitor_wait() is woken by knocks, also when a count of
\* earlier knocks is left over or a signal has met nobody asleep, unless another
\* waiter comes back first: it sets somebody_waits to 0, and from then on no knock
\* is counted for the one that sleeps on.
WaiterWoken ==
    \A w \in Waiters :
        (pc[w] = "asleep" /\ somebody_waits = 1) ~>
            (pc[w] # "asleep" \/ \E v \in Waiters \ {w} : pc[v] = "leaving")

=============================================================================
