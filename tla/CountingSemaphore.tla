-------------------------- MODULE CountingSemaphore --------------------------
(***************************************************************************)
(* What users of a semaphore rely on: a thread that waits gets past its    *)
(* wait by taking a permit, and permits come from the initial value and    *)
(* from posts only, one from each.                                         *)
(*                                                                         *)
(* With MaxDebt > 0 the promise is weaker: up to MaxDebt permits may be    *)
(* given out in advance, and each is paid back by a post that yields none. *)
(***************************************************************************)
EXTENDS Naturals

CONSTANTS Clients,   \* the threads that use the semaphore
          Permits0,  \* its initial value
          MaxDebt    \* 0 for a semaphore as it should be

VARIABLES permits,   \* permits that can be taken
          debt,      \* permits given out in advance and not paid back
          waiting,   \* threads inside wait()
          posting    \* threads inside post() that have not yet posted

semaphoreVars == <<permits, debt, waiting, posting>>

SemInit == permits = Permits0 /\ debt = 0 /\ waiting = {} /\ posting = {}

EnterWait(t) ==
    /\ t \notin waiting \cup posting
    /\ waiting' = waiting \cup {t}
    /\ UNCHANGED <<permits, debt, posting>>

Acquire(t) ==
    /\ t \in waiting
    /\ permits > 0
    /\ permits' = permits - 1
    /\ waiting' = waiting \ {t}
    /\ UNCHANGED <<debt, posting>>

EnterPost(t) ==
    /\ t \notin waiting \cup posting
    /\ posting' = posting \cup {t}
    /\ UNCHANGED <<permits, debt, waiting>>

Release(t) ==
    /\ t \in posting
    /\ posting' = posting \ {t}
    /\ \/ permits' = permits + 1 /\ UNCHANGED debt
       \/ debt > 0 /\ debt' = debt - 1 /\ UNCHANGED permits
    /\ UNCHANGED waiting

Borrow ==
    /\ debt < MaxDebt
    /\ debt' = debt + 1
    /\ permits' = permits + 1
    /\ UNCHANGED <<waiting, posting>>

SemNext ==
    \/ \E t \in Clients : EnterWait(t) \/ Acquire(t) \/ EnterPost(t) \/ Release(t)
    \/ Borrow

SemSpec == SemInit /\ [][SemNext]_semaphoreVars

=============================================================================
