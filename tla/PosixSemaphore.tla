--------------------------- MODULE PosixSemaphore ---------------------------
(***************************************************************************)
(* The counting semaphore of c/include/posix_semaphore.h.  A semaphore is  *)
(* a state variable holding a natural number; the operators below are the  *)
(* steps a thread takes on it.                                             *)
(*                                                                         *)
(* rk_sema_wait repeats sem_wait for as long as it is interrupted by a     *)
(* signal (EINTR), so an interrupted wait leaves the semaphore and the     *)
(* caller where they were: it is a stuttering step, and the only visible   *)
(* step is the one that takes a permit.                                    *)
(***************************************************************************)
LOCAL INSTANCE Integers

\* rk_sema_init(&s, shared, value): the semaphore starts with value permits.
rk_sema_init(s, value) == s = value

\* Slip: the permit is taken without waiting for it.
rk_sema_waitSlip(s) == s' = s - 1

\* rk_sema_wait(&s): blocks until a permit is there, then takes it.
rk_sema_wait(s) ==
    /\ s > 0
    /\ s' = s - 1

\* rk_sema_post(&s): returns a permit and never blocks.
rk_sema_post(s) == s' = s + 1

=============================================================================
