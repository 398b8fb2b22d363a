----------------------------- MODULE AirportRust -----------------------------
(***************************************************************************)
(* rust/r_lab06.rs: task 6, five airplanes that share one runway, on top   *)
(* of the semaphore of rust/semaphore.rs with initial value 1.  The planes *)
(* are the Clients of RustSemaphore, numbered 1 .. NO_TH.                  *)
(***************************************************************************)
EXTENDS RustSemaphore

CONSTANTS NO_TH,          \* 5
          SpawnMayFail    \* whether thread::spawn may panic

ASSUME AirportAssumption ==
    /\ NO_TH \in Nat \ {0}
    /\ Clients = 1..NO_TH
    /\ Value0 = 1
    /\ MaxValue > NO_TH
    /\ SpawnMayFail \in BOOLEAN

VARIABLES pc,             \* where each airplane is
          main_pc, main_i \* where main() is, and its loop index

vars == <<semVars, pc, main_pc, main_i>>

AirportInit ==
    /\ new
    /\ pc = [t \in Clients |-> "absent"]
    /\ main_pc = "spawn"
    /\ main_i = 1

ProcessEnded == main_pc \in {"exited", "panicked"}

Spawn(t) ==
    /\ main_pc = "spawn"
    /\ main_i = t
    /\ \/ /\ pc' = [pc EXCEPT ![t] = "flying"]
          /\ main_i' = IF t = NO_TH THEN 1 ELSE t + 1
          /\ main_pc' = IF t = NO_TH THEN "join" ELSE "spawn"
       \/ SpawnMayFail /\ main_pc' = "panicked" /\ UNCHANGED <<pc, main_i>>
    /\ UNCHANGED semVars

Join(t) ==
    /\ main_pc = "join"
    /\ main_i = t
    /\ pc[t] = "gone"
    /\ main_i' = t + 1
    /\ main_pc' = IF t = NO_TH THEN "exited" ELSE "join"
    /\ UNCHANGED <<semVars, pc>>

\* "permission to land", then sem.wait().
AskToLand(t) ==
    /\ pc[t] = "flying"
    /\ CallWait(t)
    /\ pc' = [pc EXCEPT ![t] = "asking"]

\* sem.wait() has returned: the plane lands and leaves the runway.
Land(t) ==
    /\ pc[t] = "asking" /\ call[t] = "none"
    /\ pc' = [pc EXCEPT ![t] = "landed"]
    /\ UNCHANGED semVars

\* Slip: a plane leaves without freeing the runway.
FreeRunwaySlip(t) ==
    /\ pc[t] = "landed"
    /\ pc' = [pc EXCEPT ![t] = "leaving"]
    /\ UNCHANGED semVars

\* "Runway is available", then sem.post().
FreeRunway(t) ==
    /\ pc[t] = "landed"
    /\ CallPost(t)
    /\ pc' = [pc EXCEPT ![t] = "leaving"]

Leave(t) ==
    /\ pc[t] = "leaving" /\ call[t] = "none"
    /\ pc' = [pc EXCEPT ![t] = "gone"]
    /\ UNCHANGED semVars

airplane(t) ==
    /\ ~ProcessEnded
    /\ \/ AskToLand(t) \/ Land(t) \/ FreeRunway(t) \/ Leave(t)
       \/ (wait(t) \/ post(t)) /\ UNCHANGED pc
    /\ UNCHANGED <<main_pc, main_i>>

SpuriousReturn(t) ==
    /\ ~ProcessEnded
    /\ SpuriousWakeup(t)
    /\ UNCHANGED <<pc, main_pc, main_i>>

Main == \E t \in Clients : Spawn(t) \/ Join(t)

Terminated == ProcessEnded /\ UNCHANGED vars

AirportNext == Main \/ (\E t \in Clients : airplane(t) \/ SpuriousReturn(t)) \/ Terminated

AirportSpec == AirportInit /\ [][AirportNext]_vars

\* All threads are scheduled.  Each of them locks the mutex a bounded number
\* of times, so nothing stronger than weak fairness is needed to get it.
\* Spurious returns need not happen.
FairAirport == AirportSpec /\ WF_vars(Main) /\ \A t \in Clients : WF_vars(airplane(t))

-----------------------------------------------------------------------------
(* Properties *)

\* From the return of sem.wait() to the step of sem.post() that gives the
\* permit back.
OnRunway(t) ==
    \/ pc[t] = "asking" /\ call[t] = "none"
    \/ pc[t] = "landed"
    \/ pc[t] = "leaving" /\ call[t] \in {"post", "post_locked"}

\* "5 airplanes needs to land without crashing into each other": one is on
\* the runway, and one more for each spurious return of Condvar::wait so far,
\* never more.
OnlyStraysMeet == Cardinality({t \in Clients : OnRunway(t)}) <= 1 + strays

\* Everybody gets to land, and the program ends.
AllLand == <>(main_pc = "panicked" \/ (main_pc = "exited" /\ \A t \in Clients : pc[t] = "gone"))

=============================================================================
