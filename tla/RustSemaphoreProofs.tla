------------------------- MODULE RustSemaphoreProofs -------------------------
(***************************************************************************)
(* Theorems about the semaphore of rust/semaphore.rs, for any number of    *)
(* threads, any initial value and any number of spurious returns, and what *)
(* they mean for the airport of rust/r_lab06.rs.                           *)
(***************************************************************************)
EXTENDS AirportRust, FiniteSetTheorems, TLAPS

USE ClientsAssumption, ValueAssumption, SpuriousAssumption

-----------------------------------------------------------------------------
(* Counting the threads at a place *)

\* The threads at any set of places can be counted.
LEMMA InFinite ==
    ASSUME NEW L
    PROVE  IsFiniteSet(In(L)) /\ Cardinality(In(L)) \in 0 .. Cardinality(Clients)
  <1>1. In(L) \in SUBSET Clients
    BY DEF In
  <1>2. IsFiniteSet(In(L)) /\ Cardinality(In(L)) <= Cardinality(Clients)
    BY <1>1, FS_Subset
  <1>3. QED
    BY <1>2, FS_CardinalityType

\* A thread that moves leaves one place and reaches another.
LEMMA MoveIn ==
    ASSUME call \in [Clients -> Calls], NEW t \in Clients, NEW from, NEW to,
           CallGoto(t, from, to), NEW L
    PROVE  /\ t \in In(L) <=> from \in L
           /\ In(L)' = IF to \in L THEN In(L) \cup {t} ELSE In(L) \ {t}
  BY DEF In, CallGoto

\* How many threads are at a place changes by the one that moves.
LEMMA MoveCount ==
    ASSUME call \in [Clients -> Calls], NEW t \in Clients, NEW from, NEW to,
           CallGoto(t, from, to), NEW L
    PROVE  Cardinality(In(L))' = Cardinality(In(L)) + (IF to \in L THEN 1 ELSE 0)
                                                    - (IF from \in L THEN 1 ELSE 0)
  <1>1. IsFiniteSet(In(L)) /\ Cardinality(In(L)) \in Nat
    BY InFinite, FS_CardinalityType
  <1>2. /\ t \in In(L) <=> from \in L
        /\ In(L)' = IF to \in L THEN In(L) \cup {t} ELSE In(L) \ {t}
    BY MoveIn
  <1>3. Cardinality(In(L) \cup {t}) =
          IF t \in In(L) THEN Cardinality(In(L)) ELSE Cardinality(In(L)) + 1
    BY <1>1, FS_AddElement
  <1>4. Cardinality(In(L) \ {t}) =
          IF t \in In(L) THEN Cardinality(In(L)) - 1 ELSE Cardinality(In(L))
    BY <1>1, FS_RemoveElement
  <1>5. CASE to \in L
    BY <1>1, <1>2, <1>3, <1>5
  <1>6. CASE to \notin L
    BY <1>1, <1>2, <1>4, <1>6
  <1>7. QED
    BY <1>5, <1>6

\* A place with a thread in it has a positive count.
LEMMA SomebodyIn ==
    ASSUME NEW L, NEW t \in Clients, call[t] \in L
    PROVE  Cardinality(In(L)) >= 1
  <1>1. IsFiniteSet(In(L)) /\ Cardinality(In(L)) \in Nat
    BY InFinite, FS_CardinalityType
  <1>2. In(L) # {}
    BY DEF In
  <1>3. QED
    BY <1>1, <1>2, FS_EmptySet

Wakes == NeedsNotify(value + 1) /\ In({"asleep"}) # {}

Inside == In({"wait", "wait_locked", "asleep", "woken"})

\* A post() leaves, and one sleeper becomes woken if there is one to notify.
LEMMA PostMoves ==
    ASSUME call \in [Clients -> Calls], NEW t \in Clients, PostLocked(t)
    PROVE  /\ t \in In({"post", "post_locked"})
           /\ In({"post", "post_locked"})' = In({"post", "post_locked"}) \ {t}
           /\ Inside' = Inside
           /\ ~Wakes => /\ In({"asleep"})' = In({"asleep"})
                        /\ In({"woken"})' = In({"woken"})
           /\ Wakes => \E u \in In({"asleep"}) :
                         /\ In({"asleep"})' = In({"asleep"}) \ {u}
                         /\ u \notin In({"woken"})
                         /\ In({"woken"})' = In({"woken"}) \cup {u}
  <1>1. CASE Wakes
    <2>1. PICK u \in In({"asleep"}) : call' = [call EXCEPT ![t] = "none", ![u] = "woken"]
      BY <1>1 DEF PostLocked, Wakes
    <2>2. u \in Clients /\ call[u] = "asleep" /\ call[t] = "post_locked" /\ u # t
      BY DEF In, PostLocked
    <2>3. \A x \in Clients : call'[x] = IF x = u THEN "woken"
                                        ELSE IF x = t THEN "none" ELSE call[x]
      BY <2>1, <2>2
    <2>4. QED
      BY <1>1, <2>2, <2>3 DEF In, Inside
  <1>2. CASE ~Wakes
    <2>1. call' = [call EXCEPT ![t] = "none"] /\ call[t] = "post_locked"
      BY <1>2 DEF PostLocked, Wakes
    <2>2. QED
      BY <1>2, <2>1 DEF In, Inside
  <1>3. QED
    BY <1>1, <1>2

\* What a post() does to the numbers of posts, sleepers and woken threads.
LEMMA PostCounts ==
    ASSUME call \in [Clients -> Calls], NEW t \in Clients, PostLocked(t)
    PROVE  /\ Cardinality(In({"post", "post_locked"}))' =
                Cardinality(In({"post", "post_locked"})) - 1
           /\ Cardinality(In({"asleep"}))' =
                Cardinality(In({"asleep"})) - (IF Wakes THEN 1 ELSE 0)
           /\ Cardinality(In({"woken"}))' =
                Cardinality(In({"woken"})) + (IF Wakes THEN 1 ELSE 0)
  <1>0. ASSUME NEW L PROVE IsFiniteSet(In(L)) /\ Cardinality(In(L)) \in Nat
    BY InFinite, FS_CardinalityType
  <1>1. Cardinality(In({"post", "post_locked"}))' =
          Cardinality(In({"post", "post_locked"})) - 1
    BY <1>0, PostMoves, FS_RemoveElement
  <1>2. CASE Wakes
    <2>1. PICK u \in In({"asleep"}) :
                 /\ In({"asleep"})' = In({"asleep"}) \ {u}
                 /\ u \notin In({"woken"})
                 /\ In({"woken"})' = In({"woken"}) \cup {u}
      BY <1>2, PostMoves
    <2>2. Cardinality(In({"asleep"}))' = Cardinality(In({"asleep"})) - 1
      BY <1>0, <2>1, FS_RemoveElement
    <2>3. Cardinality(In({"woken"}))' = Cardinality(In({"woken"})) + 1
      BY <1>0, <2>1, FS_AddElement
    <2>4. QED
      BY <1>1, <1>2, <2>2, <2>3
  <1>3. CASE ~Wakes
    BY <1>0, <1>1, <1>3, PostMoves
  <1>4. QED
    BY <1>2, <1>3

-----------------------------------------------------------------------------
(* The value counts the sleepers.  SemaphoreInv is not inductive: that the *)
(* value stays below its bound needs the room CallPost() has left for the  *)
(* posts that are under way.                                               *)

RoomForPosts == value + Cardinality(In({"post", "post_locked"})) <= MaxValue

SemInv ==
    /\ value \in Int
    /\ owner \in Clients \cup {Nobody}
    /\ \A t \in Clients : call[t] \in {"wait_locked", "post_locked"} <=> owner = t
    /\ call \in [Clients -> Calls]
    /\ strays \in 0 .. MaxSpurious
    /\ RoomForPosts
    /\ ValueCountsSleepers

\* The invariant gives the bounds of the value: nobody is owed more than the
\* sleepers and the spurious returns.
LEMMA SemInvImplies == SemInv => SemaphoreInv
  <1> SUFFICES ASSUME SemInv PROVE SemaphoreInv
    OBVIOUS
  <1>1. /\ Cardinality(In({"asleep"})) \in 0 .. Cardinality(Clients)
        /\ Cardinality(In({"post", "post_locked"})) \in Nat
        /\ Cardinality(Clients) \in Nat
    BY InFinite, FS_CardinalityType
  <1>2. value \in -(Cardinality(Clients) + strays) .. MaxValue
    BY <1>1 DEF SemInv, RoomForPosts, ValueCountsSleepers, Debt, Max0
  <1>3. QED
    BY <1>2 DEF SemInv, SemaphoreInv, TypeOK

\* A new semaphore has no sleepers and no debt.
LEMMA SemInvInit == new => SemInv
  <1> SUFFICES ASSUME new PROVE SemInv
    OBVIOUS
  <1>1. In({"asleep"}) = {} /\ In({"post", "post_locked"}) = {}
    BY DEF In, new
  <1>2. Cardinality(In({"asleep"})) = 0 /\ Cardinality(In({"post", "post_locked"})) = 0
    BY <1>1, FS_EmptySet
  <1>3. RoomForPosts /\ ValueCountsSleepers
    BY <1>2 DEF RoomForPosts, ValueCountsSleepers, Debt, Max0, new
  <1>4. QED
    BY <1>3 DEF SemInv, new, Calls

\* Every step of wait(), post() and Condvar::wait keeps it.
LEMMA SemInvStep == SemInv /\ [Next]_semVars => SemInv'
  <1> SUFFICES ASSUME SemInv, [Next]_semVars PROVE SemInv'
    OBVIOUS
  <1> DEFINE A == Cardinality(In({"asleep"}))
             P == Cardinality(In({"post", "post_locked"}))
  <1>0. /\ call \in [Clients -> Calls]
        /\ value \in Int /\ strays \in Int /\ A \in Nat /\ P \in Nat
        /\ \A t \in Clients : call[t] \in {"wait_locked", "post_locked"} <=> owner = t
    BY InFinite, FS_CardinalityType DEF SemInv
  <1>a. /\ value + P <= MaxValue
        /\ Max0(-value) - A \in 0 .. strays
        /\ strays \in 0 .. MaxSpurious
    BY DEF SemInv, RoomForPosts, ValueCountsSleepers, Debt
  <1>b. ASSUME NEW t \in Clients, NEW from, NEW to, CallGoto(t, from, to)
        PROVE  /\ A' = A + (IF to = "asleep" THEN 1 ELSE 0)
                         - (IF from = "asleep" THEN 1 ELSE 0)
               /\ P' = P + (IF to \in {"post", "post_locked"} THEN 1 ELSE 0)
                         - (IF from \in {"post", "post_locked"} THEN 1 ELSE 0)
    BY <1>0, <1>b, MoveCount
  <1> DEFINE Owned == /\ call \in [Clients -> Calls]
                      /\ owner \in Clients \cup {Nobody}
                      /\ \A t \in Clients :
                           call[t] \in {"wait_locked", "post_locked"} <=> owner = t
             Counts == /\ value \in Int
                       /\ strays \in 0 .. MaxSpurious
                       /\ value + P <= MaxValue
                       /\ Max0(-value) - A \in 0 .. strays
  <1>c. SUFFICES Owned' /\ Counts'
    BY DEF SemInv, RoomForPosts, ValueCountsSleepers, Debt
  <1>d. Owned
    BY DEF SemInv
  <1> USE <1>0, <1>a DEF Max0
  <1> HIDE DEF A, P
  <1>1. ASSUME NEW t \in Clients, CallWait(t) PROVE Owned' /\ Counts'
    <2>1. A' = A /\ P' = P
      BY <1>1, <1>b DEF CallWait
    <2>2. Owned'
      BY <1>1, <1>d DEF CallWait, CallGoto, Calls
    <2>3. QED
      BY <1>1, <2>1, <2>2 DEF CallWait
  <1>2. ASSUME NEW t \in Clients, CallPost(t) PROVE Owned' /\ Counts'
    <2>1. A' = A /\ P' = P + 1
      BY <1>2, <1>b DEF CallPost
    <2>2. Owned'
      BY <1>2, <1>d DEF CallPost, CallGoto, Calls
    <2>3. QED
      BY <1>2, <2>1, <2>2 DEF CallPost, P
  <1>3. ASSUME NEW t \in Clients, wait(t) PROVE Owned' /\ Counts'
    <2>1. CASE Lock(t, "wait", "wait_locked")
      <3>1. A' = A /\ P' = P
        BY <2>1, <1>b DEF Lock
      <3>2. Owned'
        BY <2>1, <1>d DEF Lock, CallGoto, Calls
      <3>3. QED
        BY <2>1, <3>1, <3>2 DEF Lock
    <2>2. CASE WaitLocked(t)
      <3>1. A' = A + (IF value - 1 < 0 THEN 1 ELSE 0) /\ P' = P
        BY <2>2, <1>b DEF WaitLocked
      <3>2. Owned'
        BY <2>2, <1>d DEF WaitLocked, CallGoto, Calls
      <3>3. QED
        BY <2>2, <3>1, <3>2 DEF WaitLocked
    <2>3. CASE WaitReturn(t)
      <3>1. A' = A /\ P' = P
        BY <2>3, <1>b DEF WaitReturn
      <3>2. Owned'
        BY <2>3, <1>d DEF WaitReturn, CallGoto, Calls
      <3>3. QED
        BY <2>3, <3>1, <3>2 DEF WaitReturn
    <2>4. QED
      BY <1>3, <2>1, <2>2, <2>3 DEF wait
  <1>4. ASSUME NEW t \in Clients, post(t) PROVE Owned' /\ Counts'
    <2>1. CASE Lock(t, "post", "post_locked")
      <3>1. A' = A /\ P' = P
        BY <2>1, <1>b DEF Lock
      <3>2. Owned'
        BY <2>1, <1>d DEF Lock, CallGoto, Calls
      <3>3. QED
        BY <2>1, <3>1, <3>2 DEF Lock
    <2>2. CASE PostLocked(t)
      <3>1. Owned'
        BY <2>2, <1>d DEF PostLocked, Calls, In
      <3>2. /\ P' = P - 1
            /\ A' = A - (IF Wakes THEN 1 ELSE 0)
        BY <2>2, PostCounts DEF A, P
      <3>3. A = 0 <=> In({"asleep"}) = {}
        BY InFinite, FS_EmptySet DEF A
      <3>4. Counts'
        BY <2>2, <3>2, <3>3 DEF PostLocked, NeedsNotify, Wakes
      <3>5. QED
        BY <3>1, <3>4
    <2>3. QED
      BY <1>4, <2>1, <2>2 DEF post
  <1>5. ASSUME NEW t \in Clients, SpuriousWakeup(t) PROVE Owned' /\ Counts'
    <2>1. A' = A - 1 /\ P' = P
      BY <1>5, <1>b DEF SpuriousWakeup
    <2>2. Owned'
      BY <1>5, <1>d DEF SpuriousWakeup, CallGoto, Calls
    <2>3. QED
      BY <1>5, <2>1, <2>2 DEF SpuriousWakeup
  <1>6. CASE UNCHANGED semVars
    <2>1. A' = A /\ P' = P
      BY <1>6 DEF A, P, In, semVars
    <2>2. QED
      BY <1>6, <2>1, <1>d DEF semVars
  <1>7. QED
    BY <1>1, <1>2, <1>3, <1>4, <1>5, <1>6 DEF Next

\* The mutex protects the value, and a negative value counts the threads
\* that sleep in wait(), up to one per spurious return: no post() of
\* semaphore.rs leaves a sleeper behind that it was meant to wake.
THEOREM SemaphoreCorrect == Spec => []SemaphoreInv
  BY SemInvInit, SemInvStep, SemInvImplies, PTL DEF Spec

-----------------------------------------------------------------------------
(* What users of the semaphore rely on *)

\* A new semaphore has Value0 permits and nobody inside.
LEMMA RefinesInit == new => Counting!SemInit
  <1> SUFFICES ASSUME new PROVE Counting!SemInit
    OBVIOUS
  <1>1. ASSUME NEW L, "none" \notin L PROVE In(L) = {} /\ Cardinality(In(L)) = 0
    <2>1. In(L) = {}
      BY <1>1 DEF In, new
    <2>2. QED
      BY <2>1, FS_EmptySet
  <1>2. Cardinality(In({"woken"})) = 0 /\ Cardinality(In({"asleep"})) = 0
    BY <1>1
  <1>3. /\ In({"wait", "wait_locked", "asleep", "woken"}) = {}
        /\ In({"post", "post_locked"}) = {}
    BY <1>1
  <1>4. QED
    BY <1>2, <1>3 DEF Counting!SemInit, Debt, Max0, new

\* Every step takes a permit, gives one back, lends one, enters a call, or
\* changes nothing a user can see.
LEMMA RefinesStep ==
    SemInv /\ [Next]_semVars => [Counting!SemNext]_(Counting!semaphoreVars)
  <1> SUFFICES ASSUME SemInv, [Next]_semVars
               PROVE  Counting!SemNext \/ UNCHANGED Counting!semaphoreVars
    OBVIOUS
  <1> DEFINE A == Cardinality(In({"asleep"}))
             W == Cardinality(In({"woken"}))
             Q == In({"post", "post_locked"})
  <1>0. /\ call \in [Clients -> Calls]
        /\ value \in Int /\ strays \in Int /\ A \in Nat /\ W \in Nat
        /\ Max0(-value) - A \in 0 .. strays
        /\ strays \in 0 .. MaxSpurious
    BY InFinite, FS_CardinalityType DEF SemInv, ValueCountsSleepers, Debt
  <1>a. ASSUME NEW t \in Clients, NEW from, NEW to, CallGoto(t, from, to)
        PROVE  /\ A' = A + (IF to = "asleep" THEN 1 ELSE 0)
                         - (IF from = "asleep" THEN 1 ELSE 0)
               /\ W' = W + (IF to = "woken" THEN 1 ELSE 0)
                         - (IF from = "woken" THEN 1 ELSE 0)
    BY <1>0, <1>a, MoveCount
  <1>b. ASSUME NEW t \in Clients, NEW from, NEW to, CallGoto(t, from, to)
        PROVE  /\ t \in Inside <=> from \in {"wait", "wait_locked", "asleep", "woken"}
               /\ Inside' = IF to \in {"wait", "wait_locked", "asleep", "woken"}
                            THEN Inside \cup {t} ELSE Inside \ {t}
               /\ t \in Q <=> from \in {"post", "post_locked"}
               /\ Q' = IF to \in {"post", "post_locked"} THEN Q \cup {t} ELSE Q \ {t}
    <2>1. /\ t \in Inside <=> from \in {"wait", "wait_locked", "asleep", "woken"}
          /\ Inside' = IF to \in {"wait", "wait_locked", "asleep", "woken"}
                       THEN Inside \cup {t} ELSE Inside \ {t}
      BY <1>0, <1>b DEF Inside, In, CallGoto
    <2>2. /\ t \in Q <=> from \in {"post", "post_locked"}
          /\ Q' = IF to \in {"post", "post_locked"} THEN Q \cup {t} ELSE Q \ {t}
      BY <1>0, <1>b DEF In, CallGoto
    <2>3. QED
      BY <2>1, <2>2
  <1> DEFINE Sees(p, d, w, q) == /\ Max0(value') + W' = p
                                 /\ Max0(-value') - A' = d
                                 /\ Inside' = w
                                 /\ Q' = q
             permitsBar == Max0(value) + W
             debtBar == Max0(-value) - A
  <1>c. ASSUME Sees(permitsBar, debtBar, Inside, Q)
        PROVE  UNCHANGED Counting!semaphoreVars
    BY <1>c DEF Counting!semaphoreVars, Debt, Inside
  <1>d. ASSUME NEW t \in Clients, t \notin Inside \cup Q,
               Sees(permitsBar, debtBar, Inside \cup {t}, Q)
        PROVE  Counting!EnterWait(t)
    BY <1>d DEF Counting!EnterWait, Debt, Inside
  <1>e. ASSUME NEW t \in Clients, t \in Inside, permitsBar > 0,
               Sees(permitsBar - 1, debtBar, Inside \ {t}, Q)
        PROVE  Counting!Acquire(t)
    BY <1>e DEF Counting!Acquire, Debt, Inside
  <1>f. ASSUME NEW t \in Clients, t \notin Inside \cup Q,
               Sees(permitsBar, debtBar, Inside, Q \cup {t})
        PROVE  Counting!EnterPost(t)
    BY <1>f DEF Counting!EnterPost, Debt, Inside
  <1>g. ASSUME NEW t \in Clients, t \in Q,
               \/ Sees(permitsBar + 1, debtBar, Inside, Q \ {t})
               \/ debtBar > 0 /\ Sees(permitsBar, debtBar - 1, Inside, Q \ {t})
        PROVE  Counting!Release(t)
    BY <1>g DEF Counting!Release, Debt, Inside
  <1>h. ASSUME debtBar < MaxSpurious, Sees(permitsBar + 1, debtBar + 1, Inside, Q)
        PROVE  Counting!Borrow
    BY <1>h DEF Counting!Borrow, Debt, Inside
  <1> USE <1>0 DEF Max0
  <1> HIDE DEF A, W, Q
  <1>1. ASSUME NEW t \in Clients, CallWait(t) PROVE Counting!EnterWait(t)
    <2>1. A' = A /\ W' = W /\ value' = value
      BY <1>1, <1>a DEF CallWait
    <2>2. t \notin Inside \cup Q /\ Inside' = Inside \cup {t} /\ Q' = Q
      <3>1. CallGoto(t, "none", "wait")
        BY <1>1 DEF CallWait
      <3>2. t \notin Inside /\ t \notin Q /\ Inside' = Inside \cup {t} /\ Q' = Q \ {t}
        BY <3>1, <1>b
      <3>3. QED
        BY <3>2
    <2>3. Sees(permitsBar, debtBar, Inside \cup {t}, Q)
      BY <2>1, <2>2
    <2>4. QED
      BY <2>2, <2>3, <1>d
  <1>2. ASSUME NEW t \in Clients, CallPost(t) PROVE Counting!EnterPost(t)
    <2>1. A' = A /\ W' = W /\ value' = value
      BY <1>2, <1>a DEF CallPost
    <2>2. t \notin Inside \cup Q /\ Inside' = Inside /\ Q' = Q \cup {t}
      BY <1>2, <1>b DEF CallPost
    <2>3. Sees(permitsBar, debtBar, Inside, Q \cup {t})
      BY <2>1, <2>2
    <2>4. QED
      BY <2>2, <2>3, <1>f
  <1>3. ASSUME NEW t \in Clients, Lock(t, "wait", "wait_locked") \/ Lock(t, "post", "post_locked")
        PROVE  UNCHANGED Counting!semaphoreVars
    BY <1>3, <1>a, <1>b, <1>c DEF Lock
  <1>4. ASSUME NEW t \in Clients, WaitLocked(t)
        PROVE  Counting!Acquire(t) \/ UNCHANGED Counting!semaphoreVars
    <2>1. CASE value - 1 < 0
      <3>1. A' = A + 1 /\ W' = W /\ value' = value - 1
        BY <1>4, <2>1, <1>a DEF WaitLocked
      <3>2. Inside' = Inside /\ Q' = Q
        BY <1>4, <2>1, <1>b DEF WaitLocked
      <3>3. Sees(permitsBar, debtBar, Inside, Q)
        BY <2>1, <3>1, <3>2
      <3>4. QED
        BY <3>3, <1>c
    <2>2. CASE value - 1 >= 0
      <3>1. A' = A /\ W' = W /\ value' = value - 1
        BY <1>4, <2>2, <1>a DEF WaitLocked
      <3>2. t \in Inside /\ Inside' = Inside \ {t} /\ Q' = Q
        BY <1>4, <2>2, <1>b DEF WaitLocked
      <3>3. permitsBar > 0 /\ Sees(permitsBar - 1, debtBar, Inside \ {t}, Q)
        BY <2>2, <3>1, <3>2
      <3>4. QED
        BY <3>2, <3>3, <1>e
    <2>3. QED
      BY <2>1, <2>2
  <1>5. ASSUME NEW t \in Clients, WaitReturn(t) PROVE Counting!Acquire(t)
    <2>1. W >= 1
      BY <1>5, SomebodyIn DEF W, WaitReturn, CallGoto
    <2>2. A' = A /\ W' = W - 1 /\ value' = value
      BY <1>5, <1>a DEF WaitReturn
    <2>3. t \in Inside /\ Inside' = Inside \ {t} /\ Q' = Q
      BY <1>5, <1>b DEF WaitReturn
    <2>4. permitsBar > 0 /\ Sees(permitsBar - 1, debtBar, Inside \ {t}, Q)
      BY <2>1, <2>2, <2>3
    <2>5. QED
      BY <2>3, <2>4, <1>e
  <1>6. ASSUME NEW t \in Clients, PostLocked(t) PROVE Counting!Release(t)
    <2>1. /\ t \in Q /\ Q' = Q \ {t} /\ Inside' = Inside
          /\ A' = A - (IF Wakes THEN 1 ELSE 0)
          /\ W' = W + (IF Wakes THEN 1 ELSE 0)
      BY <1>6, PostMoves, PostCounts DEF A, W, Q
    <2>2. A = 0 <=> In({"asleep"}) = {}
      BY InFinite, FS_EmptySet DEF A
    <2>3. value' = value + 1 /\ (Wakes <=> value + 1 <= 0 /\ A # 0)
      BY <1>6, <2>2 DEF PostLocked, Wakes, NeedsNotify
    <2>4. \/ Sees(permitsBar + 1, debtBar, Inside, Q \ {t})
          \/ debtBar > 0 /\ Sees(permitsBar, debtBar - 1, Inside, Q \ {t})
      BY <2>1, <2>3
    <2>5. QED
      BY <2>1, <2>4, <1>g
  <1>7. ASSUME NEW t \in Clients, SpuriousWakeup(t) PROVE Counting!Borrow
    <2>1. A' = A - 1 /\ W' = W + 1 /\ value' = value /\ strays < MaxSpurious
      BY <1>7, <1>a DEF SpuriousWakeup
    <2>2. Inside' = Inside /\ Q' = Q
      BY <1>7, <1>b DEF SpuriousWakeup
    <2>3. debtBar < MaxSpurious /\ Sees(permitsBar + 1, debtBar + 1, Inside, Q)
      BY <2>1, <2>2
    <2>4. QED
      BY <2>3, <1>h
  <1>8. CASE UNCHANGED semVars
    <2>1. A' = A /\ W' = W /\ Inside' = Inside /\ Q' = Q
      BY <1>8 DEF A, W, Q, Inside, In, semVars
    <2>2. QED
      BY <1>8, <2>1, <1>c DEF semVars
  <1>9. QED
    BY <1>1, <1>2, <1>3, <1>4, <1>5, <1>6, <1>7, <1>8 DEF Next, wait, post, Counting!SemNext

\* semaphore.rs is a counting semaphore, up to MaxSpurious permits that
\* Condvar::wait gives out in advance: every return from wait() takes one
\* permit, every post() yields one or pays one back.
THEOREM SemaphoreImplementsCounting == Spec => CountingRefinement
  <1>1. Spec => []SemInv
    BY SemInvInit, SemInvStep, PTL DEF Spec
  <1>2. QED
    BY <1>1, RefinesInit, RefinesStep, PTL DEF Spec, CountingRefinement, Counting!SemSpec

-----------------------------------------------------------------------------
(* The airport.  Its planes use the semaphore as any client may, so what   *)
(* is proved of the semaphore holds there as well.                         *)

\* The planes' steps are steps of clients of the semaphore, or leave it alone.
LEMMA AirportIsClient == [AirportNext]_vars => [Next]_semVars
  <1> SUFFICES ASSUME [AirportNext]_vars PROVE Next \/ UNCHANGED semVars
    OBVIOUS
  <1>1. CASE Main
    BY <1>1, Zenon DEF Main, Spawn, Join
  <1>2. ASSUME NEW t \in Clients, airplane(t) PROVE Next \/ UNCHANGED semVars
    BY <1>2, Zenon DEF airplane, AskToLand, Land, FreeRunway, Leave, Next
  <1>3. ASSUME NEW t \in Clients, SpuriousReturn(t) PROVE Next
    BY <1>3, Zenon DEF SpuriousReturn, Next
  <1>4. CASE UNCHANGED vars
    BY <1>4 DEF vars
  <1>5. QED
    BY <1>1, <1>2, <1>3, <1>4 DEF AirportNext, Terminated

\* The airport of r_lab06.rs keeps to the semaphore's protocol.
THEOREM AirportUsesSemaphore == AirportSpec => Spec
  BY AirportIsClient, PTL DEF AirportSpec, Spec, AirportInit

\* A plane has taken 1 from the value and has not given it back: it sleeps
\* in wait(), is on its way out of it, or is on the runway.
Claims == {t \in Clients : OnRunway(t) \/ call[t] \in {"asleep", "woken"}}

PlanePCs == {"absent", "flying", "asking", "landed", "leaving", "gone"}

\* OnlyStraysMeet is not inductive: it needs that the value counts the
\* claims, and that a plane is inside the semaphore only where its code
\* calls it.
AirportInv ==
    /\ SemInv
    /\ pc \in [Clients -> PlanePCs]
    /\ main_i \in Int
    /\ main_pc = "spawn" => \A t \in Clients : t >= main_i => pc[t] = "absent"
    /\ \A t \in Clients :
         /\ call[t] \in {"wait", "wait_locked", "asleep", "woken"} => pc[t] = "asking"
         /\ call[t] \in {"post", "post_locked"} => pc[t] = "leaving"
    /\ value + Cardinality(Claims) = 1

\* The claims can be counted.
LEMMA ClaimsFinite == IsFiniteSet(Claims) /\ Cardinality(Claims) \in Nat
  <1>1. Claims \in SUBSET Clients
    BY DEF Claims
  <1>2. QED
    BY <1>1, FS_Subset, FS_CardinalityType

\* Nobody claims anything when main() starts.
LEMMA AirportInvInit == AirportInit => AirportInv
  <1> SUFFICES ASSUME AirportInit PROVE AirportInv
    OBVIOUS
  <1>1. Claims = {}
    BY DEF Claims, OnRunway, AirportInit, new
  <1>2. Cardinality(Claims) = 0
    BY <1>1, FS_EmptySet
  <1>3. QED
    BY <1>2, SemInvInit, AirportAssumption DEF AirportInv, AirportInit, new, PlanePCs

\* Claims appear where wait() takes 1 from the value and vanish where post()
\* adds 1, and nowhere else.
LEMMA AirportInvStep == AirportInv /\ [AirportNext]_vars => AirportInv'
  <1> SUFFICES ASSUME AirportInv, [AirportNext]_vars PROVE AirportInv'
    OBVIOUS
  <1> DEFINE Planes == /\ pc \in [Clients -> PlanePCs]
                       /\ main_i \in Int
                       /\ main_pc = "spawn" =>
                            \A t \in Clients : t >= main_i => pc[t] = "absent"
                       /\ \A t \in Clients :
                            /\ call[t] \in {"wait", "wait_locked", "asleep", "woken"}
                                 => pc[t] = "asking"
                            /\ call[t] \in {"post", "post_locked"} => pc[t] = "leaving"
             Counted == value + Cardinality(Claims) = 1
  <1>0. SemInv'
    BY AirportIsClient, SemInvStep DEF AirportInv
  <1>a. SUFFICES Planes' /\ Counted'
    BY <1>0 DEF AirportInv
  <1>b. /\ Planes /\ Counted /\ value \in Int
        /\ call \in [Clients -> Calls]
    BY DEF AirportInv, SemInv
  <1>c. \A t \in Clients : t \in Int
    BY AirportAssumption
  <1>d. ASSUME Claims' = Claims, value' = value PROVE Counted'
    BY <1>b, <1>d
  <1>e. ASSUME NEW t \in Claims, Claims' = Claims \ {t}, value' = value + 1 PROVE Counted'
    <2>1. Cardinality(Claims \ {t}) = Cardinality(Claims) - 1
      BY ClaimsFinite, FS_RemoveElement
    <2>2. QED
      BY <1>b, <1>e, <2>1, ClaimsFinite
  <1>f. ASSUME NEW t, t \notin Claims, Claims' = Claims \cup {t}, value' = value - 1
        PROVE  Counted'
    <2>1. Cardinality(Claims \cup {t}) = Cardinality(Claims) + 1
      BY <1>f, ClaimsFinite, FS_AddElement
    <2>2. QED
      BY <1>b, <1>f, <2>1, ClaimsFinite
  <1> USE <1>b
  <1> HIDE DEF Counted
  <1>1. ASSUME NEW t \in Clients, Spawn(t) PROVE Planes' /\ Counted'
    <2>1. (pc' = [pc EXCEPT ![t] = "flying"] \/ pc' = pc) /\ UNCHANGED semVars
      BY <1>1, Zenon DEF Spawn
    <2>2. pc[t] = "absent"
      BY <1>1, <1>c DEF Spawn
    <2>3. Claims' = Claims /\ value' = value
      BY <2>1, <2>2 DEF Claims, OnRunway, semVars
    <2>4. Planes'
      <3>1. CASE main_pc' = "spawn"
        BY <1>1, <1>c, <2>1, <2>2, <3>1 DEF Spawn, PlanePCs, semVars
      <3>2. CASE main_pc' # "spawn"
        BY <1>1, <1>c, <2>1, <2>2, <3>2 DEF Spawn, PlanePCs, semVars
      <3>3. QED
        BY <3>1, <3>2
    <2>5. QED
      BY <2>3, <2>4, <1>d
  <1>2. ASSUME NEW t \in Clients, Join(t) PROVE Planes' /\ Counted'
    <2>1. Claims' = Claims /\ value' = value
      BY <1>2 DEF Join, Claims, OnRunway, semVars
    <2>2. Planes'
      BY <1>2, <1>c DEF Join, semVars
    <2>3. QED
      BY <2>1, <2>2, <1>d
  <1>3. ASSUME NEW t \in Clients, airplane(t) PROVE Planes' /\ Counted'
    <2>0. main_pc' = main_pc /\ main_i' = main_i
      BY <1>3 DEF airplane
    <2>1. CASE AskToLand(t)
      <3>1. Claims' = Claims /\ value' = value
        BY <2>1 DEF AskToLand, CallWait, CallGoto, Claims, OnRunway
      <3>2. Planes'
        BY <2>0, <2>1 DEF AskToLand, CallWait, CallGoto, PlanePCs
      <3>3. QED
        BY <3>1, <3>2, <1>d
    <2>2. CASE Land(t)
      <3>1. Claims' = Claims /\ value' = value
        BY <2>2 DEF Land, Claims, OnRunway, semVars
      <3>2. Planes'
        BY <2>0, <2>2 DEF Land, PlanePCs, semVars
      <3>3. QED
        BY <3>1, <3>2, <1>d
    <2>3. CASE FreeRunway(t)
      <3>1. Claims' = Claims /\ value' = value
        BY <2>3 DEF FreeRunway, CallPost, CallGoto, Claims, OnRunway
      <3>2. Planes'
        BY <2>0, <2>3 DEF FreeRunway, CallPost, CallGoto, PlanePCs
      <3>3. QED
        BY <3>1, <3>2, <1>d
    <2>4. CASE Leave(t)
      <3>1. Claims' = Claims /\ value' = value
        BY <2>4 DEF Leave, Claims, OnRunway, semVars
      <3>2. Planes'
        BY <2>0, <2>4 DEF Leave, PlanePCs, semVars
      <3>3. QED
        BY <3>1, <3>2, <1>d
    <2>5. CASE wait(t) /\ UNCHANGED pc
      <3>1. CASE Lock(t, "wait", "wait_locked")
        <4>1. Claims' = Claims /\ value' = value
          BY <2>5, <3>1 DEF Lock, CallGoto, Claims, OnRunway
        <4>2. Planes'
          BY <2>0, <2>5, <3>1 DEF Lock, CallGoto
        <4>3. QED
          BY <4>1, <4>2, <1>d
      <3>2. CASE WaitLocked(t)
        <4>1. t \notin Claims /\ Claims' = Claims \cup {t} /\ value' = value - 1
          BY <2>5, <3>2 DEF WaitLocked, CallGoto, Claims, OnRunway
        <4>2. Planes'
          BY <2>0, <2>5, <3>2 DEF WaitLocked, CallGoto
        <4>3. QED
          BY <4>1, <4>2, <1>f
      <3>3. CASE WaitReturn(t)
        <4>1. Claims' = Claims /\ value' = value
          BY <2>5, <3>3 DEF WaitReturn, CallGoto, Claims, OnRunway
        <4>2. Planes'
          BY <2>0, <2>5, <3>3 DEF WaitReturn, CallGoto
        <4>3. QED
          BY <4>1, <4>2, <1>d
      <3>4. QED
        BY <2>5, <3>1, <3>2, <3>3 DEF wait
    <2>6. CASE post(t) /\ UNCHANGED pc
      <3>1. CASE Lock(t, "post", "post_locked")
        <4>1. Claims' = Claims /\ value' = value
          BY <2>6, <3>1 DEF Lock, CallGoto, Claims, OnRunway
        <4>2. Planes'
          BY <2>0, <2>6, <3>1 DEF Lock, CallGoto
        <4>3. QED
          BY <4>1, <4>2, <1>d
      <3>2. CASE PostLocked(t)
        <4>1. /\ value' = value + 1 /\ call[t] = "post_locked" /\ call'[t] = "none"
              /\ \A u \in Clients \ {t} :
                   call'[u] = call[u] \/ (call[u] = "asleep" /\ call'[u] = "woken")
          <5>1. CASE Wakes
            <6>1. PICK u \in In({"asleep"}) :
                         call' = [call EXCEPT ![t] = "none", ![u] = "woken"]
              BY <3>2, <5>1 DEF PostLocked, Wakes
            <6>2. QED
              BY <3>2, <6>1 DEF PostLocked, In
          <5>2. CASE ~Wakes
            BY <3>2, <5>2 DEF PostLocked, Wakes
          <5>3. QED
            BY <5>1, <5>2
        <4>2. t \in Claims /\ Claims' = Claims \ {t}
          BY <2>6, <4>1 DEF Claims, OnRunway
        <4>3. Planes'
          BY <2>0, <2>6, <4>1
        <4>4. QED
          BY <4>1, <4>2, <4>3, <1>e
      <3>3. QED
        BY <2>6, <3>1, <3>2 DEF post
    <2>7. QED
      BY <1>3, <2>1, <2>2, <2>3, <2>4, <2>5, <2>6 DEF airplane
  <1>4. ASSUME NEW t \in Clients, SpuriousReturn(t) PROVE Planes' /\ Counted'
    <2>1. Claims' = Claims /\ value' = value
      BY <1>4 DEF SpuriousReturn, SpuriousWakeup, CallGoto, Claims, OnRunway
    <2>2. Planes'
      BY <1>4 DEF SpuriousReturn, SpuriousWakeup, CallGoto
    <2>3. QED
      BY <2>1, <2>2, <1>d
  <1>5. CASE UNCHANGED vars
    <2>1. Claims' = Claims /\ value' = value
      BY <1>5 DEF vars, semVars, Claims, OnRunway
    <2>2. Planes'
      BY <1>5 DEF vars, semVars
    <2>3. QED
      BY <2>1, <2>2, <1>d
  <1>6. QED
    BY <1>1, <1>2, <1>3, <1>4, <1>5 DEF AirportNext, Main, Terminated

\* Planes on the runway and sleeping planes are different claims, so the
\* debt of the semaphore bounds how many planes meet.
LEMMA AirportInvImplies == AirportInv => OnlyStraysMeet
  <1> SUFFICES ASSUME AirportInv PROVE OnlyStraysMeet
    OBVIOUS
  <1> DEFINE R == {t \in Clients : OnRunway(t)}
             S == In({"asleep"})
  <1>1. R \in SUBSET Clients /\ S \in SUBSET Clients
    BY DEF In
  <1>2. /\ IsFiniteSet(R) /\ Cardinality(R) \in Nat
        /\ IsFiniteSet(S) /\ Cardinality(S) \in Nat
    BY <1>1, FS_Subset, FS_CardinalityType
  <1>3. R \cap S = {}
    BY DEF In, OnRunway, AirportInv
  <1>4. R \cup S \in SUBSET Claims
    BY DEF In, Claims
  <1>5. Cardinality(R \cup S) = Cardinality(R) + Cardinality(S)
    BY <1>2, <1>3, FS_Union, FS_EmptySet
  <1>6. Cardinality(R \cup S) <= Cardinality(Claims)
    BY <1>4, ClaimsFinite, FS_Subset
  <1>7. /\ value \in Int /\ strays \in Int
        /\ Max0(-value) - Cardinality(S) \in 0 .. strays
        /\ value + Cardinality(Claims) = 1
    BY DEF AirportInv, SemInv, ValueCountsSleepers, Debt
  <1>8. Cardinality(R) <= 1 + strays
    BY <1>2, <1>5, <1>6, <1>7, ClaimsFinite DEF Max0
  <1>9. QED
    BY <1>8 DEF OnlyStraysMeet

\* "5 airplanes needs to land without crashing into each other": for any
\* number of planes, no more than one is on the runway besides those that a
\* spurious return of Condvar::wait let through.
THEOREM RunwayShared == AirportSpec => []OnlyStraysMeet
  BY AirportInvInit, AirportInvStep, AirportInvImplies, PTL DEF AirportSpec

=============================================================================
