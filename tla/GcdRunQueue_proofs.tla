-------------------------- MODULE GcdRunQueue_proofs --------------------------
(***************************************************************************)
(* What holds of GcdRunQueue for every finite set of clients, all of which *)
(* may start and stop the queue at once, and every set of tasks.           *)
(***************************************************************************)
EXTENDS GcdRunQueue, FiniteSetTheorems, TLAPS

Labels == {"outside", "suspend", "resume", "start", "release"}

Types ==
    /\ m_active \in BOOLEAN
    /\ suspensions \in Nat
    /\ at \in [Clients -> Labels]
    /\ owners \subseteq Clients
    /\ error \in BOOLEAN

\* The destructor executes on the thread that dropped the last pointer, when no
\* other is inside, and sets the flag before anything else.
DestroyedAlone ==
    \A t \in Clients :
        /\ t \notin owners /\ at[t] # "outside" =>
               owners = {} /\ \A u \in Clients \ {t} : at[u] = "outside"
        /\ at[t] = "suspend" => t \in owners
        /\ at[t] \in {"start", "release"} => t \notin owners
        /\ at[t] \in {"resume", "release"} /\ t \notin owners => m_active

CountInv == Types /\ DestroyedAlone /\ TogglesAddUp

USE GcdAssumption DEF Labels
-----------------------------------------------------------------------------
LEMMA BeforeIsFinite ==
    ASSUME NEW l
    PROVE  IsFiniteSet(Before(l)) /\ Cardinality(Before(l)) \in Nat
  BY FS_Subset, FS_CardinalityType DEF Before

\* A client that comes to a label or leaves it is counted there.
LEMMA Arrives ==
    ASSUME Types, NEW t \in Clients, NEW k \in Labels, at' = [at EXCEPT ![t] = k],
           NEW l \in Labels
    PROVE  /\ at[t] # l /\ k = l => Cardinality(Before(l)') = Cardinality(Before(l)) + 1
           /\ at[t] = l /\ k # l => Cardinality(Before(l)') = Cardinality(Before(l)) - 1
           /\ (at[t] = l <=> k = l) => Before(l)' = Before(l)
<1>1. ASSUME at[t] # l, k = l
      PROVE  Cardinality(Before(l)') = Cardinality(Before(l)) + 1
  <2>1. Before(l)' = Before(l) \cup {t} /\ t \notin Before(l)
      BY <1>1 DEF Before, Types
  <2> QED
      BY <2>1, BeforeIsFinite, FS_AddElement
<1>2. ASSUME at[t] = l, k # l
      PROVE  Cardinality(Before(l)') = Cardinality(Before(l)) - 1
  <2>1. Before(l)' = Before(l) \ {t} /\ t \in Before(l)
      BY <1>2 DEF Before, Types
  <2> QED
      BY <2>1, BeforeIsFinite, FS_RemoveElement
<1>3. ASSUME at[t] = l <=> k = l PROVE Before(l)' = Before(l)
    BY <1>3 DEF Before, Types
<1> QED
    BY <1>1, <1>2, <1>3

LEMMA InitCounts == QueueInit => CountInv
<1> SUFFICES ASSUME QueueInit PROVE CountInv
    OBVIOUS
<1>1. Before("suspend") = {} /\ Before("resume") = {}
    BY DEF QueueInit, Before
<1>2. Cardinality(Before("suspend")) = 0 /\ Cardinality(Before("resume")) = 0
    BY <1>1, FS_EmptySet
<1>3. suspensions = 0 /\ ~error /\ m_active
    BY DEF QueueInit
<1>4. TogglesAddUp
    BY <1>2, <1>3 DEF TogglesAddUp
<1> QED
    BY <1>4 DEF CountInv, Types, DestroyedAlone, QueueInit

\* A step that moves no client to or from the two calls, and neither the flag
\* nor the count.
LEMMA SumUnlessMoved ==
    ASSUME TogglesAddUp, UNCHANGED <<m_active, suspensions, error>>,
           Before("suspend")' = Before("suspend"), Before("resume")' = Before("resume")
    PROVE  TogglesAddUp'
  BY DEF TogglesAddUp

\* The exchange of the flag announces the call that makes the count agree again.
LEMMA ExchangeCounts ==
    ASSUME CountInv, ~error, NEW t \in Clients, at[t] \in {"outside", "start"},
           NEW value \in BOOLEAN, NEW other \in {"outside", "release"},
           Exchange(t, value, IF value THEN "resume" ELSE "suspend", other)
    PROVE  TogglesAddUp'
<1> DEFINE S == Cardinality(Before("suspend"))
           R == Cardinality(Before("resume"))
<1>1. S \in Nat /\ R \in Nat /\ suspensions \in Nat /\ m_active \in BOOLEAN
    BY BeforeIsFinite DEF CountInv, Types
<1>2. m_active' = value /\ suspensions' = suspensions /\ error' = error
    BY DEF Exchange
<1>3. suspensions + S - R = IF m_active THEN 0 ELSE 1
    BY DEF CountInv, TogglesAddUp
<1>4. CASE m_active = value
  <2>1. at' = [at EXCEPT ![t] = other]
      BY <1>4 DEF Exchange
  <2>2. Before("suspend")' = Before("suspend") /\ Before("resume")' = Before("resume")
      BY <2>1, Arrives DEF CountInv
  <2> QED
      BY <1>2, <1>4, <2>2, SumUnlessMoved DEF CountInv
<1>5. CASE m_active # value /\ value
  <2>1. at' = [at EXCEPT ![t] = "resume"]
      BY <1>5 DEF Exchange
  <2>2. S' = S /\ R' = R + 1
      BY <2>1, Arrives DEF CountInv
  <2>3. ~m_active /\ m_active'
      BY <1>1, <1>2, <1>5
  <2> HIDE DEF S, R
  <2>4. suspensions' + S' - R' = IF m_active' THEN 0 ELSE 1
      BY <1>1, <1>2, <1>3, <2>2, <2>3
  <2> QED
      BY <1>2, <2>4 DEF TogglesAddUp, S, R
<1>6. CASE m_active # value /\ ~value
  <2>1. at' = [at EXCEPT ![t] = "suspend"]
      BY <1>6 DEF Exchange
  <2>2. S' = S + 1 /\ R' = R
      BY <2>1, Arrives DEF CountInv
  <2> HIDE DEF S, R
  <2>3. suspensions' + S' - R' = IF m_active' THEN 0 ELSE 1
      BY <1>1, <1>2, <1>3, <1>6, <2>2
  <2> QED
      BY <1>2, <2>3 DEF TogglesAddUp, S, R
<1> QED
    BY <1>1, <1>4, <1>5, <1>6

LEMMA StepCounts == CountInv /\ [QueueNext]_queueVars => CountInv'
<1> SUFFICES ASSUME CountInv, [QueueNext]_queueVars PROVE CountInv'
    OBVIOUS
<1> DEFINE S == Cardinality(Before("suspend"))
           R == Cardinality(Before("resume"))
<1>0. S \in Nat /\ R \in Nat
    BY BeforeIsFinite
<1>1. ASSUME NEW t \in Clients, NEW d \in Tasks, Enqueue(t, d) PROVE CountInv'
  <2>1. UNCHANGED <<m_active, suspensions, at, owners, error>>
      BY <1>1 DEF Enqueue
  <2> QED
      BY <2>1 DEF CountInv, Types, DestroyedAlone, TogglesAddUp, Before
<1>2. ASSUME NEW t \in Clients, Stop(t) PROVE CountInv'
  <2>1. TogglesAddUp'
      BY <1>2, ExchangeCounts DEF Stop, Owner
  <2> QED
      BY <1>2, <2>1 DEF CountInv, Types, DestroyedAlone, Stop, Owner, Exchange
<1>3. ASSUME NEW t \in Clients, Start(t) PROVE CountInv'
  <2>1. AfterStart(t) \in {"outside", "release"} /\ at[t] \in {"outside", "start"} /\ ~error
      BY <1>3 DEF Start, AfterStart, Owner
  <2>2. TogglesAddUp'
      BY <1>3, <2>1, ExchangeCounts DEF Start
  <2> QED
      BY <1>3, <2>2 DEF CountInv, Types, DestroyedAlone, Start, Owner, Exchange, AfterStart
<1>4. ASSUME NEW t \in Clients, DropPointer(t) PROVE CountInv'
  <2>1. at' = [at EXCEPT ![t] = IF owners = {t} THEN "start" ELSE "outside"]
      BY <1>4 DEF DropPointer, DropTo
  <2>2. Before("suspend")' = Before("suspend") /\ Before("resume")' = Before("resume")
      BY <1>4, <2>1, Arrives DEF CountInv, DropPointer, DropTo, Owner
  <2>3. TogglesAddUp'
      BY <1>4, <2>2, SumUnlessMoved DEF CountInv, DropPointer, DropTo
  <2>4. owners' = owners \ {t} /\ t \in owners /\ at[t] = "outside" /\ UNCHANGED m_active
      BY <1>4 DEF DropPointer, DropTo, Owner
  <2>5. Types'
      BY <1>4, <2>1, <2>4 DEF CountInv, Types, DropPointer, DropTo
  <2>6. DestroyedAlone'
      BY <2>1, <2>4 DEF CountInv, Types, DestroyedAlone
  <2> QED
      BY <2>3, <2>5, <2>6 DEF CountInv
<1>5. ASSUME NEW t \in Clients, Suspend(t) PROVE CountInv'
  <2>1. S' = S - 1 /\ R' = R
      BY <1>5, Arrives DEF CountInv, Suspend
  <2> HIDE DEF S, R
  <2>2. /\ suspensions' = suspensions + 1 /\ UNCHANGED <<m_active, owners, error>> /\ ~error
        /\ suspensions \in Nat
      BY <1>5 DEF Suspend, CountInv, Types
  <2>3. suspensions + S - R = IF m_active THEN 0 ELSE 1
      BY <2>2 DEF CountInv, TogglesAddUp, S, R
  <2>4. suspensions' + S' - R' = IF m_active' THEN 0 ELSE 1
      BY <1>0, <2>1, <2>2, <2>3
  <2>5. TogglesAddUp'
      BY <2>2, <2>4 DEF TogglesAddUp, S, R
  <2> QED
      BY <1>5, <2>2, <2>5 DEF CountInv, Types, DestroyedAlone, Suspend
<1>6. ASSUME NEW t \in Clients, Resume(t) PROVE CountInv'
  <2>1. /\ at' = [at EXCEPT ![t] = AfterStart(t)] /\ AfterStart(t) \in {"outside", "release"}
        /\ at[t] = "resume"
      BY <1>6 DEF Resume, AfterStart
  <2>2. S' = S /\ R' = R - 1 /\ Before("suspend")' = Before("suspend")
      BY <2>1, Arrives DEF CountInv
  <2>3. R > 0
    <3>1. t \in Before("resume")
        BY <2>1 DEF Before
    <3> QED
        BY <3>1, BeforeIsFinite, FS_EmptySet
  <2>4. /\ suspensions' = IF suspensions > 0 THEN suspensions - 1 ELSE 0
        /\ UNCHANGED <<m_active, owners>> /\ ~error /\ suspensions \in Nat
        /\ error' = (suspensions = 0) /\ error' \in BOOLEAN
      BY <1>6 DEF Resume, CountInv, Types
  <2>5. suspensions + S - R = IF m_active THEN 0 ELSE 1
      BY <2>4 DEF CountInv, TogglesAddUp
  <2>6. TogglesAddUp'
    <3>1. CASE suspensions > 0
      <4> HIDE DEF S, R
      <4>1. suspensions' + S' - R' = IF m_active' THEN 0 ELSE 1
          BY <1>0, <2>2, <2>4, <2>5, <3>1
      <4>2. ~error'
        <5>1. suspensions # 0
            BY <2>4, <3>1
        <5> QED
            BY <2>4, <5>1, Zenon
      <4> QED
          BY <4>1, <4>2 DEF TogglesAddUp, S, R
    <3>2. CASE suspensions = 0
      <4>1. error'
          BY <2>4, <3>2
      <4>2. S > 0
        <5> HIDE DEF S, R
        <5> QED
            BY <1>0, <2>3, <2>5, <3>2
      <4>3. Before("suspend") # {}
          BY <4>2, FS_EmptySet
      <4> QED
          BY <2>2, <4>1, <4>3 DEF TogglesAddUp
    <3> QED
        BY <2>4, <3>1, <3>2
  <2>7. Types'
      BY <2>1, <2>4 DEF CountInv, Types
  <2>8. DestroyedAlone'
      BY <2>1, <2>4 DEF CountInv, Types, DestroyedAlone, AfterStart
  <2> QED
      BY <2>6, <2>7, <2>8 DEF CountInv
<1>7. ASSUME NEW t \in Clients, Release(t) PROVE CountInv'
  <2>1. at[t] = "release" /\ t \notin owners /\ m_active /\ ~error
      BY <1>7 DEF Release, CountInv, DestroyedAlone
  <2>2. \A u \in Clients \ {t} : at[u] = "outside"
      BY <2>1 DEF CountInv, DestroyedAlone
  <2>3. Before("suspend") = {} /\ Before("resume") = {}
      BY <2>1, <2>2 DEF Before
  <2>4. S = 0 /\ R = 0
      BY <2>3, FS_EmptySet
  <2>5. suspensions = 0
      BY <2>1, <2>4 DEF CountInv, TogglesAddUp, Types
  <2>6. error' = FALSE /\ error = FALSE
    <3>1. ~(suspensions > 0)
        BY <2>5
    <3>2. ~error'
        BY <1>7, <3>1, Zenon DEF Release
    <3>3. error' \in BOOLEAN
        BY <1>7 DEF Release
    <3> QED
        BY <2>1, <3>2, <3>3 DEF CountInv, Types
  <2>7. UNCHANGED <<m_active, suspensions, owners>> /\ at' = [at EXCEPT ![t] = "outside"]
      BY <1>7 DEF Release
  <2>8. Before("suspend")' = Before("suspend") /\ Before("resume")' = Before("resume")
      BY <2>1, <2>7, Arrives DEF CountInv
  <2>9. TogglesAddUp'
      BY <2>6, <2>7, <2>8, SumUnlessMoved DEF CountInv
  <2> QED
      BY <2>2, <2>6, <2>7, <2>9 DEF CountInv, Types, DestroyedAlone
<1>8. CASE BlockBegin \/ BlockEnd \/ UNCHANGED queueVars
  <2>1. UNCHANGED <<m_active, suspensions, at, owners, error>>
      BY <1>8 DEF BlockBegin, BlockEnd, queueVars
  <2> QED
      BY <2>1 DEF CountInv, Types, DestroyedAlone, TogglesAddUp, Before
<1> QED
    BY <1>1, <1>2, <1>3, <1>4, <1>5, <1>6, <1>7, <1>8 DEF QueueNext, QueueInside

(***************************************************************************)
(* With any number of clients that start and stop the queue at once, the   *)
(* flag says how often the queue is suspended once the calls under way are *)
(* done, the destructor never lets a suspended queue go, and libdispatch   *)
(* ends the program only where a resume overtakes a suspend                *)
(* (run_queue::start, stop and ~run_queue).                                *)
(***************************************************************************)
THEOREM TogglesBalance == QueueSpec => []TogglesAddUp
<1>1. CountInv => TogglesAddUp
    BY DEF CountInv
<1> QED
    BY <1>1, InitCounts, StepCounts, PTL DEF QueueSpec
=============================================================================
