------------------------ MODULE BenchTablesMtProofs ------------------------
(***************************************************************************)
(* Proofs about the multithreaded benchmark, for any number of threads,    *)
(* calls and passes.                                                       *)
(***************************************************************************)
EXTENDS BenchTablesMt, FiniteSetTheorems, TLAPS

\* There are as many workers as num_threads says.
LEMMA ThreadsFinite ==
    IsFiniteSet(Threads) /\ Cardinality(Threads) = NumThreads
<1>1. 0 \in Int /\ NumThreads - 1 \in Int
  BY MtAssumption
<1>2. QED
  BY <1>1, FS_Interval, MtAssumption DEF Threads

\* The sets of missing workers are finite, so their sizes are numbers, and a
\* size of zero means that no worker is missing.
LEMMA MissingFinite ==
    /\ IsFiniteSet(MissingA) /\ Cardinality(MissingA) \in 0..NumThreads
    /\ IsFiniteSet(MissingB) /\ Cardinality(MissingB) \in 0..NumThreads
    /\ Cardinality(MissingA) = 0 <=> MissingA = {}
    /\ Cardinality(MissingB) = 0 <=> MissingB = {}
<1>1. MissingA \subseteq Threads /\ MissingB \subseteq Threads
  BY DEF MissingA, MissingB
<1>2. QED
  BY <1>1, ThreadsFinite, FS_Subset, FS_CardinalityType, FS_EmptySet, MtAssumption

\* The initial state of the program satisfies the inductive invariant.
LEMMA InitInv == Init => Inv
<1> SUFFICES ASSUME Init PROVE Inv
  OBVIOUS
<1>1. TypeOK
  <2>1. mainPc \in MainPcs
    BY DEF Init, MainPcs
  <2>2. calls \in 0..NumCalls /\ i \in 0..NumThreads
    BY MtAssumption DEF Init
  <2>3. pc \in [Threads -> NotYetA \cup BeforeB \cup AfterB]
    BY DEF Init, NotYetA
  <2>4. warmup \in BOOLEAN /\ running \in BOOLEAN /\ timing \in BOOLEAN
    BY DEF Init
  <2>5. QED
    BY <2>1, <2>2, <2>3, <2>4 DEF Init, TypeOK
<1>2. Spawned = {}
  BY DEF Init, Spawned, Armed
<1>3. SpawnInv /\ CountInv /\ PastInv
  BY <1>2 DEF Init, SpawnInv, CountInv, PastInv, Armed
<1>4. MainInv
  BY MtAssumption DEF Init, MainInv
<1>5. LockInv
  BY DEF Init, LockInv, NoThread, Threads
<1>6. QED
  BY <1>1, <1>3, <1>4, <1>5 DEF Inv

Pcs == NotYetA \cup BeforeB \cup AfterB

\* Whatever a worker does, it has been spawned in the current call, and it
\* leaves the main thread's variables alone.
LEMMA WorkerContext ==
    ASSUME Inv, NEW t \in Threads, Worker(t)
    PROVE  /\ t \in Spawned /\ Armed
           /\ Spawned' = Spawned /\ (Armed <=> Armed')
           /\ UNCHANGED mainVars
           /\ \E q \in Pcs : pc' = [pc EXCEPT ![t] = q]
<1>1. pc[t] \notin {"none", "done"}
  BY DEF Worker, LoadA, CasA, WaitA, TestWarmup, WarmupPass, LoadB, CasB, WaitB,
         TestRunning, Pass, Lock, LoadTiming, StoreTiming, Unlock, Goto
<1>2. UNCHANGED mainVars
  BY DEF Worker, LoadA, CasA, WaitA, TestWarmup, WarmupPass, LoadB, CasB, WaitB,
         TestRunning, Pass, Lock, LoadTiming, StoreTiming, Unlock
<1>3. \E q \in Pcs : pc' = [pc EXCEPT ![t] = q]
  BY DEF Worker, LoadA, CasA, WaitA, TestWarmup, WarmupPass, LoadB, CasB, WaitB,
         TestRunning, Pass, Lock, LoadTiming, StoreTiming, Unlock, Goto, Pcs,
         NotYetA, BeforeB, AfterB
<1>4. t \in Spawned /\ Armed
  BY <1>1 DEF Inv, SpawnInv, Spawned
<1>5. QED
  BY <1>2, <1>3, <1>4 DEF mainVars, Spawned, Armed

\* A worker that stays on the same side of both barriers leaves the sets of
\* missing workers as they are.
LEMMA SameSide ==
    ASSUME Inv, NEW t \in Spawned, NEW q \in Pcs,
           pc' = [pc EXCEPT ![t] = q], Spawned' = Spawned,
           q \in NotYetA <=> pc[t] \in NotYetA,
           q \in AfterB <=> pc[t] \in AfterB
    PROVE  MissingA' = MissingA /\ MissingB' = MissingB
<1>1. \A u \in Threads : u # t => pc'[u] = pc[u]
  BY DEF Inv, TypeOK, Spawned
<1>2. pc'[t] = q /\ pc[t] \in Pcs /\ t \in Threads
  BY DEF Inv, TypeOK, Spawned, Pcs
<1>3. \A p \in Pcs : p \in NotYetA \cup BeforeB <=> p \notin AfterB
  BY DEF Pcs, NotYetA, BeforeB, AfterB
<1>4. \A u \in Threads : /\ pc'[u] \in NotYetA <=> pc[u] \in NotYetA
                         /\ pc'[u] \in NotYetA \cup BeforeB <=> pc[u] \in NotYetA \cup BeforeB
  BY <1>1, <1>2, <1>3
<1>5. QED
  BY <1>4 DEF MissingA, MissingB

\* A step of a worker keeps every part of the invariant.
LEMMA WorkerInv ==
    ASSUME Inv, NEW t \in Threads, Worker(t)
    PROVE  Inv'
<1> USE MtAssumption
<1>c. /\ t \in Spawned /\ Armed
      /\ Spawned' = Spawned /\ (Armed <=> Armed')
      /\ UNCHANGED mainVars
      /\ \E q \in Pcs : pc' = [pc EXCEPT ![t] = q]
  BY WorkerContext
<1>p. pc[t] \in Pcs /\ pc'[t] \in Pcs /\ (\A u \in Threads : u # t => pc'[u] = pc[u])
  BY <1>c DEF Inv, TypeOK, Pcs
<1>d. pc[t] \notin {"none", "done"} /\ pc'[t] # "none"
  BY DEF Worker, LoadA, CasA, WaitA, TestWarmup, WarmupPass, LoadB, CasB, WaitB,
         TestRunning, Pass, Lock, LoadTiming, StoreTiming, Unlock, Goto,
         Inv, TypeOK
<1>s. SpawnInv'
  BY <1>c, <1>p, <1>d DEF Inv, SpawnInv
<1>r. running' = running /\ warmup' = warmup
  BY DEF Worker, LoadA, CasA, WaitA, TestWarmup, WarmupPass, LoadB, CasB, WaitB,
         TestRunning, Pass, Lock, LoadTiming, StoreTiming, Unlock, syncVars
<1>m. MainInv'
  <2>1. pc'[t] = "pass" => running
    BY DEF Worker, LoadA, CasA, WaitA, TestWarmup, WarmupPass, LoadB, CasB, WaitB,
           TestRunning, Pass, Lock, LoadTiming, StoreTiming, Unlock, Goto,
           Inv, TypeOK
  <2>2. \A u \in Threads : pc'[u] = "pass" => mainPc \in {"running", "join"}
    BY <2>1, <1>p DEF Inv, MainInv
  <2>3. mainPc = "join" => \A u \in Threads : u < i => pc'[u] = "done"
    BY <1>p, <1>d DEF Inv, MainInv
  <2>4. mainPc = "sum" => \A u \in Threads : pc'[u] = "done"
    BY <1>p, <1>d DEF Inv, MainInv
  <2>5. QED
    BY <2>2, <2>3, <2>4, <1>c, <1>r DEF Inv, MainInv, mainVars
<1>a. CASE CasA(t) /\ barrier_a = copy[t]
  <2>1. pc[t] = "casA" /\ pc'[t] = "waitA"
    BY <1>a DEF CasA, Goto, Inv, TypeOK
  <2>2. barrier_a' = Dec(barrier_a) /\ barrier_b' = barrier_b
    BY <1>a DEF CasA
  <2>3. UNCHANGED <<copy, lockVars, thread_num_iters, passes>>
    BY <1>a DEF CasA
  <2>4. MissingA' = MissingA \ {t} /\ t \in MissingA
    BY <2>1, <1>c, <1>p DEF MissingA, NotYetA
  <2>5. MissingB' = MissingB
    <3>1. \A u \in Threads : pc'[u] \in NotYetA \cup BeforeB <=> pc[u] \in NotYetA \cup BeforeB
      BY <2>1, <1>p DEF NotYetA, BeforeB
    <3>2. QED
      BY <3>1, <1>c DEF MissingB
  <2>6. Cardinality(MissingA') = Cardinality(MissingA) - 1 /\ Cardinality(MissingA) > 0
    <3>1. IsFiniteSet(MissingA) /\ Cardinality(MissingA) \in Nat /\ Cardinality(MissingA) # 0
      BY <2>4, MissingFinite
    <3>2. Cardinality(MissingA \ {t}) = Cardinality(MissingA) - 1
      BY <2>4, <3>1, FS_RemoveElement
    <3>3. QED
      BY <2>4, <3>1, <3>2
  <2>7. CountInv'
    BY <2>2, <2>5, <2>6, <1>c DEF Inv, CountInv, Dec
  <2>8. PastInv'
    <3>1. \A u \in Spawned : pc[u] \in NotYetA \cup {"waitA"}
      BY <2>4 DEF Inv, PastInv
    <3>2. \A u \in Spawned : pc'[u] \in NotYetA \cup {"waitA"}
      BY <3>1, <2>1, <1>p DEF Spawned
    <3>3. QED
      BY <3>2, <1>c DEF PastInv, NotYetA, AfterB
  <2>9. TypeOK'
    <3>1. barrier_a \in 1..NumThreads /\ barrier_a' \in 0..NumThreads
      BY <2>2, <2>6, <1>c, MissingFinite DEF Inv, CountInv, Dec
    <3>2. pc' \in [Threads -> Pcs]
      BY <1>c DEF Inv, TypeOK, Pcs
    <3>3. QED
      BY <3>1, <3>2, <2>2, <2>3, <1>c, <1>r
         DEF Inv, TypeOK, mainVars, lockVars, Pcs
  <2>10. LockInv'
    BY <2>1, <2>3, <1>p, <1>c DEF Inv, LockInv, lockVars, mainVars, Name
  <2>11. QED
    BY <2>7, <2>8, <2>9, <2>10, <1>s, <1>m DEF Inv
<1>b. CASE CasB(t) /\ barrier_b = copy[t]
  <2>1. pc[t] = "casB" /\ pc'[t] = "waitB"
    BY <1>b DEF CasB, Goto, Inv, TypeOK
  <2>2. barrier_b' = Dec(barrier_b) /\ barrier_a' = barrier_a
    BY <1>b DEF CasB
  <2>3. UNCHANGED <<copy, lockVars, thread_num_iters, passes>>
    BY <1>b DEF CasB
  <2>4. MissingB' = MissingB \ {t} /\ t \in MissingB
    BY <2>1, <1>c, <1>p DEF MissingB, NotYetA, BeforeB
  <2>5. MissingA' = MissingA
    <3>1. \A u \in Threads : pc'[u] \in NotYetA <=> pc[u] \in NotYetA
      BY <2>1, <1>p DEF NotYetA
    <3>2. QED
      BY <3>1, <1>c DEF MissingA
  <2>6. Cardinality(MissingB') = Cardinality(MissingB) - 1 /\ Cardinality(MissingB) > 0
    <3>1. IsFiniteSet(MissingB) /\ Cardinality(MissingB) \in Nat /\ Cardinality(MissingB) # 0
      BY <2>4, MissingFinite
    <3>2. Cardinality(MissingB \ {t}) = Cardinality(MissingB) - 1
      BY <2>4, <3>1, FS_RemoveElement
    <3>3. QED
      BY <2>4, <3>1, <3>2
  <2>7. CountInv'
    BY <2>2, <2>5, <2>6, <1>c DEF Inv, CountInv, Dec
  <2>8. PastInv'
    <3>1. \A u \in Spawned : pc[u] \notin AfterB \ {"waitB"}
      BY <2>4 DEF Inv, PastInv
    <3>2. \A u \in Spawned : pc'[u] \notin AfterB \ {"waitB"}
      BY <3>1, <2>1, <1>p DEF Spawned
    <3>3. MissingA = {}
      BY <2>1, <1>c DEF Inv, PastInv, NotYetA
    <3>4. QED
      BY <3>2, <3>3, <2>5, <1>c DEF PastInv
  <2>9. TypeOK'
    <3>1. barrier_b \in 1..NumThreads /\ barrier_b' \in 0..NumThreads
      BY <2>2, <2>6, <1>c, MissingFinite DEF Inv, CountInv, Dec
    <3>2. pc' \in [Threads -> Pcs]
      BY <1>c DEF Inv, TypeOK, Pcs
    <3>3. QED
      BY <3>1, <3>2, <2>2, <2>3, <1>c, <1>r
         DEF Inv, TypeOK, mainVars, lockVars, Pcs
  <2>10. LockInv'
    BY <2>1, <2>3, <1>p, <1>c DEF Inv, LockInv, lockVars, mainVars, Name
  <2>11. QED
    BY <2>7, <2>8, <2>9, <2>10, <1>s, <1>m DEF Inv
<1>o. CASE ~(CasA(t) /\ barrier_a = copy[t]) /\ ~(CasB(t) /\ barrier_b = copy[t])
  <2>1. barrier_a' = barrier_a /\ barrier_b' = barrier_b
    BY <1>o DEF Worker, LoadA, CasA, WaitA, TestWarmup, WarmupPass, LoadB, CasB,
       WaitB, TestRunning, Pass, Lock, LoadTiming, StoreTiming, Unlock, syncVars
  <2>2. /\ pc'[t] \in NotYetA <=> pc[t] \in NotYetA
        /\ pc'[t] \in AfterB <=> pc[t] \in AfterB
    BY <1>o DEF Worker, LoadA, CasA, WaitA, TestWarmup, WarmupPass, LoadB, CasB,
       WaitB, TestRunning, Pass, Lock, LoadTiming, StoreTiming, Unlock, Goto,
       NotYetA, AfterB, Inv, TypeOK
  <2>3. MissingA' = MissingA /\ MissingB' = MissingB
    <3>1. PICK q \in Pcs : pc' = [pc EXCEPT ![t] = q]
      BY <1>c
    <3>2. pc'[t] = q
      BY <3>1 DEF Inv, TypeOK
    <3>3. QED
      BY <3>1, <3>2, <2>2, <1>c, SameSide
  <2>4. CountInv'
    BY <2>1, <2>3, <1>c DEF Inv, CountInv
  <2>5. PastInv'
    <3>1. pc'[t] \notin NotYetA \cup {"waitA"} => MissingA = {}
      <4>1. CASE WaitA(t)
        BY <4>1, <1>c, MissingFinite DEF WaitA, Inv, CountInv
      <4>2. CASE ~WaitA(t)
        <5>1. pc'[t] \notin NotYetA \cup {"waitA"} => pc[t] \notin NotYetA \cup {"waitA"}
          BY <4>2, <1>o DEF Worker, LoadA, CasA, TestWarmup, WarmupPass, LoadB,
             CasB, WaitB, TestRunning, Pass, Lock, LoadTiming, StoreTiming,
             Unlock, Goto, NotYetA, Inv, TypeOK
        <5>2. QED
          BY <5>1, <1>c DEF Inv, PastInv
      <4>3. QED
        BY <4>1, <4>2
    <3>2. pc'[t] \in AfterB \ {"waitB"} => MissingB = {}
      <4>1. CASE WaitB(t)
        BY <4>1, <1>c, MissingFinite DEF WaitB, Inv, CountInv
      <4>2. CASE ~WaitB(t)
        <5>1. pc'[t] \in AfterB \ {"waitB"} => pc[t] \in AfterB \ {"waitB"}
          BY <4>2, <1>o DEF Worker, LoadA, CasA, WaitA, TestWarmup, WarmupPass,
             LoadB, CasB, TestRunning, Pass, Lock, LoadTiming, StoreTiming,
             Unlock, Goto, AfterB, Inv, TypeOK
        <5>2. QED
          BY <5>1, <1>c DEF Inv, PastInv
      <4>3. QED
        BY <4>1, <4>2
    <3>3. QED
      BY <3>1, <3>2, <2>3, <1>c, <1>p DEF Inv, PastInv, Spawned
  <2>n. Name \in Names /\ Name' = Name
    BY <1>c DEF Inv, MainInv, TypeOK, Armed, Name, mainVars
  <2>6. TypeOK'
    <3>1. pc' \in [Threads -> Pcs]
      BY <1>c DEF Inv, TypeOK, Pcs
    <3>2. copy' \in [Threads -> Nat]
      BY DEF Worker, LoadA, CasA, WaitA, TestWarmup, WarmupPass, LoadB, CasB,
         WaitB, TestRunning, Pass, Lock, LoadTiming, StoreTiming, Unlock, Inv,
         TypeOK
    <3>3. /\ thread_num_iters' \in [Threads -> Nat]
          /\ passes' \in [Names -> Nat]
      <4>1. CASE Pass(t)
        BY <4>1, <2>n DEF Pass, Inv, TypeOK
      <4>2. CASE ~Pass(t)
        <5>1. UNCHANGED <<thread_num_iters, passes>>
          BY <4>2 DEF Worker, LoadA, CasA, WaitA, TestWarmup, WarmupPass, LoadB,
             CasB, WaitB, TestRunning, Lock, LoadTiming, StoreTiming, Unlock
        <5>2. QED
          BY <5>1 DEF Inv, TypeOK
      <4>3. QED
        BY <4>1, <4>2
    <3>4. /\ mylock' \in Threads \cup {NoThread}
          /\ loaded' \in [Threads -> Nat]
          /\ timings' \in [Names -> Nat]
      <4>1. CASE Lock(t)
        BY <4>1 DEF Lock, Inv, TypeOK
      <4>2. CASE LoadTiming(t)
        BY <4>2, <2>n DEF LoadTiming, Inv, TypeOK
      <4>3. CASE StoreTiming(t)
        BY <4>3, <2>n DEF StoreTiming, Inv, TypeOK
      <4>4. CASE Unlock(t)
        BY <4>4 DEF Unlock, Inv, TypeOK
      <4>5. CASE ~Lock(t) /\ ~LoadTiming(t) /\ ~StoreTiming(t) /\ ~Unlock(t)
        <5>1. UNCHANGED lockVars
          BY <4>5 DEF Worker, LoadA, CasA, WaitA, TestWarmup, WarmupPass, LoadB,
             CasB, WaitB, TestRunning, Pass
        <5>2. QED
          BY <5>1 DEF lockVars, Inv, TypeOK
      <4>6. QED
        BY <4>1, <4>2, <4>3, <4>4, <4>5
    <3>5. QED
      BY <3>1, <3>2, <3>3, <3>4, <2>1, <1>c, <1>r DEF Inv, TypeOK, mainVars, Pcs
  <2>7. LockInv'
    <3>1. CASE Lock(t)
      BY <3>1, <2>n, <1>p DEF Lock, Goto, Inv, LockInv, TypeOK, NoThread, Threads
    <3>2. CASE LoadTiming(t)
      BY <3>2, <2>n, <1>p DEF LoadTiming, Goto, Inv, LockInv, TypeOK
    <3>3. CASE StoreTiming(t)
      BY <3>3, <2>n, <1>p DEF StoreTiming, Goto, Inv, LockInv, TypeOK
    <3>4. CASE Unlock(t)
      BY <3>4, <2>n, <1>p DEF Unlock, Goto, Inv, LockInv, TypeOK, NoThread, Threads
    <3>5. CASE ~Lock(t) /\ ~LoadTiming(t) /\ ~StoreTiming(t) /\ ~Unlock(t)
      <4>1. UNCHANGED lockVars
        BY <3>5 DEF Worker, LoadA, CasA, WaitA, TestWarmup, WarmupPass, LoadB,
           CasB, WaitB, TestRunning, Pass
      <4>2. /\ pc[t] \notin {"load", "store", "unlock"}
            /\ pc'[t] \notin {"load", "store", "unlock"}
        BY <3>5 DEF Worker, LoadA, CasA, WaitA, TestWarmup, WarmupPass, LoadB,
           CasB, WaitB, TestRunning, Pass, Goto, Inv, TypeOK
      <4>3. QED
        BY <4>1, <4>2, <2>n, <1>p DEF lockVars, Inv, LockInv
    <3>6. QED
      BY <3>1, <3>2, <3>3, <3>4, <3>5
  <2>8. QED
    BY <2>4, <2>5, <2>6, <2>7, <1>s, <1>m DEF Inv
<1>q. QED
  BY <1>a, <1>b, <1>o

\* A step of the main thread inside a call that spawns no worker.
LEMMA QuietMain ==
    ASSUME Inv, UNCHANGED <<pc, barrier_a, barrier_b, calls, lockVars>>,
           Spawned' = Spawned, Armed <=> Armed'
    PROVE  SpawnInv' /\ CountInv' /\ PastInv' /\ LockInv'
<1>1. MissingA' = MissingA /\ MissingB' = MissingB
  BY DEF MissingA, MissingB
<1>2. QED
  BY <1>1 DEF Inv, SpawnInv, CountInv, PastInv, LockInv, Name, lockVars

\* A step of the main thread keeps every part of the invariant.
LEMMA MainStepInv ==
    ASSUME Inv, Main
    PROVE  Inv'
<1> USE MtAssumption
<1>1. CASE FillMap
  BY <1>1 DEF FillMap, MainGoto, Inv, TypeOK, SpawnInv, CountInv, PastInv, MainInv,
     LockInv, Spawned, Armed, MissingA, MissingB, MainPcs, Name, syncVars, lockVars
<1>2. CASE SetSync
  <2>1. Spawned' = {} /\ Armed' /\ MissingA' = Threads /\ MissingB' = Threads
    BY <1>2 DEF SetSync, MainGoto, Spawned, Armed, MissingA, MissingB, Threads
  <2>2. pc' = pc /\ \A t \in Threads : pc[t] \in {"none", "done"}
    BY <1>2 DEF SetSync, MainGoto, Inv, SpawnInv, Spawned, Armed
  <2>3. Cardinality(Threads) = NumThreads
    BY ThreadsFinite
  <2>4. SpawnInv' /\ CountInv' /\ PastInv'
    BY <1>2, <2>1, <2>2, <2>3 DEF SetSync, SpawnInv, CountInv, PastInv
  <2>5. MainInv'
    BY <1>2, <2>2 DEF SetSync, MainGoto, Inv, MainInv
  <2>6. LockInv'
    BY <1>2, <2>2 DEF SetSync, Inv, LockInv, Name, lockVars
  <2>7. TypeOK'
    <3>1. barrier_a' \in 0..NumThreads /\ barrier_b' \in 0..NumThreads /\ i' \in 0..NumThreads
      BY <1>2 DEF SetSync
    <3>2. QED
      BY <3>1, <1>2 DEF SetSync, MainGoto, Inv, TypeOK, MainPcs, lockVars
  <2>8. QED
    BY <2>4, <2>5, <2>6, <2>7 DEF Inv
<1>3. CASE Spawn
  <2>1. i \in Threads /\ i \notin Spawned /\ Spawned' = Spawned \cup {i}
    BY <1>3 DEF Spawn, MainGoto, Spawned, Armed, Threads, Inv, TypeOK
  <2>2. pc'[i] = "loadA" /\ \A t \in Threads : t # i => pc'[t] = pc[t]
    BY <1>3 DEF Spawn, Inv, TypeOK
  <2>3. Armed /\ Armed' /\ mainPc = "spawn" /\ mainPc' = "spawn"
    BY <1>3 DEF Spawn, MainGoto, Armed
  <2>4. MissingA' = MissingA /\ MissingB' = MissingB /\ i \in MissingA
    BY <2>1, <2>2 DEF MissingA, MissingB, NotYetA
  <2>5. SpawnInv'
    <3>1. Spawned \subseteq Threads
      BY DEF Spawned
    <3>2. QED
      BY <3>1, <2>1, <2>2 DEF Inv, SpawnInv
  <2>6. CountInv'
    BY <2>3, <2>4, <1>3 DEF Spawn, Inv, CountInv, syncVars
  <2>7. PastInv'
    <3>1. \A t \in Spawned : pc[t] \in NotYetA \cup {"waitA"}
      BY <2>4 DEF Inv, PastInv
    <3>2. \A t \in Spawned' : pc'[t] \in NotYetA \cup {"waitA"}
      BY <3>1, <2>1, <2>2 DEF Spawned, NotYetA
    <3>3. QED
      BY <3>2 DEF PastInv, NotYetA, AfterB
  <2>8. MainInv'
    BY <2>2, <2>3, <1>3 DEF Spawn, Inv, MainInv, syncVars
  <2>9. LockInv'
    <3>1. pc[i] \in {"none", "done"}
      BY <2>1 DEF Inv, SpawnInv
    <3>2. QED
      BY <3>1, <2>2, <1>3 DEF Spawn, Inv, LockInv, Name, lockVars
  <2>10. TypeOK'
    <3>1. i' \in 0..NumThreads
      BY <1>3 DEF Spawn, Threads
    <3>2. pc' \in [Threads -> NotYetA \cup BeforeB \cup AfterB]
      BY <1>3 DEF Spawn, Inv, TypeOK, NotYetA
    <3>3. QED
      BY <3>1, <3>2, <2>3, <1>3 DEF Spawn, Inv, TypeOK, MainPcs, syncVars, lockVars
  <2>11. QED
    BY <2>5, <2>6, <2>7, <2>8, <2>9, <2>10 DEF Inv
<1>4. CASE StartWarmup
  <2>1. UNCHANGED <<pc, barrier_a, barrier_b, calls, lockVars>> /\ Armed /\ Armed'
    BY <1>4 DEF StartWarmup, MainGoto, Armed, syncVars
  <2>2. Spawned' = Spawned
    BY <1>4 DEF StartWarmup, MainGoto, Spawned, Armed, Threads
  <2>3. SpawnInv' /\ CountInv' /\ PastInv' /\ LockInv'
    BY <2>1, <2>2, QuietMain
  <2>4. MainInv'
    BY <1>4 DEF StartWarmup, MainGoto, Inv, MainInv, TypeOK, syncVars, Threads
  <2>5. TypeOK'
    BY <1>4 DEF StartWarmup, MainGoto, Inv, TypeOK, MainPcs, syncVars, lockVars, Threads
  <2>6. QED
    BY <2>3, <2>4, <2>5 DEF Inv
<1>5. CASE StopWarmup
  <2>1. UNCHANGED <<pc, barrier_a, barrier_b, calls, lockVars>> /\ Armed /\ Armed'
    BY <1>5 DEF StopWarmup, MainGoto, Armed, syncVars
  <2>2. Spawned' = Spawned
    BY <1>5 DEF StopWarmup, MainGoto, Spawned, Armed, Threads
  <2>3. SpawnInv' /\ CountInv' /\ PastInv' /\ LockInv'
    BY <2>1, <2>2, QuietMain
  <2>4. MainInv'
    BY <1>5 DEF StopWarmup, MainGoto, Inv, MainInv, TypeOK, syncVars, Threads
  <2>5. TypeOK'
    BY <1>5 DEF StopWarmup, MainGoto, Inv, TypeOK, MainPcs, syncVars, lockVars, Threads
  <2>6. QED
    BY <2>3, <2>4, <2>5 DEF Inv
<1>6. CASE TakeStart
  <2>1. UNCHANGED <<pc, barrier_a, barrier_b, calls, lockVars>> /\ Armed /\ Armed'
    BY <1>6 DEF TakeStart, MainGoto, Armed, syncVars
  <2>2. Spawned' = Spawned
    BY <1>6 DEF TakeStart, MainGoto, Spawned, Armed, Threads
  <2>3. SpawnInv' /\ CountInv' /\ PastInv' /\ LockInv'
    BY <2>1, <2>2, QuietMain
  <2>4. MainInv'
    BY <1>6 DEF TakeStart, MainGoto, Inv, MainInv, TypeOK, syncVars, Threads
  <2>5. TypeOK'
    BY <1>6 DEF TakeStart, MainGoto, Inv, TypeOK, MainPcs, syncVars, lockVars, Threads
  <2>6. QED
    BY <2>3, <2>4, <2>5 DEF Inv
<1>7. CASE StartRunning
  <2>1. UNCHANGED <<pc, barrier_a, barrier_b, calls, lockVars>> /\ Armed /\ Armed'
    BY <1>7 DEF StartRunning, MainGoto, Armed, syncVars
  <2>2. Spawned' = Spawned
    BY <1>7 DEF StartRunning, MainGoto, Spawned, Armed, Threads
  <2>3. SpawnInv' /\ CountInv' /\ PastInv' /\ LockInv'
    BY <2>1, <2>2, QuietMain
  <2>4. MainInv'
    BY <1>7 DEF StartRunning, MainGoto, Inv, MainInv, TypeOK, syncVars, Threads
  <2>5. TypeOK'
    BY <1>7 DEF StartRunning, MainGoto, Inv, TypeOK, MainPcs, syncVars, lockVars, Threads
  <2>6. QED
    BY <2>3, <2>4, <2>5 DEF Inv
<1>8. CASE StopRunning
  <2>1. UNCHANGED <<pc, barrier_a, barrier_b, calls, lockVars>> /\ Armed /\ Armed'
    BY <1>8 DEF StopRunning, MainGoto, Armed, syncVars
  <2>2. Spawned' = Spawned
    BY <1>8 DEF StopRunning, MainGoto, Spawned, Armed, Threads
  <2>3. SpawnInv' /\ CountInv' /\ PastInv' /\ LockInv'
    BY <2>1, <2>2, QuietMain
  <2>4. MainInv'
    BY <1>8 DEF StopRunning, MainGoto, Inv, MainInv, TypeOK, syncVars, Threads
  <2>5. TypeOK'
    <3>1. i' \in 0..NumThreads /\ mainPc' \in MainPcs
      BY <1>8 DEF StopRunning, MainGoto, MainPcs
    <3>2. QED
      BY <3>1, <1>8 DEF StopRunning, Inv, TypeOK, syncVars, lockVars
  <2>6. QED
    BY <2>3, <2>4, <2>5 DEF Inv
<1>9. CASE Join
  <2>1. UNCHANGED <<pc, barrier_a, barrier_b, calls, lockVars>> /\ Armed /\ Armed'
    BY <1>9 DEF Join, MainGoto, Armed, syncVars
  <2>2. Spawned' = Spawned
    BY <1>9 DEF Join, MainGoto, Spawned, Armed, Threads
  <2>3. SpawnInv' /\ CountInv' /\ PastInv' /\ LockInv'
    BY <2>1, <2>2, QuietMain
  <2>4. MainInv'
    BY <1>9 DEF Join, MainGoto, Inv, MainInv, TypeOK, syncVars, Threads
  <2>5. TypeOK'
    BY <1>9 DEF Join, MainGoto, Inv, TypeOK, MainPcs, syncVars, lockVars, Threads
  <2>6. QED
    BY <2>3, <2>4, <2>5 DEF Inv
<1>10. CASE TakeEnd
  <2>1. UNCHANGED <<pc, barrier_a, barrier_b, calls, lockVars>> /\ Armed /\ Armed'
    BY <1>10 DEF TakeEnd, MainGoto, Armed, syncVars
  <2>2. Spawned' = Spawned
    BY <1>10 DEF TakeEnd, MainGoto, Spawned, Armed, Threads
  <2>3. SpawnInv' /\ CountInv' /\ PastInv' /\ LockInv'
    BY <2>1, <2>2, QuietMain
  <2>4. MainInv'
    BY <1>10 DEF TakeEnd, MainGoto, Inv, MainInv, TypeOK, syncVars, Threads
  <2>5. TypeOK'
    <3>1. i' \in 0..NumThreads /\ mainPc' \in MainPcs
      BY <1>10 DEF TakeEnd, MainGoto, MainPcs
    <3>2. QED
      BY <3>1, <1>10 DEF TakeEnd, Inv, TypeOK, syncVars, lockVars
  <2>6. QED
    BY <2>3, <2>4, <2>5 DEF Inv
<1>11. CASE AddIters
  <2>1. UNCHANGED <<pc, barrier_a, barrier_b, calls, lockVars>> /\ Armed /\ Armed'
    BY <1>11 DEF AddIters, MainGoto, Armed, syncVars
  <2>2. Spawned' = Spawned
    BY <1>11 DEF AddIters, MainGoto, Spawned, Armed, Threads
  <2>3. SpawnInv' /\ CountInv' /\ PastInv' /\ LockInv'
    BY <2>1, <2>2, QuietMain
  <2>4. MainInv'
    BY <1>11 DEF AddIters, MainGoto, Inv, MainInv, TypeOK, syncVars, Threads
  <2>5. TypeOK'
    <3>1. i' \in 0..NumThreads /\ mainPc' \in MainPcs
      BY <1>11 DEF AddIters, MainGoto, MainPcs, Threads
    <3>2. Name \in Names
      BY <1>11 DEF AddIters, MainGoto, Inv, MainInv, TypeOK, Name
    <3>3. num_iters_total' \in [Names -> Nat]
      BY <3>2, <1>11 DEF AddIters, Inv, TypeOK
    <3>4. QED
      BY <3>1, <3>3, <1>11 DEF AddIters, Inv, TypeOK, syncVars, lockVars
  <2>6. QED
    BY <2>3, <2>4, <2>5 DEF Inv
<1>12. CASE AddDuration
  <2>1. pc' = pc /\ \A t \in Threads : pc[t] = "done"
    BY <1>12 DEF AddDuration, MainGoto, Inv, MainInv
  <2>2. ~Armed' /\ Spawned' = {} /\ calls' = calls + 1
    BY <1>12 DEF AddDuration, MainGoto, Armed, Spawned
  <2>3. SpawnInv' /\ CountInv' /\ PastInv'
    BY <2>1, <2>2 DEF SpawnInv, CountInv, PastInv
  <2>4. calls < NumCalls /\ Name \in Names
    BY <1>12 DEF AddDuration, MainGoto, Inv, MainInv, TypeOK, Name
  <2>5. MainInv'
    BY <1>12, <2>1, <2>4 DEF AddDuration, MainGoto, Inv, MainInv, TypeOK, syncVars
  <2>6. LockInv'
    BY <1>12, <2>1 DEF AddDuration, Inv, LockInv
  <2>7. TypeOK'
    <3>1. calls' \in 0..NumCalls /\ i' \in 0..NumThreads /\ mainPc' \in MainPcs
      BY <1>12, <2>4 DEF AddDuration, MainGoto, Inv, TypeOK, MainPcs
    <3>2. timings' \in [Names -> Nat]
      BY <1>12, <2>4 DEF AddDuration, Inv, TypeOK
    <3>3. QED
      BY <3>1, <3>2, <1>12 DEF AddDuration, Inv, TypeOK, syncVars
  <2>8. QED
    BY <2>3, <2>5, <2>6, <2>7 DEF Inv
<1>13. QED
  BY <1>1, <1>2, <1>3, <1>4, <1>5, <1>6, <1>7, <1>8, <1>9, <1>10, <1>11, <1>12
     DEF Main

\* Every step, and every stuttering step, keeps the invariant.
LEMMA NextInv == Inv /\ [Next]_vars => Inv'
<1> SUFFICES ASSUME Inv, [Next]_vars PROVE Inv'
  OBVIOUS
<1>1. CASE UNCHANGED vars
  <2>1. Spawned' = Spawned /\ Armed' = Armed /\ Name' = Name
    BY <1>1 DEF vars, Spawned, Armed, Name
  <2>2. MissingA' = MissingA /\ MissingB' = MissingB
    BY <1>1, <2>1 DEF vars, MissingA, MissingB
  <2>3. TypeOK'
    BY <1>1 DEF vars, Inv, TypeOK
  <2>4. SpawnInv' /\ CountInv'
    BY <1>1, <2>1, <2>2 DEF vars, Inv, SpawnInv, CountInv
  <2>5. PastInv'
    BY <1>1, <2>1, <2>2 DEF vars, Inv, PastInv
  <2>6. MainInv'
    BY <1>1, <2>1, <2>2 DEF vars, Inv, MainInv
  <2>7. LockInv'
    BY <1>1, <2>1, <2>2 DEF vars, Inv, LockInv
  <2>8. QED
    BY <2>3, <2>4, <2>5, <2>6, <2>7 DEF Inv
<1>2. CASE Main
  BY <1>2, MainStepInv
<1>3. ASSUME NEW t \in Threads, Worker(t) PROVE Inv'
  BY <1>3, WorkerInv
<1>4. QED
  BY <1>1, <1>2, <1>3 DEF Next, Exited

\* The inductive invariant of the benchmark holds in every reachable state.
THEOREM InvHolds == SafetySpec => []Inv
  BY InitInv, NextInv, PTL DEF SafetySpec

\* The counters of both barriers never wrap and every variable keeps its type.
THEOREM TypeOKHolds == SafetySpec => []TypeOK
<1>1. Inv => TypeOK
  BY DEF Inv
<1>2. QED
  BY <1>1, InvHolds, PTL

\* No worker warms up until every worker has reached barrier_a.
THEOREM WarmUpTogetherHolds == SafetySpec => []WarmUpTogether
<1>1. Inv => WarmUpTogether
  <2> SUFFICES ASSUME Inv, NEW t \in Threads, pc[t] \in {"warm", "warmPass"}
               PROVE  \A u \in Threads : u \in Spawned /\ pc[u] \notin NotYetA
    BY DEF WarmUpTogether
  <2>1. t \in Spawned
    BY DEF Inv, SpawnInv
  <2>2. MissingA = {}
    BY <2>1 DEF Inv, PastInv, NotYetA
  <2>3. QED
    BY <2>2 DEF MissingA
<1>2. QED
  BY <1>1, InvHolds, PTL

\* No worker makes a measured pass until every worker has left its warm-up loop.
THEOREM MeasureTogetherHolds == SafetySpec => []MeasureTogether
<1>1. Inv => MeasureTogether
  <2> SUFFICES ASSUME Inv, NEW t \in Threads, pc[t] \in {"run", "pass"}
               PROVE  \A u \in Threads : u \in Spawned /\ pc[u] \in AfterB
    BY DEF MeasureTogether
  <2>1. t \in Spawned
    BY DEF Inv, SpawnInv
  <2>2. MissingB = {}
    BY <2>1 DEF Inv, PastInv, AfterB
  <2>3. QED
    BY <2>2 DEF MissingB, Inv, TypeOK
<1>2. QED
  BY <1>1, InvHolds, PTL

\* Every counted pass is made between the two time stamps.
THEOREM MeasuredInsideIntervalHolds == SafetySpec => []MeasuredInsideInterval
<1>1. Inv => MeasuredInsideInterval
  BY DEF Inv, MainInv, MeasuredInsideInterval
<1>2. QED
  BY <1>1, InvHolds, PTL

\* The table, barriers, flags and counters are set up with no worker running.
THEOREM QuietSetupHolds == SafetySpec => []QuietSetup
<1>1. Inv => QuietSetup
  BY DEF Inv, SpawnInv, Spawned, Armed, QuietSetup
<1>2. QED
  BY <1>1, InvHolds, PTL

\* No two threads touch the timings map at the same time.
THEOREM TimingsExclusiveHolds == SafetySpec => []TimingsExclusive
<1>1. Inv => TimingsExclusive
  BY DEF Inv, MainInv, LockInv, TimingsExclusive
<1>2. QED
  BY <1>1, InvHolds, PTL

\* One more completed call adds one to the calls of its own name only.
LEMMA OneMoreCall ==
    ASSUME NEW c \in Nat, NEW n
    PROVE  Cardinality(CallsOf(n, c + 1)) =
             Cardinality(CallsOf(n, c)) + IF NameOf[c + 1] = n THEN 1 ELSE 0
<1>1. IsFiniteSet(CallsOf(n, c))
  <2>1. IsFiniteSet(1..c)
    BY FS_Interval
  <2>2. CallsOf(n, c) \subseteq 1..c
    BY DEF CallsOf
  <2>3. QED
    BY <2>1, <2>2, FS_Subset
<1>2. Cardinality(CallsOf(n, c)) \in Nat
  BY <1>1, FS_CardinalityType
<1>3. CASE NameOf[c + 1] = n
  <2>1. CallsOf(n, c + 1) = CallsOf(n, c) \cup {c + 1} /\ c + 1 \notin CallsOf(n, c)
    BY <1>3 DEF CallsOf
  <2>2. QED
    BY <2>1, <1>1, <1>3, FS_AddElement
<1>4. CASE NameOf[c + 1] # n
  <2>1. CallsOf(n, c + 1) = CallsOf(n, c)
    BY <1>4 DEF CallsOf
  <2>2. QED
    BY <2>1, <1>2, <1>4
<1>5. QED
  BY <1>3, <1>4

\* No update of timings[metric][name] is lost: the unlocked addition of the main
\* thread and the locked additions of the workers never overlap.
THEOREM NoLostDurationHolds == SafetySpec => []NoLostDuration
<1>1. Init => NoLostDuration
  <2> SUFFICES ASSUME Init, NEW n \in Names
               PROVE  timings[n] = Cardinality(CallsOf(n, calls))
    BY DEF NoLostDuration
  <2>1. CallsOf(n, calls) = {}
    BY DEF Init, CallsOf
  <2>2. QED
    BY <2>1, FS_EmptySet DEF Init
<1>2. Inv /\ NoLostDuration /\ [Next]_vars => NoLostDuration'
  <2> SUFFICES ASSUME Inv, NoLostDuration, [Next]_vars, NEW n \in Names
               PROVE  timings'[n] = Cardinality(CallsOf(n, calls'))
    BY DEF NoLostDuration
  <2>1. CASE AddDuration
    <3>1. calls \in Nat /\ calls' = calls + 1
      BY <2>1 DEF AddDuration, Inv, TypeOK
    <3>3. Cardinality(CallsOf(n, calls')) =
            timings[n] + IF NameOf[calls + 1] = n THEN 1 ELSE 0
      BY <3>1, OneMoreCall DEF NoLostDuration
    <3>4. timings'[n] = timings[n] + IF Name = n THEN 1 ELSE 0
      BY <2>1 DEF AddDuration, Inv, TypeOK
    <3>5. QED
      BY <3>3, <3>4 DEF Name
  <2>2. CASE timings' = timings /\ calls' = calls
    BY <2>2 DEF NoLostDuration
  <2>3. ASSUME NEW t \in Threads, StoreTiming(t) PROVE timings' = timings /\ calls' = calls
    BY <2>3 DEF StoreTiming, Goto, Inv, LockInv, TypeOK, mainVars
  <2>4. ASSUME NEW t \in Threads, Worker(t), ~StoreTiming(t)
        PROVE  timings' = timings /\ calls' = calls
    BY <2>4 DEF Worker, LoadA, CasA, WaitA, TestWarmup, WarmupPass, LoadB, CasB,
       WaitB, TestRunning, Pass, Lock, LoadTiming, Unlock, mainVars, lockVars
  <2>5. CASE Main /\ ~AddDuration
    BY <2>5, <2>2 DEF Main, FillMap, SetSync, Spawn, StartWarmup, StopWarmup,
       TakeStart, StartRunning, StopRunning, Join, TakeEnd, AddIters, lockVars
  <2>6. CASE UNCHANGED vars
    BY <2>6, <2>2 DEF vars
  <2>7. QED
    BY <2>1, <2>2, <2>3, <2>4, <2>5, <2>6 DEF Next, Exited
<1>3. QED
  BY <1>1, <1>2, InvHolds, PTL DEF SafetySpec

\* The passes in the counters of the workers from one on: one pair per pass, so
\* that their number is a cardinality.
CountedFrom(iters, from) ==
    {p \in Threads \X (1..MaxIters) : from <= p[1] /\ p[2] <= iters[p[1]]}

\* What main has yet to add up: all counters, or those its last loop has not
\* reached.
Unreported == CountedFrom(thread_num_iters, IF mainPc = "sum" THEN i ELSE 0)

\* The invariant behind AllPassesReported: each pass is in the totals or in one
\* counter that main has yet to add, never in both.
PassInv ==
    /\ \A t \in Threads :
           /\ thread_num_iters[t] <= MaxIters
           /\ pc[t] = "pass" => thread_num_iters[t] < MaxIters
    /\ \A n \in Names :
           passes[n] = num_iters_total[n]
               + IF Armed /\ n = Name THEN Cardinality(Unreported) ELSE 0

\* The counters hold finitely many passes.
LEMMA CountedFinite ==
    ASSUME NEW iters, NEW from
    PROVE  IsFiniteSet(CountedFrom(iters, from)) /\ Cardinality(CountedFrom(iters, from)) \in Nat
<1>1. IsFiniteSet(1..MaxIters)
  BY FS_Interval, MtAssumption
<1>2. IsFiniteSet(Threads \X (1..MaxIters))
  BY <1>1, ThreadsFinite, FS_Product
<1>3. CountedFrom(iters, from) \in SUBSET (Threads \X (1..MaxIters))
  BY DEF CountedFrom
<1>4. QED
  BY <1>2, <1>3, FS_Subset, FS_CardinalityType

\* A pass of a worker is one more.
LEMMA OneMorePass ==
    ASSUME NEW iters \in [Threads -> Nat], NEW t \in Threads, iters[t] < MaxIters
    PROVE  Cardinality(CountedFrom([iters EXCEPT ![t] = @ + 1], 0)) =
             Cardinality(CountedFrom(iters, 0)) + 1
<1> DEFINE more == [iters EXCEPT ![t] = @ + 1]
           p == <<t, iters[t] + 1>>
<1>1. Threads \subseteq Nat /\ MaxIters \in Nat
  BY MtAssumption DEF Threads
<1>2. more[t] = iters[t] + 1 /\ \A u \in Threads : u # t => more[u] = iters[u]
  OBVIOUS
<1> HIDE DEF more
<1>3. p \in CountedFrom(more, 0) /\ p \notin CountedFrom(iters, 0)
  BY <1>1, <1>2 DEF CountedFrom
<1>4. ASSUME NEW q \in Threads \X (1..MaxIters)
      PROVE  q \in CountedFrom(more, 0) <=> q \in CountedFrom(iters, 0) \/ q = p
  <2>1. PICK u \in Threads, m \in 1..MaxIters : q = <<u, m>>
    OBVIOUS
  <2>2. CASE u # t
    BY <1>1, <1>2, <2>1, <2>2 DEF CountedFrom
  <2>3. CASE u = t
    BY <1>1, <1>2, <2>1, <2>3 DEF CountedFrom
  <2>4. QED
    BY <2>2, <2>3
<1>5. CountedFrom(more, 0) = CountedFrom(iters, 0) \cup {p}
  <2>1. CountedFrom(more, 0) \subseteq Threads \X (1..MaxIters)
        /\ CountedFrom(iters, 0) \subseteq Threads \X (1..MaxIters)
    BY DEF CountedFrom
  <2>2. QED
    BY <1>3, <1>4, <2>1
<1>6. Cardinality(CountedFrom(more, 0)) = Cardinality(CountedFrom(iters, 0)) + 1
  BY <1>3, <1>5, CountedFinite, FS_AddElement
<1>7. QED
  BY <1>6 DEF more

\* Adding up one counter takes as many passes off the rest as it holds.
LEMMA OneCounterLess ==
    ASSUME NEW iters \in [Threads -> Nat], NEW t \in Threads, iters[t] <= MaxIters
    PROVE  Cardinality(CountedFrom(iters, t)) = Cardinality(CountedFrom(iters, t + 1)) + iters[t]
<1> DEFINE rest == CountedFrom(iters, t + 1)
           own == {t} \X (1..iters[t])
<1>1. Threads \subseteq Nat /\ MaxIters \in Nat /\ t \in Nat /\ iters[t] \in Nat
  BY MtAssumption DEF Threads
<1>2. IsFiniteSet(own) /\ Cardinality(own) = iters[t]
  <2>1. IsFiniteSet({t}) /\ Cardinality({t}) = 1
    BY FS_Singleton
  <2>2. IsFiniteSet(1..iters[t]) /\ Cardinality(1..iters[t]) = iters[t]
    BY <1>1, FS_Interval
  <2>3. IsFiniteSet(own) /\ Cardinality(own) = 1 * iters[t]
    BY <2>1, <2>2, FS_Product
  <2>4. QED
    BY <1>1, <2>3
<1>3. rest \cap own = {}
  BY <1>1 DEF CountedFrom
<1>4. ASSUME NEW q \in Threads \X (1..MaxIters)
      PROVE  q \in CountedFrom(iters, t) <=> q \in rest \/ q \in own
  <2>1. PICK u \in Threads, m \in 1..MaxIters : q = <<u, m>>
    OBVIOUS
  <2>2. CASE u # t
    BY <1>1, <2>1, <2>2 DEF CountedFrom
  <2>3. CASE u = t
    BY <1>1, <2>1, <2>3 DEF CountedFrom
  <2>4. QED
    BY <2>2, <2>3
<1>5. CountedFrom(iters, t) = rest \cup own
  <2>1. CountedFrom(iters, t) \subseteq Threads \X (1..MaxIters)
        /\ rest \subseteq Threads \X (1..MaxIters) /\ own \subseteq Threads \X (1..MaxIters)
    BY <1>1 DEF CountedFrom
  <2>2. QED
    BY <1>4, <2>1
<1>6. IsFiniteSet(rest) /\ Cardinality(rest) \in Nat
  BY CountedFinite
<1> HIDE DEF rest, own
<1>7. Cardinality(rest \cup own) = Cardinality(rest) + Cardinality(own) - Cardinality(rest \cap own)
  BY <1>2, <1>6, FS_Union
<1>8. Cardinality(rest \cap own) = 0
  BY <1>3, FS_EmptySet
<1>9. QED
  BY <1>1, <1>2, <1>5, <1>6, <1>7, <1>8 DEF rest

\* Counters at zero hold no passes, and beyond the last worker there are none.
LEMMA NonePassed ==
    /\ CountedFrom([t \in Threads |-> 0], 0) = {}
    /\ \A iters : CountedFrom(iters, NumThreads) = {}
  BY MtAssumption DEF CountedFrom, Threads

\* The steps of a worker other than Pass change nothing that PassInv is about,
\* and only TestRunning, which checks the bound, leads to a pass.
LEMMA WorkerPassInv ==
    ASSUME Inv, PassInv, NEW t \in Threads, Worker(t)
    PROVE  PassInv'
<1>1. t \in Spawned /\ Armed /\ Armed' /\ mainVars' = mainVars
  BY WorkerContext
<1>2. Name' = Name /\ num_iters_total' = num_iters_total /\ mainPc' = mainPc /\ i' = i
  BY <1>1 DEF mainVars, Name
<1>3. CASE Pass(t)
  <2>1. mainPc # "sum" /\ pc[t] = "pass" /\ thread_num_iters[t] < MaxIters
    BY <1>3 DEF Pass, Goto, PassInv, Inv, MainInv
  <2>2. /\ thread_num_iters' = [thread_num_iters EXCEPT ![t] = @ + 1]
        /\ pc' = [pc EXCEPT ![t] = "run"]
        /\ passes' = [passes EXCEPT ![Name] = @ + 1]
    BY <1>3 DEF Pass, Goto
  <2>3. Cardinality(Unreported') = Cardinality(Unreported) + 1
    BY <1>2, <2>1, <2>2, OneMorePass DEF Unreported, Inv, TypeOK
  <2>4. Cardinality(Unreported) \in Nat
    BY CountedFinite DEF Unreported
  <2>5. \A n \in Names : passes'[n] = num_iters_total'[n]
               + IF Armed' /\ n = Name' THEN Cardinality(Unreported') ELSE 0
    BY <1>1, <1>2, <2>2, <2>3, <2>4 DEF PassInv, Inv, TypeOK
  <2>6. \A u \in Threads :
           /\ thread_num_iters'[u] <= MaxIters
           /\ pc'[u] = "pass" => thread_num_iters'[u] < MaxIters
    BY <2>1, <2>2, MtAssumption DEF PassInv, Inv, TypeOK
  <2>7. QED
    BY <2>5, <2>6 DEF PassInv
<1>4. CASE ~Pass(t)
  <2>1. thread_num_iters' = thread_num_iters /\ passes' = passes
    BY <1>4 DEF Worker, LoadA, CasA, WaitA, TestWarmup, WarmupPass, LoadB, CasB,
       WaitB, TestRunning, Lock, LoadTiming, StoreTiming, Unlock
  <2>2. \A u \in Threads : pc'[u] = "pass" => pc[u] = "pass" \/ (u = t /\ TestRunning(t) /\ running)
    BY <1>4 DEF Worker, LoadA, CasA, WaitA, TestWarmup, WarmupPass, LoadB, CasB,
       WaitB, TestRunning, Lock, LoadTiming, StoreTiming, Unlock, Goto, Inv, TypeOK
  <2>3. Unreported' = Unreported
    BY <1>2, <2>1 DEF Unreported
  <2>4. QED
    BY <1>1, <1>2, <2>1, <2>2, <2>3 DEF PassInv, TestRunning
<1>5. QED
  BY <1>3, <1>4

\* The steps of main keep every pass in one place.
LEMMA MainPassInv ==
    ASSUME Inv, PassInv, Main
    PROVE  PassInv'
<1> USE DEF MainGoto
<1>1. passes' = passes /\ \A t \in Threads : pc'[t] = "pass" => pc[t] = "pass"
  BY DEF Main, FillMap, SetSync, Spawn, StartWarmup, StopWarmup, TakeStart,
     StartRunning, StopRunning, Join, TakeEnd, AddIters, AddDuration, Inv, TypeOK
<1>2. CASE SetSync
  <2>1. thread_num_iters' = [t \in Threads |-> 0] /\ mainPc = "sync" /\ mainPc' = "spawn"
        /\ num_iters_total' = num_iters_total
    BY <1>2 DEF SetSync
  <2>2. Unreported' = {}
    BY <2>1, NonePassed DEF Unreported
  <2>3. Cardinality(Unreported') = 0
    BY <2>2, FS_EmptySet
  <2>4. \A t \in Threads : thread_num_iters'[t] = 0 /\ pc'[t] # "pass"
    BY <1>2, <2>1 DEF SetSync, Inv, MainInv
  <2>5. \A n \in Names : passes[n] = num_iters_total[n] + 0
    BY <2>1 DEF PassInv, Armed
  <2>6. \A n \in Names : passes'[n] = num_iters_total'[n]
                             + IF Armed' /\ n = Name' THEN Cardinality(Unreported') ELSE 0
    BY <1>1, <2>1, <2>3, <2>5
  <2>7. \A t \in Threads : thread_num_iters'[t] <= MaxIters
    BY <2>4, MtAssumption
  <2>8. QED
    BY <2>4, <2>6, <2>7 DEF PassInv
<1>3. CASE AddIters
  <2>1. /\ i \in Threads /\ mainPc = "sum" /\ mainPc' = "sum" /\ i' = i + 1
        /\ num_iters_total' = [num_iters_total EXCEPT ![Name] = @ + thread_num_iters[i]]
        /\ thread_num_iters' = thread_num_iters /\ calls' = calls
    BY <1>3 DEF AddIters
  <2>2. Armed /\ Armed' /\ Name' = Name
    BY <2>1 DEF Armed, Name
  <2>3. Cardinality(Unreported) = Cardinality(Unreported') + thread_num_iters[i]
    BY <2>1, OneCounterLess DEF Unreported, PassInv, Inv, TypeOK
  <2>4. Cardinality(Unreported') \in Nat
    BY CountedFinite DEF Unreported
  <2>5. \A n \in Names : passes'[n] = num_iters_total'[n]
               + IF Armed' /\ n = Name' THEN Cardinality(Unreported') ELSE 0
    BY <1>1, <2>1, <2>2, <2>3, <2>4 DEF PassInv, Inv, TypeOK
  <2>6. QED
    BY <1>1, <2>1, <2>5 DEF PassInv
<1>4. CASE AddDuration
  <2>1. /\ i = NumThreads /\ mainPc = "sum" /\ mainPc' \in {"finished", "fill"}
        /\ num_iters_total' = num_iters_total /\ thread_num_iters' = thread_num_iters
    BY <1>4 DEF AddDuration
  <2>2. Cardinality(Unreported) = 0
    BY <2>1, NonePassed, FS_EmptySet DEF Unreported
  <2>3. ~Armed'
    BY <2>1 DEF Armed
  <2>4. \A n \in Names : passes[n] = num_iters_total[n] + 0
    BY <2>2 DEF PassInv, Inv, TypeOK
  <2>5. QED
    BY <1>1, <2>1, <2>3, <2>4 DEF PassInv
<1>5. CASE FillMap
  BY <1>1, <1>5 DEF FillMap, PassInv, Armed
<1>6. CASE ~SetSync /\ ~AddIters /\ ~AddDuration /\ ~FillMap
  <2>1. /\ Armed /\ Armed' /\ mainPc # "sum" /\ (mainPc' = "sum" => i' = 0)
        /\ num_iters_total' = num_iters_total /\ thread_num_iters' = thread_num_iters
        /\ calls' = calls
    BY <1>6 DEF Main, Spawn, StartWarmup, StopWarmup, TakeStart, StartRunning,
       StopRunning, Join, TakeEnd, Armed
  <2>2. Unreported' = Unreported /\ Name' = Name
    BY <2>1 DEF Unreported, Name
  <2>3. QED
    BY <1>1, <2>1, <2>2 DEF PassInv
<1>7. QED
  BY <1>2, <1>3, <1>4, <1>5, <1>6

\* Between calls every pass the workers made is in the reported totals, once:
\* main adds each counter up exactly once, after its worker has stopped counting.
THEOREM AllPassesReportedHolds == SafetySpec => []AllPassesReported
<1>1. Init => PassInv
  BY MtAssumption DEF Init, PassInv, Armed
<1>2. Inv /\ PassInv /\ [Next]_vars => PassInv'
  <2> SUFFICES ASSUME Inv, PassInv, [Next]_vars PROVE PassInv'
    OBVIOUS
  <2>1. CASE UNCHANGED vars
    BY <2>1 DEF vars, PassInv, Armed, Name, Unreported
  <2>2. QED
    BY <2>1, WorkerPassInv, MainPassInv DEF Next, Exited
<1>3. Inv /\ PassInv => AllPassesReported
  <2> SUFFICES ASSUME Inv, PassInv, mainPc \in {"fill", "sync", "finished"}
               PROVE  num_iters_total = passes
    BY DEF AllPassesReported
  <2>1. \A n \in Names : passes[n] = num_iters_total[n] + 0
    BY DEF PassInv, Armed
  <2>2. num_iters_total \in [Names -> Nat] /\ passes \in [Names -> Nat]
    BY DEF Inv, TypeOK
  <2>3. \A n \in Names : passes[n] = num_iters_total[n]
    BY <2>1, <2>2
  <2>4. QED
    BY <2>2, <2>3
<1>4. QED
  BY <1>1, <1>2, <1>3, InvHolds, PTL DEF SafetySpec

\* A step that moves the stage of one worker, in the vocabulary of PhasedBench.
LEMMA MoveStage ==
    ASSUME Inv, NEW t \in Threads, Worker(t), NEW q \in Pcs,
           pc' = [pc EXCEPT ![t] = q]
    PROVE  /\ AbsStage[t] = StageOf(pc[t])
           /\ AbsStage' = [AbsStage EXCEPT ![t] = StageOf(q)]
           /\ AbsIters = thread_num_iters /\ AbsIters' = thread_num_iters'
           /\ calls' = calls
<1>1. t \in Spawned /\ Armed /\ Armed' /\ Spawned' = Spawned /\ calls' = calls
  BY WorkerContext DEF mainVars
<1>2. AbsStage' = [AbsStage EXCEPT ![t] = StageOf(q)]
  <2>1. AbsStage' = [u \in Threads |-> IF u \in Spawned THEN StageOf(pc'[u]) ELSE "gathering"]
    BY <1>1 DEF AbsStage, StageOf
  <2>2. pc'[t] = q /\ \A u \in Threads : u # t => pc'[u] = pc[u]
    BY DEF Inv, TypeOK
  <2>3. QED
    BY <1>1, <2>1, <2>2 DEF AbsStage
<1>3. QED
  BY <1>1, <1>2 DEF AbsStage, AbsIters

\* Steps of a worker are steps of PhasedBench, or leave its variables alone.
LEMMA WorkerRefines ==
    ASSUME Inv, NEW t \in Threads, Worker(t)
    PROVE  [Phased!PhasedNext]_(Phased!phaseVars)
<1> USE DEF Phased!phaseVars
<1>1. PICK q \in Pcs : pc' = [pc EXCEPT ![t] = q]
  BY WorkerContext
<1>2. /\ AbsStage[t] = StageOf(pc[t])
      /\ AbsStage' = [AbsStage EXCEPT ![t] = StageOf(q)]
      /\ AbsIters = thread_num_iters /\ AbsIters' = thread_num_iters'
      /\ calls' = calls
  BY <1>1, MoveStage
<1>3. pc'[t] = q /\ t \in Spawned
  BY <1>1, WorkerContext DEF Inv, TypeOK
<1>4. AbsStage \in [Threads -> {"gathering", "gathered", "warming", "warmed", "measured", "finished"}]
  BY DEF AbsStage, StageOf
<1>5. CASE StageOf(q) = StageOf(pc[t]) /\ ~Pass(t)
  <2>1. AbsStage' = AbsStage
    BY <1>2, <1>4, <1>5
  <2>2. thread_num_iters' = thread_num_iters
    BY <1>5 DEF Worker, LoadA, CasA, WaitA, TestWarmup, WarmupPass, LoadB, CasB,
       WaitB, TestRunning, Lock, LoadTiming, StoreTiming, Unlock
  <2>3. QED
    BY <2>1, <2>2, <1>2
<1>6. CASE Pass(t)
  <2>1. pc[t] = "pass" /\ q = "run"
    BY <1>6, <1>3 DEF Pass, Goto, Inv, TypeOK
  <2>2. AbsStage[t] = "measured" /\ AbsStage' = AbsStage
    BY <2>1, <1>2, <1>4 DEF StageOf, NotYetA
  <2>3. AbsIters' = [AbsIters EXCEPT ![t] = @ + 1]
    BY <1>6, <1>2 DEF Pass
  <2>4. Phased!CountPass(t)
    BY <2>2, <2>3, <1>2 DEF Phased!CountPass
  <2>5. QED
    BY <2>4 DEF Phased!PhasedNext
<1>7. CASE CasA(t) /\ q = "waitA"
  <2>1. pc[t] = "casA" /\ thread_num_iters' = thread_num_iters
    BY <1>7 DEF CasA, Goto
  <2>2. Phased!Gather(t)
    BY <2>1, <1>7, <1>2 DEF Phased!Gather, Phased!Move, StageOf, NotYetA
  <2>3. QED
    BY <2>2 DEF Phased!PhasedNext
<1>8. CASE WaitA(t)
  <2>1. pc[t] = "waitA" /\ q = "warm" /\ thread_num_iters' = thread_num_iters
    BY <1>8, <1>3 DEF WaitA, Goto, Inv, TypeOK
  <2>2. MissingA = {}
    BY <1>8, WorkerContext, MissingFinite DEF WaitA, Inv, CountInv
  <2>3. \A u \in Threads : AbsStage[u] # "gathering"
    BY <2>2 DEF MissingA, AbsStage, StageOf
  <2>4. Phased!StartWarming(t)
    BY <2>1, <2>3, <1>2 DEF Phased!StartWarming, Phased!Move, StageOf, NotYetA
  <2>5. QED
    BY <2>4 DEF Phased!PhasedNext
<1>9. CASE CasB(t) /\ q = "waitB"
  <2>1. pc[t] = "casB" /\ thread_num_iters' = thread_num_iters
    BY <1>9 DEF CasB, Goto
  <2>2. Phased!StopWarming(t)
    BY <2>1, <1>9, <1>2 DEF Phased!StopWarming, Phased!Move, StageOf, NotYetA
  <2>3. QED
    BY <2>2 DEF Phased!PhasedNext
<1>10. CASE WaitB(t)
  <2>1. pc[t] = "waitB" /\ q = "run" /\ thread_num_iters' = thread_num_iters
    BY <1>10, <1>3 DEF WaitB, Goto, Inv, TypeOK
  <2>2. MissingB = {}
    BY <1>10, WorkerContext, MissingFinite DEF WaitB, Inv, CountInv
  <2>3. \A u \in Threads : u \in Spawned /\ pc[u] \notin NotYetA \cup BeforeB
    BY <2>2 DEF MissingB
  <2>4. \A u \in Threads : AbsStage[u] \notin Phased!BeforeMeasuring
    BY <2>3 DEF AbsStage, StageOf, BeforeB, Phased!BeforeMeasuring
  <2>5. Phased!StartMeasuring(t)
    BY <2>1, <2>4, <1>2 DEF Phased!StartMeasuring, Phased!Move, StageOf, NotYetA
  <2>6. QED
    BY <2>5 DEF Phased!PhasedNext
<1>11. CASE TestRunning(t) /\ q = "lock"
  <2>1. pc[t] = "run" /\ thread_num_iters' = thread_num_iters
    BY <1>11 DEF TestRunning, Goto
  <2>2. Phased!Finish(t)
    BY <2>1, <1>11, <1>2 DEF Phased!Finish, Phased!Move, StageOf, NotYetA
  <2>3. QED
    BY <2>2 DEF Phased!PhasedNext
<1>12. \/ StageOf(q) = StageOf(pc[t]) /\ ~Pass(t)
       \/ Pass(t) \/ WaitA(t) \/ WaitB(t)
       \/ CasA(t) /\ q = "waitA"
       \/ CasB(t) /\ q = "waitB"
       \/ TestRunning(t) /\ q = "lock"
  <2>1. pc' = [pc EXCEPT ![t] = pc'[t]] /\ pc \in [Threads -> Pcs]
    BY <1>1, <1>3 DEF Inv, TypeOK, Pcs
  <2>2. CASE LoadA(t)
    BY <2>2, <2>1, <1>3 DEF LoadA, Pass, Goto, StageOf, NotYetA
  <2>3. CASE CasA(t)
    <3>1. pc[t] = "casA" /\ q \in {"waitA", "loadA"}
      BY <2>3, <2>1, <1>3 DEF CasA, Goto
    <3>2. CASE q = "loadA"
      <4>1. StageOf(q) = StageOf(pc[t])
        BY <3>1, <3>2 DEF StageOf, NotYetA
      <4>2. QED
        BY <4>1, <3>1 DEF Pass, Goto
    <3>3. QED
      BY <2>3, <3>1, <3>2
  <2>4. CASE TestWarmup(t) \/ WarmupPass(t) \/ LoadB(t)
    <3>1. /\ pc[t] \in {"warm", "warmPass", "loadB"}
          /\ q \in {"warm", "warmPass", "loadB", "casB"}
      BY <2>4, <2>1, <1>3 DEF TestWarmup, WarmupPass, LoadB, Goto
    <3>2. QED
      BY <3>1 DEF Pass, Goto, StageOf, NotYetA
  <2>5. CASE CasB(t)
    <3>1. pc[t] = "casB" /\ q \in {"waitB", "loadB"}
      BY <2>5, <2>1, <1>3 DEF CasB, Goto
    <3>2. CASE q = "loadB"
      <4>1. StageOf(q) = StageOf(pc[t])
        BY <3>1, <3>2 DEF StageOf, NotYetA
      <4>2. QED
        BY <4>1, <3>1 DEF Pass, Goto
    <3>3. QED
      BY <2>5, <3>1, <3>2
  <2>6. CASE TestRunning(t)
    BY <2>6, <2>1, <1>3 DEF TestRunning, Pass, Goto, StageOf, NotYetA
  <2>7. CASE Lock(t) \/ LoadTiming(t) \/ StoreTiming(t) \/ Unlock(t)
    BY <2>7, <2>1, <1>3 DEF Lock, LoadTiming, StoreTiming, Unlock, Pass, Goto,
       StageOf, NotYetA
  <2>8. QED
    BY <2>2, <2>3, <2>4, <2>5, <2>6, <2>7 DEF Worker
<1>13. QED
  BY <1>5, <1>6, <1>7, <1>8, <1>9, <1>10, <1>11, <1>12

\* Steps of the main thread leave the variables of PhasedBench alone, except
\* the last one of a call, which collects its counts.
LEMMA MainRefines ==
    ASSUME Inv, Main
    PROVE  [Phased!PhasedNext]_(Phased!phaseVars)
<1> USE MtAssumption DEF Phased!phaseVars
<1>1. CASE SetSync
  <2>1. Spawned' = {} /\ Spawned = {} /\ ~Armed /\ Armed' /\ calls' = calls
    BY <1>1 DEF SetSync, MainGoto, Spawned, Armed, Threads
  <2>2. QED
    BY <1>1, <2>1 DEF SetSync, AbsStage, AbsIters
<1>2. CASE FillMap
  BY <1>2 DEF FillMap, MainGoto, AbsStage, AbsIters, Spawned, Armed
<1>3. CASE Spawn
  <2>1. i \notin Spawned /\ Spawned' = Spawned \cup {i} /\ i \in Threads
    BY <1>3 DEF Spawn, MainGoto, Spawned, Armed, Threads, Inv, TypeOK
  <2>2. pc'[i] = "loadA" /\ \A t \in Threads : t # i => pc'[t] = pc[t]
    BY <1>3 DEF Spawn, Inv, TypeOK
  <2>3. AbsStage' = AbsStage
    BY <2>1, <2>2 DEF AbsStage, StageOf, NotYetA
  <2>4. QED
    BY <2>3, <1>3 DEF Spawn, MainGoto, AbsIters, Armed
<1>4. CASE StartWarmup \/ StopWarmup \/ TakeStart \/ StartRunning \/ StopRunning
           \/ Join \/ TakeEnd \/ AddIters
  <2>1. Armed /\ Armed' /\ UNCHANGED <<pc, calls, thread_num_iters>>
    BY <1>4 DEF StartWarmup, StopWarmup, TakeStart, StartRunning, StopRunning, Join,
       TakeEnd, AddIters, MainGoto, Armed
  <2>2. Spawned' = Spawned
    <3>1. mainPc' # "spawn" /\ (mainPc = "spawn" => i = NumThreads)
      BY <1>4 DEF StartWarmup, StopWarmup, TakeStart, StartRunning, StopRunning, Join,
         TakeEnd, AddIters, MainGoto
    <3>2. \A t \in Threads : t < NumThreads
      BY MtAssumption DEF Threads
    <3>3. QED
      BY <2>1, <3>1, <3>2 DEF Spawned
  <2>3. QED
    BY <2>1, <2>2 DEF AbsStage, AbsIters, StageOf
<1>5. CASE AddDuration
  <2>1. Armed /\ Spawned = Threads /\ ~Armed' /\ Spawned' = {}
    BY <1>5 DEF AddDuration, MainGoto, Armed, Spawned
  <2>2. \A t \in Threads : pc[t] = "done"
    BY <1>5 DEF AddDuration, MainGoto, Inv, MainInv
  <2>3. \A t \in Threads : AbsStage[t] = "finished"
    BY <2>1, <2>2 DEF AbsStage, StageOf, NotYetA
  <2>4. /\ AbsStage' = [t \in Threads |-> "gathering"]
        /\ AbsIters' = [t \in Threads |-> 0]
    BY <2>1 DEF AbsStage, AbsIters
  <2>5. calls < NumCalls /\ calls' = calls + 1
    BY <1>5 DEF AddDuration, MainGoto, Inv, MainInv
  <2>6. Phased!Collect
    BY <2>3, <2>4, <2>5 DEF Phased!Collect
  <2>7. QED
    BY <2>6 DEF Phased!PhasedNext
<1>6. QED
  BY <1>1, <1>2, <1>3, <1>4, <1>5 DEF Main

\* The spin barriers, flags and joins implement the phased measurement.
THEOREM RefinesPhasedBench == SafetySpec => ImplementsPhasedBench
<1>1. Init => Phased!PhasedInit
  <2> SUFFICES ASSUME Init PROVE Phased!PhasedInit
    OBVIOUS
  <2>1. Spawned = {} /\ ~Armed
    BY DEF Init, Spawned, Armed
  <2>2. QED
    BY <2>1 DEF Init, Phased!PhasedInit, AbsStage, AbsIters
<1>2. Inv /\ [Next]_vars => [Phased!PhasedNext]_(Phased!phaseVars)
  <2> SUFFICES ASSUME Inv, [Next]_vars PROVE [Phased!PhasedNext]_(Phased!phaseVars)
    OBVIOUS
  <2>1. CASE UNCHANGED vars
    BY <2>1 DEF vars, Phased!phaseVars, AbsStage, AbsIters, Spawned, Armed, StageOf
  <2>2. CASE Main
    BY <2>2, MainRefines
  <2>3. ASSUME NEW t \in Threads, Worker(t)
        PROVE  [Phased!PhasedNext]_(Phased!phaseVars)
    BY <2>3, WorkerRefines
  <2>4. QED
    BY <2>1, <2>2, <2>3 DEF Next, Exited
<1>3. QED
  BY <1>1, <1>2, InvHolds, PTL DEF SafetySpec, ImplementsPhasedBench, Phased!PhasedSpec
=============================================================================
