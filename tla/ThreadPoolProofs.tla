-------------------------- MODULE ThreadPoolProofs --------------------------
(* The invariants of ThreadPool for every set of workers and closures.     *)
EXTENDS ThreadPoolRefinement, FiniteSetTheorems, TLAPS

(* mu_ is held by whoever is inside a critical section, and by nobody else.*)
MutexInv ==
    /\ \A w \in Workers : wpc[w] = "check" <=> mu = w
    /\ opc \in {"add", "dtor"} <=> mu = "owner"

(* A worker holds a closure exactly while it calls it.                     *)
HandsInv == \A w \in Workers : wpc[w] = "run" <=> fn[w] # NoFn

(* What the phase of the owner says of the workers.                        *)
PhaseInv ==
    /\ done <=> opc \in {"join", "gone"}
    /\ opc \in {"ctor", "unwind", "unwound"} => added = << >>
    /\ opc \notin {"ctor", "unwind", "unwound"} => \A w \in Workers : wpc[w] # "unborn"
    /\ \A w \in Workers : wpc[w] = "exited" => done /\ work = << >>
    /\ opc = "gone" => \A w \in Workers : wpc[w] = "exited"
    /\ opc = "unwound" => \A w \in Workers : wpc[w] = "unborn"

(* No closure is added twice.                                              *)
DistinctInv ==
    \A i, j \in 1..Len(added) : added[i] = added[j] => i = j

(* A closure that was started was called or is in some worker's hands, and *)
(* only such a closure is.                                                 *)
AccountInv ==
    /\ \A i \in 1..Len(started) :
           calls[started[i]] = 1 \/ \E w \in Workers : fn[w] = started[i]
    /\ \A f \in Funcs :
           calls[f] = 1 => \E i \in 1..Len(started) : started[i] = f
    /\ \A w \in Workers :
           fn[w] # NoFn => \E i \in 1..Len(started) : started[i] = fn[w]

IInv ==
    /\ TypeOK
    /\ MutexInv
    /\ HandsInv
    /\ PhaseInv
    /\ NobodySleepsAfterDone
    /\ FifoStart
    /\ DistinctInv
    /\ AccountInv
    /\ AtMostOnce

-----------------------------------------------------------------------------
LEMMA InitIInv == Init => IInv
<1> USE PoolAssumption DEF Init
<1>1. Init => TypeOK
    <2>1. Init => wpc \in [Workers -> WorkerStates] BY DEF WorkerStates
    <2>2. Init => calls \in [Funcs -> 0..1] OBVIOUS
    <2>3. Init => fn \in [Workers -> Funcs \cup {NoFn}] OBVIOUS
    <2>4. Init => opc \in OwnerStates /\ spurious \in 0..MaxSpurious
        BY DEF OwnerStates
    <2>5. Init => /\ work \in Seq(Funcs)
                   /\ added \in Seq(Funcs)
                   /\ started \in Seq(Funcs)
        OBVIOUS
    <2>6. QED BY <2>1, <2>2, <2>3, <2>4, <2>5 DEF TypeOK
<1>2. Init => MutexInv /\ HandsInv BY DEF MutexInv, HandsInv
<1>3. Init => PhaseInv /\ NobodySleepsAfterDone
    BY DEF PhaseInv, NobodySleepsAfterDone
<1>4. Init => FifoStart /\ DistinctInv BY DEF FifoStart, DistinctInv
<1>5. Init => AccountInv /\ AtMostOnce BY DEF AccountInv, AtMostOnce
<1>6. QED BY <1>1, <1>2, <1>3, <1>4, <1>5 DEF IInv

LEMMA SpawnStep ==
    ASSUME NEW w \in Workers, IInv, Spawn(w)
    PROVE  IInv'
<1> USE PoolAssumption DEF IInv, Spawn, Spawned,
        poolState, history
<1>1. TypeOK'
    BY DEF TypeOK, WorkerStates, OwnerStates
<1>2. MutexInv'
    BY <1>1 DEF TypeOK, MutexInv
<1>3. HandsInv'
    BY <1>1 DEF TypeOK, HandsInv
<1>4. PhaseInv'
    BY <1>1 DEF TypeOK, MutexInv, PhaseInv
<1>5. NobodySleepsAfterDone'
    BY <1>1 DEF TypeOK, PhaseInv, NobodySleepsAfterDone, Waiting
<1>6. FifoStart'
    BY <1>1 DEF TypeOK, FifoStart
<1>7. DistinctInv'
    BY <1>1 DEF TypeOK, DistinctInv
<1>8. AccountInv'
    BY <1>1 DEF TypeOK, HandsInv, AccountInv
<1>9. AtMostOnce'
    BY <1>1 DEF TypeOK, HandsInv, AtMostOnce
<1>10. QED BY <1>1, <1>2, <1>3, <1>4, <1>5, <1>6, <1>7, <1>8, <1>9

LEMMA SpawnFailsStep ==
    ASSUME IInv, SpawnFails
    PROVE  IInv'
<1> USE PoolAssumption DEF IInv, SpawnFails,
        poolState, history
<1>1. TypeOK'
    BY DEF TypeOK, WorkerStates, OwnerStates
<1>2. MutexInv'
    BY <1>1 DEF TypeOK, MutexInv
<1>3. HandsInv'
    BY <1>1 DEF TypeOK, HandsInv
<1>4. PhaseInv'
    BY <1>1 DEF TypeOK, MutexInv, PhaseInv
<1>5. NobodySleepsAfterDone'
    BY <1>1 DEF TypeOK, PhaseInv, NobodySleepsAfterDone, Waiting
<1>6. FifoStart'
    BY <1>1 DEF TypeOK, FifoStart
<1>7. DistinctInv'
    BY <1>1 DEF TypeOK, DistinctInv
<1>8. AccountInv'
    BY <1>1 DEF TypeOK, HandsInv, AccountInv
<1>9. AtMostOnce'
    BY <1>1 DEF TypeOK, HandsInv, AtMostOnce
<1>10. QED BY <1>1, <1>2, <1>3, <1>4, <1>5, <1>6, <1>7, <1>8, <1>9

LEMMA EnterAddStep ==
    ASSUME IInv, EnterAdd
    PROVE  IInv'
<1> USE PoolAssumption DEF IInv, EnterAdd, Lock, Added,
        poolState, history
<1>1. TypeOK'
    BY DEF TypeOK, WorkerStates, OwnerStates
<1>2. MutexInv'
    BY <1>1 DEF TypeOK, MutexInv
<1>3. HandsInv'
    BY <1>1 DEF TypeOK, HandsInv
<1>4. PhaseInv'
    BY <1>1 DEF TypeOK, MutexInv, PhaseInv
<1>5. NobodySleepsAfterDone'
    BY <1>1 DEF TypeOK, PhaseInv, NobodySleepsAfterDone, Waiting
<1>6. FifoStart'
    BY <1>1 DEF TypeOK, FifoStart
<1>7. DistinctInv'
    BY <1>1 DEF TypeOK, DistinctInv
<1>8. AccountInv'
    BY <1>1 DEF TypeOK, HandsInv, AccountInv
<1>9. AtMostOnce'
    BY <1>1 DEF TypeOK, HandsInv, AtMostOnce
<1>10. QED BY <1>1, <1>2, <1>3, <1>4, <1>5, <1>6, <1>7, <1>8, <1>9

LEMMA AddStep ==
    ASSUME NEW f \in Funcs, IInv, Add(f)
    PROVE  IInv'
<1> USE PoolAssumption DEF IInv, Add, QueueAtBack, NotifyOne, Waiting, Added,
        poolState, history
<1>1. TypeOK'
    BY DEF TypeOK, WorkerStates, OwnerStates
<1>2. MutexInv'
    BY <1>1 DEF TypeOK, MutexInv
<1>3. HandsInv'
    BY <1>1 DEF TypeOK, HandsInv
<1>4. PhaseInv'
    BY <1>1 DEF TypeOK, MutexInv, PhaseInv
<1>5. NobodySleepsAfterDone'
    BY <1>1 DEF TypeOK, PhaseInv, NobodySleepsAfterDone, Waiting
<1>6. FifoStart'
    <2>1. /\ Len(work') = Len(work) + 1
          /\ \A i \in 1..Len(work) : work'[i] = work[i]
          /\ work'[Len(work) + 1] = f
        BY DEF TypeOK
    <2>2. /\ Len(added') = Len(added) + 1
          /\ \A i \in 1..Len(added) : added'[i] = added[i]
          /\ added'[Len(added) + 1] = f
        BY DEF TypeOK
    <2>. started' = started /\ Len(work) \in Nat /\ Len(started) \in Nat
        BY DEF TypeOK
    <2>. HIDE DEF Add
    <2>3. ASSUME NEW i \in 1..Len(work')
          PROVE  added'[Len(started) + i] = work'[i]
        <3>1. CASE i = Len(work) + 1
            BY <2>1, <2>2, <3>1 DEF FifoStart
        <3>2. CASE i \in 1..Len(work)
            <4>1. /\ Len(started) + i \in 1..Len(added)
                  /\ added[Len(started) + i] = work[i]
                BY <3>2 DEF FifoStart
            <4>2. QED BY <2>1, <2>2, <3>2, <4>1
        <3>3. QED BY <2>1, <3>1, <3>2
    <2>4. Len(added') = Len(started') + Len(work')
        BY <2>1, <2>2 DEF FifoStart
    <2>5. ASSUME NEW i \in 1..Len(started')
          PROVE  added'[i] = started'[i]
        BY <2>2, <2>5 DEF FifoStart
    <2>6. QED BY <2>3, <2>4, <2>5 DEF FifoStart
<1>7. DistinctInv'
    BY <1>1 DEF TypeOK, DistinctInv
<1>8. AccountInv'
    BY <1>1 DEF TypeOK, HandsInv, AccountInv
<1>9. AtMostOnce'
    BY <1>1 DEF TypeOK, HandsInv, AtMostOnce
<1>10. QED BY <1>1, <1>2, <1>3, <1>4, <1>5, <1>6, <1>7, <1>8, <1>9

LEMMA EnterDtorStep ==
    ASSUME IInv, EnterDtor
    PROVE  IInv'
<1> USE PoolAssumption DEF IInv, EnterDtor, Lock,
        poolState, history
<1>1. TypeOK'
    BY DEF TypeOK, WorkerStates, OwnerStates
<1>2. MutexInv'
    BY <1>1 DEF TypeOK, MutexInv
<1>3. HandsInv'
    BY <1>1 DEF TypeOK, HandsInv
<1>4. PhaseInv'
    BY <1>1 DEF TypeOK, MutexInv, PhaseInv
<1>5. NobodySleepsAfterDone'
    BY <1>1 DEF TypeOK, PhaseInv, NobodySleepsAfterDone, Waiting
<1>6. FifoStart'
    BY <1>1 DEF TypeOK, FifoStart
<1>7. DistinctInv'
    BY <1>1 DEF TypeOK, DistinctInv
<1>8. AccountInv'
    BY <1>1 DEF TypeOK, HandsInv, AccountInv
<1>9. AtMostOnce'
    BY <1>1 DEF TypeOK, HandsInv, AtMostOnce
<1>10. QED BY <1>1, <1>2, <1>3, <1>4, <1>5, <1>6, <1>7, <1>8, <1>9

LEMMA DtorStep ==
    ASSUME IInv, Dtor
    PROVE  IInv'
<1> USE PoolAssumption DEF IInv, Dtor, NotifyAll, Waiting,
        poolState, history
<1>1. TypeOK'
    BY DEF TypeOK, WorkerStates, OwnerStates
<1>2. MutexInv'
    BY <1>1 DEF TypeOK, MutexInv
<1>3. HandsInv'
    BY <1>1 DEF TypeOK, HandsInv
<1>4. PhaseInv'
    BY <1>1 DEF TypeOK, MutexInv, PhaseInv
<1>5. NobodySleepsAfterDone'
    BY <1>1 DEF TypeOK, PhaseInv, NobodySleepsAfterDone, Waiting
<1>6. FifoStart'
    BY <1>1 DEF TypeOK, FifoStart
<1>7. DistinctInv'
    BY <1>1 DEF TypeOK, DistinctInv
<1>8. AccountInv'
    BY <1>1 DEF TypeOK, HandsInv, AccountInv
<1>9. AtMostOnce'
    BY <1>1 DEF TypeOK, HandsInv, AtMostOnce
<1>10. QED BY <1>1, <1>2, <1>3, <1>4, <1>5, <1>6, <1>7, <1>8, <1>9

LEMMA JoinStep ==
    ASSUME IInv, Join
    PROVE  IInv'
<1> USE PoolAssumption DEF IInv, Join, Joinable, Spawned,
        poolState, history
<1>1. TypeOK'
    BY DEF TypeOK, WorkerStates, OwnerStates
<1>2. MutexInv'
    BY <1>1 DEF TypeOK, MutexInv
<1>3. HandsInv'
    BY <1>1 DEF TypeOK, HandsInv
<1>4. PhaseInv'
    BY <1>1 DEF TypeOK, MutexInv, PhaseInv
<1>5. NobodySleepsAfterDone'
    BY <1>1 DEF TypeOK, PhaseInv, NobodySleepsAfterDone, Waiting
<1>6. FifoStart'
    BY <1>1 DEF TypeOK, FifoStart
<1>7. DistinctInv'
    BY <1>1 DEF TypeOK, DistinctInv
<1>8. AccountInv'
    BY <1>1 DEF TypeOK, HandsInv, AccountInv
<1>9. AtMostOnce'
    BY <1>1 DEF TypeOK, HandsInv, AtMostOnce
<1>10. QED BY <1>1, <1>2, <1>3, <1>4, <1>5, <1>6, <1>7, <1>8, <1>9

LEMMA EnterStep ==
    ASSUME NEW w \in Workers, IInv, Enter(w)
    PROVE  IInv'
<1> USE PoolAssumption DEF IInv, Enter,
        poolState, history
<1>1. TypeOK'
    BY DEF TypeOK, WorkerStates, OwnerStates
<1>2. MutexInv'
    BY <1>1 DEF TypeOK, MutexInv
<1>3. HandsInv'
    BY <1>1 DEF TypeOK, HandsInv
<1>4. PhaseInv'
    BY <1>1 DEF TypeOK, MutexInv, PhaseInv
<1>5. NobodySleepsAfterDone'
    BY <1>1 DEF TypeOK, PhaseInv, NobodySleepsAfterDone, Waiting
<1>6. FifoStart'
    BY <1>1 DEF TypeOK, FifoStart
<1>7. DistinctInv'
    BY <1>1 DEF TypeOK, DistinctInv
<1>8. AccountInv'
    BY <1>1 DEF TypeOK, HandsInv, AccountInv
<1>9. AtMostOnce'
    BY <1>1 DEF TypeOK, HandsInv, AtMostOnce
<1>10. QED BY <1>1, <1>2, <1>3, <1>4, <1>5, <1>6, <1>7, <1>8, <1>9

LEMMA AffinityFailsStep ==
    ASSUME NEW w \in Workers, IInv, AffinityFails(w)
    PROVE  IInv'
<1> USE PoolAssumption DEF IInv, AffinityFails,
        poolState, history
<1>1. TypeOK'
    BY DEF TypeOK, WorkerStates, OwnerStates
<1>2. MutexInv'
    BY <1>1 DEF TypeOK, MutexInv
<1>3. HandsInv'
    BY <1>1 DEF TypeOK, HandsInv
<1>4. PhaseInv'
    BY <1>1 DEF TypeOK, MutexInv, PhaseInv
<1>5. NobodySleepsAfterDone'
    BY <1>1 DEF TypeOK, PhaseInv, NobodySleepsAfterDone, Waiting
<1>6. FifoStart'
    BY <1>1 DEF TypeOK, FifoStart
<1>7. DistinctInv'
    BY <1>1 DEF TypeOK, DistinctInv
<1>8. AccountInv'
    BY <1>1 DEF TypeOK, HandsInv, AccountInv
<1>9. AtMostOnce'
    BY <1>1 DEF TypeOK, HandsInv, AtMostOnce
<1>10. QED BY <1>1, <1>2, <1>3, <1>4, <1>5, <1>6, <1>7, <1>8, <1>9

LEMMA AcquireStep ==
    ASSUME NEW w \in Workers, IInv, Acquire(w)
    PROVE  IInv'
<1> USE PoolAssumption DEF IInv, Acquire,
        poolState, history
<1>1. TypeOK'
    BY DEF TypeOK, WorkerStates, OwnerStates
<1>2. MutexInv'
    BY <1>1 DEF TypeOK, MutexInv
<1>3. HandsInv'
    BY <1>1 DEF TypeOK, HandsInv
<1>4. PhaseInv'
    BY <1>1 DEF TypeOK, MutexInv, PhaseInv
<1>5. NobodySleepsAfterDone'
    BY <1>1 DEF TypeOK, PhaseInv, NobodySleepsAfterDone, Waiting
<1>6. FifoStart'
    BY <1>1 DEF TypeOK, FifoStart
<1>7. DistinctInv'
    BY <1>1 DEF TypeOK, DistinctInv
<1>8. AccountInv'
    BY <1>1 DEF TypeOK, HandsInv, AccountInv
<1>9. AtMostOnce'
    BY <1>1 DEF TypeOK, HandsInv, AtMostOnce
<1>10. QED BY <1>1, <1>2, <1>3, <1>4, <1>5, <1>6, <1>7, <1>8, <1>9

LEMMA TakeStep ==
    ASSUME NEW w \in Workers, IInv, Take(w)
    PROVE  IInv'
<1> USE PoolAssumption DEF IInv, Take, Popped,
        poolState, history
<1>1. TypeOK'
    BY DEF TypeOK, WorkerStates, OwnerStates
<1>2. MutexInv'
    BY <1>1 DEF TypeOK, MutexInv
<1>3. HandsInv'
    BY <1>1 DEF TypeOK, HandsInv
<1>4. PhaseInv'
    BY <1>1 DEF TypeOK, MutexInv, PhaseInv
<1>5. NobodySleepsAfterDone'
    BY <1>1 DEF TypeOK, PhaseInv, NobodySleepsAfterDone, Waiting
<1>6. FifoStart'
    <2>1. /\ Len(work) > 0 /\ Len(work') = Len(work) - 1
          /\ \A i \in 1..Len(work') : work'[i] = work[i + 1]
        BY DEF TypeOK
    <2>2. /\ Len(started') = Len(started) + 1
          /\ \A i \in 1..Len(started) : started'[i] = started[i]
          /\ started'[Len(started) + 1] = work[1]
        BY <2>1 DEF TypeOK
    <2>3. added' = added
        OBVIOUS
    <2>4. Len(added) = Len(started') + Len(work')
        BY <2>1, <2>2 DEF TypeOK, FifoStart
    <2>5. ASSUME NEW i \in 1..Len(started')
          PROVE  added[i] = started'[i]
        BY <2>1, <2>2 DEF TypeOK, FifoStart
    <2>6. ASSUME NEW i \in 1..Len(work')
          PROVE  added[Len(started') + i] = work'[i]
        <3>1. /\ i + 1 \in 1..Len(work)
              /\ Len(started') + i = Len(started) + (i + 1)
            BY <2>1, <2>2 DEF TypeOK
        <3>2. QED BY <2>1, <3>1 DEF FifoStart
    <2>7. QED BY <2>3, <2>4, <2>5, <2>6 DEF FifoStart
<1>7. DistinctInv'
    BY <1>1 DEF TypeOK, DistinctInv
<1>8. AccountInv'
    <2>1. /\ Len(work) > 0 /\ Len(work') = Len(work) - 1
          /\ \A i \in 1..Len(work') : work'[i] = work[i + 1]
        BY DEF TypeOK
    <2>2. /\ Len(started') = Len(started) + 1
          /\ \A i \in 1..Len(started) : started'[i] = started[i]
          /\ started'[Len(started) + 1] = work[1]
        BY <2>1 DEF TypeOK
    <2>3. /\ fn' = [fn EXCEPT ![w] = work[1]] /\ calls' = calls
          /\ fn[w] = NoFn /\ fn \in [Workers -> Funcs \cup {NoFn}]
        BY <2>1 DEF TypeOK, HandsInv
    <2>. work[1] \in Funcs /\ Len(started) \in Nat
        BY <2>1 DEF TypeOK
    <2>. HIDE DEF Take
    <2>4. ASSUME NEW i \in 1..Len(started')
          PROVE  \/ calls[started'[i]] = 1
                 \/ \E v \in Workers : fn'[v] = started'[i]
        <3>1. CASE i = Len(started) + 1
            BY <2>2, <2>3, <3>1
        <3>2. CASE i \in 1..Len(started)
            <4>1. started'[i] = started[i] /\ started[i] \in Funcs
                BY <2>2, <3>2 DEF TypeOK
            <4>2. QED BY <2>3, <3>2, <4>1 DEF AccountInv
        <3>3. QED BY <2>2, <3>1, <3>2 DEF TypeOK
    <2>5. ASSUME NEW g \in Funcs,
                 calls[g] = 1 \/ \E v \in Workers : fn'[v] = g
          PROVE  \E i \in 1..Len(started') : started'[i] = g
        <3>1. CASE \E i \in 1..Len(started) : started[i] = g
            BY <2>2, <3>1 DEF TypeOK
        <3>2. CASE work[1] = g
            <4>1. Len(started) + 1 \in 1..Len(started')
                BY <2>2
            <4>2. QED BY <2>2, <3>2, <4>1
        <3>3. CASE calls[g] = 1
            BY <3>1, <3>3 DEF AccountInv
        <3>4. ASSUME NEW v \in Workers, fn'[v] = g
              PROVE  \E i \in 1..Len(started') : started'[i] = g
            <4>1. fn[v] = g \/ work[1] = g
                BY <2>3, <3>4
            <4>2. g # NoFn
                BY PoolAssumption
            <4>3. QED BY <3>1, <3>2, <4>1, <4>2 DEF AccountInv
        <3>5. QED BY <2>5, <3>3, <3>4
    <2>6. ASSUME NEW v \in Workers, fn'[v] # NoFn
          PROVE  \E i \in 1..Len(started') : started'[i] = fn'[v]
        <3>1. fn'[v] \in Funcs
            BY <2>3, <2>6
        <3>2. QED BY <2>5, <3>1
    <2>7. QED BY <2>3, <2>4, <2>5, <2>6 DEF AccountInv
<1>9. AtMostOnce'
    <2>1. /\ fn' = [fn EXCEPT ![w] = work[1]] /\ calls' = calls
          /\ work[1] \in Funcs /\ Len(work) > 0
        BY DEF TypeOK
    <2>2. \A i \in 1..Len(started) : started[i] # work[1]
        <3>1. SUFFICES ASSUME NEW i \in 1..Len(started)
                       PROVE  started[i] # work[1]
            OBVIOUS
        <3>2. /\ added[i] = started[i]
              /\ added[Len(started) + 1] = work[1]
              /\ i \in 1..Len(added) /\ Len(started) + 1 \in 1..Len(added)
              /\ i # Len(started) + 1
            BY <2>1 DEF TypeOK, FifoStart
        <3>3. QED BY <3>2 DEF DistinctInv
    <2>3. calls[work[1]] = 0 /\ \A v \in Workers : fn[v] # work[1]
        <3>. calls \in [Funcs -> 0..1] /\ work[1] # NoFn
            BY <2>1 DEF TypeOK
        <3>. HIDE DEF Take
        <3>1. calls[work[1]] # 1
            BY <2>1, <2>2 DEF AccountInv
        <3>2. QED BY <2>1, <2>2, <3>1 DEF AccountInv
    <2>4. QED BY <2>1, <2>3 DEF TypeOK, AtMostOnce
<1>10. QED BY <1>1, <1>2, <1>3, <1>4, <1>5, <1>6, <1>7, <1>8, <1>9

LEMMA ExitStep ==
    ASSUME NEW w \in Workers, IInv, Exit(w)
    PROVE  IInv'
<1> USE PoolAssumption DEF IInv, Exit, MayExit,
        poolState, history
<1>1. TypeOK'
    BY DEF TypeOK, WorkerStates, OwnerStates
<1>2. MutexInv'
    BY <1>1 DEF TypeOK, MutexInv
<1>3. HandsInv'
    BY <1>1 DEF TypeOK, HandsInv
<1>4. PhaseInv'
    BY <1>1 DEF TypeOK, MutexInv, PhaseInv
<1>5. NobodySleepsAfterDone'
    BY <1>1 DEF TypeOK, PhaseInv, NobodySleepsAfterDone, Waiting
<1>6. FifoStart'
    BY <1>1 DEF TypeOK, FifoStart
<1>7. DistinctInv'
    BY <1>1 DEF TypeOK, DistinctInv
<1>8. AccountInv'
    BY <1>1 DEF TypeOK, HandsInv, AccountInv
<1>9. AtMostOnce'
    BY <1>1 DEF TypeOK, HandsInv, AtMostOnce
<1>10. QED BY <1>1, <1>2, <1>3, <1>4, <1>5, <1>6, <1>7, <1>8, <1>9

LEMMA WaitStep ==
    ASSUME NEW w \in Workers, IInv, Wait(w)
    PROVE  IInv'
<1> USE PoolAssumption DEF IInv, Wait,
        poolState, history
<1>1. TypeOK'
    BY DEF TypeOK, WorkerStates, OwnerStates
<1>2. MutexInv'
    BY <1>1 DEF TypeOK, MutexInv
<1>3. HandsInv'
    BY <1>1 DEF TypeOK, HandsInv
<1>4. PhaseInv'
    BY <1>1 DEF TypeOK, MutexInv, PhaseInv
<1>5. NobodySleepsAfterDone'
    BY <1>1 DEF TypeOK, PhaseInv, NobodySleepsAfterDone, Waiting
<1>6. FifoStart'
    BY <1>1 DEF TypeOK, FifoStart
<1>7. DistinctInv'
    BY <1>1 DEF TypeOK, DistinctInv
<1>8. AccountInv'
    BY <1>1 DEF TypeOK, HandsInv, AccountInv
<1>9. AtMostOnce'
    BY <1>1 DEF TypeOK, HandsInv, AtMostOnce
<1>10. QED BY <1>1, <1>2, <1>3, <1>4, <1>5, <1>6, <1>7, <1>8, <1>9

LEMMA RunStep ==
    ASSUME NEW w \in Workers, IInv, Run(w)
    PROVE  IInv'
<1> USE PoolAssumption DEF IInv, Run,
        poolState, history
<1>1. TypeOK'
    BY DEF TypeOK, WorkerStates, OwnerStates, HandsInv, AtMostOnce
<1>2. MutexInv'
    BY <1>1 DEF TypeOK, MutexInv
<1>3. HandsInv'
    BY <1>1 DEF TypeOK, HandsInv
<1>4. PhaseInv'
    BY <1>1 DEF TypeOK, MutexInv, PhaseInv
<1>5. NobodySleepsAfterDone'
    BY <1>1 DEF TypeOK, PhaseInv, NobodySleepsAfterDone, Waiting
<1>6. FifoStart'
    BY <1>1 DEF TypeOK, FifoStart
<1>7. DistinctInv'
    BY <1>1 DEF TypeOK, DistinctInv
<1>8. AccountInv'
    BY <1>1 DEF TypeOK, HandsInv, AccountInv, AtMostOnce
<1>9. AtMostOnce'
    BY <1>1 DEF TypeOK, HandsInv, AtMostOnce
<1>10. QED BY <1>1, <1>2, <1>3, <1>4, <1>5, <1>6, <1>7, <1>8, <1>9

LEMMA ThrowStep ==
    ASSUME NEW w \in Workers, IInv, Throw(w)
    PROVE  IInv'
<1> USE PoolAssumption DEF IInv, Throw,
        poolState, history
<1>1. TypeOK'
    BY DEF TypeOK, WorkerStates, OwnerStates
<1>2. MutexInv'
    BY <1>1 DEF TypeOK, MutexInv
<1>3. HandsInv'
    BY <1>1 DEF TypeOK, HandsInv
<1>4. PhaseInv'
    BY <1>1 DEF TypeOK, MutexInv, PhaseInv
<1>5. NobodySleepsAfterDone'
    BY <1>1 DEF TypeOK, PhaseInv, NobodySleepsAfterDone, Waiting
<1>6. FifoStart'
    BY <1>1 DEF TypeOK, FifoStart
<1>7. DistinctInv'
    BY <1>1 DEF TypeOK, DistinctInv
<1>8. AccountInv'
    BY <1>1 DEF TypeOK, HandsInv, AccountInv
<1>9. AtMostOnce'
    BY <1>1 DEF TypeOK, HandsInv, AtMostOnce
<1>10. QED BY <1>1, <1>2, <1>3, <1>4, <1>5, <1>6, <1>7, <1>8, <1>9

LEMMA SpuriousStep ==
    ASSUME NEW w \in Workers, IInv, Spurious(w)
    PROVE  IInv'
<1> USE PoolAssumption DEF IInv, Spurious,
        poolState, history
<1>1. TypeOK'
    BY DEF TypeOK, WorkerStates, OwnerStates
<1>2. MutexInv'
    BY <1>1 DEF TypeOK, MutexInv
<1>3. HandsInv'
    BY <1>1 DEF TypeOK, HandsInv
<1>4. PhaseInv'
    BY <1>1 DEF TypeOK, MutexInv, PhaseInv
<1>5. NobodySleepsAfterDone'
    BY <1>1 DEF TypeOK, PhaseInv, NobodySleepsAfterDone, Waiting
<1>6. FifoStart'
    BY <1>1 DEF TypeOK, FifoStart
<1>7. DistinctInv'
    BY <1>1 DEF TypeOK, DistinctInv
<1>8. AccountInv'
    BY <1>1 DEF TypeOK, HandsInv, AccountInv
<1>9. AtMostOnce'
    BY <1>1 DEF TypeOK, HandsInv, AtMostOnce
<1>10. QED BY <1>1, <1>2, <1>3, <1>4, <1>5, <1>6, <1>7, <1>8, <1>9

LEMMA StepIInv == IInv /\ [Next]_vars => IInv'
<1> SUFFICES ASSUME IInv, [Next]_vars PROVE IInv'
    OBVIOUS
<1>1. CASE OwnerStep
    BY <1>1, SpawnStep, SpawnFailsStep, EnterAddStep, AddStep, EnterDtorStep,
        DtorStep, JoinStep DEF OwnerStep
<1>2. ASSUME NEW w \in Workers, WorkerStep(w)
      PROVE  IInv'
    BY <1>2, EnterStep, AcquireStep, TakeStep, ExitStep, WaitStep, RunStep,
        ThrowStep DEF WorkerStep
<1>3. ASSUME NEW w \in Workers, Spurious(w) \/ AffinityFails(w)
      PROVE  IInv'
    BY <1>3, SpuriousStep, AffinityFailsStep
<1>4. CASE UNCHANGED vars
    BY <1>4 DEF vars, IInv, TypeOK, MutexInv, HandsInv, PhaseInv, Waiting,
        NobodySleepsAfterDone, FifoStart, DistinctInv, AccountInv, AtMostOnce
<1>5. QED BY <1>1, <1>2, <1>3, <1>4 DEF Next

(* The conjunction of the type invariant, the mutex, accounting and order  *)
(* invariants holds in every reachable state of the pool.                  *)
THEOREM PoolInvariant == Spec => []IInv
BY InitIInv, StepIInv, PTL DEF Spec

(* Every variable keeps its type; in particular no closure is called twice *)
(* (front and pop_front under mu_ in thread_main).                         *)
THEOREM TypeCorrect == Spec => []TypeOK
<1>1. IInv => TypeOK BY DEF IInv
<1>2. QED BY <1>1, PoolInvariant, PTL

(* Closures are started in the order add() queued them.                    *)
THEOREM StartsInOrder == Spec => []FifoStart
<1>1. IInv => FifoStart BY DEF IInv
<1>2. QED BY <1>1, PoolInvariant, PTL

(* No two workers ever hold the same closure, nor one that has run.        *)
THEOREM HandedOutOnce == Spec => []AtMostOnce
<1>1. IInv => AtMostOnce BY DEF IInv
<1>2. QED BY <1>1, PoolInvariant, PTL

(* When ~ThreadPool has returned, every closure ever added has run: the    *)
(* workers return only on an empty work_, they have all returned, and what *)
(* was started is either called or in a running worker's hands.            *)
THEOREM Drained == Spec => []DrainedWhenGone
<1>1. IInv => DrainedWhenGone
    <2>1. SUFFICES ASSUME IInv, opc = "gone", NEW i \in 1..Len(added)
                   PROVE  calls[added[i]] = 1
        BY DEF DrainedWhenGone, Added
    <2>2. PICK w \in Workers : wpc[w] = "exited"
        BY <2>1, PoolAssumption DEF IInv, PhaseInv
    <2>3. work = << >>
        BY <2>1, <2>2 DEF IInv, PhaseInv
    <2>4. i \in 1..Len(started) /\ added[i] = started[i]
        BY <2>1, <2>3 DEF IInv, FifoStart, TypeOK
    <2>5. ASSUME NEW v \in Workers
          PROVE  fn[v] = NoFn
        BY <2>1 DEF IInv, PhaseInv, HandsInv
    <2>6. started[i] # NoFn
        BY <2>1, <2>4, PoolAssumption DEF IInv, TypeOK
    <2>7. QED BY <2>1, <2>4, <2>5, <2>6 DEF IInv, AccountInv
<1>2. QED BY <1>1, PoolInvariant, PTL

(* After done_ is set nobody is left asleep, so joining the threads cannot *)
(* wait for a sleeper.                                                     *)
THEOREM NobodyLeftAsleep == Spec => []NobodySleepsAfterDone
<1>1. IInv => NobodySleepsAfterDone BY DEF IInv
<1>2. QED BY <1>1, PoolInvariant, PTL

(* A constructor that failed with a thread already spawned never returns.  *)
THEOREM FailedCtorHangs == Spec => []FailedCtorStuck
<1>1. IInv => FailedCtorStuck
    BY DEF IInv, PhaseInv, FailedCtorStuck, Spawned
<1>2. QED BY <1>1, PoolInvariant, PTL

-----------------------------------------------------------------------------
(* While a worker sleeps, each queued closure has an awake worker of its   *)
(* own.                                                                    *)
LEMMA HeadingFinite == IsFiniteSet(Heading)
BY PoolAssumption, FS_Subset DEF Heading

(* A step that queues nothing, keeps the awake workers and puts nobody to  *)
(* sleep keeps the property.                                               *)
LEMMA ServedFrame ==
    ASSUME SleeperMeansServed, IInv, IInv', Len(work') <= Len(work),
           Heading \subseteq Heading', Waiting' # {} => Waiting # {}
    PROVE  SleeperMeansServed'
<1>1. IsFiniteSet(Heading')
    BY PoolAssumption, FS_Subset DEF Heading
<1>2. Cardinality(Heading) <= Cardinality(Heading')
    BY <1>1, FS_Subset
<1>3. Cardinality(Heading) \in Nat /\ Cardinality(Heading') \in Nat
    BY <1>1, HeadingFinite, FS_CardinalityType
<1>4. QED BY <1>2, <1>3 DEF SleeperMeansServed, IInv, TypeOK

LEMMA ServedStep ==
    ASSUME IInv, IInv', SleeperMeansServed, [Next]_vars
    PROVE  SleeperMeansServed'
<1> USE DEF poolState, history
<1>1. ASSUME work' = << >>
      PROVE  SleeperMeansServed'
    <2>1. Cardinality(Heading') \in Nat
        BY PoolAssumption, FS_Subset, FS_CardinalityType DEF Heading
    <2>2. Len(work') = 0
        BY <1>1
    <2>3. QED BY <2>1, <2>2 DEF SleeperMeansServed
<1>2. ASSUME work' = work, Heading \subseteq Heading', Waiting' # {} => Waiting # {}
      PROVE  SleeperMeansServed'
    <2>1. Len(work') <= Len(work)
        BY <1>2 DEF IInv, TypeOK
    <2>2. QED BY <1>2, <2>1, ServedFrame
<1>3. ASSUME opc \in {"ctor", "unwind", "unwound"}
      PROVE  work = << >>
    BY <1>3 DEF IInv, PhaseInv, FifoStart, TypeOK
<1>4. CASE UNCHANGED vars
    BY <1>2, <1>4 DEF vars, Heading, Waiting
<1>5. ASSUME NEW w \in Workers, Spawn(w)
      PROVE  SleeperMeansServed'
    BY <1>1, <1>3, <1>5 DEF Spawn
<1>6. CASE SpawnFails \/ EnterAdd \/ EnterDtor \/ Join
    BY <1>2, <1>6
    DEF SpawnFails, EnterAdd, EnterDtor, Join, Lock, Heading, Waiting
<1>7. ASSUME NEW f \in Funcs, Add(f)
      PROVE  SleeperMeansServed'
    <2>1. CASE Waiting = {}
        <3>1. wpc' = wpc
            BY <1>7, <2>1 DEF Add, NotifyOne
        <3>2. QED BY <2>1, <3>1 DEF SleeperMeansServed, Waiting
    <2>2. CASE Waiting # {}
        <3>1. PICK w \in Waiting : wpc' = [wpc EXCEPT ![w] = "woken"]
            BY <1>7, <2>2 DEF Add, NotifyOne
        <3>2. Heading' = Heading \cup {w} /\ w \notin Heading
            BY <3>1 DEF Heading, Waiting, IInv, TypeOK
        <3>3. Cardinality(Heading') = Cardinality(Heading) + 1
            BY <3>2, HeadingFinite, FS_AddElement
        <3>4. Len(work') = Len(work) + 1
            BY <1>7 DEF Add, QueueAtBack, IInv, TypeOK
        <3>5. Cardinality(Heading) \in Nat /\ Len(work) \in Nat
            BY HeadingFinite, FS_CardinalityType DEF IInv, TypeOK
        <3>6. QED BY <2>2, <3>3, <3>4, <3>5 DEF SleeperMeansServed
    <2>3. QED BY <2>1, <2>2
<1>8. CASE Dtor
    BY <1>8 DEF Dtor, NotifyAll, SleeperMeansServed, Waiting
<1>9. ASSUME NEW w \in Workers, Take(w)
      PROVE  SleeperMeansServed'
    <2>1. Heading' = Heading \ {w} /\ w \in Heading
        BY <1>9 DEF Take, Heading, IInv, TypeOK
    <2>2. Cardinality(Heading') = Cardinality(Heading) - 1
        BY <2>1, HeadingFinite, FS_RemoveElement
    <2>3. Len(work') = Len(work) - 1
        BY <1>9 DEF Take, Popped, IInv, TypeOK
    <2>4. Waiting' = Waiting
        BY <1>9 DEF Take, Waiting, IInv, TypeOK
    <2>5. Cardinality(Heading) \in Nat /\ Len(work) \in Nat
        BY HeadingFinite, FS_CardinalityType DEF IInv, TypeOK
    <2>6. QED BY <2>2, <2>3, <2>4, <2>5 DEF SleeperMeansServed
<1>10. ASSUME NEW w \in Workers, Exit(w) \/ Wait(w)
       PROVE  SleeperMeansServed'
    BY <1>1, <1>10 DEF Exit, Wait, MayExit
<1>11. ASSUME NEW w \in Workers,
              \/ Enter(w) \/ AffinityFails(w) \/ Acquire(w)
              \/ Run(w) \/ Throw(w) \/ Spurious(w)
       PROVE  SleeperMeansServed'
    <2>1. work' = work
        BY <1>11 DEF Enter, AffinityFails, Acquire, Run, Throw, Spurious
    <2>2. Heading \subseteq Heading' /\ Waiting' \subseteq Waiting
        BY <1>11 DEF Enter, AffinityFails, Acquire, Run, Throw, Spurious,
            Heading, Waiting, IInv, TypeOK
    <2>3. QED BY <1>2, <2>1, <2>2
<1>12. QED
    BY <1>4, <1>5, <1>6, <1>7, <1>8, <1>9, <1>10, <1>11
    DEF Next, OwnerStep, WorkerStep

(* No wakeup is lost: with a sleeper around, the queue is never longer     *)
(* than the number of workers on their way to it.                          *)
THEOREM NoLostWakeup == Spec => []SleeperMeansServed
<1>1. Init => SleeperMeansServed
    BY DEF Init, SleeperMeansServed, Waiting
<1>2. QED BY <1>1, ServedStep, PoolInvariant, PTL DEF Spec

-----------------------------------------------------------------------------
(* Refinement.  An add is a Submit, a returning call an Execute, setting   *)
(* done_ is Close, the end of the joins is Closed, and an exception or a   *)
(* failed constructor is Fail; everything else stutters.                   *)
LEMMA RefineInit == Init => Promise!Init
BY DEF Init, Promise!Init, Added, PhaseOf

LEMMA RefineStep ==
    ASSUME IInv, IInv', DrainedWhenGone', [Next]_vars
    PROVE  [Promise!Next]_(Promise!vars)
<1> USE DEF poolState, history, Promise!vars
<1>1. ASSUME UNCHANGED <<added, calls>>, PhaseOf' = PhaseOf
      PROVE  UNCHANGED Promise!vars
    BY <1>1 DEF Added
<1>2. ASSUME NEW w \in Workers, Spawn(w)
      PROVE  UNCHANGED Promise!vars
    BY <1>1, <1>2 DEF Spawn, PhaseOf
<1>3. CASE SpawnFails
    <2>1. PhaseOf = "open" /\ PhaseOf' = "down"
        BY <1>3 DEF SpawnFails, PhaseOf
    <2>2. QED BY <1>3, <2>1 DEF SpawnFails, Promise!Next, Promise!Fail, Added
<1>4. CASE EnterAdd \/ EnterDtor
    BY <1>1, <1>4 DEF EnterAdd, EnterDtor, Lock, PhaseOf
<1>5. ASSUME NEW f \in Funcs, Add(f)
      PROVE  Promise!Submit(f)
    <2>1. Added' = Added \cup {f}
        BY <1>5 DEF Add, Added, IInv, TypeOK
    <2>2. PhaseOf = "open" /\ PhaseOf' = "open"
        BY <1>5 DEF Add, PhaseOf
    <2>3. QED BY <1>5, <2>1, <2>2 DEF Add, Promise!Submit
<1>6. CASE Dtor
    <2>1. PhaseOf = "open" /\ PhaseOf' = "closing"
        BY <1>6 DEF Dtor, PhaseOf
    <2>2. QED BY <1>6, <2>1 DEF Dtor, Promise!Next, Promise!Close, Added
<1>7. CASE Join /\ opc = "join"
    <2>1. PhaseOf = "closing" /\ PhaseOf' = "closed"
        BY <1>7 DEF Join, PhaseOf
    <2>2. \A f \in Added : calls[f] = 1
        BY <1>7 DEF Join, DrainedWhenGone, Added
    <2>3. QED BY <1>7, <2>1, <2>2 DEF Join, Promise!Next, Promise!Closed, Added
<1>8. CASE Join /\ opc = "unwind"
    BY <1>1, <1>8 DEF Join, PhaseOf
<1>9. ASSUME NEW w \in Workers,
             \/ Enter(w) \/ Acquire(w) \/ Take(w) \/ Exit(w) \/ Wait(w)
             \/ Spurious(w)
      PROVE  UNCHANGED Promise!vars
    BY <1>1, <1>9 DEF Enter, Acquire, Take, Exit, Wait, Spurious, PhaseOf
<1>10. ASSUME NEW w \in Workers, AffinityFails(w) \/ Throw(w)
       PROVE  [Promise!Next]_(Promise!vars)
    <2>1. CASE PhaseOf = "down"
        BY <1>10, <2>1 DEF AffinityFails, Throw, Added, PhaseOf
    <2>2. CASE PhaseOf # "down"
        <3>1. opc # "gone"
            BY <1>10 DEF AffinityFails, Throw, IInv, PhaseInv
        <3>2. PhaseOf \in {"open", "closing"} /\ PhaseOf' = "down"
            BY <1>10, <2>2, <3>1 DEF AffinityFails, Throw, PhaseOf
        <3>3. QED BY <1>10, <3>2
            DEF AffinityFails, Throw, Added, Promise!Next, Promise!Fail
    <2>3. QED BY <2>1, <2>2
<1>11. ASSUME NEW w \in Workers, Run(w)
       PROVE  [Promise!Next]_(Promise!vars)
    <2>1. fn[w] \in Funcs /\ calls[fn[w]] = 0
        BY <1>11 DEF Run, IInv, TypeOK, HandsInv, AtMostOnce
    <2>2. fn[w] \in Added
        BY <1>11, <2>1, PoolAssumption
        DEF Run, IInv, TypeOK, AccountInv, FifoStart, Added
    <2>3. calls' = [calls EXCEPT ![fn[w]] = 1]
        BY <1>11, <2>1 DEF Run
    <2>4. opc \notin {"gone", "ctor", "unwind", "unwound"}
        BY <1>11, <2>2 DEF Run, IInv, PhaseInv, Added
    <2>5. PhaseOf \in {"open", "closing"} /\ PhaseOf' = PhaseOf
        BY <1>11, <2>4 DEF Run, PhaseOf, IInv, TypeOK, OwnerStates
    <2>6. Promise!Execute(fn[w])
        BY <1>11, <2>1, <2>2, <2>3, <2>5 DEF Run, Added, Promise!Execute
    <2>7. QED BY <2>1, <2>6 DEF Promise!Next
<1>12. CASE UNCHANGED vars
    BY <1>1, <1>12 DEF vars, PhaseOf
<1>13. ASSUME NEW f \in Funcs, Add(f)
       PROVE  Promise!Next
    BY <1>5, <1>13 DEF Promise!Next
<1>14. CASE Join
    BY <1>7, <1>8, <1>14 DEF Join
<1>15. QED
    BY <1>2, <1>3, <1>4, <1>6, <1>9, <1>10, <1>11, <1>12, <1>13, <1>14
    DEF Next, OwnerStep, WorkerStep

(* The pool with its threads, lock and deque behaves like the executor     *)
(* that runs each submitted closure exactly once and closes when all ran.  *)
THEOREM Refinement == Spec => ImplementsExecutor
<1>1. IInv /\ IInv' /\ DrainedWhenGone' /\ [Next]_vars => [Promise!Next]_(Promise!vars)
    BY RefineStep
<1>2. QED
    BY <1>1, RefineInit, PoolInvariant, Drained, PTL
    DEF Spec, ImplementsExecutor, Promise!Spec

=============================================================================
