------------------------------ MODULE ThreadPool ------------------------------
(***************************************************************************)
(* The worker pool of pskreporter (class ThreadPool in lib.h): one mutex,  *)
(* one condition variable, one deque of closures, and jthreads that are    *)
(* joined when the member threads_ is destroyed.  The owner is the thread  *)
(* that constructs the pool, calls add() and runs the destructor; in       *)
(* gridsquares it is main().                                               *)
(*                                                                         *)
(* A step is either the acquisition of mu_ or everything a thread does     *)
(* while it holds mu_ up to releasing it: all shared state is accessed     *)
(* under mu_, so nothing can be observed in between.                       *)
(***************************************************************************)
EXTENDS Integers, Sequences, FiniteSets

CONSTANTS
    Workers,      (* the threads of threads_                                 *)
    Funcs,        (* the closures the owner may add, each at most once       *)
    Throwing,     (* those whose call leaves with an exception               *)
    MaxSpurious,  (* bound on the spurious wakeups of the condition variable *)
    NoFn          (* an empty func_t                                         *)

ASSUME PoolAssumption ==
    /\ Workers # {} /\ IsFiniteSet(Workers)
    /\ Throwing \subseteq Funcs
    /\ MaxSpurious \in Nat
    /\ NoFn \notin Funcs
    /\ {"free", "owner"} \cap Workers = {}

VARIABLES
    mu,        (* who holds mu_: "free", "owner" or a worker                 *)
    done,      (* done_                                                      *)
    work,      (* work_                                                      *)
    wpc,       (* where each worker is                                       *)
    fn,        (* the local fn of thread_main                                *)
    opc,       (* where the owner is                                         *)
    alive,     (* FALSE once std::terminate ended the process                *)
    spurious,  (* spurious wakeups so far (bound)                            *)
    added,     (* history: the closures in the order add() queued them       *)
    started,   (* history: the closures in the order workers took them       *)
    calls      (* history: how often each closure was called to its end      *)

poolState == <<mu, done, work>>
history == <<added, started, calls>>
vars == <<mu, done, work, wpc, fn, opc, alive, spurious, added, started, calls>>

(* "unborn": not yet spawned; "head": at setaffinity(); "want": at the lock *)
(* of mu_; "woken": notified or spuriously woken inside cv_.wait, must lock *)
(* mu_ again; "check": holds mu_ and evaluates the predicate; "waiting":    *)
(* blocked in cv_.wait without mu_; "run": calls fn() without mu_;          *)
(* "exited": thread_main returned.                                          *)
WorkerStates ==
    {"unborn", "head", "want", "woken", "check", "waiting", "run", "exited"}

(* "ctor": spawning the threads; "idle": between calls; "add", "dtor":      *)
(* inside that call with mu_ held; "join": the body of ~ThreadPool is done, *)
(* threads_ is being destroyed; "gone": destroyed; "unwind": the            *)
(* constructor threw, the threads already spawned are being joined;         *)
(* "unwound": that has finished.                                            *)
OwnerStates ==
    {"ctor", "idle", "add", "dtor", "join", "gone", "unwind", "unwound"}

Waiting == {w \in Workers : wpc[w] = "waiting"}
Spawned == {w \in Workers : wpc[w] # "unborn"}
Added == {added[i] : i \in 1..Len(added)}

Init ==
    /\ mu = "free"
    /\ done = FALSE
    /\ work = << >>
    /\ wpc = [w \in Workers |-> "unborn"]
    /\ fn = [w \in Workers |-> NoFn]
    /\ opc = "ctor"
    /\ alive = TRUE
    /\ spurious = 0
    /\ added = << >>
    /\ started = << >>
    /\ calls = [f \in Funcs |-> 0]

-----------------------------------------------------------------------------
(* The constructor.                                                        *)

Spawn(w) ==
    /\ alive /\ opc = "ctor"
    /\ wpc[w] = "unborn"
    /\ wpc' = [wpc EXCEPT ![w] = "head"]
    /\ opc' = IF Spawned \cup {w} = Workers THEN "idle" ELSE "ctor"
    /\ UNCHANGED <<poolState, fn, alive, spurious, history>>

(* emplace_back throws (no more threads): ~ThreadPool does not run for an  *)
(* object whose constructor threw, only its members are destroyed.         *)
SpawnFails ==
    /\ alive /\ opc = "ctor"
    /\ opc' = "unwind"
    /\ UNCHANGED <<poolState, wpc, fn, alive, spurious, history>>

-----------------------------------------------------------------------------
(* add() and the destructor.                                               *)

Lock(state) ==
    /\ alive /\ opc = "idle" /\ mu = "free"
    /\ mu' = "owner"
    /\ opc' = state
    /\ UNCHANGED <<done, work, wpc, fn, alive, spurious, history>>

EnterAdd == Added # Funcs /\ Lock("add")
EnterDtor == Lock("dtor")

QueueAtFront(q, f) == <<f>> \o q
QueueAtBack(q, f) == Append(q, f)

NotifyNobody == wpc' = wpc

(* notify_one wakes one of the threads blocked in wait, if there is any.   *)
NotifyOne ==
    \/ Waiting = {} /\ wpc' = wpc
    \/ \E w \in Waiting : wpc' = [wpc EXCEPT ![w] = "woken"]

NotifyAll ==
    wpc' = [w \in Workers |-> IF w \in Waiting THEN "woken" ELSE wpc[w]]

Add(f) ==
    /\ alive /\ opc = "add" /\ f \notin Added
    /\ work' = QueueAtBack(work, f)
    /\ added' = Append(added, f)
    /\ NotifyOne
    /\ mu' = "free"
    /\ opc' = "idle"
    /\ UNCHANGED <<done, fn, alive, spurious, started, calls>>

Dtor ==
    /\ alive /\ opc = "dtor"
    /\ done' = TRUE
    /\ NotifyAll
    /\ mu' = "free"
    /\ opc' = "join"
    /\ UNCHANGED <<work, fn, alive, spurious, history>>

(* Destroying threads_ joins every thread that was spawned.                *)
Detached == TRUE
Joinable == \A w \in Spawned : wpc[w] = "exited"

Join ==
    /\ alive /\ opc \in {"join", "unwind"}
    /\ Joinable
    /\ opc' = IF opc = "join" THEN "gone" ELSE "unwound"
    /\ UNCHANGED <<poolState, wpc, fn, alive, spurious, history>>

-----------------------------------------------------------------------------
(* thread_main.  An exception that leaves it ends the process: setaffinity *)
(* may throw before the loop, fn() inside it.                              *)

Enter(w) ==
    /\ alive /\ wpc[w] = "head"
    /\ wpc' = [wpc EXCEPT ![w] = "want"]
    /\ UNCHANGED <<poolState, fn, opc, alive, spurious, history>>

AffinityFails(w) ==
    /\ alive /\ wpc[w] = "head"
    /\ alive' = FALSE
    /\ UNCHANGED <<poolState, wpc, fn, opc, spurious, history>>

Acquire(w) ==
    /\ alive /\ wpc[w] \in {"want", "woken"} /\ mu = "free"
    /\ mu' = w
    /\ wpc' = [wpc EXCEPT ![w] = "check"]
    /\ UNCHANGED <<done, work, fn, opc, alive, spurious, history>>

Kept(q) == q
Popped(q) == Tail(q)

ExitAtOnce == done
MayExit == work = << >> /\ done

Take(w) ==
    /\ alive /\ wpc[w] = "check" /\ work # << >>
    /\ fn' = [fn EXCEPT ![w] = Head(work)]
    /\ started' = Append(started, Head(work))
    /\ work' = Popped(work)
    /\ mu' = "free"
    /\ wpc' = [wpc EXCEPT ![w] = "run"]
    /\ UNCHANGED <<done, opc, alive, spurious, added, calls>>

Exit(w) ==
    /\ alive /\ wpc[w] = "check" /\ MayExit
    /\ mu' = "free"
    /\ wpc' = [wpc EXCEPT ![w] = "exited"]
    /\ UNCHANGED <<done, work, fn, opc, alive, spurious, history>>

Wait(w) ==
    /\ alive /\ wpc[w] = "check" /\ work = << >> /\ ~done
    /\ mu' = "free"
    /\ wpc' = [wpc EXCEPT ![w] = "waiting"]
    /\ UNCHANGED <<done, work, fn, opc, alive, spurious, history>>

Spurious(w) ==
    /\ alive /\ wpc[w] = "waiting" /\ spurious < MaxSpurious
    /\ spurious' = spurious + 1
    /\ wpc' = [wpc EXCEPT ![w] = "woken"]
    /\ UNCHANGED <<poolState, fn, opc, alive, history>>

Run(w) ==
    /\ alive /\ wpc[w] = "run" /\ fn[w] \notin Throwing
    /\ calls' = [calls EXCEPT ![fn[w]] = @ + 1]
    /\ fn' = [fn EXCEPT ![w] = NoFn]
    /\ wpc' = [wpc EXCEPT ![w] = "want"]
    /\ UNCHANGED <<poolState, opc, alive, spurious, added, started>>

Throw(w) ==
    /\ alive /\ wpc[w] = "run" /\ fn[w] \in Throwing
    /\ alive' = FALSE
    /\ UNCHANGED <<poolState, wpc, fn, opc, spurious, history>>

-----------------------------------------------------------------------------
OwnerStep ==
    \/ \E w \in Workers : Spawn(w)
    \/ SpawnFails
    \/ EnterAdd \/ (\E f \in Funcs : Add(f))
    \/ EnterDtor \/ Dtor
    \/ Join

WorkerStep(w) ==
    \/ Enter(w) \/ Acquire(w) \/ Take(w) \/ Exit(w) \/ Wait(w)
    \/ Run(w) \/ Throw(w)

Next ==
    \/ OwnerStep
    \/ \E w \in Workers : WorkerStep(w) \/ Spurious(w) \/ AffinityFails(w)

Spec == Init /\ [][Next]_vars

(* Threads are scheduled: a worker that can take a step takes it, and the  *)
(* owner finishes a call it has entered.  Nothing says that the owner ever *)
(* destroys the pool: what was added must be run without that.             *)
Fairness ==
    /\ \A w \in Workers : WF_vars(WorkerStep(w))
    /\ WF_vars((\E w \in Workers : Spawn(w)) \/ (\E f \in Funcs : Add(f)) \/ Dtor \/ Join)

FairSpec == Spec /\ Fairness
-----------------------------------------------------------------------------
(* Every variable has its type.                                            *)
TypeOK ==
    /\ mu \in {"free", "owner"} \cup Workers
    /\ done \in BOOLEAN
    /\ work \in Seq(Funcs)
    /\ wpc \in [Workers -> WorkerStates]
    /\ fn \in [Workers -> Funcs \cup {NoFn}]
    /\ opc \in OwnerStates
    /\ alive \in BOOLEAN
    /\ spurious \in 0..MaxSpurious
    /\ added \in Seq(Funcs)
    /\ started \in Seq(Funcs)
    /\ calls \in [Funcs -> 0..1]

(* Closures are started in the order they were added, none is skipped and  *)
(* none is started twice: what add() queued is what workers took, followed *)
(* by what is still in work_ (push_back in add, front and pop_front in     *)
(* thread_main).                                                           *)
FifoStart ==
    /\ Len(added) = Len(started) + Len(work)
    /\ \A i \in 1..Len(started) : added[i] = started[i]
    /\ \A i \in 1..Len(work) : added[Len(started) + i] = work[i]

(* At most once: a closure in a worker's hands has not been called yet and *)
(* no other worker holds it (front and pop_front under mu_).               *)
AtMostOnce ==
    \A w \in Workers : fn[w] # NoFn =>
        /\ calls[fn[w]] = 0
        /\ \A v \in Workers : fn[v] = fn[w] => v = w

(* The destructor drains: when ~ThreadPool has returned, every closure     *)
(* that was ever added has run, although done_ was set with work queued    *)
(* (thread_main returns only if work_ is empty and done_).                 *)
DrainedWhenGone ==
    opc = "gone" => \A f \in Added : calls[f] = 1

(* No lost wakeup and no lost parallelism: while any worker sleeps in      *)
(* cv_.wait, every queued closure has a worker of its own that is awake    *)
(* and on its way to the queue (notify_one in add, the predicate that is   *)
(* re-evaluated under mu_).                                                *)
Heading == {w \in Workers : wpc[w] \in {"head", "want", "woken", "check"}}
SleeperMeansServed ==
    Waiting # {} => Len(work) <= Cardinality(Heading)

(* Once the destructor has notified, nobody sleeps: a worker that would    *)
(* wait after done_ was set would never be woken and join would hang.      *)
NobodySleepsAfterDone == done => Waiting = {}

(* A constructor that failed half way never gets out of joining: the       *)
(* threads it had spawned wait for work or for done_, which only           *)
(* ~ThreadPool sets and which does not run.                                *)
FailedCtorStuck == opc = "unwound" => Spawned = {}

(* Every closure added is called, unless an exception ended the process.   *)
AddedIsRun == \A f \in Funcs : f \in Added ~> calls[f] = 1 \/ ~alive

(* A destructor that was entered returns.                                  *)
DtorReturns == opc = "dtor" ~> opc = "gone" \/ ~alive
=============================================================================
