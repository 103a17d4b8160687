------------------------------- MODULE Kernel -------------------------------
(***************************************************************************)
(* Threads on one core as ChibiOS runs them here: strict priorities, no    *)
(* time slices (CH_CFG_TIME_QUANTUM is 0), mutexes whose owner inherits    *)
(* the priority of those who wait.  A thread is preempted by a higher      *)
(* priority only; threads of one priority take turns when the one in front *)
(* waits for something.                                                    *)
(*                                                                         *)
(* Where a thread stands is a place.  Four kinds of place matter here:     *)
(* Asleep, where it is until somebody else moves it on; "wait", for an     *)
(* event; a mutex, which it is about to lock; any other, where it can run. *)
(***************************************************************************)
EXTENDS Integers

CONSTANTS
    Threads,
    Places,         \* where a thread can stand
    Mutexes,        \* the places at which a thread locks the mutex of that name
    NoThread,       \* the owner of a free mutex
    Priority        \* of each thread, larger is more urgent

ASSUME KernelAssumption == /\ Priority \in [Threads -> Int]
                           /\ NoThread \notin Threads
                           /\ Mutexes \subseteq Places

VARIABLES
    pc,             \* where each thread stands
    owner,          \* of each mutex
    front,          \* at each priority, the thread that ran last
    pending         \* the threads with an event they have not taken yet

kernel == <<pc, owner, front, pending>>

Levels == {Priority[t] : t \in Threads}
Asleep == {"boot", "idle", "read"}

Waits(t, m) == pc[t] = m /\ owner[m] # NoThread

Ready(t) == /\ pc[t] \notin Asleep
            /\ pc[t] = "wait" => t \in pending
            /\ \A m \in Mutexes : ~Waits(t, m)

\* The priorities t runs with: its own, and those it inherits.
Urgency(t) ==
    {Priority[u] : u \in {t} \cup {v \in Threads :
                                     \E m \in Mutexes : Waits(v, m) /\ owner[m] = t}}

Outranks(t, u) == \E a \in Urgency(t) : \A b \in Urgency(u) : a > b

\* Mutant: threads of one priority share the processor in time slices.
RunsSliced(t) == Ready(t) /\ \A u \in Threads : Ready(u) => ~Outranks(u, t)

\* The scheduler may give t the processor.
Runs(t) == /\ Ready(t)
           /\ \A u \in Threads : Ready(u) => ~Outranks(u, t)
           /\ front[Priority[t]] # t => ~Ready(front[Priority[t]])

\* A step of thread t that leaves it at place next.
Step(t, next) == /\ Runs(t)
                 /\ front' = [front EXCEPT ![Priority[t]] = t]
                 /\ pc' = [pc EXCEPT ![t] = next]

\* chMtxLock, where t stands at m, and chMtxUnlock.
Acquire(t, m) == owner[m] = NoThread /\ owner' = [owner EXCEPT ![m] = t]
Release(m) == owner' = [owner EXCEPT ![m] = NoThread]

KernelTypeOK == /\ pc \in [Threads -> Places]
                /\ owner \in [Mutexes -> Threads \cup {NoThread}]
                /\ front \in [Levels -> Threads]
                /\ pending \subseteq Threads
=============================================================================
