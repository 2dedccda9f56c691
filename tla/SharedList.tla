----------------------------- MODULE SharedList -----------------------------
(***************************************************************************)
(* SharedList<T> and the SimpleConditionVar under it                       *)
(* (CommMan/thread_utils.h), at the granularity of the pthread calls: one  *)
(* mutex, one condition variable, a std::list.  Every thread is either     *)
(* outside the list, competing for the mutex, inside the critical section, *)
(* or blocked in pthread_cond_wait.                                        *)
(*                                                                         *)
(* pc[t]:  "out"      not in a call                                        *)
(*         "lock"     in pthread_mutex_lock: on entry, or back from a wait *)
(*         "held"     owns the mutex, before push_back / at the while test *)
(*         "wake"     pushed, about to signal the condition variable       *)
(*         "take"     past the while loop, about to read front()/splice    *)
(*         "unlock"   in the destructor of AutoLocker                      *)
(*         "waiting"  in pthread_cond_wait, mutex released                 *)
(***************************************************************************)
EXTENDS Naturals, Sequences, FiniteSets

CONSTANTS
    Producers,    \* threads that call shared_append_one
    Fetchers,     \* threads that call shared_fetch_head (the workers)
    Drainers,     \* threads that call shared_fetch_all
    WakeTypes,    \* the wake_type arguments callers pass
    MaxAppends,   \* bound: calls of shared_append_one per producer
    MaxSpurious,  \* bound: spurious returns of pthread_cond_wait
    NoThread      \* the owner of a free mutex

Consumers == Fetchers \cup Drainers
Threads   == Producers \cup Consumers

(* No caller passes DONT_WAKE_ANYONE; WAKE_ONE is the default argument.    *)
ASSUME ThreadsAssumption ==
    /\ IsFiniteSet(Consumers)
    /\ Producers \cap Consumers = {}
    /\ Fetchers \cap Drainers = {}
    /\ NoThread \notin Threads
    /\ WakeTypes \subseteq {"WAKE_ONE", "WAKE_ALL"}
    /\ MaxAppends \in Nat
    /\ MaxSpurious \in Nat

VARIABLES
    list,      \* the std::list
    holder,    \* owner of m_pthr_mutex
    pc,        \* where each thread is
    sent,      \* sent[p]: appends done by producer p
    spurious,  \* spurious wakeups so far
    appended,  \* history: values in the order of push_back
    taken      \* history: values in the order they were removed

listVars == <<list, appended, taken>>
vars == <<list, holder, pc, sent, spurious, appended, taken>>

Values == Producers \X (1 .. MaxAppends)
PCs    == {"out", "lock", "held", "wake", "take", "unlock", "waiting"}

Critical(t) == pc[t] \in {"held", "wake", "take", "unlock"}
Waiting     == {c \in Consumers : pc[c] = "waiting"}
Awake       == {c \in Consumers : pc[c] \in {"lock", "held", "take"}}

Init ==
    /\ list = <<>> /\ appended = <<>> /\ taken = <<>>
    /\ holder = NoThread
    /\ pc = [t \in Threads |-> "out"]
    /\ sent = [p \in Producers |-> 0]
    /\ spurious = 0

-----------------------------------------------------------------------------
(* A thread enters one of the shared_* calls.                              *)
Call(t) ==
    /\ pc[t] = "out"
    /\ t \in Producers => sent[t] < MaxAppends
    /\ pc' = [pc EXCEPT ![t] = "lock"]
    /\ UNCHANGED <<list, holder, sent, spurious, appended, taken>>

(* AutoLocker's constructor, or the tail of pthread_cond_wait.             *)
AcquireLock(t) ==
    /\ pc[t] = "lock"
    /\ holder = NoThread
    /\ holder' = t
    /\ pc' = [pc EXCEPT ![t] = "held"]
    /\ UNCHANGED <<list, sent, spurious, appended, taken>>

PushBack(p) ==
    /\ pc[p] = "held"
    /\ list' = Append(list, <<p, sent[p] + 1>>)
    /\ appended' = Append(appended, <<p, sent[p] + 1>>)
    /\ sent' = [sent EXCEPT ![p] = @ + 1]
    /\ pc' = [pc EXCEPT ![p] = "wake"]
    /\ UNCHANGED <<holder, spurious, taken>>

(* SimpleConditionVar::wake: pthread_cond_signal moves one waiter, if any, *)
(* back to the mutex; pthread_cond_broadcast moves them all.               *)
Signal(p, woken) ==
    pc' = [t \in Threads |-> IF t = p THEN "unlock"
                             ELSE IF t \in woken THEN "lock" ELSE pc[t]]

(* Mutants of Wake: signal only when the list was empty before the append; *)
(* no signal at all (DONT_WAKE_ANYONE).                                    *)
WakeIfWasEmpty(p, how) ==
    /\ pc[p] = "wake"
    /\ \/ (Waiting = {} \/ Len(list) > 1) /\ Signal(p, {})
       \/ Len(list) = 1 /\ \E c \in Waiting : Signal(p, {c})
    /\ UNCHANGED <<list, holder, sent, spurious, appended, taken>>

WakeNobody(p, how) ==
    /\ pc[p] = "wake"
    /\ Signal(p, {})
    /\ UNCHANGED <<list, holder, sent, spurious, appended, taken>>

Wake(p, how) ==
    /\ pc[p] = "wake"
    /\ \/ how = "WAKE_ONE" /\ Waiting = {} /\ Signal(p, {})
       \/ how = "WAKE_ONE" /\ \E c \in Waiting : Signal(p, {c})
       \/ how = "WAKE_ALL" /\ Signal(p, Waiting)
    /\ UNCHANGED <<list, holder, sent, spurious, appended, taken>>

(* while (empty()) wait(): the test, and the atomic release-and-block.     *)
(* Mutants: the loop does not look again; the wait keeps the mutex.        *)
TestNothing(c) ==
    /\ pc[c] = "held"
    /\ pc' = [pc EXCEPT ![c] = "take"]
    /\ UNCHANGED <<list, holder, sent, spurious, appended, taken>>

CondWaitKeepsMutex(c) ==
    /\ pc[c] = "held"
    /\ list = <<>>
    /\ pc' = [pc EXCEPT ![c] = "waiting"]
    /\ UNCHANGED <<list, holder, sent, spurious, appended, taken>>

TestNotEmpty(c) ==
    /\ pc[c] = "held"
    /\ list # <<>>
    /\ pc' = [pc EXCEPT ![c] = "take"]
    /\ UNCHANGED <<list, holder, sent, spurious, appended, taken>>

CondWait(c) ==
    /\ pc[c] = "held"
    /\ list = <<>>
    /\ holder' = NoThread
    /\ pc' = [pc EXCEPT ![c] = "waiting"]
    /\ UNCHANGED <<list, sent, spurious, appended, taken>>

(* POSIX allows pthread_cond_wait to return without a signal.              *)
SpuriousWakeup(c) ==
    /\ pc[c] = "waiting"
    /\ spurious < MaxSpurious
    /\ spurious' = spurious + 1
    /\ pc' = [pc EXCEPT ![c] = "lock"]
    /\ UNCHANGED <<list, holder, sent, appended, taken>>

(* v = front(); pop_front().  Mutant: pop_back() after reading front().    *)
PopBack(c) ==
    /\ pc[c] = "take"
    /\ taken' = Append(taken, Head(list))
    /\ list' = SubSeq(list, 1, Len(list) - 1)
    /\ pc' = [pc EXCEPT ![c] = "unlock"]
    /\ UNCHANGED <<holder, sent, spurious, appended>>

PopFront(c) ==
    /\ pc[c] = "take"
    /\ taken' = Append(taken, Head(list))
    /\ list' = Tail(list)
    /\ pc' = [pc EXCEPT ![c] = "unlock"]
    /\ UNCHANGED <<holder, sent, spurious, appended>>

(* get_to_here.splice(get_to_here.end(), *this)                            *)
SpliceAll(c) ==
    /\ pc[c] = "take"
    /\ taken' = taken \o list
    /\ list' = <<>>
    /\ pc' = [pc EXCEPT ![c] = "unlock"]
    /\ UNCHANGED <<holder, sent, spurious, appended>>

ReleaseLock(t) ==
    /\ pc[t] = "unlock"
    /\ holder' = NoThread
    /\ pc' = [pc EXCEPT ![t] = "out"]
    /\ UNCHANGED <<list, sent, spurious, appended, taken>>

-----------------------------------------------------------------------------
shared_append_one(p) == PushBack(p) \/ \E how \in WakeTypes : Wake(p, how)
ConsumerWait(c)      == TestNotEmpty(c) \/ CondWait(c)
shared_fetch_head(c) == ConsumerWait(c) \/ PopFront(c)
shared_fetch_all(c)  == ConsumerWait(c) \/ SpliceAll(c)

Step(t) ==
    \/ Call(t)
    \/ AcquireLock(t)
    \/ t \in Producers /\ shared_append_one(t)
    \/ t \in Fetchers  /\ shared_fetch_head(t)
    \/ t \in Drainers  /\ shared_fetch_all(t)
    \/ ReleaseLock(t)

Next == (\E t \in Threads : Step(t)) \/ (\E c \in Consumers : SpuriousWakeup(c))

Spec == Init /\ [][Next]_vars

(* The scheduler runs every thread that can run, and workers call          *)
(* shared_fetch_head again and again (thread_main's while(1)).  Producers  *)
(* need not append, but one that is in a call finishes it.                 *)
Fairness ==
    /\ \A c \in Consumers : WF_vars(Step(c))
    /\ \A p \in Producers : WF_vars(Step(p) /\ pc[p] # "out")

FairSpec == Spec /\ Fairness

-----------------------------------------------------------------------------
TypeOK ==
    /\ list \in Seq(Values) /\ appended \in Seq(Values) /\ taken \in Seq(Values)
    /\ holder \in Threads \cup {NoThread}
    /\ pc \in [Threads -> PCs]
    /\ \A t \in Producers : pc[t] \notin {"take", "waiting"}
    /\ \A t \in Consumers : pc[t] # "wake"
    /\ sent \in [Producers -> 0 .. MaxAppends]
    /\ \A p \in Producers : pc[p] \in {"lock", "held"} => sent[p] < MaxAppends
    /\ spurious \in 0 .. MaxSpurious

(* The thread in the critical section is the owner of the mutex: AutoLocker*)
(* and pthread_cond_wait release and retake it in pairs on every path.     *)
MutexOwner == \A t \in Threads : Critical(t) <=> holder = t

(* front() and pop_front() on an empty std::list are undefined behaviour:  *)
(* a consumer past the loop finds the list non-empty, although another     *)
(* consumer may have emptied it between the signal and the wakeup, and the *)
(* wakeup may have been spurious.                                          *)
FrontIsDefined == \A c \in Consumers : pc[c] = "take" => list # <<>>

(* Values come out in the order they went in, each exactly once, whichever *)
(* threads fetch them and whichever of the two fetches they use.           *)
FifoOrder == appended = taken \o list

(* No lost wakeup.  While some consumer sleeps, every value in the list has*)
(* a consumer of its own that is awake and on its way to it: WAKE_ONE per  *)
(* append is enough, although the signal may go to a waiter that a newcomer*)
(* then overtakes.                                                         *)
PendingWake == IF \E p \in Producers : pc[p] = "wake" THEN 1 ELSE 0
NoLostWakeup == Waiting # {} => Len(list) <= Cardinality(Awake) + PendingWake

(* A value appended is eventually fetched, and a thread never stays in the *)
(* mutex: the calls of shared_append_one return.                           *)
EveryValueFetched ==
    \A v \in Values :
        (\E i \in 1 .. Len(appended) : appended[i] = v)
            ~> (\E i \in 1 .. Len(taken) : taken[i] = v)
AppendReturns == \A p \in Producers : pc[p] # "out" ~> pc[p] = "out"

(* The monitor implements the FIFO it stands for: push_back, pop_front and *)
(* splice are its operations, every lock, wait and wakeup is a stutter.    *)
Fifo == INSTANCE JobFifo WITH queue <- list
ImplementsFifo == Fifo!Fifo
=============================================================================
