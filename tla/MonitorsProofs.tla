--------------------------- MODULE MonitorsProofs ---------------------------
(***************************************************************************)
(* Theorems of SharedList, for every set of threads, every mix of wakeup   *)
(* types and any number of appends and spurious wakeups; then of           *)
(* OnOffSwitch, for every set of threads and any number of calls.          *)
(***************************************************************************)
EXTENDS Monitors, FiniteSetTheorems, SequenceTheorems, TLAPS

(* The thread steps, with the disjuncts of Step spelled out.               *)
StepCases(t) ==
    \/ Call(t)
    \/ AcquireLock(t)
    \/ t \in Producers /\ PushBack(t)
    \/ t \in Producers /\ \E how \in WakeTypes : Wake(t, how)
    \/ t \in Consumers /\ TestNotEmpty(t)
    \/ t \in Consumers /\ CondWait(t)
    \/ t \in Consumers /\ SpuriousWakeup(t)
    \/ t \in Fetchers /\ PopFront(t)
    \/ t \in Drainers /\ SpliceAll(t)
    \/ ReleaseLock(t)

(* Every step of the system is one of these ten, taken by one thread.      *)
LEMMA NextCases ==
    ASSUME Next
    PROVE  \E t \in Threads : StepCases(t)
<1>1. CASE \E t \in Threads : Step(t)
  BY <1>1 DEF Step, StepCases, shared_append_one, shared_fetch_head,
              shared_fetch_all, ConsumerWait, Consumers
<1>2. CASE \E c \in Consumers : SpuriousWakeup(c)
  BY <1>2 DEF StepCases, Threads
<1>3. QED
  BY <1>1, <1>2 DEF Next

-----------------------------------------------------------------------------
(* What a wakeup changes: the waker leaves the condition variable, some    *)
(* waiters compete for the mutex, nobody else moves.                       *)
LEMMA WakeEffect ==
    ASSUME NEW p \in Producers, NEW how \in WakeTypes, Wake(p, how)
    PROVE  \E woken \in SUBSET Waiting :
               Signal(p, woken) /\ (woken = {} => Waiting = {})
BY DEF Wake

(* Why front() is defined cannot be seen from the types alone: it takes    *)
(* that the list does not change between a consumer's test and its read,   *)
(* that is, mutual exclusion.  The three are inductive together.           *)
IInv == TypeOK /\ MutexOwner /\ FrontIsDefined

(* Invariance of types, mutual exclusion and FrontIsDefined, step by step. *)
LEMMA IInvStep ==
    ASSUME IInv, NEW t \in Threads, StepCases(t)
    PROVE  IInv'
<1> USE ThreadsAssumption DEF IInv, TypeOK, MutexOwner, FrontIsDefined, Critical, PCs, Threads
<1>1. CASE Call(t)
  BY <1>1 DEF Call
<1>2. CASE AcquireLock(t)
  BY <1>2 DEF AcquireLock
<1>3. CASE t \in Producers /\ PushBack(t)
  <2>1. <<t, sent[t] + 1>> \in Values
    BY <1>3 DEF Values, PushBack
  <2>2. sent' \in [Producers -> 0 .. MaxAppends]
    BY <1>3 DEF PushBack
  <2>3. list' \in Seq(Values) /\ appended' \in Seq(Values)
    BY <2>1, <1>3 DEF PushBack
  <2>4. TypeOK'
    BY <1>3, <2>2, <2>3 DEF PushBack
  <2>5. MutexOwner'
    BY <1>3 DEF PushBack
  <2>6. FrontIsDefined'
    BY <1>3 DEF PushBack, Consumers
  <2>7. QED
    BY <2>4, <2>5, <2>6
<1>4. CASE t \in Producers /\ \E how \in WakeTypes : Wake(t, how)
  <2>1. PICK woken \in SUBSET Waiting : Signal(t, woken)
    BY <1>4, WakeEffect
  <2>2. UNCHANGED <<list, holder, sent, spurious, appended, taken>> /\ pc[t] = "wake"
    BY <1>4 DEF Wake
  <2>3. woken \cap Producers = {} /\ \A c \in woken : pc[c] = "waiting"
    BY DEF Waiting, Consumers
  <2>4. QED
    BY <2>1, <2>2, <2>3 DEF Signal
<1>5. CASE t \in Consumers /\ TestNotEmpty(t)
  BY <1>5 DEF TestNotEmpty
<1>6. CASE t \in Consumers /\ CondWait(t)
  BY <1>6 DEF CondWait
<1>7. CASE t \in Consumers /\ SpuriousWakeup(t)
  BY <1>7 DEF SpuriousWakeup
<1>8. CASE t \in Fetchers /\ PopFront(t)
  <2>1. list # <<>> /\ t \in Consumers /\ \A c \in Consumers \ {t} : pc[c] # "take"
    BY <1>8 DEF PopFront, Consumers
  <2>2. Head(list) \in Values /\ Tail(list) \in Seq(Values)
    BY <2>1
  <2>3. QED
    BY <1>8, <2>1, <2>2 DEF PopFront
<1>9. CASE t \in Drainers /\ SpliceAll(t)
  <2>1. t \in Consumers /\ \A c \in Consumers \ {t} : pc[c] # "take"
    BY <1>9 DEF SpliceAll, Consumers
  <2>2. taken \o list \in Seq(Values)
    OBVIOUS
  <2>3. QED
    BY <1>9, <2>1, <2>2 DEF SpliceAll
<1>10. CASE ReleaseLock(t)
  BY <1>10 DEF ReleaseLock
<1>11. QED
  BY <1>1, <1>2, <1>3, <1>4, <1>5, <1>6, <1>7, <1>8, <1>9, <1>10 DEF StepCases

(* A step that changes nothing keeps all the invariants of this module.    *)
LEMMA Stutter ==
    ASSUME UNCHANGED vars
    PROVE  /\ IInv => IInv'
           /\ FifoOrder => FifoOrder'
           /\ NoLostWakeup => NoLostWakeup'
BY DEF vars, IInv, TypeOK, MutexOwner, FrontIsDefined, Critical, FifoOrder,
       NoLostWakeup, Waiting, Awake, PendingWake

(* In every reachable state the variables have their types, the critical   *)
(* section has one owner and no consumer reads the front of an empty list: *)
(* AutoLocker, the while loop around wait() and the wakeups of             *)
(* shared_append_one are right whatever the schedule.                      *)
THEOREM SafeMonitor == Spec => [](TypeOK /\ MutexOwner /\ FrontIsDefined)
<1>1. Init => IInv
  BY ThreadsAssumption DEF Init, IInv, TypeOK, MutexOwner, FrontIsDefined, Critical,
       Threads, Consumers, PCs, Values
<1>2. IInv /\ [Next]_vars => IInv'
  BY NextCases, IInvStep, Stutter
<1>3. QED
  BY <1>1, <1>2, PTL DEF Spec, IInv

-----------------------------------------------------------------------------
(* FIFO, exactly once: what was appended is what was taken followed by     *)
(* what is still in the list.                                              *)
THEOREM FifoAlways == Spec => []FifoOrder
<1>1. Init => FifoOrder
  BY DEF Init, FifoOrder
<1>2. IInv /\ FifoOrder /\ [Next]_vars => FifoOrder'
  <2> SUFFICES ASSUME IInv, FifoOrder, Next PROVE FifoOrder'
    BY Stutter
  <2>1. PICK t \in Threads : StepCases(t)
    BY NextCases
  <2> USE DEF IInv, TypeOK, FifoOrder
  <2>2. CASE t \in Producers /\ PushBack(t)
    <3>1. <<t, sent[t] + 1>> \in Values
      BY <2>2, ThreadsAssumption DEF PushBack, Values
    <3>2. taken \o Append(list, <<t, sent[t] + 1>>) = Append(taken \o list, <<t, sent[t] + 1>>)
      BY <3>1
    <3>3. QED
      BY <2>2, <3>2 DEF PushBack
  <2>3. CASE t \in Fetchers /\ PopFront(t)
    <3>1. list # <<>>
      BY <2>3 DEF PopFront, FrontIsDefined, Consumers
    <3>2. Append(taken, Head(list)) \o Tail(list) = taken \o list
      BY <3>1
    <3>3. QED
      BY <2>3, <3>2 DEF PopFront
  <2>4. CASE t \in Drainers /\ SpliceAll(t)
    BY <2>4 DEF SpliceAll
  <2>5. CASE UNCHANGED listVars
    BY <2>5 DEF listVars
  <2>6. QED
    BY <2>1, <2>2, <2>3, <2>4, <2>5
    DEF StepCases, Call, AcquireLock, Wake, TestNotEmpty, CondWait, SpuriousWakeup,
        ReleaseLock, listVars
<1>3. Spec => []IInv
  BY SafeMonitor, PTL DEF IInv
<1>4. QED
  BY <1>1, <1>2, <1>3, PTL DEF Spec

(* Awake is finite and counts: growing it does not lower its size, taking  *)
(* a member out lowers it by one.                                          *)
LEMMA AwakeFinite ==
    /\ IsFiniteSet(Awake)
    /\ Cardinality(Awake) \in Nat
BY ThreadsAssumption, FS_Subset, FS_CardinalityType DEF Awake

LEMMA AwakeGrows ==
    ASSUME Awake \subseteq Awake'
    PROVE  /\ Cardinality(Awake) <= Cardinality(Awake')
           /\ Awake # Awake' => Cardinality(Awake) + 1 <= Cardinality(Awake')
<1>1. IsFiniteSet(Awake') /\ IsFiniteSet(Awake)
  BY ThreadsAssumption, FS_Subset DEF Awake
<1>2. /\ Cardinality(Awake) \in Nat /\ Cardinality(Awake') \in Nat
      /\ Cardinality(Awake) <= Cardinality(Awake')
      /\ Cardinality(Awake) = Cardinality(Awake') => Awake = Awake'
  BY <1>1, FS_Subset, FS_CardinalityType
<1>3. QED
  BY <1>2

(* No lost wakeup, for any number of producers and consumers: the argument *)
(* that one pthread_cond_signal per append is enough.                      *)
THEOREM NoLostWakeupAlways == Spec => []NoLostWakeup
<1>1. Init => NoLostWakeup
  BY DEF Init, NoLostWakeup, Waiting, Threads
<1>2. IInv /\ NoLostWakeup /\ [Next]_vars => NoLostWakeup'
  <2> SUFFICES ASSUME IInv, NoLostWakeup, Next PROVE NoLostWakeup'
    BY Stutter
  <2>1. PICK t \in Threads : StepCases(t)
    BY NextCases
  <2>2. /\ Len(list) \in Nat /\ Cardinality(Awake) \in Nat
        /\ PendingWake \in {0, 1} /\ PendingWake' \in {0, 1}
    BY AwakeFinite DEF IInv, TypeOK, PendingWake
  <2>3. Len(list)' \in Nat /\ Cardinality(Awake)' \in Nat
    BY <2>1, IInvStep, ThreadsAssumption, FS_Subset, FS_CardinalityType
    DEF IInv, TypeOK, Awake
  <2> USE DEF NoLostWakeup
  <2>4. CASE t \in Producers /\ PushBack(t)
    <3>1. PendingWake = 0 /\ PendingWake' = 1
      BY <2>4 DEF PushBack, PendingWake, IInv, TypeOK, MutexOwner, Critical, Threads
    <3>2. UNCHANGED <<Waiting, Awake>>
      BY <2>4, ThreadsAssumption DEF PushBack, Waiting, Awake, IInv, TypeOK, Threads
    <3>3. Len(list)' = Len(list) + 1
      BY <2>4 DEF PushBack, IInv, TypeOK
    <3>4. QED
      BY <2>2, <3>1, <3>2, <3>3
  <2>5. CASE t \in Producers /\ \E how \in WakeTypes : Wake(t, how)
    <3>1. PICK woken \in SUBSET Waiting : Signal(t, woken) /\ (woken = {} => Waiting = {})
      BY <2>5, WakeEffect
    <3>2. UNCHANGED list /\ pc[t] = "wake"
      BY <2>5 DEF Wake
    <3>3. Waiting' = Waiting \ woken /\ Awake' = Awake \cup woken
      BY <3>1, <2>5, ThreadsAssumption DEF Signal, Waiting, Awake, Threads, Consumers
    <3>4. Waiting \cap Awake = {}
      BY DEF Waiting, Awake
    <3>5. CASE woken = {}
      BY <3>5, <3>1, <3>3
    <3>6. CASE woken # {}
      <4>1. Cardinality(Awake) + 1 <= Cardinality(Awake')
        BY <3>3, <3>4, <3>6, AwakeGrows
      <4>2. Waiting # {}
        BY <3>6
      <4>3. QED
        BY <2>2, <2>3, <3>2, <4>1, <4>2
    <3>7. QED
      BY <3>5, <3>6
  <2>6. CASE t \in Consumers /\ CondWait(t)
    BY <2>6, <2>2, <2>3 DEF CondWait
  <2>7. CASE t \in Fetchers /\ PopFront(t)
    <3>1. t \in Awake /\ Awake' = Awake \ {t} /\ UNCHANGED Waiting
      BY <2>7, ThreadsAssumption DEF PopFront, Awake, Waiting, Consumers, IInv, TypeOK, Threads
    <3>2. Cardinality(Awake') = Cardinality(Awake) - 1
      BY <3>1, AwakeFinite, FS_RemoveElement
    <3>3. Len(list)' = Len(list) - 1
      BY <2>7 DEF PopFront, IInv, TypeOK, FrontIsDefined, Consumers
    <3>4. UNCHANGED PendingWake
      BY <2>7, ThreadsAssumption DEF PopFront, PendingWake, Consumers, IInv, TypeOK, Threads
    <3>5. QED
      BY <2>2, <2>3, <3>1, <3>2, <3>3, <3>4
  <2>8. CASE t \in Drainers /\ SpliceAll(t)
    BY <2>8, <2>2, <2>3 DEF SpliceAll
  <2>9. CASE \/ Call(t) \/ AcquireLock(t) \/ ReleaseLock(t)
             \/ t \in Consumers /\ (TestNotEmpty(t) \/ SpuriousWakeup(t))
    <3>1. Awake \subseteq Awake' /\ Waiting' \subseteq Waiting
      BY <2>9 DEF Call, AcquireLock, ReleaseLock, TestNotEmpty, SpuriousWakeup,
                  Awake, Waiting, IInv, TypeOK, Threads
    <3>2. UNCHANGED <<PendingWake, list>>
      BY <2>9, ThreadsAssumption
      DEF Call, AcquireLock, ReleaseLock, TestNotEmpty, SpuriousWakeup,
          PendingWake, IInv, TypeOK, Threads
    <3>3. Cardinality(Awake) <= Cardinality(Awake')
      BY <3>1, AwakeGrows
    <3>4. QED
      BY <2>2, <2>3, <3>1, <3>2, <3>3
  <2>10. QED
    BY <2>1, <2>4, <2>5, <2>6, <2>7, <2>8, <2>9 DEF StepCases
<1>3. QED
  BY <1>1, <1>2, SafeMonitor, PTL DEF Spec, IInv

(* The pthread monitor implements the atomic FIFO that the worker thread   *)
(* modules build on: each step is a Put, a GetHead, a GetAll or a stutter. *)
THEOREM Implements == Spec => ImplementsFifo
<1>1. Init => Fifo!Init
  BY DEF Init, Fifo!Init
<1>2. IInv /\ [Next]_vars => [Fifo!Next]_Fifo!fifoVars
  <2> SUFFICES ASSUME IInv, Next PROVE [Fifo!Next]_Fifo!fifoVars
    BY DEF vars, Fifo!fifoVars
  <2>1. PICK t \in Threads : StepCases(t)
    BY NextCases
  <2>2. CASE t \in Producers /\ PushBack(t)
    <3>1. <<t, sent[t] + 1>> \in Values
      BY <2>2, ThreadsAssumption DEF PushBack, Values, IInv, TypeOK
    <3>2. Fifo!Put(<<t, sent[t] + 1>>)
      BY <2>2 DEF PushBack, Fifo!Put
    <3>3. QED
      BY <3>1, <3>2 DEF Fifo!Next
  <2>3. CASE t \in Fetchers /\ PopFront(t)
    BY <2>3 DEF PopFront, Fifo!GetHead, Fifo!Next, IInv, FrontIsDefined, Consumers
  <2>4. CASE t \in Drainers /\ SpliceAll(t)
    BY <2>4 DEF SpliceAll, Fifo!GetAll, Fifo!Next, IInv, FrontIsDefined, Consumers
  <2>5. QED
    BY <2>1, <2>2, <2>3, <2>4
    DEF StepCases, Call, AcquireLock, Wake, TestNotEmpty, CondWait, SpuriousWakeup,
        ReleaseLock, Fifo!fifoVars
<1>3. QED
  BY <1>1, <1>2, SafeMonitor, PTL DEF Spec, IInv, ImplementsFifo, Fifo!Fifo

-----------------------------------------------------------------------------
(* OnOffSwitch.                                                            *)

(* What a thread between AutoLocker and its destructor owns.               *)
Owning == {"held", "wake", "take", "unlock"}

SwitchOwner == \A t \in Switch!Threads : sw_pc[t] \in Owning <=> sw_holder = t

(* A thread that has seen the switch on finds it on when it takes it:      *)
(* nobody else can have turned it off in between.                          *)
StillOn == \A w \in Waiters : sw_pc[w] = "take" => on_off

SwitchInv ==
    /\ Switch!TypeOK /\ SwitchOwner /\ StillOn
    /\ Switch!NoSleeperWhileOn /\ Switch!TakenOncePerOn

SwitchStep(t) ==
    \/ Switch!AcquireLock(t)
    \/ t \in Setters /\ Switch!SetFlag(t)
    \/ t \in Setters /\ Switch!Wake(t)
    \/ t \in Setters /\ \E f \in Switch!Sets : Switch!CallSet(t, f)
    \/ t \in Waiters /\ Switch!CondWait(t)
    \/ t \in Waiters /\ Switch!SeeOn(t)
    \/ t \in Waiters /\ Switch!TakeIt(t)
    \/ t \in Waiters /\ Switch!TimeOut(t)
    \/ t \in Waiters /\ Switch!SpuriousWakeup(t)
    \/ t \in Waiters /\ \E f \in Switch!Waits : Switch!CallWait(t, f)
    \/ Switch!ReleaseLock(t)

LEMMA SwitchNextCases ==
    ASSUME Switch!Next
    PROVE  \E t \in Switch!Threads : SwitchStep(t)
BY DEF Switch!Next, SwitchStep, Switch!SetStep, Switch!WaitStep, Switch!Threads

(* A signal or a broadcast sends some of the sleepers to the mutex; a      *)
(* broadcast, that is turn_on's, all of them.                              *)
LEMMA SwitchWakeEffect ==
    ASSUME NEW s \in Setters, Switch!Wake(s)
    PROVE  \E woken \in SUBSET Switch!Asleep :
               /\ sw_pc[s] = "wake"
               /\ Switch!Signal(s, woken)
               /\ op[s] # "turn_off" => woken = Switch!Asleep
<1>1. CASE op[s] = "turn_off" /\ Switch!WakeOne(s)
  BY <1>1 DEF Switch!WakeOne
<1>2. CASE op[s] = "turn_on" /\ sw_pc[s] = "wake" /\ Switch!Signal(s, Switch!Asleep)
  BY <1>2
<1>3. QED
  BY <1>1, <1>2 DEF Switch!Wake

LEMMA SwitchInvStep ==
    ASSUME Switch!SwitchAssumption, SwitchInv, NEW t \in Switch!Threads, SwitchStep(t)
    PROVE  SwitchInv'
<1> USE DEF SwitchInv, SwitchOwner, StillOn, Owning, Switch!SwitchAssumption,
            Switch!TypeOK, Switch!Threads, Switch!NoSleeperWhileOn, Switch!TakenOncePerOn,
            Switch!Asleep, Switch!Goto, Switch!history, Switch!Sets, Switch!Waits
<1>1. CASE Switch!AcquireLock(t)
  <2>1. Switch!TypeOK'
    BY <1>1 DEF Switch!AcquireLock
  <2>2. SwitchOwner' /\ StillOn'
    BY <1>1 DEF Switch!AcquireLock
  <2>3. Switch!NoSleeperWhileOn'
    BY <1>1 DEF Switch!AcquireLock
  <2>4. Switch!TakenOncePerOn'
    BY <1>1 DEF Switch!AcquireLock
  <2>5. QED
    BY <2>1, <2>2, <2>3, <2>4
<1>2. CASE t \in Setters /\ Switch!SetFlag(t)
  <2>1. Switch!TypeOK'
    BY <1>2 DEF Switch!SetFlag
  <2>2. SwitchOwner' /\ StillOn'
    BY <1>2 DEF Switch!SetFlag
  <2>3. Switch!NoSleeperWhileOn'
    BY <1>2 DEF Switch!SetFlag
  <2>4. Switch!TakenOncePerOn'
    BY <1>2 DEF Switch!SetFlag
  <2>5. QED
    BY <2>1, <2>2, <2>3, <2>4
<1>3. CASE t \in Setters /\ Switch!Wake(t)
  <2>1. PICK woken \in SUBSET Switch!Asleep :
               /\ sw_pc[t] = "wake"
               /\ Switch!Signal(t, woken)
               /\ op[t] # "turn_off" => woken = Switch!Asleep
    BY <1>3, SwitchWakeEffect
  <2>2. Switch!TypeOK'
    BY <1>3, <2>1 DEF Switch!Signal
  <2>3. SwitchOwner' /\ StillOn'
    BY <1>3, <2>1 DEF Switch!Signal
  <2>4. Switch!NoSleeperWhileOn'
    BY <1>3, <2>1 DEF Switch!Signal
  <2>5. Switch!TakenOncePerOn'
    BY <2>1 DEF Switch!Signal
  <2>6. QED
    BY <2>2, <2>3, <2>4, <2>5
<1>4. CASE t \in Setters /\ \E f \in Switch!Sets : Switch!CallSet(t, f)
  <2>1. Switch!TypeOK'
    BY <1>4 DEF Switch!CallSet
  <2>2. SwitchOwner' /\ StillOn'
    BY <1>4 DEF Switch!CallSet
  <2>3. Switch!NoSleeperWhileOn'
    BY <1>4 DEF Switch!CallSet
  <2>4. Switch!TakenOncePerOn'
    BY <1>4 DEF Switch!CallSet
  <2>5. QED
    BY <2>1, <2>2, <2>3, <2>4
<1>5. CASE t \in Waiters /\ Switch!CondWait(t)
  <2>1. Switch!TypeOK'
    BY <1>5 DEF Switch!CondWait
  <2>2. SwitchOwner' /\ StillOn'
    BY <1>5 DEF Switch!CondWait
  <2>3. Switch!NoSleeperWhileOn'
    BY <1>5 DEF Switch!CondWait
  <2>4. Switch!TakenOncePerOn'
    BY <1>5 DEF Switch!CondWait
  <2>5. QED
    BY <2>1, <2>2, <2>3, <2>4
<1>6. CASE t \in Waiters /\ Switch!SeeOn(t)
  <2>1. Switch!TypeOK'
    BY <1>6 DEF Switch!SeeOn
  <2>2. SwitchOwner' /\ StillOn'
    BY <1>6 DEF Switch!SeeOn
  <2>3. Switch!NoSleeperWhileOn'
    BY <1>6 DEF Switch!SeeOn
  <2>4. Switch!TakenOncePerOn'
    BY <1>6 DEF Switch!SeeOn
  <2>5. QED
    BY <2>1, <2>2, <2>3, <2>4
<1>7. CASE t \in Waiters /\ Switch!TakeIt(t)
  <2>1. Switch!TypeOK'
    <3>1. turned' \in Nat
      BY <1>7 DEF Switch!TakeIt
    <3>2. on_off' \in BOOLEAN
      BY <1>7, Zenon DEF Switch!TakeIt
    <3>3. sw_pc' = [sw_pc EXCEPT ![t] = "unlock"]
      BY <1>7 DEF Switch!TakeIt
    <3>4. UNCHANGED <<sw_holder, op, sets, wakeups, ons, offs>>
      BY <1>7 DEF Switch!TakeIt
    <3>5. QED
      BY <1>7, <3>1, <3>2, <3>3, <3>4
  <2>2. SwitchOwner' /\ StillOn'
    BY <1>7 DEF Switch!TakeIt
  <2>3. Switch!NoSleeperWhileOn'
    BY <1>7 DEF Switch!TakeIt
  <2>4. Switch!TakenOncePerOn'
    BY <1>7 DEF Switch!TakeIt
  <2>5. QED
    BY <2>1, <2>2, <2>3, <2>4
<1>8. CASE t \in Waiters /\ Switch!TimeOut(t)
  <2>1. Switch!TypeOK'
    BY <1>8 DEF Switch!TimeOut
  <2>2. SwitchOwner' /\ StillOn'
    BY <1>8 DEF Switch!TimeOut
  <2>3. Switch!NoSleeperWhileOn'
    BY <1>8 DEF Switch!TimeOut
  <2>4. Switch!TakenOncePerOn'
    BY <1>8 DEF Switch!TimeOut
  <2>5. QED
    BY <2>1, <2>2, <2>3, <2>4
<1>9. CASE t \in Waiters /\ Switch!SpuriousWakeup(t)
  <2>1. Switch!TypeOK'
    BY <1>9 DEF Switch!SpuriousWakeup
  <2>2. SwitchOwner' /\ StillOn'
    BY <1>9 DEF Switch!SpuriousWakeup
  <2>3. Switch!NoSleeperWhileOn'
    BY <1>9 DEF Switch!SpuriousWakeup
  <2>4. Switch!TakenOncePerOn'
    BY <1>9 DEF Switch!SpuriousWakeup
  <2>5. QED
    BY <2>1, <2>2, <2>3, <2>4
<1>10. CASE t \in Waiters /\ \E f \in Switch!Waits : Switch!CallWait(t, f)
  <2>1. Switch!TypeOK'
    BY <1>10 DEF Switch!CallWait
  <2>2. SwitchOwner' /\ StillOn'
    BY <1>10 DEF Switch!CallWait
  <2>3. Switch!NoSleeperWhileOn'
    BY <1>10 DEF Switch!CallWait
  <2>4. Switch!TakenOncePerOn'
    BY <1>10 DEF Switch!CallWait
  <2>5. QED
    BY <2>1, <2>2, <2>3, <2>4
<1>11. CASE Switch!ReleaseLock(t)
  <2>1. Switch!TypeOK'
    BY <1>11 DEF Switch!ReleaseLock
  <2>2. SwitchOwner' /\ StillOn'
    BY <1>11 DEF Switch!ReleaseLock
  <2>3. Switch!NoSleeperWhileOn'
    BY <1>11 DEF Switch!ReleaseLock
  <2>4. Switch!TakenOncePerOn'
    BY <1>11 DEF Switch!ReleaseLock
  <2>5. QED
    BY <2>1, <2>2, <2>3, <2>4
<1>12. QED
  BY <1>1, <1>2, <1>3, <1>4, <1>5, <1>6, <1>7, <1>8, <1>9, <1>10, <1>11 DEF SwitchStep

(* Neither property is inductive: that what a waiter saw is still so when  *)
(* it acts on it takes mutual exclusion, in the waits and across them.     *)
THEOREM SwitchHolds == Switch!SwitchAssumption /\ Switch!Spec => []SwitchInv
<1>1. Switch!SwitchAssumption /\ Switch!Init => SwitchInv
  BY DEF SwitchInv, SwitchOwner, StillOn, Owning, Switch!SwitchAssumption, Switch!Init,
         Switch!TypeOK, Switch!Threads, Switch!NoSleeperWhileOn, Switch!TakenOncePerOn,
         Switch!Asleep
<1>2. Switch!SwitchAssumption /\ SwitchInv /\ [Switch!Next]_(Switch!vars) => SwitchInv'
  <2> SUFFICES ASSUME Switch!SwitchAssumption, SwitchInv, [Switch!Next]_(Switch!vars)
               PROVE  SwitchInv'
    OBVIOUS
  <2>1. CASE Switch!Next
    BY <2>1, SwitchNextCases, SwitchInvStep
  <2>2. CASE UNCHANGED Switch!vars
    BY <2>2 DEF Switch!vars, SwitchInv, SwitchOwner, StillOn, Switch!TypeOK,
                Switch!NoSleeperWhileOn, Switch!TakenOncePerOn, Switch!Asleep
  <2>3. QED
    BY <2>1, <2>2
<1>3. Switch!SwitchAssumption => Switch!SwitchAssumption'
  BY DEF Switch!SwitchAssumption, Switch!Threads
<1>4. QED
  BY <1>1, <1>2, <1>3, PTL DEF Switch!Spec

(* turn_on leaves nobody asleep, for any number of setters and waiters and *)
(* with turn_off and newcomers in between.                                 *)
THEOREM OnWakesAll ==
    Switch!SwitchAssumption /\ Switch!Spec => [](Switch!TypeOK /\ NoSleeperWhileOn)
<1>1. SwitchInv => Switch!TypeOK /\ NoSleeperWhileOn
  BY DEF SwitchInv, NoSleeperWhileOn
<1>2. QED
  BY <1>1, SwitchHolds, PTL

(* What was turned on once is taken once, by wait_then_turn_off or by      *)
(* turn_off, however many waiters turn_on has woken.                       *)
THEOREM TakenOnce == Switch!SwitchAssumption /\ Switch!Spec => []TakenOncePerOn
<1>1. SwitchInv => TakenOncePerOn
  BY DEF SwitchInv, TakenOncePerOn
<1>2. QED
  BY <1>1, SwitchHolds, PTL
=============================================================================
