----------------------------- MODULE OnOffSwitch -----------------------------
(***************************************************************************)
(* OnOffSwitch (CommMan/thread_utils.h): a flag under a mutex and a        *)
(* condition variable.  Setters call turn_on and turn_off, waiters one of  *)
(* the three waits.  As in SharedList, a step is a pthread call or what a  *)
(* thread does between two of them.                                        *)
(*                                                                         *)
(* pc[t]:  "out", "lock", "held", "wake", "waiting", "unlock" as in        *)
(*         SharedList; "late" is a thread whose pthread_cond_timedwait ran *)
(*         out of time and that has to take the mutex before it returns;   *)
(*         "take" is wait_then_turn_off between its loop and its           *)
(*         assignment.                                                     *)
(***************************************************************************)
EXTENDS Naturals

CONSTANTS
    Setters,      \* threads that call turn_on or turn_off
    Waiters,      \* threads that wait for the switch
    MaxSets,      \* bound: calls of turn_on and turn_off
    MaxWakeups,   \* bound: spurious returns of pthread_cond_wait
    Nobody        \* the owner of a free mutex

Threads == Setters \cup Waiters
Sets    == {"turn_on", "turn_off"}
Waits   == {"wait_until_on", "timed_wait_until_on", "wait_then_turn_off"}

(* What a module that instantiates this one owes it.                      *)
SwitchAssumption ==
    /\ Setters \cap Waiters = {}
    /\ Nobody \notin Threads
    /\ MaxSets \in Nat
    /\ MaxWakeups \in Nat

VARIABLES
    on_off,    \* the flag
    holder,    \* owner of the mutex
    pc,        \* where each thread is
    op,        \* the function each thread is in
    sets,      \* calls of turn_on and turn_off so far
    wakeups,   \* spurious wakeups so far
    ons,       \* history: times the flag went from off to on (or began on)
    offs,      \* history: times turn_off took it from on to off
    taken      \* history: times wait_then_turn_off did

vars == <<on_off, holder, pc, op, sets, wakeups, ons, offs, taken>>
history == <<ons, offs, taken>>

Asleep == {t \in Waiters : pc[t] = "waiting"}

(* init_state is an argument of the constructor.                           *)
Init ==
    /\ on_off \in BOOLEAN
    /\ holder = Nobody
    /\ pc = [t \in Threads |-> "out"]
    /\ op = [t \in Threads |-> "none"]
    /\ sets = 0 /\ wakeups = 0
    /\ ons = IF on_off THEN 1 ELSE 0
    /\ offs = 0 /\ taken = 0

-----------------------------------------------------------------------------
Goto(t, where) == pc' = [pc EXCEPT ![t] = where]

CallSet(s, f) ==
    /\ pc[s] = "out"
    /\ sets < MaxSets
    /\ sets' = sets + 1
    /\ op' = [op EXCEPT ![s] = f]
    /\ Goto(s, "lock")
    /\ UNCHANGED <<on_off, holder, wakeups, history>>

CallWait(w, f) ==
    /\ pc[w] = "out"
    /\ op' = [op EXCEPT ![w] = f]
    /\ Goto(w, "lock")
    /\ UNCHANGED <<on_off, holder, sets, wakeups, history>>

(* AutoLocker, or the tail of a pthread wait.  One that timed out makes    *)
(* timed_wait_until_on return without another look at the flag.            *)
AcquireLock(t) ==
    /\ pc[t] \in {"lock", "late"}
    /\ holder = Nobody
    /\ holder' = t
    /\ Goto(t, IF pc[t] = "late" THEN "unlock" ELSE "held")
    /\ UNCHANGED <<on_off, op, sets, wakeups, history>>

(* The assignment in turn_on and in turn_off.                              *)
SetFlag(s) ==
    /\ pc[s] = "held"
    /\ on_off' = (op[s] = "turn_on")
    /\ ons' = IF on_off' /\ ~on_off THEN ons + 1 ELSE ons
    /\ offs' = IF on_off /\ ~on_off' THEN offs + 1 ELSE offs
    /\ Goto(s, "wake")
    /\ UNCHANGED <<holder, op, sets, wakeups, taken>>

(* wake(WAKE_ALL) in turn_on, wake(WAKE_ONE) in turn_off, which sends one  *)
(* sleeper to look at a flag that is off.                                  *)
Signal(s, woken) ==
    /\ pc' = [t \in Threads |-> IF t = s THEN "unlock"
                                ELSE IF t \in woken THEN "lock" ELSE pc[t]]
    /\ UNCHANGED <<on_off, holder, op, sets, wakeups, history>>

WakeOne(s) ==
    /\ pc[s] = "wake"
    /\ \/ Asleep = {} /\ Signal(s, {})
       \/ \E t \in Asleep : Signal(s, {t})

(* Mutant: turn_on wakes one, as turn_off does.                            *)
WakeJustOne(s) == WakeOne(s)

Wake(s) ==
    \/ op[s] = "turn_off" /\ WakeOne(s)
    \/ op[s] = "turn_on" /\ pc[s] = "wake" /\ Signal(s, Asleep)

(* while (!on_off) wait(): the mutex is released and the thread put to     *)
(* sleep in one step.                                                      *)
CondWait(w) ==
    /\ pc[w] = "held"
    /\ ~on_off
    /\ holder' = Nobody
    /\ Goto(w, "waiting")
    /\ UNCHANGED <<on_off, op, sets, wakeups, history>>

(* Past the loop.  Mutant: the mutex is let go before the flag is set.     *)
SeeOnThenUnlock(w) ==
    /\ pc[w] = "held"
    /\ on_off
    /\ holder' = Nobody
    /\ Goto(w, IF op[w] = "wait_then_turn_off" THEN "take" ELSE "unlock")
    /\ UNCHANGED <<on_off, op, sets, wakeups, history>>

SeeOn(w) ==
    /\ pc[w] = "held"
    /\ on_off
    /\ Goto(w, IF op[w] = "wait_then_turn_off" THEN "take" ELSE "unlock")
    /\ UNCHANGED <<on_off, holder, op, sets, wakeups, history>>

(* wait_then_turn_off turns it off, and wakes nobody.                      *)
TakeIt(w) ==
    /\ pc[w] = "take"
    /\ on_off' = FALSE
    /\ taken' = taken + 1
    /\ Goto(w, "unlock")
    /\ UNCHANGED <<holder, op, sets, wakeups, ons, offs>>

SpuriousWakeup(w) ==
    /\ pc[w] = "waiting"
    /\ wakeups < MaxWakeups
    /\ wakeups' = wakeups + 1
    /\ Goto(w, "lock")
    /\ UNCHANGED <<on_off, holder, op, sets, history>>

(* time(NULL) + seconds is a deadline in whole seconds, so that even the   *)
(* shortest wait may run out of time, at once or after the flag is on.     *)
TimeOut(w) ==
    /\ pc[w] = "waiting"
    /\ op[w] = "timed_wait_until_on"
    /\ Goto(w, "late")
    /\ UNCHANGED <<on_off, holder, op, sets, wakeups, history>>

ReleaseLock(t) ==
    /\ pc[t] = "unlock"
    /\ holder' = Nobody
    /\ op' = [op EXCEPT ![t] = "none"]
    /\ Goto(t, "out")
    /\ UNCHANGED <<on_off, sets, wakeups, history>>

-----------------------------------------------------------------------------
(* What a thread does in a call, but for taking the mutex.                 *)
SetStep(s)  == SetFlag(s) \/ Wake(s) \/ ReleaseLock(s)
WaitStep(w) == CondWait(w) \/ SeeOn(w) \/ TakeIt(w) \/ TimeOut(w) \/ ReleaseLock(w)

Next ==
    \/ \E t \in Threads : AcquireLock(t)
    \/ \E s \in Setters : SetStep(s) \/ \E f \in Sets : CallSet(s, f)
    \/ \E w \in Waiters : \/ WaitStep(w) \/ SpuriousWakeup(w)
                          \/ \E f \in Waits : CallWait(w, f)

Spec == Init /\ [][Next]_vars

(* A thread in a call goes on, time passes, and a mutex that is released   *)
(* again and again does not starve a thread for ever.                      *)
Fairness ==
    /\ \A t \in Threads : SF_vars(AcquireLock(t))
    /\ \A s \in Setters : WF_vars(SetStep(s))
    /\ \A w \in Waiters : WF_vars(WaitStep(w))

FairSpec == Spec /\ Fairness

-----------------------------------------------------------------------------
TypeOK ==
    /\ on_off \in BOOLEAN
    /\ holder \in Threads \cup {Nobody}
    /\ pc \in [Threads -> {"out", "lock", "late", "held", "wake", "take",
                         "waiting", "unlock"}]
    /\ op \in [Threads -> Sets \cup Waits \cup {"none"}]
    /\ \A s \in Setters : pc[s] \notin {"waiting", "late"}
    /\ \A w \in Waiters : pc[w] # "wake"
    /\ \A s \in Setters : pc[s] \in {"lock", "held", "wake"} => op[s] \in Sets
    /\ sets \in Nat /\ wakeups \in Nat
    /\ ons \in Nat /\ offs \in Nat /\ taken \in Nat

(* Nobody sleeps while the switch is on, but between the assignment and    *)
(* the broadcast of turn_on.  The flag may have been turned off and on     *)
(* again before a woken thread got the mutex.                              *)
NoSleeperWhileOn ==
    on_off => \/ Asleep = {}
              \/ \E s \in Setters : pc[s] = "wake" /\ op[s] = "turn_on"

(* Each time the switch comes on at most one wait_then_turn_off takes it,  *)
(* however many threads the broadcast has woken, and not one that turn_off *)
(* has taken back before.                                                  *)
TakenOncePerOn == taken + offs + (IF on_off THEN 1 ELSE 0) = ons

(* A switch that stays on lets everybody go.                               *)
OnReleasesAll == \A w \in Waiters : <>[]on_off => []<>(pc[w] = "out")
=============================================================================
