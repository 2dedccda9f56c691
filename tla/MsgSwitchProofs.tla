-------------------------- MODULE MsgSwitchProofs ---------------------------
(***************************************************************************)
(* Theorems of MsgSwitch, for any number of jobs, whichever of them are    *)
(* relayed and whichever throw.                                            *)
(***************************************************************************)
EXTENDS MsgSwitch, SequenceTheorems, TLAPS

(* The message in the worker's hands while it runs one.                    *)
LEMMA RunningIsJob ==
    ASSUME TypeOK, wpc = "run"
    PROVE  running = <<running[1]>> /\ running[1] \in Jobs
<1>1. running \in Seq(Jobs) /\ Len(running) = 1
  BY DEF TypeOK
<1>2. QED
  BY <1>1, ElementOfSeq

(* The initial state has the right types.                                 *)
LEMMA InitTyped ==
    ASSUME Init
    PROVE  TypeOK
<1>1. posted \in 0 .. MaxJobs
  BY MsgSwitchAssumption DEF Init
<1>2. /\ job_q \in Seq(Jobs \cup {Quit}) /\ running \in Seq(Jobs) /\ pipe \in Seq(Jobs)
      /\ handled \in Seq(Jobs) /\ finished \subseteq Jobs
  BY DEF Init
<1>3. Len(running) = (IF wpc = "run" THEN 1 ELSE 0)
  BY DEF Init
<1>4. cbPending \in BOOLEAN /\ stalled \in BOOLEAN
  BY DEF Init
<1>5. QED
  BY <1>1, <1>2, <1>3, <1>4 DEF Init, TypeOK

(* TypeOK: the queue and the pipe hold messages, the worker has one in     *)
(* hand exactly while it runs it, and no worker is before the loop.        *)
THEOREM TypeCorrect == Spec => []TypeOK
<1>1. Init => TypeOK
  BY InitTyped
<1>2. TypeOK /\ [Next]_vars => TypeOK'
  <2> SUFFICES ASSUME TypeOK, [Next]_vars PROVE TypeOK'
    OBVIOUS
  <2> USE DEF TypeOK
  <2>1. CASE UNCHANGED vars
    BY <2>1 DEF vars
  <2>2. CASE create_inner_pipe \/ start_worker
    BY <2>2 DEF create_inner_pipe, start_worker
  <2>3. CASE TimerQueuesJob
    <3>1. posted + 1 \in Jobs /\ posted' \in 0 .. MaxJobs
      BY <2>3, MsgSwitchAssumption DEF TimerQueuesJob, Jobs
    <3>2. QED
      BY <2>3, <3>1 DEF TimerQueuesJob
  <2>4. CASE RunReadCallback \/ ReturnFromReadable
    BY <2>4 DEF RunReadCallback, ReturnFromReadable
  <2>5. CASE HandleJob \/ HandleJobThatThrows
    <3>1. pipe # <<>>
      BY <2>5 DEF HandleJob, HandleJobThatThrows
    <3>2. Head(pipe) \in Jobs /\ Tail(pipe) \in Seq(Jobs)
      BY <3>1
    <3>3. pipe' \in Seq(Jobs) /\ handled' \in Seq(Jobs)
      <4>1. pipe' = Tail(pipe) /\ handled' = Append(handled, Head(pipe))
        BY <2>5 DEF HandleJob, HandleJobThatThrows
      <4>2. QED
        BY <3>2, <4>1
    <3>4. stalled' \in BOOLEAN
      BY <2>5 DEF HandleJob, HandleJobThatThrows
    <3>5. CASE HandleJob
      BY <3>3, <3>5 DEF HandleJob
    <3>6. CASE HandleJobThatThrows
      <4>1. UNCHANGED <<wpc, posted, job_q, running, cbPending, finished>>
            /\ mpc' = "loop" /\ pairLock' = "free" /\ mpc = "drain"
        BY <3>6 DEF HandleJobThatThrows
      <4>2. QED
        BY <3>3, <3>4, <4>1
    <3>7. QED
      BY <2>5, <3>5, <3>6
  <2>6. CASE stop_worker
    BY <2>6 DEF stop_worker
  <2>7. CASE JoinWorker \/ DestroySwitch
    BY <2>7 DEF JoinWorker, DestroySwitch
  <2>8. CASE FetchJob
    <3>1. Head(job_q) \in Jobs /\ Tail(job_q) \in Seq(Jobs \cup {Quit})
      BY <2>8 DEF FetchJob
    <3>2. <<Head(job_q)>> \in Seq(Jobs) /\ Len(<<Head(job_q)>>) = 1
      BY <3>1
    <3>3. QED
      BY <2>8, <3>1, <3>2 DEF FetchJob
  <2>9. CASE FinishInWorker \/ DieInWorker
    <3>1. running[1] \in Jobs
      BY <2>9, RunningIsJob DEF FinishInWorker, DieInWorker
    <3>2. CASE FinishInWorker
      BY <3>1, <3>2 DEF FinishInWorker
    <3>3. CASE DieInWorker
      BY <3>1, <3>3 DEF DieInWorker
    <3>4. QED
      BY <2>9, <3>2, <3>3
  <2>10. CASE post_msg
    <3>1. running[1] \in Jobs
      BY <2>10, RunningIsJob DEF post_msg
    <3>2. QED
      BY <2>10, <3>1 DEF post_msg
  <2>11. CASE FetchQuit
    <3>1. Tail(job_q) \in Seq(Jobs \cup {Quit})
      BY <2>11 DEF FetchQuit
    <3>2. QED
      BY <2>11, <3>1 DEF FetchQuit
  <2>12. QED
    BY <2>1, <2>2, <2>3, <2>4, <2>5, <2>6, <2>7, <2>8, <2>9, <2>10, <2>11
    DEF Next, Main, OnReadable, Worker
<1>3. QED
  BY <1>1, <1>2, PTL DEF Spec

-----------------------------------------------------------------------------
(* Increasing sequences of job numbers: appending a larger one, taking one *)
(* out of the middle.                                                      *)
Elems(s) == {s[i] : i \in 1 .. Len(s)}

LEMMA IncreasingAppend ==
    ASSUME NEW s \in Seq(Nat), NEW v \in Nat, Increasing(s), \A x \in Elems(s) : x < v
    PROVE  /\ Increasing(Append(s, v))
           /\ Elems(Append(s, v)) = Elems(s) \cup {v}
<1>1. /\ Len(Append(s, v)) = Len(s) + 1 /\ Len(s) \in Nat
      /\ Append(s, v)[Len(s) + 1] = v
      /\ \A i \in 1 .. Len(s) : Append(s, v)[i] = s[i]
  OBVIOUS
<1>2. \A i \in 1 .. Len(s) : s[i] < v
  BY DEF Elems
<1>3. Increasing(Append(s, v))
  BY <1>1, <1>2 DEF Increasing
<1>4. Elems(Append(s, v)) = Elems(s) \cup {v}
  BY <1>1 DEF Elems
<1>5. QED
  BY <1>3, <1>4

LEMMA IncreasingRemove ==
    ASSUME NEW f \in Seq(Nat), NEW m \in Nat, NEW g \in Seq(Nat),
           Increasing((f \o <<m>>) \o g)
    PROVE  /\ Increasing(f \o g)
           /\ Elems(f \o g) = Elems((f \o <<m>>) \o g) \ {m}
           /\ m \in Elems((f \o <<m>>) \o g)
<1> DEFINE s == (f \o <<m>>) \o g
           t == f \o g
           n == Len(f) + 1
           at(i) == IF i < n THEN i ELSE i + 1
<1>1. /\ Len(f) \in Nat /\ Len(g) \in Nat /\ Len(t) = Len(f) + Len(g) /\ Len(s) = Len(t) + 1
      /\ s \in Seq(Nat) /\ t \in Seq(Nat)
  OBVIOUS
<1>2. s[n] = m
  OBVIOUS
<1>3. ASSUME NEW i \in 1 .. Len(t) PROVE at(i) \in 1 .. Len(s) /\ at(i) # n /\ t[i] = s[at(i)]
  BY <1>1
<1>4. ASSUME NEW k \in 1 .. Len(s), k # n PROVE \E i \in 1 .. Len(t) : at(i) = k
  <2>1. CASE k < n
    <3>1. k \in 1 .. Len(t) /\ at(k) = k
      BY <1>1, <2>1
    <3>2. QED
      BY <3>1
  <2>2. CASE k > n
    <3>1. k - 1 \in 1 .. Len(t) /\ at(k - 1) = k
      BY <1>1, <2>2
    <3>2. QED
      BY <3>1
  <2>3. QED
    BY <1>1, <1>4, <2>1, <2>2
<1>5. ASSUME NEW i \in 1 .. Len(s), NEW k \in 1 .. Len(s), i # k PROVE s[i] # s[k]
  <2> HIDE DEF s, t, n
  <2>1. s[i] \in Nat /\ s[k] \in Nat
    BY <1>1, ElementOfSeq
  <2>2. i < k \/ k < i
    BY <1>1, <1>5
  <2>3. Increasing(s)
    BY DEF s
  <2>4. s[i] < s[k] \/ s[k] < s[i]
    BY <2>2, <2>3 DEF Increasing
  <2>5. QED
    BY <2>1, <2>4
<1>6. n \in 1 .. Len(s)
  BY <1>1
<1> HIDE DEF s, t, n
<1>7. Increasing(t)
  <2>1. Increasing(s)
    BY DEF s
  <2>2. ASSUME NEW i \in 1 .. Len(t), NEW k \in 1 .. Len(t), i < k PROVE at(i) < at(k)
    <3>1. n \in Nat /\ Len(t) \in Nat /\ Len(s) \in Nat
      BY <1>1, <1>6
    <3>2. QED
      BY <2>2, <3>1
  <2>3. QED
    BY <1>1, <1>3, <2>1, <2>2 DEF Increasing
<1>8. Elems(t) = Elems(s) \ {m}
  <2>1. ASSUME NEW i \in 1 .. Len(t) PROVE t[i] \in Elems(s) \ {m}
    BY <1>2, <1>3, <1>5, <1>6 DEF Elems
  <2>2. ASSUME NEW k \in 1 .. Len(s), s[k] # m PROVE s[k] \in Elems(t)
    <3>1. PICK i \in 1 .. Len(t) : at(i) = k
      BY <1>2, <1>4, <2>2
    <3>2. t[i] = s[k]
      BY <1>3, <3>1
    <3>3. QED
      BY <3>2 DEF Elems
  <2>3. QED
    BY <2>1, <2>2 DEF Elems
<1>9. m \in Elems(s)
  BY <1>2, <1>6 DEF Elems
<1>10. QED
  BY <1>7, <1>8, <1>9 DEF s, t

(* Moving the head of the second of two adjacent sequences to the tail of  *)
(* the first changes nothing in their concatenation.                       *)
LEMMA MoveHead ==
    ASSUME NEW S, NEW f \in Seq(S), NEW g \in Seq(S), g # <<>>
    PROVE  /\ Append(f, Head(g)) \o Tail(g) = f \o g
           /\ (f \o <<Head(g)>>) \o Tail(g) = f \o g
<1>1. Head(g) \in S /\ Tail(g) \in Seq(S) /\ g = <<Head(g)>> \o Tail(g)
  OBVIOUS
<1>2. (f \o <<Head(g)>>) \o Tail(g) = f \o (<<Head(g)>> \o Tail(g))
  BY <1>1, ConcatAssociative
<1>3. Append(f, Head(g)) = f \o <<Head(g)>>
  BY <1>1, AppendIsConcat
<1>4. QED
  BY <1>1, <1>2, <1>3

-----------------------------------------------------------------------------
(* The trail under the steps: most leave it as it is, the two that queue a *)
(* message append to it, FinishInWorker and FetchQuit take one out.        *)
F == handled \o pipe

(* A sequence over a set is a sequence over a larger one.                  *)
LEMMA SeqOfMore ==
    ASSUME NEW S, NEW T, S \subseteq T, NEW s \in Seq(S)
    PROVE  s \in Seq(T)
<1>1. Len(s) \in Nat /\ s = [i \in 1 .. Len(s) |-> s[i]] /\ \A i \in 1 .. Len(s) : s[i] \in T
  BY ElementOfSeq
<1>2. QED
  BY <1>1

LEMMA TrailTyped ==
    ASSUME TypeOK
    PROVE  /\ F \in Seq(Jobs) /\ F \o running \in Seq(Jobs)
           /\ F \in Seq(Nat) /\ job_q \in Seq(Nat) /\ F \o running \in Seq(Nat)
           /\ Trail \in Seq(Nat) /\ Trail = (F \o running) \o job_q
           /\ OnTrail = Elems(Trail)
<1>1. Jobs \subseteq Nat /\ Jobs \cup {Quit} \subseteq Nat
  BY MsgSwitchAssumption DEF Jobs, Quit
<1>2. handled \in Seq(Jobs) /\ pipe \in Seq(Jobs) /\ running \in Seq(Jobs)
      /\ job_q \in Seq(Jobs \cup {Quit})
  BY DEF TypeOK
<1>3. F \in Seq(Jobs) /\ F \o running \in Seq(Jobs)
  BY <1>2 DEF F
<1>4. F \in Seq(Nat) /\ F \o running \in Seq(Nat) /\ job_q \in Seq(Nat)
  BY <1>1, <1>2, <1>3, SeqOfMore
<1>5. Trail = (F \o running) \o job_q
  BY DEF Trail, F
<1>6. Trail \in Seq(Nat)
  BY <1>4, <1>5
<1>7. OnTrail = Elems(Trail)
  BY DEF OnTrail, Elems
<1>8. QED
  BY <1>3, <1>4, <1>5, <1>6, <1>7

LEMMA IdleTrail ==
    ASSUME TypeOK, wpc # "run"
    PROVE  running = <<>> /\ Trail = F \o job_q
<1>1. running \in Seq(Jobs) /\ Len(running) = 0
  BY DEF TypeOK
<1>2. running = <<>>
  BY <1>1, EmptySeq
<1>3. F \in Seq(Jobs) /\ Trail = (F \o running) \o job_q
  BY TrailTyped
<1>4. F \o <<>> = F
  BY <1>3, ConcatEmptySeq
<1>5. QED
  BY <1>2, <1>3, <1>4

Stopping == mpc \in {"joining", "joined", "destroyed"}

OInv == /\ TypeOK /\ ResultsInOrder /\ EveryJobAccounted
        /\ Quit \in OnTrail => Stopping

LEMMA SameTrail ==
    ASSUME OInv, TypeOK', Trail' = Trail, UNCHANGED <<posted, finished>>,
           Stopping => Stopping'
    PROVE  OInv'
<1>1. ResultsInOrder'
  BY DEF OInv, ResultsInOrder
<1>2. OnTrail' = OnTrail
  BY DEF OnTrail
<1>3. EveryJobAccounted'
  BY <1>2 DEF OInv, EveryJobAccounted
<1>4. QED
  BY <1>1, <1>2, <1>3 DEF OInv

(* What is appended to the end of a concatenation is appended to its tail. *)
LEMMA AppendBehind ==
    ASSUME NEW p \in Seq(Nat), NEW q \in Seq(Nat), NEW v \in Nat
    PROVE  p \o Append(q, v) = Append(p \o q, v)
OBVIOUS

(* A step that appends the next job number, or Quit, to the queue.         *)
LEMMA QueueOne ==
    ASSUME TypeOK, NEW v \in Nat, job_q' = Append(job_q, v),
           UNCHANGED <<running, pipe, handled>>, ResultsInOrder,
           \A x \in OnTrail : x < v
    PROVE  ResultsInOrder' /\ OnTrail' = OnTrail \cup {v}
<1>1. Trail' = Append(Trail, v)
  <2>1. Trail' = (F \o running) \o Append(job_q, v)
    BY DEF Trail, F
  <2>2. F \o running \in Seq(Nat) /\ job_q \in Seq(Nat) /\ Trail = (F \o running) \o job_q
    BY TrailTyped
  <2>3. (F \o running) \o Append(job_q, v) = Append((F \o running) \o job_q, v)
    BY <2>2, AppendBehind
  <2>4. QED
    BY <2>1, <2>2, <2>3
<1>2. Trail \in Seq(Nat) /\ OnTrail = Elems(Trail)
  BY TrailTyped
<1>3. /\ Increasing(Append(Trail, v))
      /\ Elems(Append(Trail, v)) = Elems(Trail) \cup {v}
  BY <1>2, IncreasingAppend DEF ResultsInOrder
<1>4. OnTrail' = Elems(Append(Trail, v))
  BY <1>1 DEF OnTrail, Elems
<1>5. QED
  BY <1>1, <1>2, <1>3, <1>4 DEF ResultsInOrder

(* A step that takes a message out of the middle of the trail.             *)
LEMMA TakeOne ==
    ASSUME TypeOK, NEW f \in Seq(Nat), NEW m \in Nat, NEW g \in Seq(Nat),
           Trail = (f \o <<m>>) \o g, Trail' = f \o g, ResultsInOrder
    PROVE  ResultsInOrder' /\ OnTrail' = OnTrail \ {m} /\ m \in OnTrail
<1>1. OnTrail = Elems(Trail) /\ OnTrail' = Elems(f \o g)
  BY TrailTyped DEF OnTrail, Elems
<1>2. Increasing(f \o g) /\ Elems(f \o g) = Elems(Trail) \ {m} /\ m \in Elems(Trail)
  BY IncreasingRemove DEF ResultsInOrder
<1>3. QED
  BY <1>1, <1>2 DEF ResultsInOrder

(* The trail is ordered and complete, and a QuitWorkerMsg is on it only    *)
(* once the owner is stopping: each step keeps OInv.                       *)
THEOREM TrailInv == Spec => []OInv
<1>1. Init => OInv
  <2> SUFFICES ASSUME Init PROVE OInv
    OBVIOUS
  <2>1. TypeOK
    BY InitTyped
  <2>2. Trail = <<>>
    BY DEF Init, Trail
  <2>3. OnTrail = {} /\ ResultsInOrder
    BY <2>2 DEF OnTrail, ResultsInOrder, Increasing
  <2>4. EveryJobAccounted
    BY <2>3 DEF Init, EveryJobAccounted
  <2>5. QED
    BY <2>1, <2>3, <2>4 DEF OInv
<1>2. OInv /\ [Next]_vars /\ TypeOK' => OInv'
  <2> SUFFICES ASSUME OInv, [Next]_vars, TypeOK' PROVE OInv'
    OBVIOUS
  <2> USE DEF OInv
  <2>0. /\ \A x \in OnTrail : x \in 1 .. posted \/ x = Quit
        /\ posted \in Nat /\ MaxJobs \in Nat /\ posted <= MaxJobs
        /\ finished \subseteq 1 .. posted
    BY MsgSwitchAssumption DEF EveryJobAccounted, TypeOK
  <2>1. CASE UNCHANGED vars \/ create_inner_pipe \/ start_worker \/ RunReadCallback
             \/ ReturnFromReadable \/ JoinWorker \/ DestroySwitch
    <3>1. UNCHANGED <<handled, pipe, running, job_q, posted, finished>>
      BY <2>1 DEF vars, create_inner_pipe, start_worker, RunReadCallback,
                  ReturnFromReadable, JoinWorker, DestroySwitch
    <3>2. Stopping => Stopping'
      BY <2>1 DEF vars, create_inner_pipe, start_worker, RunReadCallback,
                  ReturnFromReadable, JoinWorker, DestroySwitch, Stopping
    <3>3. Trail' = Trail
      BY <3>1 DEF Trail
    <3>4. QED
      BY <3>1, <3>2, <3>3, SameTrail
  <2>2. CASE HandleJob \/ HandleJobThatThrows
    <3>1. /\ pipe # <<>> /\ mpc = "drain"
          /\ pipe' = Tail(pipe) /\ handled' = Append(handled, Head(pipe))
          /\ UNCHANGED <<running, job_q, posted, finished>>
      BY <2>2 DEF HandleJob, HandleJobThatThrows
    <3>2. F' = F
      <4>1. handled \in Seq(Jobs) /\ pipe \in Seq(Jobs)
        BY DEF TypeOK
      <4>2. QED
        BY <3>1, <4>1, MoveHead DEF F
    <3>3. Trail' = Trail
      BY <3>1, <3>2 DEF Trail, F
    <3>4. Stopping => Stopping'
      BY <3>1 DEF Stopping
    <3>5. QED
      BY <3>1, <3>3, <3>4, SameTrail
  <2>3. CASE TimerQueuesJob
    <3>1. /\ job_q' = Append(job_q, posted + 1) /\ posted' = posted + 1 /\ posted < MaxJobs
          /\ mpc = "loop" /\ UNCHANGED <<mpc, running, pipe, handled, finished>>
      BY <2>3 DEF TimerQueuesJob
    <3>2. Quit \notin OnTrail
      BY <3>1 DEF Stopping
    <3>3. \A x \in OnTrail : x < posted + 1
      BY <2>0, <3>2
    <3>4. posted + 1 \in Nat
      BY <2>0
    <3>5. ResultsInOrder' /\ OnTrail' = OnTrail \cup {posted + 1}
      BY <3>1, <3>3, <3>4, QueueOne
    <3>6. posted + 1 # Quit
      BY <2>0, <3>1 DEF Quit
    <3>7. EveryJobAccounted'
      <4>1. OnTrail' \ {Quit} = (OnTrail \ {Quit}) \cup {posted + 1}
        BY <3>5, <3>6
      <4>2. 1 .. posted + 1 = (1 .. posted) \cup {posted + 1} /\ posted + 1 \notin 1 .. posted
        BY <2>0
      <4>3. (OnTrail' \ {Quit}) \cup finished = 1 .. posted'
        BY <3>1, <4>1, <4>2 DEF EveryJobAccounted
      <4>4. OnTrail' \cap finished = {}
        BY <2>0, <3>5, <4>2 DEF EveryJobAccounted
      <4>5. QED
        BY <3>1, <4>3, <4>4 DEF EveryJobAccounted
    <3>8. QED
      BY <3>2, <3>5, <3>6, <3>7
  <2>4. CASE stop_worker
    <3>1. /\ job_q' = Append(job_q, Quit) /\ mpc = "loop" /\ mpc' = "joining"
          /\ UNCHANGED <<running, pipe, handled, finished, posted>>
      BY <2>4 DEF stop_worker
    <3>2. Quit \notin OnTrail
      BY <3>1 DEF Stopping
    <3>3. Quit \in Nat /\ \A x \in OnTrail : x < Quit
      BY <2>0, <3>2 DEF Quit
    <3>4. ResultsInOrder' /\ OnTrail' = OnTrail \cup {Quit}
      BY <3>1, <3>3, QueueOne
    <3>5. Quit \notin finished
      BY <2>0 DEF Quit
    <3>6. EveryJobAccounted'
      BY <3>1, <3>4, <3>5 DEF EveryJobAccounted
    <3>7. QED
      BY <3>1, <3>4, <3>6 DEF Stopping
  <2>5. CASE FetchJob
    <3>1. /\ wpc # "run" /\ job_q # <<>>
          /\ running' = <<Head(job_q)>> /\ job_q' = Tail(job_q)
          /\ UNCHANGED <<mpc, pipe, handled, finished, posted>>
      BY <2>5 DEF FetchJob
    <3>2. F \in Seq(Nat) /\ job_q \in Seq(Nat) /\ Trail = F \o job_q
      BY <3>1, IdleTrail, TrailTyped
    <3>3. Trail' = (F \o <<Head(job_q)>>) \o Tail(job_q)
      BY <3>1 DEF Trail, F
    <3>4. Trail' = Trail
      BY <3>1, <3>2, <3>3, MoveHead
    <3>5. QED
      BY <3>1, <3>4, SameTrail DEF Stopping
  <2>6. CASE post_msg
    <3>1. /\ wpc = "run" /\ pipe' = Append(pipe, running[1]) /\ running' = <<>>
          /\ UNCHANGED <<mpc, job_q, handled, finished, posted>>
      BY <2>6 DEF post_msg
    <3>2. running = <<running[1]>> /\ running[1] \in Jobs
      BY <3>1, RunningIsJob
    <3>3. handled \in Seq(Jobs) /\ pipe \in Seq(Jobs)
      BY DEF TypeOK
    <3>4. (handled \o Append(pipe, running[1])) \o <<>> = (handled \o pipe) \o <<running[1]>>
      BY <3>2, <3>3
    <3>5. Trail' = Trail
      BY <3>1, <3>2, <3>4 DEF Trail
    <3>6. QED
      BY <3>1, <3>5, SameTrail DEF Stopping
  <2>7. CASE FinishInWorker \/ DieInWorker
    <3>1. /\ wpc = "run" /\ running' = <<>> /\ finished' = finished \cup {running[1]}
          /\ UNCHANGED <<mpc, job_q, pipe, handled, posted>>
      BY <2>7 DEF FinishInWorker, DieInWorker
    <3>2. running = <<running[1]>> /\ running[1] \in Jobs
      BY <3>1, RunningIsJob
    <3>3. running[1] \in Nat /\ running[1] # Quit
      BY <2>0, <3>2 DEF Jobs, Quit
    <3>4. F \in Seq(Nat) /\ job_q \in Seq(Nat)
      BY TrailTyped
    <3>5. Trail = (F \o <<running[1]>>) \o job_q
      BY <3>2, TrailTyped
    <3>6. Trail' = F \o job_q
      <4>1. Trail' = (F \o <<>>) \o job_q
        BY <3>1 DEF Trail, F
      <4>2. F \o <<>> = F
        BY <3>4, ConcatEmptySeq
      <4>3. QED
        BY <4>1, <4>2
    <3>7. ResultsInOrder' /\ OnTrail' = OnTrail \ {running[1]} /\ running[1] \in OnTrail
      BY <3>3, <3>4, <3>5, <3>6, TakeOne
    <3>8. EveryJobAccounted'
      BY <3>1, <3>3, <3>7 DEF EveryJobAccounted
    <3>9. QED
      BY <3>1, <3>7, <3>8 DEF Stopping
  <2>8. CASE FetchQuit
    <3>1. /\ wpc # "run" /\ job_q # <<>> /\ Head(job_q) = Quit /\ job_q' = Tail(job_q)
          /\ UNCHANGED <<mpc, running, pipe, handled, finished, posted>>
      BY <2>8 DEF FetchQuit
    <3>2. F \in Seq(Nat) /\ job_q \in Seq(Nat) /\ Trail = F \o job_q /\ running = <<>>
      BY <3>1, IdleTrail, TrailTyped
    <3>3. Quit \in Nat /\ Tail(job_q) \in Seq(Nat)
      BY <2>0, <3>1, <3>2 DEF Quit
    <3>4. Trail = (F \o <<Quit>>) \o Tail(job_q)
      BY <3>1, <3>2, MoveHead
    <3>5. Trail' = F \o Tail(job_q)
      <4>1. Trail' = (F \o <<>>) \o Tail(job_q)
        BY <3>1, <3>2 DEF Trail, F
      <4>2. F \o <<>> = F
        BY <3>2, ConcatEmptySeq
      <4>3. QED
        BY <4>1, <4>2
    <3>6. ResultsInOrder' /\ OnTrail' = OnTrail \ {Quit}
      BY <3>2, <3>3, <3>4, <3>5, TakeOne
    <3>7. EveryJobAccounted'
      BY <3>1, <3>6 DEF EveryJobAccounted
    <3>8. QED
      BY <3>6, <3>7
  <2>9. QED
    BY <2>1, <2>2, <2>3, <2>4, <2>5, <2>6, <2>7, <2>8
    DEF Next, Main, OnReadable, Worker
<1>3. QED
  BY <1>1, <1>2, TypeCorrect, PTL DEF Spec

(* ResultsInOrder: relayed jobs reach the main thread in the order they    *)
(* were queued, none of them twice, whichever handlers throw and whenever  *)
(* the worker is stopped.                                                  *)
THEOREM JobsInOrder == Spec => []ResultsInOrder
<1>1. OInv => ResultsInOrder
  BY DEF OInv
<1>2. QED
  BY <1>1, TrailInv, PTL

(* EveryJobAccounted: a job that was posted is in the queue, in the        *)
(* worker's hands, in the pipe or has ended in one of the threads, and     *)
(* only one of these, whatever is thrown and whenever the worker stops.    *)
THEOREM NoJobLost == Spec => []EveryJobAccounted
<1>1. OInv => EveryJobAccounted
  BY DEF OInv
<1>2. QED
  BY <1>1, TrailInv, PTL

-----------------------------------------------------------------------------
(* A QuitWorkerMsg at the head of the queue is alone in it: a message      *)
(* behind it would be greater than Quit.                                   *)
LEMMA QuitAlone ==
    ASSUME OInv, wpc = "fetch", job_q # <<>>, Head(job_q) = Quit
    PROVE  Tail(job_q) = <<>> /\ Stopping
<1>1. TypeOK /\ F \in Seq(Jobs) /\ Trail = F \o job_q /\ job_q \in Seq(Jobs \cup {Quit})
  BY IdleTrail, TrailTyped DEF OInv, TypeOK
<1> DEFINE n == Len(F)
<1>2. n \in Nat /\ Len(job_q) \in Nat /\ Len(Trail) = n + Len(job_q)
      /\ \A i \in 1 .. Len(job_q) : Trail[n + i] = job_q[i]
  BY <1>1
<1>3. 1 \in 1 .. Len(job_q) /\ job_q[1] = Quit
  BY <1>1
<1> HIDE DEF n
<1>4. Len(job_q) = 1
  <2> SUFFICES ASSUME 2 \in 1 .. Len(job_q) PROVE FALSE
    <3>1. Len(job_q) \in Nat /\ Len(job_q) >= 1
      BY <1>2, <1>3
    <3>2. QED
      BY <3>1
  <2>1. n + 1 \in 1 .. Len(Trail) /\ n + 2 \in 1 .. Len(Trail) /\ n + 1 < n + 2
    BY <1>2
  <2>2. Trail[n + 1] < Trail[n + 2]
    BY <2>1 DEF OInv, ResultsInOrder, Increasing
  <2>3. Trail[n + 1] = Quit /\ Trail[n + 2] = job_q[2]
    BY <1>2, <1>3
  <2>4. job_q[2] \in Jobs \cup {Quit}
    BY <1>1, ElementOfSeq
  <2>5. QED
    BY <2>2, <2>3, <2>4, MsgSwitchAssumption DEF Jobs, Quit
<1>5. Tail(job_q) = <<>>
  <2>1. Tail(job_q) \in Seq(Jobs \cup {Quit}) /\ Len(Tail(job_q)) = 0
    BY <1>1, <1>4
  <2>2. QED
    BY <2>1, EmptySeq
<1>6. Quit \in OnTrail
  <2>1. n + 1 \in 1 .. Len(Trail) /\ Trail[n + 1] = Quit
    BY <1>2, <1>3
  <2>2. QED
    BY <2>1 DEF OnTrail
<1>7. QED
  BY <1>5, <1>6 DEF OInv

DInv == /\ mpc \in {"init", "piped", "failed"} => job_q = <<>> /\ pipe = <<>>
        /\ wpc = "gone" => job_q = <<>> /\ Stopping
        /\ mpc \in {"joined", "destroyed"} => wpc \in {"none", "gone", "dead"}
        /\ mpc \in {"joined", "destroyed"} /\ wpc = "none" => job_q = <<>>
        /\ mpc = "drain" => pairLock = "main"
        /\ NoJobWithoutCallback

(* What the two theorems below rest on: no message before the worker       *)
(* starts, none after it is gone, and on_readable runs under the lock that *)
(* a post needs.                                                           *)
THEOREM SwitchInv == Spec => []DInv
<1>1. Init => DInv
  BY DEF Init, DInv, NoJobWithoutCallback
<1>2. DInv /\ OInv /\ [Next]_vars => DInv'
  <2> SUFFICES ASSUME DInv, OInv, [Next]_vars PROVE DInv'
    OBVIOUS
  <2> USE DEF DInv, NoJobWithoutCallback, Stopping
  <2>0. TypeOK
    BY DEF OInv
  <2>1. CASE UNCHANGED vars
    BY <2>1 DEF vars
  <2>2. CASE create_inner_pipe
    BY <2>2 DEF create_inner_pipe
  <2>3. CASE start_worker
    BY <2>3 DEF start_worker
  <2>4. CASE TimerQueuesJob
    BY <2>4 DEF TimerQueuesJob
  <2>5. CASE RunReadCallback
    BY <2>5 DEF RunReadCallback
  <2>6. CASE HandleJob
    BY <2>6 DEF HandleJob
  <2>7. CASE HandleJobThatThrows
    BY <2>7 DEF HandleJobThatThrows
  <2>8. CASE ReturnFromReadable
    BY <2>8 DEF ReturnFromReadable
  <2>9. CASE stop_worker
    BY <2>9 DEF stop_worker
  <2>10. CASE JoinWorker
    BY <2>10 DEF JoinWorker
  <2>11. CASE DestroySwitch
    BY <2>0, <2>11 DEF DestroySwitch, TypeOK
  <2>12. CASE FetchJob
    BY <2>0, <2>12 DEF FetchJob, TypeOK
  <2>13. CASE FinishInWorker \/ DieInWorker
    BY <2>0, <2>13 DEF FinishInWorker, DieInWorker, TypeOK
  <2>14. CASE post_msg
    BY <2>0, <2>14 DEF post_msg, TypeOK
  <2>15. CASE FetchQuit
    <3>1. job_q' = <<>> /\ Stopping
      BY <2>15, QuitAlone DEF FetchQuit
    <3>2. QED
      BY <2>0, <2>15, <3>1 DEF FetchQuit, TypeOK
  <2>16. QED
    BY <2>1, <2>2, <2>3, <2>4, <2>5, <2>6, <2>7, <2>8, <2>9, <2>10, <2>11,
       <2>12, <2>13, <2>14, <2>15
    DEF Next, Main, OnReadable, Worker
<1>3. QED
  BY <1>1, <1>2, TrailInv, PTL DEF Spec

(* NoJobWithoutCallback: whenever the loop could sleep, jobs in the pipe   *)
(* have a read callback coming, unless a handler threw past on_readable.   *)
THEOREM CallbackComes == Spec => []NoJobWithoutCallback
<1>1. DInv => NoJobWithoutCallback
  BY DEF DInv
<1>2. QED
  BY <1>1, SwitchInv, PTL

(* StoppedMeansDrained: when stop_worker has returned, the worker has run  *)
(* everything that was queued, unless a job killed it.                     *)
THEOREM Drained == Spec => []StoppedMeansDrained
<1>1. DInv /\ TypeOK => StoppedMeansDrained
  <2> SUFFICES ASSUME DInv, TypeOK, mpc \in {"joined", "destroyed"}
               PROVE  /\ wpc \in {"none", "gone", "dead"} /\ running = <<>>
                      /\ wpc # "dead" => job_q = <<>>
    BY DEF StoppedMeansDrained
  <2>1. wpc \in {"none", "gone", "dead"} /\ (wpc # "dead" => job_q = <<>>)
    BY DEF DInv
  <2>2. running = <<>>
    BY <2>1, IdleTrail
  <2>3. QED
    BY <2>1, <2>2
<1>2. QED
  BY <1>1, SwitchInv, TypeCorrect, PTL

=============================================================================
